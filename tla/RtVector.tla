------------------------------ MODULE RtVector ------------------------------
(***************************************************************************)
(* rtVector.c: the growing array that holds the router's clients and       *)
(* listeners and the entries of the routing table.                         *)
(*                                                                         *)
(* The block of memory is modelled cell by cell: data[k] is the C cell     *)
(* data[k-1], a cell nobody wrote holds Garbage (realloc does not clear    *)
(* what it adds), and an access past the block is recorded in oob.         *)
(***************************************************************************)
EXTENDS Naturals, Sequences

CONSTANTS
    Items,        \* what the callers store (pointers that are never NULL)
    Null,         \* the NULL pointer
    Garbage,      \* what an uninitialised or foreign cell holds
    BlockSize,    \* RTVECT_BLOCKSIZE
    MaxCount      \* bound of the model: most items in the vector

ASSUME BlockAssumption == BlockSize \in Nat /\ BlockSize >= 2
ASSUME ItemsAssumption == Null \notin Items /\ Garbage \notin Items
ASSUME BoundAssumption == MaxCount \in Nat

VARIABLES
    data,         \* the block: <<>> stands for a NULL data pointer
    capacity,
    count,
    oob           \* history: some access was outside the block

vars == <<data, capacity, count, oob>>

Cells == Items \cup {Null, Garbage}

-----------------------------------------------------------------------------
\* Reading a cell; outside the block there is only garbage.
Cell(k) == IF k \in 1 .. Len(data) THEN data[k] ELSE Garbage

Block(n, v) == [k \in 1 .. n |-> v]

\* rtVector_Size, and rtVector_At with a C index.
Size == count
At(index) == IF index >= count THEN Null ELSE Cell(index + 1)

Create == data = <<>> /\ capacity = 0 /\ count = 0 /\ oob = FALSE

\* Bug to catch: the block grows one cell too late.
MustGrow_Late == count >= capacity

\* The test that decides whether the block must grow before a push.
MustGrow == count + 1 >= capacity

\* The block into which the next item is put, allocation having succeeded.
GrownData ==
    IF data = <<>> THEN Block(BlockSize, Null)
    ELSE IF MustGrow THEN data \o Block(BlockSize, Garbage)
    ELSE data

GrownCapacity ==
    IF data = <<>> THEN BlockSize
    ELSE IF MustGrow THEN capacity + BlockSize
    ELSE capacity

PushBack(item) ==
    /\ count < MaxCount
    /\ capacity' = GrownCapacity
    /\ data' = [k \in 1 .. Len(GrownData) |->
                    IF k = count + 1 THEN item ELSE GrownData[k]]
    /\ oob' = (oob \/ count + 1 > Len(GrownData))
    /\ count' = count + 1

\* calloc returned NULL: ENOMEM, but the capacity is already set.  (A realloc
\* that fails loses the block and every item in it: left out, see README.md.)
PushBackNoMemory ==
    /\ data = <<>>
    /\ capacity' = BlockSize
    /\ UNCHANGED <<data, count, oob>>

\* Bug to catch: the last item is put in the place of the one that goes.
RemoveItemAt_Swap(p) ==
    /\ p \in 1 .. count
    /\ data' = [data EXCEPT ![p] = data[count], ![count] = Null]
    /\ count' = count - 1
    /\ UNCHANGED <<capacity, oob>>

\* Shift down what follows cell p (this reads one cell past the last item),
\* then clear from the old count to the end of the block.
RemoveItemAt(p) ==
    /\ p \in 1 .. count
    /\ data' = [k \in 1 .. Len(data) |->
                    CASE k < p -> data[k]
                      [] k >= p /\ k <= count -> Cell(k + 1)
                      [] OTHER -> Null]
    /\ oob' = (oob \/ count + 1 > Len(data) \/ capacity > Len(data))
    /\ count' = count - 1
    /\ UNCHANGED capacity

\* The first cell that holds the item goes; no such cell, no change.
RemoveItem(item) ==
    \E p \in 1 .. count :
        /\ data[p] = item
        /\ \A q \in 1 .. p - 1 : data[q] # item
        /\ RemoveItemAt(p)

Next ==
    \/ \E item \in Items : PushBack(item)
    \/ PushBackNoMemory
    \/ \E p \in 1 .. count : RemoveItemAt(p)
    \/ \E item \in Items : RemoveItem(item)

Spec == Create /\ [][Next]_vars

-----------------------------------------------------------------------------
\* The vector is well formed: its fields are in range and data points to a
\* block of at least count cells (rtVector.c:22-27).
TypeOK ==
    /\ data \in Seq(Cells)
    /\ capacity \in Nat
    /\ count \in 0 .. MaxCount
    /\ oob \in BOOLEAN

\* No push writes and no removal reads outside the block: the removal's shift
\* reads data[count], which is why a push must grow the block one cell early
\* (rtVector.c:72 and :105-109).
InBounds == ~oob

\* The cells a caller can see through rtVector_At were all stored by a push:
\* no uninitialised cell of a grown block ever shows (rtVector.c:74, :105-117).
VisibleCellsWereStored == \A index \in 0 .. count - 1 : At(index) \in Items

\* The list the callers see through rtVector_Size and rtVector_At.
Visible == [k \in 1 .. Size |-> At(k - 1)]

List == INSTANCE RtList WITH list <- Visible

\* Seen through rtVector_At, every operation is the list operation: a push
\* appends, a removal takes out one position and keeps the others in order.
ImplementsList == List!Spec
=============================================================================
