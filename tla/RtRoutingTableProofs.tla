------------------------- MODULE RtRoutingTableProofs -------------------------
(***************************************************************************)
(* For every block size of at least two and any number of operations, no   *)
(* access of rtVector.c leaves the block, no uninitialised cell becomes    *)
(* visible, and the vector is a list to its callers.  The loop that        *)
(* matches a topic stays inside both strings, whatever they are, and for   *)
(* well-formed ones its answer is that of their tokens.                    *)
(***************************************************************************)
EXTENDS RtRoutingTable, WellFoundedInduction, TLAPS

(* The block, once there, has as many cells as capacity says and one more  *)
(* than there are items.  The spare cell is the one a removal reads last.  *)
BlockInv ==
    /\ data = <<>> => count = 0
    /\ data # <<>> => Len(data) = capacity /\ count < capacity

StoredInv == \A k \in 1 .. count : data[k] \in Items

IInv == TypeOK /\ BlockInv /\ StoredInv /\ InBounds

-----------------------------------------------------------------------------
(* The block a push writes to is a sequence of cells with room for the new *)
(* item and, after it, for one more; it keeps the cells there were.        *)
LEMMA GrownBlock ==
    ASSUME TypeOK, BlockInv
    PROVE  /\ GrownData \in Seq(Cells)
           /\ GrownCapacity \in Nat
           /\ Len(GrownData) = GrownCapacity
           /\ count + 1 < GrownCapacity
           /\ \A k \in 1 .. count : GrownData[k] = data[k]
<1> USE BlockAssumption, BoundAssumption
<1> count \in Nat
  BY DEF TypeOK
<1>1. CASE data = <<>>
  <2>1. GrownData = [k \in 1 .. BlockSize |-> Null] /\ GrownCapacity = BlockSize
    BY <1>1 DEF GrownData, GrownCapacity, Block
  <2>2. GrownData \in Seq(Cells) /\ Len(GrownData) = BlockSize
    BY <2>1 DEF Cells
  <2>3. count = 0
    BY <1>1 DEF BlockInv
  <2> QED
    BY <2>1, <2>2, <2>3
<1>2. CASE data # <<>> /\ MustGrow
  <2> DEFINE fresh == [k \in 1 .. BlockSize |-> Garbage]
  <2>1. GrownData = data \o fresh /\ GrownCapacity = capacity + BlockSize
    BY <1>2 DEF GrownData, GrownCapacity, Block
  <2>2. fresh \in Seq(Cells) /\ Len(fresh) = BlockSize
    BY DEF Cells
  <2>3. data \in Seq(Cells) /\ Len(data) = capacity /\ count < capacity /\ capacity \in Nat
    BY <1>2 DEF TypeOK, BlockInv
  <2> HIDE DEF fresh
  <2>4. /\ data \o fresh \in Seq(Cells)
        /\ Len(data \o fresh) = capacity + BlockSize
        /\ \A k \in 1 .. count : (data \o fresh)[k] = data[k]
    BY <2>2, <2>3
  <2> QED
    BY <2>1, <2>3, <2>4
<1>3. CASE data # <<>> /\ ~MustGrow
  BY <1>3 DEF GrownData, GrownCapacity, TypeOK, BlockInv, MustGrow
<1> QED
  BY <1>1, <1>2, <1>3

LEMMA PushBackKeepsIInv ==
    ASSUME IInv, NEW item \in Items, PushBack(item)
    PROVE  IInv'
<1> USE BlockAssumption, BoundAssumption
<1> DEFINE grown == GrownData
<1>1. /\ grown \in Seq(Cells) /\ GrownCapacity \in Nat
      /\ Len(grown) = GrownCapacity
      /\ count + 1 < GrownCapacity
      /\ \A k \in 1 .. count : grown[k] = data[k]
  BY GrownBlock DEF IInv
<1>2. /\ data' = [k \in 1 .. Len(grown) |-> IF k = count + 1 THEN item ELSE grown[k]]
      /\ capacity' = GrownCapacity
      /\ count' = count + 1 /\ count < MaxCount
      /\ oob' = (oob \/ count + 1 > Len(grown))
  BY DEF PushBack
<1>3. count \in Nat /\ oob = FALSE /\ item \in Cells
  BY DEF IInv, TypeOK, InBounds, Cells
<1> HIDE DEF grown
<1>4. data' \in Seq(Cells) /\ Len(data') = Len(grown)
  <2>1. \A k \in 1 .. Len(grown) : grown[k] \in Cells
    BY <1>1
  <2> QED
    BY <1>1, <1>2, <1>3, <2>1
<1>5. TypeOK' /\ InBounds'
  <2>1. ~(count + 1 > Len(grown)) /\ capacity' \in Nat /\ count' \in 0 .. MaxCount
    BY <1>1, <1>2, <1>3
  <2>2. oob' = FALSE
    BY <1>2, <1>3, <2>1, Zenon
  <2> QED
    BY <1>4, <2>1, <2>2 DEF TypeOK, InBounds
<1>6. BlockInv'
  BY <1>1, <1>2, <1>3, <1>4 DEF BlockInv
<1>7. StoredInv'
  BY <1>1, <1>2, <1>3 DEF IInv, StoredInv
<1> QED
  BY <1>5, <1>6, <1>7 DEF IInv

LEMMA RemoveItemAtKeepsIInv ==
    ASSUME IInv, NEW p \in 1 .. count, RemoveItemAt(p)
    PROVE  IInv'
<1> USE BlockAssumption, BoundAssumption
<1>1. /\ data \in Seq(Cells) /\ count \in Nat /\ capacity \in Nat /\ count <= MaxCount
      /\ data # <<>> /\ Len(data) = capacity /\ count < capacity
      /\ oob = FALSE
      /\ \A k \in 1 .. count : data[k] \in Items
  BY DEF IInv, TypeOK, BlockInv, InBounds, StoredInv
<1>2. /\ data' = [k \in 1 .. Len(data) |->
                    CASE k < p -> data[k]
                      [] k >= p /\ k <= count -> Cell(k + 1)
                      [] OTHER -> Null]
      /\ count' = count - 1 /\ capacity' = capacity
      /\ oob' = (oob \/ count + 1 > Len(data) \/ capacity > Len(data))
  BY DEF RemoveItemAt
<1>3. \A k \in 1 .. Len(data) : Cell(k) = data[k] /\ Cell(k) \in Cells
  BY <1>1 DEF Cell
<1>4. \A k \in 1 .. Len(data) :
        /\ k < p => data'[k] = data[k]
        /\ k >= p /\ k <= count => data'[k] = data[k + 1]
        /\ k > count => data'[k] = Null
  BY <1>1, <1>2, <1>3, SMTT(40)
<1>5. data' \in Seq(Cells) /\ Len(data') = Len(data)
  <2>1. \A k \in 1 .. Len(data) : data'[k] \in Cells
    BY <1>1, <1>4 DEF Cells
  <2> QED
    BY <1>1, <1>2, <2>1, SMTT(30)
<1>6. TypeOK' /\ InBounds'
  <2>1. /\ ~(count + 1 > Len(data)) /\ ~(capacity > Len(data))
        /\ capacity' \in Nat /\ count' \in 0 .. MaxCount
    BY <1>1, <1>2, SMTT(40)
  <2>2. oob' = FALSE
    BY <1>1, <1>2, <2>1, Zenon
  <2> QED
    BY <1>5, <2>1, <2>2 DEF TypeOK, InBounds
<1>7. BlockInv'
  BY <1>1, <1>2, <1>5 DEF BlockInv
<1>8. StoredInv'
  <2> SUFFICES ASSUME NEW k \in 1 .. count - 1 PROVE data'[k] \in Items
    BY <1>2 DEF StoredInv
  <2> QED
    BY <1>1, <1>4
<1> QED
  BY <1>6, <1>7, <1>8 DEF IInv
-----------------------------------------------------------------------------
(* The vector starts in, and every operation keeps, the inductive          *)
(* invariant.                                                              *)
LEMMA StepKeepsIInv ==
    ASSUME IInv, [Next]_vars
    PROVE  IInv'
<1>1. ASSUME NEW item \in Items, PushBack(item) PROVE IInv'
  BY <1>1, PushBackKeepsIInv
<1>2. CASE PushBackNoMemory
  BY <1>2, BlockAssumption
     DEF PushBackNoMemory, IInv, TypeOK, BlockInv, StoredInv, InBounds
<1>3. ASSUME NEW p \in 1 .. count, RemoveItemAt(p) PROVE IInv'
  BY <1>3, RemoveItemAtKeepsIInv
<1>4. ASSUME NEW item \in Items, RemoveItem(item) PROVE IInv'
  BY <1>3, <1>4 DEF RemoveItem
<1>5. CASE UNCHANGED vars
  BY <1>5 DEF vars, IInv, TypeOK, BlockInv, StoredInv, InBounds
<1> QED
  BY <1>1, <1>2, <1>3, <1>4, <1>5 DEF Next

LEMMA InductiveInvariant == Spec => []IInv
<1>1. ASSUME Create PROVE IInv
  <2>1. data \in Seq(Cells) /\ capacity \in Nat /\ count \in 0 .. MaxCount
    BY <1>1, BoundAssumption DEF Create
  <2>2. oob = FALSE /\ BlockInv /\ StoredInv
    BY <1>1 DEF Create, BlockInv, StoredInv
  <2> QED
    BY <2>1, <2>2 DEF IInv, TypeOK, InBounds
<1>2. IInv /\ [Next]_vars => IInv'
  BY StepKeepsIInv
<1> QED
  BY <1>1, <1>2, PTL DEF Spec

(* The fields of the vector stay in range (rtVector.c:22-27).              *)
THEOREM VectorTypeOK == Spec => []TypeOK
<1>1. IInv => TypeOK
  BY DEF IInv
<1> QED
  BY <1>1, InductiveInvariant, PTL

(* No push writes and no removal reads outside the block, whatever the     *)
(* order of operations (rtVector.c:72, :81, :105-117).                     *)
THEOREM VectorInBounds == Spec => []InBounds
<1>1. IInv => InBounds
  BY DEF IInv
<1> QED
  BY <1>1, InductiveInvariant, PTL

(* What rtVector_At shows was stored by a push (rtVector.c:122-128).       *)
THEOREM VectorVisibleCells == Spec => []VisibleCellsWereStored
<1>1. IInv => VisibleCellsWereStored
  BY DEF IInv, TypeOK, BlockInv, StoredInv, VisibleCellsWereStored, At, Cell
<1> QED
  BY <1>1, InductiveInvariant, PTL

-----------------------------------------------------------------------------
(* Under the invariant the visible list is the stored part of the block.   *)
LEMMA VisibleList ==
    ASSUME IInv
    PROVE  /\ Visible = [k \in 1 .. count |-> data[k]]
           /\ Visible \in Seq(Items)
<1>1. count \in Nat /\ data \in Seq(Cells) /\ count <= Len(data)
  BY DEF IInv, TypeOK, BlockInv
<1>2. \A k \in 1 .. count : At(k - 1) = data[k] /\ data[k] \in Items
  <2> TAKE k \in 1 .. count
  <2>1. k - 1 < count /\ (k - 1) + 1 = k /\ k \in 1 .. Len(data)
    BY <1>1
  <2> QED
    BY <1>1, <2>1 DEF At, Cell, IInv, StoredInv
<1>3. Visible = [k \in 1 .. count |-> At(k - 1)]
  BY DEF Visible, Size
<1>4. Visible = [k \in 1 .. count |-> data[k]]
  BY <1>2, <1>3
<1> QED
  BY <1>1, <1>2, <1>4

(* The same for the state after a step.                                    *)
LEMMA VisibleListNext ==
    ASSUME IInv'
    PROVE  Visible' = [k \in 1 .. count' |-> data'[k]]
<1>1. count' \in Nat /\ data' \in Seq(Cells) /\ count' <= Len(data')
  BY DEF IInv, TypeOK, BlockInv
<1>2. \A k \in 1 .. count' : At(k - 1)' = data'[k]
  <2> TAKE k \in 1 .. count'
  <2>1. k - 1 < count' /\ (k - 1) + 1 = k /\ k \in 1 .. Len(data')
    BY <1>1
  <2> QED
    BY <1>1, <2>1 DEF At, Cell
<1>3. Visible' = [k \in 1 .. count' |-> At(k - 1)']
  BY DEF Visible, Size
<1> QED
  BY <1>2, <1>3

(* A push appends to the visible list.                                     *)
LEMMA PushBackAppends ==
    ASSUME IInv, IInv', NEW item \in Items, PushBack(item)
    PROVE  Visible' = Append(Visible, item)
<1>1. count \in Nat /\ count' = count + 1
  BY DEF IInv, TypeOK, PushBack
<1>2. /\ \A k \in 1 .. count : data'[k] = data[k]
      /\ data'[count + 1] = item
  <2>1. /\ GrownData \in Seq(Cells) /\ GrownCapacity \in Nat
        /\ Len(GrownData) = GrownCapacity /\ count + 1 < GrownCapacity
        /\ \A k \in 1 .. count : GrownData[k] = data[k]
    BY GrownBlock DEF IInv
  <2> QED
    BY <1>1, <2>1 DEF PushBack
<1>3. Visible = [k \in 1 .. count |-> data[k]] /\ Visible \in Seq(Items)
  BY VisibleList
<1>4. Visible' = [k \in 1 .. count + 1 |-> data'[k]]
  BY <1>1, VisibleListNext
<1>5. Append(Visible, item)
        = [k \in 1 .. count + 1 |-> IF k = count + 1 THEN item ELSE Visible[k]]
  BY <1>1, <1>3
<1> QED
  BY <1>1, <1>2, <1>3, <1>4, <1>5

(* A removal takes one position out of the visible list.                   *)
LEMMA RemoveItemAtRemoves ==
    ASSUME IInv, IInv', NEW p \in 1 .. count, RemoveItemAt(p)
    PROVE  /\ p \in 1 .. Len(Visible)
           /\ Visible' = SubSeq(Visible, 1, p - 1)
                           \o SubSeq(Visible, p + 1, Len(Visible))
<1>1. count \in Nat /\ count' = count - 1
  BY DEF IInv, TypeOK, RemoveItemAt
<1>2. Visible = [k \in 1 .. count |-> data[k]] /\ Visible \in Seq(Items)
  BY VisibleList
<1>3. Len(Visible) = count
  BY <1>1, <1>2
<1>4. Visible' = [k \in 1 .. count - 1 |-> data'[k]]
  BY <1>1, VisibleListNext
<1>5. \A k \in 1 .. count - 1 :
        data'[k] = IF k < p THEN data[k] ELSE data[k + 1]
  <2>1. /\ data \in Seq(Cells) /\ Len(data) = capacity /\ count < capacity
        /\ capacity \in Nat
    BY <1>1 DEF IInv, TypeOK, BlockInv
  <2>2. data' = [k \in 1 .. Len(data) |->
                    CASE k < p -> data[k]
                      [] k >= p /\ k <= count -> Cell(k + 1)
                      [] OTHER -> Null]
    BY DEF RemoveItemAt
  <2>3. \A k \in 1 .. count - 1 : k \in 1 .. Len(data) /\ Cell(k + 1) = data[k + 1]
    BY <1>1, <2>1 DEF Cell
  <2> QED
    BY <1>1, <2>1, <2>2, <2>3
<1>6. /\ SubSeq(Visible, 1, p - 1) = [k \in 1 .. p - 1 |-> Visible[k]]
      /\ SubSeq(Visible, p + 1, count) = [k \in 1 .. count - p |-> Visible[k + p]]
  BY <1>1, <1>2, <1>3
<1>7. SubSeq(Visible, 1, p - 1) \o SubSeq(Visible, p + 1, count)
        = [k \in 1 .. count - 1 |-> IF k < p THEN Visible[k] ELSE Visible[k + 1]]
  BY <1>1, <1>2, <1>3, <1>6
<1> QED
  BY <1>1, <1>2, <1>3, <1>4, <1>5, <1>7

(* The vector implements the list: each operation is the list operation of *)
(* the same name, and a push that finds no memory changes nothing a caller *)
(* can see (rtVector.c:61-120 against rtVector.h).                         *)
THEOREM VectorImplementsList == Spec => ImplementsList
<1>1. Create => List!Init
  BY DEF Create, List!Init, Visible, Size
<1>2. ASSUME IInv, IInv', [Next]_vars PROVE [List!Next]_Visible
  <2>1. ASSUME NEW item \in Items, PushBack(item) PROVE List!Next
    BY <1>2, <2>1, PushBackAppends DEF List!Next, List!PushBack
  <2>2. CASE PushBackNoMemory
    BY <1>2, <2>2 DEF PushBackNoMemory, Visible, Size, At, Cell
  <2>3. ASSUME NEW p \in 1 .. count, RemoveItemAt(p) PROVE List!Next
    BY <1>2, <2>3, RemoveItemAtRemoves DEF List!Next, List!RemoveItemAt
  <2>4. ASSUME NEW item \in Items, RemoveItem(item) PROVE List!Next
    BY <2>3, <2>4 DEF RemoveItem
  <2>5. CASE UNCHANGED vars
    BY <2>5 DEF vars, Visible, Size, At, Cell
  <2> QED
    BY <1>2, <2>1, <2>2, <2>3, <2>4, <2>5 DEF Next
<1> QED
  BY <1>1, <1>2, InductiveInvariant, PTL DEF Spec, ImplementsList, List!Spec
-----------------------------------------------------------------------------
(***************************************************************************)
(* The matching of topics.                                                 *)
(***************************************************************************)
IsString(s) == Match!IsString(s)

StringsInv == IsString(topic) /\ IsString(exp)

MatchInv == StringsInv /\ Match!PointersStayInside

(* The first loop stops at a dot or at the terminator, not behind where it *)
(* started from.                                                           *)
LEMMA SkipStaysInside ==
    ASSUME StringsInv, NEW p \in 1 .. Len(topic) + 1
    PROVE  LET q == Match!SkipToken(p) IN
           /\ q \in p .. Len(topic) + 1
           /\ q <= Len(topic) => topic[q] = Dot
           /\ \A r \in p .. q - 1 : topic[r] # Dot
<1> DEFINE Before == {pair \in Nat \X Nat : pair[1] < pair[2]}
           dots == {q \in p .. Len(topic) : topic[q] = Dot} \cup {Len(topic) + 1}
<1>1. Len(topic) \in Nat
  BY DEF StringsInv, IsString, Match!IsString
<1>2. IsWellFoundedOn(Before, Nat)
  BY NatLessThanWellFounded DEF OpToRel
<1>3. dots \subseteq p .. Len(topic) + 1 /\ dots \subseteq Nat /\ dots # {}
  BY <1>1
<1>4. PICK q \in dots : \A r \in dots : <<r, q>> \notin Before
  <2> HIDE DEF Before, dots
  <2> QED
    BY <1>2, <1>3, WFMin
<1>5. \A r \in dots : q <= r
  <2> SUFFICES ASSUME NEW r \in dots PROVE q <= r
    OBVIOUS
  <2>1. r \in Nat /\ q \in Nat
    BY <1>3
  <2>2. <<r, q>> \in Nat \X Nat /\ ~(<<r, q>>[1] < <<r, q>>[2])
    BY <1>4, <2>1
  <2> QED
    BY <2>1, <2>2
<1>6. Match!SkipToken(p) \in dots /\ \A r \in dots : Match!SkipToken(p) <= r
  <2> DEFINE least == CHOOSE x \in dots : \A y \in dots : x =< y
  <2>1. Match!SkipToken(p) = least
    BY DEF Match!SkipToken, Match!Min
  <2>2. least \in dots /\ \A y \in dots : least =< y
    <3> HIDE DEF dots
    <3> QED
      BY <1>5
  <2> QED
    BY <2>1, <2>2
<1> QED
  BY <1>1, <1>3, <1>6

LEMMA MatchInvInit == ASSUME Match!InputsAreStrings, Match!Init PROVE MatchInv
<1>1. PICK input \in Inputs : topic = input[1] /\ exp = input[2]
  BY DEF Match!Init
<1>2. IsString(topic) /\ IsString(exp)
  BY <1>1 DEF Match!InputsAreStrings, IsString
<1>3. t = 1 /\ e = 1
  BY DEF Match!Init
<1> QED
  BY <1>2, <1>3 DEF MatchInv, StringsInv, IsString, Match!IsString, Match!PointersStayInside

(* After the two tests for wildcards both pointers are where they were or  *)
(* further on, and still inside.                                           *)
LEMMA WildcardsStayInside ==
    ASSUME Match!CharsDiffer, MatchInv, Match!Char(topic, t) # Nul, Match!Char(exp, e) # Nul
    PROVE  Match!AfterGt \in (1 .. Len(topic) + 1) \X (1 .. Len(exp) + 1)
<1>1. Len(topic) \in Nat /\ Len(exp) \in Nat /\ t \in 1 .. Len(topic) + 1
      /\ e \in 1 .. Len(exp)
  BY DEF MatchInv, StringsInv, IsString, Match!IsString, Match!PointersStayInside, Match!Char
<1>2. Match!SkipToken(t) \in 1 .. Len(topic) + 1
  BY <1>1, SkipStaysInside DEF MatchInv
<1>3. /\ Match!AfterStar \in (1 .. Len(topic) + 1) \X (1 .. Len(exp) + 1)
  BY <1>1, <1>2 DEF Match!AfterStar
<1>4. ASSUME Match!Char(exp, Match!AfterStar[2]) = GtChar
      PROVE  Match!AfterGt \in (1 .. Len(topic) + 1) \X (1 .. Len(exp) + 1)
  <2>1. Match!AfterStar[2] <= Len(exp)
    BY <1>4 DEF Match!Char, Match!CharsDiffer
  <2> QED
    BY <1>1, <1>3, <1>4, <2>1 DEF Match!AfterGt
<1> QED
  BY <1>3, <1>4 DEF Match!AfterGt

LEMMA MatchInvStep ==
    ASSUME Match!CharsDiffer, MatchInv, [Match!Next]_Match!vars
    PROVE  MatchInv'
<1> USE DEF MatchInv, StringsInv, IsString, Match!IsString, Match!PointersStayInside
<1>1. ASSUME Match!Advance PROVE MatchInv'
  <2>1. PICK q \in 1 .. Len(topic) + 1, r \in 1 .. Len(exp) + 1 : Match!AfterGt = <<q, r>>
    BY <1>1, WildcardsStayInside, SMTT(40) DEF Match!Advance
  <2>2. Match!Char(topic, q) = Match!Char(exp, r)
        /\ ~(Match!Char(topic, q) = Nul /\ Match!Char(exp, r) = Nul)
    BY <1>1, <2>1 DEF Match!Advance, Match!BothEnded
  <2>3. q <= Len(topic) /\ r <= Len(exp)
    BY <2>2 DEF Match!Char
  <2> QED
    BY <1>1, <2>1, <2>3 DEF Match!Advance
<1>2. ASSUME Match!Break PROVE MatchInv'
  BY <1>2, WildcardsStayInside DEF Match!Break
<1>3. CASE Match!LoopEnds
  BY <1>3 DEF Match!LoopEnds
<1>4. CASE UNCHANGED Match!vars
  BY <1>4 DEF Match!vars
<1> QED
  BY <1>1, <1>2, <1>3, <1>4 DEF Match!Next

(* Whatever the strings, neither pointer of the matching loop goes past    *)
(* the terminator of its string (rtRoutingTree.c:52-86).                   *)
THEOREM MatchStaysInside ==
    ASSUME Match!InputsAreStrings, Match!CharsDiffer
    PROVE  Match!Spec => []PointersStayInside
<1>1. Match!Init => MatchInv
  BY MatchInvInit
<1>2. MatchInv => PointersStayInside
  BY DEF MatchInv, PointersStayInside
<1>3. MatchInv /\ [Match!Next]_Match!vars => MatchInv'
  BY MatchInvStep
<1> QED
  BY <1>1, <1>2, <1>3, PTL DEF Match!Spec

-----------------------------------------------------------------------------
(***************************************************************************)
(* The answer.  The tokens before the k-th have been found to fit, and the *)
(* first j characters of the k-th tokens to be the same.                   *)
(***************************************************************************)
Spelled(tt, et, tp, ep) ==
    /\ Match!IsTopic(tt) /\ Match!Spells(topic, tt, tp)
    /\ Match!IsExpression(et) /\ Match!Spells(exp, et, ep)

Fits(tt, et, k) == et[k] = Match!Star \/ et[k] = tt[k]

SameSoFar(tt, et, k, j) ==
    /\ k \in 1 .. Len(tt) /\ k \in 1 .. Len(et)
    /\ \A i \in 1 .. k - 1 : Fits(tt, et, i)
    /\ j \in 0 .. Len(tt[k]) /\ j \in 0 .. Len(et[k])
    /\ j # 0 => Match!IsName(et[k])
    /\ \A i \in 1 .. j : tt[k][i] = et[k][i]

AtPlace(tt, et, tp, ep, k, j) == SameSoFar(tt, et, k, j) /\ t = tp[k] + j /\ e = ep[k] + j

Going(tt, et, tp, ep) ==
    \E k \in 1 .. Len(tt) : \E j \in 0 .. Len(tt[k]) : AtPlace(tt, et, tp, ep, k, j)

AnswerInv(tt, et, tp, ep) ==
    Spelled(tt, et, tp, ep) =>
        IF running THEN Going(tt, et, tp, ep) ELSE Match!Answers(tt, et)

(* The characters of the k-th token, and the one behind it.                *)
LEMMA CharOfToken ==
    ASSUME NEW s, IsString(s), NEW tokens, Len(tokens) \in Nat, NEW places,
           Match!Spells(s, tokens, places),
           NEW k \in 1 .. Len(tokens), Len(tokens[k]) \in Nat, NEW i \in 0 .. Len(tokens[k])
    PROVE  /\ places[k] + i \in 1 .. Len(s) + 1
           /\ i < Len(tokens[k]) => /\ places[k] + i <= Len(s)
                                   /\ Match!Char(s, places[k] + i) = tokens[k][i + 1]
                                   /\ s[places[k] + i] = tokens[k][i + 1]
           /\ i = Len(tokens[k]) /\ k = Len(tokens) =>
                Match!Char(s, places[k] + i) = Nul /\ places[k] + i = Len(s) + 1
           /\ i = Len(tokens[k]) /\ k # Len(tokens) =>
                /\ Match!Char(s, places[k] + i) = Dot /\ places[k] + i <= Len(s)
                /\ s[places[k] + i] = Dot /\ places[k + 1] = places[k] + i + 1
<1> USE DEF IsString, Match!IsString
<1>1. /\ places[k] \in 1 .. Len(s)
      /\ \A p \in 1 .. Len(tokens[k]) : s[places[k] + p - 1] = tokens[k][p]
      /\ IF k = Len(tokens) THEN places[k] + Len(tokens[k]) = Len(s) + 1
         ELSE /\ places[k] + Len(tokens[k]) \in 1 .. Len(s)
              /\ s[places[k] + Len(tokens[k])] = Dot
              /\ places[k + 1] = places[k] + Len(tokens[k]) + 1
  BY DEF Match!Spells
<1>2. places[k] + i \in 1 .. Len(s) + 1
  BY <1>1, SMTT(40)
<1>3. ASSUME i < Len(tokens[k])
      PROVE  places[k] + i <= Len(s) /\ s[places[k] + i] = tokens[k][i + 1]
  <2>1. i + 1 \in 1 .. Len(tokens[k]) /\ places[k] + (i + 1) - 1 = places[k] + i
    BY <1>1, <1>3
  <2>2. s[places[k] + i] = tokens[k][i + 1]
    BY <1>1, <2>1
  <2> QED
    BY <1>1, <1>3, <2>2, SMTT(40)
<1> QED
  BY <1>1, <1>2, <1>3 DEF Match!Char

LEMMA Offset ==
    ASSUME NEW at \in Nat, NEW len \in Nat, NEW r \in at .. at + len - 1
    PROVE  \E i \in 0 .. len - 1 : r = at + i
<1>1. r - at \in 0 .. len - 1 /\ r = at + (r - at)
  OBVIOUS
<1> QED
  BY <1>1

(* What one turn makes of the pointers, according to the token of the      *)
(* expression it is at.                                                    *)
LEMMA Turn ==
    ASSUME Match!CharsDiffer, StringsInv, NEW tt, NEW et, NEW tp, NEW ep, NEW k, NEW j,
           Spelled(tt, et, tp, ep), AtPlace(tt, et, tp, ep, k, j)
    PROVE  \/ /\ et[k] = Match!Gt /\ k = Len(et)
              /\ Match!AfterGt = <<Len(topic) + 1, Len(exp) + 1>>
           \/ /\ et[k] = Match!Star /\ Len(et[k]) = 1
              /\ Match!AfterGt = <<tp[k] + Len(tt[k]), ep[k] + 1>>
           \/ Match!IsName(et[k]) /\ Match!AfterGt = <<t, e>>
<1> USE DEF StringsInv
<1>1. /\ Len(tt) \in Nat /\ k \in 1 .. Len(tt) /\ Match!IsName(tt[k])
      /\ Len(et) \in Nat /\ k \in 1 .. Len(et)
      /\ Match!IsName(et[k]) \/ et[k] = Match!Star \/ (et[k] = Match!Gt /\ k = Len(et))
      /\ Match!Spells(topic, tt, tp) /\ Match!Spells(exp, et, ep)
  BY DEF Spelled, AtPlace, SameSoFar, Match!IsTopic, Match!IsExpression
<1>2. Len(topic) \in Nat /\ Len(exp) \in Nat
  BY DEF IsString, Match!IsString
<1>3. Len(tt[k]) \in Nat \ {0} /\ j \in 0 .. Len(tt[k]) /\ j \in 0 .. Len(et[k])
      /\ t = tp[k] + j /\ e = ep[k] + j
  BY <1>1 DEF Match!IsName, AtPlace, SameSoFar
<1>7. IsString(topic) /\ IsString(exp)
  OBVIOUS
<1>8. \A i \in 0 .. Len(tt[k]) :
        /\ i < Len(tt[k]) => /\ tp[k] + i <= Len(topic)
                            /\ topic[tp[k] + i] = tt[k][i + 1]
        /\ i = Len(tt[k]) => tp[k] + i = Len(topic) + 1
                            \/ (tp[k] + i <= Len(topic) /\ topic[tp[k] + i] = Dot)
  BY <1>1, <1>3, <1>7, CharOfToken
<1>9. ASSUME Len(et[k]) \in Nat
      PROVE  \A i \in 0 .. Len(et[k]) :
                /\ i < Len(et[k]) => Match!Char(exp, ep[k] + i) = et[k][i + 1]
                /\ i = Len(et[k]) => Match!Char(exp, ep[k] + i) \in {Dot, Nul}
                /\ i = Len(et[k]) /\ k = Len(et) => ep[k] + i = Len(exp) + 1
  BY <1>1, <1>7, <1>9, CharOfToken
<1>10. tp[k] \in 1 .. Len(topic) /\ ep[k] \in 1 .. Len(exp)
  BY <1>1 DEF Match!Spells
<1>4. CASE et[k] = Match!Star /\ ~Match!IsName(et[k])
  <2>1. j = 0 /\ Len(et[k]) = 1 /\ et[k][1] = StarChar
    BY <1>3, <1>4 DEF AtPlace, SameSoFar, Match!Star
  <2>2. /\ Match!Char(exp, e) = StarChar
        /\ Match!Char(exp, e + 1) \in {Dot, Nul}
    <3>1. Match!Char(exp, ep[k] + 0) = et[k][0 + 1]
      BY <1>9, <2>1
    <3>2. Match!Char(exp, ep[k] + 1) \in {Dot, Nul}
      BY <1>9, <2>1
    <3>3. ep[k] \in Nat
      BY <1>2, <1>10
    <3> QED
      BY <1>3, <2>1, <3>1, <3>2, <3>3
  <2>3. Match!SkipToken(t) = tp[k] + Len(tt[k])
    <3>1. tp[k] \in 1 .. Len(topic) /\ t = tp[k]
      BY <1>1, <1>3, <2>1 DEF Match!Spells
    <3>2. /\ Match!SkipToken(t) \in tp[k] .. Len(topic) + 1
          /\ Match!SkipToken(t) <= Len(topic) => topic[Match!SkipToken(t)] = Dot
          /\ \A r \in tp[k] .. Match!SkipToken(t) - 1 : topic[r] # Dot
      BY <1>2, <3>1, SkipStaysInside, SMTT(40)
    <3>3. tp[k] + Len(tt[k]) = Len(topic) + 1 \/ (tp[k] + Len(tt[k]) <= Len(topic) /\ topic[tp[k] + Len(tt[k])] = Dot)
      BY <1>3, <1>8
    <3>4. ASSUME NEW r \in tp[k] .. tp[k] + Len(tt[k]) - 1 PROVE r <= Len(topic) /\ topic[r] # Dot
      <4>1. tp[k] \in Nat /\ Len(tt[k]) \in Nat
        BY <1>2, <1>3, <3>1
      <4>2. \E i \in 0 .. Len(tt[k]) - 1 : r = tp[k] + i
        BY <4>1, Offset
      <4>3. PICK i \in 0 .. Len(tt[k]) - 1 : r = tp[k] + i
        BY <4>2
      <4>4. i \in 0 .. Len(tt[k]) /\ i < Len(tt[k]) /\ i + 1 \in 1 .. Len(tt[k])
        BY <4>1
      <4>5. topic[tp[k] + i] = tt[k][i + 1] /\ tp[k] + i <= Len(topic)
        BY <1>8, <4>4
      <4>6. tt[k][i + 1] # Dot
        BY <1>1, <4>4 DEF Match!IsName
      <4> QED
        BY <4>3, <4>5, <4>6
    <3>5. PICK q \in tp[k] .. Len(topic) + 1 : q = Match!SkipToken(t)
      BY <3>2
    <3>6. PICK end \in Nat : end = tp[k] + Len(tt[k])
      BY <1>2, <1>3, <3>1
    <3>7. ~(q < end)
      BY <1>2, <3>1, <3>2, <3>4, <3>5, <3>6
    <3>8. ~(end < q)
      <4>1. CASE end = Len(topic) + 1
        BY <1>2, <3>1, <3>5, <4>1
      <4>2. CASE end <= Len(topic) /\ topic[end] = Dot /\ end < q
        <5>1. end \in tp[k] .. q - 1
          BY <1>2, <1>3, <3>1, <3>5, <3>6, <4>2, SMTT(40)
        <5> QED
          BY <3>2, <3>5, <4>2, <5>1
      <4> QED
        BY <3>3, <3>6, <4>1, <4>2
    <3> QED
      BY <1>2, <3>1, <3>5, <3>6, <3>7, <3>8
  <2>4. Match!AfterStar = <<tp[k] + Len(tt[k]), ep[k] + 1>>
    BY <1>1, <1>2, <1>3, <2>1, <2>2, <2>3 DEF Match!AfterStar, Match!Spells
  <2>5. Match!Char(exp, ep[k] + 1) # GtChar
    BY <1>1, <1>2, <1>3, <2>1, <2>2 DEF Match!CharsDiffer, Match!Spells
  <2> QED
    BY <1>4, <2>1, <2>4, <2>5 DEF Match!AfterGt
<1>5. CASE et[k] = Match!Gt /\ k = Len(et) /\ ~Match!IsName(et[k])
  <2>1. j = 0 /\ Len(et[k]) = 1 /\ et[k][1] = GtChar
    BY <1>3, <1>5 DEF AtPlace, SameSoFar, Match!Gt
  <2>2. ep[k] \in 1 .. Len(exp)
    BY <1>1 DEF Match!Spells
  <2>3. Match!Char(exp, ep[k] + 0) = GtChar /\ ep[k] + 1 = Len(exp) + 1
    <3>1. Match!Char(exp, ep[k] + 0) = et[k][0 + 1]
      BY <1>9, <2>1
    <3>2. ep[k] + 1 = Len(exp) + 1
      BY <1>5, <1>9, <2>1, SMTT(40)
    <3> QED
      BY <2>1, <3>1, <3>2
  <2>4. e = ep[k] /\ Match!Char(exp, e) = GtChar
    BY <1>3, <2>1, <2>2, <2>3
  <2>5. Match!AfterStar = <<t, e>>
    BY <2>4 DEF Match!AfterStar, Match!CharsDiffer
  <2> QED
    BY <1>5, <2>2, <2>3, <2>4, <2>5 DEF Match!AfterGt
<1>6. CASE Match!IsName(et[k])
  <2>1. Match!Char(exp, e) \notin {StarChar, GtChar}
    <3>1. CASE j < Len(et[k])
      <4>1. Match!Char(exp, ep[k] + j) = et[k][j + 1] /\ j + 1 \in DOMAIN et[k]
        BY <1>3, <1>6, <1>9, <3>1 DEF Match!IsName
      <4> QED
        BY <1>3, <1>6, <4>1 DEF Match!IsName
    <3>2. CASE j = Len(et[k])
      <4>1. Match!Char(exp, ep[k] + j) \in {Dot, Nul}
        BY <1>3, <1>6, <1>9, <3>2 DEF Match!IsName
      <4> QED
        BY <1>3, <4>1 DEF Match!CharsDiffer
    <3> QED
      BY <1>3, <1>6, <3>1, <3>2 DEF Match!IsName
  <2> QED
    BY <1>6, <2>1 DEF Match!AfterStar, Match!AfterGt
<1> QED
  BY <1>1, <1>4, <1>5, <1>6

(* What decides whether the tokens match.                                  *)
LEMMA TokensDecide ==
    ASSUME Match!CharsDiffer, NEW tt, NEW et, Match!IsTopic(tt), Match!IsExpression(et)
    PROVE  LET match == Match!Reading!TokenMatch(tt, et) IN
           /\ \A k \in 1 .. Len(tt) :
                k \in 1 .. Len(et) /\ Match!IsName(et[k]) /\ et[k] # tt[k] => ~match
           /\ Len(tt) < Len(et) => ~match
           /\ Len(tt) # Len(et) /\ et[Len(et)] # Match!Gt => ~match
           /\ Len(tt) = Len(et) /\ (\A i \in 1 .. Len(et) : Fits(tt, et, i)) => match
           /\ /\ et[Len(et)] = Match!Gt /\ Len(tt) >= Len(et)
              /\ \A i \in 1 .. Len(et) - 1 : Fits(tt, et, i)
              => match
<1> USE DEF Match!Reading!TokenMatch, Match!Reading!FitsUpTo, Fits
<1>1. Len(tt) \in Nat \ {0} /\ Len(et) \in Nat \ {0}
  BY DEF Match!IsTopic, Match!IsExpression
<1>2. ASSUME NEW token, Match!IsName(token) PROVE token # Match!Star /\ token # Match!Gt
  BY <1>2 DEF Match!IsName, Match!Star, Match!Gt
<1>3. ASSUME NEW k \in 1 .. Len(tt), k \in 1 .. Len(et), Match!IsName(et[k]), et[k] # tt[k]
      PROVE  ~Match!Reading!TokenMatch(tt, et)
  <2>1. et[k] # Match!Star /\ et[k] # Match!Gt
    BY <1>2, <1>3
  <2>2. et[Len(et)] = Match!Gt => k \in 1 .. Len(et) - 1
    BY <1>1, <1>3, <2>1
  <2> QED
    BY <1>1, <1>3, <2>1, <2>2
<1>4. et # <<>>
  BY <1>1
<1> QED
  BY <1>1, <1>3, <1>4

(* Of tokens at a place: where they and their characters are, and that     *)
(* both having come to their ends without a difference, they are the same. *)
LEMMA Place ==
    ASSUME Match!CharsDiffer, StringsInv, NEW tt, NEW et, NEW tp, NEW ep, NEW k, NEW j,
           Spelled(tt, et, tp, ep), AtPlace(tt, et, tp, ep, k, j)
    PROVE  /\ Len(tt) \in Nat /\ Len(et) \in Nat /\ k \in 1 .. Len(tt) /\ k \in 1 .. Len(et)
           /\ Match!IsName(tt[k]) /\ Len(tt[k]) \in Nat \ {0} /\ Len(et[k]) \in Nat \ {0}
           /\ \A i \in 0 .. Len(tt[k]) :
                LET c == Match!Char(topic, tp[k] + i) IN
                /\ i < Len(tt[k]) => c = tt[k][i + 1] /\ c \notin {Dot, Nul}
                /\ i = Len(tt[k]) /\ k = Len(tt) => c = Nul
                /\ i = Len(tt[k]) /\ k # Len(tt) => c = Dot /\ tp[k + 1] = tp[k] + i + 1
           /\ \A i \in 0 .. Len(et[k]) :
                LET c == Match!Char(exp, ep[k] + i) IN
                /\ i < Len(et[k]) => c = et[k][i + 1] /\ c \notin {Dot, Nul}
                /\ i = Len(et[k]) /\ k = Len(et) => c = Nul
                /\ i = Len(et[k]) /\ k # Len(et) => c = Dot /\ ep[k + 1] = ep[k] + i + 1
           /\ j = Len(tt[k]) /\ j = Len(et[k]) => tt[k] = et[k]
<1>1. /\ Len(tt) \in Nat /\ k \in 1 .. Len(tt) /\ Match!IsName(tt[k])
      /\ Len(et) \in Nat /\ k \in 1 .. Len(et)
      /\ Match!IsName(et[k]) \/ et[k] = Match!Star \/ et[k] = Match!Gt
      /\ Match!Spells(topic, tt, tp) /\ Match!Spells(exp, et, ep)
  BY DEF Spelled, AtPlace, SameSoFar, Match!IsTopic, Match!IsExpression
<1>2. Len(tt[k]) \in Nat \ {0} /\ tt[k] = [p \in 1 .. Len(tt[k]) |-> tt[k][p]]
      /\ \A p \in 1 .. Len(tt[k]) : tt[k][p] \notin {Dot, Nul}
  BY <1>1 DEF Match!IsName
<1>3. Len(et[k]) \in Nat \ {0} /\ \A p \in 1 .. Len(et[k]) : et[k][p] \notin {Dot, Nul}
  <2>1. CASE Match!IsName(et[k])
    BY <2>1 DEF Match!IsName
  <2>2. CASE et[k] = Match!Star
    BY <2>2 DEF Match!Star, Match!CharsDiffer
  <2>3. CASE et[k] = Match!Gt
    BY <2>3 DEF Match!Gt, Match!CharsDiffer
  <2> QED
    BY <1>1, <2>1, <2>2, <2>3
<1>4. IsString(topic) /\ IsString(exp)
  BY DEF StringsInv
<1>5. ASSUME NEW i \in 0 .. Len(tt[k])
      PROVE  /\ i < Len(tt[k]) => Match!Char(topic, tp[k] + i) = tt[k][i + 1]
             /\ i = Len(tt[k]) /\ k = Len(tt) => Match!Char(topic, tp[k] + i) = Nul
             /\ i = Len(tt[k]) /\ k # Len(tt) =>
                    Match!Char(topic, tp[k] + i) = Dot /\ tp[k + 1] = tp[k] + i + 1
  BY <1>1, <1>2, <1>4, CharOfToken
<1>6. ASSUME NEW i \in 0 .. Len(et[k])
      PROVE  /\ i < Len(et[k]) => Match!Char(exp, ep[k] + i) = et[k][i + 1]
             /\ i = Len(et[k]) /\ k = Len(et) => Match!Char(exp, ep[k] + i) = Nul
             /\ i = Len(et[k]) /\ k # Len(et) =>
                    Match!Char(exp, ep[k] + i) = Dot /\ ep[k + 1] = ep[k] + i + 1
  BY <1>1, <1>3, <1>4, CharOfToken, SMTT(40)
<1>7. ASSUME j = Len(tt[k]), j = Len(et[k]) PROVE tt[k] = et[k]
  <2>1. Match!IsName(et[k]) /\ \A i \in 1 .. j : tt[k][i] = et[k][i]
    BY <1>2, <1>7 DEF AtPlace, SameSoFar
  <2>2. tt[k] = [i \in 1 .. j |-> tt[k][i]] /\ et[k] = [i \in 1 .. j |-> et[k][i]]
    BY <1>2, <1>7, <2>1 DEF Match!IsName
  <2>3. [i \in 1 .. j |-> tt[k][i]] = [i \in 1 .. j |-> et[k][i]]
    BY <2>1
  <2> QED
    BY <2>2, <2>3
<1>8. \A i \in 0 .. Len(tt[k]) : i < Len(tt[k]) => i + 1 \in 1 .. Len(tt[k])
  BY <1>2
<1>9. \A i \in 0 .. Len(et[k]) : i < Len(et[k]) => i + 1 \in 1 .. Len(et[k])
  BY <1>3
<1> QED
  BY <1>1, <1>2, <1>3, <1>5, <1>6, <1>7, <1>8, <1>9

(* A turn that advances leads to the next place.                           *)
LEMMA AdvanceGoes ==
    ASSUME Match!CharsDiffer, StringsInv, NEW tt, NEW et, NEW tp, NEW ep, NEW k, NEW j,
           Spelled(tt, et, tp, ep), AtPlace(tt, et, tp, ep, k, j), Match!Advance
    PROVE  Going(tt, et, tp, ep)'
<1> DEFINE T(i) == Match!Char(topic, tp[k] + i)
           E(i) == Match!Char(exp, ep[k] + i)
<1>1. /\ Len(tt) \in Nat /\ Len(et) \in Nat /\ k \in 1 .. Len(tt) /\ k \in 1 .. Len(et)
      /\ Match!IsName(tt[k]) /\ Len(tt[k]) \in Nat \ {0} /\ Len(et[k]) \in Nat \ {0}
      /\ j = Len(tt[k]) /\ j = Len(et[k]) => tt[k] = et[k]
  BY Place
<1>2. \A i \in 0 .. Len(tt[k]) :
        /\ i < Len(tt[k]) => T(i) = tt[k][i + 1] /\ T(i) \notin {Dot, Nul}
        /\ i = Len(tt[k]) /\ k = Len(tt) => T(i) = Nul
        /\ i = Len(tt[k]) /\ k # Len(tt) => T(i) = Dot /\ tp[k + 1] = tp[k] + i + 1
  BY Place
<1>3. \A i \in 0 .. Len(et[k]) :
        /\ i < Len(et[k]) => E(i) = et[k][i + 1] /\ E(i) \notin {Dot, Nul}
        /\ i = Len(et[k]) /\ k = Len(et) => E(i) = Nul
        /\ i = Len(et[k]) /\ k # Len(et) => E(i) = Dot /\ ep[k + 1] = ep[k] + i + 1
  BY Place
<1>4. /\ j \in 0 .. Len(tt[k]) /\ j \in 0 .. Len(et[k]) /\ t = tp[k] + j /\ e = ep[k] + j
      /\ \A i \in 1 .. k - 1 : Fits(tt, et, i)
      /\ \A i \in 1 .. j : tt[k][i] = et[k][i]
  BY DEF AtPlace, SameSoFar
<1>5. /\ t' = Match!AfterGt[1] + 1 /\ e' = Match!AfterGt[2] + 1
      /\ Match!Char(topic, Match!AfterGt[1]) = Match!Char(exp, Match!AfterGt[2])
      /\ Match!Char(topic, Match!AfterGt[1]) # Nul
  BY DEF Match!Advance, Match!BothEnded
<1>6. \A i \in 1 .. Len(tt) : tp[i] \in Nat
  BY DEF Spelled, Match!Spells
<1>10. \A i \in 1 .. Len(et) : ep[i] \in Nat
  BY DEF Spelled, Match!Spells
<1>7. ASSUME Fits(tt, et, k), k # Len(tt), k # Len(et), t' = tp[k + 1], e' = ep[k + 1]
      PROVE  Going(tt, et, tp, ep)'
  <2>1. k + 1 \in 1 .. Len(tt) /\ k + 1 \in 1 .. Len(et)
    BY <1>1, <1>7
  <2>2. Len(tt[k + 1]) \in Nat /\ Len(et[k + 1]) \in Nat /\ 0 \in 0 .. Len(tt[k + 1])
    BY <2>1 DEF Spelled, Match!IsTopic, Match!IsExpression, Match!IsName, Match!Star, Match!Gt
  <2>3. \A i \in 1 .. (k + 1) - 1 : Fits(tt, et, i)
    BY <1>1, <1>4, <1>7
  <2>4. SameSoFar(tt, et, k + 1, 0)
    BY <2>1, <2>2, <2>3 DEF SameSoFar
  <2>5. t' = tp[k + 1] + 0 /\ e' = ep[k + 1] + 0
    BY <1>6, <1>7, <1>10, <2>1
  <2>6. AtPlace(tt, et, tp, ep, k + 1, 0)'
    BY <2>4, <2>5 DEF AtPlace, SameSoFar, Fits, Match!IsName, Match!Star
  <2> QED
    BY <2>1, <2>2, <2>6 DEF Going
<1>8. CASE et[k] = Match!Gt /\ Match!AfterGt = <<Len(topic) + 1, Len(exp) + 1>>
  <2>1. Len(topic) \in Nat
    BY DEF StringsInv, IsString, Match!IsString
  <2> QED
    BY <1>5, <1>8, <2>1 DEF Match!Char
<1>9. CASE et[k] = Match!Star /\ Len(et[k]) = 1
           /\ Match!AfterGt = <<tp[k] + Len(tt[k]), ep[k] + 1>>
  <2>1. T(Len(tt[k])) = E(1) /\ T(Len(tt[k])) # Nul
    BY <1>5, <1>9
  <2>2. k # Len(tt) /\ k # Len(et)
    BY <1>1, <1>2, <1>3, <1>9, <2>1
  <2>3. tp[k + 1] = tp[k] + Len(tt[k]) + 1 /\ ep[k + 1] = ep[k] + 1 + 1
    BY <1>1, <1>2, <1>3, <1>9, <2>2
  <2> QED
    BY <1>5, <1>7, <1>9, <2>2, <2>3 DEF Fits
<1>11. CASE Match!IsName(et[k]) /\ Match!AfterGt = <<t, e>>
  <2>1. T(j) = E(j) /\ T(j) # Nul
    BY <1>4, <1>5, <1>11
  <2>2. CASE j = Len(tt[k])
    <3>1. T(j) = Dot /\ k # Len(tt)
      BY <1>2, <1>4, <2>1, <2>2
    <3>2. j = Len(et[k]) /\ k # Len(et)
      BY <1>1, <1>3, <1>4, <2>1, <3>1
    <3>3. tt[k] = et[k] /\ tp[k + 1] = tp[k] + j + 1 /\ ep[k + 1] = ep[k] + j + 1
      BY <1>1, <1>2, <1>3, <1>4, <2>2, <3>1, <3>2
    <3> QED
      BY <1>4, <1>5, <1>7, <1>11, <3>1, <3>2, <3>3 DEF Fits
  <2>3. CASE j < Len(tt[k])
    <3>1. T(j) = tt[k][j + 1] /\ T(j) \notin {Dot, Nul}
      BY <1>2, <1>4, <2>3
    <3>2. j < Len(et[k])
      BY <1>1, <1>3, <1>4, <2>1, <3>1
    <3>3. E(j) = et[k][j + 1]
      BY <1>3, <1>4, <3>2
    <3>4. j + 1 \in 0 .. Len(tt[k]) /\ j + 1 \in 0 .. Len(et[k])
          /\ \A i \in 1 .. j + 1 : tt[k][i] = et[k][i]
      BY <1>1, <1>4, <2>1, <2>3, <3>1, <3>2, <3>3
    <3>5. SameSoFar(tt, et, k, j + 1)
      BY <1>1, <1>4, <1>11, <3>4 DEF SameSoFar
    <3>6. t' = tp[k] + (j + 1) /\ e' = ep[k] + (j + 1)
      <4>1. t' = t + 1 /\ e' = e + 1
        BY <1>5, <1>11
      <4>2. tp[k] \in Nat /\ ep[k] \in Nat /\ j \in Nat
        BY <1>1, <1>4, <1>6, <1>10
      <4>3. \A a, i \in Nat : (a + i) + 1 = a + (i + 1)
        OBVIOUS
      <4>4. (tp[k] + j) + 1 = tp[k] + (j + 1) /\ (ep[k] + j) + 1 = ep[k] + (j + 1)
        BY <4>2, <4>3, Zenon
      <4>5. t = tp[k] + j /\ e = ep[k] + j
        BY <1>4
      <4> QED
        BY <4>1, <4>4, <4>5, Zenon
    <3>7. AtPlace(tt, et, tp, ep, k, j + 1)'
      BY <3>5, <3>6 DEF AtPlace, SameSoFar, Fits, Match!IsName, Match!Star
    <3> QED
      BY <1>1, <3>4, <3>7 DEF Going
  <2> QED
    BY <1>1, <1>4, <2>2, <2>3
<1> QED
  BY <1>8, <1>9, <1>11, Turn

(* A turn that breaks out, or the end of the loop, has found the answer.   *)
LEMMA BreakAnswers ==
    ASSUME Match!CharsDiffer, StringsInv, NEW tt, NEW et, NEW tp, NEW ep, NEW k, NEW j,
           Spelled(tt, et, tp, ep), AtPlace(tt, et, tp, ep, k, j), Match!Break
    PROVE  Match!Answers(tt, et)'
<1> DEFINE T(i) == Match!Char(topic, tp[k] + i)
           E(i) == Match!Char(exp, ep[k] + i)
           match == Match!Reading!TokenMatch(tt, et)
<1>1. /\ Len(tt) \in Nat /\ Len(et) \in Nat /\ k \in 1 .. Len(tt) /\ k \in 1 .. Len(et)
      /\ Match!IsName(tt[k]) /\ Len(tt[k]) \in Nat \ {0} /\ Len(et[k]) \in Nat \ {0}
      /\ j = Len(tt[k]) /\ j = Len(et[k]) => tt[k] = et[k]
  BY Place
<1>2. \A i \in 0 .. Len(tt[k]) :
        /\ i < Len(tt[k]) => T(i) = tt[k][i + 1] /\ T(i) \notin {Dot, Nul}
        /\ i = Len(tt[k]) /\ k = Len(tt) => T(i) = Nul
        /\ i = Len(tt[k]) /\ k # Len(tt) => T(i) = Dot
  BY Place
<1>3. \A i \in 0 .. Len(et[k]) :
        /\ i < Len(et[k]) => E(i) = et[k][i + 1] /\ E(i) \notin {Dot, Nul}
        /\ i = Len(et[k]) /\ k = Len(et) => E(i) = Nul
        /\ i = Len(et[k]) /\ k # Len(et) => E(i) = Dot
  BY Place
<1>4. /\ j \in 0 .. Len(tt[k]) /\ j \in 0 .. Len(et[k]) /\ t = tp[k] + j /\ e = ep[k] + j
      /\ \A i \in 1 .. k - 1 : Fits(tt, et, i)
  BY DEF AtPlace, SameSoFar
<1>5. /\ t' = Match!AfterGt[1] /\ e' = Match!AfterGt[2] /\ topic' = topic /\ exp' = exp
      /\ running' = FALSE
      /\ Match!Char(topic, t) # Nul /\ Match!Char(exp, e) # Nul
      /\ \/ Match!Char(topic, Match!AfterGt[1]) = Nul /\ Match!Char(exp, Match!AfterGt[2]) = Nul
         \/ Match!Char(topic, Match!AfterGt[1]) # Match!Char(exp, Match!AfterGt[2])
  BY DEF Match!Break, Match!BothEnded
<1>6. Match!IsTopicMatch' <=> Match!Char(topic, Match!AfterGt[1]) = Nul
                              /\ Match!Char(exp, Match!AfterGt[2]) = Nul
  BY <1>5 DEF Match!IsTopicMatch, Match!BothEnded, Match!Char
<1>7. SUFFICES Match!IsTopicMatch' <=> match
  BY DEF Match!Answers, Match!Reading!TokenMatch, Match!Reading!FitsUpTo, Match!Star, Match!Gt
<1>8. Match!IsTopic(tt) /\ Match!IsExpression(et) /\ Nul # Dot /\ Match!Star # Match!Gt
  BY DEF Spelled, Match!CharsDiffer, Match!Star, Match!Gt
<1>9. CASE et[k] = Match!Gt /\ k = Len(et) /\ Match!AfterGt = <<Len(topic) + 1, Len(exp) + 1>>
  <2>1. Len(topic) \in Nat /\ Len(exp) \in Nat
    BY DEF StringsInv, IsString, Match!IsString
  <2>2. Match!IsTopicMatch'
    BY <1>6, <1>9, <2>1 DEF Match!Char
  <2>3. match
    BY <1>1, <1>4, <1>8, <1>9, TokensDecide
  <2> QED
    BY <2>2, <2>3
<1>10. CASE et[k] = Match!Star /\ Len(et[k]) = 1
           /\ Match!AfterGt = <<tp[k] + Len(tt[k]), ep[k] + 1>>
  <2>1. Match!IsTopicMatch' <=> T(Len(tt[k])) = Nul /\ E(1) = Nul
    BY <1>6, <1>10
  <2>2. (T(Len(tt[k])) = Nul /\ E(1) = Nul) \/ T(Len(tt[k])) # E(1)
    BY <1>5, <1>10
  <2>3. (T(Len(tt[k])) = Nul <=> k = Len(tt)) /\ (T(Len(tt[k])) # Nul => T(Len(tt[k])) = Dot)
    BY <1>1, <1>2, <1>8
  <2>4. (E(1) = Nul <=> k = Len(et)) /\ (E(1) # Nul => E(1) = Dot)
    BY <1>1, <1>3, <1>8, <1>10
  <2>5. CASE k = Len(tt) /\ k = Len(et)
    <3>1. \A i \in 1 .. Len(et) : Fits(tt, et, i)
      BY <1>1, <1>4, <1>10, <2>5 DEF Fits
    <3>2. match
      BY <1>8, <2>5, <3>1, TokensDecide
    <3> QED
      BY <2>1, <2>3, <2>4, <2>5, <3>2
  <2>6. CASE k = Len(tt) /\ k # Len(et)
    <3>1. ~match
      BY <1>1, <1>8, <2>6, TokensDecide
    <3> QED
      BY <2>1, <2>4, <2>6, <3>1
  <2>7. CASE k # Len(tt) /\ k = Len(et)
    <3>1. ~match
      BY <1>1, <1>8, <1>10, <2>7, TokensDecide
    <3> QED
      BY <2>1, <2>3, <2>7, <3>1
  <2> QED
    BY <2>2, <2>3, <2>4, <2>5, <2>6, <2>7
<1>11. CASE Match!IsName(et[k]) /\ Match!AfterGt = <<t, e>>
  <2>1. ~Match!IsTopicMatch' /\ T(j) # E(j) /\ T(j) # Nul /\ E(j) # Nul
    BY <1>4, <1>5, <1>6, <1>11
  <2>2. et[k] # tt[k]
    <3>1. CASE j = Len(tt[k]) /\ j = Len(et[k])
      BY <1>2, <1>3, <1>4, <2>1, <3>1
    <3>2. CASE j < Len(tt[k]) /\ j < Len(et[k])
      BY <1>2, <1>3, <1>4, <2>1, <3>2
    <3> QED
      BY <1>1, <1>4, <3>1, <3>2
  <2>3. ~match
    BY <1>1, <1>8, <1>11, <2>2, TokensDecide
  <2> QED
    BY <2>1, <2>3
<1> QED
  BY <1>9, <1>10, <1>11, Turn

LEMMA LoopEndAnswers ==
    ASSUME Match!CharsDiffer, StringsInv, NEW tt, NEW et, NEW tp, NEW ep, NEW k, NEW j,
           Spelled(tt, et, tp, ep), AtPlace(tt, et, tp, ep, k, j), Match!LoopEnds
    PROVE  Match!Answers(tt, et)'
<1> DEFINE T(i) == Match!Char(topic, tp[k] + i)
           E(i) == Match!Char(exp, ep[k] + i)
           match == Match!Reading!TokenMatch(tt, et)
<1>1. /\ Len(tt) \in Nat /\ Len(et) \in Nat /\ k \in 1 .. Len(tt) /\ k \in 1 .. Len(et)
      /\ Match!IsName(tt[k]) /\ Len(tt[k]) \in Nat \ {0} /\ Len(et[k]) \in Nat \ {0}
      /\ j = Len(tt[k]) /\ j = Len(et[k]) => tt[k] = et[k]
  BY Place
<1>2. \A i \in 0 .. Len(tt[k]) :
        /\ i < Len(tt[k]) => T(i) # Nul
        /\ i = Len(tt[k]) /\ k = Len(tt) => T(i) = Nul
        /\ i = Len(tt[k]) /\ k # Len(tt) => T(i) = Dot
  BY Place
<1>3. \A i \in 0 .. Len(et[k]) :
        /\ i < Len(et[k]) => E(i) # Nul
        /\ i = Len(et[k]) /\ k = Len(et) => E(i) = Nul
        /\ i = Len(et[k]) /\ k # Len(et) => E(i) = Dot
  BY Place
<1>4. /\ j \in 0 .. Len(tt[k]) /\ j \in 0 .. Len(et[k]) /\ t = tp[k] + j /\ e = ep[k] + j
      /\ \A i \in 1 .. k - 1 : Fits(tt, et, i)
      /\ j # 0 => Match!IsName(et[k])
  BY DEF AtPlace, SameSoFar
<1>5. /\ t' = t /\ e' = e /\ topic' = topic /\ exp' = exp
      /\ Match!Char(topic, t) = Nul \/ Match!Char(exp, e) = Nul
  BY DEF Match!LoopEnds
<1>6. /\ Match!IsTopicMatch' <=> T(j) = Nul /\ E(j) = Nul
      /\ T(j) = Nul \/ E(j) = Nul
  BY <1>4, <1>5 DEF Match!IsTopicMatch, Match!BothEnded, Match!Char
<1>7. SUFFICES Match!IsTopicMatch' <=> match
  BY DEF Match!Answers, Match!Reading!TokenMatch, Match!Reading!FitsUpTo, Match!Star, Match!Gt
<1>8. Match!IsTopic(tt) /\ Match!IsExpression(et) /\ Nul # Dot
  BY DEF Spelled, Match!CharsDiffer
<1>9. (T(j) = Nul <=> j = Len(tt[k]) /\ k = Len(tt))
  BY <1>1, <1>2, <1>4, <1>8
<1>10. (E(j) = Nul <=> j = Len(et[k]) /\ k = Len(et))
  BY <1>1, <1>3, <1>4, <1>8
<1>11. Match!IsName(et[k])
  BY <1>1, <1>4, <1>6, <1>9, <1>10
<1>12. et[k] # Match!Gt
  BY <1>11 DEF Match!IsName, Match!Gt
<1>13. CASE et[k] # tt[k]
  BY <1>1, <1>6, <1>8, <1>9, <1>10, <1>11, <1>13, TokensDecide
<1>14. CASE et[k] = tt[k]
  <2>1. \A i \in 1 .. k : Fits(tt, et, i)
    BY <1>1, <1>4, <1>14 DEF Fits
  <2>2. CASE k = Len(tt) /\ k = Len(et)
    <3>1. match
      BY <1>8, <2>1, <2>2, TokensDecide
    <3> QED
      BY <1>6, <1>9, <1>10, <1>14, <2>2, <3>1
  <2>3. CASE k = Len(tt) /\ k # Len(et)
    <3>1. ~match
      BY <1>1, <1>8, <2>3, TokensDecide
    <3> QED
      BY <1>6, <1>10, <2>3, <3>1
  <2>4. CASE k # Len(tt) /\ k = Len(et)
    <3>1. ~match
      BY <1>1, <1>8, <1>12, <2>4, TokensDecide
    <3> QED
      BY <1>6, <1>9, <2>4, <3>1
  <2> QED
    BY <1>6, <1>9, <1>10, <2>2, <2>3, <2>4
<1> QED
  BY <1>13, <1>14

LEMMA AnswerInvInit ==
    ASSUME Match!Init, NEW tt, NEW et, NEW tp, NEW ep
    PROVE  AnswerInv(tt, et, tp, ep)
<1> SUFFICES ASSUME Spelled(tt, et, tp, ep) PROVE Going(tt, et, tp, ep)
  BY DEF AnswerInv, Match!Init
<1>1. /\ Len(tt) \in Nat \ {0} /\ Len(et) \in Nat \ {0}
      /\ Match!IsName(tt[1])
      /\ Match!IsName(et[1]) \/ et[1] = Match!Star \/ et[1] = Match!Gt
      /\ tp[1] = 1 /\ ep[1] = 1
  BY DEF Spelled, Match!IsTopic, Match!IsExpression, Match!Spells
<1>2. Len(tt[1]) \in Nat /\ Len(et[1]) \in Nat
  BY <1>1 DEF Match!IsName, Match!Star, Match!Gt
<1>3. AtPlace(tt, et, tp, ep, 1, 0)
  BY <1>1, <1>2 DEF AtPlace, SameSoFar, Match!Init
<1> QED
  BY <1>1, <1>2, <1>3 DEF Going

LEMMA AnswerInvStep ==
    ASSUME Match!CharsDiffer, MatchInv, NEW tt, NEW et, NEW tp, NEW ep,
           AnswerInv(tt, et, tp, ep), [Match!Next]_Match!vars
    PROVE  AnswerInv(tt, et, tp, ep)'
<1>1. topic' = topic /\ exp' = exp
  BY DEF Match!Next, Match!Advance, Match!Break, Match!LoopEnds, Match!vars
<1>2. SUFFICES ASSUME Spelled(tt, et, tp, ep)'
               PROVE  (IF running THEN Going(tt, et, tp, ep) ELSE Match!Answers(tt, et))'
  BY DEF AnswerInv
<1>3. Spelled(tt, et, tp, ep) /\ StringsInv
  BY <1>1, <1>2, SMTT(40) DEF MatchInv, Spelled, Match!Spells, Match!IsTopic, Match!IsExpression,
                    Match!IsName, Match!Star, Match!Gt
<1>4. CASE UNCHANGED Match!vars
  <2>1. Going(tt, et, tp, ep) => Going(tt, et, tp, ep)'
    BY <1>4 DEF Match!vars, Going, AtPlace, SameSoFar, Fits, Match!IsName, Match!Star
  <2>2. Match!Answers(tt, et) => Match!Answers(tt, et)'
    BY <1>4 DEF Match!vars, Match!Answers, Match!IsTopicMatch, Match!BothEnded, Match!Char,
                Match!Reading!TokenMatch, Match!Reading!FitsUpTo, Match!Star, Match!Gt
  <2> QED
    BY <1>3, <1>4, <2>1, <2>2 DEF AnswerInv, Match!vars
<1>5. ASSUME Match!Next PROVE running /\ Going(tt, et, tp, ep)
  BY <1>3, <1>5 DEF AnswerInv, Match!Next, Match!Advance, Match!Break, Match!LoopEnds
<1>6. ASSUME Match!Next
      PROVE  (IF running THEN Going(tt, et, tp, ep) ELSE Match!Answers(tt, et))'
  <2>1. PICK k \in 1 .. Len(tt) : \E j \in 0 .. Len(tt[k]) : AtPlace(tt, et, tp, ep, k, j)
    BY <1>5, <1>6 DEF Going
  <2>2. PICK j \in 0 .. Len(tt[k]) : AtPlace(tt, et, tp, ep, k, j)
    BY <2>1
  <2>3. CASE Match!Advance
    <3>1. running' = running /\ running
      BY <1>5, <1>6, <2>3 DEF Match!Advance
    <3>2. Going(tt, et, tp, ep)'
      BY <1>3, <2>2, <2>3, AdvanceGoes
    <3> QED
      BY <3>1, <3>2
  <2>4. CASE Match!Break
    <3>1. running' = FALSE
      BY <2>4 DEF Match!Break
    <3>2. Match!Answers(tt, et)'
      BY <1>3, <2>2, <2>4, BreakAnswers
    <3> QED
      BY <3>1, <3>2
  <2>5. CASE Match!LoopEnds
    <3>1. running' = FALSE
      BY <2>5 DEF Match!LoopEnds
    <3>2. Match!Answers(tt, et)'
      BY <1>3, <2>2, <2>5, LoopEndAnswers
    <3> QED
      BY <3>1, <3>2
  <2> QED
    BY <1>6, <2>3, <2>4, <2>5 DEF Match!Next
<1> QED
  BY <1>4, <1>6

(* For a topic and an expression of any number of tokens, of any length,   *)
(* the loop over characters answers what the reading in tokens says: '*'   *)
(* is exactly one token, '>' one or more (rtRoutingTree.c:52-86).          *)
THEOREM MatchAnswers ==
    ASSUME Match!InputsAreStrings, Match!CharsDiffer
    PROVE  Match!Spec => []AgreesWithTokens
<1> DEFINE Inv == MatchInv /\ \A tt, et, tp, ep : AnswerInv(tt, et, tp, ep)
<1>1. Match!Init => Inv
  BY MatchInvInit, AnswerInvInit
<1>2. Inv /\ [Match!Next]_Match!vars => Inv'
  BY MatchInvStep, AnswerInvStep
<1>3. ASSUME Inv PROVE AgreesWithTokens
  <2>1. \A tt, et, tp, ep : Match!AgreesWithTokens(tt, tp, et, ep)
    BY <1>3 DEF Match!AgreesWithTokens, AnswerInv, Spelled, Match!Answers
  <2> QED
    BY <2>1 DEF AgreesWithTokens
<1> HIDE DEF Inv
<1> QED
  BY <1>1, <1>2, <1>3, PTL DEF Match!Spec
=============================================================================
