------------------------------- MODULE RtBuffer -------------------------------
(***************************************************************************)
(* rtBuffer.c: buffers shared by threads.  Both counting operations are    *)
(* atomic, and whether to destroy is decided by what the decrement itself  *)
(* returned.                                                               *)
(***************************************************************************)
EXTENDS Integers, FiniteSets

CONSTANTS
    Threads,
    Buffers,
    MaxRefs      \* bound of the model: references to one buffer at a time

VARIABLES
    refcount,    \* of each buffer, 0 before it is created
    data,        \* "none" before creation, then "NULL" or "bytes", "freed"
    frees,       \* how often rtBuffer_Destroy was called for it
    held,        \* [thread -> [buffer -> references it has to release]]
    last         \* the value the thread's decrement returned, with its buffer

vars == <<refcount, data, frees, held, last>>

NotReleasing == <<>>
Releasing(t) == last[t] # NotReleasing
Holds(t, b) == held[t][b] > 0
\* One for every reference a thread has.
Tokens(b) == UNION {{t} \X (1 .. held[t][b]) : t \in Threads}
References(b) == Cardinality(Tokens(b))

\* rtBuffer_Create and rtBuffer_CreateFromBytes, which adds a copy of the bytes.
Create(t, b) ==
    /\ ~Releasing(t) /\ data[b] = "none"
    /\ \E d \in {"NULL", "bytes"} : data' = [data EXCEPT ![b] = d]
    /\ refcount' = [refcount EXCEPT ![b] = 1]
    /\ held' = [held EXCEPT ![t][b] = 1]
    /\ UNCHANGED <<frees, last>>

Retain(t, b) ==
    /\ ~Releasing(t) /\ Holds(t, b) /\ References(b) < MaxRefs
    /\ refcount' = [refcount EXCEPT ![b] = @ + 1]
    /\ held' = [held EXCEPT ![t][b] = @ + 1]
    /\ UNCHANGED <<data, frees, last>>

\* A thread passes one of its references on to another.
HandOver(t, u, b) ==
    /\ ~Releasing(t) /\ Holds(t, b) /\ t # u
    /\ held' = [held EXCEPT ![t][b] = @ - 1, ![u][b] = @ + 1]
    /\ UNCHANGED <<refcount, data, frees, last>>

\* rtAtomicDec.
Decrement(t, b) ==
    /\ ~Releasing(t) /\ Holds(t, b)
    /\ refcount' = [refcount EXCEPT ![b] = @ - 1]
    /\ held' = [held EXCEPT ![t][b] = @ - 1]
    /\ last' = [last EXCEPT ![t] = <<b, refcount[b] - 1>>]
    /\ UNCHANGED <<data, frees>>

\* Bug to catch: the count is read again instead of the value returned.
Release_Rereads(t) ==
    /\ Releasing(t)
    /\ LET b == last[t][1]
           destroy == refcount[b] = 0
       IN  /\ frees' = IF destroy THEN [frees EXCEPT ![b] = @ + 1] ELSE frees
           /\ data' = IF destroy THEN [data EXCEPT ![b] = "freed"] ELSE data
    /\ last' = [last EXCEPT ![t] = NotReleasing]
    /\ UNCHANGED <<refcount, held>>

\* The rest of rtBuffer_Release: rtBuffer_Destroy frees the bytes, if there are
\* any, and the buffer.
Release(t) ==
    /\ Releasing(t)
    /\ LET b == last[t][1]
           destroy == last[t][2] = 0
       IN  /\ frees' = IF destroy THEN [frees EXCEPT ![b] = @ + 1] ELSE frees
           /\ data' = IF destroy THEN [data EXCEPT ![b] = "freed"] ELSE data
    /\ last' = [last EXCEPT ![t] = NotReleasing]
    /\ UNCHANGED <<refcount, held>>

Init ==
    /\ refcount = [b \in Buffers |-> 0]
    /\ data = [b \in Buffers |-> "none"]
    /\ frees = [b \in Buffers |-> 0]
    /\ held = [t \in Threads |-> [b \in Buffers |-> 0]]
    /\ last = [t \in Threads |-> NotReleasing]

Next ==
    \E t \in Threads :
        \/ Release(t)
        \/ \E b \in Buffers :
            \/ Create(t, b) \/ Retain(t, b) \/ Decrement(t, b)
            \/ \E u \in Threads : HandOver(t, u, b)

\* A thread that has begun to release goes on; when it begins is its own affair.
Spec == Init /\ [][Next]_vars /\ \A t \in Threads : WF_vars(Release(t))

-----------------------------------------------------------------------------
Life(b) ==
    CASE data[b] = "none" -> "none"
      [] data[b] # "none" /\ frees[b] = 0 -> "live"
      [] frees[b] = 1 -> "freed"
      [] OTHER -> "freed again"

Shared == INSTANCE RtShared WITH
    Objects <- Buffers,
    life <- [b \in Buffers |-> Life(b)],
    owners <- [b \in Buffers |-> References(b)]

\* Whatever the threads do at the same time, a buffer is freed when its last
\* reference has gone, not before and not twice (rtBuffer.c:56-82).
BufferImplementsShared == Shared!Spec
=============================================================================
