------------------------------- MODULE RtList -------------------------------
(***************************************************************************)
(* What a user of rtVector (rtVector.h) counts on: a list to whose end     *)
(* items are added and from which one item at a time is taken, the rest    *)
(* keeping their order.  The growing array of RtVector implements it.      *)
(***************************************************************************)
EXTENDS Sequences, Naturals

CONSTANT Items

VARIABLE list

Init == list = <<>>

PushBack(item) == list' = Append(list, item)

\* Takes out position p; what follows it moves one place to the front.
RemoveItemAt(p) ==
    list' = SubSeq(list, 1, p - 1) \o SubSeq(list, p + 1, Len(list))

Next ==
    \/ \E item \in Items : PushBack(item)
    \/ \E p \in 1 .. Len(list) : RemoveItemAt(p)

Spec == Init /\ [][Next]_list
=============================================================================
