------------------------------- MODULE RtShared -------------------------------
(***************************************************************************)
(* What a reference count promises its owners: an object lives from its    *)
(* creation until the last owner has let go of it, and is then freed once. *)
(***************************************************************************)
EXTENDS Naturals

CONSTANT Objects

VARIABLES
    life,      \* "none", "live", "freed"
    owners     \* how many references there are

Create(o) ==
    /\ life[o] = "none"
    /\ life' = [life EXCEPT ![o] = "live"]
    /\ owners' = [owners EXCEPT ![o] = 1]

Share(o) ==
    /\ owners[o] > 0
    /\ owners' = [owners EXCEPT ![o] = @ + 1]
    /\ UNCHANGED life

LetGo(o) ==
    /\ owners[o] > 0
    /\ owners' = [owners EXCEPT ![o] = @ - 1]
    /\ UNCHANGED life

Free(o) ==
    /\ life[o] = "live" /\ owners[o] = 0
    /\ life' = [life EXCEPT ![o] = "freed"]
    /\ UNCHANGED owners

Init ==
    /\ life = [o \in Objects |-> "none"]
    /\ owners = [o \in Objects |-> 0]

Next == \E o \in Objects : Create(o) \/ Share(o) \/ LetGo(o) \/ Free(o)

\* What may happen, and what must: an object without owners is freed in the end.
Safe == Init /\ [][Next]_<<life, owners>>

Spec ==
    /\ Safe
    /\ \A o \in Objects : WF_<<life, owners>>(Free(o))
=============================================================================
