------------------------------ MODULE RtTopics ------------------------------
(***************************************************************************)
(* Topics and expressions as the clients of the bus read them: names made  *)
(* of tokens.  In an expression the token Star stands for any one token    *)
(* and Gt, in last place, for one or more of them                          *)
(* (tests/rtRoutingTreeTests.cpp:37-83).                                   *)
(***************************************************************************)
EXTENDS Naturals, Sequences

CONSTANTS Star, Gt

\* The tokens of the topic up to position n fit those of the expression.
FitsUpTo(topic, exp, n) ==
    \A k \in 1 .. n : exp[k] = Star \/ exp[k] = topic[k]

TokenMatch(topic, exp) ==
    \/ /\ Len(topic) = Len(exp)
       /\ FitsUpTo(topic, exp, Len(exp))
    \/ /\ exp # <<>> /\ exp[Len(exp)] = Gt
       /\ Len(topic) >= Len(exp)
       /\ FitsUpTo(topic, exp, Len(exp) - 1)
=============================================================================
