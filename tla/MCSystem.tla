------------------------------ MODULE MCSystem ------------------------------
(***************************************************************************)
(* One server and two requesters.  Names are single tokens, and nobody     *)
(* subscribes to a wildcard but the router itself.                         *)
(***************************************************************************)
EXTENDS RtSystem

MCInbox   == [c \in Conns |-> c]

MCMatch(topic, exp) ==
    \/ exp \in {topic, DebugExp}
    \/ exp = InternalExp /\ topic \in {SubscribeTopic, HelloTopic}

\* The two requesters are alike: r1 is the name of the one that starts first.
InOrderOfNames == at["r1"] = "off" => at'["r2"] = "off"

MCSpec == SystemInit /\ [][SystemNext /\ InOrderOfNames]_systemVars /\ Fairness
=============================================================================
