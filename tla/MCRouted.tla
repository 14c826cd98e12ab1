------------------------------ MODULE MCRouted ------------------------------
(***************************************************************************)
(* Small instances of the router: names are sequences of tokens, matched   *)
(* as RtTopicMatch shows the code to match them.                           *)
(***************************************************************************)
EXTENDS RtRouted, TLC

CONSTANTS c1, c2, A, B, Rtrouted, Inbox, Subscribe, Hello, NoRoute, Star, Gt

T == INSTANCE RtTopics

MCMatch(topic, exp) == T!TokenMatch(topic, exp)

MCSubscribeTopic == <<Rtrouted, Inbox, Subscribe>>
MCHelloTopic     == <<Rtrouted, Inbox, Hello>>
MCNoRouteTopic   == <<NoRoute>>
MCInternalExp    == <<Rtrouted, Gt>>
MCDebugExp       == <<Gt>>

Control(topic, exp, id) ==
    [topic |-> topic, exp |-> exp, id |-> id, request |-> FALSE, empty |-> FALSE]
Data(topic, request, empty) ==
    [topic |-> topic, exp |-> <<>>, id |-> 0, request |-> request, empty |-> empty]

\* A subscription, a hello, a message that routes match and an empty one.
SafetyMessages ==
    {Control(MCSubscribeTopic, <<A, Star>>, 1), Control(MCHelloTopic, <<A, B>>, 0),
     Data(<<A, B>>, FALSE, FALSE), Data(<<A, B>>, FALSE, TRUE)}

\* A subscription, a request somebody may serve, one nobody can.
RequestMessages ==
    {Control(MCSubscribeTopic, <<A>>, 1), Data(<<A>>, TRUE, FALSE)}

LiveMessages ==
    {Control(MCSubscribeTopic, <<A>>, 1), Data(<<A>>, FALSE, FALSE)}

TwoConns == {c1, c2}

Symmetry2 == Permutations(TwoConns)
=============================================================================
