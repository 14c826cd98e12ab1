------------------------------ MODULE MCReader ------------------------------
(***************************************************************************)
(* Two messages, or three with a longer topic between shorter ones, with   *)
(* all their bytes, cut by recv at every place.                            *)
(***************************************************************************)
EXTENDS RtReader

Topics == {<<65>>, <<65, 66>>}
ReplyTopics == {<<>>, <<67>>}
Payloads == {<<1>>, <<0, 255>>}

Message(n, flags, topic, reply_topic, payload) ==
    [header |-> HeaderOf(n, flags, 0, Len(payload), topic, reply_topic), payload |-> payload]

Sent(n) == {Message(n, Len(r), t, r, p) : t \in Topics, r \in ReplyTopics, p \in Payloads}

MCScripts ==
    {<<a>> : a \in Sent(1)} \cup {<<a, b>> : a \in Sent(1), b \in Sent(2)}
        \cup {<<Message(1, 0, <<65>>, <<>>, <<1>>), Message(2, 1, <<66, 66>>, <<67, 67>>, <<44, 1>>),
                 Message(3, 2, <<>>, <<67>>, <<1>>)>>}
=============================================================================
