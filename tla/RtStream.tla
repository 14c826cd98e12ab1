------------------------------ MODULE RtStream ------------------------------
(***************************************************************************)
(* What the router promises about one client's stream: the messages the    *)
(* client has written are delivered one by one, whole, each once, in the   *)
(* order they were written; and every one of them, unless the client hangs *)
(* up.                                                                     *)
(***************************************************************************)
EXTENDS Naturals, Sequences

VARIABLES
    complete,     \* how many messages are written to their last byte
    hungup,       \* the client has closed its end
    delivered     \* the numbers of the messages delivered

vars == <<complete, hungup, delivered>>

Init == complete = 0 /\ hungup = FALSE /\ delivered = <<>>

Write == ~hungup /\ complete' = complete + 1 /\ UNCHANGED <<hungup, delivered>>

HangUp == ~hungup /\ hungup' = TRUE /\ UNCHANGED <<complete, delivered>>

Deliver ==
    /\ Len(delivered) < complete
    /\ delivered' = Append(delivered, Len(delivered) + 1)
    /\ UNCHANGED <<complete, hungup>>

Next == Write \/ HangUp \/ Deliver

\* What may happen, and what must: a message may be lost with the connection,
\* and only so.
Safe == Init /\ [][Next]_vars

Spec == Safe /\ WF_vars(~hungup /\ Deliver)
=============================================================================
