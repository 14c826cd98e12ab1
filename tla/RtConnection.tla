---------------------------- MODULE RtConnection ----------------------------
(***************************************************************************)
(* rtConnection.c: the library a client links.  One thread calls it; the   *)
(* router behind the socket is the environment.  The connection may break  *)
(* at any time, and every call that notices opens a new one and tells the  *)
(* router again what this client listens to, which is itself done with     *)
(* calls that may notice the new connection break: the frames of these     *)
(* nested calls are kept on a stack.  The socket blocks: a send waits till  *)
(* the router has read enough of what the socket holds already.            *)
(***************************************************************************)
EXTENDS Integers, Sequences, FiniteSets, SequencesExt

CONSTANTS
    MaxListeners,     \* RTMSG_LISTENERS_MAX
    SendCap,          \* how many messages the socket holds for the router
    MaxBreaks,        \* bound of the model: how often the connection breaks
    MaxSends,         \* bound of the model: messages and requests sent
    MaxPublished,     \* bound of the model: messages others publish
    MaxTraffic,       \* bound of the model: both together
    NoRouteReplies    \* may the router say that a request has no route?

ASSUME BoundsAssumption ==
    /\ MaxListeners \in Nat \ {0} /\ SendCap \in Nat \ {0}
    /\ MaxBreaks \in Nat
    /\ MaxSends \in Nat /\ MaxPublished \in Nat /\ MaxTraffic \in Nat
ASSUME NoRouteRepliesAssumption == NoRouteReplies \in BOOLEAN

VARIABLES
    call,          \* the call in progress, "none" between calls
    listeners,     \* the table: [in_use, subscription_id]
    next_id,       \* of rtConnection_GetNextSubscriptionId
    frames,        \* the calls of SendInternal and ConnectAndRegister under way
    alive,         \* does the router still hold this connection?
    tx,            \* what the socket has taken and the router has not read
    subscribed,    \* ids of the SUBSCRIBE messages read on this connection
    rx,            \* what the router has written to this connection
    hdr,           \* the header TimedDispatch goes by; whole = its payload came
    receiving,     \* the place in TimedDispatch, "no" outside
    response,      \* con->response: which request it answers, 0 for NULL
    sends,         \* how many messages and requests the client has sent
    breaks,        \* how often the connection broke
    published,     \* how many messages others have published
    taken,         \* history: what the router has read, on any connection
    accepted,      \* history: what a send reported RT_OK for
    open,          \* history: requests read and not yet answered
    calls,         \* history: the callbacks made, with what they were given
    answers        \* history: what the requests returned

api     == <<call, listeners, next_id, sends>>
io      == <<alive, tx, subscribed, rx>>
inbound == <<hdr, receiving, response>>
world   == <<breaks, published>>
history == <<taken, accepted, open, calls, answers>>
vars    == <<api, frames, io, inbound, world, history>>

Slots == 1 .. MaxListeners
Inbox == 1                        \* rtConnection_Create takes the first slot

InUse(k) == listeners[k].in_use

\* What SendInternal is given to send.
Message(kind, n) == [kind |-> kind, n |-> n]
Nothing == Message("none", 0)

\* A frame: the message still to be sent, or (at > 0) the place of the loop
\* over the listeners in the ConnectAndRegister it has called.
Frame(m, at) == [m |-> m, at |-> at]
Top == frames[Len(frames)]
Under == SubSeq(frames, 1, Len(frames) - 1)

\* A message the router writes to this client, cut off or whole.
Incoming(id, n, kind, cut) == [id |-> id, n |-> n, kind |-> kind, cut |-> cut]

Header(in) == [id |-> in.id, n |-> in.n, kind |-> in.kind, whole |-> in.cut = "whole"]

NoHeader == [id |-> 0, n |-> 0, kind |-> "none", whole |-> FALSE]

-----------------------------------------------------------------------------
(***************************************************************************)
(* SendInternal and ConnectAndRegister.                                    *)
(***************************************************************************)

\* The socket takes header and payload once it has room: send() waits till then.
\* A connection that has broken takes them too, until the news has come.
SendSucceeds ==
    /\ frames # <<>> /\ Top.at = 0
    /\ Len(tx) < SendCap
    /\ tx' = Append(tx, Top.m)
    /\ accepted' = accepted \cup {Top.m}
    /\ frames' = Under
    /\ UNCHANGED <<api, alive, subscribed, rx, inbound, world, taken, open, calls, answers>>

\* The daemon is started if need be and the socket replaced: what the old one
\* held is gone.
Reconnect == alive' = TRUE /\ tx' = <<>> /\ subscribed' = <<>> /\ rx' = <<>>

\* Bug to catch: the loop over the listeners begins at the second.
SendFails_FromSecond ==
    /\ frames # <<>> /\ Top.at = 0 /\ ~alive
    /\ Reconnect
    /\ frames' = [frames EXCEPT ![Len(frames)].at = 2]
    /\ UNCHANGED <<api, inbound, world, history>>

\* Bug to catch: EPIPE is taken for done and the broken socket kept.
SendFails_Ignored ==
    /\ frames # <<>> /\ Top.at = 0 /\ ~alive
    /\ accepted' = accepted \cup {Top.m}
    /\ frames' = Under
    /\ UNCHANGED <<api, io, inbound, world, taken, open, calls, answers>>

\* EPIPE, also for a send that was waiting for room: the loop over the listeners
\* begins.
SendFails ==
    /\ frames # <<>> /\ Top.at = 0 /\ ~alive
    /\ Reconnect
    /\ frames' = [frames EXCEPT ![Len(frames)].at = 1]
    /\ UNCHANGED <<api, inbound, world, history>>

\* Bug to catch: a slot not in use is not stepped over.
Reregister_Stays ==
    /\ frames # <<>> /\ Top.at \in Slots
    /\ InUse(Top.at)
    /\ frames' = Append([frames EXCEPT ![Len(frames)].at = @ + 1],
                        Frame(Message("subscribe", listeners[Top.at].subscription_id), 0))
    /\ UNCHANGED <<api, io, inbound, world, history>>

\* One turn of that loop: SendMessage subscribes for a listener in use.
Reregister ==
    /\ frames # <<>> /\ Top.at \in Slots
    /\ LET moved == [frames EXCEPT ![Len(frames)].at = @ + 1]
       IN  frames' = IF InUse(Top.at)
                     THEN Append(moved, Frame(Message("subscribe",
                                      listeners[Top.at].subscription_id), 0))
                     ELSE moved
    /\ UNCHANGED <<api, io, inbound, world, history>>

\* ConnectAndRegister returns RT_OK, which ends the caller's loop of attempts:
\* what was to be sent is not tried again.
Reregistered ==
    /\ frames # <<>> /\ Top.at > MaxListeners
    /\ accepted' = IF Top.m = Nothing THEN accepted ELSE accepted \cup {Top.m}
    /\ frames' = Under
    /\ UNCHANGED <<api, io, inbound, world, taken, open, calls, answers>>

-----------------------------------------------------------------------------
(***************************************************************************)
(* The calls of the application.                                           *)
(***************************************************************************)
Idle == call = "none"

\* Bug to catch: the next id is not counted up.
AddListener_SameId ==
    /\ Idle
    /\ \E k \in Slots :
        /\ ~InUse(k) /\ \A l \in 1 .. k - 1 : InUse(l)
        /\ listeners' = [listeners EXCEPT ![k] =
                            [in_use |-> TRUE, subscription_id |-> next_id]]
    /\ frames' = <<Frame(Message("subscribe", next_id), 0)>>
    /\ call' = "AddListener"
    /\ UNCHANGED <<next_id, sends, io, inbound, world, history>>

\* The slot is filled in first, then the router told; with no slot free the
\* call gives ENOMEM and changes nothing.
AddListener ==
    /\ Idle
    /\ \E k \in Slots :
        /\ ~InUse(k) /\ \A l \in 1 .. k - 1 : InUse(l)
        /\ listeners' = [listeners EXCEPT ![k] =
                            [in_use |-> TRUE, subscription_id |-> next_id]]
    /\ next_id' = next_id + 1
    /\ frames' = <<Frame(Message("subscribe", next_id), 0)>>
    /\ call' = "AddListener"
    /\ UNCHANGED <<sends, io, inbound, world, history>>

\* rtConnection_Create has ended once the inbox has its listener.
Created == InUse(Inbox)

SendMessage ==
    /\ Idle /\ Created /\ sends < MaxSends /\ sends + published < MaxTraffic
    /\ sends' = sends + 1
    /\ frames' = <<Frame(Message("message", sends + 1), 0)>>
    /\ call' = "SendMessage"
    /\ UNCHANGED <<listeners, next_id, io, inbound, world, history>>

SendReturns ==
    /\ call \in {"AddListener", "SendMessage"} /\ frames = <<>>
    /\ call' = "none"
    /\ UNCHANGED <<listeners, next_id, sends, frames, io, inbound, world, history>>

\* con->response is left as it is.
SendRequest ==
    /\ Idle /\ Created /\ sends < MaxSends /\ sends + published < MaxTraffic
    /\ sends' = sends + 1
    /\ frames' = <<Frame(Message("request", sends + 1), 0)>>
    /\ call' = "SendRequest"
    /\ UNCHANGED <<listeners, next_id, io, inbound, world, history>>

-----------------------------------------------------------------------------
(***************************************************************************)
(* TimedDispatch, called by the application or from the loop of            *)
(* SendRequest.  Its timeout is not used: the reads wait.                  *)
(***************************************************************************)
StartDispatch ==
    /\ frames = <<>> /\ receiving = "no"
    /\ \/ Idle /\ Created /\ call' = "Dispatch"
       \/ call = "SendRequest" /\ UNCHANGED call
    /\ receiving' = "reading" /\ hdr' = NoHeader
    /\ UNCHANGED <<listeners, next_id, sends, frames, io, response, world, history>>

\* Bug to catch: a message that comes while a request waits is put back behind
\* what has come since, to be looked at later.
Receive_PutsBack ==
    /\ receiving = "reading" /\ rx # <<>> /\ Head(rx).cut = "whole"
    /\ IF call = "SendRequest" /\ Head(rx).kind = "message"
       THEN /\ rx' = Append(Tail(rx), Head(rx))
            /\ UNCHANGED <<hdr, receiving>>
       ELSE /\ hdr' = Header(Head(rx)) /\ rx' = Tail(rx)
            /\ receiving' = "done"
    /\ UNCHANGED <<api, frames, alive, tx, subscribed, response, world, history>>

\* Header and payload are read.
Receive ==
    /\ receiving = "reading" /\ rx # <<>> /\ Head(rx).cut = "whole"
    /\ hdr' = Header(Head(rx)) /\ rx' = Tail(rx)
    /\ receiving' = "done"
    /\ UNCHANGED <<api, frames, alive, tx, subscribed, response, world, history>>

\* The connection ends before or inside a message.  A new one is opened and the
\* call goes on with the header it has, if it has one.
ReceiveFails ==
    /\ receiving = "reading"
    /\ IF rx = <<>> THEN ~alive ELSE Head(rx).cut # "whole"
    /\ hdr' = IF rx # <<>> /\ Head(rx).cut = "payload" THEN Header(Head(rx)) ELSE hdr
    /\ Reconnect
    /\ frames' = <<Frame(Nothing, 1)>>
    /\ receiving' = "done"
    /\ UNCHANGED <<api, response, world, history>>

\* The table as the loop over it leaves it: looking for the listener of a
\* message without route, it takes the id from every slot it comes to.
Matches(k, table) == table[k].in_use /\ table[k].subscription_id = hdr.id

Forgotten(table) ==
    IF hdr.kind = "noroute"
    THEN [k \in Slots |->
            IF \E l \in 1 .. k - 1 : table[l].in_use THEN table[k]
            ELSE [table[k] EXCEPT !.subscription_id = 0]]
    ELSE table

\* onInboxMessage: whatever came last under the flag of a response.
InboxResponse ==
    IF hdr.kind \in {"response", "noroute"} THEN hdr.n ELSE response

\* The first listener with the id of the header is called, if there is one.
Callback ==
    /\ receiving = "done" /\ frames = <<>>
    /\ LET table == Forgotten(listeners)
           found == {k \in Slots : Matches(k, table)}
           first == CHOOSE k \in found : \A l \in found : k <= l
       IN  /\ listeners' = table
           /\ response' = IF found # {} /\ first = Inbox THEN InboxResponse ELSE response
           /\ calls' = IF found # {} /\ first # Inbox
                       THEN Append(calls, [slot |-> first, n |-> hdr.n, whole |-> hdr.whole])
                       ELSE calls
    /\ receiving' = "no" /\ hdr' = NoHeader
    /\ call' = IF call = "Dispatch" THEN "none" ELSE "Looking"
    /\ UNCHANGED <<next_id, sends, frames, io, world, taken, accepted, open, answers>>

\* What the dispatch inside SendRequest has left is returned...
RequestAnswered ==
    /\ call = "Looking" /\ response # 0
    /\ answers' = answers \cup {[request |-> sends, response |-> response]}
    /\ response' = 0
    /\ call' = "none"
    /\ UNCHANGED <<listeners, next_id, sends, frames, io, hdr, receiving, world,
                   taken, accepted, open, calls>>

\* ... and without a response the loop goes on.
RequestUnanswered ==
    /\ call = "Looking" /\ response = 0
    /\ call' = "SendRequest"
    /\ UNCHANGED <<listeners, next_id, sends, frames, io, inbound, world, history>>

\* The clock is read between two dispatches, and before the first: a timeout
\* below one second is over at once.
RequestTimesOut ==
    /\ call = "SendRequest" /\ frames = <<>> /\ receiving = "no"
    /\ call' = "none"
    /\ UNCHANGED <<listeners, next_id, sends, frames, io, inbound, world, history>>

-----------------------------------------------------------------------------
(***************************************************************************)
(* The other end.  The router writes one copy of a message for every       *)
(* subscription to its topic.                                              *)
(***************************************************************************)

\* One for every time this client subscribed under the id.
Copies(id, n, kind) ==
    [e \in 1 .. Cardinality({q \in DOMAIN subscribed : subscribed[q] = id}) |->
        Incoming(id, n, kind, "whole")]

\* The inbox is subscribed under the first id or without one (Forgotten), on one
\* connection never both.
InboxCopies(r) == Copies(0, r, "response") \o Copies(1, r, "response")

\* The router comes to this client's socket and takes one message from it.
RouterReads ==
    /\ alive /\ tx # <<>>
    /\ LET m == Head(tx)
       IN  /\ subscribed' = IF m.kind = "subscribe" THEN Append(subscribed, m.n)
                            ELSE subscribed
           /\ open' = IF m.kind = "request" THEN open \cup {m.n} ELSE open
           /\ taken' = taken \cup {m}
    /\ tx' = Tail(tx)
    /\ UNCHANGED <<api, frames, alive, rx, inbound, world, accepted, calls, answers>>

\* Somebody publishes a message on the topic of a listener.
RouterDelivers ==
    /\ alive /\ published < MaxPublished /\ sends + published < MaxTraffic
    /\ published' = published + 1
    /\ \E k \in Slots \ {Inbox} :
        /\ InUse(k)
        /\ rx' = rx \o Copies(listeners[k].subscription_id, published + 1, "message")
    /\ UNCHANGED <<api, frames, alive, tx, subscribed, inbound, breaks, history>>

\* A request is answered, soon or late, by the peer that serves it.
RouterAnswers ==
    /\ alive
    /\ \E r \in open :
        /\ rx' = rx \o InboxCopies(r)
        /\ open' = open \ {r}
    /\ UNCHANGED <<api, frames, alive, tx, subscribed, inbound, world, taken, accepted,
                   calls, answers>>

\* Nobody serves it: the router writes the reply to this connection itself.
RouterHasNoRoute ==
    /\ alive /\ NoRouteReplies
    /\ \E r \in open :
        /\ rx' = Append(rx, Incoming(0, r, "noroute", "whole"))
        /\ open' = open \ {r}
    /\ UNCHANGED <<api, frames, alive, tx, subscribed, inbound, world, taken, accepted,
                   calls, answers>>

\* The connection breaks.  Of what was on its way to the client a part arrives,
\* and the last message of it may stop short in its header or in its payload; the
\* router reads nothing any more.
Break ==
    /\ alive /\ breaks < MaxBreaks
    /\ alive' = FALSE /\ breaks' = breaks + 1
    /\ \E k \in 0 .. Len(rx), cut \in {"whole", "header", "payload"} :
        /\ k = 0 => cut = "whole"
        /\ rx' = [q \in 1 .. k |-> IF q = k THEN [rx[q] EXCEPT !.cut = cut] ELSE rx[q]]
    /\ UNCHANGED <<api, frames, tx, subscribed, inbound, published, history>>

-----------------------------------------------------------------------------
\* After the ConnectAndRegister of rtConnection_Create: no listener yet.
Init ==
    /\ call = "none" /\ next_id = 1 /\ sends = 0 /\ frames = <<>>
    /\ listeners = [k \in Slots |-> [in_use |-> FALSE, subscription_id |-> 0]]
    /\ alive = TRUE /\ tx = <<>> /\ subscribed = <<>> /\ rx = <<>>
    /\ hdr = NoHeader /\ receiving = "no" /\ response = 0
    /\ breaks = 0 /\ published = 0
    /\ taken = {} /\ accepted = {} /\ open = {} /\ calls = <<>> /\ answers = {}

\* The steps of a call once it has been made.
Inside ==
    \/ SendSucceeds \/ SendFails \/ Reregister \/ Reregistered \/ SendReturns
    \/ Receive \/ ReceiveFails \/ Callback
    \/ RequestAnswered \/ RequestUnanswered \/ RequestTimesOut
    \/ call = "SendRequest" /\ StartDispatch

Application == AddListener \/ SendMessage \/ SendRequest \/ StartDispatch

Environment ==
    RouterReads \/ RouterDelivers \/ RouterAnswers \/ RouterHasNoRoute \/ Break

Next == Inside \/ Application \/ Environment

Spec == Init /\ [][Next]_vars

\* A call that can go on does, and the router reads what a connection it still
\* holds has for it: without that a send waits for ever once the socket is full.
\* Nothing is assumed of the application, nor that the router answers.  (That the
\* router comes to read is RtSystem's NoCircle and RtRouted's EveryMessageRead.)
FairSpec == Spec /\ WF_vars(Inside) /\ WF_vars(RouterReads)

-----------------------------------------------------------------------------
(***************************************************************************)
(* Properties.                                                             *)
(***************************************************************************)
Kinds == {"none", "subscribe", "message", "request"}
SentMessages == [kind : Kinds, n : Nat]
Frames == [m : SentMessages, at : 0 .. MaxListeners + 1]
Arrivals == [id : Nat, n : Nat, kind : {"message", "response", "noroute"},
             cut : {"whole", "header", "payload"}]
Headers == [id : Nat, n : Nat, kind : {"none", "message", "response", "noroute"},
            whole : BOOLEAN]
Calls == [slot : Slots, n : Nat, whole : BOOLEAN]

\* The data of a connection is well formed (rtConnection.c:50-64).
TypeOK ==
    /\ call \in {"none", "AddListener", "SendMessage", "SendRequest", "Looking",
                 "Dispatch"}
    /\ listeners \in [Slots -> [in_use : BOOLEAN, subscription_id : Nat]]
    /\ next_id \in Nat /\ sends \in Nat
    /\ frames \in Seq(Frames)
    /\ alive \in BOOLEAN /\ tx \in Seq(SentMessages) /\ Len(tx) <= SendCap
    /\ subscribed \in Seq(Nat)
    /\ rx \in Seq(Arrivals) /\ hdr \in Headers
    /\ receiving \in {"no", "reading", "done"} /\ response \in Nat
    /\ breaks \in Nat /\ published \in Nat
    /\ taken \subseteq SentMessages /\ accepted \subseteq SentMessages
    /\ open \subseteq Nat
    /\ calls \in Seq(Calls)
    /\ answers \subseteq [request : Nat, response : Nat]

\* Does the router know this id, or will it when it has read what is on its way?
Told(id) ==
    id \in Range(subscribed) \/ Message("subscribe", id) \in Range(tx)

\* However often the connection broke, and in whichever of the calls that were
\* putting it back: once no send is under way, the router has been told of every
\* listener that has kept its id, on the connection there is now
\* (rtConnection.c:145-159, 504-517).
ListenersRegistered ==
    frames = <<>> /\ alive =>
        \A k \in Slots : InUse(k) /\ listeners[k].subscription_id # 0 =>
            Told(listeners[k].subscription_id)

\* No two listeners answer to one id, so no message is handed to the listener
\* of another topic (rtConnection.c:79-84, 596-607).
IdsDistinct ==
    \A k, l \in Slots : InUse(k) /\ InUse(l) /\ k # l =>
        listeners[k].subscription_id # listeners[l].subscription_id

\* A listener is called in the order of publication, across any number of
\* reconnections: a duplicate may come, an earlier message never
\* (rtConnection.c:528-617).
CallbacksInOrder ==
    \A a, b \in DOMAIN calls : a < b => calls[a].n <= calls[b].n

\* What was reported as sent and no router has read nor will read: the socket it
\* went to was lost with it, or it never went to one.
Lost == accepted \ (taken \cup IF alive THEN Range(tx) ELSE {})

\* Callbacks made for a message that stopped short.
Halved == {a \in DOMAIN calls : ~calls[a].whole}

\* A break costs what one socket holds, before it broke or after, and one message
\* more: the one whose send found the connection broken and is not repeated, or a
\* callback for half of one.  However deep the repairs were nested in each other,
\* no break is paid for twice (rtConnection.c:448-487, 575-617).
DamageBounded == Cardinality(Lost) + Cardinality(Halved) <= (SendCap + 1) * breaks

\* As long as the router reads, a call that only sends comes back: it waits for
\* room in the socket, and every attempt to put the connection right may itself
\* find it broken or full (rtConnection.c:448-487).
SendsReturn == call \in {"AddListener", "SendMessage"} ~> call = "none"

\* SendRequest returns the response to its request ("Sends a request and
\* receive a response", rtConnection.h:89).
ResponseIsToRequest == \A a \in answers : a.request = a.response
=============================================================================
