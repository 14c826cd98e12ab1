------------------------------ MODULE RtRouted ------------------------------
(***************************************************************************)
(* rtrouted.c: the router.  One thread waits in select, accepts a          *)
(* connection, reads from the clients that are ready, and hands each       *)
(* message to the handlers of the routes its topic matches: the internal   *)
(* one, which adds routes, or the one that forwards to a client.           *)
(*                                                                         *)
(* A message is in inq once its last byte has come; RtReader models how    *)
(* the bytes become messages.  The model's sequences clients and routes    *)
(* are the vectors that RtVector shows to be lists; positions start at 1.  *)
(***************************************************************************)
EXTENDS Integers, Sequences, SequencesExt

CONSTANTS
    Conns,            \* the connections clients may open, each at most once
    Messages,         \* what a client may send: [topic, exp, id, request, empty]
    Match(_, _),      \* does this topic match this expression?
    SubscribeTopic,   \* "_RTROUTED.INBOX.SUBSCRIBE"
    HelloTopic,       \* "_RTROUTED.INBOX.HELLO"
    NoRouteTopic,     \* "NO.ROUTE.RESPONSE"
    InternalExp,      \* "_RTROUTED.>"
    DebugExp,         \* ">"
    NoClient,         \* the subscription of the two routes main adds
    TableCreated,     \* see Startup
    MaxFds,           \* descriptors the process may have for clients
    SendCap,          \* messages the kernel holds for a client that reads none
    MaxSent           \* bound of the model: messages one connection sends

ASSUME BoundsAssumption == MaxFds \in Nat /\ SendCap \in Nat /\ MaxSent \in Nat
ASSUME NoClientAssumption == NoClient \notin Conns
ASSUME TableCreatedAssumption == TableCreated \in BOOLEAN

VARIABLES
    pc,        \* where the router is: see Places
    routes,    \* the routing table
    clients,   \* the vector of connected clients
    fd,        \* the descriptor of each connected client
    readFds,   \* the set select returned
    i, n,      \* the loop over clients
    j, nr,     \* rtRoutingTree_ForEach: entry, size when it started
    err,       \* what the last callback of that loop returned
    msg,       \* the message being dispatched
    backlog,   \* connections not yet accepted
    peer,      \* the other end: "idle", "open", "hungup" or (torn down) "gone"
    inq,       \* complete messages of a client the router has not read
    sent,      \* how many messages a client has sent
    out,       \* all the router has sent to a client
    taken,     \* how many of those the client has read
    subs       \* history: every subscription accepted

loop    == <<i, n, j, nr, err, msg>>
network == <<backlog, peer, inq, sent, taken>>
vars    == <<pc, routes, clients, fd, readFds, loop, network, out, subs>>

Places == {"start", "crashed", "select", "listeners", "clients", "dispatch"}

ListenFd == 0

Connected == Range(clients)

\* rtRouteEntry with its rtSubscription.
Route(exp, handler, client, id) ==
    [exp |-> exp, handler |-> handler, client |-> client, id |-> id]

\* The routes main adds: always the first, the second for option -r.
InternalRoute == Route(InternalExp, "OnMessage", NoClient, 0)
DebugRoute    == Route(DebugExp, "Print", NoClient, 0)

NoMessage == [src |-> NoClient, seq |-> 0]

-----------------------------------------------------------------------------
(***************************************************************************)
(* The routing table (rtRoutingTree.c).                                    *)
(***************************************************************************)

\* The enumeration of rtRoutingTree.h gives its names these values.
rtBool_TRUE  == 0
rtBool_FALSE == 1

\* Bug to catch: the predicate keeps every entry.
RemoveClientSubscription_Keep(route, clnt) == rtBool_TRUE

\* The predicate is a stub that looks at neither argument.
RemoveClientSubscription(route, clnt) == rtBool_FALSE

\* rtRoutingTree_RemoveIf, with the one predicate it is called with: an entry
\* goes when C takes the answer for true; the others keep their order.
RemoveIf(table, clnt) ==
    LET kept == {k \in 1 .. Len(table) : RemoveClientSubscription(table[k], clnt) = 0}
        Nth(m) == CHOOSE k \in kept : Cardinality({q \in kept : q <= k}) = m
    IN  [m \in 1 .. Cardinality(kept) |-> table[Nth(m)]]

ClearClientRoutes(clnt) == RemoveIf(routes, clnt)

-----------------------------------------------------------------------------
(***************************************************************************)
(* The clients and the network.                                            *)
(***************************************************************************)
Connect(c) ==
    /\ peer[c] = "idle"
    /\ peer' = [peer EXCEPT ![c] = "open"]
    /\ backlog' = Append(backlog, c)
    /\ UNCHANGED <<pc, routes, clients, fd, readFds, loop, inq, sent, taken, out, subs>>

Send(c, m) ==
    /\ peer[c] = "open" /\ sent[c] < MaxSent
    /\ sent' = [sent EXCEPT ![c] = @ + 1]
    /\ inq' = [inq EXCEPT ![c] = Append(@, [m |-> m, src |-> c, seq |-> sent[c] + 1])]
    /\ UNCHANGED <<pc, routes, clients, fd, readFds, loop, backlog, peer, taken, out, subs>>

\* The client reads one message from its end.
Take(c) ==
    /\ peer[c] = "open" /\ taken[c] < Len(out[c])
    /\ taken' = [taken EXCEPT ![c] = @ + 1]
    /\ UNCHANGED <<pc, routes, clients, fd, readFds, loop, backlog, peer, inq, sent, out, subs>>

HangUp(c) ==
    /\ peer[c] = "open"
    /\ peer' = [peer EXCEPT ![c] = "hungup"]
    /\ UNCHANGED <<pc, routes, clients, fd, readFds, loop, backlog, inq, sent, taken, out, subs>>
-----------------------------------------------------------------------------
(***************************************************************************)
(* The router.                                                             *)
(***************************************************************************)

\* main up to its loop.  At this commit routes is still NULL at the first
\* AddRoute (no call of rtRoutingTree_New), whose log line also reads through
\* the NULL subscription: the process dies.  TableCreated = TRUE stands for a
\* main without these two slips, so that the rest can be studied.
Startup ==
    /\ pc = "start"
    /\ IF TableCreated
       THEN /\ pc' = "select"
            /\ routes' \in {<<InternalRoute>>, <<InternalRoute, DebugRoute>>}
       ELSE pc' = "crashed" /\ UNCHANGED routes
    /\ UNCHANGED <<clients, fd, readFds, loop, network, out, subs>>

\* Bug to catch: select is given a highest descriptor one too low.
ReadyFds_LowMax ==
    {fd[c] : c \in {c \in Connected : inq[c] # <<>> /\ \E d \in Connected : fd[d] > fd[c]}}
        \cup {l \in {ListenFd} : backlog # <<>>}

\* The descriptors with something to read: a message or the end of the stream.
ReadyFds ==
    {fd[c] : c \in {c \in Connected : inq[c] # <<>> \/ peer[c] = "hungup"}}
        \cup {l \in {ListenFd} : backlog # <<>>}

\* Bug to catch: the clients' bits of the last time are not cleared.
Select_NoZero ==
    /\ pc = "select" /\ ReadyFds # {}
    /\ readFds' = (readFds \ {ListenFd}) \cup ReadyFds
    /\ pc' = "listeners"
    /\ UNCHANGED <<routes, clients, fd, loop, network, out, subs>>

Select ==
    /\ pc = "select" /\ ReadyFds # {}
    /\ readFds' = ReadyFds
    /\ pc' = "listeners"
    /\ UNCHANGED <<routes, clients, fd, loop, network, out, subs>>

\* select's ten seconds are over.
SelectTimeout == pc = "select" /\ ReadyFds = {} /\ UNCHANGED vars

FreeFds == (1 .. MaxFds) \ {fd[c] : c \in Connected}

\* The loop over the listeners, then the size of clients is taken.  accept
\* gives the lowest free descriptor; with none left it fails, and the
\* connection stays where it is.
Accept ==
    /\ pc = "listeners"
    /\ \/ /\ ListenFd \in readFds
          /\ \E f \in FreeFds :
                /\ \A g \in FreeFds : f <= g
                /\ fd' = [fd EXCEPT ![Head(backlog)] = f]
          /\ clients' = Append(clients, Head(backlog))
          /\ backlog' = Tail(backlog)
       \/ /\ ListenFd \notin readFds \/ FreeFds = {}
          /\ UNCHANGED <<clients, fd, backlog>>
    /\ i' = 1 /\ n' = Len(clients')
    /\ pc' = "clients"
    /\ UNCHANGED <<routes, readFds, j, nr, err, msg, peer, inq, sent, taken, out, subs>>

\* The loop over the clients is at its end.
LoopDone ==
    /\ pc = "clients" /\ i > n
    /\ pc' = "select"
    /\ UNCHANGED <<routes, clients, fd, readFds, loop, network, out, subs>>

SkipClient ==
    /\ pc = "clients" /\ i <= n /\ fd[clients[i]] \notin readFds
    /\ i' = i + 1
    /\ UNCHANGED <<pc, routes, clients, fd, readFds, n, j, nr, err, msg, network, out, subs>>

AtReadyClient == pc = "clients" /\ i <= n /\ fd[clients[i]] \in readFds

\* Bug to catch: the message that came last is read first.
ReadMessage_Newest ==
    LET c == clients[i] IN
    /\ AtReadyClient
    /\ inq[c] # <<>> /\ ~Last(inq[c]).m.empty
    /\ msg' = Last(inq[c])
    /\ inq' = [inq EXCEPT ![c] = Front(@)]
    /\ pc' = "dispatch" /\ j' = 1 /\ nr' = Len(routes) /\ err' = "OK"
    /\ UNCHANGED <<routes, clients, fd, readFds, i, n, backlog, peer, sent, taken, out, subs>>

\* rtConnectedClient_Read completes a message and starts to dispatch it.
ReadMessage ==
    LET c == clients[i] IN
    /\ AtReadyClient
    /\ inq[c] # <<>> /\ ~Head(inq[c]).m.empty
    /\ msg' = Head(inq[c])
    /\ inq' = [inq EXCEPT ![c] = Tail(@)]
    /\ pc' = "dispatch" /\ j' = 1 /\ nr' = Len(routes) /\ err' = "OK"
    /\ UNCHANGED <<routes, clients, fd, readFds, i, n, backlog, peer, sent, taken, out, subs>>

\* Bug to catch: the loop keeps its old upper end.
DropClient_KeepsEnd ==
    LET c == clients[i] IN
    /\ AtReadyClient
    /\ peer[c] = "hungup" \/ (inq[c] # <<>> /\ Head(inq[c]).m.empty)
    /\ clients' = RemoveAt(clients, i)
    /\ routes' = ClearClientRoutes(c)
    /\ fd' = [fd EXCEPT ![c] = -1]
    /\ peer' = [peer EXCEPT ![c] = "gone"]
    /\ inq' = [inq EXCEPT ![c] = <<>>]
    /\ UNCHANGED <<pc, readFds, i, n, j, nr, err, msg, backlog, sent, taken, out, subs>>

\* Bug to catch: the descriptor is not closed.
DropClient_Leaks ==
    LET c == clients[i] IN
    /\ AtReadyClient
    /\ peer[c] = "hungup" \/ (inq[c] # <<>> /\ Head(inq[c]).m.empty)
    /\ clients' = RemoveAt(clients, i)
    /\ n' = n - 1
    /\ routes' = ClearClientRoutes(c)
    /\ peer' = [peer EXCEPT ![c] = "gone"]
    /\ inq' = [inq EXCEPT ![c] = <<>>]
    /\ UNCHANGED <<pc, fd, readFds, i, j, nr, err, msg, backlog, sent, taken, out, subs>>

\* rtConnectedClient_Read fails: the stream has ended (unread data may be lost
\* to a reset), or a message has no payload, for which recv is asked for no
\* bytes and its answer 0 taken for the end.  The client is taken out of the
\* vector and destroyed, its routes cleared; i stays, n shrinks.
DropClient ==
    LET c == clients[i] IN
    /\ AtReadyClient
    /\ peer[c] = "hungup" \/ (inq[c] # <<>> /\ Head(inq[c]).m.empty)
    /\ clients' = RemoveAt(clients, i)
    /\ n' = n - 1
    /\ routes' = ClearClientRoutes(c)
    /\ fd' = [fd EXCEPT ![c] = -1]
    /\ peer' = [peer EXCEPT ![c] = "gone"]
    /\ inq' = [inq EXCEPT ![c] = <<>>]
    /\ UNCHANGED <<pc, readFds, i, j, nr, err, msg, backlog, sent, taken, out, subs>>

-----------------------------------------------------------------------------
(***************************************************************************)
(* rtRoutingTree_ForEach over the table, one entry per step.  The number   *)
(* of entries is taken at the start; a callback may add entries.           *)
(***************************************************************************)

AtEntry == pc = "dispatch" /\ j <= nr

AtMatch(handler) ==
    /\ AtEntry
    /\ Match(msg.m.topic, routes[j].exp)
    /\ routes[j].handler = handler

\* Bug to catch: a failing handler ends the loop over the table.
CallbackResult_Passed(result) == result

\* rtRouted_DispatchCallback hides what the handler returned.
CallbackResult(result) == "OK"

\* Go to the next entry, or leave the loop when the callback failed.
NextEntry(result) ==
    /\ err' = result
    /\ j' = IF result = "OK" THEN j + 1 ELSE nr + 1

SkipEntry ==
    /\ AtEntry /\ ~Match(msg.m.topic, routes[j].exp)
    /\ NextEntry("OK")
    /\ UNCHANGED <<pc, routes, clients, fd, readFds, i, n, nr, msg, network, out, subs>>

\* Bug to catch: the id of the route is not set.
AskedFor_NoId(m) ==
    IF m.m.topic \in {SubscribeTopic, HelloTopic}
    THEN <<Route(m.m.exp, "Forward", m.src, -1)>> ELSE <<>>

\* The route a control message asks for: of an expression with the id
\* the client chose, or of the client's inbox with id 0.
AskedFor(m) ==
    IF m.m.topic = SubscribeTopic
    THEN <<Route(m.m.exp, "Forward", m.src, m.m.id)>>
    ELSE IF m.m.topic = HelloTopic
         THEN <<Route(m.m.exp, "Forward", m.src, 0)>>
         ELSE <<>>

OnMessage ==
    /\ AtMatch("OnMessage")
    /\ routes' = routes \o AskedFor(msg)
    /\ subs' = subs \cup Range(AskedFor(msg))
    /\ NextEntry(CallbackResult("OK"))
    /\ UNCHANGED <<pc, clients, fd, readFds, i, n, nr, msg, network, out>>

PrintMessage ==
    /\ AtMatch("Print")
    /\ NextEntry(CallbackResult("OK"))
    /\ UNCHANGED <<pc, routes, clients, fd, readFds, i, n, nr, msg, network, out, subs>>

\* Bug to catch: control_data is not set.
Forwarded_NoId(route) ==
    [src |-> msg.src, seq |-> msg.seq, topic |-> msg.m.topic, id |-> 0]

\* The message under the id of the subscription it is forwarded for.
Forwarded(route) ==
    [src |-> msg.src, seq |-> msg.seq, topic |-> msg.m.topic, id |-> route.id]

Unread(c) == Len(out[c]) - taken[c]

\* send on the blocking socket: it waits while the client's buffers are full.
SendResult(c) ==
    IF c \notin Connected THEN "EBADF"
    ELSE IF peer[c] = "hungup" THEN "FAIL" ELSE "OK"

\* A client that has hung up loses the message, the others get theirs.
ForwardMessage ==
    LET route == routes[j]
        dst == route.client
        result == SendResult(dst)
    IN  /\ AtMatch("Forward")
        /\ result = "OK" => Unread(dst) < SendCap
        /\ out' = IF result = "OK"
                  THEN [out EXCEPT ![dst] = Append(@, Forwarded(route))]
                  ELSE out
        /\ routes' = IF result = "EBADF" THEN ClearClientRoutes(msg.src) ELSE routes
        /\ NextEntry(CallbackResult(result))
        /\ UNCHANGED <<pc, clients, fd, readFds, i, n, nr, msg, network, subs>>

\* The reply for a request that found no route.
NoRouteReply(m) == [src |-> m.src, seq |-> m.seq, topic |-> NoRouteTopic, id |-> 0]

\* The end of rtRouter_DispatchMessageFromClient and of the client's turn.
DispatchDone ==
    /\ pc = "dispatch" /\ j > nr
    /\ out' = IF err = "NO_CONNECTION" /\ msg.m.request
              THEN [out EXCEPT ![msg.src] = Append(@, NoRouteReply(msg))]
              ELSE out
    /\ pc' = "clients" /\ i' = i + 1
    /\ UNCHANGED <<routes, clients, fd, readFds, n, j, nr, err, msg, network, subs>>

-----------------------------------------------------------------------------
Init ==
    /\ pc = "start"
    /\ routes = <<>> /\ clients = <<>>
    /\ fd = [c \in Conns |-> -1] /\ readFds = {}
    /\ i = 1 /\ n = 0 /\ j = 1 /\ nr = 0 /\ err = "OK" /\ msg = NoMessage
    /\ backlog = <<>>
    /\ peer = [c \in Conns |-> "idle"]
    /\ inq = [c \in Conns |-> <<>>] /\ sent = [c \in Conns |-> 0]
    /\ out = [c \in Conns |-> <<>>] /\ taken = [c \in Conns |-> 0]
    /\ subs = {}

Dispatch == SkipEntry \/ OnMessage \/ PrintMessage \/ ForwardMessage \/ DispatchDone

Router ==
    \/ Startup \/ Select \/ SelectTimeout \/ Accept
    \/ LoopDone \/ SkipClient \/ ReadMessage \/ DropClient
    \/ Dispatch

Client(c) ==
    \/ Connect(c) \/ Take(c) \/ HangUp(c)
    \/ \E m \in Messages : Send(c, m)

Next == Router \/ \E c \in Conns : Client(c)

Spec == Init /\ [][Next]_vars

\* The router's thread runs, and clients go on reading what they are sent.
FairSpec == Spec /\ WF_vars(Router) /\ \A c \in Conns : WF_vars(Take(c))
-----------------------------------------------------------------------------
(***************************************************************************)
(* Properties.                                                             *)
(***************************************************************************)
Exps == {InternalExp, DebugExp} \cup {m.exp : m \in Messages}
Ids  == {0} \cup {m.id : m \in Messages}

Routes ==
    [exp : Exps, handler : {"OnMessage", "Print", "Forward"},
     client : Conns \cup {NoClient}, id : Ids]

SentMessages == [m : Messages, src : Conns, seq : Nat]

OutMessages ==
    [src : Conns, seq : Nat, id : Ids,
     topic : {NoRouteTopic} \cup {m.topic : m \in Messages}]

TableTypeOK ==
    /\ routes \in Seq(Routes)
    /\ subs \subseteq Routes

LoopTypeOK ==
    /\ pc \in Places
    /\ clients \in Seq(Conns)
    /\ fd \in [Conns -> {-1} \cup 1 .. MaxFds]
    /\ readFds \subseteq -1 .. MaxFds
    /\ i \in Nat /\ n \in Nat /\ j \in Nat /\ nr \in Nat
    /\ err \in {"OK", "FAIL", "EBADF", "NO_CONNECTION"}
    /\ msg \in SentMessages \cup {NoMessage}

NetworkTypeOK ==
    /\ backlog \in Seq(Conns)
    /\ peer \in [Conns -> {"idle", "open", "hungup", "gone"}]
    /\ inq \in [Conns -> Seq(SentMessages)]
    /\ sent \in [Conns -> Nat]
    /\ taken \in [Conns -> Nat]
    /\ out \in [Conns -> Seq(OutMessages)]

\* The router's data is well formed (rtrouted.c:41-83).
TypeOK == TableTypeOK /\ LoopTypeOK /\ NetworkTypeOK

\* No route outlives its client: the handler of a forwarding route uses the
\* client's descriptor and buffer, which rtConnectedClient_Destroy has freed
\* (rtrouted.c:175-190, :211-215).
NoDanglingRoute ==
    \A k \in 1 .. Len(routes) :
        routes[k].handler = "Forward" => routes[k].client \in Connected

\* The loops that fixed their upper end beforehand never reach past the end
\* of a vector that changed meanwhile: rtVector_At would give NULL, which
\* both loops dereference (rtrouted.c:660-675, rtRoutingTree.c:129-137).
LoopsStayInside ==
    /\ pc \in {"clients", "dispatch"} => n = Len(clients)
    /\ pc = "dispatch" => nr <= Len(routes)

\* A client's turn to be read comes only while there is something to read or
\* the stream has ended: recv on the blocking descriptor would otherwise stop
\* the whole router, and descriptor numbers are used again for new clients
\* (rtrouted.c:660-665, :344).
RecvNeverBlocks ==
    AtReadyClient => inq[clients[i]] # <<>> \/ peer[clients[i]] = "hungup"

\* What a client is sent, it subscribed to: under the id the message carries
\* it has asked for an expression that matches the topic
\* (rtrouted.c:204, :264-294; rtRoutingTree.c:129-136).
OnlyToSubscribers ==
    \A c \in Conns : \A k \in 1 .. Len(out[c]) :
        \E route \in subs :
            /\ route.client = c
            /\ route.id = out[c][k].id
            /\ Match(out[c][k].topic, route.exp)

\* The messages of one sender reach a client in the order they were sent
\* (rtrouted.c:387-397, :609-676).
InOrder ==
    \A c \in Conns : \A k, l \in 1 .. Len(out[c]) :
        k < l /\ out[c][k].src = out[c][l].src => out[c][k].seq <= out[c][l].seq

\* When a message is done with, every connected client with a matching route
\* has been sent it under that route's id; one whose client has hung up takes
\* nothing from the others (rtrouted.c:112-128, rtRoutingTree.c:129-137).
HasBeenSent(m, route) ==
    \E k \in 1 .. Len(out[route.client]) : out[route.client][k] =
        [src |-> m.src, seq |-> m.seq, topic |-> m.m.topic, id |-> route.id]

FanOutComplete ==
    [][ pc = "dispatch" /\ pc' # "dispatch" =>
          \A k \in 1 .. nr :
              /\ Match(msg.m.topic, routes[k].exp)
              /\ routes[k].handler = "Forward"
              /\ peer[routes[k].client] = "open"
              => HasBeenSent(msg, routes[k]) ]_vars

\* No client is starved by others: whatever a connected client has sent is
\* read, if only to be lost because the client is dropped
\* (rtrouted.c:633-675).
EveryMessageRead ==
    \A c \in Conns : (c \in Connected /\ inq[c] # <<>>) ~> (inq[c] = <<>>)

\* A connection whose client has hung up is taken apart, and its descriptor
\* becomes free (rtrouted.c:352-356, :666-671).
HangUpsReaped ==
    \A c \in Conns : (c \in Connected /\ peer[c] = "hungup") ~> (fd[c] = -1)

-----------------------------------------------------------------------------
(***************************************************************************)
(* What the source says of the router and the code does not do.            *)
(***************************************************************************)

\* "removed all routes from routing tree for client" (rtrouted.c:151): those
\* of the client that goes, not those of the clients that stay.
OtherRoutesSurvive ==
    [][ \A k \in 1 .. Len(routes) :
          LET route == routes[k] IN
          route.handler = "Forward" /\ route.client \in Range(clients)'
              => route \in Range(routes)' ]_vars
=============================================================================
