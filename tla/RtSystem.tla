------------------------------ MODULE RtSystem ------------------------------
(***************************************************************************)
(* The router with programs at the other end of its connections: servers   *)
(* like sample_res.c, which answer what comes for the topic they listen    *)
(* to, and requesters like sample_req.c, which send a request and wait for *)
(* the response.  All sockets block, and the kernel holds only so much in  *)
(* either direction: a program that sends is not reading, and the router,  *)
(* while it sends to one program, serves nobody.                           *)
(*                                                                         *)
(* The router and the network are those of RtRouted.  What it sends names  *)
(* a message by its sender and number; written tells the rest of it.       *)
(***************************************************************************)
EXTENDS RtRouted

CONSTANTS
    Servers, Requesters,
    Service,       \* the topic the servers listen to
    Inbox,         \* [connection -> the topic of its inbox]
    Nowhere,       \* no expression
    RecvCap,       \* messages the kernel holds for the router from one client
    MaxRequests    \* bound of the model: requests of one requester

ASSUME ProgramsAssumption ==
    /\ Conns = Servers \cup Requesters /\ Servers \cap Requesters = {}
    /\ IsFiniteSet(Servers) /\ IsFiniteSet(Requesters)
    /\ RecvCap \in Nat \ {0} /\ MaxRequests \in Nat

VARIABLES
    at,            \* where each program is
    listeners,     \* the expressions it listens to: the k-th under the id k
    requests,      \* how many requests it has sent
    request,       \* the request a server is answering
    written,       \* the messages it has written
    answers        \* the responses its requests returned

programs   == <<at, listeners, requests, request, written, answers>>
systemVars == <<vars, programs>>

NoRequest == [from |-> NoClient, number |-> 0]

Body(kind, topic, exp, id, from, number) ==
    [kind |-> kind, topic |-> topic, exp |-> exp, id |-> id, from |-> from,
     number |-> number, request |-> kind = "request", empty |-> FALSE]

Subscription(exp, id) == Body("subscribe", SubscribeTopic, exp, id, NoClient, 0)
Request(c, k)  == Body("request", Service, Nowhere, 0, c, k)
Response(r)    == Body("response", Inbox[r.from], Nowhere, 0, r.from, r.number)

\* What the programs write: the value of Messages.
SystemMessages ==
    {Subscription(Inbox[c], 1) : c \in Conns} \cup {Subscription(Service, 2)}
        \cup UNION {{Request(c, k), Response([from |-> c, number |-> k])} :
                       c \in Requesters, k \in 1 .. MaxRequests}

\* Topics and expressions are names without wildcards, which match themselves
\* only, and no two programs have the same inbox.
ASSUME TopicsAssumption ==
    LET Inboxes == {Inbox[c] : c \in Conns} IN
    /\ SystemMessages \subseteq Messages
    /\ \A c, d \in Conns : Inbox[c] = Inbox[d] => c = d
    /\ {Service, SubscribeTopic, HelloTopic, Nowhere} \cap Inboxes = {}
    /\ Service \notin {SubscribeTopic, HelloTopic, Nowhere}
    /\ \A topic \in {Service, SubscribeTopic} \cup Inboxes, exp \in {Service} \cup Inboxes :
         Match(topic, exp) => topic = exp

GoTo(c, place) == at' = [at EXCEPT ![c] = place]

-----------------------------------------------------------------------------
\* SendInternal: the program waits in it while the kernel has no room.
HasRoom(c) == Len(inq[c]) < RecvCap

Write(c, m) ==
    /\ HasRoom(c) /\ Send(c, m)
    /\ written' = [written EXCEPT ![c] = Append(@, m)]

\* The next slot, with the next id, and the router is told.
Listen(c, exp) ==
    /\ Write(c, Subscription(exp, Len(listeners[c]) + 1))
    /\ listeners' = [listeners EXCEPT ![c] = Append(@, exp)]

\* rtConnection_Create, up to the listener for the inbox...
Create(c) ==
    /\ at[c] = "off" /\ Connect(c)
    /\ GoTo(c, "create")
    /\ UNCHANGED <<listeners, requests, request, written, answers>>

\* ... and that.
AddInbox(c) ==
    /\ at[c] = "create" /\ Listen(c, Inbox[c])
    /\ GoTo(c, IF c \in Servers THEN "listen" ELSE "ask")
    /\ UNCHANGED <<requests, request, answers>>

AddListener(c) ==
    /\ at[c] = "listen" /\ Listen(c, Service)
    /\ GoTo(c, "dispatch")
    /\ UNCHANGED <<requests, request, answers>>

\* Bug to catch: the next request is sent while the last one is not answered.
SendRequest_NoWait(c) ==
    /\ at[c] \in {"ask", "wait"} /\ requests[c] < MaxRequests
    /\ Write(c, Request(c, requests[c] + 1))
    /\ requests' = [requests EXCEPT ![c] = @ + 1]
    /\ GoTo(c, "wait")
    /\ UNCHANGED <<listeners, request, answers>>

SendRequest(c) ==
    /\ at[c] = "ask" /\ requests[c] < MaxRequests
    /\ Write(c, Request(c, requests[c] + 1))
    /\ requests' = [requests EXCEPT ![c] = @ + 1]
    /\ GoTo(c, "wait")
    /\ UNCHANGED <<listeners, request, answers>>

\* What TimedDispatch reads next, and the listener it finds for it.
Incoming(c)     == out[c][taken[c] + 1]
BodyOf(in)      == written[in.src][in.seq]
ListenerOf(c, in) == IF in.id \in DOMAIN listeners[c] THEN listeners[c][in.id] ELSE Nowhere

\* The callback of a server: a request is to be answered.
DispatchRequest(c) ==
    /\ at[c] = "dispatch" /\ Take(c)
    /\ LET in == Incoming(c) IN
        IF ListenerOf(c, in) = Service /\ BodyOf(in).request
        THEN /\ request' = [request EXCEPT ![c] =
                              [from |-> BodyOf(in).from, number |-> BodyOf(in).number]]
             /\ GoTo(c, "respond")
        ELSE UNCHANGED <<request, at>>
    /\ UNCHANGED <<listeners, requests, written, answers>>

\* Bug to catch: the response goes out with the number of an earlier one.
Answered_Stale(c) == [request[c] EXCEPT !.number = 1]

Answered(c) == request[c]

SendResponse(c) ==
    /\ at[c] = "respond" /\ Write(c, Response(Answered(c)))
    /\ request' = [request EXCEPT ![c] = NoRequest]
    /\ GoTo(c, "dispatch")
    /\ UNCHANGED <<listeners, requests, answers>>

\* onInboxMessage, and the return of SendRequest with the response.
DispatchResponse(c) ==
    /\ at[c] = "wait" /\ Take(c)
    /\ LET in == Incoming(c) IN
        IF ListenerOf(c, in) = Inbox[c] /\ BodyOf(in).kind = "response"
        THEN /\ answers' = [answers EXCEPT ![c] = Append(@, BodyOf(in).number)]
             /\ GoTo(c, "ask")
        ELSE UNCHANGED <<answers, at>>
    /\ UNCHANGED <<listeners, requests, request, written>>

-----------------------------------------------------------------------------
SystemInit ==
    /\ Init
    /\ at = [c \in Conns |-> "off"]
    /\ listeners = [c \in Conns |-> <<>>]
    /\ requests = [c \in Conns |-> 0]
    /\ request = [c \in Conns |-> NoRequest]
    /\ written = [c \in Conns |-> <<>>]
    /\ answers = [c \in Conns |-> <<>>]

RouterStep == Router /\ UNCHANGED programs

\* What a program does once it runs.
Program(c) ==
    \/ AddInbox(c) \/ AddListener(c) \/ SendRequest(c) \/ DispatchResponse(c)
    \/ DispatchRequest(c) \/ SendResponse(c)

SystemNext == RouterStep \/ \E c \in Conns : Create(c) \/ Program(c)

SystemSpec == SystemInit /\ [][SystemNext]_systemVars

\* The router and the programs that were started run.
Fairness ==
    /\ WF_systemVars(RouterStep)
    /\ \A c \in Conns : WF_systemVars(Program(c))

SystemFairSpec == SystemSpec /\ Fairness

-----------------------------------------------------------------------------
\* With one server, each request returns the response to itself, whoever else
\* is asking meanwhile (rtConnection.c:371-418, sample_res.c:27-47).
AnswersMatch ==
    Cardinality(Servers) = 1 =>
        \A c \in Requesters : \A k \in DOMAIN answers[c] : answers[c][k] = k

\* The router never waits to send to a program that itself waits to send to the
\* router, which would be the end of both and of everybody's service: with one
\* request of each requester under way there is always room for one of the two
\* (rtrouted.c:216-238, rtConnection.c:460-478).
RouterWaitsFor(c) ==
    AtMatch("Forward") /\ routes[j].client = c /\ SendResult(c) = "OK" /\ Unread(c) >= SendCap
WaitsForRouter(c) ==
    ~HasRoom(c) /\ (at[c] \in {"create", "listen", "respond"}
                    \/ (at[c] = "ask" /\ requests[c] < MaxRequests))
NoCircle == \A c \in Conns : ~(RouterWaitsFor(c) /\ WaitsForRouter(c))

\* A request that is still unread when the router knows a server gets its
\* response (rtrouted.c:609-676, rtConnection.c:371-418).
ServerKnown ==
    \E k \in DOMAIN routes : routes[k].handler = "Forward" /\ routes[k].exp = Service
RequestUnread(c) == \E k \in DOMAIN inq[c] : inq[c][k].m.request
EveryRequestServed ==
    \A c \in Requesters :
        RequestUnread(c) /\ ServerKnown ~> at[c] = "ask"
=============================================================================
