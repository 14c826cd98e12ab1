---------------------------- MODULE DmProviderHost ----------------------------
(***************************************************************************)
(* dmProviderHost.cpp: the program's main thread starts the host and       *)
(* registers providers while a second thread dispatches the requests for   *)
(* them.  The two share the connection with its send buffer and the map of *)
(* providers, and no lock.                                                 *)
(***************************************************************************)
EXTENDS DmProvider

CONSTANTS
    RegisterOrder,    \* the objects main registers, in its order
    Known,            \* those the data model has
    MaxListeners,     \* RTMSG_LISTENERS_MAX, less the inbox
    MaxRequests,      \* bound of the model
    Properties,       \* the properties of an object in the data model, in its order
    Wildcard, Unnamed,
    Gets,             \* what may be asked for: a name or the wildcard
    Sets              \* what may be set: the pieces between the commas, cut at each "="

ASSUME HostAssumption ==
    /\ MaxListeners \in Nat /\ MaxRequests \in Nat
    /\ RegisterOrder \in Seq(STRING) /\ Known \subseteq Objects
    /\ Properties \in Seq(Props) /\ Unnamed \in Missing \ Range(Properties)

ASSUME SetsAssumption ==
    /\ Sets \subseteq Seq(Seq(STRING))
    /\ \A pieces \in Sets : \A k \in DOMAIN pieces :
          Len(pieces[k]) = 2 => pieces[k][2] \in Values

VARIABLES
    at,           \* [thread -> place]
    turn,         \* which of RegisterOrder main has come to
    sending,      \* [thread -> what its SendInternal was given]
    send_buffer,  \* whose header the connection's buffer holds
    wire,         \* written to the socket and not yet read: headers and payloads
    broken,       \* has the router read something out of step?
    overlapped,   \* history: were both threads in SendInternal at once?
    listeners,    \* the connection's listeners, in the order of their slots
    subscribed,   \* those the router has been told of
    rx,           \* requests the router has written
    requests,     \* how many there were
    providers,    \* the keys of m_providers
    lists,        \* what was appended to m_lists
    missed,       \* history: requests whose provider was not found
    responses     \* what the router has got for the requesters

connection == <<sending, send_buffer, wire, broken, overlapped, listeners, subscribed, rx>>
registry   == <<turn, providers, lists>>
counts     == <<requests, missed, responses>>
hostVars   == <<at, connection, registry, counts>>
vars       == <<hostVars, providerVars>>

Main == "main"
Dispatcher == "dispatcher"
Threads == {Main, Dispatcher}

InSend(t) == at[t] \in {"header", "payload"}
Alive == at[Main] # "crashed"
AtPlace(t, place) == Alive /\ at[t] = place
GoTo(t, place) == at' = [at EXCEPT ![t] = place]

Nobody == [kind |-> "none"]
Subscribe(o) == [kind |-> "subscribe", object |-> o]
Response(n) == [kind |-> "response", n |-> n]
Part(half, m) == [half |-> half, m |-> m]

-----------------------------------------------------------------------------
(***************************************************************************)
(* SendInternal, in which both threads may be.                             *)
(***************************************************************************)

\* The header is encoded into the buffer of the connection.
BeginSend(t, m) ==
    /\ send_buffer' = m
    /\ sending' = [sending EXCEPT ![t] = m]
    /\ overlapped' = (overlapped \/ \E u \in Threads \ {t} : InSend(u))
    /\ GoTo(t, "header")

AfterSend(t) == IF t = Main THEN "insert" ELSE "wait"

\* Bug to catch: the payload is not sent after the header.
SendHeader_Only(t) ==
    /\ AtPlace(t, "header")
    /\ wire' = Append(wire, Part("header", send_buffer))
    /\ GoTo(t, AfterSend(t))
    /\ UNCHANGED <<sending, send_buffer, broken, overlapped, listeners, subscribed, rx,
                   registry, counts, providerVars>>

SendHeader(t) ==
    /\ AtPlace(t, "header")
    /\ wire' = Append(wire, Part("header", send_buffer))
    /\ GoTo(t, "payload")
    /\ UNCHANGED <<sending, send_buffer, broken, overlapped, listeners, subscribed, rx,
                   registry, counts, providerVars>>

SendPayload(t) ==
    /\ AtPlace(t, "payload")
    /\ wire' = Append(wire, Part("payload", sending[t]))
    /\ GoTo(t, AfterSend(t))
    /\ UNCHANGED <<sending, send_buffer, broken, overlapped, listeners, subscribed, rx,
                   registry, counts, providerVars>>

-----------------------------------------------------------------------------
(***************************************************************************)
(* The main thread.                                                        *)
(***************************************************************************)
Candidate == RegisterOrder[turn]
MayRegister == AtPlace(Main, "register") /\ turn <= Len(RegisterOrder)

\* start: the connection, then the thread.
StartHost ==
    /\ AtPlace(Main, "start")
    /\ at' = [at EXCEPT ![Main] = "register", ![Dispatcher] = "wait"]
    /\ UNCHANGED <<connection, registry, counts, providerVars>>

\* providerRegistered: a slot is taken and the router told.
RegisterProvider ==
    /\ MayRegister /\ Candidate \in Known /\ Len(listeners) < MaxListeners
    /\ listeners' = Append(listeners, Candidate)
    /\ BeginSend(Main, Subscribe(Candidate))
    /\ UNCHANGED <<wire, broken, subscribed, rx, registry, counts, providerVars>>

\* No slot: registerProvider returns false.
RegisterRefused ==
    /\ MayRegister /\ Candidate \in Known /\ Len(listeners) >= MaxListeners
    /\ turn' = turn + 1
    /\ UNCHANGED <<at, providers, lists, connection, counts, providerVars>>

\* The log line reads through the null pointer before it is tested.
RegisterUnknown ==
    /\ MayRegister /\ Candidate \notin Known
    /\ GoTo(Main, "crashed")
    /\ UNCHANGED <<connection, registry, counts, providerVars>>

\* Bug to catch: every provider is kept under the name of the first.
Inserted_WrongKey(o) == providers \cup {RegisterOrder[1]}

Inserted(o) == providers \cup {o}

\* m_providers.insert is not one step for the thread that reads the map.
BeginInsert ==
    /\ AtPlace(Main, "insert")
    /\ GoTo(Main, "inserting")
    /\ UNCHANGED <<connection, registry, counts, providerVars>>

\* The end of it.  The objects here are entries of lists, which are also kept by
\* list; nobody reads that.
EndInsert ==
    /\ AtPlace(Main, "inserting")
    /\ providers' = Inserted(Candidate)
    /\ lists' = Append(lists, Candidate)
    /\ turn' = turn + 1
    /\ GoTo(Main, "register")
    /\ UNCHANGED <<connection, counts, providerVars>>

-----------------------------------------------------------------------------
(***************************************************************************)
(* The dispatching thread: run, with Dispatch and requestHandler.          *)
(***************************************************************************)

\* What find may answer, from what the other thread is doing to the map.
FindMayAnswer(o, found) ==
    IF at[Main] = "inserting" THEN found => o \in providers \cup {Candidate}
    ELSE found = (o \in providers)

\* A property that is not in the data model goes on under its full name only.
InModel(name) == IF name \in Range(Properties) THEN name ELSE Unnamed

decodeGetRequest(name) ==
    IF name = Wildcard THEN [k \in DOMAIN Properties |-> Param(Properties[k], Empty)]
    ELSE <<Param(InModel(name), Empty)>>

\* A piece that is no name and value is passed over; of a missing or an empty
\* value nothing is left at all.
decodeSetRequest(pieces) ==
    LET whole  == {k \in 1 .. Len(pieces) : Len(pieces[k]) = 2}
        Nth(m) == CHOOSE k \in whole : Cardinality({q \in whole : q <= k}) = m
    IN  [m \in 1 .. Cardinality(whole) |->
            Param(InModel(pieces[Nth(m)][1]), pieces[Nth(m)][2])]

\* A message that is no request is dropped.
DropMessage ==
    /\ AtPlace(Dispatcher, "wait") /\ rx # <<>> /\ Head(rx).op = "none"
    /\ rx' = Tail(rx)
    /\ UNCHANGED <<at, sending, send_buffer, wire, broken, overlapped, listeners,
                   subscribed, registry, counts, providerVars>>

\* The listener is the one whose number is in the header; the request is decoded,
\* and doGet or doSet finds the provider, or not.  A request is one that
\* dmQueryImpl::makeRequest builds (dmProviderDatabase.cpp:83-97): it has a method,
\* params and a name, and the host ends on one that lacks them.
Receive ==
    /\ AtPlace(Dispatcher, "wait") /\ rx # <<>> /\ Head(rx).op # "none"
    /\ LET request == Head(rx)
           o == listeners[request.listener]
       IN  \E found \in BOOLEAN :
            /\ FindMayAnswer(o, found)
            /\ IF found
               THEN /\ IF request.op = "get" THEN StartGet(o, decodeGetRequest(request.params))
                       ELSE StartSet(o, decodeSetRequest(request.params))
                    /\ UNCHANGED missed
               ELSE /\ missed' = missed \cup {request.n}
                    /\ UNCHANGED providerVars
            /\ GoTo(Dispatcher, IF found THEN "provider" ELSE "respond")
    /\ UNCHANGED <<connection, registry, requests, responses>>

\* The provider works on the request.
Provide ==
    /\ AtPlace(Dispatcher, "provider") /\ ProviderStep
    /\ at' = IF work'.op = "none" THEN [at EXCEPT ![Dispatcher] = "respond"] ELSE at
    /\ UNCHANGED <<connection, registry, counts>>

\* Bug to catch: a request whose provider is not found is not answered.
Respond_OnlyFound ==
    /\ AtPlace(Dispatcher, "respond")
    /\ rx' = Tail(rx)
    /\ IF Head(rx).n \in missed
       THEN GoTo(Dispatcher, "wait") /\ UNCHANGED <<sending, send_buffer, overlapped>>
       ELSE BeginSend(Dispatcher, Response(Head(rx).n))
    /\ UNCHANGED <<wire, broken, listeners, subscribed, registry, counts, providerVars>>

\* encodeResult and SendResponse, found or not.
Respond ==
    /\ AtPlace(Dispatcher, "respond")
    /\ rx' = Tail(rx)
    /\ BeginSend(Dispatcher, Response(Head(rx).n))
    /\ UNCHANGED <<wire, broken, listeners, subscribed, registry, counts, providerVars>>

-----------------------------------------------------------------------------
(***************************************************************************)
(* The router and the requesters.                                          *)
(***************************************************************************)

\* The router reads a header and the payload it announces.
RouterReads ==
    /\ Len(wire) >= 2 /\ ~broken
    /\ wire' = Tail(Tail(wire))
    /\ LET m == wire[1].m
           whole == wire[1] = Part("header", m) /\ wire[2] = Part("payload", m)
       IN  /\ broken' = ~whole
           /\ subscribed' = IF whole /\ m.kind = "subscribe" THEN subscribed \cup {m.object}
                            ELSE subscribed
           /\ responses' = IF whole /\ m.kind = "response" THEN Append(responses, m.n)
                           ELSE responses
    /\ UNCHANGED <<at, sending, send_buffer, overlapped, listeners, rx, registry,
                   requests, missed, providerVars>>

\* Somebody asks for, or publishes to, an object that is subscribed to.
RouterDelivers ==
    /\ requests < MaxRequests
    /\ requests' = requests + 1
    /\ \E k \in DOMAIN listeners :
        /\ listeners[k] \in subscribed
        /\ \E r \in [op : {"get"}, params : Gets] \cup [op : {"set"}, params : Sets]
                    \cup [op : {"none"}, params : {<<>>}] :
            rx' = Append(rx, [listener |-> k, n |-> requests + 1, op |-> r.op,
                              params |-> r.params])
    /\ UNCHANGED <<at, sending, send_buffer, wire, broken, overlapped, listeners,
                   subscribed, registry, missed, responses, providerVars>>

-----------------------------------------------------------------------------
HostInit ==
    /\ at = [t \in Threads |-> IF t = Main THEN "start" ELSE "none"]
    /\ turn = 1 /\ providers = {} /\ lists = <<>>
    /\ sending = [t \in Threads |-> Nobody] /\ send_buffer = Nobody
    /\ wire = <<>> /\ broken = FALSE /\ overlapped = FALSE
    /\ listeners = <<>> /\ subscribed = {} /\ rx = <<>>
    /\ requests = 0 /\ missed = {} /\ responses = <<>>

Init == HostInit /\ ProviderInit

Sending(t) == SendHeader(t) \/ SendPayload(t)

MainThread ==
    \/ StartHost \/ RegisterProvider \/ RegisterRefused \/ RegisterUnknown
    \/ BeginInsert \/ EndInsert \/ Sending(Main)

DispatcherThread == DropMessage \/ Receive \/ Provide \/ Respond \/ Sending(Dispatcher)

Next == MainThread \/ DispatcherThread \/ RouterReads \/ RouterDelivers

Spec == Init /\ [][Next]_vars

\* The dispatching thread runs, and the router reads what is written to it.
FairSpec == Spec /\ WF_vars(DispatcherThread) /\ WF_vars(RouterReads)

-----------------------------------------------------------------------------
Messages ==
    {Nobody} \cup {Subscribe(o) : o \in Objects} \cup {Response(n) : n \in 1 .. MaxRequests}

TypeOK ==
    /\ store \in [Objects -> [Props \ Missing -> Values]]
    /\ staged \in [Objects -> [Staged -> Values]]
    /\ isTransaction \in [Objects -> BOOLEAN]
    /\ at \in [Threads -> {"none", "start", "register", "header", "payload", "insert",
                           "inserting", "wait", "provider", "respond", "crashed"}]
    /\ turn \in 1 .. Len(RegisterOrder) + 1
    /\ \A t \in Threads : sending[t] \in Messages
    /\ send_buffer \in Messages
    /\ \A k \in DOMAIN wire : wire[k].half \in {"header", "payload"} /\ wire[k].m \in Messages
    /\ broken \in BOOLEAN /\ overlapped \in BOOLEAN
    /\ listeners \in Seq(Known) /\ subscribed \subseteq Known /\ providers \subseteq Known
    /\ requests \in 0 .. MaxRequests /\ missed \subseteq 1 .. MaxRequests
    /\ responses \in Seq(1 .. MaxRequests)

\* A provider is missed, and its requester given an empty result, only while
\* main is between telling the router of a provider and having it in the map:
\* the window the order in registerProvider opens (dmProviderHost.cpp:360-366).
MissedOnlyWhileRegistering ==
    [][missed' # missed => at[Main] \in {"insert", "inserting"}]_vars

\* What the router reads is in step as long as the two threads have never been
\* in SendInternal at once; there is one buffer and no lock
\* (rtConnection.c:422-463, dmProviderHost.cpp:63, 154).
InStepUnlessOverlapped == overlapped \/ ~broken

\* Every request that was delivered is answered, found or not, unless the
\* process has died or the stream is out of step (dmProviderHost.cpp:107-156).
EveryRequestAnswered ==
    \A n \in 1 .. MaxRequests :
        (\E q \in DOMAIN rx : rx[q].n = n /\ rx[q].op # "none") ~>
            (n \in Range(responses) \/ broken \/ ~Alive)
=============================================================================
