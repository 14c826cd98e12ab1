--------------------------- MODULE RtSystemProofs ---------------------------
(***************************************************************************)
(* The router alone, and then the router with its programs.                *)
(*                                                                         *)
(* For any number of clients, any messages and any reading of expressions: *)
(* the router's data stays well formed, its loops stay inside the vectors  *)
(* they walk, no route outlives its client, and what a client is sent it   *)
(* subscribed to.                                                          *)
(*                                                                         *)
(* For any number of requesters, requests and places in the kernel's       *)
(* queues: the programs are clients of the router as RtRouted knows them,  *)
(* with one server each request returns the response to itself, and while  *)
(* the requesters are no more than the queues have room for, the router    *)
(* and a program never wait for each other.                                *)
(***************************************************************************)
EXTENDS RtSystem, FiniteSetTheorems, SequenceTheorems, TLAPS

-----------------------------------------------------------------------------
(***************************************************************************)
(* The router.                                                             *)
(***************************************************************************)
(* The message being dispatched is one of the client whose turn it is.     *)
DispatchInv ==
    /\ pc = "listeners" /\ ListenFd \in readFds => backlog # <<>>
    /\ pc \in {"clients", "dispatch"} => i >= 1
    /\ pc = "dispatch" =>
         /\ i <= n /\ j >= 1
         /\ msg \in SentMessages /\ msg.src = clients[i]
    /\ \A c \in Conns : \A k \in 1 .. Len(inq[c]) : inq[c][k].src = c
    /\ err = "OK"

(* What the handlers of the table need: a forwarding route has a connected *)
(* client, and that client asked for it.                                   *)
RoutesInv ==
    \A k \in 1 .. Len(routes) :
        routes[k].handler = "Forward" =>
            routes[k].client \in Connected /\ routes[k] \in subs

IInv ==
    TypeOK /\ LoopsStayInside /\ DispatchInv /\ RoutesInv /\ OnlyToSubscribers

-----------------------------------------------------------------------------
(* Clearing "the client's" routes empties the table: the predicate answers *)
(* rtBool_FALSE, which C takes for true.                                   *)
LEMMA ClearingEmptiesTheTable ==
    ASSUME NEW c
    PROVE  ClearClientRoutes(c) = <<>>
<1> DEFINE P(route) == RemoveClientSubscription(route, c)
           kept == {k \in 1 .. Len(routes) : P(routes[k]) = 0}
           Nth(m) == CHOOSE k \in kept : Cardinality({q \in kept : q <= k}) = m
<1>1. Cardinality(kept) = 0
  BY FS_EmptySet DEF RemoveClientSubscription, rtBool_FALSE
<1>2. ClearClientRoutes(c) = [m \in 1 .. Cardinality(kept) |-> routes[Nth(m)]]
  BY DEF ClearClientRoutes, RemoveIf
<1> HIDE DEF kept
<1>3. [m \in 1 .. 0 |-> routes[Nth(m)]] = <<>>
  OBVIOUS
<1> QED
  BY <1>1, <1>2, <1>3

(* Removing position p of a sequence.                                      *)
LEMMA RemoveAtProperties ==
    ASSUME NEW S, NEW s \in Seq(S), NEW p \in 1 .. Len(s)
    PROVE  /\ RemoveAt(s, p) \in Seq(S)
           /\ Len(RemoveAt(s, p)) = Len(s) - 1
<1> DEFINE front == SubSeq(s, 1, p - 1)
           rest == SubSeq(s, p + 1, Len(s))
<1>1. Len(s) \in Nat /\ p - 1 \in Nat /\ Len(s) - p \in Nat
  OBVIOUS
<1>2. /\ front \in Seq(S) /\ Len(front) = p - 1
      /\ rest \in Seq(S) /\ Len(rest) = Len(s) - p
  OBVIOUS
<1>3. RemoveAt(s, p) = front \o rest
  BY DEF RemoveAt
<1> HIDE DEF front, rest
<1>4. front \o rest \in Seq(S) /\ Len(front \o rest) = (p - 1) + (Len(s) - p)
  BY <1>1, <1>2, SMTT(40)
<1>5. (p - 1) + (Len(s) - p) = Len(s) - 1
  BY <1>1
<1> QED
  BY <1>3, <1>4, <1>5

(* Appending to the sequence of one connection.                            *)
LEMMA AppendTo ==
    ASSUME NEW S, NEW f \in [Conns -> Seq(S)], NEW c \in Conns, NEW x \in S
    PROVE  LET g == [f EXCEPT ![c] = Append(@, x)]
           IN  /\ g \in [Conns -> Seq(S)]
               /\ \A d \in Conns : d # c => g[d] = f[d]
               /\ Len(g[c]) = Len(f[c]) + 1
               /\ \A k \in 1 .. Len(f[c]) : g[c][k] = f[c][k]
               /\ g[c][Len(f[c]) + 1] = x
  OBVIOUS

-----------------------------------------------------------------------------
LEMMA InitEstablishesIInv == Init => IInv
<1> SUFFICES ASSUME Init PROVE IInv
  OBVIOUS
<1>1. TypeOK
  BY BoundsAssumption
     DEF Init, TypeOK, TableTypeOK, LoopTypeOK, NetworkTypeOK, Places, loop, NoMessage
<1>2. LoopsStayInside /\ DispatchInv /\ RoutesInv /\ OnlyToSubscribers
  BY DEF Init, LoopsStayInside, DispatchInv, RoutesInv, OnlyToSubscribers
<1> QED
  BY <1>1, <1>2 DEF IInv
-----------------------------------------------------------------------------
(* The routes a control message asks for, and the copy that is forwarded,  *)
(* are well formed.                                                        *)
LEMMA AskedForType ==
    ASSUME NEW m \in SentMessages
    PROVE  AskedFor(m) \in Seq(Routes)
<1>1. m.m \in Messages /\ m.src \in Conns
  BY DEF SentMessages
<1>2. Route(m.m.exp, "Forward", m.src, m.m.id) \in Routes
  BY <1>1 DEF Route, Routes, Exps, Ids
<1>3. Route(m.m.exp, "Forward", m.src, 0) \in Routes
  BY <1>1 DEF Route, Routes, Exps, Ids
<1>4. CASE m.m.topic = SubscribeTopic
  BY <1>2, <1>4 DEF AskedFor
<1>5. CASE m.m.topic # SubscribeTopic /\ m.m.topic = HelloTopic
  BY <1>3, <1>5 DEF AskedFor
<1>6. CASE m.m.topic # SubscribeTopic /\ m.m.topic # HelloTopic
  BY <1>6 DEF AskedFor
<1> QED
  BY <1>4, <1>5, <1>6

(* A forwarding step finds its client connected, so send never answers     *)
(* EBADF and no route is cleared.                                          *)
LEMMA ForwardingKeepsRoutes ==
    ASSUME IInv, ForwardMessage
    PROVE  /\ msg \in SentMessages /\ j \in 1 .. Len(routes)
           /\ routes[j] \in Routes /\ routes[j].handler = "Forward"
           /\ routes[j].client \in Connected /\ routes[j].client \in Conns
           /\ routes[j] \in subs
           /\ routes' = routes
<1>1. msg \in SentMessages /\ j \in 1 .. Len(routes)
  BY DEF ForwardMessage, AtMatch, AtEntry, IInv, TypeOK, LoopTypeOK, LoopsStayInside, DispatchInv
<1>2. /\ routes[j] \in Routes /\ routes[j].handler = "Forward"
      /\ routes[j].client \in Connected /\ routes[j].client \in Conns
      /\ routes[j] \in subs
  BY <1>1 DEF ForwardMessage, AtMatch, IInv, TypeOK, TableTypeOK, LoopTypeOK, RoutesInv, Connected, Range
<1>3. routes' = routes
  BY <1>2 DEF ForwardMessage, SendResult
<1> QED
  BY <1>1, <1>2, <1>3

(* The state after a step is well formed: actions of the clients.          *)
LEMMA ClientTypeOK ==
    ASSUME TypeOK, NEW c \in Conns, Client(c)
    PROVE  TypeOK'
<1> USE DEF TypeOK
<1>1. CASE Connect(c)
  <2>1. NetworkTypeOK'
    BY <1>1 DEF Connect, NetworkTypeOK
  <2> QED
    BY <1>1, <2>1 DEF Connect, TableTypeOK, LoopTypeOK, loop
<1>2. ASSUME NEW m \in Messages, Send(c, m) PROVE TypeOK'
  <2>1. [m |-> m, src |-> c, seq |-> sent[c] + 1] \in SentMessages
    BY DEF SentMessages, NetworkTypeOK
  <2>2. inq' \in [Conns -> Seq(SentMessages)]
    BY <1>2, <2>1 DEF Send, NetworkTypeOK
  <2>3. NetworkTypeOK'
    BY <1>2, <2>2 DEF Send, NetworkTypeOK
  <2> QED
    BY <1>2, <2>3 DEF Send, TableTypeOK, LoopTypeOK, loop
<1>3. CASE Take(c)
  <2>1. NetworkTypeOK'
    BY <1>3 DEF Take, NetworkTypeOK
  <2> QED
    BY <1>3, <2>1 DEF Take, TableTypeOK, LoopTypeOK, loop
<1>4. CASE HangUp(c)
  <2>1. NetworkTypeOK'
    BY <1>4 DEF HangUp, NetworkTypeOK
  <2> QED
    BY <1>4, <2>1 DEF HangUp, TableTypeOK, LoopTypeOK, loop
<1> QED
  BY <1>1, <1>2, <1>3, <1>4 DEF Client

(* The same for the router's actions.                                      *)
LEMMA RouterTypeOK ==
    ASSUME IInv, Router
    PROVE  TypeOK'
<1> TableTypeOK /\ LoopTypeOK /\ NetworkTypeOK
  BY DEF IInv, TypeOK
<1> USE BoundsAssumption DEF TypeOK
<1>1. CASE Startup
  <2>1. InternalRoute \in Routes /\ DebugRoute \in Routes
    BY DEF InternalRoute, DebugRoute, Route, Routes, Exps, Ids
  <2>2. <<InternalRoute>> \in Seq(Routes) /\ <<InternalRoute, DebugRoute>> \in Seq(Routes)
    BY <2>1
  <2>3. routes' = <<InternalRoute>> \/ routes' = <<InternalRoute, DebugRoute>> \/ routes' = routes
    BY <1>1 DEF Startup
  <2>4. TableTypeOK'
    BY <1>1, <2>2, <2>3 DEF Startup, TableTypeOK
  <2> QED
    BY <1>1, <2>4 DEF Startup, LoopTypeOK, NetworkTypeOK, Places, loop, network
<1>2. CASE Select
  <2>1. \A c \in Connected : fd[c] \in {-1} \cup 1 .. MaxFds
    BY DEF Connected, Range, LoopTypeOK
  <2>2. ReadyFds \subseteq -1 .. MaxFds
    BY <2>1 DEF ReadyFds, ListenFd
  <2>3. LoopTypeOK'
    BY <1>2, <2>2 DEF Select, LoopTypeOK, Places, loop
  <2> QED
    BY <1>2, <2>3 DEF Select, TableTypeOK, NetworkTypeOK, network
<1>3. CASE SelectTimeout
  BY <1>3 DEF SelectTimeout, vars, TableTypeOK, LoopTypeOK, NetworkTypeOK, loop, network
<1>4. CASE Accept
  <2>1. ASSUME ListenFd \in readFds
        PROVE  /\ backlog' \in Seq(Conns) /\ clients' \in Seq(Conns)
               /\ fd' \in [Conns -> {-1} \cup 1 .. MaxFds]
    <3>1. backlog # <<>> /\ backlog \in Seq(Conns)
      BY <1>4, <2>1 DEF Accept, IInv, DispatchInv, NetworkTypeOK
    <3>2. Head(backlog) \in Conns /\ Tail(backlog) \in Seq(Conns)
      BY <3>1
    <3>3. CASE FreeFds # {}
      <4>1. backlog' = Tail(backlog) /\ clients' = Append(clients, Head(backlog))
        BY <1>4, <2>1, <3>3 DEF Accept
      <4>2. backlog' \in Seq(Conns) /\ clients' \in Seq(Conns)
        BY <4>1, <3>2 DEF LoopTypeOK
      <4>3. fd' \in [Conns -> {-1} \cup 1 .. MaxFds]
        BY <1>4, <2>1, <3>2, <3>3 DEF Accept, LoopTypeOK, FreeFds
      <4> QED
        BY <4>2, <4>3
    <3>4. CASE FreeFds = {}
      BY <1>4, <3>4 DEF Accept, LoopTypeOK, NetworkTypeOK
    <3> QED
      BY <3>3, <3>4
  <2>2. ASSUME ListenFd \notin readFds
        PROVE  /\ backlog' \in Seq(Conns) /\ clients' \in Seq(Conns)
               /\ fd' \in [Conns -> {-1} \cup 1 .. MaxFds]
    BY <1>4, <2>2 DEF Accept, LoopTypeOK, NetworkTypeOK
  <2>3. /\ backlog' \in Seq(Conns) /\ clients' \in Seq(Conns)
        /\ fd' \in [Conns -> {-1} \cup 1 .. MaxFds]
    BY <2>1, <2>2
  <2>4. LoopTypeOK'
    BY <1>4, <2>3 DEF Accept, LoopTypeOK, Places
  <2> QED
    BY <1>4, <2>3, <2>4 DEF Accept, TableTypeOK, NetworkTypeOK
<1>5. CASE LoopDone
  BY <1>5 DEF LoopDone, TableTypeOK, LoopTypeOK, NetworkTypeOK, Places, loop, network
<1>6. CASE SkipClient
  <2>1. LoopTypeOK'
    BY <1>6 DEF SkipClient, LoopTypeOK
  <2> QED
    BY <1>6, <2>1 DEF SkipClient, TableTypeOK, NetworkTypeOK, network
<1>7. CASE ReadMessage
  <2> DEFINE c == clients[i]
  <2>1. c \in Conns
    BY <1>7 DEF ReadMessage, AtReadyClient, LoopTypeOK, IInv, LoopsStayInside, DispatchInv
  <2>2. inq[c] \in Seq(SentMessages) /\ inq[c] # <<>>
    BY <1>7, <2>1 DEF ReadMessage, NetworkTypeOK
  <2>3. Head(inq[c]) \in SentMessages /\ Tail(inq[c]) \in Seq(SentMessages)
    BY <2>2
  <2>4. msg' = Head(inq[c]) /\ inq' = [inq EXCEPT ![c] = Tail(inq[c])]
    BY <1>7 DEF ReadMessage
  <2> HIDE DEF c
  <2>5. LoopTypeOK'
    BY <1>7, <2>3, <2>4 DEF ReadMessage, LoopTypeOK, Places, TableTypeOK
  <2>6. NetworkTypeOK'
    BY <1>7, <2>1, <2>3, <2>4, ZenonT(40) DEF ReadMessage, NetworkTypeOK
  <2> QED
    BY <1>7, <2>5, <2>6 DEF ReadMessage, TableTypeOK
<1>8. CASE DropClient
  <2> DEFINE c == clients[i]
  <2>1. c \in Conns /\ i \in 1 .. Len(clients) /\ n = Len(clients)
    BY <1>8 DEF DropClient, AtReadyClient, LoopTypeOK, IInv, LoopsStayInside, DispatchInv
  <2>2. clients' \in Seq(Conns) /\ n' \in Nat
    BY <1>8, <2>1, RemoveAtProperties DEF DropClient, LoopTypeOK
  <2>3. routes' = <<>>
    BY <1>8, ClearingEmptiesTheTable DEF DropClient
  <2>4. /\ fd' = [fd EXCEPT ![c] = -1] /\ peer' = [peer EXCEPT ![c] = "gone"]
        /\ inq' = [inq EXCEPT ![c] = <<>>]
    BY <1>8 DEF DropClient
  <2> HIDE DEF c
  <2>5. LoopTypeOK'
    BY <1>8, <2>1, <2>2, <2>4 DEF DropClient, LoopTypeOK
  <2>6. NetworkTypeOK'
    <3>1. <<>> \in Seq(SentMessages)
      OBVIOUS
    <3>2. inq' \in [Conns -> Seq(SentMessages)]
      BY <2>1, <2>4, <3>1 DEF NetworkTypeOK
    <3>3. peer' \in [Conns -> {"idle", "open", "hungup", "gone"}]
      BY <2>1, <2>4 DEF NetworkTypeOK
    <3> QED
      BY <1>8, <3>2, <3>3 DEF DropClient, NetworkTypeOK
  <2> QED
    BY <1>8, <2>3, <2>5, <2>6 DEF DropClient, TableTypeOK
<1>9. CASE SkipEntry
  BY <1>9 DEF SkipEntry, NextEntry, TableTypeOK, LoopTypeOK, NetworkTypeOK, network
<1>10. CASE OnMessage
  <2>1. AskedFor(msg) \in Seq(Routes)
    BY <1>10, AskedForType DEF OnMessage, AtMatch, AtEntry, IInv, DispatchInv
  <2>2. TableTypeOK'
    BY <1>10, <2>1 DEF OnMessage, Range, TableTypeOK
  <2>3. LoopTypeOK'
    BY <1>10 DEF OnMessage, NextEntry, CallbackResult, LoopTypeOK
  <2>4. NetworkTypeOK'
    BY <1>10 DEF OnMessage, NetworkTypeOK, network
  <2> QED
    BY <2>2, <2>3, <2>4
<1>11. CASE PrintMessage
  BY <1>11 DEF PrintMessage, NextEntry, CallbackResult, TableTypeOK, LoopTypeOK, NetworkTypeOK, network
<1>12. CASE ForwardMessage
  <2> DEFINE route == routes[j]
             dst == route.client
  <2>1. msg \in SentMessages /\ routes' = routes
    BY <1>12, ForwardingKeepsRoutes
  <2>2. route \in Routes /\ dst \in Conns
    BY <1>12, ForwardingKeepsRoutes
  <2>3. Forwarded(route) \in OutMessages
    BY <2>1, <2>2 DEF Forwarded, OutMessages, SentMessages, Routes
  <2>4. out' = [out EXCEPT ![dst] = Append(@, Forwarded(route))] \/ out' = out
    BY <1>12 DEF ForwardMessage
  <2> HIDE DEF route, dst
  <2>6. out' \in [Conns -> Seq(OutMessages)]
    <3> DEFINE x == Forwarded(route)
    <3>1. x \in OutMessages /\ out \in [Conns -> Seq(OutMessages)]
      BY <2>3 DEF NetworkTypeOK
    <3> HIDE DEF x
    <3>2. [out EXCEPT ![dst] = Append(@, x)] \in [Conns -> Seq(OutMessages)]
      BY <2>2, <3>1
    <3> QED
      BY <2>4, <3>1, <3>2 DEF x
  <2>7. LoopTypeOK'
    BY <1>12 DEF ForwardMessage, NextEntry, CallbackResult, LoopTypeOK
  <2>8. NetworkTypeOK'
    BY <1>12, <2>6 DEF ForwardMessage, NetworkTypeOK, network
  <2> QED
    BY <1>12, <2>1, <2>7, <2>8 DEF ForwardMessage, TableTypeOK
<1>13. CASE DispatchDone
  <2>1. out' = out
    BY <1>13 DEF DispatchDone, IInv, DispatchInv
  <2>2. LoopTypeOK'
    BY <1>13 DEF DispatchDone, LoopTypeOK, Places
  <2> QED
    BY <1>13, <2>1, <2>2 DEF DispatchDone, TableTypeOK, NetworkTypeOK, network
<1> QED
  BY <1>1, <1>2, <1>3, <1>4, <1>5, <1>6, <1>7, <1>8, <1>9, <1>10, <1>11, <1>12, <1>13
     DEF Router, Dispatch
-----------------------------------------------------------------------------
(* The ends of the loops stay the lengths they were taken from.            *)
LEMMA LoopsStep ==
    ASSUME IInv, Next
    PROVE  LoopsStayInside'
<1> TypeOK /\ LoopsStayInside /\ DispatchInv
  BY DEF IInv
<1> USE DEF LoopsStayInside, TypeOK, LoopTypeOK, TableTypeOK
<1>1. ASSUME NEW c \in Conns, Client(c) PROVE LoopsStayInside'
  BY <1>1 DEF Client, Connect, Send, Take, HangUp, loop
<1>2. CASE Startup
  BY <1>2 DEF Startup, loop
<1>3. CASE Select \/ SelectTimeout \/ LoopDone \/ SkipClient
  BY <1>3 DEF Select, SelectTimeout, LoopDone, SkipClient, vars, loop
<1>4. CASE Accept
  BY <1>4 DEF Accept
<1>5. CASE ReadMessage
  BY <1>5 DEF ReadMessage, AtReadyClient
<1>6. CASE DropClient
  <2>1. i \in 1 .. Len(clients) /\ n = Len(clients)
    BY <1>6 DEF DropClient, AtReadyClient, DispatchInv
  <2>2. Len(clients') = Len(clients) - 1
    BY <1>6, <2>1, RemoveAtProperties DEF DropClient
  <2> QED
    BY <1>6, <2>1, <2>2 DEF DropClient, AtReadyClient
<1>7. CASE SkipEntry \/ PrintMessage
  BY <1>7 DEF SkipEntry, PrintMessage, AtEntry, AtMatch
<1>8. CASE OnMessage
  <2>1. msg \in SentMessages
    BY <1>8 DEF OnMessage, AtMatch, AtEntry, DispatchInv
  <2>2. AskedFor(msg) \in Seq(Routes)
    BY <2>1, AskedForType
  <2>3. Len(routes') = Len(routes) + Len(AskedFor(msg)) /\ Len(AskedFor(msg)) \in Nat
    BY <1>8, <2>2 DEF OnMessage
  <2> QED
    BY <1>8, <2>3 DEF OnMessage, AtMatch, AtEntry
<1>9. CASE ForwardMessage
  <2>1. routes' = routes
    BY <1>9, ForwardingKeepsRoutes
  <2> QED
    BY <1>9, <2>1 DEF ForwardMessage, AtMatch, AtEntry
<1>10. CASE DispatchDone
  BY <1>10 DEF DispatchDone
<1> QED
  BY <1>1, <1>2, <1>3, <1>4, <1>5, <1>6, <1>7, <1>8, <1>9, <1>10
     DEF Next, Router, Dispatch

(* The message being dispatched stays that of the client whose turn it is. *)
LEMMA DispatchStep ==
    ASSUME IInv, Next
    PROVE  DispatchInv'
<1> TypeOK /\ LoopsStayInside /\ DispatchInv
  BY DEF IInv
<1>0. backlog \in Seq(Conns) /\ \A b \in Seq(Conns), c \in Conns : Append(b, c) # <<>>
  <2>1. backlog \in Seq(Conns)
    BY DEF TypeOK, NetworkTypeOK
  <2>2. ASSUME NEW b \in Seq(Conns), NEW c \in Conns PROVE Append(b, c) # <<>>
    BY AppendProperties
  <2> QED
    BY <2>1, <2>2
<1> USE DEF DispatchInv, TypeOK, LoopTypeOK, NetworkTypeOK
<1>1. ASSUME NEW c \in Conns, Connect(c) PROVE DispatchInv'
  <2>1. backlog' # <<>>
    <3> HIDE DEF DispatchInv, TypeOK, LoopTypeOK, NetworkTypeOK
    <3>1. backlog' = Append(backlog, c)
      BY <1>1 DEF Connect
    <3> QED
      BY <1>0, <3>1
  <2> QED
    BY <1>1, <2>1 DEF Connect, loop
<1>2. ASSUME NEW c \in Conns, NEW m \in Messages, Send(c, m) PROVE DispatchInv'
  <2> DEFINE x == [m |-> m, src |-> c, seq |-> sent[c] + 1]
  <2>1. x \in SentMessages /\ x.src = c
    BY SMTT(30) DEF SentMessages
  <2>2. inq' = [inq EXCEPT ![c] = Append(@, x)]
    BY <1>2 DEF Send
  <2> HIDE DEF x
  <2>3. \A d \in Conns : \A k \in 1 .. Len(inq'[d]) : inq'[d][k].src = d
    <3> SUFFICES ASSUME NEW d \in Conns, NEW k \in 1 .. Len(inq'[d])
                 PROVE  inq'[d][k].src = d
      OBVIOUS
    <3>1. inq \in [Conns -> Seq(SentMessages)]
      OBVIOUS
    <3>2. CASE d # c
      BY <2>2, <3>1, <3>2
    <3>3. CASE d = c
      <4>1. inq'[c] = Append(inq[c], x) /\ inq[c] \in Seq(SentMessages)
        BY <2>2, <3>1
      <4>2. k \in 1 .. Len(inq[c]) + 1
        BY <2>1, <3>3, <4>1
      <4> QED
        BY <2>1, <3>3, <4>1, <4>2, SMTT(30)
    <3> QED
      BY <3>2, <3>3
  <2> QED
    BY <1>2, <2>3 DEF Send, loop
<1>3. ASSUME NEW c \in Conns, Take(c) \/ HangUp(c) PROVE DispatchInv'
  BY <1>3 DEF Take, HangUp, loop
<1>4. CASE Startup \/ LoopDone \/ SelectTimeout
  <2>1. CASE Startup
    <3>1. pc' \in {"select", "crashed"}
      BY <2>1 DEF Startup
    <3> QED
      BY <2>1, <3>1 DEF Startup, loop, network
  <2>2. CASE LoopDone
    BY <2>2 DEF LoopDone, loop, network
  <2>3. CASE SelectTimeout
    BY <2>3 DEF SelectTimeout, vars, loop, network
  <2> QED
    BY <1>4, <2>1, <2>2, <2>3
<1>5. CASE Select
  <2>1. \A c \in Connected : fd[c] # ListenFd
    <3>1. Connected \subseteq Conns
      BY DEF Connected, Range
    <3>2. \A c \in Conns : fd[c] \in {-1} \cup 1 .. MaxFds
      OBVIOUS
    <3>3. 0 \notin {-1} \cup 1 .. MaxFds
      BY BoundsAssumption
    <3> QED
      BY <3>1, <3>2, <3>3, ZenonT(40) DEF ListenFd
  <2>2. ListenFd \in ReadyFds => backlog # <<>>
    BY <2>1 DEF ReadyFds
  <2>3. /\ pc' = "listeners" /\ readFds' = ReadyFds
        /\ UNCHANGED <<backlog, inq, err>>
    BY <1>5 DEF Select, loop, network
  <2> HIDE DEF TypeOK, LoopTypeOK, NetworkTypeOK
  <2> QED
    BY <2>2, <2>3
<1>6. CASE Accept
  BY <1>6 DEF Accept
<1>7. CASE SkipClient
  BY <1>7 DEF SkipClient, network
<1>8. CASE ReadMessage
  <2> DEFINE c == clients[i]
  <2>1. c \in Conns /\ i \in 1 .. n
    BY <1>8 DEF ReadMessage, AtReadyClient, LoopsStayInside
  <2>2. inq[c] \in Seq(SentMessages) /\ inq[c] # <<>>
    BY <1>8, <2>1 DEF ReadMessage
  <2>3. Head(inq[c]) \in SentMessages /\ Head(inq[c]).src = c
    <3>1. Head(inq[c]) = inq[c][1] /\ 1 \in 1 .. Len(inq[c])
      BY <2>2
    <3>2. \A d \in Conns : \A k \in 1 .. Len(inq[d]) : inq[d][k].src = d
      OBVIOUS
    <3>3. inq[c][1].src = c
      BY <2>1, <3>1, <3>2
    <3> QED
      BY <2>2, <3>1, <3>3
  <2>4. /\ msg' = Head(inq[c]) /\ inq' = [inq EXCEPT ![c] = Tail(inq[c])]
        /\ clients' = clients /\ i' = i /\ n' = n /\ j' = 1 /\ err' = "OK"
        /\ pc' = "dispatch"
    BY <1>8 DEF ReadMessage
  <2> HIDE DEF c
  <2>5. \A d \in Conns : \A k \in 1 .. Len(inq'[d]) : inq'[d][k].src = d
    <3> SUFFICES ASSUME NEW d \in Conns, NEW k \in 1 .. Len(inq'[d])
                 PROVE  inq'[d][k].src = d
      OBVIOUS
    <3>1. CASE d # c
      BY <2>1, <2>4, <3>1
    <3>2. CASE d = c
      <4>1. inq'[c] = Tail(inq[c])
        BY <2>1, <2>4
      <4>2. k + 1 \in 1 .. Len(inq[c]) /\ Tail(inq[c])[k] = inq[c][k + 1]
        BY <2>2, <3>2, <4>1
      <4> QED
        BY <2>1, <3>2, <4>1, <4>2
    <3> QED
      BY <3>1, <3>2
  <2>6. msg' \in SentMessages /\ msg'.src = clients'[i']
    BY <2>3, <2>4 DEF c
  <2>7. i' >= 1 /\ i' <= n' /\ j' >= 1 /\ err' = "OK" /\ pc' = "dispatch"
    BY <2>1, <2>4
  <2> HIDE DEF TypeOK, LoopTypeOK, NetworkTypeOK
  <2> QED
    BY <2>5, <2>6, <2>7
<1>9. CASE DropClient
  <2> DEFINE c == clients[i]
  <2>1. c \in Conns
    BY <1>9 DEF DropClient, AtReadyClient, LoopsStayInside
  <2>2. inq' = [inq EXCEPT ![c] = <<>>]
    BY <1>9 DEF DropClient
  <2> HIDE DEF c
  <2>3. \A d \in Conns : \A k \in 1 .. Len(inq'[d]) : inq'[d][k].src = d
    BY <2>1, <2>2
  <2> QED
    BY <1>9, <2>3 DEF DropClient, AtReadyClient
<1>10. CASE SkipEntry \/ PrintMessage \/ OnMessage
  <2>1. /\ pc = "dispatch" /\ pc' = pc /\ j' = j + 1 /\ err' = "OK"
        /\ UNCHANGED <<clients, readFds, i, n, msg, inq>>
    BY <1>10
       DEF SkipEntry, PrintMessage, OnMessage, AtEntry, AtMatch, NextEntry, CallbackResult, network
  <2> QED
    BY <2>1
<1>11. CASE ForwardMessage
  BY <1>11 DEF ForwardMessage, AtEntry, AtMatch, NextEntry, CallbackResult, network
<1>12. CASE DispatchDone
  BY <1>12 DEF DispatchDone, network
<1> QED
  BY <1>1, <1>2, <1>3, <1>4, <1>5, <1>6, <1>7, <1>8, <1>9, <1>10, <1>11, <1>12
     DEF Next, Client, Router, Dispatch
(* The handlers of the table keep what they need.                          *)
LEMMA RoutesStep ==
    ASSUME IInv, Next
    PROVE  RoutesInv'
<1> TypeOK /\ LoopsStayInside /\ DispatchInv /\ RoutesInv
  BY DEF IInv
<1>1. ASSUME routes' = routes, clients' = clients, subs' = subs
      PROVE  RoutesInv'
  BY <1>1 DEF RoutesInv, Connected
<1>2. ASSUME NEW c \in Conns, Client(c) PROVE RoutesInv'
  BY <1>1, <1>2 DEF Client, Connect, Send, Take, HangUp
<1>3. CASE Startup
  <2>1. CASE routes' = routes
    BY <1>1, <1>3, <2>1 DEF Startup
  <2>2. CASE routes' \in {<<InternalRoute>>, <<InternalRoute, DebugRoute>>}
    BY <2>2 DEF RoutesInv, InternalRoute, DebugRoute, Route
  <2> QED
    BY <1>3, <2>1, <2>2 DEF Startup
<1>4. CASE Select \/ SelectTimeout \/ LoopDone \/ SkipClient \/ ReadMessage
  BY <1>1, <1>4 DEF Select, SelectTimeout, LoopDone, SkipClient, ReadMessage, vars
<1>5. CASE Accept
  <2>1. clients \in Seq(Conns)
    BY DEF TypeOK, LoopTypeOK
  <2>2. CASE clients' = clients
    BY <1>1, <1>5, <2>2 DEF Accept
  <2>3. CASE clients' = Append(clients, Head(backlog))
    <3>1. Connected \subseteq Connected'
      <4>1. \A k \in 1 .. Len(clients) :
               k \in 1 .. Len(clients') /\ clients'[k] = clients[k]
        BY <2>1, <2>3
      <4>2. DOMAIN clients = 1 .. Len(clients) /\ DOMAIN clients' = 1 .. Len(clients')
        BY <2>1, <2>3
      <4> QED
        BY <4>1, <4>2 DEF Connected, Range
    <3> QED
      BY <1>5, <3>1 DEF Accept, RoutesInv
  <2> QED
    BY <1>5, <2>2, <2>3 DEF Accept
<1>6. CASE DropClient
  <2>1. routes' = <<>>
    BY <1>6, ClearingEmptiesTheTable DEF DropClient
  <2> QED
    BY <2>1 DEF RoutesInv
<1>7. CASE SkipEntry \/ PrintMessage \/ DispatchDone
  BY <1>1, <1>7 DEF SkipEntry, PrintMessage, DispatchDone
<1>8. CASE OnMessage
  <2>1. /\ msg \in SentMessages /\ msg.src \in Connected
        /\ routes \in Seq(Routes)
    <3>1. pc = "dispatch"
      BY <1>8 DEF OnMessage, AtMatch, AtEntry
    <3>2. /\ msg \in SentMessages /\ msg.src = clients[i]
          /\ i \in 1 .. Len(clients) /\ clients \in Seq(Conns)
      BY <3>1 DEF DispatchInv, LoopsStayInside, TypeOK, LoopTypeOK
    <3> QED
      BY <3>2 DEF Connected, Range, TypeOK, TableTypeOK
  <2>2. AskedFor(msg) \in Seq(Routes)
    BY <2>1, AskedForType
  <2>3. \A k \in 1 .. Len(AskedFor(msg)) :
            /\ AskedFor(msg)[k].client = msg.src
            /\ AskedFor(msg)[k] \in Range(AskedFor(msg))
    BY <2>2 DEF AskedFor, Route, Range
  <2>4. /\ routes' = routes \o AskedFor(msg)
        /\ subs' = subs \cup Range(AskedFor(msg))
        /\ clients' = clients
    BY <1>8 DEF OnMessage
  <2> DEFINE new == AskedFor(msg)
  <2> HIDE DEF new
  <2>5. \A k \in 1 .. Len(routes') :
            \/ k \in 1 .. Len(routes) /\ routes'[k] = routes[k]
            \/ k - Len(routes) \in 1 .. Len(new) /\ routes'[k] = new[k - Len(routes)]
    BY <2>1, <2>2, <2>4 DEF new
  <2> SUFFICES ASSUME NEW k \in 1 .. Len(routes'), routes'[k].handler = "Forward"
               PROVE  routes'[k].client \in Connected' /\ routes'[k] \in subs'
    BY DEF RoutesInv
  <2>6. CASE k \in 1 .. Len(routes) /\ routes'[k] = routes[k]
    BY <2>4, <2>6 DEF RoutesInv, Connected
  <2>7. CASE k - Len(routes) \in 1 .. Len(new) /\ routes'[k] = new[k - Len(routes)]
    BY <2>1, <2>3, <2>4, <2>7 DEF new, Connected
  <2> QED
    BY <2>5, <2>6, <2>7
<1>9. CASE ForwardMessage
  BY <1>1, <1>9, ForwardingKeepsRoutes DEF ForwardMessage
<1> QED
  BY <1>2, <1>3, <1>4, <1>5, <1>6, <1>7, <1>8, <1>9 DEF Next, Router, Dispatch

(* What a client was sent, it has subscribed to, after a step as before.   *)
LEMMA DeliveryStep ==
    ASSUME IInv, Next
    PROVE  OnlyToSubscribers'
<1> TypeOK /\ DispatchInv /\ OnlyToSubscribers
  BY DEF IInv
<1>1. ASSUME out' = out, subs \subseteq subs' PROVE OnlyToSubscribers'
  BY <1>1 DEF OnlyToSubscribers
<1>2. ASSUME NEW c \in Conns, Client(c) PROVE OnlyToSubscribers'
  BY <1>1, <1>2 DEF Client, Connect, Send, Take, HangUp
<1>3. CASE Startup \/ Select \/ SelectTimeout \/ Accept \/ LoopDone \/ SkipClient
           \/ ReadMessage \/ DropClient \/ SkipEntry \/ OnMessage \/ PrintMessage
  BY <1>1, <1>3
     DEF Startup, Select, SelectTimeout, Accept, LoopDone, SkipClient, ReadMessage,
         DropClient, SkipEntry, OnMessage, PrintMessage, vars
<1>4. CASE ForwardMessage
  <2> DEFINE route == routes[j]
             dst == route.client
             x == Forwarded(route)
  <2>1. /\ msg \in SentMessages /\ route \in Routes /\ route \in subs
        /\ dst \in Conns /\ subs' = subs
        /\ Match(msg.m.topic, route.exp)
    BY <1>4, ForwardingKeepsRoutes DEF ForwardMessage, AtMatch
  <2>2. x.topic = msg.m.topic /\ x.id = route.id /\ x \in OutMessages
    BY <2>1 DEF Forwarded, OutMessages, SentMessages, Routes
  <2>3. out' = out \/ out' = [out EXCEPT ![dst] = Append(@, x)]
    BY <1>4 DEF ForwardMessage
  <2>4. out \in [Conns -> Seq(OutMessages)]
    BY DEF TypeOK, NetworkTypeOK
  <2> HIDE DEF route, x
  <2>5. CASE out' = [out EXCEPT ![dst] = Append(@, x)]
    <3> SUFFICES ASSUME NEW c \in Conns, NEW k \in 1 .. Len(out'[c])
                 PROVE  \E r \in subs' :
                          /\ r.client = c /\ r.id = out'[c][k].id
                          /\ Match(out'[c][k].topic, r.exp)
      BY DEF OnlyToSubscribers
    <3>1. CASE c # dst \/ k # Len(out[c]) + 1
      <4>1. k \in 1 .. Len(out[c]) /\ out'[c][k] = out[c][k]
        BY <2>1, <2>2, <2>4, <2>5, <3>1
      <4> QED
        BY <2>1, <4>1 DEF OnlyToSubscribers
    <3>2. CASE c = dst /\ k = Len(out[c]) + 1
      <4>1. out'[c][k] = x
        BY <2>1, <2>2, <2>4, <2>5, <3>2
      <4> QED
        BY <2>1, <2>2, <3>2, <4>1
    <3> QED
      BY <3>1, <3>2
  <2> QED
    BY <1>1, <2>1, <2>3, <2>5
<1>5. CASE DispatchDone
  <2>1. out' = out
    BY <1>5 DEF DispatchDone, DispatchInv
  <2> QED
    BY <1>1, <1>5, <2>1 DEF DispatchDone
<1> QED
  BY <1>2, <1>3, <1>4, <1>5 DEF Next, Router, Dispatch

-----------------------------------------------------------------------------
LEMMA StutteringKeepsIInv ==
    ASSUME IInv, UNCHANGED vars
    PROVE  IInv'
  BY ZenonT(40) DEF vars, loop, network, IInv, TypeOK, TableTypeOK, LoopTypeOK, NetworkTypeOK,
         LoopsStayInside, DispatchInv, RoutesInv, OnlyToSubscribers, Connected

LEMMA EveryStepKeepsIInv == IInv /\ [Next]_vars => IInv'
<1>1. ASSUME IInv, Next PROVE IInv'
  <2>1. TypeOK'
    BY <1>1, ClientTypeOK, RouterTypeOK DEF Next, IInv
  <2> QED
    BY <1>1, <2>1, LoopsStep, DispatchStep, RoutesStep, DeliveryStep DEF IInv
<1> QED
  BY <1>1, StutteringKeepsIInv

LEMMA InductiveInvariant == Spec => []IInv
BY InitEstablishesIInv, EveryStepKeepsIInv, PTL DEF Spec

(* The router's data stays well formed (rtrouted.c:41-83).                 *)
THEOREM RouterTypeCorrect == Spec => []TypeOK
<1>1. IInv => TypeOK
  BY DEF IInv
<1> QED
  BY <1>1, InductiveInvariant, PTL

(* No route outlives its client, whatever connects, subscribes and hangs   *)
(* up in whatever order (rtrouted.c:175-190).  The argument rests on the   *)
(* stub that clears the whole table: a predicate that looked for the       *)
(* client's routes would need the routes of each client tracked instead.   *)
THEOREM RouterNoDanglingRoute == Spec => []NoDanglingRoute
<1>1. IInv => NoDanglingRoute
  BY DEF IInv, RoutesInv, NoDanglingRoute
<1> QED
  BY <1>1, InductiveInvariant, PTL

(* The loops over clients and routes never reach past a vector that        *)
(* changed under them (rtrouted.c:660-675, rtRoutingTree.c:129-137).       *)
THEOREM RouterLoopsStayInside == Spec => []LoopsStayInside
<1>1. IInv => LoopsStayInside
  BY DEF IInv
<1> QED
  BY <1>1, InductiveInvariant, PTL

(* A client is only sent what it subscribed to, under the id it chose      *)
(* (rtrouted.c:192-243, :258-301).                                         *)
THEOREM RouterOnlyToSubscribers == Spec => []OnlyToSubscribers
<1>1. IInv => OnlyToSubscribers
  BY DEF IInv
<1> QED
  BY <1>1, InductiveInvariant, PTL

-----------------------------------------------------------------------------
(***************************************************************************)
(* The loop over the clients, and the order of the messages.               *)
(***************************************************************************)

(* A connection waits to be accepted or is connected, once, and not after  *)
(* it is gone; what is connected has a descriptor of its own.              *)
PlacesInv ==
    /\ \A c \in Connected \cup Range(backlog) : peer[c] \in {"open", "hungup"}
    /\ \A k, l \in 1 .. Len(clients) : k # l => clients[k] # clients[l]
    /\ \A k, l \in 1 .. Len(backlog) : k # l => backlog[k] # backlog[l]
    /\ \A k \in 1 .. Len(clients), l \in 1 .. Len(backlog) : clients[k] # backlog[l]
    /\ \A k \in 1 .. Len(clients) : fd[clients[k]] \in 1 .. MaxFds
    /\ \A k, l \in 1 .. Len(clients) : k # l => fd[clients[k]] # fd[clients[l]]

(* What select has said of the clients whose turn is still to come holds   *)
(* when it comes: meanwhile others are read, dropped and accepted.         *)
Ready(c) == inq[c] # <<>> \/ peer[c] = "hungup"

StillReady(first) ==
    \A k \in first .. Len(clients) : fd[clients[k]] \in readFds => Ready(clients[k])

ReadyInv ==
    /\ pc = "listeners" =>
         /\ StillReady(1)
         /\ readFds \subseteq {ListenFd} \cup {fd[clients[k]] : k \in 1 .. Len(clients)}
    /\ pc = "clients" => StillReady(i)
    /\ pc = "dispatch" => StillReady(i + 1)

(* What waits to be read is in order and later than what was forwarded and *)
(* than the message being dispatched, which is no earlier than any other.  *)
OrderInv ==
    /\ \A c \in Conns :
         /\ \A k \in 1 .. Len(inq[c]) : inq[c][k].seq <= sent[c]
         /\ \A k, l \in 1 .. Len(inq[c]) : k < l => inq[c][k].seq < inq[c][l].seq
    /\ \A c, s \in Conns : \A k \in 1 .. Len(out[c]) : out[c][k].src = s =>
         /\ out[c][k].seq <= sent[s]
         /\ \A l \in 1 .. Len(inq[s]) : out[c][k].seq < inq[s][l].seq
         /\ pc = "dispatch" /\ msg.src = s => out[c][k].seq <= msg.seq
    /\ pc = "dispatch" =>
         /\ msg.seq <= sent[msg.src]
         /\ \A l \in 1 .. Len(inq[msg.src]) : msg.seq < inq[msg.src][l].seq
    /\ InOrder

(* The entries the dispatch has passed have been served.                   *)
ServedInv ==
    pc = "dispatch" =>
        \A k \in 1 .. nr : k < j
            /\ Match(msg.m.topic, routes[k].exp)
            /\ routes[k].handler = "Forward"
            /\ peer[routes[k].client] = "open"
            => HasBeenSent(msg, routes[k])

TurnInv == PlacesInv /\ ReadyInv /\ OrderInv /\ ServedInv

(* Where the others are when position p of a sequence is removed.          *)
LEMMA RemoveAtElements ==
    ASSUME NEW S, NEW s \in Seq(S), NEW p \in 1 .. Len(s)
    PROVE  \A k \in 1 .. Len(s) - 1 : RemoveAt(s, p)[k] = IF k < p THEN s[k] ELSE s[k + 1]
<1> DEFINE front == SubSeq(s, 1, p - 1)
           rest == SubSeq(s, p + 1, Len(s))
<1>1. Len(s) \in Nat /\ p - 1 \in Nat /\ Len(s) - p \in Nat
  OBVIOUS
<1>2. /\ front \in Seq(S) /\ Len(front) = p - 1
      /\ rest \in Seq(S) /\ Len(rest) = Len(s) - p
      /\ \A k \in 1 .. p - 1 : front[k] = s[k]
      /\ \A k \in 1 .. Len(s) - p : rest[k] = s[k + p]
  OBVIOUS
<1>3. RemoveAt(s, p) = front \o rest
  BY DEF RemoveAt
<1> HIDE DEF front, rest
<1> SUFFICES ASSUME NEW k \in 1 .. Len(s) - 1
             PROVE  (front \o rest)[k] = IF k < p THEN s[k] ELSE s[k + 1]
  BY <1>3
<1>4. CASE k < p
  BY <1>1, <1>2, <1>4
<1>5. CASE k >= p
  <2>1. (front \o rest)[k] = rest[k - (p - 1)]
    BY <1>1, <1>2, <1>5, SMTT(40)
  <2>2. k - (p - 1) \in 1 .. Len(s) - p
    BY <1>1, <1>5
  <2>3. rest[k - (p - 1)] = s[(k - (p - 1)) + p]
    BY <1>2, <2>2
  <2>4. (k - (p - 1)) + p = k + 1
    BY <1>1
  <2>5. (front \o rest)[k] = s[k + 1]
    BY <2>1, <2>3, <2>4
  <2>6. ~(k < p)
    BY <1>1, <1>5
  <2> QED BY <2>5, <2>6
<1>6. k < p \/ k >= p
  BY <1>1
<1> QED BY <1>4, <1>5, <1>6

LEMMA Members ==
    ASSUME TypeOK
    PROVE  /\ Connected = {clients[k] : k \in 1 .. Len(clients)}
           /\ Range(backlog) = {backlog[k] : k \in 1 .. Len(backlog)}
           /\ Len(clients) \in Nat /\ Len(backlog) \in Nat
           /\ \A k \in 1 .. Len(clients) : clients[k] \in Conns
           /\ \A k \in 1 .. Len(backlog) : backlog[k] \in Conns
<1>1. clients \in Seq(Conns) /\ backlog \in Seq(Conns)
  BY DEF TypeOK, LoopTypeOK, NetworkTypeOK
<1>2. DOMAIN clients = 1 .. Len(clients) /\ DOMAIN backlog = 1 .. Len(backlog)
  BY <1>1
<1>3. Len(clients) \in Nat /\ Len(backlog) \in Nat
  BY <1>1
<1>4. /\ \A k \in 1 .. Len(clients) : clients[k] \in Conns
      /\ \A k \in 1 .. Len(backlog) : backlog[k] \in Conns
  BY <1>1
<1>5. /\ Connected = {clients[k] : k \in 1 .. Len(clients)}
      /\ Range(backlog) = {backlog[k] : k \in 1 .. Len(backlog)}
  BY <1>2 DEF Connected, Range
<1> QED BY <1>3, <1>4, <1>5

(* Accepting and dropping, as functions of positions.                      *)
LEMMA AcceptEffect ==
    ASSUME IInv, Accept
    PROVE  \/ clients' = clients /\ fd' = fd /\ backlog' = backlog
           \/ \E c \in Conns, f \in FreeFds :
                /\ backlog # <<>> /\ c = backlog[1]
                /\ fd' = [fd EXCEPT ![c] = f]
                /\ Len(clients') = Len(clients) + 1
                /\ \A k \in 1 .. Len(clients) : clients'[k] = clients[k]
                /\ clients'[Len(clients) + 1] = c
                /\ Len(backlog') = Len(backlog) - 1
                /\ \A k \in 1 .. Len(backlog') : backlog'[k] = backlog[k + 1]
<1>1. ASSUME NEW f \in FreeFds, ListenFd \in readFds,
             fd' = [fd EXCEPT ![Head(backlog)] = f],
             clients' = Append(clients, Head(backlog)), backlog' = Tail(backlog)
      PROVE  \E c \in Conns :
                /\ backlog # <<>> /\ c = backlog[1]
                /\ fd' = [fd EXCEPT ![c] = f]
                /\ Len(clients') = Len(clients) + 1
                /\ \A k \in 1 .. Len(clients) : clients'[k] = clients[k]
                /\ clients'[Len(clients) + 1] = c
                /\ Len(backlog') = Len(backlog) - 1
                /\ \A k \in 1 .. Len(backlog') : backlog'[k] = backlog[k + 1]
  <2>1. backlog # <<>> /\ backlog \in Seq(Conns) /\ clients \in Seq(Conns)
    BY <1>1 DEF Accept, IInv, DispatchInv, TypeOK, NetworkTypeOK, LoopTypeOK
  <2>2. Head(backlog) \in Conns /\ Head(backlog) = backlog[1]
    BY <2>1
  <2>3. /\ Len(clients') = Len(clients) + 1
        /\ \A k \in 1 .. Len(clients) : clients'[k] = clients[k]
        /\ clients'[Len(clients) + 1] = Head(backlog)
    BY <1>1, <2>1, <2>2
  <2>4. /\ Len(backlog') = Len(backlog) - 1
        /\ \A k \in 1 .. Len(backlog') : backlog'[k] = backlog[k + 1]
    BY <1>1, <2>1
  <2> QED BY <1>1, <2>1, <2>2, <2>3, <2>4
<1> QED BY <1>1 DEF Accept

LEMMA DropEffect ==
    ASSUME IInv, DropClient
    PROVE  /\ i \in 1 .. Len(clients) /\ n = Len(clients) /\ clients[i] \in Conns
           /\ Len(clients') = Len(clients) - 1 /\ i' = i /\ pc = "clients" /\ pc' = pc
           /\ \A k \in 1 .. Len(clients') :
                clients'[k] = IF k < i THEN clients[k] ELSE clients[k + 1]
           /\ fd' = [fd EXCEPT ![clients[i]] = -1]
           /\ peer' = [peer EXCEPT ![clients[i]] = "gone"]
           /\ inq' = [inq EXCEPT ![clients[i]] = <<>>]
           /\ backlog' = backlog /\ out' = out /\ sent' = sent /\ msg' = msg /\ readFds' = readFds
<1>1. i \in 1 .. Len(clients) /\ n = Len(clients) /\ clients \in Seq(Conns) /\ pc = "clients"
  BY DEF DropClient, AtReadyClient, IInv, LoopsStayInside, DispatchInv, TypeOK, LoopTypeOK
<1>2. clients[i] \in Conns
  BY <1>1
<1>3. clients' = RemoveAt(clients, i)
  BY DEF DropClient
<1>4. Len(clients') = Len(clients) - 1
  BY <1>1, <1>3, RemoveAtProperties
<1>5. \A k \in 1 .. Len(clients') :
        clients'[k] = IF k < i THEN clients[k] ELSE clients[k + 1]
  BY <1>1, <1>3, <1>4, RemoveAtElements
<1> QED BY <1>1, <1>2, <1>4, <1>5 DEF DropClient

-----------------------------------------------------------------------------
LEMMA PlacesStep ==
    ASSUME IInv, PlacesInv, Next
    PROVE  PlacesInv'
<1> TypeOK
  BY DEF IInv
<1>0. /\ \A k \in 1 .. Len(clients) : clients[k] \in Conns /\ peer[clients[k]] \in {"open", "hungup"}
      /\ \A k \in 1 .. Len(backlog) : backlog[k] \in Conns /\ peer[backlog[k]] \in {"open", "hungup"}
      /\ Len(clients) \in Nat /\ Len(backlog) \in Nat
  BY Members DEF PlacesInv
<1>1. /\ \A k, l \in 1 .. Len(clients) : k # l => clients[k] # clients[l]
      /\ \A k, l \in 1 .. Len(backlog) : k # l => backlog[k] # backlog[l]
      /\ \A k \in 1 .. Len(clients), l \in 1 .. Len(backlog) : clients[k] # backlog[l]
      /\ \A k \in 1 .. Len(clients) : fd[clients[k]] \in 1 .. MaxFds
      /\ \A k, l \in 1 .. Len(clients) : k # l => fd[clients[k]] # fd[clients[l]]
  BY DEF PlacesInv
<1>2. TypeOK'
  BY ClientTypeOK, RouterTypeOK DEF Next
<1>3. ASSUME /\ \A k \in 1 .. Len(clients') : peer'[clients'[k]] \in {"open", "hungup"}
             /\ \A k \in 1 .. Len(backlog') : peer'[backlog'[k]] \in {"open", "hungup"}
      PROVE  \A c \in (Connected \cup Range(backlog))' : peer'[c] \in {"open", "hungup"}
  <2>1. /\ Connected' = {clients'[k] : k \in 1 .. Len(clients')}
        /\ Range(backlog)' = {backlog'[k] : k \in 1 .. Len(backlog')}
    <3>1. clients' \in Seq(Conns) /\ backlog' \in Seq(Conns)
      BY <1>2 DEF TypeOK, LoopTypeOK, NetworkTypeOK
    <3>2. DOMAIN clients' = 1 .. Len(clients') /\ DOMAIN backlog' = 1 .. Len(backlog')
      BY <3>1
    <3> QED BY <3>2 DEF Connected, Range
  <2> QED BY <1>3, <2>1
<1>4. CASE clients' = clients /\ backlog' = backlog /\ fd' = fd /\ peer' = peer
  BY <1>4 DEF PlacesInv, Connected
<1>5. ASSUME NEW c \in Conns, Client(c) PROVE PlacesInv'
  <2>1. CASE Connect(c)
    <3>1. /\ peer[c] = "idle" /\ clients' = clients /\ fd' = fd
          /\ peer' = [peer EXCEPT ![c] = "open"] /\ backlog' = Append(backlog, c)
      BY <2>1 DEF Connect
    <3>2. /\ Len(backlog') = Len(backlog) + 1 /\ backlog'[Len(backlog) + 1] = c
          /\ \A k \in 1 .. Len(backlog) : backlog'[k] = backlog[k]
      BY <3>1 DEF TypeOK, NetworkTypeOK
    <3>3. /\ \A k \in 1 .. Len(clients) : clients[k] # c
          /\ \A k \in 1 .. Len(backlog) : backlog[k] # c
      BY <1>0, <3>1
    <3>4. /\ peer'[c] = "open" /\ \A d \in Conns \ {c} : peer'[d] = peer[d]
      BY <3>1 DEF TypeOK, NetworkTypeOK
    <3>5. \A k \in 1 .. Len(clients') : peer'[clients'[k]] \in {"open", "hungup"}
      BY <1>0, <3>1, <3>3, <3>4
    <3>6. \A k \in 1 .. Len(backlog') : peer'[backlog'[k]] \in {"open", "hungup"}
      BY <1>0, <3>2, <3>3, <3>4
    <3>7. \A k, l \in 1 .. Len(backlog') : k # l => backlog'[k] # backlog'[l]
      BY <1>0, <1>1, <3>2, <3>3, SMTT(40)
    <3>8. \A k \in 1 .. Len(clients'), l \in 1 .. Len(backlog') : clients'[k] # backlog'[l]
      BY <1>0, <1>1, <3>1, <3>2, <3>3, SMTT(40)
    <3> QED BY <1>1, <1>3, <3>1, <3>5, <3>6, <3>7, <3>8 DEF PlacesInv
  <2>2. CASE HangUp(c)
    <3>1. /\ clients' = clients /\ fd' = fd /\ backlog' = backlog
          /\ \A d \in Conns : peer'[d] = IF d = c THEN "hungup" ELSE peer[d]
      BY <2>2 DEF HangUp, TypeOK, NetworkTypeOK
    <3>2. /\ \A k \in 1 .. Len(clients') : peer'[clients'[k]] \in {"open", "hungup"}
          /\ \A k \in 1 .. Len(backlog') : peer'[backlog'[k]] \in {"open", "hungup"}
      BY <1>0, <3>1
    <3> QED BY <1>1, <1>3, <3>1, <3>2 DEF PlacesInv
  <2> QED BY <1>4, <1>5, <2>1, <2>2 DEF Client, Send, Take
<1>6. CASE Accept
  <2> SUFFICES ASSUME NEW c \in Conns, NEW f \in FreeFds,
                      backlog # <<>>, c = backlog[1],
                      fd' = [fd EXCEPT ![c] = f],
                      Len(clients') = Len(clients) + 1,
                      \A k \in 1 .. Len(clients) : clients'[k] = clients[k],
                      clients'[Len(clients) + 1] = c,
                      Len(backlog') = Len(backlog) - 1,
                      \A k \in 1 .. Len(backlog') : backlog'[k] = backlog[k + 1]
               PROVE  PlacesInv'
    BY <1>4, <1>6, AcceptEffect DEF Accept
  <2>1. peer' = peer
    BY <1>6 DEF Accept
  <2>2. 1 \in 1 .. Len(backlog)
    BY <1>0 DEF TypeOK, NetworkTypeOK
  <2>3. /\ f \in 1 .. MaxFds /\ \A k \in 1 .. Len(clients) : fd[clients[k]] # f
    BY Members DEF FreeFds
  <2>4. \A k \in 1 .. Len(clients) : clients[k] # c
    BY <1>1, <2>2
  <2>5. fd'[c] = f /\ \A k \in 1 .. Len(clients) : fd'[clients[k]] = fd[clients[k]]
    BY <1>0, <2>4 DEF TypeOK, LoopTypeOK
  <2>6. \A k \in 1 .. Len(backlog') : k + 1 \in 1 .. Len(backlog) /\ k + 1 # 1
    BY <1>0
  <2>7. \A k \in 1 .. Len(clients') : k \in 1 .. Len(clients) \/ k = Len(clients) + 1
    BY <1>0
  <2>8. /\ \A k \in 1 .. Len(clients') : peer'[clients'[k]] \in {"open", "hungup"}
        /\ \A k \in 1 .. Len(backlog') : peer'[backlog'[k]] \in {"open", "hungup"}
    BY <1>0, <2>1, <2>2, <2>6, <2>7
  <2>9. \A k, l \in 1 .. Len(clients') : k # l => clients'[k] # clients'[l]
    BY <1>1, <2>4, <2>7
  <2>10. \A k, l \in 1 .. Len(backlog') : k # l => backlog'[k] # backlog'[l]
    BY <1>0, <1>1, <2>6, SMTT(40)
  <2>11. \A k \in 1 .. Len(clients'), l \in 1 .. Len(backlog') : clients'[k] # backlog'[l]
    BY <1>1, <2>2, <2>6, <2>7
  <2>12. \A k \in 1 .. Len(clients') : fd'[clients'[k]] \in 1 .. MaxFds
    BY <1>1, <2>3, <2>5, <2>7, SMTT(40)
  <2>13. \A k, l \in 1 .. Len(clients') : k # l => fd'[clients'[k]] # fd'[clients'[l]]
    BY <1>1, <2>3, <2>5, <2>7, SMTT(30)
  <2> QED BY <1>3, <2>8, <2>9, <2>10, <2>11, <2>12, <2>13 DEF PlacesInv
<1>7. CASE DropClient
  <2>1. PICK old \in [1 .. Len(clients') -> 1 .. Len(clients)] :
           /\ \A k, l \in 1 .. Len(clients') : k # l => old[k] # old[l]
           /\ \A k \in 1 .. Len(clients') : old[k] # i /\ clients'[k] = clients[old[k]]
    <3> DEFINE was == [k \in 1 .. Len(clients') |-> IF k < i THEN k ELSE k + 1]
    <3>1. was \in [1 .. Len(clients') -> 1 .. Len(clients)]
      BY <1>0, <1>7, DropEffect
    <3>2. \A k, l \in 1 .. Len(clients') : k # l => was[k] # was[l]
      BY <1>0, <1>7, DropEffect
    <3>3. \A k \in 1 .. Len(clients') : was[k] # i /\ clients'[k] = clients[was[k]]
      BY <1>0, <1>7, DropEffect
    <3> QED BY <3>1, <3>2, <3>3
  <2>2. \A k \in 1 .. Len(clients') : clients[old[k]] # clients[i] /\ clients[old[k]] \in Conns
    BY <1>0, <1>1, <1>7, <2>1, DropEffect
  <2>3. /\ \A d \in Conns \ {clients[i]} : peer'[d] = peer[d] /\ fd'[d] = fd[d]
        /\ backlog' = backlog
    BY <1>7, DropEffect DEF TypeOK, LoopTypeOK, NetworkTypeOK
  <2>4. \A k \in 1 .. Len(backlog) : backlog[k] # clients[i]
    BY <1>1, <1>7, DropEffect
  <2>5. /\ \A k \in 1 .. Len(clients') : peer'[clients'[k]] \in {"open", "hungup"}
        /\ \A k \in 1 .. Len(backlog') : peer'[backlog'[k]] \in {"open", "hungup"}
    BY <1>0, <2>1, <2>2, <2>3, <2>4, SMTT(30)
  <2>6. \A k, l \in 1 .. Len(clients') : k # l => clients'[k] # clients'[l]
    BY <1>1, <2>1
  <2>7. \A k \in 1 .. Len(clients'), l \in 1 .. Len(backlog') : clients'[k] # backlog'[l]
    BY <1>1, <2>1, <2>3
  <2>8. \A k \in 1 .. Len(clients') : fd'[clients'[k]] \in 1 .. MaxFds
    BY <1>1, <2>1, <2>2, <2>3
  <2>9. ASSUME NEW k \in 1 .. Len(clients'), NEW l \in 1 .. Len(clients'), k # l
        PROVE  fd'[clients'[k]] # fd'[clients'[l]]
    <3>1. old[k] \in 1 .. Len(clients) /\ old[l] \in 1 .. Len(clients) /\ old[k] # old[l]
      BY <2>1, <2>9
    <3>2. fd'[clients'[k]] = fd[clients[old[k]]] /\ fd'[clients'[l]] = fd[clients[old[l]]]
      BY <2>1, <2>2, <2>3
    <3> QED BY <1>1, <3>1, <3>2
  <2> QED BY <1>1, <1>3, <2>3, <2>5, <2>6, <2>7, <2>8, <2>9 DEF PlacesInv
<1>8. CASE Startup \/ Select \/ SelectTimeout \/ LoopDone \/ SkipClient \/ ReadMessage \/ Dispatch
  BY <1>4, <1>8 DEF Startup, Select, SelectTimeout, LoopDone, SkipClient, ReadMessage, Dispatch,
     SkipEntry, OnMessage, PrintMessage, ForwardMessage, DispatchDone, vars, network
<1> QED BY <1>5, <1>6, <1>7, <1>8 DEF Next, Router

(* Nothing a client does makes its end of the stream less ready.           *)
LEMMA ClientsStayReady ==
    ASSUME IInv, PlacesInv, NEW c \in Conns, Client(c)
    PROVE  /\ clients' = clients /\ fd' = fd /\ readFds' = readFds /\ pc' = pc /\ i' = i
           /\ \A k \in 1 .. Len(clients) : Ready(clients[k]) => Ready(clients[k])'
<1>1. \A k \in 1 .. Len(clients) : clients[k] \in Conns /\ peer[clients[k]] # "idle"
  BY Members DEF IInv, PlacesInv
<1>2. /\ peer \in [Conns -> {"idle", "open", "hungup", "gone"}]
      /\ inq \in [Conns -> Seq(SentMessages)]
  BY DEF IInv, TypeOK, NetworkTypeOK
<1>3. clients' = clients /\ fd' = fd /\ readFds' = readFds /\ pc' = pc /\ i' = i
  BY DEF Client, Connect, Send, Take, HangUp, loop
<1>4. ASSUME NEW d \in Conns, peer[d] # "idle", Ready(d) PROVE Ready(d)'
  <2>1. CASE Connect(c)
    BY <1>2, <1>4, <2>1 DEF Connect, Ready
  <2>2. CASE Take(c)
    BY <1>4, <2>2 DEF Take, Ready
  <2>3. CASE HangUp(c)
    BY <1>2, <1>4, <2>3 DEF HangUp, Ready
  <2>4. ASSUME NEW m \in Messages, Send(c, m) PROVE Ready(d)'
    <3> DEFINE x == [m |-> m, src |-> c, seq |-> sent[c] + 1]
    <3>1. inq' = [inq EXCEPT ![c] = Append(inq[c], x)] /\ peer' = peer
      BY <2>4 DEF Send
    <3> HIDE DEF x
    <3>2. CASE d = c
      <4>1. inq'[d] = Append(inq[d], x)
        BY <1>2, <3>1, <3>2
      <4>2. Append(inq[d], x) # <<>>
        <5>1. inq[d] \in Seq(SentMessages)
          BY <1>2
        <5>2. Len(Append(inq[d], x)) = Len(inq[d]) + 1 /\ Len(inq[d]) \in Nat /\ Len(<<>>) = 0
          BY <5>1
        <5> QED BY <5>2
      <4> QED BY <4>1, <4>2 DEF Ready
    <3>3. CASE d # c
      BY <1>2, <1>4, <3>1, <3>3 DEF Ready
    <3> QED BY <3>2, <3>3
  <2> QED BY <2>1, <2>2, <2>3, <2>4 DEF Client
<1>5. ASSUME NEW k \in 1 .. Len(clients), Ready(clients[k]) PROVE Ready(clients[k])'
  <2>1. PICK d \in Conns : d = clients[k]
    BY <1>1
  <2>2. Ready(d)'
    BY <1>1, <1>4, <1>5, <2>1
  <2> QED BY <1>3, <2>1, <2>2
<1> QED BY <1>3, <1>5

LEMMA ReadyStep ==
    ASSUME IInv, PlacesInv, ReadyInv, Next
    PROVE  ReadyInv'
<1> TypeOK
  BY DEF IInv
<1>0. /\ \A k \in 1 .. Len(clients) : clients[k] \in Conns
      /\ \A k, l \in 1 .. Len(clients) : k # l => clients[k] # clients[l]
      /\ \A k \in 1 .. Len(clients) : fd[clients[k]] \in 1 .. MaxFds
      /\ \A k, l \in 1 .. Len(clients) : k # l => fd[clients[k]] # fd[clients[l]]
      /\ Len(clients) \in Nat /\ i \in Nat
  BY Members DEF PlacesInv, TypeOK, LoopTypeOK
<1>1. ASSUME NEW c \in Conns, Client(c) PROVE ReadyInv'
  <2>1. /\ clients' = clients /\ fd' = fd /\ readFds' = readFds /\ pc' = pc /\ i' = i
        /\ \A k \in 1 .. Len(clients) : Ready(clients[k]) => Ready(clients[k])'
    BY <1>1, ClientsStayReady
  <2>2. ASSUME NEW first \in Nat \ {0}, StillReady(first) PROVE StillReady(first)'
    <3>1. \A k \in first .. Len(clients) : k \in 1 .. Len(clients)
      BY <1>0
    <3> QED BY <2>1, <2>2, <3>1 DEF StillReady
  <2>3. pc = "clients" \/ pc = "dispatch" => i \in Nat \ {0} /\ i + 1 \in Nat \ {0}
    BY <1>0 DEF IInv, DispatchInv
  <2>4. CASE pc = "listeners"
    BY <2>1, <2>2, <2>4 DEF ReadyInv
  <2>5. CASE pc = "clients"
    <3>1. PICK first \in Nat \ {0} : first = i
      BY <2>3, <2>5
    <3>2. StillReady(first)
      BY <2>5, <3>1 DEF ReadyInv
    <3>3. StillReady(first)'
      BY <2>2, <3>2
    <3> QED BY <2>1, <2>5, <3>1, <3>3 DEF ReadyInv
  <2>6. CASE pc = "dispatch"
    <3>1. PICK first \in Nat \ {0} : first = i + 1
      BY <2>3, <2>6
    <3>2. StillReady(first)
      BY <2>6, <3>1 DEF ReadyInv
    <3>3. StillReady(first)'
      BY <2>2, <3>2
    <3> QED BY <2>1, <2>6, <3>1, <3>3 DEF ReadyInv
  <2> QED BY <2>1, <2>4, <2>5, <2>6 DEF ReadyInv
<1>2. CASE Startup \/ LoopDone
  BY <1>2 DEF Startup, LoopDone, ReadyInv
<1>3. CASE SelectTimeout
  BY <1>3 DEF SelectTimeout, ReadyInv, StillReady, Ready, vars, loop, network
<1>4. CASE Select
  <2>1. /\ pc' = "listeners" /\ readFds' = ReadyFds /\ clients' = clients /\ fd' = fd
        /\ peer' = peer /\ inq' = inq
    BY <1>4 DEF Select, network
  <2>2. Connected = {clients[k] : k \in 1 .. Len(clients)}
    BY Members
  <2>3. ReadyFds \subseteq {ListenFd} \cup {fd[clients[k]] : k \in 1 .. Len(clients)}
    BY <2>2 DEF ReadyFds
  <2>4. ASSUME NEW k \in 1 .. Len(clients), fd[clients[k]] \in ReadyFds PROVE Ready(clients[k])
    <3>1. fd[clients[k]] # ListenFd
      BY <1>0 DEF ListenFd
    <3>2. PICK c \in Connected : fd[c] = fd[clients[k]] /\ Ready(c)
      BY <2>4, <3>1 DEF ReadyFds, Ready
    <3> QED BY <1>0, <2>2, <3>2
  <2>5. StillReady(1)'
    BY <2>1, <2>4 DEF StillReady, Ready
  <2> QED BY <2>1, <2>3, <2>5 DEF ReadyInv
<1>5. CASE Accept
  <2>1. /\ pc = "listeners" /\ pc' = "clients" /\ i' = 1 /\ readFds' = readFds
        /\ peer' = peer /\ inq' = inq
    BY <1>5 DEF Accept
  <2>2. CASE clients' = clients /\ fd' = fd
    BY <2>1, <2>2 DEF ReadyInv, StillReady, Ready
  <2>3. ASSUME NEW c \in Conns, NEW f \in FreeFds,
               backlog # <<>>, c = backlog[1],
               fd' = [fd EXCEPT ![c] = f],
               Len(clients') = Len(clients) + 1,
               \A k \in 1 .. Len(clients) : clients'[k] = clients[k],
               clients'[Len(clients) + 1] = c
        PROVE  ReadyInv'
    <3>1. 1 \in 1 .. Len(backlog)
      BY <2>3, Members DEF TypeOK, NetworkTypeOK
    <3>2. f \in 1 .. MaxFds /\ \A k \in 1 .. Len(clients) : clients[k] # c /\ fd[clients[k]] # f
      BY <2>3, <3>1, Members DEF FreeFds, PlacesInv
    <3>3. f \notin readFds
      BY <2>1, <3>2 DEF ReadyInv, ListenFd
    <3>4. fd'[c] = f /\ \A k \in 1 .. Len(clients) : fd'[clients[k]] = fd[clients[k]]
      BY <1>0, <2>3, <3>2 DEF TypeOK, LoopTypeOK
    <3>5. ASSUME NEW k \in 1 .. Len(clients'), fd'[clients'[k]] \in readFds
          PROVE  inq[clients'[k]] # <<>> \/ peer[clients'[k]] = "hungup"
      <4>1. k \in 1 .. Len(clients) \/ k = Len(clients) + 1
        BY <1>0, <2>3
      <4>2. k \in 1 .. Len(clients)
        BY <2>3, <3>3, <3>4, <3>5, <4>1
      <4>3. fd[clients[k]] \in readFds
        BY <2>3, <3>4, <3>5, <4>2
      <4> QED BY <2>1, <2>3, <4>2, <4>3 DEF ReadyInv, StillReady, Ready
    <3> QED BY <2>1, <3>5 DEF ReadyInv, StillReady, Ready
  <2> QED BY <1>5, <2>2, <2>3, AcceptEffect
<1>6. CASE SkipClient
  <2>1. /\ pc = "clients" /\ pc' = "clients" /\ i' = i + 1
        /\ UNCHANGED <<readFds, clients, fd, peer, inq>>
    BY <1>6 DEF SkipClient, network
  <2>2. StillReady(i) => \A k \in i + 1 .. Len(clients) :
                            fd[clients[k]] \in readFds => Ready(clients[k])
    BY <1>0 DEF StillReady
  <2> QED BY <2>1, <2>2 DEF ReadyInv, StillReady, Ready
<1>7. CASE ReadMessage
  <2>1. /\ pc = "clients" /\ pc' = "dispatch" /\ i' = i /\ i >= 1 /\ i <= Len(clients)
        /\ inq' = [inq EXCEPT ![clients[i]] = Tail(inq[clients[i]])]
        /\ UNCHANGED <<readFds, clients, fd, peer>>
    BY <1>7 DEF ReadMessage, AtReadyClient, IInv, DispatchInv, LoopsStayInside
  <2>2. i \in 1 .. Len(clients)
    BY <1>0, <2>1
  <2>3. ASSUME NEW k \in i + 1 .. Len(clients), fd[clients[k]] \in readFds
        PROVE  inq'[clients[k]] # <<>> \/ peer[clients[k]] = "hungup"
    <3>1. k \in 1 .. Len(clients) /\ k # i /\ k \in i .. Len(clients)
      BY <1>0, <2>1
    <3>2. Ready(clients[k])
      BY <2>1, <2>3, <3>1 DEF ReadyInv, StillReady
    <3>3. inq'[clients[k]] = inq[clients[k]]
      BY <1>0, <2>1, <2>2, <3>1 DEF TypeOK, NetworkTypeOK
    <3> QED BY <3>2, <3>3 DEF Ready
  <2> QED BY <2>1, <2>3 DEF ReadyInv, StillReady, Ready
<1>8. CASE DropClient
  <2>1. ASSUME NEW k \in i .. Len(clients'), fd'[clients'[k]] \in readFds
        PROVE  inq'[clients'[k]] # <<>> \/ peer'[clients'[k]] = "hungup"
    <3>1. /\ k + 1 \in 1 .. Len(clients) /\ k + 1 # i /\ k + 1 \in i .. Len(clients)
          /\ k \in 1 .. Len(clients') /\ ~(k < i)
      BY <1>0, <1>8, DropEffect
    <3>2. clients'[k] = clients[k + 1]
      BY <1>8, <3>1, DropEffect
    <3>3. clients[k + 1] # clients[i] /\ clients[k + 1] \in Conns
      BY <1>0, <1>8, <3>1, DropEffect
    <3>4. /\ fd'[clients[k + 1]] = fd[clients[k + 1]]
          /\ peer'[clients[k + 1]] = peer[clients[k + 1]]
          /\ inq'[clients[k + 1]] = inq[clients[k + 1]]
      BY <1>8, <3>3, DropEffect DEF TypeOK, LoopTypeOK, NetworkTypeOK
    <3>5. Ready(clients[k + 1])
      BY <1>8, <2>1, <3>1, <3>2, <3>4, DropEffect DEF ReadyInv, StillReady
    <3> QED BY <3>2, <3>4, <3>5 DEF Ready
  <2> QED BY <1>8, <2>1, DropEffect DEF ReadyInv, StillReady, Ready
<1>9. CASE SkipEntry \/ OnMessage \/ PrintMessage \/ ForwardMessage
  <2>1. /\ pc = "dispatch" /\ pc' = pc
        /\ UNCHANGED <<readFds, clients, fd, peer, inq, i>>
    BY <1>9 DEF SkipEntry, OnMessage, PrintMessage, ForwardMessage, AtMatch, AtEntry, network
  <2> QED BY <2>1 DEF ReadyInv, StillReady, Ready
<1>10. CASE DispatchDone
  <2>1. /\ pc = "dispatch" /\ pc' = "clients" /\ i' = i + 1
        /\ UNCHANGED <<readFds, clients, fd, peer, inq>>
    BY <1>10 DEF DispatchDone, network
  <2> QED BY <2>1 DEF ReadyInv, StillReady, Ready
<1> QED BY <1>1, <1>2, <1>3, <1>4, <1>5, <1>6, <1>7, <1>8, <1>9, <1>10 DEF Next, Router, Dispatch

(* A forwarding step sends one message or none.                            *)
LEMMA ForwardEffect ==
    ASSUME IInv, ForwardMessage
    PROVE  \E r \in Routes, x \in OutMessages :
             /\ r = routes[j] /\ r.client \in Conns
             /\ x = [src |-> msg.src, seq |-> msg.seq, topic |-> msg.m.topic, id |-> r.id]
             /\ x.src = msg.src /\ x.seq = msg.seq
             /\ \/ peer[r.client] = "hungup" /\ out' = out
                \/ /\ \A c \in Conns \ {r.client} : out'[c] = out[c]
                   /\ Len(out'[r.client]) = Len(out[r.client]) + 1
                   /\ \A k \in 1 .. Len(out[r.client]) : out'[r.client][k] = out[r.client][k]
                   /\ out'[r.client][Len(out[r.client]) + 1] = x
<1>1. PICK r \in Routes : r = routes[j] /\ r.client \in Conns /\ r.client \in Connected
  BY ForwardingKeepsRoutes
<1>2. PICK x : x = [src |-> msg.src, seq |-> msg.seq, topic |-> msg.m.topic, id |-> r.id]
  OBVIOUS
<1>3. x \in OutMessages /\ x.src = msg.src /\ x.seq = msg.seq
  BY <1>1, <1>2, ForwardingKeepsRoutes DEF OutMessages, SentMessages, Routes
<1>4. CASE peer[r.client] = "hungup"
  <2>1. out' = out
    BY <1>1, <1>4 DEF ForwardMessage, SendResult
  <2> QED BY <1>1, <1>2, <1>3, <1>4, <2>1
<1>5. CASE peer[r.client] # "hungup"
  <2>1. out' = [out EXCEPT ![r.client] = Append(@, x)]
    BY <1>1, <1>2, <1>5 DEF ForwardMessage, SendResult, Forwarded
  <2>2. out \in [Conns -> Seq(OutMessages)]
    BY DEF IInv, TypeOK, NetworkTypeOK
  <2>3. /\ \A c \in Conns \ {r.client} : out'[c] = out[c]
        /\ Len(out'[r.client]) = Len(out[r.client]) + 1
        /\ \A k \in 1 .. Len(out[r.client]) : out'[r.client][k] = out[r.client][k]
        /\ out'[r.client][Len(out[r.client]) + 1] = x
    BY <1>1, <1>3, <2>1, <2>2, AppendTo
  <2> QED BY <1>1, <1>2, <1>3, <2>3
<1> QED BY <1>4, <1>5

LEMMA ServedStep ==
    ASSUME IInv, PlacesInv, ServedInv, Next
    PROVE  ServedInv'
<1> TypeOK
  BY DEF IInv
<1>0. ASSUME pc = "dispatch"
      PROVE  /\ nr \in Nat /\ j \in Nat /\ nr <= Len(routes) /\ Len(routes) \in Nat
             /\ \A k \in 1 .. nr : k \in 1 .. Len(routes)
             /\ \A k \in 1 .. nr : routes[k].handler = "Forward" =>
                    routes[k].client \in Conns /\ peer[routes[k].client] # "idle"
  <2>1. nr \in Nat /\ j \in Nat /\ nr <= Len(routes) /\ Len(routes) \in Nat
    BY <1>0 DEF IInv, TypeOK, LoopTypeOK, TableTypeOK, LoopsStayInside
  <2>2. \A k \in 1 .. nr : k \in 1 .. Len(routes)
    BY <2>1
  <2>3. \A c \in Connected : c \in Conns /\ peer[c] # "idle"
    BY Members DEF PlacesInv
  <2> QED BY <2>1, <2>2, <2>3 DEF IInv, RoutesInv
<1>1. CASE pc' = "dispatch" /\ pc = "dispatch" /\ UNCHANGED <<out, routes, msg, j, nr>>
           /\ (\A k \in 1 .. nr : routes[k].handler = "Forward" =>
                 (peer'[routes[k].client] = "open" => peer[routes[k].client] = "open"))
  BY <1>1 DEF ServedInv, HasBeenSent
<1>2. CASE pc' # "dispatch"
  BY <1>2 DEF ServedInv
<1>3. ASSUME NEW c \in Conns, Client(c), pc = "dispatch" PROVE ServedInv'
  <2>1. /\ pc' = pc /\ UNCHANGED <<out, routes, msg, j, nr>>
    BY <1>3 DEF Client, Connect, Send, Take, HangUp, loop
  <2>2. \A d \in Conns : peer[d] # "idle" => (peer'[d] = "open" => peer[d] = "open")
    BY <1>3 DEF Client, Connect, Send, Take, HangUp, TypeOK, NetworkTypeOK
  <2> QED BY <1>0, <1>1, <1>3, <2>1, <2>2
<1>4. CASE ReadMessage
  BY <1>4 DEF ReadMessage, ServedInv
<1>5. CASE SkipEntry \/ OnMessage \/ PrintMessage
  <2>1. /\ pc = "dispatch" /\ pc' = pc /\ nr' = nr /\ msg' = msg /\ out' = out /\ peer' = peer
        /\ j' = j + 1
    BY <1>5 DEF SkipEntry, OnMessage, PrintMessage, AtMatch, AtEntry, NextEntry, CallbackResult, network
  <2>2. ~(Match(msg.m.topic, routes[j].exp) /\ routes[j].handler = "Forward")
    BY <1>5 DEF SkipEntry, OnMessage, PrintMessage, AtMatch
  <2>3. \A k \in 1 .. nr : routes'[k] = routes[k]
    <3>1. CASE OnMessage
      <4>1. /\ routes' = routes \o AskedFor(msg) /\ msg \in SentMessages
        BY <2>1, <3>1 DEF OnMessage, IInv, DispatchInv
      <4>2. AskedFor(msg) \in Seq(Routes) /\ routes \in Seq(Routes)
        BY <4>1, AskedForType DEF TypeOK, TableTypeOK
      <4>3. \A k \in 1 .. Len(routes) : (routes \o AskedFor(msg))[k] = routes[k]
        BY <4>2
      <4> QED BY <1>0, <2>1, <4>1, <4>3
    <3>2. CASE SkipEntry \/ PrintMessage
      BY <3>2 DEF SkipEntry, PrintMessage
    <3> QED BY <1>5, <3>1, <3>2
  <2> SUFFICES ASSUME NEW k \in 1 .. nr, k < j + 1,
                      Match(msg.m.topic, routes'[k].exp), routes'[k].handler = "Forward",
                      peer[routes'[k].client] = "open"
               PROVE  \E l \in 1 .. Len(out[routes'[k].client]) : out[routes'[k].client][l] =
                        [src |-> msg.src, seq |-> msg.seq, topic |-> msg.m.topic,
                         id |-> routes'[k].id]
    BY <2>1 DEF ServedInv, HasBeenSent
  <2>4. routes'[k] = routes[k]
    BY <2>3
  <2>5. k < j
    BY <1>0, <2>1, <2>2, <2>4
  <2>6. HasBeenSent(msg, routes[k])
    BY <2>1, <2>4, <2>5 DEF ServedInv
  <2> QED BY <2>4, <2>6 DEF HasBeenSent
<1>6. CASE ForwardMessage
  <2>1. /\ pc = "dispatch" /\ pc' = pc /\ nr' = nr /\ msg' = msg /\ peer' = peer
        /\ j' = j + 1 /\ routes' = routes
    BY <1>6, ForwardingKeepsRoutes
       DEF ForwardMessage, AtMatch, AtEntry, NextEntry, CallbackResult, network
  <2>2. PICK r \in Routes, x \in OutMessages :
             /\ r = routes[j] /\ r.client \in Conns
             /\ x = [src |-> msg.src, seq |-> msg.seq, topic |-> msg.m.topic, id |-> r.id]
             /\ \/ peer[r.client] = "hungup" /\ out' = out
                \/ /\ \A c \in Conns \ {r.client} : out'[c] = out[c]
                   /\ Len(out'[r.client]) = Len(out[r.client]) + 1
                   /\ \A k \in 1 .. Len(out[r.client]) : out'[r.client][k] = out[r.client][k]
                   /\ out'[r.client][Len(out[r.client]) + 1] = x
    BY <1>6, ForwardEffect
  <2>3. \A c \in Conns : Len(out[c]) \in Nat
    BY DEF TypeOK, NetworkTypeOK
  <2>4. ASSUME NEW c \in Conns, NEW k \in 1 .. Len(out[c])
        PROVE  k \in 1 .. Len(out'[c]) /\ out'[c][k] = out[c][k]
    <3>1. CASE out'[c] = out[c]
      BY <3>1
    <3>2. CASE out'[c] # out[c]
      <4>1. /\ c = r.client /\ Len(out'[c]) = Len(out[c]) + 1 /\ out'[c][k] = out[c][k]
        BY <2>2, <3>2
      <4> QED BY <2>3, <4>1
    <3> QED BY <3>1, <3>2
  <2> SUFFICES ASSUME NEW k \in 1 .. nr, k < j + 1,
                      Match(msg.m.topic, routes[k].exp), routes[k].handler = "Forward",
                      peer[routes[k].client] = "open"
               PROVE  \E l \in 1 .. Len(out'[routes[k].client]) : out'[routes[k].client][l] =
                        [src |-> msg.src, seq |-> msg.seq, topic |-> msg.m.topic, id |-> routes[k].id]
    BY <2>1 DEF ServedInv, HasBeenSent
  <2>5. CASE k < j
    <3>1. HasBeenSent(msg, routes[k])
      BY <2>1, <2>5 DEF ServedInv
    <3>2. routes[k].client \in Conns
      BY <1>0, <2>1
    <3> QED BY <2>4, <3>1, <3>2 DEF HasBeenSent
  <2>6. CASE k = j
    <3>1. routes[k] = r /\ peer[r.client] # "hungup"
      BY <2>2, <2>6
    <3>2. Len(out[r.client]) + 1 \in 1 .. Len(out'[r.client])
      BY <2>2, <2>3, <3>1
    <3> QED BY <2>2, <3>1, <3>2
  <2> QED BY <1>0, <2>1, <2>5, <2>6, SMTT(40)
<1>7. CASE Startup \/ Select \/ Accept \/ LoopDone \/ DispatchDone
  BY <1>2, <1>7 DEF Startup, Select, Accept, LoopDone, DispatchDone
<1>8. CASE SelectTimeout \/ SkipClient \/ DropClient
  BY <1>2, <1>8 DEF SelectTimeout, SkipClient, DropClient, AtReadyClient, vars
<1>9. ASSUME NEW c \in Conns, Client(c), pc # "dispatch" PROVE ServedInv'
  BY <1>2, <1>9 DEF Client, Connect, Send, Take, HangUp
<1> QED BY <1>3, <1>4, <1>5, <1>6, <1>7, <1>8, <1>9 DEF Next, Router, Dispatch

LEMMA OrderStep ==
    ASSUME IInv, OrderInv, Next
    PROVE  OrderInv'
<1> TypeOK
  BY DEF IInv
<1>0. /\ inq \in [Conns -> Seq(SentMessages)] /\ sent \in [Conns -> Nat]
      /\ out \in [Conns -> Seq(OutMessages)]
      /\ \A c \in Conns : Len(inq[c]) \in Nat /\ Len(out[c]) \in Nat
      /\ \A c \in Conns : \A k \in 1 .. Len(inq[c]) : inq[c][k].seq \in Nat /\ inq[c][k].src = c
      /\ \A c \in Conns : \A k \in 1 .. Len(out[c]) : out[c][k].seq \in Nat
      /\ pc = "dispatch" => msg.seq \in Nat /\ msg.src \in Conns
  <2>1. /\ inq \in [Conns -> Seq(SentMessages)] /\ sent \in [Conns -> Nat]
        /\ out \in [Conns -> Seq(OutMessages)]
    BY DEF TypeOK, NetworkTypeOK
  <2>2. \A c \in Conns : Len(inq[c]) \in Nat /\ Len(out[c]) \in Nat
    BY <2>1
  <2>3. \A c \in Conns : \A k \in 1 .. Len(inq[c]) : inq[c][k] \in SentMessages
    BY <2>1
  <2>4. \A c \in Conns : \A k \in 1 .. Len(out[c]) : out[c][k] \in OutMessages
    BY <2>1
  <2>5. /\ \A x \in SentMessages : x.seq \in Nat /\ x.src \in Conns
        /\ \A x \in OutMessages : x.seq \in Nat
    BY DEF SentMessages, OutMessages
  <2>6. /\ \A c \in Conns : \A k \in 1 .. Len(inq[c]) : inq[c][k].src = c
        /\ pc = "dispatch" => msg \in SentMessages
    BY DEF IInv, DispatchInv
  <2> QED BY <2>1, <2>2, <2>3, <2>4, <2>5, <2>6
<1>1. CASE UNCHANGED <<inq, sent, out, msg>> /\ (pc' = "dispatch" => pc = "dispatch")
  BY <1>1 DEF OrderInv, InOrder
<1>2. ASSUME NEW c \in Conns, Client(c) PROVE OrderInv'
  <2>1. CASE Connect(c) \/ Take(c) \/ HangUp(c)
    BY <1>1, <2>1 DEF Connect, Take, HangUp, loop
  <2>2. ASSUME NEW m \in Messages, Send(c, m) PROVE OrderInv'
    <3>1. PICK x \in SentMessages : x.seq = sent[c] + 1
            /\ inq' = [inq EXCEPT ![c] = Append(inq[c], x)]
      <4>1. [m |-> m, src |-> c, seq |-> sent[c] + 1] \in SentMessages
        BY <1>0 DEF SentMessages
      <4> QED BY <2>2, <4>1 DEF Send
    <3>2. /\ sent'[c] = sent[c] + 1 /\ \A d \in Conns \ {c} : sent'[d] = sent[d] /\ inq'[d] = inq[d]
          /\ UNCHANGED <<out, msg, pc>>
      BY <1>0, <2>2 DEF Send, loop
    <3>3. /\ Len(inq'[c]) = Len(inq[c]) + 1
          /\ \A k \in 1 .. Len(inq[c]) : inq'[c][k] = inq[c][k]
          /\ inq'[c][Len(inq[c]) + 1] = x
      BY <1>0, <3>1
    <3>4. \A k \in 1 .. Len(inq'[c]) : k \in 1 .. Len(inq[c]) \/ k = Len(inq[c]) + 1
      BY <1>0, <3>3
    <3>5. /\ \A d \in Conns : \A k \in 1 .. Len(inq[d]) : inq[d][k].seq <= sent[d]
          /\ \A d \in Conns : \A k, l \in 1 .. Len(inq[d]) : k < l => inq[d][k].seq < inq[d][l].seq
          /\ \A d, s \in Conns : \A k \in 1 .. Len(out[d]) : out[d][k].src = s =>
               /\ out[d][k].seq <= sent[s]
               /\ \A l \in 1 .. Len(inq[s]) : out[d][k].seq < inq[s][l].seq
               /\ pc = "dispatch" /\ msg.src = s => out[d][k].seq <= msg.seq
          /\ pc = "dispatch" =>
               /\ msg.seq <= sent[msg.src]
               /\ \A l \in 1 .. Len(inq[msg.src]) : msg.seq < inq[msg.src][l].seq
          /\ InOrder
      BY DEF OrderInv
    <3>6. ASSUME NEW d \in Conns
          PROVE  /\ \A k \in 1 .. Len(inq'[d]) : inq'[d][k].seq <= sent'[d]
                 /\ \A k, l \in 1 .. Len(inq'[d]) : k < l => inq'[d][k].seq < inq'[d][l].seq
      <4>1. CASE d = c
        <5>1. ASSUME NEW k \in 1 .. Len(inq'[c]) PROVE inq'[c][k].seq <= sent'[c]
          <6>1. sent[c] \in Nat
            BY <1>0
          <6>2. CASE k \in 1 .. Len(inq[c])
            <7>1. inq'[c][k] = inq[c][k] /\ inq[c][k].seq \in Nat /\ inq[c][k].seq <= sent[c]
              BY <1>0, <3>3, <3>5, <6>2
            <7> QED BY <3>2, <6>1, <7>1
          <6>3. CASE k = Len(inq[c]) + 1
            BY <3>1, <3>2, <3>3, <6>1, <6>3
          <6> QED BY <3>4, <6>2, <6>3
        <5>2. ASSUME NEW k \in 1 .. Len(inq'[c]), NEW l \in 1 .. Len(inq'[c]), k < l
              PROVE  inq'[c][k].seq < inq'[c][l].seq
          <6>1. Len(inq[c]) \in Nat /\ sent[c] \in Nat
            BY <1>0
          <6>2. k \in 1 .. Len(inq[c])
            BY <3>4, <5>2, <6>1
          <6>3. /\ inq'[c][k] = inq[c][k] /\ inq[c][k].seq \in Nat
                /\ inq[c][k].seq <= sent[c]
            BY <1>0, <3>3, <3>5, <6>2
          <6>4. CASE l \in 1 .. Len(inq[c])
            BY <3>3, <3>5, <5>2, <6>2, <6>4
          <6>5. CASE l = Len(inq[c]) + 1
            <7>1. inq'[c][l].seq = sent[c] + 1
              BY <3>1, <3>3, <6>5
            <7> QED BY <6>1, <6>3, <7>1
          <6> QED BY <3>4, <6>4, <6>5
        <5> QED BY <4>1, <5>1, <5>2
      <4>2. CASE d # c
        BY <3>2, <3>5, <4>2
      <4> QED BY <4>1, <4>2
    <3>7. ASSUME NEW d \in Conns, NEW s \in Conns, NEW k \in 1 .. Len(out[d]), out[d][k].src = s
          PROVE  /\ out[d][k].seq <= sent'[s]
                 /\ \A l \in 1 .. Len(inq'[s]) : out[d][k].seq < inq'[s][l].seq
      <4>1. CASE s = c
        BY <1>0, <3>1, <3>2, <3>3, <3>4, <3>5, <3>7, <4>1, SMTT(40)
      <4>2. CASE s # c
        BY <3>2, <3>5, <3>7, <4>2
      <4> QED BY <4>1, <4>2
    <3>8. ASSUME pc = "dispatch"
          PROVE  /\ msg.seq <= sent'[msg.src]
                 /\ \A l \in 1 .. Len(inq'[msg.src]) : msg.seq < inq'[msg.src][l].seq
      <4>1. CASE msg.src = c
        BY <1>0, <3>1, <3>2, <3>3, <3>4, <3>5, <3>8, <4>1
      <4>2. CASE msg.src # c
        BY <1>0, <3>2, <3>5, <3>8, <4>2
      <4> QED BY <4>1, <4>2
    <3>9. InOrder'
      BY <3>2, <3>5 DEF InOrder
    <3>10. \A d, s \in Conns : \A k \in 1 .. Len(out'[d]) : out'[d][k].src = s =>
               (pc' = "dispatch" /\ msg'.src = s => out'[d][k].seq <= msg'.seq)
      BY <3>2, <3>5
    <3> QED BY <3>2, <3>6, <3>7, <3>8, <3>9, <3>10 DEF OrderInv
  <2> QED BY <1>2, <2>1, <2>2 DEF Client
<1>3. CASE Startup \/ Select \/ SelectTimeout \/ Accept \/ LoopDone \/ SkipClient
  BY <1>1, <1>3 DEF Startup, Select, SelectTimeout, Accept, LoopDone, SkipClient, vars, loop, network
<1>4. CASE SkipEntry \/ OnMessage \/ PrintMessage
  BY <1>1, <1>4 DEF SkipEntry, OnMessage, PrintMessage, network
<1>5. CASE DispatchDone
  <2>1. out' = out
    BY <1>5 DEF DispatchDone, IInv, DispatchInv
  <2> QED BY <1>1, <1>5, <2>1 DEF DispatchDone, network
<1>6. CASE DropClient
  <2>1. PICK c \in Conns : inq' = [inq EXCEPT ![c] = <<>>]
    BY <1>6, DropEffect
  <2>2. /\ Len(inq'[c]) = 0 /\ \A d \in Conns \ {c} : inq'[d] = inq[d]
    BY <1>0, <2>1
  <2>3. pc = "clients" /\ pc' = "clients" /\ out' = out /\ sent' = sent
    BY <1>6, DropEffect
  <2>4. \A d \in Conns : /\ \A k \in 1 .. Len(inq'[d]) : inq'[d][k].seq <= sent'[d]
                         /\ \A k, l \in 1 .. Len(inq'[d]) : k < l => inq'[d][k].seq < inq'[d][l].seq
    BY <2>2, <2>3, SMTT(30) DEF OrderInv
  <2>5. \A d, s \in Conns : \A k \in 1 .. Len(out'[d]) : out'[d][k].src = s =>
               /\ out'[d][k].seq <= sent'[s]
               /\ \A l \in 1 .. Len(inq'[s]) : out'[d][k].seq < inq'[s][l].seq
    BY <2>2, <2>3 DEF OrderInv
  <2>6. InOrder'
    BY <2>3 DEF OrderInv, InOrder
  <2> QED BY <2>3, <2>4, <2>5, <2>6 DEF OrderInv
<1>7. CASE ReadMessage
  <2>1. PICK c \in Conns : /\ c = clients[i] /\ inq[c] # <<>> /\ msg' = Head(inq[c])
                           /\ inq' = [inq EXCEPT ![c] = Tail(inq[c])]
                           /\ pc' = "dispatch" /\ sent' = sent /\ out' = out
    <3>1. i \in 1 .. Len(clients)
      BY <1>7 DEF ReadMessage, AtReadyClient, IInv, DispatchInv, LoopsStayInside, TypeOK, LoopTypeOK
    <3> QED BY <1>7, <3>1, Members DEF ReadMessage
  <2>2. /\ msg' = inq[c][1] /\ 1 \in 1 .. Len(inq[c])
        /\ Len(inq'[c]) = Len(inq[c]) - 1
        /\ \A k \in 1 .. Len(inq'[c]) : inq'[c][k] = inq[c][k + 1]
        /\ \A d \in Conns \ {c} : inq'[d] = inq[d]
    BY <1>0, <2>1
  <2>3. msg'.src = c
    BY <1>0, <2>2
  <2>4. \A k \in 1 .. Len(inq'[c]) : k + 1 \in 1 .. Len(inq[c]) /\ 1 < k + 1
    BY <1>0, <2>2
  <2>5. ASSUME NEW d \in Conns
        PROVE  /\ \A k \in 1 .. Len(inq'[d]) : inq'[d][k].seq <= sent'[d]
               /\ \A k, l \in 1 .. Len(inq'[d]) : k < l => inq'[d][k].seq < inq'[d][l].seq
    <3>1. CASE d = c
      <4>1. \A k \in 1 .. Len(inq'[c]) : inq'[c][k].seq <= sent'[c]
        BY <2>1, <2>2, <2>4 DEF OrderInv
      <4>2. ASSUME NEW k \in 1 .. Len(inq'[c]), NEW l \in 1 .. Len(inq'[c]), k < l
            PROVE  inq'[c][k].seq < inq'[c][l].seq
        <5>1. k + 1 < l + 1 /\ k + 1 \in 1 .. Len(inq[c]) /\ l + 1 \in 1 .. Len(inq[c])
          BY <2>4, <4>2
        <5> QED BY <2>2, <5>1 DEF OrderInv
      <4> QED BY <3>1, <4>1, <4>2
    <3>2. CASE d # c
      <4>1. inq'[d] = inq[d] /\ sent' = sent
        BY <2>1, <2>2, <3>2
      <4>2. /\ \A k \in 1 .. Len(inq[d]) : inq[d][k].seq <= sent[d]
            /\ \A k, l \in 1 .. Len(inq[d]) : k < l => inq[d][k].seq < inq[d][l].seq
        BY DEF OrderInv
      <4> QED BY <4>1, <4>2
    <3> QED BY <3>1, <3>2
  <2>6. ASSUME NEW d \in Conns, NEW s \in Conns, NEW k \in 1 .. Len(out'[d]), out'[d][k].src = s
        PROVE  /\ out'[d][k].seq <= sent'[s]
               /\ \A l \in 1 .. Len(inq'[s]) : out'[d][k].seq < inq'[s][l].seq
               /\ pc' = "dispatch" /\ msg'.src = s => out'[d][k].seq <= msg'.seq
    <3>1. /\ out[d][k].seq <= sent[s] /\ k \in 1 .. Len(out[d])
          /\ \A l \in 1 .. Len(inq[s]) : out[d][k].seq < inq[s][l].seq
      BY <2>1, <2>6 DEF OrderInv
    <3>2. CASE s = c
      <4>1. \A l \in 1 .. Len(inq'[s]) : out'[d][k].seq < inq'[s][l].seq
        BY <2>1, <2>2, <2>4, <3>1, <3>2
      <4>2. out'[d][k].seq <= msg'.seq
        BY <1>0, <2>1, <2>2, <3>1, <3>2
      <4> QED BY <2>1, <3>1, <4>1, <4>2
    <3>3. CASE s # c
      BY <2>1, <2>2, <2>3, <3>1, <3>3
    <3> QED BY <3>2, <3>3
  <2>7. /\ msg'.seq <= sent'[msg'.src]
        /\ \A l \in 1 .. Len(inq'[msg'.src]) : msg'.seq < inq'[msg'.src][l].seq
    BY <2>1, <2>2, <2>3, <2>4 DEF OrderInv
  <2>8. InOrder'
    BY <2>1 DEF OrderInv, InOrder
  <2> QED BY <2>5, <2>6, <2>7, <2>8 DEF OrderInv
<1>8. CASE ForwardMessage
  <2>1. /\ pc = "dispatch" /\ pc' = pc /\ msg' = msg /\ inq' = inq /\ sent' = sent
    BY <1>8 DEF ForwardMessage, AtMatch, AtEntry, network
  <2>2. PICK r \in Routes, x \in OutMessages :
             /\ r.client \in Conns /\ x.src = msg.src /\ x.seq = msg.seq
             /\ \/ out' = out
                \/ /\ \A c \in Conns \ {r.client} : out'[c] = out[c]
                   /\ Len(out'[r.client]) = Len(out[r.client]) + 1
                   /\ \A k \in 1 .. Len(out[r.client]) : out'[r.client][k] = out[r.client][k]
                   /\ out'[r.client][Len(out[r.client]) + 1] = x
    BY <1>8, ForwardEffect
  <2>3. CASE out' = out
    BY <1>1, <2>1, <2>3
  <2>4. CASE /\ \A c \in Conns \ {r.client} : out'[c] = out[c]
             /\ Len(out'[r.client]) = Len(out[r.client]) + 1
             /\ \A k \in 1 .. Len(out[r.client]) : out'[r.client][k] = out[r.client][k]
             /\ out'[r.client][Len(out[r.client]) + 1] = x
    <3>1. ASSUME NEW d \in Conns, NEW k \in 1 .. Len(out'[d])
          PROVE  \/ k \in 1 .. Len(out[d]) /\ out'[d][k] = out[d][k]
                 \/ d = r.client /\ k = Len(out[d]) + 1 /\ out'[d][k] = x
      BY <1>0, <2>2, <2>4, SMTT(30)
    <3>2. ASSUME NEW d \in Conns, NEW s \in Conns, NEW k \in 1 .. Len(out'[d]), out'[d][k].src = s
          PROVE  /\ out'[d][k].seq <= sent'[s]
                 /\ \A l \in 1 .. Len(inq'[s]) : out'[d][k].seq < inq'[s][l].seq
                 /\ pc' = "dispatch" /\ msg'.src = s => out'[d][k].seq <= msg'.seq
      <4>1. CASE k \in 1 .. Len(out[d]) /\ out'[d][k] = out[d][k]
        BY <2>1, <3>2, <4>1 DEF OrderInv
      <4>2. CASE out'[d][k] = x
        <5>1. pc = "dispatch" /\ s = msg.src /\ out'[d][k].seq = msg.seq /\ msg.seq \in Nat
          BY <1>0, <2>1, <2>2, <3>2, <4>2
        <5>2. msg.seq <= sent[msg.src] /\ \A l \in 1 .. Len(inq[msg.src]) : msg.seq < inq[msg.src][l].seq
          BY <5>1 DEF OrderInv
        <5> QED BY <2>1, <5>1, <5>2
      <4> QED BY <3>1, <4>1, <4>2
    <3>3. ASSUME NEW d \in Conns, NEW k \in 1 .. Len(out'[d]), NEW l \in 1 .. Len(out'[d]),
                 k < l, out'[d][k].src = out'[d][l].src
          PROVE  out'[d][k].seq <= out'[d][l].seq
      <4>1. k \in 1 .. Len(out[d]) /\ out'[d][k] = out[d][k]
        <5>1. Len(out[d]) \in Nat /\ Len(out'[d]) \in {Len(out[d]), Len(out[d]) + 1}
          <6>1. CASE d = r.client
            BY <1>0, <2>4, <6>1
          <6>2. CASE d # r.client
            BY <1>0, <2>4, <6>2
          <6> QED BY <6>1, <6>2
        <5>2. k # Len(out[d]) + 1
          BY <3>3, <5>1
        <5> QED BY <3>1, <5>2
      <4>2. CASE l \in 1 .. Len(out[d]) /\ out'[d][l] = out[d][l]
        BY <3>3, <4>1, <4>2 DEF OrderInv, InOrder
      <4>3. CASE out'[d][l] = x
        <5>1. pc = "dispatch" /\ out[d][k].src = msg.src /\ out'[d][l].seq = msg.seq
          BY <2>1, <2>2, <3>3, <4>1, <4>3
        <5>2. msg.src \in Conns /\ out[d][k].seq <= msg.seq
          BY <1>0, <4>1, <5>1 DEF OrderInv
        <5> QED BY <4>1, <5>1, <5>2
      <4> QED BY <3>1, <4>2, <4>3
    <3>4. InOrder'
      BY <3>3 DEF InOrder
    <3>5. /\ \A d \in Conns : /\ \A k \in 1 .. Len(inq'[d]) : inq'[d][k].seq <= sent'[d]
                              /\ \A k, l \in 1 .. Len(inq'[d]) : k < l => inq'[d][k].seq < inq'[d][l].seq
          /\ pc' = "dispatch" =>
               /\ msg'.seq <= sent'[msg'.src]
               /\ \A l \in 1 .. Len(inq'[msg'.src]) : msg'.seq < inq'[msg'.src][l].seq
      BY <2>1 DEF OrderInv
    <3> QED BY <3>2, <3>4, <3>5 DEF OrderInv
  <2> QED BY <2>2, <2>3, <2>4
<1> QED BY <1>2, <1>3, <1>4, <1>5, <1>6, <1>7, <1>8 DEF Next, Router, Dispatch

LEMMA InitEstablishesTurnInv == Init => TurnInv
BY DEF Init, TurnInv, PlacesInv, ReadyInv, OrderInv, InOrder, ServedInv, Connected, Range

LEMMA EveryStepKeepsTurnInv == IInv /\ TurnInv /\ [Next]_vars => TurnInv'
<1>1. ASSUME IInv, TurnInv, Next PROVE TurnInv'
  BY <1>1, PlacesStep, ReadyStep, OrderStep, ServedStep DEF TurnInv
<1>2. ASSUME TurnInv, UNCHANGED vars PROVE TurnInv'
  BY <1>2 DEF vars, loop, network, TurnInv, PlacesInv, ReadyInv, StillReady, Ready, OrderInv,
     InOrder, ServedInv, HasBeenSent, Connected
<1> QED BY <1>1, <1>2

LEMMA TurnInvariant == Spec => []TurnInv
BY InitEstablishesTurnInv, EveryStepKeepsTurnInv, InductiveInvariant, PTL DEF Spec

(* recv is called only for what select has reported and nobody has taken   *)
(* since, whoever was read, dropped or accepted before (rtrouted.c:660-665,*)
(* :344).                                                                  *)
THEOREM RouterRecvNeverBlocks == Spec => []RecvNeverBlocks
<1>1. IInv /\ TurnInv => RecvNeverBlocks
  <2> SUFFICES ASSUME IInv, TurnInv, AtReadyClient
               PROVE  inq[clients[i]] # <<>> \/ peer[clients[i]] = "hungup"
    BY DEF RecvNeverBlocks
  <2>1. pc = "clients" /\ i \in i .. Len(clients) /\ fd[clients[i]] \in readFds
    BY DEF AtReadyClient, IInv, LoopsStayInside, TypeOK, LoopTypeOK
  <2> QED BY <2>1 DEF TurnInv, ReadyInv, StillReady, Ready
<1> QED BY <1>1, InductiveInvariant, TurnInvariant, PTL

(* The messages of a sender stay in order, however many clients send and   *)
(* read meanwhile (rtrouted.c:387-397, :609-676).                          *)
THEOREM RouterInOrder == Spec => []InOrder
<1>1. TurnInv => InOrder
  BY DEF TurnInv, OrderInv
<1> QED BY <1>1, TurnInvariant, PTL

(* When the loop over the table is done, everybody who subscribed and is   *)
(* still there has the message, whatever became of the others              *)
(* (rtrouted.c:112-128, rtRoutingTree.c:129-137).                          *)
THEOREM RouterFanOutComplete == Spec => FanOutComplete
<1>1. IInv /\ TurnInv /\ [Next]_vars =>
        [ pc = "dispatch" /\ pc' # "dispatch" =>
            \A k \in 1 .. nr :
              /\ Match(msg.m.topic, routes[k].exp)
              /\ routes[k].handler = "Forward"
              /\ peer[routes[k].client] = "open"
              => HasBeenSent(msg, routes[k]) ]_vars
  <2> SUFFICES ASSUME IInv, TurnInv, Next, pc = "dispatch", pc' # "dispatch",
                      NEW k \in 1 .. nr,
                      Match(msg.m.topic, routes[k].exp), routes[k].handler = "Forward",
                      peer[routes[k].client] = "open"
               PROVE  HasBeenSent(msg, routes[k])
    OBVIOUS
  <2>1. DispatchDone
    BY DEF Next, Router, Dispatch, Client, Startup, Select, SelectTimeout, Accept, LoopDone,
       SkipClient, ReadMessage, DropClient, AtReadyClient, SkipEntry, OnMessage, PrintMessage,
       ForwardMessage, Connect, Send, Take, HangUp, vars
  <2>2. k < j
    BY <2>1 DEF DispatchDone, IInv, TypeOK, LoopTypeOK
  <2> QED BY <2>2 DEF TurnInv, ServedInv
<1> QED BY <1>1, InductiveInvariant, TurnInvariant, PTL DEF Spec, FanOutComplete

-----------------------------------------------------------------------------
(***************************************************************************)
(* The programs.                                                           *)
(***************************************************************************)
Offered == {Service} \cup {Inbox[c] : c \in Conns}

Numbers == 0 .. MaxRequests

ProgramTypes ==
    /\ at \in [Conns -> {"off", "create", "listen", "dispatch", "respond", "ask", "wait"}]
    /\ listeners \in [Conns -> Seq(Offered)]
    /\ requests \in [Conns -> Numbers]
    /\ request \in [Conns -> [from : Requesters \cup {NoClient}, number : Numbers]]
    /\ written \in [Conns -> Seq(SystemMessages)]
    /\ answers \in [Conns -> Seq(Numbers)]

(* What a program listens to, by its place.                                *)
PlaceInv ==
    \A c \in Conns :
        /\ peer[c] = IF at[c] = "off" THEN "idle" ELSE "open"
        /\ at[c] \in {"off", "create"} => listeners[c] = <<>>
        /\ at[c] = "listen" => c \in Servers /\ listeners[c] = <<Inbox[c]>>
        /\ at[c] \in {"ask", "wait"} => c \in Requesters /\ listeners[c] = <<Inbox[c]>>
        /\ at[c] \in {"dispatch", "respond"} =>
             c \in Servers /\ listeners[c] = <<Inbox[c], Service>>
        /\ at[c] = "respond" => request[c].from \in Requesters /\ request[c].number >= 1

(* It first writes its subscriptions, in the order of their ids, and then  *)
(* requests or responses.                                                  *)
Later(c, b) ==
    \/ c \in Requesters /\ \E m \in 1 .. MaxRequests : b = Request(c, m)
    \/ c \in Servers /\ \E d \in Requesters, m \in 1 .. MaxRequests :
         b = Response([from |-> d, number |-> m])

WrittenInv ==
    \A c \in Conns :
        /\ sent[c] = Len(written[c])
        /\ at[c] \in {"off", "create", "listen"} => Len(written[c]) = Len(listeners[c])
        /\ Len(listeners[c]) <= Len(written[c])
        /\ \A k \in 1 .. Len(written[c]) :
             IF k <= Len(listeners[c]) THEN written[c][k] = Subscription(listeners[c][k], k)
             ELSE Later(c, written[c][k])

(* What is on its way is what was written under that number.               *)
CarriedInv ==
    /\ \A c \in Conns : \A k \in 1 .. Len(inq[c]) :
         /\ inq[c][k].seq \in 1 .. Len(written[c])
         /\ inq[c][k].m = written[c][inq[c][k].seq]
    /\ pc = "dispatch" =>
         msg.seq \in 1 .. Len(written[msg.src]) /\ msg.m = written[msg.src][msg.seq]
    /\ \A c \in Conns : \A k \in 1 .. Len(out[c]) :
         /\ out[c][k].seq \in 1 .. Len(written[out[c][k].src])
         /\ out[c][k].topic = written[out[c][k].src][out[c][k].seq].topic
    /\ \A c \in Conns : taken[c] <= Len(out[c])

(* There is one route for each subscription the router has taken in, which *)
(* is behind what waits to be read.                                        *)
IsListener(route) ==
    /\ route.client \in Conns /\ route.id \in 1 .. Len(listeners[route.client])
    /\ route.exp = listeners[route.client][route.id]

SubsInv == \A route \in subs : IsListener(route)

InternalInv == \A k \in 1 .. Len(routes) : routes[k].handler = "OnMessage" => k = 1

BehindInv ==
    \A k \in 1 .. Len(routes) : routes[k].handler = "Forward" =>
         /\ IsListener(routes[k])
         /\ \A l \in 1 .. Len(inq[routes[k].client]) :
              routes[k].id < inq[routes[k].client][l].seq
         /\ pc = "dispatch" /\ msg.src = routes[k].client =>
              /\ routes[k].id <= msg.seq
              /\ j = 1 => routes[k].id < msg.seq

OnceInv ==
    \A k, l \in 1 .. Len(routes) :
         /\ routes[k].handler = "Forward" /\ routes[l].handler = "Forward"
         /\ routes[k].client = routes[l].client /\ routes[k].id = routes[l].id
         => k = l

TableInv == SubsInv /\ InternalInv /\ BehindInv /\ OnceInv

ProgramsInv == ProgramTypes /\ PlaceInv /\ WrittenInv /\ CarriedInv /\ TableInv

(***************************************************************************)
(* Where a request of c, or the response to it, can be, with its number:   *)
(* in a queue to the router, with the router, which is still to forward    *)
(* it, in a queue from the router, or with the server.                     *)
(***************************************************************************)
Concerns(b, c) == b.kind \in {"request", "response"} /\ b.from = c

Queued(c, x, m) ==
    \E d \in Conns : \E k \in 1 .. Len(inq[d]) :
        /\ Concerns(inq[d][k].m, c) /\ inq[d][k].m.number = m
        /\ x = <<"queued", d, inq[d][k].seq>>

Routed(c, x, m) ==
    /\ pc = "dispatch" /\ Concerns(msg.m, c) /\ msg.m.number = m
    /\ \E k \in 1 .. nr :
         k >= j /\ routes[k].handler = "Forward" /\ Match(msg.m.topic, routes[k].exp)
    /\ x = <<"routed", msg.src, msg.seq>>

Delivered(c, x, m) ==
    \E d \in Conns : \E k \in 1 .. Len(out[d]) :
        /\ k > taken[d] /\ Concerns(BodyOf(out[d][k]), c) /\ BodyOf(out[d][k]).number = m
        /\ x = <<"delivered", d, k>>

Asked(c, x, m) ==
    \E d \in Conns :
        at[d] = "respond" /\ request[d] = [from |-> c, number |-> m] /\ x = <<"asked", d, 0>>

InFlight(c, x, m) ==
    Queued(c, x, m) \/ Routed(c, x, m) \/ Delivered(c, x, m) \/ Asked(c, x, m)

(* A program waits for one request only, which is in one place at most,    *)
(* and the others have been answered.                                      *)
FlightOf(c) ==
    /\ \A x, y, m, l : InFlight(c, x, m) /\ InFlight(c, y, l) => x = y
    /\ \A x, m : InFlight(c, x, m) => at[c] = "wait" /\ m = requests[c]
    /\ \A k \in 1 .. Len(answers[c]) : answers[c][k] = k
    /\ at[c] = "wait" => requests[c] = Len(answers[c]) + 1
    /\ at[c] # "wait" => requests[c] = Len(answers[c])

FlightInv == \A c \in Requesters : FlightOf(c)

SystemInv == IInv /\ TurnInv /\ ProgramsInv

OneServer == \E s \in Conns : Servers = {s}

-----------------------------------------------------------------------------
(* What the assumption on topics gives, in the form the proofs use.        *)
LEMMA TopicsDiffer ==
    /\ SystemMessages \subseteq Messages
    /\ \A c \in Conns : Inbox[c] \in Offered /\ Inbox[c] # Service /\ Inbox[c] # Nowhere
         /\ Inbox[c] # SubscribeTopic /\ Inbox[c] # HelloTopic
    /\ \A c, d \in Conns : Inbox[c] = Inbox[d] => c = d
    /\ Service \in Offered /\ Service # Nowhere
    /\ Service # SubscribeTopic /\ Service # HelloTopic
    /\ SubscribeTopic \notin Offered
    /\ \A topic \in Offered \cup {SubscribeTopic}, exp \in Offered :
         Match(topic, exp) => topic = exp
BY TopicsAssumption DEF Offered

LEMMA ProgramsDiffer ==
    /\ \A c \in Conns : c \in Servers \/ c \in Requesters
    /\ \A c \in Servers : c \in Conns /\ c \notin Requesters
    /\ \A c \in Requesters : c \in Conns
    /\ NoClient \notin Requesters
BY ProgramsAssumption, NoClientAssumption

(* The messages, field by field.                                           *)
LEMMA Bodies ==
    /\ \A exp, id : LET b == Subscription(exp, id) IN
         /\ b.kind = "subscribe" /\ b.topic = SubscribeTopic /\ b.exp = exp /\ b.id = id
         /\ ~b.request /\ ~b.empty
    /\ \A c, k : LET b == Request(c, k) IN
         /\ b.kind = "request" /\ b.topic = Service /\ b.from = c /\ b.number = k
         /\ b.request /\ ~b.empty
    /\ \A c, k : LET b == Response([from |-> c, number |-> k]) IN
         /\ b.kind = "response" /\ b.topic = Inbox[c] /\ b.from = c /\ b.number = k
         /\ ~b.request /\ ~b.empty
BY ZenonT(40) DEF Subscription, Request, Response, Body

LEMMA BodiesAreMessages ==
    /\ \A c \in Conns : Subscription(Inbox[c], 1) \in SystemMessages
    /\ Subscription(Service, 2) \in SystemMessages
    /\ \A c \in Requesters, k \in 1 .. MaxRequests :
         /\ Request(c, k) \in SystemMessages
         /\ Response([from |-> c, number |-> k]) \in SystemMessages
<1> DEFINE Pair(c, k) == {Request(c, k), Response([from |-> c, number |-> k])}
           Pairs == {Pair(c, k) : c \in Requesters, k \in 1 .. MaxRequests}
<1>1. SystemMessages =
        {Subscription(Inbox[c], 1) : c \in Conns} \cup {Subscription(Service, 2)} \cup UNION Pairs
  BY DEF SystemMessages
<1>2. ASSUME NEW c \in Requesters, NEW k \in 1 .. MaxRequests
      PROVE  /\ Request(c, k) \in UNION Pairs
             /\ Response([from |-> c, number |-> k]) \in UNION Pairs
  <2>1. Pair(c, k) \in Pairs
    OBVIOUS
  <2>2. Request(c, k) \in Pair(c, k) /\ Response([from |-> c, number |-> k]) \in Pair(c, k)
    OBVIOUS
  <2> HIDE DEF Pair, Pairs
  <2> QED BY <2>1, <2>2
<1> HIDE DEF Pairs
<1> QED BY <1>1, <1>2

LEMMA NoBodyIsEmpty ==
    ASSUME WrittenInv, NEW c \in Conns, NEW k \in 1 .. Len(written[c])
    PROVE  ~written[c][k].empty
<1>1. CASE k <= Len(listeners[c])
  <2>1. written[c][k] = Subscription(listeners[c][k], k)
    BY <1>1 DEF WrittenInv
  <2> QED BY <2>1, Bodies
<1>2. CASE ~(k <= Len(listeners[c]))
  <2>1. Later(c, written[c][k])
    BY <1>2 DEF WrittenInv
  <2> QED BY <2>1, Bodies, ZenonT(40) DEF Later
<1> QED BY <1>1, <1>2

(* By the id of a listener one knows the expression.                       *)
LEMMA ListenersById ==
    ASSUME ProgramTypes, PlaceInv, NEW c \in Conns, NEW id \in 1 .. Len(listeners[c])
    PROVE  /\ \/ id = 1 /\ listeners[c][id] = Inbox[c]
              \/ id = 2 /\ listeners[c][id] = Service /\ c \in Servers
           /\ at[c] \notin {"off", "create"}
<1>1. /\ Len(<<>>) = 0 /\ Len(<<Inbox[c]>>) = 1 /\ Len(<<Inbox[c], Service>>) = 2
      /\ <<Inbox[c]>>[1] = Inbox[c]
      /\ <<Inbox[c], Service>>[1] = Inbox[c] /\ <<Inbox[c], Service>>[2] = Service
  OBVIOUS
<1>2. CASE at[c] \in {"off", "create"}
  BY <1>1, <1>2 DEF PlaceInv
<1>3. CASE at[c] \in {"listen", "ask", "wait"}
  <2>1. listeners[c] = <<Inbox[c]>>
    BY <1>3 DEF PlaceInv
  <2>2. id = 1
    BY <2>1, <1>1
  <2> QED BY <1>1, <1>3, <2>1, <2>2
<1>4. CASE at[c] \in {"dispatch", "respond"}
  <2>1. listeners[c] = <<Inbox[c], Service>> /\ c \in Servers
    BY <1>4 DEF PlaceInv
  <2>2. id = 1 \/ id = 2
    BY <2>1, <1>1
  <2> QED BY <1>1, <1>4, <2>1, <2>2
<1> QED BY <1>2, <1>3, <1>4 DEF ProgramTypes

-----------------------------------------------------------------------------
(***************************************************************************)
(* What the steps do.                                                      *)
(***************************************************************************)

(* Nobody hangs up and no message is empty: clients are not dropped.       *)
LEMMA NobodyIsDropped ==
    ASSUME SystemInv
    PROVE  ~DropClient
<1> SUFFICES ASSUME DropClient PROVE FALSE
  OBVIOUS
<1> DEFINE c == clients[i]
<1>1. i \in 1 .. Len(clients) /\ c \in Conns /\ c \in Connected
  BY DropEffect, Members DEF SystemInv, IInv
<1>2. peer[c] = "open"
  <2>1. peer[c] \in {"open", "hungup"}
    BY <1>1 DEF SystemInv, TurnInv, PlacesInv
  <2>2. peer[c] \in {"idle", "open"}
    BY <1>1 DEF SystemInv, ProgramsInv, PlaceInv
  <2> QED BY <2>1, <2>2
<1>3. inq[c] # <<>> /\ Head(inq[c]).m.empty /\ inq[c] \in Seq(SentMessages)
  BY <1>1, <1>2 DEF DropClient, SystemInv, IInv, TypeOK, NetworkTypeOK
<1>4. Head(inq[c]) = inq[c][1] /\ 1 \in 1 .. Len(inq[c])
  BY <1>3
<1>5. PICK q \in 1 .. Len(written[c]) : inq[c][1].m = written[c][q]
  BY <1>1, <1>4 DEF SystemInv, ProgramsInv, CarriedInv
<1>6. ~written[c][q].empty
  BY <1>1, <1>5, NoBodyIsEmpty DEF SystemInv, ProgramsInv
<1> QED BY <1>3, <1>4, <1>5, <1>6

LEMMA RouterEffect ==
    ASSUME SystemInv, RouterStep
    PROVE  /\ UNCHANGED programs /\ peer' = peer /\ sent' = sent /\ taken' = taken
           /\ \/ /\ pc # "dispatch" /\ pc' # "dispatch"
                 /\ inq' = inq /\ out' = out /\ subs' = subs
                 /\ routes' \in {routes, <<InternalRoute>>, <<InternalRoute, DebugRoute>>}
              \/ ReadMessage
              \/ SkipEntry \/ PrintMessage
              \/ OnMessage
              \/ ForwardMessage
              \/ /\ pc = "dispatch" /\ pc' # "dispatch"
                 /\ inq' = inq /\ out' = out /\ subs' = subs /\ routes' = routes
<1>1. UNCHANGED programs /\ Router
  BY DEF RouterStep
<1>2. CASE Startup \/ Select \/ SelectTimeout \/ LoopDone \/ SkipClient
  BY <1>1, <1>2 DEF Startup, Select, SelectTimeout, LoopDone, SkipClient, network, loop, vars
<1>3. CASE Accept
  BY <1>1, <1>3 DEF Accept
<1>4. CASE ReadMessage
  BY <1>1, <1>4, SMTT(40) DEF ReadMessage
<1>5. CASE SkipEntry \/ PrintMessage \/ OnMessage \/ ForwardMessage
  BY <1>1, <1>5 DEF SkipEntry, PrintMessage, OnMessage, ForwardMessage, network
<1>6. CASE DispatchDone
  <2>1. err # "NO_CONNECTION"
    BY DEF SystemInv, IInv, DispatchInv
  <2> QED BY <1>1, <1>6, <2>1 DEF DispatchDone, network
<1> QED BY <1>1, <1>2, <1>3, <1>4, <1>5, <1>6, NobodyIsDropped DEF Router, Dispatch

(* Writing puts a message behind those of the queue, under the next number.*)
LEMMA WriteEffect ==
    ASSUME SystemInv, NEW c \in Conns, NEW b \in SystemMessages, Write(c, b)
    PROVE  /\ inq' \in [Conns -> Seq(SentMessages)] /\ written' \in [Conns -> Seq(SystemMessages)]
           /\ Len(inq'[c]) = Len(inq[c]) + 1 /\ Len(written'[c]) = Len(written[c]) + 1
           /\ Len(inq[c]) \in Nat /\ Len(written[c]) \in Nat
           /\ \A k \in 1 .. Len(inq[c]) : inq'[c][k] = inq[c][k]
           /\ inq'[c][Len(inq[c]) + 1] = [m |-> b, src |-> c, seq |-> Len(written[c]) + 1]
           /\ \A k \in 1 .. Len(written[c]) : written'[c][k] = written[c][k]
           /\ written'[c][Len(written[c]) + 1] = b
           /\ \A d \in Conns : d # c =>
                inq'[d] = inq[d] /\ written'[d] = written[d] /\ sent'[d] = sent[d]
           /\ sent'[c] = Len(written[c]) + 1
           /\ UNCHANGED <<pc, routes, clients, fd, readFds, loop, backlog, peer, taken, out, subs>>
<1> DEFINE x == [m |-> b, src |-> c, seq |-> Len(written[c]) + 1]
<1>1. /\ inq \in [Conns -> Seq(SentMessages)] /\ written \in [Conns -> Seq(SystemMessages)]
      /\ sent \in [Conns -> Nat] /\ sent[c] = Len(written[c])
  BY DEF SystemInv, IInv, TypeOK, NetworkTypeOK, ProgramsInv, ProgramTypes, WrittenInv
<1>2. x \in SentMessages
  BY <1>1, TopicsDiffer DEF SentMessages
<1>3. /\ inq' = [inq EXCEPT ![c] = Append(@, x)] /\ sent' = [sent EXCEPT ![c] = @ + 1]
      /\ written' = [written EXCEPT ![c] = Append(@, b)]
      /\ UNCHANGED <<pc, routes, clients, fd, readFds, loop, backlog, peer, taken, out, subs>>
  BY <1>1 DEF Write, Send
<1> HIDE DEF x
<1>4. /\ inq' \in [Conns -> Seq(SentMessages)]
      /\ \A d \in Conns : d # c => inq'[d] = inq[d]
      /\ Len(inq'[c]) = Len(inq[c]) + 1
      /\ \A k \in 1 .. Len(inq[c]) : inq'[c][k] = inq[c][k]
      /\ inq'[c][Len(inq[c]) + 1] = x
  BY <1>1, <1>2, <1>3, AppendTo
<1>5. /\ written' \in [Conns -> Seq(SystemMessages)]
      /\ \A d \in Conns : d # c => written'[d] = written[d]
      /\ Len(written'[c]) = Len(written[c]) + 1
      /\ \A k \in 1 .. Len(written[c]) : written'[c][k] = written[c][k]
      /\ written'[c][Len(written[c]) + 1] = b
  BY <1>1, <1>3, AppendTo
<1>6. sent'[c] = Len(written[c]) + 1 /\ \A d \in Conns : d # c => sent'[d] = sent[d]
  BY <1>1, <1>3
<1>7. Len(inq[c]) \in Nat /\ Len(written[c]) \in Nat
  BY <1>1
<1> QED BY <1>3, <1>4, <1>5, <1>6, <1>7 DEF x

(* What the programs write are messages of the system.                     *)
LEMMA ResponsesAreMessages ==
    ASSUME SystemInv, NEW c \in Conns, at[c] = "respond"
    PROVE  /\ request[c].from \in Requesters /\ request[c].number \in 1 .. MaxRequests
           /\ request[c] = [from |-> request[c].from, number |-> request[c].number]
           /\ Response(Answered(c)) \in SystemMessages
<1>1. request[c].from \in Requesters /\ request[c].number >= 1
  BY DEF SystemInv, ProgramsInv, PlaceInv
<1>2. request[c] \in [from : Requesters \cup {NoClient}, number : Numbers]
  BY DEF SystemInv, ProgramsInv, ProgramTypes
<1>3. MaxRequests \in Nat
  BY ProgramsAssumption
<1>4. /\ request[c].number \in 1 .. MaxRequests
      /\ request[c] = [from |-> request[c].from, number |-> request[c].number]
  BY <1>1, <1>2, <1>3 DEF Numbers
<1> QED BY <1>1, <1>4, BodiesAreMessages DEF Answered

(* The programs are clients of the router, as RtRouted has them.           *)
LEMMA EveryStepIsOfTheRouter ==
    ASSUME SystemInv, SystemNext
    PROVE  Next
<1>1. CASE RouterStep
  BY <1>1 DEF RouterStep, Next
<1>2. ASSUME NEW c \in Conns, Create(c) PROVE Next
  BY <1>2 DEF Create, Next, Client
<1>3. ASSUME NEW c \in Conns, NEW b \in SystemMessages, Write(c, b) PROVE Next
  <2>1. b \in Messages
    BY TopicsDiffer
  <2> QED BY <1>3, <2>1 DEF Write, Next, Client
<1>4. ASSUME NEW c \in Conns, AddInbox(c) \/ AddListener(c) PROVE Next
  <2>1. /\ AddInbox(c) => Subscription(Inbox[c], Len(listeners[c]) + 1) \in SystemMessages
        /\ AddListener(c) => Subscription(Service, Len(listeners[c]) + 1) \in SystemMessages
    <3>1. Len(<<>>) + 1 = 1 /\ Len(<<Inbox[c]>>) + 1 = 2
      OBVIOUS
    <3>2. AddInbox(c) => listeners[c] = <<>>
      BY DEF AddInbox, SystemInv, ProgramsInv, PlaceInv
    <3>3. AddListener(c) => listeners[c] = <<Inbox[c]>>
      BY DEF AddListener, SystemInv, ProgramsInv, PlaceInv
    <3> QED BY <3>1, <3>2, <3>3, BodiesAreMessages
  <2> QED BY <1>3, <1>4, <2>1 DEF AddInbox, AddListener, Listen
<1>5. ASSUME NEW c \in Conns, SendRequest(c) PROVE Next
  <2>1. requests[c] + 1 \in 1 .. MaxRequests /\ c \in Requesters
    BY <1>5, ProgramsAssumption
       DEF SendRequest, SystemInv, ProgramsInv, ProgramTypes, PlaceInv, Numbers
  <2> QED BY <1>3, <1>5, <2>1, BodiesAreMessages DEF SendRequest
<1>6. ASSUME NEW c \in Conns, SendResponse(c) PROVE Next
  BY <1>3, <1>6, ResponsesAreMessages DEF SendResponse
<1>7. ASSUME NEW c \in Conns, DispatchRequest(c) \/ DispatchResponse(c) PROVE Next
  BY <1>7 DEF DispatchRequest, DispatchResponse, Next, Client
<1> QED BY <1>1, <1>2, <1>4, <1>5, <1>6, <1>7 DEF SystemNext, Program

LEMMA ReadEffect ==
    ASSUME SystemInv, ReadMessage
    PROVE  \E c \in Conns :
             /\ c = clients[i] /\ Len(inq[c]) \in Nat \ {0} /\ Len(inq'[c]) = Len(inq[c]) - 1
             /\ \A k \in 1 .. Len(inq[c]) - 1 : inq'[c][k] = inq[c][k + 1]
             /\ \A d \in Conns : d # c => inq'[d] = inq[d]
             /\ msg' = inq[c][1] /\ inq[c][1].src = c
             /\ pc = "clients" /\ pc' = "dispatch" /\ j' = 1 /\ nr' = Len(routes)
             /\ UNCHANGED <<routes, out, taken, subs>>
<1>1. IInv
  BY DEF SystemInv
<1>2. pc = "clients" /\ i <= n
  BY DEF ReadMessage, AtReadyClient
<1>3. PICK c \in Conns : c = clients[i]
  BY <1>1, <1>2 DEF IInv, LoopsStayInside, DispatchInv, TypeOK, LoopTypeOK
<1>4. inq \in [Conns -> Seq(SentMessages)]
  BY <1>1 DEF IInv, TypeOK, NetworkTypeOK
<1>5. inq[c] # <<>> /\ inq[c] \in Seq(SentMessages)
  BY <1>3, <1>4 DEF ReadMessage
<1>6. /\ msg' = Head(inq[c]) /\ inq' = [inq EXCEPT ![c] = Tail(@)]
      /\ pc' = "dispatch" /\ j' = 1 /\ nr' = Len(routes)
      /\ UNCHANGED <<routes, out, taken, subs>>
  BY <1>3 DEF ReadMessage
<1>7. /\ Len(inq[c]) \in Nat \ {0} /\ Len(Tail(inq[c])) = Len(inq[c]) - 1
      /\ \A k \in 1 .. Len(inq[c]) - 1 : Tail(inq[c])[k] = inq[c][k + 1]
      /\ Head(inq[c]) = inq[c][1]
  BY <1>5
<1>8. inq[c][1].src = c
  BY <1>1, <1>7 DEF IInv, DispatchInv
<1> QED BY <1>2, <1>3, <1>4, <1>6, <1>7, <1>8

LEMMA RouteFields ==
    ASSUME NEW exp, NEW handler, NEW client, NEW id
    PROVE  LET route == Route(exp, handler, client, id) IN
           /\ route.exp = exp /\ route.handler = handler
           /\ route.client = client /\ route.id = id
BY DEF Route

(* What the router takes in is the listener of the message's number.       *)
LEMMA OnMessageEffect ==
    ASSUME SystemInv, OnMessage
    PROVE  /\ pc = "dispatch" /\ j = 1 /\ j' = 2 /\ nr' = nr /\ nr <= Len(routes)
           /\ msg.src \in Conns
           /\ UNCHANGED <<pc, msg, inq, out, taken>>
           /\ \/ routes' = routes /\ subs' = subs
              \/ \E r : /\ r.handler = "Forward" /\ r.client = msg.src /\ r.id = msg.seq
                        /\ IsListener(r) /\ r \in Routes
                        /\ routes' = Append(routes, r) /\ subs' = subs \cup {r}
<1>1. IInv /\ ProgramTypes /\ WrittenInv /\ CarriedInv /\ TableInv
  BY DEF SystemInv, ProgramsInv
<1>2. /\ pc = "dispatch" /\ j <= nr /\ routes[j].handler = "OnMessage"
      /\ j' = j + 1 /\ routes' = routes \o AskedFor(msg)
      /\ subs' = subs \cup Range(AskedFor(msg))
      /\ UNCHANGED <<pc, msg, inq, out, taken, nr>>
  BY DEF OnMessage, AtMatch, AtEntry, NextEntry, CallbackResult, network
<1>3. /\ msg \in SentMessages /\ msg.src \in Conns /\ msg.m \in Messages
      /\ j \in 1 .. Len(routes) /\ nr <= Len(routes)
  BY <1>1, <1>2 DEF IInv, DispatchInv, LoopsStayInside, TypeOK, LoopTypeOK, TableTypeOK, SentMessages
<1>4. j = 1
  BY <1>1, <1>2, <1>3, SMTT(40) DEF TableInv, InternalInv
<1> DEFINE c == msg.src  k == msg.seq
<1>5. k \in 1 .. Len(written[c]) /\ msg.m = written[c][k]
  BY <1>1, <1>2 DEF CarriedInv
<1>6. routes \in Seq(Routes)
  BY <1>1 DEF IInv, TypeOK, TableTypeOK
<1>7. CASE k <= Len(listeners[c])
  <2>1. msg.m = Subscription(listeners[c][k], k)
    BY <1>1, <1>3, <1>5, <1>7, SMTT(40) DEF WrittenInv
  <2> DEFINE r == Route(msg.m.exp, "Forward", msg.src, msg.m.id)
  <2>2. AskedFor(msg) = <<r>> /\ msg.m.exp = listeners[c][k] /\ msg.m.id = k
    BY <2>1, Bodies DEF AskedFor
  <2>3. Range(<<r>>) = {r}
    BY DEF Range
  <2>4. r \in Routes
    BY <1>3, SMTT(30) DEF Route, Routes, Exps, Ids
  <2>5. /\ r.handler = "Forward" /\ r.client = c /\ r.id = k /\ r.exp = listeners[c][k]
    BY <2>2, RouteFields, SMTT(40)
  <2> HIDE DEF r
  <2>6. IsListener(r)
    <3>1. PICK client, id, exp : client = r.client /\ id = r.id /\ exp = r.exp
      OBVIOUS
    <3>2. client \in Conns /\ id \in 1 .. Len(listeners[client]) /\ exp = listeners[client][id]
      BY <1>3, <1>5, <1>7, <2>5, <3>1
    <3> QED BY <3>1, <3>2, Zenon DEF IsListener
  <2>7. routes \o <<r>> = Append(routes, r)
    BY <1>6, <2>4
  <2> QED BY <1>2, <1>3, <1>4, <2>2, <2>3, <2>4, <2>5, <2>6, <2>7
<1>8. CASE ~(k <= Len(listeners[c]))
  <2>1. Later(c, msg.m)
    BY <1>1, <1>3, <1>5, <1>8 DEF WrittenInv
  <2>2. msg.m.topic = Service \/ \E d \in Conns : msg.m.topic = Inbox[d]
    <3>1. CASE \E m \in 1 .. MaxRequests : msg.m = Request(c, m)
      BY <3>1, Bodies
    <3>2. CASE \E d \in Requesters, m \in 1 .. MaxRequests :
                 msg.m = Response([from |-> d, number |-> m])
      BY <3>2, Bodies, ProgramsDiffer
    <3> QED BY <2>1, <3>1, <3>2 DEF Later
  <2>3. AskedFor(msg) = <<>>
    BY <2>2, TopicsDiffer DEF AskedFor
  <2>4. routes \o <<>> = routes /\ Range(<<>>) = {}
    BY <1>6 DEF Range
  <2> QED BY <1>2, <1>3, <1>4, <2>3, <2>4
<1> QED BY <1>7, <1>8

LEMMA StepOverEntry ==
    ASSUME SystemInv, SkipEntry \/ PrintMessage \/ ForwardMessage
    PROVE  /\ pc = "dispatch" /\ j \in 1 .. nr /\ j' = j + 1 /\ nr' = nr /\ nr <= Len(routes)
           /\ nr \in Nat /\ msg.src \in Conns /\ msg.seq \in Nat
           /\ UNCHANGED <<pc, msg, routes, inq, taken, subs>>
           /\ ~ForwardMessage => out' = out
<1>1. IInv
  BY DEF SystemInv
<1>2. CASE SkipEntry \/ PrintMessage
  BY <1>1, <1>2 DEF SkipEntry, PrintMessage, AtMatch, AtEntry, NextEntry, CallbackResult, network,
     IInv, DispatchInv, LoopsStayInside, TypeOK, LoopTypeOK, SentMessages
<1>3. CASE ForwardMessage
  <2>1. routes' = routes
    BY <1>1, <1>3, ForwardingKeepsRoutes
  <2> QED
    BY <1>1, <1>3, <2>1 DEF ForwardMessage, AtMatch, AtEntry, NextEntry, CallbackResult, network,
     IInv, DispatchInv, LoopsStayInside, TypeOK, LoopTypeOK, SentMessages
<1> QED BY <1>2, <1>3

-----------------------------------------------------------------------------
(***************************************************************************)
(* The steps of the router.                                                *)
(***************************************************************************)
LEMMA QueueTypes ==
    ASSUME SystemInv
    PROVE  /\ \A c \in Conns : Len(inq[c]) \in Nat /\ Len(out[c]) \in Nat /\ taken[c] \in Nat
           /\ \A c \in Conns : \A k \in 1 .. Len(inq[c]) :
                inq[c][k] \in SentMessages /\ inq[c][k].src = c /\ inq[c][k].seq \in Nat
           /\ \A c \in Conns : \A k \in 1 .. Len(out[c]) :
                out[c][k] \in OutMessages /\ out[c][k].src \in Conns /\ out[c][k].seq \in Nat
           /\ \A c \in Conns : Len(written[c]) \in Nat /\ Len(listeners[c]) \in Nat
           /\ routes \in Seq(Routes) /\ Len(routes) \in Nat
           /\ \A k \in 1 .. Len(routes) : routes[k] \in Routes
<1>1. /\ inq \in [Conns -> Seq(SentMessages)] /\ out \in [Conns -> Seq(OutMessages)]
      /\ taken \in [Conns -> Nat] /\ routes \in Seq(Routes)
      /\ \A c \in Conns : \A k \in 1 .. Len(inq[c]) : inq[c][k].src = c
      /\ written \in [Conns -> Seq(SystemMessages)] /\ listeners \in [Conns -> Seq(Offered)]
  BY DEF SystemInv, IInv, TypeOK, TableTypeOK, NetworkTypeOK, DispatchInv, ProgramsInv, ProgramTypes
<1>2. \A c \in Conns : Len(inq[c]) \in Nat /\ Len(out[c]) \in Nat /\ taken[c] \in Nat
  BY <1>1
<1>3. \A c \in Conns : \A k \in 1 .. Len(inq[c]) : inq[c][k] \in SentMessages
  BY <1>1
<1>4. \A c \in Conns : \A k \in 1 .. Len(out[c]) : out[c][k] \in OutMessages
  BY <1>1
<1>5. /\ \A x \in SentMessages : x.seq \in Nat
      /\ \A x \in OutMessages : x.seq \in Nat /\ x.src \in Conns
  BY DEF SentMessages, OutMessages
<1>6. \A c \in Conns : Len(written[c]) \in Nat /\ Len(listeners[c]) \in Nat
  BY <1>1
<1>7. Len(routes) \in Nat /\ \A k \in 1 .. Len(routes) : routes[k] \in Routes
  BY <1>1
<1> QED BY <1>1, <1>2, <1>3, <1>4, <1>5, <1>6, <1>7

(* What is not touched by the router keeps its part of the invariant.      *)
LEMMA ProgramsUntouched ==
    ASSUME SystemInv, UNCHANGED programs, peer' = peer, sent' = sent
    PROVE  ProgramTypes' /\ PlaceInv' /\ WrittenInv'
<1>1. /\ ProgramTypes /\ PlaceInv /\ WrittenInv
      /\ UNCHANGED <<at, listeners, requests, request, written, answers>>
  BY DEF SystemInv, ProgramsInv, programs
<1>2. ProgramTypes'
  BY <1>1 DEF ProgramTypes
<1>3. PlaceInv'
  BY <1>1 DEF PlaceInv
<1>4. WrittenInv'
  BY <1>1 DEF WrittenInv
<1> QED BY <1>2, <1>3, <1>4

LEMMA TableUntouched ==
    ASSUME TableInv, UNCHANGED <<listeners, routes, subs, inq>>,
           pc' = "dispatch" => pc = "dispatch" /\ msg' = msg /\ (j' = 1 => j = 1)
    PROVE  TableInv'
<1>1. SubsInv' /\ InternalInv' /\ OnceInv'
  BY DEF TableInv, SubsInv, InternalInv, OnceInv, IsListener
<1>2. BehindInv'
  <2>1. CASE pc' = "dispatch"
    BY <2>1, ZenonT(40) DEF TableInv, BehindInv, IsListener
  <2>2. CASE pc' # "dispatch"
    BY <2>2, ZenonT(40) DEF TableInv, BehindInv, IsListener
  <2> QED BY <2>1, <2>2
<1> QED BY <1>1, <1>2 DEF TableInv

LEMMA ReadKeepsCarried ==
    ASSUME SystemInv, UNCHANGED programs, ReadMessage
    PROVE  CarriedInv' /\ TableInv'
<1>1. PICK c \in Conns :
         /\ Len(inq[c]) \in Nat \ {0} /\ Len(inq'[c]) = Len(inq[c]) - 1
         /\ \A k \in 1 .. Len(inq[c]) - 1 : inq'[c][k] = inq[c][k + 1]
         /\ \A d \in Conns : d # c => inq'[d] = inq[d]
         /\ msg' = inq[c][1] /\ inq[c][1].src = c
         /\ pc' = "dispatch" /\ j' = 1 /\ nr' = Len(routes)
         /\ UNCHANGED <<routes, out, taken, subs>>
  BY ReadEffect
<1>2. CarriedInv /\ TableInv
  BY DEF SystemInv, ProgramsInv
<1>3. UNCHANGED <<written, listeners>>
  BY DEF programs
<1>4. ASSUME NEW d \in Conns, NEW k \in 1 .. Len(inq'[d])
      PROVE  \E l \in 1 .. Len(inq[d]) : inq'[d][k] = inq[d][l]
  <2>1. CASE d = c
    <3>1. k + 1 \in 1 .. Len(inq[c]) /\ k \in 1 .. Len(inq[c]) - 1
      BY <1>1, <1>4, <2>1
    <3> QED BY <1>1, <2>1, <3>1
  <2>2. CASE d # c
    BY <1>1, <1>4, <2>2
  <2> QED BY <2>1, <2>2
<1>5. 1 \in 1 .. Len(inq[c])
  BY <1>1, SMTT(40)
<1>6. CarriedInv'
  <2>1. ASSUME NEW d \in Conns, NEW k \in 1 .. Len(inq'[d])
        PROVE  /\ inq'[d][k].seq \in 1 .. Len(written[d])
               /\ inq'[d][k].m = written[d][inq'[d][k].seq]
    <3>1. PICK l \in 1 .. Len(inq[d]) : inq'[d][k] = inq[d][l]
      BY <1>4
    <3>2. inq[d][l].seq \in 1 .. Len(written[d]) /\ inq[d][l].m = written[d][inq[d][l].seq]
      BY <1>2 DEF CarriedInv
    <3> QED BY <3>1, <3>2
  <2>2. msg'.seq \in 1 .. Len(written[msg'.src]) /\ msg'.m = written[msg'.src][msg'.seq]
    BY <1>1, <1>2, <1>5 DEF CarriedInv
  <2> QED BY <1>1, <1>2, <1>3, <2>1, <2>2, ZenonT(40) DEF CarriedInv
<1>7. ASSUME NEW k \in 1 .. Len(routes), routes[k].handler = "Forward"
      PROVE  /\ IsListener(routes[k])
             /\ \A l \in 1 .. Len(inq'[routes[k].client]) :
                  routes[k].id < inq'[routes[k].client][l].seq
             /\ msg'.src = routes[k].client => routes[k].id < msg'.seq /\ routes[k].id <= msg'.seq
  <2>1. /\ IsListener(routes[k]) /\ routes[k].client \in Conns
        /\ \A l \in 1 .. Len(inq[routes[k].client]) :
             routes[k].id < inq[routes[k].client][l].seq
    BY <1>2, <1>7 DEF TableInv, BehindInv, IsListener
  <2>2. \A l \in 1 .. Len(inq'[routes[k].client]) :
            routes[k].id < inq'[routes[k].client][l].seq
    BY <1>4, <2>1
  <2>3. ASSUME msg'.src = routes[k].client
        PROVE  routes[k].id < msg'.seq /\ routes[k].id <= msg'.seq
    <3>1. routes[k].id < msg'.seq
      BY <1>1, <1>5, <2>1, <2>3
    <3>2. routes[k].id \in Nat /\ msg'.seq \in Nat
      <4>1. msg'.seq \in Nat /\ Len(listeners[routes[k].client]) \in Nat
        BY <1>1, <1>5, <2>1, QueueTypes
      <4> QED BY <2>1, <4>1 DEF IsListener
    <3> QED BY <3>1, <3>2
  <2> QED BY <2>1, <2>2, <2>3
<1>8. BehindInv'
  BY <1>1, <1>3, <1>7, SMTT(40) DEF BehindInv, IsListener
<1>9. SubsInv' /\ InternalInv' /\ OnceInv'
  BY <1>1, <1>2, <1>3 DEF TableInv, SubsInv, InternalInv, OnceInv, IsListener
<1> QED BY <1>6, <1>8, <1>9 DEF TableInv

LEMMA EntryKeepsCarried ==
    ASSUME SystemInv, UNCHANGED programs, SkipEntry \/ PrintMessage \/ ForwardMessage
    PROVE  CarriedInv' /\ TableInv'
<1>1. /\ pc = "dispatch" /\ j \in 1 .. nr /\ j' = j + 1 /\ nr \in Nat
      /\ UNCHANGED <<pc, msg, routes, inq, taken, subs>>
  BY StepOverEntry
<1>2. CarriedInv /\ TableInv
  BY DEF SystemInv, ProgramsInv
<1>3. UNCHANGED <<written, listeners>>
  BY DEF programs
<1>4. j' # 1
  BY <1>1
<1>5. TableInv'
  BY <1>1, <1>2, <1>3, <1>4, TableUntouched, SMTT(40)
<1>6. CASE SkipEntry \/ PrintMessage
  <2>1. ~ForwardMessage
    BY <1>6 DEF SkipEntry, PrintMessage, ForwardMessage, AtMatch
  <2>2. out' = out
    BY <2>1, StepOverEntry, SMTT(40)
  <2> QED BY <1>1, <1>2, <1>3, <1>5, <2>2 DEF CarriedInv
<1>7. CASE ForwardMessage
  <2>1. IInv /\ PlaceInv
    BY DEF SystemInv, ProgramsInv
  <2>2. PICK r \in Routes, x \in OutMessages :
             /\ r = routes[j] /\ r.client \in Conns
             /\ x = [src |-> msg.src, seq |-> msg.seq, topic |-> msg.m.topic, id |-> r.id]
             /\ x.src = msg.src /\ x.seq = msg.seq
             /\ \/ peer[r.client] = "hungup" /\ out' = out
                \/ /\ \A c \in Conns \ {r.client} : out'[c] = out[c]
                   /\ Len(out'[r.client]) = Len(out[r.client]) + 1
                   /\ \A k \in 1 .. Len(out[r.client]) : out'[r.client][k] = out[r.client][k]
                   /\ out'[r.client][Len(out[r.client]) + 1] = x
    BY <1>7, <2>1, ForwardEffect, SMTT(30)
  <2>3. /\ x.topic = msg.m.topic
        /\ msg.seq \in 1 .. Len(written[msg.src]) /\ msg.m = written[msg.src][msg.seq]
    BY <1>1, <1>2, <2>2, ZenonT(40) DEF CarriedInv
  <2>4. ASSUME NEW c \in Conns, NEW k \in 1 .. Len(out'[c])
        PROVE  /\ out'[c][k].seq \in 1 .. Len(written[out'[c][k].src])
               /\ out'[c][k].topic = written[out'[c][k].src][out'[c][k].seq].topic
    <3>1. Len(out[c]) \in Nat
      BY QueueTypes
    <3>2. CASE k \in 1 .. Len(out[c])
      <4>1. out'[c][k] = out[c][k]
        BY <2>2, <2>4, <3>2, SMTT(40)
      <4> QED BY <1>2, <3>2, <4>1 DEF CarriedInv
    <3>3. CASE k \notin 1 .. Len(out[c])
      <4>1. c = r.client /\ k = Len(out[c]) + 1
        BY <2>2, <2>4, <3>1, <3>3, SMTT(40)
      <4>2. out'[c][k] = x
        BY <2>2, <2>4, <3>1, <3>3, <4>1
      <4> QED BY <2>2, <2>3, <4>2
    <3> QED BY <3>2, <3>3
  <2>5. ASSUME NEW c \in Conns PROVE taken[c] <= Len(out'[c])
    <3>1. taken[c] <= Len(out[c]) /\ Len(out[c]) \in Nat /\ taken[c] \in Nat
      BY <1>2, QueueTypes DEF CarriedInv
    <3>2. Len(out'[c]) \in {Len(out[c]), Len(out[c]) + 1}
      BY <2>2
    <3> QED BY <3>1, <3>2
  <2> QED BY <1>1, <1>2, <1>3, <1>5, <2>4, <2>5 DEF CarriedInv
<1> QED BY <1>5, <1>6, <1>7

(* A new route has a number lower than all that waits of its client, and   *)
(* higher than those of the routes its client has.                         *)
LEMMA OnMessageKeepsCarried ==
    ASSUME SystemInv, UNCHANGED programs, OnMessage
    PROVE  CarriedInv' /\ TableInv'
<1>1. /\ pc = "dispatch" /\ j = 1 /\ j' = 2 /\ msg.src \in Conns
      /\ UNCHANGED <<pc, msg, inq, out, taken>>
  BY OnMessageEffect
<1>2. CarriedInv /\ TableInv /\ OrderInv
  BY DEF SystemInv, ProgramsInv, TurnInv
<1>3. UNCHANGED <<written, listeners>>
  BY SMTT(40) DEF programs
<1>4. CarriedInv'
  BY <1>1, <1>2, <1>3 DEF CarriedInv
<1>5. CASE routes' = routes /\ subs' = subs
  <2>1. j' # 1
    BY <1>1
  <2> QED BY <1>1, <1>2, <1>3, <1>4, <1>5, <2>1, TableUntouched
<1>6. CASE \E r : /\ r.handler = "Forward" /\ r.client = msg.src /\ r.id = msg.seq
                  /\ IsListener(r) /\ r \in Routes
                  /\ routes' = Append(routes, r) /\ subs' = subs \cup {r}
  <2>1. PICK r \in Routes :
             /\ r.handler = "Forward" /\ r.client = msg.src /\ r.id = msg.seq
             /\ IsListener(r)
             /\ routes' = Append(routes, r) /\ subs' = subs \cup {r}
    BY <1>6
  <2>2. routes \in Seq(Routes) /\ Len(routes) \in Nat
    BY QueueTypes
  <2> DEFINE new == Len(routes) + 1
  <2>3. /\ Len(routes') = new /\ routes'[new] = r
        /\ \A k \in 1 .. Len(routes) : routes'[k] = routes[k]
    BY <2>1, <2>2
  <2>4. \A k \in 1 .. new : k \in 1 .. Len(routes) \/ k = new
    BY <2>2
  <2>0. Len(routes') = new
    BY <2>3
  <2>5. msg.seq \in Nat
    BY <1>1, <1>2, QueueTypes DEF CarriedInv
  <2> HIDE DEF new
  <2>6. ASSUME NEW k \in 1 .. Len(routes')
        PROVE  \/ k \in 1 .. Len(routes) /\ routes'[k] = routes[k]
               \/ k = new /\ routes'[k] = r
    BY <2>0, <2>3, <2>4, <2>6
  <2>7. SubsInv'
    BY <1>2, <1>3, <2>1 DEF TableInv, SubsInv, IsListener
  <2>8. ASSUME NEW k \in 1 .. Len(routes'), routes'[k].handler = "OnMessage" PROVE k = 1
    BY <1>2, <2>1, <2>6, <2>8 DEF TableInv, InternalInv
  <2>9. ASSUME NEW k \in 1 .. Len(routes'), routes'[k].handler = "Forward"
        PROVE  /\ IsListener(routes'[k])
               /\ \A l \in 1 .. Len(inq[routes'[k].client]) :
                    routes'[k].id < inq[routes'[k].client][l].seq
               /\ msg.src = routes'[k].client => routes'[k].id <= msg.seq
    <3>1. CASE k \in 1 .. Len(routes) /\ routes'[k] = routes[k]
      BY <1>1, <1>2, <2>9, <3>1 DEF TableInv, BehindInv
    <3>2. CASE routes'[k] = r
      <4>1. \A l \in 1 .. Len(inq[msg.src]) : msg.seq < inq[msg.src][l].seq
        BY <1>1, <1>2 DEF OrderInv
      <4> QED BY <2>1, <2>5, <3>2, <4>1
    <3> QED BY <2>6, <3>1, <3>2
  <2>10. ASSUME NEW k \in 1 .. Len(routes), routes[k].handler = "Forward",
                routes[k].client = r.client, routes[k].id = r.id
         PROVE  FALSE
    <3>1. routes[k].id < msg.seq
      BY <1>1, <1>2, <2>1, <2>10 DEF TableInv, BehindInv
    <3> QED BY <2>1, <2>5, <2>10, <3>1
  <2>11. ASSUME NEW k \in 1 .. Len(routes'), NEW l \in 1 .. Len(routes'),
                routes'[k].handler = "Forward", routes'[l].handler = "Forward",
                routes'[k].client = routes'[l].client, routes'[k].id = routes'[l].id
         PROVE  k = l
    <3>1. CASE k = new /\ l # new
      <4>1. routes'[k] = r /\ l \in 1 .. Len(routes) /\ routes'[l] = routes[l]
        BY <2>0, <2>3, <2>4, <2>11, <3>1
      <4> QED BY <2>10, <2>11, <4>1
    <3>2. CASE l = new /\ k # new
      <4>1. routes'[l] = r /\ k \in 1 .. Len(routes) /\ routes'[k] = routes[k]
        BY <2>0, <2>3, <2>4, <2>11, <3>2
      <4> QED BY <2>10, <2>11, <4>1
    <3>3. CASE k # new /\ l # new
      <4>1. /\ l \in 1 .. Len(routes) /\ routes'[l] = routes[l]
            /\ k \in 1 .. Len(routes) /\ routes'[k] = routes[k]
        BY <2>0, <2>3, <2>4, <2>11, <3>3
      <4> QED BY <1>2, <2>11, <4>1 DEF TableInv, OnceInv
    <3> QED BY <3>1, <3>2, <3>3
  <2>12. pc' = pc /\ msg' = msg /\ inq' = inq /\ j' # 1
    BY <1>1
  <2>13. BehindInv'
    BY <1>3, <2>9, <2>12 DEF BehindInv, IsListener
  <2> QED BY <1>4, <2>7, <2>8, <2>11, <2>13 DEF TableInv, InternalInv, OnceInv
<1> QED BY <1>5, <1>6, OnMessageEffect

LEMMA RouterKeepsPrograms ==
    ASSUME SystemInv, RouterStep
    PROVE  ProgramsInv'
<1>1. UNCHANGED programs /\ peer' = peer /\ sent' = sent /\ taken' = taken
  BY RouterEffect
<1>2. CarriedInv /\ TableInv /\ UNCHANGED <<written, listeners>>
  BY <1>1 DEF SystemInv, ProgramsInv, programs
<1>7. CarriedInv' /\ TableInv' => ProgramsInv'
  BY <1>1, ProgramsUntouched DEF ProgramsInv
<1>3. CASE /\ pc' # "dispatch"
           /\ inq' = inq /\ out' = out /\ subs' = subs
           /\ routes' \in {routes, <<InternalRoute>>, <<InternalRoute, DebugRoute>>}
  <2>1. CarriedInv'
    BY <1>1, <1>2, <1>3 DEF CarriedInv
  <2>2. CASE routes' = routes
    BY <1>1, <1>2, <1>3, <2>1, <2>2, <1>7, TableUntouched
  <2>3. CASE routes' \in {<<InternalRoute>>, <<InternalRoute, DebugRoute>>}
    <3>1. /\ Len(<<InternalRoute>>) = 1 /\ <<InternalRoute>>[1] = InternalRoute
          /\ Len(<<InternalRoute, DebugRoute>>) = 2
          /\ <<InternalRoute, DebugRoute>>[1] = InternalRoute
          /\ <<InternalRoute, DebugRoute>>[2] = DebugRoute
      OBVIOUS
    <3>2. InternalRoute.handler = "OnMessage" /\ DebugRoute.handler = "Print"
      BY DEF InternalRoute, DebugRoute, Route
    <3>3. ASSUME NEW k \in 1 .. Len(routes')
          PROVE  routes'[k].handler # "Forward" /\ (routes'[k].handler = "OnMessage" => k = 1)
      <4>1. CASE routes' = <<InternalRoute>>
        BY <3>1, <3>2, <3>3, <4>1
      <4>2. CASE routes' = <<InternalRoute, DebugRoute>>
        <5>1. k = 1 \/ k = 2
          BY <3>1, <3>3, <4>2
        <5> QED BY <3>1, <3>2, <4>2, <5>1
      <4> QED BY <2>3, <4>1, <4>2
    <3>4. SubsInv'
      BY <1>2, <1>3 DEF TableInv, SubsInv, IsListener
    <3>5. InternalInv' /\ BehindInv' /\ OnceInv'
      BY <3>3 DEF InternalInv, BehindInv, OnceInv
    <3> QED BY <1>7, <2>1, <3>4, <3>5 DEF TableInv
  <2> QED BY <1>3, <2>2, <2>3, SMTT(40)
<1>4. CASE ReadMessage
  BY <1>1, <1>4, ReadKeepsCarried, ProgramsUntouched DEF ProgramsInv
<1>5. CASE SkipEntry \/ PrintMessage \/ ForwardMessage
  BY <1>1, <1>5, EntryKeepsCarried, ProgramsUntouched DEF ProgramsInv
<1>6. CASE OnMessage
  BY <1>1, <1>6, OnMessageKeepsCarried, ProgramsUntouched DEF ProgramsInv
<1> QED BY <1>3, <1>4, <1>5, <1>6, <1>7, RouterEffect

-----------------------------------------------------------------------------
(***************************************************************************)
(* The steps of the programs.                                              *)
(***************************************************************************)

(* What a program has written is a subscription, a request or a response.  *)
LEMMA WhatIsWritten ==
    ASSUME ProgramsInv, NEW c \in Conns, NEW k \in 1 .. Len(written[c])
    PROVE  \/ written[c][k].kind = "subscribe" /\ ~written[c][k].request
           \/ \E d \in Requesters, m \in 1 .. MaxRequests :
                /\ written[c][k].from = d /\ written[c][k].number = m
                /\ \/ /\ written[c][k] = Request(d, m) /\ c = d
                      /\ written[c][k].kind = "request" /\ written[c][k].topic = Service
                   \/ /\ written[c][k] = Response([from |-> d, number |-> m]) /\ c \in Servers
                      /\ written[c][k].kind = "response" /\ ~written[c][k].request
                      /\ written[c][k].topic = Inbox[d]
<1>1. CASE k <= Len(listeners[c])
  <2>1. written[c][k] = Subscription(listeners[c][k], k)
    BY <1>1 DEF ProgramsInv, WrittenInv
  <2> QED BY <2>1, Bodies
<1>2. CASE ~(k <= Len(listeners[c]))
  <2>1. Later(c, written[c][k])
    BY <1>2 DEF ProgramsInv, WrittenInv
  <2>2. CASE c \in Requesters /\ \E m \in 1 .. MaxRequests : written[c][k] = Request(c, m)
    BY <2>2, Bodies
  <2>3. CASE c \in Servers /\ \E d \in Requesters, m \in 1 .. MaxRequests :
               written[c][k] = Response([from |-> d, number |-> m])
    BY <2>3, Bodies, SMTT(40)
  <2> QED BY <2>1, <2>2, <2>3 DEF Later
<1> QED BY <1>1, <1>2

LEMMA WrittenRequests ==
    ASSUME ProgramsInv, NEW c \in Conns, NEW k \in 1 .. Len(written[c]),
           NEW b, b = written[c][k]
    PROVE  /\ b.request => \E d \in Requesters, m \in 1 .. MaxRequests :
                /\ b.from = d /\ b.number = m
                /\ b = Request(d, m) /\ b.kind = "request"
           /\ b.kind \in {"request", "response"} =>
                \E d \in Requesters, m \in 1 .. MaxRequests :
                  /\ b.from = d /\ b.number = m
                  /\ b.kind = "request" => b.topic = Service
                  /\ b.kind = "response" => b.topic = Inbox[d]
<1>1. CASE b.kind = "subscribe" /\ ~b.request
  BY <1>1
<1>2. ASSUME NEW d \in Requesters, NEW m \in 1 .. MaxRequests,
             b.from = d, b.number = m,
             b = Request(d, m), b.kind = "request", b.topic = Service
      PROVE  /\ \E f \in Requesters, l \in 1 .. MaxRequests :
                  /\ b.from = f /\ b.number = l
                  /\ b = Request(f, l) /\ b.kind = "request"
             /\ \E f \in Requesters, l \in 1 .. MaxRequests :
                  /\ b.from = f /\ b.number = l
                  /\ b.kind = "request" => b.topic = Service
                  /\ b.kind = "response" => b.topic = Inbox[f]
  BY <1>2
<1>3. ASSUME NEW d \in Requesters, NEW m \in 1 .. MaxRequests,
             b.from = d, b.number = m,
             b.kind = "response", ~b.request, b.topic = Inbox[d]
      PROVE  \E f \in Requesters, l \in 1 .. MaxRequests :
                  /\ b.from = f /\ b.number = l
                  /\ b.kind = "request" => b.topic = Service
                  /\ b.kind = "response" => b.topic = Inbox[f]
  BY <1>3
<1>4. \/ b.kind = "subscribe" /\ ~b.request
      \/ \E d \in Requesters, m \in 1 .. MaxRequests :
           /\ b.from = d /\ b.number = m
           /\ \/ /\ b = Request(d, m) /\ c = d
                 /\ b.kind = "request" /\ b.topic = Service
              \/ /\ b = Response([from |-> d, number |-> m]) /\ c \in Servers
                 /\ b.kind = "response" /\ ~b.request
                 /\ b.topic = Inbox[d]
  BY WhatIsWritten, ZenonT(40)
<1> QED BY <1>1, <1>2, <1>3, <1>4

LEMMA WriteKeepsCarried ==
    ASSUME SystemInv, NEW c \in Conns, NEW b \in SystemMessages, Write(c, b)
    PROVE  CarriedInv'
<1>1. /\ Len(inq'[c]) = Len(inq[c]) + 1 /\ Len(written'[c]) = Len(written[c]) + 1
      /\ Len(inq[c]) \in Nat /\ Len(written[c]) \in Nat
      /\ \A k \in 1 .. Len(inq[c]) : inq'[c][k] = inq[c][k]
      /\ inq'[c][Len(inq[c]) + 1] = [m |-> b, src |-> c, seq |-> Len(written[c]) + 1]
      /\ \A k \in 1 .. Len(written[c]) : written'[c][k] = written[c][k]
      /\ written'[c][Len(written[c]) + 1] = b
      /\ \A d \in Conns : d # c => inq'[d] = inq[d] /\ written'[d] = written[d]
      /\ UNCHANGED <<pc, loop, taken, out>>
  BY WriteEffect
<1>2. CarriedInv /\ IInv
  BY DEF SystemInv, ProgramsInv
<1>3. ASSUME NEW d \in Conns, NEW k \in 1 .. Len(written[d])
      PROVE  k \in 1 .. Len(written'[d]) /\ written'[d][k] = written[d][k]
  <2>1. CASE d = c
    BY <1>1, <1>3, <2>1
  <2>2. CASE d # c
    BY <1>1, <1>3, <2>2
  <2> QED BY <2>1, <2>2
<1>4. ASSUME NEW d \in Conns, NEW k \in 1 .. Len(inq'[d])
      PROVE  /\ inq'[d][k].seq \in 1 .. Len(written'[d])
             /\ inq'[d][k].m = written'[d][inq'[d][k].seq]
  <2>1. CASE d = c /\ k = Len(inq[c]) + 1
    <3>1. inq'[d][k].seq = Len(written[c]) + 1 /\ inq'[d][k].m = b
      BY <1>1, <2>1
    <3> QED BY <1>1, <2>1, <3>1, SMTT(30)
  <2>2. CASE ~(d = c /\ k = Len(inq[c]) + 1)
    <3>1. k \in 1 .. Len(inq[d]) /\ inq'[d][k] = inq[d][k]
      BY <1>1, <1>4, <2>2
    <3> QED BY <1>2, <1>3, <3>1, SMTT(30) DEF CarriedInv
  <2> QED BY <2>1, <2>2
<1>5. ASSUME pc' = "dispatch"
      PROVE  /\ msg'.seq \in 1 .. Len(written'[msg'.src])
             /\ msg'.m = written'[msg'.src][msg'.seq]
  <2>1. pc = "dispatch" /\ msg' = msg
    BY <1>1, <1>5 DEF loop
  <2>2. msg.src \in Conns
    BY <1>2, <2>1 DEF IInv, DispatchInv, SentMessages
  <2> QED BY <1>2, <1>3, <2>1, <2>2 DEF CarriedInv
<1>6. ASSUME NEW d \in Conns, NEW k \in 1 .. Len(out'[d])
      PROVE  /\ out'[d][k].seq \in 1 .. Len(written'[out'[d][k].src])
             /\ out'[d][k].topic = written'[out'[d][k].src][out'[d][k].seq].topic
  <2>1. PICK x : x = out[d][k]
    OBVIOUS
  <2>2. out' = out /\ x.src \in Conns /\ k \in 1 .. Len(out[d])
    BY <1>1, <1>6, <2>1, QueueTypes
  <2>3. x.seq \in 1 .. Len(written[x.src]) /\ x.topic = written[x.src][x.seq].topic
    BY <1>2, <2>1, <2>2 DEF CarriedInv
  <2>4. x.seq \in 1 .. Len(written'[x.src]) /\ x.topic = written'[x.src][x.seq].topic
    BY <1>3, <2>2, <2>3
  <2> QED BY <2>1, <2>2, <2>4
<1>7. \A d \in Conns : taken'[d] <= Len(out'[d])
  BY <1>1, <1>2 DEF CarriedInv
<1> QED BY <1>4, <1>5, <1>6, <1>7 DEF CarriedInv

(* What a program listens to it goes on listening to.                      *)
ListenersPersist ==
    \A d \in Conns :
        /\ Len(listeners[d]) <= Len(listeners'[d])
        /\ \A k \in 1 .. Len(listeners[d]) : listeners'[d][k] = listeners[d][k]
        /\ Len(listeners'[d]) \in Nat

LEMMA WriteKeepsTable ==
    ASSUME SystemInv, NEW c \in Conns, NEW b \in SystemMessages, Write(c, b), ListenersPersist
    PROVE  TableInv'
<1>1. /\ Len(inq'[c]) = Len(inq[c]) + 1
      /\ Len(inq[c]) \in Nat /\ Len(written[c]) \in Nat
      /\ \A k \in 1 .. Len(inq[c]) : inq'[c][k] = inq[c][k]
      /\ inq'[c][Len(inq[c]) + 1] = [m |-> b, src |-> c, seq |-> Len(written[c]) + 1]
      /\ \A d \in Conns : d # c => inq'[d] = inq[d]
      /\ UNCHANGED <<pc, loop, routes, subs>>
  BY WriteEffect
<1>2. TableInv /\ WrittenInv
  BY DEF SystemInv, ProgramsInv
<1>3. ASSUME NEW r, IsListener(r)
      PROVE  /\ r.client \in Conns /\ r.id \in 1 .. Len(listeners'[r.client])
             /\ r.exp = listeners'[r.client][r.id]
             /\ r.id \in 1 .. Len(written[r.client])
  BY <1>2, <1>3, QueueTypes, SMTT(40) DEF IsListener, ListenersPersist, WrittenInv
<1>4. SubsInv'
  BY <1>1, <1>2, <1>3 DEF TableInv, SubsInv, IsListener
<1>5. ASSUME NEW k \in 1 .. Len(routes), routes[k].handler = "Forward",
             NEW l \in 1 .. Len(inq'[routes[k].client])
      PROVE  routes[k].id < inq'[routes[k].client][l].seq
  <2>1. /\ IsListener(routes[k])
        /\ \A p \in 1 .. Len(inq[routes[k].client]) :
             routes[k].id < inq[routes[k].client][p].seq
    BY <1>2, <1>5 DEF TableInv, BehindInv
  <2>2. routes[k].client \in Conns /\ routes[k].id \in 1 .. Len(written[routes[k].client])
    BY <1>3, <2>1
  <2>3. CASE routes[k].client = c /\ l = Len(inq[c]) + 1
    <3>1. inq'[c][l].seq = Len(written[c]) + 1
      BY <1>1, <2>3
    <3> QED BY <1>1, <2>2, <2>3, <3>1
  <2>4. CASE ~(routes[k].client = c /\ l = Len(inq[c]) + 1)
    <3> DEFINE d == routes[k].client
    <3>1. l \in 1 .. Len(inq[d]) /\ inq'[d][l] = inq[d][l]
      <4>1. CASE d = c
        BY <1>1, <1>5, <2>4, <4>1, SMTT(40)
      <4>2. CASE d # c
        BY <1>1, <1>5, <2>2, <4>2
      <4> QED BY <4>1, <4>2
    <3> QED BY <2>1, <3>1
  <2> QED BY <2>3, <2>4
<1>6. BehindInv'
  <2>1. pc' = pc /\ msg' = msg /\ j' = j /\ routes' = routes
    BY <1>1 DEF loop
  <2>2. ASSUME NEW k \in 1 .. Len(routes), routes[k].handler = "Forward"
        PROVE  /\ routes[k].client \in Conns
               /\ routes[k].id \in 1 .. Len(listeners'[routes[k].client])
               /\ routes[k].exp = listeners'[routes[k].client][routes[k].id]
               /\ pc = "dispatch" /\ msg.src = routes[k].client =>
                    /\ routes[k].id <= msg.seq
                    /\ j = 1 => routes[k].id < msg.seq
    BY <1>2, <1>3, <2>2 DEF TableInv, BehindInv
  <2> QED BY <1>5, <2>1, <2>2 DEF BehindInv, IsListener
<1>7. InternalInv' /\ OnceInv'
  BY <1>1, <1>2 DEF TableInv, InternalInv, OnceInv
<1> QED BY <1>4, <1>6, <1>7 DEF TableInv

LEMMA CreateKeepsPrograms ==
    ASSUME SystemInv, NEW c \in Conns, Create(c)
    PROVE  ProgramsInv'
<1>1. /\ at[c] = "off" /\ at' = [at EXCEPT ![c] = "create"] /\ peer' = [peer EXCEPT ![c] = "open"]
      /\ UNCHANGED <<listeners, requests, request, written, answers>>
      /\ UNCHANGED <<pc, loop, routes, inq, sent, taken, out, subs>>
  BY DEF Create, Connect, GoTo
<1>2. /\ ProgramTypes /\ PlaceInv /\ WrittenInv /\ CarriedInv /\ TableInv
      /\ peer \in [Conns -> {"idle", "open", "hungup", "gone"}]
  BY DEF SystemInv, ProgramsInv, IInv, TypeOK, NetworkTypeOK
<1>3. ProgramTypes'
  BY <1>1, <1>2 DEF ProgramTypes
<1>4. at'[c] = "create" /\ peer'[c] = "open" /\ \A d \in Conns : d # c => at'[d] = at[d] /\ peer'[d] = peer[d]
  BY <1>1, <1>2 DEF ProgramTypes
<1>5. PlaceInv'
  <2> SUFFICES ASSUME NEW d \in Conns
               PROVE  /\ peer'[d] = IF at'[d] = "off" THEN "idle" ELSE "open"
                      /\ at'[d] \in {"off", "create"} => listeners'[d] = <<>>
                      /\ at'[d] = "listen" => d \in Servers /\ listeners'[d] = <<Inbox[d]>>
                      /\ at'[d] \in {"ask", "wait"} => d \in Requesters /\ listeners'[d] = <<Inbox[d]>>
                      /\ at'[d] \in {"dispatch", "respond"} =>
                           d \in Servers /\ listeners'[d] = <<Inbox[d], Service>>
                      /\ at'[d] = "respond" => request'[d].from \in Requesters /\ request'[d].number >= 1
    BY DEF PlaceInv
  <2>1. CASE d = c
    BY <1>1, <1>2, <1>4, <2>1 DEF PlaceInv
  <2>2. CASE d # c
    BY <1>1, <1>2, <1>4, <2>2 DEF PlaceInv
  <2> QED BY <2>1, <2>2
<1>6. WrittenInv'
  <2>1. ASSUME NEW d \in Conns, at'[d] \in {"off", "create", "listen"}
        PROVE  Len(written[d]) = Len(listeners[d])
    BY <1>1, <1>2, <1>4, <2>1 DEF WrittenInv
  <2> QED BY <1>1, <1>2, <2>1 DEF WrittenInv
<1>7. CarriedInv' /\ TableInv'
  <2>1. pc' = pc /\ msg' = msg /\ j' = j
    BY <1>1 DEF loop
  <2> QED BY <1>1, <1>2, <2>1, TableUntouched DEF CarriedInv
<1> QED BY <1>3, <1>5, <1>6, <1>7 DEF ProgramsInv

(* A program that begins to listen.                                        *)
LEMMA ListenKeepsPrograms ==
    ASSUME SystemInv, NEW c \in Conns, at[c] \in {"create", "listen"},
           NEW q \in Nat, q = Len(listeners[c]),
           NEW exp \in Offered, NEW place,
           Subscription(exp, q + 1) \in SystemMessages, Write(c, Subscription(exp, q + 1)),
           listeners' = [listeners EXCEPT ![c] = Append(@, exp)],
           at' = [at EXCEPT ![c] = place],
           UNCHANGED <<requests, request, answers>>,
           \/ place = "listen" /\ c \in Servers /\ Append(listeners[c], exp) = <<Inbox[c]>>
           \/ place = "ask" /\ c \in Requesters /\ Append(listeners[c], exp) = <<Inbox[c]>>
           \/ /\ place = "dispatch" /\ c \in Servers
              /\ Append(listeners[c], exp) = <<Inbox[c], Service>>
    PROVE  ProgramsInv'
<1>1. /\ ProgramTypes /\ PlaceInv /\ WrittenInv
      /\ \A d \in Conns : Len(listeners[d]) \in Nat
  BY QueueTypes DEF SystemInv, ProgramsInv
<1> DEFINE b == Subscription(exp, q + 1)
<1>3. b \in SystemMessages /\ Write(c, b)
  OBVIOUS
<1> HIDE DEF b
<1>4. /\ written' \in [Conns -> Seq(SystemMessages)]
      /\ Len(written'[c]) = Len(written[c]) + 1 /\ Len(written[c]) \in Nat
      /\ \A k \in 1 .. Len(written[c]) : written'[c][k] = written[c][k]
      /\ written'[c][Len(written[c]) + 1] = b
      /\ \A d \in Conns : d # c => written'[d] = written[d] /\ sent'[d] = sent[d]
      /\ sent'[c] = Len(written[c]) + 1 /\ peer' = peer
  BY <1>3, WriteEffect, ZenonT(40)
<1>5. /\ listeners' \in [Conns -> Seq(Offered)]
      /\ \A d \in Conns : d # c => listeners'[d] = listeners[d]
      /\ listeners'[c] = Append(listeners[c], exp)
      /\ Len(listeners'[c]) = q + 1
      /\ \A k \in 1 .. q : listeners'[c][k] = listeners[c][k]
      /\ listeners'[c][q + 1] = exp
  <2>1. listeners \in [Conns -> Seq(Offered)]
    BY <1>1 DEF ProgramTypes
  <2> QED BY <2>1, AppendTo
<1>6. ListenersPersist
  <2>1. ASSUME NEW d \in Conns
        PROVE  /\ Len(listeners[d]) <= Len(listeners'[d])
               /\ \A k \in 1 .. Len(listeners[d]) : listeners'[d][k] = listeners[d][k]
               /\ Len(listeners'[d]) \in Nat
    <3>1. CASE d = c
      BY <1>5, <3>1
    <3>2. CASE d # c
      BY <1>1, <1>5, <3>2
    <3> QED BY <3>1, <3>2
  <2> QED BY <2>1 DEF ListenersPersist
<1>7. CarriedInv' /\ TableInv'
  BY <1>3, <1>6, WriteKeepsCarried, WriteKeepsTable
<1>8. /\ at'[c] = place /\ \A d \in Conns : d # c => at'[d] = at[d]
      /\ at' \in [Conns -> {"off", "create", "listen", "dispatch", "respond", "ask", "wait"}]
  BY <1>1 DEF ProgramTypes
<1>9. ProgramTypes'
  BY <1>1, <1>4, <1>5, <1>8 DEF ProgramTypes
<1>10. PlaceInv'
  <2> SUFFICES ASSUME NEW d \in Conns
               PROVE  /\ peer'[d] = IF at'[d] = "off" THEN "idle" ELSE "open"
                      /\ at'[d] \in {"off", "create"} => listeners'[d] = <<>>
                      /\ at'[d] = "listen" => d \in Servers /\ listeners'[d] = <<Inbox[d]>>
                      /\ at'[d] \in {"ask", "wait"} => d \in Requesters /\ listeners'[d] = <<Inbox[d]>>
                      /\ at'[d] \in {"dispatch", "respond"} =>
                           d \in Servers /\ listeners'[d] = <<Inbox[d], Service>>
                      /\ at'[d] = "respond" => request'[d].from \in Requesters /\ request'[d].number >= 1
    BY DEF PlaceInv
  <2>1. CASE d = c
    <3>1. peer[c] = "open"
      BY <1>1 DEF PlaceInv
    <3> QED BY <1>4, <1>5, <1>8, <2>1, <3>1
  <2>2. CASE d # c
    BY <1>1, <1>4, <1>5, <1>8, <2>2 DEF PlaceInv
  <2> QED BY <2>1, <2>2
<1>11. WrittenInv'
  <2> SUFFICES ASSUME NEW d \in Conns
               PROVE  /\ sent'[d] = Len(written'[d])
                      /\ at'[d] \in {"off", "create", "listen"} => Len(written'[d]) = Len(listeners'[d])
                      /\ Len(listeners'[d]) <= Len(written'[d])
                      /\ \A k \in 1 .. Len(written'[d]) :
                           IF k <= Len(listeners'[d])
                           THEN written'[d][k] = Subscription(listeners'[d][k], k)
                           ELSE Later(d, written'[d][k])
    BY DEF WrittenInv, Later
  <2>1. CASE d = c
    <3>1. Len(written[c]) = q
      BY <1>1 DEF WrittenInv
    <3>2. \A k \in 1 .. q : written[c][k] = Subscription(listeners[c][k], k)
      BY <1>1, <3>1 DEF WrittenInv
    <3>3. ASSUME NEW k \in 1 .. q + 1 PROVE written'[c][k] = Subscription(listeners'[c][k], k)
      <4>1. CASE k = q + 1
        BY <1>4, <1>5, <3>1, <4>1 DEF b
      <4>2. CASE k # q + 1
        <5>1. k \in 1 .. q
          BY <3>3, <4>2
        <5> QED BY <1>4, <1>5, <3>1, <3>2, <5>1
      <4> QED BY <4>1, <4>2
    <3>4. sent'[c] = q + 1 /\ Len(written'[c]) = q + 1 /\ Len(listeners'[c]) = q + 1
      BY <1>4, <1>5, <3>1
    <3>5. \A k \in 1 .. q + 1 : k <= q + 1
      OBVIOUS
    <3> QED BY <2>1, <3>3, <3>4, <3>5
  <2>2. CASE d # c
    <3>1. /\ sent'[d] = sent[d] /\ written'[d] = written[d] /\ at'[d] = at[d]
          /\ listeners'[d] = listeners[d]
      BY <1>4, <1>5, <1>8, <2>2
    <3> QED BY <1>1, <3>1 DEF WrittenInv
  <2> QED BY <2>1, <2>2
<1> QED BY <1>7, <1>9, <1>10, <1>11 DEF ProgramsInv

LEMMA AddInboxKeepsPrograms ==
    ASSUME SystemInv, NEW c \in Conns, AddInbox(c)
    PROVE  ProgramsInv'
<1>1. listeners[c] = <<>> /\ at[c] = "create"
  BY DEF AddInbox, SystemInv, ProgramsInv, PlaceInv
<1>2. Len(<<>>) = 0 /\ 0 + 1 = 1 /\ Append(<<>>, Inbox[c]) = <<Inbox[c]>>
  OBVIOUS
<1>3. Subscription(Inbox[c], 1) \in SystemMessages
  BY BodiesAreMessages
<1>4. Inbox[c] \in Offered /\ (c \notin Servers => c \in Requesters)
  BY TopicsDiffer, ProgramsDiffer
<1> DEFINE place == IF c \in Servers THEN "listen" ELSE "ask"
<1>5. /\ Write(c, Subscription(Inbox[c], 0 + 1))
      /\ listeners' = [listeners EXCEPT ![c] = Append(@, Inbox[c])]
      /\ at' = [at EXCEPT ![c] = place]
      /\ UNCHANGED <<requests, request, answers>>
  BY <1>1, <1>2 DEF AddInbox, Listen, GoTo
<1>6. Append(listeners[c], Inbox[c]) = <<Inbox[c]>> /\ 0 = Len(listeners[c])
  BY <1>1, <1>2
<1>7. (place = "listen" /\ c \in Servers) \/ (place = "ask" /\ c \in Requesters)
  BY <1>4
<1> HIDE DEF place
<1> QED BY <1>1, <1>2, <1>3, <1>4, <1>5, <1>6, <1>7, ListenKeepsPrograms

LEMMA AppendToOne ==
    ASSUME NEW x, NEW y
    PROVE  Append(<<x>>, y) = <<x, y>>
<1>1. <<x>> \in Seq({x, y}) /\ y \in {x, y} /\ Len(<<x>>) = 1
  OBVIOUS
<1>2. <<x, y>> \in Seq({x, y}) /\ Len(<<x, y>>) = 2
  OBVIOUS
<1>3. Append(<<x>>, y) \in Seq({x, y}) /\ Len(Append(<<x>>, y)) = 2
  BY <1>1
<1>4. \A k \in 1 .. 2 : Append(<<x>>, y)[k] = <<x, y>>[k]
  BY <1>1
<1>5. \A k \in 1 .. Len(Append(<<x>>, y)) : Append(<<x>>, y)[k] = <<x, y>>[k]
  BY <1>3, <1>4
<1> QED BY <1>2, <1>3, <1>5, SeqEqual

LEMMA AddListenerKeepsPrograms ==
    ASSUME SystemInv, NEW c \in Conns, AddListener(c)
    PROVE  ProgramsInv'
<1>1. listeners[c] = <<Inbox[c]>> /\ at[c] = "listen" /\ c \in Servers
  BY DEF AddListener, SystemInv, ProgramsInv, PlaceInv
<1>2. /\ Len(<<Inbox[c]>>) = 1 /\ 1 + 1 = 2
      /\ Append(<<Inbox[c]>>, Service) = <<Inbox[c], Service>>
  BY AppendToOne
<1>3. Subscription(Service, 2) \in SystemMessages
  BY BodiesAreMessages
<1>4. Service \in Offered
  BY TopicsDiffer
<1>5. /\ Write(c, Subscription(Service, 1 + 1))
      /\ listeners' = [listeners EXCEPT ![c] = Append(@, Service)]
      /\ at' = [at EXCEPT ![c] = "dispatch"]
      /\ UNCHANGED <<requests, request, answers>>
  BY <1>1, <1>2 DEF AddListener, Listen, GoTo
<1>6. Append(listeners[c], Service) = <<Inbox[c], Service>> /\ 1 = Len(listeners[c])
  BY <1>1, <1>2
<1> QED BY <1>1, <1>2, <1>3, <1>4, <1>5, <1>6, ListenKeepsPrograms

(* A program that sends a request or a response.                           *)
LEMMA SendKeepsWritten ==
    ASSUME SystemInv, NEW c \in Conns, NEW b \in SystemMessages, Write(c, b),
           listeners' = listeners, Later(c, b),
           at'[c] \notin {"off", "create", "listen"},
           at[c] \notin {"off", "create", "listen"},
           \A d \in Conns : d # c => at'[d] = at[d]
    PROVE  WrittenInv' /\ CarriedInv' /\ TableInv' /\ peer' = peer
<1>1. /\ written' \in [Conns -> Seq(SystemMessages)]
      /\ Len(written'[c]) = Len(written[c]) + 1 /\ Len(written[c]) \in Nat
      /\ \A k \in 1 .. Len(written[c]) : written'[c][k] = written[c][k]
      /\ written'[c][Len(written[c]) + 1] = b
      /\ \A d \in Conns : d # c => written'[d] = written[d] /\ sent'[d] = sent[d]
      /\ sent'[c] = Len(written[c]) + 1 /\ peer' = peer
  BY WriteEffect, ZenonT(40)
<1>2. WrittenInv
  BY DEF SystemInv, ProgramsInv
<1>3. WrittenInv'
  <2> SUFFICES ASSUME NEW d \in Conns
               PROVE  /\ sent'[d] = Len(written'[d])
                      /\ at'[d] \in {"off", "create", "listen"} => Len(written'[d]) = Len(listeners'[d])
                      /\ Len(listeners'[d]) <= Len(written'[d])
                      /\ \A k \in 1 .. Len(written'[d]) :
                           IF k <= Len(listeners'[d])
                           THEN written'[d][k] = Subscription(listeners'[d][k], k)
                           ELSE Later(d, written'[d][k])
    BY DEF WrittenInv, Later
  <2>1. CASE d = c
    <3>1. Len(listeners[c]) <= Len(written[c]) /\ Len(listeners[c]) \in Nat
      BY <1>2, QueueTypes DEF WrittenInv
    <3>2. ASSUME NEW k \in 1 .. Len(written'[c])
          PROVE  IF k <= Len(listeners[c])
                 THEN written'[c][k] = Subscription(listeners[c][k], k)
                 ELSE Later(c, written'[c][k])
      <4>1. CASE k = Len(written[c]) + 1
        <5>1. ~(k <= Len(listeners[c]))
          BY <1>1, <3>1, <4>1
        <5> QED BY <1>1, <4>1, <5>1
      <4>2. CASE k # Len(written[c]) + 1
        <5>1. k \in 1 .. Len(written[c])
          BY <1>1, <3>2, <4>2
        <5> QED BY <1>1, <1>2, <5>1 DEF WrittenInv
      <4> QED BY <4>1, <4>2
    <3>3. Len(listeners[c]) <= Len(written'[c])
      BY <1>1, <3>1
    <3> QED BY <1>1, <2>1, <3>2, <3>3
  <2>2. CASE d # c
    <3>1. sent'[d] = sent[d] /\ written'[d] = written[d] /\ at'[d] = at[d]
      BY <1>1, <2>2
    <3> QED BY <1>2, <3>1 DEF WrittenInv
  <2> QED BY <2>1, <2>2
<1>4. ListenersPersist
  BY QueueTypes DEF ListenersPersist
<1> QED BY <1>1, <1>3, <1>4, WriteKeepsCarried, WriteKeepsTable

LEMMA SendRequestKeepsPrograms ==
    ASSUME SystemInv, NEW c \in Conns, SendRequest(c)
    PROVE  ProgramsInv'
<1>1. /\ ProgramTypes /\ PlaceInv
      /\ at[c] = "ask" /\ requests[c] < MaxRequests /\ c \in Requesters
      /\ requests' = [requests EXCEPT ![c] = @ + 1] /\ at' = [at EXCEPT ![c] = "wait"]
      /\ UNCHANGED <<listeners, request, answers>>
  BY DEF SendRequest, GoTo, SystemInv, ProgramsInv, PlaceInv
<1>2. requests[c] + 1 \in 1 .. MaxRequests /\ requests[c] + 1 \in Numbers
  BY <1>1, ProgramsAssumption DEF ProgramTypes, Numbers
<1> DEFINE b == Request(c, requests[c] + 1)
<1>3. b \in SystemMessages /\ Later(c, b)
  BY <1>1, <1>2, BodiesAreMessages DEF Later
<1>4. Write(c, b)
  BY DEF SendRequest
<1> HIDE DEF b
<1>5. at'[c] = "wait" /\ \A d \in Conns : d # c => at'[d] = at[d]
  BY <1>1 DEF ProgramTypes
<1>6. WrittenInv' /\ CarriedInv' /\ TableInv' /\ peer' = peer
  BY <1>1, <1>3, <1>4, <1>5, SendKeepsWritten
<1>7. written' \in [Conns -> Seq(SystemMessages)]
  BY <1>3, <1>4, WriteEffect
<1>8. ProgramTypes'
  BY <1>1, <1>2, <1>7 DEF ProgramTypes
<1>9. PlaceInv'
  BY <1>1, <1>5, <1>6 DEF PlaceInv
<1> QED BY <1>6, <1>8, <1>9 DEF ProgramsInv

LEMMA SendResponseKeepsPrograms ==
    ASSUME SystemInv, NEW c \in Conns, SendResponse(c)
    PROVE  ProgramsInv'
<1>1. /\ ProgramTypes /\ PlaceInv
      /\ at[c] = "respond" /\ c \in Servers
      /\ request' = [request EXCEPT ![c] = NoRequest] /\ at' = [at EXCEPT ![c] = "dispatch"]
      /\ UNCHANGED <<listeners, requests, answers>>
      /\ Write(c, Response(Answered(c)))
  BY DEF SendResponse, GoTo, SystemInv, ProgramsInv, PlaceInv
<1> DEFINE b == Response(Answered(c))
<1>2. b \in SystemMessages
  BY <1>1, ResponsesAreMessages
<1>3. Later(c, b)
  <2>1. /\ request[c].from \in Requesters /\ request[c].number \in 1 .. MaxRequests
        /\ request[c] = [from |-> request[c].from, number |-> request[c].number]
    BY <1>1, ResponsesAreMessages
  <2> QED BY <1>1, <2>1 DEF Later, Answered
<1> HIDE DEF b
<1>4. at'[c] = "dispatch" /\ \A d \in Conns : d # c => at'[d] = at[d] /\ request'[d] = request[d]
  BY <1>1 DEF ProgramTypes
<1>5. WrittenInv' /\ CarriedInv' /\ TableInv' /\ peer' = peer
  BY <1>1, <1>2, <1>3, <1>4, SendKeepsWritten DEF b
<1>6. written' \in [Conns -> Seq(SystemMessages)]
  BY <1>1, <1>2, WriteEffect DEF b
<1>7. ProgramTypes'
  <2>1. NoRequest \in [from : Requesters \cup {NoClient}, number : Numbers]
    BY ProgramsAssumption DEF NoRequest, Numbers
  <2> QED BY <1>1, <1>6, <2>1 DEF ProgramTypes
<1>8. PlaceInv'
  BY <1>1, <1>4, <1>5 DEF PlaceInv
<1> QED BY <1>5, <1>7, <1>8 DEF ProgramsInv

(* A program that reads: what it reads is on the record.                   *)
LEMMA IncomingIsWritten ==
    ASSUME SystemInv, NEW c \in Conns, Take(c)
    PROVE  /\ taken[c] + 1 \in 1 .. Len(out[c]) /\ taken[c] \in Nat
           /\ Incoming(c).src \in Conns
           /\ Incoming(c).seq \in 1 .. Len(written[Incoming(c).src])
           /\ Incoming(c).topic = BodyOf(Incoming(c)).topic
<1>1. taken[c] + 1 \in 1 .. Len(out[c]) /\ taken[c] \in Nat
  <2>1. taken[c] < Len(out[c])
    BY DEF Take
  <2> QED BY <2>1, QueueTypes
<1>2. CarriedInv
  BY DEF SystemInv, ProgramsInv
<1>3. PICK x : x = out[c][taken[c] + 1]
  OBVIOUS
<1>4. x.src \in Conns /\ x.seq \in 1 .. Len(written[x.src]) /\ x.topic = written[x.src][x.seq].topic
  BY <1>1, <1>2, <1>3, QueueTypes DEF CarriedInv
<1> QED BY <1>1, <1>3, <1>4 DEF Incoming, BodyOf

LEMMA TakeKeeps ==
    ASSUME SystemInv, NEW c \in Conns, Take(c), UNCHANGED <<listeners, written>>,
           \A d \in Conns : at'[d] = at[d] \/ at[d] \notin {"off", "create", "listen"},
           \A d \in Conns : at'[d] \in {"off", "create", "listen"} => at[d] = at'[d]
    PROVE  WrittenInv' /\ CarriedInv' /\ TableInv' /\ peer' = peer
<1>1. /\ taken' = [taken EXCEPT ![c] = @ + 1] /\ taken[c] < Len(out[c])
      /\ UNCHANGED <<pc, routes, loop, peer, inq, sent, out, subs>>
  BY DEF Take
<1>2. WrittenInv /\ CarriedInv /\ TableInv /\ taken \in [Conns -> Nat]
  BY DEF SystemInv, ProgramsInv, IInv, TypeOK, NetworkTypeOK
<1>3. \A d \in Conns : taken'[d] <= Len(out[d])
  BY <1>1, <1>2, QueueTypes, SMTT(40) DEF CarriedInv
<1>4. pc' = pc /\ msg' = msg /\ j' = j /\ nr' = nr
  BY <1>1 DEF loop
<1>5. CarriedInv'
  BY <1>1, <1>2, <1>3, <1>4 DEF CarriedInv
<1>6. TableInv'
  BY <1>1, <1>2, <1>4, TableUntouched
<1>7. WrittenInv'
  <2>1. \A d \in Conns : at'[d] \in {"off", "create", "listen"} =>
          Len(written[d]) = Len(listeners[d])
    BY <1>2 DEF WrittenInv
  <2> QED BY <1>1, <1>2, <2>1 DEF WrittenInv
<1> QED BY <1>1, <1>5, <1>6, <1>7

(* A request that a server takes up comes from a requester.                *)
LEMMA TakenUpRequest ==
    ASSUME SystemInv, NEW c \in Conns, Take(c), BodyOf(Incoming(c)).request
    PROVE  \E d \in Requesters, m \in 1 .. MaxRequests :
             /\ BodyOf(Incoming(c)).from = d /\ BodyOf(Incoming(c)).number = m
             /\ BodyOf(Incoming(c)) = Request(d, m)
             /\ BodyOf(Incoming(c)).kind = "request"
<1>1. PICK src, seq : src = Incoming(c).src /\ seq = Incoming(c).seq
  OBVIOUS
<1>2. src \in Conns /\ seq \in 1 .. Len(written[src]) /\ BodyOf(Incoming(c)) = written[src][seq]
  BY <1>1, IncomingIsWritten DEF BodyOf
<1>3. ProgramsInv
  BY DEF SystemInv
<1>4. PICK b : b = BodyOf(Incoming(c))
  OBVIOUS
<1>5. \E d \in Requesters, m \in 1 .. MaxRequests :
        /\ b.from = d /\ b.number = m
        /\ b = Request(d, m) /\ b.kind = "request"
  BY <1>2, <1>3, <1>4, WrittenRequests
<1> QED BY <1>4, <1>5

LEMMA DispatchRequestKeepsPrograms ==
    ASSUME SystemInv, NEW c \in Conns, DispatchRequest(c)
    PROVE  ProgramsInv'
<1>1. /\ ProgramTypes /\ PlaceInv
      /\ at[c] = "dispatch" /\ c \in Servers /\ Take(c)
      /\ UNCHANGED <<listeners, requests, written, answers>>
  BY DEF DispatchRequest, SystemInv, ProgramsInv, PlaceInv
<1>2. CASE UNCHANGED <<request, at>>
  <2>1. WrittenInv' /\ CarriedInv' /\ TableInv' /\ peer' = peer
    BY <1>1, <1>2, TakeKeeps
  <2> QED BY <1>1, <1>2, <2>1 DEF ProgramsInv, ProgramTypes, PlaceInv
<1>3. CASE /\ BodyOf(Incoming(c)).request
           /\ request' = [request EXCEPT ![c] = [from |-> BodyOf(Incoming(c)).from,
                                                 number |-> BodyOf(Incoming(c)).number]]
           /\ at' = [at EXCEPT ![c] = "respond"]
  <2>1. PICK d \in Requesters, m \in 1 .. MaxRequests :
             BodyOf(Incoming(c)).from = d /\ BodyOf(Incoming(c)).number = m
    BY <1>1, <1>3, TakenUpRequest
  <2>2. request' = [request EXCEPT ![c] = [from |-> d, number |-> m]]
    BY <1>3, <2>1
  <2>3. /\ at'[c] = "respond" /\ request'[c] = [from |-> d, number |-> m]
        /\ \A e \in Conns : e # c => at'[e] = at[e] /\ request'[e] = request[e]
    BY <1>1, <1>3, <2>2 DEF ProgramTypes
  <2>4. WrittenInv' /\ CarriedInv' /\ TableInv' /\ peer' = peer
    BY <1>1, <2>3, TakeKeeps
  <2>5. [from |-> d, number |-> m] \in [from : Requesters \cup {NoClient}, number : Numbers]
    BY ProgramsAssumption DEF Numbers
  <2>6. ProgramTypes'
    BY <1>1, <1>3, <2>2, <2>5 DEF ProgramTypes
  <2>7. PlaceInv'
    BY <1>1, <2>3, <2>4 DEF PlaceInv
  <2> QED BY <2>4, <2>6, <2>7 DEF ProgramsInv
<1> QED BY <1>2, <1>3 DEF DispatchRequest, GoTo

LEMMA DispatchResponseKeepsPrograms ==
    ASSUME SystemInv, NEW c \in Conns, DispatchResponse(c)
    PROVE  ProgramsInv'
<1>1. /\ ProgramTypes /\ PlaceInv
      /\ at[c] = "wait" /\ c \in Requesters /\ Take(c)
      /\ UNCHANGED <<listeners, requests, request, written>>
  BY DEF DispatchResponse, SystemInv, ProgramsInv, PlaceInv
<1>2. CASE UNCHANGED <<answers, at>>
  <2>1. WrittenInv' /\ CarriedInv' /\ TableInv' /\ peer' = peer
    BY <1>1, <1>2, TakeKeeps
  <2> QED BY <1>1, <1>2, <2>1 DEF ProgramsInv, ProgramTypes, PlaceInv
<1>3. CASE /\ BodyOf(Incoming(c)).kind = "response"
           /\ answers' = [answers EXCEPT ![c] = Append(@, BodyOf(Incoming(c)).number)]
           /\ at' = [at EXCEPT ![c] = "ask"]
  <2>1. at'[c] = "ask" /\ \A e \in Conns : e # c => at'[e] = at[e]
    BY <1>1, <1>3 DEF ProgramTypes
  <2>2. WrittenInv' /\ CarriedInv' /\ TableInv' /\ peer' = peer
    BY <1>1, <2>1, TakeKeeps
  <2>3. BodyOf(Incoming(c)).number \in Numbers
    <3>1. PICK src, seq : src = Incoming(c).src /\ seq = Incoming(c).seq
      OBVIOUS
    <3>2. /\ src \in Conns /\ seq \in 1 .. Len(written[src])
          /\ BodyOf(Incoming(c)) = written[src][seq]
      BY <1>1, <3>1, IncomingIsWritten DEF BodyOf
    <3>3. PICK m \in 1 .. MaxRequests : written[src][seq].number = m
      BY <1>3, <3>2, WhatIsWritten DEF SystemInv
    <3> QED BY <3>2, <3>3, ProgramsAssumption DEF Numbers
  <2>4. answers' \in [Conns -> Seq(Numbers)]
    BY <1>1, <1>3, <2>3, AppendTo DEF ProgramTypes
  <2>5. ProgramTypes'
    BY <1>1, <1>3, <2>4 DEF ProgramTypes
  <2>6. PlaceInv'
    BY <1>1, <2>1, <2>2 DEF PlaceInv
  <2> QED BY <2>2, <2>5, <2>6 DEF ProgramsInv
<1> QED BY <1>2, <1>3 DEF DispatchResponse, GoTo

LEMMA InitEstablishesProgramsInv == SystemInit => ProgramsInv
<1> SUFFICES ASSUME SystemInit PROVE ProgramsInv
  OBVIOUS
<1>1. ProgramTypes
  BY ProgramsAssumption DEF SystemInit, ProgramTypes, NoRequest, Numbers
<1>2. PlaceInv /\ WrittenInv
  BY DEF SystemInit, Init, PlaceInv, WrittenInv
<1>3. CarriedInv /\ TableInv
  BY DEF SystemInit, Init, CarriedInv, TableInv, SubsInv, InternalInv, BehindInv, OnceInv
<1> QED BY <1>1, <1>2, <1>3 DEF ProgramsInv

LEMMA EveryStepKeepsProgramsInv == SystemInv /\ SystemNext => ProgramsInv'
<1> SUFFICES ASSUME SystemInv, SystemNext PROVE ProgramsInv'
  OBVIOUS
<1>1. CASE RouterStep
  BY <1>1, RouterKeepsPrograms
<1>2. ASSUME NEW c \in Conns, Create(c) \/ Program(c) PROVE ProgramsInv'
  BY <1>2, CreateKeepsPrograms, AddInboxKeepsPrograms, AddListenerKeepsPrograms,
     SendRequestKeepsPrograms, SendResponseKeepsPrograms, DispatchRequestKeepsPrograms,
     DispatchResponseKeepsPrograms DEF Program
<1> QED BY <1>1, <1>2 DEF SystemNext

LEMMA StutteringKeepsSystemInv == SystemInv /\ UNCHANGED systemVars => SystemInv'
<1> SUFFICES ASSUME SystemInv, UNCHANGED systemVars PROVE SystemInv'
  OBVIOUS
<1>1. UNCHANGED vars /\ UNCHANGED programs
  BY DEF systemVars
<1>2. IInv' /\ TurnInv'
  BY <1>1, EveryStepKeepsIInv, EveryStepKeepsTurnInv DEF SystemInv
<1>3. /\ UNCHANGED <<at, listeners, requests, request, written, answers>>
      /\ UNCHANGED <<pc, routes, loop, peer, inq, sent, taken, out, subs>>
      /\ ProgramTypes /\ PlaceInv /\ WrittenInv /\ CarriedInv /\ TableInv
  BY <1>1 DEF programs, vars, network, SystemInv, ProgramsInv
<1>4. ProgramTypes' /\ PlaceInv' /\ WrittenInv'
  BY <1>1, <1>3, ProgramsUntouched
<1>5. pc' = pc /\ msg' = msg /\ j' = j
  BY <1>3 DEF loop
<1>6. CarriedInv' /\ TableInv'
  BY <1>3, <1>5, TableUntouched DEF CarriedInv
<1> QED BY <1>2, <1>4, <1>6 DEF SystemInv, ProgramsInv

LEMMA EveryStepKeepsSystemInv == SystemInv /\ [SystemNext]_systemVars => SystemInv'
<1> SUFFICES ASSUME SystemInv, [SystemNext]_systemVars PROVE SystemInv'
  OBVIOUS
<1>1. CASE SystemNext
  <2>1. Next
    BY <1>1, EveryStepIsOfTheRouter
  <2>2. IInv' /\ TurnInv'
    BY <2>1, EveryStepKeepsIInv, EveryStepKeepsTurnInv DEF SystemInv
  <2> QED BY <1>1, <2>2, EveryStepKeepsProgramsInv DEF SystemInv
<1>2. CASE UNCHANGED systemVars
  BY <1>2, StutteringKeepsSystemInv
<1> QED BY <1>1, <1>2

LEMMA SystemInvariant == SystemSpec => []SystemInv
<1>1. SystemInit => SystemInv
  BY InitEstablishesIInv, InitEstablishesTurnInv, InitEstablishesProgramsInv
     DEF SystemInv, SystemInit
<1> QED BY <1>1, EveryStepKeepsSystemInv, PTL DEF SystemSpec

(* The programs are clients of the router, as RtRouted has them, and so    *)
(* what holds of the router holds with these programs at its connections   *)
(* (rtrouted.c:609-676, rtConnection.c:371-418, :460-478).                 *)
THEOREM SystemImplementsRouter == SystemSpec => Spec
<1>1. SystemInit => Init
  BY DEF SystemInit
<1>2. SystemInv /\ [SystemNext]_systemVars => [Next]_vars
  BY EveryStepIsOfTheRouter DEF systemVars
<1> QED BY <1>1, <1>2, SystemInvariant, PTL DEF SystemSpec, Spec

-----------------------------------------------------------------------------
(***************************************************************************)
(* Requests and responses under way.                                       *)
(***************************************************************************)

(* Tokens only disappear, ...                                              *)
LEMMA FlightKept ==
    ASSUME NEW c \in Conns, FlightOf(c),
           at'[c] = "wait" <=> at[c] = "wait",
           requests'[c] = requests[c], answers'[c] = answers[c],
           \A x, m : InFlight(c, x, m)' => InFlight(c, x, m)
    PROVE  FlightOf(c)'
<1>1. \A x, y, m, l : InFlight(c, x, m)' /\ InFlight(c, y, l)' => x = y
  BY DEF FlightOf
<1>2. \A x, m : InFlight(c, x, m)' => at'[c] = "wait" /\ m = requests'[c]
  BY DEF FlightOf
<1>3. /\ \A k \in 1 .. Len(answers'[c]) : answers'[c][k] = k
      /\ at'[c] = "wait" => requests'[c] = Len(answers'[c]) + 1
      /\ at'[c] # "wait" => requests'[c] = Len(answers'[c])
  BY DEF FlightOf
<1> QED BY <1>1, <1>2, <1>3 DEF FlightOf

(* ... or the only one goes to another place.                              *)
LEMMA FlightMoved ==
    ASSUME NEW c \in Conns, FlightOf(c),
           at'[c] = at[c], requests'[c] = requests[c], answers'[c] = answers[c],
           NEW old, NEW new, NEW number, InFlight(c, old, number),
           \A x, m : InFlight(c, x, m)' =>
               (x = new /\ m = number) \/ (InFlight(c, x, m) /\ x # old)
    PROVE  FlightOf(c)'
<1>1. \A x, m : InFlight(c, x, m)' => x = new /\ m = number
  BY DEF FlightOf
<1>2. at[c] = "wait" /\ number = requests[c]
  BY DEF FlightOf
<1>3. \A x, y, m, l : InFlight(c, x, m)' /\ InFlight(c, y, l)' => x = y
  BY <1>1
<1>4. \A x, m : InFlight(c, x, m)' => at'[c] = "wait" /\ m = requests'[c]
  BY <1>1, <1>2
<1>5. /\ \A k \in 1 .. Len(answers'[c]) : answers'[c][k] = k
      /\ at'[c] = "wait" => requests'[c] = Len(answers'[c]) + 1
      /\ at'[c] # "wait" => requests'[c] = Len(answers'[c])
  BY DEF FlightOf
<1> QED BY <1>3, <1>4, <1>5 DEF FlightOf

(* What a place holds depends on little of the state.                      *)
LEMMA QueuedKept ==
    ASSUME inq' = inq, NEW c, NEW x, NEW m, Queued(c, x, m)'
    PROVE  Queued(c, x, m)
BY SMTT(40) DEF Queued, Concerns

WritingsPersist ==
    \A d \in Conns : \A k \in 1 .. Len(written[d]) : written'[d][k] = written[d][k]

LEMMA DeliveredKept ==
    ASSUME SystemInv, out' = out, WritingsPersist,
           \A d \in Conns : taken'[d] \in Nat /\ taken[d] <= taken'[d],
           NEW c, NEW x, NEW m, Delivered(c, x, m)'
    PROVE  /\ Delivered(c, x, m)
           /\ \A d \in Conns : x # <<"delivered", d, taken'[d]>>
<1>0. PICK d \in Conns : \E k \in 1 .. Len(out[d]) :
         /\ k > taken'[d]
         /\ Concerns(BodyOf(out[d][k])', c) /\ BodyOf(out[d][k])'.number = m
         /\ x = <<"delivered", d, k>>
  BY DEF Delivered, Concerns, BodyOf
<1>1. PICK k \in 1 .. Len(out[d]) :
         /\ k > taken'[d]
         /\ Concerns(BodyOf(out[d][k])', c) /\ BodyOf(out[d][k])'.number = m
         /\ x = <<"delivered", d, k>>
  BY <1>0, SMTT(40)
<1>2. PICK e : e = out[d][k]
  OBVIOUS
<1>3. e.src \in Conns /\ e.seq \in 1 .. Len(written[e.src])
  BY <1>1, <1>2, QueueTypes DEF SystemInv, ProgramsInv, CarriedInv
<1>4. written'[e.src][e.seq] = written[e.src][e.seq]
  BY <1>3 DEF WritingsPersist
<1>5. BodyOf(out[d][k])' = written'[e.src][e.seq] /\ BodyOf(out[d][k]) = written[e.src][e.seq]
  BY <1>2 DEF BodyOf
<1>6. k > taken[d] /\ k > taken'[d]
  BY <1>1, QueueTypes
<1>7. Delivered(c, x, m)
  BY <1>1, <1>4, <1>5, <1>6 DEF Delivered
<1>8. \A f \in Conns : x # <<"delivered", f, taken'[f]>>
  BY <1>1, <1>6
<1> QED BY <1>7, <1>8, SMTT(30)

LEMMA AskedKept ==
    ASSUME NEW c, NEW x, NEW m, Asked(c, x, m)',
           \A d \in Conns : at'[d] = "respond" => at[d] = "respond" /\ request'[d] = request[d]
    PROVE  Asked(c, x, m)
BY DEF Asked

LEMMA RoutedKept ==
    ASSUME NEW c, NEW x, NEW m, Routed(c, x, m)',
           pc = "dispatch", msg' = msg, nr' = nr, nr \in Nat, j \in Nat, j' \in {j, j + 1},
           \A k \in 1 .. nr : routes'[k] = routes[k]
    PROVE  /\ Routed(c, x, m)
           /\ \E k \in 1 .. nr :
                k >= j' /\ routes[k].handler = "Forward" /\ Match(msg.m.topic, routes[k].exp)
<1>1. /\ Concerns(msg.m, c) /\ msg.m.number = m /\ x = <<"routed", msg.src, msg.seq>>
      /\ \E k \in 1 .. nr :
           k >= j' /\ routes'[k].handler = "Forward" /\ Match(msg.m.topic, routes'[k].exp)
  BY DEF Routed, Concerns
<1>2. PICK k \in 1 .. nr :
        k >= j' /\ routes[k].handler = "Forward" /\ Match(msg.m.topic, routes[k].exp)
  BY <1>1
<1>3. k >= j
  BY <1>2
<1> QED BY <1>1, <1>2, <1>3 DEF Routed

LEMMA PlacesDiffer ==
    ASSUME NEW c, NEW x, NEW m
    PROVE  /\ Queued(c, x, m) => \E d \in Conns : \E k : x = <<"queued", d, k>>
           /\ Routed(c, x, m) => x = <<"routed", msg.src, msg.seq>>
           /\ Delivered(c, x, m) => \E d \in Conns : \E k : x = <<"delivered", d, k>>
           /\ Asked(c, x, m) => \E d \in Conns : x = <<"asked", d, 0>>
BY DEF Queued, Routed, Delivered, Asked

(***************************************************************************)
(* Under the steps of the router.                                          *)
(***************************************************************************)
LEMMA RouterLeavesPrograms ==
    ASSUME SystemInv, RouterStep
    PROVE  /\ UNCHANGED <<at, listeners, requests, request, written, answers, taken>>
           /\ WritingsPersist
           /\ \A d \in Conns : taken'[d] \in Nat /\ taken[d] <= taken'[d]
           /\ \A d \in Conns : at'[d] = "respond" => at[d] = "respond" /\ request'[d] = request[d]
<1>1. UNCHANGED <<at, listeners, requests, request, written, answers, taken>>
  BY RouterEffect DEF programs
<1> QED BY <1>1, QueueTypes DEF WritingsPersist

LEMMA QuietKeepsFlight ==
    ASSUME SystemInv, RouterStep, NEW c \in Conns, FlightOf(c),
           inq' = inq, out' = out, pc' # "dispatch"
    PROVE  FlightOf(c)'
<1>1. ASSUME NEW x, NEW m, InFlight(c, x, m)' PROVE InFlight(c, x, m)
  <2>1. CASE Queued(c, x, m)'
    BY <2>1, QueuedKept DEF InFlight
  <2>2. CASE Routed(c, x, m)'
    BY <2>2 DEF Routed
  <2>3. CASE Delivered(c, x, m)'
    BY <2>3, DeliveredKept, RouterLeavesPrograms DEF InFlight
  <2>4. CASE Asked(c, x, m)'
    BY <2>4, AskedKept, RouterLeavesPrograms DEF InFlight
  <2> QED BY <1>1, <2>1, <2>2, <2>3, <2>4 DEF InFlight
<1> QED BY <1>1, FlightKept, RouterLeavesPrograms

LEMMA SameTableKeepsFlight ==
    ASSUME SystemInv, RouterStep, NEW c \in Conns, FlightOf(c),
           inq' = inq, out' = out, pc = "dispatch", msg' = msg, nr' = nr, j' = j + 1,
           \A k \in 1 .. nr : routes'[k] = routes[k]
    PROVE  FlightOf(c)'
<1>1. nr \in Nat /\ j \in Nat
  BY DEF SystemInv, IInv, TypeOK, LoopTypeOK
<1>2. ASSUME NEW x, NEW m, InFlight(c, x, m)' PROVE InFlight(c, x, m)
  <2>1. CASE Queued(c, x, m)'
    BY <2>1, QueuedKept DEF InFlight
  <2>2. CASE Routed(c, x, m)'
    BY <1>1, <2>2, RoutedKept DEF InFlight
  <2>3. CASE Delivered(c, x, m)'
    BY <2>3, DeliveredKept, RouterLeavesPrograms DEF InFlight
  <2>4. CASE Asked(c, x, m)'
    BY <2>4, AskedKept, RouterLeavesPrograms DEF InFlight
  <2> QED BY <1>2, <2>1, <2>2, <2>3, <2>4 DEF InFlight
<1> QED BY <1>2, FlightKept, RouterLeavesPrograms

(* The message that is read was the first of its queue.                    *)
LEMMA ReadKeepsFlight ==
    ASSUME SystemInv, RouterStep, NEW c \in Conns, FlightOf(c), ReadMessage
    PROVE  FlightOf(c)'
<1>1. PICK e \in Conns :
        /\ Len(inq[e]) \in Nat \ {0} /\ Len(inq'[e]) = Len(inq[e]) - 1
        /\ \A k \in 1 .. Len(inq[e]) - 1 : inq'[e][k] = inq[e][k + 1]
        /\ \A d \in Conns : d # e => inq'[d] = inq[d]
        /\ msg' = inq[e][1] /\ inq[e][1].src = e
        /\ pc = "clients" /\ out' = out
  BY ReadEffect
<1>0. PICK old, new, number :
        /\ old = <<"queued", e, inq[e][1].seq>> /\ new = <<"routed", e, inq[e][1].seq>>
        /\ number = inq[e][1].m.number
  OBVIOUS
<1>2. 1 \in 1 .. Len(inq[e]) /\ inq[e][1].seq \in Nat
  BY <1>1, QueueTypes
<1>3. ASSUME NEW x, NEW m, Queued(c, x, m)' PROVE Queued(c, x, m) /\ x # old
  <2>1. PICK d \in Conns : \E k \in 1 .. Len(inq'[d]) :
          /\ Concerns(inq'[d][k].m, c) /\ inq'[d][k].m.number = m
          /\ x = <<"queued", d, inq'[d][k].seq>>
    BY <1>3 DEF Queued, Concerns
  <2>2. PICK k \in 1 .. Len(inq'[d]) :
          /\ Concerns(inq'[d][k].m, c) /\ inq'[d][k].m.number = m
          /\ x = <<"queued", d, inq'[d][k].seq>>
    BY <2>1
  <2>3. CASE d = e
    <3>1. /\ k \in 1 .. Len(inq[e]) - 1 /\ k + 1 \in 1 .. Len(inq[e]) /\ 1 < k + 1
          /\ inq'[e][k] = inq[e][k + 1]
      BY <1>1, <2>3
    <3>2. inq[e][1].seq < inq[e][k + 1].seq /\ inq[e][k + 1].seq \in Nat
      BY <1>2, <3>1, QueueTypes DEF SystemInv, TurnInv, OrderInv
    <3>3. inq[e][1].seq # inq[e][k + 1].seq
      BY <1>2, <3>2
    <3>4. x # old
      BY <1>0, <2>2, <2>3, <3>1, <3>3
    <3> QED BY <2>2, <2>3, <3>1, <3>4 DEF Queued
  <2>4. CASE d # e
    <3>1. inq'[d] = inq[d]
      BY <1>1, <2>4
    <3>2. x # old
      BY <1>0, <2>2, <2>4
    <3> QED BY <2>2, <3>1, <3>2 DEF Queued
  <2> QED BY <2>3, <2>4
<1>4. ASSUME NEW x, NEW m, Routed(c, x, m)'
      PROVE  Concerns(inq[e][1].m, c) /\ m = number /\ x = new
  BY <1>0, <1>1, <1>4 DEF Routed, Concerns
<1>5. ASSUME NEW x, NEW m, Delivered(c, x, m)' \/ Asked(c, x, m)'
      PROVE  InFlight(c, x, m) /\ x # old
  <2>1. Delivered(c, x, m) \/ Asked(c, x, m)
    BY <1>1, <1>5, DeliveredKept, AskedKept, RouterLeavesPrograms
  <2> QED BY <1>0, <2>1, PlacesDiffer DEF InFlight
<1>6. CASE Concerns(inq[e][1].m, c)
  <2>1. InFlight(c, old, number)
    BY <1>0, <1>2, <1>6 DEF InFlight, Queued
  <2>2. ASSUME NEW x, NEW m, InFlight(c, x, m)'
        PROVE  (x = new /\ m = number) \/ (InFlight(c, x, m) /\ x # old)
    BY <1>3, <1>4, <1>5, <2>2 DEF InFlight
  <2> QED BY <2>1, <2>2, FlightMoved, RouterLeavesPrograms
<1>7. CASE ~Concerns(inq[e][1].m, c)
  <2>1. ASSUME NEW x, NEW m, InFlight(c, x, m)' PROVE InFlight(c, x, m)
    BY <1>3, <1>4, <1>5, <1>7, <2>1 DEF InFlight
  <2> QED BY <2>1, FlightKept, RouterLeavesPrograms
<1> QED BY <1>6, <1>7

(* With one server a topic names one listener, so one route takes it.      *)
LEMMA OneRoute ==
    ASSUME SystemInv, OneServer, NEW topic \in Offered,
           NEW k \in 1 .. Len(routes), NEW l \in 1 .. Len(routes),
           routes[k].handler = "Forward", routes[l].handler = "Forward",
           Match(topic, routes[k].exp), Match(topic, routes[l].exp)
    PROVE  k = l
<1>1. PICK a, b : a = routes[k] /\ b = routes[l]
  OBVIOUS
<1>2. ProgramTypes /\ PlaceInv /\ TableInv
  BY DEF SystemInv, ProgramsInv
<1>3. /\ a.client \in Conns /\ a.id \in 1 .. Len(listeners[a.client])
      /\ a.exp = listeners[a.client][a.id]
      /\ b.client \in Conns /\ b.id \in 1 .. Len(listeners[b.client])
      /\ b.exp = listeners[b.client][b.id]
  BY <1>1, <1>2 DEF TableInv, BehindInv, IsListener
<1>4. /\ \/ a.id = 1 /\ a.exp = Inbox[a.client]
         \/ a.id = 2 /\ a.exp = Service /\ a.client \in Servers
      /\ \/ b.id = 1 /\ b.exp = Inbox[b.client]
         \/ b.id = 2 /\ b.exp = Service /\ b.client \in Servers
  BY <1>2, <1>3, ListenersById
<1>5. a.exp \in Offered /\ b.exp \in Offered
  BY <1>3, <1>4, TopicsDiffer
<1>6. topic = a.exp /\ topic = b.exp
  BY <1>1, <1>5, TopicsDiffer
<1>7. a.client = b.client /\ a.id = b.id
  <2>1. CASE topic = Service
    BY <1>3, <1>4, <1>6, <2>1, TopicsDiffer DEF OneServer
  <2>2. CASE topic # Service
    BY <1>3, <1>4, <1>6, <2>2, TopicsDiffer
  <2> QED BY <2>1, <2>2
<1> QED BY <1>1, <1>2, <1>7 DEF TableInv, OnceInv

LEMMA ForwardDelivers ==
    ASSUME SystemInv, RouterStep, ForwardMessage, NEW c, NEW y, NEW m, Delivered(c, y, m)'
    PROVE  \/ Delivered(c, y, m)
           \/ /\ Concerns(msg.m, c) /\ m = msg.m.number
              /\ y = <<"delivered", routes[j].client, Len(out[routes[j].client]) + 1>>
<1>1. IInv /\ CarriedInv /\ pc = "dispatch"
  BY StepOverEntry DEF SystemInv, ProgramsInv
<1>2. PICK r \in Routes, x \in OutMessages :
        /\ r = routes[j] /\ r.client \in Conns
        /\ x = [src |-> msg.src, seq |-> msg.seq, topic |-> msg.m.topic, id |-> r.id]
        /\ x.src = msg.src /\ x.seq = msg.seq
        /\ \/ peer[r.client] = "hungup" /\ out' = out
           \/ /\ \A d \in Conns \ {r.client} : out'[d] = out[d]
              /\ Len(out'[r.client]) = Len(out[r.client]) + 1
              /\ \A k \in 1 .. Len(out[r.client]) : out'[r.client][k] = out[r.client][k]
              /\ out'[r.client][Len(out[r.client]) + 1] = x
  BY <1>1, ForwardEffect, SMTT(30)
<1>3. msg.m = written[x.src][x.seq] /\ written' = written /\ taken' = taken
  BY <1>1, <1>2, RouterLeavesPrograms, SMTT(30) DEF CarriedInv
<1>4. PICK d \in Conns : \E k \in 1 .. Len(out'[d]) :
        /\ k > taken'[d] /\ Concerns(BodyOf(out[d][k])', c)
        /\ BodyOf(out[d][k])'.number = m
        /\ y = <<"delivered", d, k>>
  BY SMTT(40) DEF Delivered, Concerns, BodyOf
<1>5. PICK k \in 1 .. Len(out'[d]) :
        /\ k > taken[d] /\ Concerns(BodyOf(out[d][k])', c)
        /\ BodyOf(out[d][k])'.number = m
        /\ y = <<"delivered", d, k>>
  BY <1>3, <1>4
<1>9. PICK e : e = out'[d][k]
  BY SMTT(40)
<1>10. PICK body : body = written[e.src][e.seq] /\ Concerns(body, c) /\ body.number = m
  BY <1>3, <1>5, <1>9 DEF BodyOf
<1>6. Len(out[d]) \in Nat
  BY QueueTypes
<1>7. CASE k \in 1 .. Len(out[d])
  <2>1. out'[d][k] = out[d][k]
    BY <1>2, <1>7, SMTT(40)
  <2>2. BodyOf(out[d][k]) = body
    BY <1>9, <1>10, <2>1, SMTT(40) DEF BodyOf
  <2> QED BY <1>5, <1>7, <1>10, <2>2 DEF Delivered
<1>8. CASE k \notin 1 .. Len(out[d])
  <2>1. out' # out /\ d = r.client
    BY <1>2, <1>8
  <2>2. Len(out'[d]) = Len(out[d]) + 1 /\ out'[d][Len(out[d]) + 1] = x
    BY <1>2, <2>1
  <2>3. k = Len(out[d]) + 1
    <3>1. k \in 1 .. Len(out[d]) + 1
      BY <2>2
    <3> QED BY <1>6, <1>8, <3>1
  <2>4. e = x
    BY <1>9, <2>2, <2>3
  <2>5. body = msg.m
    BY <1>3, <1>10, <2>4
  <2> QED BY <1>2, <1>5, <1>10, <2>1, <2>3, <2>5
<1> QED BY <1>7, <1>8

(* The message that is forwarded has no other route to take.               *)
LEMMA ForwardKeepsFlight ==
    ASSUME SystemInv, OneServer, RouterStep, NEW c \in Requesters, FlightOf(c), ForwardMessage
    PROVE  FlightOf(c)'
<1>0. PICK old, new, number :
        /\ old = <<"routed", msg.src, msg.seq>>
        /\ new = <<"delivered", routes[j].client, Len(out[routes[j].client]) + 1>>
        /\ number = msg.m.number
  OBVIOUS
<1>1. /\ pc = "dispatch" /\ j \in 1 .. nr /\ j' = j + 1 /\ nr' = nr /\ nr <= Len(routes)
      /\ nr \in Nat /\ msg.src \in Conns /\ msg.seq \in Nat
      /\ UNCHANGED <<pc, msg, routes, inq, taken, subs>>
  BY StepOverEntry
<1>2. routes[j].handler = "Forward" /\ Match(msg.m.topic, routes[j].exp)
  BY DEF ForwardMessage, AtMatch
<1>3. ASSUME NEW x, NEW m, Queued(c, x, m)' \/ Asked(c, x, m)'
      PROVE  InFlight(c, x, m) /\ x # old
  <2>1. Queued(c, x, m) \/ Asked(c, x, m)
    BY <1>1, <1>3, QueuedKept, AskedKept, RouterLeavesPrograms
  <2> QED BY <1>0, <2>1, PlacesDiffer DEF InFlight
<1>4. ASSUME NEW x, NEW m, Delivered(c, x, m)'
      PROVE  \/ InFlight(c, x, m) /\ x # old
             \/ Concerns(msg.m, c) /\ m = number /\ x = new
  <2>1. \/ Delivered(c, x, m)
        \/ Concerns(msg.m, c) /\ m = number /\ x = new
    BY <1>0, <1>4, ForwardDelivers
  <2> QED BY <1>0, <2>1, PlacesDiffer DEF InFlight
<1>5. CASE Concerns(msg.m, c)
  <2>1. msg.m.topic \in Offered
    <3>1. PICK src, seq : src = msg.src /\ seq = msg.seq
      OBVIOUS
    <3>2. src \in Conns /\ seq \in 1 .. Len(written[src]) /\ msg.m = written[src][seq]
      BY <1>1, <3>1 DEF SystemInv, ProgramsInv, CarriedInv
    <3>3. PICK b : b = msg.m /\ b.kind \in {"request", "response"}
      BY <1>5 DEF Concerns
    <3>4. ProgramsInv
      BY DEF SystemInv
    <3>5. b.topic = Service \/ \E d \in Requesters : b.topic = Inbox[d]
      BY <3>2, <3>3, <3>4, WrittenRequests
    <3> QED BY <3>3, <3>5, TopicsDiffer, ProgramsDiffer
  <2>2. InFlight(c, old, number)
    BY <1>0, <1>1, <1>2, <1>5 DEF InFlight, Routed
  <2>3. ASSUME NEW x, NEW m, Routed(c, x, m)' PROVE FALSE
    <3>1. PICK k \in 1 .. nr :
            k >= j' /\ routes[k].handler = "Forward" /\ Match(msg.m.topic, routes[k].exp)
      BY <1>1, <2>3, RoutedKept
    <3>2. k \in 1 .. Len(routes) /\ j \in 1 .. Len(routes) /\ k # j
      BY <1>1, <3>1, QueueTypes
    <3> QED BY <1>2, <2>1, <3>1, <3>2, OneRoute
  <2>4. ASSUME NEW x, NEW m, InFlight(c, x, m)'
        PROVE  (x = new /\ m = number) \/ (InFlight(c, x, m) /\ x # old)
    BY <1>3, <1>4, <2>3, <2>4 DEF InFlight
  <2> QED BY <2>2, <2>4, FlightMoved, RouterLeavesPrograms, ProgramsDiffer
<1>6. CASE ~Concerns(msg.m, c)
  <2>1. ASSUME NEW x, NEW m, Routed(c, x, m)' PROVE FALSE
    BY <1>1, <1>6, <2>1, RoutedKept DEF Routed
  <2>2. ASSUME NEW x, NEW m, InFlight(c, x, m)' PROVE InFlight(c, x, m)
    BY <1>3, <1>4, <1>6, <2>1, <2>2 DEF InFlight
  <2> QED BY <2>2, FlightKept, RouterLeavesPrograms, ProgramsDiffer
<1> QED BY <1>5, <1>6

LEMMA RouterKeepsFlight ==
    ASSUME SystemInv, OneServer, RouterStep, NEW c \in Requesters, FlightOf(c)
    PROVE  FlightOf(c)'
<1>0. c \in Conns
  BY ProgramsDiffer
<1>1. CASE pc' # "dispatch" /\ inq' = inq /\ out' = out
  BY <1>0, <1>1, QuietKeepsFlight
<1>2. CASE ReadMessage
  BY <1>0, <1>2, ReadKeepsFlight
<1>3. CASE SkipEntry \/ PrintMessage
  <2>1. ~ForwardMessage
    BY <1>3 DEF SkipEntry, PrintMessage, ForwardMessage, AtMatch
  <2>2. /\ pc = "dispatch" /\ j' = j + 1 /\ nr' = nr
        /\ UNCHANGED <<msg, routes, inq>> /\ out' = out
    BY <1>3, <2>1, StepOverEntry
  <2> QED BY <1>0, <2>2, SameTableKeepsFlight
<1>4. CASE OnMessage
  <2>1. /\ pc = "dispatch" /\ j' = j + 1 /\ nr' = nr /\ nr <= Len(routes)
        /\ UNCHANGED <<msg, inq, out>>
        /\ routes' = routes \/ \E r \in Routes : routes' = Append(routes, r)
    BY <1>4, OnMessageEffect
  <2>2. nr \in Nat
    BY DEF SystemInv, IInv, TypeOK, LoopTypeOK
  <2>3. \A k \in 1 .. nr : routes'[k] = routes[k]
    BY <2>1, <2>2, QueueTypes
  <2> QED BY <1>0, <2>1, <2>3, SameTableKeepsFlight
<1>5. CASE ForwardMessage
  BY <1>5, ForwardKeepsFlight
<1> QED BY <1>1, <1>2, <1>3, <1>4, <1>5, RouterEffect

(***************************************************************************)
(* Under the steps of the programs.                                        *)
(***************************************************************************)
LEMMA RouterIdle ==
    ASSUME SystemInv, UNCHANGED <<pc, loop, routes>>, NEW c, NEW x, NEW m, Routed(c, x, m)'
    PROVE  Routed(c, x, m)
<1>1. pc = "dispatch" /\ msg' = msg /\ nr' = nr /\ j' = j /\ routes' = routes
  BY DEF loop, Routed
<1>2. nr \in Nat /\ j \in Nat
  BY DEF SystemInv, IInv, TypeOK, LoopTypeOK
<1> QED BY <1>1, <1>2, RoutedKept

LEMMA WriteQueues ==
    ASSUME SystemInv, NEW e \in Conns, NEW b \in SystemMessages, Write(e, b),
           NEW c, NEW x, NEW m
    PROVE  /\ Queued(c, x, m)' => \/ Queued(c, x, m)
                                  \/ /\ Concerns(b, c) /\ m = b.number
                                     /\ x = <<"queued", e, Len(written[e]) + 1>>
           /\ Routed(c, x, m)' => Routed(c, x, m)
           /\ Delivered(c, x, m)' => Delivered(c, x, m)
<1>1. /\ Len(inq'[e]) = Len(inq[e]) + 1
      /\ Len(inq[e]) \in Nat /\ Len(written[e]) \in Nat
      /\ \A k \in 1 .. Len(inq[e]) : inq'[e][k] = inq[e][k]
      /\ inq'[e][Len(inq[e]) + 1] = [m |-> b, src |-> e, seq |-> Len(written[e]) + 1]
      /\ \A d \in Conns : d # e => inq'[d] = inq[d]
      /\ UNCHANGED <<pc, loop, routes, out, taken>>
  BY WriteEffect
<1>2. WritingsPersist
  <2>1. ASSUME NEW d \in Conns PROVE \A k \in 1 .. Len(written[d]) : written'[d][k] = written[d][k]
    BY WriteEffect
  <2> QED BY <2>1 DEF WritingsPersist
<1>3. ASSUME Queued(c, x, m)'
      PROVE  \/ Queued(c, x, m)
             \/ /\ Concerns(b, c) /\ m = b.number
                /\ x = <<"queued", e, Len(written[e]) + 1>>
  <2>1. PICK d \in Conns : \E k \in 1 .. Len(inq'[d]) :
          /\ Concerns(inq'[d][k].m, c) /\ inq'[d][k].m.number = m
          /\ x = <<"queued", d, inq'[d][k].seq>>
    BY <1>3 DEF Queued, Concerns
  <2>2. PICK k \in 1 .. Len(inq'[d]) :
          /\ Concerns(inq'[d][k].m, c) /\ inq'[d][k].m.number = m
          /\ x = <<"queued", d, inq'[d][k].seq>>
    BY <2>1
  <2>3. CASE d = e /\ k = Len(inq[e]) + 1
    <3>1. inq'[d][k].m = b /\ inq'[d][k].seq = Len(written[e]) + 1
      BY <1>1, <2>3
    <3> QED BY <2>2, <2>3, <3>1
  <2>4. CASE d = e /\ k # Len(inq[e]) + 1
    <3>1. k \in 1 .. Len(inq[d]) /\ inq'[d][k] = inq[d][k]
      BY <1>1, <2>4
    <3> QED BY <2>2, <3>1 DEF Queued
  <2>5. CASE d # e
    <3>1. inq'[d] = inq[d]
      BY <1>1, <2>5
    <3> QED BY <2>2, <3>1 DEF Queued
  <2> QED BY <2>3, <2>4, <2>5
<1>4. Routed(c, x, m)' => Routed(c, x, m)
  BY <1>1, RouterIdle
<1>5. Delivered(c, x, m)' => Delivered(c, x, m)
  <2>1. \A d \in Conns : taken'[d] \in Nat /\ taken[d] <= taken'[d]
    BY <1>1, QueueTypes
  <2> QED BY <1>1, <1>2, <2>1, DeliveredKept
<1> QED BY <1>3, <1>4, <1>5

LEMMA CreateKeepsFlight ==
    ASSUME SystemInv, NEW e \in Conns, Create(e), NEW c \in Requesters, FlightOf(c)
    PROVE  FlightOf(c)'
<1>1. /\ at[e] = "off" /\ at' = [at EXCEPT ![e] = "create"]
      /\ UNCHANGED <<listeners, requests, request, written, answers>>
      /\ UNCHANGED <<pc, loop, routes, inq, taken, out>>
  BY DEF Create, Connect, GoTo
<1>2. c \in Conns /\ at \in [Conns -> {"off", "create", "listen", "dispatch", "respond", "ask", "wait"}]
  BY ProgramsDiffer DEF SystemInv, ProgramsInv, ProgramTypes
<1>3. \A d \in Conns : at'[d] = at[d] \/ (at[d] = "off" /\ at'[d] = "create")
  BY <1>1, <1>2
<1>4. WritingsPersist /\ \A d \in Conns : taken'[d] \in Nat /\ taken[d] <= taken'[d]
  BY <1>1, QueueTypes DEF WritingsPersist
<1>5. ASSUME NEW x, NEW m, InFlight(c, x, m)' PROVE InFlight(c, x, m)
  <2>1. Queued(c, x, m)' => Queued(c, x, m)
    BY <1>1, QueuedKept
  <2>2. Routed(c, x, m)' => Routed(c, x, m)
    BY <1>1, RouterIdle
  <2>3. Delivered(c, x, m)' => Delivered(c, x, m)
    BY <1>1, <1>4, DeliveredKept
  <2>4. Asked(c, x, m)' => Asked(c, x, m)
    BY <1>1, <1>3, AskedKept
  <2> QED BY <1>5, <2>1, <2>2, <2>3, <2>4 DEF InFlight
<1>6. at'[c] = "wait" <=> at[c] = "wait"
  BY <1>2, <1>3
<1> QED BY <1>1, <1>2, <1>5, <1>6, FlightKept

LEMMA ListenKeepsFlight ==
    ASSUME SystemInv, NEW e \in Conns, AddInbox(e) \/ AddListener(e),
           NEW c \in Requesters, FlightOf(c)
    PROVE  FlightOf(c)'
<1>1. PICK b \in SystemMessages :
        /\ b.kind = "subscribe" /\ Write(e, b)
        /\ at[e] \in {"create", "listen"}
        /\ at' = [at EXCEPT ![e] = at'[e]] /\ at'[e] \in {"listen", "ask", "dispatch"}
        /\ UNCHANGED <<requests, request, answers>>
  <2>0. at \in [Conns -> {"off", "create", "listen", "dispatch", "respond", "ask", "wait"}]
    BY DEF SystemInv, ProgramsInv, ProgramTypes
  <2>1. CASE AddInbox(e)
    <3>1. listeners[e] = <<>> /\ Len(<<>>) + 1 = 1
      BY <2>1 DEF AddInbox, SystemInv, ProgramsInv, PlaceInv
    <3>2. Write(e, Subscription(Inbox[e], 1)) /\ Subscription(Inbox[e], 1).kind = "subscribe"
      BY <2>1, <3>1, Bodies DEF AddInbox, Listen
    <3> QED BY <2>0, <2>1, <3>2, BodiesAreMessages DEF AddInbox, Listen, GoTo
  <2>2. CASE AddListener(e)
    <3>1. listeners[e] = <<Inbox[e]>> /\ Len(<<Inbox[e]>>) + 1 = 2
      BY <2>2 DEF AddListener, SystemInv, ProgramsInv, PlaceInv
    <3>2. Write(e, Subscription(Service, 2)) /\ Subscription(Service, 2).kind = "subscribe"
      BY <2>2, <3>1, Bodies DEF AddListener, Listen
    <3> QED BY <2>0, <2>2, <3>2, BodiesAreMessages DEF AddListener, Listen, GoTo
  <2> QED BY <2>1, <2>2
<1>2. c \in Conns /\ at \in [Conns -> {"off", "create", "listen", "dispatch", "respond", "ask", "wait"}]
  BY ProgramsDiffer DEF SystemInv, ProgramsInv, ProgramTypes
<1>3. \A d \in Conns : \/ at'[d] = at[d]
                       \/ at[d] \in {"create", "listen"} /\ at'[d] \in {"listen", "ask", "dispatch"}
  BY <1>1, <1>2
<1>4. ASSUME NEW x, NEW m, InFlight(c, x, m)' PROVE InFlight(c, x, m)
  <2>1. ~Concerns(b, c)
    BY <1>1 DEF Concerns
  <2>2. Asked(c, x, m)' => Asked(c, x, m)
    BY <1>1, <1>3, AskedKept
  <2> QED BY <1>1, <1>4, <2>1, <2>2, WriteQueues DEF InFlight
<1>5. at'[c] = "wait" <=> at[c] = "wait"
  BY <1>2, <1>3
<1> QED BY <1>1, <1>2, <1>4, <1>5, FlightKept

LEMMA SendRequestKeepsFlight ==
    ASSUME SystemInv, NEW e \in Conns, SendRequest(e), NEW c \in Requesters, FlightOf(c)
    PROVE  FlightOf(c)'
<1>1. /\ ProgramTypes
      /\ at[e] = "ask" /\ requests[e] < MaxRequests /\ e \in Requesters
      /\ requests' = [requests EXCEPT ![e] = @ + 1] /\ at' = [at EXCEPT ![e] = "wait"]
      /\ UNCHANGED <<listeners, request, answers>>
  BY DEF SendRequest, GoTo, SystemInv, ProgramsInv, PlaceInv
<1>2. requests[e] + 1 \in 1 .. MaxRequests
  BY <1>1, ProgramsAssumption, SMTT(40) DEF ProgramTypes, Numbers
<1>3. PICK b : b = Request(e, requests[e] + 1)
  OBVIOUS
<1>4. b \in SystemMessages /\ b.kind = "request" /\ b.from = e /\ b.number = requests[e] + 1
  <2>1. b \in SystemMessages
    BY <1>1, <1>2, <1>3, BodiesAreMessages
  <2>2. b.kind = "request" /\ b.from = e /\ b.number = requests[e] + 1
    BY <1>3, Bodies
  <2> QED BY <2>1, <2>2
<1>5. Write(e, b)
  BY <1>3 DEF SendRequest
<1>6. c \in Conns
  BY ProgramsDiffer
<1>7. ASSUME NEW x, NEW m, InFlight(c, x, m)'
      PROVE  \/ InFlight(c, x, m)
             \/ c = e /\ m = requests[e] + 1 /\ x = <<"queued", e, Len(written[e]) + 1>>
  <2>1. Asked(c, x, m)' => Asked(c, x, m)
    <3>1. \A d \in Conns : at'[d] = "respond" => at[d] = "respond" /\ request'[d] = request[d]
      BY <1>1 DEF ProgramTypes
    <3> QED BY <3>1, AskedKept
  <2> QED BY <1>4, <1>5, <1>7, <2>1, WriteQueues DEF InFlight, Concerns
<1>8. CASE c # e
  <2>1. at'[c] = at[c] /\ requests'[c] = requests[c] /\ answers'[c] = answers[c]
    BY <1>1, <1>6, <1>8 DEF ProgramTypes
  <2> QED BY <1>6, <1>7, <1>8, <2>1, FlightKept
<1>9. CASE c = e
  <2>1. /\ at'[c] = "wait" /\ requests'[c] = requests[c] + 1 /\ answers'[c] = answers[c]
        /\ requests[c] = Len(answers[c]) /\ \A k \in 1 .. Len(answers[c]) : answers[c][k] = k
    BY <1>1, <1>6, <1>9 DEF ProgramTypes, FlightOf
  <2>2. \A x, m : InFlight(c, x, m)' =>
          m = requests'[c] /\ x = <<"queued", e, Len(written[e]) + 1>>
    BY <1>1, <1>7, <1>9, <2>1 DEF FlightOf
  <2>3. \A x, y, m, l : InFlight(c, x, m)' /\ InFlight(c, y, l)' => x = y
    BY <2>2
  <2>4. \A x, m : InFlight(c, x, m)' => at'[c] = "wait" /\ m = requests'[c]
    BY <2>1, <2>2
  <2> QED BY <2>1, <2>3, <2>4 DEF FlightOf
<1> QED BY <1>8, <1>9

(* The response takes the place of the request.                            *)
LEMMA SendResponseKeepsFlight ==
    ASSUME SystemInv, NEW e \in Conns, SendResponse(e), NEW c \in Requesters, FlightOf(c)
    PROVE  FlightOf(c)'
<1>1. /\ ProgramTypes
      /\ at[e] = "respond" /\ e \in Servers
      /\ request' = [request EXCEPT ![e] = NoRequest] /\ at' = [at EXCEPT ![e] = "dispatch"]
      /\ UNCHANGED <<listeners, requests, answers>>
      /\ Write(e, Response(Answered(e)))
  BY DEF SendResponse, GoTo, SystemInv, ProgramsInv, PlaceInv
<1>2. PICK b, from, number, old, new :
        /\ b = Response(Answered(e)) /\ from = request[e].from /\ number = request[e].number
        /\ old = <<"asked", e, 0>> /\ new = <<"queued", e, Len(written[e]) + 1>>
  OBVIOUS
<1>3. request[e] = [from |-> from, number |-> number] /\ b \in SystemMessages
  BY <1>1, <1>2, ResponsesAreMessages
<1>4. b.kind = "response" /\ b.from = from /\ b.number = number
  BY <1>2, <1>3, Bodies DEF Answered
<1>5. c \in Conns /\ c # e /\ at'[c] = at[c] /\ requests'[c] = requests[c] /\ answers'[c] = answers[c]
  BY <1>1, ProgramsDiffer DEF ProgramTypes
<1>6. \A d \in Conns : d # e => at'[d] = at[d] /\ request'[d] = request[d]
  BY <1>1 DEF ProgramTypes
<1>7. at'[e] = "dispatch"
  BY <1>1 DEF ProgramTypes
<1>8. ASSUME NEW x, NEW m, Asked(c, x, m)' PROVE Asked(c, x, m) /\ x # old
  <2>1. PICK d \in Conns : /\ at'[d] = "respond" /\ request'[d] = [from |-> c, number |-> m]
                           /\ x = <<"asked", d, 0>>
    BY <1>8 DEF Asked
  <2>2. d # e
    BY <1>7, <2>1
  <2>3. Asked(c, x, m)
    BY <1>6, <2>1, <2>2 DEF Asked
  <2>4. x # old
    BY <1>2, <2>1, <2>2
  <2> QED BY <2>3, <2>4
<1>9. ASSUME NEW x, NEW m, InFlight(c, x, m)'
      PROVE  \/ InFlight(c, x, m) /\ x # old
             \/ Concerns(b, c) /\ m = number /\ x = new
  <2>1. \/ Queued(c, x, m) \/ Routed(c, x, m) \/ Delivered(c, x, m)
        \/ Asked(c, x, m) /\ x # old
        \/ Concerns(b, c) /\ m = number /\ x = new
    BY <1>1, <1>2, <1>3, <1>4, <1>8, <1>9, WriteQueues DEF InFlight
  <2> QED BY <1>2, <2>1, PlacesDiffer DEF InFlight
<1>10. CASE c = from
  <2>1. InFlight(c, old, number)
    BY <1>1, <1>2, <1>3, <1>10 DEF InFlight, Asked
  <2>2. \A x, m : InFlight(c, x, m)' =>
          (x = new /\ m = number) \/ (InFlight(c, x, m) /\ x # old)
    BY <1>9
  <2> QED BY <1>5, <2>1, <2>2, FlightMoved
<1>11. CASE c # from
  <2>1. ~Concerns(b, c)
    BY <1>4, <1>11 DEF Concerns
  <2> QED BY <1>5, <1>9, <2>1, FlightKept
<1> QED BY <1>10, <1>11

(* What is read is no longer under way.                                    *)
LEMMA TakeDelivers ==
    ASSUME SystemInv, NEW e \in Conns, Take(e), written' = written, NEW c, NEW x, NEW m
    PROVE  /\ Queued(c, x, m)' => Queued(c, x, m)
           /\ Routed(c, x, m)' => Routed(c, x, m)
           /\ Delivered(c, x, m)' =>
                Delivered(c, x, m) /\ x # <<"delivered", e, taken[e] + 1>>
           /\ Concerns(BodyOf(Incoming(e)), c) =>
                Delivered(c, <<"delivered", e, taken[e] + 1>>, BodyOf(Incoming(e)).number)
<1>1. /\ taken' = [taken EXCEPT ![e] = @ + 1]
      /\ UNCHANGED <<pc, routes, loop, inq, out>>
  BY DEF Take
<1>2. taken \in [Conns -> Nat]
  BY DEF SystemInv, IInv, TypeOK, NetworkTypeOK
<1>3. /\ \A d \in Conns : taken'[d] \in Nat /\ taken[d] <= taken'[d]
      /\ taken'[e] = taken[e] + 1 /\ taken[e] + 1 > taken[e]
  BY <1>1, <1>2
<1>4. WritingsPersist
  BY DEF WritingsPersist
<1>5. Delivered(c, x, m)' =>
        Delivered(c, x, m) /\ x # <<"delivered", e, taken'[e]>>
  BY <1>1, <1>3, <1>4, DeliveredKept
<1>6. taken[e] + 1 \in 1 .. Len(out[e])
  BY IncomingIsWritten
<1>7. Concerns(BodyOf(Incoming(e)), c) =>
        Delivered(c, <<"delivered", e, taken[e] + 1>>, BodyOf(Incoming(e)).number)
  BY <1>3, <1>6 DEF Delivered, Incoming
<1>8. Queued(c, x, m)' => Queued(c, x, m)
  BY <1>1, QueuedKept
<1>9. Routed(c, x, m)' => Routed(c, x, m)
  BY <1>1, RouterIdle
<1> QED BY <1>3, <1>5, <1>7, <1>8, <1>9

LEMMA DispatchRequestKeepsFlight ==
    ASSUME SystemInv, NEW e \in Conns, DispatchRequest(e), NEW c \in Requesters, FlightOf(c)
    PROVE  FlightOf(c)'
<1>1. /\ ProgramTypes
      /\ at[e] = "dispatch" /\ e \in Servers /\ Take(e)
      /\ UNCHANGED <<listeners, requests, written, answers>>
  BY DEF DispatchRequest, SystemInv, ProgramsInv, PlaceInv
<1>2. c \in Conns /\ c # e
  BY <1>1, ProgramsDiffer
<1>3. PICK body, old, new, number :
        /\ body = BodyOf(Incoming(e)) /\ old = <<"delivered", e, taken[e] + 1>>
        /\ new = <<"asked", e, 0>> /\ number = body.number
  OBVIOUS
<1>4. ASSUME NEW x, NEW m, InFlight(c, x, m)', ~Asked(c, x, m)'
      PROVE  InFlight(c, x, m) /\ x # old
  <2>1. \/ Queued(c, x, m) \/ Routed(c, x, m)
        \/ Delivered(c, x, m) /\ x # old
    BY <1>1, <1>3, <1>4, TakeDelivers DEF InFlight
  <2> QED BY <1>3, <2>1, PlacesDiffer DEF InFlight
<1>5. CASE UNCHANGED <<request, at>>
  <2>1. ASSUME NEW x, NEW m, InFlight(c, x, m)' PROVE InFlight(c, x, m)
    <3>1. Asked(c, x, m)' => InFlight(c, x, m)
      BY <1>5, AskedKept DEF InFlight
    <3> QED BY <1>4, <2>1, <3>1
  <2> QED BY <1>1, <1>2, <1>5, <2>1, FlightKept
<1>6. CASE /\ body.request
           /\ request' = [request EXCEPT ![e] = [from |-> body.from, number |-> body.number]]
           /\ at' = [at EXCEPT ![e] = "respond"]
  <2>1. body.kind = "request"
    BY <1>1, <1>3, <1>6, TakenUpRequest
  <2>2. /\ at'[e] = "respond" /\ request'[e] = [from |-> body.from, number |-> number]
        /\ \A d \in Conns : d # e => at'[d] = at[d] /\ request'[d] = request[d]
    BY <1>1, <1>3, <1>6 DEF ProgramTypes
  <2>3. ASSUME NEW x, NEW m, Asked(c, x, m)'
        PROVE  \/ InFlight(c, x, m) /\ x # old
               \/ c = body.from /\ m = number /\ x = new
    <3>1. PICK d \in Conns : /\ at'[d] = "respond" /\ request'[d] = [from |-> c, number |-> m]
                             /\ x = <<"asked", d, 0>>
      BY <2>3 DEF Asked
    <3>2. CASE d = e
      <4>1. [from |-> body.from, number |-> number] = [from |-> c, number |-> m]
        BY <2>2, <3>1, <3>2
      <4>2. /\ [from |-> body.from, number |-> number].from = body.from
            /\ [from |-> c, number |-> m].from = c
            /\ [from |-> body.from, number |-> number].number = number
            /\ [from |-> c, number |-> m].number = m
        OBVIOUS
      <4>3. body.from = c /\ number = m
        BY <4>1, <4>2
      <4> QED BY <1>3, <3>1, <3>2, <4>3
    <3>3. CASE d # e
      <4>1. Asked(c, x, m)
        BY <2>2, <3>1, <3>3 DEF Asked
      <4> QED BY <1>3, <3>1, <4>1 DEF InFlight
    <3> QED BY <3>2, <3>3
  <2>4. \A x, m : InFlight(c, x, m)' =>
          \/ InFlight(c, x, m) /\ x # old
          \/ c = body.from /\ m = number /\ x = new
    BY <1>4, <2>3
  <2>5. at'[c] = at[c] /\ requests'[c] = requests[c] /\ answers'[c] = answers[c]
    BY <1>1, <1>2, <2>2
  <2>6. CASE c = body.from
    <3>1. Concerns(body, c)
      BY <2>1, <2>6 DEF Concerns
    <3>2. InFlight(c, old, number)
      BY <1>1, <1>3, <3>1, TakeDelivers DEF InFlight
    <3>3. \A x, m : InFlight(c, x, m)' =>
            (x = new /\ m = number) \/ (InFlight(c, x, m) /\ x # old)
      BY <2>4
    <3> QED BY <1>2, <2>5, <3>2, <3>3, FlightMoved
  <2>7. CASE c # body.from
    <3>1. \A x, m : InFlight(c, x, m)' => InFlight(c, x, m)
      BY <2>4, <2>7
    <3> QED BY <1>2, <2>5, <3>1, FlightKept
  <2> QED BY <2>6, <2>7
<1> QED BY <1>3, <1>5, <1>6 DEF DispatchRequest, GoTo

(* A response that the listener of an inbox gets is for the program whose  *)
(* inbox it is.                                                            *)
LEMMA ResponseIsMine ==
    ASSUME SystemInv, NEW c \in Conns, Take(c),
           ListenerOf(c, Incoming(c)) = Inbox[c], BodyOf(Incoming(c)).kind = "response"
    PROVE  BodyOf(Incoming(c)).from = c
<1>0. PICK x : x = Incoming(c)
  OBVIOUS
<1>1. PICK b : x = Incoming(c) /\ b = BodyOf(x)
  BY <1>0, SMTT(40)
<1>2. /\ taken[c] + 1 \in 1 .. Len(out[c]) /\ x = out[c][taken[c] + 1]
      /\ x.src \in Conns /\ x.seq \in 1 .. Len(written[x.src]) /\ x.topic = b.topic
      /\ b = written[x.src][x.seq]
  BY <1>1, IncomingIsWritten DEF Incoming, BodyOf
<1>3. PICK d \in Requesters : b.from = d /\ b.topic = Inbox[d]
  <2>1. b.kind = "response"
    BY <1>1
  <2>2. ProgramsInv
    BY Zenon DEF SystemInv
  <2>3. \E d \in Requesters, m \in 1 .. MaxRequests :
          /\ b.from = d /\ b.number = m
          /\ b.kind = "request" => b.topic = Service
          /\ b.kind = "response" => b.topic = Inbox[d]
    <3>1. PICK src, seq : src = Incoming(c).src /\ seq = Incoming(c).seq
      OBVIOUS
    <3>2. /\ src \in Conns /\ seq \in 1 .. Len(written[src])
          /\ BodyOf(Incoming(c)) = written[src][seq]
      BY <3>1, IncomingIsWritten DEF BodyOf
    <3>3. b = written[src][seq]
      BY <1>1, <3>2, Zenon
    <3> QED BY <2>1, <2>2, <3>2, <3>3, WrittenRequests
  <2> QED BY <2>1, <2>3, Zenon
<1>4. PICK route \in subs : route.client = c /\ route.id = x.id /\ Match(x.topic, route.exp)
  <2>1. OnlyToSubscribers
    BY Zenon DEF SystemInv, IInv
  <2> QED BY <1>2, <2>1, ZenonT(40) DEF OnlyToSubscribers
<1>5. x.id \in 1 .. Len(listeners[c]) /\ route.exp = listeners[c][x.id]
  BY <1>4 DEF SystemInv, ProgramsInv, TableInv, SubsInv, IsListener
<1>6. listeners[c] \in Seq(Offered)
  BY DEF SystemInv, ProgramsInv, ProgramTypes
<1>7. listeners[c][x.id] = Inbox[c]
  <2>1. DOMAIN listeners[c] = 1 .. Len(listeners[c])
    BY <1>6, SMTT(30)
  <2> QED BY <1>1, <1>5, <2>1 DEF ListenerOf
<1>8. Inbox[d] = Inbox[c] /\ d \in Conns
  BY <1>2, <1>3, <1>4, <1>5, <1>7, TopicsDiffer, ProgramsDiffer
<1> QED BY <1>1, <1>3, <1>8, TopicsDiffer

LEMMA DispatchResponseKeepsFlight ==
    ASSUME SystemInv, NEW e \in Conns, DispatchResponse(e), NEW c \in Requesters, FlightOf(c)
    PROVE  FlightOf(c)'
<1>1. /\ ProgramTypes /\ at[e] = "wait" /\ Take(e)
      /\ UNCHANGED <<listeners, requests, request, written>>
  BY DEF DispatchResponse, SystemInv, ProgramsInv
<1>2. c \in Conns
  BY ProgramsDiffer
<1>3. PICK body, old, number :
        /\ body = BodyOf(Incoming(e)) /\ old = <<"delivered", e, taken[e] + 1>>
        /\ number = body.number
  OBVIOUS
<1>4. ASSUME NEW x, NEW m, InFlight(c, x, m)',
             \A d \in Conns : at'[d] = "respond" => at[d] = "respond"
      PROVE  InFlight(c, x, m) /\ x # old
  <2>1. \/ Queued(c, x, m) \/ Routed(c, x, m) \/ Asked(c, x, m)
        \/ Delivered(c, x, m) /\ x # old
    BY <1>1, <1>3, <1>4, TakeDelivers, AskedKept DEF InFlight
  <2> QED BY <1>3, <2>1, PlacesDiffer DEF InFlight
<1>5. CASE UNCHANGED <<answers, at>>
  BY <1>1, <1>2, <1>4, <1>5, FlightKept
<1>6. CASE /\ ListenerOf(e, Incoming(e)) = Inbox[e] /\ body.kind = "response"
           /\ answers' = [answers EXCEPT ![e] = Append(@, body.number)]
           /\ at' = [at EXCEPT ![e] = "ask"]
  <2>1. at'[e] = "ask" /\ \A d \in Conns : d # e => at'[d] = at[d] /\ answers'[d] = answers[d]
    BY <1>1, <1>6 DEF ProgramTypes
  <2>2. \A x, m : InFlight(c, x, m)' => InFlight(c, x, m) /\ x # old
    BY <1>4, <2>1
  <2>3. CASE c # e
    BY <1>1, <1>2, <2>1, <2>2, <2>3, FlightKept
  <2>4. CASE c = e
    <3>1. Concerns(body, c)
      BY <1>1, <1>3, <1>6, <2>4, ResponseIsMine DEF Concerns
    <3>2. InFlight(c, old, number)
      BY <1>1, <1>3, <2>4, <3>1, TakeDelivers DEF InFlight
    <3>3. \A x, m : ~InFlight(c, x, m)'
      BY <2>2, <3>2 DEF FlightOf
    <3>4. /\ number = requests[c] /\ requests[c] = Len(answers[c]) + 1
          /\ \A k \in 1 .. Len(answers[c]) : answers[c][k] = k
      BY <3>2 DEF FlightOf
    <3>5. number \in Numbers /\ answers[c] \in Seq(Numbers)
      BY <1>1, <1>2, <3>4 DEF ProgramTypes
    <3>6. answers'[c] = Append(answers[c], number)
      BY <1>1, <1>2, <1>3, <1>6, <2>4 DEF ProgramTypes
    <3>7. /\ Len(answers'[c]) = Len(answers[c]) + 1 /\ Len(answers[c]) \in Nat
          /\ \A k \in 1 .. Len(answers[c]) : answers'[c][k] = answers[c][k]
          /\ answers'[c][Len(answers[c]) + 1] = number
      BY <3>5, <3>6
    <3>8. \A k \in 1 .. Len(answers'[c]) : answers'[c][k] = k
      <4> SUFFICES ASSUME NEW k \in 1 .. Len(answers'[c]) PROVE answers'[c][k] = k
        OBVIOUS
      <4>1. CASE k = Len(answers[c]) + 1
        BY <3>4, <3>7, <4>1
      <4>2. CASE k # Len(answers[c]) + 1
        <5>1. k \in 1 .. Len(answers[c])
          BY <3>7, <4>2
        <5> QED BY <3>4, <3>7, <5>1
      <4> QED BY <4>1, <4>2
    <3>9. requests'[c] = Len(answers'[c]) /\ at'[c] # "wait"
      BY <1>1, <2>1, <2>4, <3>4, <3>7
    <3> QED BY <3>3, <3>8, <3>9 DEF FlightOf
  <2> QED BY <2>3, <2>4
<1> QED BY <1>3, <1>5, <1>6 DEF DispatchResponse, GoTo

AnswersInv == OneServer => FlightInv

LEMMA InitEstablishesAnswersInv == SystemInit => AnswersInv
<1> SUFFICES ASSUME SystemInit, NEW c \in Requesters PROVE FlightOf(c)
  BY DEF AnswersInv, FlightInv
<1>1. c \in Conns
  BY ProgramsDiffer
<1>2. \A x, m : ~InFlight(c, x, m)
  BY DEF SystemInit, Init, InFlight, Queued, Routed, Delivered, Asked
<1>3. at[c] = "off" /\ requests[c] = 0 /\ answers[c] = <<>>
  BY <1>1 DEF SystemInit
<1> QED BY <1>2, <1>3 DEF FlightOf

LEMMA EveryStepKeepsAnswersInv ==
    SystemInv /\ AnswersInv /\ [SystemNext]_systemVars => AnswersInv'
<1> SUFFICES ASSUME SystemInv, OneServer, [SystemNext]_systemVars,
                    NEW c \in Requesters, FlightOf(c)
             PROVE  FlightOf(c)'
  BY DEF AnswersInv, OneServer, FlightInv
<1>1. CASE RouterStep
  BY <1>1, RouterKeepsFlight
<1>2. ASSUME NEW e \in Conns, Create(e) \/ Program(e) PROVE FlightOf(c)'
  BY <1>2, CreateKeepsFlight, ListenKeepsFlight, SendRequestKeepsFlight,
     SendResponseKeepsFlight, DispatchRequestKeepsFlight, DispatchResponseKeepsFlight DEF Program
<1>3. CASE UNCHANGED systemVars
  <2>1. /\ UNCHANGED <<at, requests, request, written, answers, pc, loop, routes, inq, out, taken>>
        /\ c \in Conns
    BY <1>3, ProgramsDiffer DEF systemVars, vars, programs, network
  <2>2. WritingsPersist /\ \A d \in Conns : taken'[d] \in Nat /\ taken[d] <= taken'[d]
    BY <2>1, QueueTypes DEF WritingsPersist
  <2>3. ASSUME NEW x, NEW m, InFlight(c, x, m)' PROVE InFlight(c, x, m)
    BY <2>1, <2>2, <2>3, QueuedKept, RouterIdle, DeliveredKept, AskedKept DEF InFlight
  <2> QED BY <2>1, <2>3, FlightKept
<1> QED BY <1>1, <1>2, <1>3 DEF SystemNext

LEMMA AnswersInvariant == SystemSpec => []AnswersInv
BY InitEstablishesAnswersInv, EveryStepKeepsAnswersInv, SystemInvariant, PTL DEF SystemSpec

(* With one server each request returns the response to itself, however    *)
(* many ask meanwhile (rtConnection.c:371-418, sample_res.c:27-47).        *)
THEOREM SystemAnswersMatch == SystemSpec => []AnswersMatch
<1>1. SystemInv /\ AnswersInv => AnswersMatch
  <2> SUFFICES ASSUME SystemInv, AnswersInv, Cardinality(Servers) = 1,
                      NEW c \in Requesters, NEW k \in DOMAIN answers[c]
               PROVE  answers[c][k] = k
    BY DEF AnswersMatch
  <2>1. OneServer
    <3>1. PICK s : Servers = {s}
      BY ProgramsAssumption, FS_Singleton
    <3> QED BY <3>1, ProgramsDiffer DEF OneServer
  <2>2. FlightOf(c)
    BY <2>1 DEF AnswersInv, FlightInv
  <2>3. answers[c] \in Seq(Numbers)
    BY ProgramsDiffer DEF SystemInv, ProgramsInv, ProgramTypes
  <2> QED BY <2>2, <2>3 DEF FlightOf
<1> QED BY <1>1, SystemInvariant, AnswersInvariant, PTL

-----------------------------------------------------------------------------
(***************************************************************************)
(* The router and a program never wait for each other.                     *)
(***************************************************************************)

(* The route that is taken tells who the message is for.                   *)
LEMMA WhoIsServed ==
    ASSUME SystemInv, AtMatch("Forward")
    PROVE  /\ routes[j].client \in Conns
           /\ \E c \in Requesters, m \in 1 .. MaxRequests :
                /\ Routed(c, <<"routed", msg.src, msg.seq>>, m)
                /\ \/ /\ routes[j].client \in Servers /\ at[routes[j].client] \in {"dispatch", "respond"}
                      /\ routes[j].exp = Service /\ routes[j].id = 2
                   \/ routes[j].client = c
<1>1. /\ pc = "dispatch" /\ j <= nr /\ routes[j].handler = "Forward"
      /\ Match(msg.m.topic, routes[j].exp)
  BY DEF AtMatch, AtEntry
<1>2. j \in 1 .. nr /\ j \in 1 .. Len(routes) /\ nr \in Nat /\ msg.src \in Conns
  BY <1>1 DEF SystemInv, IInv, DispatchInv, LoopsStayInside, TypeOK, LoopTypeOK, TableTypeOK, SentMessages
<1>3. PICK r : r = routes[j]
  OBVIOUS
<1>4. ProgramsInv
  BY DEF SystemInv
<1>5. r.client \in Conns /\ r.id \in 1 .. Len(listeners[r.client]) /\ r.exp = listeners[r.client][r.id]
  BY <1>1, <1>2, <1>3, <1>4 DEF ProgramsInv, TableInv, BehindInv, IsListener
<1>6. /\ \/ r.id = 1 /\ r.exp = Inbox[r.client]
         \/ r.id = 2 /\ r.exp = Service /\ r.client \in Servers
      /\ at[r.client] \notin {"off", "create"}
  BY <1>4, <1>5, ListenersById DEF ProgramsInv
<1>7. PICK b : b = msg.m
  OBVIOUS
<1>8. PICK src, seq : src = msg.src /\ seq = msg.seq
  OBVIOUS
<1>9. seq \in 1 .. Len(written[src]) /\ b = written[src][seq] /\ src \in Conns
  BY <1>1, <1>2, <1>4, <1>7, <1>8 DEF ProgramsInv, CarriedInv
<1>10. b.kind \in {"request", "response"}
  <2>1. CASE seq <= Len(listeners[src])
    <3>1. b = Subscription(listeners[src][seq], seq)
      BY <1>4, <1>9, <2>1 DEF ProgramsInv, WrittenInv
    <3>2. b.topic = SubscribeTopic
      BY <3>1, Bodies
    <3>3. r.exp \in Offered /\ Match(b.topic, r.exp)
      BY <1>1, <1>3, <1>5, <1>6, <1>7, TopicsDiffer
    <3> QED BY <3>2, <3>3, TopicsDiffer
  <2>2. CASE ~(seq <= Len(listeners[src]))
    <3>1. Later(src, b)
      BY <1>4, <1>9, <2>2 DEF ProgramsInv, WrittenInv
    <3>2. CASE \E m \in 1 .. MaxRequests : b = Request(src, m)
      BY <3>2, Bodies
    <3>3. CASE \E d \in Requesters, m \in 1 .. MaxRequests : b = Response([from |-> d, number |-> m])
      BY <3>3, Bodies
    <3> QED BY <3>1, <3>2, <3>3 DEF Later
  <2> QED BY <2>1, <2>2
<1>11. PICK c \in Requesters, m \in 1 .. MaxRequests :
         /\ b.from = c /\ b.number = m
         /\ b.kind = "request" => b.topic = Service
         /\ b.kind = "response" => b.topic = Inbox[c]
  BY <1>4, <1>9, <1>10, WrittenRequests
<1>12. Routed(c, <<"routed", msg.src, msg.seq>>, m)
  BY <1>1, <1>2, <1>7, <1>10, <1>11 DEF Routed, Concerns
<1>13. b.topic = r.exp
  BY <1>1, <1>3, <1>5, <1>6, <1>7, <1>10, <1>11, TopicsDiffer, ProgramsDiffer
<1>14. c \in Conns
  BY ProgramsDiffer
<1>15. CASE b.topic = Service
  <2>1. r.id = 2 /\ r.exp = Service /\ r.client \in Servers
    BY <1>5, <1>6, <1>13, <1>15, TopicsDiffer
  <2>2. at[r.client] \in {"dispatch", "respond"}
    <3>1. Len(<<Inbox[r.client]>>) = 1
      OBVIOUS
    <3>2. at[r.client] \in {"listen", "ask", "wait"} => Len(listeners[r.client]) = 1
      BY <1>4, <1>5, <3>1 DEF ProgramsInv, PlaceInv
    <3> QED BY <1>4, <1>5, <1>6, <2>1, <3>2 DEF ProgramsInv, ProgramTypes
  <2> QED BY <1>3, <1>5, <1>12, <2>1, <2>2
<1>16. CASE b.topic = Inbox[c]
  <2>1. r.client = c
    BY <1>5, <1>6, <1>13, <1>14, <1>16, TopicsDiffer
  <2> QED BY <1>3, <1>5, <1>12, <2>1
<1> QED BY <1>10, <1>11, <1>15, <1>16

(* What a server has not read are requests.                                *)
LEMMA UnreadAreRequests ==
    ASSUME SystemInv, NEW s \in Servers, NEW k \in 1 .. Len(out[s]), k > taken[s]
    PROVE  \E c \in Requesters, m \in 1 .. MaxRequests :
             Delivered(c, <<"delivered", s, k>>, m)
<1>1. PICK x : x = out[s][k]
  OBVIOUS
<1>2. PICK src, seq : src = x.src /\ seq = x.seq
  OBVIOUS
<1>3. ProgramsInv /\ OnlyToSubscribers /\ s \in Conns
  BY ProgramsDiffer DEF SystemInv, IInv
<1>4. PICK b : b = written[src][seq]
  OBVIOUS
<1>5. src \in Conns /\ seq \in 1 .. Len(written[src]) /\ x.topic = b.topic
  BY <1>1, <1>2, <1>3, <1>4, QueueTypes, ZenonT(40) DEF ProgramsInv, CarriedInv
<1>6. PICK route \in subs : route.client = s /\ Match(x.topic, route.exp)
  BY <1>1, <1>3 DEF OnlyToSubscribers
<1>7. route.id \in 1 .. Len(listeners[s]) /\ route.exp = listeners[s][route.id]
  BY <1>3, <1>6 DEF ProgramsInv, TableInv, SubsInv, IsListener
<1>8. route.exp \in {Service, Inbox[s]} /\ route.exp \in Offered
  BY <1>3, <1>7, ListenersById, TopicsDiffer DEF ProgramsInv
<1>9. b.kind \in {"request", "response"}
  <2>1. CASE seq <= Len(listeners[src])
    <3>1. b = Subscription(listeners[src][seq], seq)
      BY <1>3, <1>4, <1>5, <2>1 DEF ProgramsInv, WrittenInv
    <3>2. b.topic = SubscribeTopic
      BY <3>1, Bodies
    <3> QED BY <1>5, <1>6, <1>8, <3>2, TopicsDiffer
  <2>2. CASE ~(seq <= Len(listeners[src]))
    <3>1. Later(src, b)
      BY <1>3, <1>4, <1>5, <2>2 DEF ProgramsInv, WrittenInv
    <3>2. CASE \E m \in 1 .. MaxRequests : b = Request(src, m)
      BY <3>2, Bodies
    <3>3. CASE \E d \in Requesters, m \in 1 .. MaxRequests : b = Response([from |-> d, number |-> m])
      BY <3>3, Bodies
    <3> QED BY <3>1, <3>2, <3>3 DEF Later
  <2> QED BY <2>1, <2>2
<1>10. PICK c \in Requesters, m \in 1 .. MaxRequests : b.from = c /\ b.number = m
  BY <1>3, <1>4, <1>5, <1>9, WrittenRequests, SMTT(40)
<1>11. BodyOf(out[s][k]) = b
  BY <1>1, <1>2, <1>4 DEF BodyOf
<1>12. Delivered(c, <<"delivered", s, k>>, m)
  BY <1>3, <1>9, <1>10, <1>11 DEF Delivered, Concerns
<1> QED BY <1>12

(* What waits for the router from a server it knows are responses.         *)
LEMMA QueuedAreResponses ==
    ASSUME SystemInv, NEW s \in Servers, at[s] = "respond",
           NEW k \in 1 .. Len(inq[s]), inq[s][k].seq > 2
    PROVE  \E c \in Requesters, m \in 1 .. MaxRequests :
             Queued(c, <<"queued", s, inq[s][k].seq>>, m)
<1>1. PICK seq, b : seq = inq[s][k].seq /\ b = inq[s][k].m
  OBVIOUS
<1>2. ProgramsInv /\ s \in Conns
  BY ProgramsDiffer DEF SystemInv
<1>3. seq \in 1 .. Len(written[s]) /\ b = written[s][seq]
  BY <1>1, <1>2 DEF ProgramsInv, CarriedInv
<1>4. listeners[s] = <<Inbox[s], Service>>
  BY <1>2 DEF ProgramsInv, PlaceInv
<1>5. Len(listeners[s]) = 2
  BY <1>4
<1>6. ~(seq <= Len(listeners[s]))
  BY <1>1, <1>2, <1>5, QueueTypes
<1>7. Later(s, b)
  BY <1>2, <1>3, <1>6 DEF ProgramsInv, WrittenInv
<1>8. b.kind \in {"request", "response"}
  <2>1. CASE \E m \in 1 .. MaxRequests : b = Request(s, m)
    BY <2>1, Bodies
  <2>2. CASE \E d \in Requesters, m \in 1 .. MaxRequests : b = Response([from |-> d, number |-> m])
    BY <2>2, Bodies
  <2> QED BY <1>7, <2>1, <2>2 DEF Later
<1>9. PICK c \in Requesters, m \in 1 .. MaxRequests : b.from = c /\ b.number = m
  BY <1>2, <1>3, <1>8, WrittenRequests
<1>10. Queued(c, <<"queued", s, inq[s][k].seq>>, m)
  BY <1>1, <1>2, <1>8, <1>9 DEF Queued, Concerns
<1> QED BY <1>10

(* In a circle a server would have responses in each place of its queue to *)
(* the router, requests in each place of the queue from it, a request in   *)
(* hand, and the router one more.                                          *)
LEMMA CircleNeedsRequesters ==
    ASSUME SystemInv, FlightInv, NEW s \in Servers, at[s] = "respond",
           ~HasRoom(s), Unread(s) >= SendCap,
           pc = "dispatch", j \in 1 .. Len(routes), routes[j].handler = "Forward",
           routes[j].client = s, routes[j].id = 2,
           \E c \in Requesters, m \in 1 .. MaxRequests :
               Routed(c, <<"routed", msg.src, msg.seq>>, m)
    PROVE  Cardinality(Requesters) >= RecvCap + SendCap + 2
<1> DEFINE Slots == 1 .. (SendCap + RecvCap + 2)
           Unreads(k) == <<"delivered", s, taken[s] + k>>
           Waiting(k) == <<"queued", s, inq[s][k - SendCap].seq>>
           InHand == <<"asked", s, 0>>
           Coming == <<"routed", msg.src, msg.seq>>
           Token(k) ==
               IF k <= SendCap THEN Unreads(k)
               ELSE IF k <= SendCap + RecvCap THEN Waiting(k)
               ELSE IF k = SendCap + RecvCap + 1 THEN InHand ELSE Coming
           Whose(k) == CHOOSE c \in Requesters : \E m : InFlight(c, Token(k), m)
           whose == [k \in Slots |-> Whose(k)]
<1>1. /\ RecvCap \in Nat /\ SendCap \in Nat /\ s \in Conns
      /\ Len(inq[s]) \in Nat /\ Len(out[s]) \in Nat /\ taken[s] \in Nat
  BY ProgramsAssumption, BoundsAssumption, ProgramsDiffer, QueueTypes
<1>2. Len(inq[s]) >= RecvCap /\ taken[s] + SendCap <= Len(out[s])
  BY <1>1, SMTT(40) DEF HasRoom, Unread
<1>3. \A k \in 1 .. Len(inq[s]) : inq[s][k].seq > 2 /\ inq[s][k].seq \in Nat
  BY <1>1, QueueTypes DEF SystemInv, ProgramsInv, TableInv, BehindInv
<1>4. \A k \in Slots :
        /\ \/ k <= SendCap
           \/ ~(k <= SendCap) /\ k <= SendCap + RecvCap
           \/ k = SendCap + RecvCap + 1
           \/ k = SendCap + RecvCap + 2
        /\ k <= SendCap => taken[s] + k \in 1 .. Len(out[s]) /\ taken[s] + k > taken[s]
        /\ ~(k <= SendCap) /\ k <= SendCap + RecvCap => k - SendCap \in 1 .. Len(inq[s])
        /\ k = SendCap + RecvCap + 1 => ~(k <= SendCap) /\ ~(k <= SendCap + RecvCap)
        /\ k = SendCap + RecvCap + 2 =>
             ~(k <= SendCap) /\ ~(k <= SendCap + RecvCap) /\ k # SendCap + RecvCap + 1
  <2>1. PICK a, b, q, o, t : /\ a = SendCap /\ b = RecvCap /\ q = Len(inq[s])
                            /\ o = Len(out[s]) /\ t = taken[s]
    OBVIOUS
  <2>2. a \in Nat /\ b \in Nat /\ q \in Nat /\ o \in Nat /\ t \in Nat /\ q >= b /\ t + a <= o
    BY <1>1, <1>2, <2>1
  <2>3. \A k \in 1 .. (a + b + 2) :
          /\ \/ k <= a
             \/ ~(k <= a) /\ k <= a + b
             \/ k = a + b + 1
             \/ k = a + b + 2
          /\ k <= a => t + k \in 1 .. o /\ t + k > t
          /\ ~(k <= a) /\ k <= a + b => k - a \in 1 .. q
          /\ k = a + b + 1 => ~(k <= a) /\ ~(k <= a + b)
          /\ k = a + b + 2 => ~(k <= a) /\ ~(k <= a + b) /\ k # a + b + 1
    BY <2>2
  <2> QED BY <2>1, <2>3, Zenon
<1>5. \A x, y, z, w :
        /\ <<"delivered", s, x>> # <<"queued", s, y>>
        /\ <<"delivered", s, x>> # <<"asked", s, 0>>
        /\ <<"delivered", s, x>> # <<"routed", z, w>>
        /\ <<"queued", s, x>> # <<"asked", s, 0>>
        /\ <<"queued", s, x>> # <<"routed", z, w>>
        /\ <<"asked", s, 0>> # <<"routed", z, w>>
        /\ <<"delivered", s, x>> = <<"delivered", s, y>> => x = y
        /\ <<"queued", s, x>> = <<"queued", s, y>> => x = y
  BY SMT
<1>6. \A k, l :
        /\ Unreads(k) # Waiting(l) /\ Unreads(k) # InHand /\ Unreads(k) # Coming
        /\ Waiting(k) # InHand /\ Waiting(k) # Coming /\ InHand # Coming
        /\ Unreads(k) = Unreads(l) => taken[s] + k = taken[s] + l
        /\ Waiting(k) = Waiting(l) => inq[s][k - SendCap].seq = inq[s][l - SendCap].seq
  BY <1>5, Zenon
<1>7. \A k \in Slots :
        /\ k <= SendCap => Token(k) = Unreads(k)
        /\ ~(k <= SendCap) /\ k <= SendCap + RecvCap => Token(k) = Waiting(k)
        /\ k = SendCap + RecvCap + 1 => Token(k) = InHand
        /\ k = SendCap + RecvCap + 2 => Token(k) = Coming
  BY <1>4, Zenon
<1> HIDE DEF Token
<1>8. ASSUME NEW k \in Slots PROVE \E c \in Requesters : \E m : InFlight(c, Token(k), m)
  <2>1. CASE k <= SendCap
    <3>1. taken[s] + k \in 1 .. Len(out[s]) /\ taken[s] + k > taken[s]
      BY <1>4, <2>1
    <3>2. PICK c \in Requesters, m \in 1 .. MaxRequests : Delivered(c, Unreads(k), m)
      BY <3>1, UnreadAreRequests
    <3> QED BY <1>7, <2>1, <3>2 DEF InFlight
  <2>2. CASE ~(k <= SendCap) /\ k <= SendCap + RecvCap
    <3>1. k - SendCap \in 1 .. Len(inq[s])
      BY <1>4, <2>2
    <3>2. PICK c \in Requesters, m \in 1 .. MaxRequests : Queued(c, Waiting(k), m)
      BY <1>3, <3>1, QueuedAreResponses
    <3> QED BY <1>7, <2>2, <3>2 DEF InFlight
  <2>3. CASE k = SendCap + RecvCap + 1
    <3>1. PICK c \in Requesters : c = request[s].from
      BY <1>1, ResponsesAreMessages
    <3>2. PICK m : m = request[s].number
      OBVIOUS
    <3>3. Asked(c, InHand, m)
      BY <1>1, <3>1, <3>2, ResponsesAreMessages DEF Asked
    <3> QED BY <1>7, <2>3, <3>3 DEF InFlight
  <2>4. CASE k = SendCap + RecvCap + 2
    <3>1. PICK c \in Requesters, m \in 1 .. MaxRequests : Routed(c, Coming, m)
      OBVIOUS
    <3> QED BY <1>7, <2>4, <3>1 DEF InFlight
  <2> QED BY <1>4, <2>1, <2>2, <2>3, <2>4
<1>9. ASSUME NEW k \in Slots, NEW l \in Slots, Token(k) = Token(l) PROVE k = l
  <2>1. k \in Nat /\ l \in Nat
    BY <1>1, SMTT(40)
  <2> HIDE DEF Slots, Unreads, Waiting, InHand, Coming
  <2>2. \/ l <= SendCap /\ Token(l) = Unreads(l)
        \/ ~(l <= SendCap) /\ l <= SendCap + RecvCap /\ Token(l) = Waiting(l)
        \/ l = SendCap + RecvCap + 1 /\ Token(l) = InHand
        \/ l = SendCap + RecvCap + 2 /\ Token(l) = Coming
    BY <1>4, <1>7, Zenon
  <2>3. CASE k <= SendCap
    <3>1. Token(k) = Unreads(k)
      BY <1>7, <2>3
    <3>2. Token(l) = Unreads(l)
      <4>1. Unreads(k) # Waiting(l) /\ Unreads(k) # InHand /\ Unreads(k) # Coming
        BY <1>6, Zenon
      <4> QED BY <1>9, <2>2, <3>1, <4>1, Zenon
    <3>3. Unreads(k) = Unreads(l)
      BY <1>9, <3>1, <3>2, Zenon
    <3>4. taken[s] + k = taken[s] + l
      BY <1>6, <3>3, Zenon
    <3> QED BY <1>1, <2>1, <3>4
  <2>4. CASE ~(k <= SendCap) /\ k <= SendCap + RecvCap
    <3>1. Token(k) = Waiting(k)
      BY <1>7, <2>4
    <3>2. Token(l) = Waiting(l) /\ ~(l <= SendCap) /\ l <= SendCap + RecvCap
      <4>1. Unreads(l) # Waiting(k) /\ Waiting(k) # InHand /\ Waiting(k) # Coming
        BY <1>6, Zenon
      <4> QED BY <1>9, <2>2, <3>1, <4>1, Zenon
    <3>3. Waiting(k) = Waiting(l)
      BY <1>9, <3>1, <3>2, Zenon
    <3>4. inq[s][k - SendCap].seq = inq[s][l - SendCap].seq
      BY <1>6, <3>3, Zenon
    <3>5. PICK p \in 1 .. Len(inq[s]), q \in 1 .. Len(inq[s]) :
             p = k - SendCap /\ q = l - SendCap
      BY <1>4, <2>4, <3>2
    <3>6. inq[s][p].seq = inq[s][q].seq /\ inq[s][p].seq \in Nat
      BY <1>3, <3>4, <3>5
    <3>7. /\ p < q => inq[s][p].seq < inq[s][q].seq
          /\ q < p => inq[s][q].seq < inq[s][p].seq
      BY <1>1 DEF SystemInv, TurnInv, OrderInv
    <3>8. PICK u \in Nat : u = inq[s][p].seq /\ u = inq[s][q].seq
      BY <3>6
    <3>9. ~(p < q) /\ ~(q < p)
      BY <3>7, <3>8
    <3>10. p = q
      BY <1>1, <3>9
    <3> QED BY <1>1, <2>1, <3>5, <3>10
  <2>5. CASE k = SendCap + RecvCap + 1
    <3>1. Token(k) = InHand
      BY <1>7, <2>5
    <3> QED BY <1>6, <1>9, <2>2, <2>5, <3>1, Zenon
  <2>6. CASE k = SendCap + RecvCap + 2
    <3>1. Token(k) = Coming
      BY <1>7, <2>6
    <3> QED BY <1>6, <1>9, <2>2, <2>6, <3>1, Zenon
  <2> QED BY <1>4, <2>3, <2>4, <2>5, <2>6
<1>10. \A k \in Slots : whose[k] \in Requesters /\ \E m : InFlight(whose[k], Token(k), m)
  BY <1>8
<1>11. whose \in [Slots -> Requesters]
  BY <1>10
<1>12. IsFiniteSet(Slots) /\ Cardinality(Slots) = RecvCap + SendCap + 2
  <2>1. PICK u \in Nat : u = SendCap + RecvCap + 2
    BY <1>1
  <2>2. IsFiniteSet(1 .. u) /\ Cardinality(1 .. u) = u
    BY FS_Interval
  <2> QED BY <1>1, <2>1, <2>2
<1>13. IsFiniteSet(Requesters) /\ Cardinality(Requesters) \in Nat
  BY ProgramsAssumption, FS_CardinalityType
<1> HIDE DEF Slots, whose
<1>14. ASSUME Cardinality(Requesters) < RecvCap + SendCap + 2 PROVE FALSE
  <2>1. Cardinality(Requesters) < Cardinality(Slots)
    BY <1>12, <1>14
  <2>2. PICK k, l \in Slots : k # l /\ whose[k] = whose[l]
    BY <1>11, <1>12, <1>13, <2>1, FS_PigeonHole
  <2>3. PICK m, u : InFlight(whose[k], Token(k), m) /\ InFlight(whose[k], Token(l), u)
    BY <1>10, <2>2
  <2>4. Token(k) = Token(l)
    BY <1>10, <2>3 DEF FlightInv, FlightOf
  <2> QED BY <1>9, <2>2, <2>4
<1> QED BY <1>1, <1>13, <1>14

(* With one server, and fewer requesters than the two queues between it    *)
(* and the router hold, with one request at either end, the router never   *)
(* waits for a program that waits for it (rtrouted.c:216-238,              *)
(* rtConnection.c:460-478).                                                *)
THEOREM SystemNoCircle ==
    ASSUME Cardinality(Servers) = 1, Cardinality(Requesters) < RecvCap + SendCap + 2
    PROVE  SystemSpec => []NoCircle
<1>1. PICK s : Servers = {s}
  <2>1. IsFiniteSet(Servers)
    BY ProgramsAssumption
  <2> QED BY <2>1, FS_Singleton
<1>2. s \in Conns /\ s \in Servers
  BY <1>1, ProgramsDiffer
<1>3. ASSUME SystemInv, AnswersInv, NEW c \in Conns, RouterWaitsFor(c), WaitsForRouter(c)
      PROVE  FALSE
  <2>1. FlightInv
    BY <1>1, <1>2, <1>3 DEF AnswersInv, OneServer
  <2>2. /\ AtMatch("Forward") /\ routes[j].client = c /\ Unread(c) >= SendCap
        /\ ~HasRoom(c) /\ at[c] \in {"create", "listen", "respond", "ask"}
    BY <1>3 DEF RouterWaitsFor, WaitsForRouter
  <2>3. PICK d \in Requesters, m \in 1 .. MaxRequests :
           /\ Routed(d, <<"routed", msg.src, msg.seq>>, m)
           /\ \/ /\ c \in Servers /\ at[c] \in {"dispatch", "respond"} /\ routes[j].id = 2
              \/ c = d
    BY <1>3, <2>2, WhoIsServed
  <2>4. at[d] = "wait"
    BY <2>1, <2>3 DEF FlightInv, FlightOf, InFlight
  <2>5. c \in Servers /\ at[c] = "respond" /\ routes[j].id = 2
    BY <2>2, <2>3, <2>4
  <2>6. /\ pc = "dispatch" /\ j <= nr /\ j \in 1 .. Len(routes)
        /\ routes[j].handler = "Forward"
    BY <1>3, <2>2 DEF AtMatch, AtEntry, SystemInv, IInv, DispatchInv, LoopsStayInside,
                      TypeOK, LoopTypeOK, TableTypeOK
  <2>7. Cardinality(Requesters) >= RecvCap + SendCap + 2
    BY <1>3, <2>1, <2>2, <2>3, <2>5, <2>6, CircleNeedsRequesters
  <2>8. Cardinality(Requesters) \in Nat /\ RecvCap \in Nat /\ SendCap \in Nat
    BY ProgramsAssumption, BoundsAssumption, FS_CardinalityType
  <2> QED BY <2>7, <2>8
<1>4. SystemInv /\ AnswersInv => NoCircle
  BY <1>3 DEF NoCircle
<1> QED BY <1>4, SystemInvariant, AnswersInvariant, PTL
=============================================================================
