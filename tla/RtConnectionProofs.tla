-------------------------- MODULE RtConnectionProofs --------------------------
(***************************************************************************)
(* For any number of listeners, messages and broken connections, and for   *)
(* sockets of any size: the router has been told of every listener once no *)
(* send is under way, no two listeners answer to one id, callbacks come in *)
(* the order of publication, and each break costs no more than what one    *)
(* socket holds and one message besides.                                   *)
(***************************************************************************)
EXTENDS RtConnection, SequenceTheorems, FiniteSetTheorems,
        WellFoundedInduction, TLAPS

(* What the place in the calls says of the frames and the table.           *)
CallInv ==
    /\ call \in {"none", "Looking"} => frames = <<>>
    /\ call \in {"none", "Looking", "AddListener", "SendMessage"} => receiving = "no"
    /\ receiving = "reading" => frames = <<>> /\ hdr = NoHeader
    /\ call \notin {"none", "AddListener"} => Created

(* The first id is the inbox's, which may lose it; the others keep theirs. *)
IdsInv ==
    /\ next_id >= 1
    /\ Created => next_id >= 2 /\ listeners[Inbox].subscription_id \in {0, 1}
    /\ ~Created => next_id = 1 /\ \A k \in Slots : ~InUse(k)
    /\ \A k \in Slots \ {Inbox} :
         InUse(k) => listeners[k].subscription_id \in 2 .. next_id - 1
    /\ IdsDistinct

(* A listener the router has not been told of has its SUBSCRIBE on the     *)
(* stack, or before it a loop over the listeners.                          *)
Due(k) ==
    \E q \in DOMAIN frames :
        \/ frames[q].at \in 1 .. k
        \/ /\ frames[q].at = 0
           /\ frames[q].m = Message("subscribe", listeners[k].subscription_id)

RegisteredInv ==
    alive => \A k \in Slots :
        InUse(k) /\ listeners[k].subscription_id # 0 =>
            Due(k) \/ Told(listeners[k].subscription_id)

(* Only messages reach listeners other than the inbox, and they are        *)
(* numbered upwards from the callbacks made over the one being received    *)
(* to those on their way.                                                  *)
IsMessage(in) == in.kind = "message"

OrderInv ==
    /\ \A q \in DOMAIN rx :
         IF IsMessage(rx[q]) THEN rx[q].id >= 2 /\ rx[q].n <= published ELSE rx[q].id <= 1
    /\ \A p, q \in DOMAIN rx :
         p < q /\ IsMessage(rx[p]) /\ IsMessage(rx[q]) => rx[p].n <= rx[q].n
    /\ IF IsMessage(hdr) THEN hdr.id >= 2 /\ hdr.n <= published ELSE hdr.id <= 1
    /\ \A q \in DOMAIN rx : IsMessage(hdr) /\ IsMessage(rx[q]) => hdr.n <= rx[q].n
    /\ \A a \in DOMAIN calls :
         /\ calls[a].n <= published
         /\ IsMessage(hdr) => calls[a].n <= hdr.n
         /\ \A q \in DOMAIN rx : IsMessage(rx[q]) => calls[a].n <= rx[q].n
    /\ CallbacksInOrder

(* The harm done and the harm still to come of what has broken already: a  *)
(* send that will be taken for done, a header without its payload, and the *)
(* connection that is broken now, with all its socket may still hold.      *)
Reached == taken \cup Range(tx)
Unsent == accepted \ Reached
Abandoned == {q \in DOMAIN frames : frames[q].at > 0 /\ frames[q].m # Nothing}
HalfRead == IF IsMessage(hdr) /\ ~hdr.whole THEN 1 ELSE 0
Broken == IF alive THEN 0 ELSE SendCap + 1

DamageInv ==
    /\ \A q \in DOMAIN rx : rx[q].cut # "whole" => ~alive
    /\ IsFiniteSet(Unsent)
    /\ Cardinality(Unsent) + Cardinality(Halved) + Cardinality(Abandoned)
         + HalfRead + Broken <= (SendCap + 1) * breaks

IInv == TypeOK /\ CallInv /\ IdsInv /\ RegisteredInv /\ OrderInv /\ DamageInv

-----------------------------------------------------------------------------
(* What the assumption on the bounds gives, for the table.                 *)
LEMMA InboxIsASlot == Inbox \in Slots /\ MaxListeners \in Nat /\ SendCap \in Nat \ {0}
BY BoundsAssumption DEF Inbox, Slots

(* The frame on top, and what is under it.                                 *)
LEMMA TopOfTheStack ==
    ASSUME TypeOK, frames # <<>>
    PROVE  /\ Len(frames) \in DOMAIN frames /\ DOMAIN frames = 1 .. Len(frames)
           /\ Len(frames) \in Nat \ {0}
           /\ Top = frames[Len(frames)] /\ Top \in Frames
           /\ Under \in Seq(Frames)
           /\ Len(Under) = Len(frames) - 1 /\ DOMAIN Under = 1 .. Len(frames) - 1
           /\ \A q \in 1 .. Len(frames) - 1 : Under[q] = frames[q]
<1>1. frames \in Seq(Frames) /\ Len(frames) \in Nat \ {0} /\ DOMAIN frames = 1 .. Len(frames)
  BY DEF TypeOK
<1>2. \A q \in 1 .. Len(frames) : frames[q] \in Frames
  BY <1>1, ElementOfSeq
<1>3. /\ Under \in Seq(Frames) /\ Len(Under) = Len(frames) - 1
      /\ DOMAIN Under = 1 .. Len(frames) - 1
      /\ \A q \in 1 .. Len(frames) - 1 : Under[q] = frames[q]
  BY <1>1, <1>2 DEF Under
<1> QED
  BY <1>1, <1>2, <1>3 DEF Top

(* The copies of a message.                                                *)
LEMMA CopiesAreAlike ==
    ASSUME TypeOK, NEW id \in Nat, NEW n \in Nat,
           NEW kind \in {"message", "response", "noroute"}
    PROVE  /\ Copies(id, n, kind) \in Seq(Arrivals)
           /\ \A q \in DOMAIN Copies(id, n, kind) :
                Copies(id, n, kind)[q] = Incoming(id, n, kind, "whole")
<1> DEFINE same == {q \in DOMAIN subscribed : subscribed[q] = id}
<1>1. Len(subscribed) \in Nat /\ DOMAIN subscribed = 1 .. Len(subscribed)
  BY DEF TypeOK
<1>2. IsFiniteSet(DOMAIN subscribed)
  BY <1>1, FS_Interval
<1>3. Cardinality(same) \in Nat
  BY <1>2, FS_Subset, FS_CardinalityType
<1>4. Incoming(id, n, kind, "whole") \in Arrivals
  BY DEF Incoming, Arrivals
<1>5. Copies(id, n, kind) = [e \in 1 .. Cardinality(same) |-> Incoming(id, n, kind, "whole")]
  BY DEF Copies
<1> HIDE DEF same
<1>6. Copies(id, n, kind) \in Seq(Arrivals)
  BY <1>3, <1>4, <1>5
<1> QED
  BY <1>5, <1>6

(* What has been written to this client and not been read.                 *)
LEMMA ElementsOfRx ==
    ASSUME TypeOK
    PROVE  /\ DOMAIN rx = 1 .. Len(rx) /\ Len(rx) \in Nat
           /\ \A q \in DOMAIN rx : rx[q] \in Arrivals
           /\ rx # <<>> => /\ Head(rx) = rx[1] /\ Head(rx) \in Arrivals
                           /\ 1 \in DOMAIN rx /\ Header(Head(rx)) \in Headers
                           /\ Tail(rx) \in Seq(Arrivals)
                           /\ DOMAIN Tail(rx) = 1 .. Len(rx) - 1
                           /\ \A q \in DOMAIN Tail(rx) : Tail(rx)[q] = rx[q + 1]
<1>1. rx \in Seq(Arrivals)
  BY DEF TypeOK
<1>2. DOMAIN rx = 1 .. Len(rx) /\ Len(rx) \in Nat
  BY <1>1
<1>3. \A q \in DOMAIN rx : rx[q] \in Arrivals
  BY <1>1, <1>2, ElementOfSeq
<1>4. ASSUME rx # <<>>
      PROVE  /\ Head(rx) = rx[1] /\ Head(rx) \in Arrivals /\ 1 \in DOMAIN rx
             /\ Tail(rx) \in Seq(Arrivals) /\ DOMAIN Tail(rx) = 1 .. Len(rx) - 1
             /\ \A q \in DOMAIN Tail(rx) : Tail(rx)[q] = rx[q + 1]
  BY <1>1, <1>2, <1>3, <1>4, HeadTailProperties
<1>5. ASSUME rx # <<>> PROVE Header(Head(rx)) \in Headers
  BY <1>4, <1>5 DEF Header, Headers, Arrivals
<1> QED
  BY <1>2, <1>3, <1>4, <1>5

(* What the socket holds for the router, and what is left when it has read *)
(* one message.                                                            *)
LEMMA TakenFromTx ==
    ASSUME TypeOK
    PROVE  /\ tx \in Seq(SentMessages) /\ Len(tx) \in Nat /\ Len(tx) <= SendCap
           /\ IsFiniteSet(Range(tx)) /\ Cardinality(Range(tx)) <= SendCap
           /\ Cardinality(Range(tx)) \in Nat
           /\ tx # <<>> => /\ Head(tx) \in SentMessages
                           /\ Tail(tx) \in Seq(SentMessages) /\ Len(Tail(tx)) <= SendCap
                           /\ Range(tx) = Range(Tail(tx)) \cup {Head(tx)}
<1>1. tx \in Seq(SentMessages) /\ Len(tx) \in Nat /\ Len(tx) <= SendCap
      /\ DOMAIN tx = 1 .. Len(tx)
  BY LenProperties DEF TypeOK
<1>2. /\ IsFiniteSet(Range(tx)) /\ Cardinality(Range(tx)) <= Len(tx)
      /\ Cardinality(Range(tx)) \in Nat
  <2>1. IsFiniteSet(1 .. Len(tx)) /\ Cardinality(1 .. Len(tx)) = Len(tx)
    BY <1>1, FS_Interval
  <2>2. tx \in Surjection(1 .. Len(tx), Range(tx))
    BY <1>1 DEF Range, Surjection
  <2>3. IsFiniteSet(Range(tx)) /\ Cardinality(Range(tx)) <= Cardinality(1 .. Len(tx))
    BY <2>1, <2>2, FS_Surjection
  <2> QED
    BY <2>1, <2>3, FS_CardinalityType
<1>3. ASSUME tx # <<>>
      PROVE  /\ Head(tx) = tx[1] /\ Head(tx) \in SentMessages
             /\ Tail(tx) \in Seq(SentMessages) /\ Len(Tail(tx)) = Len(tx) - 1
             /\ DOMAIN Tail(tx) = 1 .. Len(tx) - 1
             /\ \A q \in DOMAIN Tail(tx) : Tail(tx)[q] = tx[q + 1]
             /\ 1 \in DOMAIN tx
  BY <1>1, <1>3, HeadTailProperties, LenProperties, ElementOfSeq
<1>4. ASSUME tx # <<>> PROVE Range(tx) = Range(Tail(tx)) \cup {Head(tx)}
  <2>1. ASSUME NEW q \in DOMAIN tx, q # 1 PROVE tx[q] \in Range(Tail(tx))
    <3>1. q - 1 \in DOMAIN Tail(tx) /\ Tail(tx)[q - 1] = tx[q]
      BY <1>1, <1>3, <1>4, <2>1
    <3> QED
      BY <3>1 DEF Range
  <2>2. \A q \in DOMAIN Tail(tx) : q + 1 \in DOMAIN tx /\ Tail(tx)[q] = tx[q + 1]
    BY <1>1, <1>3, <1>4
  <2>3. Range(tx) \subseteq Range(Tail(tx)) \cup {Head(tx)}
    BY <1>3, <1>4, <2>1 DEF Range
  <2>4. Range(Tail(tx)) \cup {Head(tx)} \subseteq Range(tx)
    BY <1>3, <1>4, <2>2 DEF Range
  <2> QED
    BY <2>3, <2>4
<1> QED
  BY <1>1, <1>2, <1>3, <1>4, InboxIsASlot

(* What a message more in the socket, or among those subscribed, adds.     *)
LEMMA RangeOfAppend ==
    ASSUME NEW S, NEW s \in Seq(S), NEW x \in S
    PROVE  Range(Append(s, x)) = Range(s) \cup {x}
<1>1. /\ DOMAIN s = 1 .. Len(s) /\ Len(s) \in Nat
      /\ DOMAIN Append(s, x) = 1 .. Len(s) + 1
      /\ \A q \in 1 .. Len(s) : Append(s, x)[q] = s[q]
      /\ Append(s, x)[Len(s) + 1] = x
  BY AppendProperties, LenProperties
<1>2. \A q \in 1 .. Len(s) + 1 : q \in 1 .. Len(s) \/ q = Len(s) + 1
  BY <1>1
<1>3. Len(s) + 1 \in 1 .. Len(s) + 1 /\ 1 .. Len(s) \subseteq 1 .. Len(s) + 1
  BY <1>1
<1> QED
  BY <1>1, <1>2, <1>3 DEF Range

(* What a break leaves of it: a beginning, whose last message may be cut.  *)
LEMMA CutOff ==
    ASSUME TypeOK, Break
    PROVE  /\ rx' \in Seq(Arrivals) /\ DOMAIN rx' \subseteq DOMAIN rx
           /\ \A q \in DOMAIN rx' : \E cut \in {"whole", "header", "payload"} :
                rx'[q] = [rx[q] EXCEPT !.cut = cut]
<1> DEFINE left(k, cut) ==
             [q \in 1 .. k |-> IF q = k THEN [rx[q] EXCEPT !.cut = cut] ELSE rx[q]]
<1>1. PICK k \in 0 .. Len(rx), cut \in {"whole", "header", "payload"} : rx' = left(k, cut)
  BY DEF Break
<1>2. ASSUME NEW q \in 1 .. k
      PROVE  /\ left(k, cut)[q] \in Arrivals
             /\ \E c \in {"whole", "header", "payload"} :
                  left(k, cut)[q] = [rx[q] EXCEPT !.cut = c]
  <2>1. rx[q] \in Arrivals
    BY ElementsOfRx
  <2>2. \A c \in {"whole", "header", "payload"} : [rx[q] EXCEPT !.cut = c] \in Arrivals
    BY <2>1 DEF Arrivals
  <2>3. rx[q] = [rx[q] EXCEPT !.cut = rx[q].cut] /\ rx[q].cut \in {"whole", "header", "payload"}
    BY <2>1 DEF Arrivals
  <2>4. left(k, cut)[q] \in {rx[q], [rx[q] EXCEPT !.cut = cut]}
    OBVIOUS
  <2> HIDE DEF left
  <2> QED
    BY <2>1, <2>2, <2>3, <2>4
<1>3. left(k, cut) \in Seq(Arrivals)
  <2>1. left(k, cut) = [q \in 1 .. k |-> left(k, cut)[q]] /\ k \in Nat
    BY ElementsOfRx
  <2> HIDE DEF left
  <2>2. left(k, cut) \in [1 .. k -> Arrivals]
    BY <1>2, <2>1
  <2> QED
    BY <2>1, <2>2, SeqDef
<1>4. DOMAIN left(k, cut) = 1 .. k /\ 1 .. k \subseteq DOMAIN rx
  BY ElementsOfRx
<1> HIDE DEF left
<1> QED
  BY <1>1, <1>2, <1>3, <1>4

(* A set of slots that is not empty has a least element.                   *)
LEMMA LeastOf ==
    ASSUME NEW S \in SUBSET Slots, S # {}
    PROVE  LET first == CHOOSE k \in S : \A l \in S : k <= l
           IN  first \in S /\ \A l \in S : first <= l
<1> DEFINE Before == {pair \in Nat \X Nat : pair[1] < pair[2]}
<1>1. IsWellFoundedOn(Before, Nat)
  BY NatLessThanWellFounded DEF OpToRel
<1>2. S \subseteq Nat
  BY InboxIsASlot DEF Slots
<1>3. PICK k \in S : \A l \in S : <<l, k>> \notin Before
  <2> HIDE DEF Before
  <2> QED
    BY <1>1, <1>2, WFMin
<1>4. ASSUME NEW l \in S PROVE k <= l
  <2>1. l \in Nat /\ k \in Nat
    BY <1>2
  <2>2. <<l, k>> \in Nat \X Nat /\ ~(<<l, k>>[1] < <<l, k>>[2])
    BY <1>3, <2>1
  <2> QED
    BY <2>1, <2>2
<1> QED
  BY <1>4

LEMMA InitEstablishesIInv == Init => IInv
<1> SUFFICES ASSUME Init PROVE IInv
  OBVIOUS
<1> USE InboxIsASlot
<1>1. TypeOK
  BY DEF Init, TypeOK, NoHeader, Headers, Slots
<1>2. CallInv
  BY DEF Init, CallInv
<1>3. IdsInv
  BY DEF Init, IdsInv, IdsDistinct, Created, InUse
<1>4. RegisteredInv
  BY DEF Init, RegisteredInv, InUse
<1>5. OrderInv
  BY DEF Init, OrderInv, CallbacksInOrder, IsMessage, NoHeader
<1>6. DamageInv
  <2>1. Unsent = {} /\ Halved = {} /\ Abandoned = {} /\ HalfRead = 0 /\ Broken = 0
    BY DEF Init, Unsent, Halved, Abandoned, HalfRead, Broken, IsMessage, NoHeader
  <2> QED
    BY <2>1, FS_EmptySet DEF Init, DamageInv
<1> QED
  BY <1>1, <1>2, <1>3, <1>4, <1>5, <1>6 DEF IInv
-----------------------------------------------------------------------------
(* Every action keeps the data well formed.                                *)
LEMMA TypeOKPreserved == TypeOK /\ [Next]_vars => TypeOK'
<1> SUFFICES ASSUME TypeOK, [Next]_vars PROVE TypeOK'
  OBVIOUS
<1> USE InboxIsASlot DEF api, io, inbound, world, history
<1>1. CASE SendSucceeds
  <2>1. Under \in Seq(Frames) /\ Top.m \in SentMessages
    BY <1>1, TopOfTheStack DEF SendSucceeds, Frames
  <2>2. tx' \in Seq(SentMessages) /\ Len(tx') <= SendCap
    BY <1>1, <2>1, AppendProperties, LenProperties DEF SendSucceeds, TypeOK
  <2> QED
    BY <1>1, <2>1, <2>2 DEF SendSucceeds, TypeOK
<1>2. CASE SendFails
  <2>1. frames' \in Seq(Frames)
    <3>1. Len(frames) \in 1 .. Len(frames) /\ frames \in Seq(Frames)
          /\ frames[Len(frames)] \in Frames
      BY <1>2, TopOfTheStack DEF SendFails, TypeOK
    <3>2. [frames[Len(frames)] EXCEPT !.at = 1] \in Frames
      BY <3>1 DEF Frames
    <3>3. frames' = [frames EXCEPT ![Len(frames)] = [frames[Len(frames)] EXCEPT !.at = 1]]
      BY <1>2 DEF SendFails
    <3> QED
      BY <3>1, <3>2, <3>3, ExceptSeq
  <2> QED
    BY <1>2, <2>1, SMTT(30) DEF SendFails, Reconnect, TypeOK
<1>3. CASE Reregister
  <2>1. frames' \in Seq(Frames)
    <3> DEFINE top == frames[Len(frames)]
               moved == [frames EXCEPT ![Len(frames)] = [top EXCEPT !.at = @ + 1]]
               new == Frame(Message("subscribe", listeners[top.at].subscription_id), 0)
    <3>1. Len(frames) \in 1 .. Len(frames) /\ frames \in Seq(Frames) /\ top \in Frames
          /\ top = Top /\ top.at \in Slots
      BY <1>3, TopOfTheStack DEF Reregister, TypeOK
    <3>2. [top EXCEPT !.at = @ + 1] \in Frames
      BY <3>1, SMTT(40) DEF Slots, Frames
    <3>3. new \in Frames
      BY <3>1 DEF TypeOK, Frame, Frames, Message, SentMessages, Kinds
    <3>4. frames' \in {moved, Append(moved, new)}
      BY <1>3, <3>1 DEF Reregister
    <3> HIDE DEF new, top
    <3>5. moved \in Seq(Frames)
      BY <3>1, <3>2, ExceptSeq
    <3> QED
      BY <3>3, <3>4, <3>5, AppendProperties, SMTT(40)
  <2> QED
    BY <1>3, <2>1 DEF Reregister, TypeOK
<1>4. CASE Reregistered
  <2>1. Under \in Seq(Frames) /\ Top.m \in SentMessages
    BY <1>4, TopOfTheStack DEF Reregistered, Frames
  <2> QED
    BY <1>4, <2>1 DEF Reregistered, TypeOK
<1>5. CASE SendReturns
  BY <1>5 DEF SendReturns, TypeOK
<1>6. CASE Receive
  BY <1>6, ElementsOfRx DEF Receive, TypeOK
<1>7. CASE ReceiveFails
  <2>1. <<Frame(Nothing, 1)>> \in Seq(Frames)
    <3>1. Frame(Nothing, 1) \in Frames
      BY DEF Frame, Frames, Nothing, Message, SentMessages, Kinds
    <3> QED
      BY <3>1
  <2> QED
    BY <1>7, <2>1, ElementsOfRx, SMTT(40) DEF ReceiveFails, Reconnect, TypeOK
<1>8. CASE Callback
  <2>1. listeners' \in [Slots -> [in_use : BOOLEAN, subscription_id : Nat]]
    BY <1>8 DEF Callback, Forgotten, TypeOK
  <2>2. response' \in Nat
    BY <1>8 DEF Callback, InboxResponse, TypeOK, Headers
  <2>3. calls' \in Seq(Calls)
    <3> DEFINE found == {k \in Slots : Matches(k, Forgotten(listeners))}
               first == CHOOSE k \in found : \A l \in found : k <= l
               new == [slot |-> first, n |-> hdr.n, whole |-> hdr.whole]
    <3>1. calls' = IF found # {} /\ first # Inbox THEN Append(calls, new) ELSE calls
      BY <1>8 DEF Callback
    <3>2. found # {} => first \in Slots
      BY LeastOf DEF Slots
    <3>3. found # {} => new \in Calls
      BY <3>2 DEF TypeOK, Headers, Calls
    <3> HIDE DEF found, new
    <3> QED
      BY <3>1, <3>3, AppendProperties DEF TypeOK
  <2> QED
    BY <1>8, <2>1, <2>2, <2>3 DEF Callback, NoHeader, Headers, TypeOK
<1>9. CASE RequestAnswered
  BY <1>9, SMTT(40) DEF RequestAnswered, TypeOK
<1>10. CASE RequestUnanswered \/ RequestTimesOut
  BY <1>10 DEF RequestUnanswered, RequestTimesOut, TypeOK
<1>11. CASE StartDispatch
  BY <1>11 DEF StartDispatch, NoHeader, Headers, TypeOK
<1>12. CASE AddListener
  <2>1. Frame(Message("subscribe", next_id), 0) \in Frames
    BY DEF Frame, Frames, Message, SentMessages, Kinds, TypeOK
  <2>2. frames' \in Seq(Frames)
    BY <1>12, <2>1 DEF AddListener
  <2> QED
    BY <1>12, <2>2, SMTT(40) DEF AddListener, TypeOK
<1>13. CASE SendMessage \/ SendRequest
  <2>1. /\ Frame(Message("message", sends + 1), 0) \in Frames
        /\ Frame(Message("request", sends + 1), 0) \in Frames
    BY DEF Frame, Frames, Message, SentMessages, Kinds, TypeOK
  <2>2. frames' \in Seq(Frames)
    <3>1. /\ <<Frame(Message("message", sends + 1), 0)>> \in Seq(Frames)
          /\ <<Frame(Message("request", sends + 1), 0)>> \in Seq(Frames)
      BY <2>1
    <3> QED
      BY <1>13, <3>1 DEF SendMessage, SendRequest
  <2>3. /\ call' \in {"SendMessage", "SendRequest"} /\ sends' = sends + 1
        /\ UNCHANGED <<listeners, next_id, io, inbound, world, history>>
    BY <1>13 DEF SendMessage, SendRequest
  <2> QED
    BY <2>2, <2>3, SMTT(40) DEF TypeOK
<1>19. CASE RouterReads
  <2>1. /\ Head(tx) \in SentMessages /\ Tail(tx) \in Seq(SentMessages)
        /\ Len(Tail(tx)) <= SendCap
    BY <1>19, TakenFromTx DEF RouterReads
  <2>2. Head(tx).n \in Nat
    BY <2>1 DEF SentMessages
  <2>3. subscribed' \in Seq(Nat) /\ open' \subseteq Nat
    <3>1. Append(subscribed, Head(tx).n) \in Seq(Nat)
      BY <2>2, AppendProperties DEF TypeOK
    <3>2. subscribed' \in {subscribed, Append(subscribed, Head(tx).n)}
          /\ open' \in {open, open \cup {Head(tx).n}}
      BY <1>19 DEF RouterReads
    <3> QED
      BY <2>2, <3>1, <3>2 DEF TypeOK
  <2> QED
    BY <1>19, <2>1, <2>3 DEF RouterReads, TypeOK
<1>14. CASE RouterDelivers
  <2>1. PICK k \in Slots :
          rx' = rx \o Copies(listeners[k].subscription_id, published + 1, "message")
    BY <1>14 DEF RouterDelivers
  <2>2. Copies(listeners[k].subscription_id, published + 1, "message") \in Seq(Arrivals)
    BY CopiesAreAlike, SMTT(40) DEF TypeOK
  <2>3. rx' \in Seq(Arrivals)
    BY <2>1, <2>2, ConcatProperties DEF TypeOK
  <2> QED
    BY <1>14, <2>3, SMTT(40) DEF RouterDelivers, TypeOK
<1>15. CASE RouterAnswers
  <2>1. PICK r \in open : rx' = rx \o InboxCopies(r) /\ open' = open \ {r}
    BY <1>15 DEF RouterAnswers
  <2>2. Copies(0, r, "response") \in Seq(Arrivals) /\ Copies(1, r, "response") \in Seq(Arrivals)
    BY CopiesAreAlike DEF TypeOK
  <2>3. rx' \in Seq(Arrivals)
    BY <2>1, <2>2, ConcatProperties DEF TypeOK, InboxCopies
  <2> QED
    BY <1>15, <2>1, <2>3 DEF RouterAnswers, TypeOK
<1>16. CASE RouterHasNoRoute
  <2>1. PICK r \in open : rx' = Append(rx, Incoming(0, r, "noroute", "whole"))
                          /\ open' = open \ {r}
    BY <1>16 DEF RouterHasNoRoute
  <2>2. Incoming(0, r, "noroute", "whole") \in Arrivals
    BY DEF Incoming, Arrivals, TypeOK
  <2>3. rx' \in Seq(Arrivals)
    BY <2>1, <2>2, AppendProperties DEF TypeOK
  <2> QED
    BY <1>16, <2>1, <2>3 DEF RouterHasNoRoute, TypeOK
<1>17. CASE Break
  <2>1. rx' \in Seq(Arrivals)
    BY <1>17, CutOff DEF Break
  <2>2. /\ alive' \in BOOLEAN /\ breaks' = breaks + 1
        /\ UNCHANGED <<call, listeners, next_id, sends, frames, tx, subscribed, hdr,
                       receiving, response, published, taken, accepted, open, calls, answers>>
    BY <1>17 DEF Break
  <2> QED
    BY <2>1, <2>2 DEF TypeOK
<1>18. CASE UNCHANGED vars
  BY <1>18 DEF vars, TypeOK
<1> QED
  BY <1>1, <1>2, <1>3, <1>4, <1>5, <1>6, <1>7, <1>8, <1>9, <1>10, <1>11, <1>12, <1>13,
     <1>14, <1>15, <1>16, <1>17, <1>18, <1>19 DEF Next, Inside, Application, Environment

-----------------------------------------------------------------------------
(* A message without route costs the inbox its id, and no other listener.  *)
LEMMA OnlyTheInboxForgets ==
    ASSUME TypeOK, Created
    PROVE  /\ \A k \in Slots \ {Inbox} : Forgotten(listeners)[k] = listeners[k]
           /\ Forgotten(listeners)[Inbox].in_use
           /\ Forgotten(listeners)[Inbox].subscription_id
                \in {0, listeners[Inbox].subscription_id}
<1>1. Inbox \in Slots /\ listeners[Inbox].in_use /\ \A k \in Slots \ {Inbox} : Inbox \in 1 .. k - 1
  BY InboxIsASlot DEF Created, InUse, Slots, Inbox
<1>2. listeners \in [Slots -> [in_use : BOOLEAN, subscription_id : Nat]]
  BY DEF TypeOK
<1> QED
  BY <1>1, <1>2, InboxIsASlot DEF Forgotten, Inbox

(* No action takes a listener away.                                        *)
LEMMA ListenersStay ==
    ASSUME TypeOK, CallInv, [Next]_vars
    PROVE  /\ UNCHANGED listeners \/ AddListener \/ Callback
           /\ Callback => Created /\ listeners' = Forgotten(listeners)
           /\ Created => Created'
<1>1. UNCHANGED listeners \/ AddListener \/ Callback
  BY DEF Next, Inside, Application, Environment, vars, api, SendSucceeds, SendFails,
         Reregister, Reregistered, SendReturns, Receive, ReceiveFails, RequestAnswered,
         RequestUnanswered, RequestTimesOut, StartDispatch, SendMessage, SendRequest,
         RouterReads, RouterDelivers, RouterAnswers, RouterHasNoRoute, Break
<1>2. ASSUME Callback PROVE Created /\ listeners' = Forgotten(listeners)
  BY <1>2 DEF Callback, CallInv
<1>3. Created /\ Callback => Created'
  BY <1>2, OnlyTheInboxForgets DEF Created, InUse
<1>4. Created /\ AddListener => Created'
  BY InboxIsASlot DEF AddListener, Created, InUse, TypeOK
<1>5. UNCHANGED listeners => (Created => Created')
  BY DEF Created, InUse
<1> QED
  BY <1>1, <1>2, <1>3, <1>4, <1>5

LEMMA CallInvPreserved == TypeOK /\ CallInv /\ [Next]_vars => CallInv'
<1> SUFFICES ASSUME TypeOK, CallInv, [Next]_vars PROVE CallInv'
  OBVIOUS
<1>0. Created => Created'
  BY ListenersStay
<1> USE DEF api, io, inbound, world, history
<1>1. CASE SendSucceeds \/ SendFails \/ Reregister \/ Reregistered
  <2>1. frames # <<>> /\ UNCHANGED <<api, inbound>>
    BY <1>1 DEF SendSucceeds, SendFails, Reregister, Reregistered
  <2> QED
    BY <1>0, <2>1 DEF CallInv
<1>2. CASE Receive \/ ReceiveFails
  BY <1>0, <1>2 DEF Receive, ReceiveFails, CallInv
<1>3. CASE Callback
  BY <1>0, <1>3 DEF Callback, CallInv
<1>4. CASE SendReturns \/ RequestAnswered \/ RequestUnanswered \/ RequestTimesOut
  BY <1>0, <1>4 DEF SendReturns, RequestAnswered, RequestUnanswered, RequestTimesOut, CallInv
<1>5. CASE AddListener
  BY <1>0, <1>5 DEF AddListener, Idle, CallInv
<1>6. CASE SendMessage \/ SendRequest
  BY <1>0, <1>6 DEF SendMessage, SendRequest, Idle, CallInv
<1>7. CASE StartDispatch
  BY <1>0, <1>7 DEF StartDispatch, Idle, CallInv
<1>8. CASE RouterReads \/ RouterDelivers \/ RouterAnswers \/ RouterHasNoRoute \/ Break
           \/ UNCHANGED vars
  <2>1. UNCHANGED <<api, frames, inbound>>
    BY <1>8 DEF RouterReads, RouterDelivers, RouterAnswers, RouterHasNoRoute, Break, vars
  <2> QED
    BY <1>0, <2>1 DEF CallInv
<1> QED
  BY <1>1, <1>2, <1>3, <1>4, <1>5, <1>6, <1>7, <1>8 DEF Next, Inside, Application, Environment

(* The slot AddListener takes, the first one free, gets an id not used     *)
(* before; it is the inbox's if and only if there is no inbox yet.         *)
LEMMA IdsInvPreserved == TypeOK /\ CallInv /\ IdsInv /\ [Next]_vars => IdsInv'
<1> SUFFICES ASSUME TypeOK, CallInv, IdsInv, [Next]_vars PROVE IdsInv'
  OBVIOUS
<1> USE InboxIsASlot
<1>1. CASE AddListener
  <2>1. PICK k \in Slots :
          /\ ~InUse(k) /\ \A l \in 1 .. k - 1 : InUse(l)
          /\ listeners' = [listeners EXCEPT ![k] =
                              [in_use |-> TRUE, subscription_id |-> next_id]]
    BY <1>1 DEF AddListener
  <2>2. next_id' = next_id + 1 /\ next_id \in Nat
    BY <1>1 DEF AddListener, TypeOK
  <2>3. Created <=> k # Inbox
    <3>1. k # Inbox => Inbox \in 1 .. k - 1
      BY DEF Slots, Inbox
    <3> QED
      BY <2>1, <3>1 DEF Created, InUse
  <2>4. /\ listeners'[k].in_use /\ listeners'[k].subscription_id = next_id
        /\ \A l \in Slots \ {k} : listeners'[l] = listeners[l]
    BY <2>1 DEF TypeOK
  <2>5. CASE k = Inbox
    <3>1. next_id = 1 /\ \A l \in Slots : ~InUse(l)
      BY <2>3, <2>5 DEF IdsInv
    <3> QED
      BY <2>2, <2>4, <2>5, <3>1 DEF IdsInv, IdsDistinct, Created, InUse
  <2>6. CASE k # Inbox
    <3>1. Created /\ next_id >= 2 /\ Created'
      BY <2>3, <2>4, <2>6 DEF IdsInv, Created, InUse
    <3>2. \A l \in Slots : InUse(l) => listeners[l].subscription_id < next_id
      BY <2>2, <3>1 DEF IdsInv, Created, InUse
    <3>3. IdsDistinct'
      <4>1. ASSUME NEW a \in Slots, NEW b \in Slots, InUse(a)', InUse(b)', a # b
            PROVE  listeners'[a].subscription_id # listeners'[b].subscription_id
        <5>1. CASE a = k \/ b = k
          BY <2>2, <2>4, <3>2, <4>1, <5>1 DEF InUse
        <5>2. CASE a # k /\ b # k
          BY <2>4, <4>1, <5>2 DEF IdsInv, IdsDistinct, InUse
        <5> QED
          BY <5>1, <5>2
      <4> QED
        BY <4>1 DEF IdsDistinct
    <3>4. \A l \in Slots \ {Inbox} :
            InUse(l)' => listeners'[l].subscription_id \in 2 .. next_id' - 1
      BY <2>2, <2>4, <3>1 DEF IdsInv, InUse
    <3>5. listeners'[Inbox].subscription_id \in {0, 1}
      BY <2>4, <2>6, <3>1 DEF IdsInv
    <3> QED
      BY <2>2, <3>1, <3>3, <3>4, <3>5 DEF IdsInv
  <2> QED
    BY <2>5, <2>6
<1>2. CASE Callback
  <2>1. Created /\ listeners' = Forgotten(listeners) /\ Created' /\ UNCHANGED next_id
    BY <1>2, ListenersStay DEF Callback
  <2>2. /\ \A k \in Slots \ {Inbox} : listeners'[k] = listeners[k]
        /\ listeners'[Inbox].in_use /\ listeners'[Inbox].subscription_id \in {0, 1}
    BY <2>1, OnlyTheInboxForgets DEF IdsInv
  <2>3. \A k \in Slots \ {Inbox} :
          InUse(k) => listeners[k].subscription_id \in 2 .. next_id - 1
    BY DEF IdsInv
  <2>4. IdsDistinct'
    <3>1. ASSUME NEW a \in Slots, NEW b \in Slots, a # b, InUse(a)', InUse(b)'
          PROVE  listeners'[a].subscription_id # listeners'[b].subscription_id
      <4>1. CASE a # Inbox /\ b # Inbox
        <5>1. InUse(a) /\ InUse(b)
          BY <2>2, <3>1, <4>1 DEF InUse
        <5> QED
          BY <2>2, <3>1, <4>1, <5>1 DEF IdsInv, IdsDistinct
      <4>2. CASE a = Inbox
        <5>1. InUse(b) /\ listeners'[b] = listeners[b]
          BY <2>2, <3>1, <4>2 DEF InUse
        <5>2. listeners'[b].subscription_id >= 2
          BY <2>3, <3>1, <4>2, <5>1 DEF TypeOK
        <5> QED
          BY <2>2, <4>2, <5>2
      <4>3. CASE b = Inbox
        <5>1. InUse(a) /\ listeners'[a] = listeners[a]
          BY <2>2, <3>1, <4>3 DEF InUse
        <5>2. listeners'[a].subscription_id >= 2
          BY <2>3, <3>1, <4>3, <5>1 DEF TypeOK
        <5> QED
          BY <2>2, <4>3, <5>2
      <4> QED
        BY <4>1, <4>2, <4>3
    <3> QED
      BY <3>1 DEF IdsDistinct
  <2> QED
    BY <2>1, <2>2, <2>3, <2>4 DEF IdsInv, InUse
<1>3. CASE UNCHANGED listeners /\ ~AddListener
  <2>1. UNCHANGED next_id
    BY <1>3 DEF Next, Inside, Application, Environment, vars, api, SendSucceeds, SendFails,
         Reregister, Reregistered, SendReturns, Receive, ReceiveFails, Callback,
         RequestAnswered, RequestUnanswered, RequestTimesOut, StartDispatch, SendMessage,
         SendRequest, RouterReads, RouterDelivers, RouterAnswers, RouterHasNoRoute, Break
  <2> QED
    BY <1>3, <2>1 DEF IdsInv, IdsDistinct, Created, InUse
<1> QED
  BY <1>1, <1>2, <1>3, ListenersStay

-----------------------------------------------------------------------------
(* The frames after each of the steps that work on them: one taken off,    *)
LEMMA FramesAfterReturn ==
    ASSUME TypeOK, frames # <<>>, frames' = Under
    PROVE  /\ DOMAIN frames' = 1 .. Len(frames) - 1
           /\ \A q \in DOMAIN frames \ {Len(frames)} : q \in DOMAIN frames' /\ frames'[q] = frames[q]
           /\ \A q \in DOMAIN frames' : frames'[q] = frames[q]
<1> QED
  BY TopOfTheStack

(* the one on top turned into a loop over the listeners,                   *)
LEMMA FramesAfterFailure ==
    ASSUME TypeOK, SendFails
    PROVE  /\ DOMAIN frames' = DOMAIN frames
           /\ \A q \in DOMAIN frames \ {Len(frames)} : frames'[q] = frames[q]
           /\ frames'[Len(frames)].at = 1 /\ frames'[Len(frames)].m = Top.m
<1>1. /\ Len(frames) \in Nat /\ DOMAIN frames = 1 .. Len(frames)
      /\ frames \in Seq(Frames) /\ Len(frames) \in DOMAIN frames
      /\ Top = frames[Len(frames)] /\ Top \in Frames
  BY TopOfTheStack DEF TypeOK, SendFails
<1>2. frames' = [frames EXCEPT ![Len(frames)] = [Top EXCEPT !.at = 1]]
  BY <1>1 DEF SendFails
<1>3. [Top EXCEPT !.at = 1].at = 1 /\ [Top EXCEPT !.at = 1].m = Top.m
  BY <1>1 DEF Frames
<1> QED
  BY <1>1, <1>2, <1>3

(* and that loop taken one turn on.                                        *)
LEMMA FramesAfterReregister ==
    ASSUME TypeOK, Reregister
    PROVE  /\ DOMAIN frames' = IF InUse(Top.at) THEN 1 .. Len(frames) + 1 ELSE DOMAIN frames
           /\ \A q \in DOMAIN frames \ {Len(frames)} :
                q \in DOMAIN frames' /\ frames'[q] = frames[q]
           /\ Len(frames) \in DOMAIN frames'
           /\ frames'[Len(frames)].at = Top.at + 1 /\ frames'[Len(frames)].m = Top.m
           /\ InUse(Top.at) =>
                frames'[Len(frames) + 1] =
                   Frame(Message("subscribe", listeners[Top.at].subscription_id), 0)
<1>1. /\ Len(frames) \in Nat /\ DOMAIN frames = 1 .. Len(frames)
      /\ frames \in Seq(Frames) /\ Len(frames) \in DOMAIN frames
      /\ Top = frames[Len(frames)] /\ Top \in Frames
  BY TopOfTheStack DEF TypeOK, Reregister
<1> DEFINE top == frames[Len(frames)]
           next == [top EXCEPT !.at = @ + 1]
           moved == [frames EXCEPT ![Len(frames)] = next]
           new == Frame(Message("subscribe", listeners[top.at].subscription_id), 0)
<1>2. frames' = IF InUse(top.at) THEN Append(moved, new) ELSE moved
  BY DEF Reregister, Top
<1>3. top \in Frames /\ top = Top /\ top.at \in Slots
  BY <1>1 DEF Reregister
<1>4. next.at = Top.at + 1 /\ next.m = Top.m /\ next \in Frames
  BY <1>3, InboxIsASlot DEF Frames, Slots
<1>5. new \in Frames
  <2>1. listeners[top.at].subscription_id \in Nat
    BY <1>3 DEF TypeOK
  <2> QED
    BY <2>1, InboxIsASlot DEF Frame, Frames, Message, SentMessages, Kinds
<1> HIDE DEF next, new, top
<1>6. /\ moved \in Seq(Frames) /\ Len(moved) = Len(frames) /\ DOMAIN moved = DOMAIN frames
      /\ \A q \in DOMAIN frames : moved[q] = IF q = Len(frames) THEN next ELSE frames[q]
  BY <1>1, <1>4, ExceptSeq
<1> HIDE DEF moved
<1>7. CASE InUse(Top.at)
  <2>1. /\ Len(frames') = Len(frames) + 1
        /\ \A q \in 1 .. Len(frames) : frames'[q] = moved[q]
        /\ frames'[Len(frames) + 1] = new
        /\ DOMAIN frames' = 1 .. Len(frames')
    <3>1. frames' = Append(moved, new)
      BY <1>2, <1>3, <1>7
    <3> QED
      BY <3>1, <1>5, <1>6, AppendProperties, LenProperties
  <2> QED
    BY <1>1, <1>3, <1>4, <1>6, <1>7, <2>1 DEF new
<1>8. CASE ~InUse(Top.at)
  BY <1>1, <1>2, <1>3, <1>4, <1>6, <1>8
<1> QED
  BY <1>7, <1>8

LEMMA RegisteredInvPreserved ==
    TypeOK /\ CallInv /\ RegisteredInv /\ [Next]_vars => RegisteredInv'
<1> SUFFICES ASSUME TypeOK, CallInv, RegisteredInv, [Next]_vars, alive',
                    NEW k \in Slots, InUse(k)', listeners'[k].subscription_id # 0
             PROVE  Due(k)' \/ Told(listeners[k].subscription_id)'
  BY DEF RegisteredInv
<1> USE InboxIsASlot DEF api, io, inbound, world, history
<1> DEFINE id == listeners[k].subscription_id
<1>0. ASSUME alive, UNCHANGED listeners PROVE Due(k) \/ Told(id)
  BY <1>0 DEF RegisteredInv, InUse
<1>1. CASE SendSucceeds
  <2>1. alive /\ UNCHANGED <<listeners, subscribed>> /\ frames # <<>> /\ frames' = Under
        /\ Top.at = 0 /\ tx' = Append(tx, Top.m)
    BY <1>1 DEF SendSucceeds
  <2>2. Range(tx') = Range(tx) \cup {Top.m}
    <3>1. Top.m \in SentMessages /\ tx \in Seq(SentMessages)
      BY <2>1, TopOfTheStack DEF TypeOK, Frames
    <3> QED
      BY <2>1, <3>1, RangeOfAppend
  <2>3. CASE Told(id)
    BY <2>1, <2>2, <2>3 DEF Told
  <2>4. CASE Due(k)
    <3>1. PICK q \in DOMAIN frames :
            \/ frames[q].at \in 1 .. k
            \/ frames[q].at = 0 /\ frames[q].m = Message("subscribe", id)
      BY <2>4 DEF Due
    <3>2. CASE q = Len(frames)
      <4>1. Top.m = Message("subscribe", id)
        BY <2>1, <3>1, <3>2, TopOfTheStack
      <4> QED
        BY <2>1, <2>2, <4>1 DEF Told
    <3>3. CASE q # Len(frames)
      <4>1. q \in DOMAIN frames' /\ frames'[q] = frames[q]
        BY <2>1, <3>3, FramesAfterReturn, TopOfTheStack
      <4> QED
        BY <2>1, <3>1, <4>1 DEF Due
    <3> QED
      BY <3>2, <3>3
  <2> QED
    BY <1>0, <2>1, <2>3, <2>4
<1>12. CASE RouterReads
  <2>1. /\ UNCHANGED <<alive, listeners, frames>> /\ tx # <<>> /\ tx' = Tail(tx)
        /\ subscribed' = IF Head(tx).kind = "subscribe"
                         THEN Append(subscribed, Head(tx).n) ELSE subscribed
    BY <1>12 DEF RouterReads
  <2>2. Range(tx) = Range(tx') \cup {Head(tx)} /\ Head(tx) \in SentMessages
    BY <2>1, TakenFromTx
  <2>3. Due(k) => Due(k)'
    BY <2>1 DEF Due
  <2>4. ASSUME Told(id) PROVE Told(id)'
    <3>1. subscribed \in Seq(Nat) /\ Head(tx).n \in Nat
      BY <2>2 DEF TypeOK, SentMessages
    <3>2. Range(Append(subscribed, Head(tx).n)) = Range(subscribed) \cup {Head(tx).n}
      BY <3>1, RangeOfAppend
    <3>3. CASE id \in Range(subscribed) \/ Message("subscribe", id) \in Range(tx')
      <4>1. Range(subscribed) \subseteq Range(subscribed')
        BY <2>1, <3>2
      <4> QED
        BY <2>1, <3>3, <4>1 DEF Told
    <3>4. CASE Message("subscribe", id) = Head(tx)
      <4>1. Head(tx).kind = "subscribe" /\ Head(tx).n = id
        BY <3>4 DEF Message
      <4> QED
        BY <2>1, <3>2, <4>1 DEF Told
    <3> QED
      BY <2>2, <2>4, <3>3, <3>4 DEF Told
  <2> QED
    BY <1>0, <2>1, <2>3, <2>4
<1>2. CASE SendFails
  <2>1. Len(frames) \in DOMAIN frames' /\ frames'[Len(frames)].at = 1
    BY <1>2, FramesAfterFailure, TopOfTheStack DEF SendFails
  <2> QED
    BY <2>1 DEF Due, Slots
<1>3. CASE Reregister
  <2>1. UNCHANGED <<alive, listeners, tx, subscribed>> /\ frames # <<>> /\ Top.at \in Slots
    BY <1>3 DEF Reregister
  <2>2. ASSUME Due(k) PROVE Due(k)'
    <3>1. PICK q \in DOMAIN frames :
            \/ frames[q].at \in 1 .. k
            \/ frames[q].at = 0 /\ frames[q].m = Message("subscribe", id)
      BY <2>2 DEF Due
    <3>2. CASE q # Len(frames)
      <4>1. q \in DOMAIN frames' /\ frames'[q] = frames[q]
        BY <1>3, <2>1, <3>2, FramesAfterReregister, TopOfTheStack
      <4> QED
        BY <2>1, <3>1, <4>1 DEF Due
    <3>3. CASE q = Len(frames) /\ Top.at # k
      <4>1. Top.at \in 1 .. k - 1
        BY <2>1, <3>1, <3>3, TopOfTheStack, SMTT(40) DEF Slots
      <4>2. q \in DOMAIN frames' /\ frames'[q].at = Top.at + 1
        BY <1>3, <2>1, <3>3, FramesAfterReregister, TopOfTheStack
      <4> QED
        BY <4>1, <4>2 DEF Due, Slots
    <3>4. CASE Top.at = k
      <4>1. InUse(Top.at)
        BY <2>1, <3>4 DEF InUse
      <4>2. /\ Len(frames) + 1 \in DOMAIN frames'
            /\ frames'[Len(frames) + 1] = Frame(Message("subscribe", id), 0)
        BY <1>3, <2>1, <3>4, <4>1, FramesAfterReregister, TopOfTheStack
      <4> QED
        BY <2>1, <4>2 DEF Due, Frame
    <3> QED
      BY <3>2, <3>3, <3>4
  <2> QED
    BY <1>0, <2>1, <2>2 DEF Told
<1>4. CASE Reregistered
  <2>1. UNCHANGED <<alive, listeners, tx, subscribed>> /\ frames # <<>> /\ frames' = Under
        /\ Top.at > MaxListeners
    BY <1>4 DEF Reregistered
  <2>2. ASSUME NEW q \in DOMAIN frames, frames[q].at \in 0 .. k
        PROVE  q \in DOMAIN frames' /\ frames'[q] = frames[q]
    <3>1. q # Len(frames)
      BY <2>1, <2>2, TopOfTheStack DEF Slots
    <3> QED
      BY <2>1, <3>1, FramesAfterReturn, TopOfTheStack
  <2>3. Due(k) => Due(k)'
    BY <2>1, <2>2 DEF Due, Slots
  <2> QED
    BY <1>0, <2>1, <2>3 DEF Told
<1>5. CASE AddListener
  <2>1. UNCHANGED <<alive, tx, subscribed>> /\ frames = <<>>
        /\ frames' = <<Frame(Message("subscribe", next_id), 0)>>
    BY <1>5 DEF AddListener, CallInv, Idle
  <2>2. PICK l \in Slots :
          listeners' = [listeners EXCEPT ![l] = [in_use |-> TRUE, subscription_id |-> next_id]]
    BY <1>5 DEF AddListener
  <2>3. CASE k = l
    <3>1. listeners'[k].subscription_id = next_id
      BY <2>2, <2>3 DEF TypeOK
    <3>2. 1 \in DOMAIN frames' /\ frames'[1] = Frame(Message("subscribe", next_id), 0)
      BY <2>1
    <3> QED
      BY <3>1, <3>2 DEF Due, Frame
  <2>4. CASE k # l
    <3>1. listeners'[k] = listeners[k]
      BY <2>2, <2>4 DEF TypeOK
    <3>2. ~Due(k)
      BY <2>1 DEF Due
    <3>3. Told(id)
      BY <2>1, <3>1, <3>2 DEF RegisteredInv, InUse
    <3> QED
      BY <2>1, <3>1, <3>3 DEF Told
  <2> QED
    BY <2>3, <2>4
<1>6. CASE Callback
  <2>1. UNCHANGED <<alive, tx, subscribed, frames>> /\ frames = <<>>
        /\ Created /\ listeners' = Forgotten(listeners)
    BY <1>6, ListenersStay DEF Callback
  <2>2. listeners'[k].subscription_id = id /\ InUse(k)
    <3>1. CASE k = Inbox
      BY <2>1, <3>1, OnlyTheInboxForgets DEF Created, InUse
    <3>2. CASE k # Inbox
      BY <2>1, <3>2, OnlyTheInboxForgets DEF InUse
    <3> QED
      BY <3>1, <3>2
  <2>3. ~Due(k)
    BY <2>1 DEF Due
  <2>4. Told(id)
    BY <2>1, <2>2, <2>3 DEF RegisteredInv
  <2> QED
    BY <2>1, <2>2, <2>4 DEF Told
<1>7. CASE ReceiveFails
  <2>1. frames' = <<Frame(Nothing, 1)>>
    BY <1>7 DEF ReceiveFails
  <2>2. 1 \in DOMAIN frames' /\ frames'[1].at = 1
    BY <2>1 DEF Frame
  <2> QED
    BY <2>2 DEF Due, Slots
<1>8. CASE Break
  BY <1>8 DEF Break
<1>9. CASE SendMessage \/ SendRequest
  <2>1. UNCHANGED <<alive, listeners, tx, subscribed>> /\ frames = <<>>
    BY <1>9 DEF SendMessage, SendRequest, CallInv, Idle
  <2>2. ~Due(k)
    BY <2>1 DEF Due
  <2> QED
    BY <1>0, <2>1, <2>2 DEF Told
<1>10. CASE UNCHANGED <<alive, listeners, tx, subscribed, frames>>
  <2>1. Due(k) => Due(k)'
    BY <1>10 DEF Due
  <2> QED
    BY <1>0, <1>10, <2>1 DEF Told
<1>11. CASE SendReturns \/ Receive \/ RequestAnswered \/ RequestUnanswered \/ RequestTimesOut
            \/ StartDispatch \/ RouterDelivers \/ RouterAnswers \/ RouterHasNoRoute
            \/ UNCHANGED vars
  BY <1>10, <1>11 DEF SendReturns, Receive, RequestAnswered, RequestUnanswered,
     RequestTimesOut, StartDispatch, RouterDelivers, RouterAnswers, RouterHasNoRoute, vars
<1> QED
  BY <1>1, <1>2, <1>3, <1>4, <1>5, <1>6, <1>7, <1>8, <1>9, <1>11, <1>12
     DEF Next, Inside, Application, Environment

-----------------------------------------------------------------------------
(* What the callback is given, when it is not the inbox's: a message, from *)
(* the header.                                                             *)
LEMMA OnlyMessagesAreCalledBack ==
    ASSUME TypeOK, CallInv, IdsInv, OrderInv, [Next]_vars, Callback
    PROVE  /\ calls \in Seq(Calls)
           /\ \/ UNCHANGED calls
              \/ /\ IsMessage(hdr)
                 /\ \E slot : [slot |-> slot, n |-> hdr.n, whole |-> hdr.whole] \in Calls
                              /\ calls' = Append(calls, [slot |-> slot, n |-> hdr.n,
                                                         whole |-> hdr.whole])
<1> DEFINE found == {k \in Slots : Matches(k, Forgotten(listeners))}
           first == CHOOSE k \in found : \A l \in found : k <= l
           new == [slot |-> first, n |-> hdr.n, whole |-> hdr.whole]
<1>1. calls' = IF found # {} /\ first # Inbox THEN Append(calls, new) ELSE calls
  BY DEF Callback
<1>2. ASSUME found # {} /\ first # Inbox PROVE IsMessage(hdr) /\ new \in Calls
  <2>1. first \in found
    BY <1>2, LeastOf DEF Slots
  <2>2. first \in Slots \ {Inbox} /\ Matches(first, Forgotten(listeners))
    BY <1>2, <2>1
  <2> HIDE DEF first, found
  <2>3. Matches(first, listeners)
    BY <2>2, ListenersStay, OnlyTheInboxForgets DEF Matches
  <2>4. hdr.id >= 2
    BY <2>2, <2>3 DEF Matches, IdsInv, InUse
  <2>5. IsMessage(hdr)
    BY <2>4 DEF OrderInv, TypeOK, Headers
  <2> QED
    BY <2>2, <2>5 DEF TypeOK, Headers, Calls
<1> HIDE DEF found, first
<1> QED
  BY <1>1, <1>2 DEF TypeOK

LEMMA OrderInvPreserved ==
    TypeOK /\ CallInv /\ IdsInv /\ OrderInv /\ [Next]_vars => OrderInv'
<1> SUFFICES ASSUME TypeOK, CallInv, IdsInv, OrderInv, [Next]_vars PROVE OrderInv'
  OBVIOUS
<1> USE DEF api, io, inbound, world, history
<1>0. published \in Nat /\ \A q \in DOMAIN rx : rx[q] \in Arrivals
  BY ElementsOfRx DEF TypeOK
<1>1. CASE UNCHANGED <<rx, hdr, calls, published>>
  BY <1>1 DEF OrderInv, CallbacksInOrder, IsMessage
<1>2. CASE SendSucceeds \/ Reregister \/ Reregistered \/ SendReturns \/ RequestAnswered
           \/ RequestUnanswered \/ RequestTimesOut \/ AddListener \/ SendMessage \/ SendRequest
           \/ RouterReads \/ UNCHANGED vars
  BY <1>1, <1>2 DEF SendSucceeds, RouterReads, Reregister, Reregistered, SendReturns, RequestAnswered,
     RequestUnanswered, RequestTimesOut, AddListener, SendMessage, SendRequest, vars
<1>3. CASE SendFails
  BY <1>3 DEF SendFails, Reconnect, OrderInv, CallbacksInOrder, IsMessage
<1>4. CASE Receive
  <2>1. /\ hdr' = Header(rx[1]) /\ UNCHANGED <<calls, published>> /\ 1 \in DOMAIN rx
        /\ DOMAIN rx' = 1 .. Len(rx) - 1 /\ DOMAIN rx = 1 .. Len(rx) /\ Len(rx) \in Nat
        /\ \A q \in DOMAIN rx' : rx'[q] = rx[q + 1]
    BY <1>4, ElementsOfRx DEF Receive
  <2>2. hdr'.id = rx[1].id /\ hdr'.n = rx[1].n /\ hdr'.kind = rx[1].kind
    BY <2>1 DEF Header
  <2>3. \A q \in DOMAIN rx' : q + 1 \in DOMAIN rx /\ rx'[q] = rx[q + 1] /\ 1 < q + 1
    BY <2>1
  <2> QED
    BY <1>0, <2>1, <2>2, <2>3, SMTT(30) DEF OrderInv, CallbacksInOrder, IsMessage
<1>5. CASE ReceiveFails
  <2>1. rx' = <<>> /\ UNCHANGED <<calls, published>>
    BY <1>5 DEF ReceiveFails, Reconnect
  <2>2. CASE UNCHANGED hdr
    BY <2>1, <2>2 DEF OrderInv, CallbacksInOrder, IsMessage
  <2>3. CASE rx # <<>> /\ hdr' = Header(rx[1])
    <3>1. 1 \in DOMAIN rx /\ hdr'.id = rx[1].id /\ hdr'.n = rx[1].n /\ hdr'.kind = rx[1].kind
      BY <2>3, ElementsOfRx DEF Header
    <3> QED
      BY <2>1, <3>1 DEF OrderInv, CallbacksInOrder, IsMessage
  <2> QED
    BY <1>5, <2>2, <2>3, ElementsOfRx DEF ReceiveFails
<1>6. CASE StartDispatch
  BY <1>6 DEF StartDispatch, OrderInv, CallbacksInOrder, IsMessage, NoHeader
<1>7. CASE Callback
  <2>1. UNCHANGED <<rx, published>> /\ hdr' = NoHeader
    BY <1>7 DEF Callback
  <2>2. CASE UNCHANGED calls
    BY <2>1, <2>2 DEF OrderInv, CallbacksInOrder, IsMessage, NoHeader
  <2>3. CASE ~UNCHANGED calls
    <3>1. PICK slot : /\ [slot |-> slot, n |-> hdr.n, whole |-> hdr.whole] \in Calls
                      /\ calls' = Append(calls, [slot |-> slot, n |-> hdr.n,
                                                 whole |-> hdr.whole])
      BY <1>7, <2>3, OnlyMessagesAreCalledBack
    <3>2. IsMessage(hdr) /\ calls \in Seq(Calls)
      BY <1>7, <2>3, OnlyMessagesAreCalledBack
    <3>3. /\ DOMAIN calls = 1 .. Len(calls) /\ Len(calls) \in Nat
          /\ DOMAIN calls' = 1 .. Len(calls) + 1
          /\ \A a \in DOMAIN calls : calls'[a] = calls[a]
          /\ calls'[Len(calls) + 1].n = hdr.n
      BY <3>1, <3>2, AppendProperties, LenProperties
    <3>4. \A a \in DOMAIN calls' : a # Len(calls) + 1 => a \in DOMAIN calls /\ a < Len(calls) + 1
      BY <3>3
    <3>5. hdr.n \in Nat
      BY DEF TypeOK, Headers
    <3> HIDE DEF IsMessage
    <3>6. CallbacksInOrder'
      BY <3>2, <3>3, <3>4, <3>5 DEF OrderInv, CallbacksInOrder
    <3>7. \A a \in DOMAIN calls' :
            /\ calls'[a].n <= published
            /\ \A q \in DOMAIN rx : IsMessage(rx[q]) => calls'[a].n <= rx[q].n
      BY <3>2, <3>3, <3>4 DEF OrderInv
    <3> QED
      BY <2>1, <3>6, <3>7 DEF OrderInv, IsMessage, NoHeader
  <2> QED
    BY <2>2, <2>3
<1>8. CASE \E more \in Seq(Arrivals) :
             /\ rx' = rx \o more /\ published' >= published /\ UNCHANGED <<hdr, calls>>
             /\ \A q \in DOMAIN more :
                  IF IsMessage(more[q]) THEN more[q].id >= 2 /\ more[q].n = published'
                                        ELSE more[q].id <= 1
  <2>1. PICK more \in Seq(Arrivals) :
             /\ rx' = rx \o more /\ published' >= published /\ UNCHANGED <<hdr, calls>>
             /\ \A q \in DOMAIN more :
                  IF IsMessage(more[q]) THEN more[q].id >= 2 /\ more[q].n = published'
                                        ELSE more[q].id <= 1
    BY <1>8
  <2>2. rx' \in Seq(Arrivals) /\ published' \in Nat
    BY TypeOKPreserved DEF TypeOK
  <2>3. /\ DOMAIN rx' = 1 .. Len(rx) + Len(more) /\ DOMAIN rx = 1 .. Len(rx)
        /\ DOMAIN more = 1 .. Len(more) /\ Len(rx) \in Nat /\ Len(more) \in Nat
        /\ \A q \in DOMAIN rx' : rx'[q] = IF q <= Len(rx) THEN rx[q] ELSE more[q - Len(rx)]
    BY <2>1, <2>2, ElementsOfRx, ConcatProperties, LenProperties DEF TypeOK
  <2>4. \A q \in DOMAIN rx' :
          IF q <= Len(rx) THEN q \in DOMAIN rx /\ rx'[q] = rx[q]
          ELSE q - Len(rx) \in DOMAIN more /\ rx'[q] = more[q - Len(rx)]
    BY <2>3
  <2>5. \A q \in DOMAIN rx' : rx'[q] \in Arrivals
    BY <2>2, ElementOfSeq, <2>3
  <2>6. \A q \in DOMAIN rx' : rx'[q].n \in Nat
    BY <2>5 DEF Arrivals
  <2> HIDE DEF IsMessage
  <2>7. \A q \in DOMAIN rx' :
          IF IsMessage(rx'[q]) THEN rx'[q].id >= 2 /\ rx'[q].n <= published'
                               ELSE rx'[q].id <= 1
    BY <1>0, <2>1, <2>2, <2>4, <2>6, SMTT(30) DEF OrderInv
  <2>8. \A a, q \in DOMAIN rx' :
          a < q /\ IsMessage(rx'[a]) /\ IsMessage(rx'[q]) => rx'[a].n <= rx'[q].n
    <3>1. SUFFICES ASSUME NEW a \in DOMAIN rx', NEW q \in DOMAIN rx', a < q,
                          IsMessage(rx'[a]), IsMessage(rx'[q])
                   PROVE  rx'[a].n <= rx'[q].n
      OBVIOUS
    <3>2. CASE q <= Len(rx)
      <4>1. a <= Len(rx)
        BY <2>3, <3>1, <3>2
      <4> QED
        BY <2>4, <3>1, <3>2, <4>1 DEF OrderInv
    <3>3. CASE ~(q <= Len(rx))
      BY <2>1, <2>4, <2>7, <3>1, <3>3
    <3> QED
      BY <3>2, <3>3
  <2>9. /\ IsMessage(hdr) => hdr.n <= published
        /\ \A a \in DOMAIN calls : calls[a].n <= published
    BY DEF OrderInv
  <2>10. hdr.n \in Nat /\ \A a \in DOMAIN calls : calls[a].n \in Nat
    <3>1. \A a \in DOMAIN calls : calls[a] \in Calls
      BY ElementOfSeq, LenProperties DEF TypeOK
    <3> QED
      BY <3>1 DEF TypeOK, Headers, Calls
  <2>11. \A q \in DOMAIN rx' : IsMessage(rx'[q]) =>
           /\ IsMessage(hdr) => hdr.n <= rx'[q].n
           /\ \A a \in DOMAIN calls : calls[a].n <= rx'[q].n
    <3>1. SUFFICES ASSUME NEW q \in DOMAIN rx', IsMessage(rx'[q])
                   PROVE  /\ IsMessage(hdr) => hdr.n <= rx'[q].n
                          /\ \A a \in DOMAIN calls : calls[a].n <= rx'[q].n
      OBVIOUS
    <3>2. CASE q <= Len(rx)
      BY <2>4, <3>1, <3>2 DEF OrderInv
    <3>3. CASE ~(q <= Len(rx))
      <4>1. rx'[q].n = published'
        BY <2>1, <2>4, <3>1, <3>3
      <4> QED
        BY <1>0, <2>1, <2>2, <2>9, <2>10, <4>1, SMTT(40)
    <3> QED
      BY <3>2, <3>3
  <2>12. /\ IF IsMessage(hdr) THEN hdr.id >= 2 /\ hdr.n <= published' ELSE hdr.id <= 1
         /\ \A a \in DOMAIN calls : calls[a].n <= published'
    BY <1>0, <2>1, <2>2, <2>9, <2>10 DEF OrderInv
  <2>13. IsMessage(hdr)' <=> IsMessage(hdr)
    BY <2>1 DEF IsMessage
  <2>14. CallbacksInOrder' /\ \A a \in DOMAIN calls : IsMessage(hdr) => calls[a].n <= hdr.n
    BY <2>1 DEF OrderInv, CallbacksInOrder
  <2> QED
    BY <2>1, <2>7, <2>8, <2>11, <2>12, <2>13, <2>14 DEF OrderInv, IsMessage
<1>9. CASE RouterDelivers
  <2>1. PICK k \in Slots \ {Inbox} :
          /\ InUse(k)
          /\ rx' = rx \o Copies(listeners[k].subscription_id, published + 1, "message")
    BY <1>9 DEF RouterDelivers
  <2> DEFINE more == Copies(listeners[k].subscription_id, published + 1, "message")
  <2>2. /\ published' = published + 1 /\ UNCHANGED <<hdr, calls>>
        /\ listeners[k].subscription_id \in Nat /\ listeners[k].subscription_id >= 2
    BY <1>9, <2>1 DEF RouterDelivers, IdsInv, TypeOK
  <2>3. /\ more \in Seq(Arrivals)
        /\ \A q \in DOMAIN more : IsMessage(more[q])
             /\ more[q].id = listeners[k].subscription_id /\ more[q].n = published + 1
    <3>1. published + 1 \in Nat
      BY <1>0
    <3>2. /\ more \in Seq(Arrivals)
          /\ \A q \in DOMAIN more : more[q] =
               Incoming(listeners[k].subscription_id, published + 1, "message", "whole")
      BY <2>2, <3>1, CopiesAreAlike
    <3> HIDE DEF more
    <3> QED
      BY <3>2 DEF IsMessage, Incoming
  <2> HIDE DEF more
  <2>4. \A q \in DOMAIN more : more[q].id >= 2 /\ more[q].n = published'
    BY <2>2, <2>3
  <2>5. rx' = rx \o more /\ published' >= published
    BY <1>0, <2>1, <2>2 DEF more
  <2> QED
    BY <1>8, <2>2, <2>3, <2>4, <2>5
<1>10. CASE RouterAnswers
  <2>1. PICK r \in open : rx' = rx \o InboxCopies(r)
    BY <1>10 DEF RouterAnswers
  <2>2. UNCHANGED <<published, hdr, calls>> /\ r \in Nat
    BY <1>10 DEF RouterAnswers, TypeOK
  <2> DEFINE zero == Copies(0, r, "response")
             one == Copies(1, r, "response")
  <2>3. /\ zero \in Seq(Arrivals) /\ one \in Seq(Arrivals)
        /\ \A q \in DOMAIN zero : ~IsMessage(zero[q]) /\ zero[q].id <= 1
        /\ \A q \in DOMAIN one : ~IsMessage(one[q]) /\ one[q].id <= 1
    <3>1. /\ zero \in Seq(Arrivals) /\ one \in Seq(Arrivals)
          /\ \A q \in DOMAIN zero : zero[q] = Incoming(0, r, "response", "whole")
          /\ \A q \in DOMAIN one : one[q] = Incoming(1, r, "response", "whole")
      BY <2>2, CopiesAreAlike
    <3> HIDE DEF zero, one
    <3> QED
      BY <3>1 DEF IsMessage, Incoming
  <2> HIDE DEF zero, one, IsMessage
  <2>4. /\ zero \o one \in Seq(Arrivals)
        /\ \A q \in DOMAIN (zero \o one) : ~IsMessage((zero \o one)[q]) /\ (zero \o one)[q].id <= 1
    <3>1. /\ zero \o one \in Seq(Arrivals) /\ Len(zero) \in Nat /\ Len(one) \in Nat
          /\ DOMAIN (zero \o one) = 1 .. Len(zero) + Len(one)
          /\ DOMAIN zero = 1 .. Len(zero) /\ DOMAIN one = 1 .. Len(one)
      BY <2>3, ConcatProperties, LenProperties
    <3>2. \A q \in DOMAIN (zero \o one) :
            \/ q \in DOMAIN zero /\ (zero \o one)[q] = zero[q]
            \/ q - Len(zero) \in DOMAIN one /\ (zero \o one)[q] = one[q - Len(zero)]
      BY <2>3, <3>1, ConcatProperties
    <3> QED
      BY <2>3, <3>1, <3>2
  <2>5. rx' = rx \o (zero \o one) /\ published' >= published
    BY <1>0, <2>1, <2>2 DEF InboxCopies, zero, one
  <2> QED
    BY <1>8, <2>2, <2>4, <2>5
<1>11. CASE RouterHasNoRoute
  <2>1. PICK r \in open : rx' = Append(rx, Incoming(0, r, "noroute", "whole"))
    BY <1>11 DEF RouterHasNoRoute
  <2>2. UNCHANGED <<published, hdr, calls>> /\ r \in Nat
    BY <1>11 DEF RouterHasNoRoute, TypeOK
  <2> DEFINE more == <<Incoming(0, r, "noroute", "whole")>>
  <2>3. /\ Incoming(0, r, "noroute", "whole") \in Arrivals
        /\ ~IsMessage(Incoming(0, r, "noroute", "whole"))
        /\ Incoming(0, r, "noroute", "whole").id <= 1
    BY <2>2 DEF Incoming, Arrivals, IsMessage
  <2>4. rx' = rx \o more /\ more \in Seq(Arrivals)
    BY <2>1, <2>3, AppendIsConcat DEF TypeOK
  <2>5. \A q \in DOMAIN more : ~IsMessage(more[q]) /\ more[q].id <= 1
    BY <2>3
  <2>6. published' >= published
    BY <1>0, <2>2
  <2> QED
    BY <1>8, <2>2, <2>4, <2>5, <2>6
<1>12. CASE Break
  <2>1. UNCHANGED <<hdr, calls, published>> /\ DOMAIN rx' \subseteq DOMAIN rx
    BY <1>12, CutOff DEF Break
  <2>2. \A q \in DOMAIN rx' : rx'[q].id = rx[q].id /\ rx'[q].n = rx[q].n /\ rx'[q].kind = rx[q].kind
    BY <1>0, <1>12, <2>1, CutOff, ZenonT(40) DEF Arrivals
  <2> QED
    BY <2>1, <2>2 DEF OrderInv, CallbacksInOrder, IsMessage
<1> QED
  BY <1>2, <1>3, <1>4, <1>5, <1>6, <1>7, <1>9, <1>10, <1>11, <1>12
     DEF Next, Inside, Application, Environment

-----------------------------------------------------------------------------
(* A set with at most one element more.                                    *)
LEMMA AtMostOneMore ==
    ASSUME NEW S, IsFiniteSet(S), NEW x, NEW T \in SUBSET (S \cup {x})
    PROVE  IsFiniteSet(T) /\ Cardinality(T) <= Cardinality(S) + 1
           /\ Cardinality(T) \in Nat /\ Cardinality(S) \in Nat
<1>1. /\ IsFiniteSet(S \cup {x}) /\ Cardinality(S \cup {x}) <= Cardinality(S) + 1
      /\ Cardinality(S) \in Nat /\ Cardinality(S \cup {x}) \in Nat
  BY FS_AddElement, FS_CardinalityType
<1>2. IsFiniteSet(T) /\ Cardinality(T) <= Cardinality(S \cup {x}) /\ Cardinality(T) \in Nat
  BY <1>1, FS_Subset, FS_CardinalityType
<1> QED
  BY <1>1, <1>2

(* What all breaks so far may cost.                                        *)
Budget == (SendCap + 1) * breaks

LEMMA BudgetOfABreak ==
    ASSUME TypeOK
    PROVE  /\ Budget \in Nat /\ (UNCHANGED breaks => Budget' = Budget)
           /\ (breaks' = breaks + 1 => Budget' = Budget + SendCap + 1)
<1>1. breaks \in Nat /\ SendCap \in Nat
  BY InboxIsASlot DEF TypeOK
<1>2. \A a, b \in Nat : (a + 1) * b \in Nat /\ (a + 1) * (b + 1) = (a + 1) * b + a + 1
  OBVIOUS
<1> QED
  BY <1>1, <1>2 DEF Budget

(* The harm is counted in finite sets.                                     *)
LEMMA HarmIsFinite ==
    ASSUME TypeOK, DamageInv
    PROVE  /\ IsFiniteSet(Unsent) /\ IsFiniteSet(Halved) /\ IsFiniteSet(Abandoned)
           /\ Cardinality(Unsent) \in Nat /\ Cardinality(Halved) \in Nat
           /\ Cardinality(Abandoned) \in Nat
           /\ HalfRead \in {0, 1} /\ Broken \in {0, SendCap + 1} /\ SendCap \in Nat
           /\ Cardinality(Unsent) + Cardinality(Halved) + Cardinality(Abandoned)
                + HalfRead + Broken <= Budget
<1>1. IsFiniteSet(DOMAIN calls) /\ IsFiniteSet(DOMAIN frames)
  BY FS_Interval, LenProperties DEF TypeOK
<1>2. IsFiniteSet(Halved) /\ IsFiniteSet(Abandoned)
  BY <1>1, FS_Subset DEF Halved, Abandoned
<1> QED
  BY <1>2, InboxIsASlot, FS_CardinalityType DEF DamageInv, HalfRead, Broken, Budget

(* How a step shifts the harm: if each kind of it grows by no more than    *)
(* the rest gives, the bound holds.                                        *)
LEMMA NoMoreHarm ==
    ASSUME TypeOK, DamageInv,
           \A q \in DOMAIN rx' : rx'[q].cut # "whole" => ~alive',
           Unsent' \subseteq Unsent, Halved' \subseteq Halved,
           Abandoned' \subseteq Abandoned,
           HalfRead' <= HalfRead, Broken' <= Broken, UNCHANGED breaks,
           HalfRead' \in {0, 1}, Broken' \in {0, SendCap + 1}
    PROVE  DamageInv'
<1>1. /\ IsFiniteSet(Unsent')
      /\ Cardinality(Unsent') <= Cardinality(Unsent) /\ Cardinality(Unsent') \in Nat
      /\ Cardinality(Halved') <= Cardinality(Halved) /\ Cardinality(Halved') \in Nat
      /\ Cardinality(Abandoned') <= Cardinality(Abandoned) /\ Cardinality(Abandoned') \in Nat
  BY HarmIsFinite, FS_Subset, FS_CardinalityType
<1>2. Cardinality(Unsent') + Cardinality(Halved') + Cardinality(Abandoned')
        + HalfRead' + Broken' <= Budget'
  BY <1>1, HarmIsFinite, BudgetOfABreak
<1> QED
  BY <1>1, <1>2 DEF DamageInv, Budget

(* Two sets together have no more than their elements counted apart.       *)
LEMMA UnionIsNoLarger ==
    ASSUME NEW S, IsFiniteSet(S), NEW T, IsFiniteSet(T), NEW n \in Nat,
           Cardinality(T) <= n, NEW U \in SUBSET (S \cup T)
    PROVE  IsFiniteSet(U) /\ Cardinality(U) \in Nat /\ Cardinality(U) <= Cardinality(S) + n
<1>1. /\ IsFiniteSet(S \cup T) /\ IsFiniteSet(S \cap T)
      /\ Cardinality(S \cup T) = Cardinality(S) + Cardinality(T) - Cardinality(S \cap T)
  BY FS_Union, FS_Intersection
<1>2. /\ Cardinality(S) \in Nat /\ Cardinality(T) \in Nat /\ Cardinality(S \cap T) \in Nat
      /\ Cardinality(S \cup T) \in Nat
  BY <1>1, FS_CardinalityType
<1>3. IsFiniteSet(U) /\ Cardinality(U) \in Nat /\ Cardinality(U) <= Cardinality(S \cup T)
  BY <1>1, FS_Subset, FS_CardinalityType
<1> QED
  BY <1>1, <1>2, <1>3

(* A new socket: what the old one held is lost, which the break pays for.  *)
LEMMA LostWithTheSocket ==
    ASSUME TypeOK, DamageInv, Reconnect, UNCHANGED <<taken, accepted>>
    PROVE  /\ IsFiniteSet(Unsent') /\ Cardinality(Unsent') \in Nat
           /\ Cardinality(Unsent') <= Cardinality(Unsent) + SendCap
<1>1. Unsent' \subseteq Unsent \cup Range(tx)
  BY DEF Unsent, Reached
<1> QED
  BY <1>1, HarmIsFinite, TakenFromTx, UnionIsNoLarger

(* What the router adds to the stream it writes whole.                     *)
LEMMA RouterWritesWhole ==
    ASSUME TypeOK, RouterDelivers \/ RouterAnswers \/ RouterHasNoRoute
    PROVE  \A q \in DOMAIN rx' :
             (q \in DOMAIN rx /\ rx'[q] = rx[q]) \/ rx'[q].cut = "whole"
<1>1. ASSUME NEW s \in Seq(Arrivals), NEW t \in Seq(Arrivals), NEW q \in DOMAIN (s \o t)
      PROVE  \/ q \in DOMAIN s /\ (s \o t)[q] = s[q]
             \/ \E r \in DOMAIN t : (s \o t)[q] = t[r]
  <2>1. /\ DOMAIN s = 1 .. Len(s) /\ DOMAIN t = 1 .. Len(t) /\ Len(s) \in Nat /\ Len(t) \in Nat
        /\ DOMAIN (s \o t) = 1 .. Len(s) + Len(t)
    BY ConcatProperties, LenProperties
  <2>2. CASE q <= Len(s)
    BY <2>1, <2>2, ConcatProperties
  <2>3. CASE ~(q <= Len(s))
    <3>1. q - Len(s) \in DOMAIN t /\ (s \o t)[q] = t[q - Len(s)]
      BY <2>1, <2>3, ConcatProperties
    <3> QED
      BY <3>1
  <2> QED
    BY <2>2, <2>3
<1>2. \A id, n \in Nat, kind \in {"message", "response", "noroute"} :
         /\ Copies(id, n, kind) \in Seq(Arrivals)
         /\ \A q \in DOMAIN Copies(id, n, kind) : Copies(id, n, kind)[q].cut = "whole"
  <2> SUFFICES ASSUME NEW id \in Nat, NEW n \in Nat,
                      NEW kind \in {"message", "response", "noroute"}
               PROVE  /\ Copies(id, n, kind) \in Seq(Arrivals)
                      /\ \A q \in DOMAIN Copies(id, n, kind) :
                            Copies(id, n, kind)[q].cut = "whole"
    OBVIOUS
  <2>1. Incoming(id, n, kind, "whole").cut = "whole"
    BY DEF Incoming
  <2> QED
    BY <2>1, CopiesAreAlike
<1>3. CASE RouterDelivers
  <2>1. PICK k \in Slots :
          rx' = rx \o Copies(listeners[k].subscription_id, published + 1, "message")
    BY <1>3 DEF RouterDelivers
  <2>2. listeners[k].subscription_id \in Nat /\ published + 1 \in Nat /\ rx \in Seq(Arrivals)
    BY DEF TypeOK
  <2> DEFINE more == Copies(listeners[k].subscription_id, published + 1, "message")
  <2>3. more \in Seq(Arrivals) /\ \A q \in DOMAIN more : more[q].cut = "whole"
    BY <1>2, <2>2
  <2>4. rx' = rx \o more
    BY <2>1
  <2> HIDE DEF more
  <2> QED
    BY <1>1, <2>2, <2>3, <2>4
<1>4. CASE RouterAnswers
  <2>1. PICK r \in open : rx' = rx \o (Copies(0, r, "response") \o Copies(1, r, "response"))
    BY <1>4 DEF RouterAnswers, InboxCopies
  <2>2. r \in Nat /\ rx \in Seq(Arrivals)
    BY DEF TypeOK
  <2> DEFINE zero == Copies(0, r, "response")
             one == Copies(1, r, "response")
  <2>3. /\ zero \in Seq(Arrivals) /\ one \in Seq(Arrivals)
        /\ \A q \in DOMAIN zero : zero[q].cut = "whole"
        /\ \A q \in DOMAIN one : one[q].cut = "whole"
    BY <1>2, <2>2
  <2> HIDE DEF zero, one
  <2>4. /\ zero \o one \in Seq(Arrivals)
        /\ \A q \in DOMAIN (zero \o one) : (zero \o one)[q].cut = "whole"
    BY <1>1, <2>3, ConcatProperties
  <2>5. rx' = rx \o (zero \o one)
    BY <2>1 DEF zero, one
  <2> QED
    BY <1>1, <2>2, <2>4, <2>5, SMTT(40)
<1>5. CASE RouterHasNoRoute
  <2>1. PICK r \in open : rx' = Append(rx, Incoming(0, r, "noroute", "whole"))
    BY <1>5 DEF RouterHasNoRoute
  <2>2. /\ Incoming(0, r, "noroute", "whole") \in Arrivals
        /\ Incoming(0, r, "noroute", "whole").cut = "whole" /\ rx \in Seq(Arrivals)
    BY DEF Incoming, Arrivals, TypeOK
  <2> QED
    BY <2>1, <2>2, AppendProperties, LenProperties
<1> QED
  BY <1>3, <1>4, <1>5

LEMMA DamageInvPreserved ==
    TypeOK /\ CallInv /\ IdsInv /\ OrderInv /\ DamageInv /\ [Next]_vars => DamageInv'
<1> SUFFICES ASSUME TypeOK, CallInv, IdsInv, OrderInv, DamageInv, [Next]_vars
             PROVE  DamageInv'
  OBVIOUS
<1> USE DEF api, io, inbound, world, history
<1>0. /\ HalfRead' \in {0, 1} /\ HalfRead \in {0, 1}
      /\ Broken' \in {0, SendCap + 1} /\ Broken \in {0, SendCap + 1}
      /\ \A q \in DOMAIN rx : rx[q].cut # "whole" => ~alive
  BY DEF HalfRead, Broken, DamageInv
<1>1. CASE SendSucceeds
  <2>1. /\ UNCHANGED <<alive, rx, hdr, calls, breaks, taken>> /\ frames # <<>> /\ frames' = Under
        /\ accepted' = accepted \cup {Top.m} /\ tx' = Append(tx, Top.m)
    BY <1>1 DEF SendSucceeds
  <2>2. Unsent' \subseteq Unsent
    <3>1. Top.m \in SentMessages /\ tx \in Seq(SentMessages)
      BY <2>1, TopOfTheStack DEF TypeOK, Frames
    <3>2. Range(tx') = Range(tx) \cup {Top.m}
      BY <2>1, <3>1, RangeOfAppend
    <3> QED
      BY <2>1, <3>2 DEF Unsent, Reached, Reached
  <2>3. Abandoned' \subseteq Abandoned
    BY <2>1, FramesAfterReturn, TopOfTheStack DEF Abandoned
  <2>4. UNCHANGED <<Halved, HalfRead, Broken>>
    BY <2>1 DEF Halved, HalfRead, IsMessage, Broken
  <2> QED
    BY <1>0, <2>1, <2>2, <2>3, <2>4, NoMoreHarm, InboxIsASlot
<1>14. CASE RouterReads
  <2>1. /\ UNCHANGED <<alive, rx, hdr, frames, calls, breaks, accepted>> /\ tx # <<>>
        /\ tx' = Tail(tx) /\ taken' = taken \cup {Head(tx)}
    BY <1>14 DEF RouterReads
  <2>2. UNCHANGED Unsent
    BY <2>1, TakenFromTx DEF Unsent, Reached, Reached
  <2>3. UNCHANGED <<Halved, Abandoned, HalfRead, Broken>>
    BY <2>1 DEF Halved, Abandoned, HalfRead, IsMessage, Broken
  <2> QED
    BY <1>0, <2>1, <2>2, <2>3, NoMoreHarm, InboxIsASlot
<1>2. CASE SendFails
  <2>1. /\ rx' = <<>> /\ ~alive /\ alive' /\ UNCHANGED <<hdr, calls, breaks, taken, accepted>>
        /\ frames # <<>> /\ Reconnect
    BY <1>2 DEF SendFails, Reconnect
  <2>2. Abandoned' \subseteq Abandoned \cup {Len(frames)}
    BY <1>2, FramesAfterFailure DEF Abandoned
  <2>3. UNCHANGED <<Halved, HalfRead>> /\ Broken = SendCap + 1 /\ Broken' = 0
    BY <2>1 DEF Halved, HalfRead, IsMessage, Broken
  <2>4. Cardinality(Abandoned') <= Cardinality(Abandoned) + 1 /\ Cardinality(Abandoned') \in Nat
    BY <2>2, HarmIsFinite, AtMostOneMore
  <2>5. /\ IsFiniteSet(Unsent') /\ Cardinality(Unsent') \in Nat
        /\ Cardinality(Unsent') <= Cardinality(Unsent) + SendCap
    BY <2>1, LostWithTheSocket
  <2>6. Cardinality(Unsent') + Cardinality(Halved') + Cardinality(Abandoned')
          + HalfRead' + Broken' <= Budget'
    BY <2>1, <2>3, <2>4, <2>5, HarmIsFinite, BudgetOfABreak, SMTT(40)
  <2> QED
    BY <2>1, <2>5, <2>6 DEF DamageInv, Budget
<1>3. CASE Reregister
  <2>1. /\ UNCHANGED <<alive, rx, hdr, calls, breaks, tx, taken, accepted>>
        /\ Top.at \in Slots /\ frames # <<>>
    BY <1>3 DEF Reregister
  <2>2. ASSUME NEW q \in Abandoned' PROVE q \in Abandoned
    <3>1. CASE q = Len(frames) + 1 /\ InUse(Top.at)
      BY <1>3, <3>1, FramesAfterReregister DEF Abandoned, Frame
    <3>2. CASE q = Len(frames)
      BY <1>3, <2>1, <3>2, FramesAfterReregister, TopOfTheStack, InboxIsASlot DEF Abandoned, Slots
    <3>3. CASE q \in DOMAIN frames \ {Len(frames)}
      BY <1>3, <3>3, FramesAfterReregister DEF Abandoned
    <3>4. q \in DOMAIN frames'
      BY DEF Abandoned
    <3> QED
      BY <1>3, <2>1, <3>1, <3>2, <3>3, <3>4, FramesAfterReregister, TopOfTheStack
  <2>3. UNCHANGED <<Unsent, Halved, HalfRead, Broken>>
    BY <2>1 DEF Unsent, Reached, Halved, HalfRead, IsMessage, Broken
  <2> QED
    BY <1>0, <2>1, <2>2, <2>3, NoMoreHarm, InboxIsASlot
<1>4. CASE Reregistered
  <2>1. /\ UNCHANGED <<alive, rx, hdr, calls, breaks, tx, taken>> /\ frames # <<>> /\ frames' = Under
        /\ Top.at > MaxListeners
        /\ accepted' = IF Top.m = Nothing THEN accepted ELSE accepted \cup {Top.m}
    BY <1>4 DEF Reregistered
  <2>2. Abandoned' \subseteq Abandoned \ {Len(frames)}
    BY <2>1, FramesAfterReturn, TopOfTheStack DEF Abandoned
  <2>3. UNCHANGED <<Halved, HalfRead, Broken>>
    BY <2>1 DEF Halved, HalfRead, IsMessage, Broken
  <2>4. CASE Top.m = Nothing
    <3>1. Unsent' = Unsent
      BY <2>1, <2>4 DEF Unsent, Reached
    <3> QED
      BY <1>0, <2>1, <2>2, <2>3, <3>1, NoMoreHarm, InboxIsASlot
  <2>5. CASE Top.m # Nothing
    <3>1. Len(frames) \in Abandoned
      <4>1. Top.at > 0
        BY <2>1, TopOfTheStack, InboxIsASlot DEF Frames
      <4> QED
        BY <2>1, <2>5, <4>1, TopOfTheStack DEF Abandoned
    <3>2. /\ Cardinality(Abandoned') <= Cardinality(Abandoned) - 1
          /\ Cardinality(Abandoned') \in Nat
      <4>1. /\ IsFiniteSet(Abandoned \ {Len(frames)})
            /\ Cardinality(Abandoned \ {Len(frames)}) = Cardinality(Abandoned) - 1
        BY <3>1, HarmIsFinite, FS_RemoveElement
      <4> QED
        BY <2>2, <4>1, FS_Subset, FS_CardinalityType
    <3>3. Unsent' \subseteq Unsent \cup {Top.m}
      BY <2>1 DEF Unsent, Reached
    <3>4. /\ IsFiniteSet(Unsent') /\ Cardinality(Unsent') <= Cardinality(Unsent) + 1
          /\ Cardinality(Unsent') \in Nat
      BY <3>3, HarmIsFinite, AtMostOneMore
    <3>5. Cardinality(Unsent') + Cardinality(Halved') + Cardinality(Abandoned')
            + HalfRead' + Broken' <= Budget'
      BY <2>1, <2>3, <3>2, <3>4, HarmIsFinite, BudgetOfABreak, SMTT(30)
    <3> QED
      BY <1>0, <2>1, <3>4, <3>5 DEF DamageInv, Budget
  <2> QED
    BY <2>4, <2>5
<1>5. CASE Receive
  <2>1. /\ UNCHANGED <<alive, frames, calls, breaks, tx, taken, accepted>>
        /\ hdr' = Header(rx[1]) /\ rx[1].cut = "whole"
        /\ \A q \in DOMAIN rx' : q + 1 \in DOMAIN rx /\ rx'[q] = rx[q + 1]
    BY <1>5, ElementsOfRx DEF Receive
  <2>2. HalfRead' = 0
    BY <2>1 DEF HalfRead, Header
  <2>3. UNCHANGED <<Unsent, Halved, Abandoned, Broken>>
    BY <2>1 DEF Unsent, Reached, Halved, Abandoned, Broken
  <2> QED
    BY <1>0, <2>1, <2>2, <2>3, NoMoreHarm, InboxIsASlot
<1>6. CASE ReceiveFails
  <2>1. /\ rx' = <<>> /\ alive' /\ UNCHANGED <<calls, breaks, taken, accepted>> /\ Reconnect
        /\ frames' = <<Frame(Nothing, 1)>> /\ hdr = NoHeader
    BY <1>6 DEF ReceiveFails, Reconnect, CallInv
  <2>2. ~alive
    <3>1. rx # <<>> => 1 \in DOMAIN rx /\ Head(rx) = rx[1]
      BY ElementsOfRx
    <3> QED
      BY <1>0, <1>6, <3>1 DEF ReceiveFails
  <2>3. Abandoned' = {}
    BY <2>1 DEF Abandoned, Frame
  <2>4. UNCHANGED Halved /\ Broken = SendCap + 1 /\ Broken' = 0 /\ HalfRead = 0
    BY <2>1, <2>2 DEF Halved, Broken, HalfRead, IsMessage, NoHeader
  <2>5. /\ IsFiniteSet(Unsent') /\ Cardinality(Unsent') \in Nat
        /\ Cardinality(Unsent') <= Cardinality(Unsent) + SendCap
    BY <2>1, LostWithTheSocket
  <2>6. Cardinality(Unsent') + Cardinality(Halved') + Cardinality(Abandoned')
          + HalfRead' + Broken' <= Budget'
    BY <1>0, <2>1, <2>3, <2>4, <2>5, HarmIsFinite, BudgetOfABreak, FS_EmptySet
  <2> QED
    BY <2>1, <2>5, <2>6 DEF DamageInv, Budget
<1>7. CASE Callback
  <2>1. UNCHANGED <<alive, rx, frames, breaks, tx, taken, accepted>> /\ hdr' = NoHeader
    BY <1>7 DEF Callback
  <2>2. UNCHANGED <<Unsent, Abandoned, Broken>> /\ HalfRead' = 0
    BY <2>1 DEF Unsent, Reached, Abandoned, Broken, HalfRead, IsMessage, NoHeader
  <2>3. CASE UNCHANGED calls
    <3>1. UNCHANGED Halved
      BY <2>3 DEF Halved
    <3> QED
      BY <1>0, <2>1, <2>2, <3>1, NoMoreHarm, InboxIsASlot
  <2>4. CASE ~UNCHANGED calls
    <3>1. PICK slot : /\ [slot |-> slot, n |-> hdr.n, whole |-> hdr.whole] \in Calls
                      /\ calls' = Append(calls, [slot |-> slot, n |-> hdr.n,
                                                 whole |-> hdr.whole])
      BY <1>7, <2>4, OnlyMessagesAreCalledBack
    <3>2. IsMessage(hdr) /\ calls \in Seq(Calls)
      BY <1>7, <2>4, OnlyMessagesAreCalledBack
    <3>3. /\ DOMAIN calls = 1 .. Len(calls) /\ Len(calls) \in Nat
          /\ DOMAIN calls' = 1 .. Len(calls) + 1
          /\ \A a \in DOMAIN calls : calls'[a] = calls[a]
          /\ calls'[Len(calls) + 1].whole = hdr.whole
      BY <3>1, <3>2, AppendProperties, LenProperties
    <3>4. CASE hdr.whole
      <4>1. ASSUME NEW a \in Halved' PROVE a \in Halved
        <5>1. a \in DOMAIN calls' /\ ~calls'[a].whole
          BY DEF Halved
        <5>2. a # Len(calls) + 1
          BY <3>3, <3>4, <5>1
        <5>3. a \in DOMAIN calls /\ calls'[a] = calls[a]
          BY <3>3, <5>1, <5>2
        <5> QED
          BY <5>1, <5>3 DEF Halved
      <4> QED
        BY <1>0, <2>1, <2>2, <4>1, NoMoreHarm, InboxIsASlot
    <3>5. CASE ~hdr.whole
      <4>1. Halved' \subseteq Halved \cup {Len(calls) + 1}
        BY <3>3 DEF Halved
      <4>2. /\ Cardinality(Halved') <= Cardinality(Halved) + 1
            /\ Cardinality(Halved') \in Nat
        BY <4>1, HarmIsFinite, AtMostOneMore
      <4>3. HalfRead = 1
        BY <3>2, <3>5 DEF HalfRead
      <4>4. Cardinality(Unsent') + Cardinality(Halved') + Cardinality(Abandoned')
              + HalfRead' + Broken' <= Budget'
        BY <1>0, <2>1, <2>2, <4>2, <4>3, HarmIsFinite, BudgetOfABreak
      <4> QED
        BY <1>0, <2>1, <2>2, <4>4, HarmIsFinite DEF DamageInv, Budget
    <3> QED
      BY <3>4, <3>5
  <2> QED
    BY <2>3, <2>4
<1>8. CASE Break
  <2>1. /\ alive /\ ~alive' /\ breaks' = breaks + 1
        /\ UNCHANGED <<hdr, frames, calls, tx, taken, accepted>>
    BY <1>8 DEF Break
  <2>2. UNCHANGED <<Unsent, Halved, Abandoned, HalfRead>> /\ Broken = 0 /\ Broken' = SendCap + 1
    BY <2>1 DEF Unsent, Reached, Halved, Abandoned, HalfRead, IsMessage, Broken
  <2>3. Cardinality(Unsent') + Cardinality(Halved') + Cardinality(Abandoned')
          + HalfRead' + Broken' <= Budget'
    BY <2>1, <2>2, HarmIsFinite, BudgetOfABreak
  <2> QED
    BY <2>1, <2>2, <2>3, HarmIsFinite DEF DamageInv, Budget
<1>9. CASE StartDispatch
  <2>1. UNCHANGED <<alive, rx, frames, calls, breaks, tx, taken, accepted>> /\ hdr' = NoHeader
    BY <1>9 DEF StartDispatch
  <2>2. UNCHANGED <<Unsent, Halved, Abandoned, Broken>> /\ HalfRead' = 0
    BY <2>1 DEF Unsent, Reached, Halved, Abandoned, Broken, HalfRead, IsMessage, NoHeader
  <2> QED
    BY <1>0, <2>1, <2>2, NoMoreHarm, InboxIsASlot
<1>10. CASE AddListener \/ SendMessage \/ SendRequest
  <2>1. /\ UNCHANGED <<alive, rx, hdr, calls, breaks, tx, taken, accepted>>
        /\ \E m : frames' = <<Frame(m, 0)>>
    BY <1>10 DEF AddListener, SendMessage, SendRequest
  <2>2. Abandoned' = {}
    BY <2>1 DEF Abandoned, Frame
  <2>3. UNCHANGED <<Unsent, Halved, HalfRead, Broken>>
    BY <2>1 DEF Unsent, Reached, Halved, HalfRead, IsMessage, Broken
  <2> QED
    BY <1>0, <2>1, <2>2, <2>3, NoMoreHarm, InboxIsASlot
<1>11. CASE UNCHANGED <<alive, hdr, frames, calls, breaks, tx, taken, accepted>>
            /\ \A q \in DOMAIN rx' : rx'[q].cut # "whole" => ~alive
  <2>1. UNCHANGED <<Unsent, Halved, Abandoned, HalfRead, Broken>>
    BY <1>11 DEF Unsent, Reached, Halved, Abandoned, HalfRead, IsMessage, Broken
  <2> QED
    BY <1>0, <1>11, <2>1, NoMoreHarm, InboxIsASlot
<1>12. CASE SendReturns \/ RequestAnswered \/ RequestUnanswered \/ RequestTimesOut
            \/ UNCHANGED vars
  BY <1>0, <1>11, <1>12 DEF SendReturns, RequestAnswered, RequestUnanswered,
     RequestTimesOut, vars
<1>13. CASE RouterDelivers \/ RouterAnswers \/ RouterHasNoRoute
  <2>1. UNCHANGED <<alive, hdr, frames, calls, breaks, tx, taken, accepted>>
    BY <1>13 DEF RouterDelivers, RouterAnswers, RouterHasNoRoute
  <2>2. \A q \in DOMAIN rx' : rx'[q].cut # "whole" => ~alive
    BY <1>0, <1>13, RouterWritesWhole
  <2> QED
    BY <1>11, <2>1, <2>2
<1> QED
  BY <1>1, <1>2, <1>3, <1>4, <1>5, <1>6, <1>7, <1>8, <1>9, <1>10, <1>12, <1>13, <1>14
     DEF Next, Inside, Application, Environment

-----------------------------------------------------------------------------
LEMMA IInvIsInductive == IInv /\ [Next]_vars => IInv'
BY TypeOKPreserved, CallInvPreserved, IdsInvPreserved, RegisteredInvPreserved,
   OrderInvPreserved, DamageInvPreserved DEF IInv

(* What the five properties below rest on, together inductive.             *)
THEOREM IInvIsInvariant == Spec => []IInv
<1>1. Init => IInv
  BY InitEstablishesIInv
<1>2. IInv /\ [Next]_vars => IInv'
  BY IInvIsInductive
<1> QED
  BY <1>1, <1>2, PTL DEF Spec

(* The data of a connection is always well formed (rtConnection.c:50-64).  *)
THEOREM TypeCorrect == Spec => []TypeOK
<1>1. IInv => TypeOK
  BY DEF IInv
<1> QED
  BY <1>1, IInvIsInvariant, PTL

(* However often and wherever the connection breaks, once no send is under *)
(* way the router has been told, on the connection there is now, of every  *)
(* listener that has kept its id: also when the calls that were putting it *)
(* back were themselves cut off (rtConnection.c:145-159, 448-487,          *)
(* 504-517).                                                               *)
THEOREM EveryListenerIsRegistered == Spec => []ListenersRegistered
<1>1. IInv => ListenersRegistered
  <2> SUFFICES ASSUME IInv, frames = <<>>, alive, NEW k \in Slots, InUse(k),
                      listeners[k].subscription_id # 0
               PROVE  Told(listeners[k].subscription_id)
    BY DEF ListenersRegistered
  <2>1. ~Due(k)
    BY DEF Due
  <2> QED
    BY <2>1 DEF IInv, RegisteredInv
<1> QED
  BY <1>1, IInvIsInvariant, PTL

(* No two listeners answer to one id, though the inbox may lose its own    *)
(* (rtConnection.c:79-84, 596-607).                                        *)
THEOREM NoIdIsSharedByListeners == Spec => []IdsDistinct
<1>1. IInv => IdsDistinct
  BY DEF IInv, IdsInv
<1> QED
  BY <1>1, IInvIsInvariant, PTL

(* Callbacks come in the order of publication, across any number of        *)
(* reconnections (rtConnection.c:528-617).                                 *)
THEOREM CallbacksKeepTheOrder == Spec => []CallbacksInOrder
<1>1. IInv => CallbacksInOrder
  BY DEF IInv, OrderInv
<1> QED
  BY <1>1, IInvIsInvariant, PTL

(* Each break costs no more than what one socket holds and one message     *)
(* besides: sends reported as done that no router has read nor will read,  *)
(* and callbacks for half a message, counted together                      *)
(* (rtConnection.c:448-487, 575-617).                                      *)
THEOREM EachBreakCostsOneSocket == Spec => []DamageBounded
<1>1. IInv => DamageBounded
  <2> SUFFICES ASSUME IInv PROVE DamageBounded
    OBVIOUS
  <2> USE DEF IInv
  <2>1. CASE alive
    <3>1. Lost = Unsent
      BY <2>1 DEF Lost, Unsent, Reached
    <3>2. Cardinality(Lost) + Cardinality(Halved) <= Budget
      BY <3>1, HarmIsFinite, BudgetOfABreak
    <3> QED
      BY <3>2 DEF DamageBounded, Budget
  <2>2. CASE ~alive
    <3>1. Lost \subseteq Unsent \cup Range(tx)
      BY <2>2 DEF Lost, Unsent, Reached
    <3>2. IsFiniteSet(Lost) /\ Cardinality(Lost) \in Nat
          /\ Cardinality(Lost) <= Cardinality(Unsent) + SendCap
      BY <3>1, HarmIsFinite, TakenFromTx, UnionIsNoLarger
    <3>3. Broken = SendCap + 1
      BY <2>2 DEF Broken
    <3>4. Cardinality(Lost) + Cardinality(Halved) <= Budget
      BY <3>2, <3>3, HarmIsFinite, BudgetOfABreak
    <3> QED
      BY <3>4 DEF DamageBounded, Budget
  <2> QED
    BY <2>1, <2>2
<1> QED
  BY <1>1, IInvIsInvariant, PTL
=============================================================================
