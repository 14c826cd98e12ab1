------------------------ MODULE DmProviderHostProofs ------------------------
(***************************************************************************)
(* For any providers, requests and numbers of them: a request misses its   *)
(* provider only while main is between subscribing and inserting it, the   *)
(* stream stays in step until both threads have sent at once, and what a   *)
(* transaction takes over is all of it and nothing else.                   *)
(***************************************************************************)
EXTENDS DmProviderHost, SequenceTheorems, FiniteSetTheorems,
        NaturalsInduction, WellFoundedInduction, TLAPS

Places == {"none", "start", "register", "header", "payload", "insert",
           "inserting", "wait", "provider", "respond", "crashed"}

Params   == [prop : Props, value : Values]
Works    == [object : Objects \cup {"none"}, op : {"none", "get", "set"},
             params : Seq(Params), at : Nat]
Results  == [prop : Props, value : Values, code : {"ok", "error", "not found"}]
Parts    == [half : {"header", "payload"}, m : Messages]
Requests == [listener : Nat, n : 1 .. MaxRequests, op : {"get", "set", "none"},
             params : Gets \cup Sets \cup {<<>>}]

(* More than TypeOK says of the work and of what is on its way.            *)
ShapeInv ==
    /\ work \in Works /\ result \in Seq(Results)
    /\ wire \in Seq(Parts) /\ sending \in [Threads -> Messages]
    /\ rx \in Seq(Requests)
    /\ \A q \in 1 .. Len(rx) :
         /\ rx[q].op = "get" => rx[q].params \in Gets
         /\ rx[q].op = "set" => rx[q].params \in Sets

HostTypes ==
    /\ at \in [Threads -> Places] /\ turn \in 1 .. Len(RegisterOrder) + 1
    /\ sending \in [Threads -> Messages] /\ send_buffer \in Messages
    /\ wire \in Seq(Parts) /\ broken \in BOOLEAN /\ overlapped \in BOOLEAN
    /\ listeners \in Seq(Known) /\ subscribed \subseteq Known /\ providers \subseteq Known
    /\ requests \in 0 .. MaxRequests /\ missed \subseteq 1 .. MaxRequests
    /\ responses \in Seq(1 .. MaxRequests) /\ rx \in Seq(Requests)

(* The two threads share what they send with no lock.  Until they have     *)
(* both been in SendInternal, the stream is headers, each followed by its  *)
(* payload, the last payload perhaps still to come.                        *)
Sender(t) == at[t] = "payload"

WholeParts ==
    /\ ~broken
    /\ \A t, u \in Threads : InSend(t) /\ InSend(u) => t = u
    /\ \A t \in Threads : InSend(t) => send_buffer = sending[t]
    /\ \A k \in Nat : 2 * k + 1 <= Len(wire) => wire[2 * k + 1].half = "header"
    /\ \A k \in Nat : 2 * k + 2 <= Len(wire) =>
         wire[2 * k + 2] = Part("payload", wire[2 * k + 1].m)
    /\ \A t \in Threads : Sender(t) =>
         \E k \in Nat : Len(wire) = 2 * k + 1 /\ wire[2 * k + 1].m = sending[t]
    /\ (\A t \in Threads : ~Sender(t)) => \E k \in Nat : Len(wire) = 2 * k

StreamInv == ~overlapped => WholeParts

(* Who has been told of a provider finds it in the map, or main is on its  *)
(* way there.                                                              *)
Registering(o) == at[Main] \in {"insert", "inserting"} /\ o = Candidate

Served(o) == o \in providers \/ Registering(o)

BookInv ==
    /\ at[Main] \in {"header", "payload", "insert", "inserting"} =>
         turn <= Len(RegisterOrder) /\ Candidate \in Known
    /\ InSend(Main) => sending[Main] = Subscribe(Candidate)
    /\ sending[Dispatcher].kind # "subscribe"
    /\ \A k \in 1 .. Len(wire) :
         wire[k].half = "payload" /\ wire[k].m.kind = "subscribe" => Served(wire[k].m.object)
    /\ \A o \in subscribed : Served(o)
    /\ at[Dispatcher] \in {"provider", "respond"} => rx # <<>>
    /\ \A q \in 1 .. Len(rx) :
         /\ rx[q].listener \in 1 .. Len(listeners)
         /\ listeners[rx[q].listener] \in subscribed

ProviderTypes ==
    /\ store \in [Objects -> [Props \ Missing -> Values]]
    /\ staged \in [Objects -> [Staged -> Values]]
    /\ isTransaction \in [Objects -> BOOLEAN]
    /\ work \in Works /\ result \in Seq(Results)

(* A transaction is open for one object, and only while its request is     *)
(* being answered.                                                         *)
Transaction(o) == work.op = "set" /\ Many /\ work.object = o

WorkInv ==
    /\ work.op # "none" => work.object \in Objects /\ work.at >= 1
    /\ work.at <= Len(work.params) + 1
    /\ at[Dispatcher] # "provider" => work.op = "none"
    /\ at[Main] = "start" => at[Dispatcher] = "none"
    /\ \A o \in Objects : isTransaction[o] <=> Transaction(o)

(* What is put aside is the last value of those parameters that were       *)
(* answered, and nothing of an earlier request.                            *)
LastOf(p, k) ==
    /\ work.params[k].prop = p
    /\ \A l \in k + 1 .. work.at - 1 : work.params[l].prop # p

StagedInv ==
    \A o \in Objects : Transaction(o) => \A p \in Staged :
        \/ staged[o][p] = Empty
        \/ \E k \in 1 .. work.at - 1 : LastOf(p, k) /\ staged[o][p] = work.params[k].value

(* The one parameter of a request that is no transaction.                  *)
SingleInv ==
    /\ work.op = "set" /\ ~Many /\ result # <<>> => work.at = 2
    /\ work.op = "set" /\ ~Many /\ result # <<>> /\ Last(result).code = "ok" =>
         store[work.object][Last(result).prop] = Last(result).value

IInv ==
    TypeOK /\ ShapeInv /\ StreamInv /\ BookInv /\ WorkInv /\ StagedInv /\ SingleInv
-----------------------------------------------------------------------------
(***************************************************************************)
(* Decoding a request.                                                     *)
(***************************************************************************)

(* The position of the m-th member of a set of positions.                  *)
LEMMA NthPosition ==
    ASSUME NEW len \in Nat, NEW W \in SUBSET (1 .. len), NEW m \in 1 .. Cardinality(W)
    PROVE  \E k \in W : Cardinality({q \in W : q <= k}) = m
<1> DEFINE upto(k) == {q \in W : q <= k}
           S == {k \in Nat : m <= Cardinality(upto(k))}
           Before == {pair \in Nat \X Nat : pair[1] < pair[2]}
<1>0. \A q \in W : q \in Nat /\ 1 <= q /\ q <= len
  OBVIOUS
<1>1. IsFiniteSet(W) /\ \A k : IsFiniteSet(upto(k)) /\ Cardinality(upto(k)) \in Nat
  <2>1. IsFiniteSet(1 .. len)
    BY FS_Interval
  <2>2. IsFiniteSet(W)
    BY <2>1, FS_Subset
  <2>3. ASSUME NEW k PROVE IsFiniteSet(upto(k)) /\ Cardinality(upto(k)) \in Nat
    <3>1. upto(k) \subseteq W
      OBVIOUS
    <3> HIDE DEF upto
    <3> QED BY <2>2, <3>1, FS_Subset, FS_CardinalityType
  <2> HIDE DEF upto
  <2> QED BY <2>2, <2>3
<1>2. len \in S
  <2>1. upto(len) = W
    BY <1>0
  <2> QED BY <1>1, <2>1, FS_CardinalityType
<1>3. PICK k \in S : \A l \in S : <<l, k>> \notin Before
  <2>1. IsWellFoundedOn(Before, Nat)
    BY NatLessThanWellFounded DEF OpToRel
  <2>2. S \subseteq Nat /\ S # {}
    BY <1>2
  <2> HIDE DEF Before, S
  <2> QED BY <2>1, <2>2, WFMin
<1>4. k \in Nat /\ m <= Cardinality(upto(k)) /\ m \in Nat /\ m >= 1
  BY <1>1, FS_CardinalityType
<1>5. k # 0
  <2>1. upto(0) = {}
    <3>1. \A q \in W : ~(q <= 0)
      BY <1>0
    <3> QED BY <3>1
  <2> QED BY <1>4, <2>1, FS_EmptySet
<1>6. k - 1 \in Nat /\ Cardinality(upto(k - 1)) < m
  <2>1. k - 1 \in Nat /\ <<k - 1, k>> \in Before
    BY <1>4, <1>5
  <2>2. k - 1 \notin S
    BY <1>3, <2>1
  <2> HIDE DEF upto
  <2> QED BY <1>1, <1>4, <2>1, <2>2
<1>7. k \in W
  <2> SUFFICES ASSUME k \notin W PROVE FALSE
    OBVIOUS
  <2>1. upto(k) = upto(k - 1)
    <3>1. \A q \in W : q <= k <=> q <= k - 1
      BY <1>0, <1>4, <1>6
    <3> QED BY <3>1
  <2> HIDE DEF upto
  <2> QED BY <1>1, <1>4, <1>6, <2>1
<1>8. Cardinality(upto(k)) = Cardinality(upto(k - 1)) + 1
  <2>1. upto(k) = upto(k - 1) \cup {k} /\ k \notin upto(k - 1)
    <3>1. \A q \in W : q <= k <=> (q <= k - 1 \/ q = k)
      BY <1>0, <1>4, <1>6
    <3>2. ~(k <= k - 1)
      BY <1>4
    <3> QED BY <1>7, <3>1, <3>2
  <2> HIDE DEF upto
  <2> QED BY <1>1, <2>1, FS_AddElement
<1>9. Cardinality(upto(k)) = m
  <2> HIDE DEF upto
  <2> QED BY <1>1, <1>4, <1>6, <1>8
<1> QED BY <1>7, <1>9

LEMMA InModelType ==
    ASSUME NEW name
    PROVE  InModel(name) \in Props
<1>1. Unnamed \in Props
  BY HostAssumption DEF Props
<1>2. ASSUME name \in Range(Properties) PROVE name \in Props
  BY <1>2, HostAssumption, ElementOfSeq DEF Range
<1> QED BY <1>1, <1>2 DEF InModel

LEMMA GetDecoded ==
    ASSUME NEW name
    PROVE  decodeGetRequest(name) \in Seq(Params)
<1>1. \A p \in Props : Param(p, Empty) \in Params
  BY ProviderAssumption DEF Param, Params
<1>2. CASE name = Wildcard
  <2>1. Len(Properties) \in Nat /\ DOMAIN Properties = 1 .. Len(Properties)
    BY HostAssumption
  <2>2. \A k \in 1 .. Len(Properties) : Param(Properties[k], Empty) \in Params
    BY <1>1, HostAssumption, ElementOfSeq
  <2>3. [k \in 1 .. Len(Properties) |-> Param(Properties[k], Empty)]
          \in [1 .. Len(Properties) -> Params]
    BY <2>2
  <2> QED BY <1>2, <2>1, <2>3, SeqDef DEF decodeGetRequest
<1>3. CASE name # Wildcard
  BY <1>1, <1>3, InModelType DEF decodeGetRequest
<1> QED BY <1>2, <1>3

LEMMA SetDecoded ==
    ASSUME NEW pieces \in Sets
    PROVE  decodeSetRequest(pieces) \in Seq(Params)
<1> DEFINE whole == {k \in 1 .. Len(pieces) : Len(pieces[k]) = 2}
           Nth(m) == CHOOSE k \in whole : Cardinality({q \in whole : q <= k}) = m
           nameVal(m) == Param(InModel(pieces[Nth(m)][1]), pieces[Nth(m)][2])
<1>1. Len(pieces) \in Nat /\ DOMAIN pieces = 1 .. Len(pieces)
  BY SetsAssumption
<1>2. Cardinality(whole) \in Nat
  <2>1. IsFiniteSet(1 .. Len(pieces)) /\ whole \subseteq 1 .. Len(pieces)
    BY <1>1, FS_Interval
  <2>2. IsFiniteSet(whole)
    BY <2>1, FS_Subset
  <2> QED BY <2>2, FS_CardinalityType
<1>3. ASSUME NEW m \in 1 .. Cardinality(whole) PROVE nameVal(m) \in Params
  <2>1. \E k \in whole : Cardinality({q \in whole : q <= k}) = m
    <3>1. whole \in SUBSET (1 .. Len(pieces))
      OBVIOUS
    <3> HIDE DEF whole
    <3> QED BY <1>1, <3>1, NthPosition
  <2>2. Nth(m) \in whole
    <3> HIDE DEF whole
    <3> QED BY <2>1
  <2>3. pieces[Nth(m)][2] \in Values
    <3> HIDE DEF Nth
    <3> QED BY <1>1, <2>2, SetsAssumption
  <2>4. InModel(pieces[Nth(m)][1]) \in Props
    BY InModelType
  <2> HIDE DEF Nth
  <2> QED BY <2>3, <2>4 DEF Param, Params
<1>4. decodeSetRequest(pieces) = [m \in 1 .. Cardinality(whole) |-> nameVal(m)]
  BY DEF decodeSetRequest
<1>5. [m \in 1 .. Cardinality(whole) |-> nameVal(m)] \in [1 .. Cardinality(whole) -> Params]
  <2> HIDE DEF nameVal, whole
  <2> QED BY <1>3
<1> HIDE DEF nameVal, whole
<1> QED BY <1>2, <1>4, <1>5, SeqDef
-----------------------------------------------------------------------------
(***************************************************************************)
(* The provider.                                                           *)
(***************************************************************************)
LEMMA CurrentType ==
    ASSUME ProviderTypes, WorkInv, work.op # "none", work.at <= Len(work.params)
    PROVE  /\ work.at \in 1 .. Len(work.params) /\ Current \in Params
           /\ Current.prop \in Props /\ Current.value \in Values
           /\ work.object \in Objects
<1>1. work.at \in Nat /\ work.params \in Seq(Params) /\ work.at >= 1
  BY DEF ProviderTypes, Works, WorkInv
<1>2. work.at \in 1 .. Len(work.params)
  BY <1>1
<1>3. Current \in Params
  BY <1>1, <1>2, ElementOfSeq DEF Current
<1> QED BY <1>2, <1>3 DEF Params, WorkInv

LEMMA AnswerEffect ==
    ASSUME ProviderTypes, NEW a \in Results, Answers(a)
    PROVE  /\ work' \in Works /\ work'.at = work.at + 1 /\ work'.op = work.op
           /\ work'.object = work.object /\ work'.params = work.params
           /\ result' \in Seq(Results) /\ result' # <<>> /\ Last(result') = a
<1>1. work \in Works /\ result \in Seq(Results)
  BY DEF ProviderTypes
<1>2. work' = [work EXCEPT !.at = @ + 1] /\ result' = Append(result, a)
  BY DEF Answers
<1>3. /\ work' \in Works /\ work'.at = work.at + 1 /\ work'.op = work.op
      /\ work'.object = work.object /\ work'.params = work.params
  BY <1>1, <1>2, SMTT(30) DEF Works
<1>4. /\ result' \in Seq(Results) /\ Len(result') = Len(result) + 1
      /\ result'[Len(result) + 1] = a /\ Len(result) \in Nat
  BY <1>1, <1>2, AppendProperties, LenProperties
<1>5. result' # <<>> /\ Last(result') = a
  BY <1>4 DEF Last
<1> QED BY <1>3, <1>4, <1>5

LEMMA AnswersAreResults ==
    ASSUME NEW p \in Props, NEW v \in Values
    PROVE  /\ Answer(p, v, "ok") \in Results
           /\ Answer(p, v, "error") \in Results
           /\ Answer(p, v, "not found") \in Results
BY DEF Answer, Results

(* What each step of the provider does, with the answer it gives.          *)
LEMMA AnswerTypes ==
    ASSUME ProviderTypes, WorkInv, GetNext \/ RefuseFixed \/ SetNext \/ SetVirtual
    PROVE  \E a \in Results :
             /\ Answers(a) /\ a.prop = Current.prop
             /\ \/ GetNext
                \/ RefuseFixed /\ a.code = "error"
                \/ SetNext /\ a.code = "ok" /\ a.value = Current.value
                \/ /\ SetVirtual /\ Current.prop \in Virtual
                   /\ a.code = "ok" /\ a.value = Current.value
                \/ SetVirtual /\ Current.prop \in Missing /\ a.code = "not found"
<1>1. /\ Current.prop \in Props /\ Current.value \in Values
      /\ work.object \in Objects
  BY CurrentType DEF GetNext, RefuseFixed, SetNext, SetVirtual, Working
<1>2. PICK p, v : p = Current.prop /\ v = Current.value
  OBVIOUS
<1>3. p \in Props /\ v \in Values
  BY <1>1, <1>2
<1>4. PICK missing, refused, set :
        /\ missing = Answer(p, Empty, "not found")
        /\ refused = Answer(p, Empty, "error")
        /\ set = Answer(p, v, "ok")
  OBVIOUS
<1>5. missing \in Results /\ refused \in Results /\ set \in Results
  BY <1>3, <1>4, AnswersAreResults, ProviderAssumption, Zenon
<1>6. /\ missing.prop = p /\ missing.code = "not found"
      /\ refused.prop = p /\ refused.code = "error"
      /\ set.prop = p /\ set.code = "ok" /\ set.value = v
  BY <1>4 DEF Answer
<1>7. CASE GetNext
  <2>1. CASE p \in Missing
    <3>1. Answers(missing)
      BY <1>2, <1>4, <1>7, <2>1, Zenon DEF GetNext
    <3> QED BY <1>2, <1>5, <1>6, <1>7, <3>1, Zenon
  <2>2. CASE p \notin Missing
    <3>1. PICK value : value = store[work.object][p]
      OBVIOUS
    <3>2. value \in Values
      BY <1>1, <1>3, <2>2, <3>1 DEF ProviderTypes
    <3>3. PICK a : a = Answer(p, value, "ok")
      OBVIOUS
    <3>4. a \in Results
      BY <1>3, <3>2, <3>3, AnswersAreResults, Zenon
    <3>5. a.prop = p
      BY <3>3 DEF Answer
    <3>6. Answers(a)
      BY <1>2, <1>7, <2>2, <3>1, <3>3, Zenon DEF GetNext
    <3> QED BY <1>2, <1>7, <3>4, <3>5, <3>6, Zenon
  <2> QED BY <2>1, <2>2
<1>8. CASE RefuseFixed
  <2>1. Answers(refused)
    BY <1>2, <1>4, <1>8, Zenon DEF RefuseFixed
  <2> QED BY <1>2, <1>5, <1>6, <1>8, <2>1, Zenon
<1>9. CASE SetNext
  <2>1. Answers(set)
    BY <1>2, <1>4, <1>9, Zenon DEF SetNext
  <2> QED BY <1>2, <1>5, <1>6, <1>9, <2>1, Zenon
<1>10. CASE SetVirtual
  <2>1. CASE p \in Virtual
    <3>1. Answers(set)
      BY <1>2, <1>4, <1>10, <2>1, Zenon DEF SetVirtual
    <3> QED BY <1>2, <1>5, <1>6, <1>10, <2>1, <3>1, Zenon
  <2>2. CASE p \notin Virtual
    <3>1. Answers(missing) /\ p \in Missing
      BY <1>2, <1>4, <1>10, <2>2, Zenon DEF SetVirtual
    <3> QED BY <1>2, <1>5, <1>6, <1>10, <3>1, Zenon
  <2> QED BY <2>1, <2>2
<1> QED BY <1>7, <1>8, <1>9, <1>10

LEMMA StoreEffect ==
    ASSUME ProviderTypes, WorkInv, SetNext \/ SetVirtual
    PROVE  LET o == work.object
               p == Current.prop
           IN  /\ o \in Objects
               /\ \/ store' = store
                  \/ /\ p \in Props \ Missing
                     /\ p \in Staged => ~isTransaction[o]
                     /\ store' = [store EXCEPT ![o][p] = Current.value]
                     /\ staged' = staged
               /\ \/ staged' = staged
                  \/ /\ p \in Staged /\ isTransaction[o]
                     /\ staged' = [staged EXCEPT ![o][p] = Current.value]
               /\ isTransaction' = isTransaction
<1>1. /\ Current.prop \in Props /\ work.object \in Objects
  BY CurrentType DEF SetNext, SetVirtual, Working
<1>2. Staged \cap Missing = {} /\ Virtual \cap Missing = {} /\ Staged \cap Virtual = {}
  BY KindsAssumption
<1>3. CASE SetNext /\ isTransaction[work.object]
  BY <1>1, <1>3 DEF SetNext
<1>4. CASE SetNext /\ ~isTransaction[work.object]
  BY <1>1, <1>2, <1>4 DEF SetNext
<1>5. CASE SetVirtual /\ Current.prop \in Virtual
  BY <1>1, <1>2, <1>5 DEF SetVirtual
<1>6. CASE SetVirtual /\ Current.prop \notin Virtual
  BY <1>1, <1>6 DEF SetVirtual
<1> QED BY <1>3, <1>4, <1>5, <1>6

LEMMA ProviderTypesStep ==
    ASSUME ProviderTypes, WorkInv, ProviderStep
    PROVE  ProviderTypes'
<1>1. CASE GetNext \/ RefuseFixed
  <2>1. UNCHANGED <<store, staged, isTransaction>>
    BY <1>1 DEF GetNext, RefuseFixed
  <2>2. work' \in Works /\ result' \in Seq(Results)
    BY <1>1, AnswerTypes, AnswerEffect
  <2> QED BY <2>1, <2>2 DEF ProviderTypes
<1>2. CASE SetNext \/ SetVirtual
  <2>1. work' \in Works /\ result' \in Seq(Results)
    BY <1>2, AnswerTypes, AnswerEffect
  <2>2. Current.value \in Values
    BY <1>2, CurrentType DEF SetNext, SetVirtual, Working
  <2>3. isTransaction' = isTransaction
    BY <1>2, StoreEffect
  <2>4. store' \in [Objects -> [Props \ Missing -> Values]]
    <3>1. CASE store' = store
      BY <3>1 DEF ProviderTypes
    <3>2. CASE store' # store
      <4>1. /\ work.object \in Objects /\ Current.prop \in Props \ Missing
            /\ store' = [store EXCEPT ![work.object][Current.prop] = Current.value]
        BY <1>2, <3>2, StoreEffect
      <4> QED BY <2>2, <4>1 DEF ProviderTypes
    <3> QED BY <3>1, <3>2
  <2>5. staged' \in [Objects -> [Staged -> Values]]
    <3>1. CASE staged' = staged
      BY <3>1 DEF ProviderTypes
    <3>2. CASE staged' # staged
      <4>1. /\ work.object \in Objects /\ Current.prop \in Staged
            /\ staged' = [staged EXCEPT ![work.object][Current.prop] = Current.value]
        BY <1>2, <3>2, StoreEffect
      <4> QED BY <2>2, <4>1 DEF ProviderTypes
    <3> QED BY <3>1, <3>2
  <2> QED BY <2>1, <2>3, <2>4, <2>5 DEF ProviderTypes
<1>3. CASE Finish
  <2>1. work' \in Works /\ result' \in Seq(Results)
    BY <1>3 DEF Finish, ProviderTypes, Works
  <2>2. work.object \in Objects
    BY <1>3 DEF Finish, Done, WorkInv
  <2>3. CASE work.op = "set" /\ Many
    <3>1. isTransaction' \in [Objects -> BOOLEAN]
      BY <1>3, <2>2, <2>3 DEF Finish, Ended, ProviderTypes
    <3>2. staged' \in [Objects -> [Staged -> Values]]
      BY <1>3, <2>2, <2>3, ProviderAssumption, SMTT(40) DEF Finish, ProviderTypes
    <3>3. TakenOver(work.object) \in [Objects -> [Props \ Missing -> Values]]
      BY <2>2, ZenonT(40) DEF TakenOver, ProviderTypes
    <3>4. store' \in [Objects -> [Props \ Missing -> Values]]
      BY <1>3, <2>3, <3>3 DEF Finish, ProviderTypes
    <3> QED BY <2>1, <3>1, <3>2, <3>4 DEF ProviderTypes
  <2>4. CASE ~(work.op = "set" /\ Many)
    BY <1>3, <2>1, <2>4 DEF Finish, ProviderTypes
  <2> QED BY <2>3, <2>4
<1> QED BY <1>1, <1>2, <1>3 DEF ProviderStep
-----------------------------------------------------------------------------
(***************************************************************************)
(* A request from its receipt to its answer.                               *)
(***************************************************************************)
LEMMA ReceiveEffect ==
    ASSUME TypeOK, ShapeInv, BookInv, Receive
    PROVE  LET request == Head(rx)
               o == listeners[request.listener]
           IN  /\ rx # <<>> /\ request = rx[1] /\ 1 \in 1 .. Len(rx)
               /\ o \in Objects /\ o \in subscribed /\ request.n \in 1 .. MaxRequests
               /\ at[Dispatcher] = "wait" /\ \A t \in Threads \ {Dispatcher} : at'[t] = at[t]
               /\ UNCHANGED <<connection, registry, requests, responses>>
               /\ \/ /\ at'[Dispatcher] = "respond" /\ missed' = missed \cup {request.n}
                     /\ UNCHANGED providerVars /\ FindMayAnswer(o, FALSE)
                  \/ /\ at'[Dispatcher] = "provider" /\ missed' = missed
                     /\ \E params \in Seq(Params) : StartGet(o, params) \/ StartSet(o, params)
<1> DEFINE request == Head(rx)
           o == listeners[request.listener]
<1>1. PICK found \in BOOLEAN :
        /\ FindMayAnswer(o, found)
        /\ found => /\ missed' = missed
                    /\ \/ request.op = "get" /\ StartGet(o, decodeGetRequest(request.params))
                       \/ request.op # "get" /\ StartSet(o, decodeSetRequest(request.params))
        /\ ~found => missed' = missed \cup {request.n} /\ UNCHANGED providerVars
        /\ at' = [at EXCEPT ![Dispatcher] = IF found THEN "provider" ELSE "respond"]
  BY DEF Receive, GoTo
<1>2. /\ rx # <<>> /\ at[Dispatcher] = "wait" /\ request.op # "none"
      /\ UNCHANGED <<connection, registry, requests, responses>>
  BY DEF Receive, AtPlace
<1>3. rx \in Seq(Requests) /\ Len(rx) \in Nat
  BY DEF ShapeInv
<1>4. request = rx[1] /\ 1 \in 1 .. Len(rx) /\ request \in Requests
  BY <1>2, <1>3
<1>5. /\ request.listener \in 1 .. Len(listeners) /\ o \in subscribed
      /\ request.op = "get" => request.params \in Gets
      /\ request.op = "set" => request.params \in Sets
  BY <1>4 DEF BookInv, ShapeInv
<1>6. o \in Objects /\ request.n \in 1 .. MaxRequests /\ request.op \in {"get", "set"}
  BY <1>2, <1>4, <1>5, HostAssumption DEF TypeOK, Requests
<1>7. \A t \in Threads \ {Dispatcher} : at'[t] = at[t]
  BY <1>1 DEF TypeOK
<1>8. CASE ~found
  <2>1. /\ at'[Dispatcher] = "respond" /\ missed' = missed \cup {request.n}
        /\ UNCHANGED providerVars /\ FindMayAnswer(o, FALSE)
    <3>1. found = FALSE
      BY <1>8
    <3>2. at'[Dispatcher] = "respond"
      BY <1>1, <1>8 DEF TypeOK, Threads
    <3>3. FindMayAnswer(o, FALSE)
      BY <1>1, <3>1
    <3> QED BY <1>1, <1>8, <3>2, <3>3
  <2> QED BY <1>2, <1>4, <1>5, <1>6, <1>7, <2>1
<1>9. CASE found
  <2>1. at'[Dispatcher] = "provider" /\ missed' = missed
    BY <1>1, <1>9 DEF TypeOK, Threads
  <2>2. \E params \in Seq(Params) : StartGet(o, params) \/ StartSet(o, params)
    <3>1. CASE request.op = "get"
      BY <1>1, <1>9, <3>1, GetDecoded
    <3>2. CASE request.op = "set"
      BY <1>1, <1>5, <1>9, <3>2, SetDecoded
    <3> QED BY <1>6, <3>1, <3>2
  <2> QED BY <1>2, <1>4, <1>5, <1>6, <1>7, <2>1, <2>2
<1> QED BY <1>8, <1>9

(* All other steps leave the provider alone.                               *)
LEMMA OtherSteps ==
    ASSUME TypeOK, WorkInv, Next
    PROVE  \/ Receive
           \/ Provide
           \/ /\ UNCHANGED providerVars
              /\ at[Dispatcher] = "provider" => at'[Dispatcher] = "provider"
              /\ at'[Main] = "start" => at'[Dispatcher] = "none"
<1> USE DEF AtPlace, GoTo, TypeOK, WorkInv, Threads, Main, Dispatcher
<1>1. CASE StartHost
  BY <1>1 DEF StartHost
<1>2. CASE RegisterProvider \/ RegisterRefused \/ RegisterUnknown
  BY <1>2 DEF RegisterProvider, RegisterRefused, RegisterUnknown, MayRegister, BeginSend
<1>3. CASE BeginInsert \/ EndInsert
  BY <1>3 DEF BeginInsert, EndInsert
<1>4. ASSUME NEW t \in Threads, Sending(t)
      PROVE  /\ UNCHANGED providerVars
             /\ at[Dispatcher] = "provider" => at'[Dispatcher] = "provider"
             /\ at'[Main] = "start" => at'[Dispatcher] = "none"
  <2>1. CASE t = Main
    BY <1>4, <2>1 DEF Sending, SendHeader, SendPayload, AfterSend
  <2>2. CASE t = Dispatcher
    BY <1>4, <2>2 DEF Sending, SendHeader, SendPayload, AfterSend
  <2> QED BY <2>1, <2>2
<1>5. CASE DropMessage \/ Respond
  BY <1>5 DEF DropMessage, Respond, BeginSend
<1>6. CASE RouterReads \/ RouterDelivers
  BY <1>6 DEF RouterReads, RouterDelivers
<1> QED BY <1>1, <1>2, <1>3, <1>4, <1>5, <1>6 DEF Next, MainThread, DispatcherThread

RequestInv == ProviderTypes /\ WorkInv /\ StagedInv /\ SingleInv

LEMMA ReceiveKeepsRequestInv ==
    ASSUME TypeOK, ShapeInv, BookInv, RequestInv, Receive
    PROVE  RequestInv'
<1> DEFINE o == listeners[Head(rx).listener]
<1>1. /\ ProviderTypes /\ WorkInv /\ o \in Objects /\ at[Dispatcher] = "wait"
      /\ work.op = "none" /\ at'[Main] # "start"
  <2>1. at[Dispatcher] = "wait" /\ o \in Objects /\ at'[Main] = at[Main]
    BY ReceiveEffect DEF Threads, Main, Dispatcher
  <2> QED BY <2>1 DEF RequestInv, WorkInv
<1>2. CASE UNCHANGED providerVars /\ at'[Dispatcher] = "respond"
  BY <1>1, <1>2 DEF RequestInv, ProviderTypes, WorkInv, StagedInv, SingleInv, Transaction, Many,
     LastOf, providerVars
<1>3. ASSUME NEW params \in Seq(Params), StartGet(o, params) \/ StartSet(o, params),
             at'[Dispatcher] = "provider"
      PROVE  RequestInv'
  <2>1. /\ work'.object = o /\ work'.params = params /\ work'.at = 1
        /\ work'.op \in {"get", "set"} /\ work' \in Works
        /\ result' = <<>> /\ store' = store /\ result' \in Seq(Results)
    <3>1. /\ work' \in {[object |-> o, op |-> "get", params |-> params, at |-> 1],
                       [object |-> o, op |-> "set", params |-> params, at |-> 1]}
          /\ result' = <<>> /\ store' = store
      BY <1>3 DEF StartGet, StartSet, Start
    <3>2. result' \in Seq(Results)
      BY <3>1
    <3> HIDE DEF o
    <3> QED BY <1>1, <1>3, <3>1, <3>2 DEF Works
  <2>2. Len(params) \in Nat
    OBVIOUS
  <2>3. \A x \in Objects : ~isTransaction[x]
    BY <1>1 DEF WorkInv, Transaction
  <2>4. CASE StartSet(o, params) /\ Len(params) > 1
    <3>1. /\ isTransaction' = [isTransaction EXCEPT ![o] = TRUE]
          /\ staged' = [staged EXCEPT ![o] = [p \in Staged |-> Empty]]
          /\ work'.op = "set"
      BY <2>4 DEF StartSet, Start
    <3>2. /\ isTransaction' \in [Objects -> BOOLEAN]
          /\ \A x \in Objects : isTransaction'[x] <=> x = o
      BY <1>1, <2>3, <3>1 DEF ProviderTypes
    <3>3. /\ staged' \in [Objects -> [Staged -> Values]]
          /\ \A p \in Staged : staged'[o][p] = Empty
      BY <1>1, <3>1, ProviderAssumption DEF ProviderTypes
    <3>4. ProviderTypes'
      BY <1>1, <2>1, <3>2, <3>3 DEF ProviderTypes
    <3>5. WorkInv'
      BY <1>1, <1>3, <2>1, <2>2, <2>4, <3>1, <3>2 DEF WorkInv, Transaction, Many
    <3>6. StagedInv'
      BY <2>1, <3>3 DEF StagedInv, Transaction
    <3>7. SingleInv'
      BY <2>1, <2>4 DEF SingleInv, Many
    <3> QED BY <3>4, <3>5, <3>6, <3>7 DEF RequestInv
  <2>5. CASE StartGet(o, params) \/ ~(Len(params) > 1)
    <3>1. UNCHANGED <<isTransaction, staged>> /\ ~(work'.op = "set" /\ Many')
      BY <1>3, <2>1, <2>5 DEF StartGet, StartSet, Start, Many
    <3>2. ProviderTypes'
      BY <1>1, <2>1, <3>1 DEF ProviderTypes
    <3>3. WorkInv'
      BY <1>1, <1>3, <2>1, <2>2, <2>3, <3>1 DEF WorkInv, Transaction
    <3>4. StagedInv' /\ SingleInv'
      BY <2>1, <3>1 DEF StagedInv, SingleInv, Transaction
    <3> QED BY <3>2, <3>3, <3>4 DEF RequestInv
  <2> QED BY <1>3, <2>4, <2>5
<1> QED BY <1>2, <1>3, ReceiveEffect
LEMMA AnswerKeepsRequestInv ==
    ASSUME TypeOK, RequestInv, at[Dispatcher] = "provider", at' = at,
           GetNext \/ RefuseFixed \/ SetNext \/ SetVirtual
    PROVE  RequestInv'
<1>1. ProviderTypes /\ WorkInv /\ StagedInv /\ SingleInv
  BY DEF RequestInv
<1>2. ProviderTypes'
  BY <1>1, ProviderTypesStep DEF ProviderStep
<1>3. PICK a \in Results :
         /\ Answers(a) /\ a.prop = Current.prop
         /\ \/ GetNext
            \/ RefuseFixed /\ a.code = "error"
            \/ SetNext /\ a.code = "ok" /\ a.value = Current.value
            \/ /\ SetVirtual /\ Current.prop \in Virtual
               /\ a.code = "ok" /\ a.value = Current.value
            \/ SetVirtual /\ Current.prop \in Missing /\ a.code = "not found"
  BY <1>1, AnswerTypes
<1>4. /\ work' \in Works /\ work'.at = work.at + 1 /\ work'.op = work.op
      /\ work'.object = work.object /\ work'.params = work.params
      /\ result' # <<>> /\ Last(result') = a
  BY <1>1, <1>3, AnswerEffect
<1>5. /\ work.op \in {"get", "set"} /\ work.at <= Len(work.params)
  BY DEF GetNext, RefuseFixed, SetNext, SetVirtual, Working
<1>6. /\ work.at \in 1 .. Len(work.params) /\ work.at \in Nat /\ Len(work.params) \in Nat
      /\ Current.prop \in Props /\ Current.value \in Values /\ work.object \in Objects
  <2>1. work.params \in Seq(Params)
    BY <1>1 DEF ProviderTypes, Works
  <2> QED BY <1>1, <1>5, <2>1, CurrentType
<1>7. Many' <=> Many
  BY <1>4 DEF Many
<1>8. \A x \in Objects : Transaction(x)' <=> Transaction(x)
  BY <1>4 DEF Transaction, Many
<1>9. isTransaction' = isTransaction
  BY <1>1, StoreEffect DEF GetNext, RefuseFixed
<1>10. WorkInv'
  BY <1>1, <1>4, <1>6, <1>8, <1>9 DEF WorkInv
<1>11. StagedInv'
  <2> SUFFICES ASSUME NEW o \in Objects, Transaction(o), NEW p \in Staged
               PROVE  \/ staged'[o][p] = Empty
                      \/ \E k \in 1 .. work.at :
                           /\ work.params[k].prop = p
                           /\ \A l \in k + 1 .. work.at : work.params[l].prop # p
                           /\ staged'[o][p] = work.params[k].value
    BY <1>4, <1>6, <1>8 DEF StagedInv, LastOf
  <2>1. o = work.object /\ work.op = "set" /\ isTransaction[o]
    BY <1>1 DEF Transaction, WorkInv
  <2>2. CASE Current.prop = p
    <3>1. SetNext
      BY <1>3, <2>1, <2>2, KindsAssumption DEF GetNext, Working, RefuseFixed
    <3>2. staged' = [staged EXCEPT ![o][p] = Current.value]
      BY <2>1, <2>2, <3>1 DEF SetNext
    <3>3. staged'[o][p] = work.params[work.at].value /\ work.params[work.at].prop = p
      BY <1>1, <2>2, <3>2 DEF ProviderTypes, Current
    <3>4. \A l \in work.at + 1 .. work.at : work.params[l].prop # p
      BY <1>6
    <3> QED BY <1>6, <3>3, <3>4
  <2>3. CASE Current.prop # p
    <3>1. staged'[o][p] = staged[o][p]
      <4>1. CASE staged' = staged
        BY <4>1
      <4>2. CASE staged' # staged
        <5>1. /\ Current.prop \in Staged
              /\ staged' = [staged EXCEPT ![work.object][Current.prop] = Current.value]
          BY <1>1, <4>2, StoreEffect DEF GetNext, RefuseFixed
        <5> QED BY <1>1, <2>3, <5>1 DEF ProviderTypes
      <4> QED BY <4>1, <4>2
    <3>2. CASE staged[o][p] = Empty
      BY <3>1, <3>2
    <3>3. ASSUME NEW k \in 1 .. work.at - 1, LastOf(p, k), staged[o][p] = work.params[k].value
          PROVE  \E m \in 1 .. work.at :
                   /\ work.params[m].prop = p
                   /\ \A l \in m + 1 .. work.at : work.params[l].prop # p
                   /\ staged'[o][p] = work.params[m].value
      <4>1. k \in 1 .. work.at /\ work.params[k].prop = p
        BY <1>6, <3>3 DEF LastOf
      <4>2. ASSUME NEW l \in k + 1 .. work.at PROVE work.params[l].prop # p
        <5>1. l = work.at \/ l \in k + 1 .. work.at - 1
          BY <1>6
        <5> QED BY <2>3, <3>3, <5>1 DEF LastOf, Current
      <4> QED BY <3>1, <3>3, <4>1, <4>2
    <3>4. \/ staged[o][p] = Empty
          \/ \E k \in 1 .. work.at - 1 : LastOf(p, k) /\ staged[o][p] = work.params[k].value
      BY <1>1 DEF StagedInv
    <3> QED BY <3>2, <3>3, <3>4
  <2> QED BY <2>2, <2>3
<1>12. SingleInv'
  <2> SUFFICES ASSUME work.op = "set", ~Many
               PROVE  /\ work'.at = 2
                      /\ a.code = "ok" => store'[work.object][a.prop] = a.value
    BY <1>4, <1>7 DEF SingleInv
  <2>1. work'.at = 2
    BY <1>4, <1>6 DEF Many
  <2>2. ASSUME a.code = "ok" PROVE store'[work.object][a.prop] = a.value
    <3>1. ~isTransaction[work.object]
      BY <1>1, <1>6 DEF WorkInv, Transaction
    <3>2. /\ a.value = Current.value /\ a.prop = Current.prop
          /\ SetNext \/ (SetVirtual /\ Current.prop \in Virtual)
      <4>1. ~GetNext
        BY DEF GetNext, Working
      <4> QED BY <1>3, <2>2, <4>1
    <3>3. store' = [store EXCEPT ![work.object][Current.prop] = Current.value]
      BY <3>1, <3>2 DEF SetNext, SetVirtual
    <3>4. Current.prop \in Props \ Missing
      BY <1>6, <3>2, KindsAssumption DEF SetNext
    <3> QED BY <1>1, <1>6, <3>2, <3>3, <3>4 DEF ProviderTypes
  <2> QED BY <2>1, <2>2
<1> QED BY <1>2, <1>10, <1>11, <1>12 DEF RequestInv

LEMMA FinishKeepsRequestInv ==
    ASSUME TypeOK, RequestInv, at[Dispatcher] = "provider", Finish,
           at' = [at EXCEPT ![Dispatcher] = "respond"]
    PROVE  RequestInv'
<1>1. ProviderTypes /\ WorkInv
  BY DEF RequestInv
<1>2. ProviderTypes'
  BY <1>1, ProviderTypesStep DEF ProviderStep
<1>3. /\ work'.op = "none" /\ work'.at = work.at /\ work'.params = work.params
  BY <1>1 DEF Finish, ProviderTypes, Works
<1>4. work.object \in Objects
  BY <1>1 DEF Finish, Done, WorkInv
<1>5. \A o \in Objects : ~isTransaction'[o]
  <2>1. CASE work.op = "set" /\ Many
    <3>1. isTransaction' = [isTransaction EXCEPT ![work.object] = FALSE]
      BY <2>1 DEF Finish, Ended
    <3>2. \A o \in Objects : o # work.object => ~isTransaction[o]
      BY <1>1 DEF WorkInv, Transaction
    <3> QED BY <1>1, <1>4, <3>1, <3>2 DEF ProviderTypes
  <2>2. CASE ~(work.op = "set" /\ Many)
    <3>1. isTransaction' = isTransaction
      BY <2>2 DEF Finish
    <3> QED BY <1>1, <2>2, <3>1 DEF WorkInv, Transaction
  <2> QED BY <2>1, <2>2
<1>6. at'[Main] # "start"
  BY <1>1 DEF TypeOK, WorkInv, Threads, Main, Dispatcher
<1>7. WorkInv'
  BY <1>1, <1>3, <1>5, <1>6 DEF WorkInv, Transaction
<1>8. StagedInv' /\ SingleInv'
  BY <1>3 DEF StagedInv, SingleInv, Transaction
<1> QED BY <1>2, <1>7, <1>8 DEF RequestInv

LEMMA RequestStep ==
    ASSUME TypeOK, ShapeInv, BookInv, RequestInv, Next
    PROVE  RequestInv'
<1>1. CASE Receive
  BY <1>1, ReceiveKeepsRequestInv
<1>2. CASE Provide
  <2>1. /\ at[Dispatcher] = "provider" /\ ProviderStep
        /\ at' = IF work'.op = "none" THEN [at EXCEPT ![Dispatcher] = "respond"] ELSE at
    BY <1>2 DEF Provide, AtPlace
  <2>2. CASE Finish
    <3>1. work'.op = "none"
      BY <2>2 DEF Finish, RequestInv, ProviderTypes, Works
    <3> QED BY <2>1, <2>2, <3>1, FinishKeepsRequestInv
  <2>3. CASE GetNext \/ RefuseFixed \/ SetNext \/ SetVirtual
    <3>1. work'.op = work.op
      BY <2>3, AnswerTypes, AnswerEffect DEF RequestInv
    <3>2. work.op # "none"
      BY <2>3 DEF GetNext, RefuseFixed, SetNext, SetVirtual, Working
    <3> QED BY <2>1, <2>3, <3>1, <3>2, AnswerKeepsRequestInv
  <2> QED BY <2>1, <2>2, <2>3 DEF ProviderStep
<1>3. CASE /\ UNCHANGED providerVars
           /\ at[Dispatcher] = "provider" => at'[Dispatcher] = "provider"
           /\ at'[Main] = "start" => at'[Dispatcher] = "none"
  <2>1. /\ store' = store /\ staged' = staged /\ isTransaction' = isTransaction
        /\ work' = work /\ result' = result
    BY <1>3 DEF providerVars
  <2>2. ProviderTypes'
    BY <2>1 DEF RequestInv, ProviderTypes
  <2>3. WorkInv'
    BY <1>3, <2>1 DEF RequestInv, WorkInv, Transaction, Many
  <2>4. StagedInv'
    BY <2>1 DEF RequestInv, StagedInv, Transaction, Many, LastOf
  <2>5. SingleInv'
    BY <2>1 DEF RequestInv, SingleInv, Many
  <2> QED BY <2>2, <2>3, <2>4, <2>5 DEF RequestInv
<1> QED BY <1>1, <1>2, <1>3, OtherSteps DEF RequestInv
-----------------------------------------------------------------------------
(***************************************************************************)
(* The two threads and the connection they share.                          *)
(***************************************************************************)
LEMMA TypesTogether ==
    ASSUME TypeOK, ShapeInv
    PROVE  HostTypes
  BY DEF TypeOK, ShapeInv, HostTypes, Places

LEMMA MessageKinds ==
    /\ Nobody \in Messages /\ Nobody.kind = "none"
    /\ \A o \in Objects : /\ Subscribe(o) \in Messages
                          /\ Subscribe(o).kind = "subscribe" /\ Subscribe(o).object = o
    /\ \A n \in 1 .. MaxRequests : /\ Response(n) \in Messages
                                   /\ Response(n).kind = "response" /\ Response(n).n = n
    /\ \A m \in Messages : m.kind = "response" => m.n \in 1 .. MaxRequests
<1>1. Nobody.kind = "none"
  BY DEF Nobody
<1>2. \A o : Subscribe(o).kind = "subscribe" /\ Subscribe(o).object = o
  BY DEF Subscribe
<1>3. \A n : Response(n).kind = "response" /\ Response(n).n = n
  BY DEF Response
<1>4. \A m \in Messages : \/ m = Nobody
                          \/ \E o \in Objects : m = Subscribe(o)
                          \/ \E n \in 1 .. MaxRequests : m = Response(n)
  BY DEF Messages
<1>5. /\ Nobody \in Messages
      /\ \A o \in Objects : Subscribe(o) \in Messages
      /\ \A n \in 1 .. MaxRequests : Response(n) \in Messages
  BY DEF Messages
<1> QED BY <1>1, <1>2, <1>3, <1>4, <1>5

LEMMA PartTypes ==
    /\ \A m \in Messages, half \in {"header", "payload"} :
         Part(half, m) \in Parts /\ Part(half, m).half = half /\ Part(half, m).m = m
    /\ \A part \in Parts : part.half \in {"header", "payload"} /\ part.m \in Messages
  BY DEF Part, Parts

(* Who begins to send, and what: the rest stays.                           *)
LEMMA BeginEffect ==
    ASSUME HostTypes, NEW t \in Threads, NEW m \in Messages, BeginSend(t, m)
    PROVE  /\ send_buffer' = m /\ sending'[t] = m
           /\ \A u \in Threads \ {t} : sending'[u] = sending[u] /\ at'[u] = at[u]
           /\ at'[t] = "header"
           /\ ~overlapped' => ~overlapped /\ \A u \in Threads \ {t} : ~InSend(u)
           /\ at' \in [Threads -> Places] /\ sending' \in [Threads -> Messages]
           /\ send_buffer' \in Messages /\ overlapped' \in BOOLEAN
<1>1. at \in [Threads -> Places] /\ sending \in [Threads -> Messages] /\ "header" \in Places
  BY DEF HostTypes, Places
<1>2. /\ send_buffer' = m /\ sending' = [sending EXCEPT ![t] = m]
      /\ at' = [at EXCEPT ![t] = "header"]
      /\ overlapped' = (overlapped \/ \E u \in Threads \ {t} : InSend(u))
  BY DEF BeginSend, GoTo
<1>3. overlapped' \in BOOLEAN
  BY <1>2
<1>4. ASSUME ~overlapped' PROVE ~overlapped /\ \A u \in Threads \ {t} : ~InSend(u)
  BY <1>2, <1>4
<1> QED BY <1>1, <1>2, <1>3, <1>4

(* One half of a message goes onto the wire.                               *)
LEMMA SendEffect ==
    ASSUME HostTypes, NEW t \in Threads, Sending(t)
    PROVE  \E part \in Parts :
             /\ \/ /\ at[t] = "header" /\ at'[t] = "payload"
                   /\ part = Part("header", send_buffer)
                \/ /\ at[t] = "payload" /\ at'[t] = AfterSend(t)
                   /\ part = Part("payload", sending[t])
             /\ wire' \in Seq(Parts) /\ Len(wire') = Len(wire) + 1 /\ Len(wire) \in Nat
             /\ \A k \in 1 .. Len(wire) : wire'[k] = wire[k]
             /\ wire'[Len(wire) + 1] = part
             /\ at' \in [Threads -> Places]
             /\ \A u \in Threads \ {t} : at'[u] = at[u]
             /\ UNCHANGED <<sending, send_buffer, broken, overlapped, listeners, subscribed, rx,
                            registry, counts, providerVars>>
<1>1. /\ at \in [Threads -> Places] /\ sending \in [Threads -> Messages]
      /\ send_buffer \in Messages /\ wire \in Seq(Parts) /\ Len(wire) \in Nat
      /\ {"payload", "insert", "wait"} \subseteq Places
  BY DEF HostTypes, Places
<1>2. \A part \in Parts : wire' = Append(wire, part) =>
        /\ wire' \in Seq(Parts) /\ Len(wire') = Len(wire) + 1
        /\ \A k \in 1 .. Len(wire) : wire'[k] = wire[k]
        /\ wire'[Len(wire) + 1] = part
  BY <1>1, AppendProperties
<1>3. CASE SendHeader(t)
  <2>1. /\ at[t] = "header" /\ at' = [at EXCEPT ![t] = "payload"]
        /\ wire' = Append(wire, Part("header", send_buffer))
        /\ UNCHANGED <<sending, send_buffer, broken, overlapped, listeners, subscribed, rx,
                       registry, counts, providerVars>>
    BY <1>3 DEF SendHeader, AtPlace, GoTo
  <2>2. Part("header", send_buffer) \in Parts
    BY <1>1, PartTypes
  <2> QED BY <1>1, <1>2, <2>1, <2>2
<1>4. CASE SendPayload(t)
  <2>1. /\ at[t] = "payload" /\ at' = [at EXCEPT ![t] = AfterSend(t)]
        /\ wire' = Append(wire, Part("payload", sending[t]))
        /\ UNCHANGED <<sending, send_buffer, broken, overlapped, listeners, subscribed, rx,
                       registry, counts, providerVars>>
    BY <1>4 DEF SendPayload, AtPlace, GoTo
  <2>2. Part("payload", sending[t]) \in Parts /\ AfterSend(t) \in {"insert", "wait"}
    BY <1>1, PartTypes DEF AfterSend
  <2> QED BY <1>1, <1>2, <2>1, <2>2
<1> QED BY <1>3, <1>4 DEF Sending
(* The router reads two parts.                                             *)
LEMMA ReadEffect ==
    ASSUME HostTypes, RouterReads
    PROVE  /\ 1 \in 1 .. Len(wire) /\ 2 \in 1 .. Len(wire) /\ ~broken /\ Len(wire) \in Nat
           /\ wire' \in Seq(Parts) /\ Len(wire') = Len(wire) - 2
           /\ \A k \in 1 .. Len(wire') : k + 2 \in 1 .. Len(wire) /\ wire'[k] = wire[k + 2]
<1>1. wire \in Seq(Parts) /\ Len(wire) \in Nat
  BY DEF HostTypes
<1>2. Len(wire) >= 2 /\ ~broken /\ wire' = Tail(Tail(wire))
  BY DEF RouterReads
<1>3. /\ Tail(wire) \in Seq(Parts) /\ Len(Tail(wire)) = Len(wire) - 1
      /\ \A k \in 1 .. Len(wire) - 1 : Tail(wire)[k] = wire[k + 1]
  BY <1>1, <1>2
<1>4. /\ wire' \in Seq(Parts) /\ Len(wire') = Len(Tail(wire)) - 1
      /\ \A k \in 1 .. Len(Tail(wire)) - 1 : wire'[k] = Tail(wire)[k + 1]
  <2> DEFINE rest == Tail(wire)
  <2>1. rest \in Seq(Parts) /\ Len(rest) >= 1 /\ Len(rest) \in Nat
    BY <1>1, <1>2, <1>3
  <2>2. wire' = Tail(rest)
    BY <1>2
  <2> HIDE DEF rest
  <2>3. /\ Tail(rest) \in Seq(Parts) /\ Len(Tail(rest)) = Len(rest) - 1
        /\ \A k \in 1 .. Len(rest) - 1 : Tail(rest)[k] = rest[k + 1]
    BY <2>1
  <2>4. /\ wire' \in Seq(Parts) /\ Len(wire') = Len(rest) - 1
        /\ \A k \in 1 .. Len(rest) - 1 : wire'[k] = rest[k + 1]
    BY <2>2, <2>3
  <2> QED BY <2>4 DEF rest
<1>5. ASSUME NEW k \in 1 .. Len(wire')
      PROVE  k + 2 \in 1 .. Len(wire) /\ wire'[k] = wire[k + 2]
  <2>1. k + 1 \in 1 .. Len(wire) - 1 /\ k \in 1 .. Len(Tail(wire)) - 1
    BY <1>1, <1>3, <1>4
  <2>2. (k + 1) + 1 = k + 2
    OBVIOUS
  <2> QED BY <1>1, <1>3, <1>4, <2>1, <2>2
<1> QED BY <1>1, <1>2, <1>3, <1>4, <1>5, SMTT(40)

(* Requests come and go in order.                                          *)
LEMMA DeliverEffect ==
    ASSUME HostTypes, RouterDelivers
    PROVE  \E x \in Requests :
             /\ rx' = Append(rx, x)
             /\ x.op = "get" => x.params \in Gets
             /\ x.op = "set" => x.params \in Sets
             /\ x.listener \in 1 .. Len(listeners) /\ listeners[x.listener] \in subscribed
<1>1. PICK k \in DOMAIN listeners, r \in [op : {"get"}, params : Gets]
              \cup [op : {"set"}, params : Sets] \cup [op : {"none"}, params : {<<>>}] :
        /\ listeners[k] \in subscribed
        /\ rx' = Append(rx, [listener |-> k, n |-> requests + 1, op |-> r.op,
                             params |-> r.params])
  BY DEF RouterDelivers
<1>2. requests + 1 \in 1 .. MaxRequests
  BY HostAssumption DEF RouterDelivers, HostTypes
<1>3. k \in 1 .. Len(listeners) /\ k \in Nat
  BY DEF HostTypes
<1>4. /\ r.op \in {"get", "set", "none"} /\ r.params \in Gets \cup Sets \cup {<<>>}
      /\ r.op = "get" => r.params \in Gets
      /\ r.op = "set" => r.params \in Sets
  OBVIOUS
<1>5. PICK x : x = [listener |-> k, n |-> requests + 1, op |-> r.op, params |-> r.params]
  OBVIOUS
<1>6. x \in Requests
  BY <1>2, <1>3, <1>4, <1>5 DEF Requests
<1>7. x.op = r.op /\ x.params = r.params /\ x.listener = k
  BY <1>5
<1> QED BY <1>1, <1>3, <1>4, <1>5, <1>6, <1>7

LEMMA RxEffect ==
    ASSUME TypeOK, ShapeInv, BookInv, Next
    PROVE  \/ rx' = rx
           \/ rx # <<>> /\ rx' = Tail(rx)
           \/ RouterDelivers
<1>1. CASE Receive
  BY <1>1 DEF Receive, connection
<1>2. CASE MainThread
  BY <1>2 DEF MainThread, StartHost, RegisterProvider, RegisterRefused, RegisterUnknown,
     BeginInsert, EndInsert, Sending, SendHeader, SendPayload, connection
<1>3. CASE DropMessage
  BY <1>3 DEF DropMessage
<1>4. CASE Provide
  BY <1>4 DEF Provide, connection
<1>5. CASE Respond
  BY <1>5 DEF Respond, AtPlace, BookInv
<1>6. CASE Sending(Dispatcher) \/ RouterReads
  BY <1>6 DEF Sending, SendHeader, SendPayload, RouterReads
<1> QED BY <1>1, <1>2, <1>3, <1>4, <1>5, <1>6 DEF Next, DispatcherThread
LEMMA HostTypesStep ==
    ASSUME TypeOK, ShapeInv, BookInv, Next
    PROVE  HostTypes'
<1>0. HostTypes
  BY TypesTogether
<1>1. /\ at \in [Threads -> Places] /\ Main \in Threads /\ Dispatcher \in Threads
      /\ {"register", "crashed", "wait", "inserting", "provider", "respond"} \subseteq Places
      /\ turn \in 1 .. Len(RegisterOrder) + 1 /\ Len(RegisterOrder) \in Nat
      /\ listeners \in Seq(Known) /\ rx \in Seq(Requests)
  BY <1>0, HostAssumption DEF HostTypes, Places, Threads
<1>2. CASE StartHost
  <2>1. at' \in [Threads -> Places]
    BY <1>1, <1>2 DEF StartHost
  <2> QED BY <1>0, <1>2, <2>1 DEF StartHost, connection, registry, counts, HostTypes
<1>3. CASE RegisterProvider
  <2>1. /\ Subscribe(Candidate) \in Messages /\ BeginSend(Main, Subscribe(Candidate))
        /\ listeners' \in Seq(Known)
        /\ UNCHANGED <<wire, broken, subscribed, rx, registry, counts>>
    BY <1>1, <1>3, HostAssumption, MessageKinds DEF RegisterProvider
  <2>2. /\ at' \in [Threads -> Places] /\ sending' \in [Threads -> Messages]
        /\ send_buffer' \in Messages /\ overlapped' \in BOOLEAN
    BY <1>0, <1>1, <2>1, BeginEffect
  <2> QED BY <1>0, <2>1, <2>2 DEF registry, counts, HostTypes
<1>4. CASE RegisterRefused
  <2>1. turn' \in 1 .. Len(RegisterOrder) + 1
    BY <1>1, <1>4 DEF RegisterRefused, MayRegister
  <2> QED BY <1>0, <1>4, <2>1 DEF RegisterRefused, connection, counts, HostTypes
<1>5. CASE RegisterUnknown \/ BeginInsert
  <2>1. at' \in [Threads -> Places]
    BY <1>1, <1>5 DEF RegisterUnknown, BeginInsert, GoTo
  <2> QED BY <1>0, <1>5, <2>1 DEF RegisterUnknown, BeginInsert, connection, registry, counts, HostTypes
<1>6. CASE EndInsert
  <2>1. turn <= Len(RegisterOrder) /\ Candidate \in Known
    BY <1>6 DEF EndInsert, AtPlace, BookInv
  <2>2. at' \in [Threads -> Places] /\ turn' \in 1 .. Len(RegisterOrder) + 1
    BY <1>1, <1>6, <2>1 DEF EndInsert, GoTo
  <2>3. providers' \subseteq Known
    BY <1>0, <1>6, <2>1 DEF EndInsert, Inserted, HostTypes
  <2> QED BY <1>0, <1>6, <2>2, <2>3 DEF EndInsert, connection, counts, HostTypes
<1>7. ASSUME NEW t \in Threads, Sending(t) PROVE HostTypes'
  <2>1. /\ wire' \in Seq(Parts) /\ at' \in [Threads -> Places]
        /\ UNCHANGED <<sending, send_buffer, broken, overlapped, listeners, subscribed, rx,
                       registry, counts, providerVars>>
    BY <1>0, <1>7, SendEffect
  <2> QED BY <1>0, <2>1 DEF registry, counts, HostTypes
<1>8. CASE DropMessage
  <2>1. rx' \in Seq(Requests)
    BY <1>1, <1>8 DEF DropMessage
  <2> QED BY <1>0, <1>8, <2>1 DEF DropMessage, registry, counts, HostTypes
<1>9. CASE Receive
  <2>1. /\ at'[Dispatcher] \in Places /\ \A t \in Threads \ {Dispatcher} : at'[t] = at[t]
        /\ UNCHANGED <<connection, registry, requests, responses>>
        /\ missed' \subseteq 1 .. MaxRequests
    BY <1>0, <1>1, <1>9, ReceiveEffect DEF HostTypes
  <2>2. at' \in [Threads -> Places]
    <3>1. \E place : at' = [at EXCEPT ![Dispatcher] = place]
      BY <1>9 DEF Receive, GoTo
    <3> QED BY <1>1, <2>1, <3>1
  <2> QED BY <1>0, <2>1, <2>2 DEF connection, registry, HostTypes
<1>10. CASE Provide
  <2>1. at' \in [Threads -> Places]
    BY <1>1, <1>10 DEF Provide
  <2> QED BY <1>0, <1>10, <2>1 DEF Provide, connection, registry, counts, HostTypes
<1>11. CASE Respond
  <2>1. rx # <<>>
    BY <1>11 DEF Respond, AtPlace, BookInv
  <2>2. rx' \in Seq(Requests) /\ Head(rx) \in Requests
    BY <1>1, <1>11, <2>1 DEF Respond
  <2>3. Response(Head(rx).n) \in Messages
    BY <2>2, MessageKinds DEF Requests
  <2>4. /\ BeginSend(Dispatcher, Response(Head(rx).n))
        /\ UNCHANGED <<wire, broken, listeners, subscribed, registry, counts>>
    BY <1>11 DEF Respond
  <2>5. /\ at' \in [Threads -> Places] /\ sending' \in [Threads -> Messages]
        /\ send_buffer' \in Messages /\ overlapped' \in BOOLEAN
    BY <1>0, <1>1, <2>3, <2>4, BeginEffect
  <2> QED BY <1>0, <2>2, <2>4, <2>5 DEF registry, counts, HostTypes
<1>12. CASE RouterReads
  <2>1. wire' \in Seq(Parts) /\ 1 \in 1 .. Len(wire) /\ 2 \in 1 .. Len(wire)
    BY <1>0, <1>12, ReadEffect
  <2>2. /\ wire[1] \in Parts /\ wire[1].m \in Messages /\ wire[2] \in Parts
    BY <1>0, <2>1, ElementOfSeq, PartTypes DEF HostTypes
  <2> DEFINE m == wire[1].m
             whole == wire[1] = Part("header", m) /\ wire[2] = Part("payload", m)
  <2>3. /\ broken' = ~whole
        /\ subscribed' = IF whole /\ m.kind = "subscribe" THEN subscribed \cup {m.object}
                         ELSE subscribed
        /\ responses' = IF whole /\ m.kind = "response" THEN Append(responses, m.n)
                        ELSE responses
        /\ UNCHANGED <<at, sending, send_buffer, overlapped, listeners, rx, registry,
                       requests, missed>>
    BY <1>12 DEF RouterReads
  <2>4. broken' \in BOOLEAN
    BY <2>3
  <2>5. subscribed' \subseteq Known
    <3>1. ASSUME whole, m.kind = "subscribe" PROVE m.object \in Known
      <4>1. wire[2].half = "payload" /\ wire[2].m = m
        BY <2>2, <3>1, PartTypes
      <4>2. Served(m.object)
        BY <2>1, <3>1, <4>1 DEF BookInv
      <4> QED BY <1>0, <4>2 DEF Served, Registering, BookInv, HostTypes
    <3> HIDE DEF whole, m
    <3> QED BY <1>0, <2>3, <3>1 DEF HostTypes
  <2>6. responses' \in Seq(1 .. MaxRequests)
    <3>1. responses \in Seq(1 .. MaxRequests)
      BY <1>0 DEF HostTypes
    <3>2. CASE whole /\ m.kind = "response"
      <4>1. m.n \in 1 .. MaxRequests
        BY <2>2, <3>2, MessageKinds
      <4>2. responses' = Append(responses, m.n)
        BY <2>3, <3>2
      <4> HIDE DEF m
      <4> QED BY <3>1, <4>1, <4>2, AppendProperties
    <3>3. CASE ~(whole /\ m.kind = "response")
      BY <2>3, <3>1, <3>3
    <3> QED BY <3>2, <3>3
  <2> HIDE DEF whole, m
  <2> QED BY <1>0, <2>1, <2>3, <2>4, <2>5, <2>6 DEF registry, HostTypes
<1>13. CASE RouterDelivers
  <2>1. rx' \in Seq(Requests)
    BY <1>0, <1>1, <1>13, DeliverEffect, AppendProperties, SMTT(30)
  <2>2. requests' \in 0 .. MaxRequests
    BY <1>0, <1>13, HostAssumption, SMTT(40) DEF RouterDelivers, HostTypes
  <2>3. rx' \in Seq(Requests) /\ requests' \in 0 .. MaxRequests
        /\ UNCHANGED <<at, turn, sending, send_buffer, wire, broken, overlapped, listeners, subscribed,
                       providers, lists, missed, responses>>
    BY <1>13, <2>1, <2>2 DEF RouterDelivers, registry
  <2> QED BY <1>0, <2>3 DEF HostTypes
<1> QED BY <1>1, <1>2, <1>3, <1>4, <1>5, <1>6, <1>7, <1>8, <1>9, <1>10, <1>11, <1>12, <1>13
        DEF Next, MainThread, DispatcherThread
LEMMA ShapeStep ==
    ASSUME TypeOK, ShapeInv, BookInv, RequestInv, Next
    PROVE  TypeOK' /\ ShapeInv'
<1>1. HostTypes /\ HostTypes' /\ ProviderTypes'
  BY TypesTogether, HostTypesStep, RequestStep DEF RequestInv
<1>2. TypeOK'
  <2>1. \A k \in DOMAIN wire' : wire'[k].half \in {"header", "payload"} /\ wire'[k].m \in Messages
    <3>1. wire' \in Seq(Parts) /\ DOMAIN wire' = 1 .. Len(wire')
      BY <1>1 DEF HostTypes
    <3>2. \A k \in 1 .. Len(wire') : wire'[k] \in Parts
      BY <3>1, ElementOfSeq
    <3> QED BY <3>1, <3>2, PartTypes
  <2>2. \A t \in Threads : sending'[t] \in Messages
    BY <1>1 DEF HostTypes
  <2> QED BY <1>1, <2>1, <2>2 DEF HostTypes, ProviderTypes, TypeOK, Places
<1>3. ASSUME NEW q \in 1 .. Len(rx')
      PROVE  /\ rx'[q].op = "get" => rx'[q].params \in Gets
             /\ rx'[q].op = "set" => rx'[q].params \in Sets
  <2>0. rx \in Seq(Requests) /\ Len(rx) \in Nat
    BY <1>1 DEF HostTypes
  <2>1. CASE rx' = rx
    BY <1>3, <2>1 DEF ShapeInv
  <2>2. CASE rx # <<>> /\ rx' = Tail(rx)
    <3>1. q + 1 \in 1 .. Len(rx) /\ rx'[q] = rx[q + 1]
      BY <1>3, <2>0, <2>2
    <3> QED BY <3>1 DEF ShapeInv
  <2>3. CASE RouterDelivers
    <3>1. PICK x \in Requests : /\ rx' = Append(rx, x)
                                /\ x.op = "get" => x.params \in Gets
                                /\ x.op = "set" => x.params \in Sets
      BY <1>1, <2>3, DeliverEffect
    <3>2. (q \in 1 .. Len(rx) /\ rx'[q] = rx[q]) \/ rx'[q] = x
      BY <1>3, <2>0, <3>1, AppendProperties
    <3> QED BY <3>1, <3>2 DEF ShapeInv
  <2> QED BY <2>1, <2>2, <2>3, RxEffect
<1> QED BY <1>1, <1>2, <1>3 DEF ShapeInv, HostTypes, ProviderTypes

(* Steps that write nothing and neither begin nor end a message.           *)
Quiet ==
    /\ UNCHANGED <<wire, sending, send_buffer, broken, overlapped>>
    /\ \A t \in Threads : /\ at'[t] = "header" <=> at[t] = "header"
                          /\ at'[t] = "payload" <=> at[t] = "payload"

LEMMA QuietSteps ==
    ASSUME HostTypes, TypeOK, ShapeInv, BookInv, WorkInv, Next
    PROVE  Quiet \/ RegisterProvider \/ Respond \/ (\E t \in Threads : Sending(t)) \/ RouterReads
<1> USE DEF AtPlace, GoTo, Threads, Main, Dispatcher
<1>0. at \in [Threads -> Places]
  BY DEF HostTypes
<1>1. CASE StartHost
  <2>1. /\ UNCHANGED connection /\ at[Main] = "start"
        /\ at' = [at EXCEPT ![Main] = "register", ![Dispatcher] = "wait"]
    BY <1>1 DEF StartHost
  <2>2. at[Dispatcher] = "none"
    BY <2>1 DEF WorkInv
  <2> QED BY <1>0, <2>1, <2>2 DEF connection, Quiet
<1>2. CASE RegisterRefused \/ RegisterUnknown
  BY <1>0, <1>2 DEF RegisterRefused, RegisterUnknown, MayRegister, connection, Quiet
<1>3. CASE BeginInsert \/ EndInsert
  BY <1>0, <1>3 DEF BeginInsert, EndInsert, connection, Quiet
<1>4. CASE DropMessage \/ RouterDelivers
  BY <1>4 DEF DropMessage, RouterDelivers, Quiet
<1>5. CASE Receive
  <2>1. /\ UNCHANGED connection /\ at[Dispatcher] = "wait" /\ at'[Main] = at[Main]
        /\ at'[Dispatcher] \in {"respond", "provider"}
    BY <1>5, ReceiveEffect
  <2> QED BY <2>1 DEF connection, Quiet
<1>6. CASE Provide
  BY <1>0, <1>6 DEF Provide, connection, Quiet
<1> QED BY <1>1, <1>2, <1>3, <1>4, <1>5, <1>6 DEF Next, MainThread, DispatcherThread
(* As long as the two have never overlapped, what is on the wire is in     *)
(* step, and the router finds it so.                                       *)
LEMMA StreamStep ==
    ASSUME TypeOK, ShapeInv, BookInv, WorkInv, StreamInv, Next
    PROVE  StreamInv'
<1>0. /\ HostTypes /\ wire \in Seq(Parts) /\ Len(wire) \in Nat
      /\ Main \in Threads /\ Dispatcher \in Threads /\ Main # Dispatcher
      /\ \A t \in Threads : t = Main \/ t = Dispatcher
  BY TypesTogether DEF HostTypes, Threads, Main, Dispatcher
<1> SUFFICES ASSUME ~overlapped'
             PROVE  WholeParts'
  BY DEF StreamInv
<1>1. ASSUME ~overlapped
      PROVE  /\ ~broken
             /\ \A t, u \in Threads : InSend(t) /\ InSend(u) => t = u
             /\ \A t \in Threads : InSend(t) => send_buffer = sending[t]
             /\ \A k \in Nat : 2 * k + 1 <= Len(wire) => wire[2 * k + 1].half = "header"
             /\ \A k \in Nat : 2 * k + 2 <= Len(wire) =>
                  wire[2 * k + 2] = Part("payload", wire[2 * k + 1].m)
             /\ \A t \in Threads : Sender(t) =>
                  \E k \in Nat : Len(wire) = 2 * k + 1 /\ wire[2 * k + 1].m = sending[t]
             /\ (\A t \in Threads : ~Sender(t)) => \E k \in Nat : Len(wire) = 2 * k
  BY <1>1 DEF StreamInv, WholeParts
<1>2. CASE Quiet
  <2>1. /\ wire' = wire /\ sending' = sending /\ send_buffer' = send_buffer
        /\ broken' = broken /\ ~overlapped
        /\ \A t \in Threads : (InSend(t)' <=> InSend(t)) /\ (Sender(t)' <=> Sender(t))
    BY <1>2 DEF Quiet, InSend, Sender
  <2> QED BY <1>1, <2>1 DEF WholeParts
<1>3. ASSUME NEW t \in Threads, NEW m \in Messages, BeginSend(t, m),
             ~InSend(t), wire' = wire, broken' = broken
      PROVE  WholeParts'
  <2>1. /\ send_buffer' = m /\ sending'[t] = m /\ at'[t] = "header"
        /\ \A u \in Threads \ {t} : sending'[u] = sending[u] /\ at'[u] = at[u]
        /\ ~overlapped /\ \A u \in Threads \ {t} : ~InSend(u)
    BY <1>0, <1>3, BeginEffect
  <2>2. \A u \in Threads : /\ ~Sender(u) /\ ~Sender(u)'
                           /\ InSend(u)' <=> u = t
    BY <1>3, <2>1 DEF InSend, Sender
  <2> QED BY <1>1, <1>3, <2>1, <2>2 DEF WholeParts
<1>4. CASE RegisterProvider
  <2>1. Subscribe(Candidate) \in Messages
    BY <1>4, HostAssumption, MessageKinds DEF RegisterProvider
  <2>2. /\ BeginSend(Main, Subscribe(Candidate)) /\ wire' = wire /\ broken' = broken
        /\ ~InSend(Main)
    BY <1>4 DEF RegisterProvider, MayRegister, AtPlace, InSend
  <2> QED BY <1>0, <1>3, <2>1, <2>2
<1>5. CASE Respond
  <2>1. Response(Head(rx).n) \in Messages
    <3>1. rx # <<>> /\ rx \in Seq(Requests)
      BY <1>0, <1>5 DEF Respond, AtPlace, BookInv, HostTypes
    <3>2. Head(rx) \in Requests
      BY <3>1
    <3> QED BY <3>2, MessageKinds DEF Requests
  <2>2. /\ BeginSend(Dispatcher, Response(Head(rx).n)) /\ wire' = wire /\ broken' = broken
        /\ ~InSend(Dispatcher)
    BY <1>5 DEF Respond, AtPlace, InSend
  <2> QED BY <1>0, <1>3, <2>1, <2>2
<1>6. ASSUME NEW t \in Threads, Sending(t)
      PROVE  WholeParts'
  <2>1. PICK part \in Parts :
             /\ \/ /\ at[t] = "header" /\ at'[t] = "payload"
                   /\ part = Part("header", send_buffer)
                \/ /\ at[t] = "payload" /\ at'[t] = AfterSend(t)
                   /\ part = Part("payload", sending[t])
             /\ Len(wire') = Len(wire) + 1
             /\ \A k \in 1 .. Len(wire) : wire'[k] = wire[k]
             /\ wire'[Len(wire) + 1] = part
             /\ \A u \in Threads \ {t} : at'[u] = at[u]
             /\ UNCHANGED <<sending, send_buffer, broken, overlapped>>
    BY <1>0, <1>6, SendEffect
  <2>2. /\ InSend(t) /\ \A u \in Threads \ {t} : ~InSend(u) /\ ~InSend(u)'
        /\ ~overlapped /\ ~broken'
    BY <1>1, <2>1 DEF InSend
  <2>3. send_buffer = sending[t] /\ sending[t] \in Messages
    BY <1>0, <1>1, <2>2 DEF HostTypes
  <2>4. \A u \in Threads \ {t} : ~Sender(u) /\ ~Sender(u)'
    BY <2>2 DEF InSend, Sender
  <2>5. /\ \A u, v \in Threads : InSend(u)' /\ InSend(v)' => u = v
        /\ \A u \in Threads : InSend(u)' => send_buffer' = sending'[u]
    BY <2>1, <2>2, <2>3
  <2>6. CASE at[t] = "header"
    <3>1. at'[t] = "payload" /\ part.half = "header" /\ part.m = sending[t]
      BY <2>1, <2>3, <2>6, PartTypes
    <3>2. PICK h \in Nat : Len(wire) = 2 * h
      BY <1>1, <2>2, <2>4, <2>6 DEF Sender
    <3>3. Len(wire') = 2 * h + 1 /\ wire'[2 * h + 1].half = "header" /\ wire'[2 * h + 1].m = sending[t]
      BY <2>1, <3>1, <3>2
    <3>4. ASSUME NEW k \in Nat, 2 * k + 1 <= Len(wire') PROVE wire'[2 * k + 1].half = "header"
      <4>1. CASE k = h
        BY <3>3, <4>1
      <4>2. CASE k # h
        <5>1. 2 * k + 1 \in 1 .. Len(wire) /\ 2 * k + 1 <= Len(wire)
          BY <3>2, <3>3, <3>4, <4>2
        <5> QED BY <1>1, <2>1, <2>2, <5>1
      <4> QED BY <4>1, <4>2
    <3>5. ASSUME NEW k \in Nat, 2 * k + 2 <= Len(wire')
          PROVE  wire'[2 * k + 2] = Part("payload", wire'[2 * k + 1].m)
      <4>1. 2 * k + 2 \in 1 .. Len(wire) /\ 2 * k + 1 \in 1 .. Len(wire) /\ 2 * k + 2 <= Len(wire)
        BY <3>2, <3>3, <3>5
      <4> QED BY <1>1, <2>1, <2>2, <4>1
    <3>6. Sender(t)' /\ sending' = sending
      BY <2>1, <3>1 DEF Sender
    <3> QED BY <2>2, <2>4, <2>5, <3>3, <3>4, <3>5, <3>6 DEF WholeParts
  <2>7. CASE at[t] = "payload"
    <3>1. ~Sender(t)' /\ part = Part("payload", sending[t])
      BY <2>1, <2>7 DEF Sender, AfterSend
    <3>2. PICK h \in Nat : Len(wire) = 2 * h + 1 /\ wire[2 * h + 1].m = sending[t]
      BY <1>1, <2>2, <2>7 DEF Sender
    <3>3. /\ Len(wire') = 2 * h + 2 /\ wire'[2 * h + 2] = Part("payload", sending[t])
          /\ wire'[2 * h + 1] = wire[2 * h + 1]
      <4>1. 2 * h + 1 \in 1 .. Len(wire) /\ Len(wire) + 1 = 2 * h + 2
        BY <3>2
      <4> QED BY <2>1, <3>1, <4>1
    <3>4. ASSUME NEW k \in Nat, 2 * k + 1 <= Len(wire') PROVE wire'[2 * k + 1].half = "header"
      <4>1. 2 * k + 1 \in 1 .. Len(wire) /\ 2 * k + 1 <= Len(wire)
        BY <3>2, <3>3, <3>4
      <4> QED BY <1>1, <2>1, <2>2, <4>1
    <3>5. ASSUME NEW k \in Nat, 2 * k + 2 <= Len(wire')
          PROVE  wire'[2 * k + 2] = Part("payload", wire'[2 * k + 1].m)
      <4>1. CASE k = h
        BY <3>2, <3>3, <4>1
      <4>2. CASE k # h
        <5>1. 2 * k + 2 \in 1 .. Len(wire) /\ 2 * k + 1 \in 1 .. Len(wire) /\ 2 * k + 2 <= Len(wire)
          BY <3>2, <3>3, <3>5, <4>2
        <5> QED BY <1>1, <2>1, <2>2, <5>1
      <4> QED BY <4>1, <4>2
    <3>6. \E k \in Nat : Len(wire') = 2 * k
      <4>1. h + 1 \in Nat /\ Len(wire') = 2 * (h + 1)
        BY <3>3
      <4> QED BY <4>1
    <3>7. \A u \in Threads : ~Sender(u)'
      BY <2>4, <3>1
    <3> QED BY <2>2, <2>5, <3>4, <3>5, <3>6, <3>7 DEF WholeParts
  <2> QED BY <2>1, <2>6, <2>7
<1>7. CASE RouterReads
  <2>1. /\ 1 \in 1 .. Len(wire) /\ 2 \in 1 .. Len(wire) /\ Len(wire') = Len(wire) - 2
        /\ \A k \in 1 .. Len(wire') : k + 2 \in 1 .. Len(wire) /\ wire'[k] = wire[k + 2]
    BY <1>0, <1>7, ReadEffect
  <2>2. /\ broken' = ~(wire[1] = Part("header", wire[1].m) /\ wire[2] = Part("payload", wire[1].m))
        /\ UNCHANGED <<at, sending, send_buffer, overlapped>>
    BY <1>7 DEF RouterReads
  <2>3. /\ ~overlapped
        /\ \A t \in Threads : (InSend(t)' <=> InSend(t)) /\ (Sender(t)' <=> Sender(t))
    BY <2>2 DEF InSend, Sender
  <2>4. wire[1].half = "header" /\ wire[2] = Part("payload", wire[1].m)
    <3>1. 0 \in Nat /\ 2 * 0 + 1 = 1 /\ 2 * 0 + 2 = 2 /\ 1 <= Len(wire) /\ 2 <= Len(wire)
      BY <1>0, <2>1
    <3> QED BY <1>1, <2>3, <3>1, ZenonT(40)
  <2>5. wire[1] = Part("header", wire[1].m)
    <3>1. wire[1] \in Parts
      BY <1>0, <2>1, ElementOfSeq
    <3> QED BY <2>4, <3>1 DEF Part, Parts
  <2>6. ~broken'
    BY <2>2, <2>4, <2>5
  <2>7. ASSUME NEW k \in Nat, 2 * k + 1 <= Len(wire')
        PROVE  /\ k + 1 \in Nat /\ 2 * (k + 1) + 1 <= Len(wire)
               /\ wire'[2 * k + 1] = wire[2 * (k + 1) + 1]
    <3>1. 2 * k + 1 \in 1 .. Len(wire') /\ (2 * k + 1) + 2 = 2 * (k + 1) + 1 /\ k + 1 \in Nat
      BY <1>0, <2>1, <2>7
    <3>2. 2 * (k + 1) + 1 <= Len(wire)
      BY <1>0, <2>1, <2>7
    <3> QED BY <2>1, <3>1, <3>2
  <2>8. ASSUME NEW k \in Nat, 2 * k + 2 <= Len(wire')
        PROVE  wire'[2 * k + 2] = Part("payload", wire'[2 * k + 1].m)
    <3>1. /\ 2 * k + 2 \in 1 .. Len(wire') /\ (2 * k + 2) + 2 = 2 * (k + 1) + 2 /\ k + 1 \in Nat
          /\ 2 * (k + 1) + 2 <= Len(wire) /\ 2 * k + 1 <= Len(wire')
      BY <1>0, <2>1, <2>8
    <3>2. wire'[2 * k + 2] = wire[2 * (k + 1) + 2] /\ wire'[2 * k + 1] = wire[2 * (k + 1) + 1]
      <4>1. PICK q : q = 2 * k + 2
        OBVIOUS
      <4>2. q \in 1 .. Len(wire') /\ q + 2 = 2 * (k + 1) + 2
        BY <3>1, <4>1
      <4>3. wire'[q] = wire[q + 2]
        BY <2>1, <4>2
      <4>4. wire'[2 * k + 1] = wire[2 * (k + 1) + 1]
        BY <2>7, <3>1
      <4> QED BY <4>1, <4>2, <4>3, <4>4, Zenon
    <3> QED BY <1>1, <2>3, <3>1, <3>2, ZenonT(40)
  <2>9. ASSUME NEW k \in Nat, 2 * k + 1 <= Len(wire') PROVE wire'[2 * k + 1].half = "header"
    <3>1. /\ k + 1 \in Nat /\ 2 * (k + 1) + 1 <= Len(wire)
          /\ wire'[2 * k + 1] = wire[2 * (k + 1) + 1]
      BY <2>7, <2>9
    <3> QED BY <1>1, <2>3, <3>1
  <2>10. ASSUME NEW t \in Threads, Sender(t)'
         PROVE  \E k \in Nat : Len(wire') = 2 * k + 1 /\ wire'[2 * k + 1].m = sending'[t]
    <3>1. PICK h \in Nat : Len(wire) = 2 * h + 1 /\ wire[2 * h + 1].m = sending[t]
      BY <1>1, <2>3, <2>10
    <3>2. h - 1 \in Nat
      BY <1>0, <2>1, <3>1
    <3>3. PICK g \in Nat : g + 1 = h
      BY <3>1, <3>2
    <3>4. Len(wire') = 2 * g + 1
      BY <2>1, <3>1, <3>3
    <3>5. wire'[2 * g + 1] = wire[2 * (g + 1) + 1]
      BY <2>7, <3>4
    <3>6. wire'[2 * g + 1].m = sending'[t]
      BY <2>2, <3>1, <3>3, <3>5
    <3> QED BY <3>4, <3>6
  <2>11. ASSUME \A t \in Threads : ~Sender(t)'
         PROVE  \E k \in Nat : Len(wire') = 2 * k
    <3>1. PICK h \in Nat : Len(wire) = 2 * h
      BY <1>1, <2>3, <2>11
    <3>2. h - 1 \in Nat /\ Len(wire') = 2 * (h - 1)
      BY <1>0, <2>1, <3>1
    <3> QED BY <3>2
  <2> QED BY <1>1, <2>2, <2>3, <2>6, <2>8, <2>9, <2>10, <2>11 DEF WholeParts
<1> QED BY <1>0, <1>2, <1>4, <1>5, <1>6, <1>7, QuietSteps
-----------------------------------------------------------------------------
(***************************************************************************)
(* Who has been told of a provider.                                        *)
(***************************************************************************)

(* Everybody but main leaves its place and its books alone.                *)
LEMMA MainStays ==
    ASSUME TypeOK, ShapeInv, BookInv, DispatcherThread \/ RouterReads \/ RouterDelivers
    PROVE  /\ at'[Main] = at[Main] /\ turn' = turn /\ providers' = providers
           /\ sending'[Main] = sending[Main] /\ listeners' = listeners
<1>0. /\ HostTypes /\ Main \in Threads \ {Dispatcher} /\ Dispatcher \in Threads
  BY TypesTogether DEF Threads, Main, Dispatcher
<1>1. CASE DropMessage \/ RouterReads \/ RouterDelivers
  BY <1>1 DEF DropMessage, RouterReads, RouterDelivers, registry
<1>2. CASE Receive
  BY <1>0, <1>2, ReceiveEffect DEF connection, registry
<1>3. CASE Provide
  BY <1>0, <1>3 DEF Provide, connection, registry, HostTypes
<1>4. CASE Respond
  <2>1. /\ sending' = [sending EXCEPT ![Dispatcher] = Response(Head(rx).n)]
        /\ at' = [at EXCEPT ![Dispatcher] = "header"]
        /\ UNCHANGED <<registry, listeners>>
    BY <1>4 DEF Respond, BeginSend, GoTo
  <2> QED BY <1>0, <2>1 DEF registry, HostTypes
<1>5. CASE Sending(Dispatcher)
  BY <1>0, <1>5, SendEffect DEF registry
<1> QED BY <1>1, <1>2, <1>3, <1>4, <1>5 DEF DispatcherThread

LEMMA ServedStays ==
    ASSUME TypeOK, ShapeInv, BookInv, Next, NEW o, Served(o)
    PROVE  Served(o)'
<1>0. HostTypes /\ Main \in Threads /\ Dispatcher \in Threads
  BY TypesTogether DEF Threads
<1>1. CASE DispatcherThread \/ RouterReads \/ RouterDelivers
  BY <1>1, MainStays DEF Served, Registering, Candidate
<1>2. CASE StartHost \/ RegisterProvider \/ RegisterRefused \/ RegisterUnknown
  <2>1. at[Main] \notin {"insert", "inserting"} /\ providers' = providers
    BY <1>2 DEF StartHost, RegisterProvider, RegisterRefused, RegisterUnknown, MayRegister,
       AtPlace, registry
  <2> QED BY <2>1 DEF Served, Registering
<1>3. CASE BeginInsert
  <2>1. at'[Main] = "inserting" /\ turn' = turn /\ providers' = providers
    BY <1>0, <1>3 DEF BeginInsert, GoTo, registry, HostTypes
  <2> QED BY <2>1 DEF Served, Registering, Candidate
<1>4. CASE EndInsert
  BY <1>4 DEF EndInsert, Inserted, Served, Registering
<1>5. CASE Sending(Main)
  <2>1. at[Main] \in {"header", "payload"} /\ providers' = providers
    BY <1>0, <1>5, SendEffect DEF registry
  <2> QED BY <2>1 DEF Served, Registering
<1> QED BY <1>1, <1>2, <1>3, <1>4, <1>5 DEF Next, MainThread

(* Where main is, and what it sends.                                       *)
LEMMA MainStep ==
    ASSUME TypeOK, ShapeInv, BookInv, Next
    PROVE  /\ at'[Main] \in {"header", "payload", "insert", "inserting"} =>
                turn' <= Len(RegisterOrder) /\ Candidate' \in Known
           /\ InSend(Main)' => sending'[Main] = Subscribe(Candidate)'
<1>0. HostTypes /\ Main \in Threads /\ Dispatcher \in Threads
  BY TypesTogether DEF Threads
<1>1. CASE DispatcherThread \/ RouterReads \/ RouterDelivers
  BY <1>1, MainStays DEF BookInv, InSend, Candidate, Subscribe
<1>2. CASE StartHost \/ RegisterRefused \/ RegisterUnknown \/ EndInsert
  <2>1. at'[Main] \in {"register", "crashed"}
    BY <1>0, <1>2 DEF StartHost, RegisterRefused, RegisterUnknown, EndInsert, MayRegister,
       AtPlace, GoTo, HostTypes, Main, Dispatcher
  <2> QED BY <2>1 DEF InSend
<1>3. CASE RegisterProvider
  <2>1. /\ turn <= Len(RegisterOrder) /\ Candidate \in Known /\ UNCHANGED registry
        /\ BeginSend(Main, Subscribe(Candidate))
    BY <1>3 DEF RegisterProvider, MayRegister
  <2>2. sending'[Main] = Subscribe(Candidate)
    BY <1>0, <2>1, HostAssumption, MessageKinds, BeginEffect
  <2> QED BY <2>1, <2>2 DEF registry, Candidate, Subscribe
<1>4. CASE BeginInsert
  <2>1. at[Main] = "insert" /\ at'[Main] = "inserting" /\ turn' = turn
    BY <1>0, <1>4 DEF BeginInsert, AtPlace, GoTo, registry, HostTypes
  <2> QED BY <2>1 DEF BookInv, InSend, Candidate
<1>5. CASE Sending(Main)
  <2>1. /\ at[Main] \in {"header", "payload"} /\ turn' = turn /\ sending' = sending
    BY <1>0, <1>5, SendEffect DEF registry
  <2> QED BY <2>1 DEF BookInv, InSend, Candidate, Subscribe
<1> QED BY <1>1, <1>2, <1>3, <1>4, <1>5 DEF Next, MainThread

(* What the dispatching thread sends is never a subscription.              *)
LEMMA DispatcherSends ==
    ASSUME TypeOK, ShapeInv, BookInv, WorkInv, Next
    PROVE  sending'[Dispatcher].kind # "subscribe"
<1>0. HostTypes /\ Main \in Threads \ {Dispatcher} /\ Dispatcher \in Threads \ {Main}
  BY TypesTogether DEF Threads, Main, Dispatcher
<1>1. CASE sending'[Dispatcher] = sending[Dispatcher]
  BY <1>1 DEF BookInv
<1>2. CASE RegisterProvider
  <2>1. BeginSend(Main, Subscribe(Candidate)) /\ Subscribe(Candidate) \in Messages
    BY <1>2, HostAssumption, MessageKinds DEF RegisterProvider
  <2> QED BY <1>0, <1>1, <2>1, BeginEffect
<1>3. CASE Respond
  <2>1. rx # <<>> /\ rx \in Seq(Requests)
    BY <1>0, <1>3 DEF Respond, AtPlace, BookInv, HostTypes
  <2>2. Head(rx) \in Requests
    BY <2>1
  <2>3. Response(Head(rx).n) \in Messages /\ Response(Head(rx).n).kind = "response"
    BY <2>2, MessageKinds DEF Requests
  <2>4. sending'[Dispatcher] = Response(Head(rx).n)
    BY <1>0, <1>3, <2>3, BeginEffect DEF Respond
  <2> QED BY <2>3, <2>4
<1>4. CASE Quiet \/ (\E t \in Threads : Sending(t)) \/ RouterReads
  BY <1>0, <1>1, <1>4, SendEffect DEF Quiet, RouterReads
<1> QED BY <1>0, <1>2, <1>3, <1>4, QuietSteps

(* A subscription on the wire is main's, whose payload has been sent.      *)
LEMMA WireStep ==
    ASSUME TypeOK, ShapeInv, BookInv, WorkInv, Next
    PROVE  \A k \in 1 .. Len(wire'), part \in Parts :
             part = wire'[k] /\ part.half = "payload" /\ part.m.kind = "subscribe" =>
                 Served(part.m.object)'
<1>0. HostTypes /\ Main \in Threads /\ Dispatcher \in Threads /\ Len(wire) \in Nat
  BY TypesTogether DEF Threads, HostTypes
<1> SUFFICES ASSUME NEW k \in 1 .. Len(wire'), NEW part \in Parts, part = wire'[k],
                    part.half = "payload", part.m.kind = "subscribe"
             PROVE  Served(part.m.object)'
  OBVIOUS
<1>1. CASE wire' = wire
  BY <1>1, ServedStays DEF BookInv
<1>2. ASSUME NEW t \in Threads, Sending(t) PROVE Served(part.m.object)'
  <2>1. PICK new \in Parts :
             /\ \/ /\ at[t] = "header" /\ new = Part("header", send_buffer)
                \/ /\ at[t] = "payload" /\ at'[t] = AfterSend(t)
                   /\ new = Part("payload", sending[t])
             /\ Len(wire') = Len(wire) + 1
             /\ \A q \in 1 .. Len(wire) : wire'[q] = wire[q]
             /\ wire'[Len(wire) + 1] = new /\ UNCHANGED registry
    BY <1>0, <1>2, SendEffect
  <2>2. CASE k \in 1 .. Len(wire)
    BY <2>1, <2>2, ServedStays DEF BookInv
  <2>3. CASE k = Len(wire) + 1
    <3>1. at[t] = "payload" /\ part.m = sending[t] /\ at'[t] = AfterSend(t)
      BY <1>0, <2>1, <2>3, PartTypes DEF HostTypes
    <3>2. t = Main
      BY <3>1 DEF BookInv, Threads
    <3>3. part.m = Subscribe(Candidate) /\ Candidate \in Known
      BY <3>1, <3>2 DEF BookInv, InSend
    <3>4. part.m.object = Candidate /\ at'[Main] = "insert"
      BY <3>1, <3>2, <3>3, HostAssumption, MessageKinds DEF AfterSend
    <3> QED BY <2>1, <3>4 DEF Served, Registering, Candidate, registry
  <2> QED BY <1>0, <2>1, <2>2, <2>3
<1>3. CASE RouterReads
  <2>1. k + 2 \in 1 .. Len(wire) /\ part = wire[k + 2]
    BY <1>0, <1>3, ReadEffect
  <2> QED BY <2>1, ServedStays DEF BookInv
<1>4. CASE Quiet \/ RegisterProvider \/ Respond
  BY <1>1, <1>4 DEF Quiet, RegisterProvider, Respond
<1> QED BY <1>0, <1>2, <1>3, <1>4, QuietSteps
(* The router has told of a provider whom it has heard of.                 *)
LEMMA BooksStep ==
    ASSUME TypeOK, ShapeInv, BookInv, WorkInv, Next
    PROVE  /\ \A o \in subscribed' : Served(o)'
           /\ subscribed \subseteq subscribed'
           /\ Len(listeners) <= Len(listeners')
           /\ \A k \in 1 .. Len(listeners) : listeners'[k] = listeners[k]
<1>0. HostTypes /\ Main \in Threads /\ Dispatcher \in Threads /\ Len(listeners) \in Nat
  BY TypesTogether DEF Threads, HostTypes
<1>1. CASE UNCHANGED <<subscribed, listeners>>
  BY <1>0, <1>1, ServedStays DEF BookInv
<1>2. CASE RouterReads
  <2>1. /\ 2 \in 1 .. Len(wire) /\ listeners' = listeners
        /\ \/ subscribed' = subscribed
           \/ /\ wire[2] = Part("payload", wire[1].m) /\ wire[1].m.kind = "subscribe"
              /\ subscribed' = subscribed \cup {wire[1].m.object}
    BY <1>0, <1>2, ReadEffect DEF RouterReads
  <2>2. CASE subscribed' = subscribed
    BY <1>1, <2>1, <2>2
  <2>3. CASE /\ wire[2] = Part("payload", wire[1].m) /\ wire[1].m.kind = "subscribe"
             /\ subscribed' = subscribed \cup {wire[1].m.object}
    <3>1. PICK o : o = wire[1].m.object
      OBVIOUS
    <3>2. wire[2].half = "payload" /\ wire[2].m = wire[1].m
      BY <2>3 DEF Part
    <3>3. Served(o)
      BY <2>1, <2>3, <3>1, <3>2 DEF BookInv
    <3>4. Served(o)'
      BY <3>3, ServedStays
    <3>5. \A x \in subscribed : Served(x)'
      BY ServedStays DEF BookInv
    <3> QED BY <1>0, <2>1, <2>3, <3>1, <3>4, <3>5
  <2> QED BY <2>1, <2>2, <2>3
<1>3. CASE RegisterProvider
  <2>1. /\ listeners \in Seq(Known) /\ listeners' = Append(listeners, Candidate)
        /\ Candidate \in Known /\ subscribed' = subscribed
    BY <1>0, <1>3 DEF RegisterProvider, HostTypes
  <2> QED BY <1>0, <2>1, AppendProperties, ServedStays DEF BookInv
<1>4. CASE DispatcherThread \/ RouterDelivers
  <2>1. subscribed' = subscribed
    BY <1>4, ReceiveEffect DEF DispatcherThread, DropMessage, Provide, Respond, Sending, SendHeader,
       SendPayload, RouterDelivers, connection
  <2> QED BY <1>1, <1>4, <2>1, MainStays
<1>5. CASE StartHost \/ RegisterRefused \/ RegisterUnknown \/ BeginInsert \/ EndInsert \/ Sending(Main)
  BY <1>1, <1>5 DEF StartHost, RegisterRefused, RegisterUnknown, BeginInsert, EndInsert, Sending,
     SendHeader, SendPayload, connection
<1> QED BY <1>2, <1>3, <1>4, <1>5 DEF Next, MainThread

LEMMA WorkHasRequest ==
    ASSUME TypeOK, ShapeInv, BookInv, WorkInv, Next, at'[Dispatcher] \in {"provider", "respond"}
    PROVE  rx' # <<>>
<1>0. HostTypes /\ Main \in Threads \ {Dispatcher} /\ Dispatcher \in Threads \ {Main}
  BY TypesTogether DEF Threads, Main, Dispatcher
<1>1. CASE rx' = rx /\ at[Dispatcher] \in {"provider", "respond"}
  BY <1>1 DEF BookInv
<1>2. CASE Receive
  BY <1>2, ReceiveEffect DEF connection
<1>3. CASE Provide
  BY <1>1, <1>3 DEF Provide, AtPlace, connection
<1>4. CASE DropMessage
  BY <1>4 DEF DropMessage, AtPlace
<1>5. CASE Respond
  BY <1>0, <1>5 DEF Respond, BeginSend, GoTo, HostTypes
<1>6. CASE Sending(Dispatcher)
  BY <1>0, <1>6, SendEffect DEF AfterSend, Main, Dispatcher
<1>7. CASE RouterReads
  BY <1>1, <1>7 DEF RouterReads
<1>8. CASE RouterDelivers
  <2>1. PICK x : rx' = Append(rx, x) /\ x \in Requests
    BY <1>0, <1>8, DeliverEffect
  <2>2. rx \in Seq(Requests)
    BY <1>0 DEF HostTypes
  <2>3. Len(rx') = Len(rx) + 1 /\ Len(rx) \in Nat
    BY <2>1, <2>2, AppendProperties, LenProperties
  <2> QED BY <2>3, EmptySeq
<1>9. CASE MainThread
  <2>1. rx' = rx /\ (at'[Dispatcher] = at[Dispatcher] \/ at'[Dispatcher] = "wait")
    BY <1>0, <1>9, SMTT(30)
       DEF MainThread, StartHost, RegisterProvider, RegisterRefused, RegisterUnknown, BeginInsert, EndInsert, BeginSend, Sending, SendHeader, SendPayload, GoTo, connection, HostTypes
  <2> QED BY <1>1, <2>1
<1> QED BY <1>2, <1>3, <1>4, <1>5, <1>6, <1>7, <1>8, <1>9, SMTT(30) DEF Next, DispatcherThread

LEMMA BookStep ==
    ASSUME TypeOK, ShapeInv, BookInv, WorkInv, Next
    PROVE  BookInv'
<1>0. HostTypes /\ HostTypes' /\ rx \in Seq(Requests) /\ Len(rx) \in Nat
  BY TypesTogether, HostTypesStep, SMTT(40) DEF HostTypes
<1>1. /\ subscribed \subseteq subscribed' /\ Len(listeners) <= Len(listeners')
      /\ Len(listeners) \in Nat /\ Len(listeners') \in Nat
      /\ \A k \in 1 .. Len(listeners) : listeners'[k] = listeners[k]
  BY <1>0, BooksStep, SMTT(30) DEF HostTypes
<1>2. ASSUME NEW q \in 1 .. Len(rx')
      PROVE  /\ rx'[q].listener \in 1 .. Len(listeners')
             /\ listeners'[rx'[q].listener] \in subscribed'
  <2> SUFFICES /\ rx'[q].listener \in 1 .. Len(listeners)
               /\ listeners[rx'[q].listener] \in subscribed
    BY <1>1
  <2>1. CASE rx' = rx
    BY <1>2, <2>1 DEF BookInv
  <2>2. CASE rx # <<>> /\ rx' = Tail(rx)
    <3>1. q + 1 \in 1 .. Len(rx) /\ rx'[q] = rx[q + 1]
      BY <1>0, <1>2, <2>2
    <3> QED BY <3>1 DEF BookInv
  <2>3. CASE RouterDelivers
    <3>1. PICK x \in Requests : /\ rx' = Append(rx, x)
                                /\ x.listener \in 1 .. Len(listeners)
                                /\ listeners[x.listener] \in subscribed
      BY <1>0, <2>3, DeliverEffect
    <3>2. (q \in 1 .. Len(rx) /\ rx'[q] = rx[q]) \/ rx'[q] = x
      BY <1>0, <1>2, <3>1, AppendProperties
    <3> QED BY <3>1, <3>2 DEF BookInv
  <2> QED BY <2>1, <2>2, <2>3, RxEffect
<1>3. ASSUME NEW k \in 1 .. Len(wire')
      PROVE  wire'[k].half = "payload" /\ wire'[k].m.kind = "subscribe" =>
                 \/ wire'[k].m.object \in providers'
                 \/ at'[Main] \in {"insert", "inserting"} /\ wire'[k].m.object = Candidate'
  <2>1. PICK part \in Parts : part = wire'[k]
    BY <1>0, <1>3, ElementOfSeq DEF HostTypes
  <2> QED BY <1>3, <2>1, WireStep DEF Served, Registering
<1>4. /\ at'[Main] \in {"header", "payload", "insert", "inserting"} =>
           turn' <= Len(RegisterOrder) /\ Candidate' \in Known
      /\ InSend(Main)' => sending'[Main] = Subscribe(Candidate)'
      /\ sending'[Dispatcher].kind # "subscribe"
      /\ at'[Dispatcher] \in {"provider", "respond"} => rx' # <<>>
      /\ \A o \in subscribed' : Served(o)'
  BY MainStep, DispatcherSends, WorkHasRequest, BooksStep
<1> QED BY <1>2, <1>3, <1>4 DEF BookInv, Served, Registering

-----------------------------------------------------------------------------
LEMMA InitEstablishesIInv == Init => IInv
<1> SUFFICES ASSUME Init PROVE IInv
  OBVIOUS
<1> USE DEF Init, HostInit, ProviderInit
<1>1. HostTypes
  <2>1. turn \in 1 .. Len(RegisterOrder) + 1 /\ requests \in 0 .. MaxRequests
    BY HostAssumption
  <2>2. at \in [Threads -> Places] /\ sending \in [Threads -> Messages] /\ send_buffer \in Messages
    BY MessageKinds DEF Places
  <2>3. /\ wire \in Seq(Parts) /\ listeners \in Seq(Known) /\ rx \in Seq(Requests)
        /\ responses \in Seq(1 .. MaxRequests)
    OBVIOUS
  <2>4. /\ subscribed \subseteq Known /\ providers \subseteq Known
        /\ missed \subseteq 1 .. MaxRequests /\ broken = FALSE /\ overlapped = FALSE
    OBVIOUS
  <2> HIDE DEF Init, HostInit, ProviderInit
  <2> QED BY <2>1, <2>2, <2>3, <2>4 DEF HostTypes
<1>2. ProviderTypes
  <2>1. work \in Works
    BY DEF NoWork, Works
  <2> QED BY <2>1, ProviderAssumption DEF ProviderTypes
<1>3. TypeOK
  BY <1>1, <1>2 DEF HostTypes, ProviderTypes, TypeOK, Places
<1>4. ShapeInv
  BY <1>1, <1>2 DEF HostTypes, ProviderTypes, ShapeInv
<1>5. StreamInv
  <2>1. /\ \A t \in Threads : ~InSend(t) /\ ~Sender(t)
        /\ 0 \in Nat /\ Len(wire) = 2 * 0
    BY DEF Threads, InSend, Sender
  <2>2. \A k \in Nat : ~(2 * k + 1 <= Len(wire)) /\ ~(2 * k + 2 <= Len(wire))
    BY <2>1
  <2> QED BY <2>1, <2>2 DEF StreamInv, WholeParts
<1>6. BookInv
  <2>1. /\ at[Main] = "start" /\ at[Dispatcher] = "none" /\ sending[Dispatcher] = Nobody
    BY DEF Threads, Main, Dispatcher
  <2> QED BY <2>1, MessageKinds DEF BookInv, InSend
<1>7. WorkInv /\ StagedInv /\ SingleInv
  <2>1. /\ at[Main] = "start" /\ at[Dispatcher] = "none"
    BY DEF Threads, Main, Dispatcher
  <2>2. work.op = "none" /\ work.at = 0 /\ work.params = <<>>
    BY DEF NoWork
  <2> QED BY <2>1, <2>2 DEF WorkInv, StagedInv, SingleInv, Transaction
<1> QED BY <1>3, <1>4, <1>5, <1>6, <1>7 DEF IInv

LEMMA StutteringKeepsIInv ==
    ASSUME IInv, UNCHANGED vars
    PROVE  IInv'
<1>1. UNCHANGED <<at, turn, sending, send_buffer, wire, broken, overlapped, listeners, subscribed,
                  rx, requests, providers, missed, responses, store, staged, isTransaction, work,
                  result>>
  BY DEF vars, hostVars, connection, registry, counts, providerVars
<1>2. TypeOK' /\ ShapeInv'
  BY <1>1 DEF IInv, TypeOK, ShapeInv
<1>3. StreamInv' /\ BookInv'
  BY <1>1 DEF IInv, StreamInv, WholeParts, BookInv, InSend, Sender, Served, Registering, Candidate
<1>4. WorkInv' /\ StagedInv' /\ SingleInv'
  BY <1>1 DEF IInv, WorkInv, StagedInv, SingleInv, Transaction, Many, LastOf
<1> QED BY <1>2, <1>3, <1>4 DEF IInv

(* What the four properties below rest on, together inductive.             *)
THEOREM IInvIsInvariant == Spec => []IInv
<1>1. Init => IInv
  BY InitEstablishesIInv
<1>2. ASSUME IInv, Next PROVE IInv'
  <2>1. RequestInv
    BY <1>2 DEF IInv, RequestInv, TypeOK, ShapeInv, ProviderTypes
  <2>2. TypeOK' /\ ShapeInv' /\ RequestInv'
    BY <1>2, <2>1, ShapeStep, RequestStep DEF IInv
  <2>3. StreamInv' /\ BookInv'
    BY <1>2, StreamStep, BookStep DEF IInv
  <2> QED BY <2>2, <2>3 DEF IInv, RequestInv
<1>3. IInv /\ [Next]_vars => IInv'
  BY <1>2, StutteringKeepsIInv
<1> QED BY <1>1, <1>3, PTL DEF Spec

(* The host's data stays well formed (dmProviderHost.cpp, dmProvider.cpp). *)
THEOREM TypeCorrect == Spec => []TypeOK
<1>1. IInv => TypeOK
  BY DEF IInv
<1> QED BY <1>1, IInvIsInvariant, PTL

(* The router reads what it was meant to until both threads have sent at   *)
(* once, and so any sequence of calls that keeps them apart is safe        *)
(* without a lock (rtConnection.c:422-463, dmProviderHost.cpp:63, :154).   *)
THEOREM InStepWhileApart == Spec => []InStepUnlessOverlapped
<1>1. IInv => InStepUnlessOverlapped
  BY DEF IInv, StreamInv, WholeParts, InStepUnlessOverlapped
<1> QED BY <1>1, IInvIsInvariant, PTL

(* A set of one property that is answered "ok" has taken effect            *)
(* (dmProvider.cpp:81-106).                                                *)
THEOREM OneValueIsSet == Spec => []SingleSetTakesEffect
<1>1. IInv => SingleSetTakesEffect
  BY DEF IInv, SingleInv, SingleSetTakesEffect
<1> QED BY <1>1, IInvIsInvariant, PTL

(* A provider is missed only while main is between the subscription, sent  *)
(* to its last byte, and the map (dmProviderHost.cpp:360-366).             *)
THEOREM MissedBetweenTheTwo == Spec => MissedOnlyWhileRegistering
<1>1. IInv /\ [Next]_vars => [missed' # missed => at[Main] \in {"insert", "inserting"}]_vars
  <2> SUFFICES ASSUME IInv, Next, missed' # missed
               PROVE  at[Main] \in {"insert", "inserting"}
    OBVIOUS
  <2>1. Receive
    BY DEF Next, MainThread, DispatcherThread, StartHost, RegisterProvider, RegisterRefused,
       RegisterUnknown, BeginInsert, EndInsert, Sending, SendHeader, SendPayload, DropMessage,
       Provide, Respond, RouterReads, RouterDelivers, counts
  <2>2. PICK o : o = listeners[Head(rx).listener]
    OBVIOUS
  <2>3. FindMayAnswer(o, FALSE) /\ o \in subscribed
    BY <2>1, <2>2, ReceiveEffect DEF IInv
  <2>4. Served(o)
    BY <2>3 DEF IInv, BookInv
  <2>5. CASE at[Main] # "inserting"
    <3>1. FALSE = (o \in providers)
      BY <2>3, <2>5 DEF FindMayAnswer
    <3> QED BY <2>4, <3>1 DEF Served, Registering
  <2> QED BY <2>5
<1> QED BY <1>1, IInvIsInvariant, PTL DEF Spec, MissedOnlyWhileRegistering

(* A transaction is taken over whole, with the last value the request has  *)
(* for each property, or not at all (dmProvider.cpp:66-106,                *)
(* sample_provider_wifi.cpp:92-108).                                       *)
THEOREM TransactionsAreWhole == Spec => NoHalfTransaction
<1> DEFINE A == \A o \in Objects :
                  isTransaction[o] /\ (\E p \in Staged : store'[o][p] # store[o][p]) =>
                    \A p \in Staged :
                      /\ \E k \in DOMAIN work.params : work.params[k].prop = p
                      /\ store'[o][p] = LastValue(work.params, p)
<1>1. ASSUME IInv, Next PROVE A
  <2> SUFFICES ASSUME NEW o \in Objects, isTransaction[o], NEW q \in Staged,
                      store'[o][q] # store[o][q], NEW p \in Staged
               PROVE  /\ \E k \in DOMAIN work.params : work.params[k].prop = p
                      /\ store'[o][p] = LastValue(work.params, p)
    OBVIOUS
  <2>1. ProviderTypes /\ WorkInv /\ StagedInv /\ TypeOK /\ ShapeInv /\ BookInv
    BY <1>1 DEF IInv, TypeOK, ShapeInv, ProviderTypes
  <2>2. Transaction(o) /\ work.params \in Seq(Params) /\ work.at \in Nat /\ Len(work.params) \in Nat
        /\ DOMAIN work.params = 1 .. Len(work.params)
    BY <2>1 DEF WorkInv, ProviderTypes, Works
  <2>3. Finish
    <3>1. CASE GetNext \/ RefuseFixed
      BY <3>1 DEF GetNext, RefuseFixed
    <3>2. CASE SetNext \/ SetVirtual
      <4>1. CASE store' # store
        <5>1. /\ work.object \in Objects /\ Current.prop \in Props \ Missing
              /\ Current.prop \in Staged => ~isTransaction[work.object]
              /\ store' = [store EXCEPT ![work.object][Current.prop] = Current.value]
          BY <2>1, <3>2, <4>1, StoreEffect
        <5>2. Current.prop # q
          BY <2>2, <5>1 DEF Transaction
        <5>3. store'[o][q] = store[o][q]
          BY <2>1, <5>1, <5>2 DEF ProviderTypes
        <5> QED BY <5>3
      <4> QED BY <4>1
    <3>3. CASE Receive
      BY <2>1, <3>3, ReceiveEffect DEF StartGet, StartSet, providerVars
    <3>4. Receive \/ Provide
      BY <1>1, <2>1, OtherSteps DEF providerVars
    <3> QED BY <3>1, <3>2, <3>3, <3>4 DEF Provide, ProviderStep
  <2>4. work.object = o /\ store' = TakenOver(o) /\ Complete(o) /\ work.at = Len(work.params) + 1
    BY <2>1, <2>2, <2>3 DEF Finish, Transaction, Done, WorkInv
  <2>5. PICK k \in 1 .. Len(work.params) :
          /\ work.params[k].prop = p
          /\ \A l \in k + 1 .. Len(work.params) : work.params[l].prop # p
          /\ staged[o][p] = work.params[k].value
    <3>1. staged[o][p] # Empty
      BY <2>4 DEF Complete
    <3>2. PICK k \in 1 .. work.at - 1 : LastOf(p, k) /\ staged[o][p] = work.params[k].value
      BY <2>1, <2>2, <3>1 DEF StagedInv
    <3> QED BY <2>2, <2>4, <3>2 DEF LastOf
  <2>6. ASSUME NEW m \in 1 .. Len(work.params), work.params[m].prop = p,
               \A l \in m + 1 .. Len(work.params) : work.params[l].prop # p
        PROVE  m = k
    <3>1. CASE m < k
      <4>1. k \in m + 1 .. Len(work.params)
        BY <2>2, <3>1
      <4> QED BY <2>5, <2>6, <4>1
    <3>2. CASE k < m
      <4>1. m \in k + 1 .. Len(work.params)
        BY <2>2, <3>2
      <4> QED BY <2>5, <2>6, <4>1
    <3> QED BY <2>2, <3>1, <3>2
  <2>7. LastValue(work.params, p) = work.params[k].value
    BY <2>2, <2>5, <2>6 DEF LastValue
  <2>8. store'[o][p] = staged[o][p]
    <3>1. p \in Props \ Missing
      BY KindsAssumption DEF Props
    <3> QED BY <2>1, <2>4, <3>1 DEF TakenOver, ProviderTypes
  <2> QED BY <2>2, <2>5, <2>7, <2>8
<1>2. IInv /\ [Next]_vars => [A]_providerVars
  <2>1. CASE Next
    BY <1>1, <2>1
  <2>2. CASE UNCHANGED vars
    BY <2>2 DEF vars
  <2> HIDE DEF A
  <2> QED BY <2>1, <2>2
<1> QED BY <1>2, IInvIsInvariant, PTL DEF Spec, NoHalfTransaction
=============================================================================
