---------------------------- MODULE DmClientProofs ----------------------------
(***************************************************************************)
(* Proofs about the provider database and the data model client.           *)
(*                                                                         *)
(* The walk of getProviderByObjectName over the tokens of a name is proved *)
(* to find what Named says without walking: an invariant of the walk       *)
(* (OnTheWay), by induction over its steps, in both directions.  From this *)
(* follow the tree of children, the agreement of client and host, and, by  *)
(* an invariant of the activations of runGet, the answers of a query that  *)
(* does not recurse.                                                       *)
(*                                                                         *)
(* Of a query that does, what is still to be asked for is shared out among *)
(* the activations, and none of it is below anything met before (VisitInv):*)
(* so nothing is asked for twice and nothing is left out at the end.       *)
(***************************************************************************)
EXTENDS DmClient, SequenceTheorems, FiniteSetTheorems, WellFoundedInduction, TLAPS

-----------------------------------------------------------------------------
(***************************************************************************)
(* Names.                                                                  *)
(***************************************************************************)
IsSequence(p) == p \in Seq(Range(p))

LEMMA SequenceFacts ==
    ASSUME NEW p, IsSequence(p)
    PROVE  /\ Len(p) \in Nat /\ DOMAIN p = 1 .. Len(p)
           /\ p = <<>> <=> Len(p) = 0
           /\ \A k \in 1 .. Len(p) : p[k] \in Range(p)
BY DEF IsSequence, Range

LEMMA BeginningFacts ==
    ASSUME NEW p, IsSequence(p), NEW k \in 0 .. Len(p)
    PROVE  /\ Len(SubSeq(p, 1, k)) = k
           /\ SubSeq(p, 1, k) \in Seq(Range(p))
           /\ \A i \in 1 .. k : SubSeq(p, 1, k)[i] = p[i]
           /\ SubSeq(p, 1, k) = <<>> <=> k = 0
           /\ k # 0 => /\ Last(SubSeq(p, 1, k)) = p[k]
                       /\ Front(SubSeq(p, 1, k)) = SubSeq(p, 1, k - 1)
                       /\ SubSeq(p, 1, k) = Append(SubSeq(p, 1, k - 1), p[k])
<1>1. Len(p) \in Nat /\ \A i \in 1 .. Len(p) : p[i] \in Range(p)
  BY SequenceFacts
<1>2. /\ Len(SubSeq(p, 1, k)) = k /\ SubSeq(p, 1, k) \in Seq(Range(p))
      /\ \A i \in 1 .. k : SubSeq(p, 1, k)[i] = p[i]
  BY <1>1, SubSeqProperties
<1>3. ASSUME k # 0
      PROVE  /\ Last(SubSeq(p, 1, k)) = p[k]
             /\ Front(SubSeq(p, 1, k)) = SubSeq(p, 1, k - 1)
             /\ SubSeq(p, 1, k) = Append(SubSeq(p, 1, k - 1), p[k])
  <2>1. k - 1 \in 0 .. Len(p) /\ p[k] \in Range(p)
    BY <1>1, <1>3
  <2>2. /\ SubSeq(p, 1, k - 1) \in Seq(Range(p)) /\ Len(SubSeq(p, 1, k - 1)) = k - 1
        /\ \A i \in 1 .. k - 1 : SubSeq(p, 1, k - 1)[i] = p[i]
    BY <1>1, <2>1, SubSeqProperties
  <2>3. /\ Append(SubSeq(p, 1, k - 1), p[k]) \in Seq(Range(p))
        /\ Len(Append(SubSeq(p, 1, k - 1), p[k])) = k
        /\ \A i \in 1 .. k : Append(SubSeq(p, 1, k - 1), p[k])[i] = p[i]
    BY <2>1, <2>2, AppendProperties
  <2>4. SubSeq(p, 1, k) = Append(SubSeq(p, 1, k - 1), p[k])
    BY <1>2, <2>3, SeqEqual
  <2>5. Front(SubSeq(p, 1, k)) = SubSeq(p, 1, k - 1)
    <3>1. /\ Front(SubSeq(p, 1, k)) = SubSeq(SubSeq(p, 1, k), 1, k - 1)
          /\ \A i \in 1 .. k - 1 : SubSeq(p, 1, k)[i] = p[i] /\ SubSeq(p, 1, k)[i] \in Range(p)
      BY <1>1, <1>2, <2>1 DEF Front
    <3>2. /\ SubSeq(SubSeq(p, 1, k), 1, k - 1) \in Seq(Range(p))
          /\ Len(SubSeq(SubSeq(p, 1, k), 1, k - 1)) = k - 1
          /\ \A i \in 1 .. k - 1 : SubSeq(SubSeq(p, 1, k), 1, k - 1)[i] = SubSeq(p, 1, k)[i]
      BY <2>1, <3>1, SubSeqProperties
    <3> QED
      BY <2>2, <3>1, <3>2, SeqEqual
  <2> QED
    BY <1>2, <1>3, <2>4, <2>5, SMTT(40) DEF Last
<1> QED
  BY <1>1, <1>2, <1>3, SequenceFacts

LEMMA WiderRange ==
    ASSUME NEW s, IsSequence(s), NEW S, Range(s) \subseteq S
    PROVE  s \in Seq(S)
<1>1. s \in Seq(Range(s)) /\ Len(s) \in Nat /\ \A k \in 1 .. Len(s) : s[k] \in S
  BY SequenceFacts DEF IsSequence
<1> QED
  BY <1>1

LEMMA AppendFacts ==
    ASSUME NEW s, IsSequence(s), NEW x
    PROVE  /\ IsSequence(Append(s, x)) /\ Len(Append(s, x)) = Len(s) + 1 /\ Append(s, x) # <<>>
           /\ \A k \in 1 .. Len(s) : Append(s, x)[k] = s[k]
           /\ Append(s, x)[Len(s) + 1] = x
           /\ \A k \in 1 .. Len(s) + 1 : k \in 1 .. Len(s) \/ k = Len(s) + 1
<1> DEFINE S == Range(s) \cup {x}
<1>1. s \in Seq(S) /\ x \in S /\ Len(s) \in Nat
  BY WiderRange, SequenceFacts
<1> HIDE DEF S
<1>2. /\ Append(s, x) \in Seq(S) /\ Append(s, x) # <<>>
      /\ Len(Append(s, x)) = Len(s) + 1
      /\ \A k \in 1 .. Len(s) : Append(s, x)[k] = s[k]
      /\ Append(s, x)[Len(s) + 1] = x
  BY <1>1, AppendProperties
<1>3. \A k \in 1 .. Len(s) + 1 : k \in 1 .. Len(s) \/ k = Len(s) + 1
  BY <1>1
<1> QED
  BY <1>2, <1>3, SeqOfRange DEF IsSequence

(* Induction on the natural numbers, for a set of them.                    *)
LEMMA AllNumbers ==
    ASSUME NEW T, 0 \in T, \A n \in Nat : n \in T => n + 1 \in T
    PROVE  Nat \subseteq T
<1> DEFINE Before == {pair \in Nat \X Nat : pair[1] < pair[2]}
           Missing == Nat \ T
<1> SUFFICES ASSUME Missing # {} PROVE FALSE
  OBVIOUS
<1>1. IsWellFoundedOn(Before, Nat)
  BY NatLessThanWellFounded DEF OpToRel
<1>2. PICK n \in Missing : \A m \in Missing : <<m, n>> \notin Before
  <2>1. Missing \subseteq Nat
    OBVIOUS
  <2> HIDE DEF Before, Missing
  <2> QED
    BY <1>1, <2>1, WFMin
<1>3. n \in Nat /\ n # 0 /\ n - 1 \in Nat
  BY <1>2
<1>4. <<n - 1, n>> \in Nat \X Nat /\ <<n - 1, n>>[1] < <<n - 1, n>>[2]
  BY <1>3
<1>5. n - 1 \in T
  BY <1>2, <1>3, <1>4
<1> QED
  BY <1>2, <1>3, <1>5

-----------------------------------------------------------------------------
(***************************************************************************)
(* The dots a name begins with.                                            *)
(***************************************************************************)
NoToken(token) == token = ""

(* Is it without such dots?                                               *)
IsBare(p) == p # <<>> => ~NoToken(p[1])

IsDots(p, d) ==
    (\A k \in 1 .. d : NoToken(p[k])) /\ (d < Len(p) => ~NoToken(p[d + 1]))

LEMMA DotsFacts ==
    ASSUME NEW p, IsSequence(p)
    PROVE  Dots(p) \in 0 .. Len(p) /\ IsDots(p, Dots(p))
<1>1. PICK l \in Nat : l = Len(p)
  BY SequenceFacts
<1> DEFINE T == {m \in Nat : m <= l => (\A k \in 1 .. m : NoToken(p[k])) \/ (\E d \in 0 .. l : IsDots(p, d))}
<1>2. 0 \in T
  <2>1. \A k \in 1 .. 0 : NoToken(p[k])
    OBVIOUS
  <2> QED
    BY <2>1
<1>3. ASSUME NEW m \in Nat, m \in T PROVE m + 1 \in T
  <2> SUFFICES ASSUME m + 1 <= l, ~ \E d \in 0 .. l : IsDots(p, d)
               PROVE  \A k \in 1 .. m + 1 : NoToken(p[k])
    BY DEF T
  <2>1. \A k \in 1 .. m : NoToken(p[k])
    BY <1>3
  <2>2. NoToken(p[m + 1])
    <3>1. m \in 0 .. l
      OBVIOUS
    <3>2. ~IsDots(p, m)
      BY <3>1
    <3> QED
      BY <2>1, <3>2 DEF IsDots
  <2>3. \A k \in 1 .. m + 1 : k \in 1 .. m \/ k = m + 1
    OBVIOUS
  <2> QED
    BY <2>1, <2>2, <2>3
<1> HIDE DEF T
<1>4. l \in T
  BY <1>2, <1>3, AllNumbers
<1>5. \E d \in 0 .. l : IsDots(p, d)
  <2>1. (\A k \in 1 .. l : NoToken(p[k])) \/ (\E d \in 0 .. l : IsDots(p, d))
    BY <1>4 DEF T
  <2>2. l \in 0 .. l /\ ~(l < l)
    OBVIOUS
  <2>3. (\A k \in 1 .. l : NoToken(p[k])) => IsDots(p, l)
    BY <1>1, <2>2 DEF IsDots
  <2> QED
    BY <2>1, <2>2, <2>3
<1>6. Dots(p) = CHOOSE d \in 0 .. Len(p) : IsDots(p, d)
  BY DEF Dots, IsDots, NoToken
<1> QED
  BY <1>1, <1>5, <1>6

LEMMA OnlyDots ==
    ASSUME NEW p, IsSequence(p), NEW d \in 0 .. Len(p), IsDots(p, d)
    PROVE  Dots(p) = d
<1>1. PICK e : e = Dots(p) /\ e \in 0 .. Len(p) /\ IsDots(p, e)
  BY DotsFacts
<1>2. PICK l \in Nat : l = Len(p)
  BY SequenceFacts
<1>3. ~(d < e)
  <2> SUFFICES ASSUME d < e PROVE FALSE
    OBVIOUS
  <2>1. d + 1 \in 1 .. e /\ d < Len(p)
    BY <1>1, <1>2
  <2> QED
    BY <1>1, <2>1 DEF IsDots
<1>4. ~(e < d)
  <2> SUFFICES ASSUME e < d PROVE FALSE
    OBVIOUS
  <2>1. e + 1 \in 1 .. d /\ e < Len(p)
    BY <1>1, <1>2
  <2> QED
    BY <1>1, <2>1 DEF IsDots
<1> QED
  BY <1>1, <1>2, <1>3, <1>4

LEMMA BareItself ==
    ASSUME NEW p, IsSequence(p), IsBare(p)
    PROVE  Bare(p) = p
<1>1. PICK l \in Nat : l = Len(p)
  BY SequenceFacts
<1>2. 0 \in 0 .. Len(p) /\ IsDots(p, 0)
  <2>1. 0 < Len(p) => ~NoToken(p[0 + 1])
    BY <1>1, SequenceFacts DEF IsBare
  <2> QED
    BY <1>1, <2>1 DEF IsDots
<1>3. Dots(p) = 0
  BY <1>2, OnlyDots
<1>4. Dots(p) + 1 = 1
  BY <1>3
<1>5. Bare(p) = SubSeq(p, 1, Len(p))
  BY <1>4 DEF Bare
<1> QED
  BY <1>5, SubSeqFull DEF IsSequence

LEMMA BareFacts ==
    ASSUME NEW p, IsSequence(p)
    PROVE  /\ IsSequence(Bare(p)) /\ IsBare(Bare(p)) /\ Len(Bare(p)) = Len(p) - Dots(p)
           /\ \A k \in 1 .. Len(p) - Dots(p) : Bare(p)[k] = p[Dots(p) + k]
           /\ Bare(Bare(p)) = Bare(p)
<1>1. PICK l \in Nat : l = Len(p)
  BY SequenceFacts
<1>2. PICK d : d = Dots(p) /\ d \in 0 .. l /\ IsDots(p, d)
  BY <1>1, DotsFacts
<1>3. PICK b : b = SubSeq(p, d + 1, l)
  OBVIOUS
<1>4. \A k \in 1 .. l : p[k] \in Range(p)
  BY <1>1, SequenceFacts
<1>5. /\ b \in Seq(Range(p)) /\ Len(b) = l - d
      /\ \A k \in 1 .. l - d : b[k] = p[d + k]
  <2>1. p \in Seq(Range(p)) /\ d + 1 \in 1 .. l + 1 /\ l \in d .. l
    BY <1>2 DEF IsSequence
  <2>2. \A k \in d + 1 .. l : p[k] \in Range(p)
    BY <1>2, <1>4
  <2>3. /\ SubSeq(p, d + 1, l) \in Seq(Range(p))
        /\ Len(SubSeq(p, d + 1, l)) = IF d + 1 <= l THEN l - (d + 1) + 1 ELSE 0
        /\ \A k \in 1 .. l - (d + 1) + 1 : SubSeq(p, d + 1, l)[k] = p[(d + 1) + k - 1]
    BY <1>2, <2>2, SubSeqProperties
  <2>4. Len(b) = l - d
    BY <1>2, <1>3, <2>3
  <2>5. ASSUME NEW k \in 1 .. l - d PROVE b[k] = p[d + k]
    <3>1. k \in 1 .. l - (d + 1) + 1 /\ (d + 1) + k - 1 = d + k
      BY <1>2
    <3> QED
      BY <1>3, <2>3, <3>1
  <2> QED
    BY <1>3, <2>3, <2>4, <2>5
<1>6. IsSequence(b)
  BY <1>5, SeqOfRange DEF IsSequence
<1>7. IsBare(b)
  <2> SUFFICES ASSUME b # <<>> PROVE ~NoToken(b[1])
    BY DEF IsBare
  <2>1. Len(b) # 0
    BY <1>6, SequenceFacts
  <2>2. d < l /\ 1 \in 1 .. l - d
    BY <1>2, <1>5, <2>1
  <2>3. b[1] = p[d + 1]
    BY <1>5, <2>2
  <2> QED
    BY <1>1, <1>2, <2>2, <2>3 DEF IsDots
<1>8. Bare(b) = b
  BY <1>6, <1>7, BareItself
<1> QED
  BY <1>1, <1>2, <1>3, <1>5, <1>6, <1>7, <1>8 DEF Bare

(* A token more behind what a name is without its first dots.              *)
LEMMA BareAppend ==
    ASSUME NEW p, IsSequence(p), Bare(p) # <<>>, NEW x
    PROVE  Bare(Append(p, x)) = Append(Bare(p), x) /\ IsSequence(Append(p, x))
<1>1. PICK l \in Nat : l = Len(p)
  BY SequenceFacts
<1>2. PICK d : d = Dots(p) /\ d \in 0 .. l /\ IsDots(p, d)
  BY <1>1, DotsFacts
<1>3. PICK b : b = Bare(p)
  OBVIOUS
<1>4. IsSequence(b) /\ Len(b) = l - d /\ \A k \in 1 .. l - d : b[k] = p[d + k]
  BY <1>1, <1>2, <1>3, BareFacts
<1>5. d < l
  <2>1. Len(b) # 0
    BY <1>3, <1>4, SequenceFacts
  <2> QED
    BY <1>2, <1>4, <2>1
<1>6. PICK q : q = Append(p, x)
  OBVIOUS
<1>7. IsSequence(q) /\ Len(q) = l + 1 /\ q[l + 1] = x /\ \A k \in 1 .. l : q[k] = p[k]
  BY <1>1, <1>6, AppendFacts
<1>8. Dots(q) = d
  <2>1. \A k \in 1 .. d : NoToken(q[k])
    <3>1. \A k \in 1 .. d : k \in 1 .. l
      BY <1>2
    <3> QED
      BY <1>2, <1>7, <3>1 DEF IsDots
  <2>2. ~NoToken(q[d + 1])
    <3>1. d + 1 \in 1 .. l
      BY <1>2, <1>5
    <3>2. ~NoToken(p[d + 1])
      BY <1>1, <1>2, <1>5 DEF IsDots
    <3> QED
      BY <1>7, <3>1, <3>2
  <2>3. d \in 0 .. Len(q)
    BY <1>2, <1>7
  <2>4. IsDots(q, d)
    BY <2>1, <2>2 DEF IsDots
  <2> QED
    BY <1>7, <2>3, <2>4, OnlyDots
<1>9. PICK c : c = Bare(q)
  OBVIOUS
<1>10. IsSequence(c) /\ Len(c) = (l + 1) - d /\ \A k \in 1 .. (l + 1) - d : c[k] = q[d + k]
  BY <1>7, <1>8, <1>9, BareFacts
<1>11. PICK e : e = Append(b, x)
  OBVIOUS
<1>12. PICK m \in Nat : m = l - d
  BY <1>2
<1>13. IsSequence(e) /\ Len(e) = m + 1 /\ e[m + 1] = x /\ \A k \in 1 .. m : e[k] = b[k]
  BY <1>4, <1>11, <1>12, AppendFacts
<1>14. Len(c) = Len(e)
  BY <1>2, <1>10, <1>12, <1>13
<1>15. ASSUME NEW k \in 1 .. Len(e) PROVE c[k] = e[k]
  <2>1. k \in 1 .. m \/ k = m + 1
    BY <1>13
  <2>2. k \in 1 .. (l + 1) - d
    BY <1>2, <1>12, <1>13
  <2>3. c[k] = q[d + k]
    BY <1>10, <2>2
  <2>4. CASE k = m + 1
    <3>1. d + k = l + 1
      BY <1>2, <1>12, <2>4
    <3> QED
      BY <1>7, <1>13, <2>3, <2>4, <3>1
  <2>5. CASE k \in 1 .. m
    <3>1. d + k \in 1 .. l
      BY <1>2, <1>12, <2>5
    <3> QED
      BY <1>4, <1>7, <1>12, <1>13, <2>3, <2>5, <3>1
  <2> QED
    BY <2>1, <2>4, <2>5
<1> DEFINE S == Range(c) \cup Range(e)
<1>16. c \in Seq(S) /\ e \in Seq(S)
  BY <1>10, <1>13, WiderRange
<1> HIDE DEF S
<1>17. c = e
  BY <1>14, <1>15, <1>16, SeqEqual
<1> QED
  BY <1>3, <1>6, <1>7, <1>9, <1>11, <1>17

-----------------------------------------------------------------------------
(***************************************************************************)
(* The walk, place by place.                                               *)
(***************************************************************************)
WalkUpTo(p, n, w) ==
    /\ w = [k \in 0 .. n |-> w[k]]
    /\ w[0] = WalkBegins
    /\ \A k \in 1 .. n : w[k] = WalkToken(w[k - 1], p[k])

LEMMA WalkExists ==
    ASSUME NEW p, NEW n \in Nat
    PROVE  \E w : WalkUpTo(p, n, w)
<1> DEFINE T == {m \in Nat : \E w : WalkUpTo(p, m, w)}
<1>1. 0 \in T
  <2> DEFINE w == [k \in 0 .. 0 |-> WalkBegins]
  <2>1. WalkUpTo(p, 0, w)
    BY DEF WalkUpTo
  <2> QED
    BY <2>1
<1>2. ASSUME NEW m \in Nat, m \in T PROVE m + 1 \in T
  <2>1. PICK w : WalkUpTo(p, m, w)
    BY <1>2
  <2> DEFINE v == [k \in 0 .. m + 1 |-> IF k = m + 1 THEN WalkToken(w[m], p[m + 1]) ELSE w[k]]
  <2>2. v[0] = WalkBegins /\ v = [k \in 0 .. m + 1 |-> v[k]]
    BY <2>1 DEF WalkUpTo
  <2>3. ASSUME NEW k \in 1 .. m + 1 PROVE v[k] = WalkToken(v[k - 1], p[k])
    <3>1. v[k - 1] = w[k - 1]
      OBVIOUS
    <3>2. CASE k = m + 1
      BY <3>1, <3>2
    <3>3. CASE k \in 1 .. m
      <4>1. v[k] = w[k]
        BY <3>3
      <4>2. w[k] = WalkToken(w[k - 1], p[k])
        BY <2>1, <3>3 DEF WalkUpTo
      <4> HIDE DEF v
      <4> QED
        BY <3>1, <4>1, <4>2
    <3> QED
      BY <3>2, <3>3
  <2> HIDE DEF v
  <2>4. WalkUpTo(p, m + 1, v)
    BY <2>2, <2>3 DEF WalkUpTo
  <2> QED
    BY <2>4
<1> HIDE DEF T
<1>3. n \in T
  BY <1>1, <1>2, AllNumbers
<1> QED
  BY <1>3 DEF T

(* There is one walk, and Walk gives its end.                              *)
LEMMA WalkEnds ==
    ASSUME NEW p, IsSequence(p), NEW w, WalkUpTo(p, Len(p), w)
    PROVE  Walk(p) = w[Len(p)]
<1> DEFINE D == Beginnings(p)
           Equation(v) == v = [s \in D |-> IF s = <<>> THEN {WalkBegins}
                                           ELSE {WalkToken(x, Last(s)) : x \in v[Front(s)]}]
           f == [s \in D |-> {w[Len(s)]}]
           g == CHOOSE v : Equation(v)
<1>1. Len(p) \in Nat
  BY SequenceFacts
<1>2. ASSUME NEW k \in 0 .. Len(p)
      PROVE  SubSeq(p, 1, k) \in D
  BY DEF Beginnings
<1>3. ASSUME NEW s \in D
      PROVE  \E k \in 0 .. Len(p) : s = SubSeq(p, 1, k)
  BY DEF Beginnings
<1> HIDE DEF D
<1>4. Equation(f)
  <2>1. ASSUME NEW s \in D
        PROVE  f[s] = IF s = <<>> THEN {WalkBegins}
                      ELSE {WalkToken(x, Last(s)) : x \in f[Front(s)]}
    <3>1. PICK k \in 0 .. Len(p) : s = SubSeq(p, 1, k)
      BY <1>3
    <3>2. /\ Len(s) = k /\ (s = <<>> <=> k = 0)
          /\ k # 0 => Last(s) = p[k] /\ Front(s) = SubSeq(p, 1, k - 1)
      BY <3>1, BeginningFacts
    <3>3. CASE k = 0
      BY <3>2, <3>3 DEF WalkUpTo
    <3>4. CASE k # 0
      <4>1. k - 1 \in 0 .. Len(p) /\ k \in 1 .. Len(p)
        BY <1>1, <3>4
      <4>2. Front(s) \in D /\ Len(Front(s)) = k - 1
        BY <1>2, <3>2, <3>4, <4>1, BeginningFacts, ZenonT(40)
      <4>3. f[Front(s)] = {w[k - 1]} /\ f[s] = {w[k]}
        BY <3>2, <4>2
      <4>4. w[k] = WalkToken(w[k - 1], p[k])
        BY <4>1 DEF WalkUpTo
      <4> HIDE DEF f
      <4> QED
        BY <3>2, <3>4, <4>3, <4>4
    <3> QED
      BY <3>3, <3>4
  <2> QED
    BY <2>1
<1>5. Equation(g)
  <2> HIDE DEF Equation, f
  <2> QED
    BY <1>4
<1>6. Walk(p) = CHOOSE x \in g[p] : TRUE
  BY DEF Walk, D
<1> HIDE DEF g, f
<1> DEFINE T == {k \in Nat : k <= Len(p) => g[SubSeq(p, 1, k)] = {w[k]}}
<1>7. 0 \in T
  <2>1. SubSeq(p, 1, 0) \in D /\ SubSeq(p, 1, 0) = <<>>
    BY <1>1, <1>2, BeginningFacts
  <2>2. g[SubSeq(p, 1, 0)] = {WalkBegins}
    BY <1>5, <2>1
  <2> QED
    BY <2>2 DEF WalkUpTo
<1>8. ASSUME NEW k \in Nat, k \in T PROVE k + 1 \in T
  <2> SUFFICES ASSUME k + 1 <= Len(p) PROVE g[SubSeq(p, 1, k + 1)] = {w[k + 1]}
    BY DEF T
  <2>1. k + 1 \in 0 .. Len(p) /\ k + 1 # 0 /\ k + 1 \in 1 .. Len(p) /\ (k + 1) - 1 = k
    BY <1>1
  <2>2. /\ SubSeq(p, 1, k + 1) \in D /\ SubSeq(p, 1, k + 1) # <<>>
        /\ Last(SubSeq(p, 1, k + 1)) = p[k + 1]
        /\ Front(SubSeq(p, 1, k + 1)) = SubSeq(p, 1, k)
    BY <1>2, <2>1, BeginningFacts
  <2>3. g[SubSeq(p, 1, k)] = {w[k]}
    BY <1>1, <1>8 DEF T
  <2>4. g[SubSeq(p, 1, k + 1)] = {WalkToken(x, p[k + 1]) : x \in g[SubSeq(p, 1, k)]}
    <3>1. \A s \in D : s # <<>> => g[s] = {WalkToken(x, Last(s)) : x \in g[Front(s)]}
      BY <1>5, Zenon
    <3>2. PICK s \in D : s = SubSeq(p, 1, k + 1)
      BY <2>2
    <3>3. g[s] = {WalkToken(x, Last(s)) : x \in g[Front(s)]}
      BY <2>2, <3>1, <3>2
    <3> QED
      BY <2>2, <3>2, <3>3, Zenon
  <2>5. w[k + 1] = WalkToken(w[k], p[k + 1])
    BY <2>1 DEF WalkUpTo
  <2> QED
    BY <2>3, <2>4, <2>5
<1> HIDE DEF T
<1>9. Len(p) \in T
  BY <1>1, <1>7, <1>8, AllNumbers
<1>10. g[p] = {w[Len(p)]}
  <2>1. SubSeq(p, 1, Len(p)) = p
    BY SubSeqFull DEF IsSequence
  <2>2. g[SubSeq(p, 1, Len(p))] = {w[Len(p)]}
    BY <1>1, <1>9 DEF T
  <2> QED
    BY <2>1, <2>2
<1> QED
  BY <1>6, <1>10

-----------------------------------------------------------------------------
(***************************************************************************)
(* What the database holds, once a file is loaded.                         *)
(***************************************************************************)
ObjectsInv ==
    \A n \in DOMAIN model_db : model_db[n] \in Files \ {NotJson} /\ model_db[n].name = n

LEMMA ObjectFacts ==
    ASSUME ObjectsInv, NEW n \in DOMAIN model_db
    PROVE  /\ IsSequence(n) /\ n \in Seq(STRING) /\ Len(n) \in Nat /\ Len(n) > 1 /\ n # NoProvider
           /\ model_db[n].isList \in BOOLEAN
<1>1. n \in Seq(STRING) /\ Len(n) > 1 /\ model_db[n].isList \in BOOLEAN
  BY FilesAssumption DEF ObjectsInv
<1>2. IsSequence(n)
  BY <1>1, SeqOfRange DEF IsSequence
<1> QED
  BY <1>1, <1>2, SequenceFacts DEF NoProvider

-----------------------------------------------------------------------------
(***************************************************************************)
(* Where the tokens of an object's name stand in the name of an instance.  *)
(***************************************************************************)
ListsBefore(n, k) == {j \in 1 .. k - 1 : IsListName(SubSeq(n, 1, j))}

LEMMA PlaceFacts ==
    ASSUME NEW n, NEW k \in Nat \ {0}
    PROVE  /\ IsFiniteSet(ListsBefore(n, k)) /\ Cardinality(ListsBefore(n, k)) \in Nat
           /\ Place(n, k) = k + Cardinality(ListsBefore(n, k))
           /\ Place(n, k) \in Nat /\ k <= Place(n, k)
<1>1. IsFiniteSet(1 .. k - 1)
  BY FS_Interval
<1>2. ListsBefore(n, k) \in SUBSET (1 .. k - 1)
  BY DEF ListsBefore
<1>3. IsFiniteSet(ListsBefore(n, k))
  BY <1>1, <1>2, FS_Subset
<1>4. Cardinality(ListsBefore(n, k)) \in Nat
  BY <1>3, FS_CardinalityType
<1>5. Place(n, k) = k + Cardinality(ListsBefore(n, k))
  BY DEF Place, ListsBefore
<1> QED
  BY <1>3, <1>4, <1>5

LEMMA FirstPlace == ASSUME NEW n PROVE Place(n, 1) = 1
<1>1. ListsBefore(n, 1) = {}
  BY DEF ListsBefore
<1> QED
  BY <1>1, PlaceFacts, FS_EmptySet

LEMMA NextPlace ==
    ASSUME NEW n, NEW k \in Nat \ {0}
    PROVE  Place(n, k + 1) = Place(n, k) + (IF IsListName(SubSeq(n, 1, k)) THEN 2 ELSE 1)
<1>1. k \notin ListsBefore(n, k)
  BY DEF ListsBefore
<1>2. ListsBefore(n, k + 1) =
        IF IsListName(SubSeq(n, 1, k)) THEN ListsBefore(n, k) \cup {k} ELSE ListsBefore(n, k)
  BY DEF ListsBefore
<1>3. /\ IsFiniteSet(ListsBefore(n, k)) /\ Cardinality(ListsBefore(n, k)) \in Nat
      /\ Place(n, k) = k + Cardinality(ListsBefore(n, k))
      /\ Place(n, k + 1) = k + 1 + Cardinality(ListsBefore(n, k + 1))
  BY PlaceFacts
<1>4. Cardinality(ListsBefore(n, k) \cup {k}) = Cardinality(ListsBefore(n, k)) + 1
  BY <1>1, <1>3, FS_AddElement
<1> QED
  BY <1>2, <1>3, <1>4

LEMMA LaterPlace ==
    ASSUME NEW n, NEW k \in Nat \ {0}, NEW l \in Nat, k <= l
    PROVE  Place(n, k) <= Place(n, l)
<1>1. ListsBefore(n, k) \in SUBSET ListsBefore(n, l)
  BY DEF ListsBefore
<1>2. l \in Nat \ {0}
  OBVIOUS
<1>3. /\ IsFiniteSet(ListsBefore(n, l)) /\ Cardinality(ListsBefore(n, l)) \in Nat
      /\ Place(n, l) = l + Cardinality(ListsBefore(n, l))
      /\ Place(n, k) = k + Cardinality(ListsBefore(n, k))
      /\ Cardinality(ListsBefore(n, k)) \in Nat
  BY <1>2, PlaceFacts
<1>4. Cardinality(ListsBefore(n, k)) <= Cardinality(ListsBefore(n, l))
  BY <1>1, <1>3, FS_Subset
<1> QED
  BY <1>3, <1>4

(* The place depends on the tokens before alone.                           *)
LEMMA SamePlace ==
    ASSUME NEW n, NEW o, NEW k \in Nat \ {0},
           \A j \in 1 .. k - 1 : SubSeq(n, 1, j) = SubSeq(o, 1, j)
    PROVE  Place(n, k) = Place(o, k)
<1>1. ListsBefore(n, k) = ListsBefore(o, k)
  BY DEF ListsBefore
<1> QED
  BY <1>1, PlaceFacts

-----------------------------------------------------------------------------
(***************************************************************************)
(* One token of the walk.                                                  *)
(***************************************************************************)
WalkStates(p) ==
    [full : Seq(Range(p)), provider : Seq(Range(p)), isList : BOOLEAN,
     isListItem : BOOLEAN, failed : BOOLEAN]

(* From the place v the walk takes the token to the place x.               *)
Takes(v, token, x) ==
    LET full == Lengthen(v.full, token) IN
    /\ v.failed => x.failed
    /\ ~v.failed /\ v.isList =>
        /\ x.full = v.full /\ x.provider = v.provider
        /\ ~x.isList /\ x.isListItem /\ ~x.failed
    /\ ~v.failed /\ ~v.isList =>
        /\ x.full = full /\ ~x.isListItem
        /\ full \in DOMAIN model_db =>
            x.provider = full /\ x.isList = model_db[full].isList /\ ~x.failed
        /\ full \notin DOMAIN model_db =>
            x.provider = v.provider /\ ~x.isList /\ (x.failed <=> v.provider # NoProvider)

LEMMA OneToken ==
    ASSUME ObjectsInv, NEW p, IsSequence(p), NEW w \in WalkStates(p), NEW token \in Range(p)
    PROVE  WalkToken(w, token) \in WalkStates(p) /\ Takes(w, token, WalkToken(w, token))
<1> DEFINE full == Lengthen(w.full, token)
<1>1. full \in Seq(Range(p))
  BY AppendProperties DEF WalkStates, Lengthen
<1>2. full \in DOMAIN model_db => model_db[full].isList \in BOOLEAN
  BY ObjectFacts
<1>3. CASE w.failed
  <2>1. WalkToken(w, token) = w
    BY <1>3 DEF WalkToken
  <2> QED
    BY <1>3, <2>1 DEF Takes
<1>4. CASE ~w.failed /\ w.isList
  <2>1. WalkToken(w, token) = [w EXCEPT !.isList = FALSE, !.isListItem = TRUE]
    BY <1>4 DEF WalkToken
  <2> QED
    BY <1>4, <2>1 DEF WalkStates, Takes
<1>5. CASE ~w.failed /\ ~w.isList /\ full \in DOMAIN model_db
  <2>1. WalkToken(w, token) =
            [w EXCEPT !.full = full, !.provider = full, !.isListItem = FALSE,
                      !.isList = model_db[full].isList]
    BY <1>5 DEF WalkToken
  <2> HIDE DEF full
  <2>2. WalkToken(w, token) =
            [full |-> full, provider |-> full, isList |-> model_db[full].isList,
             isListItem |-> FALSE, failed |-> FALSE]
    BY <1>5, <2>1 DEF WalkStates
  <2>3. WalkToken(w, token) \in WalkStates(p)
    BY <1>1, <1>2, <1>5, <2>2 DEF WalkStates
  <2> QED
    BY <1>5, <2>2, <2>3 DEF full, Takes
<1>6. CASE ~w.failed /\ ~w.isList /\ full \notin DOMAIN model_db
  <2>1. WalkToken(w, token) =
            [w EXCEPT !.full = full, !.isListItem = FALSE, !.failed = (w.provider # NoProvider)]
    BY <1>6 DEF WalkToken
  <2> HIDE DEF full
  <2>2. /\ WalkToken(w, token).full = full /\ WalkToken(w, token).provider = w.provider
        /\ ~WalkToken(w, token).isList /\ ~WalkToken(w, token).isListItem
        /\ WalkToken(w, token).failed = (w.provider # NoProvider)
        /\ WalkToken(w, token) \in WalkStates(p)
    BY <1>1, <1>6, <2>1 DEF WalkStates
  <2> QED
    BY <1>6, <2>2 DEF full, Takes
<1> QED
  BY <1>3, <1>4, <1>5, <1>6

LEMMA WalkTyped ==
    ASSUME ObjectsInv, NEW p, IsSequence(p), NEW w, WalkUpTo(p, Len(p), w)
    PROVE  \A k \in 0 .. Len(p) : w[k] \in WalkStates(p)
<1> DEFINE T == {k \in Nat : k <= Len(p) => w[k] \in WalkStates(p)}
<1>1. Len(p) \in Nat /\ \A k \in 1 .. Len(p) : p[k] \in Range(p)
  BY SequenceFacts
<1>2. 0 \in T
  <2>1. w[0] = WalkBegins
    BY DEF WalkUpTo
  <2>2. <<>> \in Seq(Range(p))
    OBVIOUS
  <2>3. WalkBegins \in WalkStates(p)
    BY <2>2 DEF WalkStates, WalkBegins, NoProvider
  <2> QED
    BY <2>1, <2>3
<1>3. ASSUME NEW k \in Nat, k \in T PROVE k + 1 \in T
  <2> SUFFICES ASSUME k + 1 <= Len(p) PROVE w[k + 1] \in WalkStates(p)
    BY DEF T
  <2>1. w[k] \in WalkStates(p)
    BY <1>1, <1>3
  <2>2. k + 1 \in 1 .. Len(p) /\ (k + 1) - 1 = k
    BY <1>1
  <2>3. w[k + 1] = WalkToken(w[k], p[k + 1]) /\ p[k + 1] \in Range(p)
    BY <1>1, <2>2 DEF WalkUpTo
  <2>4. WalkToken(w[k], p[k + 1]) \in WalkStates(p)
    BY <2>1, <2>3, OneToken
  <2> QED
    BY <2>3, <2>4
<1> HIDE DEF T
<1>4. Nat \subseteq T
  BY <1>2, <1>3, AllNumbers
<1> QED
  BY <1>1, <1>4 DEF T

LEMMA NextToken ==
    ASSUME ObjectsInv, NEW p, IsSequence(p), NEW w, WalkUpTo(p, Len(p), w), NEW k \in 1 .. Len(p)
    PROVE  w[k - 1] \in WalkStates(p) /\ w[k] \in WalkStates(p) /\ Takes(w[k - 1], p[k], w[k])
<1>1. Len(p) \in Nat /\ p[k] \in Range(p) /\ k - 1 \in 0 .. Len(p)
  BY SequenceFacts
<1>2. w[k - 1] \in WalkStates(p)
  BY <1>1, WalkTyped
<1>3. w[k] = WalkToken(w[k - 1], p[k])
  BY DEF WalkUpTo
<1>4. WalkToken(w[k - 1], p[k]) \in WalkStates(p) /\ Takes(w[k - 1], p[k], WalkToken(w[k - 1], p[k]))
  BY <1>1, <1>2, OneToken
<1> QED
  BY <1>2, <1>3, <1>4

-----------------------------------------------------------------------------
(***************************************************************************)
(* An object that is named is found.                                       *)
(***************************************************************************)
Provided(n) == IF n \in DOMAIN model_db THEN n ELSE NoProvider

(* The walk behind the m-th token of the name n, and before the next.      *)
Stands(x, n, m) ==
    /\ ~x.failed /\ ~x.isListItem
    /\ x.full = SubSeq(n, 1, m) /\ x.provider = Provided(SubSeq(n, 1, m))
    /\ x.isList <=> IsListName(SubSeq(n, 1, m))

Ready(x, n, m) ==
    /\ ~x.failed /\ ~x.isList /\ x.full = SubSeq(n, 1, m)
    /\ x.provider = IF m = 0 THEN NoProvider ELSE Provided(SubSeq(n, 1, m))

LEMMA OnTheWay ==
    ASSUME ObjectsInv, NEW p, IsSequence(p), NEW w, WalkUpTo(p, Len(p), w),
           NEW n \in DOMAIN model_db, NoGap(n), NEW m \in 0 .. Len(n) - 1, NEW k \in 1 .. Len(p),
           p[k] = n[m + 1], Ready(w[k - 1], n, m), ~NoToken(n[1])
    PROVE  Stands(w[k], n, m + 1)
<1> DEFINE full == SubSeq(n, 1, m + 1)
<1>1. IsSequence(n) /\ Len(n) \in Nat /\ DOMAIN n = 1 .. Len(n)
  BY ObjectFacts, SequenceFacts
<1>2. m + 1 \in 0 .. Len(n) /\ m + 1 # 0 /\ (m + 1) - 1 = m
  BY <1>1
<1>3. full = Append(SubSeq(n, 1, m), n[m + 1])
  BY <1>1, <1>2, BeginningFacts
<1>4. full = Lengthen(w[k - 1].full, p[k])
  <2>1. w[k - 1].full = <<>> <=> m = 0
    <3>1. m \in 0 .. Len(n) /\ w[k - 1].full = SubSeq(n, 1, m)
      BY <1>1 DEF Ready
    <3> QED
      BY <1>1, <3>1, BeginningFacts
  <2>2. ~(w[k - 1].full = <<>> /\ NoToken(p[k]))
    <3>1. m = 0 => p[k] = n[1]
      OBVIOUS
    <3> QED
      BY <2>1, <3>1
  <2>3. full = Append(w[k - 1].full, p[k])
    BY <1>3 DEF Ready
  <2> QED
    BY <2>2, <2>3 DEF Lengthen, NoToken
<1>5. full \notin DOMAIN model_db => w[k - 1].provider = NoProvider
  <2> SUFFICES ASSUME full \notin DOMAIN model_db, m # 0, SubSeq(n, 1, m) \in DOMAIN model_db
               PROVE  FALSE
    BY DEF Provided, Ready
  <2>1. m \in DOMAIN n /\ m + 1 \in DOMAIN n /\ m < m + 1
    BY <1>1
  <2> QED
    BY <2>1 DEF NoGap
<1> HIDE DEF full
<1>6. /\ w[k].full = full /\ ~w[k].isListItem
      /\ full \in DOMAIN model_db =>
            w[k].provider = full /\ w[k].isList = model_db[full].isList /\ ~w[k].failed
      /\ full \notin DOMAIN model_db =>
            w[k].provider = NoProvider /\ ~w[k].isList /\ ~w[k].failed
  <2>1. Takes(w[k - 1], p[k], w[k])
    BY NextToken
  <2> QED
    BY <1>4, <1>5, <2>1 DEF Takes, Ready
<1> QED
  BY <1>6 DEF full, Provided, IsListName, Stands

LEMMA WalkReaches ==
    ASSUME ObjectsInv, NEW p, IsSequence(p), IsBare(p), NEW w, WalkUpTo(p, Len(p), w),
           NEW n \in DOMAIN model_db, IsNamed(p, n)
    PROVE  \A m \in 1 .. Len(n) : Stands(w[Place(n, m)], n, m)
<1>1. /\ IsSequence(n) /\ Len(n) \in Nat /\ DOMAIN n = 1 .. Len(n) /\ Len(n) > 1
      /\ Len(p) \in Nat /\ NoGap(n)
  BY ObjectFacts, SequenceFacts DEF IsNamed
<1>2. ASSUME NEW m \in 1 .. Len(n)
      PROVE  Place(n, m) \in 1 .. Len(p) /\ p[Place(n, m)] = n[m]
  <2>1. End(n) \in Nat /\ Place(n, m) \in Nat /\ m <= Place(n, m) /\ Place(n, m) <= End(n)
    BY <1>1, PlaceFacts, LaterPlace DEF End
  <2>2. End(n) <= Len(p)
    BY <1>1, <2>1 DEF IsNamed
  <2> QED
    BY <1>1, <2>1, <2>2 DEF IsNamed
<1>0. ~NoToken(n[1])
  <2>1. Place(n, 1) = 1 /\ 1 \in 1 .. Len(n)
    BY <1>1, FirstPlace
  <2>2. p[1] = n[1] /\ p # <<>>
    BY <1>1, <1>2, <2>1, SequenceFacts
  <2> QED
    BY <2>2 DEF IsBare
<1> DEFINE T == {m \in Nat : m + 1 <= Len(n) => Stands(w[Place(n, m + 1)], n, m + 1)}
<1>3. 0 \in T
  <2>1. Place(n, 1) = 1
    BY FirstPlace
  <2>2. 1 \in 1 .. Len(p) /\ p[1] = n[1] /\ 0 \in 0 .. Len(n) - 1 /\ 1 - 1 = 0 /\ 0 + 1 = 1
    BY <1>1, <1>2, <2>1
  <2>3. SubSeq(n, 1, 0) = <<>>
    BY <1>1, BeginningFacts
  <2>4. w[0] = WalkBegins
    BY DEF WalkUpTo
  <2>5. Ready(w[0], n, 0)
    BY <2>3, <2>4 DEF WalkBegins, Ready
  <2>6. Stands(w[1], n, 1)
    BY <1>0, <1>1, <2>2, <2>5, OnTheWay
  <2> QED
    BY <2>1, <2>6
<1>4. ASSUME NEW m \in Nat, m \in T PROVE m + 1 \in T
  <2> SUFFICES ASSUME (m + 1) + 1 <= Len(n) PROVE Stands(w[Place(n, (m + 1) + 1)], n, (m + 1) + 1)
    BY DEF T
  <2> DEFINE l == m + 1
             k == Place(n, l)
  <2>1. l \in 1 .. Len(n) /\ l + 1 \in 1 .. Len(n) /\ l \in Nat \ {0} /\ l # 0 /\ l \in 0 .. Len(n) - 1
    BY <1>1
  <2>2. Stands(w[Place(n, l)], n, l)
    BY <1>1, <1>4
  <2>3. k \in 1 .. Len(p) /\ Place(n, l + 1) \in 1 .. Len(p) /\ p[Place(n, l + 1)] = n[l + 1]
    BY <1>2, <2>1
  <2>4. Place(n, l + 1) = k + (IF IsListName(SubSeq(n, 1, l)) THEN 2 ELSE 1)
    BY <2>1, NextPlace
  <2>5. /\ ~w[k].failed /\ ~w[k].isListItem /\ w[k].full = SubSeq(n, 1, l)
        /\ w[k].provider = Provided(SubSeq(n, 1, l))
        /\ w[k].isList <=> IsListName(SubSeq(n, 1, l))
    BY <2>2 DEF Stands
  <2> HIDE DEF l, k
  <2> SUFFICES Ready(w[Place(n, l + 1) - 1], n, l)
    <3>1. Stands(w[Place(n, l + 1)], n, l + 1)
      BY <1>0, <1>1, <2>1, <2>3, OnTheWay
    <3> QED
      BY <3>1 DEF l
  <2>6. CASE ~IsListName(SubSeq(n, 1, l))
    <3>1. Place(n, l + 1) - 1 = k
      BY <2>3, <2>4, <2>6
    <3> QED
      BY <2>1, <2>5, <2>6, <3>1 DEF Ready
  <2>7. CASE IsListName(SubSeq(n, 1, l))
    <3>1. Place(n, l + 1) - 1 = k + 1 /\ k + 1 \in 1 .. Len(p) /\ (k + 1) - 1 = k
      BY <1>1, <2>3, <2>4, <2>7
    <3>2. /\ w[k + 1].full = w[k].full /\ w[k + 1].provider = w[k].provider
          /\ ~w[k + 1].isList /\ w[k + 1].isListItem /\ ~w[k + 1].failed
      <4>1. Takes(w[k], p[k + 1], w[k + 1])
        BY <3>1, NextToken
      <4> QED
        BY <2>5, <2>7, <4>1 DEF Takes
    <3> QED
      BY <2>1, <2>5, <3>1, <3>2 DEF Ready
  <2> QED
    BY <2>6, <2>7
<1> HIDE DEF T
<1>5. Nat \subseteq T
  BY <1>3, <1>4, AllNumbers
<1> SUFFICES ASSUME NEW m \in 1 .. Len(n) PROVE Stands(w[Place(n, m)], n, m)
  OBVIOUS
<1>6. m - 1 \in Nat /\ (m - 1) + 1 = m
  BY <1>1
<1>7. \A k \in T : k + 1 <= Len(n) => Stands(w[Place(n, k + 1)], n, k + 1)
  BY DEF T
<1>8. PICK k \in T : k + 1 = m
  BY <1>5, <1>6
<1>9. Stands(w[Place(n, k + 1)], n, k + 1)
  BY <1>1, <1>7, <1>8
<1> QED
  BY <1>8, <1>9

LEMMA WalkFinds ==
    ASSUME ObjectsInv, NEW p, IsSequence(p), IsBare(p), NEW n \in DOMAIN model_db, IsNamed(p, n)
    PROVE  /\ ~Walk(p).failed /\ Walk(p).provider = n
           /\ Walk(p).isListItem <=> Len(p) = End(n) + 1
<1>1. /\ IsSequence(n) /\ Len(n) \in Nat /\ Len(n) \in 1 .. Len(n) /\ Len(p) \in Nat /\ n \in Seq(Range(n))
      /\ Len(n) \in Nat \ {0}
  BY ObjectFacts, SequenceFacts DEF IsSequence
<1>2. PICK w : WalkUpTo(p, Len(p), w)
  BY <1>1, WalkExists
<1>3. Walk(p) = w[Len(p)]
  BY <1>2, WalkEnds
<1>4. Stands(w[Place(n, Len(n))], n, Len(n)) /\ SubSeq(n, 1, Len(n)) = n
  BY <1>1, <1>2, WalkReaches, SubSeqFull
<1>5. /\ ~w[End(n)].failed /\ ~w[End(n)].isListItem /\ w[End(n)].provider = n
      /\ w[End(n)].isList <=> IsListName(n)
  BY <1>4 DEF Stands, End, Provided
<1>6. End(n) \in Nat
  BY <1>1, PlaceFacts DEF End
<1>7. CASE Len(p) = End(n)
  BY <1>3, <1>5, <1>6, <1>7
<1>8. CASE IsListName(n) /\ Len(p) = End(n) + 1
  <2>1. Len(p) \in 1 .. Len(p) /\ Len(p) - 1 = End(n)
    BY <1>6, <1>8
  <2>2. w[Len(p)].provider = n /\ w[Len(p)].isListItem /\ ~w[Len(p)].failed
    <3>1. Takes(w[End(n)], p[Len(p)], w[Len(p)])
      BY <1>2, <2>1, NextToken
    <3> QED
      BY <1>5, <1>8, <3>1 DEF Takes
  <2> QED
    BY <1>3, <1>8, <2>2
<1> QED
  BY <1>7, <1>8 DEF IsNamed

-----------------------------------------------------------------------------
(***************************************************************************)
(* What is found is named.                                                 *)
(***************************************************************************)

(* The walk behind k tokens of p has found nothing so far, or the object    *)
(* whose name or instance the k tokens are.                                *)
Nothing(x, p, k) ==
    /\ x.provider = NoProvider /\ ~x.isList /\ x.full = SubSeq(p, 1, k)
    /\ \A j \in 1 .. k : SubSeq(p, 1, j) \notin DOMAIN model_db

Something(x, p, k) ==
    LET f == x.full IN
    /\ x.provider = f /\ f \in DOMAIN model_db
    /\ NoGap(f)
    /\ \A j \in DOMAIN f : p[Place(f, j)] = f[j]
    /\ \/ k = End(f) /\ ~x.isListItem /\ (x.isList <=> IsListName(f))
       \/ k = End(f) + 1 /\ x.isListItem /\ IsListName(f) /\ ~x.isList

LEMMA FirstFound ==
    ASSUME ObjectsInv, NEW p, IsSequence(p), NEW k \in 1 .. Len(p), NEW x,
           \A j \in 1 .. k - 1 : SubSeq(p, 1, j) \notin DOMAIN model_db,
           SubSeq(p, 1, k) \in DOMAIN model_db,
           x.full = SubSeq(p, 1, k), x.provider = SubSeq(p, 1, k), ~x.isListItem,
           x.isList = model_db[SubSeq(p, 1, k)].isList
    PROVE  Something(x, p, k)
<1> DEFINE f == SubSeq(p, 1, k)
<1>1. Len(p) \in Nat /\ k \in 0 .. Len(p) /\ p \in Seq(Range(p))
  BY SequenceFacts DEF IsSequence
<1>2. Len(f) = k /\ DOMAIN f = 1 .. k /\ \A i \in 1 .. k : f[i] = p[i]
  <2>1. f \in Seq(Range(p)) /\ Len(f) = k
    BY <1>1, BeginningFacts
  <2> QED
    BY <1>1, <2>1, BeginningFacts
<1>3. ASSUME NEW j \in 1 .. k PROVE SubSeq(f, 1, j) = SubSeq(p, 1, j)
  <2>1. IsSequence(f) /\ f \in Seq(Range(p)) /\ Len(f) = k
    BY <1>1, <1>2, BeginningFacts, ObjectFacts
  <2>2. j \in 0 .. Len(f) /\ j \in 0 .. Len(p)
    BY <1>1, <2>1
  <2>3. /\ Len(SubSeq(f, 1, j)) = j /\ SubSeq(f, 1, j) \in Seq(Range(p))
        /\ \A i \in 1 .. j : SubSeq(f, 1, j)[i] = f[i]
        /\ Len(SubSeq(p, 1, j)) = j /\ SubSeq(p, 1, j) \in Seq(Range(p))
        /\ \A i \in 1 .. j : SubSeq(p, 1, j)[i] = p[i]
    <3> HIDE DEF f
    <3> QED
      BY <2>1, <2>2, BeginningFacts, SubSeqProperties
  <2>4. \A i \in 1 .. j : SubSeq(f, 1, j)[i] = SubSeq(p, 1, j)[i]
    BY <1>2, <2>3
  <2> HIDE DEF f
  <2> QED
    BY <2>3, <2>4, SeqEqual
<1>4. ASSUME NEW j \in 1 .. k PROVE Place(f, j) = j
  <2>1. ListsBefore(f, j) = {}
    <3>1. ASSUME NEW i \in 1 .. j - 1 PROVE ~IsListName(SubSeq(f, 1, i))
      <4>1. i \in 1 .. k /\ i \in 1 .. k - 1
        BY <1>1
      <4>2. SubSeq(f, 1, i) = SubSeq(p, 1, i)
        BY <1>3, <4>1
      <4> QED
        BY <4>1, <4>2 DEF IsListName
    <3> QED
      BY <3>1 DEF ListsBefore
  <2>2. j \in Nat \ {0}
    OBVIOUS
  <2> QED
    BY <2>1, <2>2, PlaceFacts, FS_EmptySet
<1> HIDE DEF f
<1>5. NoGap(f)
  <2> SUFFICES ASSUME NEW a \in DOMAIN f, NEW b \in DOMAIN f, a < b, SubSeq(f, 1, a) \in DOMAIN model_db
               PROVE  FALSE
    BY DEF NoGap
  <2>1. a \in 1 .. k - 1 /\ a \in 1 .. k
    BY <1>2
  <2> QED
    BY <1>3, <2>1
<1>6. \A j \in DOMAIN f : p[Place(f, j)] = f[j]
  BY <1>2, <1>4
<1>7. k = End(f)
  BY <1>2, <1>4 DEF End
<1>8. x.full = f /\ x.provider = f /\ f \in DOMAIN model_db /\ (x.isList <=> IsListName(f))
  BY DEF f, IsListName
<1> QED
  BY <1>5, <1>6, <1>7, <1>8 DEF Something

LEMMA NextFound ==
    ASSUME ObjectsInv, NEW p, IsSequence(p), NEW k \in 1 .. Len(p), NEW v, NEW x,
           Something(v, p, k - 1), ~v.isList,
           Append(v.full, p[k]) \in DOMAIN model_db,
           x.full = Append(v.full, p[k]), x.provider = Append(v.full, p[k]), ~x.isListItem,
           x.isList = model_db[Append(v.full, p[k])].isList
    PROVE  Something(x, p, k)
<1> DEFINE f == v.full
           g == Append(v.full, p[k])
           n == Len(f)
<1>1. f \in DOMAIN model_db /\ g \in DOMAIN model_db
  BY DEF Something
<1>2. /\ IsSequence(f) /\ n \in Nat /\ DOMAIN f = 1 .. n /\ f \in Seq(Range(f)) /\ n \in Nat \ {0}
      /\ n \in 1 .. n
  BY <1>1, ObjectFacts, SequenceFacts DEF IsSequence
<1>3. /\ Len(g) = n + 1 /\ DOMAIN g = 1 .. n + 1 /\ g[n + 1] = p[k]
      /\ \A i \in 1 .. n : g[i] = f[i]
  <2>1. f \in Seq(Range(f) \cup {p[k]}) /\ p[k] \in Range(f) \cup {p[k]}
    BY <1>2
  <2>2. Len(g) = n + 1 /\ \A i \in 1 .. n + 1 : g[i] = IF i = n + 1 THEN p[k] ELSE f[i]
    BY <1>2, <2>1, AppendProperties
  <2>3. DOMAIN g = 1 .. Len(g)
    BY <1>1, ObjectFacts, SequenceFacts
  <2> QED
    BY <1>2, <2>2, <2>3
<1> HIDE DEF f, g
<1>4. IsSequence(g)
  BY <1>1, ObjectFacts
<1>5. ASSUME NEW j \in 1 .. n PROVE SubSeq(g, 1, j) = SubSeq(f, 1, j)
  <2>1. j \in 0 .. Len(g) /\ j \in 0 .. Len(f)
    BY <1>2, <1>3 DEF f
  <2>2. /\ Len(SubSeq(g, 1, j)) = j /\ SubSeq(g, 1, j) \in Seq(Range(g))
        /\ \A i \in 1 .. j : SubSeq(g, 1, j)[i] = g[i]
        /\ Len(SubSeq(f, 1, j)) = j /\ SubSeq(f, 1, j) \in Seq(Range(f))
        /\ \A i \in 1 .. j : SubSeq(f, 1, j)[i] = f[i]
    BY <1>2, <1>4, <2>1, BeginningFacts, ZenonT(40)
  <2>3. \A i \in 1 .. j : SubSeq(g, 1, j)[i] = SubSeq(f, 1, j)[i]
    BY <1>2, <1>3, <2>2
  <2> QED
    BY <2>2, <2>3, SeqEqual
<1>6. SubSeq(g, 1, n) = f /\ SubSeq(g, 1, n + 1) = g
  <2>1. SubSeq(f, 1, n) = f
    BY <1>2, SubSeqFull DEF f
  <2>2. SubSeq(g, 1, Len(g)) = g
    BY <1>4, SubSeqFull DEF IsSequence
  <2> QED
    BY <1>2, <1>3, <1>5, <2>1, <2>2
<1>7. ASSUME NEW j \in 1 .. n PROVE Place(g, j) = Place(f, j)
  <2>1. j \in Nat \ {0} /\ \A i \in 1 .. j - 1 : SubSeq(g, 1, i) = SubSeq(f, 1, i)
    BY <1>2, <1>5
  <2> QED
    BY <2>1, SamePlace
<1>8. Place(g, n + 1) = k
  <2>1. Place(g, n + 1) = Place(g, n) + (IF IsListName(f) THEN 2 ELSE 1)
    BY <1>2, <1>6, NextPlace
  <2>2. Place(g, n) = End(f) /\ End(f) \in Nat
    BY <1>2, <1>7, PlaceFacts DEF End, f
  <2>3. \/ k - 1 = End(f) /\ ~IsListName(f)
        \/ k - 1 = End(f) + 1 /\ IsListName(f)
    BY DEF Something, f
  <2>4. k \in Nat
    BY SequenceFacts
  <2> HIDE DEF n
  <2> QED
    BY <2>1, <2>2, <2>3, <2>4
<1>9. NoGap(g)
  <2> SUFFICES ASSUME NEW a \in DOMAIN g, NEW b \in DOMAIN g, a < b, SubSeq(g, 1, a) \in DOMAIN model_db
               PROVE  SubSeq(g, 1, b) \in DOMAIN model_db
    BY DEF NoGap
  <2>1. a \in 1 .. n /\ (b \in 1 .. n \/ b = n + 1)
    BY <1>2, <1>3
  <2>2. CASE b = n + 1
    BY <1>1, <1>6, <2>2
  <2>3. CASE b \in 1 .. n
    <3>1. NoGap(f)
      BY DEF Something, f
    <3>2. SubSeq(f, 1, a) \in DOMAIN model_db
      BY <1>5, <2>1
    <3>3. SubSeq(f, 1, b) \in DOMAIN model_db
      BY <1>2, <2>1, <2>3, <3>1, <3>2 DEF NoGap
    <3> QED
      BY <1>5, <2>3, <3>3
  <2> QED
    BY <2>1, <2>2, <2>3
<1>10. ASSUME NEW j \in DOMAIN g PROVE p[Place(g, j)] = g[j]
  <2>1. CASE j = n + 1
    BY <1>3, <1>8, <2>1
  <2>2. CASE j \in 1 .. n
    <3>1. p[Place(f, j)] = f[j]
      BY <1>2, <2>2 DEF Something, f
    <3> QED
      BY <1>3, <1>7, <2>2, <3>1
  <2> QED
    BY <1>2, <1>3, <2>1, <2>2
<1>11. k = End(g)
  BY <1>3, <1>8 DEF End
<1>12. x.full = g /\ x.provider = g /\ (x.isList <=> IsListName(g))
  BY <1>1 DEF g, IsListName
<1> QED
  BY <1>1, <1>9, <1>10, <1>11, <1>12 DEF Something

LEMMA WalkFound ==
    ASSUME ObjectsInv, NEW p, IsSequence(p), IsBare(p), ~Walk(p).failed
    PROVE  \/ Walk(p).provider = NoProvider
           \/ Walk(p).provider \in DOMAIN model_db /\ IsNamed(p, Walk(p).provider)
<1>1. Len(p) \in Nat
  BY SequenceFacts
<1>2. PICK w : WalkUpTo(p, Len(p), w)
  BY <1>1, WalkExists
<1>3. Walk(p) = w[Len(p)]
  BY <1>2, WalkEnds
<1> DEFINE Good(k) == ~w[k].failed => Nothing(w[k], p, k) \/ Something(w[k], p, k)
           T == {k \in Nat : k <= Len(p) => Good(k)}
<1>4. 0 \in T
  <2>1. w[0] = WalkBegins /\ SubSeq(p, 1, 0) = <<>>
    BY <1>1, <1>2, BeginningFacts DEF WalkUpTo
  <2>2. Nothing(w[0], p, 0)
    BY <2>1 DEF Nothing, WalkBegins
  <2> QED
    BY <2>2
<1>5. ASSUME NEW m \in Nat, m \in T PROVE m + 1 \in T
  <2> SUFFICES ASSUME m + 1 <= Len(p), ~w[m + 1].failed
               PROVE  Nothing(w[m + 1], p, m + 1) \/ Something(w[m + 1], p, m + 1)
    BY DEF T
  <2> DEFINE k == m + 1
             v == w[k - 1]
             x == w[k]
  <2>1. k \in 1 .. Len(p) /\ k - 1 = m /\ k # 0 /\ k \in 0 .. Len(p)
    BY <1>1
  <2>2. Takes(v, p[k], x)
    BY <1>2, <2>1, NextToken
  <2>3. ~v.failed
    BY <2>2 DEF Takes
  <2>4. Nothing(v, p, k - 1) \/ Something(v, p, k - 1)
    BY <1>1, <1>5, <2>1, <2>3
  <2>5. SubSeq(p, 1, k) = Append(SubSeq(p, 1, k - 1), p[k])
    BY <2>1, BeginningFacts
  <2> HIDE DEF k, v, x
  <2>6. ~x.failed
    BY DEF x, k
  <2> SUFFICES Nothing(x, p, k) \/ Something(x, p, k)
    BY DEF x, k
  <2>7. CASE Nothing(v, p, k - 1)
    <3>0. Lengthen(v.full, p[k]) = SubSeq(p, 1, k)
      <4>1. k - 1 \in 0 .. Len(p) /\ v.full = SubSeq(p, 1, k - 1)
        BY <1>1, <2>1, <2>7 DEF Nothing
      <4>2. v.full = <<>> => k = 1 /\ p # <<>>
        BY <1>1, <2>1, <4>1, BeginningFacts, SequenceFacts
      <4>3. ~(v.full = <<>> /\ NoToken(p[k]))
        BY <4>2 DEF IsBare
      <4> QED
        BY <2>5, <4>1, <4>3 DEF Lengthen, NoToken
    <3>1. /\ x.full = SubSeq(p, 1, k) /\ ~x.isListItem
          /\ SubSeq(p, 1, k) \in DOMAIN model_db =>
                x.provider = SubSeq(p, 1, k) /\ x.isList = model_db[SubSeq(p, 1, k)].isList
          /\ SubSeq(p, 1, k) \notin DOMAIN model_db => x.provider = NoProvider /\ ~x.isList
      BY <2>2, <2>3, <2>7, <3>0 DEF Takes, Nothing
    <3>2. \A j \in 1 .. k - 1 : SubSeq(p, 1, j) \notin DOMAIN model_db
      BY <2>7 DEF Nothing
    <3>3. CASE SubSeq(p, 1, k) \in DOMAIN model_db
      BY <2>1, <3>1, <3>2, <3>3, FirstFound
    <3>4. CASE SubSeq(p, 1, k) \notin DOMAIN model_db
      <4>1. \A j \in 1 .. k : j \in 1 .. k - 1 \/ j = k
        BY <1>1, <2>1
      <4> QED
        BY <3>1, <3>2, <3>4, <4>1 DEF Nothing
    <3> QED
      BY <3>3, <3>4
  <2>8. CASE Something(v, p, k - 1) /\ v.isList
    <3>1. /\ x.full = v.full /\ x.provider = v.provider
          /\ ~x.isList /\ x.isListItem
      BY <2>2, <2>3, <2>8 DEF Takes
    <3>2. k - 1 = End(v.full) /\ IsListName(v.full)
      BY <2>8 DEF Something
    <3>3. k = End(v.full) + 1
      BY <1>1, <2>1, <3>2
    <3> QED
      BY <2>8, <3>1, <3>2, <3>3 DEF Something
  <2>9. CASE Something(v, p, k - 1) /\ ~v.isList
    <3>1. v.provider # NoProvider /\ Lengthen(v.full, p[k]) = Append(v.full, p[k])
      <4>1. v.provider \in DOMAIN model_db /\ v.full = v.provider
        BY <2>9 DEF Something
      <4>2. v.provider # <<>>
        BY <4>1, ObjectFacts DEF NoProvider
      <4> QED
        BY <4>1, <4>2 DEF NoProvider, Lengthen
    <3>2. /\ x.full = Append(v.full, p[k]) /\ ~x.isListItem
          /\ Append(v.full, p[k]) \in DOMAIN model_db
          /\ x.provider = Append(v.full, p[k])
          /\ x.isList = model_db[Append(v.full, p[k])].isList
      BY <2>2, <2>3, <2>6, <2>9, <3>1 DEF Takes
    <3> QED
      BY <2>1, <2>9, <3>2, NextFound
  <2> QED
    BY <2>4, <2>7, <2>8, <2>9
<1> HIDE DEF T
<1>6. Len(p) \in T
  BY <1>1, <1>4, <1>5, AllNumbers
<1>7. Nothing(w[Len(p)], p, Len(p)) \/ Something(w[Len(p)], p, Len(p))
  BY <1>1, <1>3, <1>6 DEF T
<1> QED
  BY <1>3, <1>7 DEF Nothing, Something, IsNamed

(* The walk is behind its first dots where it began.                       *)
LEMMA WalkOfBare ==
    ASSUME ObjectsInv, NEW p, IsSequence(p)
    PROVE  Walk(p) = Walk(Bare(p))
<1>1. PICK l \in Nat : l = Len(p)
  BY SequenceFacts
<1>2. PICK d : d = Dots(p) /\ d \in 0 .. l /\ IsDots(p, d)
  BY <1>1, DotsFacts
<1>3. PICK w : WalkUpTo(p, l, w)
  BY WalkExists
<1>4. WalkToken(WalkBegins, "") = WalkBegins
  <2>1. <<>> \notin DOMAIN model_db
    BY ObjectFacts DEF NoProvider
  <2>2. Lengthen(<<>>, "") = <<>>
    BY DEF Lengthen
  <2> QED
    BY <2>1, <2>2 DEF WalkToken, WalkBegins
<1> DEFINE T == {m \in Nat : m <= d => w[m] = WalkBegins}
<1>5. 0 \in T
  BY <1>3 DEF WalkUpTo
<1>6. ASSUME NEW m \in Nat, m \in T PROVE m + 1 \in T
  <2> SUFFICES ASSUME m + 1 <= d PROVE w[m + 1] = WalkBegins
    OBVIOUS
  <2>1. m + 1 \in 1 .. d /\ m + 1 \in 1 .. l /\ (m + 1) - 1 = m
    BY <1>2
  <2>2. w[m] = WalkBegins
    BY <1>2, <1>6
  <2>3. NoToken(p[m + 1])
    BY <1>2, <2>1 DEF IsDots
  <2>4. w[m + 1] = WalkToken(w[m], p[m + 1])
    BY <1>3, <2>1 DEF WalkUpTo
  <2> QED
    BY <1>4, <2>2, <2>3, <2>4 DEF NoToken
<1> HIDE DEF T
<1>7. w[d] = WalkBegins
  <2>1. d \in T
    BY <1>2, <1>5, <1>6, AllNumbers
  <2> QED
    BY <1>2, <2>1 DEF T
<1>8. PICK b : b = Bare(p) /\ IsSequence(b) /\ Len(b) = l - d /\ \A k \in 1 .. l - d : b[k] = p[d + k]
  BY <1>1, <1>2, BareFacts
<1>9. PICK v : v = [k \in 0 .. l - d |-> w[d + k]]
  OBVIOUS
<1>10. WalkUpTo(b, l - d, v)
  <2>1. v = [k \in 0 .. l - d |-> v[k]]
    BY <1>9
  <2>2. v[0] = WalkBegins
    BY <1>2, <1>7, <1>9
  <2>3. ASSUME NEW k \in 1 .. l - d PROVE v[k] = WalkToken(v[k - 1], b[k])
    <3>1. k \in 0 .. l - d /\ k - 1 \in 0 .. l - d /\ d + k \in 1 .. l /\ d + (k - 1) = (d + k) - 1
      BY <1>2
    <3>2. v[k] = w[d + k] /\ v[k - 1] = w[(d + k) - 1] /\ b[k] = p[d + k]
      BY <1>8, <1>9, <3>1
    <3>3. w[d + k] = WalkToken(w[(d + k) - 1], p[d + k])
      BY <1>3, <3>1 DEF WalkUpTo
    <3> QED
      BY <3>2, <3>3
  <2> QED
    BY <2>1, <2>2, <2>3 DEF WalkUpTo
<1>11. Walk(p) = w[l]
  BY <1>1, <1>3, WalkEnds
<1>12. Walk(b) = v[l - d]
  BY <1>8, <1>10, WalkEnds
<1>13. v[l - d] = w[l]
  <2>1. l - d \in 0 .. l - d /\ d + (l - d) = l
    BY <1>2
  <2> QED
    BY <1>9, <2>1
<1> QED
  BY <1>8, <1>11, <1>12, <1>13

(* The walk finds what is named, and tells the list from its instances.    *)
LEMMA BareIsFound ==
    ASSUME ObjectsInv, NEW p, IsSequence(p), IsBare(p)
    PROVE  /\ getProviderByObjectName(p) = Named(p)
           /\ Named(p) = NoProvider \/ Named(p) \in DOMAIN model_db
           /\ Named(p) # NoProvider /\ IsListName(Named(p)) =>
                (NamesList(p) <=> ~Walk(p).isListItem)
<1>0. Bare(p) = p
  BY BareItself
<1>1. CASE \E n \in DOMAIN model_db : IsNamed(p, n)
  <2>1. Named(p) = CHOOSE n \in DOMAIN model_db : IsNamed(p, n)
    BY <1>0, <1>1 DEF Named
  <2>2. PICK n : n = Named(p) /\ n \in DOMAIN model_db /\ IsNamed(p, n)
    BY <1>1, <2>1
  <2>3. ~Walk(p).failed /\ Walk(p).provider = n /\ (Walk(p).isListItem <=> Len(p) = End(n) + 1)
    BY <2>2, WalkFinds
  <2>4. getProviderByObjectName(p) = n
    BY <2>3 DEF getProviderByObjectName
  <2>5. End(n) \in Nat
    <3>1. Len(n) \in Nat \ {0}
      BY <2>2, ObjectFacts
    <3> QED
      BY <3>1, PlaceFacts DEF End
  <2>6. IsListName(n) => (NamesList(p) <=> ~Walk(p).isListItem)
    BY <1>0, <2>2, <2>3, <2>5 DEF NamesList, IsNamed
  <2> QED
    BY <2>2, <2>4, <2>6
<1>2. CASE ~\E n \in DOMAIN model_db : IsNamed(p, n)
  <2>1. Named(p) = NoProvider
    BY <1>0, <1>2 DEF Named
  <2>2. getProviderByObjectName(p) = NoProvider
    BY <1>2, WalkFound DEF getProviderByObjectName
  <2> QED
    BY <2>1, <2>2
<1> QED
  BY <1>1, <1>2

LEMMA NamedAsBare ==
    ASSUME NEW p, NEW q, q = Bare(p), Bare(q) = q
    PROVE  Named(p) = Named(q) /\ (NamesList(p) <=> NamesList(q))
<1>1. Named(p) = Named(q)
  BY DEF Named
<1> QED
  BY <1>1 DEF NamesList

LEMMA LookupFinds ==
    ASSUME ObjectsInv, NEW p, IsSequence(p)
    PROVE  /\ getProviderByObjectName(p) = Named(p)
           /\ Named(p) = NoProvider \/ Named(p) \in DOMAIN model_db
           /\ Named(p) # NoProvider /\ IsListName(Named(p)) =>
                (NamesList(p) <=> ~Walk(p).isListItem)
<1>1. PICK q : q = Bare(p) /\ IsSequence(q) /\ IsBare(q) /\ Bare(q) = q
  BY BareFacts
<1>2. Walk(p) = Walk(q)
  BY <1>1, WalkOfBare
<1>3. getProviderByObjectName(p) = getProviderByObjectName(q)
  BY <1>2 DEF getProviderByObjectName
<1>4. Named(p) = Named(q) /\ (NamesList(p) <=> NamesList(q))
  BY <1>1, NamedAsBare
<1> QED
  BY <1>1, <1>2, <1>3, <1>4, BareIsFound

-----------------------------------------------------------------------------
(***************************************************************************)
(* The directory is loaded, and the tree of the objects is built.          *)
(***************************************************************************)
DatabaseInv ==
    /\ unread \subseteq Files /\ ObjectsInv
    /\ \A f \in Files \ unread : f = NotJson \/ f.name \in DOMAIN model_db

TreeInv ==
    /\ phase = "load" => stack = <<>> /\ model_roots = {}
    /\ phase # "load" =>
        /\ unread = {}
        /\ m_children = [p \in DOMAIN model_db |-> ChildrenOf(p)]
        /\ model_roots = {n \in DOMAIN model_db : trimProperty(n) \notin DOMAIN model_db}

LEMMA ObjectNames ==
    ASSUME DatabaseInv
    PROVE  /\ DOMAIN model_db \subseteq Names /\ IsFiniteSet(DOMAIN model_db)
           /\ unread = {} => DOMAIN model_db = Names
<1>1. DOMAIN model_db \subseteq Names
  <2> SUFFICES ASSUME NEW n \in DOMAIN model_db PROVE n \in Names
    OBVIOUS
  <2>1. model_db[n] \in Files /\ model_db[n].name = n
    BY DEF DatabaseInv, ObjectsInv
  <2>2. n # <<>>
    BY ObjectFacts DEF DatabaseInv, NoProvider
  <2> QED
    BY <2>1, <2>2 DEF Names
<1>2. ASSUME unread = {}, NEW n \in Names PROVE n \in DOMAIN model_db
  <2>1. PICK f \in Files : f.name = n /\ n # <<>>
    BY DEF Names
  <2>2. f # NotJson
    BY <2>1 DEF NotJson
  <2> QED
    BY <1>2, <2>1, <2>2 DEF DatabaseInv
<1>3. IsFiniteSet(Names)
  <2>1. [f \in Files |-> f.name] \in Surjection(Files, {f.name : f \in Files})
    BY DEF Surjection
  <2>2. IsFiniteSet({f.name : f \in Files})
    BY <2>1, FilesAssumption, FS_Surjection
  <2> QED
    BY <2>2, FS_Subset DEF Names
<1> QED
  BY <1>1, <1>2, <1>3, FS_Subset

(* SetToSeq gives a sequence of the members of a finite set.               *)
LEMMA SetInSequence ==
    ASSUME NEW S, IsFiniteSet(S)
    PROVE  SetToSeq(S) \in Seq(S) /\ Range(SetToSeq(S)) = S
<1> DEFINE s == SetToSeq(S)
           D == 1 .. Cardinality(S)
<1>1. Cardinality(S) \in Nat /\ ExistsBijection(D, S)
  BY FS_CardinalityType
<1>2. PICK b \in Bijection(D, S) : TRUE
  BY <1>1 DEF ExistsBijection
<1>3. b \in [D -> S] /\ IsInjective(b)
  BY <1>2 DEF Bijection, Injection
<1>4. s \in [D -> S] /\ IsInjective(s)
  BY <1>3 DEF SetToSeq
<1>5. IsFiniteSet(D) /\ Cardinality(D) = Cardinality(S)
  BY <1>1, FS_Interval
<1> HIDE DEF s, D
<1>6. s \in Injection(D, S)
  BY <1>4 DEF Injection
<1>7. s \in Surjection(D, S)
  BY <1>5, <1>6, FS_Injection
<1>8. \A t \in S : \E k \in D : s[k] = t
  BY <1>7 DEF Surjection
<1>9. DOMAIN s = D /\ \A k \in D : s[k] \in S
  BY <1>4
<1>10. Range(s) = S
  BY <1>8, <1>9 DEF Range
<1>11. s \in Seq(S)
  BY <1>1, <1>4 DEF D
<1> QED
  BY <1>10, <1>11 DEF s

LEMMA ChildrenFacts ==
    ASSUME DatabaseInv, NEW p
    PROVE  /\ ChildrenOf(p) \in Seq(DOMAIN model_db)
           /\ Range(ChildrenOf(p)) = {n \in DOMAIN model_db : trimProperty(n) = p}
<1> DEFINE S == {n \in DOMAIN model_db : trimProperty(n) = p}
<1>1. IsFiniteSet(S) /\ S \subseteq DOMAIN model_db
  BY ObjectNames, FS_Subset
<1>2. ChildrenOf(p) = SetToSeq(S)
  BY DEF ChildrenOf
<1> HIDE DEF S
<1>3. SetToSeq(S) \in Seq(S) /\ Range(SetToSeq(S)) = S
  BY <1>1, SetInSequence
<1>4. SetToSeq(S) \in Seq(DOMAIN model_db)
  BY <1>1, <1>3
<1> QED
  BY <1>2, <1>3, <1>4 DEF S

LEMMA NestingHolds ==
    ASSUME DatabaseInv, TreeInv
    PROVE  TreeIsNesting
<1> SUFFICES ASSUME phase # "load" PROVE TreeIsNesting
  BY DEF TreeIsNesting
<1>1. DOMAIN model_db = Names
  BY ObjectNames DEF TreeInv
<1>2. ASSUME NEW n \in Names
      PROVE  LET parents == {p \in Names : \E k \in DOMAIN m_children[p] : m_children[p][k] = n} IN
             IF n \in model_roots THEN parents = {}
             ELSE \E p \in Names : parents = {p} /\ Len(n) = Len(p) + 1 /\ IsPrefix(p, n)
  <2> DEFINE parents == {p \in Names : \E k \in DOMAIN m_children[p] : m_children[p][k] = n}
             above == Front(n)
  <2>1. IsSequence(n) /\ Len(n) \in Nat /\ Len(n) > 1 /\ n \in DOMAIN model_db
    BY <1>1, ObjectFacts DEF DatabaseInv
  <2>2. trimProperty(n) = above
    BY <2>1 DEF trimProperty
  <2>3. ASSUME NEW p \in Names
        PROVE  (\E k \in DOMAIN m_children[p] : m_children[p][k] = n) <=> p = above
    <3>1. m_children[p] = ChildrenOf(p)
      BY <1>1 DEF TreeInv
    <3>2. (\E k \in DOMAIN m_children[p] : m_children[p][k] = n) <=> n \in Range(ChildrenOf(p))
      BY <3>1 DEF Range
    <3> QED
      BY <2>1, <2>2, <3>2, ChildrenFacts
  <2>4. n \in model_roots <=> above \notin Names
    BY <1>1, <2>1, <2>2 DEF TreeInv
  <2>5. Len(n) = Len(above) + 1 /\ IsPrefix(above, n)
    <3>1. Len(n) - 1 \in 0 .. Len(n) /\ above = SubSeq(n, 1, Len(n) - 1)
      BY <2>1 DEF Front
    <3>2. Len(above) = Len(n) - 1 /\ above \in Seq(Range(n))
      BY <2>1, <3>1, BeginningFacts
    <3>3. SubSeq(above, 1, Len(above)) = above
      BY <3>2, SubSeqFull
    <3> QED
      BY <2>1, <3>1, <3>2, <3>3 DEF IsPrefix
  <2> HIDE DEF above
  <2>6. parents = {p \in Names : p = above}
    BY <2>3
  <2> HIDE DEF parents
  <2>7. IF n \in model_roots THEN parents = {}
        ELSE \E p \in Names : parents = {p} /\ Len(n) = Len(p) + 1 /\ IsPrefix(p, n)
    <3>1. CASE above \in Names
      <4>1. parents = {above}
        BY <2>6, <3>1
      <4> QED
        BY <2>4, <2>5, <3>1, <4>1
    <3>2. CASE above \notin Names
      BY <2>4, <2>6, <3>2
    <3> QED
      BY <3>1, <3>2
  <2> QED
    BY <2>7 DEF parents
<1> QED
  BY <1>1, <1>2 DEF TreeIsNesting

LEMMA DatabaseSteps ==
    ASSUME DatabaseInv, [Next]_vars
    PROVE  DatabaseInv'
<1>1. ASSUME NEW f \in Files, LoadFile(f) PROVE DatabaseInv'
  <2>1. CASE f = NotJson \/ f.name \in DOMAIN model_db
    BY <1>1, <2>1 DEF LoadFile, DatabaseInv, ObjectsInv
  <2>2. CASE ~(f = NotJson \/ f.name \in DOMAIN model_db)
    <3>1. unread' = unread \ {f} /\ model_db' = Put(model_db, f.name, f) /\ unread \subseteq Files
      BY <1>1, <2>2 DEF LoadFile, DatabaseInv
    <3>2. /\ DOMAIN model_db' = DOMAIN model_db \cup {f.name} /\ model_db'[f.name] = f
          /\ \A n \in DOMAIN model_db : model_db'[n] = model_db[n]
      BY <2>2, <3>1 DEF Put
    <3>3. ObjectsInv'
      <4> SUFFICES ASSUME NEW n \in DOMAIN model_db'
                   PROVE  model_db'[n] \in Files \ {NotJson} /\ model_db'[n].name = n
        BY DEF ObjectsInv
      <4>1. CASE n = f.name
        BY <2>2, <3>2, <4>1
      <4>2. CASE n \in DOMAIN model_db
        BY <3>2, <4>2 DEF DatabaseInv, ObjectsInv
      <4> QED
        BY <3>2, <4>1, <4>2
    <3>4. \A g \in Files \ unread' : g = NotJson \/ g.name \in DOMAIN model_db'
      BY <3>1, <3>2 DEF DatabaseInv
    <3> QED
      BY <3>1, <3>3, <3>4 DEF DatabaseInv
  <2> QED
    BY <2>1, <2>2
<1>2. CASE Load
  BY <1>1, <1>2 DEF Load
<1>3. CASE Loaded
  BY <1>3 DEF Loaded, BuildProviderTree, DatabaseInv, ObjectsInv
<1>4. CASE UNCHANGED databaseVars
  BY <1>4, SMTT(40) DEF databaseVars, DatabaseInv, ObjectsInv
<1>5. [Next]_vars => Load \/ Loaded \/ UNCHANGED databaseVars
  BY DEF Next, vars, RunQuery, Exit, RunSet, GetUnknown, GetBegins, GetNumber, GetIds, GetItem,
         ItemDone, ListDone, GetOne, GetKid, OneDone
<1> QED
  BY <1>2, <1>3, <1>4, <1>5

-----------------------------------------------------------------------------
(***************************************************************************)
(* Query strings.                                                          *)
(***************************************************************************)
IsQuery(q) ==
    /\ q = [path |-> q.path, value |-> q.value, braces |-> q.braces]
    /\ IsSequence(q.path) /\ q.path # <<>>
    /\ IsSequence(q.value)

LEMMA FrontFacts ==
    ASSUME NEW s, IsSequence(s), s # <<>>
    PROVE  /\ IsSequence(Front(s)) /\ Len(Front(s)) = Len(s) - 1
           /\ \A i \in 1 .. Len(s) - 1 : Front(s)[i] = s[i]
           /\ Front(s) \in Seq(Range(s))
<1>1. Len(s) \in Nat /\ Len(s) # 0 /\ Len(s) - 1 \in 0 .. Len(s)
  BY SequenceFacts
<1>2. /\ Front(s) \in Seq(Range(s)) /\ Len(Front(s)) = Len(s) - 1
      /\ \A i \in 1 .. Len(s) - 1 : Front(s)[i] = s[i]
  BY <1>1, BeginningFacts DEF Front
<1> QED
  BY <1>2, SeqOfRange DEF IsSequence

LEMMA GlueFacts ==
    ASSUME NEW x, NEW y, NEW sep, IsSequence(x), IsSequence(y), x # <<>>, y # <<>>
    PROVE  /\ IsSequence(Glue(x, sep, y))
           /\ Len(Glue(x, sep, y)) = Len(x) + Len(y) - 1
           /\ Glue(x, sep, y) # <<>>
           /\ \A i \in 1 .. Len(x) - 1 : Glue(x, sep, y)[i] = x[i]
<1> DEFINE mid == Last(x) \o sep \o Head(y)
           S == Range(x) \cup Range(y) \cup {mid}
<1>1. Len(x) \in Nat /\ Len(y) \in Nat /\ Len(x) # 0 /\ Len(y) # 0
  BY SequenceFacts
<1>2. x \in Seq(S) /\ y \in Seq(S) /\ mid \in S /\ Range(x) \subseteq S
  BY WiderRange
<1> HIDE DEF mid, S
<1>3. /\ Front(x) \in Seq(S) /\ Len(Front(x)) = Len(x) - 1
      /\ \A i \in 1 .. Len(x) - 1 : Front(x)[i] = x[i]
  <2>1. /\ Front(x) \in Seq(Range(x)) /\ Len(Front(x)) = Len(x) - 1
        /\ \A i \in 1 .. Len(x) - 1 : Front(x)[i] = x[i]
    BY FrontFacts
  <2> QED
    BY <1>2, <2>1
<1>4. <<mid>> \in Seq(S) /\ Len(<<mid>>) = 1
  BY <1>2
<1>5. Tail(y) \in Seq(S) /\ Len(Tail(y)) = Len(y) - 1
  BY <1>1, <1>2, HeadTailProperties
<1>6. /\ Front(x) \o <<mid>> \in Seq(S) /\ Len(Front(x) \o <<mid>>) = Len(x)
      /\ \A i \in 1 .. Len(x) - 1 : (Front(x) \o <<mid>>)[i] = x[i]
  BY <1>1, <1>3, <1>4, ConcatProperties
<1>7. PICK z \in Seq(S) : z = Front(x) \o <<mid>>
  BY <1>6
<1>8. /\ z \o Tail(y) \in Seq(S) /\ Len(z \o Tail(y)) = Len(x) + (Len(y) - 1)
      /\ \A i \in 1 .. Len(x) - 1 : (z \o Tail(y))[i] = x[i]
  <2>1. Len(z) = Len(x) /\ \A i \in 1 .. Len(x) - 1 : z[i] = x[i]
    BY <1>6, <1>7
  <2>2. /\ z \o Tail(y) \in Seq(S) /\ Len(z \o Tail(y)) = Len(z) + Len(Tail(y))
        /\ \A i \in 1 .. Len(z) + Len(Tail(y)) :
                (z \o Tail(y))[i] = IF i <= Len(z) THEN z[i] ELSE Tail(y)[i - Len(z)]
    BY <1>5, ConcatProperties
  <2>3. ASSUME NEW i \in 1 .. Len(x) - 1
        PROVE  i \in 1 .. Len(z) + Len(Tail(y)) /\ i <= Len(z)
    BY <1>1, <1>5, <2>1
  <2>4. ASSUME NEW i \in 1 .. Len(x) - 1
        PROVE  (z \o Tail(y))[i] = x[i]
    BY <2>1, <2>2, <2>3
  <2> QED
    BY <1>5, <2>1, <2>2, <2>4
<1>9. Glue(x, sep, y) = z \o Tail(y)
  BY <1>7 DEF Glue, mid
<1>10. PICK g \in Seq(S) : g = Glue(x, sep, y)
  BY <1>8, <1>9
<1>11. Len(g) = Len(x) + Len(y) - 1 /\ \A i \in 1 .. Len(x) - 1 : g[i] = x[i]
  BY <1>1, <1>8, <1>9, <1>10
<1>12. IsSequence(g)
  BY SeqOfRange DEF IsSequence
<1>13. g # <<>>
  BY <1>1, <1>11
<1> QED
  BY <1>10, <1>11, <1>12, <1>13

LEMMA WholeFacts ==
    ASSUME NEW q, IsQuery(q)
    PROVE  IsSequence(Whole(q)) /\ Whole(q) # <<>>
<1>1. CASE q.value = <<>>
  BY <1>1 DEF Whole, IsQuery
<1>2. CASE q.value # <<>>
  BY <1>2, GlueFacts DEF Whole, IsQuery
<1> QED
  BY <1>1, <1>2

(* The names of the model have several tokens, and so have those of their  *)
(* instances.                                                              *)
LEMMA NamesAreLong ==
    ASSUME ObjectsInv, NEW p, IsSequence(p), Named(p) # NoProvider
    PROVE  Len(p) > 1 /\ Len(Bare(p)) > 1 /\ Bare(p) # <<>>
<1>1. PICK q : q = Bare(p) /\ IsSequence(q) /\ Len(q) = Len(p) - Dots(p)
  BY BareFacts
<1>2. PICK n \in DOMAIN model_db : IsNamed(q, n)
  BY <1>1 DEF Named
<1>3. Len(n) \in Nat /\ Len(n) > 1 /\ Len(n) \in Nat \ {0} /\ Len(q) \in Nat /\ Len(p) \in Nat
  BY <1>1, ObjectFacts, SequenceFacts
<1>4. End(n) \in Nat /\ Len(n) <= End(n)
  BY <1>3, PlaceFacts DEF End
<1>5. Len(q) > 1
  BY <1>2, <1>3, <1>4 DEF IsNamed
<1>6. q # <<>>
  BY <1>1, <1>5, SequenceFacts
<1>7. Dots(p) \in 0 .. Len(p)
  BY DotsFacts
<1> QED
  BY <1>1, <1>3, <1>5, <1>6, <1>7

LEMMA ObjectPartFacts ==
    ASSUME NEW s, IsSequence(s), s # <<>>
    PROVE  IsSequence(ObjectPart(s)) /\ (Len(s) > 1 => ObjectPart(s) = Front(s))
BY FrontFacts DEF ObjectPart, trimWildcard, trimProperty

LEMMA OneLong ==
    ASSUME NEW y, IsSequence(y), y # <<>>, Len(y) <= 1
    PROVE  Len(y) = 1
<1>1. PICK l \in Nat : l = Len(y)
  BY SequenceFacts
<1>2. y = <<>> <=> Len(y) = 0
  BY SequenceFacts
<1>3. l # 0 /\ l <= 1
  BY <1>1, <1>2
<1>4. l = 1
  BY <1>3
<1> QED
  BY <1>1, <1>4

LEMMA GlueOfOne ==
    ASSUME NEW x, NEW y, NEW sep, IsSequence(x), x # <<>>, IsSequence(y), Len(y) = 1
    PROVE  /\ IsSequence(Glue(x, sep, y)) /\ Len(Glue(x, sep, y)) = Len(x)
           /\ Front(Glue(x, sep, y)) = Front(x)
<1>0. Len(x) \in Nat /\ (y = <<>> <=> Len(y) = 0)
  BY SequenceFacts
<1>1. y # <<>> /\ Len(x) \in Nat
  BY <1>0
<1>2. PICK g : g = Glue(x, sep, y)
  OBVIOUS
<1>3. /\ IsSequence(g) /\ g # <<>> /\ Len(g) = Len(x) + Len(y) - 1
      /\ \A i \in 1 .. Len(x) - 1 : g[i] = x[i]
  BY <1>1, <1>2, GlueFacts, ZenonT(40)
<1>4. Len(g) = Len(x)
  BY <1>1, <1>3
<1>5. /\ Len(Front(g)) = Len(x) - 1 /\ Len(Front(x)) = Len(x) - 1
      /\ IsSequence(Front(g)) /\ IsSequence(Front(x))
      /\ \A i \in 1 .. Len(x) - 1 : Front(g)[i] = Front(x)[i]
  BY <1>3, <1>4, FrontFacts
<1> DEFINE S == Range(Front(g)) \cup Range(Front(x))
<1>6. Front(g) \in Seq(S) /\ Front(x) \in Seq(S)
  BY <1>5, WiderRange
<1> HIDE DEF S
<1>7. Front(g) = Front(x)
  BY <1>5, <1>6, SeqEqual
<1> QED
  BY <1>2, <1>3, <1>4, <1>7

LEMMA SameObject ==
    ASSUME ObjectsInv, NEW q, IsQuery(q), Len(q.value) = 1, ~q.braces,
           getProviderByObjectName(trimSetProperty(q)) # NoProvider
    PROVE  trimSetProperty(q) = ObjectPart(q.path)
<1>1. PICK x : x = q.path
  OBVIOUS
<1>2. PICK y : y = q.value
  OBVIOUS
<1>3. PICK whole : whole = Glue(x, "=", y)
  OBVIOUS
<1>4. IsSequence(x) /\ x # <<>> /\ IsSequence(y) /\ Len(y) = 1 /\ y # <<>>
  <2>1. IsSequence(x) /\ x # <<>> /\ IsSequence(y) /\ Len(y) = 1
    BY <1>1, <1>2 DEF IsQuery
  <2>2. y = <<>> <=> Len(y) = 0
    BY <2>1, SequenceFacts
  <2> QED
    BY <2>1, <2>2
<1>5. /\ IsSequence(whole) /\ Len(whole) = Len(x) /\ Front(whole) = Front(x)
      /\ Len(x) \in Nat
  BY <1>3, <1>4, GlueOfOne, SequenceFacts
<1>6. trimSetProperty(q) = trimProperty(whole)
  BY <1>1, <1>2, <1>3, <1>4 DEF trimSetProperty, Whole
<1>7. Len(x) > 1
  <2>1. CASE trimProperty(whole) = whole
    <3>1. Named(whole) # NoProvider
      BY <1>5, <1>6, <2>1, LookupFinds
    <3> QED
      BY <1>5, <3>1, NamesAreLong
  <2>2. CASE trimProperty(whole) # whole
    BY <1>5, <2>2 DEF trimProperty
  <2> QED
    BY <2>1, <2>2
<1> QED
  BY <1>1, <1>4, <1>5, <1>6, <1>7, ObjectPartFacts DEF trimProperty

LEMMA CommandFacts ==
    ASSUME command \in Commands
    PROVE  /\ command.op \in {"get", "set"} /\ command.recursive \in BOOLEAN
           /\ IsSequence(command.params)
           /\ \A k \in 1 .. Len(command.params) :
                IsQuery(command.params[k]) /\ command.params[k].value \in Seq(STRING)
<1>1. command.params \in Seq(Queries)
  BY CommandsAssumption
<1>2. ASSUME NEW q \in Queries PROVE IsQuery(q) /\ q.value \in Seq(STRING)
  <2>1. /\ q = [path |-> q.path, value |-> q.value, braces |-> q.braces]
        /\ q.path \in Seq(STRING) /\ q.path # <<>> /\ q.value \in Seq(STRING)
    BY DEF Queries
  <2>2. IsSequence(q.path) /\ IsSequence(q.value)
    BY <2>1, SeqOfRange DEF IsSequence
  <2> QED
    BY <2>1, <2>2 DEF IsQuery
<1>3. IsSequence(command.params)
  BY <1>1, SeqOfRange DEF IsSequence
<1> QED
  BY <1>1, <1>2, <1>3, CommandsAssumption

LEMMA AgreementHolds ==
    ASSUME ObjectsInv, command \in Commands
    PROVE  HostAgrees
<1> SUFFICES ASSUME NEW k \in DOMAIN command.params
             PROVE  LET q == command.params[k]
                        host == IF command.op = "get" THEN HostGetObject(q) ELSE HostSetObject(q)
                    IN  Len(q.value) <= 1 /\ ~Refused(command.op, q) =>
                            /\ InstanceName(command.op, q) = host
                            /\ getProviderByObjectName(host) = ProviderOf(command.op, q)
  BY DEF HostAgrees
<1> DEFINE q == command.params[k]
           host == IF command.op = "get" THEN HostGetObject(q) ELSE HostSetObject(q)
<1>1. IsQuery(q) /\ q.value \in Seq(STRING)
  <2>1. k \in 1 .. Len(command.params)
    BY CommandFacts, SequenceFacts
  <2> QED
    BY <2>1, CommandFacts
<1> HIDE DEF q
<1>2. CASE command.op = "get"
  <2>1. host = ObjectPart(Whole(q)) /\ InstanceName(command.op, q) = ObjectPart(Whole(q))
    BY <1>2 DEF HostGetObject, InstanceName
  <2>2. ProviderOf(command.op, q) = getProviderByObjectName(ObjectPart(Whole(q)))
    BY <1>2 DEF ProviderOf, getProviderByPropertyName
  <2> QED
    BY <2>1, <2>2 DEF q
<1>3. CASE command.op = "set"
  <2>1. /\ InstanceName(command.op, q) = trimSetProperty(q)
        /\ ProviderOf(command.op, q) = getProviderByObjectName(trimSetProperty(q))
        /\ host = HostSetObject(q)
    BY <1>3 DEF InstanceName, ProviderOf
  <2>2. ASSUME Len(q.value) <= 1, ~Refused(command.op, q)
        PROVE  trimSetProperty(q) = HostSetObject(q)
    <3>1. CASE q.braces
      BY <3>1 DEF trimSetProperty, HostSetObject
    <3>2. CASE ~q.braces
      <4>1. q.value # <<>> /\ ProviderOf(command.op, q) # NoProvider
        BY <1>3, <2>2 DEF Refused
      <4>2. Len(q.value) = 1
        <5>1. PICK y : y = q.value
          OBVIOUS
        <5>2. IsSequence(y) /\ y # <<>> /\ Len(y) <= 1
          BY <1>1, <2>2, <4>1, <5>1 DEF IsQuery
        <5>3. Len(y) = 1
          BY <5>2, OneLong
        <5> QED
          BY <5>1, <5>3
      <4>3. trimSetProperty(q) = ObjectPart(q.path)
        BY <1>1, <2>1, <3>2, <4>1, <4>2, SameObject
      <4> QED
        BY <3>2, <4>3 DEF HostSetObject
    <3> QED
      BY <3>1, <3>2
  <2> HIDE DEF host
  <2>3. Len(q.value) <= 1 /\ ~Refused(command.op, q) =>
            /\ InstanceName(command.op, q) = host
            /\ getProviderByObjectName(host) = ProviderOf(command.op, q)
    BY <2>1, <2>2
  <2> QED
    BY <2>3 DEF q, host
<1> QED
  BY <1>2, <1>3, CommandFacts

LEMMA JoinFacts ==
    ASSUME NEW a, NEW b, IsQuery(a), IsQuery(b)
    PROVE  IsQuery(Join(a, b))
<1>1. ASSUME NEW v, IsSequence(v)
      PROVE  IsQuery([a EXCEPT !.value = v])
  BY <1>1 DEF IsQuery
<1>2. ASSUME NEW q, NEW v, IsQuery(q), IsSequence(v), v # <<>>
      PROVE  IsQuery([q EXCEPT !.path = v])
  BY <1>2 DEF IsQuery
<1>3. CASE a.value # <<>>
  <2>1. IsSequence(Glue(a.value, ",", Whole(b)))
    BY <1>3, GlueFacts, WholeFacts DEF IsQuery
  <2>2. Join(a, b) = [a EXCEPT !.value = Glue(a.value, ",", Whole(b))]
    BY <1>3 DEF Join
  <2> QED
    BY <1>1, <2>1, <2>2
<1>4. CASE a.value = <<>>
  <2>1. IsSequence(Glue(a.path, ",", b.path)) /\ Glue(a.path, ",", b.path) # <<>>
    BY GlueFacts DEF IsQuery
  <2>2. \/ Join(a, b) = [b EXCEPT !.path = Glue(a.path, ",", b.path)]
        \/ Join(a, b) = [a EXCEPT !.path = Glue(a.path, ",", b.path)]
    BY <1>4 DEF Join
  <2>3. PICK v : v = Glue(a.path, ",", b.path)
    OBVIOUS
  <2>4. IsQuery([b EXCEPT !.path = v]) /\ IsQuery([a EXCEPT !.path = v])
    BY <1>2, <2>1, <2>3
  <2> QED
    BY <2>2, <2>3, <2>4, Zenon
<1> QED
  BY <1>3, <1>4

AreQueries(s) == IsSequence(s) /\ \A k \in 1 .. Len(s) : IsQuery(s[k])

LEMMA QueryAppended ==
    ASSUME NEW s, AreQueries(s), NEW q, IsQuery(q)
    PROVE  AreQueries(Append(s, q)) /\ (s # <<>> => AreQueries(Front(s)) /\ IsQuery(Last(s)))
<1>1. AreQueries(Append(s, q))
  BY AppendFacts DEF AreQueries
<1>2. ASSUME s # <<>> PROVE AreQueries(Front(s)) /\ IsQuery(Last(s))
  <2>1. /\ IsSequence(Front(s)) /\ Len(Front(s)) = Len(s) - 1
        /\ \A i \in 1 .. Len(s) - 1 : Front(s)[i] = s[i]
        /\ Len(s) \in Nat /\ (s = <<>> <=> Len(s) = 0)
    BY <1>2, FrontFacts, SequenceFacts DEF AreQueries
  <2>2. Len(s) \in 1 .. Len(s) /\ \A i \in 1 .. Len(s) - 1 : i \in 1 .. Len(s)
    BY <1>2, <2>1
  <2>3. IsQuery(Last(s))
    BY <2>2 DEF AreQueries, Last
  <2> QED
    BY <2>1, <2>2, <2>3 DEF AreQueries
<1> QED
  BY <1>1, <1>2

LEMMA SplitFacts ==
    ASSUME NEW params, AreQueries(params), NEW inbracket \in BOOLEAN
    PROVE  AreQueries(SplitParams(params, inbracket))
<1> DEFINE start == [out |-> <<>>, inbracket |-> inbracket]
           n == Len(params)
           Body(v, k) == IF k = 0 THEN start ELSE SplitNext(v[k - 1], params[k])
           Equation(v) == v = [k \in 0 .. n |-> Body(v, k)]
           g == CHOOSE v : Equation(v)
           UpTo(m, v) == v = [k \in 0 .. m |-> Body(v, k)]
           T == {m \in Nat : \E v : UpTo(m, v)}
<1>1. n \in Nat
  BY SequenceFacts DEF AreQueries
<1>2. n \in T
  <2>1. 0 \in T
    <3>1. UpTo(0, [k \in 0 .. 0 |-> start])
      OBVIOUS
    <3> QED
      BY <3>1
  <2>2. ASSUME NEW m \in Nat, m \in T PROVE m + 1 \in T
    <3>1. PICK v : v = [k \in 0 .. m |-> Body(v, k)]
      BY <2>2
    <3> DEFINE x == [k \in 0 .. m + 1 |-> IF k = m + 1 THEN SplitNext(v[m], params[m + 1]) ELSE v[k]]
    <3>2. ASSUME NEW k \in 0 .. m + 1 PROVE x[k] = Body(x, k)
      <4>1. CASE k = m + 1
        BY <4>1
      <4>2. CASE k = 0
        BY <3>1, <4>2
      <4>3. CASE k \in 1 .. m
        <5>1. x[k] = v[k] /\ x[k - 1] = v[k - 1]
          BY <4>3
        <5>2. v[k] = SplitNext(v[k - 1], params[k])
          BY <3>1, <4>3
        <5> HIDE DEF x
        <5> QED
          BY <4>3, <5>1, <5>2
      <4> QED
        BY <4>1, <4>2, <4>3
    <3>3. x = [k \in 0 .. m + 1 |-> x[k]]
      OBVIOUS
    <3> HIDE DEF x
    <3>4. UpTo(m + 1, x)
      <4> HIDE DEF Body
      <4> QED
        BY <3>2, <3>3
    <3> QED
      BY <3>4
  <2> HIDE DEF T
  <2> QED
    BY <1>1, <2>1, <2>2, AllNumbers
<1>3. Equation(g)
  <2>1. PICK v : Equation(v)
    BY <1>2
  <2> HIDE DEF Equation
  <2> QED
    BY <2>1
<1>4. SplitParams(params, inbracket) = g[n].out
  BY DEF SplitParams
<1>5. g[0] = start /\ \A k \in 1 .. n : g[k] = SplitNext(g[k - 1], params[k])
  <2> HIDE DEF g, start
  <2> QED
    BY <1>1, <1>3
<1> HIDE DEF g
<1> DEFINE Good(x) == AreQueries(x.out) /\ x.inbracket \in BOOLEAN
           U == {m \in Nat : m <= n => Good(g[m])}
<1>6. 0 \in U
  <2>1. AreQueries(<<>>)
    BY DEF AreQueries, IsSequence
  <2> QED
    BY <1>5, <2>1
<1>7. ASSUME NEW m \in Nat, m \in U PROVE m + 1 \in U
  <2> SUFFICES ASSUME m + 1 <= n PROVE Good(g[m + 1])
    OBVIOUS
  <2>1. m + 1 \in 1 .. n /\ (m + 1) - 1 = m /\ m <= n
    BY <1>1
  <2>2. PICK before : before = g[m] /\ AreQueries(before.out) /\ before.inbracket \in BOOLEAN
    BY <1>7, <2>1
  <2>3. PICK q : q = params[m + 1] /\ IsQuery(q)
    BY <2>1 DEF AreQueries
  <2>4. g[m + 1] = SplitNext(before, q)
    BY <1>5, <2>1, <2>2, <2>3
  <2>5. AreQueries(SplitNext(before, q).out)
    <3>1. CASE before.inbracket /\ before.out # <<>>
      <4>1. SplitNext(before, q).out = Append(Front(before.out), Join(Last(before.out), q))
        BY <3>1 DEF SplitNext
      <4>2. AreQueries(Front(before.out)) /\ IsQuery(Last(before.out))
        BY <2>2, <2>3, <3>1, QueryAppended
      <4>3. IsQuery(Join(Last(before.out), q))
        BY <2>3, <4>2, JoinFacts
      <4> QED
        BY <4>1, <4>2, <4>3, QueryAppended
    <3>2. CASE ~(before.inbracket /\ before.out # <<>>)
      <4>1. SplitNext(before, q).out = Append(before.out, q)
        BY <3>2 DEF SplitNext
      <4> QED
        BY <2>2, <2>3, <4>1, QueryAppended
    <3> QED
      BY <3>1, <3>2
  <2>6. SplitNext(before, q).inbracket \in BOOLEAN
    BY <2>2 DEF SplitNext
  <2> QED
    BY <2>4, <2>5, <2>6
<1> HIDE DEF U
<1>8. n \in U
  BY <1>1, <1>6, <1>7, AllNumbers
<1> QED
  BY <1>1, <1>4, <1>8 DEF U

-----------------------------------------------------------------------------
(***************************************************************************)
(* The names the client asks for.                                          *)
(***************************************************************************)
LEMMA WildcardFacts ==
    ASSUME ObjectsInv, NEW s, IsSequence(s), s # <<>>, isWildcard(s)
    PROVE  /\ ObjectPart(s) = Front(s) /\ trimWildcard(s) = Front(s) /\ IsSequence(Front(s))
           /\ getProviderByPropertyName(s) = Named(trimWildcard(s))
<1>1. ObjectPart(s) = Front(s) /\ trimWildcard(s) = Front(s) /\ IsSequence(Front(s))
  BY FrontFacts DEF ObjectPart, trimWildcard
<1>2. getProviderByPropertyName(s) = getProviderByObjectName(Front(s))
  BY <1>1 DEF getProviderByPropertyName
<1> QED
  BY <1>1, <1>2, LookupFinds

LEMMA NamedIsObject ==
    ASSUME ObjectsInv, NEW p, IsSequence(p), Named(p) # NoProvider
    PROVE  Named(p) \in DOMAIN model_db /\ IsNamed(Bare(p), Named(p))
BY DEF Named

(* runGet takes a name for that of a list if it is one.                    *)
LEMMA ListIsKnown ==
    ASSUME ObjectsInv, NEW s, IsSequence(s), s # <<>>
    PROVE  AsksForList(s) <=>
                /\ isWildcard(s) /\ getProviderByPropertyName(s) # NoProvider
                /\ ~IsListItem(s) /\ model_db[getProviderByPropertyName(s)].isList
<1> SUFFICES ASSUME isWildcard(s)
             PROVE  NamesList(trimWildcard(s)) <=>
                        /\ getProviderByPropertyName(s) # NoProvider
                        /\ ~IsListItem(s) /\ model_db[getProviderByPropertyName(s)].isList
  BY DEF AsksForList
<1>1. PICK p : p = Front(s) /\ IsSequence(p) /\ trimWildcard(s) = p /\ ObjectPart(s) = p
  BY WildcardFacts
<1>2. PICK n : n = Named(p)
  OBVIOUS
<1>3. getProviderByPropertyName(s) = n /\ (IsListItem(s) <=> Walk(p).isListItem)
  BY <1>1, <1>2, WildcardFacts DEF IsListItem
<1>4. CASE n = NoProvider
  <2>1. ~IsListName(n)
    BY <1>4, ObjectFacts DEF IsListName
  <2> QED
    BY <1>1, <1>2, <1>3, <1>4, <2>1 DEF NamesList
<1>5. CASE n # NoProvider
  <2>1. n \in DOMAIN model_db /\ (IsListName(n) <=> model_db[n].isList)
    BY <1>1, <1>2, <1>5, NamedIsObject DEF IsListName
  <2>2. IsListName(n) => (NamesList(p) <=> ~Walk(p).isListItem)
    BY <1>1, <1>2, <1>5, LookupFinds
  <2>3. NamesList(p) => IsListName(n)
    BY <1>2 DEF NamesList
  <2> QED
    BY <1>1, <1>3, <1>5, <2>1, <2>2, <2>3
<1> QED
  BY <1>4, <1>5

LEMMA LastAppended ==
    ASSUME NEW s, IsSequence(s), NEW x
    PROVE  Front(Append(s, x)) = s /\ Last(Append(s, x)) = x
<1>1. PICK t : t = Append(s, x)
  OBVIOUS
<1>2. PICK l \in Nat : l = Len(s)
  BY SequenceFacts
<1>3. /\ IsSequence(t) /\ t # <<>> /\ Len(t) = l + 1
      /\ \A k \in 1 .. l : t[k] = s[k]
      /\ t[l + 1] = x
  BY <1>1, <1>2, AppendFacts
<1>4. /\ IsSequence(Front(t)) /\ Len(Front(t)) = Len(t) - 1
      /\ \A k \in 1 .. Len(t) - 1 : Front(t)[k] = t[k]
  BY <1>3, FrontFacts
<1>5. (l + 1) - 1 = l
  OBVIOUS
<1>6. Len(Front(t)) = Len(s) /\ \A k \in 1 .. Len(s) : Front(t)[k] = s[k]
  BY <1>2, <1>3, <1>4, <1>5
<1> DEFINE S == Range(Front(t)) \cup Range(s)
<1>7. Front(t) \in Seq(S) /\ s \in Seq(S)
  BY <1>4, WiderRange
<1> HIDE DEF S
<1>8. Front(t) = s
  BY <1>6, <1>7, SeqEqual
<1>9. Last(t) = x
  BY <1>3 DEF Last
<1> QED
  BY <1>1, <1>8, <1>9

LEMMA BelowFacts ==
    ASSUME NEW p, IsSequence(p), NEW token
    PROVE  /\ IsSequence(Below(p, token)) /\ Below(p, token) # <<>> /\ isWildcard(Below(p, token))
           /\ Front(Below(p, token)) = Append(p, token) /\ IsSequence(Append(p, token))
<1>1. IsSequence(Append(p, token))
  BY AppendFacts
<1> QED
  BY <1>1, AppendFacts, LastAppended DEF Below, isWildcard

LEMMA NamedOnly ==
    ASSUME ObjectsInv, NEW p, IsSequence(p), IsBare(p), NEW n \in DOMAIN model_db, IsNamed(p, n)
    PROVE  Named(p) = n
<1>1. ~Walk(p).failed /\ Walk(p).provider = n
  BY WalkFinds
<1> QED
  BY <1>1, BareIsFound DEF getProviderByObjectName

(* An entry of a list is named as the list with one token more.            *)
LEMMA BareEntry ==
    ASSUME ObjectsInv, NEW p, IsSequence(p), IsBare(p), NamesList(p), NEW id
    PROVE  Named(Append(p, id)) = Named(p) /\ ~NamesList(Append(p, id))
<1>0. Bare(p) = p
  BY BareItself
<1>2. PICK n : n = Named(p) /\ IsListName(n) /\ Len(p) = End(n)
  BY <1>0 DEF NamesList
<1>3. n \in DOMAIN model_db /\ n # NoProvider
  BY <1>2, ObjectFacts DEF IsListName
<1>4. IsNamed(p, n)
  BY <1>0, <1>2, <1>3, NamedIsObject
<1>5. PICK entry : entry = Append(p, id)
  OBVIOUS
<1>7. PICK l \in Nat : l = Len(p)
  BY SequenceFacts
<1>8. /\ IsSequence(entry) /\ Len(entry) = l + 1 /\ \A k \in 1 .. l : entry[k] = p[k]
  BY <1>5, <1>7, AppendFacts
<1>10. IsNamed(entry, n)
  <2>1. Len(n) \in Nat \ {0} /\ DOMAIN n = 1 .. Len(n)
    BY <1>3, ObjectFacts, SequenceFacts
  <2>2. ASSUME NEW k \in DOMAIN n PROVE entry[Place(n, k)] = n[k]
    <3>1. k \in Nat \ {0} /\ k <= Len(n) /\ Len(n) \in Nat
      BY <2>1
    <3>2. Place(n, k) \in Nat /\ k <= Place(n, k) /\ Place(n, k) <= End(n) /\ End(n) \in Nat
      BY <3>1, PlaceFacts, LaterPlace DEF End
    <3>3. Place(n, k) \in 1 .. l
      BY <1>2, <1>7, <3>1, <3>2
    <3>4. p[Place(n, k)] = n[k]
      BY <1>4 DEF IsNamed
    <3> QED
      BY <1>8, <3>3, <3>4
  <2>3. Len(entry) = End(n) + 1
    BY <1>2, <1>7, <1>8
  <2> QED
    BY <1>2, <1>4, <2>2, <2>3 DEF IsNamed
<1>9. p # <<>>
  BY <1>2, <1>3, NamesAreLong
<1>11. IsBare(entry) /\ Bare(entry) = entry
  BY <1>0, <1>5, <1>8, <1>9, BareAppend, BareFacts
<1>12. Named(entry) = n
  BY <1>3, <1>8, <1>10, <1>11, NamedOnly
<1>13. ~NamesList(entry)
  BY <1>2, <1>7, <1>8, <1>11, <1>12 DEF NamesList
<1> QED
  BY <1>2, <1>3, <1>5, <1>12, <1>13

LEMMA EntryNames ==
    ASSUME ObjectsInv, NEW p, IsSequence(p), NamesList(p), NEW id
    PROVE  /\ Named(Append(p, id)) = Named(p) /\ ~NamesList(Append(p, id))
           /\ Named(p) \in DOMAIN model_db /\ Named(p) # NoProvider
<1>1. Named(p) \in DOMAIN model_db /\ Named(p) # NoProvider
  BY ObjectFacts DEF NamesList, IsListName
<1>2. PICK q : q = Bare(p) /\ IsSequence(q) /\ IsBare(q) /\ Bare(q) = q
  BY BareFacts
<1>3. Named(p) = Named(q) /\ NamesList(q)
  BY <1>2, NamedAsBare
<1>4. Named(Append(q, id)) = Named(q) /\ ~NamesList(Append(q, id))
  BY <1>2, <1>3, BareEntry
<1>5. PICK e : e = Append(p, id)
  OBVIOUS
<1>6. PICK f : f = Append(q, id)
  OBVIOUS
<1>7. q # <<>>
  BY <1>1, <1>2, NamesAreLong
<1>8. f = Bare(e)
  BY <1>2, <1>5, <1>6, <1>7, BareAppend
<1>9. Bare(f) = f
  BY <1>2, <1>6, <1>7, BareAppend
<1>10. Named(e) = Named(f) /\ (NamesList(e) <=> NamesList(f))
  BY <1>8, <1>9, NamedAsBare
<1> QED
  BY <1>1, <1>3, <1>4, <1>5, <1>6, <1>10

(* The name of an entry of a list, with a dot, is known as the list is.    *)
LEMMA EntryFacts ==
    ASSUME ObjectsInv, NEW s, IsSequence(s), s # <<>>, AsksForList(s), NEW id
    PROVE  LET item == Below(trimWildcard(s), id) IN
           /\ IsSequence(item) /\ item # <<>>
           /\ getProviderByPropertyName(item) \in DOMAIN model_db
<1>1. PICK p : p = trimWildcard(s) /\ IsSequence(p) /\ NamesList(p)
  BY WildcardFacts DEF AsksForList
<1>2. PICK entry : entry = Append(p, id)
  OBVIOUS
<1>3. PICK item : item = Below(p, id)
  OBVIOUS
<1>4. IsSequence(item) /\ item # <<>> /\ isWildcard(item) /\ Front(item) = entry
  BY <1>1, <1>2, <1>3, BelowFacts
<1>5. Named(entry) \in DOMAIN model_db
  BY <1>1, <1>2, EntryNames
<1>6. getProviderByPropertyName(item) = Named(entry)
  BY <1>4, WildcardFacts
<1> QED
  BY <1>1, <1>3, <1>4, <1>5, <1>6

-----------------------------------------------------------------------------
(***************************************************************************)
(* The activations of runGet.                                              *)
(***************************************************************************)
IsFrame(f) ==
    /\ f = [parameter |-> f.parameter, at |-> f.at, entries |-> f.entries, ids |-> f.ids,
            i |-> f.i, kids |-> f.kids, success |-> f.success]
    /\ IsQuery(f.parameter)
    /\ IsSequence(f.ids) /\ f.i \in 1 .. Len(f.ids) + 1
    /\ IsSequence(f.kids) /\ Range(f.kids) \subseteq DOMAIN model_db
    /\ f.success \in BOOLEAN

FrameInv(f) ==
    /\ IsFrame(f)
    /\ \/ f.at = "set" /\ command.op = "set"
       \/ command.op = "get" /\ f.at \in {"get", "number", "ids", "items", "item kids", "one", "kids"}
    /\ f.at \in {"number", "ids", "items", "item kids"} => AsksForList(Whole(f.parameter))
    /\ f.at = "one" =>
        ~AsksForList(Whole(f.parameter)) /\ ~AsksForNothing(Whole(f.parameter))
    /\ f.at \notin {"items", "item kids"} => f.ids = <<>>
    /\ f.at \in {"items", "item kids"} => f.ids # <<>> /\ Len(f.ids) = f.entries
    /\ f.at = "item kids" => f.i <= Len(f.ids)
    /\ f.at \in {"get", "number", "ids"} => f.success = TRUE
    /\ f.at \in {"kids", "item kids"} => command.recursive

StackInv ==
    /\ IsSequence(stack)
    /\ \A k \in 1 .. Len(stack) :
        FrameInv(stack[k]) /\ (k < Len(stack) => stack[k].at \in {"kids", "item kids"})

LEMMA SameNames ==
    ASSUME model_db' = model_db
    PROVE  /\ \A p : Named(p)' = Named(p) /\ (NamesList(p)' <=> NamesList(p))
           /\ \A s : (AsksForList(s)' <=> AsksForList(s)) /\ (AsksForNothing(s)' <=> AsksForNothing(s))
<1>1. ASSUME NEW n PROVE IsListName(n)' <=> IsListName(n)
  BY DEF IsListName
<1>2. ASSUME NEW n, NEW k PROVE Place(n, k)' = Place(n, k)
  <2>1. {j \in 1 .. k - 1 : IsListName(SubSeq(n, 1, j))'} = {j \in 1 .. k - 1 : IsListName(SubSeq(n, 1, j))}
    BY <1>1
  <2> QED
    BY <2>1 DEF Place
<1>3. ASSUME NEW n PROVE (NoGap(n)' <=> NoGap(n)) /\ End(n)' = End(n)
  BY <1>2 DEF NoGap, End
<1>4. ASSUME NEW p, NEW n PROVE IsNamed(p, n)' <=> IsNamed(p, n)
  BY <1>1, <1>2, <1>3 DEF IsNamed
<1>5. ASSUME NEW p PROVE Named(p)' = Named(p)
  <2>1. (\E n \in DOMAIN model_db' : IsNamed(Bare(p), n)')
            <=> (\E n \in DOMAIN model_db : IsNamed(Bare(p), n))
    BY <1>4
  <2>2. (CHOOSE n \in DOMAIN model_db' : IsNamed(Bare(p), n)')
            = CHOOSE n \in DOMAIN model_db : IsNamed(Bare(p), n)
    BY <1>4
  <2> QED
    BY <2>1, <2>2 DEF Named
<1>6. ASSUME NEW p PROVE NamesList(p)' <=> NamesList(p)
  BY <1>1, <1>3, <1>5 DEF NamesList
<1> QED
  BY <1>5, <1>6 DEF AsksForList, AsksForNothing

LEMMA SameFrames ==
    ASSUME model_db' = model_db, command' = command, NEW f
    PROVE  FrameInv(f)' <=> FrameInv(f)
<1>1. IsFrame(f)' <=> IsFrame(f)
  BY DEF IsFrame
<1>2. /\ AsksForList(Whole(f.parameter))' <=> AsksForList(Whole(f.parameter))
      /\ AsksForNothing(Whole(f.parameter))' <=> AsksForNothing(Whole(f.parameter))
  BY SameNames
<1> QED
  BY <1>1, <1>2 DEF FrameInv

LEMMA TopFacts ==
    ASSUME StackInv, stack # <<>>
    PROVE  /\ Len(stack) \in Nat \ {0} /\ Top = stack[Len(stack)]
           /\ FrameInv(Top)
           /\ IsSequence(Front(stack)) /\ Len(Front(stack)) = Len(stack) - 1
           /\ \A k \in 1 .. Len(stack) - 1 :
                Front(stack)[k] = stack[k] /\ FrameInv(stack[k]) /\ stack[k].at \in {"kids", "item kids"}
<1>1. /\ IsSequence(stack) /\ Len(stack) \in Nat
      /\ stack = <<>> <=> Len(stack) = 0
  BY SequenceFacts DEF StackInv
<1>2. Len(stack) \in Nat \ {0}
  BY <1>1
<1>3. Top = stack[Len(stack)]
  BY DEF Top, Last
<1>4. Len(stack) \in 1 .. Len(stack)
  BY <1>2
<1>5. ASSUME NEW k \in 1 .. Len(stack) - 1
      PROVE  FrameInv(stack[k]) /\ stack[k].at \in {"kids", "item kids"}
  <2>1. k \in 1 .. Len(stack) /\ k < Len(stack)
    BY <1>2
  <2> QED
    BY <2>1 DEF StackInv
<1>6. FrameInv(Top)
  BY <1>3, <1>4 DEF StackInv
<1> QED
  BY <1>1, <1>2, <1>3, <1>5, <1>6, FrontFacts

(* Those that wait for another to return.                                  *)
Waiting(s) ==
    /\ IsSequence(s)
    /\ \A k \in 1 .. Len(s) : FrameInv(s[k]) /\ s[k].at \in {"kids", "item kids"}

LEMMA StackOf ==
    ASSUME model_db' = model_db, command' = command, NEW s, Waiting(s),
           NEW f, FrameInv(f), stack' = Append(s, f)
    PROVE  StackInv'
<1>1. IsSequence(s)
  BY DEF Waiting
<1>2. \A k \in 1 .. Len(s) : FrameInv(s[k]) /\ s[k].at \in {"kids", "item kids"}
  BY DEF Waiting
<1>3. PICK t : t = Append(s, f)
  OBVIOUS
<1>5. PICK l \in Nat : l = Len(s)
  BY <1>1, SequenceFacts
<1>6. /\ IsSequence(t) /\ Len(t) = l + 1
      /\ \A k \in 1 .. l : t[k] = s[k]
      /\ t[l + 1] = f
  BY <1>1, <1>3, <1>5, AppendFacts
<1>7. ASSUME NEW k \in 1 .. l + 1
      PROVE  FrameInv(t[k]) /\ (k < l + 1 => t[k].at \in {"kids", "item kids"})
  <2>0. k = l + 1 \/ k \in 1 .. l
    OBVIOUS
  <2>1. CASE k = l + 1
    <3>1. t[k] = f
      BY <1>6, <2>1
    <3>2. ~(k < l + 1)
      BY <2>1
    <3> QED
      BY <3>1, <3>2, Zenon
  <2>2. CASE k \in 1 .. l
    <3>1. FrameInv(s[k]) /\ s[k].at \in {"kids", "item kids"}
      BY <1>2, <1>5, <2>2
    <3>2. t[k] = s[k]
      BY <1>6, <2>2
    <3> QED
      BY <3>1, <3>2
  <2> QED
    BY <2>0, <2>1, <2>2
<1>8. stack' = t
  BY <1>3
<1>9. \A k \in 1 .. l + 1 : FrameInv(t[k])'
  BY <1>7, SameFrames
<1> QED
  BY <1>6, <1>7, <1>8, <1>9 DEF StackInv

(* The innermost activation goes on.                                       *)
LEMMA StackReplaced ==
    ASSUME StackInv, stack # <<>>, model_db' = model_db, command' = command,
           NEW f, FrameInv(f), Become(f)
    PROVE  StackInv' /\ stack' # <<>> /\ Top' = f
<1>1. PICK s : s = Front(stack)
  OBVIOUS
<1>2. Waiting(s) /\ stack' = Append(s, f)
  BY <1>1, TopFacts DEF Become, Waiting
<1>3. StackInv'
  BY <1>2, StackOf
<1>4. Append(s, f) # <<>> /\ Last(Append(s, f)) = f
  BY <1>2, AppendFacts, LastAppended DEF Waiting
<1>5. Top' = f
  BY <1>2, <1>4 DEF Top
<1> QED
  BY <1>2, <1>3, <1>4, <1>5

(* It returns.                                                             *)
LEMMA StackReturned ==
    ASSUME StackInv, stack # <<>>, model_db' = model_db, command' = command,
           NEW result \in BOOLEAN, Return(result)
    PROVE  StackInv'
<1>1. PICK l \in Nat \ {0} : l = Len(stack)
  BY TopFacts
<1>2. IsSequence(stack)
  BY DEF StackInv
<1>3. CASE l = 1
  <2>1. stack' = <<>>
    BY <1>1, <1>3 DEF Return
  <2>2. IsSequence(<<>>) /\ Len(<<>>) = 0
    BY DEF IsSequence
  <2>3. IsSequence(stack') /\ 1 .. Len(stack') = {}
    BY <2>1, <2>2
  <2> QED
    BY <2>3 DEF StackInv
<1>4. CASE l # 1
  <2>1. PICK s : s = SubSeq(stack, 1, l - 2)
    OBVIOUS
  <2>2. PICK f : f = [stack[l - 1] EXCEPT !.success = result]
    OBVIOUS
  <2>3. l - 2 \in 0 .. l /\ l - 1 \in 1 .. l - 1
    BY <1>4
  <2>4. /\ Len(s) = l - 2 /\ s \in Seq(Range(stack))
        /\ \A k \in 1 .. l - 2 : s[k] = stack[k]
    BY <1>1, <1>2, <2>1, <2>3, BeginningFacts
  <2>5. IsSequence(s)
    BY <2>4, SeqOfRange DEF IsSequence
  <2>6. \A k \in 1 .. l - 1 : FrameInv(stack[k]) /\ stack[k].at \in {"kids", "item kids"}
    BY <1>1, TopFacts
  <2>7. ASSUME NEW k \in 1 .. l - 2
        PROVE  FrameInv(s[k]) /\ s[k].at \in {"kids", "item kids"}
    <3>1. k \in 1 .. l - 1 /\ s[k] = stack[k]
      BY <2>4
    <3> QED
      BY <2>6, <3>1
  <2>8. FrameInv(f)
    <3>1. PICK g : g = stack[l - 1]
      OBVIOUS
    <3>2. FrameInv(g) /\ g.at \in {"kids", "item kids"} /\ f = [g EXCEPT !.success = result]
      BY <2>2, <2>3, <2>6, <3>1
    <3>3. IsFrame(g)
      BY <3>2 DEF FrameInv
    <3>4. /\ f.parameter = g.parameter /\ f.at = g.at /\ f.entries = g.entries /\ f.ids = g.ids
          /\ f.i = g.i /\ f.kids = g.kids /\ f.success = result
          /\ f = [parameter |-> g.parameter, at |-> g.at, entries |-> g.entries, ids |-> g.ids,
                  i |-> g.i, kids |-> g.kids, success |-> result]
      BY <3>2, <3>3 DEF IsFrame
    <3>5. IsFrame(f)
      BY <3>3, <3>4 DEF IsFrame
    <3> QED
      BY <3>2, <3>4, <3>5 DEF FrameInv
  <2>9. stack' = Append(s, f)
    <3>1. stack' = s \o <<f>>
      BY <1>1, <1>4, <2>1, <2>2 DEF Return
    <3>2. s \in Seq(Range(stack) \cup {f}) /\ f \in Range(stack) \cup {f}
      BY <2>4
    <3> QED
      BY <3>1, <3>2, AppendIsConcat
  <2>10. Waiting(s)
    BY <2>4, <2>5, <2>7 DEF Waiting
  <2> QED
    BY <2>8, <2>9, <2>10, StackOf
<1> QED
  BY <1>3, <1>4

LEMMA FrameBegins ==
    ASSUME NEW q, IsQuery(q), NEW place, command.op \in {"get", "set"}, place = command.op
    PROVE  FrameInv(Frame(q, place))
<1>1. PICK f : f = Frame(q, place)
  OBVIOUS
<1>2. /\ f.parameter = q /\ f.at = place /\ f.entries = 0 /\ f.ids = <<>> /\ f.i = 1
      /\ f.kids = <<>> /\ f.success = TRUE
      /\ f = [parameter |-> q, at |-> place, entries |-> 0, ids |-> <<>>, i |-> 1,
              kids |-> <<>>, success |-> TRUE]
  BY <1>1 DEF Frame
<1>3. IsSequence(<<>>) /\ Len(<<>>) = 0 /\ Range(<<>>) = {}
  BY DEF IsSequence, Range
<1>4. IsFrame(f)
  BY <1>2, <1>3 DEF IsFrame
<1> QED
  BY <1>1, <1>2, <1>4 DEF FrameInv

LEMMA OutcomeFacts ==
    ASSUME NEW op, NEW q, NEW values, NEW o \in Outcomes(op, q, values)
    PROVE  /\ o.ok \in BOOLEAN /\ o.cost \in {0, 1}
           /\ o.values = <<>> \/ (\E v \in values : o.values = <<v>>)
           /\ ~o.ok => o.values = <<>>
<1>1. CASE Refused(op, q)
  <2>1. o = [ok |-> FALSE, values |-> <<>>, cost |-> 0]
    BY <1>1 DEF Outcomes
  <2> QED
    BY <2>1
<1>2. CASE ~Refused(op, q)
  <2>1. \/ \E v \in values : o = [ok |-> TRUE, values |-> <<v>>, cost |-> 0]
        \/ o = [ok |-> FALSE, values |-> <<>>, cost |-> 1]
        \/ o = [ok |-> TRUE, values |-> <<>>, cost |-> 1]
    BY <1>2 DEF Outcomes
  <2>2. CASE \E v \in values : o = [ok |-> TRUE, values |-> <<v>>, cost |-> 0]
    <3>1. PICK v \in values : o = [ok |-> TRUE, values |-> <<v>>, cost |-> 0]
      BY <2>2
    <3>2. o.ok = TRUE /\ o.cost = 0 /\ o.values = <<v>>
      BY <3>1
    <3> QED
      BY <3>2
  <2>3. CASE o = [ok |-> FALSE, values |-> <<>>, cost |-> 1]
    BY <2>3
  <2>4. CASE o = [ok |-> TRUE, values |-> <<>>, cost |-> 1]
    BY <2>4
  <2> QED
    BY <2>1, <2>2, <2>3, <2>4
<1> QED
  BY <1>1, <1>2

LEMMA FrameGoesOn ==
    ASSUME NEW f, FrameInv(f)
    PROVE  /\ IsFrame(f)
           /\ \A x : [f EXCEPT !.at = x] =
                [parameter |-> f.parameter, at |-> x, entries |-> f.entries, ids |-> f.ids,
                 i |-> f.i, kids |-> f.kids, success |-> f.success]
           /\ \A x, y : [f EXCEPT !.at = x, !.entries = y] =
                [parameter |-> f.parameter, at |-> x, entries |-> y, ids |-> f.ids,
                 i |-> f.i, kids |-> f.kids, success |-> f.success]
           /\ \A x, y : [f EXCEPT !.at = x, !.ids = y] =
                [parameter |-> f.parameter, at |-> x, entries |-> f.entries, ids |-> y,
                 i |-> f.i, kids |-> f.kids, success |-> f.success]
           /\ \A x : [f EXCEPT !.at = x, !.i = @ + 1] =
                [parameter |-> f.parameter, at |-> x, entries |-> f.entries, ids |-> f.ids,
                 i |-> f.i + 1, kids |-> f.kids, success |-> f.success]
           /\ [f EXCEPT !.i = @ + 1] =
                [parameter |-> f.parameter, at |-> f.at, entries |-> f.entries, ids |-> f.ids,
                 i |-> f.i + 1, kids |-> f.kids, success |-> f.success]
           /\ \A x, y, z : [f EXCEPT !.at = x, !.kids = y, !.success = z] =
                [parameter |-> f.parameter, at |-> x, entries |-> f.entries, ids |-> f.ids,
                 i |-> f.i, kids |-> y, success |-> z]
           /\ \A x, y : [f EXCEPT !.at = x, !.kids = y] =
                [parameter |-> f.parameter, at |-> x, entries |-> f.entries, ids |-> f.ids,
                 i |-> f.i, kids |-> y, success |-> f.success]
           /\ [f EXCEPT !.kids = Tail(@)] =
                [parameter |-> f.parameter, at |-> f.at, entries |-> f.entries, ids |-> f.ids,
                 i |-> f.i, kids |-> Tail(f.kids), success |-> f.success]
<1>1. IsFrame(f)
  BY DEF FrameInv
<1> PICK parameter, at, entries, ids, i, kids, success :
        /\ parameter = f.parameter /\ at = f.at /\ entries = f.entries /\ ids = f.ids
        /\ i = f.i /\ kids = f.kids /\ success = f.success
  OBVIOUS
<1>0. f = [parameter |-> parameter, at |-> at, entries |-> entries, ids |-> ids,
           i |-> i, kids |-> kids, success |-> success]
  BY <1>1 DEF IsFrame
<1>2. ASSUME NEW x
      PROVE  [f EXCEPT !.at = x] =
                [parameter |-> f.parameter, at |-> x, entries |-> f.entries, ids |-> f.ids,
                 i |-> f.i, kids |-> f.kids, success |-> f.success]
  BY <1>0
<1>3. ASSUME NEW x, NEW y
      PROVE  [f EXCEPT !.at = x, !.entries = y] =
                [parameter |-> f.parameter, at |-> x, entries |-> y, ids |-> f.ids,
                 i |-> f.i, kids |-> f.kids, success |-> f.success]
  <2> DEFINE g1 == [f EXCEPT !.at = x]
  <2>1. g1 = [parameter |-> parameter, at |-> x, entries |-> entries, ids |-> ids,
            i |-> i, kids |-> kids, success |-> success]
    BY <1>0
  <2> HIDE DEF g1
  <2> DEFINE g2 == [g1 EXCEPT !.entries = y]
  <2>2. g2 = [parameter |-> parameter, at |-> x, entries |-> y, ids |-> ids,
            i |-> i, kids |-> kids, success |-> success]
    BY <2>1
  <2> HIDE DEF g2
  <2> USE DEF g1, g2
  <2>3. g2 = [f EXCEPT !.at = x, !.entries = y]
    BY Zenon
  <2> HIDE DEF g1, g2
  <2> QED
    BY <2>2, <2>3
<1>4. ASSUME NEW x, NEW y
      PROVE  [f EXCEPT !.at = x, !.ids = y] =
                [parameter |-> f.parameter, at |-> x, entries |-> f.entries, ids |-> y,
                 i |-> f.i, kids |-> f.kids, success |-> f.success]
  <2> DEFINE g1 == [f EXCEPT !.at = x]
  <2>1. g1 = [parameter |-> parameter, at |-> x, entries |-> entries, ids |-> ids,
            i |-> i, kids |-> kids, success |-> success]
    BY <1>0
  <2> HIDE DEF g1
  <2> DEFINE g2 == [g1 EXCEPT !.ids = y]
  <2>2. g2 = [parameter |-> parameter, at |-> x, entries |-> entries, ids |-> y,
            i |-> i, kids |-> kids, success |-> success]
    BY <2>1
  <2> HIDE DEF g2
  <2> USE DEF g1, g2
  <2>3. g2 = [f EXCEPT !.at = x, !.ids = y]
    BY Zenon
  <2> HIDE DEF g1, g2
  <2> QED
    BY <2>2, <2>3
<1>5. ASSUME NEW x
      PROVE  [f EXCEPT !.at = x, !.i = @ + 1] =
                [parameter |-> f.parameter, at |-> x, entries |-> f.entries, ids |-> f.ids,
                 i |-> f.i + 1, kids |-> f.kids, success |-> f.success]
  <2> DEFINE g1 == [f EXCEPT !.at = x]
  <2>1. g1 = [parameter |-> parameter, at |-> x, entries |-> entries, ids |-> ids,
            i |-> i, kids |-> kids, success |-> success]
    BY <1>0
  <2> HIDE DEF g1
  <2> DEFINE g2 == [g1 EXCEPT !.i = @ + 1]
  <2>2. g2 = [parameter |-> parameter, at |-> x, entries |-> entries, ids |-> ids,
            i |-> i + 1, kids |-> kids, success |-> success]
    BY <2>1
  <2> HIDE DEF g2
  <2> USE DEF g1, g2
  <2>3. g2 = [f EXCEPT !.at = x, !.i = @ + 1]
    BY Zenon
  <2> HIDE DEF g1, g2
  <2> QED
    BY <2>2, <2>3
<1>6. [f EXCEPT !.i = @ + 1] =
                [parameter |-> f.parameter, at |-> f.at, entries |-> f.entries, ids |-> f.ids,
                 i |-> f.i + 1, kids |-> f.kids, success |-> f.success]
  BY <1>0
<1>7. ASSUME NEW x, NEW y, NEW z
      PROVE  [f EXCEPT !.at = x, !.kids = y, !.success = z] =
                [parameter |-> f.parameter, at |-> x, entries |-> f.entries, ids |-> f.ids,
                 i |-> f.i, kids |-> y, success |-> z]
  <2> DEFINE g1 == [f EXCEPT !.at = x]
  <2>1. g1 = [parameter |-> parameter, at |-> x, entries |-> entries, ids |-> ids,
            i |-> i, kids |-> kids, success |-> success]
    BY <1>0
  <2> HIDE DEF g1
  <2> DEFINE g2 == [g1 EXCEPT !.kids = y]
  <2>2. g2 = [parameter |-> parameter, at |-> x, entries |-> entries, ids |-> ids,
            i |-> i, kids |-> y, success |-> success]
    BY <2>1
  <2> HIDE DEF g2
  <2> DEFINE g3 == [g2 EXCEPT !.success = z]
  <2>3. g3 = [parameter |-> parameter, at |-> x, entries |-> entries, ids |-> ids,
            i |-> i, kids |-> y, success |-> z]
    BY <2>2
  <2> HIDE DEF g3
  <2> USE DEF g1, g2, g3
  <2>4. g3 = [f EXCEPT !.at = x, !.kids = y, !.success = z]
    BY Zenon
  <2> HIDE DEF g1, g2, g3
  <2> QED
    BY <2>3, <2>4
<1>8. ASSUME NEW x, NEW y
      PROVE  [f EXCEPT !.at = x, !.kids = y] =
                [parameter |-> f.parameter, at |-> x, entries |-> f.entries, ids |-> f.ids,
                 i |-> f.i, kids |-> y, success |-> f.success]
  <2> DEFINE g1 == [f EXCEPT !.at = x]
  <2>1. g1 = [parameter |-> parameter, at |-> x, entries |-> entries, ids |-> ids,
            i |-> i, kids |-> kids, success |-> success]
    BY <1>0
  <2> HIDE DEF g1
  <2> DEFINE g2 == [g1 EXCEPT !.kids = y]
  <2>2. g2 = [parameter |-> parameter, at |-> x, entries |-> entries, ids |-> ids,
            i |-> i, kids |-> y, success |-> success]
    BY <2>1
  <2> HIDE DEF g2
  <2> USE DEF g1, g2
  <2>3. g2 = [f EXCEPT !.at = x, !.kids = y]
    BY Zenon
  <2> HIDE DEF g1, g2
  <2> QED
    BY <2>2, <2>3
<1>9. [f EXCEPT !.kids = Tail(@)] =
                [parameter |-> f.parameter, at |-> f.at, entries |-> f.entries, ids |-> f.ids,
                 i |-> f.i, kids |-> Tail(f.kids), success |-> f.success]
  <2>1. PICK rest : rest = Tail(f.kids)
    OBVIOUS
  <2>2. [f EXCEPT !.kids = rest] =
            [parameter |-> parameter, at |-> at, entries |-> entries, ids |-> ids,
             i |-> i, kids |-> rest, success |-> success]
    BY <1>0
  <2>3. [f EXCEPT !.kids = rest] = [f EXCEPT !.kids = Tail(@)]
    BY <2>1, Zenon
  <2> QED
    BY <2>1, <2>2, <2>3, Zenon
<1> QED
  BY <1>1, <1>2, <1>3, <1>4, <1>5, <1>6, <1>7, <1>8, <1>9, Zenon

LEMMA SuccessSet ==
    ASSUME NEW f, IsFrame(f), NEW result
    PROVE  [f EXCEPT !.success = result] =
                [parameter |-> f.parameter, at |-> f.at, entries |-> f.entries, ids |-> f.ids,
                 i |-> f.i, kids |-> f.kids, success |-> result]
BY DEF IsFrame

-----------------------------------------------------------------------------
(***************************************************************************)
(* What each step of runGet leaves on the stack.                           *)
(***************************************************************************)
LEMMA NameFacts ==
    ASSUME StackInv, stack # <<>>
    PROVE  IsSequence(Name) /\ Name # <<>> /\ Name = Whole(Top.parameter)
<1>1. IsQuery(Top.parameter)
  BY TopFacts DEF FrameInv, IsFrame
<1> QED
  BY <1>1, WholeFacts DEF Name

LEMMA BeginsStack ==
    ASSUME ObjectsInv, StackInv, GetBegins
    PROVE  StackInv' /\ stack' # <<>> /\ Top'.at \in {"number", "one"}
<1>1. /\ stack # <<>> /\ Top.at = "get" /\ model_db' = model_db /\ command' = command
      /\ ~(isWildcard(Name) /\ Provider = NoProvider)
      /\ Become([Top EXCEPT !.at = IF IsList THEN "number" ELSE "one"])
  BY DEF GetBegins, At, databaseVars
<1>2. PICK f : f = Top
  OBVIOUS
<1>3. FrameInv(f) /\ f.at = "get"
  BY <1>1, <1>2, TopFacts
<1>4. PICK s : s = Name
  OBVIOUS
<1>5. IsSequence(s) /\ s # <<>> /\ s = Whole(f.parameter)
  BY <1>1, <1>2, <1>4, NameFacts
<1>6. IsList <=> AsksForList(s)
  BY <1>4, <1>5, ListIsKnown DEF IsList, Provider
<1>7. ~AsksForNothing(s)
  BY <1>1, <1>4, <1>5, WildcardFacts DEF AsksForNothing, Provider
<1>8. PICK place : place = (IF IsList THEN "number" ELSE "one")
  OBVIOUS
<1>9. PICK g : g = [f EXCEPT !.at = place]
  OBVIOUS
<1>10. /\ g = [parameter |-> f.parameter, at |-> place, entries |-> f.entries, ids |-> f.ids,
               i |-> f.i, kids |-> f.kids, success |-> f.success]
       /\ IsFrame(f)
  BY <1>3, <1>9, FrameGoesOn
<1>11. IsFrame(g)
  BY <1>10 DEF IsFrame
<1>12. FrameInv(g)
  BY <1>3, <1>5, <1>6, <1>7, <1>8, <1>10, <1>11 DEF FrameInv
<1>13. Become(g)
  BY <1>1, <1>2, <1>8, <1>9
<1>14. StackInv' /\ stack' # <<>> /\ Top' = g
  BY <1>1, <1>12, <1>13, StackReplaced
<1> QED
  BY <1>8, <1>10, <1>14

LEMMA NumberStack ==
    ASSUME ObjectsInv, StackInv, GetNumber
    PROVE  StackInv' /\ (Return(FALSE) \/ (stack' # <<>> /\ Top'.at = "ids" /\ notes' = notes))
<1>1. stack # <<>> /\ Top.at = "number" /\ model_db' = model_db /\ command' = command
  BY DEF GetNumber, At, databaseVars
<1>2. \/ Return(FALSE)
      \/ \E n : Become([Top EXCEPT !.at = "ids", !.entries = n]) /\ notes' = notes
  BY DEF GetNumber, ListFails
<1>3. ASSUME Return(FALSE) PROVE StackInv'
  BY <1>1, <1>3, StackReturned
<1>4. ASSUME NEW n, Become([Top EXCEPT !.at = "ids", !.entries = n])
      PROVE  StackInv' /\ stack' # <<>> /\ Top'.at = "ids"
  <2>1. PICK f : f = Top
    OBVIOUS
  <2>2. FrameInv(f) /\ f.at = "number"
    BY <1>1, <2>1, TopFacts
  <2> PICK place : place = "ids"
    OBVIOUS
  <2>3. PICK g : g = [f EXCEPT !.at = place, !.entries = n]
    OBVIOUS
  <2>4. /\ g = [parameter |-> f.parameter, at |-> place, entries |-> n, ids |-> f.ids,
                i |-> f.i, kids |-> f.kids, success |-> f.success]
        /\ IsFrame(f)
    <3>1. IsFrame(f)
      BY <2>2, FrameGoesOn
    <3>2. \A x, y : [f EXCEPT !.at = x, !.entries = y] =
                [parameter |-> f.parameter, at |-> x, entries |-> y, ids |-> f.ids,
                 i |-> f.i, kids |-> f.kids, success |-> f.success]
      BY <2>2, FrameGoesOn, Zenon
    <3>3. g = [parameter |-> f.parameter, at |-> place, entries |-> n, ids |-> f.ids,
               i |-> f.i, kids |-> f.kids, success |-> f.success]
      BY <2>3, <3>2, Zenon
    <3> QED
      BY <3>1, <3>3
  <2>5. IsFrame(g)
    BY <2>4 DEF IsFrame
  <2>6. FrameInv(g)
    BY <2>2, <2>4, <2>5 DEF FrameInv
  <2>7. Become(g)
    BY <1>4, <2>1, <2>3
  <2>8. StackInv' /\ stack' # <<>> /\ Top' = g
    BY <1>1, <2>6, <2>7, StackReplaced, SMTT(40)
  <2> QED
    BY <2>4, <2>8
<1> QED
  BY <1>2, <1>3, <1>4

LEMMA IdsStack ==
    ASSUME ObjectsInv, StackInv, GetIds
    PROVE  /\ StackInv'
           /\ Return(FALSE) \/
                /\ stack' # <<>> /\ Top'.at = "items" /\ Top'.parameter = Top.parameter
                /\ Top'.i = 1 /\ Top'.success = TRUE
                /\ lists' = Put(lists, ListName, Top'.ids) /\ notes' = notes
<1>1. stack # <<>> /\ Top.at = "ids" /\ model_db' = model_db /\ command' = command
  BY DEF GetIds, At, databaseVars
<1>2. \/ Return(FALSE)
      \/ \E ids : /\ IsSequence(ids) /\ ids # <<>> /\ Len(ids) = Top.entries
                  /\ Become([Top EXCEPT !.at = "items", !.ids = ids])
                  /\ lists' = Put(lists, ListName, ids) /\ notes' = notes
  <2>1. PICK o \in Outcomes("get", ListProperty("IdsOfEntries"), {SubSeq(Ids, 1, n) : n \in 0 .. MaxEntries}) :
            LET ids == IF o.values = <<>> THEN <<"0">> ELSE SplitIds(o.values[1])
            IN  CASE Fails(o) -> ListFails
                  [] o.ok /\ Len(ids) # Top.entries -> Mismatch
                  [] OTHER -> /\ Become([Top EXCEPT !.at = "items", !.ids = ids])
                              /\ lists' = Put(lists, ListName, ids)
                              /\ UNCHANGED <<returned, notes, asked, itemFailed>>
    BY DEF GetIds
  <2>2. PICK ids : ids = IF o.values = <<>> THEN <<"0">> ELSE SplitIds(o.values[1])
    OBVIOUS
  <2>3. IsSequence(ids) /\ ids # <<>>
    <3>1. IsSequence(<<"0">>) /\ <<"0">> # <<>> /\ IsSequence(<<"">>) /\ <<"">> # <<>>
      <4>1. <<"0">> \in Seq({"0"}) /\ <<"">> \in Seq({""})
        OBVIOUS
      <4> QED
        BY <4>1, SeqOfRange DEF IsSequence
    <3>2. CASE o.values = <<>>
      BY <2>2, <3>1, <3>2
    <3>3. CASE o.values # <<>>
      <4>1. PICK n \in 0 .. MaxEntries : o.values = <<SubSeq(Ids, 1, n)>>
        BY <3>3, OutcomeFacts
      <4>2. PICK v : v = SubSeq(Ids, 1, n)
        OBVIOUS
      <4>3. IsSequence(v)
        <5>1. IsSequence(Ids) /\ n \in 0 .. Len(Ids)
          BY ClientAssumption, SeqOfRange DEF IsSequence
        <5>2. v \in Seq(Range(Ids))
          BY <4>2, <5>1, BeginningFacts
        <5> QED
          BY <5>2, SeqOfRange DEF IsSequence
      <4>4. o.values[1] = v
        BY <4>1, <4>2
      <4> QED
        BY <2>2, <3>1, <3>3, <4>3, <4>4 DEF SplitIds
    <3> QED
      BY <3>2, <3>3
  <2>4. \/ ListFails \/ Mismatch
        \/ /\ ~Fails(o) /\ ~(o.ok /\ Len(ids) # Top.entries)
           /\ Become([Top EXCEPT !.at = "items", !.ids = ids])
           /\ lists' = Put(lists, ListName, ids) /\ notes' = notes
    BY <2>1, <2>2
  <2> QED
    BY <2>3, <2>4 DEF ListFails, Mismatch, Fails
<1>3. ASSUME Return(FALSE) PROVE StackInv'
  BY <1>1, <1>3, StackReturned
<1>4. ASSUME NEW ids, IsSequence(ids), ids # <<>>, Len(ids) = Top.entries,
             Become([Top EXCEPT !.at = "items", !.ids = ids]),
             lists' = Put(lists, ListName, ids), notes' = notes
      PROVE  /\ StackInv'
             /\ stack' # <<>> /\ Top'.at = "items" /\ Top'.parameter = Top.parameter
             /\ Top'.i = 1 /\ Top'.success = TRUE
             /\ lists' = Put(lists, ListName, Top'.ids) /\ notes' = notes
  <2>1. PICK f : f = Top
    OBVIOUS
  <2>2. FrameInv(f) /\ f.at = "ids"
    BY <1>1, <2>1, TopFacts
  <2>3. PICK g : g = [f EXCEPT !.at = "items", !.ids = ids]
    OBVIOUS
  <2>4. /\ g = [parameter |-> f.parameter, at |-> "items", entries |-> f.entries, ids |-> ids,
                i |-> f.i, kids |-> f.kids, success |-> f.success]
        /\ IsFrame(f)
    <3>1. IsFrame(f)
      BY <2>2, FrameGoesOn
    <3>2. \A x, y : [f EXCEPT !.at = x, !.ids = y] =
                [parameter |-> f.parameter, at |-> x, entries |-> f.entries, ids |-> y,
                 i |-> f.i, kids |-> f.kids, success |-> f.success]
      BY <2>2, FrameGoesOn, Zenon
    <3>3. g = [parameter |-> f.parameter, at |-> "items", entries |-> f.entries, ids |-> ids,
               i |-> f.i, kids |-> f.kids, success |-> f.success]
      BY <2>3, <3>2, Zenon
    <3> QED
      BY <3>1, <3>3
  <2>5. f.i = 1 /\ f.i \in 1 .. Len(ids) + 1
    <3>1. PICK l \in Nat : l = Len(ids)
      BY <1>4, SequenceFacts
    <3>2. f.ids = <<>> /\ f.i \in 1 .. Len(f.ids) + 1
      BY <2>2, <2>4 DEF FrameInv, IsFrame
    <3>3. f.i = 1
      BY <3>2
    <3>4. 1 \in 1 .. l + 1
      OBVIOUS
    <3> QED
      BY <3>1, <3>3, <3>4
  <2>6. IsFrame(g)
    BY <1>4, <2>4, <2>5 DEF IsFrame
  <2>7. FrameInv(g)
    BY <1>4, <2>1, <2>2, <2>4, <2>6 DEF FrameInv
  <2>8. Become(g)
    BY <1>4, <2>1, <2>3
  <2>9. StackInv' /\ stack' # <<>> /\ Top' = g
    BY <1>1, <2>7, <2>8, StackReplaced
  <2>10. g.at = "items" /\ g.parameter = f.parameter /\ g.i = 1 /\ g.success = TRUE /\ g.ids = ids
    BY <2>2, <2>4, <2>5 DEF FrameInv
  <2> QED
    BY <1>4, <2>1, <2>9, <2>10
<1> QED
  BY <1>2, <1>3, <1>4

(* The children of an object are a sequence of objects.                    *)
LEMMA KidsKnown ==
    ASSUME DatabaseInv, TreeInv, phase = "query", NEW n \in DOMAIN model_db
    PROVE  IsSequence(m_children[n]) /\ Range(m_children[n]) \subseteq DOMAIN model_db
<1>1. m_children[n] = ChildrenOf(n)
  BY DEF TreeInv
<1>2. ChildrenOf(n) \in Seq(DOMAIN model_db) /\ Range(ChildrenOf(n)) \subseteq DOMAIN model_db
  BY ChildrenFacts
<1>3. IsSequence(ChildrenOf(n))
  BY <1>2, SeqOfRange DEF IsSequence
<1> QED
  BY <1>1, <1>2, <1>3

LEMMA ItemStack ==
    ASSUME DatabaseInv, TreeInv, StackInv, command.recursive \in BOOLEAN, GetItem
    PROVE  /\ StackInv' /\ stack' # <<>>
           /\ ~command.recursive =>
                /\ Top'.at = "items" /\ Top'.parameter = Top.parameter
                /\ Top'.i = Top.i + 1 /\ Top'.ids = Top.ids
                /\ \E ok \in BOOLEAN :
                    /\ Top'.success = (Top.success /\ ok)
                    /\ notes' = Append(notes, IF ok THEN "result" ELSE "error")
<1> PICK item : item = Below(ListName, Top.ids[Top.i])
  OBVIOUS
<1>1. /\ phase = "query" /\ stack # <<>> /\ Top.at = "items" /\ Top.i <= Len(Top.ids)
      /\ model_db' = model_db /\ command' = command /\ ObjectsInv
  BY DEF GetItem, At, databaseVars, DatabaseInv
<1>2. PICK ok \in BOOLEAN :
        /\ notes' = Append(notes, IF ok THEN "result" ELSE "error")
        /\ Become([(IF command.recursive
                    THEN [Top EXCEPT !.at = "item kids", !.kids = Children(item)]
                    ELSE [Top EXCEPT !.i = @ + 1]) EXCEPT !.success = @ /\ ok])
  <2>1. PICK o \in Outcomes("get", Query(item), {"values"}) :
            /\ Notify(o)
            /\ Become(AfterItem(IF command.recursive
                                THEN [Top EXCEPT !.at = "item kids", !.kids = Children(item)]
                                ELSE [Top EXCEPT !.i = @ + 1], o))
    BY DEF GetItem
  <2>2. o.ok \in BOOLEAN
    BY OutcomeFacts
  <2> QED
    BY <2>1, <2>2 DEF Notify, AfterItem
<1>3. PICK f : f = Top
  OBVIOUS
<1>4. FrameInv(f) /\ f.at = "items" /\ IsFrame(f) /\ f.i <= Len(f.ids)
  BY <1>1, <1>3, TopFacts, FrameGoesOn
<1>5. PICK l \in Nat : l = Len(f.ids)
  BY <1>4, SequenceFacts DEF IsFrame
<1>6. f.i \in Nat /\ f.i + 1 \in 1 .. l + 1
  <2>1. f.i \in 1 .. l + 1 /\ f.i <= l
    BY <1>4, <1>5 DEF IsFrame
  <2> QED
    BY <2>1
<1>7. CASE command.recursive
  <2>1. PICK kids : kids = Children(item)
    OBVIOUS
  <2>2. IsSequence(kids) /\ Range(kids) \subseteq DOMAIN model_db
    <3>1. PICK s : s = Name /\ IsSequence(s) /\ s # <<>> /\ AsksForList(s) /\ item = Below(trimWildcard(s), Top.ids[Top.i])
      BY <1>1, <1>3, <1>4, NameFacts DEF FrameInv, ListName
    <3>2. getProviderByPropertyName(item) \in DOMAIN model_db
      BY <1>1, <3>1, EntryFacts
    <3> QED
      BY <1>1, <2>1, <3>2, KidsKnown DEF Children
  <2> PICK place : place = "item kids"
    OBVIOUS
  <2>3. PICK g : g = [f EXCEPT !.at = place, !.kids = kids]
    OBVIOUS
  <2>4. g = [parameter |-> f.parameter, at |-> place, entries |-> f.entries, ids |-> f.ids,
             i |-> f.i, kids |-> kids, success |-> f.success]
    <3>1. \A x, y : [f EXCEPT !.at = x, !.kids = y] =
                [parameter |-> f.parameter, at |-> x, entries |-> f.entries, ids |-> f.ids,
                 i |-> f.i, kids |-> y, success |-> f.success]
      BY <1>4, FrameGoesOn, Zenon
    <3> QED
      BY <2>3, <3>1, Zenon
  <2>5. PICK h : h = [g EXCEPT !.success = @ /\ ok]
    OBVIOUS
  <2>6. h = [parameter |-> f.parameter, at |-> place, entries |-> f.entries, ids |-> f.ids,
             i |-> f.i, kids |-> kids, success |-> (f.success /\ ok)]
    BY <2>4, <2>5
  <2>7. IsFrame(h)
    BY <1>4, <2>2, <2>6 DEF IsFrame
  <2>8. FrameInv(h)
    BY <1>4, <1>7, <2>6, <2>7 DEF FrameInv
  <2>9. Become(h)
    BY <1>2, <1>3, <1>7, <2>1, <2>3, <2>5, Zenon
  <2> QED
    BY <1>1, <1>7, <2>8, <2>9, StackReplaced
<1>8. CASE ~command.recursive
  <2>1. PICK g : g = [f EXCEPT !.i = @ + 1]
    OBVIOUS
  <2>2. g = [parameter |-> f.parameter, at |-> f.at, entries |-> f.entries, ids |-> f.ids,
             i |-> f.i + 1, kids |-> f.kids, success |-> f.success]
    BY <1>4, <2>1, FrameGoesOn, Zenon
  <2>3. PICK h : h = [g EXCEPT !.success = @ /\ ok]
    OBVIOUS
  <2>4. h = [parameter |-> f.parameter, at |-> f.at, entries |-> f.entries, ids |-> f.ids,
             i |-> f.i + 1, kids |-> f.kids, success |-> (f.success /\ ok)]
    BY <2>2, <2>3
  <2>5. IsFrame(h)
    BY <1>4, <1>5, <1>6, <2>4 DEF IsFrame
  <2>6. FrameInv(h)
    BY <1>4, <2>4, <2>5 DEF FrameInv
  <2>7. Become(h)
    BY <1>2, <1>3, <1>8, <2>1, <2>3, Zenon
  <2>8. StackInv' /\ stack' # <<>> /\ Top' = h
    BY <1>1, <2>6, <2>7, StackReplaced
  <2> QED
    BY <1>2, <1>3, <1>4, <2>4, <2>8
<1> QED
  BY <1>7, <1>8

LEMMA ItemDoneStack ==
    ASSUME StackInv, ItemDone
    PROVE  StackInv'
<1>1. /\ stack # <<>> /\ Top.at = "item kids" /\ model_db' = model_db /\ command' = command
      /\ Become([Top EXCEPT !.at = "items", !.i = @ + 1])
  BY DEF ItemDone, At, databaseVars
<1>2. PICK f : f = Top
  OBVIOUS
<1>3. FrameInv(f) /\ f.at = "item kids" /\ IsFrame(f) /\ f.i <= Len(f.ids)
  BY <1>1, <1>2, TopFacts, FrameGoesOn DEF FrameInv
<1>4. PICK l \in Nat : l = Len(f.ids)
  BY <1>3, SequenceFacts DEF IsFrame
<1>5. f.i + 1 \in 1 .. l + 1
  <2>1. f.i \in 1 .. l + 1 /\ f.i <= l
    BY <1>3, <1>4 DEF IsFrame
  <2> QED
    BY <2>1
<1> PICK place : place = "items"
  OBVIOUS
<1>6. PICK g : g = [f EXCEPT !.at = place, !.i = @ + 1]
  OBVIOUS
<1>7. g = [parameter |-> f.parameter, at |-> place, entries |-> f.entries, ids |-> f.ids,
           i |-> f.i + 1, kids |-> f.kids, success |-> f.success]
  <2>1. \A x : [f EXCEPT !.at = x, !.i = @ + 1] =
                [parameter |-> f.parameter, at |-> x, entries |-> f.entries, ids |-> f.ids,
                 i |-> f.i + 1, kids |-> f.kids, success |-> f.success]
    BY <1>3, FrameGoesOn, Zenon
  <2> QED
    BY <1>6, <2>1, Zenon
<1>8. IsFrame(g)
  BY <1>3, <1>4, <1>5, <1>7 DEF IsFrame
<1>9. FrameInv(g)
  BY <1>3, <1>7, <1>8 DEF FrameInv
<1>10. Become(g)
  BY <1>1, <1>2, <1>6, Zenon
<1> QED
  BY <1>1, <1>9, <1>10, StackReplaced

LEMMA ReturnStack ==
    ASSUME StackInv, RunSet \/ GetUnknown \/ ListDone \/ OneDone
    PROVE  StackInv'
<1>1. stack # <<>> /\ model_db' = model_db /\ command' = command
  BY DEF RunSet, GetUnknown, ListDone, OneDone, At, databaseVars
<1>2. PICK success : success = Top.success
  OBVIOUS
<1>3. success \in BOOLEAN
  BY <1>1, <1>2, TopFacts DEF FrameInv, IsFrame
<1>4. \E result \in BOOLEAN : Return(result)
  <2>1. CASE RunSet
    BY <2>1, OutcomeFacts DEF RunSet
  <2>2. CASE GetUnknown \/ ListDone \/ OneDone
    BY <1>2, <1>3, <2>2 DEF GetUnknown, ListDone, OneDone
  <2> QED
    BY <2>1, <2>2
<1> QED
  BY <1>1, <1>4, StackReturned

LEMMA UntouchedStack ==
    ASSUME StackInv, model_db' = model_db, command' = command, stack' = stack
    PROVE  StackInv'
<1>1. ASSUME NEW f PROVE FrameInv(f)' <=> FrameInv(f)
  BY SameFrames
<1> QED
  BY <1>1 DEF StackInv

LEMMA OneStack ==
    ASSUME DatabaseInv, TreeInv, StackInv, GetOne
    PROVE  StackInv'
<1>1. /\ phase = "query" /\ stack # <<>> /\ Top.at = "one"
      /\ model_db' = model_db /\ command' = command /\ ObjectsInv
  BY DEF GetOne, At, databaseVars, DatabaseInv
<1>2. PICK ok \in BOOLEAN :
        \/ Return(ok)
        \/ /\ command.recursive /\ Provider # NoProvider
           /\ Become([Top EXCEPT !.at = "kids", !.kids = Children(Name), !.success = ok])
        \/ stack' = stack
  <2>1. PICK o \in Outcomes("get", Top.parameter, {"values"}) :
            CASE ~command.recursive -> Return(o.ok) /\ UNCHANGED phase
              [] command.recursive /\ Provider # NoProvider ->
                    /\ Become([Top EXCEPT !.at = "kids", !.kids = Children(Name), !.success = o.ok])
                    /\ UNCHANGED <<returned, phase>>
              [] OTHER -> phase' = "crashed" /\ UNCHANGED <<stack, returned>>
    BY DEF GetOne
  <2>2. PICK ok : ok = o.ok
    OBVIOUS
  <2>3. ok \in BOOLEAN
    BY <2>2, OutcomeFacts
  <2>4. \/ Return(ok)
        \/ /\ command.recursive /\ Provider # NoProvider
           /\ Become([Top EXCEPT !.at = "kids", !.kids = Children(Name), !.success = ok])
        \/ stack' = stack
    BY <2>1, <2>2
  <2> QED
    BY <2>3, <2>4
<1>3. ASSUME Return(ok) PROVE StackInv'
  BY <1>1, <1>3, StackReturned
<1>4. ASSUME stack' = stack PROVE StackInv'
  BY <1>1, <1>4, UntouchedStack
<1>5. ASSUME command.recursive, Provider # NoProvider,
             Become([Top EXCEPT !.at = "kids", !.kids = Children(Name), !.success = ok])
      PROVE  StackInv'
  <2>1. PICK f : f = Top
    OBVIOUS
  <2>2. FrameInv(f) /\ f.at = "one" /\ IsFrame(f)
    BY <1>1, <2>1, TopFacts, FrameGoesOn
  <2>3. PICK kids : kids = Children(Name)
    OBVIOUS
  <2>4. IsSequence(kids) /\ Range(kids) \subseteq DOMAIN model_db
    <3>1. PICK s : s = Name /\ IsSequence(s) /\ s # <<>>
      BY <1>1, NameFacts
    <3>2. PICK p : p = ObjectPart(s) /\ IsSequence(p)
      BY <3>1, ObjectPartFacts
    <3>3. getProviderByPropertyName(Name) \in DOMAIN model_db
      BY <1>1, <1>5, <3>1, <3>2, LookupFinds DEF getProviderByPropertyName, Provider
    <3> QED
      BY <1>1, <2>3, <3>3, KidsKnown DEF Children
  <2> PICK place : place = "kids"
    OBVIOUS
  <2>5. PICK g : g = [f EXCEPT !.at = place, !.kids = kids, !.success = ok]
    OBVIOUS
  <2>6. g = [parameter |-> f.parameter, at |-> place, entries |-> f.entries, ids |-> f.ids,
             i |-> f.i, kids |-> kids, success |-> ok]
    <3>1. \A x, y, z : [f EXCEPT !.at = x, !.kids = y, !.success = z] =
                [parameter |-> f.parameter, at |-> x, entries |-> f.entries, ids |-> f.ids,
                 i |-> f.i, kids |-> y, success |-> z]
      BY <2>2, FrameGoesOn, Zenon
    <3> QED
      BY <2>5, <3>1, Zenon
  <2>7. IsFrame(g)
    BY <2>2, <2>4, <2>6 DEF IsFrame
  <2>8. FrameInv(g)
    BY <1>5, <2>2, <2>6, <2>7 DEF FrameInv
  <2>9. Become(g)
    BY <1>5, <2>1, <2>3, <2>5, Zenon
  <2> QED
    BY <1>1, <2>8, <2>9, StackReplaced
<1> QED
  BY <1>2, <1>3, <1>4, <1>5

(* A query made of a name is one again.                                    *)
LEMMA QueryMade ==
    ASSUME NEW s, IsSequence(s), s # <<>>
    PROVE  IsQuery(Query(s))
BY DEF IsQuery, Query, IsSequence

LEMMA KidStack ==
    ASSUME DatabaseInv, StackInv, command.op \in {"get", "set"}, GetKid
    PROVE  StackInv'
<1>1. /\ stack # <<>> /\ Top.at \in {"kids", "item kids"} /\ Top.kids # <<>>
      /\ model_db' = model_db /\ command' = command /\ ObjectsInv
      /\ stack' = Append(Append(Front(stack), [Top EXCEPT !.kids = Tail(@)]),
                         Frame(KidParameter(Head(Top.kids)), "get"))
  BY DEF GetKid, At, databaseVars, DatabaseInv
<1>2. PICK f : f = Top
  OBVIOUS
<1>3. FrameInv(f) /\ f.at \in {"kids", "item kids"} /\ f.kids # <<>> /\ IsFrame(f)
  BY <1>1, <1>2, TopFacts, FrameGoesOn
<1>4. PICK rest : rest = Tail(f.kids)
  OBVIOUS
<1>5. IsSequence(rest) /\ Range(rest) \subseteq DOMAIN model_db
  <2>1. PICK kids : kids = f.kids
    OBVIOUS
  <2>2. PICK D : D = DOMAIN model_db
    OBVIOUS
  <2>3. kids \in Seq(D) /\ kids # <<>>
    BY <1>3, <2>1, <2>2, WiderRange DEF IsFrame
  <2>4. rest \in Seq(D)
    BY <1>4, <2>1, <2>3
  <2>5. Range(rest) \subseteq D
    BY <2>4 DEF Range
  <2> QED
    BY <2>2, <2>4, <2>5, SeqOfRange DEF IsSequence
<1>6. PICK g : g = [f EXCEPT !.kids = Tail(@)]
  OBVIOUS
<1>7. g = [parameter |-> f.parameter, at |-> f.at, entries |-> f.entries, ids |-> f.ids,
           i |-> f.i, kids |-> rest, success |-> f.success]
  <2>1. [f EXCEPT !.kids = Tail(@)] =
                [parameter |-> f.parameter, at |-> f.at, entries |-> f.entries, ids |-> f.ids,
                 i |-> f.i, kids |-> Tail(f.kids), success |-> f.success]
    BY <1>3, FrameGoesOn, Zenon
  <2> QED
    BY <1>4, <1>6, <2>1, Zenon
<1>8. IsFrame(g)
  BY <1>3, <1>5, <1>7 DEF IsFrame
<1>9. FrameInv(g)
  BY <1>3, <1>7, <1>8 DEF FrameInv
<1>10. PICK q : q = KidParameter(Head(Top.kids))
  OBVIOUS
<1>11. IsQuery(q)
  <2>1. PICK s : s = Name /\ IsSequence(s) /\ s # <<>>
    BY <1>1, NameFacts
  <2>2. PICK p : p = (IF Top.at = "kids" THEN trimProperty(s) ELSE Append(trimWildcard(s), Top.ids[Top.i]))
    OBVIOUS
  <2>3. IsSequence(p)
    <3>1. CASE Top.at = "kids"
      BY <2>1, <2>2, <3>1, FrontFacts DEF trimProperty
    <3>2. CASE Top.at # "kids"
      <4>1. AsksForList(s)
        BY <1>1, <1>2, <1>3, <2>1, <3>2, NameFacts DEF FrameInv
      <4>2. PICK l : l = trimWildcard(s) /\ IsSequence(l)
        BY <1>1, <2>1, <4>1, WildcardFacts DEF AsksForList
      <4> QED
        BY <2>2, <3>2, <4>2, AppendFacts
    <3> QED
      BY <3>1, <3>2
  <2>4. q = Query(Below(p, trimPropertyName(Head(Top.kids))))
    BY <1>10, <2>1, <2>2 DEF KidParameter, ListName
  <2>5. PICK s2 : s2 = Below(p, trimPropertyName(Head(Top.kids))) /\ IsSequence(s2) /\ s2 # <<>>
    BY <2>3, BelowFacts
  <2> QED
    BY <2>4, <2>5, QueryMade
<1>12. command.op = "get"
  BY <1>3 DEF FrameInv
<1>13. PICK h : h = Frame(q, "get")
  OBVIOUS
<1>14. FrameInv(h)
  BY <1>11, <1>12, <1>13, FrameBegins
<1>15. PICK s : s = Append(Front(stack), g)
  OBVIOUS
<1>16. Waiting(s)
  <2>1. PICK t : t = Front(stack) /\ Waiting(t)
    BY <1>1, TopFacts DEF Waiting
  <2>2. g.at = f.at
    BY <1>7
  <2>3. PICK l \in Nat : l = Len(t)
    BY <2>1, SequenceFacts DEF Waiting
  <2>4. /\ IsSequence(s) /\ Len(s) = l + 1
        /\ \A k \in 1 .. l : s[k] = t[k]
        /\ s[l + 1] = g
    <3>1. s = Append(t, g) /\ IsSequence(t)
      BY <1>15, <2>1 DEF Waiting
    <3> QED
      BY <2>3, <3>1, AppendFacts
  <2>5. ASSUME NEW k \in 1 .. l + 1
        PROVE  FrameInv(s[k]) /\ s[k].at \in {"kids", "item kids"}
    <3>0. k = l + 1 \/ k \in 1 .. l
      OBVIOUS
    <3>1. CASE k = l + 1
      BY <1>3, <1>9, <2>2, <2>4, <3>1
    <3>2. CASE k \in 1 .. l
      <4>1. FrameInv(t[k]) /\ t[k].at \in {"kids", "item kids"}
        BY <2>1, <2>3, <3>2 DEF Waiting
      <4>2. s[k] = t[k]
        BY <2>4, <3>2
      <4> QED
        BY <4>1, <4>2
    <3> QED
      BY <3>0, <3>1, <3>2
  <2> QED
    BY <2>4, <2>5 DEF Waiting
<1>17. stack' = Append(s, h)
  <2>1. [Top EXCEPT !.kids = Tail(@)] = g
    BY <1>2, <1>6, Zenon
  <2> QED
    BY <1>1, <1>10, <1>13, <1>15, <2>1, Zenon
<1> QED
  BY <1>1, <1>14, <1>16, <1>17, StackOf

LEMMA QueryStack ==
    ASSUME command.op \in {"get", "set"}, AreQueries(tokens), RunQuery
    PROVE  StackInv' /\ stack' # <<>> /\ Top'.at \in {"get", "set"} /\ AreQueries(tokens')
<1>1. /\ tokens # <<>> /\ tokens' = Tail(tokens) /\ model_db' = model_db /\ command' = command
      /\ stack' = <<Frame(Head(tokens), IF command.op = "get" THEN "get" ELSE "set")>>
  BY DEF RunQuery, databaseVars
<1>2. PICK l \in Nat : l = Len(tokens)
  BY SequenceFacts DEF AreQueries
<1>3. l # 0 /\ IsSequence(tokens)
  BY <1>1, <1>2, SequenceFacts DEF AreQueries
<1>4. PICK q : q = Head(tokens)
  OBVIOUS
<1>5. IsQuery(q)
  BY <1>2, <1>3, <1>4 DEF AreQueries, IsSequence
<1>6. PICK f : f = Frame(q, command.op)
  OBVIOUS
<1>7. FrameInv(f) /\ f.at = command.op
  BY <1>5, <1>6, FrameBegins DEF Frame
<1>8. Waiting(<<>>) /\ Append(<<>>, f) = <<f>>
  BY DEF Waiting, IsSequence
<1>9. stack' = <<f>>
  BY <1>1, <1>4, <1>6
<1>10. StackInv'
  BY <1>1, <1>7, <1>8, <1>9, StackOf
<1>11. stack' # <<>> /\ Top' = f
  BY <1>9 DEF Top, Last
<1>12. AreQueries(tokens')
  <2>1. PICK t : t = Tail(tokens)
    OBVIOUS
  <2>2. t \in Seq(Range(tokens)) /\ Len(t) = l - 1 /\ \A k \in 1 .. l - 1 : t[k] = tokens[k + 1]
    BY <1>2, <1>3, <2>1 DEF IsSequence
  <2>3. IsSequence(t)
    BY <2>2, SeqOfRange DEF IsSequence
  <2>4. ASSUME NEW k \in 1 .. l - 1 PROVE IsQuery(t[k])
    <3>1. k + 1 \in 1 .. l
      OBVIOUS
    <3> QED
      BY <1>2, <2>2, <3>1 DEF AreQueries
  <2> QED
    BY <1>1, <2>1, <2>2, <2>3, <2>4 DEF AreQueries
<1> QED
  BY <1>7, <1>10, <1>11, <1>12

-----------------------------------------------------------------------------
(***************************************************************************)
(* The invariant.                                                          *)
(***************************************************************************)
ControlInv ==
    /\ command \in Commands
    /\ phase \in {"load", "query", "exit", "crashed"}
    /\ AreQueries(tokens)

(* A get that does not recurse is one activation, and what its notifier was *)
(* told is how far it has come.                                             *)
AnswerInv ==
    ~command.recursive /\ stack # <<>> =>
        /\ IsSequence(notes)
        /\ Top.at # "items" => notes = <<>>
        /\ Top.at = "items" =>
            /\ ListName \in DOMAIN lists /\ lists[ListName] = Top.ids
            /\ Len(notes) = Top.i - 1
            /\ Top.success <=> "error" \notin Range(notes)

IInv == DatabaseInv /\ TreeInv /\ ControlInv /\ StackInv /\ AnswerInv

LEMMA CommandStays ==
    ASSUME [Next]_vars
    PROVE  command' = command
BY DEF Next, vars, clientVars, Load, Loaded, RunQuery, Exit, RunSet, GetUnknown, GetBegins, GetNumber,
       GetIds, GetItem, ItemDone, ListDone, GetOne, GetKid, OneDone

LEMMA ControlStep ==
    ASSUME ControlInv, [Next]_vars
    PROVE  ControlInv'
<1>1. command' \in Commands
  BY CommandStays, SMTT(40) DEF ControlInv
<1>2. phase' \in {"load", "query", "exit", "crashed"}
  BY DEF ControlInv, Next, vars, clientVars, Load, Loaded, RunQuery, Exit, RunSet, GetUnknown,
         GetBegins, GetNumber, GetIds, GetItem, ItemDone, ListDone, GetOne, GetKid, OneDone
<1>3. AreQueries(tokens')
  <2>1. CASE Loaded
    <3>1. PICK inbracket \in BOOLEAN : tokens' = SplitParams(command.params, inbracket)
      BY <2>1 DEF Loaded
    <3>2. PICK params : params = command.params
      OBVIOUS
    <3>3. AreQueries(params)
      BY <3>2, CommandFacts DEF ControlInv, AreQueries
    <3>4. AreQueries(SplitParams(params, inbracket))
      BY <3>3, SplitFacts
    <3> QED
      BY <3>1, <3>2, <3>4
  <2>2. CASE RunQuery
    BY <2>2, CommandFacts, QueryStack DEF ControlInv
  <2>3. CASE ~Loaded /\ ~RunQuery
    <3>1. tokens' = tokens
      BY <2>3 DEF Next, vars, clientVars, Load, Exit, RunSet, GetUnknown, GetBegins, GetNumber,
                  GetIds, GetItem, ItemDone, ListDone, GetOne, GetKid, OneDone
    <3> QED
      BY <3>1, SMTT(40) DEF ControlInv
  <2> QED
    BY <2>1, <2>2, <2>3
<1> QED
  BY <1>1, <1>2, <1>3 DEF ControlInv

LEMMA TreeStep ==
    ASSUME TreeInv, [Next]_vars
    PROVE  TreeInv'
<1>1. CASE Load
  <2>1. phase = "load" /\ phase' = phase /\ stack' = stack /\ model_roots' = model_roots
    BY <1>1 DEF Load, LoadFile, clientVars
  <2> QED
    BY <2>1 DEF TreeInv
<1>2. CASE Loaded
  <2>1. phase' = "query" /\ BuildProviderTree
    BY <1>2 DEF Loaded
  <2>2. model_db' = model_db /\ unread' = unread
    BY <2>1 DEF BuildProviderTree
  <2>3. \A p : ChildrenOf(p)' = ChildrenOf(p)
    BY <2>2 DEF ChildrenOf
  <2> QED
    BY <2>1, <2>2, <2>3 DEF TreeInv, BuildProviderTree
<1>3. CASE ~Load /\ ~Loaded
  <2>1. UNCHANGED databaseVars /\ (phase' = "load" <=> phase = "load")
    BY <1>3 DEF Next, vars, clientVars, RunQuery, Exit, RunSet, GetUnknown, GetBegins, GetNumber,
                GetIds, GetItem, ItemDone, ListDone, GetOne, GetKid, OneDone, At
  <2>2. /\ unread' = unread /\ model_db' = model_db /\ m_children' = m_children
        /\ model_roots' = model_roots
    BY <2>1 DEF databaseVars
  <2>3. \A p : ChildrenOf(p)' = ChildrenOf(p)
    BY <2>2 DEF ChildrenOf
  <2>4. phase = "load" => stack' = stack
    BY <1>3 DEF Next, vars, clientVars, RunQuery, Exit, RunSet, GetUnknown, GetBegins, GetNumber,
                GetIds, GetItem, ItemDone, ListDone, GetOne, GetKid, OneDone, At
  <2> QED
    BY <2>1, <2>2, <2>3, <2>4, SMTT(40) DEF TreeInv
<1> QED
  BY <1>1, <1>2, <1>3

LEMMA StackStep ==
    ASSUME DatabaseInv, TreeInv, ControlInv, StackInv, [Next]_vars
    PROVE  StackInv'
<1>1. command.op \in {"get", "set"} /\ command.recursive \in BOOLEAN /\ command' = command /\ ObjectsInv
  BY CommandFacts, CommandStays DEF ControlInv, DatabaseInv
<1>2. CASE Load \/ Loaded
  <2>1. stack = <<>> /\ stack' = stack
    BY <1>2 DEF Load, Loaded, clientVars, TreeInv
  <2>2. IsSequence(<<>>) /\ Len(<<>>) = 0
    BY DEF IsSequence
  <2>3. IsSequence(stack') /\ 1 .. Len(stack') = {}
    BY <2>1, <2>2
  <2> QED
    BY <2>3 DEF StackInv
<1>3. CASE RunQuery
  BY <1>1, <1>3, QueryStack DEF ControlInv
<1>4. CASE Exit \/ UNCHANGED vars
  <2>1. stack' = stack /\ model_db' = model_db
    BY <1>4 DEF Exit, vars, clientVars, databaseVars
  <2> QED
    BY <1>1, <2>1, UntouchedStack
<1>5. CASE RunSet \/ GetUnknown \/ ListDone \/ OneDone
  BY <1>5, ReturnStack
<1>6. CASE GetBegins
  BY <1>1, <1>6, BeginsStack
<1>7. CASE GetNumber
  BY <1>1, <1>7, NumberStack
<1>8. CASE GetIds
  BY <1>1, <1>8, IdsStack
<1>9. CASE GetItem
  BY <1>1, <1>9, ItemStack
<1>10. CASE ItemDone
  BY <1>10, ItemDoneStack
<1>11. CASE GetOne
  BY <1>11, OneStack
<1>12. CASE GetKid
  BY <1>1, <1>12, KidStack
<1> QED
  BY <1>2, <1>3, <1>4, <1>5, <1>6, <1>7, <1>8, <1>9, <1>10, <1>11, <1>12 DEF Next

LEMMA NoteFacts ==
    ASSUME NEW s, IsSequence(s), NEW x
    PROVE  /\ IsSequence(Append(s, x)) /\ Len(Append(s, x)) = Len(s) + 1 /\ Append(s, x) # <<>>
           /\ Range(Append(s, x)) = Range(s) \cup {x}
<1>1. PICK t : t = Append(s, x)
  OBVIOUS
<1>2. PICK l \in Nat : l = Len(s)
  BY SequenceFacts
<1>3. /\ IsSequence(t) /\ Len(t) = l + 1 /\ t # <<>>
      /\ \A k \in 1 .. l : t[k] = s[k]
      /\ t[l + 1] = x
  BY <1>1, <1>2, AppendFacts
<1>4. DOMAIN s = 1 .. l /\ DOMAIN t = 1 .. l + 1
  BY <1>2, <1>3, SequenceFacts
<1>5. 1 .. l + 1 = 1 .. l \cup {l + 1}
  OBVIOUS
<1>6. Range(t) = Range(s) \cup {x}
  BY <1>3, <1>4, <1>5 DEF Range
<1> QED
  BY <1>1, <1>2, <1>3, <1>6

LEMMA FirstNote ==
    ASSUME NEW x
    PROVE  /\ IsSequence(<<>>) /\ Len(Append(<<>>, x)) = 1 /\ Append(<<>>, x) # <<>>
           /\ Range(Append(<<>>, x)) = {x}
<1>1. IsSequence(<<>>) /\ Len(<<>>) = 0 /\ Range(<<>>) = {}
  BY DEF IsSequence, Range
<1>2. PICK s : s = <<>>
  OBVIOUS
<1>3. /\ Len(Append(s, x)) = Len(s) + 1 /\ Append(s, x) # <<>>
      /\ Range(Append(s, x)) = Range(s) \cup {x}
  BY <1>1, <1>2, NoteFacts
<1> QED
  BY <1>1, <1>2, <1>3

(* Without recursion there is one activation, and it has no children.      *)
LEMMA OneActivation ==
    ASSUME StackInv, stack # <<>>, ~command.recursive
    PROVE  Len(stack) = 1 /\ Top = stack[1] /\ Top.at \notin {"kids", "item kids"}
<1>1. PICK l \in Nat \ {0} : l = Len(stack)
  BY TopFacts
<1>2. FrameInv(Top) /\ Top = stack[l]
  BY <1>1, TopFacts
<1>3. Top.at \notin {"kids", "item kids"}
  BY <1>2 DEF FrameInv
<1>4. ASSUME l # 1 PROVE FALSE
  <2>1. 1 \in 1 .. l - 1
    BY <1>4
  <2>2. FrameInv(stack[1]) /\ stack[1].at \in {"kids", "item kids"}
    BY <1>1, <2>1, TopFacts
  <2> QED
    BY <2>2 DEF FrameInv
<1> QED
  BY <1>1, <1>2, <1>3, <1>4

LEMMA LastReturn ==
    ASSUME StackInv, stack # <<>>, ~command.recursive, NEW result, Return(result)
    PROVE  stack' = <<>> /\ returned' = result
BY OneActivation DEF Return

LEMMA PutFacts ==
    ASSUME NEW f, NEW x, NEW v
    PROVE  x \in DOMAIN Put(f, x, v) /\ Put(f, x, v)[x] = v
BY DEF Put

LEMMA AnswerStep ==
    ASSUME DatabaseInv, TreeInv, ControlInv, StackInv, AnswerInv, [Next]_vars
    PROVE  AnswerInv'
<1>1. command.op \in {"get", "set"} /\ command.recursive \in BOOLEAN /\ command' = command /\ ObjectsInv
  BY CommandFacts, CommandStays DEF ControlInv, DatabaseInv
<1> SUFFICES ASSUME ~command.recursive, stack' # <<>>
             PROVE  AnswerInv'
  BY <1>1 DEF AnswerInv
<1> DEFINE Empty == IsSequence(notes') /\ notes' = <<>> /\ Top'.at # "items"
<1>2. ASSUME Empty PROVE AnswerInv'
  BY <1>2 DEF AnswerInv
<1>3. IsSequence(<<>>)
  BY DEF IsSequence
<1>4. CASE Load \/ Loaded
  BY <1>4 DEF Load, Loaded, clientVars, TreeInv
<1>5. CASE RunQuery
  <2>1. notes' = <<>> /\ Top'.at \in {"get", "set"}
    BY <1>1, <1>5, QueryStack DEF ControlInv, RunQuery
  <2> QED
    BY <1>2, <1>3, <2>1
<1>6. CASE Exit \/ UNCHANGED vars
  <2>1. stack' = stack /\ (UNCHANGED vars \/ stack = <<>>)
    BY <1>6 DEF Exit, vars, clientVars
  <2>2. notes' = notes /\ lists' = lists
    BY <2>1 DEF vars, clientVars, history
  <2>3. Top' = Top /\ Name' = Name /\ ListName' = ListName
    BY <2>1 DEF Top, Name, ListName
  <2> QED
    BY <1>1, <2>1, <2>2, <2>3 DEF AnswerInv
<1>7. CASE stack = <<>>
  BY <1>4, <1>5, <1>6, <1>7 DEF Next, RunSet, GetUnknown, GetBegins, GetNumber, GetIds, GetItem, ItemDone,
     ListDone, GetOne, GetKid, OneDone, At
<1> SUFFICES ASSUME stack # <<>> PROVE AnswerInv'
  BY <1>7
<1>8. /\ IsSequence(notes) /\ (Top.at # "items" => notes = <<>>)
      /\ Top.at \notin {"kids", "item kids"}
  BY OneActivation DEF AnswerInv
<1>9. ASSUME NEW result, Return(result) PROVE FALSE
  BY <1>9, LastReturn
<1>10. CASE RunSet \/ GetUnknown \/ ListDone \/ OneDone
  BY <1>9, <1>10 DEF RunSet, GetUnknown, ListDone, OneDone
<1>11. CASE GetBegins
  <2>1. Top.at = "get" /\ notes' = notes
    BY <1>11 DEF GetBegins, At
  <2>2. Top'.at \in {"number", "one"}
    BY <1>1, <1>11, BeginsStack
  <2> QED
    BY <1>2, <1>3, <1>8, <2>1, <2>2
<1>12. CASE GetNumber
  <2>1. Top.at = "number"
    BY <1>12 DEF GetNumber, At
  <2>2. Top'.at = "ids" /\ notes' = notes
    BY <1>1, <1>9, <1>12, NumberStack
  <2> QED
    BY <1>2, <1>3, <1>8, <2>1, <2>2
<1>13. CASE GetIds
  <2>1. Top.at = "ids"
    BY <1>13 DEF GetIds, At
  <2>2. /\ Top'.at = "items" /\ Top'.parameter = Top.parameter
        /\ Top'.i = 1 /\ Top'.success = TRUE
        /\ lists' = Put(lists, ListName, Top'.ids) /\ notes' = notes
    BY <1>1, <1>9, <1>13, IdsStack
  <2>3. ListName' = ListName
    BY <2>2 DEF ListName, Name
  <2>4. ListName \in DOMAIN lists' /\ lists'[ListName] = Top'.ids
    <3>1. PICK x : x = ListName
      OBVIOUS
    <3>2. PICK ids : ids = Top'.ids
      OBVIOUS
    <3>3. lists' = Put(lists, x, ids)
      BY <2>2, <3>1, <3>2
    <3>4. PICK old : old = lists
      OBVIOUS
    <3> QED
      BY <3>1, <3>2, <3>3, <3>4, PutFacts
  <2>5. notes' = <<>> /\ Len(notes') = 0 /\ Range(notes') = {}
    BY <1>8, <2>1, <2>2 DEF Range
  <2>6. Len(notes') = Top'.i - 1
    BY <2>2, <2>5
  <2> QED
    BY <1>3, <2>2, <2>3, <2>4, <2>5, <2>6 DEF AnswerInv
<1>14. CASE GetItem
  <2>1. Top.at = "items" /\ lists' = lists
    BY <1>14 DEF GetItem, At
  <2>2. /\ Top'.at = "items" /\ Top'.parameter = Top.parameter
        /\ Top'.i = Top.i + 1 /\ Top'.ids = Top.ids
        /\ \E ok \in BOOLEAN :
            /\ Top'.success = (Top.success /\ ok)
            /\ notes' = Append(notes, IF ok THEN "result" ELSE "error")
    BY <1>1, <1>14, ItemStack
  <2>3. PICK ok \in BOOLEAN :
            /\ Top'.success = (Top.success /\ ok)
            /\ notes' = Append(notes, IF ok THEN "result" ELSE "error")
    BY <2>2
  <2>4. ListName' = ListName
    BY <2>2 DEF ListName, Name
  <2>5. /\ ListName \in DOMAIN lists /\ lists[ListName] = Top.ids
        /\ Len(notes) = Top.i - 1
        /\ Top.success <=> "error" \notin Range(notes)
    BY <2>1 DEF AnswerInv
  <2>6. PICK x : x = (IF ok THEN "result" ELSE "error")
    OBVIOUS
  <2>7. PICK s : s = notes
    OBVIOUS
  <2>8. IsSequence(s) /\ notes' = Append(s, x)
    BY <1>8, <2>3, <2>6, <2>7
  <2>9. /\ IsSequence(notes') /\ Len(notes') = Len(notes) + 1
        /\ Range(notes') = Range(notes) \cup {x}
    BY <2>7, <2>8, NoteFacts
  <2>10. Top'.success <=> "error" \notin Range(notes')
    BY <2>3, <2>5, <2>6, <2>9
  <2>11. Len(notes') = Top'.i - 1
    <3>1. Top.i \in Nat
      <4>1. PICK l \in Nat : l = Len(Top.ids)
        BY TopFacts, SequenceFacts DEF FrameInv, IsFrame
      <4>2. Top.i \in 1 .. l + 1
        BY <4>1, TopFacts DEF FrameInv, IsFrame
      <4> QED
        BY <4>2
    <3>2. Len(notes) \in Nat
      BY <1>8, SequenceFacts
    <3> QED
      BY <2>2, <2>5, <2>9, <3>1, <3>2
  <2> QED
    BY <2>1, <2>2, <2>4, <2>5, <2>9, <2>10, <2>11 DEF AnswerInv
<1>15. CASE ItemDone \/ GetKid
  BY <1>8, <1>15 DEF ItemDone, GetKid, At
<1>16. CASE GetOne
  BY <1>9, <1>16 DEF GetOne
<1> QED
  BY <1>4, <1>5, <1>6, <1>10, <1>11, <1>12, <1>13, <1>14, <1>15, <1>16 DEF Next

(* What the last of the activations leaves behind.                         *)
LEMMA AnswerGiven ==
    ASSUME DatabaseInv, TreeInv, ControlInv, StackInv, AnswerInv, [Next]_vars,
           QueryReturns, ~command.recursive
    PROVE  /\ ~(command.op = "get" /\ AsksForNothing(Asked)) =>
                Len(notes') =
                    IF command.op = "get" /\ AsksForList(Asked) /\ Entries(Asked) # <<>>
                    THEN Len(Entries(Asked)) ELSE 1
           /\ returned' <=> notes' # <<>> /\ "error" \notin Range(notes')
<1> DEFINE Nobody == command.op = "get" /\ AsksForNothing(Asked)
           Entered == command.op = "get" /\ AsksForList(Asked) /\ Entries(Asked) # <<>>
           Count == IF Entered THEN Len(Entries(Asked)) ELSE 1
           True == notes' # <<>> /\ "error" \notin Range(notes')
           Goal == (~Nobody => Len(notes') = Count) /\ (returned' <=> True)
<1> SUFFICES Goal
  OBVIOUS
<1>1. /\ command.op \in {"get", "set"} /\ command.recursive \in BOOLEAN
      /\ command' = command /\ ObjectsInv
  BY CommandFacts, CommandStays DEF ControlInv, DatabaseInv
<1>2. Len(stack) = 1 /\ stack' = <<>> /\ stack # <<>>
  BY SequenceFacts DEF QueryReturns, StackInv
<1>3. /\ Top = stack[1] /\ Asked = Name /\ FrameInv(Top) /\ Top.at \notin {"kids", "item kids"}
      /\ Name = Whole(Top.parameter) /\ IsSequence(Name) /\ Name # <<>>
  BY <1>1, <1>2, OneActivation, TopFacts, NameFacts DEF Asked
<1>4. IsSequence(notes) /\ (Top.at # "items" => notes = <<>>)
  BY <1>2 DEF AnswerInv
<1>5. AsksForList(Asked) => ~AsksForNothing(Asked)
  <2>1. PICK n : n = Named(trimWildcard(Asked))
    OBVIOUS
  <2>2. IsListName(n) => n # NoProvider
    BY <1>1, ObjectFacts DEF IsListName
  <2> QED
    BY <2>1, <2>2 DEF AsksForList, AsksForNothing, NamesList
<1>7. (Entered => Count = Len(Entries(Asked))) /\ (~Entered => Count = 1)
  OBVIOUS
<1> HIDE DEF Nobody, Entered, Count, True
<1>8. ASSUME NEW ok \in BOOLEAN, notes = <<>>, ~Nobody, ~Entered,
             notes' = Append(notes, IF ok THEN "result" ELSE "error"), returned' = ok
      PROVE  Goal
  <2>1. PICK x : x = (IF ok THEN "result" ELSE "error")
    OBVIOUS
  <2>2. notes' = Append(<<>>, x)
    BY <1>8, <2>1
  <2>3. Len(notes') = 1 /\ notes' # <<>> /\ Range(notes') = {x}
    BY <2>2, FirstNote
  <2>4. returned' <=> True
    BY <1>8, <2>1, <2>3 DEF True
  <2> QED
    BY <1>7, <1>8, <2>3, <2>4
<1>9. ASSUME NEW result, Return(result) PROVE returned' = result
  BY <1>2, <1>9, LastReturn
<1>10. ASSUME ListFails, AsksForList(Asked), Top.at # "items" PROVE Goal
  <2>1. /\ notes' = Append(notes, IF FALSE THEN "result" ELSE "error") /\ returned' = FALSE
        /\ lists' = Put(lists, ListName, <<>>)
    BY <1>9, <1>10 DEF ListFails, OnError
  <2>2. Entries(Asked) = <<>>
    <3>1. PICK x : x = ListName
      OBVIOUS
    <3>2. PICK old : old = lists
      OBVIOUS
    <3>3. x \in DOMAIN lists' /\ lists'[x] = <<>>
      BY <2>1, <3>1, <3>2, PutFacts
    <3> QED
      BY <1>3, <3>1, <3>3 DEF Entries, ListName
  <2>3. ~Nobody /\ ~Entered
    BY <1>5, <1>10, <2>2 DEF Nobody, Entered
  <2> QED
    BY <1>4, <1>8, <1>10, <2>1, <2>3
<1>11. CASE Load \/ Loaded \/ RunQuery \/ Exit \/ UNCHANGED vars
  BY <1>2, <1>11 DEF Load, Loaded, RunQuery, Exit, TreeInv, vars, clientVars
<1>12. CASE RunSet
  <2>1. Top.at = "set" /\ command.op = "set"
    BY <1>3, <1>12 DEF RunSet, At, FrameInv
  <2>2. PICK o \in Outcomes("set", Top.parameter, {"value"}) : Notify(o) /\ Return(o.ok)
    BY <1>12 DEF RunSet
  <2>3. PICK ok : ok = o.ok
    OBVIOUS
  <2>4. ok \in BOOLEAN
    BY <2>3, OutcomeFacts
  <2>5. notes' = Append(notes, IF ok THEN "result" ELSE "error") /\ returned' = ok
    BY <1>9, <2>2, <2>3 DEF Notify
  <2>6. ~Nobody /\ ~Entered
    BY <2>1 DEF Nobody, Entered
  <2> QED
    BY <1>4, <1>8, <2>1, <2>4, <2>5, <2>6
<1>13. CASE GetUnknown
  <2>1. /\ Top.at = "get" /\ isWildcard(Name) /\ Provider = NoProvider
        /\ Return(FALSE) /\ notes' = notes
    BY <1>13 DEF GetUnknown, At
  <2>2. command.op = "get"
    BY <1>3, <2>1 DEF FrameInv
  <2>3. PICK s : s = Name
    OBVIOUS
  <2>4. getProviderByPropertyName(s) = Named(trimWildcard(s))
    BY <1>1, <1>3, <2>1, <2>3, WildcardFacts
  <2>5. Nobody
    BY <1>3, <2>1, <2>2, <2>3, <2>4 DEF Nobody, AsksForNothing, Provider
  <2>6. notes' = <<>> /\ returned' = FALSE
    BY <1>4, <1>9, <2>1
  <2> QED
    BY <2>5, <2>6 DEF True
<1>14. CASE GetBegins
  BY <1>1, <1>2, <1>14, BeginsStack
<1>15. CASE GetNumber
  <2>1. Top.at = "number" /\ AsksForList(Asked)
    BY <1>3, <1>15 DEF GetNumber, At, FrameInv
  <2>2. ListFails \/ \E f : Become(f)
    BY <1>15 DEF GetNumber
  <2>3. ~ \E f : Become(f)
    <3>1. ASSUME NEW f, Become(f) PROVE FALSE
      <4>1. PICK s : s = Front(stack) /\ IsSequence(s)
        BY <1>2, TopFacts
      <4> QED
        BY <1>2, <3>1, <4>1, AppendFacts DEF Become
    <3> QED
      BY <3>1
  <2> QED
    BY <1>10, <2>1, <2>2, <2>3
<1>16. CASE GetIds
  <2>1. Top.at = "ids" /\ AsksForList(Asked)
    BY <1>3, <1>16 DEF GetIds, At, FrameInv
  <2>2. ListFails \/ \E f : Become(f)
    BY <1>16 DEF GetIds, Mismatch
  <2>3. ~ \E f : Become(f)
    <3>1. ASSUME NEW f, Become(f) PROVE FALSE
      <4>1. PICK s : s = Front(stack) /\ IsSequence(s)
        BY <1>2, TopFacts
      <4> QED
        BY <1>2, <3>1, <4>1, AppendFacts DEF Become
    <3> QED
      BY <3>1
  <2> QED
    BY <1>10, <2>1, <2>2, <2>3
<1>17. CASE GetItem
  BY <1>1, <1>2, <1>17, ItemStack
<1>18. CASE ItemDone \/ GetKid \/ OneDone
  BY <1>3, <1>18 DEF ItemDone, GetKid, OneDone, At
<1>19. CASE ListDone
  <2>1. /\ Top.at = "items" /\ Top.i > Len(Top.ids) /\ Return(Top.success)
        /\ notes' = notes /\ lists' = lists
    BY <1>19 DEF ListDone, At, history
  <2>2. /\ ListName \in DOMAIN lists /\ lists[ListName] = Top.ids
        /\ Len(notes) = Top.i - 1
        /\ Top.success <=> "error" \notin Range(notes)
    BY <1>2, <2>1 DEF AnswerInv
  <2>3. /\ command.op = "get" /\ AsksForList(Asked) /\ Top.ids # <<>>
        /\ IsSequence(Top.ids) /\ Top.i \in 1 .. Len(Top.ids) + 1 /\ Top.success \in BOOLEAN
    BY <1>3, <2>1 DEF FrameInv, IsFrame
  <2>4. Entries(Asked) = Top.ids
    BY <1>3, <2>1, <2>2 DEF Entries, ListName
  <2>5. PICK l \in Nat : l = Len(Top.ids)
    BY <2>3, SequenceFacts
  <2>6. l # 0
    BY <2>3, <2>5, SequenceFacts
  <2>7. Top.i = l + 1
    <3>1. Top.i \in 1 .. l + 1 /\ Top.i > l
      BY <2>1, <2>3, <2>5
    <3> QED
      BY <3>1
  <2>8. Len(notes) = l
    BY <2>2, <2>7
  <2>9. notes' # <<>> /\ Len(notes') = Len(Entries(Asked))
    BY <1>4, <2>1, <2>4, <2>5, <2>6, <2>8, SequenceFacts
  <2>10. Entered
    BY <2>3, <2>4 DEF Entered
  <2>11. returned' = Top.success
    BY <1>9, <2>1
  <2>12. returned' <=> True
    BY <2>1, <2>2, <2>3, <2>9, <2>11 DEF True
  <2> QED
    BY <1>7, <2>9, <2>10, <2>12
<1>20. CASE GetOne
  <2>1. Top.at = "one"
    BY <1>20 DEF GetOne, At
  <2>2. ~AsksForList(Asked) /\ ~AsksForNothing(Asked)
    BY <1>3, <2>1 DEF FrameInv
  <2>3. ~Nobody /\ ~Entered
    BY <2>2 DEF Nobody, Entered
  <2>4. PICK o \in Outcomes("get", Top.parameter, {"values"}) :
            /\ Notify(o)
            /\ CASE ~command.recursive -> Return(o.ok) /\ UNCHANGED phase
                 [] command.recursive /\ Provider # NoProvider ->
                        /\ Become([Top EXCEPT !.at = "kids", !.kids = Children(Name), !.success = o.ok])
                        /\ UNCHANGED <<returned, phase>>
                 [] OTHER -> phase' = "crashed" /\ UNCHANGED <<stack, returned>>
    BY <1>20 DEF GetOne
  <2>5. PICK ok : ok = o.ok
    OBVIOUS
  <2>6. ok \in BOOLEAN
    BY <2>5, OutcomeFacts
  <2>7. Return(ok)
    BY <2>4, <2>5
  <2>8. notes' = Append(notes, IF ok THEN "result" ELSE "error") /\ returned' = ok
    BY <1>9, <2>4, <2>5, <2>7 DEF Notify
  <2> QED
    BY <1>4, <1>8, <2>1, <2>3, <2>6, <2>8
<1> QED
  BY <1>11, <1>12, <1>13, <1>14, <1>15, <1>16, <1>17, <1>18, <1>19, <1>20 DEF Next

-----------------------------------------------------------------------------
(***************************************************************************)
(* A recursive get.                                                        *)
(***************************************************************************)
Begins(b, v) == Len(b) <= Len(v) /\ \A i \in 1 .. Len(b) : v[i] = b[i]

Known(p) == Named(p) # NoProvider
Kids(p) == {trimPropertyName(kid) : kid \in Range(m_children[Named(p)])}

(* What an activation asks for, and what it has still to ask for.          *)
Target(f) == ObjectPart(Whole(f.parameter))
Base(f) == IF f.at = "kids" THEN Target(f) ELSE Append(Target(f), f.ids[f.i])

ItemsFrom(f, i) == {Append(Target(f), f.ids[j]) : j \in i .. Len(f.ids)}
KidsLeft(f) == {Append(Base(f), trimPropertyName(f.kids[j])) : j \in 1 .. Len(f.kids)}

Due(f) ==
    CASE f.at \in {"get", "one", "number", "ids"} -> {Target(f)}
      [] f.at = "items" -> ItemsFrom(f, f.i)
      [] f.at = "item kids" -> ItemsFrom(f, f.i + 1) \cup KidsLeft(f)
      [] f.at = "kids" -> KidsLeft(f)
      [] OTHER -> {}

AllDue(s) == UNION {Due(s[k]) : k \in 1 .. Len(s)}

(* Of each activation: it asks for something, if for a list then by its    *)
(* name and a dot, for nothing twice and for nothing another does.         *)
Getting(f) ==
    /\ f.at # "set"
    /\ Known(Target(f))
    /\ NamesList(Target(f)) => isWildcard(Whole(f.parameter))
    /\ \A i, j \in 1 .. Len(f.ids) : f.ids[i] = f.ids[j] => i = j
    /\ \A i, j \in 1 .. Len(f.kids) :
            trimPropertyName(f.kids[i]) = trimPropertyName(f.kids[j]) => i = j

Shared(s) ==
    /\ \A k \in 1 .. Len(s) : Getting(s[k])
    /\ \A j, k \in 1 .. Len(s) : j # k => Due(s[j]) \cap Due(s[k]) = {}

(* Names met so far: asked for, lists whose entries were learned, and due. *)
Met(due, a, l) == Range(a) \cup DOMAIN l \cup due

Typed(due, a, l) ==
    /\ IsSequence(a) /\ \A i, j \in 1 .. Len(a) : a[i] = a[j] => i = j
    /\ \A x \in Met(due, a, l) : IsSequence(x) /\ Known(x)
    /\ \A x \in Range(a) : ~NamesList(x)
    /\ \A x \in DOMAIN l : NamesList(x)

(* What is due is below nothing else that is due, and nothing at it or     *)
(* below it was met.                                                       *)
Apart(due, a, l) ==
    /\ \A b, c \in due : b # c => ~Begins(b, c)
    /\ \A b \in due, x \in Range(a) \cup DOMAIN l : ~Begins(b, x)

(* Nothing below what was asked for is forgotten, and nothing else asked.  *)
Complete(first, due, a, l) ==
    /\ first \in Met(due, a, l)
    /\ \A p \in Range(a) : \A kid \in Kids(p) : Append(p, kid) \in Met(due, a, l)
    /\ \A p \in DOMAIN l : \A id \in Range(l[p]) : Append(p, id) \in Met(due, a, l)

Reached(first, due, a, l) ==
    \A x \in Met(due, a, l) :
        \/ x = first
        \/ \E p \in Range(a) : \E kid \in Kids(p) : x = Append(p, kid)
        \/ \E p \in DOMAIN l : \E id \in Range(l[p]) : x = Append(p, id)

Progress(first, due, a, l) ==
    /\ Typed(due, a, l) /\ Apart(due, a, l)
    /\ Complete(first, due, a, l) /\ Reached(first, due, a, l)

-----------------------------------------------------------------------------
(***************************************************************************)
(* The names of children and of entries.                                   *)
(***************************************************************************)
(* The child of an object is named below each instance of the object.      *)
LEMMA BareKid ==
    ASSUME ObjectsInv, NEW p, IsSequence(p), IsBare(p), Known(p), ~NamesList(p),
           NEW c, Append(Named(p), c) \in DOMAIN model_db
    PROVE  /\ Named(Append(p, c)) = Append(Named(p), c)
           /\ NamesList(Append(p, c)) <=> model_db[Append(Named(p), c)].isList
<1>0. Bare(p) = p /\ p # <<>>
  BY BareItself, NamesAreLong DEF Known
<1>1. PICK n : n = Named(p) /\ n \in DOMAIN model_db /\ IsNamed(p, n)
  BY <1>0, NamedIsObject DEF Known
<1>2. PICK m : m = Append(n, c) /\ m \in DOMAIN model_db
  BY <1>1
<1>3. PICK q : q = Append(p, c)
  OBVIOUS
<1>4. PICK l \in Nat : l = Len(p)
  BY SequenceFacts
<1>5. /\ IsSequence(q) /\ Len(q) = l + 1 /\ q[l + 1] = c
      /\ \A k \in 1 .. l : q[k] = p[k]
  BY <1>3, <1>4, AppendFacts
<1>6. Len(p) = End(n) \/ (IsListName(n) /\ Len(p) = End(n) + 1)
  BY <1>1 DEF IsNamed
<1>7. ~(IsListName(n) /\ Len(p) = End(n))
  BY <1>0, <1>1 DEF NamesList
<1>8. End(n) \in Nat
  <2>1. Len(n) \in Nat \ {0}
    BY <1>1, ObjectFacts
  <2> QED
    BY <2>1, PlaceFacts DEF End
<1>9. PICK v : v = [full |-> n, provider |-> n, isList |-> FALSE, isListItem |-> IsListName(n)]
  OBVIOUS
<1>10. PICK x : x = [full |-> m, provider |-> m, isList |-> model_db[m].isList, isListItem |-> FALSE]
  OBVIOUS
<1>11. Something(v, q, l)
  <2>1. v.full = n /\ v.provider = n /\ v.isList = FALSE /\ v.isListItem = IsListName(n)
    BY <1>9
  <2>2. ASSUME NEW k \in DOMAIN n PROVE q[Place(n, k)] = n[k]
    <3>1. DOMAIN n = 1 .. Len(n) /\ Len(n) \in Nat
      BY <1>1, ObjectFacts, SequenceFacts
    <3>2. Place(n, k) \in Nat /\ k <= Place(n, k) /\ Place(n, k) <= End(n) /\ k \in Nat \ {0}
      BY <3>1, PlaceFacts, LaterPlace DEF End
    <3>3. Place(n, k) \in 1 .. l
      BY <1>4, <1>6, <1>8, <3>2
    <3> QED
      BY <1>1, <1>5, <3>3 DEF IsNamed
  <2>3. NoGap(n)
    BY <1>1 DEF IsNamed
  <2> QED
    BY <1>1, <1>4, <1>6, <1>7, <2>1, <2>2, <2>3 DEF Something
<1>12. Something(x, q, l + 1)
  <2>1. l + 1 \in 1 .. Len(q) /\ (l + 1) - 1 = l /\ q[l + 1] = c
    BY <1>5
  <2>2. PICK k : k = l + 1 /\ k \in 1 .. Len(q) /\ k - 1 = l /\ q[k] = c
    BY <2>1
  <2>3. v.full = n /\ ~v.isList
    BY <1>9
  <2>4. x.full = m /\ x.provider = m /\ ~x.isListItem /\ x.isList = model_db[m].isList
    BY <1>10
  <2>5. /\ Something(v, q, k - 1) /\ ~v.isList
        /\ Append(v.full, q[k]) = m
    BY <1>2, <1>11, <2>2, <2>3
  <2>6. Something(x, q, k)
    BY <1>2, <1>5, <2>2, <2>4, <2>5, NextFound
  <2> QED
    BY <2>2, <2>6
<1>13. /\ NoGap(m) /\ \A j \in DOMAIN m : q[Place(m, j)] = m[j]
       /\ l + 1 = End(m)
  BY <1>10, <1>12 DEF Something
<1>14. IsNamed(q, m)
  BY <1>5, <1>13 DEF IsNamed
<1>15. IsBare(q) /\ Bare(q) = q
  <2>1. Bare(q) = q
    BY <1>0, <1>3, BareAppend
  <2> QED
    BY <1>5, <2>1, BareFacts
<1>16. Named(q) = m
  BY <1>2, <1>5, <1>14, <1>15, NamedOnly
<1>17. NamesList(q) <=> model_db[m].isList
  BY <1>2, <1>5, <1>13, <1>15, <1>16 DEF NamesList, IsListName
<1> QED
  BY <1>1, <1>2, <1>3, <1>16, <1>17

LEMMA KidNames ==
    ASSUME ObjectsInv, NEW p, IsSequence(p), Known(p), ~NamesList(p),
           NEW c, Append(Named(p), c) \in DOMAIN model_db
    PROVE  /\ Named(Append(p, c)) = Append(Named(p), c)
           /\ NamesList(Append(p, c)) <=> model_db[Append(Named(p), c)].isList
<1>1. PICK q : q = Bare(p) /\ IsSequence(q) /\ IsBare(q) /\ Bare(q) = q
  BY BareFacts
<1>2. Named(p) = Named(q) /\ ~NamesList(q) /\ Known(q)
  BY <1>1, NamedAsBare DEF Known
<1>3. /\ Named(Append(q, c)) = Append(Named(q), c)
      /\ NamesList(Append(q, c)) <=> model_db[Append(Named(q), c)].isList
  BY <1>1, <1>2, BareKid
<1>4. PICK e : e = Append(p, c)
  OBVIOUS
<1>5. PICK f : f = Append(q, c)
  OBVIOUS
<1>6. q # <<>>
  BY <1>1, NamesAreLong DEF Known
<1>7. f = Bare(e) /\ Bare(f) = f
  BY <1>1, <1>4, <1>5, <1>6, BareAppend
<1>8. Named(e) = Named(f) /\ (NamesList(e) <=> NamesList(f))
  BY <1>7, NamedAsBare
<1> QED
  BY <1>2, <1>3, <1>4, <1>5, <1>8

LEMMA SetOnce ==
    ASSUME NEW S, IsFiniteSet(S)
    PROVE  \A i, j \in 1 .. Len(SetToSeq(S)) : SetToSeq(S)[i] = SetToSeq(S)[j] => i = j
<1> DEFINE s == SetToSeq(S)
           D == 1 .. Cardinality(S)
<1>1. Cardinality(S) \in Nat /\ ExistsBijection(D, S)
  BY FS_CardinalityType
<1>2. PICK b \in Bijection(D, S) : TRUE
  BY <1>1 DEF ExistsBijection
<1>3. b \in [D -> S] /\ IsInjective(b)
  BY <1>2 DEF Bijection, Injection
<1>4. s \in [D -> S] /\ IsInjective(s)
  BY <1>3 DEF SetToSeq
<1>5. s \in Seq(S) /\ Len(s) = Cardinality(S)
  BY <1>1, <1>4
<1> HIDE DEF s
<1>6. \A i, j \in D : s[i] = s[j] => i = j
  BY <1>4 DEF IsInjective
<1> QED
  BY <1>5, <1>6 DEF s

(* The children of an object are below it, each with a token of its own.   *)
LEMMA KidFacts ==
    ASSUME DatabaseInv, TreeInv, phase = "query", NEW n \in DOMAIN model_db
    PROVE  /\ \A kid \in Range(m_children[n]) :
                    kid \in DOMAIN model_db /\ kid = Append(n, trimPropertyName(kid))
           /\ \A i, j \in 1 .. Len(m_children[n]) :
                    trimPropertyName(m_children[n][i]) = trimPropertyName(m_children[n][j]) => i = j
<1> PICK s : s = m_children[n]
  OBVIOUS
<1>1. s = ChildrenOf(n)
  BY DEF TreeInv
<1>2. Range(s) = {m \in DOMAIN model_db : trimProperty(m) = n}
  BY <1>1, ChildrenFacts
<1>3. \A i, j \in 1 .. Len(s) : s[i] = s[j] => i = j
  <2>1. IsFiniteSet({m \in DOMAIN model_db : trimProperty(m) = n})
    BY ObjectNames, FS_Subset
  <2> QED
    BY <1>1, <2>1, SetOnce DEF ChildrenOf
<1>4. ASSUME NEW kid \in Range(s)
      PROVE  kid \in DOMAIN model_db /\ kid = Append(n, trimPropertyName(kid))
  <2>1. kid \in DOMAIN model_db /\ trimProperty(kid) = n
    BY <1>2
  <2>2. IsSequence(kid) /\ Len(kid) \in Nat /\ Len(kid) > 1 /\ kid # <<>>
    BY <2>1, ObjectFacts DEF DatabaseInv, NoProvider
  <2>3. n = Front(kid)
    BY <2>1, <2>2 DEF trimProperty
  <2>4. Len(kid) \in 0 .. Len(kid) /\ Len(kid) # 0
    BY <2>2
  <2>5. SubSeq(kid, 1, Len(kid)) = Append(SubSeq(kid, 1, Len(kid) - 1), kid[Len(kid)])
    BY <2>2, <2>4, BeginningFacts
  <2>6. SubSeq(kid, 1, Len(kid)) = kid
    BY <2>2, SubSeqFull DEF IsSequence
  <2> QED
    BY <2>1, <2>3, <2>5, <2>6 DEF Front, Last, trimPropertyName
<1>5. ASSUME NEW i \in 1 .. Len(s), NEW j \in 1 .. Len(s), trimPropertyName(s[i]) = trimPropertyName(s[j])
      PROVE  i = j
  <2>1. IsSequence(s)
    BY KidsKnown
  <2>2. s[i] \in Range(s) /\ s[j] \in Range(s)
    BY <2>1, SequenceFacts
  <2>3. s[i] = s[j]
    BY <1>4, <1>5, <2>2
  <2> QED
    BY <1>3, <2>3
<1> QED
  BY <1>4, <1>5

LEMMA KidBelow ==
    ASSUME DatabaseInv, TreeInv, phase = "query", NEW p, IsSequence(p), Known(p), ~NamesList(p),
           NEW c \in Kids(p)
    PROVE  /\ IsSequence(Append(p, c)) /\ Known(Append(p, c))
           /\ NamesList(Append(p, c)) <=> model_db[Append(Named(p), c)].isList
<1>1. Named(p) \in DOMAIN model_db /\ ObjectsInv
  BY NamedIsObject DEF Known, DatabaseInv
<1>2. PICK kid \in Range(m_children[Named(p)]) : c = trimPropertyName(kid)
  BY DEF Kids
<1>3. Append(Named(p), c) \in DOMAIN model_db
  BY <1>1, <1>2, KidFacts
<1>4. /\ Named(Append(p, c)) = Append(Named(p), c)
      /\ NamesList(Append(p, c)) <=> model_db[Append(Named(p), c)].isList
  BY <1>1, <1>3, KidNames
<1>5. Known(Append(p, c))
  BY <1>1, <1>3, <1>4, ObjectFacts DEF Known
<1> QED
  BY <1>4, <1>5, AppendFacts

-----------------------------------------------------------------------------
(***************************************************************************)
(* What becomes of the names met when one that is due is asked for.        *)
(***************************************************************************)
LEMMA BeginsFacts ==
    ASSUME NEW b, IsSequence(b), NEW c
    PROVE  /\ Begins(b, b) /\ ~Begins(Append(b, c), b)
           /\ \A v : IsSequence(v) /\ Begins(Append(b, c), v) => Begins(b, v)
           /\ \A d : IsSequence(d) /\ Begins(d, Append(b, c)) => Begins(d, b) \/ d = Append(b, c)
           /\ \A e : Begins(Append(b, c), Append(b, e)) => c = e
<1>1. PICK l \in Nat : l = Len(b)
  BY SequenceFacts
<1>2. PICK t : t = Append(b, c)
  OBVIOUS
<1>3. IsSequence(t) /\ Len(t) = l + 1 /\ t[l + 1] = c /\ \A k \in 1 .. l : t[k] = b[k]
  BY <1>1, <1>2, AppendFacts
<1>4. Begins(b, b) /\ ~Begins(t, b)
  BY <1>1, <1>3 DEF Begins
<1>5. ASSUME NEW v, IsSequence(v), Begins(t, v) PROVE Begins(b, v)
  <2>1. PICK m \in Nat : m = Len(v)
    BY <1>5, SequenceFacts
  <2>2. l + 1 <= m /\ \A i \in 1 .. l + 1 : v[i] = t[i]
    BY <1>3, <1>5, <2>1 DEF Begins
  <2>3. \A i \in 1 .. l : v[i] = b[i]
    BY <1>3, <2>2
  <2> QED
    BY <1>1, <2>1, <2>2, <2>3 DEF Begins
<1>6. ASSUME NEW d, IsSequence(d), Begins(d, t), ~Begins(d, b) PROVE d = t
  <2>1. PICK m \in Nat : m = Len(d)
    BY <1>6, SequenceFacts
  <2>2. m <= l + 1 /\ \A i \in 1 .. m : t[i] = d[i]
    BY <1>3, <1>6, <2>1 DEF Begins
  <2>3. m = l + 1
    <3>1. CASE m <= l
      <4>1. \A i \in 1 .. m : b[i] = d[i]
        BY <1>3, <2>2, <3>1
      <4> QED
        BY <1>1, <1>6, <2>1, <3>1, <4>1 DEF Begins
    <3> QED
      BY <2>2, <3>1
  <2>4. d \in Seq(Range(d) \cup Range(t)) /\ t \in Seq(Range(d) \cup Range(t))
    BY <1>3, <1>6, WiderRange
  <2>5. Len(d) = Len(t) /\ \A i \in 1 .. Len(d) : d[i] = t[i]
    BY <1>3, <2>1, <2>2, <2>3
  <2> QED
    BY <2>4, <2>5, SeqEqual
<1>7. ASSUME NEW e, Begins(t, Append(b, e)) PROVE c = e
  <2>1. Append(b, e)[l + 1] = e
    BY <1>1, AppendFacts
  <2>2. l + 1 \in 1 .. Len(t)
    BY <1>3
  <2> QED
    BY <1>3, <1>7, <2>1, <2>2 DEF Begins
<1> QED
  BY <1>2, <1>4, <1>5, <1>6, <1>7

(* One that was due gives way to some that are one token longer.           *)
LEMMA ApartStays ==
    ASSUME NEW due, NEW a, NEW l, Apart(due, a, l), \A x \in Met(due, a, l) : IsSequence(x),
           NEW b \in due, NEW T,
           NEW due2, due2 = (due \ {b}) \cup {Append(b, c) : c \in T}
    PROVE  /\ \A x, y \in due2 : x # y => ~Begins(x, y)
           /\ \A x \in due2, y \in Range(a) \cup DOMAIN l \cup {b} : ~Begins(x, y)
<1> PICK old : old = Range(a) \cup DOMAIN l
  OBVIOUS
<1>1. /\ \A x, y \in due : x # y => ~Begins(x, y)
      /\ \A x \in due, y \in old : ~Begins(x, y)
  BY DEF Apart
<1>2. \A x \in due \cup old : IsSequence(x)
  BY DEF Met
<1>3. IsSequence(b)
  BY <1>2
<1> DEFINE new == {Append(b, c) : c \in T}
<1>4. \A x \in new : IsSequence(x)
  BY <1>3, AppendFacts
<1>5. ASSUME NEW x \in due \ {b}, NEW y \in new PROVE ~Begins(x, y) /\ ~Begins(y, x)
  <2>1. PICK c \in T : y = Append(b, c)
    OBVIOUS
  <2>2. ~Begins(x, b) /\ ~Begins(b, x) /\ IsSequence(x)
    BY <1>1, <1>2
  <2>3. /\ Begins(y, x) => Begins(b, x)
        /\ Begins(x, y) => Begins(x, b) \/ x = y
        /\ Begins(y, y)
    <3>1. Begins(y, y)
      BY <1>4, BeginsFacts
    <3> QED
      BY <1>3, <2>1, <2>2, <3>1, BeginsFacts
  <2> QED
    BY <2>2, <2>3
<1>6. ASSUME NEW x \in new, NEW y \in new, Begins(x, y) PROVE x = y
  <2>1. PICK c \in T : x = Append(b, c)
    OBVIOUS
  <2>2. PICK e \in T : y = Append(b, e)
    OBVIOUS
  <2> QED
    BY <1>3, <1>6, <2>1, <2>2, BeginsFacts
<1>7. ASSUME NEW x \in new, NEW y \in old \cup {b} PROVE ~Begins(x, y)
  <2>1. PICK c \in T : x = Append(b, c)
    OBVIOUS
  <2>2. CASE y = b
    BY <1>3, <2>1, <2>2, BeginsFacts
  <2>3. CASE y \in old
    <3>1. ~Begins(b, y) /\ IsSequence(y)
      BY <1>1, <1>2, <2>3
    <3> QED
      BY <1>3, <2>1, <3>1, BeginsFacts
  <2> QED
    BY <2>2, <2>3
<1> HIDE DEF new
<1>8. \A x, y \in (due \ {b}) \cup new : x # y => ~Begins(x, y)
  BY <1>1, <1>5, <1>6
<1>9. \A x \in (due \ {b}) \cup new, y \in old \cup {b} : ~Begins(x, y)
  BY <1>1, <1>7
<1> QED
  BY <1>8, <1>9 DEF new

(* An object was asked for: its children are due.                          *)
LEMMA AskedOne ==
    ASSUME DatabaseInv, TreeInv, phase = "query",
           NEW first, NEW due, NEW a, NEW l, Progress(first, due, a, l),
           NEW b \in due, ~NamesList(b),
           NEW due2, due2 = (due \ {b}) \cup {Append(b, c) : c \in Kids(b)}
    PROVE  Progress(first, due2, Append(a, b), l)
<1> PICK all : all = Met(due, a, l)
  OBVIOUS
<1> PICK a2 : a2 = Append(a, b)
  OBVIOUS
<1> PICK all2 : all2 = Met(due2, a2, l)
  OBVIOUS
<1>1. Typed(due, a, l) /\ Apart(due, a, l) /\ Complete(first, due, a, l) /\ Reached(first, due, a, l)
  BY DEF Progress
<1>2. /\ IsSequence(a) /\ \A i, j \in 1 .. Len(a) : a[i] = a[j] => i = j
      /\ \A x \in all : IsSequence(x) /\ Known(x)
      /\ \A x \in Range(a) : ~NamesList(x)
      /\ \A x \in DOMAIN l : NamesList(x)
  BY <1>1 DEF Typed
<1>3. all = Range(a) \cup DOMAIN l \cup due /\ b \in all
  BY DEF Met
<1>4. IsSequence(b) /\ Known(b)
  BY <1>2, <1>3
<1>5. IsSequence(a2) /\ Range(a2) = Range(a) \cup {b}
  BY <1>2, NoteFacts
<1>6. all2 = all \cup {Append(b, c) : c \in Kids(b)}
  BY <1>3, <1>5 DEF Met
<1>7. Apart(due2, a2, l)
  <2>1. /\ \A x, y \in due2 : x # y => ~Begins(x, y)
        /\ \A x \in due2, y \in Range(a) \cup DOMAIN l \cup {b} : ~Begins(x, y)
    <3>1. Apart(due, a, l) /\ \A x \in Met(due, a, l) : IsSequence(x)
      BY <1>1 DEF Typed
    <3>2. PICK T : T = Kids(b)
      OBVIOUS
    <3>3. due2 = (due \ {b}) \cup {Append(b, c) : c \in T}
      BY <3>2
    <3> QED
      BY <3>1, <3>3, ApartStays
  <2> QED
    BY <1>5, <2>1 DEF Apart
<1>8. \A i, j \in 1 .. Len(a2) : a2[i] = a2[j] => i = j
  <2>1. PICK n \in Nat : n = Len(a)
    BY <1>2, SequenceFacts
  <2>2. Len(a2) = n + 1 /\ a2[n + 1] = b /\ \A k \in 1 .. n : a2[k] = a[k]
    BY <1>2, <2>1, AppendFacts
  <2>3. b \notin Range(a)
    <3>1. ASSUME b \in Range(a) PROVE FALSE
      <4>1. ~Begins(b, b)
        BY <1>1, <3>1 DEF Apart
      <4> QED
        BY <1>4, <4>1, BeginsFacts
    <3> QED
      BY <3>1
  <2>4. \A k \in 1 .. n : a[k] \in Range(a)
    BY <1>2, <2>1, SequenceFacts
  <2>5. \A i \in 1 .. n : a2[i] # b
    BY <2>2, <2>3, <2>4
  <2>6. \A i, j \in 1 .. n : a2[i] = a2[j] => i = j
    BY <1>2, <2>1, <2>2
  <2>7. \A i \in 1 .. n + 1 : i \in 1 .. n \/ i = n + 1
    OBVIOUS
  <2> QED
    BY <2>2, <2>5, <2>6, <2>7
<1>9. Typed(due2, a2, l)
  <2>1. \A c \in Kids(b) : IsSequence(Append(b, c)) /\ Known(Append(b, c))
    BY <1>4, KidBelow
  <2>2. \A x \in all2 : IsSequence(x) /\ Known(x)
    BY <1>2, <1>6, <2>1
  <2>3. \A x \in Range(a2) : ~NamesList(x)
    BY <1>2, <1>5
  <2> QED
    BY <1>2, <1>5, <1>8, <2>2, <2>3 DEF Typed
<1>10. Complete(first, due2, a2, l)
  <2>1. /\ first \in all
        /\ \A p \in Range(a) : \A kid \in Kids(p) : Append(p, kid) \in all
        /\ \A p \in DOMAIN l : \A id \in Range(l[p]) : Append(p, id) \in all
    BY <1>1 DEF Complete
  <2>2. \A kid \in Kids(b) : Append(b, kid) \in all2
    BY <1>6
  <2> QED
    BY <1>5, <1>6, <2>1, <2>2 DEF Complete
<1>11. Reached(first, due2, a2, l)
  <2>1. \A x \in all :
            \/ x = first
            \/ \E p \in Range(a) : \E kid \in Kids(p) : x = Append(p, kid)
            \/ \E p \in DOMAIN l : \E id \in Range(l[p]) : x = Append(p, id)
    BY <1>1 DEF Reached
  <2>2. \A x \in all2 :
            \/ x = first
            \/ \E p \in Range(a2) : \E kid \in Kids(p) : x = Append(p, kid)
            \/ \E p \in DOMAIN l : \E id \in Range(l[p]) : x = Append(p, id)
    BY <1>5, <1>6, <2>1
  <2> QED
    BY <2>2 DEF Reached
<1> QED
  BY <1>7, <1>9, <1>10, <1>11 DEF Progress

(* The entries of a list were learned, and are due; or there are none.     *)
LEMMA ListLearned ==
    ASSUME DatabaseInv,
           NEW first, NEW due, NEW a, NEW l, Progress(first, due, a, l),
           NEW b \in due, NamesList(b), NEW ids,
           NEW due2, due2 = (due \ {b}) \cup {Append(b, id) : id \in Range(ids)}
    PROVE  Progress(first, due2, a, Put(l, b, ids))
<1> PICK all : all = Met(due, a, l)
  OBVIOUS
<1> PICK l2 : l2 = Put(l, b, ids)
  OBVIOUS
<1> PICK all2 : all2 = Met(due2, a, l2)
  OBVIOUS
<1>1. Typed(due, a, l) /\ Apart(due, a, l) /\ Complete(first, due, a, l) /\ Reached(first, due, a, l)
  BY DEF Progress
<1>2. /\ IsSequence(a) /\ \A i, j \in 1 .. Len(a) : a[i] = a[j] => i = j
      /\ \A x \in all : IsSequence(x) /\ Known(x)
      /\ \A x \in Range(a) : ~NamesList(x)
      /\ \A x \in DOMAIN l : NamesList(x)
  BY <1>1 DEF Typed
<1>3. all = Range(a) \cup DOMAIN l \cup due /\ b \in all
  BY DEF Met
<1>4. IsSequence(b) /\ Known(b)
  BY <1>2, <1>3
<1>5. b \notin DOMAIN l
  <2>1. ASSUME b \in DOMAIN l PROVE FALSE
    <3>1. ~Begins(b, b)
      BY <1>1, <2>1 DEF Apart
    <3> QED
      BY <1>4, <3>1, BeginsFacts
  <2> QED
    BY <2>1
<1>6. DOMAIN l2 = DOMAIN l \cup {b} /\ l2[b] = ids /\ \A x \in DOMAIN l : l2[x] = l[x]
  BY <1>5 DEF Put
<1>7. all2 = all \cup {Append(b, id) : id \in Range(ids)}
  BY <1>3, <1>6 DEF Met
<1>8. Apart(due2, a, l2)
  <2>1. /\ \A x, y \in due2 : x # y => ~Begins(x, y)
        /\ \A x \in due2, y \in Range(a) \cup DOMAIN l \cup {b} : ~Begins(x, y)
    <3>1. Apart(due, a, l) /\ \A x \in Met(due, a, l) : IsSequence(x)
      BY <1>1 DEF Typed
    <3>2. PICK T : T = Range(ids)
      OBVIOUS
    <3>3. due2 = (due \ {b}) \cup {Append(b, c) : c \in T}
      BY <3>2
    <3> QED
      BY <3>1, <3>3, ApartStays
  <2> QED
    BY <1>6, <2>1 DEF Apart
<1>9. Typed(due2, a, l2)
  <2>1. \A id \in Range(ids) : IsSequence(Append(b, id)) /\ Known(Append(b, id))
    <3>1. ASSUME NEW id \in Range(ids) PROVE IsSequence(Append(b, id)) /\ Known(Append(b, id))
      <4>1. Named(Append(b, id)) = Named(b)
        BY <1>4, EntryNames DEF DatabaseInv
      <4> QED
        BY <1>4, <4>1, AppendFacts DEF Known
    <3> QED
      BY <3>1
  <2>2. \A x \in all2 : IsSequence(x) /\ Known(x)
    BY <1>2, <1>7, <2>1
  <2>3. \A x \in DOMAIN l2 : NamesList(x)
    BY <1>2, <1>6
  <2> QED
    BY <1>2, <2>2, <2>3 DEF Typed
<1>10. Complete(first, due2, a, l2)
  <2>1. /\ first \in all
        /\ \A p \in Range(a) : \A kid \in Kids(p) : Append(p, kid) \in all
        /\ \A p \in DOMAIN l : \A id \in Range(l[p]) : Append(p, id) \in all
    BY <1>1 DEF Complete
  <2>2. \A p \in DOMAIN l2 : \A id \in Range(l2[p]) : Append(p, id) \in all2
    BY <1>6, <1>7, <2>1
  <2> QED
    BY <1>7, <2>1, <2>2 DEF Complete
<1>11. Reached(first, due2, a, l2)
  <2>1. \A x \in all :
            \/ x = first
            \/ \E p \in Range(a) : \E kid \in Kids(p) : x = Append(p, kid)
            \/ \E p \in DOMAIN l : \E id \in Range(l[p]) : x = Append(p, id)
    BY <1>1 DEF Reached
  <2>2. ASSUME NEW x \in all
        PROVE  \/ x = first
               \/ \E p \in Range(a) : \E kid \in Kids(p) : x = Append(p, kid)
               \/ \E p \in DOMAIN l2 : \E id \in Range(l2[p]) : x = Append(p, id)
    BY <1>6, <2>1, <2>2
  <2>3. ASSUME NEW id \in Range(ids)
        PROVE  \E p \in DOMAIN l2 : \E id2 \in Range(l2[p]) : Append(b, id) = Append(p, id2)
    BY <1>6
  <2> QED
    BY <1>7, <2>2, <2>3 DEF Reached
<1> QED
  BY <1>8, <1>9, <1>10, <1>11 DEF Progress

-----------------------------------------------------------------------------
(***************************************************************************)
(* Every name due is due to one activation.                                *)
(***************************************************************************)
LEMMA DueSplit ==
    ASSUME NEW r, IsSequence(r), NEW f
    PROVE  /\ AllDue(Append(r, f)) = AllDue(r) \cup Due(f)
           /\ Shared(Append(r, f)) <=> Shared(r) /\ Getting(f) /\ Due(f) \cap AllDue(r) = {}
<1>1. PICK t : t = Append(r, f)
  OBVIOUS
<1>2. PICK n \in Nat : n = Len(r)
  BY SequenceFacts
<1>3. Len(t) = n + 1 /\ t[n + 1] = f /\ \A k \in 1 .. n : t[k] = r[k]
  BY <1>1, <1>2, AppendFacts
<1>4. \A k \in 1 .. n + 1 : k \in 1 .. n \/ k = n + 1
  OBVIOUS
<1>5. n + 1 \in 1 .. n + 1 /\ \A k \in 1 .. n : k \in 1 .. n + 1 /\ k # n + 1
  OBVIOUS
<1>6. AllDue(t) = AllDue(r) \cup Due(f)
  <2>1. \A x : (\E k \in 1 .. n + 1 : x \in Due(t[k])) <=> (\E k \in 1 .. n : x \in Due(r[k])) \/ x \in Due(f)
    BY <1>3, <1>4, <1>5
  <2>2. \A x : x \in AllDue(t) <=> \E k \in 1 .. n + 1 : x \in Due(t[k])
    BY <1>3 DEF AllDue
  <2>3. \A x : x \in AllDue(r) <=> \E k \in 1 .. n : x \in Due(r[k])
    BY <1>2 DEF AllDue
  <2> QED
    BY <2>1, <2>2, <2>3
<1>7. ASSUME Shared(t) PROVE Shared(r) /\ Getting(f) /\ Due(f) \cap AllDue(r) = {}
  <2>1. /\ \A k \in 1 .. n + 1 : Getting(t[k])
        /\ \A j, k \in 1 .. n + 1 : j # k => Due(t[j]) \cap Due(t[k]) = {}
    BY <1>3, <1>7 DEF Shared
  <2>2. Getting(f) /\ \A k \in 1 .. n : Getting(r[k])
    BY <1>3, <1>5, <2>1
  <2>3. \A j, k \in 1 .. n : j # k => Due(r[j]) \cap Due(r[k]) = {}
    BY <1>3, <1>5, <2>1
  <2>4. \A k \in 1 .. n : Due(f) \cap Due(r[k]) = {}
    BY <1>3, <1>5, <2>1
  <2>5. Due(f) \cap AllDue(r) = {}
    BY <1>2, <2>4 DEF AllDue
  <2> QED
    BY <1>2, <2>2, <2>3, <2>5 DEF Shared
<1>8. ASSUME Shared(r), Getting(f), Due(f) \cap AllDue(r) = {} PROVE Shared(t)
  <2>1. /\ \A k \in 1 .. n : Getting(r[k])
        /\ \A j, k \in 1 .. n : j # k => Due(r[j]) \cap Due(r[k]) = {}
    BY <1>2, <1>8 DEF Shared
  <2>2. \A k \in 1 .. n : Due(r[k]) \subseteq AllDue(r)
    BY <1>2 DEF AllDue
  <2>3. \A k \in 1 .. n : Due(f) \cap Due(r[k]) = {}
    BY <1>8, <2>2
  <2>4. \A k \in 1 .. n + 1 : Getting(t[k])
    BY <1>3, <1>4, <1>8, <2>1
  <2>5. ASSUME NEW j \in 1 .. n + 1, NEW k \in 1 .. n + 1, j # k
        PROVE  Due(t[j]) \cap Due(t[k]) = {}
    <3>1. CASE j = n + 1
      BY <1>3, <1>4, <2>3, <2>5, <3>1
    <3>2. CASE k = n + 1
      BY <1>3, <1>4, <2>3, <2>5, <3>2
    <3>3. CASE j \in 1 .. n /\ k \in 1 .. n
      BY <1>3, <2>1, <2>5, <3>3
    <3> QED
      BY <1>4, <3>1, <3>2, <3>3
  <2> QED
    BY <1>3, <2>4, <2>5 DEF Shared
<1> QED
  BY <1>1, <1>6, <1>7, <1>8

LEMMA TopSplit ==
    ASSUME NEW s, IsSequence(s), s # <<>>
    PROVE  IsSequence(Front(s)) /\ s = Append(Front(s), Last(s))
<1>1. PICK n \in Nat \ {0} : n = Len(s)
  BY SequenceFacts
<1>2. n \in 0 .. Len(s)
  BY <1>1
<1>3. SubSeq(s, 1, n) = Append(SubSeq(s, 1, n - 1), s[n])
  BY <1>1, <1>2, BeginningFacts
<1>4. SubSeq(s, 1, n) = s
  BY <1>1, SubSeqFull DEF IsSequence
<1> QED
  BY <1>1, <1>3, <1>4, FrontFacts DEF Front, Last

(* How far a recursive get has come.                                       *)
Visiting(s, a, l) == Shared(s) /\ Progress(Target(s[1]), AllDue(s), a, l)

LEMMA SameFirst ==
    ASSUME NEW r, IsSequence(r), NEW f, NEW g, g.parameter = f.parameter
    PROVE  /\ Append(r, g)[1].parameter = Append(r, f)[1].parameter
           /\ Target(Append(r, f)[1]) = Target(Append(r, g)[1])
<1>1. PICK n \in Nat : n = Len(r)
  BY SequenceFacts
<1>2. /\ Append(r, f)[n + 1] = f /\ \A k \in 1 .. n : Append(r, f)[k] = r[k]
      /\ Append(r, g)[n + 1] = g /\ \A k \in 1 .. n : Append(r, g)[k] = r[k]
  BY <1>1, AppendFacts
<1>3. Append(r, g)[1].parameter = Append(r, f)[1].parameter
  <2>1. CASE n = 0
    <3>1. Append(r, f)[1] = f /\ Append(r, g)[1] = g
      BY <1>2, <2>1
    <3> QED
      BY <3>1
  <2>2. CASE n # 0
    <3>1. 1 \in 1 .. n
      BY <2>2
    <3> QED
      BY <1>2, <3>1
  <2> QED
    BY <2>1, <2>2
<1> QED
  BY <1>3 DEF Target

(* The innermost activation goes on, with the same names due.              *)
LEMMA GoesOn ==
    ASSUME NEW s, IsSequence(s), s # <<>>, NEW a, NEW l, Visiting(s, a, l),
           NEW g, Getting(g), Due(g) = Due(Last(s)), g.parameter = Last(s).parameter
    PROVE  Visiting(Append(Front(s), g), a, l)
<1>1. PICK r, f : r = Front(s) /\ f = Last(s) /\ IsSequence(r) /\ s = Append(r, f)
  BY TopSplit
<1>2. /\ AllDue(Append(r, f)) = AllDue(r) \cup Due(f)
      /\ Shared(Append(r, f)) <=> Shared(r) /\ Getting(f) /\ Due(f) \cap AllDue(r) = {}
  BY <1>1, DueSplit
<1>3. /\ AllDue(Append(r, g)) = AllDue(r) \cup Due(g)
      /\ Shared(Append(r, g)) <=> Shared(r) /\ Getting(g) /\ Due(g) \cap AllDue(r) = {}
  BY <1>1, DueSplit
<1>4. Target(Append(r, f)[1]) = Target(Append(r, g)[1])
  BY <1>1, SameFirst
<1>5. Shared(Append(r, f)) /\ Progress(Target(Append(r, f)[1]), AllDue(Append(r, f)), a, l)
  BY <1>1 DEF Visiting
<1>6. AllDue(Append(r, g)) = AllDue(Append(r, f)) /\ Shared(Append(r, g))
  BY <1>1, <1>2, <1>3, <1>5
<1> QED
  BY <1>1, <1>4, <1>5, <1>6 DEF Visiting

(* A name due to it gives way to names one token longer.                   *)
LEMMA GivesWay ==
    ASSUME NEW r, IsSequence(r), NEW f, NEW a, NEW l, Visiting(Append(r, f), a, l),
           NEW b \in Due(f), NEW g, Getting(g), g.parameter = f.parameter,
           NEW new, \A x \in new : \E c : x = Append(b, c), Due(g) = (Due(f) \ {b}) \cup new
    PROVE  /\ Shared(Append(r, g)) /\ Target(Append(r, f)[1]) = Target(Append(r, g)[1])
           /\ b \in AllDue(Append(r, f))
           /\ AllDue(Append(r, g)) = (AllDue(Append(r, f)) \ {b}) \cup new
<1>1. PICK all : all = AllDue(Append(r, f))
  OBVIOUS
<1>2. /\ all = AllDue(r) \cup Due(f)
      /\ Shared(r) /\ Getting(f) /\ Due(f) \cap AllDue(r) = {}
  BY <1>1, DueSplit DEF Visiting
<1>4. new \cap AllDue(r) = {}
  <2>1. /\ \A x, y \in all : x # y => ~Begins(x, y)
        /\ \A x \in all : IsSequence(x)
    BY <1>1 DEF Visiting, Progress, Apart, Typed, Met
  <2>2. ASSUME NEW x \in new, x \in AllDue(r) PROVE FALSE
    <3>1. PICK c : x = Append(b, c)
      OBVIOUS
    <3>2. x \in all /\ b \in all /\ IsSequence(b) /\ IsSequence(x) /\ x # b
      BY <1>2, <2>1, <2>2, <3>1
    <3>3. Begins(x, x)
      BY <3>2, BeginsFacts
    <3>4. Begins(b, x)
      BY <3>1, <3>2, <3>3, BeginsFacts
    <3> QED
      BY <2>1, <3>2, <3>4
  <2> QED
    BY <2>2
<1>6. Due(g) \cap AllDue(r) = {}
  BY <1>2, <1>4
<1>7. Shared(Append(r, g)) /\ AllDue(Append(r, g)) = AllDue(r) \cup Due(g)
  BY <1>2, <1>6, DueSplit
<1>8. AllDue(Append(r, g)) = (all \ {b}) \cup new
  BY <1>2, <1>7
<1> QED
  BY <1>1, <1>2, <1>7, <1>8, SameFirst

(* It asks for an object, and its children are due.                        *)
LEMMA Asks ==
    ASSUME DatabaseInv, TreeInv, phase = "query",
           NEW s, IsSequence(s), s # <<>>, NEW a, NEW l, Visiting(s, a, l),
           NEW b \in Due(Last(s)), ~NamesList(b),
           NEW g, Getting(g), g.parameter = Last(s).parameter,
           Due(g) = (Due(Last(s)) \ {b}) \cup {Append(b, c) : c \in Kids(b)}
    PROVE  Visiting(Append(Front(s), g), Append(a, b), l)
<1>1. PICK r, f : r = Front(s) /\ f = Last(s) /\ IsSequence(r) /\ s = Append(r, f)
  BY TopSplit
<1>2. PICK new : new = {Append(b, c) : c \in Kids(b)}
  OBVIOUS
<1>3. /\ IsSequence(r) /\ Visiting(Append(r, f), a, l) /\ b \in Due(f) /\ g.parameter = f.parameter
      /\ Due(g) = (Due(f) \ {b}) \cup new /\ \A x \in new : \E c : x = Append(b, c)
  BY <1>1, <1>2
<1>4. /\ Shared(Append(r, g)) /\ Target(Append(r, f)[1]) = Target(Append(r, g)[1])
      /\ b \in AllDue(Append(r, f))
      /\ AllDue(Append(r, g)) = (AllDue(Append(r, f)) \ {b}) \cup new
  BY <1>3, GivesWay
<1>5. PICK first, due, due2 : first = Target(Append(r, f)[1]) /\ due = AllDue(Append(r, f)) /\ due2 = AllDue(Append(r, g))
  OBVIOUS
<1>6. Progress(first, due, a, l)
  BY <1>3, <1>5 DEF Visiting
<1>7. b \in due /\ due2 = (due \ {b}) \cup {Append(b, c) : c \in Kids(b)}
  BY <1>2, <1>4, <1>5
<1>8. Progress(first, due2, Append(a, b), l)
  BY <1>6, <1>7, AskedOne
<1> QED
  BY <1>1, <1>4, <1>5, <1>8 DEF Visiting

(* It learns the entries of a list, and they are due.                      *)
LEMMA Learns ==
    ASSUME DatabaseInv,
           NEW s, IsSequence(s), s # <<>>, NEW a, NEW l, Visiting(s, a, l),
           NEW b \in Due(Last(s)), NamesList(b), NEW ids,
           NEW g, Getting(g), g.parameter = Last(s).parameter,
           Due(g) = (Due(Last(s)) \ {b}) \cup {Append(b, id) : id \in Range(ids)}
    PROVE  Visiting(Append(Front(s), g), a, Put(l, b, ids))
<1>1. PICK r, f : r = Front(s) /\ f = Last(s) /\ IsSequence(r) /\ s = Append(r, f)
  BY TopSplit
<1>2. PICK new : new = {Append(b, id) : id \in Range(ids)}
  OBVIOUS
<1>3. /\ IsSequence(r) /\ Visiting(Append(r, f), a, l) /\ b \in Due(f) /\ g.parameter = f.parameter
      /\ Due(g) = (Due(f) \ {b}) \cup new /\ \A x \in new : \E c : x = Append(b, c)
  BY <1>1, <1>2
<1>4. /\ Shared(Append(r, g)) /\ Target(Append(r, f)[1]) = Target(Append(r, g)[1])
      /\ b \in AllDue(Append(r, f))
      /\ AllDue(Append(r, g)) = (AllDue(Append(r, f)) \ {b}) \cup new
  BY <1>3, GivesWay
<1>5. PICK first, due, due2 : first = Target(Append(r, f)[1]) /\ due = AllDue(Append(r, f)) /\ due2 = AllDue(Append(r, g))
  OBVIOUS
<1>6. Progress(first, due, a, l)
  BY <1>3, <1>5 DEF Visiting
<1>7. b \in due /\ due2 = (due \ {b}) \cup {Append(b, id) : id \in Range(ids)}
  BY <1>2, <1>4, <1>5
<1>8. Progress(first, due2, a, Put(l, b, ids))
  BY <1>6, <1>7, ListLearned
<1> QED
  BY <1>1, <1>4, <1>5, <1>8 DEF Visiting

(* It leaves one of the names due to it to another activation.             *)
LEMMA Leaves ==
    ASSUME NEW s, IsSequence(s), s # <<>>, NEW a, NEW l, Visiting(s, a, l),
           NEW g, Getting(g), g.parameter = Last(s).parameter,
           NEW h, Getting(h), Due(g) \cap Due(h) = {}, Due(g) \cup Due(h) = Due(Last(s))
    PROVE  Visiting(Append(Append(Front(s), g), h), a, l)
<1>1. PICK r, f : r = Front(s) /\ f = Last(s) /\ IsSequence(r) /\ s = Append(r, f)
  BY TopSplit
<1>2. PICK t : t = Append(r, g)
  OBVIOUS
<1>3. IsSequence(t)
  BY <1>1, <1>2, AppendFacts
<1>4. AllDue(s) = AllDue(r) \cup Due(f) /\ Shared(r) /\ Due(f) \cap AllDue(r) = {}
  <2>1. Shared(Append(r, f))
    BY <1>1 DEF Visiting
  <2> QED
    BY <1>1, <2>1, DueSplit
<1>5. AllDue(t) = AllDue(r) \cup Due(g) /\ Shared(t)
  BY <1>1, <1>2, <1>4, DueSplit
<1>6. AllDue(Append(t, h)) = AllDue(t) \cup Due(h) /\ Shared(Append(t, h))
  BY <1>1, <1>3, <1>4, <1>5, DueSplit
<1>7. AllDue(Append(t, h)) = AllDue(s)
  BY <1>1, <1>4, <1>5, <1>6
<1>8. Target(Append(t, h)[1]) = Target(s[1])
  <2>1. PICK n \in Nat : n = Len(t)
    BY <1>3, SequenceFacts
  <2>2. n = Len(r) + 1 /\ Len(r) \in Nat
    BY <1>1, <1>2, <2>1, AppendFacts, SequenceFacts
  <2>3. 1 \in 1 .. n
    BY <2>2
  <2>4. Append(t, h)[1] = t[1]
    BY <1>3, <2>1, <2>3, AppendFacts
  <2> QED
    BY <1>1, <1>2, <2>4, SameFirst
<1> QED
  BY <1>1, <1>2, <1>6, <1>7, <1>8 DEF Visiting

(* It returns when nothing is due to it any more.                          *)
LEMMA Leaving ==
    ASSUME NEW t, IsSequence(t), t # <<>>, NEW h, Due(h) = {}, NEW a, NEW l,
           Visiting(Append(t, h), a, l),
           NEW g, Getting(Last(t)) => Getting(g), Due(g) = Due(Last(t)),
           g.parameter = Last(t).parameter
    PROVE  Visiting(Append(Front(t), g), a, l)
<1>1. Shared(Append(t, h)) /\ Progress(Target(Append(t, h)[1]), AllDue(Append(t, h)), a, l)
  BY DEF Visiting
<1>2. AllDue(Append(t, h)) = AllDue(t) /\ Shared(t)
  <2>1. AllDue(Append(t, h)) = AllDue(t) \cup Due(h) /\ Shared(t)
    BY <1>1, DueSplit
  <2> QED
    BY <2>1
<1>3. PICK n \in Nat \ {0} : n = Len(t)
  BY SequenceFacts
<1>4. 1 \in 1 .. n /\ n \in 1 .. n
  BY <1>3
<1>5. Append(t, h)[1] = t[1]
  BY <1>3, <1>4, AppendFacts
<1>6. Visiting(t, a, l)
  BY <1>1, <1>2, <1>5 DEF Visiting
<1>7. Getting(Last(t))
  BY <1>2, <1>3, <1>4 DEF Shared, Last
<1> QED
  BY <1>6, <1>7, GoesOn

LEMMA SameDue ==
    ASSUME NEW f, NEW g, g.parameter = f.parameter, g.at = f.at, g.ids = f.ids, g.i = f.i,
           g.kids = f.kids
    PROVE  Due(g) = Due(f) /\ (Getting(g) <=> Getting(f))
BY DEF Due, Getting, Target, Base, ItemsFrom, KidsLeft

LEMMA StillGetting ==
    ASSUME NEW f, Getting(f), NEW g, g.parameter = f.parameter, g.at # "set",
           \A i, j \in 1 .. Len(g.ids) : g.ids[i] = g.ids[j] => i = j,
           \A i, j \in 1 .. Len(g.kids) :
                trimPropertyName(g.kids[i]) = trimPropertyName(g.kids[j]) => i = j
    PROVE  Getting(g) /\ Target(g) = Target(f)
BY DEF Getting, Target

(* What comes of a step of a get: it goes on, or all is done.              *)
Onward ==
    IF stack' = <<>> THEN Progress(Target(stack[1]), {}, asked', lists')
    ELSE Visiting(stack', asked', lists')

LEMMA BecomeOn ==
    ASSUME StackInv, stack # <<>>, NEW g, Become(g),
           Visiting(Append(Front(stack), g), asked', lists')
    PROVE  Onward
<1>1. PICK r, f : r = Front(stack) /\ f = Top /\ IsSequence(r) /\ stack = Append(r, f)
  BY TopSplit DEF Top, StackInv
<1>2. stack' = Append(r, g)
  BY <1>1 DEF Become
<1>3. Append(r, g) # <<>>
  BY <1>1, AppendFacts
<1>4. Visiting(Append(r, g), asked', lists')
  BY <1>1
<1> QED
  BY <1>2, <1>3, <1>4 DEF Onward

LEMMA ReturnOn ==
    ASSUME StackInv, stack # <<>>, NEW g, Due(g) = {}, g.parameter = Top.parameter,
           Visiting(Append(Front(stack), g), asked', lists'),
           NEW result, Return(result)
    PROVE  Onward
<1>1. PICK t : t = Front(stack) /\ IsSequence(t)
  BY TopFacts
<1>2. PICK n \in Nat \ {0} : n = Len(stack) /\ Len(t) = n - 1 /\ Top = stack[n]
  BY <1>1, TopFacts
<1>3. \A k \in 1 .. n - 1 : t[k] = stack[k] /\ FrameInv(t[k])
  BY <1>1, <1>2, TopFacts
<1>4. Visiting(Append(t, g), asked', lists')
  BY <1>1
<1>5. CASE n = 1
  <2>1. stack' = <<>>
    BY <1>2, <1>5 DEF Return
  <2>2. AllDue(Append(t, g)) = {}
    <3>1. AllDue(t) = {}
      BY <1>2, <1>5 DEF AllDue
    <3> QED
      BY <1>1, <3>1, DueSplit
  <2>3. Append(t, g)[1] = g
    <3>1. Append(t, g)[Len(t) + 1] = g
      BY <1>1, AppendFacts
    <3> QED
      BY <1>2, <1>5, <3>1
  <2>4. Target(g) = Target(stack[1])
    BY <1>2, <1>5 DEF Target
  <2> QED
    BY <1>4, <2>1, <2>2, <2>3, <2>4 DEF Onward, Visiting
<1>6. CASE n # 1
  <2>1. PICK f, h : f = stack[n - 1] /\ h = [f EXCEPT !.success = result]
    OBVIOUS
  <2>2. n - 1 \in 1 .. n - 1 /\ t # <<>>
    BY <1>1, <1>2, <1>6, SequenceFacts
  <2>3. Last(t) = f /\ FrameInv(f)
    BY <1>2, <1>3, <2>1, <2>2 DEF Last
  <2>4. /\ h.parameter = f.parameter /\ h.at = f.at /\ h.ids = f.ids /\ h.i = f.i
        /\ h.kids = f.kids
    <3>1. h = [parameter |-> f.parameter, at |-> f.at, entries |-> f.entries, ids |-> f.ids,
               i |-> f.i, kids |-> f.kids, success |-> result]
      BY <2>1, <2>3, SuccessSet DEF FrameInv
    <3> QED
      BY <3>1
  <2>5. Due(h) = Due(f) /\ (Getting(f) => Getting(h))
    BY <2>4, SameDue
  <2>6. Visiting(Append(Front(t), h), asked', lists')
    BY <1>1, <1>4, <2>2, <2>3, <2>4, <2>5, Leaving
  <2>7. stack' = Append(Front(t), h)
    <3>1. PICK s : s = SubSeq(stack, 1, n - 2)
      OBVIOUS
    <3>2. stack' = s \o <<h>>
      BY <1>2, <1>6, <2>1, <3>1 DEF Return
    <3>3. IsSequence(stack) /\ n - 1 \in 0 .. Len(stack) /\ n - 1 # 0 /\ n - 2 \in 0 .. Len(stack)
      <4>1. n - 1 \in 0 .. n /\ n - 1 # 0 /\ n - 2 \in 0 .. n
        BY <1>6
      <4> QED
        BY <1>2, <4>1 DEF StackInv
    <3>4. s \in Seq(Range(stack))
      BY <3>1, <3>3, BeginningFacts
    <3>5. s \in Seq(Range(stack) \cup {h}) /\ h \in Range(stack) \cup {h}
      BY <3>4
    <3>6. stack' = Append(s, h)
      BY <3>2, <3>5, AppendIsConcat
    <3>7. t = SubSeq(stack, 1, n - 1)
      BY <1>1, <1>2 DEF Front
    <3>8. Front(SubSeq(stack, 1, n - 1)) = SubSeq(stack, 1, (n - 1) - 1)
      BY <3>3, BeginningFacts
    <3> QED
      BY <3>1, <3>6, <3>7, <3>8
  <2>8. IsSequence(Front(t)) /\ t = Append(Front(t), f)
    BY <1>1, <2>2, <2>3, TopSplit
  <2>9. Append(Front(t), h) # <<>>
    BY <2>8, AppendFacts
  <2> QED
    BY <2>6, <2>7, <2>9 DEF Onward
<1> QED
  BY <1>5, <1>6

-----------------------------------------------------------------------------
(***************************************************************************)
(* Each step of a recursive get that is going on.                          *)
(***************************************************************************)
Going ==
    /\ DatabaseInv /\ TreeInv /\ StackInv
    /\ phase = "query" /\ command.recursive
    /\ stack # <<>> /\ Visiting(stack, asked, lists)

LEMMA GoingFacts ==
    ASSUME Going
    PROVE  /\ ObjectsInv /\ FrameInv(Top) /\ IsFrame(Top) /\ Getting(Top) /\ IsSequence(stack)
           /\ IsSequence(Name) /\ Name # <<>> /\ Name = Whole(Top.parameter)
           /\ IsSequence(Target(Top)) /\ Target(Top) = ObjectPart(Name) /\ Known(Target(Top))
           /\ \A x \in Due(Top) : IsSequence(x) /\ Known(x)
           /\ Top = Last(stack)
<1>1. ObjectsInv /\ FrameInv(Top) /\ IsFrame(Top) /\ IsSequence(stack)
  BY TopFacts, FrameGoesOn DEF Going, DatabaseInv, StackInv
<1>2. PICK r, f : r = Front(stack) /\ f = Top /\ IsSequence(r) /\ stack = Append(r, f)
  BY <1>1, TopSplit DEF Top, Going
<1>3. Shared(Append(r, f)) /\ Progress(Target(stack[1]), AllDue(Append(r, f)), asked, lists)
  BY <1>2 DEF Going, Visiting
<1>4. Getting(f) /\ AllDue(Append(r, f)) = AllDue(r) \cup Due(f)
  BY <1>2, <1>3, DueSplit
<1>5. \A x \in AllDue(Append(r, f)) : IsSequence(x) /\ Known(x)
  BY <1>3 DEF Progress, Typed, Met
<1>6. IsSequence(Name) /\ Name # <<>> /\ Name = Whole(Top.parameter)
  BY NameFacts DEF Going
<1>7. Target(Top) = ObjectPart(Name) /\ IsSequence(Target(Top)) /\ Known(Target(Top))
  BY <1>2, <1>4, <1>6, ObjectPartFacts DEF Target, Getting
<1> QED
  BY <1>1, <1>2, <1>4, <1>5, <1>6, <1>7 DEF Top

(* What a list is called.                                                  *)
LEMMA ListTarget ==
    ASSUME Going, Top.at \in {"number", "ids", "items", "item kids"}
    PROVE  ListName = Target(Top) /\ NamesList(Target(Top))
<1>1. AsksForList(Name)
  BY GoingFacts DEF FrameInv
<1>2. isWildcard(Name) /\ NamesList(trimWildcard(Name))
  BY <1>1 DEF AsksForList
<1> QED
  BY <1>2, GoingFacts, WildcardFacts DEF ListName

LEMMA OnlyKnown ==
    ASSUME Going
    PROVE  Provider # NoProvider
<1>1. Provider = Named(Target(Top))
  BY GoingFacts, LookupFinds DEF Provider, getProviderByPropertyName
<1> QED
  BY <1>1, GoingFacts DEF Known

LEMMA VisitBegins ==
    ASSUME Going, GetBegins
    PROVE  Onward
<1>1. /\ Top.at = "get" /\ asked' = asked /\ lists' = lists
      /\ Become([Top EXCEPT !.at = IF IsList THEN "number" ELSE "one"])
  BY DEF GetBegins, At, history
<1>2. PICK f, place : f = Top /\ place = IF IsList THEN "number" ELSE "one"
  OBVIOUS
<1>3. PICK g : g = [f EXCEPT !.at = place]
  OBVIOUS
<1>4. FrameInv(f) /\ Getting(f) /\ f.at = "get"
  BY <1>1, <1>2, GoingFacts
<1>5. /\ g.parameter = f.parameter /\ g.at = place /\ g.ids = f.ids /\ g.i = f.i
      /\ g.kids = f.kids
  <2>1. \A x : [f EXCEPT !.at = x] =
                [parameter |-> f.parameter, at |-> x, entries |-> f.entries, ids |-> f.ids,
                 i |-> f.i, kids |-> f.kids, success |-> f.success]
    BY <1>4, FrameGoesOn, Zenon
  <2>2. g = [parameter |-> f.parameter, at |-> place, entries |-> f.entries, ids |-> f.ids,
             i |-> f.i, kids |-> f.kids, success |-> f.success]
    BY <1>3, <2>1, Zenon
  <2> QED
    BY <2>2
<1>6. place \in {"number", "one"}
  BY <1>2
<1>7. Getting(g) /\ Due(g) = Due(f)
  <2>1. Getting(g) /\ Target(g) = Target(f)
    <3>1. g.at # "set"
      BY <1>5, <1>6
    <3> QED
      BY <1>4, <1>5, <3>1, StillGetting DEF Getting
  <2>2. Due(g) = {Target(g)} /\ Due(f) = {Target(f)}
    BY <1>4, <1>5, <1>6 DEF Due
  <2> QED
    BY <2>1, <2>2
<1>8. Visiting(Append(Front(stack), g), asked', lists')
  BY <1>1, <1>2, <1>5, <1>7, GoingFacts, GoesOn DEF Going
<1>9. Become(g)
  BY <1>1, <1>2, <1>3, Zenon
<1> QED
  BY <1>2, <1>5, <1>8, <1>9, BecomeOn DEF Going

(* A list that cannot be asked for its entries counts as one without any.  *)
LEMMA VisitFails ==
    ASSUME Going, Top.at \in {"number", "ids"}, ListFails
    PROVE  Onward
<1>1. Return(FALSE) /\ lists' = Put(lists, ListName, <<>>) /\ asked' = asked
  BY DEF ListFails
<1>2. PICK f : f = Top
  OBVIOUS
<1> PICK place : place = "done"
  OBVIOUS
<1>3. PICK g : g = [f EXCEPT !.at = place]
  OBVIOUS
<1>4. FrameInv(f) /\ Getting(f)
  BY <1>2, GoingFacts
<1>5. /\ g.parameter = f.parameter /\ g.at = "done" /\ g.ids = f.ids /\ g.i = f.i
      /\ g.kids = f.kids
  <2>1. \A x : [f EXCEPT !.at = x] =
                [parameter |-> f.parameter, at |-> x, entries |-> f.entries, ids |-> f.ids,
                 i |-> f.i, kids |-> f.kids, success |-> f.success]
    BY <1>4, FrameGoesOn, Zenon
  <2>2. g = [parameter |-> f.parameter, at |-> place, entries |-> f.entries, ids |-> f.ids,
             i |-> f.i, kids |-> f.kids, success |-> f.success]
    BY <1>3, <2>1, Zenon
  <2> QED
    BY <2>2
<1>6. Getting(g)
  BY <1>4, <1>5, StillGetting DEF Getting
<1>7. Due(g) = {} /\ Due(f) = {Target(f)}
  BY <1>2, <1>5 DEF Due
<1>8. ListName = Target(f) /\ NamesList(Target(f))
  BY <1>2, ListTarget
<1>9. PICK b, ids : b = Target(f) /\ ids = <<>>
  OBVIOUS
<1>10. Due(g) = (Due(f) \ {b}) \cup {Append(b, id) : id \in Range(ids)}
  <2>1. Range(ids) = {}
    BY <1>9 DEF Range
  <2> QED
    BY <1>7, <1>9, <2>1
<1>11. Visiting(Append(Front(stack), g), asked', lists')
  <2>1. Visiting(Append(Front(stack), g), asked, Put(lists, b, ids))
    BY <1>2, <1>5, <1>6, <1>7, <1>8, <1>9, <1>10, GoingFacts, Learns DEF Going
  <2> QED
    BY <1>1, <1>8, <1>9, <2>1
<1> QED
  BY <1>1, <1>2, <1>5, <1>7, <1>11, ReturnOn DEF Going

LEMMA VisitNumber ==
    ASSUME Going, GetNumber
    PROVE  Onward
<1>1. Top.at = "number"
  BY DEF GetNumber, At
<1>2. \/ ListFails
      \/ \E n : Become([Top EXCEPT !.at = "ids", !.entries = n]) /\ asked' = asked /\ lists' = lists
  BY DEF GetNumber, history
<1>3. ASSUME NEW n, Become([Top EXCEPT !.at = "ids", !.entries = n]), asked' = asked, lists' = lists
      PROVE  Onward
  <2>1. PICK f : f = Top
    OBVIOUS
  <2> PICK place : place = "ids"
    OBVIOUS
  <2>2. PICK g : g = [f EXCEPT !.at = place, !.entries = n]
    OBVIOUS
  <2>3. FrameInv(f) /\ Getting(f) /\ f.at = "number"
    BY <1>1, <2>1, GoingFacts
  <2>4. g = [parameter |-> f.parameter, at |-> place, entries |-> n, ids |-> f.ids,
             i |-> f.i, kids |-> f.kids, success |-> f.success]
    <3>1. \A x, y : [f EXCEPT !.at = x, !.entries = y] =
                [parameter |-> f.parameter, at |-> x, entries |-> y, ids |-> f.ids,
                 i |-> f.i, kids |-> f.kids, success |-> f.success]
      BY <2>3, FrameGoesOn, Zenon
    <3> QED
      BY <2>2, <3>1, Zenon
  <2>5. /\ g.parameter = f.parameter /\ g.at = "ids" /\ g.ids = f.ids /\ g.kids = f.kids
    BY <2>4
  <2>6. Getting(g) /\ Target(g) = Target(f)
    BY <2>3, <2>5, StillGetting DEF Getting
  <2>7. Due(g) = Due(f)
    BY <2>3, <2>5, <2>6 DEF Due
  <2>8. Visiting(Append(Front(stack), g), asked', lists')
    BY <1>3, <2>1, <2>5, <2>6, <2>7, GoingFacts, GoesOn DEF Going
  <2>9. Become(g)
    BY <1>3, <2>1, <2>2, Zenon
  <2> QED
    BY <2>1, <2>5, <2>8, <2>9, BecomeOn DEF Going
<1> QED
  BY <1>1, <1>2, <1>3, VisitFails

LEMMA VisitIds ==
    ASSUME Going, GetIds
    PROVE  Onward
<1>1. Top.at = "ids"
  BY DEF GetIds, At
<1>2. \/ ListFails
      \/ \E ids : /\ IsSequence(ids) /\ \A i, j \in 1 .. Len(ids) : ids[i] = ids[j] => i = j
                  /\ Become([Top EXCEPT !.at = "items", !.ids = ids])
                  /\ lists' = Put(lists, ListName, ids) /\ asked' = asked
  <2>1. PICK o \in Outcomes("get", ListProperty("IdsOfEntries"), {SubSeq(Ids, 1, n) : n \in 0 .. MaxEntries}) :
            LET ids == IF o.values = <<>> THEN <<"0">> ELSE SplitIds(o.values[1])
            IN  CASE Fails(o) -> ListFails
                  [] o.ok /\ Len(ids) # Top.entries -> Mismatch
                  [] OTHER -> /\ Become([Top EXCEPT !.at = "items", !.ids = ids])
                              /\ lists' = Put(lists, ListName, ids)
                              /\ UNCHANGED <<returned, notes, asked, itemFailed>>
    BY DEF GetIds
  <2>2. PICK ids : ids = IF o.values = <<>> THEN <<"0">> ELSE SplitIds(o.values[1])
    OBVIOUS
  <2>3. IsSequence(ids) /\ \A i, j \in 1 .. Len(ids) : ids[i] = ids[j] => i = j
    <3>1. ASSUME NEW x PROVE IsSequence(<<x>>) /\ \A i, j \in 1 .. Len(<<x>>) : i = j
      <4>1. PICK s : s = <<x>>
        OBVIOUS
      <4>2. s \in Seq({x}) /\ Len(s) = 1
        BY <4>1
      <4>3. IsSequence(s)
        BY <4>2, SeqOfRange DEF IsSequence
      <4>4. \A i, j \in 1 .. Len(s) : i = j
        BY <4>2
      <4> QED
        BY <4>1, <4>3, <4>4
    <3>2. CASE o.values = <<>>
      BY <2>2, <3>1, <3>2
    <3>3. CASE o.values # <<>>
      <4>1. PICK n \in 0 .. MaxEntries : o.values = <<SubSeq(Ids, 1, n)>>
        BY <3>3, OutcomeFacts
      <4>2. PICK v : v = SubSeq(Ids, 1, n)
        OBVIOUS
      <4>3. IsSequence(v) /\ \A i, j \in 1 .. Len(v) : v[i] = v[j] => i = j
        <5>1. IsSequence(Ids) /\ n \in 0 .. Len(Ids)
          BY ClientAssumption, SeqOfRange DEF IsSequence
        <5>2. v \in Seq(Range(Ids)) /\ Len(v) = n /\ \A i \in 1 .. n : v[i] = Ids[i]
          BY <4>2, <5>1, BeginningFacts
        <5>3. 1 .. n \subseteq DOMAIN Ids
          BY <5>1, SequenceFacts
        <5>4. \A i, j \in 1 .. n : v[i] = v[j] => i = j
          BY <5>2, <5>3, ClientAssumption
        <5> QED
          BY <5>2, <5>4, SeqOfRange DEF IsSequence
      <4>4. o.values[1] = v
        BY <4>1, <4>2
      <4>5. ids = v \/ ids = <<"">>
        BY <2>2, <3>3, <4>4 DEF SplitIds
      <4> QED
        BY <3>1, <4>3, <4>5
    <3> QED
      BY <3>2, <3>3
  <2>4. \/ ListFails \/ Mismatch
        \/ /\ ~Fails(o) /\ ~(o.ok /\ Len(ids) # Top.entries)
           /\ Become([Top EXCEPT !.at = "items", !.ids = ids])
           /\ lists' = Put(lists, ListName, ids) /\ asked' = asked
    BY <2>1, <2>2
  <2> QED
    BY <2>3, <2>4 DEF Mismatch
<1>3. ASSUME NEW ids, IsSequence(ids), \A i, j \in 1 .. Len(ids) : ids[i] = ids[j] => i = j,
             Become([Top EXCEPT !.at = "items", !.ids = ids]),
             lists' = Put(lists, ListName, ids), asked' = asked
      PROVE  Onward
  <2>1. PICK f : f = Top
    OBVIOUS
  <2> PICK place : place = "items"
    OBVIOUS
  <2>2. PICK g : g = [f EXCEPT !.at = place, !.ids = ids]
    OBVIOUS
  <2>3. FrameInv(f) /\ Getting(f) /\ f.at = "ids" /\ IsFrame(f)
    BY <1>1, <2>1, GoingFacts
  <2>4. g = [parameter |-> f.parameter, at |-> place, entries |-> f.entries, ids |-> ids,
             i |-> f.i, kids |-> f.kids, success |-> f.success]
    <3>1. \A x, y : [f EXCEPT !.at = x, !.ids = y] =
                [parameter |-> f.parameter, at |-> x, entries |-> f.entries, ids |-> y,
                 i |-> f.i, kids |-> f.kids, success |-> f.success]
      BY <2>3, FrameGoesOn, Zenon
    <3> QED
      BY <2>2, <3>1, Zenon
  <2>5. g.parameter = f.parameter /\ g.at = "items" /\ g.ids = ids /\ g.i = f.i /\ g.kids = f.kids
    BY <2>4
  <2>6. g.i = 1
    <3>1. f.ids = <<>> /\ f.i \in 1 .. Len(f.ids) + 1
      BY <2>3 DEF FrameInv, IsFrame
    <3> QED
      BY <2>5, <3>1
  <2>7. Getting(g) /\ Target(g) = Target(f)
    BY <1>3, <2>3, <2>5, StillGetting DEF Getting
  <2>8. PICK b : b = Target(f)
    OBVIOUS
  <2>9. Due(f) = {b} /\ ListName = b /\ NamesList(b)
    BY <2>1, <2>3, <2>8, ListTarget DEF Due
  <2>10. Due(g) = (Due(f) \ {b}) \cup {Append(b, id) : id \in Range(ids)}
    <3>1. Due(g) = {Append(b, ids[j]) : j \in 1 .. Len(ids)}
      BY <2>5, <2>6, <2>7, <2>8 DEF Due, ItemsFrom
    <3>2. Range(ids) = {ids[j] : j \in 1 .. Len(ids)}
      BY <1>3, SequenceFacts DEF Range
    <3> QED
      BY <2>9, <3>1, <3>2
  <2>11. Visiting(Append(Front(stack), g), asked, Put(lists, b, ids))
    BY <2>1, <2>5, <2>7, <2>9, <2>10, GoingFacts, Learns DEF Going
  <2>12. Become(g)
    BY <1>3, <2>1, <2>2, Zenon
  <2> QED
    BY <1>3, <2>1, <2>5, <2>9, <2>11, <2>12, BecomeOn DEF Going
<1> QED
  BY <1>1, <1>2, <1>3, VisitFails

OneLonger(b, T) == {Append(b, c) : c \in T}

(* The children of an object, none of them asked for yet.                  *)
LEMMA KidsAreLeft ==
    ASSUME DatabaseInv, TreeInv, phase = "query", NEW b, IsSequence(b), Known(b),
           NEW kids, kids = m_children[Named(b)],
           NEW g, g.kids = kids, Base(g) = b
    PROVE  /\ KidsLeft(g) = OneLonger(b, Kids(b))
           /\ \A i, j \in 1 .. Len(kids) :
                trimPropertyName(kids[i]) = trimPropertyName(kids[j]) => i = j
<1>1. Named(b) \in DOMAIN model_db
  BY NamedIsObject DEF Known, DatabaseInv
<1>2. IsSequence(kids)
  BY <1>1, KidsKnown
<1>3. Range(kids) = {kids[j] : j \in 1 .. Len(kids)}
  BY <1>2, SequenceFacts DEF Range
<1>4. Kids(b) = {trimPropertyName(kids[j]) : j \in 1 .. Len(kids)}
  BY <1>3 DEF Kids
<1>5. KidsLeft(g) = {Append(b, trimPropertyName(kids[j])) : j \in 1 .. Len(kids)}
  BY DEF KidsLeft
<1>6. KidsLeft(g) = OneLonger(b, Kids(b))
  BY <1>4, <1>5 DEF OneLonger
<1> QED
  BY <1>1, <1>6, KidFacts

LEMMA VisitItem ==
    ASSUME Going, GetItem
    PROVE  Onward
<1> PICK item : item = Below(ListName, Top.ids[Top.i])
  OBVIOUS
<1>1. Top.at = "items" /\ Top.i <= Len(Top.ids) /\ command.recursive
  BY DEF GetItem, At, Going
<1>2. PICK ok :
        /\ Become([[Top EXCEPT !.at = "item kids", !.kids = Children(item)] EXCEPT !.success = @ /\ ok])
        /\ asked' = Append(asked, trimWildcard(item)) /\ lists' = lists
  <2>1. PICK o \in Outcomes("get", Query(item), {"values"}) :
            /\ Become(AfterItem(IF command.recursive
                                THEN [Top EXCEPT !.at = "item kids", !.kids = Children(item)]
                                ELSE [Top EXCEPT !.i = @ + 1], o))
            /\ asked' = Append(asked, trimWildcard(item)) /\ lists' = lists
    BY DEF GetItem
  <2> QED
    BY <1>1, <2>1 DEF AfterItem
<1>3. PICK f, kids : f = Top /\ kids = Children(item)
  OBVIOUS
<1>0. PICK place : place = "item kids"
  OBVIOUS
<1>4. PICK g0 : g0 = [f EXCEPT !.at = place, !.kids = kids]
  OBVIOUS
<1>5. PICK g : g = [g0 EXCEPT !.success = @ /\ ok]
  OBVIOUS
<1>6. FrameInv(f) /\ Getting(f) /\ f.at = "items" /\ IsFrame(f) /\ f.i <= Len(f.ids)
  BY <1>1, <1>3, GoingFacts
<1>7. /\ g.parameter = f.parameter /\ g.at = "item kids" /\ g.ids = f.ids /\ g.i = f.i
      /\ g.kids = kids
  <2>1. g0 = [parameter |-> f.parameter, at |-> place, entries |-> f.entries, ids |-> f.ids,
              i |-> f.i, kids |-> kids, success |-> f.success]
    <3>1. \A x, y : [f EXCEPT !.at = x, !.kids = y] =
                [parameter |-> f.parameter, at |-> x, entries |-> f.entries, ids |-> f.ids,
                 i |-> f.i, kids |-> y, success |-> f.success]
      BY <1>6, FrameGoesOn, Zenon
    <3> QED
      BY <1>4, <3>1, Zenon
  <2>2. g = [parameter |-> f.parameter, at |-> place, entries |-> f.entries, ids |-> f.ids,
             i |-> f.i, kids |-> kids, success |-> (f.success /\ ok)]
    BY <1>5, <2>1
  <2> QED
    BY <1>0, <2>2
<1>8. Become(g)
  BY <1>0, <1>2, <1>3, <1>4, <1>5, Zenon
<1>9. PICK t, ids : t = Target(f) /\ ids = f.ids
  OBVIOUS
<1>10. PICK n \in Nat, i \in Nat : n = Len(ids) /\ i = f.i /\ i \in 1 .. n
  <2>1. PICK n \in Nat : n = Len(f.ids)
    BY <1>6, SequenceFacts DEF IsFrame
  <2>2. PICK i : i = f.i
    OBVIOUS
  <2>3. i \in 1 .. n + 1 /\ i <= n
    BY <1>6, <2>1, <2>2 DEF IsFrame
  <2>4. i \in Nat /\ i \in 1 .. n
    BY <2>3
  <2> QED
    BY <1>9, <2>1, <2>2, <2>4
<1>11. IsSequence(t) /\ Known(t) /\ ListName = t /\ NamesList(t)
  BY <1>1, <1>3, <1>9, GoingFacts, ListTarget
<1>12. PICK b : b = Append(t, ids[i])
  OBVIOUS
<1>13. ~NamesList(b) /\ Named(b) = Named(t) /\ IsSequence(b) /\ Known(b)
  BY <1>11, <1>12, GoingFacts, EntryNames, AppendFacts DEF Known
<1>14. item = Below(t, ids[i])
  BY <1>3, <1>9, <1>10, <1>11
<1>15. IsSequence(item) /\ item # <<>> /\ isWildcard(item) /\ Front(item) = b
  BY <1>11, <1>12, <1>14, BelowFacts
<1>16. trimWildcard(item) = b /\ getProviderByPropertyName(item) = Named(b)
  BY <1>15, GoingFacts, WildcardFacts
<1>17. kids = m_children[Named(b)]
  BY <1>3, <1>16 DEF Children
<1>18. Base(g) = b
  BY <1>7, <1>9, <1>10, <1>12 DEF Base, Target
<1>19. /\ KidsLeft(g) = OneLonger(b, Kids(b))
       /\ \A j, k \in 1 .. Len(kids) :
            trimPropertyName(kids[j]) = trimPropertyName(kids[k]) => j = k
  BY <1>7, <1>13, <1>17, <1>18, KidsAreLeft DEF Going
<1>20. \A j, k \in 1 .. Len(ids) : ids[j] = ids[k] => j = k
  BY <1>6, <1>9 DEF Getting
<1>21. Getting(g) /\ Target(g) = t
  <2>1. \A j, k \in 1 .. Len(g.ids) : g.ids[j] = g.ids[k] => j = k
    BY <1>7, <1>9, <1>20
  <2>2. \A j, k \in 1 .. Len(g.kids) :
            trimPropertyName(g.kids[j]) = trimPropertyName(g.kids[k]) => j = k
    BY <1>7, <1>19
  <2>3. g.at # "set"
    BY <1>7
  <2> QED
    BY <1>6, <1>7, <1>9, <2>1, <2>2, <2>3, StillGetting
<1>22. PICK later : later = {Append(t, ids[j]) : j \in i + 1 .. n}
  OBVIOUS
<1>23. Due(f) = later \cup {b} /\ b \notin later
  <2>1. Due(f) = {Append(t, ids[j]) : j \in i .. n}
    BY <1>6, <1>9, <1>10 DEF Due, ItemsFrom
  <2>2. \A j : j \in i .. n <=> j = i \/ j \in i + 1 .. n
    <3>1. i \in Nat /\ n \in Nat /\ i <= n
      BY <1>10
    <3> QED
      BY <3>1
  <2>3. Due(f) = later \cup {b}
    BY <1>12, <1>22, <2>1, <2>2
  <2>4. ASSUME NEW j \in i + 1 .. n, b = Append(t, ids[j]) PROVE FALSE
    <3>1. Last(b) = ids[i] /\ Last(b) = ids[j]
      BY <1>11, <1>12, <2>4, LastAppended
    <3>2. j \in 1 .. n /\ j # i
      <4>1. i \in Nat /\ n \in Nat /\ i >= 1
        BY <1>10
      <4> QED
        BY <4>1
    <3> QED
      BY <1>10, <1>20, <3>1, <3>2
  <2> QED
    BY <1>22, <2>3, <2>4
<1>24. Due(g) = later \cup KidsLeft(g)
  BY <1>7, <1>9, <1>10, <1>21, <1>22 DEF Due, ItemsFrom
<1>25. Due(g) = (Due(f) \ {b}) \cup {Append(b, c) : c \in Kids(b)} /\ b \in Due(f)
  BY <1>19, <1>23, <1>24 DEF OneLonger
<1>26. Visiting(Append(Front(stack), g), Append(asked, b), lists)
  BY <1>3, <1>7, <1>13, <1>21, <1>25, GoingFacts, Asks DEF Going
<1> QED
  BY <1>2, <1>3, <1>7, <1>8, <1>16, <1>26, BecomeOn DEF Going

LEMMA VisitItemDone ==
    ASSUME Going, ItemDone
    PROVE  Onward
<1>1. /\ Top.at = "item kids" /\ Top.kids = <<>> /\ asked' = asked /\ lists' = lists
      /\ Become([Top EXCEPT !.at = "items", !.i = @ + 1])
  BY DEF ItemDone, At, history
<1>2. PICK f : f = Top
  OBVIOUS
<1>0. PICK place : place = "items"
  OBVIOUS
<1>3. PICK g : g = [f EXCEPT !.at = place, !.i = @ + 1]
  OBVIOUS
<1>4. FrameInv(f) /\ Getting(f) /\ f.at = "item kids" /\ f.kids = <<>>
  BY <1>1, <1>2, GoingFacts
<1>5. /\ g.parameter = f.parameter /\ g.at = "items" /\ g.ids = f.ids /\ g.i = f.i + 1
      /\ g.kids = f.kids
  <2>1. \A x : [f EXCEPT !.at = x, !.i = @ + 1] =
                [parameter |-> f.parameter, at |-> x, entries |-> f.entries, ids |-> f.ids,
                 i |-> f.i + 1, kids |-> f.kids, success |-> f.success]
    BY <1>4, FrameGoesOn, Zenon
  <2>2. g = [parameter |-> f.parameter, at |-> place, entries |-> f.entries, ids |-> f.ids,
             i |-> f.i + 1, kids |-> f.kids, success |-> f.success]
    BY <1>3, <2>1, Zenon
  <2> QED
    BY <1>0, <2>2
<1>6. Getting(g) /\ Target(g) = Target(f)
  <2>1. \A j, k \in 1 .. Len(g.ids) : g.ids[j] = g.ids[k] => j = k
    BY <1>4, <1>5 DEF Getting
  <2>2. \A j, k \in 1 .. Len(g.kids) :
            trimPropertyName(g.kids[j]) = trimPropertyName(g.kids[k]) => j = k
    BY <1>4, <1>5 DEF Getting
  <2>3. g.at # "set"
    BY <1>5
  <2> QED
    BY <1>4, <1>5, <2>1, <2>2, <2>3, StillGetting
<1>7. Due(g) = Due(f)
  <2>1. KidsLeft(f) = {}
    <3>0. f.kids = <<>>
      BY <1>4
    <3>1. Len(f.kids) = 0
      BY <3>0
    <3>2. 1 .. Len(f.kids) = {}
      BY <3>1
    <3> QED
      BY <3>2 DEF KidsLeft
  <2>2. ItemsFrom(g, g.i) = ItemsFrom(f, f.i + 1)
    BY <1>5, <1>6 DEF ItemsFrom
  <2> QED
    BY <1>4, <1>5, <2>1, <2>2 DEF Due
<1>8. Visiting(Append(Front(stack), g), asked', lists')
  BY <1>1, <1>2, <1>5, <1>6, <1>7, GoingFacts, GoesOn DEF Going
<1>9. Become(g)
  BY <1>0, <1>1, <1>2, <1>3, Zenon
<1> QED
  BY <1>2, <1>5, <1>8, <1>9, BecomeOn DEF Going

(* It returns when nothing is left of the list, or of the children.        *)
LEMMA VisitReturns ==
    ASSUME Going, ListDone \/ OneDone
    PROVE  Onward
<1>1. /\ asked' = asked /\ lists' = lists /\ \E result : Return(result)
      /\ \/ Top.at = "items" /\ Top.i > Len(Top.ids)
         \/ Top.at = "kids" /\ Top.kids = <<>>
  BY DEF ListDone, OneDone, At, history
<1>2. PICK f : f = Top
  OBVIOUS
<1>3. Due(f) = {}
  <2>1. CASE f.at = "items" /\ f.i > Len(f.ids)
    <3>1. PICK n \in Nat : n = Len(f.ids)
      BY <1>2, GoingFacts, SequenceFacts DEF IsFrame
    <3>2. f.i \in 1 .. n + 1 /\ f.i > n
      BY <1>2, <2>1, <3>1, GoingFacts DEF IsFrame
    <3>3. f.i .. n = {}
      BY <3>2
    <3> QED
      BY <2>1, <3>1, <3>3 DEF Due, ItemsFrom
  <2>2. CASE f.at = "kids" /\ f.kids = <<>>
    BY <2>2 DEF Due, KidsLeft
  <2> QED
    BY <1>1, <1>2, <2>1, <2>2
<1>4. Visiting(Append(Front(stack), f), asked', lists')
  BY <1>1, <1>2, GoingFacts, TopSplit DEF Going
<1> QED
  BY <1>1, <1>2, <1>3, <1>4, ReturnOn DEF Going

LEMMA VisitOne ==
    ASSUME Going, GetOne
    PROVE  Onward
<1>1. Top.at = "one"
  BY DEF GetOne, At
<1>2. PICK ok :
        /\ Become([Top EXCEPT !.at = "kids", !.kids = Children(Name), !.success = ok])
        /\ asked' = Append(asked, InstanceName("get", Top.parameter)) /\ lists' = lists
  <2>1. command.recursive /\ Provider # NoProvider
    BY OnlyKnown DEF Going
  <2>2. PICK o \in Outcomes("get", Top.parameter, {"values"}) :
            /\ asked' = Append(asked, InstanceName("get", Top.parameter))
            /\ CASE ~command.recursive -> Return(o.ok) /\ UNCHANGED phase
                 [] command.recursive /\ Provider # NoProvider ->
                        /\ Become([Top EXCEPT !.at = "kids", !.kids = Children(Name), !.success = o.ok])
                        /\ UNCHANGED <<returned, phase>>
                 [] OTHER -> phase' = "crashed" /\ UNCHANGED <<stack, returned>>
    BY DEF GetOne
  <2>3. lists' = lists
    BY DEF GetOne
  <2> QED
    BY <2>1, <2>2, <2>3
<1>3. PICK f, kids : f = Top /\ kids = Children(Name)
  OBVIOUS
<1>0. PICK place : place = "kids"
  OBVIOUS
<1>4. PICK g : g = [f EXCEPT !.at = place, !.kids = kids, !.success = ok]
  OBVIOUS
<1>5. FrameInv(f) /\ Getting(f) /\ f.at = "one"
  BY <1>1, <1>3, GoingFacts
<1>6. /\ g.parameter = f.parameter /\ g.at = "kids" /\ g.ids = f.ids /\ g.i = f.i
      /\ g.kids = kids
  <2>1. \A x, y, z : [f EXCEPT !.at = x, !.kids = y, !.success = z] =
            [parameter |-> f.parameter, at |-> x, entries |-> f.entries, ids |-> f.ids,
             i |-> f.i, kids |-> y, success |-> z]
    BY <1>5, FrameGoesOn, Zenon
  <2>2. g = [parameter |-> f.parameter, at |-> place, entries |-> f.entries, ids |-> f.ids,
             i |-> f.i, kids |-> kids, success |-> ok]
    BY <1>4, <2>1, Zenon
  <2> QED
    BY <1>0, <2>2
<1>7. Become(g)
  BY <1>0, <1>2, <1>3, <1>4, Zenon
<1>8. PICK b : b = Target(f)
  OBVIOUS
<1>9. IsSequence(b) /\ Known(b) /\ b = ObjectPart(Name) /\ Name = Whole(f.parameter)
  BY <1>3, <1>8, GoingFacts
<1>10. ~NamesList(b)
  <2>1. ASSUME NamesList(b) PROVE FALSE
    <3>1. isWildcard(Name)
      BY <1>5, <1>8, <1>9, <2>1 DEF Getting
    <3>2. trimWildcard(Name) = b
      BY <1>9, <3>1, GoingFacts, WildcardFacts
    <3>3. AsksForList(Name)
      BY <2>1, <3>1, <3>2 DEF AsksForList
    <3> QED
      BY <1>5, <1>9, <3>3 DEF FrameInv
  <2> QED
    BY <2>1
<1>11. InstanceName("get", Top.parameter) = b
  BY <1>3, <1>9 DEF InstanceName
<1>12. kids = m_children[Named(b)]
  BY <1>3, <1>9, GoingFacts, LookupFinds DEF Children, getProviderByPropertyName
<1>13. Base(g) = b
  BY <1>6, <1>8 DEF Base, Target
<1>14. /\ KidsLeft(g) = OneLonger(b, Kids(b))
       /\ \A j, k \in 1 .. Len(kids) :
            trimPropertyName(kids[j]) = trimPropertyName(kids[k]) => j = k
  BY <1>6, <1>9, <1>12, <1>13, KidsAreLeft DEF Going
<1>15. Getting(g)
  <2>1. \A j, k \in 1 .. Len(g.ids) : g.ids[j] = g.ids[k] => j = k
    BY <1>5, <1>6 DEF Getting
  <2>2. \A j, k \in 1 .. Len(g.kids) :
            trimPropertyName(g.kids[j]) = trimPropertyName(g.kids[k]) => j = k
    BY <1>6, <1>14
  <2>3. g.at # "set"
    BY <1>6
  <2> QED
    BY <1>5, <1>6, <2>1, <2>2, <2>3, StillGetting
<1>16. Due(f) = {b} /\ Due(g) = KidsLeft(g)
  BY <1>5, <1>6, <1>8 DEF Due
<1>17. Due(g) = (Due(f) \ {b}) \cup {Append(b, c) : c \in Kids(b)} /\ b \in Due(f)
  BY <1>14, <1>16 DEF OneLonger
<1>18. Visiting(Append(Front(stack), g), Append(asked, b), lists)
  BY <1>3, <1>6, <1>10, <1>15, <1>17, GoingFacts, Asks DEF Going
<1> QED
  BY <1>2, <1>3, <1>6, <1>7, <1>11, <1>18, BecomeOn DEF Going

(* The name of an object of the model has more than one token.             *)
LEMMA LongName ==
    ASSUME Going
    PROVE  trimProperty(Name) = Target(Top)
<1>1. Len(Target(Top)) > 1
  BY GoingFacts, NamesAreLong DEF Known
<1>2. PICK n \in Nat \ {0} : n = Len(Name)
  BY GoingFacts, SequenceFacts
<1>3. n > 1
  <2>1. ASSUME n = 1 PROVE FALSE
    <3>1. trimProperty(Name) = Name
      BY <1>2, <2>1 DEF trimProperty
    <3>2. Len(Front(Name)) = 0
      <4>1. PICK s : s = Name /\ IsSequence(s) /\ s # <<>>
        BY GoingFacts
      <4>2. Len(Front(s)) = n - 1
        BY <1>2, <4>1, FrontFacts
      <4> QED
        BY <2>1, <4>1, <4>2
    <3>3. Target(Top) = Name \/ Target(Top) = Front(Name)
      BY <3>1, GoingFacts DEF ObjectPart, trimWildcard
    <3>4. Len(Target(Top)) = 1 \/ Len(Target(Top)) = 0
      BY <1>2, <2>1, <3>2, <3>3
    <3>5. PICK m : m = Len(Target(Top))
      OBVIOUS
    <3>6. m > 1 /\ (m = 1 \/ m = 0)
      BY <1>1, <3>4, <3>5
    <3> QED
      BY <3>6
  <2> QED
    BY <2>1
<1>4. Target(Top) = Front(Name)
  BY <1>2, <1>3, GoingFacts, ObjectPartFacts
<1> QED
  BY <1>2, <1>3, <1>4 DEF trimProperty

(* Where the children of an activation are, as it calls them.              *)
LEMMA KidIsBelow ==
    ASSUME Going, Top.at \in {"kids", "item kids"}, NEW kid
    PROVE  /\ IsSequence(Base(Top)) /\ isWildcard(Whole(KidParameter(kid)))
           /\ Target(Frame(KidParameter(kid), "get")) = Append(Base(Top), trimPropertyName(kid))
<1>1. PICK p : p = (IF Top.at = "kids" THEN trimProperty(Name) ELSE Append(ListName, Top.ids[Top.i]))
  OBVIOUS
<1>2. p = Base(Top) /\ IsSequence(p)
  <2>1. CASE Top.at = "kids"
    BY <1>1, <2>1, LongName, GoingFacts DEF Base
  <2>2. CASE Top.at = "item kids"
    <3>1. ListName = Target(Top) /\ IsSequence(Target(Top))
      BY <2>2, ListTarget, GoingFacts
    <3>2. p = Append(Target(Top), Top.ids[Top.i])
      BY <1>1, <2>2, <3>1
    <3> QED
      BY <2>2, <3>1, <3>2, AppendFacts DEF Base
  <2> QED
    BY <2>1, <2>2
<1>3. PICK s : s = Below(p, trimPropertyName(kid))
  OBVIOUS
<1>4. /\ IsSequence(s) /\ s # <<>> /\ isWildcard(s) /\ Front(s) = Append(p, trimPropertyName(kid))
  BY <1>2, <1>3, BelowFacts
<1>5. KidParameter(kid) = Query(s)
  BY <1>1, <1>3 DEF KidParameter
<1>6. Whole(Query(s)) = s
  BY DEF Whole, Query
<1>7. ObjectPart(s) = Front(s)
  BY <1>4 DEF ObjectPart, trimWildcard
<1>8. Target(Frame(Query(s), "get")) = ObjectPart(Whole(Query(s)))
  BY DEF Target, Frame
<1> QED
  BY <1>2, <1>4, <1>5, <1>6, <1>7, <1>8

LEMMA VisitKid ==
    ASSUME Going, GetKid
    PROVE  Onward
<1>1. /\ Top.at \in {"kids", "item kids"} /\ Top.kids # <<>> /\ asked' = asked /\ lists' = lists
      /\ stack' = Append(Append(Front(stack), [Top EXCEPT !.kids = Tail(@)]),
                         Frame(KidParameter(Head(Top.kids)), "get"))
  BY DEF GetKid, At, history
<1>2. PICK f, kids, rest : f = Top /\ kids = f.kids /\ rest = Tail(kids)
  OBVIOUS
<1>3. FrameInv(f) /\ Getting(f) /\ f.at \in {"kids", "item kids"} /\ IsFrame(f)
  BY <1>1, <1>2, GoingFacts
<1>4. IsSequence(kids) /\ kids # <<>>
  BY <1>1, <1>2, <1>3 DEF IsFrame
<1>5. PICK n \in Nat \ {0} : n = Len(kids)
  BY <1>4, SequenceFacts
<1>6. /\ Head(kids) = kids[1] /\ Len(rest) = n - 1
      /\ \A j \in 1 .. n - 1 : rest[j] = kids[j + 1]
  BY <1>2, <1>4, <1>5 DEF IsSequence
<1>7. PICK g : g = [f EXCEPT !.kids = Tail(@)]
  OBVIOUS
<1>8. /\ g.parameter = f.parameter /\ g.at = f.at /\ g.ids = f.ids /\ g.i = f.i
      /\ g.kids = rest
  <2>1. [f EXCEPT !.kids = Tail(@)] =
            [parameter |-> f.parameter, at |-> f.at, entries |-> f.entries, ids |-> f.ids,
             i |-> f.i, kids |-> Tail(f.kids), success |-> f.success]
    BY <1>3, FrameGoesOn, Zenon
  <2>2. g = [parameter |-> f.parameter, at |-> f.at, entries |-> f.entries, ids |-> f.ids,
             i |-> f.i, kids |-> rest, success |-> f.success]
    BY <1>2, <1>7, <2>1, Zenon
  <2> QED
    BY <2>2
<1>9. PICK h : h = Frame(KidParameter(Head(kids)), "get")
  OBVIOUS
<1>10. PICK b : b = Base(f)
  OBVIOUS
<1>11. PICK token : token = trimPropertyName(kids[1])
  OBVIOUS
<1>12. IsSequence(b) /\ isWildcard(Whole(h.parameter)) /\ Target(h) = Append(b, token)
  <2>1. h.parameter = KidParameter(Head(kids))
    BY <1>9 DEF Frame
  <2> QED
    BY <1>2, <1>3, <1>6, <1>9, <1>10, <1>11, <2>1, KidIsBelow
<1>13. \A j, k \in 1 .. n : trimPropertyName(kids[j]) = trimPropertyName(kids[k]) => j = k
  BY <1>2, <1>3, <1>5 DEF Getting
<1>14. Getting(g) /\ Target(g) = Target(f)
  <2>1. \A j, k \in 1 .. Len(g.ids) : g.ids[j] = g.ids[k] => j = k
    BY <1>3, <1>8 DEF Getting
  <2>2. \A j, k \in 1 .. n - 1 : trimPropertyName(rest[j]) = trimPropertyName(rest[k]) => j = k
    <3>1. ASSUME NEW j \in 1 .. n - 1, NEW k \in 1 .. n - 1,
                 trimPropertyName(rest[j]) = trimPropertyName(rest[k])
          PROVE  j = k
      <4>1. j + 1 \in 1 .. n /\ k + 1 \in 1 .. n
        BY <1>5
      <4>2. trimPropertyName(kids[j + 1]) = trimPropertyName(kids[k + 1])
        BY <1>6, <3>1
      <4>3. j + 1 = k + 1
        BY <1>13, <4>1, <4>2
      <4> QED
        BY <4>3
    <3> QED
      BY <3>1
  <2>3. g.at # "set"
    BY <1>3, <1>8
  <2>4. \A j, k \in 1 .. Len(g.kids) :
            trimPropertyName(g.kids[j]) = trimPropertyName(g.kids[k]) => j = k
    BY <1>6, <1>8, <2>2
  <2> QED
    BY <1>3, <1>8, <2>1, <2>3, <2>4, StillGetting
<1>15. Base(g) = b
  BY <1>8, <1>10, <1>14 DEF Base
<1>16. Due(h) = {Append(b, token)} /\ h.at = "get" /\ h.ids = <<>> /\ h.kids = <<>>
  <2>1. h.at = "get" /\ h.ids = <<>> /\ h.kids = <<>>
    BY <1>9 DEF Frame
  <2> QED
    BY <1>12, <2>1 DEF Due
<1>17. PICK left : left = {Append(b, trimPropertyName(kids[j])) : j \in 2 .. n}
  OBVIOUS
<1>18. KidsLeft(g) = left
  <2>1. KidsLeft(g) = {Append(b, trimPropertyName(rest[j])) : j \in 1 .. n - 1}
    BY <1>6, <1>8, <1>15 DEF KidsLeft
  <2>2. ASSUME NEW x PROVE (\E j \in 1 .. n - 1 : x = Append(b, trimPropertyName(rest[j])))
                            <=> (\E j \in 2 .. n : x = Append(b, trimPropertyName(kids[j])))
    <3>1. ASSUME NEW j \in 1 .. n - 1, x = Append(b, trimPropertyName(rest[j]))
          PROVE  \E k \in 2 .. n : x = Append(b, trimPropertyName(kids[k]))
      <4>1. j + 1 \in 2 .. n
        BY <1>5
      <4> QED
        BY <1>6, <3>1, <4>1
    <3>2. ASSUME NEW k \in 2 .. n, x = Append(b, trimPropertyName(kids[k]))
          PROVE  \E j \in 1 .. n - 1 : x = Append(b, trimPropertyName(rest[j]))
      <4>1. k - 1 \in 1 .. n - 1 /\ (k - 1) + 1 = k
        BY <1>5
      <4>2. rest[k - 1] = kids[k]
        BY <1>6, <4>1
      <4> QED
        BY <3>2, <4>1, <4>2
    <3> QED
      BY <3>1, <3>2
  <2> QED
    BY <1>17, <2>1, <2>2
<1>19. KidsLeft(f) = left \cup {Append(b, token)} /\ Append(b, token) \notin left
  <2>1. KidsLeft(f) = {Append(b, trimPropertyName(kids[j])) : j \in 1 .. n}
    BY <1>2, <1>5, <1>10 DEF KidsLeft
  <2>2. \A j : j \in 1 .. n <=> j = 1 \/ j \in 2 .. n
    BY <1>5
  <2>3. KidsLeft(f) = left \cup {Append(b, token)}
    BY <1>11, <1>17, <2>1, <2>2
  <2>4. ASSUME NEW j \in 2 .. n, Append(b, token) = Append(b, trimPropertyName(kids[j])) PROVE FALSE
    <3>1. token = trimPropertyName(kids[j])
      BY <1>12, <2>4, LastAppended
    <3>2. j \in 1 .. n /\ 1 \in 1 .. n /\ j # 1
      BY <1>5
    <3> QED
      BY <1>11, <1>13, <3>1, <3>2
  <2> QED
    BY <1>17, <2>3, <2>4
<1>20. Due(g) \cap Due(h) = {} /\ Due(g) \cup Due(h) = Due(f)
  <2>1. CASE f.at = "kids"
    <3>1. Due(f) = KidsLeft(f) /\ Due(g) = KidsLeft(g)
      BY <1>8, <2>1 DEF Due
    <3> QED
      BY <1>16, <1>18, <1>19, <3>1
  <2>2. CASE f.at = "item kids"
    <3>1. PICK later : later = ItemsFrom(f, f.i + 1)
      OBVIOUS
    <3>2. Due(f) = later \cup KidsLeft(f) /\ Due(g) = later \cup KidsLeft(g)
      BY <1>8, <1>14, <2>2, <3>1 DEF Due, ItemsFrom
    <3>3. Append(b, token) \notin later
      <4>1. PICK t, id : t = Target(f) /\ id = f.ids[f.i]
        OBVIOUS
      <4>2. IsSequence(t) /\ b = Append(t, id)
        BY <1>2, <1>10, <2>2, <4>1, GoingFacts DEF Base
      <4>3. ASSUME NEW x, Append(b, token) = Append(t, x) PROVE FALSE
        <5>1. b = t
          BY <1>12, <4>2, <4>3, LastAppended
        <5> QED
          BY <4>2, <5>1, BeginsFacts
      <4> QED
        BY <3>1, <4>1, <4>3 DEF ItemsFrom
    <3> QED
      BY <1>16, <1>18, <1>19, <3>2, <3>3
  <2> QED
    BY <1>3, <2>1, <2>2
<1>21. Getting(h)
  <2>1. Known(Target(h))
    <3>1. Target(h) \in Due(f)
      BY <1>12, <1>16, <1>20
    <3> QED
      BY <1>2, <3>1, GoingFacts
  <2>2. Len(h.ids) = 0 /\ Len(h.kids) = 0
    BY <1>16
  <2>3. 1 .. Len(h.ids) = {} /\ 1 .. Len(h.kids) = {}
    BY <2>2
  <2>4. h.at # "set"
    BY <1>16
  <2> QED
    BY <1>12, <2>1, <2>3, <2>4 DEF Getting
<1>22. Visiting(Append(Append(Front(stack), g), h), asked, lists)
  BY <1>2, <1>8, <1>14, <1>20, <1>21, GoingFacts, Leaves DEF Going
<1>23. stack' = Append(Append(Front(stack), g), h)
  BY <1>1, <1>2, <1>7, <1>9, Zenon
<1>24. PICK r : r = Front(stack) /\ IsSequence(r) /\ stack = Append(r, f)
  BY <1>2, GoingFacts, TopSplit DEF Going
<1>25. PICK t : t = Append(r, g) /\ IsSequence(t)
  BY <1>24, AppendFacts
<1>26. Append(t, h) # <<>>
  BY <1>25, AppendFacts
<1> QED
  BY <1>1, <1>22, <1>23, <1>24, <1>25, <1>26 DEF Onward

-----------------------------------------------------------------------------
(***************************************************************************)
(* All steps together.                                                     *)
(***************************************************************************)
LEMMA Onwards ==
    ASSUME Going, Next
    PROVE  Onward
<1>1. phase = "query" /\ stack # <<>> /\ Getting(Top)
  BY GoingFacts DEF Going
<1>2. ~Load /\ ~Loaded /\ ~RunQuery /\ ~Exit
  BY <1>1 DEF Load, Loaded, RunQuery, Exit
<1>3. ~RunSet
  BY <1>1 DEF RunSet, At, Getting
<1>4. ~GetUnknown
  BY OnlyKnown DEF GetUnknown
<1> QED
  BY <1>2, <1>3, <1>4, VisitBegins, VisitNumber, VisitIds, VisitItem, VisitItemDone, VisitReturns,
     VisitOne, VisitKid DEF Next

(* The objects and their tree stay what they are.                          *)
LEMMA SameVisit ==
    ASSUME model_db' = model_db, m_children' = m_children
    PROVE  /\ \A p : (Known(p)' <=> Known(p)) /\ (NamesList(p)' <=> NamesList(p))
           /\ \A s, a, l : Visiting(s, a, l)' <=> Visiting(s, a, l)
<1>1. \A p : Named(p)' = Named(p) /\ (NamesList(p)' <=> NamesList(p))
  BY SameNames
<1>2. \A p : (Known(p)' <=> Known(p)) /\ Kids(p)' = Kids(p)
  BY <1>1 DEF Known, Kids
<1>3. \A f : Getting(f)' <=> Getting(f)
  BY <1>1, <1>2 DEF Getting
<1>4. \A s : Shared(s)' <=> Shared(s)
  BY <1>3 DEF Shared
<1>5. \A due, a, l : Typed(due, a, l)' <=> Typed(due, a, l)
  BY <1>1, <1>2 DEF Typed
<1>6. \A first, due, a, l : Complete(first, due, a, l)' <=> Complete(first, due, a, l)
  BY <1>2 DEF Complete
<1>7. \A first, due, a, l : Reached(first, due, a, l)' <=> Reached(first, due, a, l)
  BY <1>2 DEF Reached
<1>8. \A first, due, a, l : Progress(first, due, a, l)' <=> Progress(first, due, a, l)
  BY <1>5, <1>6, <1>7 DEF Progress
<1> QED
  BY <1>1, <1>2, <1>4, <1>8 DEF Visiting

(* What a recursive get has come to, unless it asked for a list without a  *)
(* dot behind its name; one that asked for nothing known is at its end.    *)
Fits(q) == NamesList(ObjectPart(Whole(q))) => isWildcard(Whole(q))

VisitInv ==
    phase = "query" /\ stack # <<>> =>
        /\ command.op = "set" => asked = <<>>
        /\ command.op = "get" /\ command.recursive =>
            IF Known(Target(stack[1]))
            THEN Fits(stack[1].parameter) => Visiting(stack, asked, lists)
            ELSE asked = <<>> /\ Len(stack) = 1 /\ stack[1].at \in {"get", "one"}

LEMMA VisitStarts ==
    ASSUME DatabaseInv, NEW q, IsQuery(q), NEW f, f = Frame(q, "get"), Known(Target(f)), Fits(q)
    PROVE  Visiting(<<f>>, <<>>, <<>>)
<1>1. /\ f.parameter = q /\ f.at = "get" /\ Len(f.ids) = 0 /\ Len(f.kids) = 0
  BY DEF Frame
<1>2. 1 .. Len(f.ids) = {} /\ 1 .. Len(f.kids) = {}
  BY <1>1
<1>3. Getting(f)
  <2>1. f.at # "set"
    BY <1>1
  <2>2. NamesList(Target(f)) => isWildcard(Whole(f.parameter))
    BY <1>1 DEF Fits, Target
  <2> QED
    BY <1>2, <2>1, <2>2 DEF Getting
<1>4. PICK b : b = Target(f)
  OBVIOUS
<1>5. IsSequence(b) /\ Known(b)
  <2>1. IsSequence(Whole(q)) /\ Whole(q) # <<>>
    BY WholeFacts
  <2> QED
    BY <1>1, <1>4, <2>1, ObjectPartFacts DEF Target
<1>6. Due(f) = {b}
  BY <1>1, <1>4 DEF Due
<1>7. PICK s : s = <<f>>
  OBVIOUS
<1>8. Len(s) = 1 /\ s[1] = f
  BY <1>7
<1>9. \A k : k \in 1 .. Len(s) <=> k = 1
  BY <1>8
<1>10. AllDue(s) = {b}
  BY <1>6, <1>8, <1>9 DEF AllDue
<1>11. Shared(s)
  BY <1>3, <1>8, <1>9 DEF Shared
<1>12. PICK none : none = <<>>
  OBVIOUS
<1>13. IsSequence(none) /\ Len(none) = 0 /\ Range(none) = {} /\ DOMAIN none = {}
  BY <1>12 DEF IsSequence, Range
<1>14. 1 .. Len(none) = {}
  BY <1>13
<1>15. Met({b}, none, none) = {b}
  BY <1>13 DEF Met
<1>16. Typed({b}, none, none)
  BY <1>5, <1>13, <1>14, <1>15 DEF Typed
<1>17. Apart({b}, none, none)
  BY <1>13 DEF Apart
<1>18. Complete(b, {b}, none, none) /\ Reached(b, {b}, none, none)
  BY <1>13, <1>15 DEF Complete, Reached
<1>19. Progress(b, {b}, none, none)
  BY <1>16, <1>17, <1>18 DEF Progress
<1> QED
  BY <1>4, <1>7, <1>8, <1>10, <1>11, <1>12, <1>19 DEF Visiting

LEMMA QueryVisit ==
    ASSUME DatabaseInv, ControlInv, VisitInv, RunQuery
    PROVE  VisitInv'
<1>1. /\ tokens # <<>> /\ model_db' = model_db /\ m_children' = m_children /\ command' = command
      /\ asked' = <<>> /\ lists' = <<>>
      /\ stack' = <<Frame(Head(tokens), IF command.op = "get" THEN "get" ELSE "set")>>
  BY DEF RunQuery, databaseVars
<1>2. PICK q : q = Head(tokens)
  OBVIOUS
<1>3. IsQuery(q)
  <2>1. IsSequence(tokens)
    BY DEF ControlInv, AreQueries
  <2>2. PICK n \in Nat \ {0} : n = Len(tokens)
    BY <1>1, <2>1, SequenceFacts
  <2>3. q = tokens[1] /\ 1 \in 1 .. n
    BY <1>1, <1>2, <2>1, <2>2 DEF IsSequence
  <2> QED
    BY <2>2, <2>3 DEF ControlInv, AreQueries
<1>4. ASSUME command.op = "get" PROVE VisitInv'
  <2>1. PICK f : f = Frame(q, "get")
    OBVIOUS
  <2>2. PICK s, none : s = <<f>> /\ none = <<>>
    OBVIOUS
  <2>3. stack' = s /\ asked' = none /\ lists' = none
    BY <1>1, <1>2, <1>4, <2>1, <2>2
  <2>4. Len(s) = 1 /\ s[1] = f /\ f.at = "get" /\ f.parameter = q
    BY <2>1, <2>2 DEF Frame
  <2>5. Known(Target(f)) /\ Fits(q) => Visiting(s, none, none)
    BY <1>3, <2>1, <2>2, VisitStarts
  <2>6. /\ Known(Target(f))' <=> Known(Target(f))
        /\ Fits(q)' <=> Fits(q)
        /\ Visiting(s, none, none)' <=> Visiting(s, none, none)
    BY <1>1, SameVisit DEF Fits
  <2>7. command'.op = "get"
    BY <1>1, <1>4
  <2> QED
    BY <2>2, <2>3, <2>4, <2>5, <2>6, <2>7 DEF VisitInv
<1>5. ASSUME command.op # "get" PROVE VisitInv'
  BY <1>1, <1>5 DEF VisitInv
<1> QED
  BY <1>4, <1>5

(* A get is for one name from its beginning to its end.                    *)
LEMMA FirstBecomes ==
    ASSUME StackInv, stack # <<>>, NEW g, g.parameter = Top.parameter, Become(g)
    PROVE  stack'[1].parameter = stack[1].parameter
<1>1. PICK r, f : r = Front(stack) /\ f = Top /\ IsSequence(r) /\ stack = Append(r, f)
  BY TopSplit DEF Top, StackInv
<1>2. stack' = Append(r, g)
  BY <1>1 DEF Become
<1>3. Append(r, g)[1].parameter = Append(r, f)[1].parameter
  BY <1>1, SameFirst
<1> QED
  BY <1>1, <1>2, <1>3

LEMMA FirstReturns ==
    ASSUME StackInv, stack # <<>>, NEW result, Return(result), stack' # <<>>
    PROVE  stack'[1].parameter = stack[1].parameter
<1>1. PICK n \in Nat \ {0} : n = Len(stack)
  BY TopFacts
<1>2. n # 1
  BY <1>1 DEF Return
<1>3. PICK s, f, h : s = SubSeq(stack, 1, n - 2) /\ f = stack[n - 1] /\ h = [f EXCEPT !.success = result]
  OBVIOUS
<1>4. IsSequence(stack) /\ n - 2 \in 0 .. n /\ n - 1 \in 1 .. n - 1 /\ n - 1 \in 0 .. n /\ n - 1 # 0
  <2>1. n - 2 \in 0 .. n /\ n - 1 \in 1 .. n - 1 /\ n - 1 \in 0 .. n /\ n - 1 # 0
    BY <1>2
  <2> QED
    BY <2>1 DEF StackInv
<1>5. FrameInv(f)
  BY <1>1, <1>3, <1>4, TopFacts
<1>6. h.parameter = f.parameter
  <2>1. h = [parameter |-> f.parameter, at |-> f.at, entries |-> f.entries, ids |-> f.ids,
             i |-> f.i, kids |-> f.kids, success |-> result]
    BY <1>3, <1>5, SuccessSet DEF FrameInv
  <2> QED
    BY <2>1
<1>7. s \in Seq(Range(stack))
  BY <1>1, <1>3, <1>4, BeginningFacts
<1>8. IsSequence(s)
  BY <1>7, SeqOfRange DEF IsSequence
<1>9. stack' = Append(s, h)
  <2>1. stack' = s \o <<h>>
    BY <1>1, <1>2, <1>3 DEF Return
  <2>2. s \in Seq(Range(stack) \cup {h}) /\ h \in Range(stack) \cup {h}
    BY <1>7
  <2> QED
    BY <2>1, <2>2, AppendIsConcat
<1>10. PICK t : t = SubSeq(stack, 1, n - 1)
  OBVIOUS
<1>11. t = Append(s, f) /\ \A k \in 1 .. n - 1 : t[k] = stack[k]
  <2>1. n - 1 \in 0 .. Len(stack) /\ (n - 1) - 1 = n - 2
    BY <1>1, <1>4
  <2>2. /\ SubSeq(stack, 1, n - 1) = Append(SubSeq(stack, 1, (n - 1) - 1), stack[n - 1])
        /\ \A k \in 1 .. n - 1 : SubSeq(stack, 1, n - 1)[k] = stack[k]
    BY <1>4, <2>1, BeginningFacts
  <2> QED
    BY <1>3, <1>10, <2>1, <2>2
<1>12. t[1] = stack[1]
  <2>1. 1 \in 1 .. n - 1
    BY <1>4
  <2> QED
    BY <1>11, <2>1
<1>13. Append(s, h)[1].parameter = Append(s, f)[1].parameter
  BY <1>6, <1>8, SameFirst
<1> QED
  BY <1>9, <1>11, <1>12, <1>13

LEMMA FirstCalls ==
    ASSUME StackInv, stack # <<>>, NEW g, g.parameter = Top.parameter,
           NEW h, stack' = Append(Append(Front(stack), g), h)
    PROVE  stack'[1].parameter = stack[1].parameter /\ stack' # <<>>
<1>1. PICK r, f : r = Front(stack) /\ f = Top /\ IsSequence(r) /\ stack = Append(r, f)
  BY TopSplit DEF Top, StackInv
<1>2. PICK t : t = Append(r, g)
  OBVIOUS
<1>3. IsSequence(t) /\ Len(t) = Len(r) + 1 /\ Len(r) \in Nat
  BY <1>1, <1>2, AppendFacts, SequenceFacts
<1>4. stack' = Append(t, h)
  BY <1>1, <1>2
<1>5. Append(t, h) # <<>> /\ Append(t, h)[1] = t[1]
  <2>1. 1 \in 1 .. Len(t)
    BY <1>3
  <2> QED
    BY <1>3, <2>1, AppendFacts
<1>6. t[1].parameter = stack[1].parameter
  BY <1>1, <1>2, SameFirst
<1> QED
  BY <1>4, <1>5, <1>6

LEMMA HasParameter ==
    ASSUME NEW f, FrameInv(f)
    PROVE  "parameter" \in DOMAIN f
<1>1. PICK a, b, c, d, e, g, h : f = [parameter |-> a, at |-> b, entries |-> c, ids |-> d,
                                      i |-> e, kids |-> g, success |-> h]
  BY DEF FrameInv, IsFrame
<1> QED
  BY <1>1

LEMMA FirstStays ==
    ASSUME StackInv, stack # <<>>, Next, stack' # <<>>
    PROVE  stack'[1].parameter = stack[1].parameter
<1>1. "parameter" \in DOMAIN Top
  BY TopFacts, HasParameter
<1>2. CASE stack' = stack
  BY <1>2
<1>3. CASE \E result : Return(result)
  BY <1>3, FirstReturns
<1>4. CASE GetBegins
  <2>1. PICK x : Become([Top EXCEPT !.at = x])
    BY <1>4 DEF GetBegins
  <2>2. [Top EXCEPT !.at = x].parameter = Top.parameter
    BY <1>1
  <2> QED
    BY <2>1, <2>2, FirstBecomes
<1>5. CASE \E x, y : Become([Top EXCEPT !.at = x, !.entries = y])
  <2>1. PICK x, y : Become([Top EXCEPT !.at = x, !.entries = y])
    BY <1>5
  <2>2. [Top EXCEPT !.at = x, !.entries = y].parameter = Top.parameter
    BY <1>1
  <2> QED
    BY <2>1, <2>2, FirstBecomes
<1>6. CASE \E x, y : Become([Top EXCEPT !.at = x, !.ids = y])
  <2>1. PICK x, y : Become([Top EXCEPT !.at = x, !.ids = y])
    BY <1>6
  <2>2. [Top EXCEPT !.at = x, !.ids = y].parameter = Top.parameter
    BY <1>1
  <2> QED
    BY <2>1, <2>2, FirstBecomes
<1>7. CASE GetItem
  <2>1. PICK z : \/ \E x, y : Become([[Top EXCEPT !.at = x, !.kids = y] EXCEPT !.success = @ /\ z])
                 \/ Become([[Top EXCEPT !.i = @ + 1] EXCEPT !.success = @ /\ z])
    BY <1>7 DEF GetItem, AfterItem
  <2>2. ASSUME NEW x, NEW y, Become([[Top EXCEPT !.at = x, !.kids = y] EXCEPT !.success = @ /\ z])
        PROVE  stack'[1].parameter = stack[1].parameter
    <3>1. [[Top EXCEPT !.at = x, !.kids = y] EXCEPT !.success = @ /\ z].parameter = Top.parameter
      BY <1>1
    <3> QED
      BY <2>2, <3>1, FirstBecomes
  <2>3. ASSUME Become([[Top EXCEPT !.i = @ + 1] EXCEPT !.success = @ /\ z])
        PROVE  stack'[1].parameter = stack[1].parameter
    <3>1. [[Top EXCEPT !.i = @ + 1] EXCEPT !.success = @ /\ z].parameter = Top.parameter
      BY <1>1
    <3> QED
      BY <2>3, <3>1, FirstBecomes
  <2> QED
    BY <2>1, <2>2, <2>3
<1>8. CASE ItemDone
  <2>1. Become([Top EXCEPT !.at = "items", !.i = @ + 1])
    BY <1>8 DEF ItemDone
  <2>2. [Top EXCEPT !.at = "items", !.i = @ + 1].parameter = Top.parameter
    BY <1>1
  <2> QED
    BY <2>1, <2>2, FirstBecomes
<1>9. CASE \E x, y, z : Become([Top EXCEPT !.at = x, !.kids = y, !.success = z])
  <2>1. PICK x, y, z : Become([Top EXCEPT !.at = x, !.kids = y, !.success = z])
    BY <1>9
  <2>2. [Top EXCEPT !.at = x, !.kids = y, !.success = z].parameter = Top.parameter
    BY <1>1
  <2> QED
    BY <2>1, <2>2, FirstBecomes
<1>10. CASE GetKid
  <2>1. stack' = Append(Append(Front(stack), [Top EXCEPT !.kids = Tail(@)]),
                        Frame(KidParameter(Head(Top.kids)), "get"))
    BY <1>10 DEF GetKid
  <2>2. [Top EXCEPT !.kids = Tail(@)].parameter = Top.parameter
    BY <1>1
  <2> QED
    BY <2>1, <2>2, FirstCalls
<1>11. CASE GetNumber
  <2>1. (\E result : Return(result)) \/ \E x, y : Become([Top EXCEPT !.at = x, !.entries = y])
    BY <1>11 DEF GetNumber, ListFails
  <2> QED
    BY <1>3, <1>5, <2>1
<1>12. CASE GetIds
  <2>1. (\E result : Return(result)) \/ \E x, y : Become([Top EXCEPT !.at = x, !.ids = y])
    BY <1>12 DEF GetIds, ListFails, Mismatch
  <2> QED
    BY <1>3, <1>6, <2>1
<1>13. CASE GetOne
  <2>1. \/ \E result : Return(result)
        \/ \E x, y, z : Become([Top EXCEPT !.at = x, !.kids = y, !.success = z])
        \/ stack' = stack
    BY <1>13 DEF GetOne
  <2> QED
    BY <1>2, <1>3, <1>9, <2>1
<1>14. CASE RunSet \/ GetUnknown \/ ListDone \/ OneDone
  <2>1. \E result : Return(result)
    BY <1>14 DEF RunSet, GetUnknown, ListDone, OneDone
  <2> QED
    BY <1>3, <2>1
<1>15. CASE Load \/ Loaded \/ Exit
  <2>1. stack' = stack
    BY <1>15 DEF Load, Loaded, Exit, clientVars
  <2> QED
    BY <1>2, <2>1
<1>16. ~RunQuery
  BY DEF RunQuery
<1> QED
  BY <1>4, <1>7, <1>8, <1>10, <1>11, <1>12, <1>13, <1>14, <1>15, <1>16 DEF Next

LEMMA UnknownVisit ==
    ASSUME DatabaseInv, StackInv, VisitInv, Next, phase = "query", stack # <<>>,
           command.op = "get", command.recursive, ~Known(Target(stack[1])),
           phase' = "query", stack' # <<>>
    PROVE  /\ asked' = <<>> /\ Len(stack') = 1 /\ stack'[1].at = "one"
           /\ stack'[1].parameter = stack[1].parameter
<1>1. asked = <<>> /\ Len(stack) = 1 /\ stack[1].at \in {"get", "one"}
  BY DEF VisitInv
<1>2. PICK f : f = Top
  OBVIOUS
<1>3. f = stack[1] /\ FrameInv(f) /\ f.at \in {"get", "one"} /\ ObjectsInv /\ IsSequence(stack)
  BY <1>1, <1>2, TopFacts DEF DatabaseInv, StackInv
<1>4. IsSequence(Name) /\ Name # <<>> /\ Name = Whole(f.parameter)
  BY <1>2, NameFacts
<1>5. Provider = NoProvider
  <2>1. Target(f) = ObjectPart(Name) /\ IsSequence(ObjectPart(Name))
    BY <1>4, ObjectPartFacts DEF Target
  <2> QED
    BY <1>3, <2>1, LookupFinds DEF Provider, getProviderByPropertyName, Known
<1>6. ~GetOne
  BY <1>5 DEF GetOne
<1>7. ~GetUnknown
  <2>1. ASSUME GetUnknown PROVE FALSE
    <3>1. Return(FALSE)
      BY <2>1 DEF GetUnknown
    <3> QED
      BY <1>1, <3>1 DEF Return
  <2> QED
    BY <2>1
<1>8. GetBegins
  <2>1. Top.at \in {"get", "one"}
    BY <1>2, <1>3
  <2>2. ~Load /\ ~Loaded /\ ~RunQuery /\ ~Exit /\ ~RunSet /\ ~GetNumber /\ ~GetIds /\ ~GetItem
        /\ ~ItemDone /\ ~ListDone /\ ~GetKid /\ ~OneDone
    BY <2>1 DEF Load, Loaded, RunQuery, Exit, RunSet, GetNumber, GetIds, GetItem, ItemDone, ListDone,
                GetKid, OneDone, At
  <2> QED
    BY <1>6, <1>7, <2>2 DEF Next
<1>9. asked' = asked /\ Become([Top EXCEPT !.at = "one"])
  BY <1>5, <1>8 DEF GetBegins, IsList, history
<1>10. PICK place : place = "one"
  OBVIOUS
<1>11. PICK g : g = [f EXCEPT !.at = place]
  OBVIOUS
<1>12. g.parameter = f.parameter /\ g.at = place
  <2>1. \A x : [f EXCEPT !.at = x] =
                [parameter |-> f.parameter, at |-> x, entries |-> f.entries, ids |-> f.ids,
                 i |-> f.i, kids |-> f.kids, success |-> f.success]
    BY <1>3, FrameGoesOn, Zenon
  <2>2. g = [parameter |-> f.parameter, at |-> place, entries |-> f.entries, ids |-> f.ids,
             i |-> f.i, kids |-> f.kids, success |-> f.success]
    BY <1>11, <2>1, Zenon
  <2> QED
    BY <2>2
<1>13. PICK r : r = Front(stack) /\ IsSequence(r) /\ Len(r) = 0
  <2>1. Len(Front(stack)) = Len(stack) - 1 /\ IsSequence(Front(stack))
    BY TopFacts
  <2> QED
    BY <1>1, <2>1
<1>14. stack' = Append(r, g)
  <2>1. Become(g)
    BY <1>2, <1>9, <1>10, <1>11, Zenon
  <2> QED
    BY <1>13, <2>1 DEF Become
<1>15. Len(Append(r, g)) = 1 /\ Append(r, g)[1] = g
  <2>1. Len(Append(r, g)) = Len(r) + 1 /\ Append(r, g)[Len(r) + 1] = g
    BY <1>13, AppendFacts
  <2> QED
    BY <1>13, <2>1
<1> QED
  BY <1>1, <1>3, <1>9, <1>10, <1>12, <1>14, <1>15

LEMMA VisitStep ==
    ASSUME DatabaseInv, TreeInv, ControlInv, StackInv, VisitInv, [Next]_vars
    PROVE  VisitInv'
<1> SUFFICES ASSUME phase' = "query", stack' # <<>>, command'.op = "get" => command'.recursive
             PROVE  VisitInv'
  BY DEF VisitInv
<1>1. CASE UNCHANGED vars
  <2>1. /\ model_db' = model_db /\ m_children' = m_children /\ stack' = stack /\ phase' = phase
        /\ asked' = asked /\ lists' = lists /\ command' = command
    BY <1>1 DEF vars, databaseVars, clientVars, history
  <2>2. PICK s, a, l : s = stack /\ a = asked /\ l = lists
    OBVIOUS
  <2>3. /\ Known(Target(s[1]))' <=> Known(Target(s[1]))
        /\ Fits(s[1].parameter)' <=> Fits(s[1].parameter)
        /\ Visiting(s, a, l)' <=> Visiting(s, a, l)
    BY <2>1, SameVisit DEF Fits
  <2>4. /\ command.op = "set" => a = <<>>
        /\ command.op = "get" /\ command.recursive =>
            IF Known(Target(s[1]))
            THEN Fits(s[1].parameter) => Visiting(s, a, l)
            ELSE a = <<>> /\ Len(s) = 1 /\ s[1].at \in {"get", "one"}
    BY <2>1, <2>2 DEF VisitInv
  <2>5. stack' = s /\ asked' = a /\ lists' = l
    BY <2>1, <2>2
  <2> QED
    BY <2>1, <2>3, <2>4, <2>5 DEF VisitInv
<1>2. CASE RunQuery
  BY <1>2, QueryVisit
<1>3. CASE Next /\ ~RunQuery
  <2>1. phase = "query" /\ stack # <<>>
    <3>1. ~Load /\ ~Exit
      BY DEF Load, Exit, clientVars
    <3>2. ~Loaded
      BY DEF Loaded, TreeInv
    <3> QED
      BY <1>3, <3>1, <3>2 DEF Next, RunSet, GetUnknown, GetBegins, GetNumber, GetIds, GetItem,
         ItemDone, ListDone, GetOne, GetKid, OneDone, At
  <2>2. model_db' = model_db /\ m_children' = m_children
    BY <1>3, <2>1 DEF Next, Load, Loaded, RunSet, Exit, GetUnknown, GetBegins, GetNumber, GetIds, GetItem,
       ItemDone, ListDone, GetOne, GetKid, OneDone, databaseVars
  <2>3. command' = command /\ command.op \in {"get", "set"}
    BY <1>3, CommandStays, CommandFacts DEF ControlInv
  <2>4. PICK s, a, l : s = stack' /\ a = asked' /\ l = lists'
    OBVIOUS
  <2>5. CASE command.op = "set"
    <3>1. FrameInv(Top)
      BY <2>1, TopFacts
    <3>2. Top.at = "set"
      BY <2>5, <3>1 DEF FrameInv
    <3>3. RunSet
      BY <1>3, <2>1, <3>2 DEF Next, Load, Loaded, Exit, GetUnknown, GetBegins, GetNumber, GetIds, GetItem,
         ItemDone, ListDone, GetOne, GetKid, OneDone, At
    <3>4. asked' = asked
      BY <3>3 DEF RunSet, history
    <3> QED
      BY <2>1, <2>3, <2>5, <3>4 DEF VisitInv
  <2>6. CASE command.op = "get" /\ ~Known(Target(stack[1]))
    <3>1. a = <<>> /\ Len(s) = 1 /\ s[1].at = "one" /\ s[1].parameter = stack[1].parameter
      BY <1>3, <2>1, <2>3, <2>4, <2>6, UnknownVisit
    <3>2. ~Known(Target(s[1]))
      BY <2>6, <3>1 DEF Target
    <3>3. Known(Target(s[1]))' <=> Known(Target(s[1]))
      BY <2>2, SameVisit
    <3> QED
      BY <2>3, <2>4, <2>6, <3>1, <3>2, <3>3 DEF VisitInv
  <2>7. CASE command.op = "get" /\ Known(Target(stack[1]))
    <3>1. /\ Known(Target(s[1]))' <=> Known(Target(s[1]))
          /\ Fits(s[1].parameter)' <=> Fits(s[1].parameter)
          /\ Visiting(s, a, l)' <=> Visiting(s, a, l)
      BY <2>2, SameVisit DEF Fits
    <3>2. s[1].parameter = stack[1].parameter
      BY <1>3, <2>1, <2>4, FirstStays
    <3>3. Known(Target(s[1])) /\ (Fits(s[1].parameter) <=> Fits(stack[1].parameter))
      BY <2>7, <3>2 DEF Target
    <3>4. ASSUME Fits(stack[1].parameter) PROVE Visiting(s, a, l)
      <4>1. command.recursive
        BY <2>3, <2>7
      <4>2. Visiting(stack, asked, lists)
        BY <2>1, <2>7, <3>4, <4>1 DEF VisitInv
      <4>3. Going
        BY <2>1, <4>1, <4>2 DEF Going
      <4>4. Onward
        BY <1>3, <4>3, Onwards
      <4> QED
        BY <2>4, <4>4 DEF Onward
    <3> QED
      BY <2>3, <2>4, <2>7, <3>1, <3>3, <3>4 DEF VisitInv
  <2> QED
    BY <2>3, <2>5, <2>6, <2>7
<1> QED
  BY <1>1, <1>2, <1>3

-----------------------------------------------------------------------------
(***************************************************************************)
(* A get is at its end, and nothing is due any more.                       *)
(***************************************************************************)
IsListKid(p, kid) == model_db[Append(Named(p), kid)].isList
ListKids(p) == {kid \in Kids(p) : IsListKid(p, kid)}
OtherKids(p) == {kid \in Kids(p) : ~IsListKid(p, kid)}

(* The objects directly below p, those of a list being its entries.        *)
Under(p, l) ==
    {Append(p, kid) : kid \in OtherKids(p)}
        \cup UNION {{Append(Append(p, kid), id) : id \in Range(l[Append(p, kid)])} : kid \in ListKids(p)}

(* The objects a get begins with.                                          *)
Tops(first, l) ==
    IF NamesList(first) THEN {Append(first, id) : id \in Range(l[first])} ELSE {first}

LEMMA CountedOnce ==
    ASSUME NEW a, IsSequence(a), \A i, j \in 1 .. Len(a) : a[i] = a[j] => i = j
    PROVE  Len(a) = Cardinality(Range(a))
<1>1. Len(a) \in Nat /\ DOMAIN a = 1 .. Len(a) /\ a \in [1 .. Len(a) -> Range(a)]
  BY SequenceFacts DEF IsSequence
<1>2. a \in Injection(1 .. Len(a), Range(a))
  BY <1>1 DEF Injection, IsInjective
<1>3. a \in Surjection(1 .. Len(a), Range(a))
  BY <1>1 DEF Surjection, Range
<1>4. ExistsBijection(1 .. Len(a), Range(a))
  BY <1>2, <1>3 DEF ExistsBijection, Bijection
<1> QED
  BY <1>1, <1>4, FS_CountingElements

(* What was met was asked for, or is a list whose entries were learned.    *)
LEMMA EndFacts ==
    ASSUME NEW first, NEW a, NEW l, Progress(first, {}, a, l)
    PROVE  /\ Met({}, a, l) = Range(a) \cup DOMAIN l /\ first \in Met({}, a, l)
           /\ \A x \in Met({}, a, l) : /\ IsSequence(x) /\ Known(x)
                                       /\ x \in DOMAIN l <=> NamesList(x)
                                       /\ x \in Range(a) <=> ~NamesList(x)
<1>1. Met({}, a, l) = Range(a) \cup DOMAIN l
  BY DEF Met
<1> QED
  BY <1>1 DEF Progress, Typed, Complete

LEMMA OnlyBelow ==
    ASSUME DatabaseInv, TreeInv, phase = "query",
           NEW first, NEW a, NEW l, Progress(first, {}, a, l),
           NEW x \in Range(a)
    PROVE  x \in Tops(first, l) \/ \E p \in Range(a) : x \in Under(p, l)
<1>1. ObjectsInv
  BY DEF DatabaseInv
<1>2. x \in Met({}, a, l) /\ ~NamesList(x)
  BY EndFacts DEF Met
<1>3. CASE x = first
  BY <1>2, <1>3 DEF Tops
<1>4. ASSUME NEW p \in Range(a), NEW kid \in Kids(p), x = Append(p, kid)
      PROVE  x \in Under(p, l)
  <2>1. IsSequence(p) /\ Known(p) /\ ~NamesList(p)
    BY EndFacts
  <2>2. ~IsListKid(p, kid)
    BY <1>2, <1>4, <2>1, KidBelow DEF IsListKid
  <2> QED
    BY <1>4, <2>2 DEF Under, OtherKids
<1>5. ASSUME NEW p \in DOMAIN l, NEW id \in Range(l[p]), x = Append(p, id)
      PROVE  x \in Tops(first, l) \/ \E q \in Range(a) : x \in Under(q, l)
  <2>1. p \in Met({}, a, l) /\ IsSequence(p) /\ Known(p) /\ NamesList(p)
    BY EndFacts
  <2>2. CASE p = first
    BY <1>5, <2>1, <2>2 DEF Tops
  <2>3. ASSUME NEW q \in Range(a), NEW kid \in Kids(q), p = Append(q, kid)
        PROVE  x \in Under(q, l)
    <3>1. IsSequence(q) /\ Known(q) /\ ~NamesList(q)
      BY EndFacts
    <3>2. kid \in ListKids(q)
      BY <2>1, <2>3, <3>1, KidBelow DEF IsListKid, ListKids
    <3> QED
      BY <1>5, <2>3, <3>2 DEF Under
  <2>4. ASSUME NEW q \in DOMAIN l, NEW d \in Range(l[q]), p = Append(q, d)
        PROVE  FALSE
    <3>1. IsSequence(q) /\ NamesList(q)
      BY EndFacts
    <3> QED
      BY <1>1, <2>1, <2>4, <3>1, EntryNames
  <2>5. \/ p = first
        \/ \E q \in Range(a) : \E kid \in Kids(q) : p = Append(q, kid)
        \/ \E q \in DOMAIN l : \E d \in Range(l[q]) : p = Append(q, d)
    BY <2>1 DEF Progress, Reached
  <2> QED
    BY <2>2, <2>3, <2>4, <2>5
<1>6. \/ x = first
      \/ \E p \in Range(a) : \E kid \in Kids(p) : x = Append(p, kid)
      \/ \E p \in DOMAIN l : \E id \in Range(l[p]) : x = Append(p, id)
  BY <1>2 DEF Progress, Reached
<1> QED
  BY <1>3, <1>4, <1>5, <1>6

LEMMA EntriesAsked ==
    ASSUME DatabaseInv, NEW first, NEW a, NEW l, Progress(first, {}, a, l),
           NEW p \in DOMAIN l, NEW id \in Range(l[p])
    PROVE  Append(p, id) \in Range(a)
<1>1. IsSequence(p) /\ NamesList(p)
  BY EndFacts
<1>2. Append(p, id) \in Met({}, a, l)
  BY DEF Progress, Complete
<1>3. ~NamesList(Append(p, id))
  BY <1>1, EntryNames DEF DatabaseInv
<1> QED
  BY <1>2, <1>3, EndFacts

LEMMA AllBelow ==
    ASSUME DatabaseInv, TreeInv, phase = "query",
           NEW first, NEW a, NEW l, Progress(first, {}, a, l)
    PROVE  /\ NamesList(first) <=> first \in DOMAIN l
           /\ Tops(first, l) \subseteq Range(a)
           /\ \A p \in Range(a) : Under(p, l) \subseteq Range(a)
           /\ \A p \in Range(a) : \A kid \in ListKids(p) : Append(p, kid) \in DOMAIN l
<1>1. first \in Met({}, a, l) /\ (NamesList(first) <=> first \in DOMAIN l)
  BY EndFacts
<1>2. Tops(first, l) \subseteq Range(a)
  <2>1. CASE NamesList(first)
    BY <1>1, <2>1, EntriesAsked DEF Tops
  <2>2. CASE ~NamesList(first)
    BY <1>1, <2>2, EndFacts DEF Tops
  <2> QED
    BY <2>1, <2>2
<1>3. ASSUME NEW p \in Range(a), NEW kid \in Kids(p)
      PROVE  /\ IsListKid(p, kid) => Append(p, kid) \in DOMAIN l
             /\ ~IsListKid(p, kid) => Append(p, kid) \in Range(a)
  <2>1. IsSequence(p) /\ Known(p) /\ ~NamesList(p)
    BY EndFacts
  <2>2. Append(p, kid) \in Met({}, a, l)
    BY <1>3 DEF Progress, Complete
  <2>3. NamesList(Append(p, kid)) <=> IsListKid(p, kid)
    BY <1>3, <2>1, KidBelow DEF IsListKid
  <2> QED
    BY <2>2, <2>3, EndFacts
<1>4. ASSUME NEW p \in Range(a), NEW x \in Under(p, l) PROVE x \in Range(a)
  <2>1. CASE \E kid \in OtherKids(p) : x = Append(p, kid)
    BY <1>3, <2>1 DEF OtherKids
  <2>2. CASE \E kid \in ListKids(p) : \E id \in Range(l[Append(p, kid)]) : x = Append(Append(p, kid), id)
    BY <1>3, <2>2, EntriesAsked DEF ListKids
  <2> QED
    BY <1>4, <2>1, <2>2 DEF Under
<1> QED
  BY <1>1, <1>2, <1>3, <1>4 DEF ListKids

(* The last return of a recursive get that asked for something.            *)
LEMMA GetEnds ==
    ASSUME DatabaseInv, TreeInv, ControlInv, StackInv, VisitInv, [Next]_vars,
           QueryReturns, command.recursive, asked' # <<>>, Fits(stack[1].parameter)
    PROVE  phase = "query" /\ Progress(Target(stack[1]), {}, asked', lists')
<1>1. Len(stack) = 1 /\ stack # <<>> /\ stack' # stack /\ stack' = <<>>
  BY DEF QueryReturns
<1>2. Next /\ ~RunQuery /\ ~Load /\ ~Loaded /\ ~Exit
  BY <1>1 DEF vars, clientVars, RunQuery, Load, Loaded, Exit
<1>3. phase = "query"
  BY <1>2 DEF Next, RunSet, GetUnknown, GetBegins, GetNumber, GetIds, GetItem, ItemDone, ListDone, GetOne,
     GetKid, OneDone, At
<1>4. FrameInv(Top) /\ Top = stack[1]
  BY <1>1, TopFacts
<1>5. command.op = "get"
  <2>1. CASE RunSet
    <3>1. asked' = asked /\ command.op = "set"
      BY <1>4, <2>1 DEF RunSet, history, At, FrameInv
    <3> QED
      BY <1>1, <1>3, <3>1 DEF VisitInv
  <2>2. CASE ~RunSet
    <3>1. Top.at # "set"
      BY <1>2, <2>2 DEF Next, GetUnknown, GetBegins, GetNumber, GetIds, GetItem, ItemDone, ListDone,
         GetOne, GetKid, OneDone, At
    <3> QED
      BY <1>4, <3>1 DEF FrameInv
  <2> QED
    BY <2>1, <2>2
<1>6. Known(Target(stack[1]))
  <2> SUFFICES ASSUME ~Known(Target(stack[1])) PROVE FALSE
    OBVIOUS
  <2>1. asked = <<>> /\ stack[1].at \in {"get", "one"}
    BY <1>1, <1>3, <1>5 DEF VisitInv
  <2>2. IsSequence(Name) /\ Name # <<>> /\ Target(stack[1]) = ObjectPart(Name) /\ IsSequence(ObjectPart(Name))
    BY <1>1, <1>4, NameFacts, ObjectPartFacts DEF Target
  <2>3. Provider = NoProvider
    BY <2>2, LookupFinds DEF DatabaseInv, Provider, getProviderByPropertyName, Known
  <2>4. ~GetOne
    BY <2>3, <1>1 DEF GetOne
  <2>5. GetUnknown \/ GetBegins
    BY <1>2, <1>4, <2>1, <2>4 DEF Next, RunSet, GetNumber, GetIds, GetItem, ItemDone, ListDone, GetKid,
       OneDone, At
  <2>6. asked' = asked
    BY <2>5 DEF GetUnknown, GetBegins, history
  <2> QED
    BY <2>1, <2>6
<1>7. Going
  BY <1>1, <1>3, <1>5, <1>6 DEF VisitInv, Going
<1> QED
  BY <1>1, <1>2, <1>3, <1>7, Onwards DEF Onward

LEMMA SubtreeGiven ==
    ASSUME DatabaseInv, TreeInv, ControlInv, StackInv, VisitInv, [Next]_vars,
           QueryReturns, command.recursive, asked' # <<>>,
           NamesList(ObjectPart(Asked)) => isWildcard(Asked)
    PROVE  LET visited == Range(asked')
               kids(p) == {trimPropertyName(kid) : kid \in Range(m_children[Named(p)])}
               list(p, kid) == Append(p, kid)
               isList(p, kid) == model_db[Append(Named(p), kid)].isList
               under(p) ==
                    {list(p, kid) : kid \in {c \in kids(p) : ~isList(p, c)}}
                        \cup UNION {{Append(list(p, kid), id) : id \in Range(lists'[list(p, kid)])} :
                                    kid \in {c \in kids(p) : isList(p, c)}}
               top == IF AsksForList(Asked)
                      THEN {Append(trimWildcard(Asked), id) : id \in Range(Entries(Asked))}
                      ELSE {ObjectPart(Asked)}
           IN  /\ Len(asked') = Cardinality(visited)
               /\ \A p \in visited : \A kid \in kids(p) :
                        isList(p, kid) => list(p, kid) \in DOMAIN lists'
               /\ visited = top \cup UNION {under(p) : p \in visited}
<1>1. PICK a, l, first : a = asked' /\ l = lists' /\ first = Target(stack[1])
  OBVIOUS
<1>2. phase = "query" /\ Progress(first, {}, a, l)
  BY <1>1, GetEnds DEF Fits, Asked
<1>3. Len(a) = Cardinality(Range(a))
  BY <1>2, CountedOnce DEF Progress, Typed
<1>4. \A p \in Range(a) : \A kid \in Kids(p) : IsListKid(p, kid) => Append(p, kid) \in DOMAIN l
  BY <1>2, AllBelow DEF ListKids
<1>5. Range(a) = Tops(first, l) \cup UNION {Under(p, l) : p \in Range(a)}
  BY <1>2, AllBelow, OnlyBelow
<1>6. Tops(first, l) = IF AsksForList(Asked)
                       THEN {Append(trimWildcard(Asked), id) : id \in Range(Entries(Asked))}
                       ELSE {ObjectPart(Asked)}
  <2>1. IsSequence(Asked) /\ Asked # <<>> /\ first = ObjectPart(Asked) /\ ObjectsInv
    <3>1. Len(stack) = 1 /\ stack # <<>>
      BY DEF QueryReturns
    <3> QED
      BY <1>1, <3>1, NameFacts, TopFacts DEF Asked, Target, DatabaseInv
  <2>2. AsksForList(Asked) <=> NamesList(first)
    BY <2>1, WildcardFacts DEF AsksForList
  <2>3. NamesList(first) => trimWildcard(Asked) = first /\ Entries(Asked) = l[first]
    BY <1>1, <1>2, <2>1, <2>2, WildcardFacts, AllBelow DEF Entries
  <2> QED
    BY <2>1, <2>2, <2>3 DEF Tops
<1>7. \A p : {trimPropertyName(kid) : kid \in Range(m_children[Named(p)])} = Kids(p)
  BY DEF Kids
<1>8. \A p : /\ {c \in Kids(p) : ~model_db[Append(Named(p), c)].isList} = OtherKids(p)
             /\ {c \in Kids(p) : model_db[Append(Named(p), c)].isList} = ListKids(p)
  BY DEF OtherKids, ListKids, IsListKid
<1> DEFINE kids(p) == {trimPropertyName(kid) : kid \in Range(m_children[Named(p)])}
           list(p, kid) == Append(p, kid)
           isList(p, kid) == model_db[Append(Named(p), kid)].isList
           under(p) ==
                {list(p, kid) : kid \in {c \in kids(p) : ~isList(p, c)}}
                    \cup UNION {{Append(list(p, kid), id) : id \in Range(lists'[list(p, kid)])} :
                                kid \in {c \in kids(p) : isList(p, c)}}
<1>9. ASSUME NEW p PROVE under(p) = Under(p, l)
  <2>1. {c \in kids(p) : ~isList(p, c)} = OtherKids(p) /\ {c \in kids(p) : isList(p, c)} = ListKids(p)
    BY <1>7, <1>8
  <2> HIDE DEF kids, isList
  <2>2. under(p) = {Append(p, kid) : kid \in OtherKids(p)}
                    \cup UNION {{Append(Append(p, kid), id) : id \in Range(l[Append(p, kid)])} :
                                kid \in ListKids(p)}
    BY <1>1, <2>1
  <2> QED
    BY <2>2 DEF Under
<1>10. \A p \in Range(a) : \A kid \in kids(p) : isList(p, kid) => list(p, kid) \in DOMAIN l
  BY <1>4, <1>7 DEF IsListKid
<1> HIDE DEF under
<1>11. Range(a) = Tops(first, l) \cup UNION {under(p) : p \in Range(a)}
  <2>1. {under(p) : p \in Range(a)} = {Under(p, l) : p \in Range(a)}
    BY <1>9
  <2> QED
    BY <1>5, <2>1
<1> HIDE DEF kids, list, isList
<1>12. /\ Len(asked') = Cardinality(Range(asked'))
       /\ \A p \in Range(asked') : \A kid \in kids(p) : isList(p, kid) => list(p, kid) \in DOMAIN lists'
       /\ Range(asked') = (IF AsksForList(Asked)
                           THEN {Append(trimWildcard(Asked), id) : id \in Range(Entries(Asked))}
                           ELSE {ObjectPart(Asked)}) \cup UNION {under(p) : p \in Range(asked')}
  BY <1>1, <1>3, <1>6, <1>10, <1>11
<1> QED
  BY <1>12, Zenon DEF kids, list, isList, under

-----------------------------------------------------------------------------
(***************************************************************************)
(* The theorems.                                                           *)
(***************************************************************************)
LEMMA InitIInv == Init => IInv
<1> SUFFICES ASSUME Init PROVE IInv
  OBVIOUS
<1>1. DatabaseInv
  BY DEF Init, DatabaseInit, DatabaseInv, ObjectsInv
<1>2. IsSequence(<<>>) /\ Len(<<>>) = 0
  BY DEF IsSequence
<1>3. TreeInv
  BY DEF Init, DatabaseInit, TreeInv
<1>4. ControlInv
  BY <1>2 DEF Init, ControlInv, AreQueries
<1>5. StackInv
  BY <1>2 DEF Init, StackInv
<1>6. AnswerInv
  BY DEF Init, AnswerInv
<1> QED
  BY <1>1, <1>3, <1>4, <1>5, <1>6 DEF IInv

LEMMA NextIInv == IInv /\ [Next]_vars => IInv'
<1> SUFFICES ASSUME IInv, [Next]_vars PROVE IInv'
  OBVIOUS
<1>1. DatabaseInv /\ TreeInv /\ ControlInv /\ StackInv /\ AnswerInv
  BY DEF IInv
<1> QED
  BY <1>1, DatabaseSteps, TreeStep, ControlStep, StackStep, AnswerStep DEF IInv

(* The inductive invariant holds.                                          *)
THEOREM IInvIsInvariant == Spec => []IInv
<1>1. Init => IInv
  BY InitIInv
<1>2. IInv /\ [Next]_vars => IInv'
  BY NextIInv
<1> QED
  BY <1>1, <1>2, PTL DEF Spec

(* The walk over the tokens of a name finds the object the name is of, and *)
(* none for a name of nothing (dmProviderDatabase.cpp:416-471).            *)
THEOREM LookupIsNaming == Spec => []LookupAgrees
<1>1. IInv => LookupAgrees
  <2> SUFFICES ASSUME IInv, NEW p \in Probes PROVE getProviderByObjectName(p) = Named(p)
    BY DEF LookupAgrees
  <2>1. IsSequence(p)
    BY ProbesAssumption, SeqOfRange DEF IsSequence
  <2>2. ObjectsInv
    BY DEF IInv, DatabaseInv
  <2> QED
    BY <2>1, <2>2, LookupFinds
<1> QED
  BY <1>1, IInvIsInvariant, PTL

(* Whatever the order of the files, each object of the model is a root or  *)
(* the child of the one its name is directly below                         *)
(* (dmProviderDatabase.cpp:285-386).                                       *)
THEOREM TreeIsByName == Spec => []TreeIsNesting
<1>1. IInv => TreeIsNesting
  BY NestingHolds DEF IInv
<1> QED
  BY <1>1, IInvIsInvariant, PTL

(* Client and host, each from its own part of the request, come to the     *)
(* same object (dmProviderDatabase.cpp:211-245, dmProviderHost.cpp:183-191, *)
(* 252-260).                                                               *)
THEOREM ClientAndHostAgree == Spec => []HostAgrees
<1>1. IInv => HostAgrees
  BY AgreementHolds DEF IInv, DatabaseInv, ControlInv
<1> QED
  BY <1>1, IInvIsInvariant, PTL

(* A query that is not recursive is answered once, or once for each entry  *)
(* of its list, unless it is a get for a wildcard nobody knows             *)
(* (dmClient.cpp:66-139).                                                  *)
THEOREM NotesCount == Spec => NotesPerQuery
<1>1. IInv /\ [Next]_vars =>
        [QueryReturns /\ ~command.recursive /\ ~(command.op = "get" /\ AsksForNothing(Asked)) =>
            Len(notes') =
                IF command.op = "get" /\ AsksForList(Asked) /\ Entries(Asked) # <<>>
                THEN Len(Entries(Asked)) ELSE 1]_vars
  BY AnswerGiven DEF IInv
<1> QED
  BY <1>1, IInvIsInvariant, PTL DEF Spec, NotesPerQuery

(* What such a query returns is TRUE if the notifier was told something    *)
(* and no error (dmClient.cpp:100-107, 159-200).                           *)
THEOREM TrueIsSuccess == Spec => TrueMeansNoError
<1>1. IInv /\ [Next]_vars =>
        [QueryReturns /\ ~command.recursive =>
            (returned' <=> notes' # <<>> /\ "error" \notin Range(notes'))]_vars
  BY AnswerGiven DEF IInv
<1> QED
  BY <1>1, IInvIsInvariant, PTL DEF Spec, TrueMeansNoError

(* What a recursive get has come to is in order at any time, the requests  *)
(* that failed included (dmClient.cpp:38-141).                             *)
THEOREM VisitInvHolds == Spec => []VisitInv
<1>1. Init => VisitInv
  BY DEF Init, VisitInv
<1>2. IInv /\ VisitInv /\ [Next]_vars => VisitInv'
  BY VisitStep DEF IInv
<1> QED
  BY <1>1, <1>2, IInvIsInvariant, PTL DEF Spec

(* A recursive get asks once for every object below the one it was given,  *)
(* and for every entry of every list below it, whichever of the requests   *)
(* on the way fail, and for nothing else (dmClient.cpp:101-139).           *)
THEOREM SubtreeIsVisited == Spec => VisitsSubtree
<1>1. IInv /\ VisitInv /\ [Next]_vars =>
        [QueryReturns /\ command.recursive /\ notes' # <<>> /\ asked' # <<>>
            /\ (NamesList(ObjectPart(Asked)) => isWildcard(Asked)) =>
         LET visited == Range(asked')
             kids(p) == {trimPropertyName(kid) : kid \in Range(m_children[Named(p)])}
             list(p, kid) == Append(p, kid)
             isList(p, kid) == model_db[Append(Named(p), kid)].isList
             under(p) ==
                {list(p, kid) : kid \in {c \in kids(p) : ~isList(p, c)}}
                    \cup UNION {{Append(list(p, kid), id) : id \in Range(lists'[list(p, kid)])} :
                                kid \in {c \in kids(p) : isList(p, c)}}
             top == IF AsksForList(Asked)
                    THEN {Append(trimWildcard(Asked), id) : id \in Range(Entries(Asked))}
                    ELSE {ObjectPart(Asked)}
         IN  /\ Len(asked') = Cardinality(visited)
             /\ \A p \in visited : \A kid \in kids(p) :
                    isList(p, kid) => list(p, kid) \in DOMAIN lists'
             /\ visited = top \cup UNION {under(p) : p \in visited}]_vars
  BY SubtreeGiven DEF IInv
<1> QED
  BY <1>1, IInvIsInvariant, VisitInvHolds, PTL DEF Spec, VisitsSubtree
===============================================================================
