---------------------------- MODULE RtBufferProofs ----------------------------
(***************************************************************************)
(* What is proved of RtBuffer: for any number of threads and buffers, the  *)
(* count is the number of references, and every step is one that a shared  *)
(* object allows (RtShared).                                               *)
(***************************************************************************)
EXTENDS RtBuffer, FiniteSetTheorems, TLAPS

Data == {"none", "NULL", "bytes", "freed"}

TypeOK ==
    /\ refcount \in [Buffers -> Int]
    /\ data \in [Buffers -> Data]
    /\ frees \in [Buffers -> Nat]
    /\ held \in [Threads -> [Buffers -> Nat]]
    /\ last \in [Threads -> {NotReleasing} \cup (Buffers \X Int)]

\* The count says how many references there are.
CountInv ==
    \A b \in Buffers : IsFiniteSet(Tokens(b)) /\ refcount[b] = References(b)

\* Nobody has anything to do with a buffer that is not there yet.
FreshInv ==
    \A b \in Buffers : data[b] = "none" =>
        /\ frees[b] = 0
        /\ \A t \in Threads : held[t][b] = 0 /\ last[t] # <<b, 0>>

\* The thread whose decrement gave zero is the only one: it is the one that
\* frees, nobody has freed before, and there is nothing left to release.
LastInv ==
    \A b \in Buffers :
        /\ frees[b] \in {0, 1}
        /\ frees[b] = 1 => refcount[b] = 0
        /\ \A t \in Threads : last[t] = <<b, 0>> =>
            /\ refcount[b] = 0 /\ frees[b] = 0
            /\ \A u \in Threads : last[u] = <<b, 0>> => u = t

IInv == TypeOK /\ CountInv /\ FreshInv /\ LastInv

-----------------------------------------------------------------------------
(***************************************************************************)
(* References.                                                             *)
(***************************************************************************)
LEMMA TokenSet ==
    ASSUME NEW b, NEW p
    PROVE  p \in Tokens(b) <=> \E t \in Threads : \E i \in 1 .. held[t][b] : p = <<t, i>>
BY DEF Tokens

\* Who takes a reference adds one.
LEMMA OneMore ==
    ASSUME TypeOK, NEW b \in Buffers, NEW t \in Threads,
           IsFiniteSet(Tokens(b)),
           held'[t][b] = held[t][b] + 1,
           \A u \in Threads \ {t} : held'[u][b] = held[u][b]
    PROVE  IsFiniteSet(Tokens(b)') /\ References(b)' = References(b) + 1
<1> DEFINE new == <<t, held[t][b] + 1>>
<1>1. \A u \in Threads : held[u][b] \in Nat
  BY DEF TypeOK
<1>2. new \notin Tokens(b)
  BY <1>1, TokenSet
<1>3. Tokens(b)' = Tokens(b) \cup {new}
  <2>1. ASSUME NEW p \in Tokens(b)' PROVE p \in Tokens(b) \cup {new}
    <3>1. PICK u \in Threads : \E i \in 1 .. held'[u][b] : p = <<u, i>>
      BY <2>1 DEF Tokens
    <3>2. CASE u = t  BY <3>1, <3>2, <1>1, TokenSet
    <3>3. CASE u # t  BY <3>1, <3>3, TokenSet
    <3> QED BY <3>2, <3>3
  <2>2. ASSUME NEW p \in Tokens(b) PROVE p \in Tokens(b)'
    <3>1. PICK u \in Threads : \E i \in 1 .. held[u][b] : p = <<u, i>>
      BY <2>2, TokenSet
    <3>2. \E i \in 1 .. held'[u][b] : p = <<u, i>>
      BY <3>1, <1>1
    <3> QED BY <3>2 DEF Tokens
  <2>3. new \in Tokens(b)'
    <3>1. held[t][b] + 1 \in 1 .. held'[t][b]
      BY <1>1
    <3> QED BY <3>1 DEF Tokens
  <2> QED BY <2>1, <2>2, <2>3
<1> HIDE DEF new
<1> QED BY <1>2, <1>3, FS_AddElement DEF References

\* Who lets go of a reference takes one away.
LEMMA OneLess ==
    ASSUME TypeOK, NEW b \in Buffers, NEW t \in Threads,
           IsFiniteSet(Tokens(b)),
           held[t][b] > 0, held'[t][b] = held[t][b] - 1,
           \A u \in Threads \ {t} : held'[u][b] = held[u][b]
    PROVE  IsFiniteSet(Tokens(b)') /\ References(b)' = References(b) - 1
<1> DEFINE gone == <<t, held[t][b]>>
<1>1. \A u \in Threads : held[u][b] \in Nat
  BY DEF TypeOK
<1>2. gone \in Tokens(b)
  BY <1>1, TokenSet
<1>3. Tokens(b)' = Tokens(b) \ {gone}
  <2>1. ASSUME NEW p \in Tokens(b)' PROVE p \in Tokens(b) \ {gone}
    <3>1. PICK u \in Threads : \E i \in 1 .. held'[u][b] : p = <<u, i>>
      BY <2>1 DEF Tokens
    <3>2. CASE u = t  BY <3>1, <3>2, <1>1, TokenSet
    <3>3. CASE u # t  BY <3>1, <3>3, TokenSet
    <3> QED BY <3>2, <3>3
  <2>2. ASSUME NEW p \in Tokens(b), p # gone PROVE p \in Tokens(b)'
    <3>1. PICK u \in Threads : \E i \in 1 .. held[u][b] : p = <<u, i>>
      BY <2>2, TokenSet
    <3>2. \E i \in 1 .. held'[u][b] : p = <<u, i>>
      BY <3>1, <2>2, <1>1
    <3> QED BY <3>2 DEF Tokens
  <2> QED BY <2>1, <2>2
<1> HIDE DEF gone
<1> QED BY <1>2, <1>3, FS_RemoveElement DEF References

\* Who passes one on changes nothing in their number.
LEMMA OnePassedOn ==
    ASSUME TypeOK, NEW b \in Buffers, NEW t \in Threads, NEW u \in Threads, t # u,
           IsFiniteSet(Tokens(b)),
           held[t][b] > 0, held'[t][b] = held[t][b] - 1,
           held'[u][b] = held[u][b] + 1,
           \A v \in Threads \ {t, u} : held'[v][b] = held[v][b]
    PROVE  IsFiniteSet(Tokens(b)') /\ References(b)' = References(b)
<1> DEFINE gone == <<t, held[t][b]>>
           new == <<u, held[u][b] + 1>>
           rest == Tokens(b) \ {gone}
<1>1. \A v \in Threads : held[v][b] \in Nat
  BY DEF TypeOK
<1>2. gone \in Tokens(b) /\ new \notin rest
  BY <1>1, TokenSet
<1>3. Tokens(b)' = rest \cup {new}
  <2>1. ASSUME NEW p \in Tokens(b)' PROVE p \in rest \cup {new}
    <3>1. PICK v \in Threads : \E i \in 1 .. held'[v][b] : p = <<v, i>>
      BY <2>1 DEF Tokens
    <3>2. CASE v = t  BY <3>1, <3>2, <1>1, TokenSet
    <3>3. CASE v = u  BY <3>1, <3>3, <1>1, TokenSet
    <3>4. CASE v \notin {t, u}  BY <3>1, <3>4, TokenSet
    <3> QED BY <3>2, <3>3, <3>4
  <2>2. ASSUME NEW p \in rest PROVE p \in Tokens(b)'
    <3>1. PICK v \in Threads : \E i \in 1 .. held[v][b] : p = <<v, i>>
      BY <2>2, TokenSet
    <3>2. \E i \in 1 .. held'[v][b] : p = <<v, i>>
      BY <3>1, <2>2, <1>1
    <3> QED BY <3>2 DEF Tokens
  <2>3. new \in Tokens(b)'
    <3>1. held[u][b] + 1 \in 1 .. held'[u][b]
      BY <1>1
    <3> QED BY <3>1 DEF Tokens
  <2> QED BY <2>1, <2>2, <2>3
<1>4. IsFiniteSet(rest) /\ Cardinality(rest) = Cardinality(Tokens(b)) - 1
  BY <1>2, FS_RemoveElement
<1>5. Cardinality(Tokens(b)) \in Nat
  BY FS_CardinalityType
<1> HIDE DEF gone, new, rest
<1>6. IsFiniteSet(rest \cup {new}) /\ Cardinality(rest \cup {new}) = Cardinality(rest) + 1
  BY <1>2, <1>4, FS_AddElement
<1> QED BY <1>3, <1>4, <1>5, <1>6 DEF References

LEMMA NoneMore ==
    ASSUME NEW b, \A t \in Threads : held'[t][b] = held[t][b]
    PROVE  Tokens(b)' = Tokens(b) /\ References(b)' = References(b)
BY DEF Tokens, References

\* A holder is counted.
LEMMA HolderCounts ==
    ASSUME TypeOK, CountInv, NEW b \in Buffers
    PROVE  /\ refcount[b] \in Nat
           /\ \A t \in Threads : Holds(t, b) => refcount[b] > 0
           /\ (\A t \in Threads : held[t][b] = 0) => refcount[b] = 0
<1>1. IsFiniteSet(Tokens(b)) /\ refcount[b] = Cardinality(Tokens(b))
  BY DEF CountInv, References
<1>2. Cardinality(Tokens(b)) \in Nat /\ (Cardinality(Tokens(b)) = 0 <=> Tokens(b) = {})
  <2> DEFINE T == Tokens(b)
  <2>1. IsFiniteSet(T)
    BY <1>1
  <2> HIDE DEF T
  <2>2. Cardinality(T) \in Nat /\ (Cardinality(T) = 0 <=> T = {})
    BY <2>1, FS_CardinalityType, FS_EmptySet
  <2> QED BY <2>2 DEF T
<1>3. ASSUME NEW t \in Threads, Holds(t, b) PROVE Tokens(b) # {}
  <2>1. 1 \in 1 .. held[t][b]
    BY <1>3 DEF Holds, TypeOK
  <2>2. <<t, 1>> \in Tokens(b)
    BY <2>1, TokenSet
  <2> QED BY <2>2
<1>4. ASSUME \A t \in Threads : held[t][b] = 0 PROVE Tokens(b) = {}
  <2>1. ASSUME NEW p \in Tokens(b) PROVE FALSE
    BY <1>4, <2>1, TokenSet
  <2> QED BY <2>1
<1> QED BY <1>1, <1>2, <1>3, <1>4

-----------------------------------------------------------------------------
(***************************************************************************)
(* The invariant.                                                          *)
(***************************************************************************)
LEMMA InitIInv == Init => IInv
<1> SUFFICES ASSUME Init PROVE IInv
  OBVIOUS
<1>1. TypeOK
  BY DEF Init, TypeOK, Data
<1>2. ASSUME NEW b \in Buffers PROVE Tokens(b) = {}
  <2>1. ASSUME NEW p \in Tokens(b) PROVE FALSE
    BY <1>2, <2>1, TokenSet DEF Init
  <2> QED BY <2>1
<1>3. CountInv
  BY <1>2, FS_EmptySet DEF CountInv, References, Init
<1>4. FreshInv /\ LastInv
  BY DEF Init, FreshInv, LastInv, NotReleasing
<1> QED BY <1>1, <1>3, <1>4 DEF IInv

LEMMA TypeStep == TypeOK /\ [Next]_vars => TypeOK'
<1> SUFFICES ASSUME TypeOK, [Next]_vars PROVE TypeOK'
  OBVIOUS
<1>1. CASE UNCHANGED vars
  BY <1>1 DEF TypeOK, vars
<1>2. ASSUME NEW t \in Threads, Release(t) PROVE TypeOK'
  <2>1. last[t] \in Buffers \X Int
    BY <1>2 DEF Release, Releasing, TypeOK
  <2> QED BY <1>2, <2>1 DEF Release, TypeOK, Data
<1>3. ASSUME NEW t \in Threads, NEW b \in Buffers,
             Create(t, b) \/ Retain(t, b) \/ Decrement(t, b) \/ \E u \in Threads : HandOver(t, u, b)
      PROVE  TypeOK'
  <2>1. held[t][b] \in Nat /\ refcount[b] \in Int
    BY DEF TypeOK
  <2>2. CASE Create(t, b)  BY <2>2 DEF Create, TypeOK, Data
  <2>3. CASE Retain(t, b)  BY <2>1, <2>3 DEF Retain, TypeOK
  <2>4. CASE Decrement(t, b)  BY <2>1, <2>4 DEF Decrement, TypeOK, Holds
  <2>5. ASSUME NEW u \in Threads, HandOver(t, u, b) PROVE TypeOK'
    <3>1. held[u][b] \in Nat /\ held[t] \in [Buffers -> Nat] /\ held[u] \in [Buffers -> Nat]
      BY DEF TypeOK
    <3>2. held[t][b] - 1 \in Nat /\ held[u][b] + 1 \in Nat
      BY <2>1, <2>5, <3>1 DEF HandOver, Holds
    <3>3. held' = [held EXCEPT ![t] = [held[t] EXCEPT ![b] = held[t][b] - 1],
                               ![u] = [held[u] EXCEPT ![b] = held[u][b] + 1]]
      BY <2>5 DEF HandOver, TypeOK
    <3>4. held' \in [Threads -> [Buffers -> Nat]]
      BY <3>1, <3>2, <3>3 DEF TypeOK
    <3> QED BY <2>5, <3>4 DEF HandOver, TypeOK
  <2> QED BY <1>3, <2>2, <2>3, <2>4, <2>5
<1> QED BY <1>1, <1>2, <1>3 DEF Next

LEMMA ReleaseStep ==
    ASSUME IInv, NEW t \in Threads, Release(t)
    PROVE  (CountInv /\ FreshInv /\ LastInv)'
<1> DEFINE b == last[t][1]
<1>1. last[t] \in Buffers \X Int
  BY DEF Release, Releasing, IInv, TypeOK
<1>2. b \in Buffers /\ last[t] = <<b, last[t][2]>>
  BY <1>1
<1>3. CountInv'
  BY NoneMore DEF IInv, CountInv, Release
<1>4. \A c \in Buffers : c # b \/ last[t][2] # 0 => frees'[c] = frees[c] /\ data'[c] = data[c]
  BY DEF Release, IInv, TypeOK
<1>5. last[t][2] = 0 => frees'[b] = frees[b] + 1 /\ data'[b] = "freed"
  BY <1>2 DEF Release, IInv, TypeOK
<1>6. last'[t] = <<>> /\ (\A u \in Threads \ {t} : last'[u] = last[u])
      /\ refcount' = refcount /\ held' = held
  BY DEF Release, IInv, TypeOK, NotReleasing
<1> HIDE DEF b
<1>7. FreshInv'
  BY <1>2, <1>4, <1>5, <1>6 DEF IInv, FreshInv
<1>8. LastInv'
  BY <1>2, <1>4, <1>5, <1>6 DEF IInv, LastInv
<1> QED BY <1>3, <1>7, <1>8

LEMMA CreateStep ==
    ASSUME IInv, NEW t \in Threads, NEW b \in Buffers, Create(t, b)
    PROVE  /\ (CountInv /\ FreshInv /\ LastInv)'
           /\ References(b) = 0 /\ References(b)' = 1
           /\ \A c \in Buffers \ {b} : References(c)' = References(c)
<1>1. /\ data[b] = "none" /\ refcount'[b] = 1 /\ held'[t][b] = 1
      /\ data'[b] \in {"NULL", "bytes"}
      /\ \A u \in Threads \ {t} : held'[u][b] = held[u][b]
      /\ \A c \in Buffers \ {b} : /\ refcount'[c] = refcount[c] /\ data'[c] = data[c]
                                  /\ \A u \in Threads : held'[u][c] = held[u][c]
      /\ frees' = frees /\ last' = last
  BY DEF Create, IInv, TypeOK
<1>2. frees[b] = 0 /\ \A u \in Threads : held[u][b] = 0 /\ last[u] # <<b, 0>>
  BY <1>1 DEF IInv, FreshInv
<1>3. IsFiniteSet(Tokens(b)) /\ refcount[b] = References(b) /\ refcount[b] = 0
  BY <1>2, HolderCounts DEF IInv, CountInv
<1>4. IsFiniteSet(Tokens(b)') /\ References(b)' = 1
  <2>1. held'[t][b] = held[t][b] + 1
    BY <1>1, <1>2
  <2>2. IsFiniteSet(Tokens(b)') /\ References(b)' = References(b) + 1
    BY <1>1, <1>3, <2>1, OneMore DEF IInv
  <2>3. References(b) = 0
    BY <1>3
  <2>4. References(b)' = 1
    BY <2>2, <2>3
  <2> QED BY <2>2, <2>4
<1>5. \A c \in Buffers \ {b} : Tokens(c)' = Tokens(c) /\ References(c)' = References(c)
  BY <1>1, NoneMore
<1>6. CountInv'
  BY <1>1, <1>4, <1>5 DEF IInv, CountInv
<1>7. FreshInv'
  BY <1>1 DEF IInv, FreshInv
<1>8. LastInv'
  BY <1>1, <1>2 DEF IInv, LastInv
<1> QED BY <1>3, <1>4, <1>5, <1>6, <1>7, <1>8

LEMMA RetainStep ==
    ASSUME IInv, NEW t \in Threads, NEW b \in Buffers, Retain(t, b)
    PROVE  /\ (CountInv /\ FreshInv /\ LastInv)'
           /\ References(b) > 0 /\ References(b)' = References(b) + 1
           /\ \A c \in Buffers \ {b} : References(c)' = References(c)
<1>1. /\ held[t][b] > 0 /\ refcount'[b] = refcount[b] + 1 /\ held'[t][b] = held[t][b] + 1
      /\ \A u \in Threads \ {t} : held'[u][b] = held[u][b]
      /\ \A c \in Buffers \ {b} : /\ refcount'[c] = refcount[c]
                                  /\ \A u \in Threads : held'[u][c] = held[u][c]
      /\ frees' = frees /\ last' = last /\ data' = data
  BY DEF Retain, IInv, TypeOK, Holds
<1>2. IsFiniteSet(Tokens(b)) /\ refcount[b] = References(b) /\ refcount[b] > 0
  BY <1>1, HolderCounts DEF IInv, CountInv, Holds
<1>3. IsFiniteSet(Tokens(b)') /\ References(b)' = References(b) + 1
  BY <1>1, <1>2, OneMore DEF IInv
<1>4. \A c \in Buffers \ {b} : Tokens(c)' = Tokens(c) /\ References(c)' = References(c)
  BY <1>1, NoneMore
<1>5. CountInv'
  BY <1>1, <1>2, <1>3, <1>4 DEF IInv, CountInv
<1>6. data[b] # "none"
  BY <1>1 DEF IInv, FreshInv
<1>7. FreshInv'
  BY <1>1, <1>6 DEF IInv, FreshInv
<1>8. LastInv'
  <2>1. \A u \in Threads : last[u] # <<b, 0>>
    BY <1>2 DEF IInv, LastInv
  <2>2. frees[b] = 0
    BY <1>2 DEF IInv, LastInv
  <2> QED BY <1>1, <2>1, <2>2 DEF IInv, LastInv
<1> QED BY <1>2, <1>3, <1>4, <1>5, <1>7, <1>8

LEMMA DecrementStep ==
    ASSUME IInv, NEW t \in Threads, NEW b \in Buffers, Decrement(t, b)
    PROVE  /\ (CountInv /\ FreshInv /\ LastInv)'
           /\ References(b) > 0 /\ References(b)' = References(b) - 1
           /\ \A c \in Buffers \ {b} : References(c)' = References(c)
<1>1. /\ held[t][b] > 0 /\ refcount'[b] = refcount[b] - 1 /\ held'[t][b] = held[t][b] - 1
      /\ \A u \in Threads \ {t} : held'[u][b] = held[u][b] /\ last'[u] = last[u]
      /\ \A c \in Buffers \ {b} : /\ refcount'[c] = refcount[c]
                                  /\ \A u \in Threads : held'[u][c] = held[u][c]
      /\ frees' = frees /\ last'[t] = <<b, refcount[b] - 1>> /\ data' = data
  BY DEF Decrement, IInv, TypeOK, Holds
<1>2. IsFiniteSet(Tokens(b)) /\ refcount[b] = References(b) /\ refcount[b] > 0
  BY <1>1, HolderCounts DEF IInv, CountInv, Holds
<1>3. IsFiniteSet(Tokens(b)') /\ References(b)' = References(b) - 1
  BY <1>1, <1>2, OneLess DEF IInv
<1>4. \A c \in Buffers \ {b} : Tokens(c)' = Tokens(c) /\ References(c)' = References(c)
  BY <1>1, NoneMore
<1>5. CountInv'
  BY <1>1, <1>2, <1>3, <1>4 DEF IInv, CountInv
<1>6. data[b] # "none"
  BY <1>1 DEF IInv, FreshInv
<1>7. FreshInv'
  BY <1>1, <1>6 DEF IInv, FreshInv
<1>8. LastInv'
  <2>1. \A u \in Threads : last[u] # <<b, 0>>
    BY <1>2 DEF IInv, LastInv
  <2>2. frees[b] = 0
    BY <1>2 DEF IInv, LastInv
  <2>3. \A c \in Buffers \ {b} : last'[t] # <<c, 0>> /\ last[t] # <<c, 0>>
    BY <1>1 DEF Decrement, Releasing, NotReleasing
  <2> QED BY <1>1, <1>2, <2>1, <2>2, <2>3 DEF IInv, LastInv
<1> QED BY <1>2, <1>3, <1>4, <1>5, <1>7, <1>8

LEMMA HandOverStep ==
    ASSUME IInv, NEW t \in Threads, NEW u \in Threads, NEW b \in Buffers, HandOver(t, u, b)
    PROVE  /\ (CountInv /\ FreshInv /\ LastInv)'
           /\ \A c \in Buffers : References(c)' = References(c)
<1>1. /\ t # u /\ held[t][b] > 0
      /\ held'[t][b] = held[t][b] - 1 /\ held'[u][b] = held[u][b] + 1
      /\ \A v \in Threads \ {t, u} : held'[v][b] = held[v][b]
      /\ \A c \in Buffers \ {b} : \A v \in Threads : held'[v][c] = held[v][c]
      /\ refcount' = refcount /\ frees' = frees /\ last' = last /\ data' = data
  BY DEF HandOver, IInv, TypeOK, Holds
<1>2. IsFiniteSet(Tokens(b)) /\ refcount[b] = References(b)
  BY DEF IInv, CountInv
<1>3. IsFiniteSet(Tokens(b)') /\ References(b)' = References(b)
  BY <1>1, <1>2, OnePassedOn DEF IInv
<1>4. \A c \in Buffers \ {b} : Tokens(c)' = Tokens(c) /\ References(c)' = References(c)
  BY <1>1, NoneMore
<1>5. CountInv'
  BY <1>1, <1>2, <1>3, <1>4 DEF IInv, CountInv
<1>6. data[b] # "none"
  BY <1>1 DEF IInv, FreshInv
<1>7. FreshInv'
  BY <1>1, <1>6 DEF IInv, FreshInv
<1>8. LastInv'
  BY <1>1 DEF IInv, LastInv
<1> QED BY <1>3, <1>4, <1>5, <1>7, <1>8

LEMMA NextIInv == IInv /\ [Next]_vars => IInv'
<1> SUFFICES ASSUME IInv, [Next]_vars PROVE IInv'
  OBVIOUS
<1>1. TypeOK'
  BY TypeStep DEF IInv
<1>2. CASE UNCHANGED vars
  <2>1. CountInv'
    BY <1>2, NoneMore DEF vars, IInv, CountInv
  <2> QED BY <1>1, <1>2, <2>1 DEF vars, IInv, FreshInv, LastInv
<1>3. CASE Next
  <2>1. (CountInv /\ FreshInv /\ LastInv)'
    BY <1>3, ReleaseStep, CreateStep, RetainStep, DecrementStep, HandOverStep DEF Next
  <2> QED BY <1>1, <2>1 DEF IInv
<1> QED BY <1>2, <1>3

\* The count is always the number of references, and only the thread whose
\* decrement gave zero will free (rtBuffer.c:56-82).
THEOREM IInvIsInvariant == Spec => []IInv
<1>1. Init => IInv
  BY InitIInv
<1>2. IInv /\ [Next]_vars => IInv'
  BY NextIInv
<1> QED BY <1>1, <1>2, PTL DEF Spec

-----------------------------------------------------------------------------
(***************************************************************************)
(* The refinement.                                                         *)
(***************************************************************************)
LEMMA InitRefines == Init => Shared!Init
<1> SUFFICES ASSUME Init PROVE Shared!Init
  OBVIOUS
<1>1. \A b \in Buffers : Life(b) = "none"
  BY DEF Init, Life
<1>2. ASSUME NEW b \in Buffers PROVE References(b) = 0
  BY InitIInv DEF Init, IInv, CountInv
<1> QED BY <1>1, <1>2 DEF Shared!Init

\* A step of the buffers is a step of the shared objects, or none.
LEMMA NextRefines ==
    ASSUME IInv, [Next]_vars
    PROVE  [Shared!Next]_<<[b \in Buffers |-> Life(b)], [b \in Buffers |-> References(b)]>>
<1> DEFINE life == [b \in Buffers |-> Life(b)]
           owners == [b \in Buffers |-> References(b)]
<1>1. CASE UNCHANGED vars
  <2>1. \A b \in Buffers : Life(b)' = Life(b) /\ References(b)' = References(b)
    BY <1>1, NoneMore DEF vars, Life
  <2> QED BY <2>1
<1>2. ASSUME NEW t \in Threads, NEW b \in Buffers, Create(t, b) PROVE Shared!Create(b)
  <2>1. References(b)' = 1 /\ \A c \in Buffers \ {b} : References(c)' = References(c)
    BY <1>2, CreateStep
  <2>2. Life(b) = "none" /\ Life(b)' = "live" /\ \A c \in Buffers \ {b} : Life(c)' = Life(c)
    BY <1>2 DEF Create, Life, IInv, TypeOK, FreshInv
  <2>3. life' = [life EXCEPT ![b] = "live"] /\ owners' = [owners EXCEPT ![b] = 1]
    BY <2>1, <2>2
  <2> QED BY <2>2, <2>3 DEF Shared!Create
<1>3. ASSUME NEW t \in Threads, NEW b \in Buffers, Retain(t, b) PROVE Shared!Share(b)
  <2>1. /\ References(b) > 0 /\ References(b)' = References(b) + 1
        /\ \A c \in Buffers \ {b} : References(c)' = References(c)
    BY <1>3, RetainStep
  <2>2. \A c \in Buffers : Life(c)' = Life(c)
    BY <1>3 DEF Retain, Life
  <2>3. UNCHANGED life /\ owners' = [owners EXCEPT ![b] = References(b) + 1]
    BY <2>1, <2>2
  <2> QED BY <2>1, <2>3 DEF Shared!Share
<1>4. ASSUME NEW t \in Threads, NEW b \in Buffers, Decrement(t, b) PROVE Shared!LetGo(b)
  <2>1. /\ References(b) > 0 /\ References(b)' = References(b) - 1
        /\ \A c \in Buffers \ {b} : References(c)' = References(c)
    BY <1>4, DecrementStep
  <2>2. \A c \in Buffers : Life(c)' = Life(c)
    BY <1>4 DEF Decrement, Life
  <2>3. UNCHANGED life /\ owners' = [owners EXCEPT ![b] = References(b) - 1]
    BY <2>1, <2>2
  <2> QED BY <2>1, <2>3 DEF Shared!LetGo
<1>5. ASSUME NEW t \in Threads, NEW u \in Threads, NEW b \in Buffers, HandOver(t, u, b)
      PROVE  UNCHANGED <<life, owners>>
  <2>1. \A c \in Buffers : Life(c)' = Life(c)
    BY <1>5 DEF HandOver, Life
  <2> QED BY <1>5, <2>1, HandOverStep
<1>6. ASSUME NEW t \in Threads, Release(t), last[t][2] # 0 PROVE UNCHANGED <<life, owners>>
  <2>1. \A c \in Buffers : Life(c)' = Life(c) /\ References(c)' = References(c)
    BY <1>6, NoneMore DEF Release, Life
  <2> QED BY <2>1
<1>7. ASSUME NEW t \in Threads, Release(t), last[t][2] = 0
      PROVE  \E b \in Buffers : Shared!Free(b)
  <2>1. PICK b \in Buffers : last[t] = <<b, 0>>
    BY <1>7 DEF Release, Releasing, IInv, TypeOK
  <2>2. data[b] # "none" /\ frees[b] = 0 /\ refcount[b] = 0 /\ References(b) = 0
    BY <2>1 DEF IInv, FreshInv, LastInv, CountInv
  <2>3. /\ frees' = [frees EXCEPT ![b] = frees[b] + 1] /\ data' = [data EXCEPT ![b] = "freed"]
        /\ held' = held
    BY <1>7, <2>1 DEF Release
  <2>4. Life(b) = "live" /\ Life(b)' = "freed" /\ \A c \in Buffers \ {b} : Life(c)' = Life(c)
    BY <2>1, <2>2, <2>3 DEF Life, IInv, TypeOK
  <2>5. \A c \in Buffers : References(c)' = References(c)
    BY <2>3, NoneMore
  <2>6. life' = [life EXCEPT ![b] = "freed"] /\ owners' = owners
    BY <2>1, <2>4, <2>5
  <2> QED BY <2>1, <2>2, <2>4, <2>6 DEF Shared!Free
<1> HIDE DEF life, owners
<1> QED BY <1>1, <1>2, <1>3, <1>4, <1>5, <1>6, <1>7 DEF Next, Shared!Next, life, owners

\* Whatever any number of threads do at the same time, a buffer is freed when
\* its last reference has gone, not before and not twice: the safety part of
\* BufferImplementsShared (rtBuffer.c:56-82).
THEOREM EveryStepIsOfAShared == Spec => Shared!Safe
<1>1. Init => Shared!Init
  BY InitRefines
<1>2. IInv /\ [Next]_vars =>
        [Shared!Next]_<<[b \in Buffers |-> Life(b)], [b \in Buffers |-> References(b)]>>
  BY NextRefines
<1> QED BY <1>1, <1>2, IInvIsInvariant, PTL DEF Spec, Shared!Safe
=============================================================================
