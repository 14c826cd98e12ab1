--------------------------- MODULE RtMessageProofs ---------------------------
(***************************************************************************)
(* What is proved of RtMessage: for any number of threads, messages and    *)
(* nodes, a message goes with its last owner, twice only by a race in      *)
(* Release, and takes its whole tree and nothing else with it.             *)
(***************************************************************************)
EXTENDS RtMessage, SequenceTheorems, FiniteSetTheorems, TLAPS

\* The count of a message says how many references there are, if it was ever
\* written; and nobody has to do with a message that is not there yet.
CountInv ==
    /\ \A m \in Handles : IsFiniteSet(Tokens(m))
    /\ \A m \in Known : Count(m) = References(m)
    /\ \A m \in Handles \ DOMAIN messages, t \in Threads : held[t][m] = 0

\* What is about to be tested is no item.  Two at once is a race, and so is
\* one who tests what is already freed.
TestInv ==
    /\ \A t \in Threads : testing[t] # 0 =>
        testing[t] \in DOMAIN messages /\ ~messages[testing[t]].item
    /\ \A t, u \in Threads : t # u /\ testing[t] = testing[u] /\ testing[t] # 0 =>
        testing[t] \in raced
    /\ \A t \in Threads, m \in Known :
        testing[t] = m /\ messages[m].frees > 0 => m \in raced

Root(m) == messages[m].json

\* A message has a root of its own, and an item has a node below a root.
TreeInv ==
    /\ \A n \in DOMAIN nodes : nodes[n].under <= Len(nodes)
    /\ \A m \in DOMAIN messages :
        /\ Root(m) <= Len(nodes)
        /\ messages[m].item => Root(m) # NULL /\ nodes[Root(m)].under # NULL
        /\ ~messages[m].item /\ Root(m) # NULL => nodes[Root(m)].under = NULL
    /\ \A m, o \in DOMAIN messages :
        m # o /\ ~messages[m].item /\ ~messages[o].item /\ Root(m) # NULL => Root(m) # Root(o)

IInv ==
    /\ TypeOK /\ CountInv /\ TestInv /\ TreeInv
    /\ FreedByLastOwner /\ FreedTwiceOnlyByRace /\ TreesFollowMessages

-----------------------------------------------------------------------------
(***************************************************************************)
(* References, as in RtBufferProofs.                                       *)
(***************************************************************************)
LEMMA TokenSet ==
    ASSUME NEW m, NEW p
    PROVE  p \in Tokens(m) <=> \E t \in Threads : \E i \in 1 .. held[t][m] : p = <<t, i>>
BY DEF Tokens

\* Who takes a reference adds one.
LEMMA OneMore ==
    ASSUME TypeOK, NEW m \in Handles, NEW t \in Threads,
           IsFiniteSet(Tokens(m)),
           held'[t][m] = held[t][m] + 1,
           \A u \in Threads \ {t} : held'[u][m] = held[u][m]
    PROVE  IsFiniteSet(Tokens(m)') /\ References(m)' = References(m) + 1
<1> DEFINE new == <<t, held[t][m] + 1>>
<1>1. \A u \in Threads : held[u][m] \in Nat
  BY DEF TypeOK
<1>2. new \notin Tokens(m)
  BY <1>1, TokenSet
<1>3. Tokens(m)' = Tokens(m) \cup {new}
  <2>1. ASSUME NEW p \in Tokens(m)' PROVE p \in Tokens(m) \cup {new}
    <3>1. PICK u \in Threads : \E i \in 1 .. held'[u][m] : p = <<u, i>>
      BY <2>1 DEF Tokens
    <3>2. CASE u = t  BY <3>1, <3>2, <1>1, TokenSet
    <3>3. CASE u # t  BY <3>1, <3>3, TokenSet
    <3> QED BY <3>2, <3>3
  <2>2. ASSUME NEW p \in Tokens(m) PROVE p \in Tokens(m)'
    <3>1. PICK u \in Threads : \E i \in 1 .. held[u][m] : p = <<u, i>>
      BY <2>2, TokenSet
    <3>2. \E i \in 1 .. held'[u][m] : p = <<u, i>>
      BY <3>1, <1>1
    <3> QED BY <3>2 DEF Tokens
  <2>3. new \in Tokens(m)'
    <3>1. held[t][m] + 1 \in 1 .. held'[t][m]
      BY <1>1
    <3> QED BY <3>1 DEF Tokens
  <2> QED BY <2>1, <2>2, <2>3
<1> HIDE DEF new
<1> QED BY <1>2, <1>3, FS_AddElement DEF References

\* Who lets go of a reference takes one away.
LEMMA OneLess ==
    ASSUME TypeOK, NEW m \in Handles, NEW t \in Threads,
           IsFiniteSet(Tokens(m)),
           held[t][m] > 0, held'[t][m] = held[t][m] - 1,
           \A u \in Threads \ {t} : held'[u][m] = held[u][m]
    PROVE  IsFiniteSet(Tokens(m)') /\ References(m)' = References(m) - 1
<1> DEFINE gone == <<t, held[t][m]>>
<1>1. \A u \in Threads : held[u][m] \in Nat
  BY DEF TypeOK
<1>2. gone \in Tokens(m)
  BY <1>1, TokenSet
<1>3. Tokens(m)' = Tokens(m) \ {gone}
  <2>1. ASSUME NEW p \in Tokens(m)' PROVE p \in Tokens(m) \ {gone}
    <3>1. PICK u \in Threads : \E i \in 1 .. held'[u][m] : p = <<u, i>>
      BY <2>1 DEF Tokens
    <3>2. CASE u = t  BY <3>1, <3>2, <1>1, TokenSet
    <3>3. CASE u # t  BY <3>1, <3>3, TokenSet
    <3> QED BY <3>2, <3>3
  <2>2. ASSUME NEW p \in Tokens(m), p # gone PROVE p \in Tokens(m)'
    <3>1. PICK u \in Threads : \E i \in 1 .. held[u][m] : p = <<u, i>>
      BY <2>2, TokenSet
    <3>2. \E i \in 1 .. held'[u][m] : p = <<u, i>>
      BY <3>1, <2>2, <1>1
    <3> QED BY <3>2 DEF Tokens
  <2> QED BY <2>1, <2>2
<1> HIDE DEF gone
<1> QED BY <1>2, <1>3, FS_RemoveElement DEF References

\* Who passes one on changes nothing in their number.
LEMMA OnePassedOn ==
    ASSUME TypeOK, NEW m \in Handles, NEW t \in Threads, NEW u \in Threads, t # u,
           IsFiniteSet(Tokens(m)),
           held[t][m] > 0, held'[t][m] = held[t][m] - 1,
           held'[u][m] = held[u][m] + 1,
           \A v \in Threads \ {t, u} : held'[v][m] = held[v][m]
    PROVE  IsFiniteSet(Tokens(m)') /\ References(m)' = References(m)
<1> DEFINE gone == <<t, held[t][m]>>
           new == <<u, held[u][m] + 1>>
           rest == Tokens(m) \ {gone}
<1>1. \A v \in Threads : held[v][m] \in Nat
  BY DEF TypeOK
<1>2. gone \in Tokens(m) /\ new \notin rest
  BY <1>1, TokenSet
<1>3. Tokens(m)' = rest \cup {new}
  <2>1. ASSUME NEW p \in Tokens(m)' PROVE p \in rest \cup {new}
    <3>1. PICK v \in Threads : \E i \in 1 .. held'[v][m] : p = <<v, i>>
      BY <2>1 DEF Tokens
    <3>2. CASE v = t  BY <3>1, <3>2, <1>1, TokenSet
    <3>3. CASE v = u  BY <3>1, <3>3, <1>1, TokenSet
    <3>4. CASE v \notin {t, u}  BY <3>1, <3>4, TokenSet
    <3> QED BY <3>2, <3>3, <3>4
  <2>2. ASSUME NEW p \in rest PROVE p \in Tokens(m)'
    <3>1. PICK v \in Threads : \E i \in 1 .. held[v][m] : p = <<v, i>>
      BY <2>2, TokenSet
    <3>2. \E i \in 1 .. held'[v][m] : p = <<v, i>>
      BY <3>1, <2>2, <1>1
    <3> QED BY <3>2 DEF Tokens
  <2>3. new \in Tokens(m)'
    <3>1. held[u][m] + 1 \in 1 .. held'[u][m]
      BY <1>1
    <3> QED BY <3>1 DEF Tokens
  <2> QED BY <2>1, <2>2, <2>3
<1>4. IsFiniteSet(rest) /\ Cardinality(rest) = Cardinality(Tokens(m)) - 1
  BY <1>2, FS_RemoveElement
<1>5. Cardinality(Tokens(m)) \in Nat
  BY FS_CardinalityType
<1> HIDE DEF gone, new, rest
<1>6. IsFiniteSet(rest \cup {new}) /\ Cardinality(rest \cup {new}) = Cardinality(rest) + 1
  BY <1>2, <1>4, FS_AddElement
<1> QED BY <1>3, <1>4, <1>5, <1>6 DEF References

LEMMA NoneMore ==
    ASSUME NEW m, \A t \in Threads : held'[t][m] = held[t][m]
    PROVE  Tokens(m)' = Tokens(m) /\ References(m)' = References(m)
BY DEF Tokens, References

-----------------------------------------------------------------------------
(***************************************************************************)
(* What the steps are made of.                                             *)
(***************************************************************************)

\* A new message.
Made(h) ==
    /\ Len(messages') = Len(messages) + 1 /\ Len(messages) + 1 \in Handles
    /\ DOMAIN messages' = DOMAIN messages \cup {Len(messages) + 1}
    /\ \A m \in DOMAIN messages : messages'[m] = messages[m]
    /\ messages'[Len(messages) + 1] = h

\* And one reference to it.
Joins(t, h) ==
    /\ Made(h)
    /\ held'[t][Len(messages) + 1] = 1
    /\ \A u \in Threads, m \in Handles :
        u # t \/ m # Len(messages) + 1 => held'[u][m] = held[u][m]

\* New nodes, all of them under node r, or with one that is r and under none.
Grows(r) ==
    /\ Len(nodes') >= Len(nodes)
    /\ \A n \in DOMAIN nodes : nodes'[n] = nodes[n]
    /\ \A n \in DOMAIN nodes' \ DOMAIN nodes :
        nodes'[n].freed = 0 /\ nodes'[n].under = IF n = r THEN NULL ELSE r

LEMMA Domains ==
    ASSUME TypeOK
    PROVE  /\ DOMAIN messages = 1 .. Len(messages) /\ Len(messages) \in 0 .. MaxMessages
           /\ DOMAIN nodes = 1 .. Len(nodes) /\ Len(nodes) \in 0 .. MaxNodes
           /\ \A m \in DOMAIN messages : m \in Handles /\ messages[m] \in Messages
           /\ \A n \in DOMAIN nodes : nodes[n] \in Nodes
           /\ MaxMessages \in Nat /\ MaxNodes \in Nat
<1>1. Len(messages) \in Nat /\ DOMAIN messages = 1 .. Len(messages)
      /\ Len(nodes) \in Nat /\ DOMAIN nodes = 1 .. Len(nodes)
  BY LenProperties DEF TypeOK
<1>2. \A m \in DOMAIN messages : messages[m] \in Messages
  BY <1>1, ElementOfSeq DEF TypeOK
<1>3. \A n \in DOMAIN nodes : nodes[n] \in Nodes
  BY <1>1, ElementOfSeq DEF TypeOK
<1> QED BY <1>1, <1>2, <1>3, MessageAssumption DEF TypeOK, Handles

LEMMA Allocated ==
    ASSUME TypeOK, NEW t \in Threads, NEW h \in Messages, Allocate(t, h)
    PROVE  /\ messages' \in Seq(Messages) /\ Len(messages') <= MaxMessages
           /\ held' \in [Threads -> [Handles -> Nat]]
           /\ Joins(t, h)
<1>1. Len(messages) + 1 \in Handles
  BY Domains DEF Allocate, Handles
<1>2. messages' = Append(messages, h)
  BY DEF Allocate
<1>3. /\ messages' \in Seq(Messages) /\ Len(messages') = Len(messages) + 1
      /\ \A m \in 1 .. Len(messages) : messages'[m] = messages[m]
      /\ messages'[Len(messages) + 1] = h
  BY <1>2, AppendProperties DEF TypeOK
<1>4. DOMAIN messages' = 1 .. Len(messages) + 1
  BY <1>3, LenProperties
<1>5. held' = [held EXCEPT ![t][Len(messages) + 1] = 1]
  BY DEF Allocate
<1>6. /\ held' \in [Threads -> [Handles -> Nat]]
      /\ held'[t][Len(messages) + 1] = 1
      /\ \A u \in Threads, m \in Handles :
            u # t \/ m # Len(messages) + 1 => held'[u][m] = held[u][m]
  BY <1>1, <1>5 DEF TypeOK
<1>7. DOMAIN messages' = DOMAIN messages \cup {Len(messages) + 1}
  BY <1>4, Domains
<1> HIDE DEF Handles
<1> QED BY <1>1, <1>3, <1>6, <1>7, Domains DEF Joins, Made, Allocate

LEMMA NodeType ==
    ASSUME NEW n \in 0 .. MaxNodes
    PROVE  NodeUnder(n) \in Nodes /\ NodeUnder(n).under = n /\ NodeUnder(n).freed = 0
BY DEF NodeUnder, Nodes

\* One node more, under another or as a root.
LEMMA OneNodeMore ==
    ASSUME TypeOK, RoomFor(1), NEW r \in 0 .. Len(nodes) + 1,
           nodes' = Append(nodes, NodeUnder(IF r = Len(nodes) + 1 THEN NULL ELSE r))
    PROVE  /\ nodes' \in Seq(Nodes) /\ Len(nodes') = Len(nodes) + 1
           /\ Len(nodes') <= MaxNodes /\ Grows(r)
<1> DEFINE new == NodeUnder(IF r = Len(nodes) + 1 THEN NULL ELSE r)
<1>1. /\ new \in Nodes /\ new.freed = 0
      /\ new.under = IF r = Len(nodes) + 1 THEN NULL ELSE r
  <2> DEFINE u == IF r = Len(nodes) + 1 THEN NULL ELSE r
  <2>1. u \in 0 .. MaxNodes
    BY Domains DEF NULL, RoomFor
  <2> HIDE DEF u
  <2>2. NodeUnder(u) \in Nodes /\ NodeUnder(u).under = u /\ NodeUnder(u).freed = 0
    BY <2>1, NodeType
  <2> QED BY <2>2 DEF u
<1>2. nodes' = Append(nodes, new)
  OBVIOUS
<1> HIDE DEF new
<1>3. /\ nodes' \in Seq(Nodes) /\ Len(nodes') = Len(nodes) + 1
      /\ \A n \in 1 .. Len(nodes) : nodes'[n] = nodes[n]
      /\ nodes'[Len(nodes) + 1] = new
  BY <1>1, <1>2, AppendProperties DEF TypeOK
<1>4. DOMAIN nodes' = 1 .. Len(nodes) + 1
  BY <1>3, LenProperties
<1> QED BY <1>1, <1>3, <1>4, Domains DEF Grows, RoomFor

LEMMA NothingGrows == ASSUME nodes' = nodes PROVE Grows(NULL)
BY DEF Grows

-----------------------------------------------------------------------------
(***************************************************************************)
(* Trees.                                                                  *)
(***************************************************************************)
LEMMA InTree ==
    ASSUME NEW m, NEW n
    PROVE  n \in Tree(m) <=>
             /\ Root(m) # NULL
             /\ n = Root(m) \/ (n \in DOMAIN nodes /\ nodes[n].under = Root(m))
BY DEF Tree, Fields, Root

LEMMA TreesKept ==
    ASSUME TypeOK, TreeInv, TreesFollowMessages,
           nodes' = nodes, DOMAIN messages' = DOMAIN messages,
           \A m \in DOMAIN messages : /\ messages'[m].json = messages[m].json
                                      /\ messages'[m].item = messages[m].item
                                      /\ messages'[m].frees = messages[m].frees
    PROVE  TreeInv' /\ TreesFollowMessages'
<1>1. TreeInv'
  BY DEF TreeInv, Root
<1>2. \A m \in DOMAIN messages : Tree(m)' = Tree(m)
  BY DEF Tree, Fields
<1>3. TreesFollowMessages'
  BY <1>2 DEF TreesFollowMessages
<1> QED BY <1>1, <1>3

\* A new message has a tree of its own, none, or it is an item.
LEMMA TreesJoin ==
    ASSUME TypeOK, TreeInv, TreesFollowMessages, NEW h \in Messages, h.frees = 0,
           Made(h), NEW r, Grows(r), DOMAIN nodes' = 1 .. Len(nodes'),
           \/ ~h.item /\ h.json = NULL /\ nodes' = nodes
           \/ ~h.item /\ h.json = Len(nodes) + 1 /\ r = h.json /\ Len(nodes') > Len(nodes)
           \/ h.item /\ h.json \in DOMAIN nodes /\ nodes[h.json].under # NULL /\ nodes' = nodes
    PROVE  TreeInv' /\ TreesFollowMessages'
<1>0. PICK new \in Nat : new = Len(messages) + 1
  BY Domains
<1>1. /\ DOMAIN messages' = DOMAIN messages \cup {new} /\ new \notin DOMAIN messages
      /\ \A m \in DOMAIN messages : messages'[m] = messages[m]
      /\ messages'[new] = h
  BY <1>0, Domains DEF Made
<1>2. /\ Len(nodes') >= Len(nodes) /\ Len(nodes') \in Nat /\ Len(nodes) \in Nat
      /\ DOMAIN nodes = 1 .. Len(nodes)
      /\ \A n \in DOMAIN nodes : nodes'[n] = nodes[n]
      /\ \A n \in DOMAIN nodes' \ DOMAIN nodes :
            nodes'[n].freed = 0 /\ nodes'[n].under = IF n = r THEN NULL ELSE r
  <2>1. Len(nodes') \in Nat
    BY Domains DEF Grows
  <2> QED BY <2>1, Domains DEF Grows
<1>3. /\ \A n \in DOMAIN nodes : nodes[n].under \in Nat /\ nodes[n].under <= Len(nodes)
      /\ \A m \in DOMAIN messages : Root(m) \in Nat /\ Root(m) <= Len(nodes)
      /\ h.json \in Nat
  BY Domains, SMTT(40) DEF TreeInv, Messages, Nodes, Root
<1>4. \A m \in DOMAIN messages : Root(m)' = Root(m)
  BY <1>1 DEF Root
<1>5. Root(new)' = h.json
  BY <1>1 DEF Root
<1>6. /\ \A m \in DOMAIN messages :
            /\ messages[m].item => Root(m) # NULL /\ nodes[Root(m)].under # NULL
            /\ ~messages[m].item /\ Root(m) # NULL => nodes[Root(m)].under = NULL
      /\ \A m, o \in DOMAIN messages :
            m # o /\ ~messages[m].item /\ ~messages[o].item /\ Root(m) # NULL => Root(m) # Root(o)
  BY DEF TreeInv
<1>7. \A n \in DOMAIN nodes' : nodes'[n].under <= Len(nodes')
  <2>1. ASSUME NEW n \in DOMAIN nodes' PROVE nodes'[n].under <= Len(nodes')
    <3>1. CASE n \in DOMAIN nodes  BY <1>2, <1>3, <3>1
    <3>2. CASE n \notin DOMAIN nodes  BY <1>2, <3>2 DEF NULL
    <3> QED BY <3>1, <3>2
  <2> QED BY <2>1
<1>8. ASSUME NEW m \in DOMAIN messages'
      PROVE  /\ Root(m)' <= Len(nodes')
             /\ messages'[m].item => Root(m)' # NULL /\ nodes'[Root(m)'].under # NULL
             /\ ~messages'[m].item /\ Root(m)' # NULL => nodes'[Root(m)'].under = NULL
  <2>1. CASE m \in DOMAIN messages
    <3>1. Root(m) # NULL => Root(m) \in DOMAIN nodes
      BY <1>2, <1>3, <2>1 DEF NULL
    <3> QED BY <1>1, <1>2, <1>3, <1>4, <1>6, <2>1, <3>1
  <2>2. CASE m = new
    <3>1. messages'[m] = h /\ Root(m)' = h.json
      BY <1>1, <1>5, <2>2
    <3>2. CASE ~h.item /\ h.json = NULL
      BY <1>2, <3>1, <3>2 DEF NULL
    <3>3. CASE ~h.item /\ h.json = Len(nodes) + 1 /\ r = h.json /\ Len(nodes') > Len(nodes)
      BY <1>2, <3>1, <3>3 DEF NULL
    <3>4. CASE h.item /\ h.json \in DOMAIN nodes /\ nodes[h.json].under # NULL /\ nodes' = nodes
      BY <1>2, <3>1, <3>4 DEF NULL
    <3> QED BY <3>2, <3>3, <3>4
  <2> QED BY <1>1, <2>1, <2>2
<1>9. ASSUME NEW m \in DOMAIN messages', NEW o \in DOMAIN messages', m # o,
             ~messages'[m].item, ~messages'[o].item, Root(m)' # NULL
      PROVE  Root(m)' # Root(o)'
  <2>1. CASE m \in DOMAIN messages /\ o \in DOMAIN messages
    BY <1>1, <1>4, <1>6, <1>9, <2>1
  <2>2. CASE m = new \/ o = new
    <3>1. ~h.item /\ (h.json = NULL \/ h.json = Len(nodes) + 1)
      BY <1>1, <1>9, <2>2
    <3> QED BY <1>1, <1>3, <1>4, <1>5, <1>9, <2>2, <3>1 DEF NULL
  <2> QED BY <1>1, <2>1, <2>2
<1>10. TreeInv'
  BY <1>7, <1>8, <1>9 DEF TreeInv
<1>11. ASSUME NEW m \in DOMAIN messages', ~messages'[m].item, NEW n \in Tree(m)'
       PROVE  nodes'[n].freed = messages'[m].frees
  <2>1. /\ Root(m)' # NULL
        /\ n = Root(m)' \/ (n \in DOMAIN nodes' /\ nodes'[n].under = Root(m)')
    BY <1>11 DEF Tree, Fields, Root
  <2>2. CASE m \in DOMAIN messages
    <3>1. Root(m)' = Root(m) /\ Root(m) \in DOMAIN nodes /\ messages'[m] = messages[m]
      BY <1>1, <1>2, <1>3, <1>4, <2>1, <2>2 DEF NULL
    <3>2. n \in DOMAIN nodes
      <4>1. CASE n \in DOMAIN nodes' \ DOMAIN nodes
        <5>1. nodes'[n].under = r /\ r # NULL /\ r = Root(m)
          BY <1>2, <2>1, <3>1, <4>1
        <5> QED BY <1>2, <1>3, <2>2, <4>1, <5>1
      <4> QED BY <2>1, <3>1, <4>1
    <3>3. n \in Tree(m)
      BY <1>2, <2>1, <3>1, <3>2, InTree
    <3> QED BY <1>2, <1>11, <2>2, <3>1, <3>2, <3>3 DEF TreesFollowMessages
  <2>3. CASE m = new
    <3>1. messages'[m] = h /\ Root(m)' = h.json
      BY <1>1, <1>5, <2>3
    <3>2. h.json = Len(nodes) + 1 /\ r = h.json
      BY <1>11, <2>1, <3>1
    <3>3. n \in DOMAIN nodes' \ DOMAIN nodes
      BY <1>2, <1>3, <2>1, <3>1, <3>2, <1>11
    <3> QED BY <1>2, <3>1, <3>3
  <2> QED BY <1>1, <2>2, <2>3
<1> QED BY <1>10, <1>11 DEF TreesFollowMessages

\* A field more in a message that is not freed.
LEMMA TreesField ==
    ASSUME TypeOK, TreeInv, TreesFollowMessages, messages' = messages,
           NEW p \in DOMAIN messages, messages[p].frees = 0, Root(p) # NULL,
           Grows(Root(p)), DOMAIN nodes' = 1 .. Len(nodes'), Len(nodes') \in Nat
    PROVE  TreeInv' /\ TreesFollowMessages'
<1>1. /\ Len(nodes') >= Len(nodes) /\ Len(nodes') \in Nat /\ Len(nodes) \in Nat
      /\ DOMAIN nodes = 1 .. Len(nodes)
      /\ \A n \in DOMAIN nodes : nodes'[n] = nodes[n]
  BY Domains DEF Grows
<1>2. /\ \A n \in DOMAIN nodes : nodes[n].under \in Nat /\ nodes[n].under <= Len(nodes)
      /\ \A m \in DOMAIN messages : Root(m) \in Nat /\ Root(m) <= Len(nodes) /\ Root(m)' = Root(m)
  BY Domains, SMTT(40) DEF TreeInv, Messages, Nodes, Root
<1>3. /\ Root(p) \in DOMAIN nodes
      /\ \A n \in DOMAIN nodes' \ DOMAIN nodes :
            nodes'[n].freed = 0 /\ nodes'[n].under = Root(p)
  BY <1>1, <1>2 DEF Grows, NULL
<1>4. \A n \in DOMAIN nodes' : nodes'[n].under <= Len(nodes')
  <2>1. ASSUME NEW n \in DOMAIN nodes' PROVE nodes'[n].under <= Len(nodes')
    <3>1. CASE n \in DOMAIN nodes  BY <1>1, <1>2, <3>1
    <3>2. CASE n \notin DOMAIN nodes  BY <1>1, <1>2, <1>3, <3>2
    <3> QED BY <3>1, <3>2
  <2> QED BY <2>1
<1>5. \A m \in DOMAIN messages : Root(m) # NULL => Root(m) \in DOMAIN nodes
  BY <1>1, <1>2 DEF NULL
<1>6. TreeInv'
  BY <1>1, <1>2, <1>4, <1>5 DEF TreeInv
<1>7. ASSUME NEW m \in DOMAIN messages', ~messages'[m].item, NEW n \in Tree(m)'
      PROVE  nodes'[n].freed = messages'[m].frees
  <2>1. /\ Root(m) # NULL /\ Root(m) \in DOMAIN nodes
        /\ n = Root(m) \/ (n \in DOMAIN nodes' /\ nodes'[n].under = Root(m))
    BY <1>2, <1>5, <1>7 DEF Tree, Fields, Root
  <2>2. CASE n \in DOMAIN nodes
    <3>1. n \in Tree(m)
      BY <1>1, <2>1, <2>2, InTree
    <3> QED BY <1>1, <1>7, <2>2, <3>1 DEF TreesFollowMessages
  <2>3. CASE n \notin DOMAIN nodes
    <3>1. nodes'[n].freed = 0 /\ Root(p) = Root(m)
      BY <1>3, <2>1, <2>3
    <3>2. nodes[Root(p)].under = NULL
      BY <1>7, <2>1, <3>1 DEF TreeInv
    <3>3. ~messages[p].item
      BY <3>2 DEF TreeInv
    <3>4. m = p
      BY <1>7, <2>1, <3>1, <3>3 DEF TreeInv
    <3> QED BY <3>1, <3>4
  <2> QED BY <2>2, <2>3
<1> QED BY <1>6, <1>7 DEF TreesFollowMessages

\* What is freed is the tree, and no node of another message.
LEMMA TreesDestroyed ==
    ASSUME TypeOK, TreeInv, TreesFollowMessages, NEW p \in DOMAIN messages,
           ~messages[p].item, Destroyed(p)
    PROVE  /\ TreeInv' /\ TreesFollowMessages'
           /\ nodes' \in Seq(Nodes) /\ Len(nodes') = Len(nodes)
<1>1. messages' = [messages EXCEPT ![p].frees = @ + 1]
  BY DEF Destroyed
<1>2. /\ DOMAIN messages' = DOMAIN messages
      /\ \A m \in DOMAIN messages :
            messages'[m].json = messages[m].json /\ messages'[m].item = messages[m].item
      /\ \A m \in DOMAIN messages \ {p} : messages'[m] = messages[m]
      /\ messages'[p].frees = messages[p].frees + 1
  BY <1>1, Domains DEF Messages
<1>3. nodes' = [n \in DOMAIN nodes |->
                  IF n \in Tree(p) THEN [nodes[n] EXCEPT !.freed = @ + 1] ELSE nodes[n]]
  BY DEF Destroyed
<1>4. /\ \A n \in DOMAIN nodes : nodes'[n] \in Nodes /\ nodes'[n].under = nodes[n].under
      /\ \A n \in DOMAIN nodes : n \in Tree(p) => nodes'[n].freed = nodes[n].freed + 1
      /\ \A n \in DOMAIN nodes : n \notin Tree(p) => nodes'[n].freed = nodes[n].freed
      /\ DOMAIN nodes' = DOMAIN nodes
  <2>1. /\ DOMAIN nodes' = DOMAIN nodes /\ \A n \in DOMAIN nodes : nodes[n] \in Nodes
        /\ \A n \in DOMAIN nodes :
             nodes'[n] = IF n \in Tree(p) THEN [nodes[n] EXCEPT !.freed = @ + 1] ELSE nodes[n]
    BY <1>3, Domains
  <2>2. ASSUME NEW x \in Nodes
        PROVE  LET y == [x EXCEPT !.freed = @ + 1]
               IN  y \in Nodes /\ y.under = x.under /\ y.freed = x.freed + 1
    BY DEF Nodes
  <2> QED BY <2>1, <2>2
<1>5. nodes' \in Seq(Nodes) /\ Len(nodes') = Len(nodes)
  <2>1. nodes' \in [1 .. Len(nodes) -> Nodes]
    BY <1>3, <1>4, Domains
  <2>2. Len(nodes) \in Nat
    BY Domains
  <2>3. nodes' \in Seq(Nodes)
    BY <2>1, <2>2, SeqDef
  <2> QED BY <2>1, <2>2, <2>3, LenProperties
<1>6. \A m \in DOMAIN messages : Root(m)' = Root(m) /\ Root(m) \in Nat
                                 /\ (Root(m) # NULL => Root(m) \in DOMAIN nodes)
  BY <1>2, Domains, SMTT(40) DEF Root, TreeInv, Messages, NULL
<1>7. TreeInv'
  BY <1>2, <1>4, <1>5, <1>6, SMTT(40) DEF TreeInv
<1>8. ASSUME NEW m \in DOMAIN messages', ~messages'[m].item, NEW n \in Tree(m)'
      PROVE  nodes'[n].freed = messages'[m].frees
  <2>1. /\ Root(m) # NULL /\ Root(m) \in DOMAIN nodes
        /\ n = Root(m) \/ (n \in DOMAIN nodes /\ nodes[n].under = Root(m))
        /\ m \in DOMAIN messages /\ ~messages[m].item
    BY <1>2, <1>4, <1>6, <1>8 DEF Tree, Fields, Root
  <2>2. n \in Tree(m) /\ n \in DOMAIN nodes
    BY <2>1, InTree
  <2>3. nodes[n].freed = messages[m].frees
    BY <2>1, <2>2 DEF TreesFollowMessages
  <2>4. CASE m = p
    BY <1>2, <1>4, <2>2, <2>3, <2>4
  <2>5. CASE m # p
    <3>1. Root(m) # Root(p)
      BY <2>1, <2>5 DEF TreeInv
    <3>2. nodes[Root(m)].under = NULL /\ (Root(p) # NULL => nodes[Root(p)].under = NULL)
      BY <2>1 DEF TreeInv
    <3>3. n \notin Tree(p)
      BY <2>1, <3>1, <3>2, InTree
    <3> QED BY <1>2, <1>4, <2>1, <2>2, <2>3, <2>5, <3>3
  <2> QED BY <2>4, <2>5
<1> QED BY <1>5, <1>7, <1>8 DEF TreesFollowMessages

-----------------------------------------------------------------------------
(***************************************************************************)
(* Owners.                                                                 *)
(***************************************************************************)
OwnersInv == CountInv /\ TestInv /\ FreedByLastOwner /\ FreedTwiceOnlyByRace

LEMMA NobodyHolds ==
    ASSUME NEW m, \A t \in Threads : held[t][m] = 0
    PROVE  IsFiniteSet(Tokens(m)) /\ References(m) = 0
<1>1. ASSUME NEW p \in Tokens(m) PROVE FALSE
  BY <1>1, TokenSet
<1>2. Tokens(m) = {}
  BY <1>1
<1> QED BY <1>2, FS_EmptySet DEF References

\* A holder is counted.
LEMMA HolderCounts ==
    ASSUME TypeOK, CountInv, NEW m \in Known
    PROVE  /\ Count(m) \in Nat
           /\ Count(m) > 0 <=> \E t \in Threads : Holds(t, m)
<1>1. m \in Handles /\ IsFiniteSet(Tokens(m)) /\ Count(m) = Cardinality(Tokens(m))
  BY Domains DEF Known, CountInv, References
<1>2. \A t \in Threads : held[t][m] \in Nat
  BY <1>1 DEF TypeOK
<1>3. Cardinality(Tokens(m)) \in Nat /\ (Cardinality(Tokens(m)) = 0 <=> Tokens(m) = {})
  <2> DEFINE T == Tokens(m)
  <2>1. IsFiniteSet(T)
    BY <1>1
  <2> HIDE DEF T
  <2>2. Cardinality(T) \in Nat /\ (Cardinality(T) = 0 <=> T = {})
    BY <2>1, FS_CardinalityType, FS_EmptySet
  <2> QED BY <2>2 DEF T
<1>4. ASSUME NEW t \in Threads, Holds(t, m) PROVE Tokens(m) # {}
  <2>1. 1 \in 1 .. held[t][m]
    BY <1>2, <1>4 DEF Holds
  <2>2. <<t, 1>> \in Tokens(m)
    BY <2>1, TokenSet
  <2> QED BY <2>2
<1>5. ASSUME \A t \in Threads : ~Holds(t, m) PROVE Count(m) = 0
  <2>1. \A t \in Threads : held[t][m] = 0
    BY <1>2, <1>5 DEF Holds
  <2> QED BY <1>1, <2>1, NobodyHolds DEF References
<1> QED BY <1>1, <1>3, <1>4, <1>5

LEMMA OwnersKept ==
    ASSUME OwnersInv, messages' = messages, held' = held, testing' = testing, raced' = raced
    PROVE  OwnersInv'
<1>1. \A m \in Handles : Tokens(m)' = Tokens(m) /\ References(m)' = References(m)
  BY NoneMore
<1>2. CountInv'
  <2>1. Known' = Known /\ \A m \in Known : Count(m)' = Count(m) /\ References(m)' = References(m)
    BY NoneMore DEF Known, Counted, Count
  <2> QED BY <1>1, <2>1 DEF OwnersInv, CountInv
<1>3. TestInv' /\ FreedByLastOwner' /\ FreedTwiceOnlyByRace'
  BY DEF OwnersInv, TestInv, FreedByLastOwner, FreedTwiceOnlyByRace, Known, Counted, Holds
<1> QED BY <1>2, <1>3 DEF OwnersInv

\* A new message has one owner, and its count says so if it says anything.
LEMMA OwnersJoin ==
    ASSUME TypeOK, OwnersInv, NEW t \in Threads, NEW h \in Messages, h.frees = 0,
           h.counted => h.count = 1, Joins(t, h), testing' = testing, raced' = raced
    PROVE  OwnersInv'
<1>0. PICK new \in Nat : new = Len(messages) + 1
  BY Domains
<1>1. /\ DOMAIN messages' = DOMAIN messages \cup {new} /\ new \notin DOMAIN messages
      /\ new \in Handles /\ DOMAIN messages \subseteq Handles
      /\ \A m \in DOMAIN messages : messages'[m] = messages[m]
      /\ messages'[new] = h /\ held'[t][new] = 1
      /\ \A u \in Threads, m \in Handles : u # t \/ m # new => held'[u][m] = held[u][m]
  BY <1>0, Domains DEF Joins, Made
<1>2. \A u \in Threads : held[u][new] = 0
  BY <1>1 DEF OwnersInv, CountInv
<1>3. IsFiniteSet(Tokens(new)) /\ References(new) = 0
  BY <1>2, NobodyHolds
<1>4. IsFiniteSet(Tokens(new)') /\ References(new)' = 1
  <2>1. held'[t][new] = held[t][new] + 1
    BY <1>1, <1>2
  <2>2. \A u \in Threads \ {t} : held'[u][new] = held[u][new]
    BY <1>1
  <2>3. IsFiniteSet(Tokens(new)') /\ References(new)' = References(new) + 1
    BY <1>1, <1>3, <2>1, <2>2, OneMore
  <2>4. References(new) = 0
    BY <1>3
  <2>5. References(new)' = 1
    BY <2>3, <2>4
  <2> QED BY <2>3, <2>5
<1>5. ASSUME NEW m \in Handles, m # new
      PROVE  Tokens(m)' = Tokens(m) /\ References(m)' = References(m)
  <2>1. \A u \in Threads : held'[u][m] = held[u][m]
    BY <1>1, <1>5
  <2> QED BY <2>1, NoneMore
<1>6. /\ Known' = Known \cup {m \in {new} : h.counted} /\ new \notin Known
      /\ Known \subseteq DOMAIN messages /\ Known \subseteq Handles
      /\ Count(new)' = h.count /\ (\A m \in Known : Count(m)' = Count(m))
  BY <1>1 DEF Known, Counted, Count
<1>7. CountInv'
  <2>1. \A m \in Handles : IsFiniteSet(Tokens(m)')
    BY <1>4, <1>5 DEF OwnersInv, CountInv
  <2>2. ASSUME NEW m \in Known' PROVE Count(m)' = References(m)'
    <3>1. CASE m = new  BY <1>4, <1>6, <2>2, <3>1
    <3>2. CASE m # new  BY <1>5, <1>6, <2>2, <3>2 DEF OwnersInv, CountInv
    <3> QED BY <3>1, <3>2
  <2>3. ASSUME NEW m \in Handles \ DOMAIN messages', NEW u \in Threads
        PROVE  held'[u][m] = 0
    <3>1. m # new /\ m \in Handles \ DOMAIN messages
      BY <1>1
    <3>2. held[u][m] = 0
      BY <3>1 DEF OwnersInv, CountInv
    <3> QED BY <1>1, <3>1, <3>2
  <2> QED BY <2>1, <2>2, <2>3 DEF CountInv
<1>8. \A u \in Threads : testing[u] # new
  BY <1>0, <1>1 DEF OwnersInv, TestInv
<1>9. TestInv'
  <2>1. \A u \in Threads : testing'[u] # 0 =>
            testing'[u] \in DOMAIN messages' /\ ~messages'[testing'[u]].item
    BY <1>1 DEF OwnersInv, TestInv
  <2>2. ASSUME NEW u \in Threads, NEW m \in Known', testing'[u] = m, messages'[m].frees > 0
        PROVE  m \in raced'
    BY <1>1, <1>6, <1>8, <2>2 DEF OwnersInv, TestInv
  <2>3. \A u, v \in Threads : u # v /\ testing'[u] = testing'[v] /\ testing'[u] # 0 =>
            testing'[u] \in raced'
    BY DEF OwnersInv, TestInv
  <2> QED BY <2>1, <2>2, <2>3 DEF TestInv
<1>10. ASSUME NEW m \in Known'
       PROVE  /\ messages'[m].frees > 0 => \A u \in Threads : ~Holds(u, m)'
              /\ messages'[m].frees = 0 => \E u \in Threads : Holds(u, m)' \/ testing'[u] = m
              /\ messages'[m].frees > 1 => m \in raced'
  <2>1. CASE m = new
    <3>1. messages'[m].frees = 0 /\ Holds(t, m)'
      BY <1>1, <2>1 DEF Holds
    <3> QED BY <3>1
  <2>2. CASE m # new
    <3>1. m \in Known /\ messages'[m] = messages[m] /\ \A u \in Threads : Holds(u, m)' <=> Holds(u, m)
      BY <1>1, <1>6, <1>10, <2>2 DEF Holds
    <3> QED BY <3>1 DEF OwnersInv, FreedByLastOwner, FreedTwiceOnlyByRace
  <2> QED BY <2>1, <2>2
<1> QED BY <1>7, <1>9, <1>10 DEF OwnersInv, FreedByLastOwner, FreedTwiceOnlyByRace

\* A message nobody has, and nothing is known of, changes nothing.
LEMMA OwnersAside ==
    ASSUME TypeOK, OwnersInv, NEW h, Made(h), ~h.counted,
           held' = held, testing' = testing, raced' = raced
    PROVE  OwnersInv'
<1>0. PICK new \in Nat : new = Len(messages) + 1
  BY Domains
<1>1. /\ DOMAIN messages' = DOMAIN messages \cup {new} /\ new \notin DOMAIN messages
      /\ DOMAIN messages \subseteq Handles
      /\ \A m \in DOMAIN messages : messages'[m] = messages[m]
      /\ messages'[new] = h
  BY <1>0, Domains DEF Made
<1>2. \A m \in Handles : Tokens(m)' = Tokens(m) /\ References(m)' = References(m)
  BY NoneMore
<1>3. /\ Known' = Known /\ Known \subseteq DOMAIN messages
      /\ \A m \in Known : Count(m)' = Count(m) /\ messages'[m] = messages[m]
  BY <1>1 DEF Known, Counted, Count
<1>4. CountInv'
  BY <1>1, <1>2, <1>3 DEF OwnersInv, CountInv
<1>5. \A t \in Threads : testing[t] # 0 =>
        messages'[testing[t]] = messages[testing[t]] /\ testing[t] \in DOMAIN messages'
  BY <1>1 DEF OwnersInv, TestInv
<1>6. TestInv'
  BY <1>1, <1>3, <1>5 DEF OwnersInv, TestInv
<1>7. FreedByLastOwner' /\ FreedTwiceOnlyByRace'
  BY <1>3 DEF OwnersInv, FreedByLastOwner, FreedTwiceOnlyByRace, Holds
<1> QED BY <1>4, <1>6, <1>7 DEF OwnersInv

\* Who retains has a reference, so that the message is not freed.
LEMMA RetainOwners ==
    ASSUME TypeOK, OwnersInv, NEW t \in Threads, NEW p \in Handles, Retain(t, p)
    PROVE  /\ OwnersInv'
           /\ messages' \in Seq(Messages) /\ Len(messages') = Len(messages)
           /\ DOMAIN messages' = DOMAIN messages
           /\ \A m \in DOMAIN messages : /\ messages'[m].json = messages[m].json
                                         /\ messages'[m].item = messages[m].item
                                         /\ messages'[m].frees = messages[m].frees
<1>1. /\ p \in DOMAIN messages /\ held[t][p] > 0 /\ messages[p].frees = 0
      /\ messages' = [messages EXCEPT ![p] = [messages[p] EXCEPT !.count = messages[p].count + 1]]
      /\ testing' = testing /\ raced' = raced
  BY DEF Retain, Uses, Holds
<1>2. [messages[p] EXCEPT !.count = messages[p].count + 1] \in Messages
  BY <1>1, Domains, SMTT(40) DEF Messages
<1>3. messages' \in Seq(Messages) /\ Len(messages') = Len(messages)
  BY <1>1, <1>2, ExceptSeq DEF TypeOK
<1>4. DOMAIN messages' = DOMAIN messages
  BY <1>1
<1>5. \A m \in DOMAIN messages : /\ messages'[m].json = messages[m].json
                                 /\ messages'[m].item = messages[m].item
                                 /\ messages'[m].frees = messages[m].frees
                                 /\ messages'[m].counted = messages[m].counted
                                 /\ messages'[m].count =
                                      IF m = p THEN messages[m].count + 1 ELSE messages[m].count
  BY <1>1, Domains DEF Messages
<1>6. /\ held'[t][p] = held[t][p] + 1
      /\ \A u \in Threads \ {t} : held'[u][p] = held[u][p]
      /\ \A m \in Handles \ {p} : \A u \in Threads : held'[u][m] = held[u][m]
  BY DEF Retain, TypeOK
<1>7. IsFiniteSet(Tokens(p)') /\ References(p)' = References(p) + 1
  BY <1>6, OneMore DEF OwnersInv, CountInv
<1>8. \A m \in Handles \ {p} : Tokens(m)' = Tokens(m) /\ References(m)' = References(m)
  BY <1>6, NoneMore
<1>9. Known' = Known /\ Known \subseteq Handles /\ Known \subseteq DOMAIN messages
  BY <1>4, <1>5, Domains DEF Known, Counted
<1>10. CountInv'
  <2>1. \A m \in Handles : IsFiniteSet(Tokens(m)')
    BY <1>7, <1>8 DEF OwnersInv, CountInv
  <2>2. ASSUME NEW m \in Known' PROVE Count(m)' = References(m)'
    <3>1. m \in Known /\ Count(m) = References(m)
      BY <1>9, <2>2 DEF OwnersInv, CountInv
    <3>2. CASE m = p
      <4>1. Count(m)' = Count(m) + 1
        BY <1>5, <1>9, <3>1, <3>2 DEF Count
      <4> QED BY <1>7, <3>1, <3>2, <4>1
    <3>3. CASE m # p
      <4>1. Count(m)' = Count(m)
        BY <1>5, <1>9, <3>1, <3>3 DEF Count
      <4> QED BY <1>8, <1>9, <3>1, <3>3, <4>1
    <3> QED BY <3>2, <3>3
  <2>3. \A m \in Handles \ DOMAIN messages', u \in Threads : held'[u][m] = 0
    BY <1>1, <1>4, <1>6 DEF OwnersInv, CountInv
  <2> QED BY <2>1, <2>2, <2>3 DEF CountInv
<1>11. TestInv'
  BY <1>1, <1>4, <1>5, <1>9 DEF OwnersInv, TestInv
<1>12. FreedByLastOwner'
  <2>1. ASSUME NEW m \in Known'
        PROVE  /\ messages'[m].frees > 0 => \A u \in Threads : ~Holds(u, m)'
               /\ messages'[m].frees = 0 => \E u \in Threads : Holds(u, m)' \/ testing'[u] = m
    <3>1. CASE m = p
      <4>1. held[t][p] \in Nat
        BY DEF TypeOK
      <4>2. messages'[p].frees = 0
        BY <1>1, <1>5
      <4>3. Holds(t, p)'
        BY <1>6, <4>1 DEF Holds
      <4> QED BY <3>1, <4>2, <4>3
    <3>2. CASE m # p
      <4>1. \A u \in Threads : Holds(u, m)' <=> Holds(u, m)
        BY <1>6, <1>9, <2>1, <3>2 DEF Holds
      <4> QED BY <1>1, <1>5, <1>9, <2>1, <4>1 DEF OwnersInv, FreedByLastOwner
    <3> QED BY <3>1, <3>2
  <2> QED BY <2>1 DEF FreedByLastOwner
<1>13. FreedTwiceOnlyByRace'
  BY <1>1, <1>5, <1>9 DEF OwnersInv, FreedTwiceOnlyByRace
<1> QED BY <1>3, <1>4, <1>5, <1>10, <1>11, <1>12, <1>13 DEF OwnersInv

LEMMA HandOverOwners ==
    ASSUME TypeOK, OwnersInv, NEW t \in Threads, NEW v \in Threads, NEW p \in Handles,
           HandOver(t, v, p)
    PROVE  OwnersInv'
<1>1. /\ p \in DOMAIN messages /\ held[t][p] > 0 /\ messages[p].frees = 0 /\ t # v
      /\ messages' = messages /\ testing' = testing /\ raced' = raced
  BY DEF HandOver, Uses, Holds
<1>2. /\ held'[t][p] = held[t][p] - 1 /\ held'[v][p] = held[v][p] + 1
      /\ \A u \in Threads \ {t, v} : held'[u][p] = held[u][p]
      /\ \A m \in Handles \ {p} : \A u \in Threads : held'[u][m] = held[u][m]
  BY <1>1 DEF HandOver, TypeOK
<1>3. IsFiniteSet(Tokens(p)') /\ References(p)' = References(p)
  BY <1>1, <1>2, OnePassedOn DEF OwnersInv, CountInv
<1>4. \A m \in Handles \ {p} : Tokens(m)' = Tokens(m) /\ References(m)' = References(m)
  BY <1>2, NoneMore
<1>5. Known' = Known /\ Known \subseteq Handles /\ \A m \in Known : Count(m)' = Count(m)
  BY <1>1, Domains DEF Known, Counted, Count
<1>6. CountInv'
  <2>1. \A m \in Handles : IsFiniteSet(Tokens(m)') /\ References(m)' = References(m)
    BY <1>3, <1>4 DEF OwnersInv, CountInv
  <2>2. \A m \in Known' : Count(m)' = References(m)'
    BY <1>5, <2>1 DEF OwnersInv, CountInv
  <2>3. \A m \in Handles \ DOMAIN messages', u \in Threads : held'[u][m] = 0
    BY <1>1, <1>2 DEF OwnersInv, CountInv
  <2> QED BY <2>1, <2>2, <2>3 DEF CountInv
<1>7. TestInv'
  BY <1>1, <1>5 DEF OwnersInv, TestInv
<1>8. ASSUME NEW m \in Known'
      PROVE  /\ messages'[m].frees > 0 => \A u \in Threads : ~Holds(u, m)'
             /\ messages'[m].frees = 0 => \E u \in Threads : Holds(u, m)' \/ testing'[u] = m
  <2>1. CASE m = p
    <3>1. held[v][p] \in Nat
      BY DEF TypeOK
    <3>2. Holds(v, p)'
      BY <1>2, <3>1 DEF Holds
    <3> QED BY <1>1, <2>1, <3>2
  <2>2. CASE m # p
    <3>1. \A u \in Threads : Holds(u, m)' <=> Holds(u, m)
      BY <1>2, <1>5, <1>8, <2>2 DEF Holds
    <3> QED BY <1>1, <1>5, <1>8, <3>1 DEF OwnersInv, FreedByLastOwner
  <2> QED BY <2>1, <2>2
<1>9. FreedTwiceOnlyByRace'
  BY <1>1, <1>5 DEF OwnersInv, FreedTwiceOnlyByRace
<1> QED BY <1>6, <1>7, <1>8, <1>9 DEF OwnersInv, FreedByLastOwner

\* Who lets go is about to test.  If somebody else is too, it is a race.
LEMMA DecrementOwners ==
    ASSUME TypeOK, OwnersInv, NEW t \in Threads, NEW p \in Handles, Decrement(t, p)
    PROVE  /\ OwnersInv'
           /\ messages' \in Seq(Messages) /\ Len(messages') = Len(messages)
           /\ DOMAIN messages' = DOMAIN messages
           /\ \A m \in DOMAIN messages : /\ messages'[m].json = messages[m].json
                                         /\ messages'[m].item = messages[m].item
                                         /\ messages'[m].frees = messages[m].frees
<1>1. /\ p \in DOMAIN messages /\ held[t][p] > 0 /\ ~messages[p].item /\ testing[t] = 0
      /\ messages' = [messages EXCEPT ![p] = [messages[p] EXCEPT !.count = messages[p].count - 1]]
      /\ raced' = IF \E u \in Threads : testing[u] = p THEN raced \cup {p} ELSE raced
  BY DEF Decrement, Holds
<1>2. [messages[p] EXCEPT !.count = messages[p].count - 1] \in Messages
  BY <1>1, Domains, SMTT(40) DEF Messages
<1>3. messages' \in Seq(Messages) /\ Len(messages') = Len(messages)
  BY <1>1, <1>2, ExceptSeq DEF TypeOK
<1>4. DOMAIN messages' = DOMAIN messages
  BY <1>1
<1>5. \A m \in DOMAIN messages : /\ messages'[m].json = messages[m].json
                                 /\ messages'[m].item = messages[m].item
                                 /\ messages'[m].frees = messages[m].frees
                                 /\ messages'[m].counted = messages[m].counted
                                 /\ messages'[m].count =
                                      IF m = p THEN messages[m].count - 1 ELSE messages[m].count
  BY <1>1, Domains DEF Messages
<1>6. /\ held'[t][p] = held[t][p] - 1
      /\ \A u \in Threads \ {t} : held'[u][p] = held[u][p]
      /\ \A m \in Handles \ {p} : \A u \in Threads : held'[u][m] = held[u][m]
      /\ testing'[t] = p /\ \A u \in Threads \ {t} : testing'[u] = testing[u]
  BY DEF Decrement, TypeOK
<1>7. IsFiniteSet(Tokens(p)') /\ References(p)' = References(p) - 1
  BY <1>1, <1>6, OneLess DEF OwnersInv, CountInv
<1>8. \A m \in Handles \ {p} : Tokens(m)' = Tokens(m) /\ References(m)' = References(m)
  BY <1>6, NoneMore
<1>9. Known' = Known /\ Known \subseteq Handles /\ Known \subseteq DOMAIN messages
  BY <1>4, <1>5, Domains DEF Known, Counted
<1>10. CountInv'
  <2>1. \A m \in Handles : IsFiniteSet(Tokens(m)')
    BY <1>7, <1>8 DEF OwnersInv, CountInv
  <2>2. ASSUME NEW m \in Known' PROVE Count(m)' = References(m)'
    <3>1. m \in Known /\ Count(m) = References(m)
      BY <1>9, <2>2 DEF OwnersInv, CountInv
    <3>2. CASE m = p
      <4>1. Count(m)' = Count(m) - 1
        BY <1>5, <1>9, <3>1, <3>2 DEF Count
      <4> QED BY <1>7, <3>1, <3>2, <4>1
    <3>3. CASE m # p
      <4>1. Count(m)' = Count(m)
        BY <1>5, <1>9, <3>1, <3>3 DEF Count
      <4> QED BY <1>8, <1>9, <3>1, <3>3, <4>1
    <3> QED BY <3>2, <3>3
  <2>3. \A m \in Handles \ DOMAIN messages', u \in Threads : held'[u][m] = 0
    BY <1>1, <1>4, <1>6 DEF OwnersInv, CountInv
  <2> QED BY <2>1, <2>2, <2>3 DEF CountInv
<1>11. p \in Known => messages[p].frees = 0
  <2>1. messages[p].frees \in Nat
    BY <1>1, Domains DEF Messages
  <2> QED BY <1>1, <2>1 DEF OwnersInv, FreedByLastOwner, Holds
<1>12. TestInv'
  <2>1. ASSUME NEW u \in Threads, testing'[u] # 0
        PROVE  testing'[u] \in DOMAIN messages' /\ ~messages'[testing'[u]].item
    <3>1. CASE u = t  BY <1>1, <1>4, <1>5, <1>6, <3>1
    <3>2. CASE u # t  BY <1>4, <1>5, <1>6, <2>1, <3>2 DEF OwnersInv, TestInv
    <3> QED BY <3>1, <3>2
  <2>2. ASSUME NEW u \in Threads, NEW v \in Threads, u # v,
               testing'[u] = testing'[v], testing'[u] # 0
        PROVE  testing'[u] \in raced'
    <3>1. CASE u = t \/ v = t  BY <1>1, <1>6, <2>2, <3>1
    <3>2. CASE u # t /\ v # t  BY <1>1, <1>6, <2>2, <3>2 DEF OwnersInv, TestInv
    <3> QED BY <3>1, <3>2
  <2>3. ASSUME NEW u \in Threads, NEW m \in Known', testing'[u] = m, messages'[m].frees > 0
        PROVE  m \in raced'
    <3>1. m \in Known /\ messages[m].frees > 0
      BY <1>5, <1>9, <2>3
    <3>2. u # t
      BY <1>6, <1>11, <2>3, <3>1
    <3> QED BY <1>1, <1>6, <2>3, <3>1, <3>2 DEF OwnersInv, TestInv
  <2> QED BY <2>1, <2>2, <2>3 DEF TestInv
<1>13. FreedByLastOwner'
  <2>1. ASSUME NEW m \in Known'
        PROVE  /\ messages'[m].frees > 0 => \A u \in Threads : ~Holds(u, m)'
               /\ messages'[m].frees = 0 => \E u \in Threads : Holds(u, m)' \/ testing'[u] = m
    <3>1. CASE m = p
      BY <1>5, <1>6, <1>9, <1>11, <2>1, <3>1
    <3>2. CASE m # p
      <4>1. \A u \in Threads : Holds(u, m)' <=> Holds(u, m)
        BY <1>6, <1>9, <2>1, <3>2 DEF Holds
      <4>2. \A u \in Threads : testing[u] = m => testing'[u] = m
        <5>1. m # 0
          BY <1>9, <2>1 DEF Handles
        <5> QED BY <1>1, <1>6, <5>1
      <4> QED BY <1>5, <1>9, <2>1, <4>1, <4>2 DEF OwnersInv, FreedByLastOwner
    <3> QED BY <3>1, <3>2
  <2> QED BY <2>1 DEF FreedByLastOwner
<1>14. FreedTwiceOnlyByRace'
  BY <1>1, <1>5, <1>9 DEF OwnersInv, FreedTwiceOnlyByRace
<1> QED BY <1>3, <1>4, <1>5, <1>10, <1>12, <1>13, <1>14 DEF OwnersInv

\* Whoever finds zero frees a message without owners; who does not, leaves it to
\* those that are left.
LEMMA TestOwners ==
    ASSUME TypeOK, OwnersInv, NEW t \in Threads, TestAndDestroy(t)
    PROVE  /\ OwnersInv'
           /\ messages' \in Seq(Messages) /\ Len(messages') = Len(messages)
<1>1. PICK p \in DOMAIN messages : testing[t] = p /\ ~messages[p].item
  BY DEF TestAndDestroy, OwnersInv, TestInv
<1>2. /\ p \in Handles /\ p # 0 /\ messages[p] \in Messages
      /\ DOMAIN messages \subseteq Handles
  BY <1>1, Domains DEF Handles
<1>3. /\ held' = held /\ raced' = raced
      /\ testing'[t] = 0 /\ \A u \in Threads \ {t} : testing'[u] = testing[u]
  BY DEF TestAndDestroy, TypeOK
<1>4. \A m \in Handles : /\ Tokens(m)' = Tokens(m) /\ References(m)' = References(m)
                         /\ \A u \in Threads : Holds(u, m)' <=> Holds(u, m)
  BY <1>3, NoneMore DEF Holds
<1>5. \/ Count(p) = 0 /\ Destroyed(p)
      \/ (Count(p) # 0 \/ messages[p].frees > 0) /\ messages' = messages
  BY <1>1 DEF TestAndDestroy, FindsZero
<1>6. /\ messages' \in Seq(Messages) /\ Len(messages') = Len(messages)
      /\ DOMAIN messages' = DOMAIN messages
      /\ \A m \in DOMAIN messages : /\ messages'[m].item = messages[m].item
                                    /\ messages'[m].counted = messages[m].counted
                                    /\ messages'[m].count = messages[m].count
      /\ \A m \in DOMAIN messages \ {p} : messages'[m].frees = messages[m].frees
      /\ \/ Count(p) = 0 /\ messages'[p].frees = messages[p].frees + 1
         \/ (Count(p) # 0 \/ messages[p].frees > 0) /\ messages'[p].frees = messages[p].frees
  <2>1. CASE Count(p) = 0 /\ Destroyed(p)
    <3>1. messages' = [messages EXCEPT ![p] = [messages[p] EXCEPT !.frees = messages[p].frees + 1]]
      BY <2>1 DEF Destroyed
    <3>2. [messages[p] EXCEPT !.frees = messages[p].frees + 1] \in Messages
      BY <1>2 DEF Messages
    <3>3. messages' \in Seq(Messages) /\ Len(messages') = Len(messages)
      BY <3>1, <3>2, ExceptSeq DEF TypeOK
    <3> QED BY <2>1, <3>1, <3>3, Domains DEF Messages
  <2>2. CASE (Count(p) # 0 \/ messages[p].frees > 0) /\ messages' = messages
    BY <2>2 DEF TypeOK
  <2> QED BY <1>5, <2>1, <2>2
<1>7. Known' = Known /\ Known \subseteq DOMAIN messages /\ \A m \in Known : Count(m)' = Count(m)
  BY <1>6 DEF Known, Counted, Count
<1>8. CountInv'
  BY <1>2, <1>3, <1>4, <1>6, <1>7 DEF OwnersInv, CountInv
<1>9. \A u \in Threads \ {t} : testing[u] = p => p \in raced
  BY <1>1, <1>2 DEF OwnersInv, TestInv
<1>10. p \in Known /\ messages[p].frees > 0 => p \in raced
  BY <1>1 DEF OwnersInv, TestInv
<1>11. TestInv'
  <2>1. ASSUME NEW u \in Threads, testing'[u] # 0
        PROVE  testing'[u] \in DOMAIN messages' /\ ~messages'[testing'[u]].item
    BY <1>3, <1>6, <2>1 DEF OwnersInv, TestInv
  <2>2. ASSUME NEW u \in Threads, NEW v \in Threads, u # v,
               testing'[u] = testing'[v], testing'[u] # 0
        PROVE  testing'[u] \in raced'
    BY <1>3, <2>2 DEF OwnersInv, TestInv
  <2>3. ASSUME NEW u \in Threads, NEW m \in Known', testing'[u] = m, messages'[m].frees > 0
        PROVE  m \in raced'
    <3>1. u # t /\ testing[u] = m /\ m \in Known
      BY <1>2, <1>3, <1>7, <2>3 DEF Handles
    <3>2. CASE m = p  BY <1>3, <1>9, <3>1, <3>2
    <3>3. CASE m # p  BY <1>3, <1>6, <1>7, <2>3, <3>1, <3>3 DEF OwnersInv, TestInv
    <3> QED BY <3>2, <3>3
  <2> QED BY <2>1, <2>2, <2>3 DEF TestInv
<1>12. FreedByLastOwner'
  <2>1. ASSUME NEW m \in Known'
        PROVE  /\ messages'[m].frees > 0 => \A u \in Threads : ~Holds(u, m)'
               /\ messages'[m].frees = 0 => \E u \in Threads : Holds(u, m)' \/ testing'[u] = m
    <3>1. /\ m \in Known /\ m \in Handles /\ messages[m].frees \in Nat
          /\ messages[m].frees > 0 => \A u \in Threads : ~Holds(u, m)
          /\ messages[m].frees = 0 => \E u \in Threads : Holds(u, m) \/ testing[u] = m
          /\ Count(m) \in Nat /\ (Count(m) > 0 <=> \E u \in Threads : Holds(u, m))
      BY <1>2, <1>7, <2>1, Domains, HolderCounts DEF OwnersInv, FreedByLastOwner, Messages
    <3>2. CASE m = p
      BY <1>4, <1>6, <3>1, <3>2
    <3>3. CASE m # p
      BY <1>1, <1>3, <1>4, <1>6, <1>7, <3>1, <3>3
    <3> QED BY <3>2, <3>3
  <2> QED BY <2>1 DEF FreedByLastOwner
<1>13. FreedTwiceOnlyByRace'
  <2>1. ASSUME NEW m \in Known', messages'[m].frees > 1 PROVE m \in raced'
    <3>1. m \in Known /\ messages[m].frees \in Nat
      BY <1>7, <2>1, Domains DEF Messages
    <3>2. CASE m = p
      BY <1>3, <1>6, <1>10, <2>1, <3>1, <3>2 DEF OwnersInv, FreedTwiceOnlyByRace
    <3>3. CASE m # p
      BY <1>3, <1>6, <1>7, <2>1, <3>1, <3>3 DEF OwnersInv, FreedTwiceOnlyByRace
    <3> QED BY <3>2, <3>3
  <2> QED BY <2>1 DEF FreedTwiceOnlyByRace
<1> QED BY <1>6, <1>8, <1>11, <1>12, <1>13 DEF OwnersInv

-----------------------------------------------------------------------------
(***************************************************************************)
(* The invariant.                                                          *)
(***************************************************************************)
LEMMA InitIInv == Init => IInv
<1> SUFFICES ASSUME Init PROVE IInv
  OBVIOUS
<1>1. /\ messages = <<>> /\ nodes = <<>> /\ DOMAIN messages = {} /\ DOMAIN nodes = {}
      /\ Len(messages) = 0 /\ Len(nodes) = 0
      /\ messages \in Seq(Messages) /\ nodes \in Seq(Nodes)
  <2>1. messages = <<>> /\ nodes = <<>>
    BY DEF Init
  <2> QED BY <2>1, EmptySeq
<1>2. TypeOK
  BY <1>1, MessageAssumption DEF Init, TypeOK, Handles
<1>3. \A m \in Handles : IsFiniteSet(Tokens(m))
  <2>1. \A m \in Handles, t \in Threads : held[t][m] = 0
    BY DEF Init
  <2> QED BY <2>1, NobodyHolds
<1>4. CountInv
  BY <1>1, <1>3 DEF CountInv, Known, Init
<1>5. TestInv
  BY <1>1 DEF TestInv, Known, Init
<1>6. TreeInv /\ FreedByLastOwner /\ FreedTwiceOnlyByRace /\ TreesFollowMessages
  BY <1>1 DEF TreeInv, FreedByLastOwner, FreedTwiceOnlyByRace, TreesFollowMessages, Known
<1> QED BY <1>2, <1>4, <1>5, <1>6 DEF IInv

\* A new message, by whichever call.
LEMMA JoinIInv ==
    ASSUME IInv, NEW t \in Threads, NEW h \in Messages, h.frees = 0, h.counted => h.count = 1,
           Allocate(t, h), testing' = testing, raced' = raced,
           NEW r, Grows(r), nodes' \in Seq(Nodes), Len(nodes') <= MaxNodes,
           \/ ~h.item /\ h.json = NULL /\ nodes' = nodes
           \/ ~h.item /\ h.json = Len(nodes) + 1 /\ r = h.json /\ Len(nodes') > Len(nodes)
           \/ h.item /\ h.json \in DOMAIN nodes /\ nodes[h.json].under # NULL /\ nodes' = nodes
    PROVE  IInv'
<1>1. /\ messages' \in Seq(Messages) /\ Len(messages') <= MaxMessages
      /\ held' \in [Threads -> [Handles -> Nat]] /\ Joins(t, h)
  BY Allocated DEF IInv
<1>2. TypeOK'
  BY <1>1 DEF IInv, TypeOK
<1>3. DOMAIN nodes' = 1 .. Len(nodes')
  BY LenProperties
<1>4. TreeInv' /\ TreesFollowMessages'
  BY <1>1, <1>3, TreesJoin DEF IInv, Joins
<1>5. OwnersInv'
  BY <1>1, OwnersJoin DEF IInv, OwnersInv
<1> QED BY <1>2, <1>4, <1>5 DEF IInv, OwnersInv

\* A field more, by whichever call.
LEMMA FieldIInv ==
    ASSUME IInv, NEW p \in DOMAIN messages, messages[p].frees = 0, messages[p].json # NULL,
           RoomFor(1), nodes' = Append(nodes, NodeUnder(messages[p].json)),
           UNCHANGED <<messages, held, testing, raced>>
    PROVE  IInv'
<1>1. PICK r \in 1 .. Len(nodes) : r = messages[p].json
  BY Domains DEF IInv, TreeInv, Root, Messages, NULL
<1>2. r \in 0 .. Len(nodes) + 1 /\ r # Len(nodes) + 1 /\ Len(nodes) \in Nat
  BY <1>1, Domains DEF IInv
<1>3. /\ nodes' \in Seq(Nodes) /\ Len(nodes') = Len(nodes) + 1
      /\ Len(nodes') <= MaxNodes /\ Grows(r)
  BY <1>1, <1>2, OneNodeMore DEF IInv
<1>4. DOMAIN nodes' = 1 .. Len(nodes') /\ Len(nodes') \in Nat
  BY <1>2, <1>3, LenProperties
<1>5. TreeInv' /\ TreesFollowMessages'
  BY <1>1, <1>3, <1>4, TreesField DEF IInv, Root
<1>6. OwnersInv'
  BY OwnersKept DEF IInv, OwnersInv
<1>7. TypeOK'
  BY <1>3 DEF IInv, TypeOK
<1> QED BY <1>5, <1>6, <1>7 DEF IInv, OwnersInv

LEMMA StutterIInv == IInv /\ UNCHANGED vars => IInv'
<1> SUFFICES ASSUME IInv, UNCHANGED vars PROVE IInv'
  OBVIOUS
<1>1. OwnersInv'
  BY OwnersKept DEF IInv, OwnersInv, vars
<1>2. TreeInv' /\ TreesFollowMessages'
  BY TreesKept DEF IInv, vars
<1>3. TypeOK'
  BY DEF IInv, TypeOK, vars
<1> QED BY <1>1, <1>2, <1>3 DEF IInv, OwnersInv

\* A root of its own for the message: Create, GetMessage, FromBytes of JSON.
LEMMA NewRootIInv ==
    ASSUME IInv, NEW t \in Threads, RoomFor(1), NEW h \in Messages,
           h.json = Len(nodes) + 1, ~h.item, h.frees = 0, h.counted => h.count = 1,
           Allocate(t, h),
           nodes' = Append(nodes, NodeUnder(NULL)), testing' = testing, raced' = raced
    PROVE  IInv'
<1>1. PICK r \in 1 .. MaxNodes : r = Len(nodes) + 1
  BY Domains DEF IInv, RoomFor
<1>2. Len(nodes) \in Nat
  BY Domains DEF IInv
<1>3. /\ nodes' \in Seq(Nodes) /\ Len(nodes') = Len(nodes) + 1
      /\ Len(nodes') <= MaxNodes /\ Grows(r)
  BY <1>1, <1>2, OneNodeMore DEF IInv
<1>4. h.json = Len(nodes) + 1 /\ r = h.json /\ Len(nodes') > Len(nodes)
  BY <1>1, <1>2, <1>3
<1> QED BY <1>3, <1>4, JoinIInv

LEMMA CreateIInv ==
    ASSUME IInv, NEW t \in Threads, Create(t) \/ \E m \in Handles : GetMessage(t, m)
    PROVE  IInv'
<1>1. PICK r \in 1 .. MaxNodes : r = Len(nodes) + 1
  <2>1. RoomFor(1)
    BY DEF Create, GetMessage
  <2> QED BY <2>1, Domains DEF IInv, RoomFor
<1> DEFINE h == Handle(1, TRUE, r, FALSE)
<1>2. /\ RoomFor(1) /\ Allocate(t, h) /\ nodes' = Append(nodes, NodeUnder(NULL))
      /\ testing' = testing /\ raced' = raced
  BY <1>1 DEF Create, GetMessage
<1>3. /\ h \in Messages /\ h.json = r /\ ~h.item /\ h.frees = 0 /\ (h.counted => h.count = 1)
  BY DEF Handle, Messages
<1> HIDE DEF h
<1> QED BY <1>1, <1>2, <1>3, NewRootIInv

LEMMA FromBytesIInv == ASSUME IInv, NEW t \in Threads, FromBytes(t) PROVE IInv'
<1>1. PICK count \in Rubbish, json \in {NULL, Len(nodes) + 1} :
        /\ json # NULL => RoomFor(1)
        /\ Allocate(t, Handle(count, FALSE, json, FALSE))
        /\ nodes' = IF json = NULL THEN nodes ELSE Append(nodes, NodeUnder(NULL))
  BY DEF FromBytes
<1>2. count \in Int /\ testing' = testing /\ raced' = raced /\ Len(nodes) \in Nat /\ MaxNodes \in Nat
  BY Domains, MessageAssumption DEF FromBytes, IInv
<1>3. json \in 0 .. MaxNodes
  BY <1>1, <1>2 DEF RoomFor, NULL
<1> DEFINE h == Handle(count, FALSE, json, FALSE)
<1>4. h \in Messages /\ h.json = json /\ ~h.item /\ h.frees = 0 /\ ~h.counted
  BY <1>2, <1>3 DEF Handle, Messages
<1>5. Allocate(t, h)
  BY <1>1
<1> HIDE DEF h
<1>6. CASE json = NULL
  <2>1. nodes' = nodes /\ Grows(NULL) /\ nodes' \in Seq(Nodes) /\ Len(nodes') <= MaxNodes
    BY <1>1, <1>6, NothingGrows DEF IInv, TypeOK
  <2> QED BY <1>2, <1>4, <1>5, <1>6, <2>1, JoinIInv
<1>7. CASE json # NULL
  <2>1. json = Len(nodes) + 1 /\ RoomFor(1) /\ nodes' = Append(nodes, NodeUnder(NULL))
    BY <1>1, <1>7
  <2> QED BY <1>2, <1>4, <1>5, <2>1, NewRootIInv
<1> QED BY <1>6, <1>7

LEMMA GetMessageItemIInv ==
    ASSUME IInv, NEW t \in Threads, NEW m \in Handles, GetMessageItem(t, m) PROVE IInv'
<1>1. PICK count \in Rubbish, n \in Fields(m) : Allocate(t, Handle(count, FALSE, n, TRUE))
  BY DEF GetMessageItem
<1>2. count \in Int /\ n \in DOMAIN nodes /\ nodes[n].under # NULL /\ n \in 0 .. MaxNodes
  BY Domains, MessageAssumption DEF IInv, Fields
<1> DEFINE h == Handle(count, FALSE, n, TRUE)
<1>3. h \in Messages /\ h.json = n /\ h.item /\ h.frees = 0 /\ ~h.counted
  BY <1>2 DEF Handle, Messages
<1>4. Allocate(t, h)
  BY <1>1
<1> HIDE DEF h
<1>5. nodes' = nodes /\ testing' = testing /\ raced' = raced
      /\ Grows(NULL) /\ nodes' \in Seq(Nodes) /\ Len(nodes') <= MaxNodes
  BY NothingGrows DEF GetMessageItem, IInv, TypeOK
<1> QED BY <1>2, <1>3, <1>4, <1>5, JoinIInv

LEMMA GetMissingIInv ==
    ASSUME IInv, NEW t \in Threads, NEW m \in Handles, GetMissing(t, m) PROVE IInv'
<1>1. PICK count \in Rubbish : messages' = Append(messages, Handle(count, FALSE, NULL, FALSE))
  BY DEF GetMissing
<1>2. PICK h : h = Handle(count, FALSE, NULL, FALSE)
  OBVIOUS
<1>3. h \in Messages /\ h.json = NULL /\ ~h.item /\ h.frees = 0 /\ ~h.counted
  <2>1. count \in Int /\ NULL \in 0 .. MaxNodes
    BY MessageAssumption DEF NULL
  <2> QED BY <1>2, <2>1 DEF Handle, Messages
<1>4. /\ Len(messages) \in Nat /\ Len(messages) < MaxMessages /\ messages \in Seq(Messages)
      /\ DOMAIN messages = 1 .. Len(messages) /\ MaxMessages \in Nat
      /\ UNCHANGED <<nodes, held, testing, raced>>
  BY Domains DEF GetMissing, IInv, TypeOK
<1>5. /\ messages' \in Seq(Messages) /\ Len(messages') = Len(messages) + 1
      /\ \A k \in 1 .. Len(messages) : messages'[k] = messages[k]
      /\ messages'[Len(messages) + 1] = h
  <2>1. messages' = Append(messages, h)
    BY <1>1, <1>2
  <2>2. h \in Messages /\ messages \in Seq(Messages)
    BY <1>3, <1>4
  <2> QED BY <2>1, <2>2, AppendProperties
<1>6. Made(h)
  <2>1. DOMAIN messages' = 1 .. Len(messages) + 1
    BY <1>5, LenProperties
  <2>2. DOMAIN messages' = DOMAIN messages \cup {Len(messages) + 1}
    BY <1>4, <2>1
  <2>3. Len(messages) + 1 \in Handles
    BY <1>4 DEF Handles
  <2> QED BY <1>4, <1>5, <2>2, <2>3 DEF Made
<1>7. Grows(NULL) /\ DOMAIN nodes' = 1 .. Len(nodes')
  BY <1>4, NothingGrows, Domains DEF IInv
<1>8. TreeInv' /\ TreesFollowMessages'
  BY <1>3, <1>4, <1>6, <1>7, TreesJoin DEF IInv
<1>9. OwnersInv'
  BY <1>3, <1>4, <1>6, OwnersAside DEF IInv, OwnersInv
<1>10. TypeOK'
  BY <1>4, <1>5 DEF IInv, TypeOK
<1> QED BY <1>8, <1>9, <1>10 DEF IInv, OwnersInv

\* The copy has as many fields, below a root of its own.
LEMMA CloneIInv ==
    ASSUME IInv, NEW t \in Threads, NEW m \in Handles, Clone(t, m) PROVE IInv'
<1>1. Len(nodes) \in Nat /\ MaxNodes \in Nat /\ nodes \in Seq(Nodes) /\ DOMAIN nodes = 1 .. Len(nodes)
      /\ testing' = testing /\ raced' = raced /\ Len(nodes) <= MaxNodes
  BY Domains DEF Clone, IInv, TypeOK
<1>2. PICK r \in Nat \ {0} : r = Len(nodes) + 1
  BY <1>1
<1>3. CASE messages[m].json = NULL
  <2>1. nodes' = nodes \o <<>> /\ Allocate(t, Handle(1, TRUE, NULL, FALSE))
    BY <1>3 DEF Clone
  <2> DEFINE h == Handle(1, TRUE, NULL, FALSE)
  <2>2. h \in Messages /\ h.json = NULL /\ ~h.item /\ h.frees = 0 /\ h.count = 1
    BY <1>1 DEF Handle, Messages, NULL
  <2>5. Allocate(t, h)
    BY <2>1
  <2> HIDE DEF h
  <2>3. nodes' = nodes
    BY <1>1, <2>1, ConcatEmptySeq
  <2>4. Grows(NULL)
    BY <2>3, NothingGrows
  <2>6. nodes' \in Seq(Nodes) /\ Len(nodes') <= MaxNodes
    BY <1>1, <2>3
  <2> QED BY <1>1, <2>2, <2>3, <2>4, <2>5, <2>6, JoinIInv
<1>4. CASE messages[m].json # NULL
  <2>1. PICK k \in Nat : k = Cardinality(Fields(m))
    <3>1. IsFiniteSet(1 .. Len(nodes))
      BY <1>1, FS_Interval
    <3>2. Fields(m) \subseteq 1 .. Len(nodes)
      BY <1>1 DEF Fields
    <3> QED BY <3>1, <3>2, FS_Subset, FS_CardinalityType
  <2> DEFINE copies == [f \in 1 .. k |-> NodeUnder(r)]
             tree == <<NodeUnder(NULL)>> \o copies
  <2>2. /\ RoomFor(Len(tree)) /\ nodes' = nodes \o tree
        /\ Allocate(t, Handle(1, TRUE, IF tree = <<>> THEN NULL ELSE r, FALSE))
    BY <1>2, <1>4, <2>1 DEF Clone
  <2>3. PICK top \in [under : {NULL}, freed : {0}] : top = NodeUnder(NULL)
    BY DEF NodeUnder
  <2>4. PICK below \in [under : {r}, freed : {0}] : below = NodeUnder(r)
    BY DEF NodeUnder
  <2> DEFINE Either == {top, below}
  <2>5. copies \in Seq(Either) /\ Len(copies) = k /\ \A i \in 1 .. k : copies[i] = below
    <3>1. copies \in [1 .. k -> Either]
      BY <2>4
    <3>2. copies \in Seq(Either)
      BY <3>1, SeqDef
    <3> QED BY <2>4, <3>1, <3>2, LenProperties
  <2> HIDE DEF copies
  <2>6. /\ tree \in Seq(Either) /\ Len(tree) = 1 + k /\ tree # <<>>
        /\ tree[1] = top /\ \A i \in 2 .. 1 + k : tree[i] = below
    <3>1. <<top>> \in Seq(Either) /\ Len(<<top>>) = 1 /\ <<top>>[1] = top
      OBVIOUS
    <3>2. tree = <<top>> \o copies
      BY <2>3
    <3>3. tree \in Seq(Either) /\ Len(tree) = 1 + k
          /\ \A i \in 1 .. 1 + k : tree[i] = IF i <= 1 THEN <<top>>[i] ELSE copies[i - 1]
      BY <2>5, <3>1, <3>2, ConcatProperties
    <3>4. ASSUME NEW i \in 2 .. 1 + k PROVE tree[i] = below
      BY <2>5, <3>3
    <3>5. tree[1] = top /\ tree # <<>>
      BY <3>1, <3>3, EmptySeq
    <3> QED BY <3>3, <3>4, <3>5
  <2> HIDE DEF tree
  <2>7. /\ Len(nodes) + 1 + k <= MaxNodes /\ r \in 1 .. MaxNodes
    BY <1>1, <1>2, <2>2, <2>6 DEF RoomFor
  <2>8. top \in Nodes /\ below \in Nodes
    <3>1. NULL \in 0 .. MaxNodes /\ r \in 0 .. MaxNodes
      BY <1>1, <2>7 DEF NULL
    <3>2. NodeUnder(NULL) \in Nodes /\ NodeUnder(r) \in Nodes
      BY <3>1, NodeType
    <3> QED BY <2>3, <2>4, <3>2
  <2> HIDE DEF Either
  <2>9. tree \in Seq(Nodes)
    <3>1. Either \subseteq Nodes
      BY <2>8 DEF Either
    <3> QED BY <2>6, <3>1
  <2>10. /\ nodes' \in Seq(Nodes) /\ Len(nodes') = Len(nodes) + 1 + k
         /\ \A i \in 1 .. Len(nodes) : nodes'[i] = nodes[i]
         /\ \A i \in Len(nodes) + 1 .. Len(nodes) + 1 + k : nodes'[i] = tree[i - Len(nodes)]
    <3>1. /\ nodes' \in Seq(Nodes) /\ Len(nodes') = Len(nodes) + Len(tree)
          /\ \A i \in 1 .. Len(nodes) + Len(tree) :
                nodes'[i] = IF i <= Len(nodes) THEN nodes[i] ELSE tree[i - Len(nodes)]
      BY <1>1, <2>2, <2>9, ConcatProperties
    <3>2. Len(tree) = 1 + k
      BY <2>6
    <3>3. Len(nodes') = Len(nodes) + 1 + k
      BY <1>1, <3>1, <3>2
    <3>4. ASSUME NEW i \in 1 .. Len(nodes) PROVE nodes'[i] = nodes[i]
      BY <1>1, <3>1, <3>2
    <3>5. ASSUME NEW i \in Len(nodes) + 1 .. Len(nodes) + 1 + k
          PROVE  nodes'[i] = tree[i - Len(nodes)]
      BY <1>1, <3>1, <3>2
    <3> QED BY <3>1, <3>3, <3>4, <3>5
  <2>11. DOMAIN nodes' = 1 .. Len(nodes')
    BY <2>10, LenProperties
  <2>12. Grows(r)
    <3>1. Len(nodes') >= Len(nodes) /\ \A n \in DOMAIN nodes : nodes'[n] = nodes[n]
      BY <1>1, <2>10
    <3>2. ASSUME NEW n \in DOMAIN nodes' \ DOMAIN nodes
          PROVE  nodes'[n].freed = 0 /\ nodes'[n].under = IF n = r THEN NULL ELSE r
      <4>1. n \in Len(nodes) + 1 .. Len(nodes) + 1 + k /\ n - Len(nodes) \in 1 .. 1 + k
        BY <1>1, <2>10, <2>11
      <4>2. nodes'[n] = tree[n - Len(nodes)]
        BY <2>10, <4>1
      <4>3. CASE n = r
        <5>1. nodes'[n] = top
          BY <1>1, <1>2, <2>6, <4>2, <4>3
        <5> QED BY <2>3, <4>3, <5>1
      <4>4. CASE n # r
        <5>1. n - Len(nodes) \in 2 .. 1 + k
          BY <1>1, <1>2, <4>1, <4>4
        <5>2. nodes'[n] = below
          BY <2>6, <4>2, <5>1
        <5> QED BY <2>4, <4>4, <5>2
      <4> QED BY <4>3, <4>4
    <3> QED BY <3>1, <3>2 DEF Grows
  <2> DEFINE h == Handle(1, TRUE, r, FALSE)
  <2>13. h \in Messages /\ h.json = r /\ ~h.item /\ h.frees = 0 /\ h.count = 1
    BY <2>7 DEF Handle, Messages
  <2>14. Allocate(t, h)
    BY <2>2, <2>6
  <2> HIDE DEF h
  <2>15. Len(nodes') <= MaxNodes /\ Len(nodes') > Len(nodes)
    BY <1>1, <2>7, <2>10
  <2> QED BY <1>1, <1>2, <2>10, <2>12, <2>13, <2>14, <2>15, JoinIInv
<1> QED BY <1>3, <1>4

\* Steps that only count.
LEMMA CountingIInv ==
    ASSUME IInv, OwnersInv', nodes' = nodes, held' \in [Threads -> [Handles -> Nat]],
           testing' \in [Threads -> 0 .. MaxMessages], raced' \subseteq Handles,
           messages' \in Seq(Messages), Len(messages') = Len(messages),
           DOMAIN messages' = DOMAIN messages,
           \A m \in DOMAIN messages : /\ messages'[m].json = messages[m].json
                                      /\ messages'[m].item = messages[m].item
                                      /\ messages'[m].frees = messages[m].frees
    PROVE  IInv'
<1>1. TreeInv' /\ TreesFollowMessages'
  BY TreesKept DEF IInv
<1>2. TypeOK'
  BY DEF IInv, TypeOK
<1> QED BY <1>1, <1>2 DEF IInv, OwnersInv

LEMMA NextIInv == IInv /\ [Next]_vars => IInv'
<1> SUFFICES ASSUME IInv, [Next]_vars PROVE IInv'
  OBVIOUS
<1>1. CASE UNCHANGED vars
  BY <1>1, StutterIInv
<1> SUFFICES ASSUME NEW t \in Threads,
                    \/ Create(t) \/ FromBytes(t) \/ TestAndDestroy(t)
                    \/ \E m \in Handles :
                        \/ Clone(t, m) \/ GetMessage(t, m) \/ GetMissing(t, m) \/ GetMessageItem(t, m)
                        \/ SetField(t, m) \/ Retain(t, m) \/ Decrement(t, m)
                        \/ \E item \in Handles : SetMessage(t, m, item) \/ AddMessage(t, m, item)
                        \/ \E u \in Threads : HandOver(t, u, m)
             PROVE  IInv'
  BY <1>1 DEF Next
<1>2. CASE Create(t) \/ \E m \in Handles : GetMessage(t, m)
  BY <1>2, CreateIInv
<1>3. CASE FromBytes(t)
  BY <1>3, FromBytesIInv
<1>4. CASE TestAndDestroy(t)
  <2>1. OwnersInv' /\ messages' \in Seq(Messages) /\ Len(messages') = Len(messages)
    BY <1>4, TestOwners DEF IInv, OwnersInv
  <2>2. PICK p \in DOMAIN messages : testing[t] = p /\ ~messages[p].item
    BY <1>4 DEF TestAndDestroy, IInv, TestInv
  <2>3. /\ held' = held /\ raced' = raced
        /\ testing' \in [Threads -> 0 .. MaxMessages]
    BY <1>4, Domains DEF TestAndDestroy, IInv, TypeOK
  <2>4. CASE Destroyed(p)
    <3>1. /\ TreeInv' /\ TreesFollowMessages'
          /\ nodes' \in Seq(Nodes) /\ Len(nodes') = Len(nodes)
      BY <2>2, <2>4, TreesDestroyed DEF IInv
    <3>2. TypeOK'
      BY <2>1, <2>3, <3>1 DEF IInv, TypeOK
    <3> QED BY <2>1, <3>1, <3>2 DEF IInv, OwnersInv
  <2>5. CASE UNCHANGED <<messages, nodes>>
    <3>1. held' \in [Threads -> [Handles -> Nat]] /\ raced' \subseteq Handles
      BY <2>3 DEF IInv, TypeOK
    <3> QED BY <2>1, <2>3, <2>5, <3>1, CountingIInv
  <2> QED BY <1>4, <2>2, <2>4, <2>5 DEF TestAndDestroy
<1>5. ASSUME NEW m \in Handles, Clone(t, m) PROVE IInv'
  BY <1>5, CloneIInv
<1>6. ASSUME NEW m \in Handles, GetMessageItem(t, m) PROVE IInv'
  BY <1>6, GetMessageItemIInv
<1>7. ASSUME NEW m \in Handles, SetField(t, m) PROVE IInv'
  BY <1>7, FieldIInv DEF SetField, Uses
<1>8. ASSUME NEW m \in Handles, NEW item \in Handles,
             SetMessage(t, m, item) \/ AddMessage(t, m, item)
      PROVE  IInv'
  <2>1. /\ m \in DOMAIN messages /\ messages[m].frees = 0 /\ messages[m].json # NULL
        /\ RoomFor(1) /\ UNCHANGED <<messages, held, testing, raced>>
        /\ nodes' = nodes \/ nodes' = Append(nodes, NodeUnder(messages[m].json))
    BY <1>8 DEF SetMessage, AddMessage, Uses
  <2>2. CASE nodes' = nodes
    BY <2>1, <2>2, StutterIInv DEF vars
  <2>3. CASE nodes' = Append(nodes, NodeUnder(messages[m].json))
    BY <2>1, <2>3, FieldIInv
  <2> QED BY <2>1, <2>2, <2>3
<1>9. ASSUME NEW m \in Handles, Retain(t, m) PROVE IInv'
  <2>1. held' \in [Threads -> [Handles -> Nat]]
    BY <1>9 DEF Retain, IInv, TypeOK
  <2>2. nodes' = nodes /\ testing' \in [Threads -> 0 .. MaxMessages] /\ raced' \subseteq Handles
    BY <1>9 DEF Retain, IInv, TypeOK
  <2> QED BY <1>9, <2>1, <2>2, RetainOwners, CountingIInv DEF IInv, OwnersInv
<1>10. ASSUME NEW m \in Handles, Decrement(t, m) PROVE IInv'
  <2>1. held' \in [Threads -> [Handles -> Nat]]
    BY <1>10, SMTT(40) DEF Decrement, IInv, TypeOK, Holds
  <2>2. nodes' = nodes /\ testing' \in [Threads -> 0 .. MaxMessages] /\ raced' \subseteq Handles
    BY <1>10, Domains, SMTT(40) DEF Decrement, IInv, TypeOK, Handles
  <2> QED BY <1>10, <2>1, <2>2, DecrementOwners, CountingIInv DEF IInv, OwnersInv
<1>11. ASSUME NEW m \in Handles, NEW u \in Threads, HandOver(t, u, m) PROVE IInv'
  <2>1. held[t] \in [Handles -> Nat] /\ held[u] \in [Handles -> Nat] /\ held[t][m] > 0 /\ t # u
    BY <1>11 DEF HandOver, Uses, Holds, IInv, TypeOK
  <2>2. held' = [held EXCEPT ![t] = [held[t] EXCEPT ![m] = held[t][m] - 1],
                             ![u] = [held[u] EXCEPT ![m] = held[u][m] + 1]]
    BY <1>11, <2>1 DEF HandOver, IInv, TypeOK
  <2>3. held' \in [Threads -> [Handles -> Nat]]
    <3>1. held[t][m] - 1 \in Nat /\ held[u][m] + 1 \in Nat
      BY <2>1
    <3> QED BY <2>1, <2>2, <3>1 DEF IInv, TypeOK
  <2>4. messages' = messages /\ nodes' = nodes /\ testing' = testing /\ raced' = raced
    BY <1>11 DEF HandOver
  <2> QED BY <1>11, <2>3, <2>4, HandOverOwners, CountingIInv DEF IInv, TypeOK, OwnersInv
<1>12. ASSUME NEW m \in Handles, GetMissing(t, m) PROVE IInv'
  BY <1>12, GetMissingIInv
<1> QED BY <1>2, <1>3, <1>4, <1>5, <1>6, <1>7, <1>8, <1>9, <1>10, <1>11, <1>12

\* The invariant holds in every state.
THEOREM IInvIsInvariant == Spec => []IInv
<1>1. Init => IInv
  BY InitIInv
<1>2. IInv /\ [Next]_vars => IInv'
  BY NextIInv
<1> QED BY <1>1, <1>2, PTL DEF Spec

\* The variables have their types, and there are no more messages and nodes than
\* the model has room for.
THEOREM TypeCorrect == Spec => []TypeOK
<1>1. IInv => TypeOK
  BY DEF IInv
<1> QED BY <1>1, IInvIsInvariant, PTL

\* A message whose count was written is never freed while somebody has a
\* reference, and once all have let go and looked, it is (rtMessage.c:637-643).
THEOREM LastOwnerFrees == Spec => []FreedByLastOwner
<1>1. IInv => FreedByLastOwner
  BY DEF IInv
<1> QED BY <1>1, IInvIsInvariant, PTL

\* Only a race in Release frees such a message twice (rtMessage.c:639-641).
THEOREM TwiceOnlyByRace == Spec => []FreedTwiceOnlyByRace
<1>1. IInv => FreedTwiceOnlyByRace
  BY DEF IInv
<1> QED BY <1>1, IInvIsInvariant, PTL

\* A tree is freed as often as its message, and no node of another with it
\* (rtMessage.c:89-106, 272-288, 405-423, 509-532).
THEOREM NoTreeIsLostOrShared == Spec => []TreesFollowMessages
<1>1. IInv => TreesFollowMessages
  BY DEF IInv
<1> QED BY <1>1, IInvIsInvariant, PTL
=============================================================================
