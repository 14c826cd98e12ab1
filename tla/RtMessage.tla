------------------------------ MODULE RtMessage ------------------------------
(***************************************************************************)
(* rtMessage.c: messages are counted handles on JSON trees.  The model     *)
(* keeps who has a reference, what the count says, and which node of JSON  *)
(* is freed with which message.  Names and values of fields are left out:  *)
(* a field is a node under the root of its message, and stands for all     *)
(* that is below it.                                                       *)
(***************************************************************************)
EXTENDS Integers, Sequences, FiniteSets

CONSTANTS
    Threads,
    MaxMessages, MaxNodes, MaxRefs,   \* bounds of the model
    Rubbish      \* what may stand in a field nobody wrote

ASSUME MessageAssumption ==
    /\ MaxMessages \in Nat /\ MaxNodes \in Nat /\ MaxRefs \in Nat
    /\ Rubbish \subseteq Int

VARIABLES
    messages,    \* every message ever allocated
    nodes,       \* every JSON node ever allocated: where it hangs, how often freed
    held,        \* [thread -> [message -> references it has to release]]
    testing,     \* the message whose count the thread is about to read, 0 if none
    raced        \* history: messages that two threads were releasing at once

vars == <<messages, nodes, held, testing, raced>>

NULL == 0
Handles == 1 .. MaxMessages

\* counted: was the count written?  item: does the tree belong to a parent?
Handle(count, counted, json, item) ==
    [count |-> count, counted |-> counted, json |-> json, item |-> item, frees |-> 0]

Count(m) == messages[m].count
Counted(m) == messages[m].counted
Holds(t, m) == held[t][m] > 0
\* One for every reference a thread has.
Tokens(m) == UNION {{t} \X (1 .. held[t][m]) : t \in Threads}
References(m) == Cardinality(Tokens(m))
Fields(m) ==
    {n \in DOMAIN nodes : nodes[n].under # NULL /\ nodes[n].under = messages[m].json}
Tree(m) == Fields(m) \cup ({messages[m].json} \ {NULL})

\* Is the thread between calls, with a reference to a message that is there?
Uses(t, m) ==
    /\ testing[t] = 0 /\ m \in DOMAIN messages
    /\ Holds(t, m) /\ messages[m].frees = 0

NodeUnder(n) == [under |-> n, freed |-> 0]
RoomFor(k) == Len(nodes) + k <= MaxNodes

-----------------------------------------------------------------------------
\* The caller gets a new message, with the one reference to it.
Allocate(t, handle) ==
    /\ testing[t] = 0 /\ Len(messages) < MaxMessages
    /\ messages' = Append(messages, handle)
    /\ held' = [held EXCEPT ![t][Len(messages) + 1] = 1]

\* A new tree, in a new message.
Create(t) ==
    /\ RoomFor(1)
    /\ Allocate(t, Handle(1, TRUE, Len(nodes) + 1, FALSE))
    /\ nodes' = Append(nodes, NodeUnder(NULL))
    /\ UNCHANGED <<testing, raced>>

\* A copy of the whole tree.
Clone(t, m) ==
    /\ Uses(t, m)
    /\ LET copy == Len(nodes) + 1
           tree == IF messages[m].json = NULL THEN <<>>
                   ELSE <<NodeUnder(NULL)>> \o [f \in 1 .. Cardinality(Fields(m)) |-> NodeUnder(copy)]
       IN  /\ RoomFor(Len(tree))
           /\ Allocate(t, Handle(1, TRUE, IF tree = <<>> THEN NULL ELSE copy, FALSE))
           /\ nodes' = nodes \o tree
    /\ UNCHANGED <<testing, raced>>

\* Bytes that are no JSON give no tree, and RT_OK all the same.  The count is
\* left as malloc gave it.
FromBytes(t) ==
    /\ \E count \in Rubbish, json \in {NULL, Len(nodes) + 1} :
        /\ json # NULL => RoomFor(1)
        /\ Allocate(t, Handle(count, FALSE, json, FALSE))
        /\ nodes' = IF json = NULL THEN nodes ELSE Append(nodes, NodeUnder(NULL))
    /\ UNCHANGED <<testing, raced>>

\* A field as a message of its own: a copy.
GetMessage(t, m) ==
    /\ Uses(t, m) /\ Fields(m) # {} /\ RoomFor(1)
    /\ Allocate(t, Handle(1, TRUE, Len(nodes) + 1, FALSE))
    /\ nodes' = Append(nodes, NodeUnder(NULL))
    /\ UNCHANGED <<testing, raced>>

\* A field that is not there: RT_FAIL, but a message with nothing written in it
\* is left to a caller who has no use for it, and cannot release it.
GetMissing(t, m) ==
    /\ Uses(t, m) /\ Len(messages) < MaxMessages
    /\ \E count \in Rubbish :
        messages' = Append(messages, Handle(count, FALSE, NULL, FALSE))
    /\ UNCHANGED <<nodes, held, testing, raced>>

\* An item of an array as a message: the item itself, which stays where it is.
GetMessageItem(t, m) ==
    /\ Uses(t, m)
    /\ \E count \in Rubbish, n \in Fields(m) : Allocate(t, Handle(count, FALSE, n, TRUE))
    /\ UNCHANGED <<nodes, testing, raced>>

-----------------------------------------------------------------------------
\* Bug to catch: the tree of the item is hung under the message itself.
SetMessage_Shares(t, m, item) ==
    /\ Uses(t, m) /\ Uses(t, item) /\ item # m /\ messages[m].json # NULL
    /\ RoomFor(1)
    /\ nodes' = IF messages[item].json = NULL THEN nodes
                ELSE [nodes EXCEPT ![messages[item].json].under = messages[m].json]
    /\ UNCHANGED <<messages, held, testing, raced>>

\* A copy of the item becomes a field, if it has anything in it.
SetMessage(t, m, item) ==
    /\ Uses(t, m) /\ Uses(t, item) /\ messages[m].json # NULL
    /\ RoomFor(1)
    /\ nodes' = IF messages[item].json = NULL THEN nodes
                ELSE Append(nodes, NodeUnder(messages[m].json))
    /\ UNCHANGED <<messages, held, testing, raced>>

\* A copy of the item is added to an array, which is made if there is none, even
\* if there is nothing in the item.
AddMessage(t, m, item) ==
    /\ Uses(t, m) /\ Uses(t, item) /\ messages[m].json # NULL
    /\ RoomFor(1)
    /\ \/ nodes' = Append(nodes, NodeUnder(messages[m].json))
       \/ messages[item].json = NULL /\ UNCHANGED nodes
    /\ UNCHANGED <<messages, held, testing, raced>>

\* SetString, SetInt32, SetDouble, AddString.
SetField(t, m) ==
    /\ Uses(t, m) /\ messages[m].json # NULL /\ RoomFor(1)
    /\ nodes' = Append(nodes, NodeUnder(messages[m].json))
    /\ UNCHANGED <<messages, held, testing, raced>>

-----------------------------------------------------------------------------
Retain(t, m) ==
    /\ Uses(t, m) /\ References(m) < MaxRefs
    /\ messages' = [messages EXCEPT ![m].count = @ + 1]
    /\ held' = [held EXCEPT ![t][m] = @ + 1]
    /\ UNCHANGED <<nodes, testing, raced>>

\* A thread passes one of its references on to another.
HandOver(t, u, m) ==
    /\ Uses(t, m) /\ t # u
    /\ held' = [held EXCEPT ![t][m] = @ - 1, ![u][m] = @ + 1]
    /\ UNCHANGED <<messages, nodes, testing, raced>>

\* Bug to catch: the decrement is not atomic and one of two may get lost.
Decrement_Lost(t, m) ==
    /\ testing[t] = 0 /\ m \in DOMAIN messages /\ Holds(t, m) /\ ~messages[m].item
    /\ \E lost \in {0} \cup {1 : u \in {u \in Threads : testing[u] = m}} :
        messages' = [messages EXCEPT ![m].count = @ - 1 + lost]
    /\ held' = [held EXCEPT ![t][m] = @ - 1]
    /\ testing' = [testing EXCEPT ![t] = m]
    /\ raced' = IF \E u \in Threads : testing[u] = m THEN raced \cup {m} ELSE raced
    /\ UNCHANGED nodes

\* The first half of Release.  The programs release no items.
Decrement(t, m) ==
    /\ testing[t] = 0 /\ m \in DOMAIN messages /\ Holds(t, m) /\ ~messages[m].item
    /\ messages' = [messages EXCEPT ![m].count = @ - 1]
    /\ held' = [held EXCEPT ![t][m] = @ - 1]
    /\ testing' = [testing EXCEPT ![t] = m]
    /\ raced' = IF \E u \in Threads : testing[u] = m THEN raced \cup {m} ELSE raced
    /\ UNCHANGED nodes

\* Bug to catch: the last but one destroys.
FindsZero_Early(m) == Count(m) <= 1

\* What the second half reads: the count, or what has become of its place once
\* another thread has freed the message.
FindsZero(m) == Count(m) = 0

Destroyed(m) ==
    /\ messages' = [messages EXCEPT ![m].frees = @ + 1]
    /\ nodes' = [n \in DOMAIN nodes |->
                    IF n \in Tree(m) THEN [nodes[n] EXCEPT !.freed = @ + 1] ELSE nodes[n]]

\* The second half of Release, with Destroy.
TestAndDestroy(t) ==
    /\ testing[t] # 0
    /\ \/ FindsZero(testing[t]) /\ Destroyed(testing[t])
       \/ /\ ~FindsZero(testing[t]) \/ messages[testing[t]].frees > 0
          /\ UNCHANGED <<messages, nodes>>
    /\ testing' = [testing EXCEPT ![t] = 0]
    /\ UNCHANGED <<held, raced>>

-----------------------------------------------------------------------------
Init ==
    /\ messages = <<>> /\ nodes = <<>>
    /\ held = [t \in Threads |-> [m \in Handles |-> 0]]
    /\ testing = [t \in Threads |-> 0]
    /\ raced = {}

Next ==
    \E t \in Threads :
        \/ Create(t) \/ FromBytes(t) \/ TestAndDestroy(t)
        \/ \E m \in Handles :
            \/ Clone(t, m) \/ GetMessage(t, m) \/ GetMissing(t, m) \/ GetMessageItem(t, m)
            \/ SetField(t, m) \/ Retain(t, m) \/ Decrement(t, m)
            \/ \E item \in Handles : SetMessage(t, m, item) \/ AddMessage(t, m, item)
            \/ \E u \in Threads : HandOver(t, u, m)

Spec == Init /\ [][Next]_vars

-----------------------------------------------------------------------------
Messages ==
    [count : Int, counted : BOOLEAN, json : 0 .. MaxNodes, item : BOOLEAN, frees : Nat]
Nodes == [under : 0 .. MaxNodes, freed : Nat]

TypeOK ==
    /\ messages \in Seq(Messages) /\ Len(messages) <= MaxMessages
    /\ nodes \in Seq(Nodes) /\ Len(nodes) <= MaxNodes
    /\ held \in [Threads -> [Handles -> Nat]]
    /\ testing \in [Threads -> 0 .. MaxMessages]
    /\ raced \subseteq Handles

Known == {m \in DOMAIN messages : Counted(m)}

\* The last owner frees a message: never while somebody still has a reference,
\* though the test comes a step after the decrement; and always, for once all
\* have released it and looked, one of them has found zero (rtMessage.c:637-643).
FreedByLastOwner ==
    \A m \in Known :
        /\ messages[m].frees > 0 => \A t \in Threads : ~Holds(t, m)
        /\ messages[m].frees = 0 => \E t \in Threads : Holds(t, m) \/ testing[t] = m

\* It is freed twice only when two threads were in Release at once, each between
\* the decrement and the test (rtMessage.c:639-641).
FreedTwiceOnlyByRace ==
    \A m \in Known : messages[m].frees > 1 => m \in raced

\* Everything in a message goes when it goes, as often as it does: no tree is
\* lost, and none is shared, since what is put in or taken out is a copy
\* (rtMessage.c:89-106, 272-288, 405-423, 509-532).
TreesFollowMessages ==
    \A m \in DOMAIN messages : ~messages[m].item =>
        \A n \in Tree(m) : nodes[n].freed = messages[m].frees
=============================================================================
