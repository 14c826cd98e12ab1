------------------------------- MODULE DmClient -------------------------------
(***************************************************************************)
(* dmClient.cpp under dmcli.cpp: a command line is split into queries, and *)
(* a query into requests: one for an object, and for a list one for its    *)
(* number of entries, one for their names and one for each entry; a        *)
(* recursive get goes on with the children of every object it comes to.    *)
(* Each request is answered, or it fails; the client does nothing else     *)
(* meanwhile.                                                              *)
(***************************************************************************)
EXTENDS DmDatabase

CONSTANTS
    Commands,       \* command lines: op, recursive and params
    Ids,            \* names of entries a list may have
    MaxEntries,     \* bound of the model on the entries of a list
    MaxFailures     \* bound of the model on failures of any kind

ASSUME ClientAssumption ==
    /\ MaxEntries \in Nat /\ MaxFailures \in Nat /\ Ids \in Seq(STRING) /\ MaxEntries <= Len(Ids)
    /\ \A k, l \in DOMAIN Ids : Ids[k] = Ids[l] => k = l

\* A parameter on the command line names something.
Queries == [path : Seq(STRING) \ {<<>>}, value : Seq(STRING), braces : BOOLEAN]

ASSUME CommandsAssumption ==
    \A c \in Commands :
        c.op \in {"get", "set"} /\ c.recursive \in BOOLEAN /\ c.params \in Seq(Queries)

VARIABLES
    command,        \* what dmcli was called with
    phase,          \* "load", "query", "exit" or "crashed"
    tokens,         \* what is left of the queries
    stack,          \* the activations of runGet, the innermost last
    returned,       \* of the latest activation that returned
    notes,          \* what the notifier of the query was told
    failures,
    asked,          \* history: the objects asked for, with the notifier
    lists,          \* history: the entries of the lists asked for
    itemFailed      \* history: has the query of an entry failed?

history == <<asked, lists, itemFailed>>
clientVars == <<command, phase, tokens, stack, returned, notes, failures, history>>
vars == <<databaseVars, clientVars>>

Top == Last(stack)
At(place) == phase = "query" /\ stack # <<>> /\ Top.at = place
Become(frame) == stack' = Append(Front(stack), frame)

Frame(parameter, place) ==
    [parameter |-> parameter, at |-> place, entries |-> 0, ids |-> <<>>, i |-> 1,
     kids |-> <<>>, success |-> TRUE]

\* The return of a runGet: the caller takes its result for its own.
Return(result) ==
    /\ returned' = result
    /\ stack' = IF Len(stack) = 1 THEN <<>>
                ELSE SubSeq(stack, 1, Len(stack) - 2)
                        \o <<[stack[Len(stack) - 1] EXCEPT !.success = result]>>

-----------------------------------------------------------------------------
(***************************************************************************)
(* runOneQuery: what may come of it.                                       *)
(***************************************************************************)
Fails(o) == ~o.ok

\* No provider, no query; a set without "=" makes one that exec refuses.
Refused(op, q) == ProviderOf(op, q) = NoProvider \/ (op = "set" /\ q.value = <<>>)

\* A response with values; one with a status; none, which counts as a result.
Outcomes(op, q, values) ==
    IF Refused(op, q) THEN {[ok |-> FALSE, values |-> <<>>, cost |-> 0]}
    ELSE {[ok |-> TRUE, values |-> <<v>>, cost |-> 0] : v \in values}
            \cup {[ok |-> FALSE, values |-> <<>>, cost |-> 1],
                  [ok |-> TRUE, values |-> <<>>, cost |-> 1]}

Affordable(o) == failures + o.cost <= MaxFailures
Spend(cost) == failures' = failures + cost

Notify(o) == notes' = Append(notes, IF o.ok THEN "result" ELSE "error")
OnError == notes' = Append(notes, "error")

-----------------------------------------------------------------------------
(***************************************************************************)
(* dmcli.                                                                  *)
(***************************************************************************)
Load == phase = "load" /\ (\E f \in Files : LoadFile(f)) /\ UNCHANGED clientVars

\* splitParams: a comma splits unless inbracket, which starts with any value
\* and is cleared by the first closing bracket.
Join(a, b) ==
    CASE a.value # <<>> -> [a EXCEPT !.value = Glue(a.value, ",", Whole(b))]
      [] a.value = <<>> /\ b.value # <<>> -> [b EXCEPT !.path = Glue(a.path, ",", b.path)]
      [] OTHER -> [a EXCEPT !.path = Glue(a.path, ",", b.path)]

SplitNext(before, q) ==
    LET joins == before.inbracket /\ before.out # <<>>
    IN  [out |-> IF joins THEN Append(Front(before.out), Join(Last(before.out), q))
                 ELSE Append(before.out, q),
         inbracket |-> before.inbracket /\ ~q.braces]

SplitParams(params, inbracket) ==
    LET split[k \in 0 .. Len(params)] ==
            IF k = 0 THEN [out |-> <<>>, inbracket |-> inbracket]
            ELSE SplitNext(split[k - 1], params[k])
    IN  split[Len(params)].out

Loaded ==
    /\ phase = "load" /\ BuildProviderTree
    /\ phase' = "query"
    /\ \E inbracket \in BOOLEAN : tokens' = SplitParams(command.params, inbracket)
    /\ UNCHANGED <<command, stack, returned, notes, failures, history>>

\* The next query of the command line.
RunQuery ==
    /\ phase = "query" /\ stack = <<>> /\ tokens # <<>>
    /\ tokens' = Tail(tokens)
    /\ stack' = <<Frame(Head(tokens), IF command.op = "get" THEN "get" ELSE "set")>>
    /\ notes' = <<>> /\ asked' = <<>> /\ lists' = <<>> /\ itemFailed' = FALSE
    /\ UNCHANGED <<command, phase, returned, failures, databaseVars>>

Exit ==
    /\ phase = "query" /\ stack = <<>> /\ tokens = <<>>
    /\ phase' = "exit"
    /\ UNCHANGED <<command, tokens, stack, returned, notes, failures, history, databaseVars>>

RunSet ==
    /\ At("set")
    /\ \E o \in Outcomes("set", Top.parameter, {"value"}) :
        /\ Affordable(o) /\ Spend(o.cost)
        /\ Notify(o) /\ Return(o.ok)
    /\ UNCHANGED <<command, phase, tokens, history, databaseVars>>

-----------------------------------------------------------------------------
(***************************************************************************)
(* runGet.  A parameter is a name from here on.                            *)
(***************************************************************************)
Name == Whole(Top.parameter)
Provider == getProviderByPropertyName(Name)
IsList ==
    isWildcard(Name) /\ Provider # NoProvider /\ ~IsListItem(Name) /\ model_db[Provider].isList

\* A wildcard without a provider: nobody is told.
GetUnknown ==
    /\ At("get") /\ isWildcard(Name) /\ Provider = NoProvider
    /\ Return(FALSE)
    /\ UNCHANGED <<command, phase, tokens, notes, failures, history, databaseVars>>

GetBegins ==
    /\ At("get") /\ ~(isWildcard(Name) /\ Provider = NoProvider)
    /\ Become([Top EXCEPT !.at = IF IsList THEN "number" ELSE "one"])
    /\ UNCHANGED <<command, phase, tokens, returned, notes, failures, history, databaseVars>>

\* All that is at the object so called below p.
Below(p, token) == Append(Append(p, token), "")

ListName == trimWildcard(Name)
ListProperty(suffix) == Query(Append(Front(ListName), Last(ListName) \o suffix))

\* The names of the entries are joined by commas and split again: no entry, or
\* an answer without a value, and there is still one piece.
SplitIds(ids) == IF ids = <<>> THEN <<"">> ELSE ids

\* Bug to catch: the notifier is not told.
ListFails_Silent ==
    /\ Return(FALSE)
    /\ lists' = Put(lists, ListName, <<>>)
    /\ UNCHANGED <<notes, asked, itemFailed>>

\* What is kept of the entries of a list when it cannot be asked for them.
ListFails ==
    /\ OnError /\ Return(FALSE)
    /\ lists' = Put(lists, ListName, <<>>)
    /\ UNCHANGED <<asked, itemFailed>>

GetNumber ==
    /\ At("number")
    /\ \E o \in Outcomes("get", ListProperty("NumberOfEntries"), 0 .. MaxEntries) :
        /\ Affordable(o) /\ Spend(o.cost)
        /\ IF Fails(o) THEN ListFails
           ELSE /\ Become([Top EXCEPT !.at = "ids",
                                      !.entries = IF o.values = <<>> THEN 0 ELSE o.values[1]])
                /\ UNCHANGED <<returned, notes, history>>
    /\ UNCHANGED <<command, phase, tokens, databaseVars>>

\* Bug to catch: when number and names differ both are asked for again.
Mismatch_Retry ==
    /\ Become([Top EXCEPT !.at = "number"])
    /\ UNCHANGED <<returned, notes, history>>

Mismatch == ListFails

\* The list may have changed since its number was asked for.
GetIds ==
    /\ At("ids")
    /\ \E o \in Outcomes("get", ListProperty("IdsOfEntries"), {SubSeq(Ids, 1, n) : n \in 0 .. MaxEntries}) :
        LET ids == IF o.values = <<>> THEN <<"0">> ELSE SplitIds(o.values[1])
            cost == IF o.ok /\ o.values # <<>> /\ Len(o.values[1]) # Top.entries THEN 1 ELSE o.cost
        IN  /\ failures + cost <= MaxFailures /\ Spend(cost)
            /\ CASE Fails(o) -> ListFails
                 [] o.ok /\ Len(ids) # Top.entries -> Mismatch
                 [] OTHER -> /\ Become([Top EXCEPT !.at = "items", !.ids = ids])
                             /\ lists' = Put(lists, ListName, ids)
                             /\ UNCHANGED <<returned, notes, asked, itemFailed>>
    /\ UNCHANGED <<command, phase, tokens, databaseVars>>

\* Bug to catch: the loop over the children begins with the second.
Children_FromSecond(name) == SubSeq(m_children[getProviderByPropertyName(name)], 2,
                                    Len(m_children[getProviderByPropertyName(name)]))

Children(name) == m_children[getProviderByPropertyName(name)]

\* Bug to catch: the last entry decides.
AfterItem_Last(frame, o) == [frame EXCEPT !.success = o.ok]

AfterItem(frame, o) == [frame EXCEPT !.success = @ /\ o.ok]

\* The query of one entry, and then, if recursive, of its children.
GetItem ==
    /\ At("items") /\ Top.i <= Len(Top.ids)
    /\ LET item == Below(ListName, Top.ids[Top.i])
           then == IF command.recursive
                   THEN [Top EXCEPT !.at = "item kids", !.kids = Children(item)]
                   ELSE [Top EXCEPT !.i = @ + 1]
       IN  \E o \in Outcomes("get", Query(item), {"values"}) :
            /\ Affordable(o) /\ Spend(o.cost)
            /\ Notify(o)
            /\ Become(AfterItem(then, o))
            /\ asked' = Append(asked, trimWildcard(item))
            /\ itemFailed' = (itemFailed \/ Fails(o))
    /\ UNCHANGED <<command, phase, tokens, returned, lists, databaseVars>>

ItemDone ==
    /\ At("item kids") /\ Top.kids = <<>>
    /\ Become([Top EXCEPT !.at = "items", !.i = @ + 1])
    /\ UNCHANGED <<command, phase, tokens, returned, notes, failures, history, databaseVars>>

ListDone ==
    /\ At("items") /\ Top.i > Len(Top.ids)
    /\ Return(Top.success)
    /\ UNCHANGED <<command, phase, tokens, notes, failures, history, databaseVars>>

\* The query of one object or property.
GetOne ==
    /\ At("one")
    /\ \E o \in Outcomes("get", Top.parameter, {"values"}) :
        /\ Affordable(o) /\ Spend(o.cost)
        /\ Notify(o)
        /\ asked' = Append(asked, InstanceName("get", Top.parameter))
        /\ CASE ~command.recursive -> Return(o.ok) /\ UNCHANGED phase
             [] command.recursive /\ Provider # NoProvider ->
                    /\ Become([Top EXCEPT !.at = "kids", !.kids = Children(Name), !.success = o.ok])
                    /\ UNCHANGED <<returned, phase>>
             [] OTHER -> phase' = "crashed" /\ UNCHANGED <<stack, returned>>
    /\ UNCHANGED <<command, tokens, lists, itemFailed, databaseVars>>

\* The child is named below the instance its parent was asked for.
KidParameter(kid) ==
    Query(Below(IF Top.at = "kids" THEN trimProperty(Name) ELSE Append(ListName, Top.ids[Top.i]),
                trimPropertyName(kid)))

GetKid ==
    /\ At("kids") \/ At("item kids")
    /\ Top.kids # <<>>
    /\ stack' = Append(Append(Front(stack), [Top EXCEPT !.kids = Tail(@)]),
                       Frame(KidParameter(Head(Top.kids)), "get"))
    /\ UNCHANGED <<command, phase, tokens, returned, notes, failures, history, databaseVars>>

OneDone ==
    /\ At("kids") /\ Top.kids = <<>>
    /\ Return(Top.success)
    /\ UNCHANGED <<command, phase, tokens, notes, failures, history, databaseVars>>

-----------------------------------------------------------------------------
Init ==
    /\ DatabaseInit
    /\ command \in Commands
    /\ phase = "load" /\ tokens = <<>> /\ stack = <<>>
    /\ returned = TRUE /\ notes = <<>> /\ failures = 0
    /\ asked = <<>> /\ lists = <<>> /\ itemFailed = FALSE

Next ==
    \/ Load \/ Loaded \/ RunQuery \/ Exit \/ RunSet
    \/ GetUnknown \/ GetBegins \/ GetNumber \/ GetIds \/ GetItem \/ ItemDone \/ ListDone
    \/ GetOne \/ GetKid \/ OneDone

Spec == Init /\ [][Next]_vars

\* The program runs, and each of its requests is answered or fails.
FairSpec == Spec /\ WF_vars(Next)

-----------------------------------------------------------------------------
Names == {f.name : f \in Files} \ {<<>>}

TypeOK ==
    /\ unread \subseteq Files
    /\ DOMAIN model_db \subseteq Names
    /\ \A n \in DOMAIN model_db : model_db[n] \in Files /\ model_db[n].name = n
    /\ model_roots \subseteq DOMAIN model_db
    /\ phase \in {"load", "query", "exit", "crashed"}
    /\ phase # "load" => \A n \in DOMAIN model_db : Range(m_children[n]) \subseteq DOMAIN model_db
    /\ \A k \in DOMAIN stack :
        /\ stack[k].at \in IF k < Len(stack) THEN {"kids", "item kids"}
                           ELSE {"get", "set", "number", "ids", "items", "item kids", "one", "kids"}
        /\ stack[k].i \in 1 .. Len(stack[k].ids) + 1
        /\ Range(stack[k].kids) \subseteq DOMAIN model_db
        /\ stack[k].at \in {"items", "item kids"} => Len(stack[k].ids) = stack[k].entries
    /\ returned \in BOOLEAN /\ failures \in 0 .. MaxFailures
    /\ Range(notes) \subseteq {"result", "error"}

\* Whatever the order of the files in the directory, each object of the model
\* is a root or the child of one other, and that is the object its name is
\* directly below (dmProviderDatabase.cpp:285-386).
TreeIsNesting ==
    phase # "load" =>
        /\ DOMAIN model_db = Names
        /\ \A n \in Names :
            LET parents == {p \in Names : \E k \in DOMAIN m_children[p] : m_children[p][k] = n} IN
            IF n \in model_roots THEN parents = {}
            ELSE \E p \in Names : parents = {p} /\ Len(n) = Len(p) + 1 /\ IsPrefix(p, n)

\* The walk over the tokens of a name finds the object the name is of, and none
\* for a name of nothing.  From here on the objects stay what they are
\* (dmProviderDatabase.cpp:416-471).
LookupAgrees ==
    phase = "load" /\ unread = {} => \A p \in Probes : getProviderByObjectName(p) = Named(p)

\* The client and the host, each from its own part of the request, come to the
\* same object, and that is the object the request is sent to; a value with a
\* dot in it aside (dmProviderDatabase.cpp:211-245, 562-585,
\* dmProviderHost.cpp:183-191, 252-260).
HostAgrees ==
    phase = "query" =>
        \A k \in DOMAIN command.params :
            LET q == command.params[k]
                host == IF command.op = "get" THEN HostGetObject(q) ELSE HostSetObject(q) IN
            Len(q.value) <= 1 /\ ~Refused(command.op, q) =>
                /\ InstanceName(command.op, q) = host
                /\ getProviderByObjectName(host) = ProviderOf(command.op, q)

QueryReturns == Len(stack) = 1 /\ stack' = <<>>
Asked == Whole(stack[1].parameter)

\* Is it the name of a list and a dot?
AsksForList(name) == isWildcard(name) /\ NamesList(trimWildcard(name))

\* Is it a wildcard, of no object?
AsksForNothing(name) == isWildcard(name) /\ Named(trimWildcard(name)) = NoProvider

Entries(name) ==
    IF trimWildcard(name) \in DOMAIN lists' THEN lists'[trimWildcard(name)] ELSE <<>>

\* A query that is not recursive is answered once, or, for a list whose entries
\* were learned, once for each of them (dmClient.h:31-32, dmcli.cpp:41-42,
\* dmClient.cpp:66-139).  Of a get for a wildcard nobody knows this is not so,
\* against what these comments say: runGet returns FALSE and the notifier is told
\* nothing (dmClient.cpp:53-58).
NotesPerQuery ==
    [][QueryReturns /\ ~command.recursive /\ ~(command.op = "get" /\ AsksForNothing(Asked)) =>
        Len(notes') =
            IF command.op = "get" /\ AsksForList(Asked) /\ Entries(Asked) # <<>>
            THEN Len(Entries(Asked)) ELSE 1]_vars

\* What such a query returns is whether all went well: TRUE if the notifier was
\* told something and no error (dmClient.cpp:100-107, 159-200).
TrueMeansNoError ==
    [][QueryReturns /\ ~command.recursive =>
        (returned' <=> notes' # <<>> /\ "error" \notin Range(notes'))]_vars

\* A recursive get asks once for every object below the one it was given, and
\* for every entry of every list below it, whichever of the requests on the way
\* fail, and for nothing else (dmClient.cpp:101-139).  A property of a list
\* without its entry aside: then the children of the list are taken for entries.
VisitsSubtree ==
    [][QueryReturns /\ command.recursive /\ notes' # <<>> /\ asked' # <<>>
            /\ (NamesList(ObjectPart(Asked)) => isWildcard(Asked)) =>
        LET visited == Range(asked')
            kids(p) == {trimPropertyName(kid) : kid \in Range(m_children[Named(p)])}
            list(p, kid) == Append(p, kid)
            isList(p, kid) == model_db[Append(Named(p), kid)].isList
            under(p) == {list(p, kid) : kid \in {c \in kids(p) : ~isList(p, c)}}
                            \cup UNION {{Append(list(p, kid), id) : id \in Range(lists'[list(p, kid)])} :
                                        kid \in {c \in kids(p) : isList(p, c)}}
            top == IF AsksForList(Asked)
                   THEN {Append(trimWildcard(Asked), id) : id \in Range(Entries(Asked))}
                   ELSE {ObjectPart(Asked)}
        IN  /\ Len(asked') = Cardinality(visited)
            /\ \A p \in visited : \A kid \in kids(p) :
                    isList(p, kid) => list(p, kid) \in DOMAIN lists'
            /\ visited = top \cup UNION {under(p) : p \in visited}]_vars

\* If the query of a list item fails, the get that made it returns FALSE
\* (dmClient.cpp:107).
ItemFailureReturned == [][QueryReturns /\ itemFailed' => ~returned']_vars

\* Every command line comes to its end: no recursion without one, and no wait
\* but for requests that are answered or fail (dmClient.cpp:38-141).
Terminates == <>(phase \in {"exit", "crashed"})
=============================================================================
