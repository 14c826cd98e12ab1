------------------------------ MODULE DmDatabase ------------------------------
(***************************************************************************)
(* dmProviderDatabase.cpp with the names of dmUtility.h: the data model    *)
(* read from a directory, the tree of its objects, and how the name in a   *)
(* query is taken apart, by the client that sends it and by the host that  *)
(* answers it.                                                             *)
(*                                                                         *)
(* A name is the sequence of its tokens, those between the dots; one that  *)
(* ends in a dot has the empty token last.  A query string is a name and,  *)
(* for a set, the tokens of what stands behind the first "=".              *)
(***************************************************************************)
EXTENDS Integers, Sequences, SequencesExt, FiniteSets

CONSTANTS
    Files,    \* the directory: what makeProviderInfo makes of each file
    Probes    \* names that are looked up to see what is found

NotJson == [name |-> <<>>, isList |-> FALSE, props |-> <<>>]

(* Every object of a data model has a name, and one of several tokens: an  *)
(* object without a dot in its name would be its own parent.               *)
ASSUME FilesAssumption ==
    /\ IsFiniteSet(Files)
    /\ \A f \in Files :
        /\ f.isList \in BOOLEAN /\ f.name \in Seq(STRING) /\ f.props \in Seq(STRING)
        /\ f = NotJson \/ Len(f.name) > 1

ASSUME ProbesAssumption == \A p \in Probes : p \in Seq(STRING)

VARIABLES
    unread,         \* the files not yet loaded
    model_db,       \* [name -> dmProviderInfo]
    m_children,     \* [name -> children, in the order they were found]
    model_roots

databaseVars == <<unread, model_db, m_children, model_roots>>

-----------------------------------------------------------------------------
isWildcard(s) == Last(s) = ""
trimWildcard(s) == IF isWildcard(s) THEN Front(s) ELSE s
trimProperty(s) == IF Len(s) > 1 THEN Front(s) ELSE s
trimPropertyName(s) == Last(s)

Query(path) == [path |-> path, value |-> <<>>, braces |-> FALSE]
SetQuery(path, value, braces) == [path |-> path, value |-> value, braces |-> braces]

\* Two strings with a separator that is no dot between them.
Glue(x, sep, y) == Front(x) \o <<Last(x) \o sep \o Head(y)>> \o Tail(y)

Whole(q) == IF q.value = <<>> THEN q.path ELSE Glue(q.path, "=", q.value)

\* Bug to catch: a set of several properties is cut like a set of one.
trimSetProperty_NoBraces(q) == trimProperty(Whole(q))

\* Object={...} names the object; Object.Property=value is cut at the last dot
\* of the whole string, which may be in the value.
trimSetProperty(q) == IF q.braces THEN q.path ELSE trimProperty(Whole(q))

-----------------------------------------------------------------------------
NoProvider == <<>>

\* fullName gets a dot in front of the token unless it is still empty: the dots
\* a name begins with are lost.
Lengthen(full, token) == IF full = <<>> /\ token = "" THEN <<>> ELSE Append(full, token)

\* One token of the walk: an object known to the model, the instance of a list,
\* or, before any object is known, a part of a longer name.
WalkToken(w, token) ==
    LET full == Lengthen(w.full, token) IN
    CASE w.failed -> w
      [] ~w.failed /\ w.isList -> [w EXCEPT !.isList = FALSE, !.isListItem = TRUE]
      [] ~w.failed /\ ~w.isList /\ full \in DOMAIN model_db ->
            [w EXCEPT !.full = full, !.provider = full, !.isListItem = FALSE,
                      !.isList = model_db[full].isList]
      [] OTHER -> [w EXCEPT !.full = full, !.isListItem = FALSE,
                            !.failed = (w.provider # NoProvider)]

WalkBegins ==
    [full |-> <<>>, provider |-> NoProvider, isList |-> FALSE, isListItem |-> FALSE,
     failed |-> FALSE]

Beginnings(p) == {SubSeq(p, 1, k) : k \in 0 .. Len(p)}

\* Bug to catch: the instance of a list is still within the list.
Walk_StaysInList(p) ==
    LET walk[s \in Beginnings(p)] ==
            IF s = <<>> THEN {WalkBegins}
            ELSE {[WalkToken(w, Last(s)) EXCEPT !.isList = w.isList \/ @] : w \in walk[Front(s)]}
    IN  CHOOSE w \in walk[p] : TRUE

\* Where the walk is behind the last token, by way of all beginnings of a name.
\* There is one place, in a set so that it is computed once.
Walk(p) ==
    LET walk[s \in Beginnings(p)] ==
            IF s = <<>> THEN {WalkBegins} ELSE {WalkToken(w, Last(s)) : w \in walk[Front(s)]}
    IN  CHOOSE w \in walk[p] : TRUE

getProviderByObjectName(p) == IF Walk(p).failed THEN NoProvider ELSE Walk(p).provider

ObjectPart(s) == IF isWildcard(s) THEN trimWildcard(s) ELSE trimProperty(s)
getProviderByPropertyName(s) == getProviderByObjectName(ObjectPart(s))
IsListItem(s) == Walk(ObjectPart(s)).isListItem

\* createQuery: the provider of a query, which is not made without one, and
\* setQueryString: the object it is sent to.
ProviderOf(op, q) ==
    IF op = "get" THEN getProviderByPropertyName(Whole(q))
    ELSE getProviderByObjectName(trimSetProperty(q))

InstanceName(op, q) == IF op = "get" THEN ObjectPart(Whole(q)) ELSE trimSetProperty(q)

\* The object the host takes the properties of, given "name" (and "value").
HostGetObject(q) == ObjectPart(Whole(q))
HostSetObject(q) == IF q.braces THEN q.path ELSE ObjectPart(q.path)

-----------------------------------------------------------------------------
\* The map f with v at x.
Put(f, x, v) == [y \in DOMAIN f \cup {x} |-> IF y = x THEN v ELSE f[y]]

\* loadFile, in whatever order readdir gives the files: a file that cannot be
\* parsed is passed over, and a name that is known keeps its first object.
LoadFile(f) ==
    /\ f \in unread
    /\ unread' = unread \ {f}
    /\ model_db' = IF f = NotJson \/ f.name \in DOMAIN model_db THEN model_db
                   ELSE Put(model_db, f.name, f)
    /\ UNCHANGED <<m_children, model_roots>>

\* Bug to catch: an object is a child of every object its name begins with.
ChildrenOf_All(p) ==
    SetToSeq({n \in DOMAIN model_db : n # p /\ IsPrefix(p, n)})

\* The objects whose name without its last token is that of p.
ChildrenOf(p) == SetToSeq({n \in DOMAIN model_db : trimProperty(n) = p})

BuildProviderTree ==
    /\ unread = {}
    /\ m_children' = [p \in DOMAIN model_db |-> ChildrenOf(p)]
    /\ model_roots' = {n \in DOMAIN model_db : trimProperty(n) \notin DOMAIN model_db}
    /\ UNCHANGED <<unread, model_db>>

DatabaseInit ==
    /\ unread = Files
    /\ model_db = <<>>
    /\ m_children = <<>> /\ model_roots = {}

-----------------------------------------------------------------------------
(***************************************************************************)
(* What the walk is meant to find, said without walking.                   *)
(***************************************************************************)

IsListName(n) == n \in DOMAIN model_db /\ model_db[n].isList

\* Where the k-th token of the name n stands in the name of an instance of it:
\* there is one token more behind the name of each list on the way.
Place(n, k) == k + Cardinality({j \in 1 .. k - 1 : IsListName(SubSeq(n, 1, j))})
End(n) == Place(n, Len(n))

\* From the first that is one, all the beginnings of a name are names.
NoGap(n) ==
    \A k, l \in DOMAIN n :
        k < l /\ SubSeq(n, 1, k) \in DOMAIN model_db => SubSeq(n, 1, l) \in DOMAIN model_db

\* A name without the dots it begins with, which the walk passes over.
Dots(p) ==
    CHOOSE d \in 0 .. Len(p) : (\A k \in 1 .. d : p[k] = "") /\ (d < Len(p) => p[d + 1] # "")
Bare(p) == SubSeq(p, Dots(p) + 1, Len(p))

\* p, bare, is the name of an instance of n, or of n itself if n is a list.
IsNamed(p, n) ==
    /\ Len(p) = End(n) \/ (IsListName(n) /\ Len(p) = End(n) + 1)
    /\ \A k \in DOMAIN n : p[Place(n, k)] = n[k]
    /\ NoGap(n)

Named(p) ==
    LET bare == Bare(p) IN
    IF \E n \in DOMAIN model_db : IsNamed(bare, n)
    THEN CHOOSE n \in DOMAIN model_db : IsNamed(bare, n) ELSE NoProvider

NamesList(p) == IsListName(Named(p)) /\ Len(Bare(p)) = End(Named(p))
===============================================================================
