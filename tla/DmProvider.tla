------------------------------ MODULE DmProvider ------------------------------
(***************************************************************************)
(* dmProvider.cpp, with the one kind of provider the repository has that   *)
(* makes use of transactions (EndPointObject, sample_provider_wifi.cpp).   *)
(* A request is a list of parameters, answered one after the other; a set  *)
(* of several is a transaction, in which setters put their values aside    *)
(* for the provider to take over, or not, at its end.                      *)
(***************************************************************************)
EXTENDS Integers, Sequences, SequencesExt

CONSTANTS
    Objects,        \* the providers, by the name of their object
    Staged,         \* properties whose setter asks isTransaction
    Virtual,        \* properties served by the doGet and doSet of the provider
    Fixed,          \* properties that cannot be written
    Missing,        \* properties nobody serves
    Values,
    Empty           \* the empty string

ASSUME ProviderAssumption == Empty \in Values

(* One table says of a property who serves it.                             *)
ASSUME KindsAssumption ==
    /\ Staged \cap (Virtual \cup Fixed \cup Missing) = {}
    /\ Virtual \cap (Fixed \cup Missing) = {}
    /\ Fixed \cap Missing = {}

Props == Staged \cup Virtual \cup Fixed \cup Missing

VARIABLES
    store,          \* what the provider holds
    staged,         \* what its setters have put aside
    isTransaction,
    work,           \* the request being answered: object, op, params, place
    result          \* the dmQueryResult so far

providerVars == <<store, staged, isTransaction, work, result>>

Param(p, v) == [prop |-> p, value |-> v]
Answer(p, v, code) == [prop |-> p, value |-> v, code |-> code]
NoWork == [object |-> "none", op |-> "none", params |-> <<>>, at |-> 0]

Working(op) == work.op = op /\ work.at <= Len(work.params)
Done == work.op # "none" /\ work.at > Len(work.params)
Current == work.params[work.at]
Many == Len(work.params) > 1

Answers(answer) ==
    /\ result' = Append(result, answer)
    /\ work' = [work EXCEPT !.at = @ + 1]

-----------------------------------------------------------------------------
Start(o, op, params) ==
    /\ work' = [object |-> o, op |-> op, params |-> params, at |-> 1]
    /\ result' = <<>>

StartGet(o, params) ==
    /\ Start(o, "get", params)
    /\ UNCHANGED <<store, staged, isTransaction>>

\* A set of more than one parameter begins a transaction.
StartSet(o, params) ==
    /\ Start(o, "set", params)
    /\ IF Len(params) > 1
       THEN /\ isTransaction' = [isTransaction EXCEPT ![o] = TRUE]
            /\ staged' = [staged EXCEPT ![o] = [p \in Staged |-> Empty]]
       ELSE UNCHANGED <<isTransaction, staged>>
    /\ UNCHANGED store

\* The getter, or else doGet of the provider, or else "not found".
GetNext ==
    /\ Working("get")
    /\ Answers(IF Current.prop \in Missing
               THEN Answer(Current.prop, Empty, "not found")
               ELSE Answer(Current.prop, store[work.object][Current.prop], "ok"))
    /\ UNCHANGED <<store, staged, isTransaction>>

\* A property that cannot be written is answered with an error, and the
\* transaction goes on.
RefuseFixed ==
    /\ Working("set") /\ Current.prop \in Fixed
    /\ Answers(Answer(Current.prop, Empty, "error"))
    /\ UNCHANGED <<store, staged, isTransaction>>

\* The setter.
SetNext ==
    /\ Working("set") /\ Current.prop \in Staged
    /\ IF isTransaction[work.object]
       THEN /\ staged' = [staged EXCEPT ![work.object][Current.prop] = Current.value]
            /\ UNCHANGED store
       ELSE /\ store' = [store EXCEPT ![work.object][Current.prop] = Current.value]
            /\ UNCHANGED staged
    /\ Answers(Answer(Current.prop, Current.value, "ok"))
    /\ UNCHANGED isTransaction

\* No setter: doSet of the provider, which sets it at once or does not know it.
SetVirtual ==
    /\ Working("set") /\ Current.prop \in Virtual \cup Missing
    /\ IF Current.prop \in Virtual
       THEN /\ store' = [store EXCEPT ![work.object][Current.prop] = Current.value]
            /\ Answers(Answer(Current.prop, Current.value, "ok"))
       ELSE /\ Answers(Answer(Current.prop, Empty, "not found"))
            /\ UNCHANGED store
    /\ UNCHANGED <<staged, isTransaction>>

\* Bug to catch: one value is enough to take over what was put aside.
Complete_One(o) == \E p \in Staged : staged[o][p] # Empty

\* endTransaction takes the values over if there is one for each.
Complete(o) == \A p \in Staged : staged[o][p] # Empty

\* Bug to catch: the flag is left set when the transaction ends.
Ended_KeepsFlag(o) == isTransaction

Ended(o) == [isTransaction EXCEPT ![o] = FALSE]

TakenOver(o) ==
    [store EXCEPT ![o] = [p \in Props \ Missing |-> IF p \in Staged THEN staged[o][p] ELSE @[p]]]

Finish ==
    /\ Done
    /\ LET o == work.object IN
        IF work.op = "set" /\ Many
        THEN /\ store' = IF Complete(o) THEN TakenOver(o) ELSE store
             /\ staged' = [staged EXCEPT ![o] = [p \in Staged |-> Empty]]
             /\ isTransaction' = Ended(o)
        ELSE UNCHANGED <<store, staged, isTransaction>>
    /\ work' = [work EXCEPT !.op = "none"]
    /\ UNCHANGED result

ProviderInit ==
    /\ store = [o \in Objects |-> [p \in Props \ Missing |-> Empty]]
    /\ staged = [o \in Objects |-> [p \in Staged |-> Empty]]
    /\ isTransaction = [o \in Objects |-> FALSE]
    /\ work = NoWork /\ result = <<>>

ProviderStep == GetNext \/ RefuseFixed \/ SetNext \/ SetVirtual \/ Finish

-----------------------------------------------------------------------------
\* What a transaction takes over it takes over together, and all of it from the
\* request that was the transaction: nothing is left from an earlier one, and
\* no half of one is seen (dmProvider.cpp:66-106, sample_provider_wifi.cpp:92-108).
LastValue(params, p) ==
    params[CHOOSE k \in DOMAIN params :
              /\ params[k].prop = p
              /\ \A l \in k + 1 .. Len(params) : params[l].prop # p].value

NoHalfTransaction ==
    [][\A o \in Objects :
        isTransaction[o] /\ (\E p \in Staged : store'[o][p] # store[o][p]) =>
            \A p \in Staged :
                /\ \E k \in DOMAIN work.params : work.params[k].prop = p
                /\ store'[o][p] = LastValue(work.params, p)]_providerVars

\* A set of one property that is answered "ok" has taken effect, also after
\* transactions that failed (dmProvider.cpp:81-106).
SingleSetTakesEffect ==
    work.op = "set" /\ Done /\ ~Many /\ result # <<>> /\ Last(result).code = "ok" =>
        store[work.object][Last(result).prop] = Last(result).value
=============================================================================
