---------------------------- MODULE RtTopicMatch ----------------------------
(***************************************************************************)
(* rtRoutingTree_IsTopicMatch (rtRoutingTree.c:52-86): two pointers walk   *)
(* the characters of a topic and of an expression.  One step of the model  *)
(* is one turn of the loop.                                                *)
(***************************************************************************)
EXTENDS Naturals, Sequences, FiniteSetsExt

CONSTANTS
    Dot, StarChar, GtChar,    \* the characters '.', '*' and '>'
    Nul,                      \* the terminator
    Inputs                    \* pairs <<topic, expression>> of strings

\* What a char const* points to: characters before the first terminator.
IsString(s) ==
    /\ Len(s) \in Nat /\ DOMAIN s = 1 .. Len(s)
    /\ \A p \in DOMAIN s : s[p] # Nul

InputsAreStrings == \A input \in Inputs : IsString(input[1]) /\ IsString(input[2])

VARIABLES
    topic, exp,
    t, e,                     \* the pointers: positions, Len + 1 at the Nul
    running

vars == <<topic, exp, t, e, running>>

\* *p, the terminator included.
Char(s, p) == IF p <= Len(s) THEN s[p] ELSE Nul

Init ==
    /\ \E input \in Inputs : topic = input[1] /\ exp = input[2]
    /\ t = 1 /\ e = 1
    /\ running = TRUE

\* while (*t && *t != '.') t++
SkipToken(p) == Min({q \in p .. Len(topic) : topic[q] = Dot} \cup {Len(topic) + 1})

\* Bug to catch: '*' stands for one character.
AfterStar_OneChar == IF Char(exp, e) = StarChar THEN <<t + 1, e + 1>> ELSE <<t, e>>

\* Where the pointers are after the '*' test of the loop.
AfterStar ==
    IF Char(exp, e) = StarChar THEN <<SkipToken(t), e + 1>> ELSE <<t, e>>

\* Where they are after the '>' test, which sees what the '*' test left.
AfterGt ==
    IF Char(exp, AfterStar[2]) = GtChar
    THEN <<Len(topic) + 1, AfterStar[2] + 1>>
    ELSE AfterStar

\* Bug to catch: the end of both strings is not looked for.
BothEnded_Never(p) == FALSE

BothEnded(p) == Char(topic, p[1]) = Nul /\ Char(exp, p[2]) = Nul

\* One turn that goes on: the characters agree and both pointers advance.
Advance ==
    /\ running
    /\ Char(topic, t) # Nul /\ Char(exp, e) # Nul
    /\ ~BothEnded(AfterGt)
    /\ Char(topic, AfterGt[1]) = Char(exp, AfterGt[2])
    /\ t' = AfterGt[1] + 1 /\ e' = AfterGt[2] + 1
    /\ UNCHANGED <<topic, exp, running>>

\* One turn that breaks out, both strings used up or two characters differing.
Break ==
    /\ running
    /\ Char(topic, t) # Nul /\ Char(exp, e) # Nul
    /\ \/ BothEnded(AfterGt)
       \/ Char(topic, AfterGt[1]) # Char(exp, AfterGt[2])
    /\ t' = AfterGt[1] /\ e' = AfterGt[2]
    /\ running' = FALSE
    /\ UNCHANGED <<topic, exp>>

\* The loop's condition fails.
LoopEnds ==
    /\ running
    /\ Char(topic, t) = Nul \/ Char(exp, e) = Nul
    /\ running' = FALSE
    /\ UNCHANGED <<topic, exp, t, e>>

Next == Advance \/ Break \/ LoopEnds

Spec == Init /\ [][Next]_vars

\* return !( *t || *e )
IsTopicMatch == BothEnded(<<t, e>>)

-----------------------------------------------------------------------------
(***************************************************************************)
(* What the strings are read as: tokens with a dot between each two.       *)
(***************************************************************************)
Star == <<StarChar>>
Gt == <<GtChar>>

CharsDiffer ==
    Nul \notin {Dot, StarChar, GtChar} /\ Dot \notin {StarChar, GtChar} /\ StarChar # GtChar

IsName(token) ==
    /\ Len(token) \in Nat \ {0} /\ token = [p \in 1 .. Len(token) |-> token[p]]
    /\ \A p \in 1 .. Len(token) : token[p] \notin {Dot, StarChar, GtChar, Nul}

IsTopic(tokens) == Len(tokens) \in Nat \ {0} /\ \A k \in 1 .. Len(tokens) : IsName(tokens[k])

\* '>' only makes sense as the last token of an expression.
IsExpression(tokens) ==
    /\ Len(tokens) \in Nat \ {0}
    /\ \A k \in 1 .. Len(tokens) :
        IsName(tokens[k]) \/ tokens[k] = Star \/ (tokens[k] = Gt /\ k = Len(tokens))

\* s is the string of these tokens, and each of them starts at its place.
Spells(s, tokens, places) ==
    /\ places[1] = 1
    /\ \A k \in 1 .. Len(tokens) :
        LET end == places[k] + Len(tokens[k]) IN
        /\ places[k] \in 1 .. Len(s)
        /\ \A p \in 1 .. Len(tokens[k]) : s[places[k] + p - 1] = tokens[k][p]
        /\ IF k = Len(tokens) THEN end = Len(s) + 1
           ELSE end \in 1 .. Len(s) /\ s[end] = Dot /\ places[k + 1] = end + 1

Reading == INSTANCE RtTopics

\* The answer is the one that the reading in tokens gives.
Answers(tt, et) == ~running => (IsTopicMatch <=> Reading!TokenMatch(tt, et))

-----------------------------------------------------------------------------
(* The loop over characters answers what the reading in tokens says: '*'   *)
(* matches exactly one token and '>' one or more, at every place and for   *)
(* tokens that are prefixes of each other (rtRoutingTree.c:52-86).         *)
AgreesWithTokens(tt, tp, et, ep) ==
    /\ IsTopic(tt) /\ Spells(topic, tt, tp)
    /\ IsExpression(et) /\ Spells(exp, et, ep)
    => Answers(tt, et)

\* Neither pointer ever goes past the terminator of its string, whatever the
\* strings are: both are read again after the loop (rtRoutingTree.c:74, :85).
PointersStayInside == t \in 1 .. Len(topic) + 1 /\ e \in 1 .. Len(exp) + 1
=============================================================================
