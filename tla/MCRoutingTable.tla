--------------------------- MODULE MCRoutingTable ---------------------------
(***************************************************************************)
(* The two parts the routing table is made of.  The vector, with a block   *)
(* that grows at every second push; and the matching of topics: every      *)
(* well-formed topic of at most three tokens against every well-formed     *)
(* expression of at most three, the tokens being a, b and ab so that one   *)
(* is a prefix of another, and every short string against every short      *)
(* string, empty tokens and wildcards in odd places included, for which    *)
(* nothing is promised about the answer.  Neither part touches the other,  *)
(* so a behaviour is about one of them: the vector only moves beside the   *)
(* empty pair of strings.                                                  *)
(***************************************************************************)
EXTENDS RtRoutingTable, SequencesExt

CONSTANTS a, b, MaxTokens, MaxLength

Names == {<<a>>, <<b>>, <<a, b>>}

TokenSeqs(tokens) == UNION {[1 .. n -> tokens] : n \in 1 .. MaxTokens}

TopicTokens == TokenSeqs(Names)

ExpTokens ==
    {s \in TokenSeqs(Names \cup {<<StarChar>>, <<GtChar>>}) :
        \A k \in 1 .. Len(s) - 1 : s[k] # <<GtChar>>}

\* The string of a name: its tokens with a dot between each two.
Join(tokens) ==
    FoldLeft(LAMBDA s, token : IF s = <<>> THEN token ELSE s \o <<Dot>> \o token,
             <<>>, tokens)

WellFormedInputs ==
    {<<Join(tt), Join(et)>> : tt \in TopicTokens, et \in ExpTokens}

Strings(chars) == UNION {[1 .. len -> chars] : len \in 0 .. MaxLength}

MCInputs ==
    WellFormedInputs \cup (Strings({a, Dot}) \X Strings({a, Dot, StarChar, GtChar}))

\* The tokens of a string: the splitting that Join undoes.
MCTokens(s) ==
    FoldLeft(LAMBDA parts, c :
                 IF c = Dot THEN Append(parts, <<>>)
                 ELSE [parts EXCEPT ![Len(parts)] = Append(@, c)],
             <<<<>>>>, s)

\* Where each token starts.
MCPlaces(tokens) ==
    [k \in DOMAIN tokens |-> FoldLeft(LAMBDA at, token : at + Len(token) + 1, 1,
                                      SubSeq(tokens, 1, k - 1))]

ASSUME InputsAssumption == Match!InputsAreStrings /\ Match!CharsDiffer

\* The well-formed strings are read as what they were made of.
ASSUME ReadingAssumption ==
    \A input \in WellFormedInputs :
        LET tt == Tokens(input[1])
            et == Tokens(input[2])
        IN  /\ Match!IsTopic(tt) /\ Match!Spells(input[1], tt, Places(tt))
            /\ Match!IsExpression(et) /\ Match!Spells(input[2], et, Places(et))

NoInput == topic = <<>> /\ exp = <<>>

MCInit == Create /\ Match!Init

MCNext ==
    \/ NoInput /\ Next /\ UNCHANGED matchVars
    \/ Match!Next /\ UNCHANGED vars

MCSpec == MCInit /\ [][MCNext]_<<vars, matchVars>>
=============================================================================
