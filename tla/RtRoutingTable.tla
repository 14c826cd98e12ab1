--------------------------- MODULE RtRoutingTable ---------------------------
(***************************************************************************)
(* What the routing table (rtRoutingTree.c) is made of: the growing array  *)
(* that holds its entries, and beside it, with variables of its own, the   *)
(* loop that compares a topic with the expression of an entry.             *)
(***************************************************************************)
EXTENDS RtVector

CONSTANTS
    Dot, StarChar, GtChar, Nul,
    Inputs,        \* pairs <<topic, expression>> of strings
    Tokens(_),     \* the tokens a string is read as
    Places(_)      \* where in the string each of its tokens starts

VARIABLES topic, exp, t, e, running

matchVars == <<topic, exp, t, e, running>>

Match == INSTANCE RtTopicMatch

-----------------------------------------------------------------------------
\* The loop over characters answers what the reading in tokens says, whenever
\* the two strings are those of their tokens (rtRoutingTree.c:52-86).
AgreesWithTokens ==
    LET tt == Tokens(topic)
        et == Tokens(exp)
    IN  Match!AgreesWithTokens(tt, Places(tt), et, Places(et))

\* Neither pointer of that loop ever goes past the terminator of its string,
\* whatever the strings are: both are read again after it
\* (rtRoutingTree.c:74, :85).
PointersStayInside == Match!PointersStayInside
=============================================================================
