------------------------------- MODULE Tokens -------------------------------
(***************************************************************************)
(* The tokens of Orson, the trees the parser builds from them, and the     *)
(* start and follow sets of the parser (global.h, load.c).                 *)
(*                                                                         *)
(* A raw token is a string. A bold name or a mark of punctuation is of a   *)
(* kind of its own; one or two representatives stand for each other kind.  *)
(* "nl" is an end of line and "illegal" a char that starts no token: they  *)
(* are not tokens yet, because what they become depends on the token       *)
(* before them.                                                            *)
(***************************************************************************)
EXTENDS Sequences, Naturals

Names   == {"x", "y", "z"}
Secrets == {"A", "B"}            \* names that start with a capital letter
Hooks   == {"?h", "ref"}

\* The kind of a token: what global.h calls a token.
Kind(t) ==
  CASE t \in Names \cup Secrets -> "name"
    [] t \in {"1", "?h"}        -> "simple"
    [] t \in {"+", "-"}         -> "sumPrefix"
    [] t = "|"                  -> "sum"
    [] t \in {"*", "mod"}       -> "product"
    [] t \in {"<", ">"}         -> "comparison"
    [] t \in {":=", "+="}       -> "assigner"
    [] t \in {"not", "ref"}     -> "prefix"
    [] t = "@"                  -> "postfix"
    [] OTHER                    -> t

\* The kinds after which an end of line may end a term. NONE is not one.
Enders == {"name", "simple", "postfix", ")", "]", "}"}

(***************************************************************************)
(* Trees. A leaf is a token that has a value, or an object that the parser *)
(* makes up. A secret name belongs to a program, whose number is IN. The   *)
(* tree of a pair list has the car as its OP, and the rest as its ARGS.    *)
(* The positions in the source that pairs carry are left out.              *)
(***************************************************************************)
Leaf(op)       == [op |-> op, in |-> 0, args |-> <<>>]
Node(op, args) == [op |-> op, in |-> 0, args |-> args]

TokenLeaf(t, prog) == [Leaf(t) EXCEPT !.in = IF t \in Secrets THEN prog ELSE 0]

Skip   == Leaf("skip")
Nil    == Leaf("nil")
Obj    == Leaf("obj")            \* the joker OBJ
NoName == Leaf("noName")
Stub   == Leaf("stub")           \* a new name that appears nowhere else

IsNameTree(t) == t.args = <<>> /\ (Kind(t.op) = "name" \/ t.op = "stub")
IsHookTree(t) == t.args = <<>> /\ t.op \in Hooks \cup {"none"}

\* F applied to ARGS: a hook takes its arguments itself, anything else is the
\* first operand of the hook APPLY.
Apply(f, args)  == Node("apply", <<f>> \o args)
Called(f, args) == IF IsHookTree(f) THEN Node(f.op, args) ELSE Apply(f, args)

\* The name of a chain of comparisons is made from the names in the chain.
Appended(names) == IF Len(names) = 1 THEN names[1] ELSE Node("names", names)

-----------------------------------------------------------------------------
(* Start sets and follow sets.                                             *)

unitSet    == {"none", "name", "simple", "("}
termSet    == unitSet \cup {"form", "gen", "proc", "{", "[", "prefix", "sum",
                            "sumPrefix"}
postfixSet == {".", "{", "[", "(", "postfix"}

boldDoCloseParenSet    == {"do", ")", "end"}
boldDoInSet            == {"do", "in", ")", "end"}
boldDoSemicolonSet     == {"do", ")", "end", "newline", ";"}
boldElseCloseParenSet  == {"else", ")", "end"}
boldOfSet              == {"of", ")", "end"}
boldThenSet            == {"then", ")", "end"}
closeBraceSet          == {"}", "end"}
ClosedBracketSet       == {"]"}                 \* a mistake: it misses the end
closeBracketSet        == {"]", "end"}
closeParenSet          == {")", "end"}
closeParenColonSet     == {")", ":", "end"}
closeParenSemicolonSet == {")", "newline", "end", ";"}
colonSet               == {":", "end"}
colonCommaSet          == {":", ",", "end", "newline"}
colonDashNameSet       == {":-", "end", "name", "newline"}
colonTermSet           == termSet \cup {":", "end"}
CommaOnlySet           == {",", "end"}          \* a mistake: no new line
commaSet               == {",", "end", "newline"}
commaNameSet           == {",", "end", "name", "newline"}
comparisonSet          == {"comparison"}
semicolonSet           == {"end", "newline", ";"}
sumSet                 == {"sum", "sumPrefix"}

separatorSet == {"newline", ";"}
=============================================================================
