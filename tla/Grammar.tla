------------------------------ MODULE Grammar -------------------------------
(***************************************************************************)
(* The language of Orson, stated apart from its parser: what the comments  *)
(* of load.c say each function parses, as a grammar that knows nothing of  *)
(* tokens in hand, follow sets and error recovery. A symbol of the grammar *)
(* derives a part of the tokens of a source file in no way, in one way or  *)
(* in many; each way gives a list of trees and the place after the part.   *)
(***************************************************************************)
EXTENDS Tokens, SequencesExt

\* The tokens of a source file: an end of line is one if the token before it,
\* the last that is not an end of line, ends a term.
RECURSIVE Tokenised(_, _)
Tokenised(raw, ends) ==
  IF raw = <<>> THEN <<>>
  ELSE LET t == Head(raw)
       IN CASE t = "nl" /\ ends   -> <<"newline">> \o Tokenised(Tail(raw), FALSE)
            [] t = "nl" /\ ~ ends -> Tokenised(Tail(raw), FALSE)
            [] OTHER -> <<t>> \o Tokenised(Tail(raw), Kind(t) \in Enders)

\* The program that encloses place I: programs are not nested.
ProgramAt(toks, i) == Cardinality({j \in 1 .. i : toks[j] = "prog"})

Way(list, next) == [list |-> list, next |-> next]
As(op, ways) == {[w EXCEPT !.list = <<Node(op, @)>>] : w \in ways}
Those(ways, Test(_)) == {w \in ways : Test(w.list)}
To(ways, Tree(_)) == {[w EXCEPT !.list = <<Tree(@)>>] : w \in ways}
Listed(ways) == As("list", ways)

\* A chain of operands with operators in between, as one tree.
LeftTree(chain) ==
  FoldLeft(LAMBDA t, i : Apply(chain[2 * i], <<t, chain[2 * i + 1]>>),
           chain[1], [i \in 1 .. Len(chain) \div 2 |-> i])
RECURSIVE RightTree(_, _)
RightTree(op, l) == IF Len(l) = 1 THEN l[1]
                    ELSE Node(op, <<l[1], RightTree(op, Tail(l))>>)
ChainTree(chain) ==
  LET n == Len(chain) \div 2
  IN IF n = 0 THEN chain[1]
     ELSE Apply(Appended([i \in 1 .. n |-> chain[2 * i]]),
                [i \in 1 .. n + 1 |-> chain[2 * i - 1]])

SequenceTree(l) == IF Len(l) = 1 THEN l[1] ELSE Node("last", l)
AlsoTree(l) == IF Len(l) = 1 THEN l[1] ELSE
               Node("with", <<Obj, Stub, l[1], Node("last", <<l[2], Stub>>)>>)
MakeTree(hook, l) == IF Len(l) = 1 THEN l[1] ELSE Node(hook, l)
EquateList(l) == IF l[2] = Obj THEN <<Obj, l[1], l[3]>> ELSE l
ForTree(pars, body, terms) ==
  Apply(Leaf("for"), <<Node("formMake", <<Node("form", <<pars, Obj>>), body>>)>>
                     \o terms)

\* The postfix POST attached to the tree UNIT.
Attached(unit, post) ==
  CASE post.op = "postfix" -> Apply(post.args[1], <<unit>>)
    [] post.op = "sym"     -> Apply(Leaf("."), <<unit, post>>)
    [] post.op = "call"    -> Called(unit, post.args)
    [] OTHER               -> Apply(Leaf(post.op), <<unit>> \o post.args)
UnitTree(l) == FoldLeft(Attached, Head(l), Tail(l))

Parameters(list) == {list[i] : i \in {j \in DOMAIN list : j % 2 = 0}} \ {NoName}
AllApart(list) == \A i, j \in {k \in DOMAIN list : k % 2 = 0} :
                     list[i] = list[j] /\ list[i] # NoName => i = j

\* The lists of parameters of a FORM type and of the GEN prefixes before it.
RECURSIVE Scopes(_)
Scopes(t) == <<t.args[1].args>> \o IF t.op = "gen" THEN Scopes(t.args[2]) ELSE <<>>
NoShadow(t) == LET s == Scopes(t)
               IN \A i, j \in DOMAIN s :
                    i # j => Parameters(s[i]) \cap Parameters(s[j]) = {}

Punctuation == {"(", ")", "[", "]", "{", "}", ",", ":", ":-", ";", "newline", ".",
                "prog", "load", "alt", "alts", "case", "of", "catch", "for", "in",
                "do", "form", "gen", "proc", "if", "then", "else", "past", "tuple",
                "with", "while", "also", "and", "or"}
Valued == {"name", "simple", "none", "postfix", "prefix", "sumPrefix", "sum",
           "product", "comparison", "assigner"}

RECURSIVE G(_, _, _), Row(_, _, _)

\* The ways in which the symbols SYMS derive one part after the other.
Row(toks, syms, i) ==
  IF syms = <<>> THEN {Way(<<>>, i)}
  ELSE UNION {{Way(w.list \o v.list, v.next) : v \in Row(toks, Tail(syms), w.next)}
              : w \in G(toks, Head(syms), i)}

\* The ways in which the symbol SYM derives a part of TOKS that starts at I.
G(toks, sym, i) ==
  LET S(syms) == Row(toks, syms, i)
      here(k) == i <= Len(toks) /\ Kind(toks[i]) = k
      starts(set) == i <= Len(toks) /\ Kind(toks[i]) \in set
  IN
  CASE sym \in Punctuation -> IF here(sym) THEN {Way(<<>>, i + 1)} ELSE {}
    [] sym \in Valued ->
         IF here(sym) THEN {Way(<<TokenLeaf(toks[i], ProgramAt(toks, i))>>, i + 1)}
         ELSE {}
    [] sym = "Nl"  -> S(<<>>) \cup S(<<"newline">>)
    [] sym = "Sep" -> S(<<"newline">>) \cup S(<<";">>)
    \* operators
    [] sym = "Expr" -> To(S(<<"Disj", "Expr*">>), LeftTree)
    [] sym = "Disj" -> To(S(<<"Conj", "Disj*">>), LAMBDA l : RightTree("or", l))
    [] sym = "Conj" -> To(S(<<"Comp", "Conj*">>), LAMBDA l : RightTree("and", l))
    [] sym = "Comp" -> To(S(<<"Sum", "Comp*">>), ChainTree)
    [] sym = "Sum"  -> To(S(<<"Prod", "Sum*">>), LeftTree)
    [] sym = "Prod" -> To(S(<<"Term", "Prod*">>), LeftTree)
    [] sym = "Expr*" -> S(<<>>) \cup S(<<"assigner", "Disj">>)
    [] sym = "Disj*" -> S(<<>>) \cup S(<<"or", "Conj", "Disj*">>)
    [] sym = "Conj*" -> S(<<>>) \cup S(<<"and", "Comp", "Conj*">>)
    [] sym = "Comp*" -> S(<<>>) \cup S(<<"comparison", "Sum", "Comp*">>)
    [] sym = "Sum*"  -> S(<<>>) \cup S(<<"sum", "Prod", "Sum*">>)
                                \cup S(<<"sumPrefix", "Prod", "Sum*">>)
    [] sym = "Prod*" -> S(<<>>) \cup S(<<"product", "Term", "Prod*">>)
    \* terms and units
    [] sym = "Term" ->
         UNION {S(<<"Unit">>), S(<<"FormType">>), S(<<"GenType">>),
           As("proc", S(<<"proc", "(", "Params?", ")", "Nl", "Term">>)),
           To(S(<<"prefix", "Term">>), LAMBDA l : Called(l[1], <<l[2]>>)),
           To(S(<<"sumPrefix", "Term">>), LAMBDA l : Apply(l[1], <<l[2]>>)),
           To(S(<<"{", "Args", "}", "Nl", "Term">>), LAMBDA l : Apply(Leaf("{}l"), l)),
           To(S(<<"[", "Args", "]", "Nl", "Term">>), LAMBDA l : Apply(Leaf("[]l"), l))}
    [] sym = "FormType" -> As("form", S(<<"form", "(", "Params?", ")", "Nl", "Term">>))
    [] sym = "GenType" ->
         Those(As("gen", S(<<"gen", "(", "Params", ")", "Nl", "FormType">>)
                         \cup S(<<"gen", "(", "Params", ")", "Nl", "GenType">>)),
               LAMBDA l : NoShadow(l[1]))
    [] sym = "Unit" -> To(S(<<"Base", "Post*">>), UnitTree)
    [] sym = "Base" -> UNION {S(<<"none">>), S(<<"name">>), S(<<"simple">>),
                              S(<<"(", "Clause", ")">>)}
    [] sym = "Post*" -> S(<<>>) \cup S(<<"Post", "Post*">>)
    [] sym = "Post" ->
         UNION {As("postfix", S(<<"postfix">>)), As("sym", S(<<".", "name">>)),
                As("{}r", S(<<"{", "Args", "}">>)), As("[]r", S(<<"[", "Args", "]">>)),
                As("call", S(<<"(", "Args", ")">>))}
    \* lists
    [] sym = "Exprs"  -> S(<<"Expr", "Nl", "Exprs*">>)
    [] sym = "Exprs*" -> S(<<>>) \cup S(<<",", "Exprs">>)
    [] sym = "Exprs?" -> S(<<>>) \cup S(<<"Exprs">>)
    [] sym = "Args"  -> S(<<"Exprs?", "List?">>)
    [] sym = "List?" -> S(<<>>) \cup S(<<"List">>)
    [] sym = "List" -> As("listMake", S(<<":", "Exprs?">>))
    [] sym = "Named" -> S(<<"Term", "Nl", "name", "Nl">>)
    [] sym = "Named*" -> S(<<"Named">>) \cup S(<<"Named", ",", "Named*">>)
    [] sym = "Param" -> S(<<"Term", "Nl", "Name">>)
    [] sym = "Name"  -> {Way(<<NoName>>, i)} \cup S(<<"name", "Nl">>)
    [] sym = "Param*"  -> S(<<"Param", "Param**">>)
    [] sym = "Param**" -> S(<<>>) \cup S(<<",", "Param*">>)
    [] sym = "Params"    -> Listed(Those(S(<<"Named*">>), AllApart))
    [] sym = "ForParams" -> Listed(Those(S(<<"Param*">>), AllApart))
    [] sym = "Params?"   -> Listed(S(<<>>)) \cup S(<<"ForParams">>)
    \* equates and sequences
    [] sym = "Equate" -> {[w EXCEPT !.list = EquateList(@)] :
                           w \in Those(S(<<"Term", "Nl", "Bound">>),
                                       LAMBDA l : l[2] = Obj => IsNameTree(l[1]))}
    [] sym = "Bound"  -> S(<<"name", "Value">>) \cup
         {[w EXCEPT !.list = <<Obj>> \o @] : w \in S(<<":-", "Expr">>)}
    [] sym = "Value"  -> {Way(<<Nil>>, i)} \cup S(<<":-", "Expr">>)
    [] sym = "Equates"  -> S(<<>>) \cup S(<<"Equate", "Equates*">>)
    [] sym = "Equates*" -> S(<<>>) \cup S(<<"Sep", "Equates">>)
    [] sym = "Steps"  -> S(<<"Expr", "Steps*">>)
    [] sym = "Steps*" -> UNION {S(<<>>), S(<<"Sep">>), S(<<"Sep", "Steps">>)}
    [] sym = "Sub"    -> To(S(<<"Steps">>), SequenceTree)
    [] sym = "Seq"    -> To(S(<<"Sub", "Also">>), AlsoTree)
    [] sym = "Also"   -> S(<<>>) \cup S(<<"also", "Sub">>)
    \* clauses
    [] sym = "Clause" ->
         UNION {As("alt", S(<<"alt", "Exprs?">>)), As("alts", S(<<"alts", "Exprs?">>)),
           S(<<"List">>),
           As("case", S(<<"case", "Seq", "of", "Cases">>)),
           To(S(<<"catch", "Seq">>), LAMBDA l : Apply(Leaf("catch"), l)),
           To(S(<<"for", "ForParams", "In", "do", "Seq">>),
              LAMBDA l : ForTree(l[1], l[3], l[2].args)),
           To(S(<<"in", "ExprList", "do", "Seq">>),
              LAMBDA l : ForTree(Node("list", <<>>), l[2], l[1].args)),
           As("if", S(<<"Ifs">>)),
           As("past", S(<<"past", "name">>)),
           {[w EXCEPT !.list = <<[@[1] EXCEPT !.op = "tuple"]>>] : w \in S(<<"tuple", "Params?">>)},
           As("with", S(<<"with", "Equates", "do", "Seq">>)),
           As("while", S(<<"while", "Seq", "Do">>)),
           CASE starts({"form", "gen"}) -> To(S(<<"Seq", "Body">>), LAMBDA l : MakeTree("formMake", l))
             [] starts({"proc"})        -> To(S(<<"Seq", "Body">>), LAMBDA l : MakeTree("procMake", l))
             [] OTHER                   -> S(<<"Seq">>)}
    [] sym = "Body" -> S(<<>>) \cup S(<<":", "Seq">>)
    [] sym = "Do" -> {Way(<<Skip>>, i)} \cup S(<<"do", "Seq">>)
    [] sym = "In" -> {Way(<<Node("list", <<>>)>>, i)} \cup S(<<"in", "ExprList">>)
    [] sym = "ExprList" -> Listed(S(<<"Exprs">>))
    [] sym = "Label" -> S(<<"none">>) \cup (IF starts({"none"}) THEN {} ELSE S(<<"ExprList">>))
    [] sym = "Cases"  -> S(<<>>) \cup S(<<"Label", ":", "Expr", "Cases*">>)
    [] sym = "Cases*" -> S(<<>>) \cup S(<<"Sep", "Cases">>)
    [] sym = "Ifs"  -> S(<<"if", "Seq", "then", "Seq", "Else">>)
    [] sym = "Else" -> UNION {{Way(<<Skip>>, i)}, S(<<"else", "Seq">>), S(<<"else", "Ifs">>)}
    \* source files
    [] sym = "Top" -> UNION {As("prog", S(<<"(", "prog", "Equates", ")">>)),
                             As("load", S(<<"(", "load", "Seq", ")">>))}
    [] sym = "File"  -> S(<<>>) \cup S(<<"Top", "File*">>)
    [] sym = "File*" -> S(<<>>) \cup S(<<"Sep", "File">>)

\* The lists of clauses that a source file may be read as.
Meanings(raw) ==
  LET toks == Tokenised(raw, FALSE)
  IN {w.list : w \in {v \in G(toks, "File", 1) : v.next = Len(toks) + 1}}
=============================================================================
