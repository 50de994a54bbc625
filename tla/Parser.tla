------------------------------- MODULE Parser -------------------------------
(***************************************************************************)
(* The parser of Orson: LOAD ORSON and its local functions, from NEXT      *)
(* TOKEN to NEXT EXPRESSION (load.c). It is a recursive descent parser     *)
(* that reads one token ahead. A function that meets a token it cannot use *)
(* reports an error and skips tokens until one of its follow set, and the  *)
(* parse goes on: an error makes no function return early.                 *)
(*                                                                         *)
(* An operator below is named after the function it models. It takes the   *)
(* parser's registers and returns them as the function leaves them, the    *)
(* object that the function returns in TREE, or in LIST if it is a list of *)
(* objects. An action is one turn of the main loop: it parses one clause   *)
(* of the source file and hands it to the transformer.                     *)
(***************************************************************************)
EXTENDS Tokens

CONSTANT Sources         \* the source files: sequences of raw tokens

VARIABLES
  source,                \* the source file that is read
  p,                     \* the parser's registers
  forest                 \* the clauses handed to the transformer

vars == <<source, p, forest>>

Fail(q, err) == [q EXCEPT !.errs = @ \cup {err}]
Got(q, tree) == [q EXCEPT !.tree = tree]
Kept(q, list) == [q EXCEPT !.list = list]

\* What E and F left, with their trees put at the end of the list of Q.
Added(q, e)        == Kept(e, Append(q.list, e.tree))
AddedBoth(q, e, f) == Kept(f, q.list \o <<e.tree, f.tree>>)

\* A tree made of the list, and a tree made of the trees of Q and R.
Made(r, hook)      == Got(r, Node(hook, r.list))
Joined(q, hook, r) == Got(r, Node(hook, <<q.tree, r.tree>>))

\* The token in hand is of a kind in SET.
At(q, set) == Kind(q.token) \in set

-----------------------------------------------------------------------------
(* Tokens.                                                                 *)

\* The next token other than a blank. An end of line is a token only if the
\* token before it ended a term; an illegal char is a blank, but it ends one.
RECURSIVE nextToken(_)
nextToken(q) ==
  IF q.at > Len(source) THEN [q EXCEPT !.token = "end", !.ends = FALSE]
  ELSE LET t == source[q.at]
           r == [q EXCEPT !.at = @ + 1]
       IN CASE t = "nl" -> IF q.ends
                           THEN [r EXCEPT !.token = "newline", !.ends = FALSE]
                           ELSE nextToken(r)
            [] t = "illegal" ->
                 nextToken([Fail(r, "illegalToken") EXCEPT !.ends = TRUE])
            [] OTHER -> [r EXCEPT !.token = t, !.ends = Kind(t) \in Enders,
                                  !.value = TokenLeaf(t, q.programs)]

nextExpected(q, expected, err) ==
  IF At(q, {expected}) THEN nextToken(q) ELSE Fail(q, err)

nextNewline(q) == IF At(q, {"newline"}) THEN nextToken(q) ELSE q

\* Skip to a token in FOLLOWERS. If the source ends and its end is not in
\* FOLLOWERS then the loop of the code never ends, and the parser is STUCK.
RECURSIVE Skipped(_, _)
Skipped(q, followers) ==
  CASE At(q, followers)  -> q
    [] At(q, {"end"})    -> [q EXCEPT !.stuck = TRUE]
    [] OTHER             -> Skipped(nextToken(q), followers)

nextRecovered(q, followers, err) == Skipped(Fail(q, err), followers)

\* The test at the start of a list: skip what can neither follow nor start it.
Started(q, followers, starters, err) ==
  IF At(q, followers \cup starters) THEN q
  ELSE nextRecovered(q, followers \cup starters, err)

\* The test after an element of a list: skip the comma, or end the list.
Separated(q, followers, enders, err) ==
  IF At(q, {","})
  THEN LET r == nextToken(q)
       IN IF At(r, termSet) THEN r
          ELSE nextRecovered(r, followers \cup termSet, err)
  ELSE IF At(q, enders) THEN q
  ELSE nextRecovered(q, followers \cup termSet, "token")

-----------------------------------------------------------------------------
(* Lists.                                                                  *)

\* The functions by which the others call each other in circles: NEXT and
\* what they parse.
RECURSIVE next(_, _, _)

\* One expression and what follows it, put at the end of the list.
OneExpression(q, followers, inner, enders) ==
  Separated(Added(q, nextNewline(next("expression", q, inner))),
            followers, enders, "assignment")

RECURSIVE MoreExpressions(_, _, _, _)
MoreExpressions(q, followers, inner, enders) ==
  IF ~ At(q, termSet) THEN q
  ELSE MoreExpressions(OneExpression(q, followers, inner, enders),
                       followers, inner, enders)

\* A list may be empty only where that is allowed.
ExpressionList(q, followers, allowEmpty) ==
  IF allowEmpty /\ ~ At(q, termSet) THEN q
  ELSE LET inner == followers \cup commaSet
       IN MoreExpressions(OneExpression(q, followers, inner, followers),
                          followers, inner, followers)

nextExpressions(q, followers, allowEmpty) ==
  ExpressionList(Kept(Started(q, followers, termSet, "assignment"), <<>>),
              followers, allowEmpty)

\* E or E1 : E2. The expressions after the colon become one list argument.
ListArgument(first, rest) ==
  Kept(rest, Append(first.list, Node("listMake", rest.list)))

ColonArguments(first, followers) ==
  IF ~ At(first, {":"}) THEN first
  ELSE ListArgument(first,
         MoreExpressions(
           Kept(Started(nextToken(first), followers, termSet, "assignment"), <<>>),
           followers, followers \cup commaSet, followers))

nextArguments(q, followers) ==
  ColonArguments(
    MoreExpressions(Kept(Started(q, followers, colonTermSet, "assignment"), <<>>),
                    followers, followers \cup colonCommaSet, followers \cup {":"}),
    followers)

\* The type of a parameter, and the name after it if there is one, put at the
\* end of the list of Q.
NamedParameter(q, type, allowMissing) ==
  LET named == nextNewline(nextToken(type))
      known == {q.list[i] : i \in {j \in DOMAIN q.list : j % 2 = 0}}
      added(r, name) == Kept(r, q.list \o <<type.tree, name>>)
  IN CASE At(type, {"name"}) /\ type.value \in known
            -> added(Fail(named, "repeatedName"), Stub)
       [] At(type, {"name"}) /\ type.value \notin known
            -> added(named, type.value)
       [] ~ At(type, {"name"}) /\ allowMissing -> added(type, NoName)
       [] OTHER -> added(Fail(type, "name"), Stub)

OneParameter(q, followers, allowMissing) ==
  Separated(NamedParameter(q, nextNewline(next("term", q, followers \cup commaNameSet)),
                           allowMissing),
            followers, followers, "term")

RECURSIVE MoreParameters(_, _, _)
MoreParameters(q, followers, allowMissing) ==
  IF ~ At(q, termSet) THEN q
  ELSE MoreParameters(OneParameter(q, followers, allowMissing),
                      followers, allowMissing)

ParameterList(q, followers, allowEmpty, allowMissing) ==
  IF allowEmpty /\ ~ At(q, termSet) THEN q
  ELSE MoreParameters(OneParameter(q, followers, allowMissing),
                      followers, allowMissing)

nextParameters(q, followers, allowEmpty, allowMissing) ==
  ParameterList(Kept(Started(q, followers, termSet, "term"), <<>>),
             followers, allowEmpty, allowMissing)

-----------------------------------------------------------------------------
(* Equates and sequences.                                                  *)

\* The type, the name and the value of an equate, put at the end of the list of
\* Q: NIL for a missing value and the joker OBJ for a missing type.
Equated(q, type, name, value) ==
  Kept(value, q.list \o <<type, name, value.tree>>)

EquateValue(q, term, followers) ==
  LET named  == nextToken(term)
      isName == IsNameTree(term.tree)
  IN CASE At(term, {"name"}) /\ At(named, {":-"}) ->
            Equated(q, term.tree, term.value,
                    next("expression", nextNewline(nextToken(named)), followers))
       [] At(term, {"name"}) /\ ~ At(named, {":-"}) ->
            Equated(q, term.tree, term.value, Got(named, Nil))
       [] OTHER ->
            Equated(q, Obj, IF isName THEN term.tree ELSE Stub,
                    next("expression",
                         nextExpected(IF isName THEN term ELSE Fail(term, "name"),
                                      ":-", "colonDash"), followers))

nextEquate(q, followers) ==
  EquateValue(q, nextNewline(next("term", q, colonDashNameSet)), followers)

\* The equates of a PROG or a WITH. Two of them with no separator in between
\* are an error, and both are kept.
RECURSIVE Equates(_, _)
MoreEquates(e, followers) ==
  CASE At(e, separatorSet) -> Equates(nextToken(e), followers)
    [] At(e, termSet)      -> Equates(Fail(e, "semicolon"), followers)
    [] OTHER               -> e
Equates(q, followers) ==
  IF ~ At(q, termSet) THEN q ELSE MoreEquates(nextEquate(q, followers), followers)

\* Expressions with separators in between and maybe at the end.
RECURSIVE Steps(_, _)
MoreSteps(q, followers) ==
  LET r == nextToken(q)
  IN CASE ~ At(q, separatorSet) -> q
       [] At(q, separatorSet) /\ At(r, termSet)   -> Steps(r, followers)
       [] At(q, separatorSet) /\ ~ At(r, termSet) -> r
Steps(q, followers) ==
  MoreSteps(Added(q, next("expression", q, followers)), followers)

Sequenced(s) ==
  Got(s, IF Len(s.list) = 1 THEN s.list[1] ELSE Node("last", s.list))

nextSubsequence(q, followers) ==
  Sequenced(Steps(Kept(q, <<>>), followers \cup semicolonSet))

\* S1 also S2 => (with U :- (S1) do S2; U)
AlsoDo(left, right) ==
  Got(right, Node("with", <<Obj, Stub, left.tree,
                            Node("last", <<right.tree, Stub>>)>>))

Also(left, followers) ==
  IF ~ At(left, {"also"}) THEN left
  ELSE AlsoDo(left, nextSubsequence(nextToken(left), followers))

nextSequence(q, followers) ==
  Also(nextSubsequence(q, followers \cup {"also"}), followers)

-----------------------------------------------------------------------------
(* Clauses, after the open parenthesis. Q.TOKEN is the token that says which. *)

\* (alt E), (alts E), (: E)
ListClause(q, hook) ==
  Made(nextExpressions(nextToken(q), closeParenSet, TRUE), hook)

RECURSIVE Cases(_)
MoreCases(q) == IF At(q, separatorSet) THEN Cases(nextToken(q)) ELSE q

CaseLabels(q) ==
  IF At(q, {"none"}) THEN Got(nextToken(q), Leaf("none"))
  ELSE Made(nextExpressions(q, colonSet, FALSE), "list")

OneCase(q, labels) ==
  AddedBoth(q, labels, next("expression", nextExpected(labels, ":", "colon"),
                            closeParenSemicolonSet))
Cases(q) ==
  IF ~ At(q, termSet) THEN q ELSE MoreCases(OneCase(q, CaseLabels(q)))

CaseOf(s) == Cases(Kept(nextExpected(s, "of", "of"), <<s.tree>>))

CaseClause(q) ==
  Made(CaseOf(next("sequence", nextToken(q), boldOfSet)), "case")

Caught(s) == Got(s, Apply(Leaf("catch"), <<s.tree>>))

CatchClause(q) == Caught(next("sequence", nextToken(q), closeParenSet))

\* The call that FOR and IN stand for: "for"((form (P) obj: S), E).
ForCall(pars, terms, body) ==
  Got(body, Apply(Leaf("for"),
        <<Node("formMake", <<Node("form", <<Node("list", pars), Obj>>), body.tree>>)>>
        \o terms))

ForBody(pars, terms) ==
  ForCall(pars, terms.list,
          next("sequence", nextExpected(terms, "do", "do"), closeParenSet))

ForTerms(pars) ==
  IF At(pars, {"in"}) THEN nextExpressions(nextToken(pars), boldDoCloseParenSet, FALSE)
  ELSE Kept(pars, <<>>)

ForIn(pars) == ForBody(pars.list, ForTerms(pars))

ForClause(q) == ForIn(nextParameters(nextToken(q), boldDoInSet, FALSE, TRUE))

InClause(q) ==
  ForBody(<<>>, nextExpressions(nextToken(q), boldDoCloseParenSet, FALSE))

\* A constructor T : S, or a sequence that starts with a type.
MakeBody(type, hook) ==
  IF At(type, {":"})
  THEN Joined(type, hook, next("sequence", nextToken(type), closeParenSet))
  ELSE type

MakeClause(q, hook) == MakeBody(next("sequence", q, closeParenColonSet), hook)

\* One turn of the loop of an IF: Q.TOKEN is IF.
RECURSIVE Branches(_)
Else(q) ==
  LET r == nextToken(q)
  IN CASE ~ At(q, {"else"}) -> Kept(q, Append(q.list, Skip))
       [] At(q, {"else"}) /\ At(r, {"if"})   -> Branches(r)
       [] At(q, {"else"}) /\ ~ At(r, {"if"}) ->
            Added(r, next("sequence", r, closeParenSet))
Then(q, test) ==
  Else(AddedBoth(q, test, next("sequence", nextExpected(test, "then", "then"),
                               boldElseCloseParenSet)))
Branches(q) == Then(q, next("sequence", nextToken(q), boldThenSet))

IfClause(q) == Made(Branches(Kept(q, <<>>)), "if")

PastClause(q) ==
  LET r == nextToken(q)
  IN IF At(r, {"name"}) THEN Got(nextToken(r), Node("past", <<r.value>>))
     ELSE Got(Fail(r, "name"), Node("past", <<Stub>>))

TupleClause(q) ==
  Made(nextParameters(nextToken(q), closeParenSet, TRUE, TRUE), "tuple")

WithDo(e) ==
  Made(Added(e, next("sequence", nextExpected(e, "do", "do"), closeParenSet)), "with")

WithClause(q) == WithDo(Equates(Kept(nextToken(q), <<>>), boldDoSemicolonSet))

\* A WHILE may have no DO.
WhileDo(test) ==
  IF At(test, {"do"})
  THEN Joined(test, "while", next("sequence", nextToken(test), closeParenSet))
  ELSE Got(test, Node("while", <<test.tree, Skip>>))

WhileClause(q) == WhileDo(next("sequence", nextToken(q), boldDoCloseParenSet))

nextClause(q) ==
  CASE At(q, {"alt"})         -> ListClause(q, "alt")
    [] At(q, {"alts"})        -> ListClause(q, "alts")
    [] At(q, {":"})           -> ListClause(q, "listMake")
    [] At(q, {"case"})        -> CaseClause(q)
    [] At(q, {"catch"})       -> CatchClause(q)
    [] At(q, {"for"})         -> ForClause(q)
    [] At(q, {"form", "gen"}) -> MakeClause(q, "formMake")
    [] At(q, {"if"})          -> IfClause(q)
    [] At(q, {"in"})          -> InClause(q)
    [] At(q, {"past"})        -> PastClause(q)
    [] At(q, {"proc"})        -> MakeClause(q, "procMake")
    [] At(q, {"tuple"})       -> TupleClause(q)
    [] At(q, {"with"})        -> WithClause(q)
    [] At(q, {"while"})       -> WhileClause(q)
    [] OTHER                  -> next("sequence", q, closeParenSet)

-----------------------------------------------------------------------------
(* Units.                                                                  *)

\* NONE, a name, a simple token, or a clause in parentheses.
Base(q) ==
  CASE At(q, {"none"})           -> Got(nextToken(q), Leaf("none"))
    [] At(q, {"name", "simple"}) -> Got(nextToken(q), q.value)
    [] At(q, {"("}) -> nextExpected(nextClause(nextToken(q)), ")", "closeParen")

\* X closed by CLOSER: the arguments of a postfix or a prefix bracket.
Bracketed(q, followers, closer, err) ==
  nextExpected(next("arguments", nextToken(q), followers), closer, err)
Braces(q)   == Bracketed(q, closeBraceSet, "}", "closeBrace")
Brackets(q) == Bracketed(q, closeBracketSet, "]", "closeBracket")

Selected(q, args, name) == Got(args, Apply(Leaf(name), <<q.tree>> \o args.list))
Applied(q, args)        == Got(args, Called(q.tree, args.list))

Member(q, dot) ==
  LET member(t) == Apply(Leaf("."), <<q.tree, Node("sym", <<t>>)>>)
  IN IF At(dot, {"name"}) THEN Got(nextToken(dot), member(dot.value))
     ELSE Got(Fail(dot, "name"), member(Stub))

\* The postfixes of the unit in Q.TREE.
RECURSIVE Postfixes(_)
Postfixes(q) ==
  CASE At(q, {"postfix"}) -> Postfixes(Got(nextToken(q), Apply(q.value, <<q.tree>>)))
    [] At(q, {"."}) -> Postfixes(Member(q, nextToken(q)))
    [] At(q, {"{"}) -> Postfixes(Selected(q, Braces(q), "{}r"))
    [] At(q, {"["}) -> Postfixes(Selected(q, Brackets(q), "[]r"))
    [] At(q, {"("}) ->
         Postfixes(Applied(q, Bracketed(q, closeParenSet, ")", "closeParen")))
    [] OTHER -> q

\* A unit that is followed by a token it may not be followed by is an error,
\* and the unit found by skipping, if there is one, takes its place.
RECURSIVE Units(_, _)
AfterUnit(q, followers) ==
  IF At(q, followers) THEN q
  ELSE Units(nextRecovered(q, followers \cup unitSet, "token"), followers)
Units(q, followers) ==
  IF ~ At(q, unitSet) THEN q ELSE AfterUnit(Postfixes(Base(q)), followers)

nextUnit(q, followers) ==
  Units(Got(IF At(q, unitSet) THEN q
            ELSE nextRecovered(q, followers \cup unitSet, "token"), Skip),
        followers)

-----------------------------------------------------------------------------
(* Terms.                                                                  *)

\* ( P ) before a type.
TypePrefix(q, allowEmpty, allowMissing) ==
  nextNewline(nextExpected(
    nextParameters(nextExpected(nextToken(q), "(", "openParen"),
                   closeParenSet, allowEmpty, allowMissing), ")", "closeParen"))

\* A FORM type with no GEN before it, or a PROC type.
Method(pars, hook, base) ==
  Got(base, Node(hook, <<Node("list", pars.list), base.tree>>))

MethodBase(pars, hook, followers) == Method(pars, hook, next("term", pars, followers))

FormTerm(q, followers) == MethodBase(TypePrefix(q, TRUE, TRUE), q.token, followers)

\* The parameter lists of a series of GEN prefixes, as a list of lists.
RECURSIVE Gens(_)
MoreGens(q) == IF At(q, {"gen"}) THEN Gens(q) ELSE q
OneGen(q, pars) == Kept(pars, Append(q.list, pars.list))
Gens(q) == MoreGens(OneGen(q, TypePrefix(q, FALSE, FALSE)))

\* Stubs for the names of the parameters PARS that are in NAMES.
Unshadowed(pars, names) ==
  [i \in DOMAIN pars |->
     IF i % 2 = 0 /\ pars[i] \in names THEN Stub ELSE pars[i]]
NamesOf(pars) == {pars[i] : i \in {j \in DOMAIN pars : j % 2 = 0}} \ {NoName, Stub}
NamesBefore(lists, n) == UNION {NamesOf(lists[i]) : i \in 1 .. n - 1}

\* The GEN prefixes LISTS[N], ..., LISTS[Len(LISTS) - 1] of a FORM type with the
\* parameters that are last in LISTS. A name that shadows a GEN name is an error.
RECURSIVE Wrapped(_, _, _)
Wrapped(lists, n, yield) ==
  Node(IF n = Len(lists) THEN "form" ELSE "gen",
       <<Node("list", Unshadowed(lists[n], NamesBefore(lists, n))),
         IF n = Len(lists) THEN yield ELSE Wrapped(lists, n + 1, yield)>>)

Generic(form, lists, yield) ==
  LET shadowed == \E n \in DOMAIN lists :
                     NamesOf(lists[n]) \cap NamesBefore(lists, n) # {}
  IN Got(IF shadowed THEN Fail(form, "shadowedGen") ELSE form,
         Wrapped(lists, 1, yield))

GenBase(gens, form) ==
  IF At(gens, {"form"})
  THEN Generic(form, Append(gens.list, form.tree.args[1].args), form.tree.args[2])
  ELSE Generic(form, Append(gens.list, <<>>), Obj)

GenForm(gens, followers) ==
  GenBase(gens, next("term", IF At(gens, {"form"}) THEN gens
                             ELSE Fail(gens, "formType"), followers))

GenTerm(q, followers) == GenForm(Gens(Kept(q, <<>>)), followers)

\* { E } T and [ E ] T, where E is as in NEXT ARGUMENTS.
Bracket(args, name, term) ==
  Got(term, Apply(Leaf(name), Append(args.list, term.tree)))

BracketTerm(args, name, followers) ==
  Bracket(args, name, next("term", nextNewline(args), followers))

Prefixed(q, term) == Got(term, Called(q.value, <<term.tree>>))

PrefixTerm(q, followers) == Prefixed(q, next("term", nextToken(q), followers))

nextTerm(q, followers) ==
  CASE At(q, {"form", "proc"})        -> FormTerm(q, followers)
    [] At(q, {"gen"})                 -> GenTerm(q, followers)
    [] At(q, {"{"})                   -> BracketTerm(Braces(q), "{}l", followers)
    [] At(q, {"["})                   -> BracketTerm(Brackets(q), "[]l", followers)
    [] At(q, {"prefix", "sumPrefix"}) -> PrefixTerm(q, followers)
    [] OTHER                          -> nextUnit(q, followers)

-----------------------------------------------------------------------------
(* Operators. Products and sums group to the left, AND and OR to the right, *)
(* a chain of comparisons is one call, and an assignment takes two sides.   *)

\* The operator in Q.TOKEN applied to the tree of Q and the tree of R.
Infix(q, r) == Got(r, Apply(q.value, <<q.tree, r.tree>>))

RECURSIVE Products(_, _)
Products(q, followers) ==
  IF ~ At(q, {"product"}) THEN q
  ELSE Products(Infix(q, next("term", nextToken(q), followers)), followers)

nextProduct(q, followers) ==
  LET f == followers \cup {"product"} IN Products(next("term", q, f), f)

RECURSIVE Sums(_, _)
Sums(q, followers) ==
  IF ~ At(q, sumSet) THEN q
  ELSE Sums(Infix(q, nextProduct(nextToken(q), followers)), followers)

nextSum(q, followers) ==
  LET f == followers \cup sumSet IN Sums(nextProduct(q, f), f)

\* The names of the operators of the chain are in the odd places of the list,
\* the sums after the first one in the even places.
Chained(q, r) == Kept(r, q.list \o <<q.value, r.tree>>)

RECURSIVE Comparisons(_, _)
Comparisons(q, followers) ==
  IF ~ At(q, comparisonSet) THEN q
  ELSE Comparisons(Chained(q, nextSum(nextToken(q), followers)), followers)

Chain(first, chain) ==
  LET n == Len(chain.list) \div 2
  IN IF n = 0 THEN first
     ELSE Got(chain, Apply(Appended([i \in 1 .. n |-> chain.list[2 * i - 1]]),
                           <<first.tree>> \o [i \in 1 .. n |-> chain.list[2 * i]]))

Compared(first, followers) ==
  Chain(first, Comparisons(Kept(first, <<>>), followers))

nextComparison(q, followers) ==
  LET f == followers \cup comparisonSet IN Compared(nextSum(q, f), f)

RECURSIVE nextConjunction(_, _)
And(left, followers) ==
  IF ~ At(left, {"and"}) THEN left
  ELSE Joined(left, "and", nextConjunction(nextToken(left), followers))
nextConjunction(q, followers) ==
  LET f == followers \cup {"and"} IN And(nextComparison(q, f), f)

RECURSIVE nextDisjunction(_, _)
Or(left, followers) ==
  IF ~ At(left, {"or"}) THEN left
  ELSE Joined(left, "or", nextDisjunction(nextToken(left), followers))
nextDisjunction(q, followers) ==
  LET f == followers \cup {"or"} IN Or(nextConjunction(q, f), f)

Assigned(left, followers) ==
  IF ~ At(left, {"assigner"}) THEN left
  ELSE Infix(left, nextDisjunction(nextToken(left), followers))

nextExpression(q, followers) ==
  Assigned(nextDisjunction(q, followers \cup {"assigner"}), followers)

next(what, q, followers) ==
  CASE what = "arguments"  -> nextArguments(q, followers)
    [] what = "expression" -> nextExpression(q, followers)
    [] what = "sequence"   -> nextSequence(q, followers)
    [] what = "term"       -> nextTerm(q, followers)

-----------------------------------------------------------------------------
(* The main loop.                                                          *)

\* The registers before the first token is read.
Registers == [at |-> 1, token |-> "blank", value |-> Nil, ends |-> FALSE,
              programs |-> 0, errs |-> {}, stuck |-> FALSE,
              tree |-> Nil, list |-> <<>>]

Init ==
  /\ source \in Sources
  /\ p = nextToken(Registers)
  /\ forest = <<>>

\* Skip what may come between two clauses.
Parted(q) ==
  CASE At(q, separatorSet) -> nextToken(q)
    [] At(q, termSet)      -> Fail(q, "semicolon")
    [] OTHER               -> q

\* The parse of a clause ends with the registers Q: the close parenthesis and
\* what may come between two clauses is skipped, and the clause in Q.TREE goes to
\* the transformer. C is written for a program if there was no error so far.
Handed(q) ==
  LET closed == nextExpected(q, ")", "closeParen")
  IN /\ p' = [Parted(closed) EXCEPT !.tree = Nil, !.list = <<>>, !.value = Nil]
     /\ forest' = Append(forest, [tree |-> q.tree,
                    emitted |-> q.tree.op = "prog" /\ closed.errs = {}])
     /\ UNCHANGED source

\* The token after an open parenthesis in hand.
Opened == nextToken(p)

Loaded(s) == Got(s, Node("load", <<s.tree>>))

LoadClause ==
  /\ At(p, {"("}) /\ At(Opened, {"load"})
  /\ Handed(Loaded(next("sequence", nextToken(Opened), closeParenSet)))

ProgClause ==
  /\ At(p, {"("}) /\ At(Opened, {"prog"})
  /\ LET q == [Opened EXCEPT !.programs = @ + 1, !.list = <<>>]
     IN Handed(Made(Equates(nextToken(q), closeParenSemicolonSet), "prog"))

OtherClause ==
  /\ At(p, {"("}) /\ ~ At(Opened, {"load", "prog"})
  /\ Handed(nextClause(Fail(Opened, "loadOrProg")))

\* A mistake: the error is reported and nothing is skipped.
ReportNoParen ==
  /\ ~ At(p, {"(", "end"})
  /\ p' = Fail(p, "openParen")
  /\ UNCHANGED <<source, forest>>

\* Tokens outside of all parentheses.
SkipToParen ==
  /\ ~ At(p, {"(", "end"})
  /\ p' = [Parted(Skipped(nextToken(Fail(p, "openParen")), {"(", "end"}))
             EXCEPT !.value = Nil]
  /\ UNCHANGED <<source, forest>>

Next == LoadClause \/ ProgClause \/ OtherClause \/ SkipToParen

Spec == Init /\ [][Next]_vars
=============================================================================
