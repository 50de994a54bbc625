------------------------------ MODULE Lexemes -------------------------------
(***************************************************************************)
(* The lexemes of Orson, each kind as a set of spellings, stated apart     *)
(* from how they are read, and what they say of the tokens of Lexer. The   *)
(* operators speak of the chars of the file from the place I to J.         *)
(***************************************************************************)
EXTENDS Lexer

Spelling(i, j)    == Chars(i, j + 1)
AllIn(i, j, set)  == \A k \in i .. j : text[k] \in set
NoneIn(i, j, set) == \A k \in i .. j : text[k] \notin set

Assigners ==
  {<<":", "=">>, <<"<", "<", "=">>, <<">", ">", "=">>, <<"+", "=">>, <<"-", "=">>,
   <<"cap", "=">>, <<"*", "=">>, <<"|", "=">>}
Comparisons ==
  {<<"<">>, <<"<", "=">>, <<"<", ">">>, <<"=">>, <<">">>, <<">", "=">>, <<"in">>}
Products  == {<<"<", "<">>, <<">", ">">>, <<"cap">>, <<"*">>}
Marks     == Openers \cup Closers \cup {".", ":"}

(* Names. *)
IsWord(i, j)   == text[i] \in Letters /\ AllIn(i, j, isNameChar)
IsQuoted(i, j) == i < j /\ text[i] = Quote /\ text[j] = Quote /\ NoneIn(i + 1, j - 1, {Quote, "eos"})
IsName(i, j)   == IsQuoted(i, j) \/ (IsWord(i, j) /\ Spelling(i, j) \notin Bold)
IsDollar(i, j) == text[i] = "$" /\ (i = j \/ (i < j /\ IsName(i + 1, j)))

(* Numbers. *)
IsDigits(i, j, radix) ==
  /\ AllIn(i, j, isTridecahexialChar)
  /\ \E k \in i .. j : text[k] # Low
  /\ \A k \in i .. j : text[k] = Low \/ Value(text[k]) < radix
IsDecimal(i, j)  == IsDigits(i, j, 10) /\ text[i] # Low
IsHex(i, j)      == text[i] = "#" /\ IsDigits(i + 1, j, 16)
IsRadix(i, j)    == \E m \in i .. j :
                      /\ text[m] = "#" /\ IsDecimal(i, m - 1)
                      /\ Decimal(Chars(i, m)) \in 2 .. 36
                      /\ IsDigits(m + 1, j, Decimal(Chars(i, m)))
IsScale(i, j)    == /\ i < j /\ text[i] \in {"e", "E"}
                    /\ IsDigits(IF text[i + 1] \in {"+", "-"} THEN i + 2 ELSE i + 1, j, 10)
IsReal(i, j)     == \E m, n \in i .. j :
                      /\ text[m] = "." /\ m < n
                      /\ IsDecimal(i, m - 1) /\ AllIn(m + 1, n, isDecimalChar)
                      /\ n = j \/ IsScale(n + 1, j)
IsNumber(i, j)   == IsDecimal(i, j) \/ IsRadix(i, j) \/ IsReal(i, j) \/ IsHex(i, j)

(* A char of a literal, slashed or not. A hexadecimal one may end with \_. *)
IsHexChar(i, j) == text[i] = "\\" /\ i < j /\ text[i + 1] = "#" /\ IsDigits(i + 2, j, 16)
IsCharOf(i, j) ==
  \/ i = j /\ text[i] \notin {"'", "\\", "eos"}
  \/ j = i + 1 /\ text[i] = "\\" /\ text[j] \in {"'", "\\", "0", "a", "A", "e", "E", "f", "n"}
  \/ IsHexChar(i, j)
  \/ i + 2 < j /\ IsHexChar(i, j - 2) /\ text[j - 1] = "\\" /\ text[j] = Low

(* What may be between the apostrophes of a string literal, cut into parts: *)
(* no two apostrophes in a row, but for one at the end.                     *)
IsPart(i, j) == IsCharOf(i, j) \/ (i < j /\ text[i] = "'" /\ IsCharOf(i + 1, j))
IsBody(i, j) ==
  \E cuts \in SUBSET (i .. j + 1) :
    /\ {i, j + 1} \subseteq cuts
    /\ \A c \in cuts : \/ c = j + 1
                       \/ c = j /\ text[j] = "'"
                       \/ \E d \in cuts : c < d /\ IsPart(c, d - 1)
IsLiteral(i, j) ==
  \/ i + 1 < j /\ text[i] = "'" /\ text[j] = "'" /\ IsCharOf(i + 1, j - 1)
  \/ i + 2 < j /\ AllIn(i, i + 1, {"'"}) /\ AllIn(j - 1, j, {"'"}) /\ IsBody(i + 2, j - 2)

IsLexeme(kind, i, j) ==
  CASE kind = "assigner"   -> Spelling(i, j) \in Assigners
    [] kind = "comparison" -> Spelling(i, j) \in Comparisons
    [] kind = "product"    -> Spelling(i, j) \in Products
    [] kind = "sumPrefix"  -> Spelling(i, j) \in {<<"+">>, <<"-">>}
    [] kind = "sum"        -> Spelling(i, j) = <<"|">>
    [] kind = "postfix"    -> Spelling(i, j) \in {<<"@">>, <<"up">>}
    [] kind = "prefix"     -> Spelling(i, j) = <<"neg">>
    [] kind = "and"        -> Spelling(i, j) = <<"wedge">>
    [] kind = ":-"         -> Spelling(i, j) = <<":", "-">>
    [] kind = "if"         -> Spelling(i, j) = <<"i", "f">>
    [] kind = "in"         -> Spelling(i, j) = <<"i", "n">>
    [] kind = "name"       -> IsName(i, j)
    [] kind = "simple"     -> IsDollar(i, j) \/ IsNumber(i, j) \/ IsLiteral(i, j)
    [] OTHER               -> Spelling(i, j) = <<kind>>

LexemeKinds ==
  {"assigner", "comparison", "product", "sumPrefix", "sum", "postfix", "prefix", "and",
   ":-", "if", "in", "name", "simple"} \cup Marks

Lexemes(i, j) == {kind \in LexemeKinds : IsLexeme(kind, i, j)}

-----------------------------------------------------------------------------
(***************************************************************************)
(* Properties.                                                             *)
(***************************************************************************)

LastToken == tokens[Len(tokens)]

\* A token that is read without an error is a lexeme of its kind, and the
\* longest one on its line that starts where it starts: the functions of the
\* kinds of tokens, which look at most two chars ahead, agree with the spellings.
LongestMatch ==
  (/\ tokens # <<>> /\ LastToken.kind # "newline" /\ LastToken.errs = {}
   /\ LastToken.to <= Len(text) /\ NoneIn(LastToken.from, LastToken.to - 1, {"eos"}))
  => /\ Lexemes(LastToken.from, LastToken.to - 1) = {LastToken.kind}
     /\ \A j \in LastToken.to .. Len(text) :
          NoneIn(LastToken.to, j, {"eos"}) => Lexemes(LastToken.from, j) = {}

\* An end of line becomes a token exactly if the token before it, on the same
\* line, is of a kind that may end a term, or if an illegal char is in between:
\* every function of a kind of token leaves TOKEN ENDS TERM as its kind says.
LinesEnd ==
  \A k \in DOMAIN tokens :
    LET last    == IF k = 1 THEN 1 ELSE tokens[k - 1].to
        between == {Char(i) : i \in last .. tokens[k].from - 1}
        ender   == k > 1 /\ tokens[k - 1].kind \in Enders
    IN IF tokens[k].kind = "newline" THEN ender \/ Illegal \cap between # {}
       ELSE ender => "eos" \notin between

=============================================================================
