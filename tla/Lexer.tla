------------------------------- MODULE Lexer --------------------------------
(***************************************************************************)
(* How LOAD ORSON reads tokens (load.c): NEXT CHAR, NEXT TOKEN, and a      *)
(* function for each kind of token. The parser takes the tokens one by one *)
(* and is left out, so a step of the module is one turn of the loop of     *)
(* NEXT TOKEN: it reads a token, or something that is none.                *)
(*                                                                         *)
(* A char is a string. "eos" is the end of a line and "eop" the end of the *)
(* file; "g" is a Greek letter, and the chars of ILLEGAL start no token.    *)
(***************************************************************************)
EXTENDS Tokens, SequencesExt

CONSTANT Texts       \* sets of files: sequences of chars that end with "eos"

VARIABLES
  text,              \* the file that is read
  at,                \* the place of CH
  ends,              \* TOKEN ENDS TERM
  tokens             \* the tokens read so far

vars == <<text, at, ends, tokens>>

Low      == "_"
Blank    == " "
Quote    == "\""
Openers  == {"(", ",", ";", "[", "{"}
Closers  == {")", "]", "}"}
Digits   == {"0", "1", "9"}
Lowers   == {"a", "e", "n", "i", "f"}
Capitals == {"A", "E"}
Letters  == Lowers \cup Capitals \cup {"g"}

isDecimalChar       == Digits \cup {Low}
isHexadecimalChar   == Digits \cup {"a", "e", "f", "A", "E"}
isTridecahexialChar == Digits \cup Lowers \cup Capitals \cup {Low}
isNameChar          == Letters \cup Digits \cup {"'"}

\* The names of the table BOLD NAMES that can be spelt with these letters.
Bold == {<<"i", "f">>, <<"i", "n">>}

Value(c) == CASE c = "0" -> 0 [] c = "1" -> 1 [] c = "9" -> 9
              [] c \in {"a", "A"} -> 10 [] c \in {"e", "E"} -> 14
              [] c = "f" -> 15 [] c = "i" -> 18 [] c = "n" -> 23

-----------------------------------------------------------------------------
(* Chars. At the end of the file NEXT LINE makes lines of a lone EOP.      *)

Char(i) == IF i <= Len(text) THEN text[i]
           ELSE IF (i - Len(text)) % 2 = 1 THEN "eop" ELSE "eos"

\* NEXT NEXT CHAR sees a blank instead of the end of the line.
nextNextChar(i) == IF Char(i + 1) = "eos" THEN Blank ELSE Char(i + 1)

\* The first place from I on whose char is not in SET, or is in SET.
After(i, set)  == CHOOSE j \in i .. Len(text) + 2 :
                    Char(j) \notin set /\ \A k \in i .. j - 1 : Char(k) \in set
Until(i, set)  == CHOOSE j \in i .. Len(text) + 2 :
                    Char(j) \in set /\ \A k \in i .. j - 1 : Char(k) \notin set
Chars(i, j)    == [k \in 1 .. j - i |-> Char(i + k - 1)]
Without(s, c)  == SelectSeq(s, LAMBDA d : d # c)

\* A token of KIND that ends before the place TO and has the string WORD.
Token(kind, ender, to, word, errs) ==
  [kind |-> kind, ends |-> ender, to |-> to, word |-> word, errs |-> errs]

-----------------------------------------------------------------------------
(* Marks and operators.                                                    *)

nextEnder(i, kind)    == Token(kind, TRUE, i + 1, <<>>, {})
nextNonender(i, kind) == Token(kind, FALSE, i + 1, <<>>, {})
nextDot(i)            == Token(".", FALSE, i + 1, <<>>, {})
nextPostfix(i)        == Token("postfix", TRUE, i + 1, Chars(i, i + 1), {})
nextPrefix(i)         == Token("prefix", FALSE, i + 1, Chars(i, i + 1), {})
nextRelation(i)       == Token("comparison", FALSE, i + 1, Chars(i, i + 1), {})

Operator(i, kind, length) ==
  Token(kind, FALSE, i + length, Chars(i, i + length), {})

nextColon(i) ==
  CASE Char(i + 1) = "-" -> Token(":-", FALSE, i + 2, <<>>, {})
    [] Char(i + 1) = "=" -> Operator(i, "assigner", 2)
    [] OTHER             -> Token(":", FALSE, i + 1, <<>>, {})

nextInfix(i, kind) ==
  IF Char(i + 1) = "=" THEN Operator(i, "assigner", 2) ELSE Operator(i, kind, 1)

\* A mistake: << is taken before <<= is seen.
nextShortLess(i) ==
  CASE Char(i + 1) = "<"         -> Operator(i, "product", 2)
    [] Char(i + 1) \in {"=", ">"} -> Operator(i, "comparison", 2)
    [] OTHER                     -> Operator(i, "comparison", 1)

nextLess(i) ==
  CASE Char(i + 1) = "<" /\ Char(i + 2) = "=" -> Operator(i, "assigner", 3)
    [] Char(i + 1) = "<" /\ Char(i + 2) # "=" -> Operator(i, "product", 2)
    [] Char(i + 1) \in {"=", ">"}             -> Operator(i, "comparison", 2)
    [] OTHER                                  -> Operator(i, "comparison", 1)

nextGreater(i) ==
  CASE Char(i + 1) = ">" /\ Char(i + 2) = "=" -> Operator(i, "assigner", 3)
    [] Char(i + 1) = ">" /\ Char(i + 2) # "=" -> Operator(i, "product", 2)
    [] Char(i + 1) = "="                      -> Operator(i, "comparison", 2)
    [] OTHER                                  -> Operator(i, "comparison", 1)

-----------------------------------------------------------------------------
(* Names.                                                                  *)

\* A mistake: a bold name ends a term too.
nextEndingName(i) ==
  LET j    == After(i, isNameChar)
      word == Chars(i, j)
  IN IF word \in Bold
     THEN Token(IF word = <<"i", "f">> THEN "if" ELSE "in", TRUE, j, word, {})
     ELSE Token("name", TRUE, j, word, {})

nextName(i) ==
  LET j    == After(i, isNameChar)
      word == Chars(i, j)
  IN IF word \in Bold
     THEN Token(IF word = <<"i", "f">> THEN "if" ELSE "in", FALSE, j, word, {})
     ELSE Token("name", TRUE, j, word, {})

\* The number of the enclosing program is put after a secret name.
nextSecretName(i) ==
  LET j == After(i, isNameChar)
  IN Token("name", TRUE, j, Chars(i, j) \o <<Low, "N">>, {})

\* Adjacent blanks of a quoted name become one blank.
nextQuotedName(i) ==
  LET j      == Until(i + 1, {Quote, "eos"})
      quoted == Chars(i, j)
      kept   == {k \in DOMAIN quoted :
                   k = 1 \/ quoted[k] # Blank \/ quoted[k - 1] # Blank}
      word   == [k \in 1 .. Cardinality(kept) |->
                   quoted[CHOOSE m \in kept : Cardinality({n \in kept : n <= m}) = k]]
      full   == Append(word, Quote)
  IN IF Char(j) = Quote THEN Token("name", TRUE, j + 1, full, {})
     ELSE Token("name", TRUE, j, full, {"quote"})

\* $N, where the name N may be missing.
nextDollar(i) ==
  LET c    == Char(i + 1)
      name == CASE c \in Capitals           -> nextSecretName(i + 1)
                [] c \in Letters \ Capitals -> nextName(i + 1)
                [] c = Quote                 -> nextQuotedName(i + 1)
                [] OTHER                    -> Token("name", TRUE, i + 1, <<>>, {})
  IN Token("simple", TRUE, name.to, <<"$">> \o name.word,
           name.errs \cup IF name.kind = "name" THEN {} ELSE {"name"})

\* A hook is an error, whatever its name, but in the prelude (ALLOW HOOKS), which
\* is left out.
nextHook(i) ==
  LET j == After(i + 1, isNameChar)
  IN Token("simple", TRUE, j, Chars(i, j), {"hook"})

-----------------------------------------------------------------------------
(* Numbers. How large a number may be is left out.                         *)

\* There is a digit among underscores.
HasDigit(digits) == \E k \in DOMAIN digits : digits[k] # Low

\* What strtoul makes of decimal digits.
Decimal(digits) == FoldLeft(LAMBDA n, c : 10 * n + Value(c), 0, Without(digits, Low))

\* The integer with these digits, which may be no digits of the radix.
Integer(to, digits, radix, errs) ==
  Token("simple", TRUE, to, Without(digits, Low), errs \cup
    IF HasDigit(digits) /\ \A k \in DOMAIN digits : digits[k] = Low \/ Value(digits[k]) < radix
    THEN {} ELSE {"illegalNumber"})

nextHexadecimalNumber(i) ==
  LET j == After(i + 1, isHexadecimalChar \cup {Low})
  IN Integer(j, Chars(i + 1, j), 16, {})

nextNumber(i) ==
  LET whole    == After(i, isDecimalChar)
      radix    == Decimal(Chars(i, whole))
      isRadix  == radix \in 2 .. 36
      digits   == After(whole + 1, isTridecahexialChar)
      fraction == After(whole + 1, isDecimalChar)
      signed   == IF Char(fraction + 1) \in {"+", "-"} THEN fraction + 2
                  ELSE fraction + 1
      scale    == After(signed, isDecimalChar)
      isScaled == Char(fraction) \in {"E", "e"}
      to       == IF isScaled THEN scale ELSE fraction
      noScale  == isScaled /\ ~HasDigit(Chars(signed, scale))
  IN CASE Char(whole) = "#" ->
            Integer(digits, Chars(whole + 1, digits), IF isRadix THEN radix ELSE 36,
                    IF isRadix THEN {} ELSE {"illegalRadix"})
       [] Char(whole) = "." /\ nextNextChar(whole) \in isDecimalChar ->
            Token("simple", TRUE, to, Without(Chars(i, to), Low),
                  IF noScale THEN {"illegalNumber"} ELSE {})
       [] OTHER -> Integer(whole, Chars(i, whole), 10, {})

-----------------------------------------------------------------------------
(* Char and string literals.                                               *)

\* The char at place I, which may have a slash before it: the char it means,
\* the place after it, and the errors in it. At the end of a line a slash is an
\* error that leaves the end alone, but the end itself is a char like any other.
nextSlashedChar(i) ==
  LET c    == Char(i + 1)
      hex  == After(i + 2, isHexadecimalChar \cup {Low})
      last == IF Char(hex) = "\\" /\ nextNextChar(hex) = Low THEN hex + 2 ELSE hex
      Slashed(w, to, errs) == [word |-> w, to |-> to, errs |-> errs]
  IN CASE Char(i) # "\\"             -> Slashed(Char(i), i + 1, {})
       [] Char(i) = "\\" /\ c = "#"  ->
            Slashed("hex", last, IF HasDigit(Chars(i + 2, hex)) THEN {} ELSE {"illegalNumber"})
       [] Char(i) = "\\" /\ c \in {"'", "\\"} -> Slashed(c, i + 2, {})
       [] Char(i) = "\\" /\ c = "eos"         -> Slashed(Blank, i + 1, {"slashable"})
       [] Char(i) = "\\" /\ c \in {"0", "a", "A", "e", "E", "f", "n"} ->
            Slashed("control", i + 2, {})
       [] OTHER                               -> Slashed(Blank, i + 2, {"slashable"})

\* The places where a char of a literal may start.
Places == 1 .. Len(text) + 2

\* One turn of the loop that reads a string literal: the chars it adds, the place
\* after them, the errors in them, and if the loop ends there.
StringTurn(i) ==
  LET char  == nextSlashedChar(i)
      after == nextSlashedChar(i + 1)
      Turn(to, word, errs, last) == [to |-> to, word |-> word, errs |-> errs, last |-> last]
  IN CASE Char(i) = "eos"                        -> Turn(i, <<>>, {"apostrophes"}, TRUE)
       [] Char(i) \notin {"'", "eos"}            -> Turn(char.to, <<char.word>>, char.errs, FALSE)
       [] Char(i) = "'" /\ Char(i + 1) = "eos"   -> Turn(i + 1, <<>>, {"apostrophes"}, TRUE)
       [] Char(i) = "'" /\ Char(i + 1) = "'"     ->
            IF Char(i + 2) = "'" THEN Turn(i + 3, <<"'">>, {}, TRUE) ELSE Turn(i + 2, <<>>, {}, TRUE)
       [] OTHER -> Turn(after.to, <<"'", after.word>>, after.errs, FALSE)

\* The rest of a string literal from place I on.
StringFrom[i \in Places] ==
  LET turn == StringTurn(i)
      rest == StringFrom[turn.to]
  IN IF turn.last THEN turn
     ELSE [turn EXCEPT !.to   = rest.to,
                       !.word = @ \o rest.word,
                       !.errs = @ \cup rest.errs]

\* The place after the apostrophe that ends the char literal, or the end of line.
SkipChars[i \in Places] ==
  CASE Char(i) = "eos" -> i
    [] Char(i) = "'"   -> i + 1
    [] OTHER           -> SkipChars[nextSlashedChar(i).to]

nextApostrophe(i) ==
  LET char == nextSlashedChar(i + 1)
      rest == StringFrom[i + 2]
  IN CASE Char(i + 1) = "'" -> Token("simple", TRUE, rest.to, rest.word, rest.errs)
       [] Char(i + 1) # "'" /\ Char(char.to) = "'" ->
            Token("simple", TRUE, char.to + 1, <<char.word>>, char.errs)
       [] OTHER ->
            Token("simple", TRUE, SkipChars[char.to], <<char.word>>,
                  char.errs \cup {"apostrophe"})

-----------------------------------------------------------------------------
(* NEXT TOKEN.                                                             *)

\* The token that starts with an Ascii char at place I.
AsciiToken(i) ==
  LET c == Char(i)
  IN CASE c = Quote          -> nextQuotedName(i)
       [] c = "#"           -> nextHexadecimalNumber(i)
       [] c = "$"           -> nextDollar(i)
       [] c = "*"           -> nextInfix(i, "product")
       [] c = "'"           -> nextApostrophe(i)
       [] c \in Openers     -> nextNonender(i, c)
       [] c \in Closers     -> nextEnder(i, c)
       [] c \in {"+", "-"}  -> nextInfix(i, "sumPrefix")
       [] c = "|"           -> nextInfix(i, "sum")
       [] c = "."           -> nextDot(i)
       [] c \in Digits      -> nextNumber(i)
       [] c = ":"           -> nextColon(i)
       [] c = "<"           -> nextLess(i)
       [] c = "="           -> nextRelation(i)
       [] c = ">"           -> nextGreater(i)
       [] c = "?"           -> nextHook(i)
       [] c = "@"           -> nextPostfix(i)
       [] c = "neg"         -> nextPrefix(i)
       [] c \in Capitals    -> nextSecretName(i)
       [] c \in Lowers      -> nextName(i)

\* The token that starts with a Greek letter or with a mathematical symbol.
SymbolToken(i) ==
  CASE Char(i) = "g"     -> nextName(i)
    [] Char(i) = "cap"   -> nextInfix(i, "product")
    [] Char(i) = "up"    -> nextPostfix(i)
    [] Char(i) = "wedge" -> nextNonender(i, "and")
    [] Char(i) = "in"    -> nextRelation(i)

Illegal == {"%", "\\", Low}
Symbols == {"g", "cap", "up", "wedge", "in"}

\* Every line ends, the last one too, and the end of the file is no char of it.
Alphabet == Letters \cup Digits \cup Symbols \cup Illegal \cup Openers \cup Closers \cup
  {"eos", Blank, "!", Quote, "#", "$", "*", "'", "+", "-", "|", ".", ":", "<", "=", ">",
   "?", "@", "neg"}

ASSUME LexerAssumption ==
  \A files \in Texts : \A t \in files :
    t \in Seq(Alphabet) /\ (t # <<>> => t[Len(t)] = "eos")

Init ==
  /\ \E files \in Texts : text \in files
  /\ at = 1
  /\ ends = FALSE
  /\ tokens = <<>>

\* A token, with the place FROM of its first char (TOKEN COUNT).
Emit(token, from) ==
  tokens' = Append(tokens, [kind |-> token.kind, from |-> from, to |-> token.to,
                            word |-> token.word, errs |-> token.errs])

ReadToken ==
  /\ Char(at) \notin {"eos", "eop", Blank, "!"} \cup Illegal
  /\ LET t == IF Char(at) \in Symbols THEN SymbolToken(at) ELSE AsciiToken(at)
     IN /\ at' = t.to
        /\ ends' = t.ends
        /\ Emit(t, at)
  /\ UNCHANGED text

\* The end of a line is a token if the last token ended a term.
nextEndOfLine ==
  /\ Char(at) = "eos"
  /\ at' = at + 1
  /\ ends' = FALSE
  /\ IF ends THEN Emit(Token("newline", FALSE, at + 1, <<>>, {}), at)
     ELSE UNCHANGED tokens
  /\ UNCHANGED text

nextBlank ==
  /\ Char(at) = Blank
  /\ at' = at + 1
  /\ UNCHANGED <<text, ends, tokens>>

\* A comment goes up to the end of its line, which is still there.
nextComment ==
  /\ Char(at) = "!"
  /\ at' = Until(at + 1, {"eos"})
  /\ UNCHANGED <<text, ends, tokens>>

\* The error is reported; the char is no token, but may end a term.
nextIllegal ==
  /\ Char(at) \in Illegal
  /\ at' = at + 1
  /\ ends' = TRUE
  /\ UNCHANGED <<text, tokens>>

\* The end is never consumed: the parser may ask for it again and again.
nextEndOfProgram ==
  /\ Char(at) = "eop"
  /\ ends' = FALSE
  /\ UNCHANGED <<text, at, tokens>>

Next == \/ ReadToken \/ nextEndOfLine \/ nextBlank \/ nextComment
        \/ nextIllegal \/ nextEndOfProgram

Spec == Init /\ [][Next]_vars
=============================================================================
