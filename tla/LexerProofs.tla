----------------------------- MODULE LexerProofs ----------------------------
(***************************************************************************)
(* For every file: a token that LOAD ORSON reads without an error is the   *)
(* longest lexeme at its place, and an end of line is a token exactly      *)
(* where it may end a term.                                                *)
(***************************************************************************)
EXTENDS Lexemes, Lemmas

-----------------------------------------------------------------------------
(* Chars *)

(* The chars and the kinds that are spelt here with letters or operators. *)
Plain ==
  {"0", "1", "9", "a", "e", "n", "i", "f", "A", "E", "g", "cap", "up", "wedge", "in", "%",
   "\\", "eos", "eop", "!", "#", "$", "*", "'", "+", "-", "|", ".", ":", "<", "=", ">", "?",
   "@", "neg", "name", "simple", "postfix", "prefix", "assigner", "comparison", "product",
   "sumPrefix", "sum", "and", ":-", "if", "newline"}

(* Every other char differs from those, and a mark is an ender exactly if it *)
(* is one that closes.                                                       *)
LEMMA OddChars ==
  /\ Low \notin Plain /\ Blank \notin Plain /\ Quote \notin Plain
  /\ Low # Blank /\ Low # Quote /\ Blank # Quote
  /\ Openers \cap Plain = {} /\ Closers \cap Plain = {} /\ Openers \cap Closers = {}
  /\ {Low, Blank, Quote} \cap (Openers \cup Closers) = {}
  /\ Closers \subseteq Enders /\ Openers \cap Enders = {}
  <1>1. Low \notin Plain /\ Blank \notin Plain /\ Quote \notin Plain
    BY Zenon DEF Low, Blank, Quote, Plain
  <1>2. Low # Blank /\ Low # Quote /\ Blank # Quote
    BY Zenon DEF Low, Blank, Quote
  <1>3. Openers \cap Plain = {}
    <2>1. "(" \notin Plain
      BY Zenon DEF Plain
    <2>2. "," \notin Plain
      BY Zenon DEF Plain
    <2>3. ";" \notin Plain
      BY Zenon DEF Plain
    <2>4. "[" \notin Plain
      BY Zenon DEF Plain
    <2>5. "{" \notin Plain
      BY Zenon DEF Plain
    <2> QED
      BY Zenon, <2>1, <2>2, <2>3, <2>4, <2>5 DEF Openers
  <1>4. Closers \cap Plain = {}
    <2>1. ")" \notin Plain
      BY Zenon DEF Plain
    <2>2. "]" \notin Plain
      BY Zenon DEF Plain
    <2>3. "}" \notin Plain
      BY Zenon DEF Plain
    <2> QED
      BY Zenon, <2>1, <2>2, <2>3 DEF Closers
  <1>5. Openers \cap Closers = {}
    BY Zenon DEF Openers, Closers
  <1>6. {Low, Blank, Quote} \cap (Openers \cup Closers) = {}
    BY Zenon DEF Low, Blank, Quote, Openers, Closers
  <1>7. Closers \subseteq Enders
    BY Zenon DEF Closers, Enders
  <1>8. Openers \cap Enders = {}
    BY Zenon DEF Openers, Enders
  <1> QED
    BY Zenon, <1>1, <1>2, <1>3, <1>4, <1>5, <1>6, <1>7, <1>8

(* What may end a term. *)
LEMMA EnderKinds ==
  /\ {"name", "simple", "postfix"} \subseteq Enders
  /\ Enders \cap (Plain \ {"name", "simple", "postfix"}) = {}
  <1>1. Enders = {"name", "simple", "postfix"} \cup Closers
    BY Zenon DEF Enders, Closers
  <1>2. Closers \cap Plain = {}
    BY OddChars
  <1> QED
    BY Zenon, <1>1, <1>2

TextOK == text \in Seq(Alphabet) /\ (text # <<>> => text[Len(text)] = "eos")

(* The chars of a file, and the lines of a lone EOP CHAR behind it. *)
LEMMA CharFacts ==
  ASSUME TextOK
  PROVE  /\ Len(text) \in Nat
         /\ \A i \in 1 .. Len(text) : Char(i) = text[i] /\ text[i] \in Alphabet
         /\ Char(Len(text) + 1) = "eop" /\ Char(Len(text) + 2) = "eos"
         /\ Len(text) > 0 => Char(Len(text)) = "eos"
         /\ \A i \in Nat : i >= 1 /\ Char(i) \notin {"eos", "eop"} => i < Len(text)
  <1>1. Len(text) \in Nat /\ DOMAIN text = 1 .. Len(text)
    BY LenProperties DEF TextOK
  <1>2. \A i \in 1 .. Len(text) : Char(i) = text[i] /\ text[i] \in Alphabet
    <2> TAKE i \in 1 .. Len(text)
    <2>1. i <= Len(text)
      BY <1>1
    <2>2. text[i] \in Alphabet
      BY <1>1, ElementOfSeq DEF TextOK
    <2> QED
      BY <2>1, <2>2 DEF Char
  <1>3. Char(Len(text) + 1) = "eop" /\ Char(Len(text) + 2) = "eos"
    <2>1. ~(Len(text) + 1 <= Len(text)) /\ ~(Len(text) + 2 <= Len(text))
      BY <1>1
    <2>2. (Len(text) + 1 - Len(text)) % 2 = 1 /\ (Len(text) + 2 - Len(text)) % 2 = 0
      <3>1. Len(text) + 1 - Len(text) = 1 /\ Len(text) + 2 - Len(text) = 2
        BY <1>1
      <3> QED
        BY <3>1
    <2> QED
      BY <2>1, <2>2 DEF Char
  <1>4. Len(text) > 0 => Char(Len(text)) = "eos"
    <2>1. Len(text) > 0 => text # <<>> /\ Len(text) \in 1 .. Len(text)
      BY <1>1
    <2> QED
      BY <1>2, <2>1 DEF TextOK
  <1>5. ASSUME NEW i \in Nat, i >= 1, Char(i) \notin {"eos", "eop"} PROVE i < Len(text)
    <2>1. i <= Len(text)
      BY <1>5 DEF Char
    <2>2. i # Len(text)
      BY <1>4, <1>5, <2>1
    <2>3. i \in Nat /\ Len(text) \in Nat
      BY <1>1
    <2> QED
      BY ONLY <2>1, <2>2, <2>3
  <1> QED
    BY <1>1, <1>2, <1>3, <1>4, <1>5

(* Where a run of chars of some set ends: before the end of the line. *)
LEMMA AfterFacts ==
  ASSUME TextOK, NEW i \in Nat, 1 <= i, i <= Len(text), NEW set, "eos" \notin set
  PROVE  /\ After(i, set) \in i .. Len(text)
         /\ Char(After(i, set)) \notin set
         /\ \A k \in i .. After(i, set) - 1 : Char(k) \in set
  <1> DEFINE N == Len(text)
             S == { j \in Nat : i <= j /\ j <= N /\ Char(j) \notin set }
  <1>1. N \in Nat /\ Char(N) = "eos"
    BY CharFacts
  <1>2. N \in S /\ S \in SUBSET Nat
    BY <1>1
  <1>3. PICK m \in S : \A x \in S : m <= x
    BY <1>2, LeastMember
  <1>4. /\ m \in i .. N + 2 /\ m <= N /\ Char(m) \notin set
        /\ \A k \in i .. m - 1 : Char(k) \in set
    <2>1. m \in Nat /\ i <= m /\ m <= N /\ Char(m) \notin set
      BY <1>3
    <2>2. ASSUME NEW k \in i .. m - 1 PROVE Char(k) \in set
      <3>1. k \in Nat /\ i <= k /\ k <= N /\ ~(m <= k)
        BY <2>1
      <3> QED
        BY <1>3, <3>1
    <2> QED
      BY <1>1, <2>1, <2>2
  <1> DEFINE P(j) == Char(j) \notin set /\ \A k \in i .. j - 1 : Char(k) \in set
             a == After(i, set)
  <1>5. a \in i .. N + 2 /\ P(a)
    BY <1>4 DEF After
  <1>6. a <= N
    <2>1. ~(m \in i .. a - 1)
      BY <1>4, <1>5
    <2> QED
      BY <1>1, <1>4, <1>5, <2>1
  <1> QED
    BY <1>1, <1>5, <1>6

(* The run up to the place W, in terms of the text. *)
LEMMA RunFacts ==
  ASSUME TextOK, NEW i \in Nat, 1 <= i, i <= Len(text), NEW set, "eos" \notin set,
         NEW w, w = After(i, set)
  PROVE  /\ Len(text) \in Nat /\ w \in Nat /\ i <= w /\ w <= Len(text)
         /\ Char(w) = text[w] /\ text[w] \notin set
         /\ \A k \in i .. w - 1 : Char(k) = text[k] /\ text[k] \in set
         /\ \A k \in i .. w - 1 : k \in 1 .. Len(text)
  <1>1. /\ After(i, set) \in i .. Len(text)
        /\ Char(After(i, set)) \notin set
        /\ \A k \in i .. After(i, set) - 1 : Char(k) \in set
    BY AfterFacts
  <1>2. /\ w \in i .. Len(text) /\ Char(w) \notin set
        /\ \A k \in i .. w - 1 : Char(k) \in set
    <2> DEFINE Run(j) == /\ j \in i .. Len(text) /\ Char(j) \notin set
                         /\ \A k \in i .. j - 1 : Char(k) \in set
    <2>1. Run(After(i, set))
      BY <1>1
    <2> HIDE DEF Run
    <2>2. Run(w)
      BY <2>1
    <2> QED
      BY <2>2 DEF Run
  <1>3. Len(text) \in Nat /\ w \in Nat /\ i <= w /\ w <= Len(text)
    BY <1>2, CharFacts
  <1>4. w \in 1 .. Len(text) /\ \A k \in i .. w - 1 : k \in 1 .. Len(text)
    BY <1>3
  <1> QED
    BY <1>2, <1>3, <1>4, CharFacts

(* Where the first char of some set is, if the end of a line is one. *)
LEMMA UntilFacts ==
  ASSUME TextOK, NEW i \in Nat, 1 <= i, i <= Len(text), NEW set, "eos" \in set
  PROVE  /\ Until(i, set) \in i .. Len(text)
         /\ Char(Until(i, set)) \in set
         /\ \A k \in i .. Until(i, set) - 1 : Char(k) \notin set
  <1> DEFINE N == Len(text)
             S == { j \in Nat : i <= j /\ j <= N /\ Char(j) \in set }
  <1>1. N \in Nat /\ Char(N) = "eos"
    BY CharFacts
  <1>2. N \in S /\ S \in SUBSET Nat
    BY <1>1
  <1>3. PICK m \in S : \A x \in S : m <= x
    BY <1>2, LeastMember
  <1>4. /\ m \in i .. N + 2 /\ m <= N /\ Char(m) \in set
        /\ \A k \in i .. m - 1 : Char(k) \notin set
    <2>1. m \in Nat /\ i <= m /\ m <= N /\ Char(m) \in set
      BY <1>3
    <2>2. ASSUME NEW k \in i .. m - 1 PROVE Char(k) \notin set
      <3>1. k \in Nat /\ i <= k /\ k <= N /\ ~(m <= k)
        BY <2>1
      <3> QED
        BY <1>3, <3>1
    <2> QED
      BY <1>1, <2>1, <2>2
  <1> DEFINE P(j) == Char(j) \in set /\ \A k \in i .. j - 1 : Char(k) \notin set
             a == Until(i, set)
  <1>5. a \in i .. N + 2 /\ P(a)
    BY <1>4 DEF Until
  <1>6. a <= N
    <2>1. ~(m \in i .. a - 1)
      BY <1>4, <1>5
    <2> QED
      BY <1>1, <1>4, <1>5, <2>1
  <1> QED
    BY <1>1, <1>5, <1>6

(* A slashed char is not empty, and does not go on beyond the lone EOP CHAR. *)
LEMMA SlashFacts ==
  ASSUME TextOK, NEW i \in Nat, 1 <= i, i <= Len(text) + 1, Char(i) # "eos"
  PROVE  /\ nextSlashedChar(i).to \in i + 1 .. Len(text) + 2
         /\ nextSlashedChar(i).to \in Nat
  <1> DEFINE N == Len(text)
             set == isHexadecimalChar \cup {Low}
             hex == After(i + 2, set)
  <1>1. N \in Nat /\ (Char(i) = "\\" => i < N)
    BY CharFacts
  <1>2. CASE Char(i) # "\\"
    BY <1>1, <1>2 DEF nextSlashedChar
  <1>3. CASE Char(i) = "\\" /\ Char(i + 1) = "#"
    <2>1. i + 1 < N /\ i + 2 \in Nat
      <3>1. i + 1 \in Nat /\ i + 1 >= 1
        OBVIOUS
      <3> QED
        BY <1>3, <3>1, CharFacts
    <2>2. "eos" \notin set
      BY OddChars DEF isHexadecimalChar, Digits, Plain
    <2>3. hex \in i + 2 .. N
      <3>1. 1 <= i + 2 /\ i + 2 <= N
        BY <1>1, <2>1
      <3> QED
        BY <2>1, <2>2, <3>1, AfterFacts
    <2> HIDE DEF hex
    <2>4. Char(hex) = "\\" /\ nextNextChar(hex) = Low => hex + 2 <= N
      <3>1. SUFFICES ASSUME nextNextChar(hex) = Low PROVE hex + 2 <= N
        OBVIOUS
      <3>2. hex + 1 \in Nat /\ hex + 1 >= 1
        BY <2>3
      <3>3. Char(hex + 1) = Low
        BY <3>1, OddChars DEF nextNextChar
      <3>4. hex + 1 < N
        BY <3>2, <3>3, CharFacts, OddChars DEF Plain
      <3> QED
        BY <1>1, <2>3, <3>4
    <2>5. nextSlashedChar(i).to = IF Char(hex) = "\\" /\ nextNextChar(hex) = Low THEN hex + 2 ELSE hex
      BY <1>3 DEF nextSlashedChar, hex
    <2> HIDE DEF N
    <2>6. PICK to : to = nextSlashedChar(i).to
      OBVIOUS
    <2>7. hex \in Nat /\ i + 2 <= hex /\ hex <= N /\ (to = hex \/ (to = hex + 2 /\ hex + 2 <= N))
      <3>1. to = hex \/ (to = hex + 2 /\ hex + 2 <= N)
        BY ONLY <2>4, <2>5, <2>6
      <3>2. hex \in Nat /\ i + 2 <= hex /\ hex <= N
        BY ONLY <1>1, <2>1, <2>3
      <3> QED
        BY <3>1, <3>2
    <2>8. to \in i + 1 .. N + 2 /\ to \in Nat
      BY ONLY <1>1, <2>7, i \in Nat
    <2> QED
      BY <2>6, <2>8 DEF N
  <1>4. CASE Char(i) = "\\" /\ Char(i + 1) # "#"
    <2>1. nextSlashedChar(i).to \in {i + 1, i + 2}
      BY <1>4 DEF nextSlashedChar
    <2> QED
      BY <1>1, <1>4, <2>1
  <1> QED
    BY <1>2, <1>3, <1>4

(* A turn of the loop that is not the last gets ahead. *)
LEMMA TurnFacts ==
  ASSUME TextOK, NEW i \in Places
  PROVE  /\ StringTurn(i).to \in Nat
         /\ StringTurn(i).last \in BOOLEAN
         /\ ~StringTurn(i).last => StringTurn(i).to \in Places /\ StringTurn(i).to > i
  <1>1. Len(text) \in Nat /\ i \in Nat /\ 1 <= i /\ i <= Len(text) + 2
    BY CharFacts DEF Places
  <1>2. CASE Char(i) = "eos"
    BY <1>1, <1>2 DEF StringTurn
  <1>3. CASE Char(i) \notin {"'", "eos"}
    <2>1. i <= Len(text) + 1
      BY <1>1, <1>3, CharFacts
    <2>2. nextSlashedChar(i).to \in i + 1 .. Len(text) + 2
      BY <1>1, <1>3, <2>1, SlashFacts
    <2>3. StringTurn(i).to = nextSlashedChar(i).to /\ StringTurn(i).last = FALSE
      BY <1>3 DEF StringTurn
    <2>4. PICK to, n : to = StringTurn(i).to /\ n = Len(text) + 2
      OBVIOUS
    <2>5. to \in Int /\ i < to /\ to <= n /\ n \in Nat
      BY <1>1, <2>2, <2>3, <2>4
    <2>6. to \in Nat /\ to \in 1 .. n
      BY <1>1, <2>5
    <2> QED
      BY <2>3, <2>4, <2>5, <2>6 DEF Places
  <1>4. CASE Char(i) = "'" /\ Char(i + 1) \in {"eos", "'"}
    BY <1>1, <1>4 DEF StringTurn
  <1>5. CASE Char(i) = "'" /\ Char(i + 1) \notin {"eos", "'"}
    <2>1. i < Len(text)
      BY <1>1, <1>5, CharFacts
    <2>2. nextSlashedChar(i + 1).to \in i + 2 .. Len(text) + 2
      <3>1. i + 1 \in Nat /\ 1 <= i + 1 /\ i + 1 <= Len(text) + 1 /\ Char(i + 1) # "eos"
        BY <1>1, <1>5, <2>1
      <3>2. nextSlashedChar(i + 1).to \in (i + 1) + 1 .. Len(text) + 2
        BY <3>1, SlashFacts
      <3> QED
        BY <1>1, <3>2
    <2>3. StringTurn(i).to = nextSlashedChar(i + 1).to /\ StringTurn(i).last = FALSE
      BY <1>5 DEF StringTurn
    <2>4. PICK to, n : to = StringTurn(i).to /\ n = Len(text) + 2
      OBVIOUS
    <2>5. to \in Int /\ i < to /\ to <= n /\ n \in Nat
      BY <1>1, <2>2, <2>3, <2>4
    <2>6. to \in Nat /\ to \in 1 .. n
      BY <1>1, <2>5
    <2> QED
      BY <2>3, <2>4, <2>5, <2>6 DEF Places
  <1> QED
    BY <1>2, <1>3, <1>4, <1>5

(* What STRING FROM is at a place, given what it is at the places behind it. *)
Turned(i, f) ==
  LET turn == StringTurn(i)
      rest == f[turn.to]
  IN IF turn.last THEN turn
     ELSE [turn EXCEPT !.to   = rest.to,
                       !.word = @ \o rest.word,
                       !.errs = @ \cup rest.errs]

(* It depends on no other place than the one behind the turn. *)
LEMMA TurnedSame ==
  ASSUME NEW i \in Places, NEW f, NEW g,
         ~StringTurn(i).last => f[StringTurn(i).to] = g[StringTurn(i).to]
  PROVE  Turned(i, f) = Turned(i, g)
  BY DEF Turned

(* STRING FROM is what its definition says: every turn but the last refers *)
(* to a place behind it.                                                   *)
LEMMA StringEquation ==
  ASSUME TextOK
  PROVE  \A i \in Places : StringFrom[i] = Turned(i, StringFrom)
  <1>0. PICK N \in Nat : N = Len(text) + 2
    BY CharFacts
  <1>1. Places = 1 .. N
    BY <1>0 DEF Places
  <1> DEFINE Dom(m) == { i \in Places : N < i + m }
             Good(m) == \E f : f = [i \in Dom(m) |-> Turned(i, f)]
             S == { m \in Nat : ~Good(m) }
  <1>2. \A m \in Nat : Good(m)
    <2> SUFFICES ASSUME S # {} PROVE FALSE
      OBVIOUS
    <2>1. PICK m \in S : \A x \in S : m <= x
      BY LeastMember
    <2>2. m # 0
      <3> SUFFICES ASSUME m = 0 PROVE Good(0)
        BY <2>1
      <3>1. Dom(0) = {}
        BY <1>1
      <3> DEFINE f == [i \in {} |-> 0]
      <3>2. f = [i \in Dom(0) |-> Turned(i, f)]
        BY <3>1
      <3> QED
        BY <3>2
    <2>3. m - 1 \in Nat /\ ~(m <= m - 1)
      BY <2>2
    <2>4. PICK f : f = [i \in Dom(m - 1) |-> Turned(i, f)]
      BY <2>1, <2>3
    <2> DEFINE g == [i \in Dom(m) |-> IF i \in Dom(m - 1) THEN f[i] ELSE Turned(i, f)]
    <2>5. ASSUME NEW i \in Dom(m) PROVE g[i] = Turned(i, g)
      <3>1. g[i] = Turned(i, f)
        BY <2>4
      <3>2. ASSUME ~StringTurn(i).last PROVE f[StringTurn(i).to] = g[StringTurn(i).to]
        <4>1. StringTurn(i).to \in Places /\ StringTurn(i).to > i
          BY <3>2, TurnFacts
        <4>2. StringTurn(i).to \in Dom(m - 1) /\ StringTurn(i).to \in Dom(m)
          BY <1>1, <4>1
        <4> QED
          BY <4>2
      <3>3. Turned(i, f) = Turned(i, g)
        <4> HIDE DEF g
        <4> QED
          BY <3>2, TurnedSame
      <3> QED
        BY <3>1, <3>3
    <2>6. g = [i \in Dom(m) |-> Turned(i, g)]
      <3>1. g = [i \in Dom(m) |-> g[i]]
        OBVIOUS
      <3> HIDE DEF g
      <3> QED
        BY <2>5, <3>1
    <2>7. Good(m)
      <3> HIDE DEF g
      <3> QED
        BY <2>6
    <2> QED
      BY <2>1, <2>7
  <1>3. Dom(N) = Places
    BY <1>1
  <1>4. PICK f : f = [i \in Places |-> Turned(i, f)]
    BY <1>2, <1>3
  <1>5. StringFrom = [i \in Places |-> Turned(i, StringFrom)]
    BY <1>4 DEF StringFrom, Turned
  <1> QED
    BY <1>5

(* What SKIP CHARS is at a place, given what it is at the places behind it. *)
Skipped(i, f) ==
  CASE Char(i) = "eos" -> i
    [] Char(i) = "'"   -> i + 1
    [] OTHER           -> f[nextSlashedChar(i).to]

(* Here, too, only the place behind the char matters. *)
LEMMA SkippedSame ==
  ASSUME NEW i \in Places, NEW f, NEW g,
         Char(i) \notin {"eos", "'"} => f[nextSlashedChar(i).to] = g[nextSlashedChar(i).to]
  PROVE  Skipped(i, f) = Skipped(i, g)
  BY DEF Skipped

(* A char that is skipped is not empty. *)
LEMMA SkipGetsAhead ==
  ASSUME TextOK, NEW i \in Places, Char(i) # "eos"
  PROVE  nextSlashedChar(i).to \in Places /\ nextSlashedChar(i).to > i
  <1>1. Len(text) \in Nat /\ i \in Nat /\ 1 <= i /\ i <= Len(text) + 2
    BY CharFacts DEF Places
  <1>2. i <= Len(text) + 1
    BY <1>1, CharFacts
  <1>3. nextSlashedChar(i).to \in i + 1 .. Len(text) + 2
    BY <1>1, <1>2, SlashFacts
  <1>4. PICK to, n : to = nextSlashedChar(i).to /\ n = Len(text) + 2
    OBVIOUS
  <1>5. to \in Int /\ i < to /\ to <= n /\ n \in Nat
    BY <1>1, <1>3, <1>4
  <1>6. to \in Nat /\ to \in 1 .. n
    BY <1>1, <1>5
  <1> QED
    BY <1>4, <1>5, <1>6 DEF Places

(* SKIP CHARS is what its definition says too. *)
LEMMA SkipEquation ==
  ASSUME TextOK
  PROVE  \A i \in Places : SkipChars[i] = Skipped(i, SkipChars)
  <1>0. PICK N \in Nat : N = Len(text) + 2
    BY CharFacts
  <1>1. Places = 1 .. N
    BY <1>0 DEF Places
  <1> DEFINE Dom(m) == { i \in Places : N < i + m }
             Good(m) == \E f : f = [i \in Dom(m) |-> Skipped(i, f)]
             S == { m \in Nat : ~Good(m) }
  <1>2. \A m \in Nat : Good(m)
    <2> SUFFICES ASSUME S # {} PROVE FALSE
      OBVIOUS
    <2>1. PICK m \in S : \A x \in S : m <= x
      BY LeastMember
    <2>2. m # 0
      <3> SUFFICES ASSUME m = 0 PROVE Good(0)
        BY <2>1
      <3>1. Dom(0) = {}
        BY <1>1
      <3> DEFINE f == [i \in {} |-> 0]
      <3>2. f = [i \in Dom(0) |-> Skipped(i, f)]
        BY <3>1
      <3> QED
        BY <3>2
    <2>3. m - 1 \in Nat /\ ~(m <= m - 1)
      BY <2>2
    <2>4. PICK f : f = [i \in Dom(m - 1) |-> Skipped(i, f)]
      BY <2>1, <2>3
    <2> DEFINE g == [i \in Dom(m) |-> IF i \in Dom(m - 1) THEN f[i] ELSE Skipped(i, f)]
    <2>5. ASSUME NEW i \in Dom(m) PROVE g[i] = Skipped(i, g)
      <3>1. g[i] = Skipped(i, f)
        BY <2>4
      <3>2. ASSUME Char(i) \notin {"eos", "'"}
            PROVE  f[nextSlashedChar(i).to] = g[nextSlashedChar(i).to]
        <4>1. nextSlashedChar(i).to \in Places /\ nextSlashedChar(i).to > i
          BY <3>2, SkipGetsAhead
        <4>2. nextSlashedChar(i).to \in Dom(m - 1) /\ nextSlashedChar(i).to \in Dom(m)
          BY <1>1, <4>1
        <4> QED
          BY <4>2
      <3>3. Skipped(i, f) = Skipped(i, g)
        <4> HIDE DEF g
        <4> QED
          BY <3>2, SkippedSame
      <3> QED
        BY <3>1, <3>3
    <2>6. g = [i \in Dom(m) |-> Skipped(i, g)]
      <3>1. g = [i \in Dom(m) |-> g[i]]
        OBVIOUS
      <3> HIDE DEF g
      <3> QED
        BY <2>5, <3>1
    <2>7. Good(m)
      <3> HIDE DEF g
      <3> QED
        BY <2>6
    <2> QED
      BY <2>1, <2>7
  <1>3. Dom(N) = Places
    BY <1>1
  <1>4. PICK f : f = [i \in Places |-> Skipped(i, f)]
    BY <1>2, <1>3
  <1>5. SkipChars = [i \in Places |-> Skipped(i, SkipChars)]
    BY <1>4 DEF SkipChars, Skipped
  <1> QED
    BY <1>5

(* Where a string literal ends, well formed or not. *)
LEMMA StringTo ==
  ASSUME TextOK
  PROVE  \A i \in Places : StringFrom[i].to \in Nat /\ StringFrom[i].to >= i
  <1>0. PICK N \in Nat : N = Len(text) + 2
    BY CharFacts
  <1>1. Places = 1 .. N
    BY <1>0 DEF Places
  <1> DEFINE Good(i) == StringFrom[i].to \in Nat /\ StringFrom[i].to >= i
             S == { m \in Nat : \E i \in Places : i + m = N /\ ~Good(i) }
  <1>2. ASSUME S # {} PROVE FALSE
    <2>1. PICK m \in S : \A x \in S : m <= x
      BY <1>2, LeastMember
    <2>2. PICK i \in Places : i + m = N /\ ~Good(i)
      BY <2>1
    <2> DEFINE turn == StringTurn(i)
    <2>3. turn.to \in Nat /\ turn.to >= i /\ turn.last \in BOOLEAN
      <3>1. turn.to \in Nat /\ turn.last \in BOOLEAN /\ (~turn.last => turn.to > i)
        BY TurnFacts
      <3>2. turn.last => turn.to >= i
        BY <1>1 DEF StringTurn
      <3> QED
        BY <1>1, <3>1, <3>2
    <2>4. StringFrom[i] = Turned(i, StringFrom)
      BY StringEquation
    <2>5. CASE turn.last
      BY <2>2, <2>3, <2>4, <2>5 DEF Turned
    <2>6. CASE ~turn.last
      <3>1. turn.to \in Places /\ turn.to > i
        BY <2>6, TurnFacts
      <3>2. PICK q : q = turn.to
        OBVIOUS
      <3>3. N - q \in Nat /\ q + (N - q) = N /\ ~(m <= N - q)
        BY <1>1, <2>2, <3>1, <3>2
      <3>4. Good(q)
        BY <2>1, <3>1, <3>2, <3>3
      <3>5. StringFrom[i].to = StringFrom[q].to
        <4>1. "to" \in DOMAIN turn
          BY DEF StringTurn
        <4>2. StringFrom[i] = [turn EXCEPT !.to   = StringFrom[q].to,
                                           !.word = @ \o StringFrom[q].word,
                                           !.errs = @ \cup StringFrom[q].errs]
          BY <2>4, <2>6, <3>2 DEF Turned
        <4> HIDE DEF turn
        <4> QED
          BY <4>1, <4>2
      <3>6. Good(i)
        BY <1>1, <3>1, <3>2, <3>4, <3>5
      <3> QED
        BY <2>2, <3>6
    <2> QED
      BY <2>3, <2>5, <2>6
  <1>3. ASSUME NEW i \in Places PROVE Good(i)
    <2>1. N - i \in Nat /\ i + (N - i) = N
      BY <1>1
    <2> QED
      BY <1>2, <2>1
  <1> QED
    BY <1>3

(* Where the reader goes on behind a char literal with too many chars. *)
LEMMA SkipTo ==
  ASSUME TextOK
  PROVE  \A i \in Places : SkipChars[i] \in Nat /\ SkipChars[i] >= i
  <1>0. PICK N \in Nat : N = Len(text) + 2
    BY CharFacts
  <1>1. Places = 1 .. N
    BY <1>0 DEF Places
  <1> DEFINE Good(i) == SkipChars[i] \in Nat /\ SkipChars[i] >= i
             S == { m \in Nat : \E i \in Places : i + m = N /\ ~Good(i) }
  <1>2. ASSUME S # {} PROVE FALSE
    <2>1. PICK m \in S : \A x \in S : m <= x
      BY <1>2, LeastMember
    <2>2. PICK i \in Places : i + m = N /\ ~Good(i)
      BY <2>1
    <2>3. SkipChars[i] = Skipped(i, SkipChars)
      BY SkipEquation
    <2>4. CASE Char(i) \in {"eos", "'"}
      BY <1>1, <2>2, <2>3, <2>4 DEF Skipped
    <2>5. CASE Char(i) \notin {"eos", "'"}
      <3>1. PICK q : q = nextSlashedChar(i).to
        OBVIOUS
      <3>2. q \in Places /\ q > i
        BY <2>5, <3>1, SkipGetsAhead
      <3>3. N - q \in Nat /\ q + (N - q) = N /\ ~(m <= N - q)
        BY <1>1, <2>2, <3>2
      <3>4. Good(q)
        BY <2>1, <3>2, <3>3
      <3>5. SkipChars[i] = SkipChars[q]
        BY <2>3, <2>5, <3>1 DEF Skipped
      <3>6. Good(i)
        BY <1>1, <3>2, <3>4, <3>5
      <3> QED
        BY <2>2, <3>6
    <2> QED
      BY <2>4, <2>5
  <1>3. ASSUME NEW i \in Places PROVE Good(i)
    <2>1. N - i \in Nat /\ i + (N - i) = N
      BY <1>1
    <2> QED
      BY <1>2, <2>1
  <1> QED
    BY <1>3

-----------------------------------------------------------------------------
(* Tokens *)

(* A token that goes on from the place I says of itself that it may end a *)
(* term exactly if its kind does.                                         *)
Sound(t, i) ==
  /\ t.to \in Nat /\ t.to > i
  /\ t.kind # "newline"
  /\ t.ends \in BOOLEAN
  /\ t.ends <=> t.kind \in Enders

(* Marks and operators are one to three chars long. *)
LEMMA MarkSound ==
  ASSUME NEW i \in Nat
  PROVE  /\ \A kind \in Closers : Sound(nextEnder(i, kind), i)
         /\ \A kind \in Openers \cup {"and"} : Sound(nextNonender(i, kind), i)
         /\ Sound(nextDot(i), i) /\ Sound(nextPostfix(i), i) /\ Sound(nextPrefix(i), i)
         /\ Sound(nextRelation(i), i) /\ Sound(nextColon(i), i)
         /\ \A kind \in {"product", "sumPrefix", "sum"} : Sound(nextInfix(i, kind), i)
         /\ Sound(nextLess(i), i) /\ Sound(nextGreater(i), i)
  <1>0. /\ {"name", "simple", "postfix"} \subseteq Enders
        /\ Enders \cap (Plain \ {"name", "simple", "postfix"}) = {}
    BY EnderKinds
  <1>1. ASSUME NEW kind \in {"assigner", "product", "sumPrefix", "sum", "comparison"},
               NEW length \in {1, 2, 3}
        PROVE  Sound(Operator(i, kind, length), i)
    BY <1>0 DEF Sound, Operator, Token, Plain
  <1>2. \A kind \in Closers : Sound(nextEnder(i, kind), i)
    BY OddChars DEF Sound, nextEnder, Token, Plain
  <1>3. \A kind \in Openers \cup {"and"} : Sound(nextNonender(i, kind), i)
    BY <1>0, OddChars DEF Sound, nextNonender, Token, Plain
  <1>4. /\ Sound(nextDot(i), i) /\ Sound(nextPostfix(i), i) /\ Sound(nextPrefix(i), i)
        /\ Sound(nextRelation(i), i)
    BY <1>0 DEF Sound, nextDot, nextPostfix, nextPrefix, nextRelation, Token, Plain
  <1>5. Sound(nextColon(i), i)
    <2>1. Sound(Token(":-", FALSE, i + 2, <<>>, {}), i) /\ Sound(Token(":", FALSE, i + 1, <<>>, {}), i)
      BY <1>0 DEF Sound, Token, Plain
    <2> QED
      BY <1>1, <2>1 DEF nextColon
  <1>6. \A kind \in {"product", "sumPrefix", "sum"} : Sound(nextInfix(i, kind), i)
    BY <1>1 DEF nextInfix
  <1>7. Sound(nextLess(i), i)
    BY <1>1 DEF nextLess
  <1>8. Sound(nextGreater(i), i)
    BY <1>1 DEF nextGreater
  <1> QED
    BY <1>2, <1>3, <1>4, <1>5, <1>6, <1>7, <1>8

(* The end of a line is in none of the sets of chars that make up runs. *)
LEMMA NoEnd ==
  /\ "eos" \notin isDecimalChar /\ "eop" \notin isDecimalChar
  /\ "eos" \notin isTridecahexialChar
  /\ "eos" \notin isNameChar /\ "eop" \notin isNameChar
  /\ "eos" \notin isHexadecimalChar \cup {Low}
  BY OddChars DEF Plain, isDecimalChar, isTridecahexialChar, isNameChar, isHexadecimalChar,
         Digits, Letters, Lowers, Capitals

(* Names end within the file. *)
LEMMA NameSound ==
  ASSUME TextOK, NEW i \in Nat, 1 <= i, Char(i) \notin {"eos", "eop"}
  PROVE  /\ Char(i) \in isNameChar => Sound(nextName(i), i) /\ Sound(nextSecretName(i), i)
         /\ nextName(i).kind \in {"name", "if", "in"} /\ nextSecretName(i).kind = "name"
         /\ Sound(nextQuotedName(i), i) /\ nextQuotedName(i).kind = "name"
  <1>1. Len(text) \in Nat /\ i < Len(text)
    BY CharFacts
  <1>2. ASSUME Char(i) \in isNameChar
        PROVE  After(i, isNameChar) \in Nat /\ After(i, isNameChar) > i
    <2>1. /\ After(i, isNameChar) \in i .. Len(text)
          /\ Char(After(i, isNameChar)) \notin isNameChar
      BY <1>1, NoEnd, AfterFacts
    <2>2. After(i, isNameChar) # i
      BY <1>2, <2>1
    <2>3. PICK j : j = After(i, isNameChar)
      OBVIOUS
    <2>4. j \in i .. Len(text) /\ j # i
      BY <2>1, <2>2, <2>3
    <2> QED
      BY <1>1, <2>3, <2>4
  <1>3. Until(i + 1, {Quote, "eos"}) \in i + 1 .. Len(text)
    BY <1>1, UntilFacts
  <1>4. nextName(i).kind \in {"name", "if", "in"} /\ nextSecretName(i).kind = "name"
    BY DEF nextName, nextSecretName, Token
  <1>5. ASSUME Char(i) \in isNameChar PROVE Sound(nextName(i), i)
    <2>1. PICK j : j = After(i, isNameChar)
      OBVIOUS
    <2>2. j \in Nat /\ j > i
      BY <1>2, <1>5, <2>1
    <2>3. \A word : Sound(Token("if", FALSE, j, word, {}), i) /\ Sound(Token("in", FALSE, j, word, {}), i)
                    /\ Sound(Token("name", TRUE, j, word, {}), i)
      BY <2>2, EnderKinds DEF Sound, Token, Plain
    <2>4. nextName(i) \in {Token("if", FALSE, j, Chars(i, j), {}), Token("in", FALSE, j, Chars(i, j), {}),
                           Token("name", TRUE, j, Chars(i, j), {})}
      BY <2>1 DEF nextName
    <2> QED
      BY <2>3, <2>4
  <1>6. ASSUME Char(i) \in isNameChar PROVE Sound(nextSecretName(i), i)
    BY <1>2, <1>6, EnderKinds DEF Sound, nextSecretName, Token, Plain
  <1>7. Sound(nextQuotedName(i), i) /\ nextQuotedName(i).kind = "name"
    <2>1. PICK j : j = Until(i + 1, {Quote, "eos"})
      OBVIOUS
    <2>2. j \in Nat /\ j > i
      BY <1>1, <1>3, <2>1
    <2>3. \A word, errs : Sound(Token("name", TRUE, j + 1, word, errs), i)
                          /\ Sound(Token("name", TRUE, j, word, errs), i)
      BY <2>2, EnderKinds DEF Sound, Token, Plain
    <2>4. \E word, errs : nextQuotedName(i) = Token("name", TRUE, j + 1, word, errs)
                          \/ nextQuotedName(i) = Token("name", TRUE, j, word, errs)
      BY <2>1 DEF nextQuotedName
    <2>5. nextQuotedName(i).kind = "name"
      BY <2>4 DEF Token
    <2> QED
      BY <2>3, <2>4, <2>5
  <1> QED
    BY <1>4, <1>5, <1>6, <1>7

(* So do a parameter and a hook. *)
LEMMA SimpleSound ==
  ASSUME TextOK, NEW i \in Nat, 1 <= i, Char(i) \notin {"eos", "eop"}
  PROVE  Sound(nextDollar(i), i) /\ Sound(nextHook(i), i)
  <1>1. Len(text) \in Nat /\ i < Len(text)
    BY CharFacts
  <1>2. Sound(nextHook(i), i)
    <2>1. PICK j : j = After(i + 1, isNameChar)
      OBVIOUS
    <2>2. j \in i + 1 .. Len(text)
      BY <1>1, <2>1, NoEnd, AfterFacts
    <2>3. j \in Nat /\ j > i
      BY <1>1, <2>2
    <2> QED
      BY <2>1, <2>3, EnderKinds DEF Sound, nextHook, Token, Plain
  <1>3. ASSUME NEW n, n.to \in Nat, n.to > i
        PROVE  \A word, errs : Sound(Token("simple", TRUE, n.to, word, errs), i)
    BY <1>3, EnderKinds DEF Sound, Token, Plain
  <1>4. ASSUME NEW n, Sound(n, i + 1) PROVE n.to \in Nat /\ n.to > i
    <2>1. PICK m : m = n.to
      OBVIOUS
    <2>2. m \in Nat /\ m > i + 1
      BY <1>4, <2>1 DEF Sound
    <2> QED
      BY <2>1, <2>2
  <1> DEFINE c == Char(i + 1)
             name == CASE c \in Capitals           -> nextSecretName(i + 1)
                       [] c \in Letters \ Capitals -> nextName(i + 1)
                       [] c = Quote                 -> nextQuotedName(i + 1)
                       [] OTHER                    -> Token("name", TRUE, i + 1, <<>>, {})
  <1>5. name.to \in Nat /\ name.to > i
    <2>1. CASE c \in Letters \/ c = Quote
      <3>1. c \notin {"eos", "eop"} /\ (c \in Letters => c \in isNameChar)
        BY <2>1, OddChars DEF Letters, Lowers, Capitals, isNameChar, Plain
      <3>2. i + 1 \in Nat /\ 1 <= i + 1
        OBVIOUS
      <3>3. /\ c \in Letters => Sound(nextName(i + 1), i + 1) /\ Sound(nextSecretName(i + 1), i + 1)
            /\ Sound(nextQuotedName(i + 1), i + 1)
        BY <3>1, <3>2, NameSound
      <3>4. name \in {nextSecretName(i + 1), nextName(i + 1), nextQuotedName(i + 1)}
        BY <2>1
      <3>5. c = Quote => name = nextQuotedName(i + 1)
        BY OddChars DEF Letters, Lowers, Capitals, Plain
      <3>6. Sound(name, i + 1)
        BY <2>1, <3>3, <3>4, <3>5
      <3> QED
        BY <1>4, <3>6
    <2>2. CASE ~(c \in Letters \/ c = Quote)
      <3>1. c \notin Capitals /\ c \notin Letters \ Capitals /\ c # Quote
        BY <2>2 DEF Letters
      <3>2. name = Token("name", TRUE, i + 1, <<>>, {})
        BY <3>1
      <3>3. name.to = i + 1
        BY <3>2 DEF Token
      <3> QED
        <4> HIDE DEF name
        <4> QED
          BY <3>3
    <2> QED
      BY <2>1, <2>2
  <1>6. nextDollar(i) = Token("simple", TRUE, name.to, <<"$">> \o name.word,
                              name.errs \cup IF name.kind = "name" THEN {} ELSE {"name"})
    BY DEF nextDollar
  <1>7. Sound(nextDollar(i), i)
    <2> HIDE DEF name
    <2> QED
      BY <1>3, <1>5, <1>6
  <1> QED
    BY <1>2, <1>7

(* A number ends within the file: the chars that lead on to another run of *)
(* digits are not the end of the line.                                     *)
LEMMA NumberSound ==
  ASSUME TextOK, NEW i \in Nat, 1 <= i, Char(i) \notin {"eos", "eop"}
  PROVE  /\ Sound(nextHexadecimalNumber(i), i)
         /\ Char(i) \in Digits => Sound(nextNumber(i), i)
  <1>1. Len(text) \in Nat /\ i < Len(text)
    BY CharFacts
  <1>2. ASSUME NEW to \in Nat, to > i
        PROVE  \A digits, radix, errs : Sound(Integer(to, digits, radix, errs), i)
    BY <1>2, EnderKinds DEF Sound, Integer, Token, Plain
  <1>3. ASSUME NEW to \in Nat, to > i
        PROVE  \A word, errs : Sound(Token("simple", TRUE, to, word, errs), i)
    BY <1>3, EnderKinds DEF Sound, Token, Plain
  <1>4. Sound(nextHexadecimalNumber(i), i)
    <2>1. PICK j : j = After(i + 1, isHexadecimalChar \cup {Low})
      OBVIOUS
    <2>2. j \in i + 1 .. Len(text)
      <3>1. i + 1 \in Nat /\ 1 <= i + 1 /\ i + 1 <= Len(text)
        BY <1>1
      <3>2. "eos" \notin isHexadecimalChar \cup {Low}
        BY NoEnd
      <3> DEFINE set == isHexadecimalChar \cup {Low}
      <3>3. j = After(i + 1, set) /\ "eos" \notin set
        BY <2>1, <3>2
      <3> HIDE DEF set
      <3> QED
        BY <3>1, <3>3, AfterFacts
    <2>3. j \in Nat /\ j > i
      BY <1>1, <2>2
    <2> QED
      BY <1>2, <2>1, <2>3 DEF nextHexadecimalNumber
  <1>5. ASSUME NEW w \in Nat, w >= i, Char(w) \notin {"eos", "eop"}, NEW set, "eos" \notin set
        PROVE  After(w + 1, set) \in Nat /\ After(w + 1, set) > w
    <2>1. w < Len(text) /\ w + 1 \in Nat /\ 1 <= w + 1 /\ w + 1 <= Len(text)
      BY <1>1, <1>5, CharFacts
    <2>2. After(w + 1, set) \in w + 1 .. Len(text)
      BY <1>5, <2>1, AfterFacts
    <2>3. PICK j : j = After(w + 1, set)
      OBVIOUS
    <2>4. j \in Nat /\ j > w
      BY <1>1, <2>1, <2>2, <2>3
    <2> QED
      BY <2>3, <2>4
  <1>6. ASSUME Char(i) \in Digits PROVE Sound(nextNumber(i), i)
    <2>1. PICK w : w = After(i, isDecimalChar)
      OBVIOUS
    <2>2. w \in i .. Len(text) /\ Char(w) \notin isDecimalChar
      BY <1>1, <2>1, NoEnd, AfterFacts
    <2>3. w \in Nat /\ w > i
      <3>1. w # i
        BY <1>6, <2>2 DEF isDecimalChar
      <3> QED
        BY <1>1, <2>2, <3>1
    <2> DEFINE digits   == After(w + 1, isTridecahexialChar)
               fraction == After(w + 1, isDecimalChar)
               signed   == IF Char(fraction + 1) \in {"+", "-"} THEN fraction + 2
                           ELSE fraction + 1
               scale    == After(signed, isDecimalChar)
               isScaled == Char(fraction) \in {"E", "e"}
               to       == IF isScaled THEN scale ELSE fraction
    <2>4. \/ /\ Char(w) = "#"
             /\ \E radix, errs : nextNumber(i) = Integer(digits, Chars(w + 1, digits), radix, errs)
          \/ /\ Char(w) = "."
             /\ \E errs : nextNumber(i) = Token("simple", TRUE, to, Without(Chars(i, to), Low), errs)
          \/ nextNumber(i) = Integer(w, Chars(i, w), 10, {})
      BY <2>1 DEF nextNumber
    <2>5. CASE Char(w) = "#" /\ \E radix, errs : nextNumber(i) = Integer(digits, Chars(w + 1, digits), radix, errs)
      <3>1. digits \in Nat /\ digits > w
        BY <1>5, <2>3, <2>5, NoEnd
      <3> HIDE DEF digits
      <3>2. digits > i
        BY <2>3, <3>1
      <3> QED
        BY <1>2, <2>5, <3>1, <3>2
    <2>6. CASE Char(w) = "." /\ \E errs : nextNumber(i) = Token("simple", TRUE, to, Without(Chars(i, to), Low), errs)
      <3>1. fraction \in Nat /\ fraction > w
        BY <1>5, <2>3, <2>6, NoEnd
      <3> HIDE DEF fraction
      <3>2. ASSUME isScaled PROVE scale \in Nat /\ scale > fraction
        <4>1. Char(fraction) \notin {"eos", "eop"} /\ fraction >= i
          BY <2>3, <3>1, <3>2
        <4>2. CASE Char(fraction + 1) \in {"+", "-"}
          <5>1. scale = After((fraction + 1) + 1, isDecimalChar)
            <6>1. fraction + 2 = (fraction + 1) + 1
              BY <3>1
            <6> QED
              BY <4>2, <6>1
          <5>2. fraction + 1 \in Nat /\ fraction + 1 >= i /\ Char(fraction + 1) \notin {"eos", "eop"}
            BY <2>3, <3>1, <4>1, <4>2
          <5>3. scale \in Nat /\ scale > fraction + 1
            BY <1>5, <5>1, <5>2, NoEnd
          <5> HIDE DEF scale
          <5> QED
            BY <3>1, <5>3
        <4>3. CASE Char(fraction + 1) \notin {"+", "-"}
          <5>1. scale = After(fraction + 1, isDecimalChar)
            BY <4>3
          <5> QED
            BY <1>5, <3>1, <4>1, <5>1, NoEnd
        <4> QED
          BY <4>2, <4>3
      <3> HIDE DEF scale, isScaled
      <3>3. to \in Nat /\ to > i
        BY <2>3, <3>1, <3>2
      <3> HIDE DEF to
      <3> QED
        BY <1>3, <2>6, <3>3
    <2>7. CASE nextNumber(i) = Integer(w, Chars(i, w), 10, {})
      BY <1>2, <2>3, <2>7
    <2> QED
      BY <2>4, <2>5, <2>6, <2>7
  <1> QED
    BY <1>4, <1>6

(* A literal ends where the reader of strings, or of chars, says. *)
LEMMA LiteralSound ==
  ASSUME TextOK, NEW i \in Nat, 1 <= i, Char(i) \notin {"eos", "eop"}
  PROVE  Sound(nextApostrophe(i), i)
  <1>1. Len(text) \in Nat /\ i < Len(text)
    BY CharFacts
  <1>2. ASSUME NEW to \in Nat, to > i
        PROVE  \A word, errs : Sound(Token("simple", TRUE, to, word, errs), i)
    BY <1>2, EnderKinds DEF Sound, Token, Plain
  <1>3. CASE Char(i + 1) = "'"
    <2>1. i + 2 \in Places
      BY <1>1 DEF Places
    <2>2. PICK to : to = StringFrom[i + 2].to
      OBVIOUS
    <2>3. to \in Nat /\ to >= i + 2
      BY <2>1, <2>2, StringTo
    <2>4. to > i
      BY <2>3
    <2>5. \E word, errs : nextApostrophe(i) = Token("simple", TRUE, to, word, errs)
      BY <1>3, <2>2 DEF nextApostrophe
    <2> QED
      BY <1>2, <2>3, <2>4, <2>5
  <1>4. CASE Char(i + 1) # "'"
    <2>1. PICK c : c = nextSlashedChar(i + 1).to
      OBVIOUS
    <2>2. c \in Places /\ c > i
      <3>1. CASE Char(i + 1) = "eos"
        <4>1. c = i + 2
          BY <2>1, <3>1 DEF nextSlashedChar
        <4> QED
          BY <1>1, <4>1 DEF Places
      <3>2. CASE Char(i + 1) # "eos"
        <4>1. i + 1 \in Places
          BY <1>1 DEF Places
        <4>2. c \in Places /\ c > i + 1
          BY <2>1, <3>2, <4>1, SkipGetsAhead
        <4>3. c \in Nat
          BY <4>2 DEF Places
        <4> QED
          BY <4>2, <4>3
      <3> QED
        BY <3>1, <3>2
    <2>3. c \in Nat /\ c + 1 > i /\ SkipChars[c] \in Nat /\ SkipChars[c] >= c
      BY <2>2, SkipTo DEF Places
    <2>4. PICK s : s = SkipChars[c]
      OBVIOUS
    <2>5. s \in Nat /\ s > i
      BY <2>2, <2>3, <2>4
    <2>6. \E word, errs : \/ nextApostrophe(i) = Token("simple", TRUE, c + 1, word, errs)
                          \/ nextApostrophe(i) = Token("simple", TRUE, s, word, errs)
      BY <1>4, <2>1, <2>4 DEF nextApostrophe
    <2>7. \A word, errs : /\ Sound(Token("simple", TRUE, c + 1, word, errs), i)
                          /\ Sound(Token("simple", TRUE, s, word, errs), i)
      <3>1. c + 1 \in Nat
        BY <2>3
      <3> QED
        BY <1>2, <2>3, <2>5, <3>1
    <2> QED
      BY <2>6, <2>7
  <1> QED
    BY <1>3, <1>4

(* The token at the place I, and the chars that may start one. *)
TokenAt(i) == IF Char(i) \in Symbols THEN SymbolToken(i) ELSE AsciiToken(i)
Starts(i)  == i \in Nat /\ i >= 1 /\ Char(i) \notin {"eos", "eop", Blank, "!"} \cup Illegal

(* Which function reads it. *)
LEMMA TokenArms ==
  ASSUME NEW i
  PROVE  /\ Char(i) = Quote => TokenAt(i) = nextQuotedName(i)
         /\ Char(i) \in Openers => TokenAt(i) = nextNonender(i, Char(i))
         /\ Char(i) \in Closers => TokenAt(i) = nextEnder(i, Char(i))
         /\ Char(i) = "#" => TokenAt(i) = nextHexadecimalNumber(i)
         /\ Char(i) = "$" => TokenAt(i) = nextDollar(i)
         /\ Char(i) \in {"*", "cap"} => TokenAt(i) = nextInfix(i, "product")
         /\ Char(i) = "'" => TokenAt(i) = nextApostrophe(i)
         /\ Char(i) \in {"+", "-"} => TokenAt(i) = nextInfix(i, "sumPrefix")
         /\ Char(i) = "|" => TokenAt(i) = nextInfix(i, "sum")
         /\ Char(i) = "." => TokenAt(i) = nextDot(i)
         /\ Char(i) \in Digits => TokenAt(i) = nextNumber(i)
         /\ Char(i) = ":" => TokenAt(i) = nextColon(i)
         /\ Char(i) = "<" => TokenAt(i) = nextLess(i)
         /\ Char(i) = ">" => TokenAt(i) = nextGreater(i)
         /\ Char(i) \in {"=", "in"} => TokenAt(i) = nextRelation(i)
         /\ Char(i) = "?" => TokenAt(i) = nextHook(i)
         /\ Char(i) \in {"@", "up"} => TokenAt(i) = nextPostfix(i)
         /\ Char(i) = "neg" => TokenAt(i) = nextPrefix(i)
         /\ Char(i) = "wedge" => TokenAt(i) = nextNonender(i, "and")
         /\ Char(i) \in Capitals => TokenAt(i) = nextSecretName(i)
         /\ Char(i) \in Letters \ Capitals => TokenAt(i) = nextName(i)
  <1>1. CASE Char(i) \in Openers
    <2>1. Char(i) \notin Plain /\ Char(i) # Quote /\ Char(i) \notin Closers
      BY <1>1, OddChars
    <2>2. Char(i) \notin Symbols
      BY <2>1 DEF Plain, Symbols
    <2>3. AsciiToken(i) = nextNonender(i, Char(i))
      BY <1>1, <2>1 DEF AsciiToken, Plain, Digits, Lowers, Capitals
    <2> QED
      BY <1>1, <2>1, <2>2, <2>3 DEF TokenAt, Plain, Digits, Capitals, Letters, Lowers
  <1>2. CASE Char(i) \in Closers
    <2>1. Char(i) \notin Plain /\ Char(i) # Quote /\ Char(i) \notin Openers
      BY <1>2, OddChars
    <2>2. Char(i) \notin Symbols
      BY <2>1 DEF Plain, Symbols
    <2>3. AsciiToken(i) = nextEnder(i, Char(i))
      BY <1>2, <2>1 DEF AsciiToken, Plain, Digits, Lowers, Capitals
    <2> QED
      BY <1>2, <2>1, <2>2, <2>3 DEF TokenAt, Plain, Digits, Capitals, Letters, Lowers
  <1>3. CASE Char(i) = Quote
    <2>1. Char(i) \notin Plain /\ Char(i) \notin Openers /\ Char(i) \notin Closers
      BY <1>3, OddChars
    <2>2. Char(i) \notin Symbols
      BY <2>1 DEF Plain, Symbols
    <2>3. AsciiToken(i) = nextQuotedName(i)
      BY <1>3, <2>1 DEF AsciiToken, Plain, Digits, Lowers, Capitals
    <2> QED
      BY <1>3, <2>1, <2>2, <2>3 DEF TokenAt, Plain, Digits, Capitals, Letters, Lowers
  <1>4. CASE Char(i) \in Symbols
    <2>1. Char(i) \notin Openers /\ Char(i) \notin Closers /\ Char(i) # Quote
      BY <1>4, OddChars DEF Plain, Symbols
    <2>2. TokenAt(i) = SymbolToken(i)
      BY <1>4 DEF TokenAt
    <2> QED
      BY <1>4, <2>1, <2>2 DEF SymbolToken, Symbols, Digits, Capitals, Letters, Lowers
  <1>5. CASE Char(i) \notin Openers \cup Closers \cup Symbols /\ Char(i) # Quote
    <2>1. TokenAt(i) = AsciiToken(i)
      BY <1>5 DEF TokenAt
    <2> QED
      BY <1>5, <2>1 DEF AsciiToken, Symbols, Digits, Capitals, Letters, Lowers
  <1> QED
    BY <1>1, <1>2, <1>3, <1>4, <1>5

(* Every token is of a kind that says if it may end a term. *)
LEMMA TokenSound ==
  ASSUME TextOK, NEW i, Starts(i)
  PROVE  Sound(TokenAt(i), i)
  <1>1. i \in Nat /\ 1 <= i /\ Char(i) \notin {"eos", "eop"}
    BY DEF Starts
  <1>2. i \in 1 .. Len(text) /\ Char(i) \in Alphabet
    BY <1>1, CharFacts
  <1>3. CASE Char(i) \in Openers \cup Closers
    BY <1>1, <1>3, TokenArms, MarkSound
  <1>4. CASE Char(i) \in {"*", "cap", "+", "-", "|", ".", ":", "<", ">", "=", "in", "@", "up", "neg", "wedge"}
    BY <1>1, <1>4, TokenArms, MarkSound
  <1>5. CASE Char(i) \in {"#", "$", "'", "?", Quote}
    BY <1>1, <1>5, TokenArms, NameSound, NumberSound, LiteralSound, SimpleSound
  <1>6. CASE Char(i) \in Digits
    BY <1>1, <1>6, TokenArms, NumberSound
  <1>7. CASE Char(i) \in Letters
    <2>1. Char(i) \in isNameChar
      BY <1>7 DEF isNameChar
    <2> QED
      BY <1>1, <1>7, <2>1, TokenArms, NameSound
  <1>8. CASE Char(i) \notin Openers \cup Closers \cup Digits \cup Letters
              \cup {"*", "cap", "+", "-", "|", ".", ":", "<", ">", "=", "in", "@", "up", "neg", "wedge"}
              \cup {"#", "$", "'", "?", Quote}
    BY <1>2, <1>8 DEF Starts, Alphabet, Symbols, Letters
  <1> QED
    BY <1>3, <1>4, <1>5, <1>6, <1>7, <1>8

-----------------------------------------------------------------------------
(* Ends of lines *)

LastTo == IF tokens = <<>> THEN 1 ELSE LastToken.to
Ended  == tokens # <<>> /\ LastToken.kind \in Enders
Behind == {Char(i) : i \in LastTo .. at - 1}

(* What LinesEnd needs: what TOKEN ENDS TERM says of the chars behind the *)
(* last token.                                                            *)
LineInv ==
  /\ TextOK
  /\ at \in Nat /\ at >= 1 /\ ends \in BOOLEAN
  /\ \E S : tokens \in Seq(S)
  /\ LastTo \in Nat /\ LastTo <= at
  /\ ends => Ended \/ Illegal \cap Behind # {}
  /\ Ended => "eos" \notin Behind /\ (ends \/ Char(at) = "eop")
  /\ LinesEnd

(* A token that is appended is the last one, and moves no other. *)
LEMMA EmitFacts ==
  ASSUME NEW s, \E S : s \in Seq(S), NEW e, NEW t, t = Append(s, e)
  PROVE  /\ \E S : t \in Seq(S)
         /\ Len(s) \in Nat /\ (s = <<>> <=> Len(s) = 0)
         /\ t # <<>> /\ Len(t) = Len(s) + 1
         /\ DOMAIN s = 1 .. Len(s) /\ DOMAIN t = 1 .. Len(s) + 1
         /\ t[Len(s) + 1] = e /\ \A k \in 1 .. Len(s) : t[k] = s[k]
  <1>1. PICK S : s \in Seq(S)
    OBVIOUS
  <1>2. s \in Seq(S \cup {e}) /\ e \in S \cup {e}
    <2>1. \A k \in 1 .. Len(s) : s[k] \in S \cup {e}
      BY <1>1, ElementOfSeq
    <2>2. Len(s) \in Nat /\ DOMAIN s = 1 .. Len(s) /\ s = [k \in 1 .. Len(s) |-> s[k]]
      BY <1>1, LenProperties
    <2> QED
      BY <2>1, <2>2, IsASeq
  <1>3. t \in Seq(S \cup {e}) /\ Len(t) = Len(s) + 1
    BY <1>2, AppendProperties
  <1>4. t[Len(s) + 1] = e /\ \A k \in 1 .. Len(s) : t[k] = s[k]
    BY <1>2, AppendProperties
  <1>5. Len(s) \in Nat /\ DOMAIN s = 1 .. Len(s) /\ DOMAIN t = 1 .. Len(t)
    BY <1>2, <1>3, LenProperties
  <1>6. s = <<>> <=> Len(s) = 0
    BY <1>2, EmptySeq
  <1>7. t # <<>>
    BY <1>3, <1>5, EmptySeq
  <1> QED
    BY <1>3, <1>4, <1>5, <1>6, <1>7

(* LinesEnd of the tokens TS at K. *)
LineOK(ts, k) ==
  LET last    == IF k = 1 THEN 1 ELSE ts[k - 1].to
      between == {Char(i) : i \in last .. ts[k].from - 1}
      ender   == k > 1 /\ ts[k - 1].kind \in Enders
  IN IF ts[k].kind = "newline" THEN ender \/ Illegal \cap between # {}
     ELSE ender => "eos" \notin between

(* A token that is appended leaves the ends of the lines before it alone, and *)
(* is the end of a line only where one is due.                                *)
LEMMA LinesAppended ==
  ASSUME LineInv, NEW e, NEW t, t = Append(tokens, e), e.from = at,
         e.kind = "newline" => ends
  PROVE  \A k \in DOMAIN t : LineOK(t, k)
  <1> DEFINE n == Len(tokens)
  <1>1. /\ n \in Nat /\ (tokens = <<>> <=> n = 0) /\ DOMAIN tokens = 1 .. n
        /\ DOMAIN t = 1 .. n + 1 /\ t[n + 1] = e /\ \A k \in 1 .. n : t[k] = tokens[k]
    BY EmitFacts DEF LineInv
  <1>2. ASSUME NEW k \in 1 .. n PROVE LineOK(t, k)
    <2>1. LineOK(tokens, k)
      BY <1>1, <1>2 DEF LineInv, LinesEnd, LineOK
    <2>2. t[k] = tokens[k] /\ (k # 1 => t[k - 1] = tokens[k - 1])
      <3>1. k # 1 => k - 1 \in 1 .. n
        BY <1>1, <1>2
      <3> QED
        BY <1>1, <3>1
    <2> QED
      BY <2>1, <2>2, <1>1, <1>2 DEF LineOK
  <1>3. LineOK(t, n + 1)
    <2> DEFINE last  == IF n + 1 = 1 THEN 1 ELSE t[n + 1 - 1].to
               ender == n + 1 > 1 /\ t[n + 1 - 1].kind \in Enders
    <2>1. last = LastTo /\ (ender <=> Ended)
      <3>1. CASE n = 0
        BY <1>1, <3>1 DEF LastTo, Ended
      <3>2. CASE n # 0
        <4>1. n \in 1 .. n /\ n + 1 - 1 = n /\ n + 1 # 1 /\ n + 1 > 1
          BY <1>1, <3>2
        <4>2. t[n] = tokens[n]
          BY <1>1, <4>1
        <4> QED
          BY <1>1, <3>2, <4>1, <4>2 DEF LastTo, Ended, LastToken
      <3> QED
        BY <3>1, <3>2
    <2> HIDE DEF last, ender
    <2>2. {Char(i) : i \in last .. t[n + 1].from - 1} = Behind
      BY <1>1, <2>1 DEF Behind
    <2>3. IF t[n + 1].kind = "newline" THEN ender \/ Illegal \cap Behind # {}
          ELSE ender => "eos" \notin Behind
      BY <1>1, <2>1 DEF LineInv
    <2> QED
      BY <2>2, <2>3 DEF LineOK, last, ender
  <1>4. ASSUME NEW k \in DOMAIN t PROVE LineOK(t, k)
    <2>1. k \in 1 .. n \/ k = n + 1
      BY <1>1, <1>4
    <2> QED
      BY <1>2, <1>3, <2>1
  <1> QED
    BY <1>4

(* At the start of a file nothing has been read. *)
LEMMA LineInit == Init => LineInv
  <1> SUFFICES ASSUME Init PROVE LineInv
    OBVIOUS
  <1>1. TextOK
    BY LexerAssumption DEF Init, TextOK
  <1>2. tokens = <<>> /\ \E S : tokens \in Seq(S)
    <2>1. tokens = <<>> /\ tokens \in Seq({})
      BY DEF Init
    <2> QED
      BY <2>1
  <1>3. LinesEnd
    BY <1>2 DEF LinesEnd
  <1>4. LastTo = 1 /\ ~Ended
    BY <1>2 DEF LastTo, Ended
  <1>5. at = 1 /\ ends = FALSE
    BY DEF Init
  <1>6. LastTo \in Nat /\ LastTo <= at /\ at \in Nat /\ at >= 1
    BY <1>4, <1>5
  <1>7. ends \in BOOLEAN /\ (ends => Ended \/ Illegal \cap Behind # {})
    BY <1>5
  <1>8. Ended => "eos" \notin Behind /\ (ends \/ Char(at) = "eop")
    BY <1>4
  <1> QED
    BY ONLY <1>1, <1>2, <1>3, <1>6, <1>7, <1>8 DEF LineInv

(* The chars of the file stay what they are. *)
LEMMA SameChars ==
  ASSUME text' = text
  PROVE  /\ \A i : Char(i)' = Char(i)
         /\ TextOK => TextOK'
         /\ (\A k \in DOMAIN tokens' : LineOK(tokens', k)) => LinesEnd'
  <1>1. \A i : Char(i)' = Char(i)
    BY DEF Char
  <1>2. TextOK => TextOK'
    BY DEF TextOK
  <1>3. ASSUME \A k \in DOMAIN tokens' : LineOK(tokens', k) PROVE LinesEnd'
    BY <1>3 DEF LinesEnd, LineOK, Char
  <1> QED
    BY <1>1, <1>2, <1>3

(* Steps that read no token: the place goes on, over no end of a line if an *)
(* ender is the last token.                                                 *)
LEMMA LineSkip ==
  ASSUME LineInv, text' = text, tokens' = tokens,
         at' \in Nat, at' >= at, ends' \in BOOLEAN,
         ends' => ends \/ \E i \in at .. at' - 1 : Char(i) \in Illegal,
         Ended => /\ \A i \in at .. at' - 1 : Char(i) # "eos"
                  /\ ends' \/ Char(at') = "eop"
  PROVE  LineInv'
  <1>1. /\ TextOK' /\ at' >= 1
        /\ \A i : Char(i)' = Char(i)
    BY SameChars DEF LineInv
  <1>2. LastTo' = LastTo /\ (Ended' <=> Ended)
    BY DEF LastTo, Ended, LastToken
  <1>3. LastTo \in Nat /\ LastTo <= at /\ at \in Nat
    BY DEF LineInv
  <1>4. Behind' = {Char(i) : i \in LastTo .. at' - 1}
    <2>1. Behind' = {Char(i)' : i \in LastTo' .. at' - 1}
      BY DEF Behind
    <2> QED
      BY <1>1, <1>2, <2>1
  <1>5. Behind' = Behind \cup {Char(i) : i \in at .. at' - 1}
    <2>1. PICK l \in Nat, m \in Nat, n \in Nat : l = LastTo /\ m = at /\ n = at'
      BY <1>3
    <2>2. l <= m /\ m <= n
      BY <1>3, <2>1
    <2>3. \A i : i \in l .. n - 1 <=> i \in l .. m - 1 \/ i \in m .. n - 1
      BY ONLY <2>2, l \in Nat, m \in Nat, n \in Nat
    <2> QED
      BY <1>4, <2>1, <2>3 DEF Behind
  <1>6. ends' => Ended' \/ (Illegal \cap Behind)' # {}
    <2>1. CASE ends
      BY <1>2, <1>5, <2>1 DEF LineInv, Illegal
    <2>2. CASE ends' /\ \E i \in at .. at' - 1 : Char(i) \in Illegal
      BY <1>5, <2>2 DEF Illegal
    <2> QED
      BY <2>1, <2>2
  <1>7. Ended' => ("eos" \notin Behind)' /\ (ends' \/ Char(at)' = "eop")
    <2>1. Ended' => "eos" \notin Behind /\ \A i \in at .. at' - 1 : Char(i) # "eos"
      BY <1>2 DEF LineInv
    <2>2. Char(at)' = Char(at')
      BY DEF Char
    <2> QED
      BY <1>2, <1>5, <2>1, <2>2
  <1>8. LinesEnd'
    <2>1. \A k \in DOMAIN tokens : LineOK(tokens, k)
      BY DEF LineInv, LinesEnd, LineOK
    <2> QED
      BY <2>1, SameChars
  <1>9. \E S : tokens' \in Seq(S)
    BY DEF LineInv
  <1> QED
    BY <1>1, <1>2, <1>3, <1>6, <1>7, <1>8, <1>9 DEF LineInv

(* Steps that read a token, or make one of the end of a line. *)
LEMMA LineEmit ==
  ASSUME LineInv, text' = text, NEW e, tokens' = Append(tokens, e),
         e.from = at, e.to = at', at' \in Nat, at' >= 1, ends' \in BOOLEAN,
         e.kind = "newline" => ends,
         ends' <=> e.kind \in Enders
  PROVE  LineInv'
  <1>1. /\ Len(tokens) \in Nat
        /\ tokens' # <<>> /\ Len(tokens') = Len(tokens) + 1 /\ tokens'[Len(tokens) + 1] = e
        /\ \E S : tokens' \in Seq(S)
    BY EmitFacts DEF LineInv
  <1>2. LastTo' = at' /\ (Ended' <=> ends')
    BY <1>1 DEF LastTo, Ended, LastToken
  <1>3. Behind' = {}
    <2>1. at' .. at' - 1 = {}
      <3>1. \A n \in Nat : n .. n - 1 = {}
        OBVIOUS
      <3> QED
        BY <3>1
    <2>2. Behind' = {Char(i)' : i \in LastTo' .. at' - 1}
      BY DEF Behind
    <2> QED
      BY <1>2, <2>1, <2>2
  <1>4. LinesEnd'
    <2>1. \A k \in DOMAIN tokens' : LineOK(tokens', k)
      BY LinesAppended
    <2> QED
      BY <2>1, SameChars
  <1>5. TextOK'
    BY SameChars DEF LineInv
  <1>6. LastTo' \in Nat /\ LastTo' <= at'
    BY <1>2
  <1> QED
    BY <1>1, <1>2, <1>3, <1>4, <1>5, <1>6 DEF LineInv

(* Every step of the reader keeps that. *)
LEMMA LineNext ==
  ASSUME LineInv, Next
  PROVE  LineInv'
  <1>1. TextOK /\ at \in Nat /\ at >= 1 /\ ends \in BOOLEAN /\ Len(text) \in Nat
    BY CharFacts DEF LineInv
  <1>2. CASE ReadToken
    <2>1. PICK t : t = TokenAt(at)
      OBVIOUS
    <2>2. at' = t.to /\ ends' = t.ends /\ Emit(t, at) /\ text' = text
      BY <1>2, <2>1 DEF ReadToken, TokenAt
    <2>3. Sound(t, at)
      BY <1>1, <1>2, <2>1, TokenSound DEF ReadToken, Starts
    <2>4. PICK e : e = [kind |-> t.kind, from |-> at, to |-> t.to, word |-> t.word, errs |-> t.errs]
      OBVIOUS
    <2>5. /\ tokens' = Append(tokens, e) /\ e.from = at /\ e.to = at' /\ e.kind # "newline"
          /\ at' \in Nat /\ at' >= 1 /\ ends' \in BOOLEAN /\ (ends' <=> e.kind \in Enders)
      <3>1. tokens' = Append(tokens, e) /\ e.from = at /\ e.to = t.to /\ e.kind = t.kind
        BY <2>2, <2>4 DEF Emit
      <3>2. at' \in Nat /\ at' > at
        BY <2>2, <2>3 DEF Sound
      <3>3. at' >= 1
        BY <1>1, <3>2
      <3> QED
        BY <2>2, <2>3, <3>1, <3>2, <3>3 DEF Sound
    <2> QED
      BY <2>2, <2>5, LineEmit
  <1>3. CASE nextEndOfLine
    <2>1. at' = at + 1 /\ at' \in Nat /\ at' >= 1 /\ at' >= at /\ ends' = FALSE /\ text' = text
      BY <1>1, <1>3 DEF nextEndOfLine
    <2>2. CASE ends
      <3>1. PICK e : e = [kind |-> "newline", from |-> at, to |-> at + 1, word |-> <<>>, errs |-> {}]
        OBVIOUS
      <3>2. /\ tokens' = Append(tokens, e) /\ e.from = at /\ e.to = at + 1
            /\ e.kind = "newline"
        BY <1>3, <2>2, <3>1 DEF nextEndOfLine, Emit, Token
      <3>3. e.kind \notin Enders
        BY <3>2, EnderKinds DEF Plain
      <3> QED
        BY <2>1, <2>2, <3>2, <3>3, LineEmit
    <2>3. CASE ~ends
      <3>1. tokens' = tokens
        BY <1>3, <2>3 DEF nextEndOfLine
      <3>2. ~Ended
        BY <1>3, <2>3 DEF LineInv, nextEndOfLine
      <3> QED
        BY <2>1, <3>1, <3>2, LineSkip
    <2> QED
      BY <2>2, <2>3
  <1>4. CASE nextBlank
    <2>1. /\ at' = at + 1 /\ at' \in Nat /\ at' >= at /\ ends' = ends
          /\ text' = text /\ tokens' = tokens
      BY <1>1, <1>4 DEF nextBlank
    <2>2. at' - 1 = at
      BY <1>1, <2>1
    <2>3. Char(at) \notin {"eos", "eop"}
      BY <1>4, OddChars DEF nextBlank, Plain
    <2>4. \A i \in at .. at' - 1 : Char(i) # "eos"
      BY <1>1, <2>2, <2>3
    <2>5. Ended => ends'
      BY <2>1, <2>3 DEF LineInv
    <2> QED
      BY <1>1, <2>1, <2>4, <2>5, LineSkip
  <1>5. CASE nextComment
    <2>1. at' = Until(at + 1, {"eos"}) /\ ends' = ends /\ text' = text /\ tokens' = tokens
      BY <1>5 DEF nextComment
    <2>2. Char(at) \notin {"eos", "eop"}
      BY <1>5 DEF nextComment
    <2>3. at < Len(text)
      BY <1>1, <2>2, CharFacts
    <2>4. /\ at' \in at + 1 .. Len(text)
          /\ \A k \in at + 1 .. at' - 1 : Char(k) \notin {"eos"}
      <3>1. at + 1 \in Nat /\ 1 <= at + 1 /\ at + 1 <= Len(text)
        BY <1>1, <2>3
      <3> QED
        BY <1>1, <2>1, <3>1, UntilFacts
    <2>5. at' \in Nat /\ at' >= at
      BY <1>1, <2>4
    <2>6. \A i \in at .. at' - 1 : Char(i) # "eos"
      <3>1. PICK m \in Nat, n \in Nat : m = at /\ n = at'
        BY <1>1, <2>5
      <3>2. \A i \in m .. n - 1 : i = m \/ i \in m + 1 .. n - 1
        OBVIOUS
      <3> QED
        BY <2>2, <2>4, <3>1, <3>2
    <2>7. Ended => ends'
      BY <2>1, <2>2 DEF LineInv
    <2> QED
      BY <1>1, <2>1, <2>5, <2>6, <2>7, LineSkip
  <1>6. CASE nextIllegal
    <2>1. /\ at' = at + 1 /\ at' \in Nat /\ at' >= at /\ ends' = TRUE
          /\ text' = text /\ tokens' = tokens
      BY <1>1, <1>6 DEF nextIllegal
    <2>2. at' - 1 = at
      BY <1>1, <2>1
    <2>3. Char(at) # "eos" /\ Char(at) \in Illegal
      BY <1>6, OddChars DEF nextIllegal, Illegal, Plain
    <2>4. \A i \in at .. at' - 1 : Char(i) # "eos"
      BY <1>1, <2>2, <2>3
    <2>5. \E i \in at .. at' - 1 : Char(i) \in Illegal
      <3>1. at \in at .. at' - 1
        BY <1>1, <2>2
      <3> QED
        BY <2>3, <3>1
    <2> QED
      BY <2>1, <2>4, <2>5, LineSkip
  <1>7. CASE nextEndOfProgram
    <2>1. /\ at' = at /\ ends' = FALSE /\ text' = text /\ tokens' = tokens
          /\ Char(at') = "eop"
      BY <1>7 DEF nextEndOfProgram
    <2>2. \A i \in at .. at' - 1 : Char(i) # "eos"
      <3>1. \A n \in Nat : n .. n - 1 = {}
        OBVIOUS
      <3> QED
        BY <1>1, <2>1, <3>1
    <2>3. at' \in Nat /\ at' >= at /\ ends' \in BOOLEAN /\ ~ends'
      <3>1. at' = at /\ at \in Nat
        BY <1>1, <2>1
      <3>2. at' \in Nat /\ at' >= at
        BY <3>1
      <3>3. ends' \in BOOLEAN /\ ~ends'
        BY ONLY <2>1
      <3> QED
        BY <3>2, <3>3
    <2>4. Ended => /\ \A i \in at .. at' - 1 : Char(i) # "eos"
                   /\ ends' \/ Char(at') = "eop"
      BY <2>1, <2>2
    <2>5. text' = text /\ tokens' = tokens
      BY <2>1
    <2> QED
      BY ONLY LineInv, <2>3, <2>4, <2>5, LineSkip
  <1> QED
    BY <1>2, <1>3, <1>4, <1>5, <1>6, <1>7 DEF Next

(* So does a step that stutters. *)
LEMMA LineStep == LineInv /\ [Next]_vars => LineInv'
  <1>1. ASSUME LineInv, UNCHANGED vars PROVE LineInv'
    <2>1. text' = text /\ at' = at /\ ends' = ends /\ tokens' = tokens
      BY <1>1 DEF vars
    <2> QED
      BY <1>1, <2>1 DEF LineInv, TextOK, LastTo, LastToken, Ended, Behind, LinesEnd, Char
  <1> QED
    BY <1>1, LineNext

(* An end of line is a token exactly if the last token may end a term, or if *)
(* an illegal char is in between: for every file, and however long.          *)
THEOREM LinesEndRight == Spec => []LinesEnd
  <1>1. Init => LineInv
    BY LineInit
  <1>2. LineInv /\ [Next]_vars => LineInv'
    BY LineStep
  <1>3. LineInv => LinesEnd
    BY DEF LineInv
  <1> QED
    BY <1>1, <1>2, <1>3, PTL DEF Spec

-----------------------------------------------------------------------------
(* Lexemes *)

(* A place of the file, and a place on or behind it. *)
Span(i, j) == i \in Nat /\ j \in Nat /\ 1 <= i /\ i <= j /\ j <= Len(text)

(* The spelling of a lexeme of one, two or three chars. *)
LEMMA SpellingFacts ==
  ASSUME TextOK, NEW i, NEW j, Span(i, j)
  PROVE  /\ \A a : Spelling(i, j) = <<a>> <=> j = i /\ text[i] = a
         /\ \A a, b : Spelling(i, j) = <<a, b>> <=> j = i + 1 /\ text[i] = a /\ text[i + 1] = b
         /\ \A a, b, c : Spelling(i, j) = <<a, b, c>> <=>
              j = i + 2 /\ text[i] = a /\ text[i + 1] = b /\ text[i + 2] = c
  <1> DEFINE s == Spelling(i, j)
  <1>0. i \in Nat /\ j \in Nat /\ 1 <= i /\ i <= j /\ Len(text) \in Nat /\ j <= Len(text)
    BY CharFacts DEF Span
  <1>1. s = [k \in 1 .. (j + 1) - i |-> Char(i + k - 1)]
    BY DEF Spelling, Chars
  <1>2. PICK n \in Nat : n = (j + 1) - i
    BY <1>0
  <1>3. DOMAIN s = 1 .. n /\ s = [k \in 1 .. n |-> s[k]]
    BY <1>1, <1>2
  <1>4. ASSUME NEW k \in 1 .. n PROVE s[k] = text[i + k - 1]
    <2>1. PICK m \in Nat : m = i + k - 1
      BY <1>0, <1>2
    <2>2. 1 <= m /\ m <= j
      BY <1>0, <1>2, <2>1
    <2>3. m \in 1 .. Len(text)
      BY ONLY <1>0, <2>2, m \in Nat
    <2>4. Char(m) = text[m]
      BY <2>3, CharFacts
    <2>5. s[k] = Char(i + k - 1)
      BY <1>1, <1>2
    <2> QED
      BY <2>1, <2>4, <2>5
  <1> HIDE DEF s
  <1>5. i + 1 - 1 = i /\ i + 2 - 1 = i + 1 /\ i + 3 - 1 = i + 2
    BY <1>0
  <1>6. (n = 1 <=> j = i) /\ (n = 2 <=> j = i + 1) /\ (n = 3 <=> j = i + 2)
    BY <1>0, <1>2
  <1>7. /\ n = 1 => s = <<text[i]>>
        /\ n = 2 => s = <<text[i], text[i + 1]>>
        /\ n = 3 => s = <<text[i], text[i + 1], text[i + 2]>>
    <2>1. ASSUME n = 1 PROVE s = <<text[i]>>
      <3>1. s[1] = text[i]
        BY <1>4, <1>5, <2>1
      <3> DEFINE t == <<text[i]>>
      <3>2. t = [k \in 1 .. 1 |-> t[k]] /\ t[1] = text[i]
        OBVIOUS
      <3> HIDE DEF t
      <3>3. s = t
        BY <1>3, <2>1, <3>1, <3>2
      <3> QED
        BY <3>3 DEF t
    <2>2. ASSUME n = 2 PROVE s = <<text[i], text[i + 1]>>
      <3>1. s[1] = text[i] /\ s[2] = text[i + 1]
        BY <1>4, <1>5, <2>2
      <3> DEFINE t == <<text[i], text[i + 1]>>
      <3>2. t = [k \in 1 .. 2 |-> t[k]] /\ t[1] = text[i] /\ t[2] = text[i + 1]
        OBVIOUS
      <3> HIDE DEF t
      <3>3. s = t
        BY <1>3, <2>2, <3>1, <3>2
      <3> QED
        BY <3>3 DEF t
    <2>3. ASSUME n = 3 PROVE s = <<text[i], text[i + 1], text[i + 2]>>
      <3>1. s[1] = text[i] /\ s[2] = text[i + 1] /\ s[3] = text[i + 2]
        BY <1>4, <1>5, <2>3
      <3> DEFINE t == <<text[i], text[i + 1], text[i + 2]>>
      <3>2. t = [k \in 1 .. 3 |-> t[k]] /\ t[1] = text[i] /\ t[2] = text[i + 1] /\ t[3] = text[i + 2]
        OBVIOUS
      <3> HIDE DEF t
      <3>3. s = t
        BY <1>3, <2>3, <3>1, <3>2
      <3> QED
        BY <3>3 DEF t
    <2> QED
      BY <2>1, <2>2, <2>3
  <1>8. /\ \A a : s = <<a>> => n = 1
        /\ \A a, b : s = <<a, b>> => n = 2
        /\ \A a, b, c : s = <<a, b, c>> => n = 3
    <2>1. \A m \in Nat : 1 .. n = 1 .. m => n = m
      <3> SUFFICES ASSUME NEW m \in Nat, 1 .. n = 1 .. m PROVE n = m
        OBVIOUS
      <3>1. CASE n < m
        <4>1. m \in 1 .. m /\ m \notin 1 .. n
          BY <3>1
        <4> QED
          BY <4>1
      <3>2. CASE n > m
        <4>1. n \in 1 .. n /\ n \notin 1 .. m
          BY <3>2
        <4> QED
          BY <4>1
      <3> QED
        BY <3>1, <3>2
    <2>2. /\ \A a : DOMAIN <<a>> = 1 .. 1
          /\ \A a, b : DOMAIN <<a, b>> = 1 .. 2
          /\ \A a, b, c : DOMAIN <<a, b, c>> = 1 .. 3
      OBVIOUS
    <2>3. \A m \in Nat : DOMAIN s = 1 .. m => n = m
      BY <1>3, <2>1
    <2> QED
      BY <2>2, <2>3
  <1>9. /\ \A a : s = <<a>> <=> j = i /\ text[i] = a
        /\ \A a, b : s = <<a, b>> <=> j = i + 1 /\ text[i] = a /\ text[i + 1] = b
        /\ \A a, b, c : s = <<a, b, c>> <=>
             j = i + 2 /\ text[i] = a /\ text[i + 1] = b /\ text[i + 2] = c
    BY <1>6, <1>7, <1>8
  <1> QED
    BY <1>9 DEF s

(* What the digits are worth. *)
LEMMA ValueFacts ==
  ASSUME NEW c \in isTridecahexialChar, c # Low
  PROVE  /\ Value(c) \in Nat
         /\ Value(c) < 10 <=> c \in Digits
         /\ Value(c) < 16 <=> c \in isHexadecimalChar
  <1>1. c \in {"0", "1", "9", "a", "e", "n", "i", "f", "A", "E"}
    BY DEF isTridecahexialChar, Digits, Lowers, Capitals
  <1> QED
    BY <1>1 DEF Value, Digits, isHexadecimalChar

(* Decimal digits are what they are called, and there is one. *)
LEMMA DigitsFacts ==
  ASSUME NEW i \in Nat, NEW j \in Nat
  PROVE  /\ IsDigits(i, j, 10) <=>
              (AllIn(i, j, isDecimalChar) /\ \E k \in i .. j : text[k] # Low)
         /\ IsDigits(i, j, 16) <=>
              /\ AllIn(i, j, isHexadecimalChar \cup {Low})
              /\ \E k \in i .. j : text[k] # Low
         /\ \A radix : IsDigits(i, j, radix) => i <= j
         /\ IsDecimal(i, j) => text[i] \in Digits
  <1>1. isDecimalChar \subseteq isTridecahexialChar /\ isHexadecimalChar \subseteq isTridecahexialChar
    BY DEF isDecimalChar, isHexadecimalChar, isTridecahexialChar, Lowers, Capitals
  <1>2. \A c \in isTridecahexialChar : (c = Low \/ Value(c) < 10) <=> c \in isDecimalChar
    BY ValueFacts DEF isDecimalChar
  <1>3. \A c \in isTridecahexialChar :
          (c = Low \/ Value(c) < 16) <=> c \in isHexadecimalChar \cup {Low}
    BY ValueFacts
  <1>4. IsDigits(i, j, 10) <=> (AllIn(i, j, isDecimalChar) /\ \E k \in i .. j : text[k] # Low)
    BY <1>1, <1>2 DEF IsDigits, AllIn
  <1>5. Low \in isTridecahexialChar
    BY DEF isTridecahexialChar
  <1>6. IsDigits(i, j, 16) <=> /\ AllIn(i, j, isHexadecimalChar \cup {Low})
                               /\ \E k \in i .. j : text[k] # Low
    BY <1>1, <1>3, <1>5 DEF IsDigits, AllIn
  <1>7. \A radix : IsDigits(i, j, radix) => i <= j
    <2>1. (\E k \in i .. j : TRUE) => i <= j
      OBVIOUS
    <2> QED
      BY <2>1 DEF IsDigits
  <1>8. IsDecimal(i, j) => text[i] \in Digits
    <2> SUFFICES ASSUME IsDecimal(i, j) PROVE text[i] \in Digits
      OBVIOUS
    <2>1. IsDigits(i, j, 10) /\ text[i] # Low /\ i <= j
      BY <1>7 DEF IsDecimal
    <2>2. i \in i .. j
      BY <2>1
    <2> QED
      BY <1>4, <2>1, <2>2 DEF AllIn, isDecimalChar
  <1> QED
    BY <1>4, <1>6, <1>7, <1>8

(* The spellings of the kinds that have but a few. *)
LEMMA FixedKinds ==
  ASSUME TextOK, NEW i, NEW j, Span(i, j)
  PROVE  /\ IsLexeme("assigner", i, j) <=>
              \/ j = i + 1 /\ text[i] \in {":", "+", "-", "cap", "*", "|"} /\ text[i + 1] = "="
              \/ j = i + 2 /\ text[i] \in {"<", ">"} /\ text[i + 1] = text[i] /\ text[i + 2] = "="
         /\ IsLexeme("comparison", i, j) <=>
              \/ j = i /\ text[i] \in {"<", ">", "=", "in"}
              \/ j = i + 1 /\ text[i] = "<" /\ text[i + 1] \in {"=", ">"}
              \/ j = i + 1 /\ text[i] = ">" /\ text[i + 1] = "="
         /\ IsLexeme("product", i, j) <=>
              \/ j = i /\ text[i] \in {"cap", "*"}
              \/ j = i + 1 /\ text[i] \in {"<", ">"} /\ text[i + 1] = text[i]
         /\ IsLexeme("sumPrefix", i, j) <=> j = i /\ text[i] \in {"+", "-"}
         /\ IsLexeme("sum", i, j) <=> j = i /\ text[i] = "|"
         /\ IsLexeme("postfix", i, j) <=> j = i /\ text[i] \in {"@", "up"}
         /\ IsLexeme("prefix", i, j) <=> j = i /\ text[i] = "neg"
         /\ IsLexeme("and", i, j) <=> j = i /\ text[i] = "wedge"
         /\ IsLexeme(":-", i, j) <=> j = i + 1 /\ text[i] = ":" /\ text[i + 1] = "-"
         /\ IsLexeme("if", i, j) <=> j = i + 1 /\ text[i] = "i" /\ text[i + 1] = "f"
         /\ IsLexeme("in", i, j) <=> j = i + 1 /\ text[i] = "i" /\ text[i + 1] = "n"
         /\ IsLexeme("name", i, j) <=> IsName(i, j)
         /\ IsLexeme("simple", i, j) <=> IsDollar(i, j) \/ IsNumber(i, j) \/ IsLiteral(i, j)
         /\ \A kind \in Marks : IsLexeme(kind, i, j) <=> j = i /\ text[i] = kind
  <1>0. /\ \A a : Spelling(i, j) = <<a>> <=> j = i /\ text[i] = a
        /\ \A a, b : Spelling(i, j) = <<a, b>> <=> j = i + 1 /\ text[i] = a /\ text[i + 1] = b
        /\ \A a, b, c : Spelling(i, j) = <<a, b, c>> <=>
             j = i + 2 /\ text[i] = a /\ text[i + 1] = b /\ text[i + 2] = c
    BY SpellingFacts
  <1> DEFINE s == Spelling(i, j)
  <1>1. /\ IsLexeme("assigner", i, j) <=> s \in Assigners
        /\ IsLexeme("comparison", i, j) <=> s \in Comparisons
        /\ IsLexeme("product", i, j) <=> s \in Products
        /\ IsLexeme("sumPrefix", i, j) <=> s \in {<<"+">>, <<"-">>}
        /\ IsLexeme("sum", i, j) <=> s = <<"|">>
        /\ IsLexeme("postfix", i, j) <=> s \in {<<"@">>, <<"up">>}
        /\ IsLexeme("prefix", i, j) <=> s = <<"neg">>
        /\ IsLexeme("and", i, j) <=> s = <<"wedge">>
        /\ IsLexeme(":-", i, j) <=> s = <<":", "-">>
        /\ IsLexeme("if", i, j) <=> s = <<"i", "f">>
        /\ IsLexeme("in", i, j) <=> s = <<"i", "n">>
        /\ IsLexeme("name", i, j) <=> IsName(i, j)
        /\ IsLexeme("simple", i, j) <=> IsDollar(i, j) \/ IsNumber(i, j) \/ IsLiteral(i, j)
    BY DEF IsLexeme
  <1> DEFINE kinds == {"assigner", "comparison", "product", "sumPrefix", "sum", "postfix",
                       "prefix", "and", ":-", "if", "in", "name", "simple"}
  <1>2. \A kind \in Marks : IsLexeme(kind, i, j) <=> s = <<kind>>
    <2>1. \A kind \in Marks : kind \notin kinds
      BY OddChars DEF Marks, Plain
    <2> QED
      BY <2>1 DEF IsLexeme
  <1> HIDE DEF s
  <1>3. IsLexeme("assigner", i, j) <=>
          \/ j = i + 1 /\ text[i] \in {":", "+", "-", "cap", "*", "|"} /\ text[i + 1] = "="
          \/ j = i + 2 /\ text[i] \in {"<", ">"} /\ text[i + 1] = text[i] /\ text[i + 2] = "="
    <2>1. IsLexeme("assigner", i, j) <=>
            \/ s = <<"<", "<", "=">> \/ s = <<">", ">", "=">>
            \/ s = <<":", "=">> \/ s = <<"+", "=">> \/ s = <<"-", "=">>
            \/ s = <<"cap", "=">> \/ s = <<"*", "=">> \/ s = <<"|", "=">>
      BY <1>1 DEF Assigners
    <2>2. /\ \A a, b : s = <<a, b>> <=> j = i + 1 /\ text[i] = a /\ text[i + 1] = b
          /\ \A a, b, c : s = <<a, b, c>> <=>
               j = i + 2 /\ text[i] = a /\ text[i + 1] = b /\ text[i + 2] = c
      BY <1>0 DEF s
    <2>3. /\ s = <<"<", "<", "=">> <=> j = i + 2 /\ text[i] = "<" /\ text[i + 1] = "<" /\ text[i + 2] = "="
          /\ s = <<">", ">", "=">> <=> j = i + 2 /\ text[i] = ">" /\ text[i + 1] = ">" /\ text[i + 2] = "="
          /\ s = <<":", "=">> <=> j = i + 1 /\ text[i] = ":" /\ text[i + 1] = "="
          /\ s = <<"+", "=">> <=> j = i + 1 /\ text[i] = "+" /\ text[i + 1] = "="
          /\ s = <<"-", "=">> <=> j = i + 1 /\ text[i] = "-" /\ text[i + 1] = "="
          /\ s = <<"cap", "=">> <=> j = i + 1 /\ text[i] = "cap" /\ text[i + 1] = "="
          /\ s = <<"*", "=">> <=> j = i + 1 /\ text[i] = "*" /\ text[i + 1] = "="
          /\ s = <<"|", "=">> <=> j = i + 1 /\ text[i] = "|" /\ text[i + 1] = "="
      BY ONLY <2>2
    <2> QED
      BY ONLY <2>1, <2>3
  <1>4. IsLexeme("comparison", i, j) <=>
          \/ j = i /\ text[i] \in {"<", ">", "=", "in"}
          \/ j = i + 1 /\ text[i] = "<" /\ text[i + 1] \in {"=", ">"}
          \/ j = i + 1 /\ text[i] = ">" /\ text[i + 1] = "="
    <2>1. IsLexeme("comparison", i, j) <=>
            \/ s = <<"<">> \/ s = <<">">> \/ s = <<"=">> \/ s = <<"in">>
            \/ s = <<"<", "=">> \/ s = <<"<", ">">> \/ s = <<">", "=">>
      BY <1>1 DEF Comparisons
    <2>2. /\ \A a : s = <<a>> <=> j = i /\ text[i] = a
          /\ \A a, b : s = <<a, b>> <=> j = i + 1 /\ text[i] = a /\ text[i + 1] = b
      BY <1>0 DEF s
    <2>3. /\ s = <<"<">> <=> j = i /\ text[i] = "<"
          /\ s = <<">">> <=> j = i /\ text[i] = ">"
          /\ s = <<"=">> <=> j = i /\ text[i] = "="
          /\ s = <<"in">> <=> j = i /\ text[i] = "in"
          /\ s = <<"<", "=">> <=> j = i + 1 /\ text[i] = "<" /\ text[i + 1] = "="
          /\ s = <<"<", ">">> <=> j = i + 1 /\ text[i] = "<" /\ text[i + 1] = ">"
          /\ s = <<">", "=">> <=> j = i + 1 /\ text[i] = ">" /\ text[i + 1] = "="
      BY ONLY <2>2
    <2> QED
      BY ONLY <2>1, <2>3
  <1>5. IsLexeme("product", i, j) <=>
          \/ j = i /\ text[i] \in {"cap", "*"}
          \/ j = i + 1 /\ text[i] \in {"<", ">"} /\ text[i + 1] = text[i]
    <2>1. IsLexeme("product", i, j) <=>
            s = <<"cap">> \/ s = <<"*">> \/ s = <<"<", "<">> \/ s = <<">", ">">>
      BY <1>1 DEF Products
    <2>2. /\ \A a : s = <<a>> <=> j = i /\ text[i] = a
          /\ \A a, b : s = <<a, b>> <=> j = i + 1 /\ text[i] = a /\ text[i + 1] = b
      BY <1>0 DEF s
    <2> QED
      BY ONLY <2>1, <2>2
  <1>6. /\ IsLexeme("sumPrefix", i, j) <=> j = i /\ text[i] \in {"+", "-"}
        /\ IsLexeme("postfix", i, j) <=> j = i /\ text[i] \in {"@", "up"}
        /\ IsLexeme("sum", i, j) <=> j = i /\ text[i] = "|"
        /\ IsLexeme("prefix", i, j) <=> j = i /\ text[i] = "neg"
        /\ IsLexeme("and", i, j) <=> j = i /\ text[i] = "wedge"
        /\ \A kind \in Marks : IsLexeme(kind, i, j) <=> j = i /\ text[i] = kind
    <2>1. \A a : s = <<a>> <=> j = i /\ text[i] = a
      BY <1>0 DEF s
    <2> QED
      BY ONLY <1>1, <1>2, <2>1
  <1>7. /\ IsLexeme(":-", i, j) <=> j = i + 1 /\ text[i] = ":" /\ text[i + 1] = "-"
        /\ IsLexeme("if", i, j) <=> j = i + 1 /\ text[i] = "i" /\ text[i + 1] = "f"
        /\ IsLexeme("in", i, j) <=> j = i + 1 /\ text[i] = "i" /\ text[i + 1] = "n"
    <2>1. \A a, b : s = <<a, b>> <=> j = i + 1 /\ text[i] = a /\ text[i + 1] = b
      BY <1>0 DEF s
    <2> QED
      BY ONLY <1>1, <2>1
  <1> QED
    BY ONLY <1>1, <1>3, <1>4, <1>5, <1>6, <1>7

(* What the other kinds start with. *)
LEMMA FirstChar ==
  ASSUME TextOK, NEW i, NEW j, Span(i, j)
  PROVE  /\ IsName(i, j) => text[i] \in Letters \cup {Quote}
         /\ IsDollar(i, j) => text[i] = "$"
         /\ IsNumber(i, j) => text[i] \in Digits \cup {"#"}
         /\ IsLiteral(i, j) => text[i] = "'"
         /\ IsHex(i, j) => text[i] = "#"
         /\ IsDecimal(i, j) \/ IsRadix(i, j) \/ IsReal(i, j) => text[i] \in Digits
  <1>0. i \in Nat /\ j \in Nat /\ 1 <= i /\ i <= j
    BY DEF Span
  <1>1. IsName(i, j) => text[i] \in Letters \cup {Quote}
    BY DEF IsName, IsQuoted, IsWord
  <1>2. IsDollar(i, j) => text[i] = "$"
    BY DEF IsDollar
  <1>3. IsHex(i, j) => text[i] = "#"
    BY DEF IsHex
  <1>4. \A m \in i .. j : IsDecimal(i, m - 1) => text[i] \in Digits
    <2> TAKE m \in i .. j
    <2>1. m \in Nat /\ m - 1 \in Nat
      BY <1>0
    <2> QED
      BY <1>0, <2>1, DigitsFacts
  <1>5. IsDecimal(i, j) \/ IsRadix(i, j) \/ IsReal(i, j) => text[i] \in Digits
    BY <1>0, <1>4, DigitsFacts DEF IsRadix, IsReal
  <1>6. IsLiteral(i, j) => text[i] = "'"
    <2>1. i \in i .. i + 1
      BY <1>0
    <2> QED
      BY <2>1 DEF IsLiteral, AllIn
  <1> QED
    BY <1>1, <1>2, <1>3, <1>5, <1>6 DEF IsNumber

(* From the place I on, and up to the end of its line, only the chars before *)
(* the place TO are a lexeme or begin one that is longer, and of one KIND.   *)
Right(i, to, kind) ==
  /\ to \in Nat /\ i < to /\ to <= Len(text)
  /\ kind \in LexemeKinds
  /\ \A k \in LexemeKinds, j \in to - 1 .. Len(text) :
       NoneIn(i, j, {"eos"}) => (IsLexeme(k, i, j) <=> k = kind /\ j = to - 1)

(* The other kinds all have but a few spellings. *)
LEMMA MarkKinds ==
  ASSUME TextOK, NEW i, NEW j, Span(i, j),
         text[i] \notin Letters \cup Digits \cup {Quote, "$", "#", "'"}
  PROVE  \A k \in {"if", "in", "name", "simple"} : ~IsLexeme(k, i, j)
  <1>1. text[i] # "i"
    BY DEF Letters, Lowers
  <1> QED
    BY <1>1, FixedKinds, FirstChar

(* A mark or an operator that is read is the longest one. *)
LEMMA MarkRight ==
  ASSUME TextOK, NEW i, Starts(i),
         Char(i) \in Openers \cup Closers \cup
           {"*", "cap", "+", "-", "|", ".", ":", "<", ">", "=", "in", "@", "up", "neg", "wedge"},
         TokenAt(i).to <= Len(text)
  PROVE  Right(i, TokenAt(i).to, TokenAt(i).kind)
  <1> DEFINE t == TokenAt(i)
             c == Char(i)
             Two == Char(i + 1)
  <1>1. /\ i \in Nat /\ 1 <= i /\ Len(text) \in Nat /\ i < Len(text) /\ c \notin {"eos", "eop"}
        /\ c = text[i] /\ Two = text[i + 1]
    <2>1. i \in Nat /\ 1 <= i /\ Len(text) \in Nat /\ i < Len(text) /\ c \notin {"eos", "eop"}
      BY CharFacts DEF Starts
    <2>2. i \in 1 .. Len(text) /\ i + 1 \in 1 .. Len(text)
      BY <2>1
    <2> QED
      BY <2>1, <2>2, CharFacts
  <1>2. text[i] \notin Letters \cup Digits \cup {Quote, "$", "#", "'"}
    BY <1>1, OddChars DEF Plain, Letters, Lowers, Capitals, Digits
  <1>3. /\ c \in Openers => t.kind = c /\ t.to = i + 1
        /\ c \in Closers => t.kind = c /\ t.to = i + 1
        /\ c = "." => t.kind = "." /\ t.to = i + 1
        /\ c \in {"=", "in"} => t.kind = "comparison" /\ t.to = i + 1
        /\ c \in {"@", "up"} => t.kind = "postfix" /\ t.to = i + 1
        /\ c = "neg" => t.kind = "prefix" /\ t.to = i + 1
        /\ c = "wedge" => t.kind = "and" /\ t.to = i + 1
    BY TokenArms DEF nextNonender, nextEnder, nextDot, nextRelation, nextPostfix, nextPrefix, Token
  <1>4. /\ c \in {"*", "cap"} /\ Two = "=" => t.kind = "assigner" /\ t.to = i + 2
        /\ c \in {"*", "cap"} /\ Two # "=" => t.kind = "product" /\ t.to = i + 1
        /\ c \in {"+", "-"} /\ Two = "=" => t.kind = "assigner" /\ t.to = i + 2
        /\ c \in {"+", "-"} /\ Two # "=" => t.kind = "sumPrefix" /\ t.to = i + 1
        /\ c = "|" /\ Two = "=" => t.kind = "assigner" /\ t.to = i + 2
        /\ c = "|" /\ Two # "=" => t.kind = "sum" /\ t.to = i + 1
        /\ c = ":" /\ Two = "-" => t.kind = ":-" /\ t.to = i + 2
        /\ c = ":" /\ Two = "=" => t.kind = "assigner" /\ t.to = i + 2
        /\ c = ":" /\ Two \notin {"-", "="} => t.kind = ":" /\ t.to = i + 1
    BY TokenArms DEF nextInfix, nextColon, Operator, Token
  <1>5. /\ c = "<" /\ Two = "<" /\ Char(i + 2) = "=" => t.kind = "assigner" /\ t.to = i + 3
        /\ c = "<" /\ Two = "<" /\ Char(i + 2) # "=" => t.kind = "product" /\ t.to = i + 2
        /\ c = "<" /\ Two \in {"=", ">"} => t.kind = "comparison" /\ t.to = i + 2
        /\ c = "<" /\ Two \notin {"<", "=", ">"} => t.kind = "comparison" /\ t.to = i + 1
        /\ c = ">" /\ Two = ">" /\ Char(i + 2) = "=" => t.kind = "assigner" /\ t.to = i + 3
        /\ c = ">" /\ Two = ">" /\ Char(i + 2) # "=" => t.kind = "product" /\ t.to = i + 2
        /\ c = ">" /\ Two = "=" => t.kind = "comparison" /\ t.to = i + 2
        /\ c = ">" /\ Two \notin {"=", ">"} => t.kind = "comparison" /\ t.to = i + 1
    BY TokenArms DEF nextLess, nextGreater, Operator, Token
  <1>6. PICK to, kind : to = t.to /\ kind = t.kind
    OBVIOUS
  <1>7. to \in {i + 1, i + 2, i + 3} /\ kind \in LexemeKinds
    BY <1>3, <1>4, <1>5, <1>6 DEF LexemeKinds, Marks
  <1>8. ASSUME NEW k \in LexemeKinds, NEW j \in to - 1 .. Len(text)
        PROVE  IsLexeme(k, i, j) <=> k = kind /\ j = to - 1
    <2>1. Span(i, j) /\ j \in Nat /\ to - 1 <= j
      BY <1>1, <1>7, <1>8 DEF Span
    <2>2. i + 2 <= j => Char(i + 2) = text[i + 2]
      <3>1. i + 2 <= j => i + 2 \in 1 .. Len(text)
        BY <1>1, <1>8, <2>1
      <3> QED
        BY <3>1, CharFacts
    <2>3. \A l \in {"if", "in", "name", "simple"} : ~IsLexeme(l, i, j)
      BY <1>2, <2>1, MarkKinds
    <2>0. c \in Openers \cup Closers \cup
             {"*", "cap", "+", "-", "|", ".", ":", "<", ">", "=", "in", "@", "up", "neg", "wedge"}
      OBVIOUS
    <2> HIDE DEF t, c, Two
    <2>4. CASE c \in Openers \cup Closers
      <3>1. c \notin Plain /\ kind = c /\ to = i + 1 /\ c \in Marks
        BY <1>3, <1>6, <2>4, OddChars DEF Marks
      <3>2. CASE k \in Marks
        BY <1>1, <2>1, <3>1, <3>2, FixedKinds
      <3>3. CASE k \notin Marks
        <4>1. k # kind
          BY <3>1, <3>3
        <4>2. ~IsLexeme(k, i, j)
          BY <1>1, <2>1, <2>3, <3>1, <3>3, FixedKinds DEF LexemeKinds, Plain
        <4> QED
          BY <4>1, <4>2
      <3> QED
        BY <3>2, <3>3
    <2>5. CASE c \in {".", "=", "in", "@", "up", "neg", "wedge"}
      <3>1. CASE k \in Marks
        <4>1. kind # k \/ kind = "."
          BY <1>3, <1>6, <2>5, <3>1, OddChars DEF Marks, Plain
        <4> QED
          BY <1>1, <1>3, <1>6, <2>1, <2>5, <3>1, <4>1, FixedKinds, OddChars DEF Marks, Plain
      <3>2. CASE k \notin Marks
        BY <1>1, <1>3, <1>6, <2>1, <2>3, <2>5, <3>2, FixedKinds DEF LexemeKinds, Marks
      <3> QED
        BY <3>1, <3>2
    <2>6. CASE c \in {"*", "cap", "+", "-", "|", ":"}
      <3>1. CASE k \in Marks
        <4>1. kind # k \/ kind = ":"
          BY <1>4, <1>6, <2>6, <3>1, OddChars DEF Marks, Plain
        <4> QED
          BY <1>1, <1>4, <1>6, <2>1, <2>6, <3>1, <4>1, FixedKinds, OddChars DEF Marks, Plain
      <3>2. CASE k \notin Marks
        BY <1>1, <1>4, <1>6, <2>1, <2>3, <2>6, <3>2, FixedKinds DEF LexemeKinds, Marks
      <3> QED
        BY <3>1, <3>2
    <2>7. CASE c \in {"<", ">"}
      <3>1. CASE k \in Marks
        <4>1. kind # k /\ c \notin Marks
          BY <1>5, <1>6, <2>7, <3>1, OddChars DEF Marks, Plain
        <4> QED
          BY <1>1, <2>1, <3>1, <4>1, FixedKinds
      <3>2. CASE k \notin Marks
        BY <1>1, <1>5, <1>6, <2>1, <2>2, <2>3, <2>7, <3>2, FixedKinds DEF LexemeKinds, Marks
      <3> QED
        BY <3>1, <3>2
    <2> QED
      BY <2>0, <2>4, <2>5, <2>6, <2>7
  <1>9. to \in Nat /\ i < to /\ to <= Len(text)
    BY <1>1, <1>6, <1>7
  <1> QED
    BY <1>6, <1>7, <1>8, <1>9 DEF Right

(* The longest word at a place. *)
LEMMA WordFacts ==
  ASSUME TextOK, NEW i \in Nat, 1 <= i, Char(i) \in Letters,
         NEW w, w = After(i, isNameChar)
  PROVE  /\ Len(text) \in Nat /\ i < Len(text) /\ text[i] = Char(i)
         /\ w \in Nat /\ i < w /\ w <= Len(text)
         /\ \A j \in w - 1 .. Len(text) : (IsWord(i, j) <=> j = w - 1) /\ ~IsQuoted(i, j)
         /\ Spelling(i, w - 1) = Chars(i, w) /\ Span(i, w - 1)
         /\ text[w] \notin isNameChar
  <1>1. Len(text) \in Nat /\ i < Len(text) /\ text[i] = Char(i) /\ Char(i) \in isNameChar
    <2>1. Char(i) \notin {"eos", "eop"} /\ Char(i) \in isNameChar
      BY DEF Letters, Lowers, Capitals, isNameChar
    <2>2. Len(text) \in Nat /\ i < Len(text)
      BY <2>1, CharFacts
    <2>3. i \in 1 .. Len(text)
      BY <2>2
    <2> QED
      BY <2>1, <2>2, <2>3, CharFacts
  <1>2. /\ w \in Nat /\ i <= w /\ w <= Len(text) /\ Char(w) = text[w] /\ text[w] \notin isNameChar
        /\ \A k \in i .. w - 1 : text[k] \in isNameChar
    <2>1. i <= Len(text) /\ "eos" \notin isNameChar
      BY <1>1, NoEnd
    <2> QED
      BY <2>1, RunFacts
  <1>3. w \in Nat /\ i < w /\ w <= Len(text)
    <2>1. w # i
      BY <1>1, <1>2
    <2> QED
      BY <1>1, <1>2, <2>1
  <1>4. text[w] \notin isNameChar /\ \A k \in i .. w - 1 : text[k] \in isNameChar
    BY <1>2
  <1>5. ASSUME NEW j \in w - 1 .. Len(text) PROVE (IsWord(i, j) <=> j = w - 1) /\ ~IsQuoted(i, j)
    <2>1. j # w - 1 => w \in i .. j
      BY <1>1, <1>3
    <2>2. j = w - 1 => IsWord(i, j)
      BY <1>1, <1>4 DEF IsWord, AllIn
    <2>3. IsWord(i, j) => j = w - 1
      BY <1>4, <2>1 DEF IsWord, AllIn
    <2>4. ~IsQuoted(i, j)
      BY <1>1, OddChars DEF IsQuoted, Letters, Lowers, Capitals, Plain
    <2> QED
      BY <2>2, <2>3, <2>4
  <1>6. Spelling(i, w - 1) = Chars(i, w)
    <2>1. (w - 1) + 1 = w
      BY <1>3
    <2> QED
      BY <2>1 DEF Spelling
  <1>7. Span(i, w - 1)
    BY <1>1, <1>3 DEF Span
  <1> QED
    BY <1>1, <1>3, <1>4, <1>5, <1>6, <1>7

(* The function that reads a name at a place. *)
NameAt(i) == IF Char(i) = Quote THEN nextQuotedName(i)
             ELSE IF Char(i) \in Capitals THEN nextSecretName(i) ELSE nextName(i)

(* A name that is read is the longest one. *)
LEMMA NameRight ==
  ASSUME TextOK, NEW i \in Nat, 1 <= i, Char(i) \in Letters \cup {Quote},
         NameAt(i).errs = {}, NameAt(i).kind = "name"
  PROVE  /\ NameAt(i).to \in Nat /\ i < NameAt(i).to
         /\ Char(NameAt(i).to - 1) # "eos"
         /\ \A j \in NameAt(i).to - 1 .. Len(text) : IsName(i, j) <=> j = NameAt(i).to - 1
  <1> DEFINE n == NameAt(i)
  <1>1. CASE Char(i) \in Letters
    <2>1. PICK w : w = After(i, isNameChar)
      OBVIOUS
    <2>2. /\ Len(text) \in Nat /\ i < Len(text) /\ text[i] = Char(i)
          /\ w \in Nat /\ i < w /\ w <= Len(text)
          /\ \A j \in w - 1 .. Len(text) : (IsWord(i, j) <=> j = w - 1) /\ ~IsQuoted(i, j)
          /\ Spelling(i, w - 1) = Chars(i, w) /\ Span(i, w - 1)
      BY <1>1, <2>1, WordFacts
    <2>3. Char(i) # Quote
      BY <1>1, OddChars DEF Letters, Lowers, Capitals, Plain
    <2>4. n.to = w
      <3>1. n = nextSecretName(i) \/ n = nextName(i)
        BY <2>3 DEF NameAt
      <3> QED
        BY <2>1, <3>1 DEF nextSecretName, nextName, Token
    <2>5. Spelling(i, w - 1) \notin Bold
      <3>1. CASE Char(i) \in Capitals
        <4>1. text[i] # "i"
          BY <2>2, <3>1 DEF Capitals
        <4>2. Spelling(i, w - 1) # <<"i", "f">> /\ Spelling(i, w - 1) # <<"i", "n">>
          BY <2>2, <4>1, SpellingFacts
        <4> QED
          BY <4>2 DEF Bold
      <3>2. CASE Char(i) \notin Capitals
        <4>1. n = nextName(i)
          BY <2>3, <3>2 DEF NameAt
        <4>2. Chars(i, w) \in Bold => n.kind # "name"
          BY <2>1, <4>1 DEF nextName, Token
        <4> QED
          BY <2>2, <4>2
      <3> QED
        BY <3>1, <3>2
    <2>6. \A j \in w - 1 .. Len(text) : IsName(i, j) <=> j = w - 1
      BY <2>2, <2>5 DEF IsName
    <2>7. Char(w - 1) # "eos"
      <3>1. w - 1 \in i .. Len(text) /\ w - 1 \in i .. w - 1
        BY <2>2
      <3>2. Char(w - 1) \in isNameChar
        <4>1. i <= Len(text)
          BY <2>2
        <4>2. \A k \in i .. w - 1 : Char(k) = text[k] /\ text[k] \in isNameChar
          BY <2>1, <4>1, NoEnd, RunFacts
        <4>3. PICK k : k = w - 1
          OBVIOUS
        <4> QED
          BY <3>1, <4>2, <4>3
      <3> QED
        BY <3>2, NoEnd
    <2> QED
      BY <2>2, <2>4, <2>6, <2>7
  <1>2. CASE Char(i) = Quote
    <2>1. PICK e : e = Until(i + 1, {Quote, "eos"})
      OBVIOUS
    <2>2. Len(text) \in Nat /\ i < Len(text)
      BY <1>2, CharFacts, OddChars DEF Plain
    <2>3. /\ e \in i + 1 .. Len(text)
          /\ \A k \in i + 1 .. e - 1 : Char(k) \notin {Quote, "eos"}
      <3> DEFINE set == {Quote, "eos"}
      <3>1. i + 1 \in Nat /\ 1 <= i + 1 /\ i + 1 <= Len(text) /\ "eos" \in set /\ e = Until(i + 1, set)
        BY <2>1, <2>2
      <3> HIDE DEF set
      <3>2. e \in i + 1 .. Len(text) /\ \A k \in i + 1 .. e - 1 : Char(k) \notin set
        BY <3>1, UntilFacts
      <3> QED
        BY <3>2 DEF set
    <2>4. Char(e) = Quote /\ n.to = e + 1
      <3>1. n = nextQuotedName(i)
        BY <1>2 DEF NameAt
      <3>2. Char(e) # Quote => \E word : n = Token("name", TRUE, e, word, {"quote"})
        BY <2>1, <3>1 DEF nextQuotedName
      <3>3. Char(e) = Quote => \E word : n = Token("name", TRUE, e + 1, word, {})
        BY <2>1, <3>1 DEF nextQuotedName
      <3> HIDE DEF n
      <3>4. n.errs = {}
        BY DEF n
      <3>5. Char(e) = Quote
        BY <3>2, <3>4 DEF Token
      <3> QED
        BY <3>3, <3>5 DEF Token
    <2>5. e \in Nat /\ i < e /\ e <= Len(text)
      BY <2>2, <2>3
    <2>6. \A k \in i .. e : k \in 1 .. Len(text) /\ Char(k) = text[k]
      <3>1. \A k \in i .. e : k \in 1 .. Len(text)
        BY <2>2, <2>5
      <3> QED
        BY <3>1, CharFacts
    <2>7. text[i] = Quote /\ text[e] = Quote /\ \A k \in i + 1 .. e - 1 : text[k] \notin {Quote, "eos"}
      <3>1. i \in i .. e /\ e \in i .. e /\ \A k \in i + 1 .. e - 1 : k \in i .. e
        BY <2>5
      <3> QED
        BY <1>2, <2>3, <2>4, <2>6, <3>1
    <2>8. ASSUME NEW j \in e .. Len(text) PROVE IsName(i, j) <=> j = e
      <3>1. j = e => IsQuoted(i, j)
        BY <2>5, <2>7 DEF IsQuoted, NoneIn
      <3>2. j # e => e \in i + 1 .. j - 1
        BY <2>2, <2>5
      <3>3. IsQuoted(i, j) => j = e
        BY <2>7, <3>2 DEF IsQuoted, NoneIn
      <3>4. ~IsWord(i, j)
        BY <2>7, OddChars DEF IsWord, Letters, Lowers, Capitals, Plain
      <3> QED
        BY <3>1, <3>3, <3>4 DEF IsName
    <2>9. (e + 1) - 1 = e /\ e + 1 \in Nat /\ i < e + 1
      BY <2>5
    <2> HIDE DEF n
    <2>10. Char(e) # "eos"
      BY <2>4, OddChars DEF Plain
    <2>11. n.to \in Nat /\ i < n.to /\ Char(n.to - 1) # "eos" /\ \A j \in n.to - 1 .. Len(text) : IsName(i, j) <=> j = n.to - 1
      BY <2>4, <2>8, <2>9, <2>10
    <2> QED
      BY <2>11 DEF n
  <1> QED
    BY <1>1, <1>2

(* The first char of a lexeme says much of its kind. *)
LEMMA OtherKinds ==
  ASSUME TextOK, NEW i, NEW j, Span(i, j), NEW k \in LexemeKinds, IsLexeme(k, i, j)
  PROVE  /\ text[i] \in Letters => k \in {"if", "in", "name"}
         /\ text[i] = Quote => k = "name"
         /\ text[i] \in Digits \cup {"$", "#", "'"} => k = "simple"
  <1> SUFFICES ASSUME text[i] \in Letters \cup Digits \cup {Quote, "$", "#", "'"}
               PROVE  /\ k \in {"if", "in", "name", "simple"}
                      /\ text[i] \in Letters => k \in {"if", "in", "name"}
                      /\ text[i] = Quote => k = "name"
                      /\ text[i] \in Digits \cup {"$", "#", "'"} => k = "simple"
    OBVIOUS
  <1>1. text[i] \notin Marks
    BY OddChars DEF Marks, Letters, Lowers, Capitals, Digits, Plain
  <1>2. text[i] \notin {":", "+", "-", "cap", "*", "|", "<", ">", "=", "in", "@", "up", "neg", "wedge"}
    BY OddChars DEF Letters, Lowers, Capitals, Digits, Plain
  <1>3. k \in {"if", "in", "name", "simple"}
    BY <1>1, <1>2, FixedKinds DEF LexemeKinds
  <1>4. /\ IsLexeme("if", i, j) => text[i] = "i"
        /\ IsLexeme("in", i, j) => text[i] = "i"
        /\ IsLexeme("name", i, j) => text[i] \in Letters \cup {Quote}
        /\ IsLexeme("simple", i, j) => text[i] \in Digits \cup {"$", "#", "'"}
    BY FixedKinds, FirstChar
  <1>5. /\ text[i] = "i" => text[i] \in Letters
        /\ text[i] = Quote => text[i] \notin Letters \cup Digits \cup {"$", "#", "'"}
        /\ text[i] \in Letters => text[i] \notin Digits \cup {"$", "#", "'"}
    BY OddChars DEF Letters, Lowers, Capitals, Digits, Plain
  <1> QED
    BY <1>3, <1>4, <1>5

(* A word is a name, or a bold name, as it is spelt. *)
LEMMA WordRight ==
  ASSUME TextOK, NEW i, Starts(i), Char(i) \in Letters
  PROVE  Right(i, TokenAt(i).to, TokenAt(i).kind)
  <1>1. i \in Nat /\ 1 <= i
    BY DEF Starts
  <1>2. PICK w : w = After(i, isNameChar)
    OBVIOUS
  <1>3. /\ Len(text) \in Nat /\ i < Len(text) /\ text[i] = Char(i)
        /\ w \in Nat /\ i < w /\ w <= Len(text)
        /\ \A j \in w - 1 .. Len(text) : (IsWord(i, j) <=> j = w - 1) /\ ~IsQuoted(i, j)
        /\ Spelling(i, w - 1) = Chars(i, w) /\ Span(i, w - 1)
        /\ text[w] \notin isNameChar
    BY <1>1, <1>2, WordFacts
  <1> DEFINE s == Spelling(i, w - 1)
  <1>4. PICK to, kind : to = TokenAt(i).to /\ kind = TokenAt(i).kind
    OBVIOUS
  <1>5. /\ to = w
        /\ kind = IF s = <<"i", "f">> THEN "if" ELSE IF s = <<"i", "n">> THEN "in" ELSE "name"
    <2>1. <<"i", "f">> # <<"i", "n">>
      OBVIOUS
    <2>2. CASE Char(i) \in Capitals
      <3>1. TokenAt(i) = nextSecretName(i)
        BY <2>2, TokenArms
      <3>2. text[i] # "i"
        BY <1>3, <2>2 DEF Capitals
      <3>3. s # <<"i", "f">> /\ s # <<"i", "n">>
        BY <1>3, <3>2, SpellingFacts
      <3> QED
        BY <1>2, <1>4, <3>1, <3>3 DEF nextSecretName, Token
    <2>3. CASE Char(i) \notin Capitals
      <3>1. TokenAt(i) = nextName(i)
        BY <2>3, TokenArms
      <3>2. s = Chars(i, w)
        BY <1>3
      <3> HIDE DEF s
      <3>3. /\ to = w
            /\ s \in Bold => kind = IF s = <<"i", "f">> THEN "if" ELSE "in"
            /\ s \notin Bold => kind = "name"
        BY <1>2, <1>4, <3>1, <3>2 DEF nextName, Token
      <3>4. s \in Bold <=> s = <<"i", "f">> \/ s = <<"i", "n">>
        BY DEF Bold
      <3> QED
        BY <2>1, <3>3, <3>4
    <2> QED
      BY <2>2, <2>3
  <1>6. ASSUME NEW k \in LexemeKinds, NEW j \in w - 1 .. Len(text)
        PROVE  IsLexeme(k, i, j) <=> k = kind /\ j = w - 1
    <2>1. Span(i, j) /\ i \in Nat /\ j \in Nat /\ w - 1 <= j
      BY <1>1, <1>3 DEF Span
    <2>2. CASE k \notin {"if", "in", "name"}
      <3>1. ~IsLexeme(k, i, j)
        BY <1>3, <2>1, <2>2, OtherKinds
      <3>2. k # kind
        BY <1>5, <2>2
      <3> QED
        BY <3>1, <3>2
    <2>3. CASE j = w - 1
      <3>1. /\ IsLexeme("if", i, j) <=> s = <<"i", "f">>
            /\ IsLexeme("in", i, j) <=> s = <<"i", "n">>
            /\ IsLexeme("name", i, j) <=> s \notin Bold
        <4>1. IsName(i, j) <=> s \notin Bold
          BY <1>3, <2>3 DEF IsName
        <4> QED
          BY <2>3, <4>1 DEF IsLexeme
      <3>2. s \in Bold <=> s = <<"i", "f">> \/ s = <<"i", "n">>
        BY DEF Bold
      <3>3. <<"i", "f">> # <<"i", "n">>
        OBVIOUS
      <3> HIDE DEF s
      <3> QED
        BY <1>5, <2>2, <2>3, <3>1, <3>2, <3>3
    <2>4. CASE j # w - 1 /\ k \in {"if", "in", "name"}
      <3>1. w <= j
        BY <1>3, <2>1, <2>4
      <3>2. ~IsName(i, j)
        BY <1>3, <2>4 DEF IsName
      <3>3. ASSUME j = i + 1 /\ text[i + 1] \in {"f", "n"} PROVE FALSE
        <4>1. w = i + 1
          BY <1>1, <1>3, <3>1, <3>3
        <4>2. text[w] \in isNameChar
          BY <3>3, <4>1 DEF isNameChar, Letters, Lowers
        <4> QED
          BY <1>3, <4>2
      <3>4. ~IsLexeme(k, i, j)
        BY <2>1, <2>4, <3>2, <3>3, FixedKinds
      <3> QED
        BY <2>4, <3>4
    <2> QED
      BY <2>2, <2>3, <2>4
  <1>7. kind \in LexemeKinds
    BY <1>5 DEF LexemeKinds
  <1> QED
    BY <1>3, <1>4, <1>5, <1>6, <1>7 DEF Right

(* So is a quoted name that ends on its line. *)
LEMMA QuotedRight ==
  ASSUME TextOK, NEW i, Starts(i), Char(i) = Quote, TokenAt(i).errs = {},
         TokenAt(i).to <= Len(text)
  PROVE  Right(i, TokenAt(i).to, TokenAt(i).kind)
  <1>1. i \in Nat /\ 1 <= i
    BY DEF Starts
  <1>2. TokenAt(i) = NameAt(i) /\ TokenAt(i).kind = "name"
    <2>1. TokenAt(i) = NameAt(i) /\ TokenAt(i) = nextQuotedName(i)
      BY TokenArms DEF NameAt
    <2>2. Char(i) \notin {"eos", "eop"}
      BY OddChars DEF Plain
    <2> QED
      BY <1>1, <2>1, <2>2, NameSound
  <1>3. PICK to : to = TokenAt(i).to
    OBVIOUS
  <1>4. /\ to \in Nat /\ i < to /\ to <= Len(text)
        /\ \A j \in to - 1 .. Len(text) : IsName(i, j) <=> j = to - 1
    BY <1>1, <1>2, <1>3, NameRight
  <1>5. Len(text) \in Nat /\ text[i] = Quote
    <2>1. i \in 1 .. Len(text) /\ Len(text) \in Nat
      BY <1>1, <1>4, CharFacts
    <2> QED
      BY <2>1, CharFacts
  <1>6. ASSUME NEW k \in LexemeKinds, NEW j \in to - 1 .. Len(text)
        PROVE  IsLexeme(k, i, j) <=> k = "name" /\ j = to - 1
    <2>1. Span(i, j)
      BY <1>1, <1>4, <1>5 DEF Span
    <2>2. IsLexeme("name", i, j) <=> j = to - 1
      BY <1>4, <2>1, FixedKinds
    <2>3. k # "name" => ~IsLexeme(k, i, j)
      BY <1>5, <2>1, OtherKinds
    <2> QED
      BY <2>2, <2>3
  <1> QED
    BY <1>2, <1>3, <1>4, <1>6 DEF Right, LexemeKinds

(* A parameter is a dollar and the name behind it, if there is one. *)
LEMMA DollarRight ==
  ASSUME TextOK, NEW i, Starts(i), Char(i) = "$", TokenAt(i).errs = {},
         TokenAt(i).to <= Len(text)
  PROVE  Right(i, TokenAt(i).to, TokenAt(i).kind)
  <1>1. i \in Nat /\ 1 <= i /\ Len(text) \in Nat /\ i < Len(text)
    BY CharFacts DEF Starts
  <1>2. text[i] = "$" /\ text[i + 1] = Char(i + 1)
    <2>1. i \in 1 .. Len(text) /\ i + 1 \in 1 .. Len(text)
      BY <1>1
    <2> QED
      BY <2>1, CharFacts
  <1> DEFINE c == Char(i + 1)
  <1>3. PICK n : n = IF c \in Letters \cup {Quote} THEN NameAt(i + 1)
                     ELSE Token("name", TRUE, i + 1, <<>>, {})
    OBVIOUS
  <1>4. PICK t : t = TokenAt(i)
    OBVIOUS
  <1>5. t = Token("simple", TRUE, n.to, <<"$">> \o n.word,
                  n.errs \cup IF n.kind = "name" THEN {} ELSE {"name"})
    <2>1. n = CASE c \in Capitals           -> nextSecretName(i + 1)
                [] c \in Letters \ Capitals -> nextName(i + 1)
                [] c = Quote                -> nextQuotedName(i + 1)
                [] OTHER                    -> Token("name", TRUE, i + 1, <<>>, {})
      <3>1. Quote \notin Letters /\ Capitals \subseteq Letters
        BY OddChars DEF Letters, Lowers, Capitals, Plain
      <3> QED
        BY <1>3, <3>1 DEF NameAt
    <2>2. t = nextDollar(i)
      BY <1>4, TokenArms
    <2> QED
      BY <2>1, <2>2 DEF nextDollar
  <1>6. /\ t.kind = "simple" /\ t.to = n.to
        /\ t.errs = n.errs \cup IF n.kind = "name" THEN {} ELSE {"name"}
    BY <1>5 DEF Token
  <1>7. n.errs = {} /\ n.kind = "name"
    <2>1. n.errs \cup (IF n.kind = "name" THEN {} ELSE {"name"}) = {}
      BY <1>4, <1>6
    <2> QED
      BY ONLY <2>1
  <1>8. PICK to : to = n.to
    OBVIOUS
  <1>9. /\ to \in Nat /\ i < to /\ to <= Len(text)
        /\ \A j \in to - 1 .. Len(text) : IsDollar(i, j) <=> j = to - 1
    <2>1. CASE c \in Letters \cup {Quote}
      <3>1. i + 1 \in Nat /\ 1 <= i + 1
        BY <1>1
      <3>2. /\ NameAt(i + 1).to \in Nat /\ i + 1 < NameAt(i + 1).to
            /\ \A j \in NameAt(i + 1).to - 1 .. Len(text) : IsName(i + 1, j) <=> j = NameAt(i + 1).to - 1
        BY <1>3, <1>7, <2>1, <3>1, NameRight
      <3>3. to \in Nat /\ i + 1 < to /\ \A j \in to - 1 .. Len(text) : IsName(i + 1, j) <=> j = to - 1
        BY <1>3, <1>8, <2>1, <3>2
      <3>4. to <= Len(text)
        BY <1>4, <1>6, <1>8
      <3>5. ASSUME NEW j \in to - 1 .. Len(text) PROVE IsDollar(i, j) <=> j = to - 1
        <4>1. i < j
          BY <1>1, <3>3
        <4> QED
          BY <1>1, <1>2, <3>3, <4>1 DEF IsDollar
      <3> QED
        BY <1>1, <3>3, <3>4, <3>5
    <2>2. CASE c \notin Letters \cup {Quote}
      <3>1. to = i + 1
        BY <1>3, <1>8, <2>2 DEF Token
      <3>2. ASSUME NEW j \in to - 1 .. Len(text) PROVE IsDollar(i, j) <=> j = i
        <4>1. i < j => ~IsName(i + 1, j)
          <5>1. i < j => Span(i + 1, j)
            BY <1>1, <3>1 DEF Span
          <5> QED
            BY <1>2, <2>2, <5>1, FirstChar
        <4> QED
          BY <1>1, <1>2, <3>1, <4>1 DEF IsDollar
      <3> QED
        BY <1>1, <3>1, <3>2
    <2> QED
      BY <2>1, <2>2
  <1>10. ASSUME NEW k \in LexemeKinds, NEW j \in to - 1 .. Len(text)
         PROVE  IsLexeme(k, i, j) <=> k = "simple" /\ j = to - 1
    <2>1. Span(i, j)
      BY <1>1, <1>9 DEF Span
    <2>2. k # "simple" => ~IsLexeme(k, i, j)
      BY <1>2, <2>1, OtherKinds
    <2>3. ~IsNumber(i, j) /\ ~IsLiteral(i, j)
      BY <1>2, <2>1, FirstChar DEF Digits
    <2>4. IsLexeme("simple", i, j) <=> IsDollar(i, j)
      BY <2>1, <2>3, FixedKinds
    <2> QED
      BY <1>9, <2>2, <2>4
  <1> QED
    BY <1>4, <1>6, <1>8, <1>9, <1>10 DEF Right, LexemeKinds

-----------------------------------------------------------------------------
(* Numbers *)

(* A token that can be but a number, a parameter or a literal. *)
LEMMA SimpleRight ==
  ASSUME TextOK, NEW i \in Nat, 1 <= i, text[i] \in Digits \cup {"$", "#", "'"},
         NEW to \in Nat, i < to, to <= Len(text),
         \A j \in to - 1 .. Len(text) : Span(i, j) /\ NoneIn(i, j, {"eos"}) =>
           (IsDollar(i, j) \/ IsNumber(i, j) \/ IsLiteral(i, j) <=> j = to - 1)
  PROVE  Right(i, to, "simple")
  <1>1. Len(text) \in Nat
    BY CharFacts
  <1>2. ASSUME NEW k \in LexemeKinds, NEW j \in to - 1 .. Len(text), NoneIn(i, j, {"eos"})
        PROVE  IsLexeme(k, i, j) <=> k = "simple" /\ j = to - 1
    <2>1. Span(i, j)
      BY <1>1 DEF Span
    <2>2. k # "simple" => ~IsLexeme(k, i, j)
      BY <2>1, OtherKinds
    <2>3. IsLexeme("simple", i, j) <=> j = to - 1
      BY <1>2, <2>1, FixedKinds
    <2> QED
      BY <2>2, <2>3
  <1> QED
    BY <1>2 DEF Right, LexemeKinds

(* The chars between two places, as a sequence. *)
LEMMA CharsFacts ==
  ASSUME TextOK, NEW a \in Nat, NEW b \in Nat, 1 <= a, b <= Len(text) + 1
  PROVE  /\ HasDigit(Chars(a, b)) <=> \E k \in a .. b - 1 : text[k] # Low
         /\ \A radix : (\A k \in DOMAIN Chars(a, b) : Chars(a, b)[k] = Low \/ Value(Chars(a, b)[k]) < radix)
                       <=> \A k \in a .. b - 1 : text[k] = Low \/ Value(text[k]) < radix
  <1> DEFINE s == Chars(a, b)
  <1>1. Len(text) \in Nat
    BY CharFacts
  <1>2. s = [k \in 1 .. b - a |-> Char(a + k - 1)]
    BY DEF Chars
  <1>3. ASSUME NEW k \in a .. b - 1
        PROVE  (k - a) + 1 \in DOMAIN s /\ s[(k - a) + 1] = text[k]
    <2>1. PICK m \in Nat : m = (k - a) + 1
      BY <1>3
    <2>2. m \in 1 .. b - a /\ a + m - 1 = k /\ k \in 1 .. Len(text)
      BY <1>1, <1>3, <2>1
    <2>3. s[m] = Char(a + m - 1)
      BY <1>2, <2>2
    <2>4. s[m] = Char(k)
      BY <2>2, <2>3
    <2> QED
      BY <1>2, <2>1, <2>2, <2>4, CharFacts
  <1>4. ASSUME NEW m \in DOMAIN s PROVE (a + m) - 1 \in a .. b - 1 /\ s[m] = text[(a + m) - 1]
    <2>1. m \in 1 .. b - a
      BY <1>2
    <2>2. PICK k \in Nat : k = (a + m) - 1
      BY <2>1
    <2>3. k \in a .. b - 1 /\ (k - a) + 1 = m
      BY <2>1, <2>2
    <2> QED
      BY <1>3, <2>2, <2>3
  <1> HIDE DEF s
  <1>5. HasDigit(s) <=> \E k \in a .. b - 1 : text[k] # Low
    BY <1>3, <1>4 DEF HasDigit
  <1>6. ASSUME NEW radix
        PROVE  (\A k \in DOMAIN s : s[k] = Low \/ Value(s[k]) < radix)
               <=> \A k \in a .. b - 1 : text[k] = Low \/ Value(text[k]) < radix
    BY <1>3, <1>4
  <1> QED
    BY <1>5, <1>6 DEF s

(* An integer without errors has digits of its radix. *)
LEMMA IntegerFacts ==
  ASSUME TextOK, NEW a \in Nat, NEW b \in Nat, 1 <= a, b <= Len(text) + 1,
         NEW to, NEW radix, NEW errs, NEW t, t = Integer(to, Chars(a, b), radix, errs)
  PROVE  /\ t.kind = "simple" /\ t.to = to
         /\ t.errs = {} => /\ errs = {}
                           /\ \E k \in a .. b - 1 : text[k] # Low
                           /\ \A k \in a .. b - 1 : text[k] = Low \/ Value(text[k]) < radix
  <1> DEFINE s    == Chars(a, b)
             Good == HasDigit(s) /\ \A k \in DOMAIN s : s[k] = Low \/ Value(s[k]) < radix
  <1>1. /\ t.kind = "simple" /\ t.to = to
        /\ t.errs = errs \cup IF Good THEN {} ELSE {"illegalNumber"}
    BY DEF Integer, Token
  <1> HIDE DEF Good
  <1>2. t.errs = {} => errs = {} /\ Good
    BY <1>1
  <1>3. Good => /\ \E k \in a .. b - 1 : text[k] # Low
                /\ \A k \in a .. b - 1 : text[k] = Low \/ Value(text[k]) < radix
    BY CharsFacts DEF Good
  <1> QED
    BY <1>1, <1>2, <1>3

(* A hexadecimal number is the longest one. *)
LEMMA HexRight ==
  ASSUME TextOK, NEW i, Starts(i), Char(i) = "#", TokenAt(i).errs = {}
  PROVE  Right(i, TokenAt(i).to, TokenAt(i).kind)
  <1>1. i \in Nat /\ 1 <= i /\ Len(text) \in Nat /\ i < Len(text)
    BY CharFacts DEF Starts
  <1>2. text[i] = "#"
    <2>1. i \in 1 .. Len(text)
      BY <1>1
    <2> QED
      BY <2>1, CharFacts
  <1>3. PICK set : set = isHexadecimalChar \cup {Low}
    OBVIOUS
  <1>4. PICK w : w = After(i + 1, set)
    OBVIOUS
  <1>5. /\ w \in Nat /\ i + 1 <= w /\ w <= Len(text) /\ text[w] \notin set
        /\ \A k \in i + 1 .. w - 1 : text[k] \in set
    <2>1. i + 1 \in Nat /\ 1 <= i + 1 /\ i + 1 <= Len(text)
      BY <1>1
    <2>2. "eos" \notin set
      BY <1>3, NoEnd
    <2> QED
      BY <1>4, <2>1, <2>2, RunFacts
  <1>6. PICK t : t = TokenAt(i)
    OBVIOUS
  <1>7. t = Integer(w, Chars(i + 1, w), 16, {})
    BY <1>3, <1>4, <1>6, TokenArms DEF nextHexadecimalNumber
  <1>8. /\ t.kind = "simple" /\ t.to = w
        /\ \E k \in i + 1 .. w - 1 : text[k] # Low
    <2>1. i + 1 \in Nat /\ 1 <= i + 1 /\ w <= Len(text) + 1
      BY <1>1, <1>5
    <2>2. t.errs = {}
      BY <1>6
    <2> QED
      BY <1>5, <1>7, <2>1, <2>2, IntegerFacts
  <1>9. i + 1 < w
    <2>1. PICK k \in i + 1 .. w - 1 : TRUE
      BY <1>8
    <2> QED
      BY <1>1, <1>5, <2>1
  <1>10. ASSUME NEW j \in w - 1 .. Len(text)
         PROVE  IsDollar(i, j) \/ IsNumber(i, j) \/ IsLiteral(i, j) <=> j = w - 1
    <2>1. Span(i, j) /\ j \in Nat /\ i + 1 \in Nat
      BY <1>1, <1>5, <1>9 DEF Span
    <2>2. ~IsDollar(i, j) /\ ~IsLiteral(i, j) /\ ~(IsDecimal(i, j) \/ IsRadix(i, j) \/ IsReal(i, j))
      BY <1>2, <2>1, FirstChar DEF Digits
    <2>3. IsHex(i, j) <=> /\ AllIn(i + 1, j, set)
                          /\ \E k \in i + 1 .. j : text[k] # Low
      BY <1>2, <1>3, <2>1, DigitsFacts DEF IsHex
    <2>4. j = w - 1 => IsHex(i, j)
      BY <1>5, <1>8, <2>3 DEF AllIn
    <2>5. j # w - 1 => w \in i + 1 .. j
      BY <1>1, <1>5
    <2>6. IsHex(i, j) => j = w - 1
      BY <1>5, <2>3, <2>5 DEF AllIn
    <2> QED
      BY <2>2, <2>4, <2>6 DEF IsNumber
  <1>11. Right(i, w, "simple")
    <2>1. i < w /\ text[i] \in Digits \cup {"$", "#", "'"}
      BY <1>1, <1>2, <1>5, <1>9
    <2> QED
      BY <1>1, <1>5, <1>10, <2>1, SimpleRight
  <1> QED
    BY <1>6, <1>8, <1>11

(* The whole part of a number is the longest run of decimal digits. *)
LEMMA WholeFacts ==
  ASSUME TextOK, NEW i, Starts(i), Char(i) \in Digits, NEW w, w = After(i, isDecimalChar)
  PROVE  /\ i \in Nat /\ 1 <= i /\ Len(text) \in Nat /\ w \in Nat /\ i < w /\ w <= Len(text)
         /\ text[i] = Char(i) /\ Char(w) = text[w]
         /\ IsDecimal(i, w - 1)
         /\ \A j \in w .. Len(text) : ~IsDecimal(i, j)
         /\ \A m \in i .. Len(text) : text[m] \in {"#", "."} /\ IsDecimal(i, m - 1) => m = w
  <1>1. i \in Nat /\ 1 <= i /\ Len(text) \in Nat /\ i < Len(text) /\ i <= Len(text)
    BY CharFacts DEF Starts
  <1>2. text[i] = Char(i)
    <2>1. i \in 1 .. Len(text)
      BY <1>1
    <2> QED
      BY <2>1, CharFacts
  <1>3. /\ w \in Nat /\ i <= w /\ w <= Len(text) /\ Char(w) = text[w] /\ text[w] \notin isDecimalChar
        /\ \A k \in i .. w - 1 : text[k] \in isDecimalChar
    BY <1>1, NoEnd, RunFacts
  <1>4. i < w
    <2>1. i # w
      BY <1>2, <1>3 DEF isDecimalChar
    <2> QED
      BY <1>1, <1>3, <2>1
  <1>5. text[i] # Low
    BY <1>2, OddChars DEF Digits, Plain
  <1>6. ASSUME NEW j \in i .. Len(text)
        PROVE  IsDecimal(i, j) <=> \A k \in i .. j : text[k] \in isDecimalChar
    <2>1. j \in Nat /\ i \in i .. j
      BY <1>1
    <2> QED
      BY <1>1, <1>5, <2>1, DigitsFacts DEF IsDecimal, AllIn
  <1>7. IsDecimal(i, w - 1)
    <2>1. w - 1 \in i .. Len(text)
      BY <1>1, <1>3, <1>4
    <2> QED
      BY <1>3, <1>6, <2>1
  <1>8. ASSUME NEW j \in w .. Len(text) PROVE ~IsDecimal(i, j)
    <2>1. j \in i .. Len(text) /\ w \in i .. j
      BY <1>1, <1>3, <1>8
    <2> QED
      BY <1>3, <1>6, <2>1
  <1>9. ASSUME NEW m \in i .. Len(text), text[m] \in {"#", "."}, IsDecimal(i, m - 1)
        PROVE  m = w
    <2>1. text[m] \notin isDecimalChar
      BY <1>9, OddChars DEF isDecimalChar, Digits, Plain
    <2>2. ~(m < w)
      <3>1. m < w => m \in i .. w - 1
        BY <1>3
      <3> QED
        BY <1>3, <2>1, <3>1
    <2>3. ~(w < m)
      <3>1. w < m => m - 1 \in w .. Len(text)
        BY <1>1, <1>3
      <3> QED
        BY <1>8, <1>9, <3>1
    <2> QED
      BY <1>1, <1>3, <2>2, <2>3
  <1> QED
    BY <1>1, <1>2, <1>3, <1>4, <1>7, <1>8, <1>9

(* An integer without a radix is the longest number. *)
LEMMA WholeRight ==
  ASSUME TextOK, NEW i, Starts(i), Char(i) \in Digits, NEW w, w = After(i, isDecimalChar),
         Char(w) # "#", ~(Char(w) = "." /\ nextNextChar(w) \in isDecimalChar),
         TokenAt(i).errs = {}
  PROVE  Right(i, TokenAt(i).to, TokenAt(i).kind)
  <1>1. /\ i \in Nat /\ 1 <= i /\ Len(text) \in Nat /\ w \in Nat /\ i < w /\ w <= Len(text)
        /\ text[i] = Char(i) /\ Char(w) = text[w]
        /\ IsDecimal(i, w - 1)
        /\ \A j \in w .. Len(text) : ~IsDecimal(i, j)
        /\ \A m \in i .. Len(text) : text[m] \in {"#", "."} /\ IsDecimal(i, m - 1) => m = w
    BY WholeFacts
  <1>2. TokenAt(i) = Integer(w, Chars(i, w), 10, {})
    BY TokenArms DEF nextNumber
  <1>3. TokenAt(i).kind = "simple" /\ TokenAt(i).to = w
    BY <1>2 DEF Integer, Token
  <1>4. ASSUME NEW j \in w - 1 .. Len(text)
        PROVE  IsDollar(i, j) \/ IsNumber(i, j) \/ IsLiteral(i, j) <=> j = w - 1
    <2>1. Span(i, j) /\ j \in Nat
      BY <1>1 DEF Span
    <2>2. ~IsDollar(i, j) /\ ~IsLiteral(i, j) /\ ~IsHex(i, j)
      BY <1>1, <2>1, FirstChar DEF Digits
    <2>3. IsDecimal(i, j) <=> j = w - 1
      <3>1. j # w - 1 => j \in w .. Len(text)
        BY <1>1
      <3> QED
        BY <1>1, <3>1
    <2>4. \A m \in i .. j : m \in i .. Len(text)
      BY <1>1
    <2>5. ~IsRadix(i, j)
      BY <1>1, <2>4 DEF IsRadix
    <2>6. ~IsReal(i, j)
      <3> SUFFICES ASSUME IsReal(i, j) PROVE FALSE
        OBVIOUS
      <3>1. PICK m \in i .. j, n \in i .. j :
              /\ text[m] = "." /\ m < n
              /\ IsDecimal(i, m - 1) /\ AllIn(m + 1, n, isDecimalChar)
        BY DEF IsReal
      <3>2. m = w
        BY <1>1, <2>4, <3>1
      <3>3. w + 1 \in m + 1 .. n /\ w + 1 \in 1 .. Len(text)
        BY <1>1, <3>1, <3>2
      <3>4. Char(w + 1) \in isDecimalChar
        BY <3>1, <3>3, CharFacts DEF AllIn
      <3>5. nextNextChar(w) \in isDecimalChar
        BY <3>4, NoEnd DEF nextNextChar
      <3> QED
        BY <1>1, <3>1, <3>2, <3>5
    <2> QED
      BY <2>2, <2>3, <2>5, <2>6 DEF IsNumber
  <1> QED
    BY <1>1, <1>3, <1>4, SimpleRight

(* An integer with a radix is. *)
LEMMA RadixRight ==
  ASSUME TextOK, NEW i, Starts(i), Char(i) \in Digits, NEW w, w = After(i, isDecimalChar),
         Char(w) = "#", TokenAt(i).errs = {}
  PROVE  Right(i, TokenAt(i).to, TokenAt(i).kind)
  <1>1. /\ i \in Nat /\ 1 <= i /\ Len(text) \in Nat /\ w \in Nat /\ i < w /\ w <= Len(text)
        /\ text[i] = Char(i) /\ Char(w) = text[w]
        /\ IsDecimal(i, w - 1)
        /\ \A j \in w .. Len(text) : ~IsDecimal(i, j)
        /\ \A m \in i .. Len(text) : text[m] \in {"#", "."} /\ IsDecimal(i, m - 1) => m = w
    BY WholeFacts
  <1>2. PICK e : e = After(w + 1, isTridecahexialChar)
    OBVIOUS
  <1>3. w < Len(text) /\ w + 1 \in Nat /\ 1 <= w + 1 /\ w + 1 <= Len(text)
    <2>1. w < Len(text)
      BY <1>1, CharFacts
    <2> QED
      BY <1>1, <2>1
  <1>4. /\ e \in Nat /\ w + 1 <= e /\ e <= Len(text) /\ text[e] \notin isTridecahexialChar
        /\ \A k \in w + 1 .. e - 1 : text[k] \in isTridecahexialChar
    <2>1. "eos" \notin isTridecahexialChar
      BY NoEnd
    <2> QED
      BY <1>2, <1>3, <2>1, RunFacts
  <1>5. PICK R : R = Decimal(Chars(i, w))
    OBVIOUS
  <1>6. PICK t : t = TokenAt(i)
    OBVIOUS
  <1>7. t = Integer(e, Chars(w + 1, e), IF R \in 2 .. 36 THEN R ELSE 36,
                    IF R \in 2 .. 36 THEN {} ELSE {"illegalRadix"})
    BY <1>2, <1>5, <1>6, TokenArms DEF nextNumber
  <1>8. /\ t.kind = "simple" /\ t.to = e /\ R \in 2 .. 36
        /\ \E k \in w + 1 .. e - 1 : text[k] # Low
        /\ \A k \in w + 1 .. e - 1 : text[k] = Low \/ Value(text[k]) < R
    <2>1. e <= Len(text) + 1 /\ t.errs = {}
      BY <1>1, <1>4, <1>6
    <2> DEFINE radix == IF R \in 2 .. 36 THEN R ELSE 36
               errs  == IF R \in 2 .. 36 THEN {} ELSE {"illegalRadix"}
    <2>2. t = Integer(e, Chars(w + 1, e), radix, errs)
      BY <1>7
    <2> HIDE DEF radix, errs
    <2>3. /\ t.kind = "simple" /\ t.to = e /\ errs = {}
          /\ \E k \in w + 1 .. e - 1 : text[k] # Low
          /\ \A k \in w + 1 .. e - 1 : text[k] = Low \/ Value(text[k]) < radix
      BY <1>3, <1>4, <2>1, <2>2, IntegerFacts
    <2>4. R \in 2 .. 36
      BY <2>3 DEF errs
    <2>5. radix = R
      BY <2>4 DEF radix
    <2> QED
      BY <2>3, <2>4, <2>5
  <1>9. w + 1 < e
    <2>1. PICK k \in w + 1 .. e - 1 : TRUE
      BY <1>8
    <2> QED
      BY <1>1, <1>4, <2>1
  <1>10. IsDigits(w + 1, e - 1, R)
    BY <1>4, <1>8 DEF IsDigits, AllIn
  <1>11. ASSUME NEW j \in e - 1 .. Len(text)
         PROVE  IsDollar(i, j) \/ IsNumber(i, j) \/ IsLiteral(i, j) <=> j = e - 1
    <2>1. Span(i, j) /\ j \in Nat /\ w < j /\ i < j
      BY <1>1, <1>4, <1>9 DEF Span
    <2>2. ~IsDollar(i, j) /\ ~IsLiteral(i, j) /\ ~IsHex(i, j)
      BY <1>1, <2>1, FirstChar DEF Digits
    <2>3. ~IsDecimal(i, j)
      <3>1. j \in w .. Len(text)
        BY <1>1, <2>1
      <3> QED
        BY <1>1, <3>1
    <2>4. \A m \in i .. j : m \in i .. Len(text)
      BY <1>1
    <2>5. ~IsReal(i, j)
      BY <1>1, <2>4 DEF IsReal
    <2>6. IsRadix(i, j) <=> IsDigits(w + 1, j, R)
      <3>1. w \in i .. j
        BY <1>1, <2>1
      <3>2. IsDigits(w + 1, j, R) => IsRadix(i, j)
        BY <1>1, <1>5, <1>8, <3>1 DEF IsRadix
      <3>3. IsRadix(i, j) => IsDigits(w + 1, j, R)
        BY <1>1, <1>5, <2>4 DEF IsRadix
      <3> QED
        BY <3>2, <3>3
    <2>7. IsDigits(w + 1, j, R) => j = e - 1
      <3>1. j # e - 1 => e \in w + 1 .. j
        BY <1>1, <1>4
      <3> QED
        BY <1>4, <3>1 DEF IsDigits, AllIn
    <2> QED
      BY <1>10, <2>2, <2>3, <2>5, <2>6, <2>7 DEF IsNumber
  <1>12. Right(i, e, "simple")
    <2>1. i < e
      BY <1>1, <1>4, <1>9
    <2> QED
      BY <1>1, <1>4, <1>11, <2>1, SimpleRight
  <1> QED
    BY <1>6, <1>8, <1>12

(* So is a number with a point, and with a scale if it has one. *)
LEMMA RealRight ==
  ASSUME TextOK, NEW i, Starts(i), Char(i) \in Digits, NEW w, w = After(i, isDecimalChar),
         Char(w) = ".", nextNextChar(w) \in isDecimalChar, TokenAt(i).errs = {}
  PROVE  Right(i, TokenAt(i).to, TokenAt(i).kind)
  <1>1. /\ i \in Nat /\ 1 <= i /\ Len(text) \in Nat /\ w \in Nat /\ i < w /\ w <= Len(text)
        /\ text[i] = Char(i) /\ Char(w) = text[w]
        /\ IsDecimal(i, w - 1)
        /\ \A j \in w .. Len(text) : ~IsDecimal(i, j)
        /\ \A m \in i .. Len(text) : text[m] \in {"#", "."} /\ IsDecimal(i, m - 1) => m = w
    BY WholeFacts
  <1>2. PICK f : f = After(w + 1, isDecimalChar)
    OBVIOUS
  <1>3. w < Len(text) /\ w + 1 \in Nat /\ 1 <= w + 1 /\ w + 1 <= Len(text)
    <2>1. w < Len(text)
      BY <1>1, CharFacts
    <2> QED
      BY <1>1, <2>1
  <1>4. /\ f \in Nat /\ w + 1 <= f /\ f <= Len(text)
        /\ Char(f) = text[f] /\ text[f] \notin isDecimalChar
        /\ \A k \in w + 1 .. f - 1 : text[k] \in isDecimalChar
    <2>1. "eos" \notin isDecimalChar
      BY NoEnd
    <2> QED
      BY <1>2, <1>3, <2>1, RunFacts
  <1>5. w + 1 < f
    <2>1. text[w + 1] \in isDecimalChar
      <3>1. w + 1 \in 1 .. Len(text)
        BY <1>3
      <3>2. Char(w + 1) = text[w + 1]
        BY <3>1, CharFacts
      <3>3. Char(w + 1) # "eos" => nextNextChar(w) = Char(w + 1)
        BY DEF nextNextChar
      <3>4. Char(w + 1) = "eos" => nextNextChar(w) = Blank
        BY DEF nextNextChar
      <3>5. Blank \notin isDecimalChar
        BY OddChars DEF isDecimalChar, Digits, Plain
      <3> QED
        BY <3>2, <3>3, <3>4, <3>5
    <2>2. f # w + 1
      BY <1>4, <2>1
    <2> QED
      BY <1>3, <1>4, <2>2
  <1> DEFINE signed   == IF Char(f + 1) \in {"+", "-"} THEN f + 2 ELSE f + 1
             isScaled == Char(f) \in {"E", "e"}
  <1>6. PICK e : e = After(signed, isDecimalChar)
    OBVIOUS
  <1>7. PICK t : t = TokenAt(i)
    OBVIOUS
  <1>8. PICK to : to = IF isScaled THEN e ELSE f
    OBVIOUS
  <1>9. t = Token("simple", TRUE, to, Without(Chars(i, to), Low),
                  IF isScaled /\ ~HasDigit(Chars(signed, e)) THEN {"illegalNumber"} ELSE {})
    <2>1. t = nextNumber(i)
      BY <1>7, TokenArms
    <2> QED
      BY <1>2, <1>6, <1>8, <2>1 DEF nextNumber
  <1>10. t.kind = "simple" /\ t.to = to /\ (isScaled => HasDigit(Chars(signed, e)))
    <2>1. /\ t.kind = "simple" /\ t.to = to
          /\ t.errs = IF isScaled /\ ~HasDigit(Chars(signed, e)) THEN {"illegalNumber"} ELSE {}
      BY <1>9 DEF Token
    <2> HIDE DEF isScaled, signed
    <2> QED
      BY <1>7, <2>1
  <1>11. ASSUME isScaled
         PROVE  /\ f < Len(text) /\ signed \in Nat /\ f + 1 <= signed /\ signed < e
                /\ e \in Nat /\ e <= Len(text) /\ text[e] \notin isDecimalChar
                /\ IsDigits(signed, e - 1, 10)
                /\ signed = IF text[f + 1] \in {"+", "-"} THEN f + 2 ELSE f + 1
    <2>1. f < Len(text) /\ f + 1 \in 1 .. Len(text) /\ f + 1 \in Nat
      <3>1. Char(f) \notin {"eos", "eop"} /\ f >= 1
        BY <1>1, <1>4, <1>11
      <3>2. f < Len(text)
        BY <1>4, <3>1, CharFacts
      <3> QED
        BY <1>1, <1>4, <3>2
    <2>2. Char(f + 1) = text[f + 1]
      BY <2>1, CharFacts
    <2>3. signed \in Nat /\ f + 1 <= signed /\ signed <= Len(text)
      <3>1. Char(f + 1) \in {"+", "-"} => f + 1 < Len(text)
        BY <2>1, CharFacts
      <3> QED
        BY <1>1, <1>4, <2>1, <3>1
    <2>4. signed = IF text[f + 1] \in {"+", "-"} THEN f + 2 ELSE f + 1
      BY <2>2
    <2> HIDE DEF signed
    <2>5. 1 <= signed /\ "eos" \notin isDecimalChar
      BY <1>4, <2>3, NoEnd
    <2>6. /\ e \in Nat /\ signed <= e /\ e <= Len(text) /\ text[e] \notin isDecimalChar
          /\ \A k \in signed .. e - 1 : text[k] \in isDecimalChar
      BY <1>6, <2>3, <2>5, RunFacts
    <2>7. \E k \in signed .. e - 1 : text[k] # Low
      <3>1. e <= Len(text) + 1
        BY <1>1, <2>6
      <3> QED
        BY <1>10, <1>11, <2>3, <2>5, <2>6, <3>1, CharsFacts
    <2>8. signed < e
      <3>1. PICK k \in signed .. e - 1 : TRUE
        BY <2>7
      <3> QED
        BY <2>3, <2>6, <3>1
    <2>9. e - 1 \in Nat
      BY <2>3, <2>6, <2>8
    <2>10. IsDigits(signed, e - 1, 10)
      BY <2>3, <2>6, <2>7, <2>9, DigitsFacts DEF AllIn
    <2> QED
      BY <2>1, <2>3, <2>4, <2>6, <2>8, <2>10
  <1> HIDE DEF signed
  <1>12. to \in Nat /\ f <= to /\ to <= Len(text) /\ (isScaled => f + 2 <= to /\ to = e) /\ (~isScaled => to = f)
    BY <1>4, <1>8, <1>11
  <1>13. ASSUME NEW j \in to - 1 .. Len(text)
         PROVE  IsDollar(i, j) \/ IsNumber(i, j) \/ IsLiteral(i, j) <=> j = to - 1
    <2>1. Span(i, j) /\ j \in Nat /\ w < j /\ i < j /\ f - 1 <= j
      BY <1>1, <1>4, <1>5, <1>12 DEF Span
    <2>2. ~IsDollar(i, j) /\ ~IsLiteral(i, j) /\ ~IsHex(i, j)
      BY <1>1, <2>1, FirstChar DEF Digits
    <2>3. ~IsDecimal(i, j)
      <3>1. j \in w .. Len(text)
        BY <1>1, <2>1
      <3> QED
        BY <1>1, <3>1
    <2>4. \A m \in i .. j : m \in i .. Len(text)
      BY <1>1
    <2>5. ~IsRadix(i, j)
      BY <1>1, <2>4 DEF IsRadix
    <2>6. ASSUME j = to - 1 PROVE IsReal(i, j)
      <3>1. PICK n : n = f - 1
        OBVIOUS
      <3>2. w \in i .. j /\ n \in i .. j /\ w < n /\ n + 1 = f
        BY <1>1, <1>4, <1>5, <2>1, <3>1
      <3>3. AllIn(w + 1, n, isDecimalChar)
        BY <1>4, <3>1 DEF AllIn
      <3>4. n = j \/ IsScale(n + 1, j)
        <4>1. CASE ~isScaled
          BY <1>12, <2>6, <3>1, <4>1
        <4>2. CASE isScaled
          <5>1. f < j /\ j = e - 1
            BY <1>4, <1>12, <2>6, <4>2
          <5>2. text[f] \in {"e", "E"}
            BY <1>4, <4>2
          <5>3. IsDigits(IF text[f + 1] \in {"+", "-"} THEN f + 2 ELSE f + 1, j, 10)
            BY <1>11, <4>2, <5>1
          <5>4. IsScale(f, j)
            BY <5>1, <5>2, <5>3 DEF IsScale
          <5> QED
            BY <3>2, <5>4
        <4> QED
          BY <4>1, <4>2
      <3> QED
        BY <1>1, <3>2, <3>3, <3>4 DEF IsReal
    <2>7. ASSUME IsReal(i, j) PROVE j = to - 1
      <3>1. PICK m \in i .. j, n \in i .. j :
              /\ text[m] = "." /\ m < n
              /\ IsDecimal(i, m - 1) /\ AllIn(m + 1, n, isDecimalChar)
              /\ n = j \/ IsScale(n + 1, j)
        BY <2>7 DEF IsReal
      <3>2. m = w
        BY <1>1, <2>4, <3>1
      <3>3. n \in Nat /\ w < n /\ n <= j
        BY <1>1, <2>1, <3>1, <3>2
      <3>4. n < f
        <4>1. f <= n => f \in w + 1 .. n
          BY <1>1, <1>4, <3>3
        <4> QED
          BY <1>4, <3>1, <3>2, <3>3, <4>1 DEF AllIn
      <3>5. CASE n = j
        <4>1. to = f
          BY <1>4, <1>12, <2>1, <3>3, <3>4, <3>5
        <4> QED
          BY <1>4, <2>1, <3>3, <3>4, <3>5, <4>1
      <3>6. CASE n # j /\ IsScale(n + 1, j)
        <4>1. text[n + 1] \notin isDecimalChar /\ text[n + 1] \in {"e", "E"}
          BY <3>6, OddChars DEF IsScale, isDecimalChar, Digits, Plain
        <4>2. n + 1 = f
          <5>1. n + 1 < f => n + 1 \in w + 1 .. f - 1
            BY <1>1, <1>4, <3>3
          <5>2. ~(n + 1 < f)
            BY <1>4, <4>1, <5>1
          <5> QED
            BY <1>4, <3>3, <3>4, <5>2
        <4>3. isScaled
          BY <1>4, <4>1, <4>2
        <4>4. IsDigits(signed, j, 10)
          BY <1>11, <3>6, <4>2, <4>3 DEF IsScale
        <4>5. AllIn(signed, j, isDecimalChar)
          BY <1>11, <2>1, <4>3, <4>4, DigitsFacts
        <4>6. j # to - 1 => e \in signed .. j
          BY <1>11, <1>12, <2>1, <4>3
        <4> QED
          BY <1>11, <4>3, <4>5, <4>6 DEF AllIn
      <3> QED
        BY <3>1, <3>5, <3>6
    <2> QED
      BY <2>2, <2>3, <2>5, <2>6, <2>7 DEF IsNumber
  <1>14. Right(i, to, "simple")
    <2>1. i < to
      BY <1>1, <1>4, <1>5, <1>12
    <2> QED
      BY <1>1, <1>12, <1>13, <2>1, SimpleRight
  <1> QED
    BY <1>7, <1>10, <1>14

-----------------------------------------------------------------------------
(* Literals *)

HexChars == isHexadecimalChar \cup {Low}

(* From the place D on, hexadecimal digits and underscores, and after them    *)
(* nothing or the underscore with a slash that ends a char, reach up to TO.   *)
Digital(d, to) ==
  \E h \in Nat : /\ d <= h /\ h <= to
                 /\ \A k \in d .. h - 1 : text[k] \in HexChars
                 /\ to # h => to = h + 2 /\ text[h] = "\\" /\ text[h + 1] = Low

(* A char without errors is the longest one at its place, and a shorter one  *)
(* is possible only where hexadecimal digits follow.                         *)
LEMMA SlashRight ==
  ASSUME TextOK, NEW p \in Nat, 1 <= p, Char(p) \notin {"'", "eos", "eop"},
         NEW x, x = nextSlashedChar(p), x.errs = {}
  PROVE  /\ x.to \in Nat /\ p < x.to /\ x.to <= Len(text)
         /\ IsCharOf(p, x.to - 1)
         /\ \A d \in Nat : p < d /\ d - 1 <= Len(text) /\ IsCharOf(p, d - 1) /\ d # x.to =>
              Digital(d, x.to)
  <1>1. Len(text) \in Nat /\ p < Len(text) /\ Char(p) = text[p] /\ Char(p + 1) = text[p + 1]
    <2>1. Len(text) \in Nat /\ p < Len(text)
      BY CharFacts
    <2>2. p \in 1 .. Len(text) /\ p + 1 \in 1 .. Len(text)
      BY <2>1
    <2> QED
      BY <2>1, <2>2, CharFacts
  <1>2. CASE Char(p) # "\\"
    <2>1. x.to = p + 1
      BY <1>2 DEF nextSlashedChar
    <2>2. IsCharOf(p, p)
      BY <1>1, <1>2 DEF IsCharOf
    <2>3. ASSUME NEW d \in Nat, IsCharOf(p, d - 1) PROVE d = p + 1
      BY <1>1, <1>2, <2>3 DEF IsCharOf, IsHexChar
    <2>4. (p + 1) - 1 = p
      OBVIOUS
    <2> QED
      BY <1>1, <2>1, <2>2, <2>3, <2>4
  <1>3. CASE Char(p) = "\\" /\ Char(p + 1) # "#"
    <2> DEFINE slashable == {"'", "\\", "0", "a", "A", "e", "E", "f", "n"}
    <2>1. x.to = p + 2 /\ text[p + 1] \in slashable
      <3>1. Char(p + 1) \notin slashable => x.errs = {"slashable"}
        BY <1>3 DEF nextSlashedChar
      <3>2. Char(p + 1) \in slashable
        BY <3>1
      <3> QED
        BY <1>1, <1>3, <3>2 DEF nextSlashedChar
    <2>2. p + 2 <= Len(text)
      <3>1. p + 1 \in Nat /\ p + 1 >= 1 /\ Char(p + 1) \notin {"eos", "eop"}
        BY <1>1, <2>1
      <3>2. p + 1 < Len(text)
        BY <3>1, CharFacts
      <3> QED
        BY <1>1, <3>2
    <2>3. IsCharOf(p, p + 1)
      BY <1>1, <1>3, <2>1 DEF IsCharOf
    <2>4. ASSUME NEW d \in Nat, IsCharOf(p, d - 1) PROVE d = p + 2
      <3>1. ~(text[p] \notin {"'", "\\", "eos"}) /\ text[p + 1] # "#"
        BY <1>1, <1>3
      <3>2. d - 1 = p + 1
        BY <2>4, <3>1 DEF IsCharOf, IsHexChar
      <3> QED
        BY <3>2
    <2>5. (p + 2) - 1 = p + 1
      OBVIOUS
    <2> QED
      BY <1>1, <2>1, <2>2, <2>3, <2>4, <2>5
  <1>4. CASE Char(p) = "\\" /\ Char(p + 1) = "#"
    <2>1. p + 2 \in Nat /\ 1 <= p + 2 /\ p + 2 <= Len(text)
      <3>1. p + 1 \in Nat /\ p + 1 >= 1 /\ Char(p + 1) \notin {"eos", "eop"}
        BY <1>1, <1>4
      <3>2. p + 1 < Len(text)
        BY <3>1, CharFacts
      <3> QED
        BY <1>1, <3>2
    <2>2. PICK h : h = After(p + 2, HexChars)
      OBVIOUS
    <2>3. /\ h \in Nat /\ p + 2 <= h /\ h <= Len(text) /\ Char(h) = text[h] /\ text[h] \notin HexChars
          /\ \A k \in p + 2 .. h - 1 : text[k] \in HexChars
      <3>1. "eos" \notin HexChars
        BY NoEnd DEF HexChars
      <3> QED
        BY <2>1, <2>2, <3>1, RunFacts
    <2>4. /\ x.to = IF Char(h) = "\\" /\ nextNextChar(h) = Low THEN h + 2 ELSE h
          /\ x.errs = IF HasDigit(Chars(p + 2, h)) THEN {} ELSE {"illegalNumber"}
      BY <1>4, <2>2 DEF nextSlashedChar, HexChars
    <2>5. \E k \in p + 2 .. h - 1 : text[k] # Low
      <3>1. HasDigit(Chars(p + 2, h))
        BY <2>4
      <3>2. h <= Len(text) + 1
        BY <1>1, <2>3
      <3> QED
        BY <2>1, <2>3, <3>1, <3>2, CharsFacts
    <2>6. p + 2 < h
      <3>1. PICK k \in p + 2 .. h - 1 : TRUE
        BY <2>5
      <3> QED
        BY <2>1, <2>3, <3>1
    <2>7. h < Len(text) => Char(h + 1) = text[h + 1]
      <3>1. h < Len(text) => h + 1 \in 1 .. Len(text)
        BY <1>1, <2>3
      <3> QED
        BY <3>1, CharFacts
    <2>8. nextNextChar(h) = Low <=> h + 1 < Len(text) /\ text[h + 1] = Low
      <3>1. nextNextChar(h) = Low <=> Char(h + 1) = Low
        BY OddChars DEF nextNextChar, Plain
      <3>2. Char(h + 1) = Low => h + 1 < Len(text)
        <4>1. h + 1 \in Nat /\ h + 1 >= 1
          BY <2>3
        <4>2. Low \notin {"eos", "eop"}
          BY OddChars DEF Plain
        <4> QED
          BY <4>1, <4>2, CharFacts
      <3>3. h + 1 < Len(text) => h < Len(text)
        BY <1>1, <2>3
      <3> QED
        BY <2>7, <3>1, <3>2, <3>3
    <2>9. IsHexChar(p, h - 1)
      <3>1. p < h - 1 /\ h - 1 \in Nat
        BY <2>3, <2>6
      <3>2. IsDigits(p + 2, h - 1, 16)
        BY <2>1, <2>3, <2>5, <3>1, DigitsFacts DEF AllIn, HexChars
      <3> QED
        BY <1>1, <1>4, <3>1, <3>2 DEF IsHexChar
    <2> DEFINE Tail2 == text[h] = "\\" /\ h + 1 < Len(text) /\ text[h + 1] = Low
    <2>10. x.to = IF Tail2 THEN h + 2 ELSE h
      BY <2>3, <2>4, <2>8
    <2>11. IsCharOf(p, x.to - 1)
      <3>1. CASE ~Tail2
        BY <2>9, <2>10, <3>1 DEF IsCharOf
      <3>2. CASE Tail2
        <4>1. PICK j \in Nat : j = h + 1
          BY <2>3
        <4>2. x.to - 1 = j /\ j - 2 = h - 1 /\ j - 1 = h /\ p + 2 < j
          BY <2>3, <2>6, <2>10, <3>2, <4>1
        <4>3. IsCharOf(p, j)
          BY <2>9, <3>2, <4>1, <4>2 DEF IsCharOf
        <4> QED
          BY <4>2, <4>3
      <3> QED
        BY <3>1, <3>2
    <2>12. x.to \in Nat /\ p < x.to /\ x.to <= Len(text) /\ h <= x.to
      BY <1>1, <2>3, <2>6, <2>10
    <2>13. ASSUME NEW d \in Nat, IsCharOf(p, d - 1), d # x.to
           PROVE  d <= h /\ \A k \in d .. h - 1 : text[k] \in HexChars
      <3>1. ASSUME NEW j \in Nat, IsHexChar(p, j) PROVE p + 2 <= j /\ j < h
        <4>1. AllIn(p + 2, j, HexChars) /\ p + 2 <= j
          BY <2>1, <3>1, DigitsFacts DEF IsHexChar, HexChars
        <4>2. h <= j => h \in p + 2 .. j
          BY <2>1, <2>3
        <4> QED
          BY <2>3, <4>1, <4>2 DEF AllIn
      <3>2. d - 1 \in Nat
        <4>1. d - 1 \in Int /\ (d - 1 = p \/ d - 1 = p + 1 \/ p < d - 1 \/ p + 2 < d - 1)
          BY <2>13 DEF IsCharOf, IsHexChar
        <4> QED
          BY <4>1
      <3>3. CASE IsHexChar(p, d - 1)
        <4>1. p + 2 <= d - 1 /\ d - 1 < h
          BY <3>1, <3>2, <3>3
        <4>2. \A k \in d .. h - 1 : k \in p + 2 .. h - 1
          BY <2>3, <4>1
        <4> QED
          BY <2>3, <4>1, <4>2
      <3>4. CASE p + 2 < d - 1 /\ IsHexChar(p, (d - 1) - 2) /\ text[(d - 1) - 1] = "\\" /\ text[d - 1] = Low
        <4>1. PICK j \in Nat : j = (d - 1) - 2
          BY <3>2, <3>4
        <4>2. p + 2 <= j /\ j < h
          BY <3>1, <3>4, <4>1
        <4>3. (d - 1) - 1 = j + 1 /\ d - 1 = j + 2 /\ d = j + 3
          BY <4>1
        <4>4. text[j + 1] = "\\" /\ text[j + 2] = Low
          BY <3>4, <4>3
        <4>5. "\\" \notin HexChars
          BY OddChars DEF HexChars, isHexadecimalChar, Digits, Plain
        <4>6. j + 1 = h
          <5>1. j + 1 # h => j + 1 \in p + 2 .. h - 1
            BY <2>3, <4>2
          <5> QED
            BY <2>3, <4>4, <4>5, <5>1
        <4>7. text[h] = "\\" /\ text[h + 1] = Low /\ d = h + 2
          BY <4>3, <4>4, <4>6
        <4>8. h + 1 < Len(text)
          <5>1. h < Len(text)
            <6>1. Char(h) \notin {"eos", "eop"} /\ h >= 1
              BY <2>3, <4>7
            <6> QED
              BY <2>3, <6>1, CharFacts
          <5>2. Char(h + 1) = Low
            BY <2>7, <4>7, <5>1
          <5>3. nextNextChar(h) = Low
            BY <5>2, OddChars DEF nextNextChar, Plain
          <5> QED
            BY <2>8, <5>3
        <4> QED
          BY <2>10, <2>13, <4>7, <4>8
      <3>5. ~(text[p] \notin {"'", "\\", "eos"})
            /\ ~(text[p + 1] \in {"'", "\\", "0", "a", "A", "e", "E", "f", "n"})
        BY <1>1, <1>4
      <3>6. d - 1 = p + 1 => text[d - 1] = text[p + 1]
        OBVIOUS
      <3> QED
        BY <2>13, <3>3, <3>4, <3>5, <3>6 DEF IsCharOf
    <2>14. x.to # h => x.to = h + 2 /\ text[h] = "\\" /\ text[h + 1] = Low
      BY <2>10
    <2>15. ASSUME NEW d \in Nat, IsCharOf(p, d - 1), d # x.to PROVE Digital(d, x.to)
      BY <2>3, <2>12, <2>13, <2>14, <2>15 DEF Digital
    <2> QED
      BY <2>11, <2>12, <2>15
  <1> QED
    BY <1>2, <1>3, <1>4

(* Up to the end of its line, a file has neither ends of lines nor of files. *)
LEMMA LineChars ==
  ASSUME TextOK, NEW i \in Nat, 1 <= i, NEW j \in Nat, j <= Len(text), NoneIn(i, j, {"eos"}),
         NEW k \in i .. j
  PROVE  /\ k \in Nat /\ 1 <= k /\ k < Len(text)
         /\ Char(k) = text[k] /\ text[k] \notin {"eos", "eop"}
  <1>1. k \in Nat /\ 1 <= k /\ k \in 1 .. Len(text)
    BY CharFacts
  <1>2. Char(k) = text[k] /\ text[k] \in Alphabet /\ text[k] # "eos"
    BY <1>1, CharFacts DEF NoneIn
  <1>3. "eop" \notin Alphabet
    BY OddChars DEF Alphabet, Letters, Lowers, Capitals, Digits, Symbols, Illegal, Plain
  <1>4. k < Len(text)
    BY <1>1, <1>2, <1>3, CharFacts
  <1> QED
    BY <1>1, <1>2, <1>3, <1>4

(* A char literal is the longest literal. *)
LEMMA CharRight ==
  ASSUME TextOK, NEW i, Starts(i), Char(i) = "'", Char(i + 1) # "'", TokenAt(i).errs = {},
         TokenAt(i).to <= Len(text), NoneIn(i, TokenAt(i).to - 1, {"eos"})
  PROVE  Right(i, TokenAt(i).to, TokenAt(i).kind)
  <1>1. i \in Nat /\ 1 <= i /\ Len(text) \in Nat /\ i < Len(text) /\ text[i] = "'"
    <2>1. i \in Nat /\ 1 <= i /\ Len(text) \in Nat /\ i < Len(text)
      BY CharFacts DEF Starts
    <2>2. i \in 1 .. Len(text)
      BY <2>1
    <2> QED
      BY <2>1, <2>2, CharFacts
  <1>2. PICK x : x = nextSlashedChar(i + 1)
    OBVIOUS
  <1>3. PICK t : t = TokenAt(i)
    OBVIOUS
  <1>4. t = nextApostrophe(i)
    BY <1>3, TokenArms
  <1>5. Char(x.to) = "'" /\ t = Token("simple", TRUE, x.to + 1, <<x.word>>, x.errs)
    <2>1. Char(x.to) # "'" => t.errs = x.errs \cup {"apostrophe"}
      BY <1>2, <1>4 DEF nextApostrophe, Token
    <2>2. Char(x.to) = "'"
      BY <1>3, <2>1
    <2> QED
      BY <1>2, <1>4, <2>2 DEF nextApostrophe
  <1>6. x.errs = {} /\ t.to = x.to + 1 /\ t.kind = "simple"
    BY <1>3, <1>5 DEF Token
  <1>7. Sound(t, i)
    BY <1>1, <1>4, LiteralSound
  <1>8. PICK to \in Nat : to = t.to /\ to > i
    BY <1>7 DEF Sound
  <1>9. Char(i + 1) = text[i + 1] /\ text[i + 1] \notin {"eos", "eop"} /\ i + 1 < to
    <2>1. i + 1 < to
      <3>1. x.to + 1 = to
        BY <1>6, <1>8
      <3>2. CASE Char(i + 1) = "eos"
        <4>1. x.to = i + 2
          BY <1>1, <1>2, <3>2 DEF nextSlashedChar
        <4> QED
          BY <1>1, <3>1, <4>1
      <3>3. CASE Char(i + 1) # "eos"
        <4>1. i + 1 \in Nat /\ 1 <= i + 1 /\ i + 1 <= Len(text) + 1
          BY <1>1
        <4>2. x.to \in (i + 1) + 1 .. Len(text) + 2
          BY <1>2, <3>3, <4>1, SlashFacts
        <4> QED
          BY <1>1, <3>1, <4>2
      <3> QED
        BY <3>2, <3>3
    <2>2. i + 1 \in i .. to - 1 /\ to - 1 \in Nat /\ to - 1 <= Len(text)
      BY <1>1, <1>3, <1>8, <2>1
    <2>3. NoneIn(i, to - 1, {"eos"})
      BY <1>3, <1>8
    <2> QED
      BY <1>1, <2>1, <2>2, <2>3, LineChars
  <1>10. /\ x.to \in Nat /\ i + 1 < x.to /\ x.to <= Len(text)
         /\ IsCharOf(i + 1, x.to - 1)
         /\ \A d \in Nat : i + 1 < d /\ d - 1 <= Len(text) /\ IsCharOf(i + 1, d - 1) /\ d # x.to =>
              Digital(d, x.to)
    <2>1. i + 1 \in Nat /\ 1 <= i + 1 /\ Char(i + 1) \notin {"'", "eos", "eop"}
      BY <1>1, <1>9
    <2> QED
      BY <1>2, <1>6, <2>1, SlashRight
  <1>11. PICK e \in Nat : e = x.to
    BY <1>10
  <1>12. to = e + 1 /\ to - 1 = e /\ e \in 1 .. Len(text) /\ text[e] = "'"
    <2>1. to = e + 1 /\ to - 1 = e /\ e \in 1 .. Len(text)
      BY <1>1, <1>6, <1>8, <1>10, <1>11
    <2>2. Char(e) = "'"
      BY <1>5, <1>11
    <2> QED
      BY <2>1, <2>2, CharFacts
  <1>13. ASSUME NEW j \in to - 1 .. Len(text)
         PROVE  IsDollar(i, j) \/ IsNumber(i, j) \/ IsLiteral(i, j) <=> j = to - 1
    <2>1. Span(i, j) /\ j \in Nat /\ e <= j /\ j <= Len(text)
      BY <1>1, <1>8, <1>12 DEF Span
    <2>2. ~IsDollar(i, j) /\ ~IsNumber(i, j)
      BY <1>1, <2>1, FirstChar DEF Digits
    <2>3. ~AllIn(i, i + 1, {"'"})
      <3>1. i + 1 \in i .. i + 1
        BY <1>1
      <3> QED
        BY <1>9, <3>1 DEF AllIn
    <2>4. IsLiteral(i, j) <=> i + 1 < j /\ text[j] = "'" /\ IsCharOf(i + 1, j - 1)
      BY <1>1, <2>3 DEF IsLiteral
    <2>5. j = e => IsLiteral(i, j)
      BY <1>10, <1>11, <1>12, <2>4
    <2>6. IsLiteral(i, j) => j = e
      <3> SUFFICES ASSUME IsLiteral(i, j), j # e PROVE FALSE
        OBVIOUS
      <3>1. i + 1 < j /\ j - 1 <= Len(text) /\ IsCharOf(i + 1, j - 1)
        BY <2>1, <2>4
      <3>2. PICK h \in Nat : j <= h /\ h <= e
        <4>1. Digital(j, x.to)
          BY <1>10, <1>11, <2>1, <3>1
        <4> QED
          BY <1>11, <4>1 DEF Digital
      <3> QED
        BY <2>1, <3>2
    <2> QED
      BY <1>12, <2>2, <2>5, <2>6
  <1>14. Right(i, to, "simple")
    BY <1>1, <1>3, <1>8, <1>13, SimpleRight
  <1> QED
    BY <1>3, <1>6, <1>8, <1>14

(* CUTS cut the body of a string literal that ends at the place B. *)
Cut(cuts, b) ==
  \A c \in cuts : \/ c = b + 1
                  \/ c = b /\ text[b] = "'"
                  \/ \E d \in cuts : c < d /\ IsPart(c, d - 1)

(* Where a char is cut off, one of the next cuts is where its reader stops. *)
LEMMA NextCut ==
  ASSUME TextOK, NEW b \in Nat, b + 2 <= Len(text), text[b + 1] = "'",
         NEW cuts \in SUBSET (1 .. b + 1), Cut(cuts, b),
         NEW s \in Nat, 1 <= s, Char(s) \notin {"'", "eos", "eop"},
         NEW x, x = nextSlashedChar(s), x.errs = {},
         NEW d \in cuts, s < d, IsCharOf(s, d - 1)
  PROVE  x.to \in cuts
  <1> SUFFICES ASSUME d # x.to PROVE x.to \in cuts
    OBVIOUS
  <1>1. Len(text) \in Nat /\ d \in Nat /\ d - 1 <= Len(text)
    BY CharFacts
  <1>2. PICK h \in Nat : /\ d <= h /\ h <= x.to
                         /\ \A k \in d .. h - 1 : text[k] \in HexChars
                         /\ x.to # h => x.to = h + 2 /\ text[h] = "\\" /\ text[h + 1] = Low
    <2>1. \A c \in Nat : s < c /\ c - 1 <= Len(text) /\ IsCharOf(s, c - 1) /\ c # x.to =>
            Digital(c, x.to)
      <3>1. /\ TextOK /\ s \in Nat /\ 1 <= s /\ Char(s) \notin {"'", "eos", "eop"}
            /\ x = nextSlashedChar(s) /\ x.errs = {}
        OBVIOUS
      <3> QED
        BY ONLY <3>1, SlashRight
    <2>2. Digital(d, x.to)
      BY <1>1, <2>1
    <2> QED
      BY <2>2 DEF Digital
  <1>3. HexChars \cap {"'", "\\"} = {}
    BY OddChars DEF HexChars, isHexadecimalChar, Digits, Plain
  <1> DEFINE S == { n \in Nat : \E m \in cuts : d <= m /\ m + n = h }
  <1>4. h - d \in S
    BY <1>1, <1>2
  <1>5. PICK n \in S : \A y \in S : n <= y
    BY <1>4, LeastMember
  <1>6. PICK m \in cuts : m \in Nat /\ d <= m /\ m + n = h /\ n \in Nat
    BY <1>5
  <1>7. n = 0
    <2> SUFFICES ASSUME n # 0 PROVE FALSE
      OBVIOUS
    <2>1. m \in d .. h - 1 /\ n - 1 \in Nat /\ (m + 1) + (n - 1) = h /\ d <= m + 1
      BY <1>1, <1>2, <1>6
    <2>2. text[m] \notin {"'", "\\"}
      BY <1>2, <1>3, <2>1
    <2>3. PICK q \in cuts : m < q /\ IsPart(m, q - 1)
      BY <1>6, <2>2 DEF Cut
    <2>4. m = q - 1
      BY <2>2, <2>3 DEF IsPart, IsCharOf, IsHexChar
    <2>5. q = m + 1
      BY <1>6, <2>4
    <2>6. n - 1 \in S
      BY <2>1, <2>5
    <2>7. n <= n - 1
      BY <1>5, <2>6
    <2> QED
      BY <1>6, <2>7
  <1>8. h \in cuts
    BY <1>2, <1>6, <1>7
  <1>9. x.to = h
    <2> SUFFICES ASSUME x.to # h PROVE FALSE
      OBVIOUS
    <2>1. text[h] = "\\" /\ text[h + 1] = Low
      BY <1>2
    <2>2. PICK q \in cuts : h < q /\ IsPart(h, q - 1)
      BY <1>8, <2>1 DEF Cut
    <2>3. Low \notin {"#", "'", "\\", "0", "a", "A", "e", "E", "f", "n"}
      BY OddChars DEF Plain
    <2>4. q - 1 = h + 1 => text[q - 1] = Low
      BY <2>1
    <2>5. IsCharOf(h, q - 1)
      BY <2>1, <2>2 DEF IsPart
    <2> QED
      BY <2>1, <2>3, <2>4, <2>5 DEF IsCharOf, IsHexChar
  <1> QED
    BY <1>8, <1>9

(* From the place P on, a string literal ends before the place E and nowhere *)
(* behind it, however its body is cut.                                       *)
Closed(p, e) ==
  /\ p + 2 <= e /\ text[e - 2] = "'" /\ text[e - 1] = "'" /\ IsBody(p, e - 3)
  /\ \A b \in Nat : \A cuts \in SUBSET (1 .. b + 1) :
       p \in cuts /\ b + 2 <= Len(text) /\ text[b + 1] = "'" /\ text[b + 2] = "'" /\ Cut(cuts, b)
         => b + 2 < e

(* No char of a literal is an apostrophe without a slash. *)
LEMMA NoQuote ==
  ASSUME NEW p, text[p] = "'", NEW j
  PROVE  ~IsCharOf(p, j)
  BY DEF IsCharOf, IsHexChar

(* The loop ends at two apostrophes, or at the last two of three. *)
LEMMA LastTurn ==
  ASSUME TextOK, NEW p \in Nat, 1 <= p, Char(p) = "'", Char(p + 1) = "'",
         NEW e, e = IF Char(p + 2) = "'" THEN p + 3 ELSE p + 2, e <= Len(text)
  PROVE  Closed(p, e)
  <1>1. Len(text) \in Nat /\ e \in Nat /\ p + 2 <= Len(text)
    BY CharFacts
  <1>2. Char(p) = text[p] /\ Char(p + 1) = text[p + 1] /\ Char(p + 2) = text[p + 2]
    <2>1. p \in 1 .. Len(text) /\ p + 1 \in 1 .. Len(text) /\ p + 2 \in 1 .. Len(text)
      BY <1>1
    <2> QED
      BY <2>1, CharFacts
  <1>3. ASSUME NEW b \in Nat, NEW cuts \in SUBSET (1 .. b + 1), p \in cuts, b + 2 <= Len(text),
               text[b + 1] = "'", text[b + 2] = "'", Cut(cuts, b)
        PROVE  b + 2 < e
    <2>1. ASSUME NEW j PROVE ~IsPart(p, j)
      BY <1>2, NoQuote DEF IsPart
    <2>2. p = b + 1 \/ p = b
      BY <1>3, <2>1 DEF Cut
    <2>3. p = b + 1 => b + 2 < e
      BY <1>1
    <2>4. p = b => b + 2 < e
      BY <1>1, <1>2, <1>3
    <2> QED
      BY <2>2, <2>3, <2>4
  <1>4. CASE Char(p + 2) = "'"
    <2>1. e - 2 = p + 1 /\ e - 1 = p + 2 /\ e - 3 = p
      BY <1>4
    <2>2. IsBody(p, p)
      <3> DEFINE cuts == {p, p + 1}
      <3>1. cuts \in SUBSET (p .. p + 1) /\ {p, p + 1} \subseteq cuts
        OBVIOUS
      <3>2. \A c \in cuts : c = p + 1 \/ (c = p /\ text[p] = "'")
        BY <1>2
      <3> QED
        BY <3>1, <3>2 DEF IsBody
    <2> QED
      BY <1>1, <1>2, <1>3, <1>4, <2>1, <2>2 DEF Closed
  <1>5. CASE Char(p + 2) # "'"
    <2>1. e - 2 = p /\ e - 1 = p + 1 /\ e - 3 = p - 1
      BY <1>5
    <2>2. IsBody(p, p - 1)
      <3>1. {p} \in SUBSET (p .. (p - 1) + 1) /\ {p, (p - 1) + 1} \subseteq {p}
        OBVIOUS
      <3>2. \A c \in {p} : c = (p - 1) + 1
        OBVIOUS
      <3> QED
        BY <3>1, <3>2 DEF IsBody
    <2> QED
      BY <1>1, <1>2, <1>3, <1>5, <2>1, <2>2 DEF Closed
  <1> QED
    BY <1>4, <1>5

(* A turn that is not the last one goes over one part: the char at the place *)
(* S, which is P or, behind an apostrophe, the next one.                     *)
LEMMA NextTurn ==
  ASSUME TextOK, NEW p \in Nat, 1 <= p, NEW s \in Nat,
         (s = p /\ text[p] # "'") \/ (s = p + 1 /\ text[p] = "'"),
         Char(s) \notin {"'", "eos", "eop"},
         NEW x, x = nextSlashedChar(s), x.errs = {}, NEW e \in Nat, Closed(x.to, e)
  PROVE  Closed(p, e)
  <1>1. Len(text) \in Nat /\ s < Len(text) /\ 1 <= s /\ text[s] # "'"
    <2>1. Len(text) \in Nat /\ 1 <= s
      BY CharFacts
    <2>2. s < Len(text)
      BY <2>1, CharFacts
    <2>3. s \in 1 .. Len(text)
      BY <2>1, <2>2
    <2> QED
      BY <2>1, <2>2, <2>3, CharFacts
  <1>2. x.to \in Nat /\ s < x.to /\ IsCharOf(s, x.to - 1)
    BY <1>1, SlashRight
  <1>3. PICK q \in Nat : q = x.to /\ p < q
    BY <1>2
  <1>4. Closed(q, e) /\ q + 2 <= e
    BY <1>3 DEF Closed
  <1>5. IsPart(p, q - 1)
    <2>1. s = p + 1 => p < q - 1
      BY <1>2, <1>3
    <2> QED
      BY <1>2, <1>3, <2>1 DEF IsPart
  <1>6. IsBody(p, e - 3)
    <2>1. PICK z : z = e - 3
      OBVIOUS
    <2>2. PICK cuts \in SUBSET (q .. z + 1) :
            /\ {q, z + 1} \subseteq cuts
            /\ \A c \in cuts : \/ c = z + 1
                               \/ c = z /\ text[z] = "'"
                               \/ \E d \in cuts : c < d /\ IsPart(c, d - 1)
      BY <1>4, <2>1 DEF Closed, IsBody
    <2> DEFINE more == cuts \cup {p}
    <2>3. more \in SUBSET (p .. z + 1) /\ {p, z + 1} \subseteq more
      <3>1. z \in Int /\ q <= z + 1 /\ p < q
        BY <1>3, <1>4, <2>1
      <3>2. ASSUME NEW c \in more PROVE c \in p .. z + 1
        BY <2>2, <3>1
      <3> QED
        BY <2>2, <3>2
    <2>4. ASSUME NEW c \in more
          PROVE  \/ c = z + 1
                 \/ c = z /\ text[z] = "'"
                 \/ \E d \in more : c < d /\ IsPart(c, d - 1)
      <3>1. c = p => \E d \in more : c < d /\ IsPart(c, d - 1)
        BY <1>3, <1>5, <2>2
      <3> QED
        BY <2>2, <3>1
    <2> HIDE DEF more
    <2>5. IsBody(p, z)
      BY <2>3, <2>4 DEF IsBody
    <2> QED
      BY <2>1, <2>5
  <1>7. ASSUME NEW b \in Nat, NEW cuts \in SUBSET (1 .. b + 1), p \in cuts, b + 2 <= Len(text),
               text[b + 1] = "'", text[b + 2] = "'", Cut(cuts, b)
        PROVE  b + 2 < e
    <2>1. p # b + 1 /\ ~(p = b /\ text[b] = "'")
      <3>1. p = b + 1 => s = b + 2
        BY <1>7
      <3>2. p = b /\ text[b] = "'" => s = b + 1
        OBVIOUS
      <3> QED
        BY <1>1, <1>7, <3>1, <3>2
    <2>2. PICK d \in cuts : p < d /\ IsPart(p, d - 1)
      BY <1>7, <2>1 DEF Cut
    <2>3. s < d /\ IsCharOf(s, d - 1)
      <3>1. CASE text[p] # "'"
        BY <2>2, <3>1 DEF IsPart
      <3>2. CASE text[p] = "'"
        <4>1. p < d - 1 /\ IsCharOf(p + 1, d - 1)
          BY <2>2, <3>2, NoQuote DEF IsPart
        <4> QED
          BY <3>2, <4>1
      <3> QED
        BY <3>1, <3>2
    <2>4. q \in cuts
      BY <1>1, <1>3, <1>7, <2>3, NextCut
    <2> QED
      BY <1>4, <1>7, <2>4 DEF Closed
  <1>8. p + 2 <= e
    BY <1>3, <1>4
  <1> QED
    BY <1>4, <1>6, <1>7, <1>8 DEF Closed

(* Where the reader of a string stops without errors, the string is closed. *)
LEMMA StringClosed ==
  ASSUME TextOK
  PROVE  \A p \in Places :
           /\ StringFrom[p].errs = {} /\ StringFrom[p].to <= Len(text)
           /\ NoneIn(p, StringFrom[p].to - 1, {"eos"})
           => Closed(p, StringFrom[p].to)
  <1>0. PICK N \in Nat : N = Len(text) + 2
    BY CharFacts
  <1>1. Places = 1 .. N /\ Len(text) \in Nat
    BY <1>0, CharFacts DEF Places
  <1> DEFINE Good(p, e) == StringFrom[p].errs = {} /\ e <= Len(text) /\ NoneIn(p, e - 1, {"eos"})
                             => Closed(p, e)
             S == { m \in Nat : \E p \in Places : p + m = N /\ ~Good(p, StringFrom[p].to) }
  <1>2. ASSUME S # {} PROVE FALSE
    <2>1. PICK m \in S : \A y \in S : m <= y
      BY <1>2, LeastMember
    <2>2. PICK p \in Places : p + m = N /\ ~Good(p, StringFrom[p].to)
      BY <2>1
    <2>3. PICK e \in Nat : e = StringFrom[p].to /\ e >= p
      BY StringTo
    <2>4. StringFrom[p].errs = {} /\ e <= Len(text) /\ NoneIn(p, e - 1, {"eos"}) /\ ~Closed(p, e)
      BY <2>2, <2>3
    <2>5. p \in Nat /\ 1 <= p
      BY <1>1
    <2>6. PICK turn : turn = StringTurn(p)
      OBVIOUS
    <2>7. /\ "to" \in DOMAIN turn /\ "errs" \in DOMAIN turn /\ "word" \in DOMAIN turn
          /\ turn.last \in BOOLEAN
      <3>1. "to" \in DOMAIN turn /\ "errs" \in DOMAIN turn /\ "word" \in DOMAIN turn
        BY <2>6 DEF StringTurn
      <3> QED
        BY <2>6, <3>1, TurnFacts
    <2>8. PICK rest : rest = StringFrom[turn.to]
      OBVIOUS
    <2>9. StringFrom[p] = IF turn.last THEN turn
                          ELSE [turn EXCEPT !.to   = rest.to,
                                            !.word = @ \o rest.word,
                                            !.errs = @ \cup rest.errs]
      <3>1. StringFrom[p] = Turned(p, StringFrom)
        BY StringEquation
      <3> QED
        BY ONLY <2>6, <2>8, <3>1 DEF Turned
    <2>10. turn.errs = {}
      BY <2>4, <2>7, <2>9
    <2>11. turn.last => turn.to = e
      BY <2>3, <2>9
    <2>12. ~turn.last => /\ rest.to = e /\ rest.errs = {}
                         /\ turn.to \in Places /\ turn.to > p /\ turn.to <= e
                         /\ Closed(turn.to, e)
      <3> SUFFICES ASSUME ~turn.last
                   PROVE  /\ rest.to = e /\ rest.errs = {}
                          /\ turn.to \in Places /\ turn.to > p /\ turn.to <= e
                          /\ Closed(turn.to, e)
        OBVIOUS
      <3>1. rest.to = e /\ rest.errs = {}
        BY <2>3, <2>4, <2>7, <2>9
      <3>2. turn.to \in Places /\ turn.to > p
        BY <2>6, TurnFacts
      <3>3. PICK q \in Places : q = turn.to /\ q > p /\ q \in Nat
        BY <1>1, <3>2
      <3>4. q <= e
        BY <2>8, <3>1, <3>3, StringTo
      <3>5. N - q \in Nat /\ q + (N - q) = N /\ ~(m <= N - q)
        BY <1>1, <2>2, <3>3
      <3>6. Good(q, StringFrom[q].to)
        BY <2>1, <3>5
      <3>7. Good(q, e)
        BY <2>8, <3>1, <3>3, <3>6
      <3>8. NoneIn(q, e - 1, {"eos"})
        <4>1. q .. e - 1 \subseteq p .. e - 1
          BY <2>3, <2>5, <3>3
        <4> QED
          BY <2>4, <4>1 DEF NoneIn
      <3>9. Closed(q, e)
        BY <2>4, <2>8, <3>1, <3>3, <3>7, <3>8
      <3> QED
        BY <3>1, <3>2, <3>3, <3>4, <3>9
    <2>13. \A k \in p .. e - 1 : Char(k) \notin {"eos", "eop"} /\ Char(k) = text[k]
      <3>1. e - 1 <= Len(text)
        BY <1>1, <2>4
      <3>2. p < e => e - 1 \in Nat
        BY <2>5
      <3>3. p < e => \A k \in p .. e - 1 : Char(k) \notin {"eos", "eop"} /\ Char(k) = text[k]
        BY <2>4, <2>5, <3>1, <3>2, LineChars
      <3>4. ~(p < e) => p .. e - 1 = {}
        BY <2>3, <2>5
      <3> QED
        BY <3>3, <3>4
    <2>14. CASE Char(p) = "eos"
      BY <2>6, <2>10, <2>14 DEF StringTurn
    <2>15. CASE Char(p) \notin {"'", "eos"}
      <3>1. PICK x : x = nextSlashedChar(p)
        OBVIOUS
      <3>2. turn.to = x.to /\ turn.errs = x.errs /\ ~turn.last
        BY <2>6, <2>15, <3>1 DEF StringTurn
      <3>3. PICK q \in Nat : q = x.to /\ p < q /\ q <= e /\ Closed(q, e)
        BY <1>1, <2>12, <3>2
      <3>4. p \in p .. e - 1
        BY <2>3, <2>5, <3>3
      <3>5. Char(p) \notin {"'", "eos", "eop"} /\ text[p] # "'"
        BY <2>13, <2>15, <3>4
      <3>6. x.errs = {} /\ Closed(x.to, e)
        BY <2>10, <3>2, <3>3
      <3>7. Closed(p, e)
        BY <2>3, <2>5, <3>1, <3>5, <3>6, NextTurn
      <3> QED
        BY <2>4, <3>7
    <2>16. CASE Char(p) = "'" /\ Char(p + 1) = "eos"
      BY <2>6, <2>10, <2>16 DEF StringTurn
    <2>17. CASE Char(p) = "'" /\ Char(p + 1) = "'"
      <3>1. turn.last /\ turn.to = IF Char(p + 2) = "'" THEN p + 3 ELSE p + 2
        BY <2>6, <2>17 DEF StringTurn
      <3>2. e = IF Char(p + 2) = "'" THEN p + 3 ELSE p + 2
        BY <2>11, <3>1
      <3>3. Closed(p, e)
        BY <2>4, <2>5, <2>17, <3>2, LastTurn
      <3> QED
        BY <2>4, <3>3
    <2>18. CASE Char(p) = "'" /\ Char(p + 1) \notin {"'", "eos"}
      <3>1. PICK x : x = nextSlashedChar(p + 1)
        OBVIOUS
      <3>2. turn.to = x.to /\ turn.errs = x.errs /\ ~turn.last
        BY <2>6, <2>18, <3>1 DEF StringTurn
      <3>3. PICK q \in Nat : q = x.to /\ p < q /\ q <= e /\ Closed(q, e)
        BY <1>1, <2>12, <3>2
      <3>4. p + 1 \in Nat /\ p \in p .. e - 1 /\ p + 1 \in p .. e - 1
        <4>1. q + 2 <= e
          BY <3>3 DEF Closed
        <4> QED
          BY ONLY <2>3, <2>5, <3>3, <4>1
      <3>5. Char(p + 1) \notin {"'", "eos", "eop"} /\ text[p] = "'"
        BY <2>13, <2>18, <3>4
      <3>6. x.errs = {} /\ Closed(x.to, e)
        BY <2>10, <3>2, <3>3
      <3>7. Closed(p, e)
        BY <2>3, <2>5, <3>1, <3>4, <3>5, <3>6, NextTurn
      <3> QED
        BY <2>4, <3>7
    <2> QED
      BY <2>14, <2>15, <2>16, <2>17, <2>18
  <1>3. ASSUME NEW p \in Places PROVE Good(p, StringFrom[p].to)
    <2>1. N - p \in Nat /\ p + (N - p) = N
      BY <1>1
    <2> QED
      BY <1>2, <2>1
  <1> QED
    BY <1>3

(* A string literal is the longest literal. *)
LEMMA StringRight ==
  ASSUME TextOK, NEW i, Starts(i), Char(i) = "'", Char(i + 1) = "'", TokenAt(i).errs = {},
         TokenAt(i).to <= Len(text), NoneIn(i, TokenAt(i).to - 1, {"eos"})
  PROVE  Right(i, TokenAt(i).to, TokenAt(i).kind)
  <1>1. /\ i \in Nat /\ 1 <= i /\ Len(text) \in Nat /\ i + 1 < Len(text)
        /\ text[i] = "'" /\ text[i + 1] = "'"
    <2>1. i \in Nat /\ 1 <= i /\ Len(text) \in Nat
      BY CharFacts DEF Starts
    <2>2. i + 1 \in Nat /\ i + 1 >= 1
      BY <2>1
    <2>3. i + 1 < Len(text)
      BY <2>2, CharFacts
    <2>4. i \in 1 .. Len(text) /\ i + 1 \in 1 .. Len(text)
      BY <2>1, <2>3
    <2> QED
      BY <2>1, <2>3, <2>4, CharFacts
  <1>2. PICK p \in Nat : p = i + 2
    BY <1>1
  <1>3. p \in Places
    BY <1>1, <1>2 DEF Places
  <1>4. PICK rest : rest = StringFrom[p]
    OBVIOUS
  <1>5. TokenAt(i) = Token("simple", TRUE, rest.to, rest.word, rest.errs)
    BY <1>2, <1>4, TokenArms DEF nextApostrophe
  <1>6. TokenAt(i).kind = "simple" /\ TokenAt(i).to = rest.to /\ rest.errs = {}
    BY <1>5 DEF Token
  <1>7. PICK to \in Nat : to = rest.to /\ to >= p
    BY <1>3, <1>4, StringTo
  <1>8. to <= Len(text) /\ NoneIn(i, to - 1, {"eos"})
    BY <1>6, <1>7
  <1>9. Closed(p, to)
    <2>1. p .. to - 1 \subseteq i .. to - 1
      BY <1>1, <1>2, <1>7
    <2>2. NoneIn(p, to - 1, {"eos"})
      BY <1>8, <2>1 DEF NoneIn
    <2> QED
      BY <1>3, <1>4, <1>6, <1>7, <1>8, <2>2, StringClosed
  <1>10. p + 2 <= to
    BY <1>9 DEF Closed
  <1>11. ASSUME NEW j \in to - 1 .. Len(text)
         PROVE  IsDollar(i, j) \/ IsNumber(i, j) \/ IsLiteral(i, j) <=> j = to - 1
    <2>1. Span(i, j) /\ j \in Nat /\ i + 2 < j /\ j <= Len(text)
      BY <1>1, <1>2, <1>10 DEF Span
    <2>2. ~IsDollar(i, j) /\ ~IsNumber(i, j)
      BY <1>1, <2>1, FirstChar DEF Digits
    <2>3. PICK b \in Nat : b = j - 2
      BY <1>1, <2>1
    <2>4. AllIn(i, i + 1, {"'"})
      <3>1. \A k \in i .. i + 1 : k = i \/ k = i + 1
        BY <1>1
      <3> QED
        BY <1>1, <3>1 DEF AllIn
    <2>5. AllIn(j - 1, j, {"'"}) <=> text[b + 1] = "'" /\ text[b + 2] = "'"
      <3>1. j - 1 = b + 1 /\ j = b + 2
        BY <2>1, <2>3
      <3>2. \A k : k \in b + 1 .. b + 2 <=> k = b + 1 \/ k = b + 2
        OBVIOUS
      <3> QED
        BY <3>1, <3>2 DEF AllIn
    <2>6. ~IsCharOf(i + 1, j - 1)
      BY <1>1, NoQuote
    <2>7. IsLiteral(i, j) <=> text[b + 1] = "'" /\ text[b + 2] = "'" /\ IsBody(p, b)
      BY <1>2, <2>1, <2>3, <2>4, <2>5, <2>6 DEF IsLiteral
    <2>8. j = to - 1 => IsLiteral(i, j)
      <3>1. j = to - 1 => b + 1 = to - 2 /\ b + 2 = to - 1 /\ b = to - 3
        BY <2>3
      <3> QED
        BY <1>9, <2>7, <3>1 DEF Closed
    <2>9. IsLiteral(i, j) => j = to - 1
      <3> SUFFICES ASSUME IsLiteral(i, j) PROVE j < to
        OBVIOUS
      <3>1. PICK cuts \in SUBSET (p .. b + 1) : p \in cuts /\ Cut(cuts, b)
        BY <2>7 DEF IsBody, Cut
      <3>2. cuts \in SUBSET (1 .. b + 1)
        <4>1. p .. b + 1 \subseteq 1 .. b + 1
          BY <1>1, <1>2
        <4> QED
          BY <4>1
      <3>3. b + 2 <= Len(text) /\ b + 2 = j
        BY <2>1, <2>3
      <3>4. b + 2 < to
        BY <1>9, <2>7, <3>1, <3>2, <3>3 DEF Closed
      <3> QED
        BY <3>3, <3>4
    <2> QED
      BY <2>2, <2>8, <2>9
  <1>12. Right(i, to, "simple")
    <2>1. i < to
      BY <1>1, <1>2, <1>10
    <2> QED
      BY <1>1, <1>8, <1>11, <2>1, SimpleRight
  <1> QED
    BY <1>6, <1>7, <1>12

-----------------------------------------------------------------------------
(* The longest match *)

(* Every token without errors that ends on its line is the longest one. *)
LEMMA TokenRight ==
  ASSUME TextOK, NEW i, Starts(i), TokenAt(i).errs = {},
         TokenAt(i).to <= Len(text), NoneIn(i, TokenAt(i).to - 1, {"eos"})
  PROVE  Right(i, TokenAt(i).to, TokenAt(i).kind)
  <1> DEFINE c == Char(i)
             marks == {"*", "cap", "+", "-", "|", ".", ":", "<", ">", "=", "in", "@", "up",
                       "neg", "wedge"}
  <1>1. c \in Alphabet /\ c \notin {"eos", Blank, "!"} \cup Illegal
    <2>1. i \in Nat /\ 1 <= i /\ c \notin {"eos", "eop", Blank, "!"} \cup Illegal
      BY DEF Starts
    <2>2. i \in 1 .. Len(text)
      BY <2>1, CharFacts
    <2> QED
      BY <2>1, <2>2, CharFacts
  <1>2. CASE c \in Openers \cup Closers \cup marks
    BY <1>2, MarkRight
  <1>3. CASE c \in Letters
    BY <1>3, WordRight
  <1>4. CASE c = Quote
    BY <1>4, QuotedRight
  <1>5. CASE c = "$"
    BY <1>5, DollarRight
  <1>6. CASE c = "#"
    BY <1>6, HexRight
  <1>7. CASE c \in Digits
    <2>1. PICK w : w = After(i, isDecimalChar)
      OBVIOUS
    <2>2. CASE Char(w) = "#"
      BY <1>7, <2>1, <2>2, RadixRight
    <2>3. CASE Char(w) = "." /\ nextNextChar(w) \in isDecimalChar
      BY <1>7, <2>1, <2>3, RealRight
    <2>4. CASE Char(w) # "#" /\ ~(Char(w) = "." /\ nextNextChar(w) \in isDecimalChar)
      BY <1>7, <2>1, <2>4, WholeRight
    <2> QED
      BY <2>2, <2>3, <2>4
  <1>8. CASE c = "'"
    BY <1>8, CharRight, StringRight
  <1>9. CASE c = "?"
    <2>1. TokenAt(i).errs = {"hook"}
      BY <1>9, TokenArms DEF nextHook, Token
    <2> QED
      BY <2>1
  <1> QED
    BY <1>1, <1>2, <1>3, <1>4, <1>5, <1>6, <1>7, <1>8, <1>9 DEF Alphabet, Symbols, Letters

(* The last token, if it has a spelling, is the longest match at its place. *)
Longest(t, from) ==
  (/\ t.kind # "newline" /\ t.errs = {}
   /\ t.to <= Len(text) /\ NoneIn(from, t.to - 1, {"eos"}))
  => /\ Lexemes(from, t.to - 1) = {t.kind}
     /\ \A j \in t.to .. Len(text) : NoneIn(t.to, j, {"eos"}) => Lexemes(from, j) = {}

(* So it is with every token that NEXT TOKEN may read. *)
LEMMA TokenLongest ==
  ASSUME TextOK, NEW i, Starts(i), NEW t, t = TokenAt(i)
  PROVE  Longest(t, i)
  <1> SUFFICES ASSUME t.errs = {}, t.to <= Len(text), NoneIn(i, t.to - 1, {"eos"})
               PROVE  /\ Lexemes(i, t.to - 1) = {t.kind}
                      /\ \A j \in t.to .. Len(text) : NoneIn(t.to, j, {"eos"}) => Lexemes(i, j) = {}
    BY DEF Longest
  <1>1. PICK to, kind : to = t.to /\ kind = t.kind
    OBVIOUS
  <1>2. Right(i, to, kind)
    BY <1>1, TokenRight
  <1>3. /\ i \in Nat /\ 1 <= i /\ Len(text) \in Nat /\ to \in Nat /\ i < to /\ to <= Len(text)
        /\ kind \in LexemeKinds
    BY <1>2, CharFacts DEF Starts, Right
  <1>4. ASSUME NEW k \in LexemeKinds, NEW j \in to - 1 .. Len(text), NoneIn(i, j, {"eos"})
        PROVE  IsLexeme(k, i, j) <=> k = kind /\ j = to - 1
    BY <1>2, <1>4 DEF Right
  <1>5. Lexemes(i, to - 1) = {kind}
    <2>1. to - 1 \in to - 1 .. Len(text) /\ NoneIn(i, to - 1, {"eos"})
      BY <1>1, <1>3
    <2>2. \A k \in LexemeKinds : IsLexeme(k, i, to - 1) <=> k = kind
      BY <1>4, <2>1
    <2> QED
      BY <1>3, <2>2 DEF Lexemes
  <1>6. ASSUME NEW j \in to .. Len(text), NoneIn(to, j, {"eos"}) PROVE Lexemes(i, j) = {}
    <2>1. j \in to - 1 .. Len(text) /\ j # to - 1
      BY <1>3
    <2>2. \A k \in i .. j : k \in i .. to - 1 \/ k \in to .. j
      BY <1>3
    <2>3. NoneIn(i, to - 1, {"eos"})
      BY <1>1
    <2>4. NoneIn(i, j, {"eos"})
      BY <1>6, <2>2, <2>3 DEF NoneIn
    <2>5. \A k \in LexemeKinds : ~IsLexeme(k, i, j)
      BY <1>4, <2>1, <2>4
    <2> QED
      BY <2>5 DEF Lexemes
  <1> QED
    BY <1>1, <1>5, <1>6

(* As long as the file stays the same, so do its lexemes. *)
LEMMA SameLexemes ==
  ASSUME text' = text
  PROVE  \A i, j : Lexemes(i, j)' = Lexemes(i, j) /\ NoneIn(i, j, {"eos"})' = NoneIn(i, j, {"eos"})
  <1>1. \A i, j : Chars(i, j)' = Chars(i, j)
    BY DEF Chars, Char
  <1>2. \A i, j : Spelling(i, j)' = Spelling(i, j)
    BY <1>1 DEF Spelling
  <1>3. \A i, j : IsWord(i, j)' <=> IsWord(i, j)
    BY DEF IsWord, AllIn
  <1>4. \A i, j : IsQuoted(i, j)' <=> IsQuoted(i, j)
    BY DEF IsQuoted, NoneIn
  <1>5. \A i, j : IsName(i, j)' <=> IsName(i, j)
    BY <1>2, <1>3, <1>4 DEF IsName
  <1>6. \A i, j : IsDollar(i, j)' <=> IsDollar(i, j)
    BY <1>5 DEF IsDollar
  <1>7. \A i, j, radix : IsDigits(i, j, radix)' <=> IsDigits(i, j, radix)
    BY DEF IsDigits, AllIn
  <1>8. \A i, j : IsDecimal(i, j)' <=> IsDecimal(i, j)
    BY <1>7 DEF IsDecimal
  <1>9. \A i, j : IsHex(i, j)' <=> IsHex(i, j)
    BY <1>7 DEF IsHex
  <1>10. \A i, j : IsRadix(i, j)' <=> IsRadix(i, j)
    BY <1>1, <1>7, <1>8 DEF IsRadix
  <1>11. \A i, j : IsScale(i, j)' <=> IsScale(i, j)
    BY <1>7 DEF IsScale
  <1>12. \A i, j : IsReal(i, j)' <=> IsReal(i, j)
    BY <1>8, <1>11 DEF IsReal, AllIn
  <1>13. \A i, j : IsNumber(i, j)' <=> IsNumber(i, j)
    BY <1>8, <1>9, <1>10, <1>12 DEF IsNumber
  <1>14. \A i, j : IsHexChar(i, j)' <=> IsHexChar(i, j)
    BY <1>7 DEF IsHexChar
  <1>15. \A i, j : IsCharOf(i, j)' <=> IsCharOf(i, j)
    BY <1>14 DEF IsCharOf
  <1>16. \A i, j : IsPart(i, j)' <=> IsPart(i, j)
    BY <1>15 DEF IsPart
  <1>17. \A i, j : IsBody(i, j)' <=> IsBody(i, j)
    BY <1>16 DEF IsBody
  <1>18. \A i, j : IsLiteral(i, j)' <=> IsLiteral(i, j)
    BY <1>15, <1>17 DEF IsLiteral, AllIn
  <1>19. \A k, i, j : IsLexeme(k, i, j)' <=> IsLexeme(k, i, j)
    BY <1>2, <1>5, <1>6, <1>13, <1>18 DEF IsLexeme
  <1>20. \A i, j : Lexemes(i, j)' = Lexemes(i, j)
    BY <1>19 DEF Lexemes
  <1>21. \A i, j : NoneIn(i, j, {"eos"})' = NoneIn(i, j, {"eos"})
    BY DEF NoneIn
  <1> QED
    BY <1>20, <1>21

(* What holds of the last token stays true as long as it is the last one. *)
LEMMA SameLongest ==
  ASSUME text' = text
  PROVE  \A t, from : Longest(t, from) => Longest(t, from)'
  BY SameLexemes DEF Longest

(* A step reads a token, or an end of line, or leaves the tokens alone. *)
LEMMA MatchNext ==
  ASSUME LineInv, LongestMatch, [Next]_vars
  PROVE  LongestMatch'
  <1>1. text' = text
    BY DEF Next, vars, ReadToken, nextEndOfLine, nextBlank, nextComment, nextIllegal,
           nextEndOfProgram
  <1>2. TextOK /\ at \in Nat /\ at >= 1 /\ \E S : tokens \in Seq(S)
    BY DEF LineInv
  <1>3. ASSUME NEW e, tokens' = Append(tokens, e), Longest(e, e.from) PROVE LongestMatch'
    <2>1. tokens'[Len(tokens')] = e
      BY <1>2, <1>3, EmitFacts
    <2>2. LastToken' = e
      BY <2>1 DEF LastToken
    <2>3. \A t, from : Longest(t, from) => Longest(t, from)'
      BY <1>1, SameLongest
    <2>4. Longest(e, e.from)'
      BY <1>3, <2>3
    <2> QED
      BY <2>2, <2>4 DEF LongestMatch, Longest
  <1>4. CASE ReadToken
    <2>1. PICK t : t = TokenAt(at)
      OBVIOUS
    <2>2. Starts(at)
      BY <1>2, <1>4 DEF ReadToken, Starts
    <2>3. Longest(t, at)
      BY <1>2, <2>1, <2>2, TokenLongest
    <2>4. PICK e : e = [kind |-> t.kind, from |-> at, to |-> t.to, word |-> t.word, errs |-> t.errs]
      OBVIOUS
    <2>5. tokens' = Append(tokens, e)
      BY <1>4, <2>1, <2>4 DEF ReadToken, Emit, TokenAt
    <2>6. Longest(e, e.from)
      BY <2>3, <2>4 DEF Longest
    <2> QED
      BY <1>3, <2>5, <2>6
  <1>5. CASE nextEndOfLine /\ ends
    <2>1. PICK e : e = [kind |-> "newline", from |-> at, to |-> at + 1, word |-> <<>>, errs |-> {}]
      OBVIOUS
    <2>2. tokens' = Append(tokens, e)
      BY <1>5, <2>1 DEF nextEndOfLine, Emit, Token
    <2>3. Longest(e, e.from)
      BY <2>1 DEF Longest
    <2> QED
      BY <1>3, <2>2, <2>3
  <1>6. CASE tokens' = tokens
    <2>1. LastToken' = LastToken
      BY <1>6 DEF LastToken
    <2>2. tokens # <<>> => Longest(LastToken, LastToken.from)
      BY DEF LongestMatch, Longest
    <2>3. \A t, from : Longest(t, from) => Longest(t, from)'
      BY <1>1, SameLongest
    <2>4. tokens # <<>> => Longest(LastToken, LastToken.from)'
      <3>1. PICK t : t = LastToken
        OBVIOUS
      <3>2. tokens # <<>> => Longest(t, t.from)'
        BY <2>2, <2>3, <3>1
      <3> QED
        BY <2>1, <3>1, <3>2 DEF Longest
    <2> QED
      BY <1>6, <2>4 DEF LongestMatch, Longest
  <1>7. nextEndOfLine /\ ~ends => tokens' = tokens
    BY DEF nextEndOfLine
  <1>8. nextBlank \/ nextComment \/ nextIllegal \/ nextEndOfProgram \/ UNCHANGED vars => tokens' = tokens
    BY DEF nextBlank, nextComment, nextIllegal, nextEndOfProgram, vars
  <1> QED
    BY <1>4, <1>5, <1>6, <1>7, <1>8 DEF Next

(* Every token that is read without an error and ends on its line is a       *)
(* lexeme of its kind, and the longest one at its place: the functions that  *)
(* read the kinds of tokens, which look at most two chars ahead, agree with  *)
(* the spellings, for every file.                                            *)
THEOREM LongestMatchRight == Spec => []LongestMatch
  <1>1. Init => LineInv /\ LongestMatch
    <2>1. Init => tokens = <<>>
      BY DEF Init
    <2> QED
      BY <2>1, LineInit DEF LongestMatch
  <1>2. LineInv /\ [Next]_vars => LineInv'
    BY LineStep
  <1>3. LineInv /\ LongestMatch /\ [Next]_vars => LongestMatch'
    BY MatchNext
  <1> QED
    BY <1>1, <1>2, <1>3, PTL DEF Spec
=============================================================================
