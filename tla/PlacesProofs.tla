----------------------------- MODULE PlacesProofs -----------------------------
(***************************************************************************)
(* Char counts are unique, a file that is loaded in the middle of another  *)
(* one leaves no trace, and every error is written below the char that was *)
(* blamed for it, for any files, any width of the two fields of a char     *)
(* count, and any nesting of LOAD clauses.                                 *)
(***************************************************************************)
EXTENDS Places, Lemmas

-----------------------------------------------------------------------------
(* Two's complement *)

Half == Span * MaxFile

(* The constants that the lemmas on numbers need. *)
LEMMA HalfFacts ==
  /\ Span \in Nat \ {0} /\ MaxFile \in Nat \ {0} /\ Half \in Nat /\ Half >= Span
  /\ \A n \in Int : Int32(n) = ((n + Half) % (2 * Half)) - Half
  <1>1. Span \in Nat \ {0} /\ MaxFile \in Nat \ {0}
    BY PlacesAssumption
  <1>2. Half \in Nat /\ Half >= Span
    BY <1>1 DEF Half
  <1>3. 2 * Span * MaxFile = 2 * Half
    BY <1>1 DEF Half
  <1> QED
    BY <1>1, <1>2, <1>3 DEF Int32, Half

(* An int that fits stays, and one that is too large by less than the     *)
(* number of ints wraps once.                                             *)
LEMMA Int32Facts ==
  ASSUME NEW n \in Int
  PROVE  /\ -Half <= n /\ n < Half => Int32(n) = n
         /\ Half <= n /\ n < 3 * Half => Int32(n) = n - 2 * Half
         /\ Int32(n) \in Int
  <1> DEFINE H == Half
             m == n + H
             d == 2 * H
  <1>0. H \in Nat /\ H >= 1 /\ Int32(n) = (m % d) - H
    BY HalfFacts
  <1> HIDE DEF H
  <1>1. m \in Int /\ d \in Nat \ {0}
    BY <1>0
  <1>2. m % d \in Int
    BY <1>1
  <1>3. ASSUME 0 <= m, m < d PROVE m % d = m
    BY <1>1, <1>3
  <1>4. ASSUME d <= m, m < 2 * d PROVE m % d = m - d
    BY <1>1, <1>4
  <1>5. -H <= n /\ n < H => Int32(n) = n
    BY <1>0, <1>3
  <1>6. H <= n /\ n < 3 * H => Int32(n) = n - 2 * H
    BY <1>0, <1>4
  <1> QED
    BY <1>0, <1>2, <1>5, <1>6 DEF H

(* Counting on from an int that wrapped is counting on from the number. *)
LEMMA CountingOn ==
  ASSUME NEW x \in Nat, NEW k \in Nat, x + k <= 2 * Half
  PROVE  Int32(Int32(x) + k) = Int32(x + k)
  <1>0. Half \in Nat /\ Half >= 1 /\ x + k \in Int /\ x + k < 3 * Half
    BY HalfFacts
  <1>1. CASE x < Half
    BY <1>0, <1>1, Int32Facts
  <1>2. CASE x >= Half
    <2>1. Int32(x) = x - 2 * Half
      BY <1>0, <1>2, Int32Facts
    <2>2. Int32(x) + k \in Int /\ -Half <= Int32(x) + k /\ Int32(x) + k < Half
      BY <1>0, <1>2, <2>1
    <2>3. Int32(Int32(x) + k) = Int32(x) + k
      BY <2>2, Int32Facts
    <2>4. Int32(x + k) = x + k - 2 * Half
      BY <1>0, <1>2, Int32Facts
    <2> QED
      BY <1>0, <2>1, <2>3, <2>4
  <1> QED
    BY <1>0, <1>1, <1>2

(* Numbers that lie within one turn of an int wrap to different ints. *)
LEMMA Int32Injective ==
  ASSUME NEW x \in Int, NEW y \in Int, Int32(x) = Int32(y),
         1 <= x, x <= 2 * Half, 1 <= y, y <= 2 * Half
  PROVE  x = y
  <1>0. Half \in Nat /\ Half >= 1
    BY HalfFacts
  <1>1. /\ x < Half => Int32(x) = x
        /\ x >= Half => Int32(x) = x - 2 * Half
    BY <1>0, Int32Facts
  <1>2. /\ y < Half => Int32(y) = y
        /\ y >= Half => Int32(y) = y - 2 * Half
    BY <1>0, Int32Facts
  <1> QED
    BY <1>0, <1>1, <1>2

Number == 0 .. MaxFile     (* of a file                                      *)
Offset == 1 .. Span        (* of a char in its file                          *)

(* The chars of a file with a number have a range of char counts for themselves. *)
LEMMA NumberTimesSpan ==
  ASSUME NEW n \in Number
  PROVE  n * Span \in Nat /\ n * Span <= Half /\ n * Span + Span <= 2 * Half
  <1>1. n \in Nat /\ MaxFile \in Nat /\ Span \in Nat /\ n <= MaxFile
    BY HalfFacts DEF Number
  <1>2. n * Span \in Nat /\ n * Span <= MaxFile * Span
    BY <1>1
  <1>3. MaxFile * Span = Half
    BY <1>1 DEF Half
  <1> QED
    BY <1>1, <1>2, <1>3, HalfFacts

(* The two fields of a char count can be told apart. *)
LEMMA FieldsUnique ==
  ASSUME NEW m \in Number, NEW n \in Number, NEW j \in Offset, NEW k \in Offset,
         m * Span + j = n * Span + k
  PROVE  m = n /\ j = k
  <1>1. /\ m \in Nat /\ n \in Nat /\ Span \in Nat
        /\ j \in Nat /\ k \in Nat /\ 1 <= j /\ j <= Span /\ 1 <= k /\ k <= Span
    BY HalfFacts DEF Number, Offset
  <1>2. ASSUME NEW a \in Nat, NEW b \in Nat, a < b
        PROVE  a * Span + Span <= b * Span
    <2>1. a + 1 <= b /\ b - a - 1 \in Nat
      BY <1>2
    <2>2. (b - a - 1) * Span >= 0
      BY <1>1, <2>1
    <2> QED
      BY <1>1, <2>2
  <1>3. ~(m < n) /\ ~(n < m)
    <2>1. m * Span \in Nat /\ n * Span \in Nat
      BY <1>1
    <2> QED
      BY <1>1, <1>2, <2>1
  <1> QED
    BY <1>1, <1>3

(* The count of the char at offset K of the file with the number N. *)
LEMMA CharCounts ==
  ASSUME NEW n \in Number
  PROVE  /\ MakeCharCount(n) \in Int
         /\ \A k \in Offset : Int32(MakeCharCount(n) + k) = Int32(n * Span + k)
  <1>1. n * Span \in Nat /\ n * Span + Span <= 2 * Half
    BY NumberTimesSpan
  <1>2. ASSUME NEW k \in Offset
        PROVE  Int32(MakeCharCount(n) + k) = Int32(n * Span + k)
    <2>1. k \in Nat /\ n * Span + k <= 2 * Half
      BY <1>1, HalfFacts DEF Offset
    <2> QED
      BY <1>1, <2>1, CountingOn DEF MakeCharCount
  <1> QED
    BY <1>1, <1>2, Int32Facts DEF MakeCharCount

(* A char count is enough to tell the file and the char. *)
LEMMA CountsTellChars ==
  ASSUME NEW m \in Number, NEW n \in Number, NEW j \in Offset, NEW k \in Offset,
         Int32(MakeCharCount(m) + j) = Int32(MakeCharCount(n) + k)
  PROVE  m = n /\ j = k
  <1>1. Int32(m * Span + j) = Int32(n * Span + k)
    BY CharCounts
  <1>2. /\ m * Span \in Nat /\ m * Span + Span <= 2 * Half
        /\ n * Span \in Nat /\ n * Span + Span <= 2 * Half
    BY NumberTimesSpan
  <1>3. /\ m * Span + j \in Int /\ 1 <= m * Span + j /\ m * Span + j <= 2 * Half
        /\ n * Span + k \in Int /\ 1 <= n * Span + k /\ n * Span + k <= 2 * Half
    BY <1>2, HalfFacts DEF Offset
  <1> QED
    BY <1>1, <1>3, Int32Injective, FieldsUnique

(* The char counted after the one at offset K. *)
LEMMA NextCount ==
  ASSUME NEW n \in Number, NEW k \in Nat, k < Span
  PROVE  /\ k + 1 \in Offset
         /\ Int32(Int32(MakeCharCount(n) + k) + 1) = Int32(MakeCharCount(n) + (k + 1))
  <1>1. n * Span \in Nat /\ n * Span + Span <= 2 * Half
    BY NumberTimesSpan
  <1>2. Int32(MakeCharCount(n) + k) = Int32(n * Span + k)
    BY <1>1, HalfFacts, CountingOn DEF MakeCharCount
  <1>3. Int32(Int32(n * Span + k) + 1) = Int32(n * Span + k + 1)
    BY <1>1, HalfFacts, CountingOn
  <1>4. k + 1 \in Offset
    BY HalfFacts DEF Offset
  <1>5. Int32(MakeCharCount(n) + (k + 1)) = Int32(n * Span + (k + 1))
    BY <1>4, CharCounts
  <1>6. n * Span + k + 1 = n * Span + (k + 1)
    BY <1>1
  <1> QED
    BY <1>2, <1>3, <1>4, <1>5, <1>6

-----------------------------------------------------------------------------
(* Readers *)

Byte == {Letter, Illegal, Apostrophe, Newline}
Char == {Letter, Apostrophe, Newline, Blank, EosChar, EopChar}

Reader == [path : Path, at : Nat, row : Nat, line : Seq(Char), taken : Nat,
           open : BOOLEAN, old : Int]

AtEnd(r) == r.line = <<EopChar, EosChar>>

(* A line with an apostrophe is a line of a file that has one. *)
QuotedLine(r) ==
  (\E i \in 1 .. Len(r.line) : r.line[i] = Apostrophe) => Quoted(text[r.path])

(***************************************************************************)
(* A reader that has read O chars has read no more of them than bytes, but *)
(* for the EOS CHAR of a ragged line, for the EOP CHAR, and for the two    *)
(* chars behind it if the last line may have ended with an apostrophe.     *)
(***************************************************************************)
Reads(r, o) ==
  LET bytes == text[r.path]
      extra == IF Ragged(bytes) THEN 1 ELSE 0
  IN /\ r \in Reader
     /\ r.at <= Len(bytes)
     /\ r.taken <= Len(r.line)
     /\ QuotedLine(r)
     /\ r.open => Quoted(bytes)
     /\ \/ /\ AtEnd(r)
           /\ r.at = Len(bytes)
           /\ \/ r.taken = 1 /\ o <= Len(bytes) + extra + 1
              \/ r.taken = 2 /\ r.open /\ o <= Len(bytes) + extra + 2
              \/ r.taken = 1 /\ ~r.open /\ Quoted(bytes) /\ o <= Len(bytes) + extra + 3
        \/ /\ \A i \in 1 .. Len(r.line) : r.line[i] # EopChar
           /\ o + Len(r.line) - r.taken <= r.at + (IF r.at < Len(bytes) THEN 0 ELSE extra)

(* There is a char to go on with. *)
GoesOn(r) == AtEnd(r) /\ r.taken = 1 => r.open

(* The text of a file is a finite sequence of bytes. *)
LEMMA TextFacts ==
  ASSUME text \in Texts, NEW p \in Path
  PROVE  text[p] \in Seq(Byte) /\ Len(text[p]) \in Nat /\ DOMAIN text[p] = 1 .. Len(text[p])
  <1>1. text[p] \in Seq(Byte)
    BY PlacesAssumption DEF Byte
  <1> QED
    BY <1>1, LenProperties

(* Where the line ends that a reader with bytes left is to read. *)
LEMMA LineEnds ==
  ASSUME text \in Texts, NEW r \in Reader, r.at < Len(text[r.path])
  PROVE  LET N == Len(text[r.path])
             e == EndOfLine(r)
         IN /\ e \in Nat /\ r.at + 1 <= e /\ e <= N + 1
            /\ e = N + 1 => Ragged(text[r.path])
  <1> DEFINE N == Len(text[r.path])
             left == { i \in r.at + 1 .. N : text[r.path][i] = Newline }
  <1>0. /\ r.at \in Nat /\ N \in Nat /\ text[r.path] \in Seq(Byte)
        /\ DOMAIN text[r.path] = 1 .. N
    BY TextFacts DEF Reader
  <1>1. CASE left = {}
    <2>1. EndOfLine(r) = N + 1
      BY <1>1 DEF EndOfLine
    <2>2. text[r.path][N] # Newline
      BY <1>0, <1>1
    <2>3. text[r.path] # <<>>
      BY <1>0
    <2> QED
      BY <1>0, <2>1, <2>2, <2>3 DEF Ragged
  <1>2. CASE left # {}
    <2>1. left \subseteq Nat
      BY <1>0
    <2>2. \E i \in left : \A j \in left : i <= j
      BY <1>2, <2>1, LeastMember
    <2>3. EndOfLine(r) \in left
      BY <1>2, <2>2 DEF EndOfLine
    <2> QED
      BY <1>0, <2>3
  <1> QED
    BY <1>1, <1>2

(* NEXT LINE, when there are bytes left: it takes as many bytes as it gives *)
(* chars, or more, but for a ragged line.                                   *)
LEMMA NextLineReads ==
  ASSUME text \in Texts, NEW r \in Reader, r.at < Len(text[r.path]), NEW room \in Nat
  PROVE  LET s == NextLine(r, room)
             N == Len(text[r.path])
             extra == IF Ragged(text[r.path]) THEN 1 ELSE 0
         IN /\ s \in Reader
            /\ s.path = r.path /\ s.old = r.old /\ s.taken = 0 /\ s.at <= N
            /\ Len(s.line) >= 1
            /\ s.open = EndsOpen(r.line) /\ QuotedLine(s)
            /\ \A i \in 1 .. Len(s.line) : s.line[i] # EopChar
            /\ r.at + Len(s.line) <= s.at + (IF s.at < N THEN 0 ELSE extra)
  <1> DEFINE s == NextLine(r, room)
             N == Len(text[r.path])
             e == EndOfLine(r)
             raw == Raw(r)
             n == IF Len(raw) < room THEN Len(raw) ELSE room
             kept == [ i \in 1 .. n |-> IF raw[i] = Illegal THEN Blank ELSE raw[i] ]
  <1>0. /\ r.at \in Nat /\ N \in Nat /\ text[r.path] \in Seq(Byte)
        /\ \A i \in 1 .. N : text[r.path][i] \in Byte
        /\ r.row \in Nat /\ r.path \in Path /\ r.old \in Int
    BY TextFacts, ElementOfSeq DEF Reader
  <1>1. /\ e \in Nat /\ r.at + 1 <= e /\ e <= N + 1
        /\ e = N + 1 => Ragged(text[r.path])
    BY LineEnds
  <1>2. /\ raw \in Seq(Byte) /\ Len(raw) = e - 1 - r.at
        /\ \A i \in 1 .. Len(raw) : \E k \in 1 .. N : raw[i] = text[r.path][k]
    <2>1. raw = SubSeq(text[r.path], r.at + 1, e - 1)
      BY DEF Raw
    <2>2. \A i \in r.at + 1 .. e - 1 : text[r.path][i] \in Byte
      BY <1>0, <1>1
    <2>3. r.at + 1 \in Int /\ e - 1 \in Int
      BY <1>0, <1>1
    <2> HIDE DEF e, raw
    <2>4. /\ SubSeq(text[r.path], r.at + 1, e - 1) \in Seq(Byte)
          /\ Len(SubSeq(text[r.path], r.at + 1, e - 1)) =
               IF r.at + 1 <= e - 1 THEN (e - 1) - (r.at + 1) + 1 ELSE 0
          /\ \A i \in 1 .. (e - 1) - (r.at + 1) + 1 :
               SubSeq(text[r.path], r.at + 1, e - 1)[i] = text[r.path][r.at + 1 + i - 1]
      BY <2>2, <2>3, SubSeqProperties
    <2>5. raw \in Seq(Byte) /\ Len(raw) = e - 1 - r.at
      BY <1>0, <1>1, <2>1, <2>4
    <2>6. ASSUME NEW i \in 1 .. Len(raw)
          PROVE  \E k \in 1 .. N : raw[i] = text[r.path][k]
      <3>1. /\ i \in 1 .. (e - 1) - (r.at + 1) + 1
            /\ r.at + 1 + i - 1 \in 1 .. N
        <4>1. PICK l, k : l = Len(raw) /\ k = r.at
          OBVIOUS
        <4>2. l = e - 1 - k /\ i \in 1 .. l /\ k \in Nat /\ e \in Nat /\ e <= N + 1 /\ N \in Nat
          BY <1>0, <1>1, <2>5, <4>1
        <4>3. i \in 1 .. (e - 1) - (k + 1) + 1 /\ k + 1 + i - 1 \in 1 .. N
          BY ONLY <4>2
        <4> QED
          BY <4>1, <4>3
      <3> QED
        BY <2>1, <2>4, <3>1
    <2> QED
      BY <2>5, <2>6
  <1>3. n \in Nat /\ n <= Len(raw)
    BY <1>2, LenProperties
  <1>4. /\ kept \in Seq(Char) /\ Len(kept) = n
        /\ \A i \in 1 .. n : kept[i] # EopChar
        /\ \A i \in 1 .. n : kept[i] = Apostrophe => Quoted(text[r.path])
    <2>1. \A i \in 1 .. n : raw[i] \in Byte
      BY <1>2, <1>3, ElementOfSeq
    <2>2. \A i \in 1 .. n : kept[i] \in Char /\ kept[i] # EopChar
      BY <2>1 DEF Byte, Char, Letter, Illegal, Apostrophe, Newline, Blank, EopChar
    <2>0. ASSUME NEW i \in 1 .. n, kept[i] = Apostrophe
          PROVE  Quoted(text[r.path])
      <3>1. kept[i] = (IF raw[i] = Illegal THEN Blank ELSE raw[i])
        OBVIOUS
      <3>2. raw[i] = Apostrophe
        BY <2>0, <3>1 DEF Apostrophe, Blank
      <3>3. i \in 1 .. Len(raw)
        <4> PICK l, m : l = Len(raw) /\ m = n
          OBVIOUS
        <4> HIDE DEF n, raw
        <4> QED
          BY <1>2, <1>3, LenProperties
      <3>4. PICK k \in 1 .. N : raw[i] = text[r.path][k]
        <4> HIDE DEF N, n, raw
        <4> QED
          BY <1>2, <3>3
      <3> QED
        BY <1>0, <3>2, <3>4, TextFacts DEF Quoted
    <2> HIDE DEF n
    <2>3. kept \in [1 .. n -> Char]
      BY <2>2
    <2>4. kept \in Seq(Char)
      BY <1>3, <2>3, SeqDef
    <2>5. Len(kept) = n
      BY <1>3, <2>3, <2>4, LenProperties
    <2>6. \A i \in 1 .. n : kept[i] = Apostrophe => Quoted(text[r.path])
      BY <2>0
    <2>7. \A i \in 1 .. n : kept[i] # EopChar
      BY <2>2
    <2> HIDE DEF kept
    <2> QED
      BY <2>4, <2>5, <2>6, <2>7
  <1> DEFINE at == IF e > N THEN N ELSE e
             row == r.row + 1
             line == Append(kept, EosChar)
             extra == IF Ragged(text[r.path]) THEN 1 ELSE 0
             open == EndsOpen(r.line)
  <1>5. s = [r EXCEPT !.at = at, !.row = row, !.line = line, !.taken = 0, !.open = open]
    <2>1. r.at # N
      BY <1>0
    <2> QED
      BY <2>1 DEF NextLine
  <1>6. /\ line \in Seq(Char)
        /\ Len(line) = n + 1
        /\ \A i \in 1 .. n + 1 : line[i] # EopChar
        /\ \A i \in 1 .. n + 1 : line[i] = Apostrophe => Quoted(text[r.path])
    <2>1. EosChar \in Char /\ EosChar # EopChar /\ EosChar # Apostrophe
      BY DEF Char, EosChar, EopChar, Apostrophe
    <2> HIDE DEF kept, n
    <2> QED
      BY <1>3, <1>4, <2>1, AppendProperties
  <1>7. at \in Nat /\ at <= N /\ row \in Nat /\ open \in BOOLEAN
    BY <1>0, <1>1 DEF EndsOpen
  <1>8. r.at + n + 1 <= at + (IF at < N THEN 0 ELSE extra)
    <2>1. r.at + n + 1 <= e
      BY <1>0, <1>1, <1>2, <1>3
    <2> HIDE DEF N, e, n
    <2>2. CASE e = N + 1
      <3>1. extra = 1 /\ at = N
        BY <1>0, <1>1, <2>2
      <3> HIDE DEF extra, at
      <3> QED
        BY <1>0, <1>3, <2>1, <2>2, <3>1
    <2>3. CASE e # N + 1
      <3>1. at = e /\ extra \in Nat
        BY <1>0, <1>1, <2>3
      <3> HIDE DEF extra, at
      <3> QED
        BY <1>0, <1>1, <1>3, <2>1, <3>1
    <2> QED
      BY <2>2, <2>3
  <1> HIDE DEF s, e, raw, n, kept, at, row, line, extra, open
  <1>9. /\ s \in Reader
        /\ s.path = r.path /\ s.old = r.old /\ s.taken = 0
        /\ s.at = at /\ s.line = line /\ s.open = open
    BY <1>5, <1>6, <1>7 DEF Reader
  <1>10. Len(s.line) = n + 1 /\ r.at + Len(s.line) = r.at + n + 1
    <2>1. Len(s.line) = n + 1
      BY <1>6, <1>9
    <2>2. r.at \in Nat /\ n \in Nat
      BY <1>0, <1>3
    <2> QED
      BY ONLY <2>1, <2>2
  <1>11. /\ r.at + Len(s.line) <= s.at + (IF s.at < N THEN 0 ELSE extra)
         /\ s.at <= N /\ Len(s.line) >= 1
    BY <1>3, <1>7, <1>8, <1>9, <1>10
  <1>12. QuotedLine(s)
    BY <1>6, <1>9, <1>10 DEF QuotedLine
  <1> QED
    BY <1>6, <1>9, <1>10, <1>11, <1>12 DEF s, extra, open

(* NEXT LINE at the end of the bytes. *)
LEMMA LastLineReads ==
  ASSUME text \in Texts, NEW r \in Reader, r.at = Len(text[r.path]), NEW room \in Nat
  PROVE  LET s == NextLine(r, room)
         IN /\ s \in Reader
            /\ s.path = r.path /\ s.old = r.old /\ s.taken = 0 /\ s.at = r.at
            /\ AtEnd(s) /\ s.open = EndsOpen(r.line) /\ QuotedLine(s)
  <1> DEFINE s == NextLine(r, room)
             N == Len(text[r.path])
  <1>0. /\ r.at \in Nat /\ N \in Nat
        /\ r.row \in Nat /\ r.path \in Path /\ r.old \in Int
    BY TextFacts DEF Reader
  <1>1. EndOfLine(r) = N + 1
    <2>1. { i \in r.at + 1 .. N : text[r.path][i] = Newline } = {}
      BY <1>0
    <2> QED
      BY <2>1 DEF EndOfLine
  <1> DEFINE row == r.row + 1
             line == <<EopChar, EosChar>>
             open == EndsOpen(r.line)
  <1>2. s = [r EXCEPT !.at = N, !.row = row, !.line = line, !.taken = 0, !.open = open]
    <2>1. Append(<<EopChar>>, EosChar) = line
      <3>1. <<EopChar>> \in Seq(Char) /\ EosChar \in Char /\ line \in Seq(Char)
        BY DEF Char
      <3>2. /\ Append(<<EopChar>>, EosChar) \in Seq(Char)
            /\ Len(Append(<<EopChar>>, EosChar)) = 2
            /\ Append(<<EopChar>>, EosChar)[1] = EopChar
            /\ Append(<<EopChar>>, EosChar)[2] = EosChar
        BY <3>1
      <3>3. Len(line) = 2 /\ line[1] = EopChar /\ line[2] = EosChar
        OBVIOUS
      <3> DEFINE u == Append(<<EopChar>>, EosChar)
      <3> HIDE DEF u, line
      <3>4. \A i \in 1 .. Len(u) : u[i] = line[i]
        BY <3>2, <3>3 DEF u
      <3>5. Len(u) = Len(line)
        BY <3>2, <3>3 DEF u
      <3>6. u \in Seq(Char)
        BY <3>2 DEF u
      <3>7. u = line
        BY <3>1, <3>4, <3>5, <3>6, SeqEqual
      <3> QED
        BY <3>7 DEF u
    <2>2. (IF N + 1 > N THEN N ELSE N + 1) = N
      BY <1>0
    <2> HIDE DEF line
    <2> QED
      BY <1>1, <2>1, <2>2 DEF NextLine
  <1>3. line \in Seq(Char) /\ row \in Nat /\ open \in BOOLEAN
    <2>1. EopChar \in Char /\ EosChar \in Char
      BY DEF Char
    <2> QED
      BY <1>0, <2>1 DEF EndsOpen
  <1>4. N \in Nat
    BY <1>0
  <1>6. ~\E i \in 1 .. Len(line) : line[i] = Apostrophe
    <2>1. Len(line) = 2 /\ line[1] = EopChar /\ line[2] = EosChar
      OBVIOUS
    <2> HIDE DEF line
    <2> QED
      BY <2>1 DEF EopChar, EosChar, Apostrophe
  <1> HIDE DEF s, line, row, N, open
  <1>5. /\ s \in Reader
        /\ s.path = r.path /\ s.old = r.old /\ s.taken = 0 /\ s.at = N /\ s.line = line
        /\ s.open = open
    BY <1>2, <1>3, <1>4 DEF Reader
  <1> QED
    BY <1>5, <1>6 DEF AtEnd, QuotedLine, s, line, N, open

(* What NEXT CHAR does to a reader that goes on. *)
LEMMA NextCharReads ==
  ASSUME text \in Texts, NEW r, NEW o \in Nat, Reads(r, o), GoesOn(r), NEW room \in Nat
  PROVE  LET s == NextChar(r, room)
         IN Reads(s, o + 1) /\ s.path = r.path /\ s.old = r.old
  <1> DEFINE N == Len(text[r.path])
             extra == IF Ragged(text[r.path]) THEN 1 ELSE 0
             s == NextChar(r, room)
  <1>0. /\ r \in Reader /\ r.path \in Path /\ r.at \in Nat /\ r.taken \in Nat
        /\ r.line \in Seq(Char) /\ Len(r.line) \in Nat /\ r.taken <= Len(r.line)
        /\ N \in Nat /\ r.at <= N /\ extra \in 0 .. 1
        /\ QuotedLine(r) /\ (r.open => Quoted(text[r.path])) /\ r.open \in BOOLEAN
    <2>1. /\ r \in Reader /\ r.at <= N /\ r.taken <= Len(r.line)
          /\ QuotedLine(r) /\ (r.open => Quoted(text[r.path]))
      BY DEF Reads
    <2>2. r.path \in Path /\ r.at \in Nat /\ r.taken \in Nat /\ r.line \in Seq(Char)
          /\ r.open \in BOOLEAN
      BY <2>1 DEF Reader
    <2> QED
      BY <2>1, <2>2, TextFacts, LenProperties
  <1>5. CASE AtEnd(r)
    <2>0. Len(r.line) = 2 /\ r.line[1] = EopChar /\ ~EndsOpen(r.line)
      BY <1>5 DEF AtEnd, EndsOpen, EopChar, Apostrophe
    <2>1. /\ r.at = N
          /\ \/ r.taken = 1 /\ o <= N + extra + 1
             \/ r.taken = 2 /\ r.open /\ o <= N + extra + 2
             \/ r.taken = 1 /\ ~r.open /\ Quoted(text[r.path]) /\ o <= N + extra + 3
      <3>1. ~\A i \in 1 .. Len(r.line) : r.line[i] # EopChar
        BY <2>0
      <3> QED
        BY <3>1 DEF Reads
    <2> HIDE DEF N, extra
    <2>2. CASE r.taken = 1
      <3>1. s = [r EXCEPT !.taken = 2]
        BY <2>0, <2>2 DEF NextChar
      <3>2. r.open /\ o <= N + extra + 1
        BY <1>0, <1>5, <2>1, <2>2 DEF GoesOn
      <3> HIDE DEF s
      <3>3. /\ s \in Reader /\ s.path = r.path /\ s.at = r.at /\ s.line = r.line
            /\ s.old = r.old /\ s.taken = 2 /\ s.open = r.open
        BY <1>0, <3>1 DEF Reader
      <3>4. o + 1 <= N + extra + 2
        BY <1>0, <3>2
      <3>5. AtEnd(s) /\ QuotedLine(s)
        BY <1>0, <1>5, <3>3 DEF AtEnd, QuotedLine
      <3>6. s.at <= N /\ s.taken <= Len(s.line) /\ (s.open => Quoted(text[s.path]))
        <4>1. s.at <= N
          BY <1>0, <3>3
        <4>2. s.taken <= Len(s.line)
          <5>1. s.taken = 2 /\ Len(s.line) = 2
            BY <2>0, <3>3
          <5> QED
            BY ONLY <5>1
        <4>3. s.open => Quoted(text[s.path])
          BY <1>0, <3>3
        <4> QED
          BY <4>1, <4>2, <4>3
      <3>7. s.taken = 2 /\ s.open /\ s.at = N /\ o + 1 <= N + extra + 2
        BY <2>1, <3>2, <3>3, <3>4
      <3>8. Reads(s, o + 1)
        BY <3>3, <3>5, <3>6, <3>7 DEF Reads, N, extra
      <3> QED
        BY <3>3, <3>8 DEF s
    <2>3. CASE r.taken # 1
      <3>1. r.taken = 2 /\ r.open /\ o <= N + extra + 2
        BY <2>1, <2>3
      <3> DEFINE t == NextLine(r, room)
      <3>2. s = [t EXCEPT !.taken = @ + 1]
        BY <2>0, <3>1 DEF NextChar
      <3>3. /\ t \in Reader
            /\ t.path = r.path /\ t.old = r.old /\ t.taken = 0 /\ t.at = r.at
            /\ AtEnd(t) /\ t.open = EndsOpen(r.line) /\ QuotedLine(t)
        BY <1>0, <2>1, LastLineReads DEF N
      <3> HIDE DEF s, t
      <3>4. /\ s \in Reader /\ s.path = r.path /\ s.at = r.at /\ s.line = t.line
            /\ s.old = r.old /\ s.taken = 1 /\ s.open = t.open
        BY <3>2, <3>3 DEF Reader
      <3>5. AtEnd(s) /\ QuotedLine(s) /\ s.taken <= Len(s.line)
        BY <3>3, <3>4 DEF AtEnd, QuotedLine
      <3>6. o + 1 <= N + extra + 3 /\ ~s.open /\ Quoted(text[r.path])
        <4>1. o + 1 <= N + extra + 3
          BY <1>0, <3>1
        <4> QED
          BY <1>0, <2>0, <3>1, <3>3, <3>4, <4>1
      <3>7. Reads(s, o + 1)
        BY <1>0, <2>1, <3>3, <3>4, <3>5, <3>6 DEF Reads, N, extra
      <3> QED
        BY <3>3, <3>4, <3>7 DEF s
    <2> QED
      BY <2>2, <2>3
  <1> SUFFICES ASSUME ~AtEnd(r)
               PROVE  Reads(s, o + 1) /\ s.path = r.path /\ s.old = r.old
    BY <1>5
  <1>1. /\ \A i \in 1 .. Len(r.line) : r.line[i] # EopChar
        /\ o + Len(r.line) - r.taken <= r.at + (IF r.at < N THEN 0 ELSE extra)
    BY DEF Reads
  <1>2. CASE r.taken < Len(r.line)
    <2>1. s = [r EXCEPT !.taken = @ + 1]
      BY <1>0, <1>2 DEF NextChar
    <2> HIDE DEF s, N, extra
    <2>2. /\ s \in Reader /\ s.path = r.path /\ s.at = r.at /\ s.line = r.line
          /\ s.old = r.old /\ s.taken = r.taken + 1 /\ s.open = r.open
      BY <1>0, <2>1 DEF Reader
    <2>3. o + 1 + Len(r.line) - (r.taken + 1) = o + Len(r.line) - r.taken
      <3>1. \A a, b, c \in Nat : a + 1 + b - (c + 1) = a + b - c
        OBVIOUS
      <3> QED
        BY <1>0, <3>1
    <2>4. s.taken <= Len(s.line)
      BY <1>0, <1>2, <2>2
    <2>5. o + 1 + Len(s.line) - s.taken <= s.at + (IF s.at < N THEN 0 ELSE extra)
      BY <1>1, <2>2, <2>3
    <2>6. QuotedLine(s)
      BY <1>0, <2>2 DEF QuotedLine
    <2> QED
      BY <1>0, <1>1, <2>2, <2>4, <2>5, <2>6 DEF Reads, s, N, extra
  <1>3. CASE r.taken = Len(r.line)
    <2> DEFINE t == NextLine(r, room)
    <2>0. EndsOpen(r.line) => Quoted(text[r.path])
      <3>1. EndsOpen(r.line) => Len(r.line) - 1 \in 1 .. Len(r.line)
        BY <1>0 DEF EndsOpen
      <3> QED
        BY <1>0, <3>1 DEF EndsOpen, QuotedLine
    <2>1. s = [t EXCEPT !.taken = @ + 1]
      BY <1>3 DEF NextChar
    <2>2. o <= r.at + (IF r.at < N THEN 0 ELSE extra)
      <3> HIDE DEF N, extra
      <3> QED
        BY <1>0, <1>1, <1>3
    <2>3. CASE r.at < N
      <3>1. /\ t \in Reader
            /\ t.path = r.path /\ t.old = r.old /\ t.taken = 0 /\ t.at <= N
            /\ Len(t.line) >= 1
            /\ t.open = EndsOpen(r.line) /\ QuotedLine(t)
            /\ \A i \in 1 .. Len(t.line) : t.line[i] # EopChar
            /\ r.at + Len(t.line) <= t.at + (IF t.at < N THEN 0 ELSE extra)
        BY <1>0, <2>3, NextLineReads
      <3> HIDE DEF s, t
      <3>2. /\ s \in Reader /\ s.path = r.path /\ s.at = t.at /\ s.line = t.line
            /\ s.old = r.old /\ s.taken = 1 /\ s.open = t.open
        BY <2>1, <3>1 DEF Reader
      <3>3. Len(t.line) \in Nat /\ t.at \in Nat
        BY <3>1, LenProperties DEF Reader
      <3> HIDE DEF N, extra
      <3>4. o + 1 + Len(s.line) - s.taken <= s.at + (IF s.at < N THEN 0 ELSE extra)
        <4> DEFINE more == IF t.at < N THEN 0 ELSE extra
        <4>1. o <= r.at
          BY <1>0, <2>2, <2>3
        <4>2. r.at + Len(t.line) <= t.at + more /\ more \in Nat
          BY <1>0, <3>1 DEF N, extra
        <4>3. s.at = t.at /\ s.line = t.line /\ s.taken = 1
          BY <3>2
        <4>4. (IF s.at < N THEN 0 ELSE extra) = more
          BY <4>3
        <4> HIDE DEF more
        <4>5. o + 1 + Len(t.line) - 1 <= t.at + more
          <5>1. o \in Nat /\ r.at \in Nat /\ Len(t.line) \in Nat /\ t.at \in Nat
            BY <1>0, <3>3
          <5>2. \A a, b, c, d, e \in Nat : a <= b /\ b + c <= d + e => a + 1 + c - 1 <= d + e
            OBVIOUS
          <5> QED
            BY <4>1, <4>2, <5>1, <5>2
        <4> QED
          BY <4>3, <4>4, <4>5
      <3>5. s.taken <= Len(s.line) /\ s.at <= N
        BY <3>1, <3>2 DEF N
      <3>6. QuotedLine(s)
        BY <3>1, <3>2 DEF QuotedLine
      <3> QED
        BY <2>0, <3>1, <3>2, <3>4, <3>5, <3>6 DEF Reads, s, N, extra
    <2>4. CASE r.at = N
      <3>1. /\ t \in Reader
            /\ t.path = r.path /\ t.old = r.old /\ t.taken = 0 /\ t.at = r.at
            /\ AtEnd(t) /\ t.open = EndsOpen(r.line) /\ QuotedLine(t)
        BY <1>0, <2>4, LastLineReads
      <3> HIDE DEF s, t
      <3>2. /\ s \in Reader /\ s.path = r.path /\ s.at = r.at /\ s.line = t.line
            /\ s.old = r.old /\ s.taken = 1 /\ s.open = t.open
        BY <2>1, <3>1 DEF Reader
      <3>3. AtEnd(s) /\ s.taken <= Len(s.line) /\ QuotedLine(s)
        BY <3>1, <3>2 DEF AtEnd, QuotedLine
      <3>4. o + 1 <= N + extra + 1
        <4> HIDE DEF N, extra
        <4> QED
          BY <1>0, <2>2, <2>4
      <3> QED
        BY <1>0, <2>0, <2>4, <3>1, <3>2, <3>3, <3>4 DEF Reads, s
    <2> QED
      BY <1>0, <2>3, <2>4
  <1> QED
    BY <1>0, <1>2, <1>3

(* A file that READ OPEN takes does not outgrow its field of offsets. *)
LEMMA OffsetsFit ==
  ASSUME text \in Texts, RoomForEnds, NEW r, NEW o \in Nat, Reads(r, o), ~IsTooBig(r.path)
  PROVE  o <= Span /\ (GoesOn(r) => o < Span)
  <1> DEFINE N == Len(text[r.path])
             extra == IF Ragged(text[r.path]) THEN 1 ELSE 0
  <1>0. r.path \in Path /\ r.at \in Nat /\ r.taken \in Nat /\ Len(r.line) \in Nat
    BY LenProperties DEF Reads, Reader
  <1>1. N \in Nat /\ N < Span /\ Span \in Nat
    <2>1. N \in Nat /\ Span \in Nat
      BY <1>0, TextFacts, HalfFacts
    <2>2. ~(N >= Span)
      BY DEF IsTooBig
    <2> QED
      BY <2>1, <2>2
  <1>2. /\ extra \in 0 .. 1 /\ N + extra + 1 <= Span
        /\ Quoted(text[r.path]) => N + extra + 3 <= Span
    <2>1. N >= Span \/ N + extra + (IF Quoted(text[r.path]) THEN 3 ELSE 1) <= Span
      BY <1>0 DEF RoomForEnds, RoomFor
    <2>2. extra \in 0 .. 1
      OBVIOUS
    <2> HIDE DEF N, extra
    <2> QED
      BY <1>1, <2>1, <2>2
  <1>3. \/ AtEnd(r) /\ r.taken = 1 /\ ~r.open /\ o <= N + extra + 1
        \/ Quoted(text[r.path]) /\ o <= N + extra + 2
        \/ AtEnd(r) /\ r.taken = 1 /\ ~r.open /\ Quoted(text[r.path]) /\ o <= N + extra + 3
        \/ o <= N + extra
    <2>1. CASE /\ AtEnd(r)
               /\ \/ r.taken = 1 /\ o <= N + extra + 1
                  \/ r.taken = 2 /\ r.open /\ o <= N + extra + 2
                  \/ r.taken = 1 /\ ~r.open /\ Quoted(text[r.path]) /\ o <= N + extra + 3
      <3>1. r.open => Quoted(text[r.path])
        BY DEF Reads
      <3>2. o <= N + extra + 1 => o <= N + extra + 2
        <4>1. N \in Nat /\ extra \in Nat
          BY <1>1, <1>2
        <4> HIDE DEF N, extra
        <4> QED
          BY <4>1
      <3> HIDE DEF N, extra
      <3> QED
        BY <2>1, <3>1, <3>2
    <2>2. CASE o + Len(r.line) - r.taken <= r.at + (IF r.at < N THEN 0 ELSE extra)
      <3>1. r.at <= N /\ r.taken <= Len(r.line)
        BY DEF Reads
      <3> HIDE DEF N, extra
      <3>2. CASE r.at < N
        BY <1>0, <1>1, <1>2, <2>2, <3>1, <3>2
      <3>3. CASE ~(r.at < N)
        BY <1>0, <1>1, <1>2, <2>2, <3>1, <3>3
      <3> QED
        BY <3>2, <3>3
    <2> QED
      BY <2>1, <2>2 DEF Reads
  <1> HIDE DEF N, extra
  <1> QED
    BY <1>1, <1>2, <1>3 DEF GoesOn

-----------------------------------------------------------------------------
(***************************************************************************)
(* The inductive invariant.                                                *)
(***************************************************************************)

(* The files that LOAD ORSON was called for. *)
OrsonFiles == { i \in DOMAIN files : files[i].path \notin CFile }

(* The char count at which a call of LOAD ORSON has read its last char. *)
CountAt(m) == IF m = Len(loads) THEN charCount ELSE loads[m + 1].old

PlacesTyped ==
  /\ text \in Texts
  /\ files \in Seq([path : Path, count : Int])
  /\ fileCount \in -1 .. MaxFile
  /\ stage = "loading" => charCount \in Int
  /\ loads \in Seq(Reader)

(* Every file has a number, and no two have the same. *)
FilesNumbered ==
  /\ \A i \in OrsonFiles : \E n \in 0 .. fileCount : files[i].count = MakeCharCount(n)
  /\ \A i, j \in OrsonFiles : files[i].count = files[j].count => i = j

(* Only chars of files were read. *)
SeenNumbered ==
  \A e \in seen : \E i \in OrsonFiles, k \in Offset : e[1] = Int32(files[i].count + k)

(* The call M has read O chars of file I, was counted right, and no char of *)
(* the file behind them was read.                                           *)
Located(m, i, o) ==
  /\ files[i].path = loads[m].path
  /\ ~IsTooBig(loads[m].path)
  /\ Reads(loads[m], o)
  /\ CountAt(m) = Int32(files[i].count + o)
  /\ <<CountAt(m), Spot(loads[m])>> \in seen
  /\ \A e \in seen : \A k \in Offset : e[1] = Int32(files[i].count + k) => k <= o

(* No file is loaded twice, so calls that wait for another one wait for *)
(* another file.                                                        *)
LoadsLocated ==
  stage = "loading" =>
    /\ \A m \in DOMAIN loads : \E i \in OrsonFiles, o \in Offset : Located(m, i, o)
    /\ \A m, n \in DOMAIN loads : loads[m].path = loads[n].path => m = n

PlacesInv ==
  PlacesTyped /\ FilesNumbered /\ SeenNumbered /\ LoadsLocated /\ CountsUnique

(* The count of an Orson file is that of some file number so far. *)
LEMMA CountNumbered ==
  ASSUME PlacesTyped, FilesNumbered, NEW i \in OrsonFiles
  PROVE  \E n \in Number : n <= fileCount /\ files[i].count = MakeCharCount(n)
  <1>1. PICK n \in 0 .. fileCount : files[i].count = MakeCharCount(n)
    BY DEF FilesNumbered
  <1>2. fileCount \in -1 .. MaxFile /\ MaxFile \in Nat
    BY HalfFacts DEF PlacesTyped
  <1>3. n \in Number /\ n <= fileCount
    <2>1. fileCount \in Int /\ fileCount <= MaxFile
      BY <1>2
    <2> QED
      BY <1>2, <2>1 DEF Number
  <1> QED
    BY <1>1, <1>3

(* A char count is found in one file, and at one offset. *)
LEMMA CountsTellFiles ==
  ASSUME PlacesTyped, FilesNumbered,
         NEW i \in OrsonFiles, NEW j \in OrsonFiles, NEW k \in Offset, NEW l \in Offset,
         Int32(files[i].count + k) = Int32(files[j].count + l)
  PROVE  i = j /\ k = l
  <1>1. PICK m \in Number : files[i].count = MakeCharCount(m)
    BY CountNumbered
  <1>2. PICK n \in Number : files[j].count = MakeCharCount(n)
    BY CountNumbered
  <1>3. m = n /\ k = l
    BY <1>1, <1>2, CountsTellChars
  <1> QED
    BY <1>1, <1>2, <1>3 DEF FilesNumbered

(* READ takes the next char of a reader that was counted right. *)
LEMMA ReadFacts ==
  ASSUME text \in Texts, RoomForEnds, NEW n \in Number, NEW count, NEW under,
         NEW r, NEW o \in Nat, Reads(r, o), GoesOn(r), ~IsTooBig(r.path),
         o = 0 => count = MakeCharCount(n),
         o # 0 => count = Int32(MakeCharCount(n) + o),
         Read(r, count, under)
  PROVE  LET s == NextChar(r, LoadRoom)
         IN /\ o + 1 \in Offset
            /\ Reads(s, o + 1) /\ s.path = r.path /\ s.old = r.old
            /\ charCount' = Int32(MakeCharCount(n) + (o + 1)) /\ charCount' \in Int
            /\ loads' = Append(under, s)
            /\ seen' = seen \cup {<<charCount', Spot(s)>>}
  <1>1. o < Span /\ o + 1 \in Offset
    <2>1. o < Span
      BY OffsetsFit
    <2> QED
      BY <2>1, NextCount
  <1>2. LoadRoom \in Nat
    BY PlacesAssumption DEF LoadRoom
  <1>3. MakeCharCount(n) \in Int
    BY CharCounts
  <1>4. Int32(count + 1) = Int32(MakeCharCount(n) + (o + 1))
    <2>1. CASE o = 0
      BY <2>1
    <2>2. CASE o # 0
      BY <1>1, <2>2, NextCount
    <2> QED
      BY <2>1, <2>2
  <1>5. Int32(MakeCharCount(n) + (o + 1)) \in Int
    BY <1>3, Int32Facts
  <1>6. /\ charCount' = Int32(count + 1)
        /\ loads' = Append(under, NextChar(r, LoadRoom))
        /\ seen' = seen \cup {<<Int32(count + 1), Spot(NextChar(r, LoadRoom))>>}
    BY DEF Read
  <1> QED
    BY <1>1, <1>2, <1>4, <1>5, <1>6, NextCharReads

(* No file, and no char that was read, is numbered anew. *)
LEMMA NumbersStay ==
  ASSUME FilesNumbered, SeenNumbered, CountsUnique,
         OrsonFiles' = OrsonFiles,
         \A i \in OrsonFiles : files'[i] = files[i],
         fileCount' = fileCount, seen' = seen
  PROVE  FilesNumbered' /\ SeenNumbered' /\ CountsUnique'
  <1>1. FilesNumbered'
    BY DEF FilesNumbered, MakeCharCount, Int32
  <1>2. SeenNumbered'
    BY DEF SeenNumbered, Int32
  <1>3. CountsUnique'
    BY DEF CountsUnique
  <1> QED
    BY <1>1, <1>2, <1>3

(* A call that waits stays where it is, while no char of its file is read. *)
LEMMA LocatedStays ==
  ASSUME NEW m, NEW i, NEW o, Located(m, i, o),
         text' = text, loads'[m] = loads[m], CountAt(m)' = CountAt(m), files'[i] = files[i],
         seen \subseteq seen',
         \A e \in seen' \ seen : \A k \in Offset : e[1] # Int32(files[i].count + k)
  PROVE  Located(m, i, o)'
  <1>1. /\ files'[i].path = loads'[m].path
        /\ ~IsTooBig(loads[m].path)'
        /\ Reads(loads[m], o)'
        /\ CountAt(m)' = Int32(files'[i].count + o)
    BY DEF Located, Reads, QuotedLine, IsTooBig, Int32
  <1>2. <<CountAt(m)', Spot(loads'[m])>> \in seen'
    BY DEF Located, Spot
  <1>3. \A e \in seen' : \A k \in Offset : e[1] = Int32(files'[i].count + k) => k <= o
    BY DEF Located
  <1> QED
    BY <1>1, <1>2, <1>3 DEF Located, Int32, Spot

(* Steps that read no char and return to no call. *)
LEMMA OtherSteps ==
  ASSUME PlacesInv,
         UNCHANGED <<text, files, fileCount, seen>>,
         \/ UNCHANGED <<charCount, loads>> /\ (stage' = "loading" => stage = "loading")
         \/ loads' \in Seq(Reader) /\ stage' # "loading"
  PROVE  PlacesInv'
  <1>1. PlacesTyped'
    BY DEF PlacesInv, PlacesTyped
  <1>2. OrsonFiles' = OrsonFiles
    BY DEF OrsonFiles
  <1>3. FilesNumbered' /\ SeenNumbered' /\ CountsUnique'
    BY <1>2, NumbersStay DEF PlacesInv
  <1>4. LoadsLocated'
    <2>1. CASE stage' = "loading"
      <3>1. stage = "loading" /\ UNCHANGED <<charCount, loads>>
        BY <2>1
      <3>2. ASSUME NEW m \in DOMAIN loads
            PROVE  \E i \in OrsonFiles, o \in Offset : Located(m, i, o)'
        <4>1. PICK i \in OrsonFiles, o \in Offset : Located(m, i, o)
          BY <3>1 DEF PlacesInv, LoadsLocated
        <4>2. CountAt(m)' = CountAt(m)
          BY <3>1 DEF CountAt
        <4>3. Located(m, i, o)'
          BY <3>1, <4>1, <4>2, LocatedStays
        <4> QED
          BY <4>3
      <3> QED
        BY <1>2, <2>1, <3>1, <3>2 DEF PlacesInv, LoadsLocated
    <2> QED
      BY <2>1 DEF LoadsLocated
  <1> QED
    BY <1>1, <1>3, <1>4 DEF PlacesInv

(* A C file is loaded: it takes no char counts. *)
LEMMA StepLoadC ==
  ASSUME PlacesInv, NEW path \in Path, LoadC(path)
  PROVE  PlacesInv'
  <1> DEFINE f == [path |-> path, count |-> 0]
  <1>1. /\ files \in Seq([path : Path, count : Int]) /\ f \in [path : Path, count : Int]
        /\ files' = Append(files, f)
    BY DEF PlacesInv, PlacesTyped, LoadC
  <1>2. /\ files' \in Seq([path : Path, count : Int])
        /\ DOMAIN files' = DOMAIN files \cup {Len(files) + 1}
        /\ Len(files) + 1 \notin DOMAIN files
        /\ \A i \in DOMAIN files : files'[i] = files[i]
        /\ files'[Len(files) + 1] = f
    <2>1. Len(files') = Len(files) + 1 /\ Len(files) \in Nat
      BY <1>1
    <2> QED
      BY <1>1, <2>1
  <1>3. OrsonFiles' = OrsonFiles /\ \A i \in OrsonFiles : files'[i] = files[i]
    BY <1>2 DEF OrsonFiles, LoadC
  <1>4. FilesNumbered' /\ SeenNumbered' /\ CountsUnique'
    BY <1>3, NumbersStay DEF PlacesInv, LoadC, history
  <1>5. PlacesTyped'
    BY <1>2 DEF PlacesInv, PlacesTyped, LoadC
  <1>6. LoadsLocated'
    <2>1. UNCHANGED <<text, charCount, loads, seen, stage>> /\ stage = "loading"
      BY DEF LoadC, history
    <2>2. ASSUME NEW m \in DOMAIN loads
          PROVE  \E i \in OrsonFiles, o \in Offset : Located(m, i, o)'
      <3>1. PICK i \in OrsonFiles, o \in Offset : Located(m, i, o)
        BY <2>1 DEF PlacesInv, LoadsLocated
      <3>2. CountAt(m)' = CountAt(m)
        BY <2>1 DEF CountAt
      <3>3. Located(m, i, o)'
        BY <1>3, <2>1, <3>1, <3>2, LocatedStays
      <3> QED
        BY <3>3
    <2> QED
      BY <1>3, <2>1, <2>2 DEF PlacesInv, LoadsLocated
  <1> QED
    BY <1>4, <1>5, <1>6 DEF PlacesInv

(* The calls that wait for the last one. *)
LEMMA Waiting ==
  ASSUME PlacesTyped, loads # <<>>
  PROVE  LET under == SubSeq(loads, 1, Len(loads) - 1)
         IN /\ Len(loads) \in Nat \ {0} /\ Len(under) = Len(loads) - 1
            /\ DOMAIN loads = 1 .. Len(loads)
            /\ under \in Seq(Reader) /\ DOMAIN under = 1 .. Len(loads) - 1
            /\ \A m \in DOMAIN under : m \in DOMAIN loads /\ under[m] = loads[m]
            /\ Top \in Reader /\ Top.old \in Int
            /\ Len(loads) \in DOMAIN loads
  <1> DEFINE n == Len(loads)
             under == SubSeq(loads, 1, n - 1)
  <1>1. loads \in Seq(Reader) /\ n \in Nat /\ n # 0 /\ DOMAIN loads = 1 .. n
    BY EmptySeq, LenProperties DEF PlacesTyped
  <1>2. n - 1 \in Nat /\ n - 1 <= n
    BY <1>1
  <1>3. /\ under \in Seq(Reader) /\ Len(under) = n - 1
        /\ \A m \in 1 .. n - 1 : under[m] = loads[m]
    BY <1>1, <1>2, SubSeqProperties
  <1>4. Top \in Reader /\ n \in DOMAIN loads
    BY <1>1 DEF Top
  <1>5. Top.old \in Int
    BY <1>4 DEF Reader
  <1>6. DOMAIN under = 1 .. n - 1
    BY <1>3
  <1> HIDE DEF under
  <1> QED
    BY <1>1, <1>3, <1>4, <1>5, <1>6 DEF under

(* A file ends, and the char count of the file around it is taken up *)
(* again.                                                            *)
LEMMA StepEndOfFile ==
  ASSUME PlacesInv, EndOfFile
  PROVE  PlacesInv'
  <1> DEFINE n == Len(loads)
             under == SubSeq(loads, 1, n - 1)
  <1>1. /\ stage = "loading" /\ loads # <<>> /\ charCount' = Top.old /\ loads' = under
        /\ UNCHANGED <<text, files, fileCount, seen, stage>>
    BY DEF EndOfFile, history
  <1>2. /\ n \in Nat \ {0} /\ Len(under) = n - 1
        /\ DOMAIN loads = 1 .. n
        /\ under \in Seq(Reader) /\ DOMAIN under = 1 .. n - 1
        /\ \A m \in DOMAIN under : m \in DOMAIN loads /\ under[m] = loads[m]
        /\ Top.old \in Int
    BY <1>1, Waiting DEF PlacesInv
  <1> HIDE DEF under
  <1>3. PlacesTyped'
    BY <1>1, <1>2 DEF PlacesInv, PlacesTyped
  <1>4. OrsonFiles' = OrsonFiles
    BY <1>1 DEF OrsonFiles
  <1>5. FilesNumbered' /\ SeenNumbered' /\ CountsUnique'
    BY <1>1, <1>4, NumbersStay DEF PlacesInv
  <1>6. LoadsLocated'
    <2>1. ASSUME NEW m \in DOMAIN under
          PROVE  \E i \in OrsonFiles, o \in Offset : Located(m, i, o)'
      <3>1. PICK i \in OrsonFiles, o \in Offset : Located(m, i, o)
        BY <1>1, <1>2 DEF PlacesInv, LoadsLocated
      <3>2. CountAt(m)' = CountAt(m)
        <4>1. CASE m = n - 1
          <5>1. CountAt(m)' = Top.old
            BY <1>1, <1>2, <4>1 DEF CountAt
          <5>2. CountAt(m) = loads[m + 1].old /\ m + 1 = n
            BY <1>2, <4>1 DEF CountAt
          <5> QED
            BY <5>1, <5>2 DEF Top
        <4>2. CASE m # n - 1
          <5>1. m + 1 \in DOMAIN under /\ m # n
            BY <1>2, <4>2
          <5>2. CountAt(m)' = under[m + 1].old
            BY <1>1, <1>2, <4>2 DEF CountAt
          <5> QED
            BY <1>2, <5>1, <5>2 DEF CountAt
        <4> QED
          BY <4>1, <4>2
      <3>3. Located(m, i, o)'
        BY <1>1, <1>2, <3>1, <3>2, LocatedStays
      <3> QED
        BY <3>3
    <2>2. \A k, m \in DOMAIN under : under[k].path = under[m].path => k = m
      BY <1>1, <1>2 DEF PlacesInv, LoadsLocated
    <2> QED
      BY <1>1, <1>4, <2>1, <2>2 DEF LoadsLocated
  <1> QED
    BY <1>3, <1>5, <1>6 DEF PlacesInv

(* A char is read: the count it gets was given to no other char. *)
LEMMA StepReadChar ==
  ASSUME RoomForEnds, PlacesInv, ReadChar
  PROVE  PlacesInv'
  <1>0. PICK n : n = Len(loads)
    OBVIOUS
  <1> DEFINE under == SubSeq(loads, 1, n - 1)
             s == NextChar(Top, LoadRoom)
             c == charCount'
  <1>1. /\ stage = "loading" /\ loads # <<>> /\ (Ch(Top) = EopChar => Top.open)
        /\ Read(Top, charCount, under)
        /\ UNCHANGED <<text, files, fileCount, stage>>
    BY <1>0 DEF ReadChar
  <1>2. /\ n \in Nat \ {0} /\ Len(under) = n - 1
        /\ DOMAIN loads = 1 .. n /\ n \in DOMAIN loads
        /\ under \in Seq(Reader) /\ DOMAIN under = 1 .. n - 1
        /\ \A m \in DOMAIN under : m \in DOMAIN loads /\ under[m] = loads[m]
    BY <1>0, <1>1, Waiting DEF PlacesInv
  <1>3. PICK i \in OrsonFiles, o \in Offset : Located(n, i, o)
    BY <1>1, <1>2 DEF PlacesInv, LoadsLocated
  <1>4. PICK f \in Number : files[i].count = MakeCharCount(f)
    BY CountNumbered DEF PlacesInv
  <1>5. /\ o + 1 \in Offset
        /\ Reads(s, o + 1) /\ s.path = Top.path /\ s.old = Top.old
        /\ c = Int32(files[i].count + (o + 1)) /\ c \in Int
        /\ loads' = Append(under, s)
        /\ seen' = seen \cup {<<c, Spot(s)>>}
    <2>1. o \in Nat /\ o # 0
      BY HalfFacts DEF Offset
    <2>2. charCount = Int32(MakeCharCount(f) + o) /\ Reads(Top, o) /\ ~IsTooBig(Top.path)
      BY <1>0, <1>3, <1>4 DEF Located, CountAt, Top
    <2>3. GoesOn(Top)
      <3> SUFFICES ASSUME AtEnd(Top), Top.taken = 1 PROVE Top.open
        BY DEF GoesOn
      <3>1. Top.line[1] = EopChar
        BY DEF AtEnd
      <3> QED
        BY <1>1, <3>1 DEF Ch
    <2>4. text \in Texts
      BY DEF PlacesInv, PlacesTyped
    <2> HIDE DEF under
    <2> QED
      BY <1>1, <1>4, <2>1, <2>2, <2>3, <2>4, ReadFacts
  <1> HIDE DEF under, s, c
  <1>6. /\ loads' \in Seq(Reader) /\ Len(loads') = n /\ DOMAIN loads' = DOMAIN loads
        /\ loads'[n] = s
        /\ \A m \in DOMAIN loads : m # n => loads'[m] = loads[m]
    <2>1. s \in Reader
      BY <1>5 DEF Reads
    <2>2. loads' \in Seq(Reader) /\ Len(loads') = (n - 1) + 1 /\ loads'[(n - 1) + 1] = s
      BY <1>2, <1>5, <2>1, AppendProperties
    <2>3. \A m \in DOMAIN under : loads'[m] = under[m]
      BY <1>2, <1>5, <2>1, AppendProperties
    <2>4. (n - 1) + 1 = n /\ \A m \in 1 .. n : m # n => m \in 1 .. n - 1
      BY <1>2
    <2> QED
      BY <1>2, <2>2, <2>3, <2>4, LenProperties
  <1>7. OrsonFiles' = OrsonFiles
    BY <1>1 DEF OrsonFiles
  <1>8. PlacesTyped'
    BY <1>1, <1>5, <1>6 DEF PlacesInv, PlacesTyped, c
  <1>9. FilesNumbered'
    BY <1>1, <1>7 DEF PlacesInv, FilesNumbered, MakeCharCount, Int32
  <1>10. \A e \in seen : e[1] # c
    <2> SUFFICES ASSUME NEW e \in seen, e[1] = c PROVE FALSE
      OBVIOUS
    <2>1. o + 1 <= o
      BY <1>3, <1>5 DEF Located
    <2> QED
      BY <2>1 DEF Offset
  <1>11. SeenNumbered'
    <2>1. \A e \in seen' : \E j \in OrsonFiles, k \in Offset : e[1] = Int32(files[j].count + k)
      BY <1>5 DEF PlacesInv, SeenNumbered
    <2> QED
      BY <1>1, <1>7, <2>1 DEF SeenNumbered, Int32
  <1>12. CountsUnique'
    BY <1>5, <1>10 DEF PlacesInv, CountsUnique
  <1>13. LoadsLocated'
    <2>1. ASSUME NEW m \in DOMAIN loads, m # n
          PROVE  \E j \in OrsonFiles, k \in Offset : Located(m, j, k)'
      <3>1. PICK j \in OrsonFiles, k \in Offset : Located(m, j, k)
        BY <1>1 DEF PlacesInv, LoadsLocated
      <3>2. i # j
        <4>1. loads[m].path # loads[n].path
          BY <1>1, <1>2, <2>1 DEF PlacesInv, LoadsLocated
        <4> QED
          BY <1>3, <3>1, <4>1 DEF Located
      <3>3. \A e \in seen' \ seen : \A l \in Offset : e[1] # Int32(files[j].count + l)
        BY <1>5, <3>2, CountsTellFiles DEF PlacesInv
      <3>4. CountAt(m)' = CountAt(m)
        <4>1. m + 1 \in DOMAIN loads /\ loads'[m + 1].old = loads[m + 1].old
          BY <1>0, <1>2, <1>5, <1>6, <2>1 DEF Top
        <4> QED
          BY <1>0, <1>6, <2>1, <4>1 DEF CountAt
      <3>5. Located(m, j, k)'
        <4>1. seen \subseteq seen'
          BY <1>5
        <4> QED
          BY <1>1, <1>6, <2>1, <3>1, <3>3, <3>4, <4>1, LocatedStays
      <3> QED
        BY <3>5
    <2>2. Located(n, i, o + 1)'
      <3>1. /\ files'[i] = files[i] /\ text' = text /\ loads'[n] = s
            /\ s.path = loads[n].path /\ files[i].path = loads[n].path
            /\ ~IsTooBig(loads[n].path)
        BY <1>0, <1>1, <1>3, <1>5, <1>6 DEF Located, Top
      <3>2. CountAt(n)' = c
        BY <1>6 DEF CountAt, c
      <3>3. ~IsTooBig(loads[n].path)' /\ Reads(loads[n], o + 1)'
        BY <1>5, <3>1 DEF IsTooBig, Reads, QuotedLine
      <3>4. \A e \in seen' : \A k \in Offset :
              e[1] = Int32(files[i].count + k) => k <= o + 1
        <4> TAKE e \in seen'
        <4> TAKE k \in Offset
        <4>1. k \in Nat /\ o \in Nat
          BY HalfFacts DEF Offset
        <4>2. CASE e \in seen
          BY <1>3, <4>1, <4>2 DEF Located
        <4>3. CASE e = <<c, Spot(s)>>
          <5> HAVE e[1] = Int32(files[i].count + k)
          <5>1. Int32(files[i].count + (o + 1)) = Int32(files[i].count + k)
            BY <1>5, <4>3
          <5>2. k = o + 1
            BY <1>5, <5>1, CountsTellFiles DEF PlacesInv
          <5> QED
            BY <4>1, <5>2
        <4> QED
          BY <1>5, <4>2, <4>3
      <3>5. <<CountAt(n)', Spot(loads'[n])>> \in seen'
        BY <1>5, <3>1, <3>2
      <3>6. CountAt(n)' = Int32(files'[i].count + (o + 1))
        BY <1>5, <3>1, <3>2
      <3> QED
        BY <3>1, <3>3, <3>4, <3>5, <3>6 DEF Located, Int32, Spot
    <2>3. \A k, m \in DOMAIN loads : loads'[k].path = loads'[m].path => k = m
      <3>1. \A m \in DOMAIN loads : loads'[m].path = loads[m].path
        BY <1>0, <1>5, <1>6 DEF Top
      <3> QED
        BY <1>1, <3>1 DEF PlacesInv, LoadsLocated
    <2>4. \A m \in DOMAIN loads : \E j \in OrsonFiles, k \in Offset : Located(m, j, k)'
      BY <1>5, <2>1, <2>2
    <2> QED
      BY <1>6, <1>7, <2>3, <2>4 DEF LoadsLocated
  <1> QED
    BY <1>8, <1>9, <1>11, <1>12, <1>13 DEF PlacesInv

(* An Orson file is opened, and its first char gets a count of its own. *)
LEMMA StepLoadOrson ==
  ASSUME RoomForEnds, PlacesInv, NEW path \in Path, LoadOrson(path)
  PROVE  PlacesInv'
  <1>0. PICK n, i, f : n = Len(loads) /\ i = Len(files) + 1 /\ f = fileCount + 1
    OBVIOUS
  <1> DEFINE r == Opened(path, charCount)
             s == NextChar(r, LoadRoom)
             c == charCount'
             e == [path |-> path, count |-> MakeCharCount(f)]
  <1>1. /\ stage = "loading" /\ path \notin CFile /\ ~IsLoaded(path) /\ ~IsTooBig(path)
        /\ fileCount < MaxFile /\ fileCount' = f /\ files' = Append(files, e)
        /\ Read(r, MakeCharCount(f), loads)
        /\ UNCHANGED <<text, stage>>
    BY <1>0 DEF LoadOrson
  <1>2. /\ files \in Seq([path : Path, count : Int]) /\ loads \in Seq(Reader)
        /\ fileCount \in -1 .. MaxFile /\ charCount \in Int /\ text \in Texts
        /\ n \in Nat /\ DOMAIN loads = 1 .. n /\ MaxFile \in Nat
    BY <1>0, <1>1, LenProperties, HalfFacts DEF PlacesInv, PlacesTyped
  <1>3. f \in Number /\ f \in 0 .. MaxFile /\ MakeCharCount(f) \in Int
    <2>1. f \in 0 .. MaxFile
      BY <1>0, <1>1, <1>2
    <2> QED
      BY <2>1, CharCounts DEF Number
  <1>4. /\ files' \in Seq([path : Path, count : Int])
        /\ DOMAIN files' = DOMAIN files \cup {i} /\ i \notin DOMAIN files
        /\ \A j \in DOMAIN files : files'[j] = files[j]
        /\ files'[i].path = path /\ files'[i].count = MakeCharCount(f)
    <2>1. e \in [path : Path, count : Int]
      BY <1>3
    <2>2. Len(files') = Len(files) + 1 /\ Len(files) \in Nat
      BY <1>1, <1>2, <2>1
    <2>3. files'[i] = e /\ files' \in Seq([path : Path, count : Int])
          /\ \A j \in 1 .. Len(files) : files'[j] = files[j]
      BY <1>0, <1>1, <1>2, <2>1, AppendProperties
    <2>4. DOMAIN files' = 1 .. Len(files) + 1 /\ DOMAIN files = 1 .. Len(files)
      BY <1>2, <2>2, <2>3, LenProperties
    <2>5. e.path = path /\ e.count = MakeCharCount(f)
      OBVIOUS
    <2>6. \A k \in Nat : 1 .. k + 1 = (1 .. k) \cup {k + 1} /\ k + 1 \notin 1 .. k
      OBVIOUS
    <2>7. DOMAIN files' = DOMAIN files \cup {i} /\ i \notin DOMAIN files
      BY <1>0, <2>2, <2>4, <2>6
    <2> HIDE DEF e
    <2> QED
      BY <2>3, <2>4, <2>5, <2>7
  <1>5. Reads(r, 0) /\ GoesOn(r) /\ r.path = path /\ r.old = charCount
    <2>1. /\ r.path = path /\ r.at = 0 /\ r.row = 0 /\ r.line = <<>> /\ r.taken = 0
          /\ r.old = charCount /\ r.open = FALSE
      BY DEF Opened
    <2>2. r \in Reader
      BY <1>2 DEF Reader, Opened
    <2>3. Len(text[path]) \in Nat
      BY <1>2, TextFacts
    <2>4. Len(r.line) = 0 /\ r.line # <<EopChar, EosChar>>
      BY <2>1
    <2>5. 0 + Len(r.line) - r.taken
             <= r.at + (IF r.at < Len(text[r.path]) THEN 0
                        ELSE IF Ragged(text[r.path]) THEN 1 ELSE 0)
      <3> DEFINE x == IF Ragged(text[r.path]) THEN 1 ELSE 0
      <3>1. x \in Nat
        OBVIOUS
      <3> HIDE DEF x
      <3>2. (IF r.at < Len(text[r.path]) THEN 0 ELSE x) \in Nat
        BY <3>1
      <3>3. 0 + Len(r.line) - r.taken = 0 /\ r.at = 0
        BY <2>1, <2>4
      <3> HIDE DEF r
      <3>4. 0 <= 0 + (IF r.at < Len(text[r.path]) THEN 0 ELSE x)
        BY <3>2
      <3> QED
        BY <3>3, <3>4 DEF x
    <2> HIDE DEF r
    <2>6. /\ r.at <= Len(text[r.path]) /\ r.taken <= Len(r.line)
          /\ \A j \in 1 .. Len(r.line) : r.line[j] # EopChar
          /\ QuotedLine(r)
      BY <2>1, <2>3, <2>4 DEF QuotedLine
    <2>7. ~AtEnd(r)
      BY <2>4 DEF AtEnd
    <2>8. r.open => Quoted(text[r.path])
      BY <2>1
    <2>9. Reads(r, 0)
      BY <2>2, <2>5, <2>6, <2>8 DEF Reads
    <2> QED
      BY <2>1, <2>7, <2>9 DEF GoesOn
  <1> HIDE DEF r
  <1>6. /\ 1 \in Offset
        /\ Reads(s, 1) /\ s.path = path /\ s.old = charCount
        /\ c = Int32(MakeCharCount(f) + 1) /\ c \in Int
        /\ loads' = Append(loads, s)
        /\ seen' = seen \cup {<<c, Spot(s)>>}
    BY <1>1, <1>2, <1>3, <1>5, ReadFacts
  <1> HIDE DEF s, c, e
  <1>7. /\ loads' \in Seq(Reader) /\ Len(loads') = n + 1
        /\ DOMAIN loads' = DOMAIN loads \cup {n + 1} /\ n + 1 \notin DOMAIN loads
        /\ loads'[n + 1] = s
        /\ \A m \in DOMAIN loads : loads'[m] = loads[m]
    <2>1. s \in Reader
      BY <1>6 DEF Reads
    <2>2. /\ loads' \in Seq(Reader) /\ Len(loads') = n + 1 /\ loads'[n + 1] = s
          /\ \A m \in 1 .. n : loads'[m] = loads[m]
      BY <1>0, <1>2, <1>6, <2>1, AppendProperties
    <2>3. DOMAIN loads' = 1 .. n + 1
      BY <2>2, LenProperties
    <2>4. \A k \in Nat : 1 .. k + 1 = (1 .. k) \cup {k + 1} /\ k + 1 \notin 1 .. k
      OBVIOUS
    <2>5. DOMAIN loads' = DOMAIN loads \cup {n + 1} /\ n + 1 \notin DOMAIN loads
      BY <1>2, <2>3, <2>4
    <2> QED
      BY <1>2, <2>2, <2>5
  <1>8. OrsonFiles' = OrsonFiles \cup {i} /\ i \notin OrsonFiles
        /\ \A j \in OrsonFiles : files'[j] = files[j]
    BY <1>1, <1>4 DEF OrsonFiles
  <1>9. \A j \in OrsonFiles : \E g \in Number : g # f /\ files[j].count = MakeCharCount(g)
    <2> TAKE j \in OrsonFiles
    <2>1. PICK g \in Number : g <= fileCount /\ files[j].count = MakeCharCount(g)
      BY CountNumbered DEF PlacesInv
    <2>2. g # f
      BY <1>0, <1>2, <2>1 DEF Number
    <2> QED
      BY <2>1, <2>2
  <1>10. \A j \in OrsonFiles : \A k, l \in Offset :
            Int32(files[j].count + k) # Int32(MakeCharCount(f) + l)
    BY <1>3, <1>9, CountsTellChars
  <1>11. PlacesTyped'
    BY <1>1, <1>2, <1>3, <1>4, <1>6, <1>7 DEF PlacesTyped, c
  <1>12. FilesNumbered'
    <2>1. \A j \in OrsonFiles' : \E g \in 0 .. fileCount' : files'[j].count = MakeCharCount(g)
      <3>1. \A j \in OrsonFiles : \E g \in 0 .. f : files'[j].count = MakeCharCount(g)
        <4> TAKE j \in OrsonFiles
        <4>1. PICK g \in 0 .. fileCount : files[j].count = MakeCharCount(g)
          BY DEF PlacesInv, FilesNumbered
        <4>2. g \in 0 .. f
          BY <1>0, <1>2
        <4> QED
          BY <1>8, <4>1, <4>2
      <3>2. f \in 0 .. f
        BY <1>3
      <3> QED
        BY <1>1, <1>4, <1>8, <3>1, <3>2
    <2>2. \A j, k \in OrsonFiles' : files'[j].count = files'[k].count => j = k
      <3>1. \A j \in OrsonFiles : files'[j].count # files'[i].count
        BY <1>4, <1>6, <1>8, <1>10
      <3>2. \A j, k \in OrsonFiles : files'[j].count = files'[k].count => j = k
        BY <1>8 DEF PlacesInv, FilesNumbered
      <3> QED
        BY <1>8, <3>1, <3>2
    <2> QED
      BY <2>1, <2>2 DEF FilesNumbered, MakeCharCount, Int32
  <1>13. \A x \in seen : \A k \in Offset : x[1] # Int32(MakeCharCount(f) + k)
    BY <1>10 DEF PlacesInv, SeenNumbered
  <1>14. SeenNumbered'
    <2>1. \A x \in seen' : \E j \in OrsonFiles', k \in Offset : x[1] = Int32(files'[j].count + k)
      <3>1. \A x \in seen : \E j \in OrsonFiles, k \in Offset : x[1] = Int32(files[j].count + k)
        BY DEF PlacesInv, SeenNumbered
      <3>2. c = Int32(files'[i].count + 1)
        BY <1>4, <1>6
      <3> QED
        BY <1>6, <1>8, <3>1, <3>2
    <2> QED
      BY <2>1 DEF SeenNumbered, Int32
  <1>15. CountsUnique'
    BY <1>6, <1>13 DEF PlacesInv, CountsUnique
  <1>16. LoadsLocated'
    <2>1. ASSUME NEW m \in DOMAIN loads
          PROVE  \E j \in OrsonFiles, k \in Offset : Located(m, j, k)' /\ loads[m].path # path
      <3>1. PICK j \in OrsonFiles, k \in Offset : Located(m, j, k)
        BY <1>1 DEF PlacesInv, LoadsLocated
      <3>2. loads[m].path # path
        BY <1>1, <3>1 DEF Located, OrsonFiles, IsLoaded
      <3>3. \A x \in seen' \ seen : \A l \in Offset : x[1] # Int32(files[j].count + l)
        BY <1>6, <1>10
      <3>4. CountAt(m)' = CountAt(m)
        <4>1. m # n + 1
          BY <1>7
        <4>2. CASE m = n
          BY <1>0, <1>6, <1>7, <4>1, <4>2 DEF CountAt
        <4>3. CASE m # n
          <5>1. m + 1 \in DOMAIN loads
            BY <1>2, <4>3
          <5> QED
            BY <1>0, <1>7, <4>1, <4>3, <5>1 DEF CountAt
        <4> QED
          BY <4>2, <4>3
      <3>5. seen \subseteq seen'
        BY <1>6
      <3>6. Located(m, j, k)'
        BY <1>1, <1>7, <1>8, <3>1, <3>3, <3>4, <3>5, LocatedStays
      <3> QED
        BY <3>2, <3>6
    <2>2. Located(n + 1, i, 1)'
      <3>1. /\ text' = text /\ loads'[n + 1] = s /\ s.path = path
            /\ files'[i].path = path /\ files'[i].count = MakeCharCount(f)
        BY <1>1, <1>4, <1>6, <1>7
      <3>2. CountAt(n + 1)' = c
        BY <1>7 DEF CountAt, c
      <3>3. ~IsTooBig(loads[n + 1].path)' /\ Reads(loads[n + 1], 1)'
        BY <1>1, <1>6, <3>1 DEF IsTooBig, Reads, QuotedLine
      <3>4. \A x \in seen' : \A k \in Offset : x[1] = Int32(files'[i].count + k) => k <= 1
        <4> TAKE x \in seen'
        <4> TAKE k \in Offset
        <4>1. CASE x \in seen
          BY <1>13, <3>1, <4>1
        <4>2. CASE x = <<c, Spot(s)>>
          <5> HAVE x[1] = Int32(files'[i].count + k)
          <5>1. Int32(MakeCharCount(f) + 1) = Int32(MakeCharCount(f) + k)
            BY <1>6, <3>1, <4>2
          <5>2. k = 1
            BY <1>3, <1>6, <5>1, CountsTellChars
          <5> QED
            BY <5>2
        <4> QED
          BY <1>6, <4>1, <4>2
      <3>5. <<CountAt(n + 1)', Spot(loads'[n + 1])>> \in seen'
        BY <1>6, <3>1, <3>2
      <3>6. CountAt(n + 1)' = Int32(files'[i].count + 1)
        BY <1>6, <3>1, <3>2
      <3> QED
        BY <3>1, <3>3, <3>4, <3>5, <3>6 DEF Located, Int32, Spot
    <2>3. \A k, m \in DOMAIN loads' : loads'[k].path = loads'[m].path => k = m
      <3>1. \A m \in DOMAIN loads : loads'[m].path # loads'[n + 1].path
        BY <1>6, <1>7, <2>1
      <3>2. \A k, m \in DOMAIN loads : loads'[k].path = loads'[m].path => k = m
        BY <1>1, <1>7 DEF PlacesInv, LoadsLocated
      <3> QED
        BY <1>7, <3>1, <3>2
    <2>4. \A m \in DOMAIN loads' : \E j \in OrsonFiles', k \in Offset : Located(m, j, k)'
      BY <1>6, <1>7, <1>8, <2>1, <2>2
    <2> QED
      BY <2>3, <2>4 DEF LoadsLocated
  <1> QED
    BY <1>11, <1>12, <1>14, <1>15, <1>16 DEF PlacesInv

-----------------------------------------------------------------------------
(* The invariant holds at first. *)
LEMMA PlacesInitially ==
  ASSUME Init
  PROVE  PlacesInv
  <1>1. PlacesTyped
    <2>1. -1 \in -1 .. MaxFile
      BY HalfFacts
    <2> QED
      BY <2>1 DEF Init, PlacesTyped
  <1>2. files = <<>> /\ loads = <<>> /\ seen = {}
    BY DEF Init
  <1>3. OrsonFiles = {} /\ DOMAIN loads = {}
    BY <1>2 DEF OrsonFiles
  <1> QED
    BY <1>1, <1>2, <1>3 DEF PlacesInv, FilesNumbered, SeenNumbered, LoadsLocated, CountsUnique

(* Every step keeps the invariant. *)
LEMMA PlacesStep ==
  ASSUME RoomForEnds, PlacesInv, [Next]_vars
  PROVE  PlacesInv'
  <1>0. loads \in Seq(Reader)
    BY DEF PlacesInv, PlacesTyped
  <1>1. ASSUME NEW path \in Path, LoadOrson(path) PROVE PlacesInv'
    BY <1>1, StepLoadOrson
  <1>2. ASSUME NEW path \in Path, LoadC(path) PROVE PlacesInv'
    BY <1>2, StepLoadC
  <1>3. CASE TooManyFiles
    BY <1>3, OtherSteps DEF TooManyFiles, loader, history
  <1>4. CASE TooManyChars
    BY <1>4, OtherSteps DEF TooManyChars, loader, history
  <1>5. CASE ReadChar
    BY <1>5, StepReadChar
  <1>6. ASSUME NEW err, SourceError(err) PROVE PlacesInv'
    BY <1>6, OtherSteps DEF SourceError, loader
  <1>7. ASSUME NEW err, NEW place, ObjectError(place, err) PROVE PlacesInv'
    BY <1>7, OtherSteps DEF ObjectError, loader
  <1>8. ASSUME NEW place, Halt(place) PROVE PlacesInv'
    BY <1>8, OtherSteps DEF Halt, loader
  <1>9. CASE EndOfFile
    BY <1>9, StepEndOfFile
  <1>10. CASE EndOfFiles
    BY <1>10, OtherSteps DEF EndOfFiles, loader, history
  <1>11. CASE SkipFile
    BY <1>11, OtherSteps DEF SkipFile, loader, history
  <1>12. CASE ReopenFile
    BY <1>0, <1>12, OtherSteps DEF ReopenFile, loader, history
  <1>13. CASE WriteChar
    BY <1>0, <1>13, OtherSteps DEF WriteChar, loader, history
  <1>14. CASE WriteLast
    BY <1>0, <1>14, OtherSteps DEF WriteLast, loader, history
  <1>15. CASE WriteEnd
    BY <1>15, OtherSteps DEF WriteEnd, loader, history
  <1>16. CASE UNCHANGED vars
    BY <1>16, OtherSteps DEF vars, loader, history
  <1> QED
    BY <1>1, <1>2, <1>3, <1>4, <1>5, <1>6, <1>7, <1>8, <1>9, <1>10, <1>11, <1>12, <1>13,
       <1>14, <1>15, <1>16 DEF Next, Load, WriteErrorLines

(* The invariant of all char counts that LOAD gives. *)
LEMMA PlacesAlways ==
  ASSUME RoomForEnds
  PROVE  Spec => []PlacesInv
  BY PlacesInitially, PlacesStep, PTL DEF Spec

(***************************************************************************)
(* No two chars that LOAD ORSON reads have the same char count, whatever   *)
(* is loaded in between, and in spite of the EOS CHARs and EOP CHARs that  *)
(* are counted without being in the file.                                  *)
(***************************************************************************)
THEOREM CountsAreUnique ==
  ASSUME RoomForEnds
  PROVE  Spec => []CountsUnique
  <1>1. PlacesInv => CountsUnique
    BY DEF PlacesInv
  <1> QED
    BY <1>1, PlacesAlways, PTL

(***************************************************************************)
(* A call of LOAD ORSON that was interrupted by a LOAD clause finds the    *)
(* char count at which it read its last char.                              *)
(***************************************************************************)
THEOREM LoadsResume ==
  ASSUME RoomForEnds
  PROVE  Spec => []Resumable
  <1>1. PlacesInv => Resumable
    BY DEF PlacesInv, LoadsLocated, Located, CountAt, Resumable
  <1> QED
    BY <1>1, PlacesAlways, PTL

-----------------------------------------------------------------------------
(***************************************************************************)
(* Places implements Report.  WRITE ERROR LINES keeps fewer chars of a     *)
(* line than LOAD ORSON, and counts one EOS CHAR more, at the end of the   *)
(* program: both must make no difference.                                  *)
(***************************************************************************)
Upto(p, s) == { i \in Breaks(p) : i <= s }

(* The line that char O is on begins after char S. *)
Begins(p, o, s) ==
  /\ s \in {0} \cup Breaks(p)
  /\ s < o
  /\ \A i \in Breaks(p) : i <= s \/ o <= i

Row(p, s) == 1 + Cardinality(Upto(p, s))

(* Char O of a file is the one at the spot Q. *)
IsSpot(p, o, q) ==
  \E s \in {0} \cup Breaks(p) : Begins(p, o, s) /\ q = <<p, Row(p, s), o - s>>

(* The line of R begins after char S. *)
OnLine(r, s) ==
  \/ /\ \E e \in Breaks(r.path) :
          /\ s < e
          /\ \A i \in Breaks(r.path) : i <= s \/ e <= i
          /\ Len(r.line) = e - s
          /\ r.at = IF e > Len(text[r.path]) THEN Len(text[r.path]) ELSE e
     /\ \A i \in 1 .. Len(r.line) : r.line[i] # EopChar
  \/ /\ s = Size(r.path)
     /\ AtEnd(r)
     /\ r.at = Len(text[r.path])

(***************************************************************************)
(* No last line ends with an apostrophe: nothing is read behind the line   *)
(* with the EOP CHAR, where WRITE ERROR LINES would not find it.           *)
(***************************************************************************)
OpenQuote(bytes) ==
  LET k == Len(bytes)
  IN \/ k > 0 /\ bytes[k] = Apostrophe
     \/ k > 1 /\ bytes[k] = Newline /\ bytes[k - 1] = Apostrophe

NoOpenQuote == \A t \in Texts : \A p \in Path : ~OpenQuote(t[p])

(* R is not in the last line if it ends with an apostrophe, or behind it. *)
Closes(r) ==
  /\ r.at = Len(text[r.path]) => ~EndsOpen(r.line)
  /\ AtEnd(r) => ~r.open

(* R has just taken char O. *)
Placed(r, o) ==
  /\ r \in Reader
  /\ o \in 1 .. Size(r.path) + 1
  /\ \E s \in {0} \cup Breaks(r.path) :
       /\ Begins(r.path, o, s)
       /\ r.row = Row(r.path, s)
       /\ r.taken = o - s
       /\ OnLine(r, s)
  /\ Closes(r)

(* The file at I of FILES is read, and its chars have counts after this one. *)
Base(i) == files[i].count

FilesApart ==
  /\ fileCount + 1 <= Len(files)
  /\ \A i, j \in DOMAIN files : files[i].path = files[j].path => i = j
  /\ \A i \in OrsonFiles :
       /\ Base(i) \in Nat
       /\ Base(i) + Span <= (fileCount + 1) * Span
       /\ files[i].path \in Path
       /\ Size(files[i].path) + 2 <= Span
  /\ \A i, j \in OrsonFiles : i < j => Base(i) + Span <= Base(j)

(* The char with this count is the one at the spot Q. *)
IsPlace(count, q) ==
  \E i \in OrsonFiles : \E o \in 1 .. Size(files[i].path) + 1 :
    count = Base(i) + o /\ IsSpot(files[i].path, o, q)

Known(q) ==
  \E i \in OrsonFiles : \E o \in 1 .. Size(files[i].path) + 1 : IsSpot(files[i].path, o, q)

SeenPlaced ==
  \A x \in seen : IsPlace(x[1], x[2])

(* PLACES holds just the errors that were not shown yet. *)
ErrorsKept ==
  /\ \A b \in blamed : b = <<b[1], b[2]>> /\ b[2] \in AnyErr /\ Known(b[1])
  /\ \A pl \in places : /\ pl = <<pl[1], pl[2]>>
                        /\ \E b \in blamed \ shown : IsPlace(pl[1], b[1]) /\ pl[2] = b[2]
  /\ \A b \in blamed \ shown : \E pl \in places : IsPlace(pl[1], b[1]) /\ pl[2] = b[2]
  /\ shown \subseteq blamed

(* A reader has read a char of a file, and counts it rightly. *)
Counted(r, count) ==
  \E i \in OrsonFiles : \E o \in 1 .. Size(files[i].path) + 1 :
    r.path = files[i].path /\ Placed(r, o) /\ count = Base(i) + o

LoadsPlaced ==
  stage = "loading" =>
    /\ shown = {}
    /\ \A m \in DOMAIN loads : Counted(loads[m], CountAt(m))

(* No error is left behind. *)
WriterPlaced ==
  stage = "writing" =>
    /\ turn \in 0 .. Len(files)
    /\ file = Closed =>
         \A pl \in places : \E i \in OrsonFiles : i > turn /\ pl[1] > Base(i)
    /\ file # Closed =>
         /\ turn \in OrsonFiles
         /\ file.path = files[turn].path
         /\ \E o \in 1 .. Size(file.path) + 1 :
              /\ Placed(file, o)
              /\ charCount = Base(turn) + o
         /\ \A pl \in places : pl[1] >= charCount

WriterRests == stage = "loading" => turn = 0 /\ file = Closed

Resolved ==
  FilesApart /\ SeenPlaced /\ ErrorsKept /\ LoadsPlaced /\ WriterPlaced /\ WriterRests

ReportInv == Len(files) <= MaxFile => Resolved

(* Where lines end. *)
LEMMA BreakFacts ==
  ASSUME text \in Texts, NEW p \in Path
  PROVE  /\ Len(text[p]) \in Nat /\ Size(p) \in Nat
         /\ Len(text[p]) <= Size(p) /\ Size(p) <= Len(text[p]) + 1
         /\ \A i \in Breaks(p) : i \in Nat /\ 1 <= i /\ i <= Size(p)
         /\ Size(p) > 0 => Size(p) \in Breaks(p)
         /\ Size(p) > Len(text[p]) => Len(text[p]) > 0 /\ Len(text[p]) \notin Breaks(p)
         /\ \A i \in 1 .. Len(text[p]) : i \in Breaks(p) <=> text[p][i] = Newline
  <1> DEFINE N == Len(text[p])
  <1>1. N \in Nat /\ text[p] \in Seq(Byte) /\ DOMAIN text[p] = 1 .. N
    BY TextFacts
  <1>2. \/ Ragged(text[p]) /\ Size(p) = N + 1
        \/ ~Ragged(text[p]) /\ Size(p) = N
    <2>1. CASE Ragged(text[p])
      BY <2>1 DEF Size
    <2>2. CASE ~Ragged(text[p])
      <3>1. Size(p) = N + 0
        BY <2>2 DEF Size
      <3> HIDE DEF N
      <3>2. Size(p) = N
        BY <1>1, <3>1
      <3> QED
        BY <2>2, <3>2
    <2> QED
      BY <2>1, <2>2
  <1>3. Size(p) \in Nat /\ N <= Size(p) /\ Size(p) <= N + 1
    BY <1>1, <1>2
  <1>4. \A i \in Breaks(p) : i \in Nat /\ 1 <= i /\ i <= Size(p)
    BY <1>3 DEF Breaks
  <1>5. ASSUME NEW i \in 1 .. N PROVE i \in Breaks(p) <=> text[p][i] = Newline
    <2>1. i \in 1 .. Size(p) /\ ~(i > N)
      BY <1>1, <1>3
    <2> QED
      BY <2>1 DEF Breaks
  <1>6. ASSUME Size(p) > N PROVE N > 0 /\ N \notin Breaks(p)
    <2>1. Ragged(text[p])
      BY <1>1, <1>2, <1>6
    <2>2. N > 0 /\ text[p][N] # Newline
      BY <1>1, <2>1 DEF Ragged
    <2> QED
      BY <1>1, <1>5, <2>2
  <1>7. ASSUME Size(p) > 0 PROVE Size(p) \in Breaks(p)
    <2>1. Size(p) \in 1 .. Size(p)
      BY <1>3, <1>7
    <2>2. CASE Size(p) > N
      BY <2>1, <2>2 DEF Breaks
    <2>3. CASE ~(Size(p) > N)
      <3>1. Size(p) = N /\ ~Ragged(text[p])
        BY <1>1, <1>2, <2>3
      <3>2. text[p] # <<>>
        BY <1>1, <1>7, <3>1
      <3>3. text[p][N] = Newline
        BY <3>1, <3>2 DEF Ragged
      <3> QED
        BY <2>1, <3>1, <3>3 DEF Breaks
    <2> QED
      BY <2>2, <2>3
  <1> QED
    BY <1>1, <1>3, <1>4, <1>5, <1>6, <1>7

(* The number of a line. *)
LEMMA RowFacts ==
  ASSUME text \in Texts, NEW p \in Path
  PROVE  /\ Row(p, 0) = 1
         /\ \A s \in {0} \cup Breaks(p) : Row(p, s) \in Nat /\ Row(p, s) >= 1
         /\ \A s, t \in {0} \cup Breaks(p) : s < t => Row(p, s) < Row(p, t)
  <1>1. /\ \A i \in Breaks(p) : i \in Nat /\ 1 <= i /\ i <= Size(p)
        /\ Size(p) \in Nat
    BY BreakFacts
  <1>2. IsFiniteSet(Breaks(p))
    <2>1. Breaks(p) \subseteq 1 .. Size(p) /\ IsFiniteSet(1 .. Size(p))
      BY <1>1, FS_Interval
    <2> QED
      BY <2>1, FS_Subset
  <1>3. \A s : IsFiniteSet(Upto(p, s)) /\ Cardinality(Upto(p, s)) \in Nat
    <2> TAKE s
    <2>1. Upto(p, s) \subseteq Breaks(p)
      BY DEF Upto
    <2> QED
      BY <1>2, <2>1, FS_Subset, FS_CardinalityType
  <1>4. Row(p, 0) = 1
    <2>1. Upto(p, 0) = {}
      BY <1>1 DEF Upto
    <2> QED
      BY <2>1, FS_EmptySet DEF Row
  <1>5. ASSUME NEW s \in {0} \cup Breaks(p), NEW t \in {0} \cup Breaks(p), s < t
        PROVE  Row(p, s) < Row(p, t)
    <2>1. s \in Nat /\ t \in Nat /\ t \in Breaks(p)
      BY <1>1, <1>5
    <2>2. Upto(p, s) \subseteq Upto(p, t)
      <3> SUFFICES ASSUME NEW i \in Breaks(p), i <= s PROVE i <= t
        BY DEF Upto
      <3> QED
        BY <1>1, <1>5, <2>1
    <2>3. t \in Upto(p, t) /\ t \notin Upto(p, s)
      BY <1>5, <2>1 DEF Upto
    <2>4. Cardinality(Upto(p, s)) < Cardinality(Upto(p, t))
      <3>1. /\ Cardinality(Upto(p, s)) <= Cardinality(Upto(p, t))
            /\ Cardinality(Upto(p, s)) = Cardinality(Upto(p, t)) => Upto(p, s) = Upto(p, t)
        BY <1>3, <2>2, FS_Subset
      <3> QED
        BY <1>3, <2>3, <3>1
    <2> QED
      BY <1>3, <2>4 DEF Row
  <1>6. ASSUME NEW s \in {0} \cup Breaks(p) PROVE Row(p, s) \in Nat /\ Row(p, s) >= 1
    BY <1>3 DEF Row
  <1> QED
    BY <1>4, <1>5, <1>6

(* How many lines a file has. *)
LEMMA RowsNatural ==
  ASSUME text \in Texts, NEW p \in Path
  PROVE  IsFiniteSet(Breaks(p)) /\ Cardinality(Breaks(p)) \in Nat /\ LastRow(p) \in Nat
  <1>1. Breaks(p) \subseteq 1 .. Size(p) /\ IsFiniteSet(1 .. Size(p))
    BY BreakFacts, FS_Interval
  <1>2. IsFiniteSet(Breaks(p)) /\ Cardinality(Breaks(p)) \in Nat
    BY <1>1, FS_Subset, FS_CardinalityType
  <1> QED
    BY <1>2 DEF LastRow

(* A spot of a file is in one of its lines. *)
LEMMA SpotInFile ==
  ASSUME text \in Texts, NEW p \in Path, NEW o, NEW q, IsSpot(p, o, q)
  PROVE  q[1] = p /\ q[2] \in Nat /\ LastRow(p) \in Nat /\ q[2] <= LastRow(p)
  <1>1. PICK s \in {0} \cup Breaks(p) : q = <<p, Row(p, s), o - s>>
    BY DEF IsSpot
  <1>2. Row(p, s) \in Nat
    BY RowFacts
  <1>3. Cardinality(Upto(p, s)) \in Nat /\ Cardinality(Upto(p, s)) <= Cardinality(Breaks(p))
    <2>1. Upto(p, s) \subseteq Breaks(p)
      BY DEF Upto
    <2> QED
      BY <2>1, RowsNatural, FS_Subset, FS_CardinalityType
  <1>4. Row(p, s) <= LastRow(p)
    BY <1>3, RowsNatural DEF Row, LastRow
  <1> QED
    BY <1>1, <1>2, <1>4, RowsNatural

(* The chars of a file are at spots in the order in which they are counted. *)
LEMMA SpotsOrdered ==
  ASSUME text \in Texts, NEW p \in Path, NEW o \in Nat, NEW k \in Nat, NEW q, NEW r,
         IsSpot(p, o, q), IsSpot(p, k, r)
  PROVE  /\ q \in Path \X Nat \X Nat /\ q[1] = p
         /\ o < k => q[2] < r[2] \/ (q[2] = r[2] /\ q[3] < r[3])
         /\ o = k => q = r
  <1>1. PICK s \in {0} \cup Breaks(p) : Begins(p, o, s) /\ q = <<p, Row(p, s), o - s>>
    BY DEF IsSpot
  <1>2. PICK t \in {0} \cup Breaks(p) : Begins(p, k, t) /\ r = <<p, Row(p, t), k - t>>
    BY DEF IsSpot
  <1>3. /\ s \in Nat /\ t \in Nat
        /\ Row(p, s) \in Nat /\ Row(p, t) \in Nat
        /\ s < t => Row(p, s) < Row(p, t)
    BY BreakFacts, RowFacts
  <1>4. /\ s < o /\ (t \in Breaks(p) => t <= s \/ o <= t)
        /\ t < k /\ (s \in Breaks(p) => s <= t \/ k <= s)
    BY <1>1, <1>2 DEF Begins
  <1>5. o <= k => s <= t
    BY <1>3, <1>4
  <1>6. o = k => s = t
    BY <1>3, <1>4
  <1>7. o - s \in Nat /\ q \in Path \X Nat \X Nat /\ q[1] = p /\ q[2] = Row(p, s) /\ q[3] = o - s
        /\ r[2] = Row(p, t) /\ r[3] = k - t
    BY <1>1, <1>2, <1>3, <1>4
  <1>8. ASSUME o < k PROVE q[2] < r[2] \/ (q[2] = r[2] /\ q[3] < r[3])
    <2>1. CASE s = t
      BY <1>3, <1>7, <1>8, <2>1
    <2>2. CASE s < t
      BY <1>3, <1>7, <2>2
    <2> QED
      BY <1>3, <1>5, <1>8, <2>1, <2>2
  <1> QED
    BY <1>1, <1>2, <1>6, <1>7, <1>8

(* An offset in a file is that of one spot. *)
LEMMA OneSpot ==
  ASSUME text \in Texts, NEW p \in Path, NEW o \in Nat, NEW q, NEW r,
         IsSpot(p, o, q), IsSpot(p, o, r)
  PROVE  q = r
  <1>1. PICK k \in Nat : k = o
    OBVIOUS
  <1>2. IsSpot(p, k, r)
    BY <1>1
  <1>3. o = k => q = r
    BY <1>2, SpotsOrdered
  <1> QED
    BY <1>1, <1>3

(* The next line of R begins after char S. *)
Awaits(r, s) ==
  /\ r.at = IF s > Len(text[r.path]) THEN Len(text[r.path]) ELSE s
  /\ r.row + 1 = Row(r.path, s)

(* The line that NEXT LINE reads when there are bytes left. *)
LEMMA LineIs ==
  ASSUME text \in Texts, LinesFit, NEW r \in Reader, NEW s \in {0} \cup Breaks(r.path),
         s < Size(r.path), Awaits(r, s)
  PROVE  LET e == EndOfLine(r)
         IN /\ r.at = s /\ s \in Nat /\ s < Len(text[r.path])
            /\ e \in Breaks(r.path) /\ e \in Nat /\ s < e /\ e <= Len(text[r.path]) + 1
            /\ \A i \in Breaks(r.path) : i <= s \/ e <= i
            /\ Raw(r) \in Seq(Byte) /\ Len(Raw(r)) = e - 1 - s
            /\ Len(Raw(r)) <= MaxLine - 1
            /\ e > s + 1 => Raw(r)[e - 1 - s] = text[r.path][e - 1]
            /\ e <= Len(text[r.path]) => text[r.path][e] = Newline
  <1> DEFINE p == r.path
             N == Len(text[p])
             e == EndOfLine(r)
             left == { i \in r.at + 1 .. N : text[p][i] = Newline }
  <1>1. /\ p \in Path /\ N \in Nat /\ Size(p) \in Nat /\ N <= Size(p) /\ Size(p) <= N + 1
        /\ \A i \in Breaks(p) : i \in Nat /\ 1 <= i /\ i <= Size(p)
        /\ Size(p) > 0 => Size(p) \in Breaks(p)
        /\ Size(p) > N => N > 0 /\ N \notin Breaks(p)
        /\ \A i \in 1 .. N : i \in Breaks(p) <=> text[p][i] = Newline
        /\ text[p] \in Seq(Byte)
    BY BreakFacts, TextFacts DEF Reader
  <1>2. s \in Nat /\ s < N /\ r.at = s
    <2>1. s \in Nat /\ s <= N
      BY <1>1
    <2>2. s # N
      <3> SUFFICES ASSUME s = N PROVE FALSE
        OBVIOUS
      <3>1. Size(p) > N
        BY <1>1, <2>1
      <3> QED
        BY <1>1, <2>1, <3>1
    <2> QED
      BY <1>1, <2>1, <2>2 DEF Awaits
  <1>3. /\ e \in Breaks(p) /\ e \in Nat /\ s < e /\ e <= N + 1
        /\ \A i \in s + 1 .. N : i < e => text[p][i] # Newline
        /\ e > N => e = Size(p)
    <2>1. CASE left = {}
      <3>1. e = N + 1
        BY <2>1 DEF EndOfLine
      <3>2. \A i \in s + 1 .. N : text[p][i] # Newline
        BY <1>2, <2>1
      <3>3. N \in s + 1 .. N /\ N \in 1 .. N
        BY <1>1, <1>2
      <3>4. Size(p) = N + 1
        <4>1. N \notin Breaks(p)
          BY <1>1, <3>2, <3>3
        <4>2. Size(p) # N
          BY <1>1, <1>2, <4>1
        <4> QED
          BY <1>1, <4>2
      <3>5. N + 1 \in Breaks(p)
        BY <1>1, <3>4
      <3> HIDE DEF e, N
      <3> QED
        BY <1>1, <1>2, <3>1, <3>2, <3>4, <3>5
    <2>2. CASE left # {}
      <3>1. \E i \in left : \A j \in left : i <= j
        <4>1. left \subseteq Nat
          BY <1>1, <1>2
        <4> QED
          BY <2>2, <4>1, LeastMember
      <3>2. e \in left /\ \A j \in left : e <= j
        BY <2>2, <3>1 DEF EndOfLine
      <3>3. e \in s + 1 .. N /\ text[p][e] = Newline
        BY <1>2, <3>2
      <3>4. \A i \in s + 1 .. N : i < e => text[p][i] # Newline
        <4> SUFFICES ASSUME NEW i \in s + 1 .. N, i < e, text[p][i] = Newline PROVE FALSE
          OBVIOUS
        <4>1. i \in left
          BY <1>2
        <4>2. e <= i
          BY <3>2, <4>1
        <4> HIDE DEF e, left
        <4> QED
          BY <1>1, <1>2, <3>3, <4>2
      <3> HIDE DEF e, N
      <3>5. e \in 1 .. N
        BY <1>1, <1>2, <3>3
      <3> QED
        BY <1>1, <1>2, <3>3, <3>4, <3>5
    <2> QED
      BY <2>1, <2>2
  <1>4. \A i \in Breaks(p) : i <= s \/ e <= i
    <2> SUFFICES ASSUME NEW i \in Breaks(p), s < i, i < e PROVE FALSE
      BY <1>1, <1>2, <1>3
    <2>1. i \in s + 1 .. N /\ i \in 1 .. N
      BY <1>1, <1>2, <1>3
    <2> QED
      BY <1>1, <1>3, <2>1
  <1>5. Raw(r) \in Seq(Byte) /\ Len(Raw(r)) = e - 1 - s
    <2>1. \A i \in s + 1 .. e - 1 : text[p][i] \in Byte
      <3> TAKE i \in s + 1 .. e - 1
      <3>1. i \in 1 .. N
        BY <1>1, <1>2, <1>3
      <3> QED
        BY <1>1, <3>1, ElementOfSeq
    <2> HIDE DEF e
    <2>2. s + 1 \in Int /\ e - 1 \in Int
      BY <1>2, <1>3
    <2>3. /\ SubSeq(text[p], s + 1, e - 1) \in Seq(Byte)
          /\ Len(SubSeq(text[p], s + 1, e - 1)) =
               IF s + 1 <= e - 1 THEN (e - 1) - (s + 1) + 1 ELSE 0
      BY <2>1, <2>2, SubSeqProperties
    <2>4. Raw(r) = SubSeq(text[p], s + 1, e - 1)
      BY <1>2 DEF Raw, e
    <2>5. PICK l : l = Len(Raw(r))
      OBVIOUS
    <2>6. l = IF s + 1 <= e - 1 THEN (e - 1) - (s + 1) + 1 ELSE 0
      BY <2>3, <2>4, <2>5
    <2>7. s \in Nat /\ e \in Nat /\ s < e
      BY <1>2, <1>3
    <2>8. l = e - 1 - s
      BY ONLY <2>6, <2>7
    <2> QED
      BY <2>3, <2>4, <2>5, <2>8
  <1>6. e - 1 - s <= MaxLine - 1
    <2>0. MaxLine \in Nat \ {0}
      BY PlacesAssumption
    <2> SUFFICES ASSUME e - 1 - s >= MaxLine PROVE FALSE
      BY <1>2, <1>3, <2>0
    <2>1. s \in 0 .. N - MaxLine
      BY <1>1, <1>2, <1>3, <2>0
    <2>2. PICK k \in 1 .. MaxLine : text[p][s + k] = Newline
      BY <1>1, <2>1 DEF LinesFit
    <2>3. s + k \in s + 1 .. N /\ s + k < e
      BY <1>1, <1>2, <1>3, <2>0
    <2> QED
      BY <1>3, <2>2, <2>3
  <1>7. e > s + 1 => Raw(r)[e - 1 - s] = text[p][e - 1]
    <2> HIDE DEF e
    <2> SUFFICES ASSUME e > s + 1 PROVE Raw(r)[e - 1 - s] = text[p][e - 1]
      OBVIOUS
    <2>1. PICK k \in Nat : k = e - 1 - s /\ s + k = e - 1 /\ k >= 1 /\ k <= e - 1 - s
      <3>1. e - 1 - s \in Nat /\ s + (e - 1 - s) = e - 1 /\ e - 1 - s >= 1
        BY <1>2, <1>3
      <3> QED
        BY <3>1
    <2>2. \A i \in s + 1 .. e - 1 : text[p][i] \in Byte
      <3> TAKE i \in s + 1 .. e - 1
      <3>1. i \in 1 .. N
        BY <1>1, <1>2, <1>3
      <3> QED
        BY <1>1, <3>1, ElementOfSeq
    <2>3. s + 1 \in Int /\ e - 1 \in Int /\ k \in 1 .. (e - 1) - (s + 1) + 1
      BY <1>2, <1>3, <2>1
    <2>4. SubSeq(text[p], s + 1, e - 1)[k] = text[p][(s + 1) + k - 1]
      BY <2>2, <2>3, SubSeqProperties
    <2>5. (s + 1) + k - 1 = e - 1
      BY <1>2, <1>3, <2>1
    <2>6. Raw(r) = SubSeq(text[p], s + 1, e - 1)
      BY <1>2 DEF Raw, e
    <2> QED
      BY <2>1, <2>4, <2>5, <2>6
  <1>8. e <= N => text[p][e] = Newline
    <2>1. e <= N => e \in 1 .. N
      <3> HIDE DEF e, N
      <3> QED
        BY <1>1, <1>2, <1>3
    <2> QED
      BY <1>1, <1>3, <2>1
  <1> HIDE DEF e
  <1> QED
    BY <1>2, <1>3, <1>4, <1>5, <1>6, <1>7, <1>8 DEF e

(* NEXT LINE keeps a line that fits. *)
LEMMA LineKept ==
  ASSUME text \in Texts, NEW r \in Reader, r.at # Len(text[r.path]), NEW room \in Nat,
         Raw(r) \in Seq(Byte), Len(Raw(r)) <= room
  PROVE  LET q == NextLine(r, room)
         IN /\ Len(q.line) = Len(Raw(r)) + 1
            /\ q.at = IF EndOfLine(r) > Len(text[r.path]) THEN Len(text[r.path]) ELSE EndOfLine(r)
            /\ EndsOpen(q.line) => Len(Raw(r)) >= 1 /\ Raw(r)[Len(Raw(r))] = Apostrophe
  <1>1. PICK raw, l, e, at : /\ raw = Raw(r) /\ l = Len(raw) /\ e = EndOfLine(r)
                             /\ at = IF e > Len(text[r.path]) THEN Len(text[r.path]) ELSE e
    OBVIOUS
  <1> DEFINE n == IF l < room THEN l ELSE room
             kept == [ i \in 1 .. n |-> IF raw[i] = Illegal THEN Blank ELSE raw[i] ]
             q == NextLine(r, room)
  <1>2. l \in Nat /\ l <= room /\ raw \in Seq(Byte)
    BY <1>1, LenProperties
  <1>3. n = l
    BY <1>2
  <1>4. q.line = Append(kept, EosChar) /\ q.at = at
    BY <1>1 DEF NextLine, Reader
  <1>5. \A i \in 1 .. l : raw[i] \in Byte
    BY <1>1, <1>2, ElementOfSeq
  <1>6. \A i \in 1 .. n : (IF raw[i] = Illegal THEN Blank ELSE raw[i]) \in Char
    BY <1>3, <1>5 DEF Byte, Char
  <1> HIDE DEF n, q
  <1>7. kept \in [1 .. n -> Char]
    BY <1>6
  <1>8. kept \in Seq(Char) /\ Len(kept) = l
    <2>1. kept \in Seq(Char)
      BY <1>2, <1>3, <1>7, SeqDef
    <2> QED
      BY <1>2, <1>3, <1>7, <2>1, LenProperties
  <1>9. EosChar \in Char
    BY DEF Char
  <1>10. \A i \in 1 .. l : kept[i] = Apostrophe => raw[i] = Apostrophe
    BY <1>3 DEF Apostrophe, Blank
  <1> HIDE DEF kept
  <1>11. Len(q.line) = l + 1 /\ \A i \in 1 .. l : q.line[i] = kept[i]
    BY <1>4, <1>8, <1>9, AppendProperties
  <1>12. EndsOpen(q.line) => l >= 1 /\ raw[l] = Apostrophe
    <2> SUFFICES ASSUME Len(q.line) > 1, q.line[Len(q.line) - 1] = Apostrophe
                 PROVE  l >= 1 /\ raw[l] = Apostrophe
      BY DEF EndsOpen
    <2>1. l >= 1 /\ l \in 1 .. l /\ Len(q.line) - 1 = l
      BY <1>2, <1>11
    <2> QED
      BY <1>10, <1>11, <2>1
  <1> QED
    BY <1>1, <1>4, <1>11, <1>12 DEF q

(* A reader between two lines reads the next one. *)
LEMMA NextLineOn ==
  ASSUME text \in Texts, LinesFit, NEW r \in Reader, NEW s \in {0} \cup Breaks(r.path),
         Awaits(r, s), NEW room \in Nat, room >= MaxLine - 1
  PROVE  LET q == NextLine(r, room)
         IN /\ q \in Reader /\ q.path = r.path /\ q.old = r.old /\ q.taken = 0
            /\ q.row = Row(r.path, s) /\ q.row # r.row
            /\ OnLine(q, s) /\ Len(q.line) \in Nat /\ Len(q.line) >= 1
            /\ \A n \in LineErrors(r, room) :
                 /\ n[2] = IllegalCharErr /\ n[1] \in Nat
                 /\ s + n[1] \in 1 .. Size(r.path)
                 /\ Begins(r.path, s + n[1], s)
  <1> DEFINE q == NextLine(r, room)
             p == r.path
             N == Len(text[p])
  <1>1. /\ p \in Path /\ N \in Nat /\ Size(p) \in Nat /\ N <= Size(p) /\ Size(p) <= N + 1
        /\ \A i \in Breaks(p) : i \in Nat /\ 1 <= i /\ i <= Size(p)
        /\ text[p] \in Seq(Byte) /\ r.row \in Nat /\ MaxLine \in Nat \ {0}
        /\ s \in Nat /\ s <= Size(p)
    BY BreakFacts, TextFacts, PlacesAssumption DEF Reader
  <1>2. q.row = Row(p, s) /\ q.row # r.row
    <2>1. q.row = r.row + 1
      BY DEF NextLine, Reader
    <2> HIDE DEF q
    <2> QED
      BY <1>1, <2>1 DEF Awaits
  <1>3. CASE s < Size(p)
    <2>1. PICK e : e = EndOfLine(r)
      OBVIOUS
    <2>2. PICK m, z : m = Len(text[p]) /\ z = Size(p)
      OBVIOUS
    <2>3. PICK raw, l : raw = Raw(r) /\ l = Len(raw)
      OBVIOUS
    <2>4. /\ r.at = s /\ s < m /\ s \in Nat /\ m \in Nat /\ z \in Nat /\ MaxLine \in Nat
          /\ e \in Breaks(p) /\ e \in Nat /\ s < e /\ e <= z
          /\ \A i \in Breaks(p) : i \in Nat /\ (i <= s \/ e <= i)
          /\ raw \in Seq(Byte) /\ l = e - 1 - s
          /\ l <= MaxLine - 1
      BY <1>1, <1>3, <2>1, <2>2, <2>3, LineIs
    <2>5. l \in Nat /\ l <= room /\ DOMAIN raw = 1 .. l
      <3>1. l \in Nat /\ DOMAIN raw = 1 .. l
        BY <2>3, <2>4, LenProperties
      <3>2. room \in Nat /\ room >= MaxLine - 1 /\ l <= MaxLine - 1 /\ MaxLine \in Nat
        BY <2>4
      <3>3. l <= room
        BY ONLY <3>1, <3>2
      <3> QED
        BY <3>1, <3>3
    <2>6. r.at # m /\ r.at < m
      BY <2>4
    <2>7. /\ q \in Reader /\ q.path = r.path /\ q.old = r.old /\ q.taken = 0
          /\ \A i \in 1 .. Len(q.line) : q.line[i] # EopChar
      BY <2>2, <2>6, NextLineReads
    <2>8. Len(q.line) = l + 1 /\ q.at = IF e > m THEN m ELSE e
      BY <2>1, <2>2, <2>3, <2>4, <2>5, <2>6, LineKept
    <2>9. l + 1 = e - s /\ l + 1 \in Nat /\ l + 1 >= 1
      BY ONLY <2>4, <2>5
    <2>10. OnLine(q, s)
      <3> HIDE DEF q
      <3> QED
        BY <2>2, <2>4, <2>7, <2>8, <2>9 DEF OnLine
    <2>11. ASSUME NEW x \in LineErrors(r, room)
           PROVE  /\ x[2] = IllegalCharErr /\ x[1] \in Nat
                  /\ s + x[1] \in 1 .. Size(p)
                  /\ Begins(p, s + x[1], s)
      <3>1. PICK i \in DOMAIN raw : x = <<i, IllegalCharErr>>
        <4>1. \A j \in DOMAIN raw : ~(j > room)
          BY <2>5
        <4> QED
          BY <2>3, <2>11, <4>1 DEF LineErrors
      <3>2. i \in Nat /\ 1 <= i /\ i <= l
        BY <2>5
      <3>3. x[1] = i /\ x[2] = IllegalCharErr
        BY <3>1
      <3>4. s + i \in 1 .. z /\ s < s + i /\ s + i < e
        BY ONLY <2>4, <3>2
      <3>5. ASSUME NEW j \in Breaks(p) PROVE j <= s \/ s + i <= j
        <4>1. j \in Nat /\ (j <= s \/ e <= j)
          BY <2>4
        <4>2. s + i < e /\ e \in Nat /\ s \in Nat /\ i \in Nat
          BY <2>4, <3>2, <3>4
        <4> QED
          BY ONLY <4>1, <4>2
      <3> QED
        BY <2>2, <3>2, <3>3, <3>4, <3>5 DEF Begins
    <2> HIDE DEF q
    <2> QED
      BY <1>2, <2>7, <2>8, <2>9, <2>10, <2>11 DEF q
  <1>4. CASE s = Size(p)
    <2>1. r.at = N
      <3>1. r.at = (IF s > N THEN N ELSE s)
        BY DEF Awaits
      <3> HIDE DEF N, p
      <3> QED
        BY <1>1, <1>4, <3>1
    <2>2. /\ q \in Reader /\ q.path = r.path /\ q.old = r.old /\ q.taken = 0 /\ q.at = r.at
          /\ AtEnd(q)
      BY <2>1, LastLineReads
    <2>3. Len(q.line) = 2
      BY <2>2 DEF AtEnd
    <2>4. OnLine(q, s)
      BY <1>4, <2>1, <2>2 DEF OnLine
    <2>5. LineErrors(r, room) = {}
      <3>1. EndOfLine(r) = N + 1
        <4>1. { i \in r.at + 1 .. N : text[p][i] = Newline } = {}
          <5>0. \A k \in Nat : k + 1 .. k = {}
            OBVIOUS
          <5>1. r.at + 1 .. N = {}
            <6> HIDE DEF N
            <6> QED
              BY <1>1, <2>1, <5>0
          <5> QED
            BY <5>1
        <4> QED
          BY <4>1 DEF EndOfLine
      <3>2. Raw(r) = SubSeq(text[p], N + 1, N)
        <4>1. (N + 1) - 1 = N
          BY <1>1
        <4> QED
          BY <2>1, <3>1, <4>1 DEF Raw
      <3>3. Raw(r) \in Seq(Byte) /\ Len(Raw(r)) = 0
        BY <1>1, <3>2, SubSeqProperties
      <3>4. DOMAIN Raw(r) = {}
        BY <3>3, LenProperties
      <3> QED
        BY <3>4 DEF LineErrors
    <2> QED
      BY <1>2, <2>2, <2>3, <2>4, <2>5
  <1> QED
    BY <1>1, <1>3, <1>4


(* R has read char O, the last of a line or none, and has no line to go on with. *)
StartsLine(r, o) ==
  /\ r \in Reader
  /\ o \in {0} \cup Breaks(r.path)
  /\ Awaits(r, o)
  /\ r.taken = Len(r.line)
  /\ Closes(r)

(* R has read char O, and can read on. *)
Reading(r, o) ==
  \/ Placed(r, o) /\ o <= Size(r.path)
  \/ StartsLine(r, o)

(* The errors that reading a char finds in its line, Q being R after it. *)
News(r, q, room) == IF q.row = r.row THEN {} ELSE LineErrors(r, room)

(* The end of a line is at its break, before the end of the program. *)
LEMMA AtBreak ==
  ASSUME text \in Texts, NEW r, NEW o, Placed(r, o), o <= Size(r.path), r.taken = Len(r.line)
  PROVE  StartsLine(r, o)
  <1> DEFINE p == r.path
  <1>1. /\ r \in Reader /\ p \in Path /\ o \in Nat /\ 1 <= o
        /\ Size(p) \in Nat
        /\ \A i \in Breaks(p) : i \in Nat /\ 1 <= i /\ i <= Size(p)
    BY BreakFacts DEF Placed, Reader
  <1>2. PICK s \in {0} \cup Breaks(p) : /\ Begins(p, o, s) /\ r.row = Row(p, s)
                                        /\ r.taken = o - s /\ OnLine(r, s)
    BY DEF Placed
  <1>3. s \in Nat /\ s < o
    BY <1>1, <1>2 DEF Begins
  <1>4. PICK e \in Breaks(p) :
          /\ s < e
          /\ \A i \in Breaks(p) : i <= s \/ e <= i
          /\ Len(r.line) = e - s
          /\ r.at = IF e > Len(text[p]) THEN Len(text[p]) ELSE e
    <2>1. ~(s = Size(p))
      BY <1>1, <1>3
    <2> QED
      BY <1>2, <2>1 DEF OnLine
  <1>5. e = o
    <2>1. e \in Nat /\ o - s = e - s
      BY <1>1, <1>2, <1>4
    <2> QED
      BY ONLY <1>1, <1>3, <2>1
  <1>6. Row(p, e) = Row(p, s) + 1
    <2>1. Upto(p, e) = Upto(p, s) \cup {e}
      <3>1. ASSUME NEW i \in Breaks(p) PROVE i <= e <=> (i <= s \/ i = e)
        <4>1. i \in Nat /\ e \in Nat /\ (i <= s \/ e <= i) /\ s < e
          BY <1>1, <1>4
        <4> QED
          BY ONLY <1>3, <4>1
      <3> QED
        BY <3>1, <1>4 DEF Upto
    <2>2. e \notin Upto(p, s)
      BY <1>1, <1>3, <1>4 DEF Upto
    <2>3. IsFiniteSet(Upto(p, s))
      <3>1. Upto(p, s) \subseteq 1 .. Size(p) /\ IsFiniteSet(1 .. Size(p))
        BY <1>1, FS_Interval DEF Upto
      <3> QED
        BY <3>1, FS_Subset
    <2>4. Cardinality(Upto(p, s)) \in Nat /\ Cardinality(Upto(p, s) \cup {e}) = Cardinality(Upto(p, s)) + 1
      BY <2>2, <2>3, FS_AddElement, FS_CardinalityType
    <2> QED
      BY <2>1, <2>4 DEF Row
  <1> QED
    BY <1>1, <1>2, <1>4, <1>5, <1>6 DEF StartsLine, Awaits, Placed

(* The next char of a line. *)
LEMMA InLine ==
  ASSUME text \in Texts, NEW r, NEW o, Placed(r, o), o <= Size(r.path), r.taken # Len(r.line)
  PROVE  LET q == [r EXCEPT !.taken = @ + 1]
         IN Placed(q, o + 1) /\ q.path = r.path /\ q.old = r.old /\ q.row = r.row
  <1> DEFINE p == r.path
             q == [r EXCEPT !.taken = @ + 1]
  <1>1. /\ r \in Reader /\ p \in Path /\ o \in Nat /\ 1 <= o
        /\ Size(p) \in Nat
        /\ \A i \in Breaks(p) : i \in Nat /\ 1 <= i /\ i <= Size(p)
    BY BreakFacts DEF Placed, Reader
  <1>2. PICK s \in {0} \cup Breaks(p) : /\ Begins(p, o, s) /\ r.row = Row(p, s)
                                        /\ r.taken = o - s /\ OnLine(r, s)
    BY DEF Placed
  <1>3. s \in Nat /\ s < o
    BY <1>1, <1>2 DEF Begins
  <1>4. PICK e \in Breaks(p) :
          /\ s < e
          /\ \A i \in Breaks(p) : i <= s \/ e <= i
          /\ Len(r.line) = e - s
    <2>1. ~(s = Size(p))
      BY <1>1, <1>3
    <2> QED
      BY <1>2, <2>1 DEF OnLine
  <1>5. o < e
    <2>1. e \in Nat /\ (e <= s \/ o <= e) /\ s < e /\ o - s # e - s
      BY <1>1, <1>2, <1>4 DEF Begins
    <2> QED
      BY ONLY <1>1, <1>3, <2>1
  <1>6. Begins(p, o + 1, s)
    <2>1. ASSUME NEW i \in Breaks(p) PROVE i <= s \/ o + 1 <= i
      <3>1. i \in Nat /\ e \in Nat /\ (i <= s \/ e <= i)
        BY <1>1, <1>4
      <3> QED
        BY ONLY <1>1, <1>5, <3>1
    <2>2. s < o + 1
      BY <1>1, <1>3
    <2> QED
      BY <1>2, <2>1, <2>2 DEF Begins
  <1>7. /\ q \in Reader /\ q.path = r.path /\ q.old = r.old /\ q.row = r.row
        /\ q.line = r.line /\ q.at = r.at /\ q.taken = r.taken + 1 /\ q.open = r.open
    BY <1>1 DEF Reader
  <1> HIDE DEF q
  <1>8. OnLine(q, s)
    BY <1>2, <1>7 DEF OnLine, AtEnd
  <1>9. o + 1 \in 1 .. Size(p) + 1 /\ q.taken = (o + 1) - s
    BY <1>1, <1>2, <1>3, <1>7
  <1>10. Closes(q)
    BY <1>7 DEF Closes, AtEnd, Placed
  <1> QED
    BY <1>2, <1>6, <1>7, <1>8, <1>9, <1>10 DEF Placed, q

(* No last line ends with an apostrophe. *)
LEMMA LineCloses ==
  ASSUME text \in Texts, LinesFit, NoOpenQuote, NEW r \in Reader,
         NEW s \in {0} \cup Breaks(r.path), Awaits(r, s), Closes(r),
         NEW room \in Nat, room >= MaxLine - 1
  PROVE  Closes(NextLine(r, room))
  <1> DEFINE p == r.path
             N == Len(text[p])
             t == NextLine(r, room)
  <1>1. /\ p \in Path /\ N \in Nat /\ Size(p) \in Nat /\ s \in Nat /\ s <= Size(p)
        /\ r.at \in Nat /\ text[p] \in Seq(Byte) /\ MaxLine \in Nat \ {0}
        /\ Size(p) <= N + 1
    BY BreakFacts, TextFacts, PlacesAssumption DEF Reader
  <1>2. CASE s = Size(p)
    <2>1. r.at = N
      <3>1. r.at = (IF s > N THEN N ELSE s) /\ N <= Size(p)
        BY <1>1, BreakFacts DEF Awaits
      <3> HIDE DEF N, p
      <3> QED
        BY <1>1, <1>2, <3>1
    <2>2. AtEnd(t) /\ t.open = EndsOpen(r.line)
      BY <2>1, LastLineReads
    <2>3. ~EndsOpen(t.line)
      BY <2>2 DEF AtEnd, EndsOpen, EopChar, Apostrophe
    <2> HIDE DEF t
    <2> QED
      BY <2>1, <2>2, <2>3 DEF Closes, t
  <1>3. CASE s < Size(p)
    <2>1. PICK e, raw, l, m : e = EndOfLine(r) /\ raw = Raw(r) /\ l = Len(raw) /\ m = N
      OBVIOUS
    <2>2. /\ r.at = s /\ s < m /\ m \in Nat
          /\ e \in Nat /\ s < e /\ e <= m + 1
          /\ raw \in Seq(Byte) /\ l = e - 1 - s /\ l <= MaxLine - 1
      BY <1>1, <1>3, <2>1, LineIs
    <2>3. t.path = p /\ ~AtEnd(t)
      <3>1. t.path = p /\ \A i \in 1 .. Len(t.line) : t.line[i] # EopChar
        BY <2>1, <2>2, NextLineReads
      <3>2. AtEnd(t) => 1 \in 1 .. Len(t.line) /\ t.line[1] = EopChar
        BY DEF AtEnd
      <3> HIDE DEF t
      <3> QED
        BY <3>1, <3>2
    <2>4. ASSUME t.at = m, EndsOpen(t.line)
          PROVE  FALSE
      <3>1. l \in Nat /\ l <= room /\ DOMAIN raw = 1 .. l
        <4>1. l \in Nat /\ DOMAIN raw = 1 .. l
          BY <2>1, <2>2, LenProperties
        <4>2. l <= MaxLine - 1 /\ room >= MaxLine - 1
          BY <2>2
        <4> QED
          BY <1>1, <4>1, <4>2
      <3>2. l >= 1 /\ raw[l] = Apostrophe
        <4>1. /\ r.at # Len(text[r.path]) /\ Raw(r) \in Seq(Byte)
              /\ Len(Raw(r)) = l /\ l <= room
          BY <2>1, <2>2, <3>1
        <4>2. EndsOpen(NextLine(r, room).line) =>
                Len(Raw(r)) >= 1 /\ Raw(r)[Len(Raw(r))] = Apostrophe
          BY <4>1, LineKept
        <4> QED
          BY <2>1, <2>4, <4>1, <4>2
      <3>3. raw[l] = text[p][e - 1] /\ e - 1 \in Nat /\ e >= 2
        <4>1. e > s + 1 /\ e - 1 \in Nat /\ e >= 2
          BY <1>1, <2>2, <3>2
        <4>2. Raw(r)[e - 1 - s] = text[p][e - 1]
          BY <1>3, <2>1, <4>1, LineIs
        <4> QED
          BY <2>1, <2>2, <4>1, <4>2
      <3>4. e = m \/ e = m + 1
        <4>1. t.at = IF e > m THEN m ELSE e
          BY <2>1, <2>2, <3>1, LineKept
        <4> HIDE DEF t
        <4> QED
          BY <2>2, <2>4, <4>1
      <3>5. e = m => text[p][e] = Newline
        <4>1. EndOfLine(r) <= Len(text[r.path]) => text[r.path][EndOfLine(r)] = Newline
          BY <1>3, LineIs
        <4>2. e <= m => text[p][e] = Newline
          BY <2>1, <4>1
        <4> QED
          BY <2>2, <4>2
      <3>6. PICK w, y : w = text[p] /\ y = Len(w)
        OBVIOUS
      <3>7. ~OpenQuote(w)
        BY <1>1, <3>6 DEF NoOpenQuote
      <3>8. y = m /\ w[e - 1] = Apostrophe /\ (e = m => w[e] = Newline)
        BY <2>1, <3>2, <3>3, <3>5, <3>6
      <3>9. CASE e = m
        <4>1. y > 1 /\ w[y] = Newline /\ w[y - 1] = Apostrophe
          BY <2>2, <3>3, <3>8, <3>9
        <4> QED
          BY <3>6, <3>7, <4>1 DEF OpenQuote
      <3>10. CASE e = m + 1
        <4>1. y > 0 /\ w[y] = Apostrophe
          BY <2>2, <3>3, <3>8, <3>10
        <4> QED
          BY <3>6, <3>7, <4>1 DEF OpenQuote
      <3> QED
        BY <3>4, <3>9, <3>10
    <2> HIDE DEF t
    <2> QED
      BY <2>1, <2>3, <2>4 DEF Closes, t
  <1> QED
    BY <1>1, <1>2, <1>3

(* The first char of the next line. *)
LEMMA LineTurned ==
  ASSUME text \in Texts, LinesFit, NoOpenQuote, NEW r, NEW o, StartsLine(r, o),
         NEW room \in Nat, room >= MaxLine - 1
  PROVE  LET q == NextChar(r, room)
         IN /\ Placed(q, o + 1) /\ q.path = r.path /\ q.old = r.old
            /\ \A n \in News(r, q, room) :
                 /\ n[2] = IllegalCharErr /\ n[1] \in Nat /\ o + n[1] \in 1 .. Size(r.path)
                 /\ IsSpot(r.path, o + n[1], <<q.path, q.row, n[1]>>)
  <1>1. PICK p, t, q : p = r.path /\ t = NextLine(r, room) /\ q = NextChar(r, room)
    OBVIOUS
  <1>2. /\ r \in Reader /\ o \in {0} \cup Breaks(p) /\ Awaits(r, o)
        /\ q = [t EXCEPT !.taken = @ + 1]
    BY <1>1 DEF StartsLine, NextChar
  <1>3. /\ t \in Reader /\ t.path = r.path /\ t.old = r.old /\ t.taken = 0
        /\ t.row = Row(p, o) /\ t.row # r.row
        /\ OnLine(t, o) /\ Len(t.line) \in Nat /\ Len(t.line) >= 1
        /\ \A n \in LineErrors(r, room) :
             /\ n[2] = IllegalCharErr /\ n[1] \in Nat
             /\ o + n[1] \in 1 .. Size(p)
             /\ Begins(p, o + n[1], o)
    BY <1>1, <1>2, NextLineOn
  <1>4. /\ q \in Reader /\ q.path = p /\ q.old = r.old /\ q.row = t.row
        /\ q.line = t.line /\ q.at = t.at /\ q.taken = 1 /\ q.open = t.open
    <2>1. q = [t EXCEPT !.taken = 1]
      <3>1. t.taken + 1 = 1
        BY <1>3
      <3> QED
        BY <1>2, <3>1
    <2>2. t \in Reader /\ t.path = p
      BY <1>1, <1>3
    <2> QED
      BY <1>3, <2>1, <2>2 DEF Reader
  <1>5. OnLine(q, o)
    BY <1>1, <1>3, <1>4 DEF OnLine, AtEnd
  <1>6. /\ p \in Path /\ Size(p) \in Nat /\ o \in Nat /\ o <= Size(p)
        /\ \A i \in Breaks(p) : i \in Nat
    BY <1>1, <1>2, BreakFacts DEF Reader
  <1>7. Begins(p, o + 1, o)
    BY <1>2, <1>6 DEF Begins
  <1>8. o + 1 \in 1 .. Size(p) + 1 /\ q.taken = (o + 1) - o
    BY <1>4, <1>6
  <1>9. Placed(q, o + 1)
    <2>1. Closes(t)
      BY <1>1, <1>2, LineCloses DEF StartsLine
    <2>2. Closes(q)
      BY <1>1, <1>3, <1>4, <2>1 DEF Closes, AtEnd
    <2> QED
      BY <1>2, <1>3, <1>4, <1>5, <1>7, <1>8, <2>2 DEF Placed
  <1>10. ASSUME NEW n \in News(r, q, room)
         PROVE  /\ n[2] = IllegalCharErr /\ n[1] \in Nat /\ o + n[1] \in 1 .. Size(p)
                /\ IsSpot(p, o + n[1], <<q.path, q.row, n[1]>>)
    <2>1. n \in LineErrors(r, room)
      BY <1>10 DEF News
    <2>2. /\ n[2] = IllegalCharErr /\ n[1] \in Nat
          /\ o + n[1] \in 1 .. Size(p)
          /\ Begins(p, o + n[1], o)
      BY <1>3, <2>1
    <2>3. n[1] = (o + n[1]) - o
      BY <1>6, <2>2
    <2>4. <<q.path, q.row, n[1]>> = <<p, Row(p, o), (o + n[1]) - o>>
      BY <1>3, <1>4, <2>3
    <2> QED
      BY <1>2, <2>2, <2>4 DEF IsSpot
  <1> QED
    BY <1>1, <1>4, <1>9, <1>10

(* NEXT CHAR reads the next char, and finds errors at chars of its line. *)
LEMMA NextCharOn ==
  ASSUME text \in Texts, LinesFit, NoOpenQuote, NEW r, NEW o, Reading(r, o),
         NEW room \in Nat, room >= MaxLine - 1
  PROVE  LET q == NextChar(r, room)
         IN /\ Placed(q, o + 1) /\ q.path = r.path /\ q.old = r.old
            /\ \A n \in News(r, q, room) :
                 /\ n[2] = IllegalCharErr /\ n[1] \in Nat /\ o + n[1] \in 1 .. Size(r.path)
                 /\ IsSpot(r.path, o + n[1], <<q.path, q.row, n[1]>>)
  <1>1. CASE StartsLine(r, o)
    BY <1>1, LineTurned
  <1>2. CASE Placed(r, o) /\ o <= Size(r.path) /\ r.taken = Len(r.line)
    BY <1>2, AtBreak, LineTurned
  <1>3. CASE Placed(r, o) /\ o <= Size(r.path) /\ r.taken # Len(r.line)
    <2>1. PICK q : q = NextChar(r, room)
      OBVIOUS
    <2>2. q = [r EXCEPT !.taken = @ + 1]
      BY <1>3, <2>1 DEF NextChar
    <2>3. Placed(q, o + 1) /\ q.path = r.path /\ q.old = r.old /\ q.row = r.row
      BY <1>3, <2>2, InLine
    <2>4. News(r, q, room) = {}
      BY <2>3 DEF News
    <2> QED
      BY <2>1, <2>3, <2>4
  <1> QED
    BY <1>1, <1>2, <1>3 DEF Reading

(* A char that was read is at its spot, and only the last one is the EOP CHAR. *)
LEMMA PlacedFacts ==
  ASSUME text \in Texts, NEW r, NEW o, Placed(r, o)
  PROVE  /\ r \in Reader /\ r.path \in Path /\ o \in 1 .. Size(r.path) + 1
         /\ IsSpot(r.path, o, Spot(r))
         /\ Ch(r) = EopChar <=> o = Size(r.path) + 1
         /\ Ch(r) = EopChar => ~r.open
         /\ r # Closed
  <1> DEFINE p == r.path
  <1>1. /\ r \in Reader /\ p \in Path /\ o \in Nat /\ 1 <= o /\ o <= Size(p) + 1
        /\ Size(p) \in Nat
        /\ \A i \in Breaks(p) : i \in Nat /\ 1 <= i /\ i <= Size(p)
    BY BreakFacts DEF Placed, Reader
  <1>2. PICK s \in {0} \cup Breaks(p) : /\ Begins(p, o, s) /\ r.row = Row(p, s)
                                        /\ r.taken = o - s /\ OnLine(r, s)
    BY DEF Placed
  <1>3. s \in Nat /\ s < o
    BY <1>1, <1>2 DEF Begins
  <1>4. IsSpot(p, o, Spot(r))
    BY <1>2 DEF IsSpot, Spot
  <1>5. r # Closed
    <2>1. r.row >= 1 /\ r.row \in Nat
      BY <1>1, <1>2, RowFacts
    <2>2. Closed.row = 0
      BY DEF Closed, Opened
    <2> QED
      BY <2>1, <2>2
  <1>6. (Ch(r) = EopChar <=> o = Size(p) + 1) /\ (Ch(r) = EopChar => ~r.open)
    <2>1. CASE AtEnd(r) /\ s = Size(p)
      <3>1. o = Size(p) + 1 /\ r.taken = 1
        BY <1>1, <1>2, <1>3, <2>1
      <3>2. r.line[1] = EopChar
        BY <2>1 DEF AtEnd
      <3>3. ~r.open
        BY <2>1 DEF Placed, Closes
      <3> QED
        BY <3>1, <3>2, <3>3 DEF Ch
    <2>2. ASSUME NEW e \in Breaks(p), s < e, Len(r.line) = e - s,
                 \A i \in 1 .. Len(r.line) : r.line[i] # EopChar
          PROVE  Ch(r) # EopChar /\ o # Size(p) + 1
      <3>1. e \in Nat /\ e <= Size(p) /\ (e <= s \/ o <= e)
        BY <1>1, <1>2 DEF Begins
      <3>2. o - s \in 1 .. e - s /\ o <= Size(p)
        BY <1>1, <1>3, <2>2, <3>1
      <3>3. r.taken \in 1 .. Len(r.line)
        BY <1>2, <2>2, <3>2
      <3>4. r.line[r.taken] # EopChar
        BY <2>2, <3>3
      <3>5. o # Size(p) + 1
        BY <1>1, <3>2
      <3> QED
        BY <3>4, <3>5 DEF Ch
    <2> QED
      BY <1>2, <2>1, <2>2 DEF OnLine
  <1> QED
    BY <1>1, <1>4, <1>5, <1>6


-----------------------------------------------------------------------------
(* What stays while no file changes *)

(* Chars stay at their spots. *)
LEMMA TextStays ==
  ASSUME text' = text
  PROVE  /\ \A p : Size(p)' = Size(p) /\ Breaks(p)' = Breaks(p)
         /\ \A p, o, q : IsSpot(p, o, q)' <=> IsSpot(p, o, q)
         /\ \A r, o : Placed(r, o)' <=> Placed(r, o)
  <1>1. \A p : Size(p)' = Size(p) /\ Breaks(p)' = Breaks(p)
    BY DEF Size, Breaks
  <1>2. \A p, s : Row(p, s)' = Row(p, s)
    BY <1>1 DEF Row, Upto
  <1>3. \A p, o, s : Begins(p, o, s)' <=> Begins(p, o, s)
    BY <1>1 DEF Begins
  <1>4. \A p, o, q : IsSpot(p, o, q)' <=> IsSpot(p, o, q)
    BY <1>1, <1>2, <1>3 DEF IsSpot
  <1>5. \A r, s : OnLine(r, s)' <=> OnLine(r, s)
    BY <1>1 DEF OnLine
  <1>6. \A r : Closes(r)' <=> Closes(r)
    BY DEF Closes
  <1>7. \A r, o : Placed(r, o)' <=> Placed(r, o)
    BY <1>1, <1>2, <1>3, <1>5, <1>6 DEF Placed
  <1> QED
    BY <1>1, <1>4, <1>7

(* Files may be added: the places of the others stay. *)
FilesGrow ==
  /\ text' = text
  /\ OrsonFiles \subseteq OrsonFiles'
  /\ \A i \in OrsonFiles : files'[i] = files[i]

(* The place of a char count stays when files are added. *)
LEMMA PlacesStay ==
  ASSUME FilesGrow
  PROVE  /\ \A c, q : IsPlace(c, q) => IsPlace(c, q)'
         /\ \A q : Known(q) => Known(q)'
  <1>1. \A i \in OrsonFiles : Base(i)' = Base(i)
    BY DEF FilesGrow, Base
  <1>2. \A c, q : IsPlace(c, q) => IsPlace(c, q)'
    BY <1>1, TextStays DEF IsPlace, FilesGrow
  <1>3. \A q : Known(q) => Known(q)'
    BY TextStays DEF Known, FilesGrow
  <1> QED
    BY <1>2, <1>3

(* A step that leaves FILES alone adds no file. *)
LEMMA FilesSame ==
  ASSUME UNCHANGED <<text, files>>
  PROVE  FilesGrow /\ OrsonFiles' = OrsonFiles
  BY DEF FilesGrow, OrsonFiles

-----------------------------------------------------------------------------
(* The order of char counts is the order of spots *)

(* A file is opened. *)
LEMMA Opening ==
  ASSUME text \in Texts, NEW p \in Path, NEW old \in Int
  PROVE  StartsLine(Opened(p, old), 0) /\ Opened(p, old).path = p
  <1> DEFINE r == Opened(p, old)
  <1>1. /\ r \in Reader /\ r.path = p /\ r.at = 0 /\ r.row = 0 /\ r.line = <<>> /\ r.taken = 0
    BY DEF Opened, Reader
  <1> HIDE DEF r
  <1>2. Len(text[p]) \in Nat /\ Row(p, 0) = 1
    BY BreakFacts, RowFacts
  <1>3. Awaits(r, 0)
    <2>1. ~(0 > Len(text[p]))
      BY <1>2
    <2> QED
      BY <1>1, <1>2, <2>1 DEF Awaits
  <1>4. Len(<<>>) = 0
    OBVIOUS
  <1>5. Closes(r)
    BY <1>1, <1>4 DEF Closes, EndsOpen, AtEnd
  <1> QED
    BY <1>1, <1>3, <1>4, <1>5 DEF StartsLine, r

(* The char counts of all files are ints. *)
LEMMA CountsFit ==
  ASSUME PlacesTyped, FilesApart, Len(files) <= MaxFile
  PROVE  /\ Span \in Nat /\ Half \in Nat
         /\ \A i \in OrsonFiles :
              /\ i \in DOMAIN files /\ i \in Nat /\ files[i].path \in Path
              /\ Base(i) \in Nat /\ Base(i) + Span <= Half
              /\ Size(files[i].path) \in Nat /\ Size(files[i].path) + 2 <= Span
         /\ DOMAIN files = 1 .. Len(files) /\ Len(files) \in Nat
         /\ \A i, j \in OrsonFiles : i < j => Base(i) + Span <= Base(j)
  <1>1. /\ Span \in Nat \ {0} /\ MaxFile \in Nat \ {0} /\ Half \in Nat /\ Half = Span * MaxFile
        /\ fileCount \in Int /\ fileCount + 1 \in Nat
    <2>1. fileCount \in -1 .. MaxFile /\ MaxFile \in Nat
      BY HalfFacts DEF PlacesTyped
    <2> QED
      BY <2>1, HalfFacts DEF Half
  <1>2. Len(files) \in Nat /\ DOMAIN files = 1 .. Len(files)
    BY LenProperties DEF PlacesTyped
  <1>3. PICK n \in Nat : n = fileCount + 1
    BY <1>1
  <1>4. n <= MaxFile
    BY <1>1, <1>2, <1>3 DEF FilesApart
  <1>5. n * Span \in Nat /\ n * Span <= Half
    BY <1>1, <1>3, <1>4
  <1>6. ASSUME NEW i \in OrsonFiles
        PROVE  /\ i \in DOMAIN files /\ i \in Nat /\ files[i].path \in Path
               /\ Base(i) \in Nat /\ Base(i) + Span <= Half
               /\ Size(files[i].path) \in Nat /\ Size(files[i].path) + 2 <= Span
    <2>1. /\ Base(i) \in Nat /\ Base(i) + Span <= n * Span
          /\ files[i].path \in Path /\ Size(files[i].path) + 2 <= Span
      BY <1>3 DEF FilesApart
    <2>2. Size(files[i].path) \in Nat
      BY <2>1, BreakFacts DEF PlacesTyped
    <2>3. i \in DOMAIN files /\ i \in Nat
      BY <1>2 DEF OrsonFiles
    <2>4. Base(i) + Span <= Half
      <3>1. PICK b, m : b = Base(i) /\ m = n * Span
        OBVIOUS
      <3>2. b \in Nat /\ Span \in Nat /\ m \in Nat /\ Half \in Nat /\ m <= Half /\ b + Span <= m
        BY <1>1, <1>5, <2>1, <3>1
      <3>3. b + Span <= Half
        BY ONLY <3>2
      <3> QED
        BY <3>1, <3>3
    <2> QED
      BY <2>1, <2>2, <2>3, <2>4
  <1>7. \A i, j \in OrsonFiles : i < j => Base(i) + Span <= Base(j)
    BY DEF FilesApart
  <1> QED
    BY <1>1, <1>2, <1>6, <1>7

(* No char count of a file overflows while there is a number for each *)
(* file.                                                              *)
LEMMA CountsStay ==
  ASSUME PlacesTyped, FilesApart, Len(files) <= MaxFile,
         NEW i \in OrsonFiles, NEW k \in Nat, k < Span
  PROVE  Int32(Base(i) + k) = Base(i) + k
  <1>1. /\ Base(i) \in Nat /\ Base(i) + Span <= Half /\ Span \in Nat /\ Half \in Nat
    BY CountsFit
  <1>2. Base(i) + k \in Int /\ -Half <= Base(i) + k /\ Base(i) + k < Half
    BY <1>1
  <1> QED
    BY <1>2, Int32Facts

(* A char count tells the file and the char. *)
LEMMA OneCount ==
  ASSUME PlacesTyped, FilesApart, Len(files) <= MaxFile,
         NEW i \in OrsonFiles, NEW o \in 1 .. Size(files[i].path) + 1,
         NEW j \in OrsonFiles, NEW k \in 1 .. Size(files[j].path) + 1
  PROVE  /\ i \in Nat /\ j \in Nat /\ o \in Nat /\ k \in Nat
         /\ Base(i) + o \in Nat /\ Base(j) + k \in Nat
         /\ i < j => Base(i) + o < Base(j) + k
         /\ i = j /\ o < k => Base(i) + o < Base(j) + k
         /\ Base(i) + o = Base(j) + k => i = j /\ o = k
         /\ Base(i) + o < Base(j) + k => i < j \/ (i = j /\ o < k)
  <1>1. PICK bi, bj, si, sj : /\ bi = Base(i) /\ bj = Base(j)
                              /\ si = Size(files[i].path) /\ sj = Size(files[j].path)
    OBVIOUS
  <1>2. /\ i \in Nat /\ bi \in Nat /\ si \in Nat /\ si + 2 <= Span
        /\ j \in Nat /\ bj \in Nat /\ sj \in Nat /\ sj + 2 <= Span /\ Span \in Nat
    BY <1>1, CountsFit
  <1>3. o \in Nat /\ 1 <= o /\ o <= si + 1 /\ k \in Nat /\ 1 <= k /\ k <= sj + 1
    BY <1>1, <1>2
  <1>4. /\ i < j => bi + Span <= bj
        /\ j < i => bj + Span <= bi
        /\ i = j => bi = bj
    BY <1>1, CountsFit
  <1>5. /\ i < j => bi + o < bj + k
        /\ j < i => bj + k < bi + o
        /\ i = j /\ o < k => bi + o < bj + k
        /\ i = j /\ k < o => bj + k < bi + o
    BY ONLY <1>2, <1>3, <1>4
  <1>6. i < j \/ j < i \/ i = j
    BY <1>2
  <1>7. o < k \/ k < o \/ o = k
    BY <1>3
  <1>8. bi + o = bj + k => i = j /\ o = k
    BY ONLY <1>2, <1>3, <1>5, <1>6, <1>7
  <1>9. bi + o < bj + k => i < j \/ (i = j /\ o < k)
    BY ONLY <1>2, <1>3, <1>4, <1>5, <1>6, <1>7
  <1>10. bi + o \in Nat /\ bj + k \in Nat
    BY <1>2, <1>3
  <1> QED
    BY <1>1, <1>2, <1>3, <1>5, <1>8, <1>9, <1>10

(* Of two spots of the files only one comes before the other. *)
LEMMA BeforeAsymmetric ==
  ASSUME FilesApart, PlacesTyped, NEW q \in Path \X Nat \X Nat, NEW r \in Path \X Nat \X Nat,
         Shown!Before(q, r)
  PROVE  ~Shown!Before(r, q)
  <1>1. \A i, j \in DOMAIN files : files[i].path = files[j].path => i = j
    BY DEF FilesApart
  <1>2. DOMAIN files = 1 .. Len(files) /\ Len(files) \in Nat
    BY LenProperties DEF PlacesTyped
  <1>3. DOMAIN OrderOf = DOMAIN files /\ \A i \in DOMAIN files : OrderOf[i] = files[i].path
    BY DEF OrderOf
  <1>4. q[2] \in Nat /\ q[3] \in Nat /\ r[2] \in Nat /\ r[3] \in Nat
    OBVIOUS
  <1>5. \/ \E i, j \in DOMAIN files : i < j /\ files[i].path = q[1] /\ files[j].path = r[1]
        \/ q[1] = r[1] /\ q[2] < r[2]
        \/ q[1] = r[1] /\ q[2] = r[2] /\ q[3] < r[3]
    BY <1>3 DEF Shown!Before
  <1> SUFFICES ASSUME Shown!Before(r, q) PROVE FALSE
    OBVIOUS
  <1>6. \/ \E i, j \in DOMAIN files : i < j /\ files[i].path = r[1] /\ files[j].path = q[1]
        \/ r[1] = q[1] /\ r[2] < q[2]
        \/ r[1] = q[1] /\ r[2] = q[2] /\ r[3] < q[3]
    BY <1>3 DEF Shown!Before
  <1>7. CASE q[1] = r[1]
    <2>1. ~\E i, j \in DOMAIN files : i < j /\ files[i].path = r[1] /\ files[j].path = q[1]
      BY <1>1, <1>2, <1>7
    <2> QED
      BY <1>4, <1>5, <1>6, <1>7, <2>1
  <1>8. CASE q[1] # r[1]
    <2>1. PICK i, j \in DOMAIN files : i < j /\ files[i].path = q[1] /\ files[j].path = r[1]
      BY <1>5, <1>8
    <2>2. PICK k, l \in DOMAIN files : k < l /\ files[k].path = r[1] /\ files[l].path = q[1]
      BY <1>6, <1>8
    <2>3. i = l /\ j = k
      BY <1>1, <2>1, <2>2
    <2> QED
      BY <1>2, <2>1, <2>2, <2>3
  <1> QED
    BY <1>7, <1>8

(* The chars of all files are counted in the order of their spots. *)
LEMMA PlacesOrdered ==
  ASSUME PlacesTyped, FilesApart, Len(files) <= MaxFile,
         NEW c, NEW q, NEW d, NEW r, IsPlace(c, q), IsPlace(d, r)
  PROVE  /\ c \in Nat /\ d \in Nat
         /\ q \in Path \X Nat \X Nat /\ r \in Path \X Nat \X Nat
         /\ c < d => Shown!Before(q, r)
         /\ c = d => q = r
         /\ q = r => c = d
  <1>1. PICK i \in OrsonFiles : \E o \in 1 .. Size(files[i].path) + 1 :
               c = Base(i) + o /\ IsSpot(files[i].path, o, q)
    BY DEF IsPlace
  <1>2. PICK o \in 1 .. Size(files[i].path) + 1 : c = Base(i) + o /\ IsSpot(files[i].path, o, q)
    BY <1>1
  <1>3. PICK j \in OrsonFiles : \E k \in 1 .. Size(files[j].path) + 1 :
               d = Base(j) + k /\ IsSpot(files[j].path, k, r)
    BY DEF IsPlace
  <1>4. PICK k \in 1 .. Size(files[j].path) + 1 : d = Base(j) + k /\ IsSpot(files[j].path, k, r)
    BY <1>3
  <1>5. /\ i \in Nat /\ j \in Nat /\ o \in Nat /\ k \in Nat /\ c \in Nat /\ d \in Nat
        /\ c = d => i = j /\ o = k
        /\ c < d => i < j \/ (i = j /\ o < k)
        /\ d < c => j < i \/ (j = i /\ k < o)
    <2>1. /\ i \in Nat /\ j \in Nat /\ o \in Nat /\ k \in Nat /\ c \in Nat /\ d \in Nat
          /\ c = d => i = j /\ o = k
          /\ c < d => i < j \/ (i = j /\ o < k)
      BY <1>2, <1>4, OneCount
    <2>2. d < c => j < i \/ (j = i /\ k < o)
      BY <1>2, <1>4, OneCount
    <2> QED
      BY <2>1, <2>2
  <1>6. /\ text \in Texts
        /\ files[i].path \in Path /\ files[j].path \in Path
        /\ i \in DOMAIN files /\ j \in DOMAIN files
    BY CountsFit DEF PlacesTyped
  <1>7. /\ q \in Path \X Nat \X Nat /\ q[1] = files[i].path
        /\ r \in Path \X Nat \X Nat /\ r[1] = files[j].path
    <2>1. IsSpot(files[i].path, o, q) /\ IsSpot(files[j].path, k, r)
      BY <1>2, <1>4
    <2>2. q \in Path \X Nat \X Nat /\ q[1] = files[i].path
      BY <1>5, <1>6, <2>1, SpotsOrdered
    <2>3. r \in Path \X Nat \X Nat /\ r[1] = files[j].path
      BY <1>5, <1>6, <2>1, SpotsOrdered
    <2> QED
      BY <2>2, <2>3
  <1>8. ASSUME c = d PROVE q = r
    <2>1. i = j /\ o = k
      BY <1>5, <1>8
    <2>2. IsSpot(files[i].path, o, q) /\ IsSpot(files[i].path, o, r)
      BY <1>2, <1>4, <2>1
    <2> QED
      BY <1>5, <1>6, <2>2, OneSpot
  <1>9. c < d => Shown!Before(q, r)
    <2>1. ASSUME i < j PROVE Shown!Before(q, r)
      <3>1. DOMAIN OrderOf = DOMAIN files /\ OrderOf[i] = q[1] /\ OrderOf[j] = r[1]
        BY <1>6, <1>7 DEF OrderOf
      <3> QED
        BY <1>6, <2>1, <3>1 DEF Shown!Before
    <2>2. ASSUME i = j, o < k PROVE Shown!Before(q, r)
      <3>1. q[2] < r[2] \/ (q[2] = r[2] /\ q[3] < r[3])
        BY <1>2, <1>4, <1>5, <1>6, <2>2, SpotsOrdered
      <3> QED
        BY <1>7, <2>2, <3>1 DEF Shown!Before
    <2> QED
      BY <1>5, <2>1, <2>2
  <1>10. d < c => Shown!Before(r, q)
    <2>1. ASSUME j < i PROVE Shown!Before(r, q)
      <3>1. DOMAIN OrderOf = DOMAIN files /\ OrderOf[i] = q[1] /\ OrderOf[j] = r[1]
        BY <1>6, <1>7 DEF OrderOf
      <3> QED
        BY <1>6, <2>1, <3>1 DEF Shown!Before
    <2>2. ASSUME j = i, k < o PROVE Shown!Before(r, q)
      <3>1. r[2] < q[2] \/ (r[2] = q[2] /\ r[3] < q[3])
        BY <1>2, <1>4, <1>5, <1>6, <2>2, SpotsOrdered
      <3> QED
        BY <1>7, <2>2, <3>1 DEF Shown!Before
    <2> QED
      BY <1>5, <2>1, <2>2
  <1>11. q = r => c = d
    <2> SUFFICES ASSUME q = r, c # d PROVE FALSE
      OBVIOUS
    <2>1. Shown!Before(q, r) \/ Shown!Before(r, q)
      BY <1>5, <1>9, <1>10
    <2>2. Shown!Before(q, q)
      BY <2>1
    <2> QED
      BY <1>7, <2>2, BeforeAsymmetric
  <1> QED
    BY <1>5, <1>7, <1>8, <1>9, <1>11


-----------------------------------------------------------------------------
(* Errors are kept *)

(* Errors are added at places of files, before any is shown. *)
LEMMA ErrorsMore ==
  ASSUME FilesGrow, ErrorsKept, shown = {}, shown' = {}, NEW new, InsertErrs(new),
         \A n \in new : IsPlace(n[1], n[2])' /\ n[3] \in AnyErr
  PROVE  ErrorsKept' /\ blamed \subseteq blamed'
  <1>1. /\ places' = places \cup { <<n[1], n[3]>> : n \in new }
        /\ blamed' = blamed \cup { <<n[2], n[3]>> : n \in new }
    BY DEF InsertErrs
  <1>2. \A c, q : IsPlace(c, q)' => Known(q)'
    BY DEF IsPlace, Known
  <1>3. ASSUME NEW b \in blamed'
        PROVE  b = <<b[1], b[2]>> /\ b[2] \in AnyErr /\ Known(b[1])'
    <2>1. CASE b \in blamed
      BY <2>1, PlacesStay DEF ErrorsKept
    <2>2. ASSUME NEW n \in new, b = <<n[2], n[3]>>
          PROVE  b = <<b[1], b[2]>> /\ b[2] \in AnyErr /\ Known(b[1])'
      <3>1. b[1] = n[2] /\ b[2] = n[3]
        BY <2>2
      <3> QED
        BY <1>2, <2>2, <3>1
    <2> QED
      BY <1>1, <2>1, <2>2
  <1>4. ASSUME NEW pl \in places'
        PROVE  /\ pl = <<pl[1], pl[2]>>
               /\ \E b \in blamed' : IsPlace(pl[1], b[1])' /\ pl[2] = b[2]
    <2>1. CASE pl \in places
      <3>1. /\ pl = <<pl[1], pl[2]>>
            /\ \E b \in blamed : IsPlace(pl[1], b[1]) /\ pl[2] = b[2]
        BY <2>1 DEF ErrorsKept
      <3>2. PICK b \in blamed : IsPlace(pl[1], b[1]) /\ pl[2] = b[2]
        BY <3>1
      <3>3. b \in blamed' /\ IsPlace(pl[1], b[1])'
        BY <1>1, <3>2, PlacesStay
      <3> QED
        BY <3>1, <3>2, <3>3
    <2>2. ASSUME NEW n \in new, pl = <<n[1], n[3]>>
          PROVE  /\ pl = <<pl[1], pl[2]>>
                 /\ \E b \in blamed' : IsPlace(pl[1], b[1])' /\ pl[2] = b[2]
      <3>1. pl[1] = n[1] /\ pl[2] = n[3] /\ <<n[2], n[3]>> \in blamed'
        BY <1>1, <2>2
      <3>2. PICK b \in blamed' : b = <<n[2], n[3]>>
        BY <3>1
      <3>3. IsPlace(pl[1], b[1])' /\ pl[2] = b[2]
        BY <3>1, <3>2
      <3> QED
        BY <2>2, <3>1, <3>3
    <2> QED
      BY <1>1, <2>1, <2>2
  <1>5. ASSUME NEW b \in blamed'
        PROVE  \E pl \in places' : IsPlace(pl[1], b[1])' /\ pl[2] = b[2]
    <2>1. CASE b \in blamed
      <3>1. PICK pl \in places : IsPlace(pl[1], b[1]) /\ pl[2] = b[2]
        BY <2>1 DEF ErrorsKept
      <3>2. pl \in places' /\ IsPlace(pl[1], b[1])'
        BY <1>1, <3>1, PlacesStay
      <3> QED
        BY <3>1, <3>2
    <2>2. ASSUME NEW n \in new, b = <<n[2], n[3]>>
          PROVE  \E pl \in places' : IsPlace(pl[1], b[1])' /\ pl[2] = b[2]
      <3>1. b[1] = n[2] /\ b[2] = n[3] /\ <<n[1], n[3]>> \in places'
        BY <1>1, <2>2
      <3>2. PICK pl \in places' : pl = <<n[1], n[3]>>
        BY <3>1
      <3>3. IsPlace(pl[1], b[1])' /\ pl[2] = b[2]
        BY <3>1, <3>2
      <3> QED
        BY <3>3
    <2> QED
      BY <1>1, <2>1, <2>2
  <1>6. blamed' \ shown' = blamed' /\ shown' \subseteq blamed'
    OBVIOUS
  <1> QED
    BY <1>1, <1>3, <1>4, <1>5, <1>6 DEF ErrorsKept

(* A step that blames and shows nothing. *)
LEMMA ErrorsStay ==
  ASSUME FilesGrow, ErrorsKept, UNCHANGED <<places, blamed, shown>>
  PROVE  ErrorsKept' /\ blamed \subseteq blamed'
  <1>1. ASSUME NEW pl \in places
        PROVE  /\ pl = <<pl[1], pl[2]>>
               /\ \E b \in blamed \ shown : IsPlace(pl[1], b[1])' /\ pl[2] = b[2]
    BY PlacesStay DEF ErrorsKept
  <1>2. ASSUME NEW b \in blamed \ shown
        PROVE  \E pl \in places : IsPlace(pl[1], b[1])' /\ pl[2] = b[2]
    BY PlacesStay DEF ErrorsKept
  <1>3. \A b \in blamed : b = <<b[1], b[2]>> /\ b[2] \in AnyErr /\ Known(b[1])'
    BY PlacesStay DEF ErrorsKept
  <1> QED
    BY <1>1, <1>2, <1>3 DEF ErrorsKept

(* What was blamed is a spot of a loaded file, before and after a step. *)
LEMMA BlamedAreSpots ==
  ASSUME text \in Texts, text' = text, ErrorsKept', PlacesTyped', NEW b \in blamed'
  PROVE  /\ b \in (Path \X Nat \X Nat) \X AnyErr
         /\ \E i \in DOMAIN files' : files'[i].path = b[1][1]
         /\ b[1][2] <= LastRow(b[1][1])
  <1>1. b = <<b[1], b[2]>> /\ b[2] \in AnyErr /\ Known(b[1])'
    BY DEF ErrorsKept
  <1>2. PICK i \in OrsonFiles' : (\E o \in 1 .. Size(files[i].path) + 1 :
                                   IsSpot(files[i].path, o, b[1]))'
    BY <1>1 DEF Known
  <1>3. PICK p : p = files'[i].path
    OBVIOUS
  <1>4. i \in DOMAIN files' /\ p \in Path
    <2>1. i \in DOMAIN files'
      BY DEF OrsonFiles
    <2>2. files' \in Seq([path : Path, count : Int])
      BY DEF PlacesTyped
    <2>3. files'[i] \in [path : Path, count : Int]
      BY <2>1, <2>2, LenProperties, ElementOfSeq
    <2> QED
      BY <1>3, <2>1, <2>3
  <1>5. PICK o \in 1 .. Size(p) + 1 : IsSpot(p, o, b[1])
    BY <1>2, <1>3, TextStays
  <1>6. o \in Nat
    BY <1>4, BreakFacts
  <1>7. b[1] \in Path \X Nat \X Nat /\ b[1][1] = p
    BY <1>4, <1>5, <1>6, SpotsOrdered
  <1>8. b[1][2] <= LastRow(p)
    BY <1>4, <1>5, SpotInFile
  <1> QED
    BY <1>1, <1>3, <1>4, <1>7, <1>8

(* Nothing is blamed behind the end of a program. *)
LEMMA NothingLost ==
  ASSUME PlacesTyped, ErrorsKept
  PROVE  ~Lost
  <1> SUFFICES ASSUME NEW b \in blamed PROVE ~(b[1][2] > LastRow(b[1][1]))
    BY DEF Lost
  <1>1. Known(b[1]) /\ text \in Texts
    BY DEF ErrorsKept, PlacesTyped
  <1>2. PICK i \in OrsonFiles : \E o \in 1 .. Size(files[i].path) + 1 :
                                  IsSpot(files[i].path, o, b[1])
    BY <1>1 DEF Known
  <1>3. PICK p : p = files[i].path
    OBVIOUS
  <1>4. PICK o : IsSpot(p, o, b[1])
    BY <1>2, <1>3
  <1>5. p \in Path
    <2>1. files \in Seq([path : Path, count : Int]) /\ i \in DOMAIN files
      BY DEF PlacesTyped, OrsonFiles
    <2>2. files[i] \in [path : Path, count : Int]
      BY <2>1, LenProperties, ElementOfSeq
    <2> QED
      BY <1>3, <2>2
  <1>6. b[1][1] = p /\ b[1][2] \in Nat /\ LastRow(p) \in Nat /\ b[1][2] <= LastRow(p)
    BY <1>1, <1>4, <1>5, SpotInFile
  <1> QED
    BY <1>6

(* The same after a step. *)
LEMMA NothingLostAfter ==
  ASSUME text \in Texts, text' = text, ErrorsKept', PlacesTyped'
  PROVE  ~Lost'
  <1>1. \A p : LastRow(p)' = LastRow(p)
    BY TextStays DEF LastRow
  <1>2. ASSUME NEW b \in blamed' PROVE ~(b[1][2] > LastRow(b[1][1])')
    <2>1. PICK q : q = b[1]
      OBVIOUS
    <2>2. q[1] \in Path /\ q[2] \in Nat /\ q[2] <= LastRow(q[1])
      BY <2>1, BlamedAreSpots
    <2>3. LastRow(q[1]) \in Nat
      BY <2>2, RowsNatural
    <2>4. LastRow(b[1][1])' = LastRow(q[1])
      BY <1>1, <2>1
    <2> QED
      BY <2>1, <2>2, <2>3, <2>4
  <1> QED
    BY <1>2 DEF Lost

-----------------------------------------------------------------------------
(* Steps of the report *)

(* The stages of the report, seen from the stages of the program. *)
LEMMA StageFacts ==
  ASSUME PlacesTyped
  PROVE  /\ Len(files) \in Nat /\ MaxFile \in Nat
         /\ Len(files) > MaxFile => StageOf = "overrun"
         /\ Len(files) <= MaxFile /\ ~Lost =>
              /\ stage \in {"loading", "writing", "ended"} => StageOf = stage
              /\ stage \in {"failed", "unresolved"} => StageOf = "ended"
  <1>1. Len(files) \in Nat /\ MaxFile \in Nat
    BY HalfFacts, LenProperties DEF PlacesTyped
  <1>2. Len(files) > MaxFile => Overrun
    BY DEF Overrun
  <1>3. Len(files) <= MaxFile /\ ~Lost => ~Overrun
    BY <1>1 DEF Overrun
  <1>4. Overrun => StageOf = "overrun"
    BY DEF StageOf
  <1>5. ~Overrun /\ stage \in {"loading", "writing", "ended"} => StageOf = stage
    BY DEF StageOf
  <1>6. ~Overrun /\ stage \in {"failed", "unresolved"} => StageOf = "ended"
    BY DEF StageOf
  <1> QED
    BY <1>1, <1>2, <1>3, <1>4, <1>5, <1>6

(* The same after a step. *)
LEMMA StageAfter ==
  ASSUME PlacesTyped'
  PROVE  /\ Len(files') \in Nat /\ MaxFile \in Nat
         /\ Len(files') > MaxFile => StageOf' = "overrun"
         /\ Len(files') <= MaxFile /\ ~Lost' =>
              /\ stage' \in {"loading", "writing", "ended"} => StageOf' = stage'
              /\ stage' \in {"failed", "unresolved"} => StageOf' = "ended"
  <1>1. Len(files') \in Nat /\ MaxFile \in Nat
    BY HalfFacts, LenProperties DEF PlacesTyped
  <1>2. Len(files') > MaxFile => Overrun'
    BY DEF Overrun
  <1>3. Len(files') <= MaxFile /\ ~Lost' => ~Overrun'
    BY <1>1 DEF Overrun
  <1>4. Overrun' => StageOf' = "overrun"
    BY DEF StageOf
  <1>5. ~Overrun' /\ stage' \in {"loading", "writing", "ended"} => StageOf' = stage'
    BY DEF StageOf
  <1>6. ~Overrun' /\ stage' \in {"failed", "unresolved"} => StageOf' = "ended"
    BY DEF StageOf
  <1> QED
    BY <1>1, <1>2, <1>3, <1>4, <1>5, <1>6

(* The lines of the files stay. *)
LEMMA RowsStay ==
  ASSUME text' = text
  PROVE  RowsOf' = RowsOf
  <1>1. \A p : LastRow(p)' = LastRow(p)
    BY TextStays DEF LastRow
  <1> QED
    BY <1>1 DEF RowsOf

(* A file is loaded. *)
LEMMA OrderGrows ==
  ASSUME PlacesTyped, PlacesTyped', NEW f \in [path : Path, count : Int],
         files' = Append(files, f)
  PROVE  OrderOf' = Append(OrderOf, f.path)
  <1>1. /\ files \in Seq([path : Path, count : Int])
        /\ Len(files) \in Nat /\ DOMAIN files = 1 .. Len(files)
        /\ Len(files') = Len(files) + 1 /\ DOMAIN files' = 1 .. Len(files) + 1
        /\ \A i \in 1 .. Len(files) : files'[i] = files[i]
        /\ files'[Len(files) + 1] = f
    BY AppendProperties, LenProperties DEF PlacesTyped
  <1>2. PICK n : n \in Nat /\ n = Len(files)
    <2>1. Len(files) \in Nat
      BY <1>1
    <2> QED
      BY <2>1
  <1>3. OrderOf \in Seq(Path) /\ Len(OrderOf) = n
    <2>0. \A i \in 1 .. n : files[i].path \in Path
      <3>1. \A i \in 1 .. n : files[i] \in [path : Path, count : Int]
        BY <1>1, <1>2, ElementOfSeq
      <3> QED
        BY <3>1
    <2>1. OrderOf \in [1 .. n -> Path]
      <3>1. DOMAIN files = 1 .. n
        BY <1>1, <1>2
      <3> QED
        BY <2>0, <3>1 DEF OrderOf
    <2>2. OrderOf \in Seq(Path)
      BY <1>2, <2>1, SeqDef
    <2> QED
      BY <1>2, <2>1, <2>2, LenProperties
  <1>4. f.path \in Path
    OBVIOUS
  <1>5. PICK u : u = Append(OrderOf, f.path)
    OBVIOUS
  <1>6. /\ u \in Seq(Path) /\ Len(u) = n + 1
        /\ \A i \in 1 .. n : u[i] = OrderOf[i]
        /\ u[n + 1] = f.path
    BY <1>3, <1>4, <1>5, AppendProperties
  <1>7. /\ OrderOf' \in Seq(Path) /\ Len(OrderOf') = n + 1
    <2>0. \A i \in 1 .. n + 1 : files'[i].path \in Path
      <3>0. files' \in Seq([path : Path, count : Int]) /\ Len(files') = n + 1
        BY <1>1, <1>2 DEF PlacesTyped
      <3>1. \A i \in 1 .. n + 1 : files'[i] \in [path : Path, count : Int]
        BY <3>0, ElementOfSeq
      <3> QED
        BY <3>1
    <2>1. OrderOf' \in [1 .. n + 1 -> Path]
      <3>1. DOMAIN files' = 1 .. n + 1
        BY <1>1, <1>2
      <3> QED
        BY <2>0, <3>1 DEF OrderOf
    <2>2. PICK m \in Nat : m = n + 1
      BY <1>2
    <2>3. OrderOf' \in Seq(Path)
      BY <2>1, <2>2, SeqDef
    <2>4. DOMAIN OrderOf' = 1 .. m
      BY <2>1, <2>2
    <2> QED
      BY <2>2, <2>3, <2>4, LenProperties
  <1>8. \A i \in 1 .. n + 1 : OrderOf'[i] = files'[i].path
    BY <1>1, <1>2 DEF OrderOf
  <1>9. ASSUME NEW i \in 1 .. n + 1 PROVE u[i] = OrderOf'[i]
    <2>1. CASE i = n + 1
      BY <1>1, <1>2, <1>6, <1>8, <2>1
    <2>2. CASE i \in 1 .. n
      <3>1. OrderOf[i] = files[i].path
        BY <1>1, <1>2, <2>2 DEF OrderOf
      <3> QED
        BY <1>1, <1>2, <1>6, <1>8, <2>2, <3>1
    <2> QED
      BY <1>2, <2>1, <2>2
  <1> QED
    BY <1>5, <1>6, <1>7, <1>9, SeqEqual

(* Files are loaded and read, and chars of them are blamed. *)
LEMMA Loadings ==
  ASSUME PlacesTyped, PlacesTyped', text' = text, ErrorsKept', blamed \subseteq blamed',
         stage = "loading", stage' \in {"loading", "writing"}, shown' = shown, ~Lost,
         Len(files) <= MaxFile, Len(files') <= MaxFile,
         \/ files' = files
         \/ \E f \in [path : Path, count : Int] : files' = Append(files, f)
  PROVE  Shown!Next
  <1>0. text \in Texts
    BY DEF PlacesTyped
  <1>1. StageOf = "loading" /\ StageOf' \in {"loading", "writing"}
    BY <1>0, StageFacts, StageAfter, NothingLostAfter
  <1>2. (\E p \in Path : OrderOf' = Append(OrderOf, p)) \/ OrderOf' = OrderOf
    <2>1. CASE files' = files
      BY <2>1 DEF OrderOf
    <2>2. ASSUME NEW f \in [path : Path, count : Int], files' = Append(files, f)
          PROVE  \E p \in Path : OrderOf' = Append(OrderOf, p)
      BY <2>2, OrderGrows
    <2> QED
      BY <2>1, <2>2
  <1>3. DOMAIN OrderOf' = DOMAIN files' /\ \A i \in DOMAIN files' : OrderOf'[i] = files'[i].path
    BY DEF OrderOf
  <1>4. ASSUME NEW b \in blamed' \ blamed
        PROVE  /\ b \in (Path \X Nat \X Nat) \X AnyErr
               /\ \E i \in DOMAIN OrderOf' : OrderOf'[i] = b[1][1]
               /\ b[1][2] <= RowsOf[b[1][1]]
    <2>1. text \in Texts
      BY <1>0
    <2>2. b \in blamed'
      OBVIOUS
    <2>3. /\ b \in (Path \X Nat \X Nat) \X AnyErr
          /\ \E i \in DOMAIN files' : files'[i].path = b[1][1]
          /\ b[1][2] <= LastRow(b[1][1])
      BY <2>1, <2>2, BlamedAreSpots
    <2>4. RowsOf[b[1][1]] = LastRow(b[1][1])
      BY <2>3 DEF RowsOf
    <2> QED
      BY <1>3, <2>3, <2>4
  <1>5. Shown!Loading
    BY <1>1, <1>2, <1>4 DEF Shown!Loading, Shown!Spot
  <1> QED
    BY <1>5, RowsStay DEF Shown!Next


-----------------------------------------------------------------------------
(* Chars are read *)

(* A count of a file that is being opened does not overflow. *)
LEMMA CountsInts ==
  ASSUME NEW b \in Nat, b + Span <= Half, NEW k \in Nat, k < Span
  PROVE  Int32(b + k) = b + k
  <1>1. Span \in Nat /\ Half \in Nat
    BY HalfFacts
  <1>2. b + k \in Int /\ -Half <= b + k /\ b + k < Half
    BY <1>1
  <1> QED
    BY <1>2, Int32Facts

(* A char of a file that was just opened has its place. *)
LEMMA PlaceAfter ==
  ASSUME text' = text, NEW i \in OrsonFiles', NEW k \in 1 .. Size(files'[i].path) + 1,
         NEW q, IsSpot(files'[i].path, k, q)
  PROVE  \A c : c = files'[i].count + k => IsPlace(c, q)'
  <1>1. IsSpot(files[i].path, k, q)' /\ Size(files[i].path)' = Size(files'[i].path)
    BY TextStays
  <1>2. Base(i)' = files'[i].count
    BY DEF Base
  <1> SUFFICES ASSUME NEW c, c = files'[i].count + k PROVE IsPlace(c, q)'
    OBVIOUS
  <1>3. c = Base(i)' + k /\ k \in 1 .. Size(files[i].path)' + 1
    BY <1>1, <1>2
  <1> QED
    BY <1>1, <1>3 DEF IsPlace

(* A reader of a file that stays is counted as before. *)
LEMMA CountedStays ==
  ASSUME FilesGrow, NEW r, NEW c, Counted(r, c)
  PROVE  Counted(r, c)'
  <1>1. PICK i \in OrsonFiles : \E o \in 1 .. Size(files[i].path) + 1 :
               r.path = files[i].path /\ Placed(r, o) /\ c = Base(i) + o
    BY DEF Counted
  <1>2. PICK o \in 1 .. Size(files[i].path) + 1 :
               r.path = files[i].path /\ Placed(r, o) /\ c = Base(i) + o
    BY <1>1
  <1>3. i \in OrsonFiles' /\ files'[i] = files[i] /\ text' = text
    BY DEF FilesGrow
  <1>4. Base(i)' = Base(i) /\ Size(files[i].path)' = Size(files[i].path) /\ Placed(r, o)'
    BY <1>2, <1>3, TextStays DEF Base
  <1> QED
    BY <1>2, <1>3, <1>4 DEF Counted

(* READ takes the char after char O of the file at I, which starts at count B. *)
ReadsAt(r, i, b, o, under) ==
  /\ i \in OrsonFiles'
  /\ b \in Nat /\ files'[i].count = b /\ b + Span <= Half
  /\ o \in Nat /\ Reading(r, o)
  /\ r.path = files'[i].path /\ r.path \in Path /\ Size(r.path) + 2 <= Span
  /\ Read(r, b + o, under)

(* READ takes the next char of a file, and blames chars of its next line. *)
LEMMA ReadPlaced ==
  ASSUME text \in Texts, LinesFit, NoOpenQuote, FilesGrow, ErrorsKept, shown = {}, shown' = {},
         NEW i, NEW b, NEW r, NEW o, NEW under, ReadsAt(r, i, b, o, under)
  PROVE  \E s, c : /\ loads' = Append(under, s) /\ c = charCount'
                   /\ s \in Reader /\ s.old = r.old
                   /\ Counted(s, c)'
                   /\ \A x \in seen' \ seen : IsPlace(x[1], x[2])'
                   /\ ErrorsKept' /\ blamed \subseteq blamed'
  <1>0. /\ i \in OrsonFiles'
        /\ b \in Nat /\ files'[i].count = b /\ b + Span <= Half
        /\ o \in Nat /\ Reading(r, o)
        /\ r.path = files'[i].path /\ r.path \in Path /\ Size(r.path) + 2 <= Span
        /\ Read(r, b + o, under)
    BY DEF ReadsAt
  <1> USE <1>0
  <1>1. PICK p, s, z, c : /\ p = r.path /\ s = NextChar(r, LoadRoom)
                          /\ z = Size(p) /\ c = charCount'
    OBVIOUS
  <1>2. LoadRoom \in Nat /\ LoadRoom >= MaxLine - 1
    <2>1. MaxLine \in Nat
      BY PlacesAssumption
    <2> QED
      BY ONLY <2>1 DEF LoadRoom
  <1>3. /\ Placed(s, o + 1) /\ s.path = p /\ s.old = r.old
        /\ \A n \in News(r, s, LoadRoom) :
             /\ n[2] = IllegalCharErr /\ n[1] \in Nat /\ o + n[1] \in 1 .. z
             /\ IsSpot(p, o + n[1], <<s.path, s.row, n[1]>>)
    BY <1>1, <1>2, NextCharOn
  <1>4. /\ s \in Reader /\ o + 1 \in 1 .. z + 1
        /\ IsSpot(p, o + 1, Spot(s))
    BY <1>1, <1>3, PlacedFacts
  <1>5. z \in Nat /\ z + 2 <= Span /\ Span \in Nat
    BY <1>1, BreakFacts, HalfFacts
  <1>6. /\ charCount' = Int32(b + o + 1)
        /\ loads' = Append(under, s)
        /\ seen' = seen \cup {<<Int32(b + o + 1), Spot(s)>>}
        /\ InsertErrs({ <<Int32(b + o + n[1]), <<s.path, s.row, n[1]>>, n[2]>> :
                          n \in News(r, s, LoadRoom) })
    BY <1>1 DEF Read, News
  <1>7. ASSUME NEW k \in 1 .. z + 1, NEW q, IsSpot(p, k, q)
        PROVE  Int32(b + k) = b + k /\ \A d : d = b + k => IsPlace(d, q)'
    <2>1. k \in 1 .. Size(files'[i].path) + 1 /\ IsSpot(files'[i].path, k, q)
      BY <1>1, <1>7
    <2>2. \A d : d = files'[i].count + k => IsPlace(d, q)'
      BY <2>1, PlaceAfter DEF FilesGrow
    <2>3. files'[i].count + k = b + k
      OBVIOUS
    <2>4. k \in Nat /\ k < Span
      BY <1>5
    <2>5. Int32(b + k) = b + k
      BY <2>4, CountsInts
    <2> QED
      BY <2>2, <2>3, <2>5
  <1>8. c = b + (o + 1) /\ \A q : q = Spot(s) => IsPlace(c, q)'
    <2>1. b + o + 1 = b + (o + 1)
      OBVIOUS
    <2>2. PICK k, q : k = o + 1 /\ q = Spot(s)
      OBVIOUS
    <2>3. Int32(b + k) = b + k /\ \A d : d = b + k => IsPlace(d, q)'
      BY <1>4, <1>7, <2>2
    <2>4. c = b + k
      BY <1>1, <1>6, <2>1, <2>2, <2>3
    <2> QED
      BY <2>2, <2>3, <2>4
  <1>9. Counted(s, c)'
    <2>1. PICK k : k = o + 1
      OBVIOUS
    <2>2. c = Base(i)' + k /\ Base(i)' = b
      BY <1>8, <2>1 DEF Base
    <2>3. Placed(s, k)' /\ Size(files[i].path)' = z /\ s.path = files'[i].path
      BY <1>1, <1>3, <2>1, TextStays DEF FilesGrow
    <2>4. k \in 1 .. z + 1
      BY <1>4, <2>1
    <2> QED
      BY <2>2, <2>3, <2>4 DEF Counted
  <1>10. ErrorsKept' /\ blamed \subseteq blamed'
    <2>1. PICK new : new = { <<Int32(b + o + n[1]), <<s.path, s.row, n[1]>>, n[2]>> :
                               n \in News(r, s, LoadRoom) }
      OBVIOUS
    <2>2. ASSUME NEW x \in new
          PROVE  IsPlace(x[1], x[2])' /\ x[3] \in AnyErr
      <3>1. PICK n \in News(r, s, LoadRoom) :
                   x = <<Int32(b + o + n[1]), <<s.path, s.row, n[1]>>, n[2]>>
        BY <2>1
      <3>2. PICK k, q : k = o + n[1] /\ q = <<s.path, s.row, n[1]>>
        OBVIOUS
      <3>3. /\ x[1] = Int32(b + o + n[1]) /\ x[2] = q /\ x[3] = n[2]
        BY <3>1, <3>2
      <3>4. /\ n[2] = IllegalCharErr /\ k \in 1 .. z /\ IsSpot(p, k, q)
        BY <1>3, <3>2
      <3>5. b + o + n[1] = b + k
        <4>1. n[1] \in Nat
          BY <1>3
        <4> QED
          BY <3>2, <4>1
      <3>6. k \in 1 .. z + 1
        BY <1>5, <3>4
      <3>7. Int32(b + k) = b + k /\ \A d : d = b + k => IsPlace(d, q)'
        BY <1>7, <3>4, <3>6
      <3>8. PICK d : d = b + k
        OBVIOUS
      <3>9. x[1] = d /\ IsPlace(d, q)' /\ x[3] \in AnyErr
        BY <3>3, <3>4, <3>5, <3>7, <3>8 DEF AnyErr
      <3> QED
        BY <3>3, <3>9
    <2>3. InsertErrs(new)
      BY <1>6, <2>1
    <2> QED
      BY <2>2, <2>3, ErrorsMore
  <1>11. \A x \in seen' \ seen : IsPlace(x[1], x[2])'
    <2>1. PICK q : q = Spot(s)
      OBVIOUS
    <2>2. IsPlace(c, q)' /\ seen' = seen \cup {<<c, q>>}
      BY <1>1, <1>6, <1>8, <2>1
    <2>3. PICK y : y = <<c, q>>
      OBVIOUS
    <2>4. y[1] = c /\ y[2] = q
      BY <2>3
    <2> QED
      BY <2>2, <2>3, <2>4
  <1> QED
    BY <1>1, <1>3, <1>4, <1>6, <1>9, <1>10, <1>11


-----------------------------------------------------------------------------
(* Steps of the loader *)

(* Files stay apart when none is added. *)
LEMMA FilesApartStay ==
  ASSUME UNCHANGED <<text, files, fileCount>>, FilesApart
  PROVE  FilesApart'
  <1>1. OrsonFiles' = OrsonFiles
    BY FilesSame
  <1>2. \A i : Base(i)' = Base(i)
    BY DEF Base
  <1>3. \A p : Size(p)' = Size(p)
    BY TextStays
  <1> QED
    BY <1>1, <1>2, <1>3 DEF FilesApart

(* What the reader is at is the place of a char. *)
LEMMA CountedIsPlace ==
  ASSUME text \in Texts, NEW r, NEW c, Counted(r, c)
  PROVE  IsPlace(c, Spot(r))
  <1>1. PICK i \in OrsonFiles : \E o \in 1 .. Size(files[i].path) + 1 :
               r.path = files[i].path /\ Placed(r, o) /\ c = Base(i) + o
    BY DEF Counted
  <1>2. PICK o \in 1 .. Size(files[i].path) + 1 :
               r.path = files[i].path /\ Placed(r, o) /\ c = Base(i) + o
    BY <1>1
  <1>3. IsSpot(files[i].path, o, Spot(r))
    BY <1>2, PlacedFacts
  <1> QED
    BY <1>2, <1>3 DEF IsPlace

(* The readers stay where they are. *)
LEMMA LoadsStay ==
  ASSUME FilesGrow, LoadsPlaced, stage = "loading", UNCHANGED <<loads, charCount, shown>>
  PROVE  LoadsPlaced'
  <1>1. ASSUME NEW m \in DOMAIN loads
        PROVE  Counted(loads[m], CountAt(m))'
    <2>1. PICK r, c : r = loads[m] /\ c = CountAt(m)
      OBVIOUS
    <2>2. Counted(r, c)'
      BY <2>1, CountedStays DEF LoadsPlaced
    <2>3. r = loads'[m] /\ c = CountAt(m)'
      BY <2>1 DEF CountAt
    <2> QED
      BY <2>2, <2>3
  <1> QED
    BY <1>1 DEF LoadsPlaced

(* Sizes are numbers, after a step too. *)
LEMMA SizesAfter ==
  ASSUME PlacesTyped', NEW i \in OrsonFiles'
  PROVE  Size(files[i].path)' \in Int
  <1>1. files' \in Seq([path : Path, count : Int]) /\ text' \in Texts /\ i \in DOMAIN files'
    BY DEF PlacesTyped, OrsonFiles
  <1>2. PICK p : p = files'[i].path
    OBVIOUS
  <1>3. p \in Path
    <2>1. files'[i] \in [path : Path, count : Int]
      BY <1>1, LenProperties, ElementOfSeq
    <2> QED
      BY <1>2, <2>1
  <1>4. Len(text'[p]) \in Nat
    <2>1. text'[p] \in Seq({Letter, Illegal, Apostrophe, Newline})
      BY <1>1, <1>3, PlacesAssumption
    <2> QED
      BY <2>1, LenProperties
  <1>5. Size(files[i].path)' = Len(text'[p]) + (IF Ragged(text'[p]) THEN 1 ELSE 0)
    BY <1>2 DEF Size
  <1> QED
    BY <1>4, <1>5

(* WRITE ERROR LINES starts before all files with errors. *)
LEMMA WriterStarts ==
  ASSUME PlacesTyped', FilesApart', ErrorsKept', turn' = 0, file' = Closed
  PROVE  WriterPlaced'
  <1>1. Len(files') \in Nat /\ DOMAIN files' = 1 .. Len(files')
    BY LenProperties DEF PlacesTyped
  <1>2. ASSUME NEW pl \in places'
        PROVE  \E i \in OrsonFiles' : i > 0 /\ pl[1] > Base(i)'
    <2>1. \E b \in blamed' \ shown' : IsPlace(pl[1], b[1])'
      BY DEF ErrorsKept
    <2>2. PICK b : IsPlace(pl[1], b[1])'
      BY <2>1
    <2>3. PICK i \in OrsonFiles' : (\E o \in 1 .. Size(files[i].path) + 1 : pl[1] = Base(i) + o)'
      BY <2>2 DEF IsPlace
    <2>4. PICK o : o \in Int /\ o >= 1 /\ pl[1] = Base(i)' + o
      <3>1. Size(files[i].path)' \in Int
        BY <2>3, SizesAfter
      <3> QED
        BY <2>3, <3>1
    <2>5. Base(i)' \in Nat
      BY DEF FilesApart
    <2>6. i \in 1 .. Len(files')
      BY <1>1 DEF OrsonFiles
    <2>7. i > 0
      BY <1>1, <2>6
    <2>8. pl[1] > Base(i)'
      BY <2>4, <2>5
    <2> QED
      BY <2>7, <2>8
  <1>3. 0 \in 0 .. Len(files')
    BY <1>1
  <1> QED
    BY <1>2, <1>3 DEF WriterPlaced, Closed

(* A step of the loader or of what it calls. *)
LEMMA LoaderStep ==
  ASSUME PlacesTyped, PlacesTyped', FilesGrow, Resolved,
         Len(files) <= MaxFile, Len(files') <= MaxFile,
         \/ files' = files
         \/ \E f \in [path : Path, count : Int] : files' = Append(files, f),
         stage = "loading", stage' \in {"loading", "writing"},
         UNCHANGED <<turn, file, shown>>,
         FilesApart', LoadsPlaced', ErrorsKept', blamed \subseteq blamed',
         \A x \in seen' \ seen : IsPlace(x[1], x[2])'
  PROVE  Resolved' /\ Shown!Next
  <1>1. SeenPlaced'
    BY PlacesStay DEF Resolved, SeenPlaced
  <1>2. turn' = 0 /\ file' = Closed
    BY DEF Resolved, WriterRests
  <1>3. WriterPlaced' /\ WriterRests'
    BY <1>2, WriterStarts DEF WriterRests, Closed
  <1>4. Shown!Next
    BY Loadings, NothingLost DEF FilesGrow, Resolved
  <1> QED
    BY <1>1, <1>3, <1>4 DEF Resolved

(* The loader gives up, or has nothing to report. *)
LEMMA LoaderEnds ==
  ASSUME PlacesTyped, PlacesTyped', Resolved, Len(files) <= MaxFile,
         stage = "loading", stage' \in {"failed", "ended"},
         UNCHANGED <<text, loader, places, writer, history, shown>>
  PROVE  Resolved' /\ Shown!Next
  <1>1. UNCHANGED <<text, files, fileCount, places, blamed, shown, seen>>
    BY DEF loader, history
  <1>2. FilesApart' /\ ErrorsKept'
    BY <1>1, FilesApartStay, FilesSame, ErrorsStay DEF Resolved
  <1>3. SeenPlaced'
    BY <1>1, FilesSame, PlacesStay DEF Resolved, SeenPlaced
  <1>4. LoadsPlaced' /\ WriterPlaced' /\ WriterRests'
    BY DEF LoadsPlaced, WriterPlaced, WriterRests
  <1>5. StageOf = "loading" /\ StageOf' = "ended" /\ OrderOf' = OrderOf
    <2>0. ~Lost /\ ~Lost'
      BY <1>1, <1>2, NothingLost, NothingLostAfter DEF Resolved, PlacesTyped
    <2>1. StageOf = "loading"
      BY <2>0, StageFacts
    <2>2. StageOf' = "ended"
      BY <1>1, <2>0, StageAfter
    <2> QED
      BY <1>1, <2>1, <2>2 DEF OrderOf
  <1>6. Shown!End
    BY <1>1, <1>5 DEF Shown!End
  <1> QED
    BY <1>1, <1>2, <1>3, <1>4, <1>6, RowsStay DEF Resolved, Shown!Next


(* Complaints about a place of a file. *)
LEMMA BlameStep ==
  ASSUME PlacesTyped, PlacesTyped', Resolved, Len(files) <= MaxFile,
         stage = "loading", stage' \in {"loading", "writing"},
         UNCHANGED <<text, loader, charCount, writer, seen, shown>>,
         \/ UNCHANGED <<places, blamed>>
         \/ \E c, q, err : Insert(c, q, err) /\ IsPlace(c, q) /\ err \in AnyErr
  PROVE  Resolved' /\ Shown!Next
  <1>1. UNCHANGED <<text, files, fileCount, loads, charCount, seen, shown, turn, file>>
    BY DEF loader, writer
  <1>2. FilesGrow /\ FilesApart' /\ LoadsPlaced'
    BY <1>1, FilesSame, FilesApartStay, LoadsStay DEF Resolved
  <1>3. ErrorsKept' /\ blamed \subseteq blamed'
    <2>1. CASE UNCHANGED <<places, blamed>>
      BY <1>1, <1>2, <2>1, ErrorsStay DEF Resolved
    <2>2. ASSUME NEW c, NEW q, NEW err, Insert(c, q, err), IsPlace(c, q), err \in AnyErr
          PROVE  ErrorsKept' /\ blamed \subseteq blamed'
      <3>1. PICK new : new = {<<c, q, err>>}
        OBVIOUS
      <3>2. InsertErrs(new)
        BY <2>2, <3>1 DEF Insert
      <3>3. \A x \in new : x[1] = c /\ x[2] = q /\ x[3] = err
        BY <3>1
      <3>4. IsPlace(c, q)'
        BY <1>2, <2>2, PlacesStay
      <3>5. \A x \in new : IsPlace(x[1], x[2])' /\ x[3] \in AnyErr
        BY <2>2, <3>3, <3>4
      <3>6. shown = {}
        BY DEF Resolved, LoadsPlaced
      <3> QED
        BY <1>1, <1>2, <3>2, <3>5, <3>6, ErrorsMore DEF Resolved
    <2> QED
      BY <2>1, <2>2
  <1>4. \A x \in seen' \ seen : IsPlace(x[1], x[2])'
    BY <1>1
  <1>5. Len(files') <= MaxFile
    BY <1>1
  <1> QED
    BY <1>1, <1>2, <1>3, <1>4, <1>5, LoaderStep

(* SOURCE ERROR blames the char just read. *)
LEMMA StepSourceError ==
  ASSUME PlacesTyped, PlacesTyped', Resolved, Len(files) <= MaxFile,
         NEW err \in Err, SourceError(err)
  PROVE  Resolved' /\ Shown!Next
  <1>1. /\ stage = "loading" /\ loads # <<>> /\ Insert(charCount, Spot(Top), err)
        /\ UNCHANGED <<text, loader, charCount, writer, seen, shown>> /\ stage' = stage
    BY DEF SourceError
  <1>2. Counted(Top, charCount)
    <2>1. Len(loads) \in DOMAIN loads
      BY <1>1, Waiting
    <2>2. CountAt(Len(loads)) = charCount
      BY DEF CountAt
    <2> QED
      BY <1>1, <2>1, <2>2 DEF Resolved, LoadsPlaced, Top
  <1>3. text \in Texts
    BY DEF PlacesTyped
  <1>4. IsPlace(charCount, Spot(Top))
    BY <1>2, <1>3, CountedIsPlace
  <1>5. err \in AnyErr
    BY DEF AnyErr
  <1>6. \E c, q, e : Insert(c, q, e) /\ IsPlace(c, q) /\ e \in AnyErr
    BY <1>1, <1>4, <1>5
  <1> QED
    BY <1>1, <1>6, BlameStep

(* OBJECT ERROR blames a char that was read at some time. *)
LEMMA StepObjectError ==
  ASSUME PlacesTyped, PlacesTyped', Resolved, Len(files) <= MaxFile,
         NEW err \in Err, NEW place \in seen, ObjectError(place, err)
  PROVE  Resolved' /\ Shown!Next
  <1>1. IsPlace(place[1], place[2]) /\ err \in AnyErr
    BY DEF Resolved, SeenPlaced, AnyErr
  <1>2. /\ stage = "loading" /\ stage' = stage
        /\ UNCHANGED <<text, loader, charCount, writer, seen, shown>>
    BY DEF ObjectError
  <1>3. \/ UNCHANGED <<places, blamed>>
        \/ \E c, q, e : Insert(c, q, e) /\ IsPlace(c, q) /\ e \in AnyErr
    BY <1>1 DEF ObjectError
  <1> QED
    BY <1>2, <1>3, BlameStep

(* HALT blames a char that was read at some time, and goes to write *)
(* errors.                                                          *)
LEMMA StepHalt ==
  ASSUME PlacesTyped, PlacesTyped', Resolved, Len(files) <= MaxFile,
         NEW place \in seen, Halt(place)
  PROVE  Resolved' /\ Shown!Next
  <1>1. IsPlace(place[1], place[2]) /\ HaltErr \in AnyErr
    BY DEF Resolved, SeenPlaced, AnyErr
  <1>2. /\ stage = "loading" /\ stage' = "writing"
        /\ UNCHANGED <<text, loader, charCount, writer, seen, shown>>
    BY DEF Halt
  <1>3. \/ UNCHANGED <<places, blamed>>
        \/ \E c, q, e : Insert(c, q, e) /\ IsPlace(c, q) /\ e \in AnyErr
    BY <1>1 DEF Halt
  <1> QED
    BY <1>2, <1>3, BlameStep

(* There are no files left to load: the errors are to be written, if *)
(* there are any.                                                    *)
LEMMA StepEndOfFiles ==
  ASSUME PlacesTyped, PlacesTyped', Resolved, Len(files) <= MaxFile, EndOfFiles
  PROVE  Resolved' /\ Shown!Next
  <1>1. /\ stage = "loading" /\ stage' \in {"ended", "writing"}
        /\ UNCHANGED <<text, loader, charCount, places, writer, history, shown>>
    BY DEF EndOfFiles
  <1>2. CASE stage' = "ended"
    BY <1>1, <1>2, LoaderEnds
  <1>3. CASE stage' = "writing"
    <2>1. UNCHANGED <<text, loader, charCount, writer, seen, shown>> /\ UNCHANGED <<places, blamed>>
      BY <1>1 DEF history
    <2> QED
      BY <1>1, <1>3, <2>1, BlameStep
  <1> QED
    BY <1>1, <1>2, <1>3

(* LOAD ORSON is called, goes on, or returns: the other calls wait as before. *)
LEMMA LoadsOn ==
  ASSUME FilesGrow, loads \in Seq(Reader), loads' \in Seq(Reader), LoadsPlaced, stage = "loading",
         shown' = {}, NEW n \in Nat, n <= Len(loads), Len(loads') \in {n, n + 1},
         \A m \in 1 .. n : loads'[m] = loads[m],
         n \in 1 .. Len(loads) => CountAt(n)' = CountAt(n),
         Len(loads') = n + 1 => \E s, c : s = loads'[n + 1] /\ c = charCount' /\ Counted(s, c)'
  PROVE  LoadsPlaced'
  <1>1. /\ Len(loads) \in Nat /\ DOMAIN loads = 1 .. Len(loads)
        /\ Len(loads') \in Nat /\ DOMAIN loads' = 1 .. Len(loads')
    BY LenProperties
  <1>2. ASSUME NEW m \in DOMAIN loads'
        PROVE  Counted(loads[m], CountAt(m))'
    <2>0. PICK l : l = Len(loads')
      OBVIOUS
    <2>1. PICK k : l = Len(loads') /\ k = Len(loads)
      BY <2>0
    <2>2. /\ l \in Nat /\ (l = n \/ l = n + 1) /\ m \in Nat /\ 1 <= m /\ m <= l
          /\ k \in Nat /\ n <= k
      <3>1. l \in {n, n + 1} /\ n <= k /\ l \in Nat /\ k \in Nat /\ m \in 1 .. l
        <4>1. l \in {n, n + 1} /\ n <= k
          BY ONLY <2>1, Len(loads') \in {n, n + 1}, n <= Len(loads)
        <4>2. l \in Nat /\ k \in Nat /\ DOMAIN loads' = 1 .. l
          BY ONLY <1>1, <2>1
        <4> QED
          BY ONLY <4>1, <4>2, m \in DOMAIN loads'
      <3> QED
        BY ONLY <3>1, n \in Nat
    <2>3. CASE m = n + 1
      <3>1. l = n + 1
        BY <2>2, <2>3
      <3>2. PICK s, c : s = loads'[n + 1] /\ c = charCount' /\ Counted(s, c)'
        BY <2>1, <3>1
      <3>3. s = loads'[m] /\ c = CountAt(m)'
        BY <2>1, <2>3, <3>1, <3>2 DEF CountAt
      <3> QED
        BY <3>2, <3>3
    <2>4. CASE m # n + 1
      <3>1. m \in 1 .. n /\ m \in 1 .. k /\ m \in DOMAIN loads
        <4>1. m \in 1 .. n /\ m \in 1 .. k
          BY ONLY <2>2, <2>4, n \in Nat
        <4> QED
          BY ONLY <4>1, <1>1, <2>1
      <3>2. CountAt(m)' = CountAt(m)
        <4>1. CASE m = n
          BY <2>1, <3>1, <4>1
        <4>2. CASE m # n
          <5>1. m + 1 \in 1 .. n /\ m # l /\ m # k
            BY <2>2, <3>1, <4>2
          <5>2. loads'[m + 1] = loads[m + 1]
            BY <5>1
          <5> QED
            BY <2>1, <5>1, <5>2 DEF CountAt
        <4> QED
          BY <4>1, <4>2
      <3>3. PICK r, c : r = loads[m] /\ c = CountAt(m)
        OBVIOUS
      <3>4. Counted(r, c)'
        BY <3>1, <3>3, CountedStays DEF LoadsPlaced
      <3>5. r = loads'[m] /\ c = CountAt(m)'
        BY <3>1, <3>2, <3>3
      <3> QED
        BY <3>4, <3>5
    <2> QED
      BY <2>3, <2>4
  <1> QED
    BY <1>2 DEF LoadsPlaced

(* A file ends: the reader around it goes on where it was. *)
LEMMA ReadsEndOfFile ==
  ASSUME PlacesTyped, PlacesTyped', Resolved, Len(files) <= MaxFile, EndOfFile
  PROVE  Resolved' /\ Shown!Next
  <1>1. /\ stage = "loading" /\ loads # <<>> /\ charCount' = Top.old /\ stage' = stage
        /\ loads' = SubSeq(loads, 1, Len(loads) - 1)
        /\ UNCHANGED <<text, files, fileCount, places, blamed, seen, shown, turn, file>>
    BY DEF EndOfFile, history, writer
  <1>2. FilesGrow /\ FilesApart' /\ ErrorsKept' /\ blamed \subseteq blamed'
    BY <1>1, FilesSame, FilesApartStay, ErrorsStay DEF Resolved
  <1>3. PICK k : k = Len(loads)
    OBVIOUS
  <1>4. /\ k \in Nat /\ k # 0 /\ Len(loads') = k - 1 /\ loads' \in Seq(Reader)
        /\ DOMAIN loads = 1 .. k /\ DOMAIN loads' = 1 .. k - 1
        /\ \A m \in 1 .. k - 1 : loads'[m] = loads[m]
    BY <1>1, <1>3, Waiting
  <1>5. PICK n \in Nat : n = k - 1
    BY <1>4
  <1>6. n \in 1 .. k => CountAt(n)' = CountAt(n)
    <2>1. n = Len(loads') /\ n # Len(loads) /\ n + 1 = k
      BY <1>3, <1>4, <1>5
    <2>2. CountAt(n)' = charCount' /\ CountAt(n) = loads[k].old
      BY <2>1 DEF CountAt
    <2> QED
      BY <1>1, <1>3, <2>2 DEF Top
  <1>7. LoadsPlaced'
    <2>1. /\ n <= Len(loads) /\ Len(loads') \in {n, n + 1} /\ Len(loads') # n + 1
          /\ \A m \in 1 .. n : loads'[m] = loads[m]
          /\ n \in 1 .. Len(loads) => CountAt(n)' = CountAt(n)
      BY <1>3, <1>4, <1>5, <1>6
    <2>2. loads \in Seq(Reader) /\ loads' \in Seq(Reader)
      BY <1>4 DEF PlacesTyped
    <2>3. LoadsPlaced /\ shown' = {}
      BY <1>1 DEF Resolved, LoadsPlaced
    <2> QED
      BY <1>1, <1>2, <2>1, <2>2, <2>3, LoadsOn
  <1>8. Len(files') <= MaxFile /\ \A x \in seen' \ seen : IsPlace(x[1], x[2])'
    BY <1>1
  <1> QED
    BY <1>1, <1>2, <1>7, <1>8, LoaderStep


(* LOAD ORSON reads a char. *)
LEMMA ReportReadChar ==
  ASSUME LinesFit, NoOpenQuote, PlacesTyped, PlacesTyped', Resolved, Len(files) <= MaxFile, ReadChar
  PROVE  Resolved' /\ Shown!Next
  <1>1. /\ stage = "loading" /\ loads # <<>> /\ stage' = stage
        /\ Ch(Top) = EopChar => Top.open
        /\ Read(Top, charCount, SubSeq(loads, 1, Len(loads) - 1))
        /\ UNCHANGED <<text, files, fileCount, shown, turn, file>>
    BY DEF ReadChar, writer
  <1>2. FilesGrow /\ FilesApart' /\ OrsonFiles' = OrsonFiles
    BY <1>1, FilesSame, FilesApartStay DEF Resolved
  <1>3. PICK k, under : k = Len(loads) /\ under = SubSeq(loads, 1, Len(loads) - 1)
    OBVIOUS
  <1>4. /\ k \in Nat \ {0} /\ Len(under) = k - 1
        /\ DOMAIN loads = 1 .. k /\ under \in Seq(Reader) /\ DOMAIN under = 1 .. k - 1
        /\ \A m \in 1 .. k - 1 : under[m] = loads[m]
        /\ Top \in Reader
    BY <1>1, <1>3, Waiting
  <1>5. Counted(Top, charCount)
    <2>1. CountAt(k) = charCount /\ k \in DOMAIN loads
      BY <1>3, <1>4 DEF CountAt
    <2> QED
      BY <1>1, <1>3, <2>1 DEF Resolved, LoadsPlaced, Top
  <1>6. PICK i \in OrsonFiles : \E o \in 1 .. Size(files[i].path) + 1 :
               Top.path = files[i].path /\ Placed(Top, o) /\ charCount = Base(i) + o
    BY <1>5 DEF Counted
  <1>7. PICK o \in 1 .. Size(files[i].path) + 1 :
               Top.path = files[i].path /\ Placed(Top, o) /\ charCount = Base(i) + o
    BY <1>6
  <1>8. /\ files[i].path \in Path /\ Base(i) \in Nat /\ Base(i) + Span <= Half
        /\ Size(files[i].path) \in Nat /\ Size(files[i].path) + 2 <= Span
    BY CountsFit DEF Resolved
  <1>9. text \in Texts
    BY DEF PlacesTyped
  <1>10. o \in Nat /\ Reading(Top, o)
    <2>1. o # Size(Top.path) + 1
      BY <1>1, <1>7, <1>9, PlacedFacts
    <2>2. PICK z : z = Size(Top.path)
      OBVIOUS
    <2>3. z \in Nat /\ o \in 1 .. z + 1 /\ o # z + 1
      BY <1>7, <1>8, <2>1, <2>2
    <2>4. o \in Nat /\ o <= z
      BY ONLY <2>3
    <2> QED
      BY <1>7, <2>2, <2>4 DEF Reading
  <1>11. PICK b, r : b = Base(i) /\ r = Top
    OBVIOUS
  <1>12. shown = {} /\ shown' = {} /\ ErrorsKept
    BY <1>1 DEF Resolved, LoadsPlaced
  <1>13. ReadsAt(r, i, b, o, under)
    <2>1. /\ i \in OrsonFiles' /\ b \in Nat /\ files'[i].count = b /\ b + Span <= Half
          /\ Reading(r, o) /\ r.path = files'[i].path /\ r.path \in Path
          /\ Size(r.path) + 2 <= Span /\ Read(r, b + o, under)
      BY <1>1, <1>2, <1>3, <1>7, <1>8, <1>10, <1>11 DEF Base
    <2> QED
      BY <1>10, <2>1 DEF ReadsAt
  <1>14. PICK s, c : /\ loads' = Append(under, s) /\ c = charCount'
                     /\ s \in Reader /\ s.old = r.old
                     /\ Counted(s, c)'
                     /\ \A x \in seen' \ seen : IsPlace(x[1], x[2])'
                     /\ ErrorsKept' /\ blamed \subseteq blamed'
    BY <1>2, <1>9, <1>10, <1>12, <1>13, ReadPlaced
  <1>15. PICK n \in Nat : n = k - 1
    BY <1>4
  <1>16. /\ loads' \in Seq(Reader) /\ Len(loads') = n + 1
         /\ \A m \in 1 .. n : loads'[m] = loads[m]
         /\ loads'[n + 1] = s
    <2>1. /\ loads' \in Seq(Reader) /\ Len(loads') = Len(under) + 1
          /\ \A m \in 1 .. Len(under) : loads'[m] = under[m]
          /\ loads'[Len(under) + 1] = s
      BY <1>4, <1>14, AppendProperties
    <2>2. Len(under) = n /\ \A m \in 1 .. n : under[m] = loads[m]
      BY <1>4, <1>15
    <2> QED
      BY <2>1, <2>2
  <1>17. CountAt(n)' = CountAt(n)
    <2>1. n # n + 1 /\ n + 1 = k /\ n # k
      BY <1>4, <1>15
    <2>2. CountAt(n)' = loads'[n + 1].old
      BY <1>16, <2>1 DEF CountAt
    <2>3. CountAt(n) = loads[k].old
      BY <1>3, <2>1 DEF CountAt
    <2> QED
      BY <1>3, <1>11, <1>14, <1>16, <2>2, <2>3 DEF Top
  <1>18. LoadsPlaced'
    <2>1. n <= Len(loads)
      BY <1>3, <1>4, <1>15
    <2>2. loads \in Seq(Reader) /\ LoadsPlaced
      BY DEF PlacesTyped, Resolved
    <2>3. Len(loads') = n + 1 => \E t, d : t = loads'[n + 1] /\ d = charCount' /\ Counted(t, d)'
      BY <1>14, <1>16
    <2>4. Len(loads') \in {n, n + 1}
      BY <1>16
    <2> QED
      BY <1>1, <1>2, <1>12, <1>16, <1>17, <2>1, <2>2, <2>3, <2>4, LoadsOn
  <1>19. Len(files') <= MaxFile
    BY <1>1
  <1> QED
    BY <1>1, <1>2, <1>14, <1>18, <1>19, LoaderStep

(* A file is added to the others. *)
LEMMA FileAdded ==
  ASSUME PlacesTyped, NEW f \in [path : Path, count : Int],
         files' = Append(files, f), text' = text
  PROVE  /\ Len(files) \in Nat /\ Len(files') = Len(files) + 1
         /\ DOMAIN files = 1 .. Len(files)
         /\ DOMAIN files' = DOMAIN files \cup {Len(files) + 1}
         /\ \A i \in DOMAIN files : files'[i] = files[i] /\ i < Len(files) + 1
         /\ files'[Len(files) + 1] = f
         /\ FilesGrow
         /\ OrsonFiles' = OrsonFiles \cup (IF f.path \in CFile THEN {} ELSE {Len(files) + 1})
  <1>1. /\ files \in Seq([path : Path, count : Int])
        /\ Len(files) \in Nat /\ DOMAIN files = 1 .. Len(files)
        /\ Len(files') = Len(files) + 1 /\ DOMAIN files' = 1 .. Len(files) + 1
        /\ \A i \in 1 .. Len(files) : files'[i] = files[i]
        /\ files'[Len(files) + 1] = f
    BY AppendProperties, LenProperties DEF PlacesTyped
  <1>2. DOMAIN files' = DOMAIN files \cup {Len(files) + 1}
    BY <1>1
  <1>3. \A i \in DOMAIN files : files'[i] = files[i] /\ i < Len(files) + 1
    BY <1>1
  <1>4. OrsonFiles' = OrsonFiles \cup (IF f.path \in CFile THEN {} ELSE {Len(files) + 1})
    BY <1>1, <1>2, <1>3 DEF OrsonFiles
  <1>5. FilesGrow
    BY <1>3, <1>4 DEF FilesGrow, OrsonFiles
  <1> QED
    BY <1>1, <1>2, <1>3, <1>4, <1>5

(* LOAD C: nothing in a C file has a place. *)
LEMMA ReportLoadC ==
  ASSUME PlacesTyped, PlacesTyped', Resolved, Len(files) <= MaxFile, Len(files') <= MaxFile,
         NEW path \in Path, LoadC(path)
  PROVE  Resolved' /\ Shown!Next
  <1>1. PICK f : f = [path |-> path, count |-> 0]
    OBVIOUS
  <1>2. /\ f \in [path : Path, count : Int] /\ f.path \in CFile
        /\ files' = Append(files, f) /\ ~IsLoaded(f.path)
        /\ stage = "loading" /\ stage' = stage
        /\ UNCHANGED <<text, fileCount, charCount, loads, places, blamed, seen, shown, turn, file>>
    BY <1>1 DEF LoadC, writer, history
  <1>3. PICK k : k = Len(files) + 1
    OBVIOUS
  <1>4. /\ Len(files) \in Nat /\ Len(files') = Len(files) + 1
        /\ DOMAIN files' = DOMAIN files \cup {k}
        /\ \A i \in DOMAIN files : files'[i] = files[i]
        /\ files'[k] = f /\ FilesGrow
        /\ OrsonFiles' = OrsonFiles
    BY <1>2, <1>3, FileAdded
  <1>5. FilesApart'
    <2>1. fileCount' + 1 <= Len(files')
      <3>1. fileCount \in -1 .. MaxFile /\ MaxFile \in Nat
        BY HalfFacts DEF PlacesTyped
      <3>2. fileCount \in Int /\ fileCount + 1 <= Len(files)
        BY <3>1 DEF Resolved, FilesApart
      <3> QED
        BY <1>2, <1>4, <3>2
    <2>2. \A i, j \in DOMAIN files' : files'[i].path = files'[j].path => i = j
      BY <1>2, <1>4 DEF Resolved, FilesApart, IsLoaded
    <2>3. \A i \in OrsonFiles : files'[i] = files[i] /\ Base(i)' = Base(i)
      BY <1>4 DEF OrsonFiles, Base
    <2>4. \A p : Size(p)' = Size(p)
      BY <1>2, TextStays
    <2>5. \A i \in OrsonFiles' :
             /\ Base(i)' \in Nat
             /\ Base(i)' + Span <= (fileCount' + 1) * Span
             /\ files'[i].path \in Path
             /\ Size(files[i].path)' + 2 <= Span
      BY <1>2, <1>4, <2>3, <2>4 DEF Resolved, FilesApart
    <2>6. \A i, j \in OrsonFiles' : i < j => Base(i)' + Span <= Base(j)'
      BY <1>4, <2>3 DEF Resolved, FilesApart
    <2> QED
      BY <2>1, <2>2, <2>5, <2>6 DEF FilesApart
  <1>6. LoadsPlaced' /\ ErrorsKept' /\ blamed \subseteq blamed'
    BY <1>2, <1>4, LoadsStay, ErrorsStay DEF Resolved
  <1>7. \A x \in seen' \ seen : IsPlace(x[1], x[2])'
    BY <1>2
  <1> QED
    BY <1>2, <1>4, <1>5, <1>6, <1>7, LoaderStep


(* The char counts of a new file follow those of all others. *)
LEMMA NewFileApart ==
  ASSUME PlacesTyped, FilesApart, NEW path \in Path, ~IsLoaded(path), path \notin CFile,
         Size(path) + 2 <= Span, fileCount' = fileCount + 1, text' = text,
         NEW f, f.path = path, f.count = MakeCharCount(fileCount'), f \in [path : Path, count : Int],
         files' = Append(files, f), Len(files') <= MaxFile
  PROVE  /\ FilesApart'
         /\ f.count \in Nat /\ f.count + Span <= Half
  <1>1. PICK k, n, l, b : /\ k = Len(files) + 1 /\ n = fileCount' /\ l = Len(files)
                          /\ b = n * Span
    OBVIOUS
  <1>2. /\ l \in Nat /\ Len(files') = k /\ k = l + 1 /\ k \in Nat
        /\ DOMAIN files' = DOMAIN files \cup {k}
        /\ \A i \in DOMAIN files : files'[i] = files[i] /\ i < k /\ i \in Nat
        /\ files'[k] = f /\ FilesGrow
        /\ OrsonFiles' = OrsonFiles \cup {k}
    BY <1>1, FileAdded
  <1>3. /\ fileCount \in Int /\ n \in Nat /\ n + 1 <= k /\ k <= MaxFile /\ MaxFile \in Nat
        /\ Span \in Nat /\ Half = Span * MaxFile /\ fileCount + 1 = n
    <2>1. fileCount \in -1 .. MaxFile /\ MaxFile \in Nat \ {0} /\ Span \in Nat \ {0}
      BY HalfFacts DEF PlacesTyped
    <2>2. fileCount + 1 <= l
      BY <1>1 DEF FilesApart
    <2>3. Half = Span * MaxFile
      BY DEF Half
    <2>4. fileCount \in Int /\ fileCount >= -1 /\ fileCount + 1 = n /\ Span \in Nat /\ MaxFile \in Nat
      BY <1>1, <2>1
    <2>5. n \in Nat /\ n <= l
      BY <1>2, <2>2, <2>4
    <2>6. n + 1 <= k /\ k <= MaxFile
      BY <1>2, <2>5
    <2> QED
      BY <2>3, <2>4, <2>5, <2>6
  <1>4. b \in Nat /\ (n + 1) * Span = b + Span /\ b + Span <= Half
    <2>1. b \in Nat /\ (n + 1) * Span = b + Span
      BY <1>1, <1>3
    <2>2. n + 1 \in Nat /\ n + 1 <= MaxFile
      BY <1>2, <1>3
    <2>3. (n + 1) * Span <= MaxFile * Span
      BY <1>3, <2>2
    <2>4. PICK h : h = MaxFile * Span
      OBVIOUS
    <2>5. h = Half
      BY <1>3, <2>4
    <2>6. b + Span <= h
      BY <2>1, <2>3, <2>4
    <2> QED
      BY <2>1, <2>5, <2>6
  <1>5. f.count = b
    <2>1. f.count = Int32(b)
      BY <1>1 DEF MakeCharCount
    <2>2. PICK z \in Nat : z = 0
      OBVIOUS
    <2>3. b + z = b /\ z < Span
      BY <1>4, <2>2, HalfFacts
    <2>4. Int32(b + z) = b + z
      BY <1>4, <2>3, CountsInts
    <2> QED
      BY <2>1, <2>3, <2>4
  <1>6. \A i \in OrsonFiles : /\ Base(i) \in Nat /\ Base(i) + Span <= b
                              /\ files[i].path \in Path /\ Size(files[i].path) + 2 <= Span
    BY <1>1, <1>3 DEF FilesApart
  <1>7. \A i \in OrsonFiles : i \in DOMAIN files
    BY DEF OrsonFiles
  <1>8. /\ \A i \in OrsonFiles : files'[i] = files[i] /\ Base(i)' = Base(i)
        /\ Base(k)' = b
        /\ \A p : Size(p)' = Size(p)
    BY <1>2, <1>5, <1>7, TextStays DEF Base
  <1>9. fileCount' + 1 <= Len(files')
    BY <1>1, <1>2, <1>3
  <1>10. \A i, j \in DOMAIN files' : files'[i].path = files'[j].path => i = j
    BY <1>2 DEF FilesApart, IsLoaded
  <1>11. ASSUME NEW i \in OrsonFiles'
         PROVE  /\ Base(i)' \in Nat
                /\ Base(i)' + Span <= (fileCount' + 1) * Span
                /\ files'[i].path \in Path
                /\ Size(files[i].path)' + 2 <= Span
    <2>1. (fileCount' + 1) * Span = b + Span
      BY <1>1, <1>4
    <2>2. CASE i = k
      <3>1. files'[i].path = path /\ Base(i)' = b
        BY <1>2, <1>8, <2>2
      <3> QED
        BY <1>3, <1>4, <1>8, <2>1, <3>1
    <2>3. CASE i \in OrsonFiles
      <3>1. PICK x : x = Base(i)
        OBVIOUS
      <3>2. x \in Nat /\ x + Span <= b /\ Base(i)' = x
        BY <1>6, <1>8, <2>3, <3>1
      <3>3. x + Span <= b + Span
        BY <1>3, <1>4, <3>2
      <3>4. files'[i].path \in Path /\ Size(files[i].path)' + 2 <= Span
        BY <1>6, <1>8, <2>3
      <3> QED
        BY <2>1, <3>2, <3>3, <3>4
    <2> QED
      BY <1>2, <2>2, <2>3
  <1>12. ASSUME NEW i \in OrsonFiles', NEW j \in OrsonFiles', i < j
         PROVE  Base(i)' + Span <= Base(j)'
    <2>1. i # k
      <3>1. j <= k /\ j \in Nat
        BY <1>2, <1>7
      <3> QED
        BY <1>2, <1>12, <3>1
    <2>2. i \in OrsonFiles
      BY <1>2, <2>1
    <2>3. CASE j = k
      BY <1>6, <1>8, <2>2, <2>3
    <2>4. CASE j \in OrsonFiles
      BY <1>8, <1>12, <2>2, <2>4 DEF FilesApart
    <2> QED
      BY <1>2, <2>3, <2>4
  <1>13. FilesApart'
    BY <1>9, <1>10, <1>11, <1>12 DEF FilesApart
  <1> QED
    BY <1>4, <1>5, <1>13

(* LOAD ORSON opens a file, whose chars have places after all others. *)
LEMMA ReportLoadOrson ==
  ASSUME LinesFit, NoOpenQuote, RoomForErrors, PlacesTyped, PlacesTyped', Resolved,
         Len(files) <= MaxFile, Len(files') <= MaxFile, NEW path \in Path, LoadOrson(path)
  PROVE  Resolved' /\ Shown!Next
  <1>1. PICK f, r : /\ f = [path |-> path, count |-> MakeCharCount(fileCount')]
                    /\ r = Opened(path, charCount)
    OBVIOUS
  <1>2. /\ stage = "loading" /\ stage' = stage
        /\ path \notin CFile /\ ~IsLoaded(path) /\ ~IsTooBig(path)
        /\ fileCount' = fileCount + 1 /\ files' = Append(files, f)
        /\ Read(r, f.count, loads)
        /\ UNCHANGED <<text, shown, turn, file>>
    BY <1>1 DEF LoadOrson, writer
  <1>3. text \in Texts /\ loads \in Seq(Reader) /\ loads' \in Seq(Reader) /\ charCount \in Int
    BY <1>2 DEF PlacesTyped
  <1>4. f.path = path /\ f.count = MakeCharCount(fileCount') /\ f \in [path : Path, count : Int]
    <2>1. fileCount' * Span \in Int
      <3>1. fileCount' \in -1 .. MaxFile /\ Span \in Nat
        BY HalfFacts DEF PlacesTyped
      <3> QED
        BY <3>1
    <2>2. MakeCharCount(fileCount') \in Int
      BY <2>1, Int32Facts DEF MakeCharCount
    <2> QED
      BY <1>1, <2>2
  <1>5. Size(path) + 2 <= Span
    <2>1. ~(Len(text[path]) >= Span)
      BY <1>2 DEF IsTooBig
    <2>2. Len(text[path]) + (IF Ragged(text[path]) THEN 1 ELSE 0) + 2 <= Span
      <3>1. PICK l, x, u : /\ l = Len(text[path]) /\ x = (IF Ragged(text[path]) THEN 1 ELSE 0)
                           /\ u = (IF Quoted(text[path]) THEN 3 ELSE 2)
        OBVIOUS
      <3>2. l \in Nat /\ x \in Nat /\ u \in Nat /\ 2 <= u /\ Span \in Nat
        <4>1. (x = 0 \/ x = 1) /\ (u = 2 \/ u = 3)
          BY <3>1
        <4>2. Len(text[path]) \in Nat /\ Span \in Nat
          BY <1>3, TextFacts, HalfFacts
        <4> QED
          BY <3>1, <4>1, <4>2
      <3>3. l + x + u <= Span
        BY <1>3, <2>1, <3>1 DEF RoomForErrors, RoomFor
      <3>4. l + x + 2 <= Span
        BY ONLY <3>2, <3>3
      <3> QED
        BY <3>1, <3>4
    <2> QED
      BY <2>2 DEF Size
  <1>6. FilesApart' /\ f.count \in Nat /\ f.count + Span <= Half
    BY <1>2, <1>4, <1>5, NewFileApart DEF Resolved
  <1>7. PICK k : k = Len(files) + 1
    OBVIOUS
  <1>8. FilesGrow /\ files'[k] = f /\ k \in OrsonFiles'
    BY <1>2, <1>4, <1>7, FileAdded
  <1>9. shown = {} /\ shown' = {} /\ ErrorsKept /\ LoadsPlaced
    BY <1>2 DEF Resolved, LoadsPlaced
  <1>10. PICK b, o : b = f.count /\ o \in Nat /\ o = 0 /\ b + o = b
    BY <1>6
  <1>11. ReadsAt(r, k, b, o, loads)
    <2>1. Reading(r, o) /\ r.path = path
      BY <1>1, <1>3, <1>10, Opening DEF Reading
    <2>2. Read(r, b + o, loads)
      BY <1>2, <1>10
    <2> QED
      BY <1>4, <1>5, <1>6, <1>8, <1>10, <2>1, <2>2 DEF ReadsAt
  <1>12. PICK s, c : /\ loads' = Append(loads, s) /\ c = charCount'
                     /\ s \in Reader /\ s.old = r.old
                     /\ Counted(s, c)'
                     /\ \A x \in seen' \ seen : IsPlace(x[1], x[2])'
                     /\ ErrorsKept' /\ blamed \subseteq blamed'
    BY <1>3, <1>8, <1>9, <1>11, ReadPlaced
  <1>13. PICK n \in Nat : n = Len(loads)
    BY <1>3, LenProperties
  <1>14. /\ Len(loads') = n + 1
         /\ \A m \in 1 .. n : loads'[m] = loads[m]
         /\ loads'[n + 1] = s
    BY <1>3, <1>12, <1>13, AppendProperties
  <1>15. CountAt(n)' = CountAt(n)
    <2>1. n # n + 1
      OBVIOUS
    <2>2. CountAt(n)' = s.old
      BY <1>14, <2>1 DEF CountAt
    <2>3. CountAt(n) = charCount /\ r.old = charCount
      BY <1>1, <1>13 DEF CountAt, Opened
    <2> QED
      BY <1>12, <2>2, <2>3
  <1>16. LoadsPlaced'
    <2>1. n <= Len(loads) /\ Len(loads') \in {n, n + 1}
      BY <1>13, <1>14
    <2>2. Len(loads') = n + 1 => \E t, d : t = loads'[n + 1] /\ d = charCount' /\ Counted(t, d)'
      BY <1>12, <1>14
    <2> QED
      BY <1>2, <1>3, <1>8, <1>9, <1>14, <1>15, <2>1, <2>2, LoadsOn
  <1> QED
    BY <1>2, <1>4, <1>6, <1>8, <1>12, <1>16, LoaderStep


-----------------------------------------------------------------------------
(* Steps of the writer *)

(* The errors at the first place are those of its spot, and no spot before *)
(* it has any.                                                             *)
LEMMA Shows ==
  ASSUME PlacesTyped, PlacesTyped', FilesApart, ErrorsKept, Len(files) <= MaxFile,
         stage = "writing", stage' = stage, UNCHANGED <<text, files, blamed>>,
         NEW c, NEW q, NEW got, IsPlace(c, q), \A pl \in places : pl[1] >= c,
         got = GetErrs(c, places), places' = places \ got,
         shown' = shown \cup ({q} \X Errs(got))
  PROVE  /\ ErrorsKept'
         /\ Shown!Show \/ shown' = shown
         /\ \A pl \in places \ got : pl[1] \in Nat /\ c \in Nat /\ pl[1] > c
  <1>1. FilesGrow
    BY FilesSame
  <1>2. ASSUME NEW pl \in places
        PROVE  \E b \in blamed \ shown : IsPlace(pl[1], b[1]) /\ pl[2] = b[2]
    BY DEF ErrorsKept
  <1>3. c \in Nat /\ q \in Path \X Nat \X Nat
    BY PlacesOrdered
  <1>4. ASSUME NEW d, NEW r, IsPlace(d, r)
        PROVE  /\ d \in Nat /\ r \in Path \X Nat \X Nat
               /\ c < d => Shown!Before(q, r)
               /\ c = d => q = r
               /\ q = r => c = d
    BY <1>4, PlacesOrdered
  <1>5. \A pl \in places : pl[1] \in Nat
    BY <1>2, <1>4
  <1>6. \A pl : pl \in got <=> pl \in places /\ pl[1] = c
    <2>1. \A pl : pl \in got <=> pl \in places /\ pl[1] = c /\ \A x \in places : x[1] >= c
      BY DEF GetErrs
    <2> QED
      BY <2>1
  <1>7. \A e : e \in Errs(got) <=> \E pl \in got : e = pl[2]
    BY DEF Errs
  <1>8. ASSUME NEW b \in blamed \ shown, b[1] = q
        PROVE  b[2] \in Errs(got)
    <2>1. PICK pl \in places : IsPlace(pl[1], b[1]) /\ pl[2] = b[2]
      BY DEF ErrorsKept
    <2>2. pl[1] = c
      BY <1>4, <1>8, <2>1
    <2> QED
      BY <1>6, <1>7, <2>1, <2>2
  <1>9. ASSUME NEW e \in Errs(got)
        PROVE  <<q, e>> \in blamed \ shown
    <2>1. PICK pl \in places : pl[1] = c /\ pl[2] = e
      BY <1>6, <1>7
    <2>2. PICK b \in blamed \ shown : IsPlace(c, b[1]) /\ b[2] = e
      BY <1>2, <2>1
    <2>3. b[1] = q
      BY <1>4, <2>2
    <2>4. b = <<b[1], b[2]>>
      BY DEF ErrorsKept
    <2> QED
      BY <2>2, <2>3, <2>4
  <1>10. \A x : x \in {q} \X Errs(got) <=> \E e \in Errs(got) : x = <<q, e>>
    OBVIOUS
  <1>11. shown' = shown \cup { b \in blamed : b[1] = q }
    <2>1. ASSUME NEW b \in blamed, b[1] = q, b \notin shown
          PROVE  b \in {q} \X Errs(got)
      <3>1. b = <<b[1], b[2]>> /\ b[2] \in Errs(got)
        BY <1>8, <2>1 DEF ErrorsKept
      <3> QED
        BY <1>10, <2>1, <3>1
    <2>2. ASSUME NEW x \in {q} \X Errs(got)
          PROVE  x \in blamed /\ x[1] = q
      BY <1>9, <1>10
    <2> QED
      BY <2>1, <2>2
  <1>12. \A pl \in places \ got : pl[1] \in Nat /\ c \in Nat /\ pl[1] > c
    <2> SUFFICES ASSUME NEW pl \in places \ got PROVE pl[1] \in Nat /\ c \in Nat /\ pl[1] > c
      OBVIOUS
    <2>1. pl[1] \in Nat /\ pl[1] >= c /\ pl[1] # c
      BY <1>5, <1>6
    <2> QED
      BY <1>3, <2>1
  <1>13. ErrorsKept'
    <2>1. ASSUME NEW b \in blamed
          PROVE  b = <<b[1], b[2]>> /\ b[2] \in AnyErr /\ Known(b[1])'
      BY <1>1, PlacesStay DEF ErrorsKept
    <2>2. ASSUME NEW pl \in places'
          PROVE  /\ pl = <<pl[1], pl[2]>>
                 /\ \E b \in blamed \ shown' : IsPlace(pl[1], b[1])' /\ pl[2] = b[2]
      <3>1. pl \in places /\ pl \notin got
        OBVIOUS
      <3>2. PICK b \in blamed \ shown : IsPlace(pl[1], b[1]) /\ pl[2] = b[2]
        BY <1>2, <3>1
      <3>3. b[1] # q
        BY <1>4, <1>6, <3>1, <3>2
      <3>4. b \notin shown'
        BY <1>11, <3>3
      <3>5. IsPlace(pl[1], b[1])'
        BY <1>1, <3>2, PlacesStay
      <3>6. pl = <<pl[1], pl[2]>>
        BY <3>1 DEF ErrorsKept
      <3> QED
        BY <3>2, <3>4, <3>5, <3>6
    <2>3. ASSUME NEW b \in blamed \ shown'
          PROVE  \E pl \in places' : IsPlace(pl[1], b[1])' /\ pl[2] = b[2]
      <3>1. b \in blamed \ shown /\ b[1] # q
        BY <1>11
      <3>2. PICK pl \in places : IsPlace(pl[1], b[1]) /\ pl[2] = b[2]
        BY <3>1 DEF ErrorsKept
      <3>3. pl[1] # c
        BY <1>4, <3>1, <3>2
      <3>4. pl \in places' /\ IsPlace(pl[1], b[1])'
        BY <1>1, <1>6, <3>2, <3>3, PlacesStay
      <3> QED
        BY <3>2, <3>4
    <2>4. shown' \subseteq blamed
      BY <1>11 DEF ErrorsKept
    <2> QED
      BY <2>1, <2>2, <2>3, <2>4 DEF ErrorsKept
  <1>14. CASE Errs(got) = {}
    <2>1. shown' = shown
      BY <1>10, <1>14
    <2> QED
      BY <1>12, <1>13, <2>1
  <1>15. ASSUME NEW e \in Errs(got)
         PROVE  Shown!Show
    <2>1. PICK b \in blamed \ shown : b = <<q, e>>
      BY <1>9
    <2>2. b[1] = q
      BY <2>1
    <2>3. ASSUME NEW x \in blamed \ shown PROVE ~Shown!Before(x[1], b[1])
      <3>1. PICK pl \in places : IsPlace(pl[1], x[1])
        BY DEF ErrorsKept
      <3>2. PICK d, r : d = pl[1] /\ r = x[1]
        OBVIOUS
      <3>3. /\ d \in Nat /\ r \in Path \X Nat \X Nat /\ d >= c
            /\ c < d => Shown!Before(q, r)
            /\ c = d => q = r
        BY <1>4, <3>1, <3>2
      <3>4. c < d \/ c = d
        BY <1>3, <3>3
      <3>5. Shown!Before(q, r) => ~Shown!Before(r, q)
        BY <1>3, <3>3, BeforeAsymmetric
      <3>6. Shown!Before(q, q) => ~Shown!Before(q, q)
        BY <1>3, BeforeAsymmetric
      <3>7. ~Shown!Before(r, q)
        BY <3>3, <3>4, <3>5, <3>6
      <3> QED
        BY <2>2, <3>2, <3>7
    <2>4. StageOf = "writing" /\ StageOf' = StageOf /\ OrderOf' = OrderOf /\ blamed' = blamed
      <3>0. ~Lost /\ ~Lost'
        BY <1>13, NothingLost, NothingLostAfter DEF PlacesTyped
      <3>1. StageOf = "writing" /\ StageOf' = "writing"
        BY <3>0, StageFacts, StageAfter
      <3> QED
        BY <3>1 DEF OrderOf
    <2>5. shown' # shown /\ shown \subseteq shown' /\ shown' \subseteq blamed
      BY <1>11, <1>13, <2>1, <2>2 DEF ErrorsKept
    <2>6. \A x \in shown' \ shown : x[1] = q
      BY <1>11
    <2>7. \A y \in blamed \ shown' : y \in blamed \ shown /\ y[1] # q
      BY <1>11
    <2>8. ASSUME NEW x \in shown' \ shown
          PROVE  /\ \A y \in shown' \ shown : x[1][1] = y[1][1] /\ x[1][2] = y[1][2]
                 /\ \A y \in blamed \ shown' : x[1] # y[1] /\ ~Shown!Before(y[1], x[1])
      BY <2>2, <2>3, <2>6, <2>7
    <2> QED
      BY <2>4, <2>5, <2>8 DEF Shown!Show
  <1> QED
    BY <1>12, <1>13, <1>14, <1>15

(* A step of the writer. *)
LEMMA WriterStep ==
  ASSUME PlacesTyped, PlacesTyped', Resolved, Len(files) <= MaxFile,
         stage = "writing", stage' = stage, UNCHANGED <<text, loader, history>>,
         ErrorsKept', WriterPlaced', Shown!Show \/ shown' = shown
  PROVE  Resolved' /\ [Shown!Next]_Shown!vars
  <1>1. UNCHANGED <<text, files, fileCount, blamed, seen>>
    BY DEF loader, history
  <1>2. FilesApart' /\ SeenPlaced'
    BY <1>1, FilesApartStay, FilesSame, PlacesStay DEF Resolved, SeenPlaced
  <1>3. LoadsPlaced' /\ WriterRests'
    BY DEF LoadsPlaced, WriterRests
  <1>4. StageOf = "writing" /\ StageOf' = "writing" /\ OrderOf' = OrderOf
    <2>1. ~Lost /\ ~Lost'
      BY <1>1, NothingLost, NothingLostAfter DEF Resolved, PlacesTyped
    <2> QED
      BY <1>1, <2>1, StageFacts, StageAfter DEF OrderOf
  <1>5. [Shown!Next]_Shown!vars
    BY <1>1, <1>4, RowsStay DEF Shown!Next, Shown!vars
  <1> QED
    BY <1>2, <1>3, <1>5 DEF Resolved

(* A file is open again. *)
WriterIsAt(f, c, t, o) ==
  /\ t \in OrsonFiles
  /\ f.path = files[t].path
  /\ o \in 1 .. Size(f.path) + 1 /\ Placed(f, o)
  /\ c = Base(t) + o

(* No error lies before the char that WRITE ERROR LINES has come to. *)
LEMMA WriterGoesOn ==
  ASSUME PlacesTyped, UNCHANGED <<text, files>>, turn' \in 0 .. Len(files),
         NEW f, NEW c, NEW t, NEW o, f = file', c = charCount', t = turn', WriterIsAt(f, c, t, o),
         \A pl \in places' : pl[1] >= c
  PROVE  WriterPlaced'
  <1>1. text \in Texts
    BY DEF PlacesTyped
  <1>2. f # Closed /\ Closed' = Closed
    BY <1>1, PlacedFacts DEF WriterIsAt, Closed, Opened
  <1>3. t \in OrsonFiles' /\ f.path = files'[t].path
    BY FilesSame DEF WriterIsAt
  <1>4. o \in (1 .. Size(f.path) + 1)' /\ Placed(f, o)' /\ c = Base(t)' + o
    BY TextStays DEF WriterIsAt, Base
  <1> QED
    BY <1>2, <1>3, <1>4 DEF WriterPlaced


(* Every error is kept at the count of a char, behind its file's first count. *)
LEMMA PlacesNatural ==
  ASSUME PlacesTyped, FilesApart, ErrorsKept, Len(files) <= MaxFile, NEW pl \in places
  PROVE  /\ pl[1] \in Nat
         /\ \E i \in OrsonFiles : \E o \in 1 .. Size(files[i].path) + 1 : pl[1] = Base(i) + o
  <1>1. \E b \in blamed \ shown : IsPlace(pl[1], b[1])
    BY DEF ErrorsKept
  <1>2. PICK q : IsPlace(pl[1], q)
    BY <1>1
  <1>3. pl[1] \in Nat
    BY <1>2, PlacesOrdered
  <1> QED
    BY <1>2, <1>3 DEF IsPlace


(* WRITE ERROR LINES skips a C file, which no error is in. *)
LEMMA ReportSkipFile ==
  ASSUME PlacesTyped, PlacesTyped', Resolved, Len(files) <= MaxFile, SkipFile
  PROVE  Resolved' /\ [Shown!Next]_Shown!vars
  <1>1. /\ stage = "writing" /\ stage' = stage /\ file = Closed /\ file' = file
        /\ turn < Len(files) /\ files[turn + 1].path \in CFile /\ turn' = turn + 1
        /\ UNCHANGED <<text, loader, history>>
        /\ UNCHANGED <<text, files, places, blamed, shown>>
    BY DEF SkipFile, loader, history
  <1>2. ErrorsKept'
    BY <1>1, FilesSame, ErrorsStay DEF Resolved
  <1>3. /\ turn \in 0 .. Len(files)
        /\ \A pl \in places : \E i \in OrsonFiles : i > turn /\ pl[1] > Base(i)
    BY <1>1 DEF Resolved, WriterPlaced
  <1>4. Len(files) \in Nat /\ \A i \in OrsonFiles : i \in Nat
    BY CountsFit DEF Resolved
  <1>5. turn \in Nat /\ turn' \in 0 .. Len(files)
    BY <1>1, <1>3, <1>4
  <1>6. ASSUME NEW pl \in places
        PROVE  \E i \in OrsonFiles : i > turn' /\ pl[1] > Base(i)
    <2>1. PICK i \in OrsonFiles : i > turn /\ pl[1] > Base(i)
      BY <1>3
    <2>2. i # turn + 1
      BY <1>1 DEF OrsonFiles
    <2>3. i > turn'
      BY <1>1, <1>4, <1>5, <2>1, <2>2
    <2> QED
      BY <2>1, <2>3
  <1>7. OrsonFiles' = OrsonFiles /\ \A i : Base(i)' = Base(i)
    BY <1>1, FilesSame DEF Base
  <1>8. WriterPlaced'
    BY <1>1, <1>5, <1>6, <1>7 DEF WriterPlaced, Closed
  <1> QED
    BY <1>1, <1>2, <1>8, WriterStep

(* WRITE ERROR LINES reads an Orson file again, from its first char. *)
LEMMA ReportReopenFile ==
  ASSUME LinesFit, NoOpenQuote, PlacesTyped, PlacesTyped', Resolved, Len(files) <= MaxFile, ReopenFile
  PROVE  Resolved' /\ [Shown!Next]_Shown!vars
  <1>1. PICK t, p, f, c : /\ t = turn + 1 /\ p = files[t].path
                          /\ f = file' /\ c = charCount'
    OBVIOUS
  <1>2. /\ stage = "writing" /\ stage' = stage /\ file = Closed
        /\ turn < Len(files) /\ turn' = t /\ p \notin CFile
        /\ f = NextChar(Opened(p, 0), WriteRoom)
        /\ c = Int32(Base(t) + 1)
        /\ UNCHANGED <<text, loader, history>>
        /\ UNCHANGED <<text, files, places, blamed, shown>>
    BY <1>1 DEF ReopenFile, loader, history, Base
  <1>3. ErrorsKept'
    BY <1>2, FilesSame, ErrorsStay DEF Resolved
  <1>4. /\ turn \in 0 .. Len(files)
        /\ \A pl \in places : \E i \in OrsonFiles : i > turn /\ pl[1] > Base(i)
    BY <1>2 DEF Resolved, WriterPlaced
  <1>5. Len(files) \in Nat /\ DOMAIN files = 1 .. Len(files)
    BY CountsFit DEF Resolved
  <1>6. t \in DOMAIN files /\ t \in OrsonFiles /\ t \in 0 .. Len(files) /\ turn \in Nat
    BY <1>1, <1>2, <1>4, <1>5 DEF OrsonFiles
  <1>7. /\ p \in Path /\ Base(t) \in Nat /\ Span \in Nat
        /\ Size(p) \in Nat /\ Size(p) + 2 <= Span
    BY <1>1, <1>6, CountsFit DEF Resolved
  <1>8. c = Base(t) + 1
    <2>1. PICK k \in Nat : k = 1
      OBVIOUS
    <2>2. k < Span
      BY <1>7, <2>1
    <2>3. Int32(Base(t) + k) = Base(t) + k
      BY <1>6, <2>2, CountsStay DEF Resolved
    <2> QED
      BY <1>2, <2>1, <2>3
  <1>9. text \in Texts
    BY DEF PlacesTyped
  <1>10. Placed(f, 1) /\ f.path = p
    <2>1. PICK r, o : r = Opened(p, 0) /\ o = 0 /\ o + 1 = 1
      OBVIOUS
    <2>2. Reading(r, o) /\ r.path = p
      BY <1>7, <1>9, <2>1, Opening DEF Reading
    <2>3. WriteRoom \in Nat /\ WriteRoom >= MaxLine - 1
      <3>1. MaxLine \in Nat \ {0}
        BY PlacesAssumption
      <3> QED
        BY ONLY <3>1 DEF WriteRoom
    <2>4. f = NextChar(r, WriteRoom)
      BY <1>2, <2>1
    <2>5. Placed(f, o + 1) /\ f.path = r.path
      BY <1>9, <2>2, <2>3, <2>4, NextCharOn
    <2> QED
      BY <2>1, <2>2, <2>5
  <1>11. PICK o : o = 1
    OBVIOUS
  <1>12. WriterIsAt(f, c, t, o)
    <2>1. 1 \in 1 .. Size(p) + 1
      BY <1>7
    <2> QED
      BY <1>1, <1>6, <1>8, <1>10, <1>11, <2>1 DEF WriterIsAt
  <1>13. ASSUME NEW pl \in places PROVE pl[1] >= c
    <2>1. PICK i \in OrsonFiles : i > turn /\ pl[1] > Base(i)
      BY <1>4
    <2>2. PICK x, y : x = Base(i) /\ y = Base(t)
      OBVIOUS
    <2>3. i \in Nat /\ x \in Nat /\ y \in Nat /\ (t < i => y + Span <= x)
      BY <1>6, <2>2, CountsFit DEF Resolved
    <2>4. i = t \/ t < i
      BY <1>1, <1>6, <2>1, <2>3
    <2>5. y <= x
      BY <1>7, <2>2, <2>3, <2>4
    <2>6. pl[1] \in Nat
      BY PlacesNatural DEF Resolved
    <2> QED
      BY <1>8, <2>1, <2>2, <2>3, <2>5, <2>6
  <1>14. WriterPlaced'
    BY <1>1, <1>2, <1>6, <1>12, <1>13, WriterGoesOn
  <1> QED
    BY <1>2, <1>3, <1>14, WriterStep

(* WRITE ERROR LINES shows the errors of one char and goes to the next. *)
LEMMA ReportWriteChar ==
  ASSUME LinesFit, NoOpenQuote, PlacesTyped, PlacesTyped', Resolved, Len(files) <= MaxFile, WriteChar
  PROVE  Resolved' /\ [Shown!Next]_Shown!vars
  <1>1. PICK c, q, got, f, d : /\ c = charCount /\ q = Spot(file) /\ got = GetErrs(charCount, places)
                               /\ f = file' /\ d = charCount'
    OBVIOUS
  <1>2. /\ stage = "writing" /\ stage' = stage /\ file # Closed /\ Ch(file) # EopChar
        /\ places' = places \ got
        /\ shown' = shown \cup ({q} \X Errs(got))
        /\ f = NextChar(file, WriteRoom)
        /\ d = Int32(c + 1) /\ turn' = turn
        /\ UNCHANGED <<text, loader, history>>
        /\ UNCHANGED <<text, files, blamed>>
    BY <1>1 DEF WriteChar, loader, history
  <1>3. /\ turn \in 0 .. Len(files) /\ turn \in OrsonFiles
        /\ file.path = files[turn].path
        /\ \E o \in 1 .. Size(file.path) + 1 : Placed(file, o) /\ charCount = Base(turn) + o
        /\ \A pl \in places : pl[1] >= c
    BY <1>1, <1>2 DEF Resolved, WriterPlaced
  <1>4. PICK o \in 1 .. Size(file.path) + 1 : Placed(file, o) /\ c = Base(turn) + o
    BY <1>1, <1>3
  <1>5. PICK p : p = file.path
    OBVIOUS
  <1>6. /\ p \in Path /\ Base(turn) \in Nat /\ Span \in Nat
        /\ Size(p) \in Nat /\ Size(p) + 2 <= Span
    BY <1>3, <1>5, CountsFit DEF Resolved
  <1>7. text \in Texts
    BY DEF PlacesTyped
  <1>8. IsPlace(c, q)
    <2>1. Counted(file, c)
      BY <1>3, <1>4 DEF Counted
    <2> QED
      BY <1>1, <1>7, <2>1, CountedIsPlace
  <1>9. /\ ErrorsKept'
        /\ Shown!Show \/ shown' = shown
        /\ \A pl \in places \ got : pl[1] \in Nat /\ c \in Nat /\ pl[1] > c
    <2>1. FilesApart /\ ErrorsKept
      BY DEF Resolved
    <2>2. got = GetErrs(c, places)
      BY <1>1
    <2> QED
      BY <1>2, <1>3, <1>8, <2>1, <2>2, Shows
  <1>10. o \in Nat /\ o <= Size(p) /\ 1 <= o
    <2>1. o # Size(p) + 1
      BY <1>2, <1>4, <1>5, <1>7, PlacedFacts
    <2> QED
      BY <1>5, <1>6, <2>1
  <1>11. Placed(f, o + 1) /\ f.path = p
    <2>1. Reading(file, o)
      BY <1>4, <1>5, <1>10 DEF Reading
    <2>2. WriteRoom \in Nat /\ WriteRoom >= MaxLine - 1
      <3>1. MaxLine \in Nat \ {0}
        BY PlacesAssumption
      <3> QED
        BY ONLY <3>1 DEF WriteRoom
    <2> QED
      BY <1>2, <1>5, <1>7, <2>1, <2>2, NextCharOn
  <1>12. PICK k : k = o + 1
    OBVIOUS
  <1>13. k \in Nat /\ k < Span /\ k \in 1 .. Size(p) + 1 /\ c + 1 = Base(turn) + k
    BY <1>4, <1>6, <1>10, <1>12
  <1>14. d = Base(turn) + k
    <2>1. Int32(Base(turn) + k) = Base(turn) + k
      BY <1>3, <1>13, CountsStay DEF Resolved
    <2> QED
      BY <1>2, <1>13, <2>1
  <1>15. WriterIsAt(f, d, turn, k)
    BY <1>3, <1>5, <1>11, <1>12, <1>13, <1>14 DEF WriterIsAt
  <1>16. \A pl \in places' : pl[1] >= d
    BY <1>2, <1>9, <1>13, <1>14
  <1>17. WriterPlaced'
    <2>1. PICK t : t = turn'
      OBVIOUS
    <2>2. WriterIsAt(f, d, t, k) /\ turn' \in 0 .. Len(files)
      BY <1>2, <1>3, <1>15, <2>1
    <2> QED
      BY <1>1, <1>2, <1>16, <2>1, <2>2, WriterGoesOn
  <1> QED
    BY <1>2, <1>9, <1>17, WriterStep


(* The EOS CHAR after the EOP CHAR has a count of its own. *)
LEMMA NothingLast ==
  ASSUME PlacesTyped, FilesApart, ErrorsKept, Len(files) <= MaxFile,
         NEW t \in OrsonFiles, NEW c, c = Base(t) + (Size(files[t].path) + 1),
         NEW pl \in places, pl[1] > c
  PROVE  /\ pl[1] # Int32(c + 1)
         /\ \E i \in OrsonFiles : i > t /\ pl[1] > Base(i)
  <1>1. PICK i \in OrsonFiles : \E k \in 1 .. Size(files[i].path) + 1 : pl[1] = Base(i) + k
    BY PlacesNatural
  <1>2. PICK k \in 1 .. Size(files[i].path) + 1 : pl[1] = Base(i) + k
    BY <1>1
  <1>3. PICK bt, bi, z, zi, n : /\ bt = Base(t) /\ bi = Base(i) /\ z = Size(files[t].path)
                                /\ zi = Size(files[i].path) /\ n = pl[1]
    OBVIOUS
  <1>4. /\ t \in Nat /\ bt \in Nat /\ bt + Span <= Half /\ z \in Nat /\ z + 2 <= Span
        /\ i \in Nat /\ bi \in Nat /\ zi \in Nat
        /\ t < i => bt + Span <= bi
        /\ i < t => bi + Span <= bt
        /\ zi + 2 <= Span
        /\ Span \in Nat /\ Half \in Nat
    BY <1>3, CountsFit
  <1>5. k \in Nat /\ 1 <= k /\ k <= zi + 1 /\ n = bi + k /\ n > c /\ c = bt + (z + 1)
    BY <1>2, <1>3, <1>4
  <1>6. i = t => bi = bt /\ zi = z
    BY <1>3
  <1>7. i > t
    <2>1. i # t
      BY ONLY <1>4, <1>5, <1>6
    <2>2. ~(i < t)
      BY ONLY <1>4, <1>5
    <2> QED
      BY <1>4, <2>1, <2>2
  <1>8. n > bi /\ n >= bt + Span + 1 /\ n \in Nat
    BY ONLY <1>4, <1>5, <1>7
  <1>9. PICK m : m = c + 1
    OBVIOUS
  <1>10. m \in Int /\ m <= bt + Span /\ m <= Half /\ 0 <= m /\ m < n
    BY ONLY <1>4, <1>5, <1>8, <1>9
  <1>11. n # Int32(m)
    <2>1. CASE m < Half
      <3>1. Int32(m) = m
        <4>1. -Half <= m
          BY ONLY <1>4, <1>10
        <4> QED
          BY <1>10, <2>1, <4>1, Int32Facts
      <3> QED
        BY <1>8, <1>10, <3>1
    <2>2. CASE m = Half
      <3>1. Half >= 1
        BY HalfFacts
      <3>2. Half <= m /\ m < 3 * Half
        BY ONLY <1>4, <2>2, <3>1
      <3>3. Int32(m) = m - 2 * Half
        BY <1>10, <3>2, Int32Facts
      <3>4. Int32(m) < 0
        BY ONLY <1>4, <2>2, <3>1, <3>3
      <3>5. PICK x : x = Int32(m)
        OBVIOUS
      <3> QED
        BY <1>8, <3>4, <3>5
    <2> QED
      BY <1>4, <1>10, <2>1, <2>2
  <1> QED
    BY <1>3, <1>7, <1>8, <1>9, <1>11

(* WRITE ERROR LINES shows the errors at the end of a file, and leaves *)
(* none behind.                                                        *)
LEMMA ReportWriteLast ==
  ASSUME PlacesTyped, PlacesTyped', Resolved, Len(files) <= MaxFile, WriteLast
  PROVE  Resolved' /\ [Shown!Next]_Shown!vars
  <1>1. PICK c, q, got, last, z :
          /\ c = charCount /\ q = Spot(file) /\ got = GetErrs(charCount, places)
          /\ last = GetErrs(Int32(charCount + 1), places \ got)
          /\ z = Spot(NextChar(file, WriteRoom))
    OBVIOUS
  <1>2. /\ stage = "writing" /\ stage' = stage /\ file # Closed /\ Ch(file) = EopChar
        /\ places' = places \ (got \cup last)
        /\ shown' = shown \cup ({q} \X Errs(got)) \cup ({z} \X Errs(last))
        /\ file' = Closed /\ turn' = turn
        /\ UNCHANGED <<text, loader, history>>
        /\ UNCHANGED <<text, files, blamed>>
    BY <1>1 DEF WriteLast, loader, history
  <1>3. /\ turn \in 0 .. Len(files) /\ turn \in OrsonFiles
        /\ file.path = files[turn].path
        /\ \E o \in 1 .. Size(file.path) + 1 : Placed(file, o) /\ charCount = Base(turn) + o
        /\ \A pl \in places : pl[1] >= c
    BY <1>1, <1>2 DEF Resolved, WriterPlaced
  <1>4. PICK o \in 1 .. Size(file.path) + 1 : Placed(file, o) /\ c = Base(turn) + o
    BY <1>1, <1>3
  <1>5. text \in Texts
    BY DEF PlacesTyped
  <1>6. IsPlace(c, q)
    <2>1. Counted(file, c)
      BY <1>3, <1>4 DEF Counted
    <2> QED
      BY <1>1, <1>5, <2>1, CountedIsPlace
  <1>7. c = Base(turn) + (Size(files[turn].path) + 1)
    BY <1>2, <1>3, <1>4, <1>5, PlacedFacts
  <1>8. FilesApart /\ ErrorsKept
    BY DEF Resolved
  <1>9. ASSUME NEW pl \in places \ got
        PROVE  pl[1] # Int32(c + 1) /\ \E i \in OrsonFiles : i > turn /\ pl[1] > Base(i)
    <2>1. pl[1] > c
      <3>1. pl[1] >= c
        BY <1>3
      <3>2. pl[1] # c
        BY <1>1, <1>3 DEF GetErrs
      <3>3. pl[1] \in Nat /\ c \in Nat
        BY <1>6, <1>8, PlacesNatural, PlacesOrdered
      <3> QED
        BY <3>1, <3>2, <3>3
    <2> QED
      BY <1>3, <1>7, <1>8, <2>1, NothingLast
  <1>10. last = {}
    BY <1>1, <1>9 DEF GetErrs
  <1>11. places' = places \ got /\ shown' = shown \cup ({q} \X Errs(got))
    <2>1. Errs(last) = {}
      BY <1>10 DEF Errs
    <2>2. {z} \X Errs(last) = {}
      BY <2>1
    <2> QED
      BY <1>2, <1>10, <2>2
  <1>12. /\ ErrorsKept'
         /\ Shown!Show \/ shown' = shown
    <2>1. got = GetErrs(c, places)
      BY <1>1
    <2> QED
      BY <1>2, <1>3, <1>6, <1>8, <1>11, <2>1, Shows
  <1>13. WriterPlaced'
    <2>1. OrsonFiles' = OrsonFiles /\ \A i : Base(i)' = Base(i)
      BY <1>2, FilesSame DEF Base
    <2>2. ASSUME NEW pl \in places'
          PROVE  \E i \in OrsonFiles' : i > turn' /\ pl[1] > Base(i)'
      BY <1>2, <1>9, <1>11, <2>1
    <2> QED
      BY <1>2, <1>3, <2>2 DEF WriterPlaced, Closed
  <1> QED
    BY <1>2, <1>12, <1>13, WriterStep

(* No error is left when the last file was read. *)
LEMMA ReportWriteEnd ==
  ASSUME PlacesTyped, PlacesTyped', Resolved, Len(files) <= MaxFile, WriteEnd
  PROVE  Resolved' /\ [Shown!Next]_Shown!vars
  <1>1. /\ stage = "writing" /\ file = Closed
        /\ places = {} \/ turn = Len(files)
        /\ stage' = IF places = {} THEN "ended" ELSE "unresolved"
        /\ UNCHANGED <<text, files, fileCount, places, blamed, seen, shown>>
    BY DEF WriteEnd, loader, history
  <1>2. places = {}
    <2>1. CASE turn = Len(files)
      <3>1. \A i \in OrsonFiles : ~(i > turn)
        <4>1. Len(files) \in Nat /\ \A i \in OrsonFiles : i \in 1 .. Len(files)
          BY CountsFit DEF Resolved
        <4> QED
          BY <2>1, <4>1
      <3> QED
        BY <1>1, <3>1 DEF Resolved, WriterPlaced
    <2> QED
      BY <1>1, <2>1
  <1>3. stage' = "ended" /\ shown = blamed
    BY <1>1, <1>2 DEF Resolved, ErrorsKept
  <1>4. FilesApart' /\ SeenPlaced' /\ ErrorsKept'
    BY <1>1, FilesApartStay, FilesSame, PlacesStay, ErrorsStay DEF Resolved, SeenPlaced
  <1>5. StageOf = "writing" /\ StageOf' = "ended" /\ OrderOf' = OrderOf
    <2>1. Len(files') <= MaxFile
      BY <1>1
    <2>2. ~Lost /\ ~Lost'
      BY <1>1, <1>4, NothingLost, NothingLostAfter DEF Resolved, PlacesTyped
    <2> QED
      BY <1>1, <1>3, <2>1, <2>2, StageFacts, StageAfter DEF OrderOf
  <1>6. Shown!End
    BY <1>1, <1>3, <1>5 DEF Shown!End
  <1>7. LoadsPlaced' /\ WriterPlaced' /\ WriterRests'
    BY <1>3 DEF LoadsPlaced, WriterPlaced, WriterRests
  <1> QED
    BY <1>1, <1>4, <1>6, <1>7, RowsStay DEF Resolved, Shown!Next

-----------------------------------------------------------------------------
(* All steps *)

(* At first there is nothing to report. *)
LEMMA ReportInitially ==
  ASSUME Init
  PROVE  ReportInv /\ Shown!Init
  <1>1. PlacesTyped
    BY PlacesInitially DEF PlacesInv
  <1>2. /\ files = <<>> /\ loads = <<>> /\ seen = {} /\ blamed = {} /\ shown = {} /\ places = {}
        /\ fileCount = -1 /\ stage = "loading" /\ turn = 0 /\ file = Closed
    BY DEF Init
  <1>3. OrsonFiles = {} /\ DOMAIN files = {} /\ DOMAIN loads = {} /\ Len(files) = 0
    BY <1>2 DEF OrsonFiles
  <1>4. FilesApart
    BY <1>2, <1>3 DEF FilesApart
  <1>5. SeenPlaced /\ ErrorsKept /\ LoadsPlaced /\ WriterPlaced /\ WriterRests
    BY <1>2, <1>3 DEF SeenPlaced, ErrorsKept, LoadsPlaced, WriterPlaced, WriterRests
  <1>6. OrderOf = <<>>
    BY <1>2 DEF OrderOf
  <1>7. StageOf = "loading"
    <2>1. Len(files) <= MaxFile /\ ~Lost
      BY <1>1, <1>2, <1>3, <1>5, StageFacts, NothingLost
    <2> QED
      BY <1>1, <1>2, <2>1, StageFacts
  <1> QED
    BY <1>2, <1>4, <1>5, <1>6, <1>7 DEF ReportInv, Resolved, Shown!Init

(* No file is ever forgotten. *)
LEMMA FilesNeverFewer ==
  ASSUME PlacesTyped, [Next]_vars
  PROVE  \/ files' = files
         \/ /\ stage = "loading" /\ Len(files') = Len(files) + 1
            /\ \E path \in Path : LoadOrson(path) \/ LoadC(path)
  <1>1. files \in Seq([path : Path, count : Int])
    BY DEF PlacesTyped
  <1>2. \A f : Len(Append(files, f)) = Len(files) + 1
    BY <1>1
  <1>3. ASSUME NEW path \in Path, LoadOrson(path) \/ LoadC(path)
        PROVE  stage = "loading" /\ Len(files') = Len(files) + 1
    BY <1>2, <1>3 DEF LoadOrson, LoadC
  <1> QED
    BY <1>3 DEF Next, Load, WriteErrorLines, TooManyFiles, TooManyChars, ReadChar, SourceError,
       ObjectError, Halt, EndOfFile, EndOfFiles, SkipFile, ReopenFile, WriteChar, WriteLast,
       WriteEnd, vars, loader

(* No file changes. *)
LEMMA TextNeverChanges ==
  ASSUME [Next]_vars
  PROVE  text' = text
  BY DEF Next, Load, WriteErrorLines, LoadOrson, LoadC, TooManyFiles, TooManyChars, ReadChar,
     SourceError, ObjectError, Halt, EndOfFile, EndOfFiles, SkipFile, ReopenFile, WriteChar,
     WriteLast, WriteEnd, vars

(* Steps that leave the number of files in the range of the char counts. *)
LEMMA ReportSteps ==
  ASSUME LinesFit, NoOpenQuote, RoomForErrors, PlacesTyped, PlacesTyped', Resolved,
         Len(files) <= MaxFile, Len(files') <= MaxFile, [Next]_vars
  PROVE  Resolved' /\ [Shown!Next]_Shown!vars
  <1>1. ASSUME NEW path \in Path, LoadOrson(path) PROVE Resolved' /\ Shown!Next
    BY <1>1, ReportLoadOrson
  <1>2. ASSUME NEW path \in Path, LoadC(path) PROVE Resolved' /\ Shown!Next
    BY <1>2, ReportLoadC
  <1>3. CASE TooManyFiles
    <2>1. /\ stage = "loading" /\ stage' \in {"failed", "ended"}
          /\ UNCHANGED <<text, loader, places, writer, history, shown>>
      BY <1>3 DEF TooManyFiles
    <2> QED
      BY <2>1, LoaderEnds
  <1>4. CASE TooManyChars
    <2>1. /\ stage = "loading" /\ stage' \in {"failed", "ended"}
          /\ UNCHANGED <<text, loader, places, writer, history, shown>>
      BY <1>4 DEF TooManyChars
    <2> QED
      BY <2>1, LoaderEnds
  <1>5. CASE ReadChar
    BY <1>5, ReportReadChar
  <1>6. ASSUME NEW err \in Err, SourceError(err) PROVE Resolved' /\ Shown!Next
    BY <1>6, StepSourceError
  <1>7. ASSUME NEW err \in Err, NEW place \in seen, ObjectError(place, err)
        PROVE  Resolved' /\ Shown!Next
    BY <1>7, StepObjectError
  <1>8. ASSUME NEW place \in seen, Halt(place) PROVE Resolved' /\ Shown!Next
    BY <1>8, StepHalt
  <1>9. CASE EndOfFile
    BY <1>9, ReadsEndOfFile
  <1>10. CASE EndOfFiles
    BY <1>10, StepEndOfFiles
  <1>11. CASE SkipFile
    BY <1>11, ReportSkipFile
  <1>12. CASE ReopenFile
    BY <1>12, ReportReopenFile
  <1>13. CASE WriteChar
    BY <1>13, ReportWriteChar
  <1>14. CASE WriteLast
    BY <1>14, ReportWriteLast
  <1>15. CASE WriteEnd
    BY <1>15, ReportWriteEnd
  <1>16. CASE UNCHANGED vars
    <2>1. /\ UNCHANGED <<text, files, fileCount, loads, charCount, places, stage, turn, file>>
          /\ UNCHANGED <<seen, blamed, shown>>
      BY <1>16 DEF vars, loader, writer, history
    <2>2. FilesApart' /\ SeenPlaced' /\ ErrorsKept'
      BY <2>1, FilesApartStay, FilesSame, PlacesStay, ErrorsStay DEF Resolved, SeenPlaced
    <2>3. LoadsPlaced'
      <3>1. CASE stage = "loading"
        BY <2>1, <3>1, FilesSame, LoadsStay DEF Resolved
      <3> QED
        BY <2>1, <3>1 DEF LoadsPlaced
    <2>4. WriterPlaced'
      <3>1. OrsonFiles' = OrsonFiles /\ Closed' = Closed
        BY <2>1, FilesSame DEF Closed, Opened
      <3>2. \A i : Base(i)' = Base(i)
        BY <2>1 DEF Base
      <3>3. \A p : Size(p)' = Size(p)
        BY <2>1, TextStays
      <3>4. \A r, o : Placed(r, o)' <=> Placed(r, o)
        BY <2>1, TextStays
      <3>5. Size(file.path)' = Size(file.path) /\ \A o : Placed(file, o)' <=> Placed(file, o)
        <4>1. PICK f : f = file
          OBVIOUS
        <4>2. Size(f.path)' = Size(f.path) /\ \A o : Placed(f, o)' <=> Placed(f, o)
          BY <3>3, <3>4
        <4> QED
          BY <2>1, <4>1, <4>2
      <3> QED
        BY <2>1, <3>1, <3>2, <3>5 DEF Resolved, WriterPlaced
    <2>5. WriterRests'
      BY <2>1 DEF Resolved, WriterRests, Closed
    <2>6. UNCHANGED Shown!vars
      <3>1. OrderOf' = OrderOf /\ RowsOf' = RowsOf
        BY <2>1, RowsStay DEF OrderOf
      <3>2. Lost' <=> Lost
        <4>1. \A p : LastRow(p)' = LastRow(p)
          BY <2>1, TextStays DEF LastRow
        <4> QED
          BY <2>1, <4>1 DEF Lost
      <3>3. StageOf' = StageOf
        BY <2>1, <3>2 DEF StageOf, Overrun
      <3> QED
        BY <2>1, <3>1, <3>3 DEF Shown!vars
    <2> QED
      BY <2>2, <2>3, <2>4, <2>5, <2>6 DEF Resolved
  <1> QED
    BY <1>1, <1>2, <1>3, <1>4, <1>5, <1>6, <1>7, <1>8, <1>9, <1>10, <1>11, <1>12, <1>13,
       <1>14, <1>15, <1>16 DEF Next, Load, WriteErrorLines

(* FILES are files. *)
LEMMA PathsOfFiles ==
  ASSUME PlacesTyped, NEW i \in DOMAIN files
  PROVE  files[i].path \in Path
  <1>1. files \in Seq([path : Path, count : Int])
    BY DEF PlacesTyped
  <1>2. files[i] \in [path : Path, count : Int]
    BY <1>1, LenProperties, ElementOfSeq
  <1> QED
    BY <1>2

(* Every step keeps the invariant, and is a step of the report or none. *)
LEMMA ReportStep ==
  ASSUME LinesFit, NoOpenQuote, RoomForErrors, PlacesInv, PlacesInv', ReportInv, [Next]_vars
  PROVE  ReportInv' /\ [Shown!Next]_Shown!vars
  <1>1. PlacesTyped /\ PlacesTyped'
    BY DEF PlacesInv
  <1>2. Len(files) \in Nat /\ Len(files') \in Nat /\ MaxFile \in Nat
    BY <1>1, StageFacts, StageAfter
  <1>3. files' = files \/ (stage = "loading" /\ Len(files') = Len(files) + 1)
    BY <1>1, FilesNeverFewer
  <1>4. CASE Len(files') <= MaxFile
    <2>1. Len(files) <= MaxFile
      BY <1>2, <1>3, <1>4
    <2>2. Resolved' /\ [Shown!Next]_Shown!vars
      BY <1>1, <1>4, <2>1, ReportSteps DEF ReportInv
    <2> QED
      BY <2>2 DEF ReportInv
  <1>5. CASE Len(files') > MaxFile
    <2>1. ~(Len(files') <= MaxFile)
      BY <1>2, <1>5
    <2>2. StageOf' = "overrun"
      BY <1>1, <1>5, StageAfter
    <2>3. Shown!Overrun
      <3>1. CASE Len(files) > MaxFile
        <4>1. StageOf = "overrun"
          BY <1>1, <3>1, StageFacts
        <4> QED
          BY <2>2, <4>1 DEF Shown!Overrun
      <3>2. CASE ~(Len(files) > MaxFile)
        <4>1. stage = "loading" /\ Len(files) = MaxFile
          BY <1>2, <1>3, <1>5, <3>2
        <4>2. StageOf = "loading"
          <5>1. Len(files) <= MaxFile
            BY <1>2, <4>1
          <5>2. ~Lost
            BY <1>1, <5>1, NothingLost DEF ReportInv, Resolved
          <5> QED
            BY <1>1, <4>1, <5>1, <5>2, StageFacts
        <4>3. Len(OrderOf) = MaxFile
          <5>1. DOMAIN OrderOf = 1 .. Len(files)
            BY <1>1, LenProperties DEF OrderOf, PlacesTyped
          <5>2. OrderOf \in [1 .. MaxFile -> Path]
            BY <1>1, <4>1, <5>1, PathsOfFiles DEF OrderOf
          <5>3. OrderOf \in Seq(Path)
            BY <1>2, <5>2, SeqDef
          <5> QED
            BY <1>2, <5>2, <5>3, LenProperties
        <4> QED
          BY <2>2, <4>2, <4>3 DEF Shown!Overrun
      <3> QED
        BY <3>1, <3>2
    <2>4. text' = text
      BY TextNeverChanges
    <2> QED
      BY <2>1, <2>3, <2>4, RowsStay DEF ReportInv, Shown!Next
  <1> QED
    BY <1>2, <1>4, <1>5

(* A file that leaves room for its errors leaves room for the ends of its lines. *)
LEMMA RoomFollows ==
  ASSUME RoomForErrors
  PROVE  RoomForEnds
  <1>1. Span \in Nat
    BY HalfFacts
  <1> SUFFICES ASSUME NEW t \in Texts, NEW p \in Path, ~(Len(t[p]) >= Span)
               PROVE  Len(t[p]) + (IF Ragged(t[p]) THEN 1 ELSE 0)
                                + (IF Quoted(t[p]) THEN 3 ELSE 1) <= Span
    BY DEF RoomForEnds, RoomFor
  <1>2. Len(t[p]) + (IF Ragged(t[p]) THEN 1 ELSE 0) + (IF Quoted(t[p]) THEN 3 ELSE 2) <= Span
    BY DEF RoomForErrors, RoomFor
  <1>3. Len(t[p]) \in Nat
    <2>1. t[p] \in Seq(Byte)
      BY PlacesAssumption DEF Byte
    <2> QED
      BY <2>1, LenProperties
  <1>4. PICK l, x, u, v : /\ l = Len(t[p]) /\ x = (IF Ragged(t[p]) THEN 1 ELSE 0)
                          /\ u = (IF Quoted(t[p]) THEN 3 ELSE 2)
                          /\ v = (IF Quoted(t[p]) THEN 3 ELSE 1)
    OBVIOUS
  <1>5. l \in Nat /\ x \in Nat /\ u \in Nat /\ v \in Nat /\ v <= u /\ l + x + u <= Span
    <2>1. (x = 0 \/ x = 1) /\ ((u = 3 /\ v = 3) \/ (u = 2 /\ v = 1))
      BY <1>4
    <2>2. l \in Nat /\ l + x + u <= Span
      BY <1>2, <1>3, <1>4
    <2> QED
      BY <2>1, <2>2
  <1>6. l + x + v <= Span
    BY ONLY <1>1, <1>5
  <1> QED
    BY <1>4, <1>6

(* The two invariants together. *)
LEMMA ReportAlways ==
  ASSUME LinesFit, NoOpenQuote, RoomForErrors
  PROVE  Spec => []PlacesInv /\ []ReportInv
  <1>1. Init => ReportInv
    BY ReportInitially
  <1>2. PlacesInv /\ PlacesInv' /\ ReportInv /\ [Next]_vars => ReportInv'
    BY ReportStep
  <1>3. Spec => []PlacesInv
    BY RoomFollows, PlacesAlways
  <1> QED
    BY <1>1, <1>2, <1>3, PTL DEF Spec

(***************************************************************************)
(* Every error is written below the char that was blamed for it, once and  *)
(* in the order of the sources, for files of any number and length, and    *)
(* however they are loaded in the middle of each other: as long as no line *)
(* is too long for WRITE ERROR LINES, no last line ends with an            *)
(* apostrophe, and no file ends so near to the next one that the last EOS  *)
(* CHAR is counted as a char of it.  The runs of MCEdges show what becomes  *)
(* of other files.                                                         *)
(***************************************************************************)
THEOREM PlacesReport ==
  ASSUME LinesFit, NoOpenQuote, RoomForErrors
  PROVE  Spec => ImplementsReport
  <1>1. Init => Shown!Init
    BY ReportInitially
  <1>2. PlacesInv /\ PlacesInv' /\ ReportInv /\ [Next]_vars => [Shown!Next]_Shown!vars
    BY ReportStep
  <1> QED
    BY <1>1, <1>2, ReportAlways, PTL DEF Spec, ImplementsReport, Shown!Spec

-----------------------------------------------------------------------------
(***************************************************************************)
(* What WRITE ERROR LINES has still to do: the files that it has not yet   *)
(* opened, and the chars of the open one, with the EOP CHAR, that it has   *)
(* not yet gone past.                                                      *)
(***************************************************************************)
FilesLeft == Len(files) - turn
CharsLeft == IF file = Closed THEN 0
             ELSE Base(turn) + Size(file.path) + 2 - charCount

Numbers == FilesLeft \in Nat /\ CharsLeft \in Nat

(* A file less, or in the same file a char less. *)
Fewer == \/ FilesLeft' < FilesLeft
         \/ FilesLeft' = FilesLeft /\ CharsLeft' < CharsLeft

Writing == stage = "writing" /\ Len(files) <= MaxFile

(* Where the writer is. *)
LEMMA WriterIs ==
  ASSUME PlacesTyped, Resolved, Writing
  PROVE  /\ turn \in Nat /\ Len(files) \in Nat /\ turn <= Len(files)
         /\ file # Closed =>
              /\ turn \in OrsonFiles /\ Base(turn) \in Nat
              /\ Size(file.path) \in Nat /\ Size(file.path) + 2 <= Span /\ Span \in Nat
              /\ \E o \in Nat :
                   /\ 1 <= o /\ o <= Size(file.path) + 1
                   /\ Ch(file) = EopChar <=> o = Size(file.path) + 1
                   /\ charCount = Base(turn) + o
  <1>1. /\ turn \in 0 .. Len(files)
        /\ file # Closed => /\ turn \in OrsonFiles
                            /\ file.path = files[turn].path
                            /\ \E o \in 1 .. Size(file.path) + 1 :
                                 Placed(file, o) /\ charCount = Base(turn) + o
    BY DEF Resolved, WriterPlaced, Writing
  <1>2. Len(files) \in Nat /\ turn \in Nat /\ turn <= Len(files)
    BY <1>1, LenProperties DEF PlacesTyped
  <1>3. ASSUME file # Closed
        PROVE  /\ Base(turn) \in Nat
               /\ Size(file.path) \in Nat /\ Size(file.path) + 2 <= Span /\ Span \in Nat
    BY <1>1, <1>3, CountsFit DEF Resolved, Writing
  <1>4. ASSUME file # Closed
        PROVE  \E o \in Nat : /\ 1 <= o /\ o <= Size(file.path) + 1
                              /\ Ch(file) = EopChar <=> o = Size(file.path) + 1
                              /\ charCount = Base(turn) + o
    <2>1. PICK o \in 1 .. Size(file.path) + 1 : Placed(file, o) /\ charCount = Base(turn) + o
      BY <1>1, <1>4
    <2>2. Ch(file) = EopChar <=> o = Size(file.path) + 1
      BY <2>1, PlacedFacts DEF PlacesTyped
    <2>3. o \in Nat /\ 1 <= o /\ o <= Size(file.path) + 1
      BY <1>3, <1>4, <2>1
    <2> QED
      BY <2>1, <2>2, <2>3
  <1> QED
    BY <1>1, <1>2, <1>3, <1>4

(* There is never less than nothing to do. *)
LEMMA WriterCounts ==
  ASSUME PlacesTyped, Resolved, Writing
  PROVE  Numbers /\ (file # Closed => CharsLeft # 0)
  <1>1. FilesLeft \in Nat
    BY WriterIs DEF FilesLeft
  <1>2. CASE file = Closed
    BY <1>1, <1>2 DEF Numbers, CharsLeft
  <1>3. CASE file # Closed
    <2>1. PICK b, n, c : b = Base(turn) /\ n = Size(file.path) /\ c = charCount
      OBVIOUS
    <2>2. b \in Nat /\ n \in Nat /\ \E o \in Nat : o <= n + 1 /\ c = b + o
      BY <1>3, <2>1, WriterIs
    <2>3. b + n + 2 - c \in Nat \ {0}
      BY ONLY <2>2
    <2>4. CharsLeft = b + n + 2 - c
      BY <1>3, <2>1 DEF CharsLeft
    <2> QED
      BY <1>1, <2>3, <2>4 DEF Numbers
  <1> QED
    BY <1>2, <1>3

(* Reading a char, it has one less to go past. *)
LEMMA WriteCharShrinks ==
  ASSUME LinesFit, NoOpenQuote, PlacesTyped, Resolved, Writing, WriteChar
  PROVE  Fewer
  <1>1. PICK b, n, c, d : /\ b = Base(turn) /\ n = Size(file.path)
                          /\ c = charCount /\ d = charCount'
    OBVIOUS
  <1>2. /\ file # Closed /\ Ch(file) # EopChar
        /\ file' = NextChar(file, WriteRoom) /\ d = Int32(c + 1)
        /\ turn' = turn /\ files' = files /\ text' = text
    BY <1>1 DEF WriteChar, loader
  <1>3. PICK o \in Nat : o <= n /\ c = b + o
    <2>1. PICK o \in Nat : /\ 1 <= o /\ o <= n + 1 /\ c = b + o
                           /\ Ch(file) = EopChar <=> o = n + 1
      BY <1>1, <1>2, WriterIs
    <2>2. n \in Nat /\ o # n + 1
      BY <1>1, <1>2, <2>1, WriterIs
    <2> QED
      BY <2>1, <2>2
  <1>4. /\ b \in Nat /\ n \in Nat /\ n + 2 <= Span /\ Span \in Nat /\ turn \in OrsonFiles
    BY <1>1, <1>2, WriterIs
  <1>5. d = c + 1
    <2>1. o + 1 \in Nat /\ o + 1 < Span /\ c + 1 = b + (o + 1)
      BY <1>3, <1>4
    <2>2. Int32(b + (o + 1)) = b + (o + 1)
      BY <1>1, <1>4, <2>1, CountsStay DEF Resolved, Writing
    <2> QED
      BY <1>2, <2>1, <2>2
  <1>6. CharsLeft = b + n + 2 - c
    BY <1>1, <1>2 DEF CharsLeft
  <1>7. CharsLeft' = b + n + 2 - d
    <2>1. file'.path = file.path /\ file' # Closed'
      <3>1. file.path \in Path /\ file \in Reader /\ \E k : Placed(file, k) /\ k <= n /\ k \in Nat
        <4>1. PICK k \in 1 .. Size(file.path) + 1 : Placed(file, k) /\ c = Base(turn) + k
          BY <1>1, <1>2 DEF Resolved, WriterPlaced, Writing
        <4>2. file.path \in Path /\ file \in Reader
          BY <4>1, PlacedFacts DEF PlacesTyped
        <4>3. k <= n /\ k \in Nat
          BY <1>1, <1>3, <1>4, <4>1
        <4> QED
          BY <4>1, <4>2, <4>3
      <3>2. PICK k : Placed(file, k) /\ k <= n /\ k \in Nat
        BY <3>1
      <3>3. Reading(file, k)
        BY <1>1, <3>2 DEF Reading
      <3>4. WriteRoom \in Nat /\ WriteRoom >= MaxLine - 1
        <4>1. MaxLine \in Nat \ {0}
          BY PlacesAssumption
        <4> QED
          BY ONLY <4>1 DEF WriteRoom
      <3>5. Placed(NextChar(file, WriteRoom), k + 1) /\ NextChar(file, WriteRoom).path = file.path
        BY <3>3, <3>4, NextCharOn DEF PlacesTyped
      <3> QED
        BY <1>2, <3>5, PlacedFacts DEF PlacesTyped, Closed, Opened
    <2>2. Base(turn)' = b /\ Size(file.path)' = n
      BY <1>1, <1>2, <2>1 DEF Base, Size
    <2> QED
      BY <1>1, <2>1, <2>2 DEF CharsLeft
  <1>8. CharsLeft' < CharsLeft
    BY ONLY <1>3, <1>4, <1>5, <1>6, <1>7
  <1> QED
    BY <1>2, <1>8 DEF Fewer, FilesLeft

(* Opening or skipping a file, it has one less to open. *)
LEMMA NextFileShrinks ==
  ASSUME PlacesTyped, Resolved, Writing, SkipFile \/ ReopenFile
  PROVE  Fewer
  <1>1. turn' = turn + 1 /\ files' = files
    BY DEF SkipFile, ReopenFile, loader
  <1>2. turn \in Nat /\ Len(files) \in Nat
    BY WriterIs
  <1> QED
    BY <1>1, <1>2 DEF Fewer, FilesLeft

(* Closing a file, it has none of its chars left. *)
LEMMA WriteLastShrinks ==
  ASSUME PlacesTyped, Resolved, Writing, WriteLast
  PROVE  Fewer
  <1>1. file # Closed /\ file' = Closed /\ turn' = turn /\ files' = files
    BY DEF WriteLast, loader
  <1>2. CharsLeft' = 0
    BY <1>1 DEF CharsLeft, Closed
  <1>3. CharsLeft \in Nat \ {0}
    BY <1>1, WriterCounts DEF Numbers
  <1> QED
    BY <1>1, <1>2, <1>3 DEF Fewer, FilesLeft

(***************************************************************************)
(* Every step of WRITE ERROR LINES but the last leaves fewer files to be   *)
(* opened or, in the same file, fewer chars to be read: it cannot go on    *)
(* for ever.  That it is never stuck is left to model checking.            *)
(***************************************************************************)
THEOREM WriterShrinks ==
  ASSUME LinesFit, NoOpenQuote, RoomForErrors
  PROVE  Spec => /\ [](Writing => Numbers)
                 /\ [][Writing => stage' # "writing" \/ Fewer]_vars
  <1>1. PlacesInv /\ ReportInv => (Writing => Numbers)
    BY WriterCounts DEF PlacesInv, ReportInv, Writing
  <1>2. PlacesInv /\ ReportInv /\ Next => (Writing => stage' # "writing" \/ Fewer)
    <2> SUFFICES ASSUME PlacesInv, ReportInv, Next, Writing, stage' = "writing" PROVE Fewer
      OBVIOUS
    <2>1. PlacesTyped /\ Resolved /\ stage = "writing"
      BY DEF PlacesInv, ReportInv, Writing
    <2>2. WriteErrorLines
      BY <2>1 DEF Next, Load, LoadOrson, LoadC, TooManyFiles, TooManyChars, ReadChar,
                  SourceError, ObjectError, Halt, EndOfFile, EndOfFiles
    <2>3. ~WriteEnd
      BY DEF WriteEnd
    <2> QED
      BY <2>1, <2>2, <2>3, NextFileShrinks, WriteCharShrinks, WriteLastShrinks DEF WriteErrorLines
  <1>3. PlacesInv /\ ReportInv /\ [Next]_vars => [Writing => stage' # "writing" \/ Fewer]_vars
    BY <1>2
  <1> QED
    BY <1>1, <1>3, ReportAlways, PTL DEF Spec
=============================================================================
