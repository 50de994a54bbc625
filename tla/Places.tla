------------------------------- MODULE Places -------------------------------
(***************************************************************************)
(* How errors find their way back to the source.  LOAD ORSON reads a file  *)
(* char by char and counts: CHAR COUNT holds the number of the file in its *)
(* high bits and the offset of the char in its low ones.  An error is kept *)
(* in PLACES as a char count only.  When all files were loaded, WRITE      *)
(* ERROR LINES reads them again, counts again, and shows the errors where  *)
(* the two counts agree.  FILE.C, ERROR.C and the line reader of LOAD.C.   *)
(*                                                                         *)
(* The parser and the transformer between them are left open: they may     *)
(* blame the char they are at, or any char some object came from, and load *)
(* another file in between.  A byte is a letter, one that is not allowed   *)
(* in a source file, an apostrophe, or a newline; UTF-8 is left out, and   *)
(* CR with it.                                                             *)
(***************************************************************************)
EXTENDS Integers, Sequences, FiniteSets

CONSTANTS
  Path,        (* files                                                     *)
  CFile,       (* those of them with the suffix of a C file                 *)
  Texts,       (* what may be in all of them                                *)
  Span,        (* 1 << CHAR INDEX BITS                                      *)
  MaxFile,     (* MAX FILE COUNT; Span * MaxFile is one more than MAX INT   *)
  MaxLine,     (* MAX LINE LENGTH                                           *)
  Err,         (* errors of the parser and the transformer                  *)
  MaxComplaints  (* bound: how many of these are made                       *)

Letter == "x"
Illegal == "?"
Newline == "nl"
Apostrophe == "'"
Blank == " "
EosChar == "eos"
EopChar == "eop"
IllegalCharErr == "illegalCharErr"
LineTooLongErr == "lineTooLongErr"
HaltErr == "haltErr"

ASSUME PlacesAssumption ==
  /\ CFile \subseteq Path
  /\ \A t \in Texts : t \in [Path -> Seq({Letter, Illegal, Apostrophe, Newline})]
  /\ {Span, MaxFile, MaxLine} \subseteq Nat \ {0}
  /\ MaxComplaints \in Nat

VARIABLES
  text,        (* the bytes of every file                                   *)
  files,       (* the chain from FIRST FILE: paths and char counts          *)
  fileCount,
  charCount,
  loads,       (* the calls of LOAD ORSON that have not returned            *)
  places,      (* pairs of a char count and an error                        *)
  allErrs,
  stage,       (* "loading", "writing", or how the run ended                *)
  turn,        (* the file of FILES that WRITE ERROR LINES is at            *)
  file,        (* what it is reading, as a member of LOADS, or Closed       *)
  seen,        (* history: the spots of the chars read by LOAD ORSON        *)
  blamed,      (* history: the spots blamed, and with which error           *)
  shown        (* history: the spots below which an error was written       *)

loader  == <<files, fileCount, loads>>
writer  == <<turn, file>>
history == <<seen, blamed>>
vars    == <<text, loader, charCount, places, allErrs, stage, writer, history, shown>>

(* Two's complement, as the compiler's ints have it. *)
Int32(n) == ((n + Span * MaxFile) % (2 * Span * MaxFile)) - Span * MaxFile

-----------------------------------------------------------------------------
(***************************************************************************)
(* A reader of a file: how many bytes and lines it has read, its line with *)
(* EOS CHAR at the end, how many chars of the line it has taken, whether   *)
(* the line before it ended with an apostrophe, and the CHAR COUNT to be   *)
(* restored when it is done.                                               *)
(***************************************************************************)
Opened(path, old) ==
  [path |-> path, at |-> 0, row |-> 0, line |-> <<>>, taken |-> 0, open |-> FALSE,
   old |-> old]

Closed == Opened("none", 0)

Ch(r)   == r.line[r.taken]
Spot(r) == <<r.path, r.row, r.taken>>

EndOfLine(r) ==
  LET left == { i \in r.at + 1 .. Len(text[r.path]) : text[r.path][i] = Newline }
  IN IF left = {} THEN Len(text[r.path]) + 1
                  ELSE CHOOSE i \in left : \A j \in left : i <= j

Raw(r) == SubSeq(text[r.path], r.at + 1, EndOfLine(r) - 1)

EndsOpen(line) == Len(line) > 1 /\ line[Len(line) - 1] = Apostrophe

(* NEXT LINE: LINE has room for so many chars before the EOS CHAR.  Behind *)
(* the end of the program there is another line with an EOP CHAR.          *)
NextLine(r, room) ==
  LET Fit(n) == IF n < room THEN n ELSE room
      kept   == [ i \in 1 .. Fit(Len(Raw(r))) |->
                    IF Raw(r)[i] = Illegal THEN Blank ELSE Raw(r)[i] ]
  IN [r EXCEPT !.at   = IF EndOfLine(r) > Len(text[r.path]) THEN Len(text[r.path])
                                                            ELSE EndOfLine(r),
               !.row  = @ + 1,
               !.line = Append(IF r.at = Len(text[r.path]) THEN <<EopChar>> ELSE kept,
                               EosChar),
               !.taken = 0,
               !.open  = EndsOpen(r.line)]

(* NEXT CHAR, which counts the char too. *)
NextChar(r, room) ==
  LET s == IF r.taken = Len(r.line) THEN NextLine(r, room) ELSE r
  IN [s EXCEPT !.taken = @ + 1]

(***************************************************************************)
(* The two readers do not agree on how long a line may be.  Both keep it   *)
(* in an array of MaxLine ints, which LoadRoom exceeds by two: what the    *)
(* loader writes beyond it is taken to stay as it wrote it.                *)
(***************************************************************************)
LoadRoom  == MaxLine + 1
WriteRoom == MaxLine - 1

(***************************************************************************)
(* LINE ERROR, for each char of the line that NEXT LINE read last: columns *)
(* and errors.  A char too many is blamed on the end of what was kept.     *)
(***************************************************************************)
LineErrors(r, room) ==
  { <<i, IllegalCharErr>> : i \in { j \in DOMAIN Raw(r) :
                                      j <= room /\ Raw(r)[j] = Illegal } }
  \cup { <<room + 1, LineTooLongErr>> : i \in { j \in DOMAIN Raw(r) : j > room } }

(***************************************************************************)
(* INSERT ERR, of several errors.  The chain PLACES, sorted by char counts *)
(* and with a set of errors for each of them, is a set of pairs here.      *)
(***************************************************************************)
InsertErrs(new) ==
  /\ places' = places \cup { <<n[1], n[3]>> : n \in new }
  /\ allErrs' = allErrs \cup { n[3] : n \in new }
  /\ blamed' = blamed \cup { <<n[2], n[3]>> : n \in new }

Insert(count, spot, err) == InsertErrs({<<count, spot, err>>})

Init ==
  /\ text \in Texts
  /\ files = <<>>
  /\ fileCount = -1
  /\ charCount = 0
  /\ loads = <<>>
  /\ places = {}
  /\ allErrs = {}
  /\ stage = "loading"
  /\ turn = 0
  /\ file = Closed
  /\ seen = {}
  /\ blamed = {}
  /\ shown = {}

-----------------------------------------------------------------------------
(* The call of LOAD ORSON that runs. *)
Top == loads[Len(loads)]

IsLoaded(path) == \E i \in DOMAIN files : files[i].path = path
(* Mutant: the number is not shifted into its field. *)
MakeNearCount(number) == Int32(number)

(* The char count that the file with this number starts at. *)
MakeCharCount(number) == Int32(number * Span)

IsTooBig(path) == Len(text[path]) >= Span

(* NEXT CHAR of LOAD ORSON, on a reader R when CHAR COUNT is COUNT. *)
Read(r, count, under) ==
  LET s == NextChar(r, LoadRoom)
      new == IF s.row = r.row THEN {} ELSE LineErrors(r, LoadRoom)
  IN /\ charCount' = Int32(count + 1)
     /\ loads' = Append(under, s)
     /\ seen' = seen \cup {<<Int32(count + 1), Spot(s)>>}
     /\ InsertErrs({ <<Int32(count + n[1]), <<s.path, s.row, n[1]>>, n[2]>> : n \in new })

(***************************************************************************)
(* LOAD ORSON, up to the first char of the file.  It is called for a path  *)
(* of the command line when no other call runs, and else for a LOAD clause *)
(* that has just been read.                                                *)
(***************************************************************************)
LoadOrson(path) ==
  /\ stage = "loading"
  /\ path \notin CFile
  /\ ~IsLoaded(path)
  /\ ~IsTooBig(path)
  /\ fileCount < MaxFile
  /\ fileCount' = fileCount + 1
  /\ LET count == MakeCharCount(fileCount')
     IN /\ files' = Append(files, [path |-> path, count |-> count])
        /\ Read(Opened(path, charCount), count, loads)
  /\ UNCHANGED <<text, stage, writer, shown>>

(* MAKE CHAR COUNT fails when there were too many files. *)
TooManyFiles ==
  /\ stage = "loading"
  /\ \E path \in Path \ CFile : ~IsLoaded(path) /\ ~IsTooBig(path)
  /\ fileCount >= MaxFile
  /\ stage' = "failed"
  /\ UNCHANGED <<text, loader, charCount, places, allErrs, writer, history, shown>>

(* A file of the command line that is too big ends the run. *)
TooManyChars ==
  /\ stage = "loading"
  /\ loads = <<>>
  /\ \E path \in Path \ CFile : ~IsLoaded(path) /\ IsTooBig(path)
  /\ stage' = "failed"
  /\ UNCHANGED <<text, loader, charCount, places, allErrs, writer, history, shown>>

(* LOAD C copies a file and reads no chars of Orson. *)
LoadC(path) ==
  /\ stage = "loading"
  /\ path \in CFile
  /\ ~IsLoaded(path)
  /\ files' = Append(files, [path |-> path, count |-> 0])
  /\ UNCHANGED <<text, fileCount, charCount, loads, places, allErrs, stage, writer,
                 history, shown>>

(***************************************************************************)
(* The parser reads on.  Behind the end of the program it does so in one   *)
(* place: NEXT APOSTROPHE takes the EOS CHAR after the apostrophe at the   *)
(* end of the last line for the char of a literal, and looks for its end   *)
(* until it meets an EOS CHAR again.                                       *)
(***************************************************************************)
ReadChar ==
  /\ stage = "loading"
  /\ loads # <<>>
  /\ Ch(Top) = EopChar => Top.open
  /\ Read(Top, charCount, SubSeq(loads, 1, Len(loads) - 1))
  /\ UNCHANGED <<text, files, fileCount, stage, writer, shown>>

(* A complaint of the parser or the transformer, and not the first too many. *)
Complaints == { b \in blamed : b[2] \in Err \cup {HaltErr} }
Complain   == Cardinality(Complaints) < MaxComplaints

(* SOURCE ERROR blames the char the parser is at. *)
SourceError(err) ==
  /\ stage = "loading"
  /\ loads # <<>>
  /\ Complain
  /\ Insert(charCount, Spot(Top), err)
  /\ UNCHANGED <<text, loader, charCount, stage, writer, seen, shown>>

(* OBJECT ERROR blames the char an object was read from. *)
ObjectError(place, err) ==
  /\ stage = "loading"
  /\ loads # <<>>
  /\ Complain
  /\ IF place[1] >= 0 THEN Insert(place[1], place[2], err)
                      ELSE UNCHANGED <<places, allErrs, blamed>>
  /\ UNCHANGED <<text, loader, charCount, stage, writer, seen, shown>>

(* The same, and a LONGJMP to HALT: no call of LOAD ORSON returns. *)
Halt(place) ==
  /\ stage = "loading"
  /\ loads # <<>>
  /\ Complain
  /\ IF place[1] >= 0 THEN Insert(place[1], place[2], HaltErr)
                      ELSE UNCHANGED <<places, allErrs, blamed>>
  /\ stage' = "writing"
  /\ UNCHANGED <<text, loader, charCount, writer, seen, shown>>

EndOfFileAtCount ==
  /\ stage = "loading"
  /\ loads # <<>>
  /\ Ch(Top) = EopChar
  /\ loads' = SubSeq(loads, 1, Len(loads) - 1)
  /\ UNCHANGED <<text, files, fileCount, charCount, places, allErrs, stage, writer,
                 history, shown>>

(* LOAD ORSON returns at the end of its file. *)
EndOfFile ==
  /\ stage = "loading"
  /\ loads # <<>>
  /\ Ch(Top) = EopChar
  /\ charCount' = Top.old
  /\ loads' = SubSeq(loads, 1, Len(loads) - 1)
  /\ UNCHANGED <<text, files, fileCount, places, allErrs, stage, writer, history, shown>>

(* All files of the command line are loaded. *)
EndOfFiles ==
  /\ stage = "loading"
  /\ loads = <<>>
  /\ stage' = IF allErrs = {} THEN "ended" ELSE "writing"
  /\ UNCHANGED <<text, loader, charCount, places, allErrs, writer, history, shown>>

-----------------------------------------------------------------------------
(***************************************************************************)
(* WRITE ERROR LINES.  GET ERRS takes the errors at a char count, if they  *)
(* are the first of PLACES.                                                *)
(***************************************************************************)
GetErrs(count, chain) ==
  { p \in chain : p[1] = count /\ \A q \in chain : q[1] >= count }

Errs(got) == { p[2] : p \in got }

SkipFile ==
  /\ stage = "writing"
  /\ file = Closed
  /\ places # {}
  /\ turn < Len(files)
  /\ files[turn + 1].path \in CFile
  /\ turn' = turn + 1
  /\ UNCHANGED <<text, loader, charCount, places, allErrs, stage, file, history, shown>>

ReopenSame ==
  /\ stage = "writing"
  /\ file = Closed
  /\ places # {}
  /\ turn < Len(files)
  /\ LET next == files[turn + 1]
     IN /\ next.path \notin CFile
        /\ file' = NextChar(Opened(next.path, 0), WriteRoom)
        /\ charCount' = Int32(next.count + 1)
  /\ UNCHANGED <<text, loader, places, allErrs, stage, turn, history, shown>>

ReopenFile ==
  /\ stage = "writing"
  /\ file = Closed
  /\ places # {}
  /\ turn < Len(files)
  /\ turn' = turn + 1
  /\ LET next == files[turn + 1]
     IN /\ next.path \notin CFile
        /\ file' = NextChar(Opened(next.path, 0), WriteRoom)
        /\ charCount' = Int32(next.count + 1)
  /\ UNCHANGED <<text, loader, places, allErrs, stage, history, shown>>

(* The errors at one char of a line, which may be the EOS CHAR at its end. *)
WriteChar ==
  /\ stage = "writing"
  /\ file # Closed
  /\ Ch(file) # EopChar
  /\ LET got == GetErrs(charCount, places)
     IN /\ places' = places \ got
        /\ shown' = shown \cup ({Spot(file)} \X Errs(got))
  /\ file' = NextChar(file, WriteRoom)
  /\ charCount' = Int32(charCount + 1)
  /\ UNCHANGED <<text, loader, allErrs, stage, turn, history>>

(* The errors at the EOP CHAR and at the EOS CHAR after it. *)
WriteLast ==
  /\ stage = "writing"
  /\ file # Closed
  /\ Ch(file) = EopChar
  /\ LET got  == GetErrs(charCount, places)
         last == GetErrs(Int32(charCount + 1), places \ got)
     IN /\ places' = places \ (got \cup last)
        /\ shown' = shown \cup ({Spot(file)} \X Errs(got))
                          \cup ({Spot(NextChar(file, WriteRoom))} \X Errs(last))
  /\ file' = Closed
  /\ charCount' = Int32(charCount + 1)
  /\ UNCHANGED <<text, loader, allErrs, stage, turn, history>>

(* We'd better have accounted for all errors in this way. *)
WriteEnd ==
  /\ stage = "writing"
  /\ file = Closed
  /\ places = {} \/ turn = Len(files)
  /\ stage' = IF places = {} THEN "ended" ELSE "unresolved"
  /\ UNCHANGED <<text, loader, charCount, places, allErrs, writer, history, shown>>

Load ==
  \/ \E path \in Path : LoadOrson(path) \/ LoadC(path)
  \/ TooManyFiles
  \/ TooManyChars
  \/ ReadChar
  \/ \E err \in Err : SourceError(err) \/ \E place \in seen : ObjectError(place, err)
  \/ \E place \in seen : Halt(place)
  \/ EndOfFile
  \/ EndOfFiles

WriteErrorLines == SkipFile \/ ReopenFile \/ WriteChar \/ WriteLast \/ WriteEnd

Next == Load \/ WriteErrorLines

(* WRITE ERROR LINES runs to its end. *)
Spec == Init /\ [][Next]_vars /\ WF_vars(WriteErrorLines)

-----------------------------------------------------------------------------
AnyErr  == Err \cup {IllegalCharErr, LineTooLongErr, HaltErr}
AnySpot == Path \X Nat \X Nat

(***************************************************************************)
(* GLOBAL.H says of a char count: its FILE field is the unique number of   *)
(* the file and its INDEX field the offset of a char in it.  So no two     *)
(* chars have the same count, whatever was loaded in between.              *)
(***************************************************************************)
CountsUnique ==
  \A p, q \in seen : p[1] = q[1] => p[2] = q[2]

(***************************************************************************)
(* A file that is loaded from the middle of another one leaves no trace:   *)
(* CHAR COUNT is always the count at which the running call of LOAD ORSON  *)
(* read its last char, and every interrupted call will find its own again. *)
(***************************************************************************)
Resumable ==
  stage = "loading" =>
    \A i \in DOMAIN loads :
      <<IF i = Len(loads) THEN charCount ELSE loads[i + 1].old, Spot(loads[i])>> \in seen

(***************************************************************************)
(* What both properties need of the files.  One that is not too big for IS *)
(* TOO BIG needs room for the chars that the loader counts at its end: the *)
(* EOS CHAR of a last line that has no end, the EOP CHAR, and the two that *)
(* are read behind it when the last line may end with an apostrophe.       *)
(***************************************************************************)
Ragged(bytes) == bytes # <<>> /\ bytes[Len(bytes)] # Newline
Quoted(bytes) == \E i \in DOMAIN bytes : bytes[i] = Apostrophe

(* The bytes of a file, and the end of a ragged line; and where lines end. *)
Size(p)   == Len(text[p]) + (IF Ragged(text[p]) THEN 1 ELSE 0)
Breaks(p) == { i \in 1 .. Size(p) : i > Len(text[p]) \/ text[p][i] = Newline }

(* Room for so many chars of every file, and for more behind an apostrophe. *)
RoomFor(ends, behind) ==
  \A t \in Texts : \A p \in Path :
    \/ Len(t[p]) >= Span
    \/ Len(t[p]) + (IF Ragged(t[p]) THEN 1 ELSE 0)
                 + (IF Quoted(t[p]) THEN behind ELSE ends) <= Span

RoomForEnds == RoomFor(1, 3)

(* What ImplementsReport needs of the files.  WRITE ERROR LINES keeps fewer *)
(* chars of a line than LOAD ORSON, and counts the EOS CHAR that follows    *)
(* the EOP CHAR: no line may be longer than it keeps, and no file may       *)
(* reach the char counts of the next one with that EOS CHAR.                *)
LinesFit ==
  \A t \in Texts : \A p \in Path : \A i \in 0 .. Len(t[p]) - MaxLine :
    \E k \in 1 .. MaxLine : t[p][i + k] = Newline

RoomForErrors == RoomFor(2, 3)

(***************************************************************************)
(* WRITE ERROR LINES reads no line behind the one with the EOP CHAR: what  *)
(* is blamed there is lost.                                                *)
(***************************************************************************)
LastRow(p) == 1 + Cardinality(Breaks(p))
Lost == \E b \in blamed : b[1][2] > LastRow(b[1][1])

(* The files as they were loaded, and the stage; the numbers run out. *)
OrderOf == [ i \in DOMAIN files |-> files[i].path ]
RowsOf  == [ p \in Path |-> LastRow(p) ]
Overrun == Len(files) > MaxFile \/ Lost
StageOf ==
  CASE Overrun -> "overrun"
    [] ~Overrun /\ stage \in {"failed", "unresolved"} -> "ended"
    [] OTHER -> stage

(***************************************************************************)
(* Every error is written below the very char that was blamed for it, once *)
(* and in the order of the sources: the two readings of the sources, and   *)
(* the two counts, agree.  The char counts of file number MaxFile, which   *)
(* MAKE CHAR COUNT still gives out, are negative: its places come before   *)
(* all others, and hide them while the files before it are read again.  A  *)
(* place behind the end of a program hides those after it.                 *)
(***************************************************************************)
Shown == INSTANCE Report WITH
  order <- OrderOf,
  rows  <- RowsOf,
  Err   <- AnyErr,
  Limit <- MaxFile,
  stage <- StageOf

ImplementsReport == Shown!Spec

(* ERROR.C claims, after it has read all files again: "We'd better have    *)
(* accounted for all errors in this way."                                  *)
Accounted == stage # "unresolved"

(* Writing ends: PLACES empties, or the last file does. *)
WritingEnds == stage = "writing" ~> stage # "writing"
=============================================================================
