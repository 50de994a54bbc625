------------------------------- MODULE Report -------------------------------
(***************************************************************************)
(* What the compiler promises of its error messages.  While it loads files *)
(* it blames characters of them, in any order.  Afterwards it shows each   *)
(* error below the character that was blamed, file after file as they were *)
(* loaded, line after line, and ends when it has shown them all.           *)
(*                                                                         *)
(* A spot is the triple of a path, a line number and a column.  With more  *)
(* files than the char counts can number the promise is off, and with a    *)
(* spot that is blamed behind the end of its file.                         *)
(***************************************************************************)
EXTENDS Integers, Sequences

CONSTANTS Path, Err,
  Limit     (* how many files have a number that is not negative            *)

VARIABLES
  rows,     (* the number of the last line of each file                     *)
  order,    (* the paths of the loaded files, as they were loaded           *)
  blamed,   (* pairs of a spot and an error                                 *)
  shown,    (* those that were written                                      *)
  stage     (* "loading", "writing", "ended" or "overrun"                   *)

vars == <<rows, order, blamed, shown, stage>>

Spot == Path \X Nat \X Nat

Init ==
  /\ order = <<>>
  /\ blamed = {}
  /\ shown = {}
  /\ stage = "loading"

(* Some file is loaded, or some spots of the files loaded are blamed. *)
Loading ==
  /\ stage = "loading"
  /\ \/ \E path \in Path : order' = Append(order, path)
     \/ UNCHANGED order
  /\ blamed \subseteq blamed'
  /\ \A b \in blamed' \ blamed :
       /\ b \in Spot \X Err
       /\ \E i \in DOMAIN order' : order'[i] = b[1][1]
       /\ b[1][2] <= rows[b[1][1]]
  /\ stage' \in {"loading", "writing"}
  /\ UNCHANGED shown

(* One file too many is loaded, or a spot blamed that is in no line: from *)
(* now on anything may happen.                                            *)
Overrun ==
  \/ /\ stage = "loading"
     /\ Len(order) = Limit \/ \E b \in blamed' : b[1][2] > rows[b[1][1]]
     /\ stage' = "overrun"
  \/ stage = "overrun" /\ stage' = "overrun"

Before(p, q) ==
  \/ \E i, j \in DOMAIN order : i < j /\ order[i] = p[1] /\ order[j] = q[1]
  \/ p[1] = q[1] /\ p[2] < q[2]
  \/ p[1] = q[1] /\ p[2] = q[2] /\ p[3] < q[3]

(* Errors of one line are shown, and none is left at their spots or before. *)
Show ==
  /\ stage = "writing"
  /\ shown' # shown /\ shown \subseteq shown' /\ shown' \subseteq blamed
  /\ \A b \in shown' \ shown :
       /\ \A c \in shown' \ shown : b[1][1] = c[1][1] /\ b[1][2] = c[1][2]
       /\ \A c \in blamed \ shown' : b[1] # c[1] /\ ~Before(c[1], b[1])
  /\ UNCHANGED <<order, blamed, stage>>

(* Nothing is left to be shown, or the compiler gave up before the end. *)
End ==
  /\ \/ stage = "loading"
     \/ stage = "writing" /\ shown = blamed
  /\ stage' = "ended"
  /\ UNCHANGED <<order, blamed, shown>>

Next == UNCHANGED rows /\ (Loading \/ Show \/ End \/ Overrun)

Spec == Init /\ [][Next]_vars
=============================================================================
