-------------------------------- MODULE Store --------------------------------
(***************************************************************************)
(* What HUNK.C and MAKE.C promise to the rest of the compiler: a memory of *)
(* objects that only the compiler changes.  An object lives exactly as     *)
(* long as a protected pointer leads to it, a new object overlaps no       *)
(* living one, and there is no collector, no free list and no hunk to be   *)
(* seen.  Module Hunk is shown to implement this one.                      *)
(***************************************************************************)
EXTENDS Integers, Sequences, SequencesExt, Reach

CONSTANTS Heaps, HeapSpace, Kinds, GlobalCount, FrameSizes, MaxFrames, Nil

VARIABLES
  memory,   (* memory[a]: size and pointers of the living object at a *)
  frames    (* protected pointers: the globals, then the FRAMEs       *)

vars == <<memory, frames>>

Addr == UNION { h .. (h + HeapSpace - 1) : h \in Heaps }

(***************************************************************************)
(* The objects of m that the protected pointers f lead to.                 *)
(***************************************************************************)
Living(m, f) ==
  LET live == ReachFrom(DOMAIN m,
                        UNION { Range(f[j]) : j \in DOMAIN f },
                        [a \in DOMAIN m |-> Range(m[a].refs)])
  IN [a \in live |-> m[a]]

Values == DOMAIN memory \cup {Nil}

(* The bytes of the object at a. *)
Extent(a, size) == a .. (a + size - 1)

Vacant(a, size) ==
  /\ Extent(a, size) \subseteq Addr
  /\ \A b \in DOMAIN memory : Extent(a, size) \cap Extent(b, memory[b].size) = {}

-----------------------------------------------------------------------------
Init ==
  /\ memory = << >>
  /\ frames = << [i \in 1 .. GlobalCount |-> Nil] >>

Push(n) ==
  /\ Len(frames) < MaxFrames
  /\ frames' = Append(frames, [i \in 1 .. n |-> Nil])
  /\ UNCHANGED memory

Pop(value, j, i) ==
  /\ Len(frames) > 1
  /\ j < Len(frames)
  /\ frames' = [Front(frames) EXCEPT ![j][i] = value]
  /\ memory' = Living(memory, frames')

Assign(value, j, i) ==
  /\ frames' = [frames EXCEPT ![j][i] = value]
  /\ memory' = Living(memory, frames')

SetRef(a, i, value) ==
  /\ memory' = Living([memory EXCEPT ![a].refs[i] = value], frames)
  /\ UNCHANGED frames

Make(k, args, j, i, a) ==
  /\ Vacant(a, k.size)
  /\ frames' = [frames EXCEPT ![j][i] = a]
  /\ memory' = Living([x \in DOMAIN memory \cup {a} |->
                         IF x = a THEN [size |-> k.size, refs |-> args]
                                  ELSE memory[x]],
                      frames')

Next ==
  \/ \E n \in FrameSizes : Push(n)
  \/ \E value \in Values :
       \/ \E j \in DOMAIN frames : \E i \in DOMAIN frames[j] :
            \/ Pop(value, j, i)
            \/ Assign(value, j, i)
       \/ \E a \in DOMAIN memory : \E i \in DOMAIN memory[a].refs : SetRef(a, i, value)
  \/ \E k \in Kinds : \E args \in [1 .. k.degree -> Values] :
       \E j \in DOMAIN frames : \E i \in DOMAIN frames[j] : \E a \in Addr :
         Make(k, args, j, i, a)

Spec == Init /\ [][Next]_vars

=============================================================================
