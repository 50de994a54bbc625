------------------------------- MODULE MCHunk --------------------------------
(***************************************************************************)
(* One heap, with room for the globals and a frame: three small objects,   *)
(* or two of the larger kind and a remainder, fill it.  One kind of object *)
(* has no pointers, like an INTEGER; the other has one and is larger, like *)
(* a CELL, so that freed hunks of one size do not serve the other before   *)
(* they are compacted.                                                     *)
(***************************************************************************)
EXTENDS Hunk

MCHeaps      == {1}
MCKinds      == { [size |-> 2, degree |-> 0], [size |-> 3, degree |-> 1] }
MCFrameSizes == {1}

=============================================================================
