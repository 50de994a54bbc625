-------------------------------- MODULE Hunk ---------------------------------
(***************************************************************************)
(* HUNK.C: the heap of the Orson compiler, its free lists, its stack of    *)
(* frames, and the garbage collector that MAKE HUNK runs when it must.     *)
(*                                                                         *)
(* Bytes are counted in units of HUNK ALIGN.  Addresses are numbered in    *)
(* the order in which the collector visits them: heaps in the order of the *)
(* chain HEAPS, hunks of a heap from left to right.  A heap h of Heaps is  *)
(* the address of its first usable hunk (the one after the FAKE TAG hunk), *)
(* and h + HeapSpace is the address of its sentinel LAST HUNK.             *)
(*                                                                         *)
(* One call of MAKE HUNK is a sequence of steps (pc), because what its two *)
(* collectors promise is a property of the states between those steps.     *)
(* The compiler is sequential: nothing else runs while pc # "run".         *)
(***************************************************************************)
EXTENDS Integers, Sequences, FiniteSets, SequencesExt, Reach, Order

CONSTANTS
  Heaps,       (* addresses of the first usable hunk of each heap           *)
  HeapSpace,   (* usable space of a heap                                    *)
  HunkSize,    (* hunkSize: the least space a hunk may have                 *)
  Kinds,       (* the objects of make.c: records [size, degree]             *)
  GlobalCount, (* how many protected global pointer variables               *)
  FrameSizes,  (* how many pointer slots a FRAME may have                   *)
  MaxFrames,   (* bound: frames on the stack, the globals included          *)
  Nil

Addr  == UNION { h .. (h + HeapSpace - 1) : h \in Heaps }
Lasts == { h + HeapSpace : h \in Heaps }
Sizes == { k.size : k \in Kinds }

ASSUME HeapsAssumption ==
  /\ Heaps \subseteq Nat
  /\ IsFiniteSet(Heaps)
  /\ HunkSize \in Nat \ {0}
  /\ HeapSpace \in Nat
  /\ HeapSpace >= HunkSize
  /\ \A g, h \in Heaps : g < h => g + HeapSpace < h

ASSUME KindsAssumption ==
  /\ Kinds \subseteq [size : Nat, degree : Nat]
  /\ \A k \in Kinds : k.size >= HunkSize

ASSUME FramesAssumption ==
  /\ GlobalCount \in Nat
  /\ FrameSizes \subseteq Nat
  /\ MaxFrames \in Nat
  /\ Nil \notin Addr

VARIABLES
  space,    (* space[a]: the space of the hunk that starts at a; 0 if none  *)
  objects,  (* hunks whose TAG is not HUNK TAG: those in use                *)
  refs,     (* refs[a]: the pointers of the object at a                     *)
  sized,    (* SIZED HUNKS: a free list for each size of object             *)
  unsized,  (* UNSIZED HUNKS: the free list that is searched first-fit      *)
  frames,   (* protected pointers: frames[1] the globals, then the FRAMEs   *)
  pc,       (* where the one call of MAKE HUNK is, or "run" outside it      *)
  wanted    (* what that call is for: the object, and who receives it       *)

heapVars == <<space, objects, refs, sized, unsized>>
vars     == <<space, objects, refs, sized, unsized, frames, pc, wanted>>

NoRequest == [size |-> 0, refs |-> <<>>, frame |-> 0, slot |-> 0]

-----------------------------------------------------------------------------
(***************************************************************************)
(* What the collector sees.                                                *)
(***************************************************************************)

Starts == { a \in Addr : space[a] # 0 }
Free   == Starts \ objects

PointersIn(f) == UNION { Range(f[j]) : j \in DOMAIN f }

Roots  == Addr \cap PointersIn(frames)
Kids   == [a \in Addr |-> Addr \cap Range(refs[a])]

(* The objects that a protected pointer leads to. *)
Reachable == ReachFrom(objects, Roots, Kids)

-----------------------------------------------------------------------------
(***************************************************************************)
(* INIT HUNK.  Each heap is one big free hunk; the free list of unsized    *)
(* hunks has them in the order of the chain HEAPS.                         *)
(***************************************************************************)
Init ==
  /\ space   = [a \in Addr |-> IF a \in Heaps THEN HeapSpace ELSE 0]
  /\ objects = {}
  /\ refs    = [a \in Addr |-> <<>>]
  /\ sized   = [n \in Sizes |-> <<>>]
  /\ unsized = InOrder(Heaps)
  /\ frames  = << [i \in 1 .. GlobalCount |-> Nil] >>
  /\ pc      = "run"
  /\ wanted  = NoRequest

-----------------------------------------------------------------------------
(***************************************************************************)
(* The compiler outside MAKE HUNK.  It reads any pointer it can reach from *)
(* a protected one, and stores it into a protected variable or an object.  *)
(***************************************************************************)

Values == Reachable \cup {Nil}

(* PUSH FRAME: the slots of a new frame are NIL. *)
Push(n) ==
  /\ pc = "run"
  /\ Len(frames) < MaxFrames
  /\ frames' = Append(frames, [i \in 1 .. n |-> Nil])
  /\ UNCHANGED <<heapVars, pc, wanted>>

(* POP, and the caller stores the pointer that the function returned. *)
Pop(value, j, i) ==
  /\ pc = "run"
  /\ Len(frames) > 1
  /\ j < Len(frames)
  /\ frames' = [Front(frames) EXCEPT ![j][i] = value]
  /\ UNCHANGED <<heapVars, pc, wanted>>

(* An assignment to a protected variable. *)
Assign(value, j, i) ==
  /\ pc = "run"
  /\ frames' = [frames EXCEPT ![j][i] = value]
  /\ UNCHANGED <<heapVars, pc, wanted>>

(* An assignment to a pointer slot of an object. *)
SetRef(a, i, value) ==
  /\ pc = "run"
  /\ refs' = [refs EXCEPT ![a][i] = value]
  /\ UNCHANGED <<space, objects, sized, unsized, frames, pc, wanted>>

(***************************************************************************)
(* DESTROY.  Its callers have unlinked the object: no protected pointer    *)
(* leads to it.                                                            *)
(***************************************************************************)
Destroy(a) ==
  /\ pc = "run"
  /\ a \in objects \ Reachable
  /\ objects' = objects \ {a}
  /\ refs' = [refs EXCEPT ![a] = <<>>]
  /\ sized' = [sized EXCEPT ![space[a]] = <<a>> \o @]
  /\ UNCHANGED <<space, unsized, frames, pc, wanted>>

(* A maker of MAKE.C calls MAKE HUNK with its arguments all protected. *)
Request(k, args, j, i) ==
  /\ pc = "run"
  /\ pc' = "search"
  /\ wanted' = [size |-> k.size, refs |-> args, frame |-> j, slot |-> i]
  /\ UNCHANGED <<heapVars, frames>>

-----------------------------------------------------------------------------
(***************************************************************************)
(* MAKE HUNK.  HasSized and HasUnsized are the two searches; the second    *)
(* takes the first hunk that fits exactly or leaves a usable remainder.    *)
(* Definitions named in the project's list of mutants, like FitsBarely,    *)
(* are what a slip would make of the one that follows them; no action uses *)
(* them.                                                                   *)
(***************************************************************************)

HasSized == sized[wanted.size] # <<>>

FitsBarely(a) == space[a] >= wanted.size
FitsLess(a)   == space[a] + HunkSize >= wanted.size

Fits(a) == \/ space[a] = wanted.size
           \/ space[a] >= wanted.size + HunkSize

HasLarger == \E i \in DOMAIN unsized : space[unsized[i]] >= wanted.size

HasUnsized == \E i \in DOMAIN unsized : Fits(unsized[i])

(***************************************************************************)
(* The maker initializes the hunk it was given and returns it; the caller  *)
(* stores the pointer into a protected variable.                           *)
(***************************************************************************)
Make(a) ==
  /\ objects' = objects \cup {a}
  /\ refs'    = [refs EXCEPT ![a] = wanted.refs]
  /\ frames'  = [frames EXCEPT ![wanted.frame][wanted.slot] = a]
  /\ pc'      = "run"
  /\ wanted'  = NoRequest

TakeSized ==
  /\ pc \in {"search", "swept"}
  /\ HasSized
  /\ sized' = [sized EXCEPT ![wanted.size] = Tail(@)]
  /\ Make(Head(sized[wanted.size]))
  /\ UNCHANGED <<space, unsized>>

TakeUnsized ==
  /\ \/ pc = "search" /\ ~HasSized
     \/ pc = "compacted"
  /\ \E i \in DOMAIN unsized :
       LET a    == unsized[i]
           rest == a + wanted.size
       IN /\ Fits(a)
          /\ \A j \in 1 .. (i - 1) : ~Fits(unsized[j])
          /\ \/ /\ space[a] = wanted.size
                /\ space' = space
                /\ unsized' = RemoveAt(unsized, i)
             \/ /\ space[a] # wanted.size
                /\ space' = [space EXCEPT ![a] = wanted.size,
                                          ![rest] = space[a] - wanted.size]
                /\ unsized' = [unsized EXCEPT ![i] = rest]
          /\ Make(a)
  /\ UNCHANGED sized

(***************************************************************************)
(* RECLAIM SIZED HUNKS.  Every object that was not marked becomes a free   *)
(* hunk, at the front of the free list of its size.  Module SchorrWaite    *)
(* shows that MARK, called for every protected pointer, marks just the     *)
(* reachable objects and leaves every pointer as it found it.              *)
(***************************************************************************)
MarkedButGlobals == ReachFrom(objects, Addr \cap PointersIn(Tail(frames)), Kids)
MarkedForever    == objects

Marked == Reachable

ReclaimSized ==
  /\ pc = "search"
  /\ ~HasSized
  /\ ~HasUnsized
  /\ LET garbage == objects \ Marked
     IN /\ objects' = objects \ garbage
        /\ refs'  = [a \in Addr |-> IF a \in garbage THEN <<>> ELSE refs[a]]
        /\ sized' = [n \in Sizes |->
                       Reverse(InOrder({ a \in garbage : space[a] = n })) \o sized[n]]
  /\ pc' = "swept"
  /\ UNCHANGED <<space, unsized, frames, wanted>>

(***************************************************************************)
(* RECLAIM UNSIZED HUNKS.  Runs of adjacent free hunks become one hunk     *)
(* each; all of them, in order, are the new UNSIZED HUNKS.                 *)
(***************************************************************************)
RunStarts == { a \in Free : ~ \E b \in Free : b + space[b] = a }

RunEnd(a) == CHOOSE e \in objects \cup Lasts :
               /\ e > a
               /\ \A x \in objects \cup Lasts : x > a => e <= x

KeptSized == sized

(* No hunk may stay in a sized list: it may be inside a run. *)
ClobberedSized == [n \in Sizes |-> <<>>]

ReclaimUnsized ==
  /\ pc = "swept"
  /\ ~HasSized
  /\ space' = [a \in Addr |-> IF a \in RunStarts THEN RunEnd(a) - a
                              ELSE IF a \in Free THEN 0
                              ELSE space[a]]
  /\ sized' = ClobberedSized
  /\ unsized' = InOrder(RunStarts)
  /\ pc' = "compacted"
  /\ UNCHANGED <<objects, refs, frames, wanted>>

(* The heap is exhausted: MAKE HUNK reports it and jumps to HALT. *)
Exhausted ==
  /\ pc = "compacted"
  /\ ~HasUnsized
  /\ pc' = "halted"
  /\ UNCHANGED <<heapVars, frames, wanted>>

-----------------------------------------------------------------------------
MakeHunk == \/ TakeSized
            \/ TakeUnsized
            \/ ReclaimSized
            \/ ReclaimUnsized
            \/ Exhausted

Compiler ==
  \/ \E n \in FrameSizes : Push(n)
  \/ \E value \in Values :
       \/ \E j \in DOMAIN frames : \E i \in DOMAIN frames[j] :
            \/ Pop(value, j, i)
            \/ Assign(value, j, i)
       \/ \E a \in Reachable : \E i \in DOMAIN refs[a] : SetRef(a, i, value)
  \/ \E k \in Kinds : \E args \in [1 .. k.degree -> Values] :
       \E j \in DOMAIN frames : \E i \in DOMAIN frames[j] : Request(k, args, j, i)
  \/ \E a \in objects : Destroy(a)

Next == Compiler \/ MakeHunk

(***************************************************************************)
(* MAKE HUNK runs to its end: no other code can stop it.                   *)
(***************************************************************************)
Spec == Init /\ [][Next]_vars /\ WF_vars(MakeHunk)

-----------------------------------------------------------------------------
(***************************************************************************)
(* Invariants.                                                             *)
(***************************************************************************)

TypeOK ==
  /\ space \in [Addr -> 0 .. HeapSpace]
  /\ objects \subseteq Addr
  /\ refs \in [Addr -> Seq(Addr \cup {Nil})]
  /\ sized \in [Sizes -> Seq(Addr)]
  /\ unsized \in Seq(Addr)
  /\ frames \in Seq(Seq(Addr \cup {Nil}))
  /\ pc \in {"run", "search", "swept", "compacted", "halted"}
  /\ pc = "run" => wanted = NoRequest
  /\ pc # "run" =>
       /\ wanted \in [size : Sizes, refs : Seq(Addr \cup {Nil}), frame : Nat, slot : Nat]
       /\ wanted.frame \in DOMAIN frames
       /\ wanted.slot \in DOMAIN frames[wanted.frame]

(***************************************************************************)
(* The hunks tile every heap: each lies inside one heap and has room for   *)
(* the link of a free list, no two overlap, and no byte is left out.  The  *)
(* collectors walk a heap by adding SPACE or SIZE to an address, so one    *)
(* wrong size derails them.                                                *)
(***************************************************************************)
Tiled ==
  /\ \A a \in Starts :
       /\ space[a] >= HunkSize
       /\ \E h \in Heaps : h <= a /\ a + space[a] <= h + HeapSpace
  /\ \A a, b \in Starts : a < b => a + space[a] <= b
  /\ \A x \in Addr : \E a \in Starts : a <= x /\ x < a + space[a]

(***************************************************************************)
(* Every hunk that is not in use is in exactly one free list, at one       *)
(* place, a hunk in a sized list has that size, and no object is in any:   *)
(* otherwise one hunk is handed out twice, or lost until compaction.       *)
(***************************************************************************)
SizedMembers == UNION { Range(sized[n]) : n \in Sizes }

FreeListed ==
  /\ objects \subseteq Starts
  /\ \A a \in objects : space[a] \in Sizes
  /\ SizedMembers \cup Range(unsized) = Free
  /\ SizedMembers \cap Range(unsized) = {}
  /\ \A n \in Sizes :
       /\ IsInjective(sized[n])
       /\ \A a \in Range(sized[n]) : space[a] = n
  /\ IsInjective(unsized)

(***************************************************************************)
(* A protected pointer is NIL or denotes an object in use, and so does     *)
(* every pointer reached from one; the arguments of the maker that called  *)
(* MAKE HUNK stay so while it collects (rules 1 to 5 of HUNK.C).           *)
(***************************************************************************)
NoDangling ==
  /\ Roots \subseteq objects
  /\ \A a \in Reachable : Kids[a] \subseteq objects
  /\ \A i \in DOMAIN wanted.refs : wanted.refs[i] \in Reachable \cup {Nil}

(***************************************************************************)
(* After RECLAIM SIZED HUNKS nothing unreachable is left in use; after     *)
(* RECLAIM UNSIZED HUNKS no two free hunks are adjacent and no hunk hides  *)
(* in a sized list.                                                        *)
(***************************************************************************)
Collected ==
  /\ pc \in {"swept", "compacted"} => objects = Reachable
  /\ pc = "compacted" =>
       /\ SizedMembers = {}
       /\ \A a, b \in Free : a + space[a] # b

(***************************************************************************)
(* Orson halts for lack of memory only when it must: a hole is a stretch   *)
(* without a byte of a reachable object, and no maximal hole of any heap   *)
(* has the wanted size, or that size and room for another hunk.            *)
(***************************************************************************)
InUse == UNION { a .. (a + space[a] - 1) : a \in Reachable }

Hole(a, e) == /\ \A x \in a .. (e - 1) : x \in Addr \ InUse
              /\ a \in Heaps \/ a - 1 \in InUse
              /\ e \in Lasts \/ e \in InUse

HaltOnlyIfFull ==
  pc = "halted" =>
    \A a \in Addr : \A e \in (a + 1) .. (a + HeapSpace) :
      Hole(a, e) => /\ e - a # wanted.size
                    /\ e - a < wanted.size + HunkSize

-----------------------------------------------------------------------------
(***************************************************************************)
(* Action and liveness properties.                                         *)
(***************************************************************************)

(***************************************************************************)
(* No step, of the collectors above all, moves, resizes, or reclaims an    *)
(* object that a protected pointer leads to, and only an assignment of the *)
(* compiler changes its pointers.                                          *)
(***************************************************************************)
KeepsReachable ==
  [][\A a \in Reachable :
       /\ a \in objects'
       /\ space'[a] = space[a]
       /\ pc # "run" => refs'[a] = refs[a]]_vars

(* A maker gets its object, or Orson halts. *)
RequestAnswered == (pc = "search") ~> (pc \in {"run", "halted"})

(***************************************************************************)
(* Hunk implements the memory of module Store: the collectors, the free    *)
(* lists and the explicit DESTROY are invisible, and a maker returns bytes *)
(* that belong to no reachable object.                                     *)
(***************************************************************************)
Visible == [a \in Reachable |-> [size |-> space[a], refs |-> refs[a]]]

Memory == INSTANCE Store WITH memory <- Visible

ImplementsStore == Memory!Spec

=============================================================================
