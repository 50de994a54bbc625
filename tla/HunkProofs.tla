------------------------------ MODULE HunkProofs -----------------------------
(***************************************************************************)
(* For every number, place and size of heaps, every repertoire of objects  *)
(* and every use of them by the compiler: the hunks tile the heaps, every  *)
(* free hunk is in exactly one free list, no protected pointer dangles,    *)
(* no step reclaims or moves an object a protected pointer leads to, and   *)
(* what the compiler sees is a memory of living objects (module Store).    *)
(***************************************************************************)
EXTENDS Hunk, Lemmas

(***************************************************************************)
(* The inductive invariant.  Its parts need one another: a hunk is safe to *)
(* hand out because it is in one list only (FreeListed), splitting it must *)
(* keep the tiles apart (Tiled), and the object it becomes must not have   *)
(* been in use, which is why protected pointers stay good (NoDangling).    *)
(***************************************************************************)
HunkInv == TypeOK /\ Tiled /\ FreeListed /\ NoDangling

Active == {"search", "swept", "compacted"}
Pointer == Addr \cup {Nil}

-----------------------------------------------------------------------------
(***************************************************************************)
(* The constants.                                                          *)
(***************************************************************************)

(* The numbers of HUNK.C: sizes are at least one hunk, heaps lie apart. *)
LEMMA ConstantFacts ==
  /\ HunkSize \in Nat /\ HunkSize > 0
  /\ HeapSpace \in Nat /\ HeapSpace >= HunkSize
  /\ \A h \in Heaps : h \in Nat
  /\ \A g, h \in Heaps : g < h => g + HeapSpace < h
  /\ \A n \in Sizes : n \in Nat /\ n >= HunkSize
  /\ Nil \notin Addr
  BY HeapsAssumption, KindsAssumption, FramesAssumption DEF Sizes

(* Addresses are numbers, and there are finitely many of them. *)
LEMMA AddrFacts ==
  /\ Addr \subseteq Nat
  /\ \A x : x \in Addr <=> \E h \in Heaps : x \in h .. (h + HeapSpace - 1)
  /\ \A S \in SUBSET Addr : IsFiniteSet(S) /\ S \in SUBSET Int
<1> DEFINE f == [h \in Heaps |-> h .. (h + HeapSpace - 1)]
           T == { h .. (h + HeapSpace - 1) : h \in Heaps }
<1>1. f \in Surjection(Heaps, T)
  BY DEF Surjection
<1>2. IsFiniteSet(T)
  BY <1>1, FS_Surjection, HeapsAssumption
<1>3. \A t \in T : IsFiniteSet(t)
  BY FS_Interval, ConstantFacts
<1>4. IsFiniteSet(Addr)
  BY <1>2, <1>3, FS_UNION DEF Addr
<1>5. Addr \subseteq Nat
  BY ConstantFacts DEF Addr
<1>6. \A x : x \in Addr <=> \E h \in Heaps : x \in h .. (h + HeapSpace - 1)
  BY DEF Addr
<1>7. ASSUME NEW S \in SUBSET Addr PROVE IsFiniteSet(S) /\ S \in SUBSET Int
  <2>1. IsFiniteSet(S)
    BY <1>4, FS_Subset
  <2>2. \A x \in S : x \in Int
    BY <1>5
  <2> QED BY <2>1, <2>2
<1> QED BY <1>5, <1>6, <1>7

(***************************************************************************)
(* Storing a pointer into a slot of a frame adds at most that pointer to   *)
(* the protected ones.                                                     *)
(***************************************************************************)
LEMMA SlotFacts ==
  ASSUME NEW V, NEW f \in Seq(Seq(V)), NEW j \in DOMAIN f, NEW i \in DOMAIN f[j], NEW v \in V
  PROVE  LET g == [f EXCEPT ![j][i] = v]
         IN /\ g \in Seq(Seq(V))
            /\ DOMAIN g = DOMAIN f
            /\ \A k \in DOMAIN f : DOMAIN g[k] = DOMAIN f[k]
            /\ PointersIn(g) \subseteq PointersIn(f) \cup {v}
<1> DEFINE u == [f[j] EXCEPT ![i] = v]
           g == [f EXCEPT ![j] = u]
<1>1. f[j] \in Seq(V)
  OBVIOUS
<1>2. /\ u \in Seq(V) /\ DOMAIN u = DOMAIN f[j]
      /\ u[i] = v /\ \A k \in DOMAIN f[j] : k # i => u[k] = f[j][k]
  BY <1>1
<1> HIDE DEF u
<1>3. /\ g \in Seq(Seq(V)) /\ DOMAIN g = DOMAIN f
      /\ g[j] = u /\ \A k \in DOMAIN f : k # j => g[k] = f[k]
  BY <1>2
<1> HIDE DEF g
<1>4. Range(u) \subseteq Range(f[j]) \cup {v}
  BY <1>2 DEF Range
<1>5. \A k \in DOMAIN g : Range(g[k]) \subseteq Range(f[k]) \cup {v}
  BY <1>3, <1>4
<1>6. PointersIn(g) \subseteq PointersIn(f) \cup {v}
  BY <1>3, <1>5 DEF PointersIn
<1>7. \A k \in DOMAIN f : DOMAIN g[k] = DOMAIN f[k]
  BY <1>2, <1>3
<1> QED BY <1>3, <1>6, <1>7 DEF g, u

-----------------------------------------------------------------------------
(***************************************************************************)
(* What is reached, in a state that satisfies the invariant.               *)
(***************************************************************************)

(* What a protected pointer leads to are objects, closed under their *)
(* pointers.                                                         *)
LEMMA ReachableFacts ==
  ASSUME TypeOK, NoDangling
  PROVE  /\ Reachable \subseteq objects
         /\ Roots \subseteq Reachable
         /\ \A a \in Reachable : Kids[a] \subseteq Reachable
<1>1. /\ Reachable \subseteq objects
      /\ Roots \cap objects \subseteq Reachable
      /\ \A x \in Reachable : Kids[x] \cap objects \subseteq Reachable
  BY ReachIsClosed DEF Reachable
<1> QED BY <1>1 DEF NoDangling

(***************************************************************************)
(* A step keeps protected pointers good if, among the objects after it,    *)
(* there is a set that holds the new roots and is closed under the new     *)
(* pointers, and the request, if there is one, is unchanged or void.       *)
(***************************************************************************)
LEMMA StaysGood ==
  ASSUME NEW S, S \subseteq objects',
         Roots' \subseteq S,
         \A x \in S : Kids'[x] \subseteq S
  PROVE  /\ Reachable' \subseteq S
         /\ Roots' \subseteq objects'
         /\ \A a \in Reachable' : Kids'[a] \subseteq objects'
<1>1. ReachFrom(objects', Roots', Kids') \subseteq S
  BY ReachIsLeast
<1>2. Reachable' = ReachFrom(objects', Roots', Kids')
  BY DEF Reachable
<1> QED BY <1>1, <1>2

-----------------------------------------------------------------------------
(***************************************************************************)
(* The initial state: every heap is one hunk.                              *)
(***************************************************************************)
LEMMA InitHolds == Init => HunkInv
<1> SUFFICES ASSUME Init PROVE HunkInv
  OBVIOUS
<1>1. \A h \in Heaps : h \in Addr
  <2> SUFFICES ASSUME NEW h \in Heaps PROVE h \in Addr
    OBVIOUS
  <2>1. h \in h .. (h + HeapSpace - 1)
    BY ConstantFacts
  <2> QED BY <2>1, AddrFacts
<1>2. Starts = Heaps /\ \A h \in Heaps : space[h] = HeapSpace
  BY <1>1, ConstantFacts DEF Starts, Init
<1>3. unsized \in Seq(Heaps) /\ IsInjective(unsized) /\ Range(unsized) = Heaps
  BY <1>1, AddrFacts, InOrderFacts DEF Init
<1>4. Roots = {}
  <2>1. DOMAIN frames = {1} /\ \A i \in DOMAIN frames[1] : frames[1][i] = Nil
    BY DEF Init
  <2>2. PointersIn(frames) \subseteq {Nil}
    BY <2>1 DEF PointersIn, Range
  <2> QED BY <2>2, ConstantFacts DEF Roots
<1>5. TypeOK
  <2>1. space \in [Addr -> 0 .. HeapSpace]
    BY ConstantFacts DEF Init
  <2>2. unsized \in Seq(Addr)
    BY <1>1, <1>3, SeqMonotonic
  <2>3. frames \in Seq(Seq(Pointer))
    <3>1. [i \in 1 .. GlobalCount |-> Nil] \in Seq(Pointer)
      BY FramesAssumption DEF Pointer
    <3> QED BY <3>1 DEF Init
  <2>4. refs \in [Addr -> Seq(Pointer)] /\ sized \in [Sizes -> Seq(Addr)]
    BY DEF Init
  <2> QED BY <2>1, <2>2, <2>3, <2>4 DEF TypeOK, Pointer, Init
<1>6. Tiled
  <2>1. ASSUME NEW x \in Addr PROVE \E a \in Starts : a <= x /\ x < a + space[a]
    <3>1. PICK h \in Heaps : x \in h .. (h + HeapSpace - 1)
      BY AddrFacts
    <3>2. h \in Nat /\ h <= x /\ x < h + HeapSpace
      BY <3>1, ConstantFacts
    <3> QED BY <1>2, <3>2
  <2>2. \A a, b \in Starts : a < b => a + space[a] <= b
    BY <1>2, ConstantFacts
  <2>3. ASSUME NEW a \in Starts
        PROVE  /\ space[a] >= HunkSize
               /\ \E h \in Heaps : h <= a /\ a + space[a] <= h + HeapSpace
    <3>1. a \in Heaps /\ a \in Nat /\ space[a] = HeapSpace
      BY <1>2, ConstantFacts
    <3>2. a <= a /\ a + HeapSpace <= a + HeapSpace
      BY <3>1, ConstantFacts
    <3> QED BY <3>1, <3>2, ConstantFacts
  <2> QED BY <2>1, <2>2, <2>3 DEF Tiled
<1>7. FreeListed
  <2>1. SizedMembers = {}
    BY DEF SizedMembers, Range, Init
  <2>2. \A n \in Sizes : IsInjective(sized[n]) /\ Range(sized[n]) = {}
    BY DEF IsInjective, Range, Init
  <2> QED BY <1>2, <1>3, <2>1, <2>2 DEF FreeListed, Free, Init
<1>8. NoDangling
  <2>1. Reachable = {}
    BY ReachIsClosed DEF Reachable, Init
  <2>2. DOMAIN wanted.refs = {}
    BY DEF NoRequest, Init
  <2> QED BY <1>4, <2>1, <2>2 DEF NoDangling
<1> QED BY <1>5, <1>6, <1>7, <1>8 DEF HunkInv

-----------------------------------------------------------------------------
(***************************************************************************)
(* The compiler's steps.  Those that leave the hunks and lists alone keep  *)
(* Tiled and FreeListed without more ado.                                  *)
(***************************************************************************)
LEMMA SameHunks ==
  ASSUME HunkInv, UNCHANGED <<space, objects, sized, unsized>>
  PROVE  Tiled' /\ FreeListed'
  BY DEF HunkInv, Tiled, FreeListed, Starts, Free, SizedMembers

(* What is reachable depends on the objects, their pointers and the *)
(* frames alone.                                                    *)
LEMMA SameGraph ==
  ASSUME HunkInv, UNCHANGED <<objects, refs, frames>>
  PROVE  Reachable' = Reachable /\ Roots' = Roots /\ Kids' = Kids
  BY DEF Reachable, ReachFrom, ClosedSets, Roots, Kids, PointersIn

(***************************************************************************)
(* Frames that hold no other pointers than reachable ones.                 *)
(***************************************************************************)
LEMMA NewFrames ==
  ASSUME HunkInv, UNCHANGED heapVars, pc = "run", UNCHANGED <<pc, wanted>>,
         frames' \in Seq(Seq(Pointer)),
         PointersIn(frames') \subseteq PointersIn(frames) \cup Values
  PROVE  HunkInv'
<1>1. Tiled' /\ FreeListed'
  BY SameHunks DEF heapVars
<1>2. TypeOK'
  BY DEF TypeOK, HunkInv, heapVars, Pointer
<1>3. Roots' \subseteq Reachable
  BY ReachableFacts, ConstantFacts DEF HunkInv, Roots, Values
<1>4. Kids' = Kids /\ objects' = objects
  BY DEF Kids, heapVars
<1>5. /\ Roots' \subseteq objects'
      /\ \A a \in Reachable' : Kids'[a] \subseteq objects'
  BY <1>3, <1>4, ReachableFacts, StaysGood DEF HunkInv
<1>6. wanted' = NoRequest /\ DOMAIN wanted'.refs = {}
  BY DEF HunkInv, TypeOK, NoRequest
<1> QED BY <1>1, <1>2, <1>5, <1>6 DEF HunkInv, NoDangling

(* PUSH: a new frame of Nil pointers keeps the invariant. *)
LEMMA PushStep ==
  ASSUME HunkInv, NEW n \in FrameSizes, Push(n)
  PROVE  HunkInv'
<1> DEFINE new == [i \in 1 .. n |-> Nil]
<1>1. new \in Seq(Pointer) /\ Range(new) \subseteq {Nil}
  BY FramesAssumption DEF Pointer, Range
<1> HIDE DEF new
<1>2. frames' = Append(frames, new) /\ frames \in Seq(Seq(Pointer))
  BY DEF Push, HunkInv, TypeOK, Pointer, new
<1>3. /\ frames' \in Seq(Seq(Pointer))
      /\ DOMAIN frames' = 1 .. (Len(frames) + 1)
      /\ DOMAIN frames = 1 .. Len(frames) /\ Len(frames) \in Nat
      /\ \A k \in DOMAIN frames : frames'[k] = frames[k]
      /\ frames'[Len(frames) + 1] = new
  BY <1>1, <1>2
<1>4. \A k \in DOMAIN frames' : k \in DOMAIN frames \/ k = Len(frames) + 1
  BY <1>3
<1>5. PointersIn(frames') \subseteq PointersIn(frames) \cup {Nil}
  BY <1>1, <1>3, <1>4 DEF PointersIn
<1> QED BY <1>3, <1>5, NewFrames DEF Push, Values

(* A pointer assigned to a slot keeps the invariant. *)
LEMMA AssignStep ==
  ASSUME HunkInv, NEW value \in Values, NEW j \in DOMAIN frames, NEW i \in DOMAIN frames[j],
         Assign(value, j, i)
  PROVE  HunkInv'
<1>1. frames \in Seq(Seq(Pointer)) /\ value \in Pointer
  BY ReachableFacts DEF HunkInv, TypeOK, Pointer, Values
<1>2. frames' \in Seq(Seq(Pointer)) /\ PointersIn(frames') \subseteq PointersIn(frames) \cup {value}
  BY <1>1, SlotFacts DEF Assign
<1> QED BY <1>2, NewFrames DEF Assign

(***************************************************************************)
(* POP leaves all frames but the last as they are.                         *)
(***************************************************************************)
LEMMA FrontFacts ==
  ASSUME NEW V, NEW f \in Seq(V), NEW j \in DOMAIN f, j < Len(f), Len(f) > 1
  PROVE  /\ Front(f) \in Seq(V)
         /\ DOMAIN Front(f) \subseteq DOMAIN f
         /\ \A k \in DOMAIN Front(f) : Front(f)[k] = f[k]
         /\ j \in DOMAIN Front(f)
<1>1. Front(f) \in Seq(V) /\ Len(Front(f)) = Len(f) - 1
  BY DEF Front
<1>2. \A k \in 1 .. (Len(f) - 1) : Front(f)[k] = f[k]
  BY DEF Front
<1>3. DOMAIN f = 1 .. Len(f) /\ DOMAIN Front(f) = 1 .. (Len(f) - 1) /\ Len(f) \in Nat
  BY <1>1
<1> QED BY <1>1, <1>2, <1>3

(* POP: the last frame goes, and its result is kept in a slot of another. *)
LEMMA PopStep ==
  ASSUME HunkInv, NEW value \in Values, NEW j \in DOMAIN frames, NEW i \in DOMAIN frames[j],
         Pop(value, j, i)
  PROVE  HunkInv'
<1> DEFINE rest == Front(frames)
<1>1. frames \in Seq(Seq(Pointer)) /\ value \in Pointer /\ j < Len(frames) /\ Len(frames) > 1
  BY ReachableFacts DEF HunkInv, TypeOK, Pointer, Values, Pop
<1>2. /\ rest \in Seq(Seq(Pointer))
      /\ DOMAIN rest \subseteq DOMAIN frames
      /\ \A k \in DOMAIN rest : rest[k] = frames[k]
      /\ j \in DOMAIN rest /\ i \in DOMAIN rest[j]
  <2>1. j \in DOMAIN frames /\ i \in DOMAIN frames[j]
    OBVIOUS
  <2> QED BY <1>1, <2>1, FrontFacts
<1> HIDE DEF rest
<1>3. PointersIn(rest) \subseteq PointersIn(frames)
  BY <1>2 DEF PointersIn
<1>4. frames' = [rest EXCEPT ![j][i] = value]
  BY DEF Pop, rest
<1>5. frames' \in Seq(Seq(Pointer)) /\ PointersIn(frames') \subseteq PointersIn(rest) \cup {value}
  BY <1>1, <1>2, <1>4, SlotFacts
<1> QED BY <1>3, <1>5, NewFrames DEF Pop

(* A pointer assigned to a field of a reachable object keeps the *)
(* invariant.                                                    *)
LEMMA SetRefStep ==
  ASSUME HunkInv, NEW a \in Reachable, NEW i \in DOMAIN refs[a], NEW value \in Values,
         SetRef(a, i, value)
  PROVE  HunkInv'
<1>1. a \in objects /\ a \in Addr /\ value \in Pointer /\ refs \in [Addr -> Seq(Pointer)]
  BY ReachableFacts DEF HunkInv, TypeOK, Pointer, Values
<1>2. refs[a] \in Seq(Pointer)
  BY <1>1
<1> DEFINE new == [refs[a] EXCEPT ![i] = value]
<1>3. /\ new \in Seq(Pointer)
      /\ Range(new) \subseteq Range(refs[a]) \cup {value}
  BY <1>1, <1>2 DEF Range
<1>4. refs' = [refs EXCEPT ![a] = new]
  BY DEF SetRef
<1> HIDE DEF new
<1>5. Tiled' /\ FreeListed'
  BY SameHunks DEF SetRef
<1>6. TypeOK'
  <2>1. refs' \in [Addr -> Seq(Pointer)]
    BY <1>1, <1>3, <1>4
  <2> QED BY <2>1 DEF HunkInv, TypeOK, SetRef, Pointer
<1>7. ASSUME NEW x \in Reachable PROVE Kids'[x] \subseteq Reachable
  <2>1. x \in Addr /\ Kids[x] \subseteq Reachable
    BY ReachableFacts DEF HunkInv, TypeOK
  <2>2. CASE x # a
    BY <1>1, <1>4, <2>1, <2>2 DEF Kids
  <2>3. CASE x = a
    BY <1>1, <1>3, <1>4, <2>1, <2>3, ConstantFacts DEF Kids, Values
  <2> QED BY <2>2, <2>3
<1>8. Roots' \subseteq Reachable /\ Reachable \subseteq objects'
  BY ReachableFacts DEF HunkInv, SetRef, Roots
<1>9. /\ Roots' \subseteq objects'
      /\ \A x \in Reachable' : Kids'[x] \subseteq objects'
  BY <1>7, <1>8, StaysGood
<1>10. wanted' = NoRequest /\ DOMAIN wanted'.refs = {}
  BY DEF HunkInv, TypeOK, NoRequest, SetRef
<1> QED BY <1>5, <1>6, <1>9, <1>10 DEF HunkInv, NoDangling

(* MAKE: a request for an object does nothing to the heaps yet. *)
LEMMA RequestStep ==
  ASSUME HunkInv, NEW k \in Kinds, NEW args \in [1 .. k.degree -> Values],
         NEW j \in DOMAIN frames, NEW i \in DOMAIN frames[j], Request(k, args, j, i)
  PROVE  HunkInv'
<1>1. Tiled' /\ FreeListed'
  BY SameHunks DEF Request, heapVars
<1>2. /\ wanted' = [size |-> k.size, refs |-> args, frame |-> j, slot |-> i]
      /\ k.size \in Sizes /\ k.degree \in Nat /\ j \in Nat /\ i \in Nat
  <2>1. frames \in Seq(Seq(Pointer))
    BY DEF HunkInv, TypeOK, Pointer
  <2>2. j \in Nat /\ frames[j] \in Seq(Pointer)
    BY <2>1
  <2>3. i \in Nat
    BY <2>2
  <2> QED BY <2>2, <2>3, KindsAssumption DEF Request, Sizes
<1>3. Values \subseteq Pointer
  BY ReachableFacts DEF HunkInv, TypeOK, Pointer, Values
<1>4. args \in Seq(Pointer)
  <2>1. args \in [1 .. k.degree -> Pointer]
    BY <1>3
  <2> QED BY <1>2, <2>1, SeqDef
<1>5. TypeOK'
  <2>1. pc' = "search" /\ UNCHANGED <<space, objects, refs, sized, unsized, frames>>
    BY DEF Request, heapVars
  <2>2. wanted' \in [size : Sizes, refs : Seq(Pointer), frame : Nat, slot : Nat]
    BY <1>2, <1>4
  <2>3. wanted'.frame \in DOMAIN frames' /\ wanted'.slot \in DOMAIN frames'[wanted'.frame]
    BY <1>2, <2>1
  <2> QED BY <2>1, <2>2, <2>3 DEF HunkInv, TypeOK, Pointer
<1>6. Reachable' = Reachable /\ Roots' = Roots /\ Kids' = Kids /\ objects' = objects
  BY SameGraph DEF Request, heapVars
<1>7. \A x \in DOMAIN wanted'.refs : wanted'.refs[x] \in Reachable \cup {Nil}
  BY <1>2 DEF Values
<1> QED BY <1>1, <1>5, <1>6, <1>7 DEF HunkInv, NoDangling

(* DESTROY: an object that is not reachable goes to its list of hunks. *)
LEMMA DestroyStep ==
  ASSUME HunkInv, NEW a \in objects, Destroy(a)
  PROVE  HunkInv'
<1> DEFINE n == space[a]
<1>1. /\ a \in Addr /\ a \in Starts /\ a \notin Reachable
      /\ n \in Sizes /\ sized[n] \in Seq(Addr) /\ IsInjective(sized[n])
  BY DEF HunkInv, TypeOK, FreeListed, Destroy
<1>2. a \notin SizedMembers /\ a \notin Range(unsized) /\ a \notin Range(sized[n])
  BY <1>1 DEF HunkInv, FreeListed, Free, SizedMembers
<1>3. /\ <<a>> \o sized[n] \in Seq(Addr)
      /\ IsInjective(<<a>> \o sized[n])
      /\ Range(<<a>> \o sized[n]) = {a} \cup Range(sized[n])
  BY <1>1, <1>2, ConsFacts
<1> DEFINE new == <<a>> \o sized[n]
<1>4. /\ sized' = [sized EXCEPT ![n] = new]
      /\ objects' = objects \ {a} /\ space' = space /\ unsized' = unsized
      /\ refs' = [refs EXCEPT ![a] = <<>>]
      /\ frames' = frames /\ pc' = pc /\ wanted' = wanted /\ pc = "run"
  BY DEF Destroy
<1> HIDE DEF new, n
<1>5. TypeOK'
  <2>1. sized' \in [Sizes -> Seq(Addr)]
    BY <1>3, <1>4 DEF HunkInv, TypeOK, new
  <2>2. refs' \in [Addr -> Seq(Pointer)]
    BY <1>4 DEF HunkInv, TypeOK, Pointer
  <2> QED BY <1>4, <2>1, <2>2 DEF HunkInv, TypeOK, Pointer
<1>6. Tiled'
  BY <1>4 DEF HunkInv, Tiled, Starts
<1>7. FreeListed'
  <2>1. sized \in [Sizes -> Seq(Addr)]
    BY DEF HunkInv, TypeOK
  <2>2. /\ sized'[n] = new
        /\ \A m \in Sizes : m # n => sized'[m] = sized[m]
    BY <1>1, <1>4, <2>1
  <2>3. SizedMembers' = SizedMembers \cup {a}
    BY <1>1, <1>3, <2>2 DEF SizedMembers, new
  <2>4. Starts' = Starts /\ Free' = Free \cup {a}
    BY <1>1, <1>4 DEF Starts, Free
  <2>5. \A m \in Sizes : /\ IsInjective(sized'[m])
                         /\ \A x \in Range(sized'[m]) : space'[x] = m
    BY <1>3, <1>4, <2>2 DEF HunkInv, FreeListed, new, n
  <2> QED BY <1>2, <1>4, <2>3, <2>4, <2>5 DEF HunkInv, FreeListed
<1>8. ASSUME NEW x \in Reachable PROVE Kids'[x] \subseteq Reachable
  <2>1. x \in Addr /\ x # a /\ Kids[x] \subseteq Reachable
    BY <1>1, ReachableFacts DEF HunkInv, TypeOK
  <2> QED BY <1>4, <2>1 DEF Kids, HunkInv, TypeOK
<1>9. Roots' \subseteq Reachable /\ Reachable \subseteq objects'
  BY <1>1, <1>4, ReachableFacts DEF HunkInv, Roots
<1>10. /\ Roots' \subseteq objects'
       /\ \A x \in Reachable' : Kids'[x] \subseteq objects'
  BY <1>8, <1>9, StaysGood
<1>11. wanted' = NoRequest /\ DOMAIN wanted'.refs = {}
  BY <1>4 DEF HunkInv, TypeOK, NoRequest
<1> QED BY <1>5, <1>6, <1>7, <1>10, <1>11 DEF HunkInv, NoDangling

-----------------------------------------------------------------------------
(***************************************************************************)
(* MAKE HUNK hands out a hunk that was not in use: the new object and its  *)
(* pointers are good, and so is all that was.                              *)
(***************************************************************************)
LEMMA MakeFacts ==
  ASSUME HunkInv, pc \in Active, NEW a \in Addr, a \notin objects, Make(a)
  PROVE  /\ NoDangling'
         /\ objects' = objects \cup {a} /\ objects' \subseteq Addr
         /\ refs' \in [Addr -> Seq(Pointer)]
         /\ frames' \in Seq(Seq(Pointer))
         /\ pc' = "run" /\ wanted' = NoRequest
<1>1. /\ wanted.refs \in Seq(Pointer)
      /\ wanted.frame \in DOMAIN frames
      /\ wanted.slot \in DOMAIN frames[wanted.frame]
      /\ frames \in Seq(Seq(Pointer)) /\ a \in Pointer
      /\ refs \in [Addr -> Seq(Pointer)] /\ objects \subseteq Addr
  BY DEF HunkInv, TypeOK, Active, Pointer
<1>2. /\ frames' \in Seq(Seq(Pointer))
      /\ PointersIn(frames') \subseteq PointersIn(frames) \cup {a}
  BY <1>1, SlotFacts DEF Make
<1>3. /\ objects' = objects \cup {a}
      /\ refs' = [refs EXCEPT ![a] = wanted.refs]
      /\ pc' = "run" /\ wanted' = NoRequest
  BY DEF Make
<1>4. refs' \in [Addr -> Seq(Pointer)] /\ objects' \subseteq Addr
  BY <1>1, <1>3
<1> DEFINE S == Reachable \cup {a}
<1>5. /\ Reachable \subseteq objects /\ Roots \subseteq Reachable
      /\ \A x \in Reachable : Kids[x] \subseteq Reachable
      /\ \A i \in DOMAIN wanted.refs : wanted.refs[i] \in Reachable \cup {Nil}
  BY ReachableFacts DEF HunkInv, NoDangling
<1> HIDE DEF Reachable
<1>6. Roots' \subseteq S
  BY <1>2, <1>5 DEF Roots
<1>7. ASSUME NEW x \in S PROVE Kids'[x] \subseteq S
  <2>1. CASE x = a
    <3>1. Range(refs'[a]) \subseteq Reachable \cup {Nil}
      BY <1>1, <1>3, <1>5 DEF Range
    <3> QED BY <2>1, <3>1, ConstantFacts DEF Kids
  <2>2. CASE x # a
    <3>1. x \in Reachable /\ x \in Addr
      BY <1>1, <1>5, <2>2
    <3> QED BY <1>1, <1>3, <1>5, <2>2, <3>1 DEF Kids
  <2> QED BY <2>1, <2>2
<1>8. S \subseteq objects'
  BY <1>3, <1>5
<1> HIDE DEF S
<1>9. /\ Roots' \subseteq objects'
      /\ \A x \in Reachable' : Kids'[x] \subseteq objects'
  BY <1>6, <1>7, <1>8, StaysGood
<1>10. DOMAIN wanted'.refs = {}
  BY <1>3 DEF NoRequest
<1> QED BY <1>2, <1>3, <1>4, <1>9, <1>10 DEF NoDangling

(* A hunk of the right size becomes an object. *)
LEMMA TakeSizedStep ==
  ASSUME HunkInv, TakeSized
  PROVE  HunkInv'
<1> DEFINE n == wanted.size
           a == Head(sized[n])
<1>1. /\ pc \in Active /\ n \in Sizes /\ sized \in [Sizes -> Seq(Addr)]
      /\ sized[n] \in Seq(Addr) /\ sized[n] # <<>> /\ IsInjective(sized[n])
  BY DEF HunkInv, TypeOK, FreeListed, TakeSized, HasSized, Active
<1>2. /\ a \in Addr /\ a \in Range(sized[n])
      /\ Tail(sized[n]) \in Seq(Addr) /\ IsInjective(Tail(sized[n]))
      /\ Range(Tail(sized[n])) = Range(sized[n]) \ {a}
  BY <1>1, TailFacts
<1>3. a \in SizedMembers /\ a \in Free /\ a \notin objects /\ a \in Starts /\ space[a] = n
  BY <1>1, <1>2 DEF HunkInv, FreeListed, SizedMembers, Free
<1> DEFINE rest == Tail(sized[n])
<1>4. /\ sized' = [sized EXCEPT ![n] = rest]
      /\ space' = space /\ unsized' = unsized /\ Make(a)
  BY DEF TakeSized
<1> HIDE DEF n, a, rest
<1>5. /\ NoDangling'
      /\ objects' = objects \cup {a} /\ objects' \subseteq Addr
      /\ refs' \in [Addr -> Seq(Pointer)]
      /\ frames' \in Seq(Seq(Pointer))
      /\ pc' = "run" /\ wanted' = NoRequest
  BY <1>1, <1>2, <1>3, <1>4, MakeFacts
<1>6. TypeOK'
  <2>1. sized' \in [Sizes -> Seq(Addr)]
    BY <1>1, <1>2, <1>4 DEF rest
  <2> QED BY <1>4, <1>5, <2>1 DEF HunkInv, TypeOK, Pointer
<1>7. Tiled'
  BY <1>4 DEF HunkInv, Tiled, Starts
<1>8. FreeListed'
  <2>1. /\ sized'[n] = rest
        /\ \A m \in Sizes : m # n => sized'[m] = sized[m]
    BY <1>1, <1>4
  <2>2. ASSUME NEW m \in Sizes, m # n PROVE a \notin Range(sized[m])
    BY <1>3, <2>2 DEF HunkInv, FreeListed
  <2>3. SizedMembers' = SizedMembers \ {a}
    BY <1>1, <1>2, <2>1, <2>2 DEF SizedMembers, rest
  <2>4. Starts' = Starts /\ Free' = Free \ {a}
    BY <1>3, <1>4, <1>5 DEF Starts, Free
  <2>5. \A m \in Sizes : /\ IsInjective(sized'[m])
                         /\ \A x \in Range(sized'[m]) : space'[x] = m
    BY <1>2, <1>4, <2>1 DEF HunkInv, FreeListed, rest
  <2>6. /\ SizedMembers \cup Range(unsized) = Free
        /\ SizedMembers \cap Range(unsized) = {}
    BY DEF HunkInv, FreeListed
  <2>7. a \notin Range(unsized)
    BY <1>3, <2>6
  <2>8. /\ SizedMembers' \cup Range(unsized') = Free'
        /\ SizedMembers' \cap Range(unsized') = {}
    BY <1>4, <2>3, <2>4, <2>6, <2>7
  <2>9. objects' \subseteq Starts' /\ \A x \in objects' : space'[x] \in Sizes
    BY <1>1, <1>3, <1>4, <1>5, <2>4 DEF HunkInv, FreeListed
  <2> QED BY <1>4, <2>5, <2>8, <2>9 DEF HunkInv, FreeListed
<1> QED BY <1>5, <1>6, <1>7, <1>8 DEF HunkInv

(* MAKE HUNK gives up: nothing is to be protected any more. *)
LEMMA ExhaustedStep ==
  ASSUME HunkInv, Exhausted
  PROVE  HunkInv'
<1>1. Tiled' /\ FreeListed'
  BY SameHunks DEF Exhausted, heapVars
<1>2. Reachable' = Reachable /\ Roots' = Roots /\ Kids' = Kids /\ objects' = objects
  BY SameGraph DEF Exhausted, heapVars
<1>3. TypeOK'
  BY DEF HunkInv, TypeOK, Exhausted, heapVars
<1>4. NoDangling'
  BY <1>2 DEF HunkInv, NoDangling, Exhausted
<1> QED BY <1>1, <1>3, <1>4 DEF HunkInv

(***************************************************************************)
(* Splitting a hunk: the remainder is a new tile behind the object, and no *)
(* other tile is touched.                                                  *)
(***************************************************************************)
LEMMA SplitTiles ==
  ASSUME TypeOK, Tiled, NEW a \in Starts, NEW n \in Nat, NEW r, r = a + n,
         n >= HunkSize, space[a] >= n + HunkSize,
         space' = [space EXCEPT ![a] = n, ![r] = space[a] - n]
  PROVE  /\ r \in Addr /\ r \notin Starts /\ r # a
         /\ Starts' = Starts \cup {r}
         /\ space'[a] = n
         /\ \A x \in Starts : x # a => space'[x] = space[x]
         /\ space' \in [Addr -> 0 .. HeapSpace]
         /\ Tiled'
<1> DEFINE m == space[a]
<1>1. /\ a \in Addr /\ a \in Nat /\ space \in [Addr -> 0 .. HeapSpace]
      /\ m \in 0 .. HeapSpace
      /\ HunkSize \in Nat /\ HunkSize > 0 /\ HeapSpace \in Nat
  BY AddrFacts, ConstantFacts DEF TypeOK, Starts
<1>2. PICK h \in Heaps : h <= a /\ a + m <= h + HeapSpace
  BY DEF Tiled
<1>3. \A x, y \in Starts : x < y => x + space[x] <= y
  BY DEF Tiled
<1>4. m >= n + HunkSize /\ m \in Nat /\ h \in Nat
  BY <1>1, ConstantFacts
<1>5. space' = [space EXCEPT ![a] = n, ![r] = m - n]
  OBVIOUS
<1>6. a + m = a + space[a]
  OBVIOUS
<1> HIDE DEF m
<1>7. r \in Nat /\ a < r /\ r < a + m /\ r + (m - n) = a + m /\ r \in h .. (h + HeapSpace - 1)
  BY <1>1, <1>2, <1>4
<1>8. r \in Addr /\ r # a
  BY <1>1, <1>7, AddrFacts
<1>9. r \notin Starts
  BY <1>1, <1>3, <1>6, <1>7
<1>10. /\ space'[a] = n /\ space'[r] = m - n
       /\ \A x \in Addr : x # a /\ x # r => space'[x] = space[x]
  BY <1>1, <1>5, <1>8
<1>11. n # 0 /\ m - n # 0 /\ m - n >= HunkSize /\ n \in 0 .. HeapSpace /\ m - n \in 0 .. HeapSpace
  BY <1>1, <1>4
<1>12. Starts' = Starts \cup {r}
  <2>1. \A x \in Addr : x # r => (space'[x] # 0 <=> space[x] # 0)
    BY <1>10, <1>11 DEF Starts
  <2>2. space'[r] # 0
    BY <1>10, <1>11
  <2> QED BY <1>8, <2>1, <2>2 DEF Starts
<1>13. space' \in [Addr -> 0 .. HeapSpace]
  BY <1>1, <1>5, <1>11
<1>14. \A x \in Starts : x # a => space'[x] = space[x] /\ x # r /\ x \in Nat /\ space[x] \in Nat
  BY <1>1, <1>9, <1>10, AddrFacts DEF Starts
<1>15. Tiled'
  <2>1. ASSUME NEW x \in Starts'
        PROVE  /\ space'[x] >= HunkSize
               /\ \E g \in Heaps : g <= x /\ x + space'[x] <= g + HeapSpace
    <3>1. CASE x = a
      <4>1. h <= a /\ a + n <= h + HeapSpace
        BY <1>1, <1>2, <1>4
      <4> QED BY <1>10, <3>1, <4>1
    <3>2. CASE x = r
      <4>1. h <= r /\ r + (m - n) <= h + HeapSpace
        BY <1>1, <1>2, <1>4, <1>7
      <4> QED BY <1>10, <1>11, <3>2, <4>1
    <3>3. CASE x \in Starts /\ x # a
      BY <1>14, <3>3 DEF Tiled
    <3> QED BY <1>12, <3>1, <3>2, <3>3
  <2>2. ASSUME NEW x \in Starts', NEW y \in Starts', x < y
        PROVE  x + space'[x] <= y
    <3>1. CASE x = a /\ y = r
      BY <1>7, <1>10, <3>1
    <3>2. CASE x = a /\ y \in Starts /\ y # a
      <4>1. a + m <= y
        BY <1>3, <1>6, <2>2, <3>2
      <4> QED BY <1>1, <1>4, <1>10, <1>14, <3>2, <4>1
    <3>3. CASE x = r /\ y \in Starts /\ y # a
      <4>1. y \in Nat /\ a < y
        BY <1>1, <1>7, <1>14, <2>2, <3>3
      <4>2. a + m <= y
        BY <1>3, <1>6, <3>3, <4>1
      <4> QED BY <1>7, <1>10, <3>3, <4>2
    <3>4. CASE x = r /\ y = a
      BY <1>1, <1>7, <2>2, <3>4
    <3>5. CASE x \in Starts /\ x # a /\ y = r
      <4>1. x \in Nat /\ space[x] \in Nat /\ space'[x] = space[x]
        BY <1>14, <3>5
      <4>2. CASE x < a
        <5>1. x + space[x] <= a
          BY <1>3, <3>5, <4>2
        <5> QED BY <1>1, <1>7, <3>5, <4>1, <5>1
      <4>3. CASE a < x
        <5>1. a + m <= x
          BY <1>3, <1>6, <3>5, <4>3
        <5> QED BY <1>1, <1>4, <1>7, <2>2, <3>5, <4>1, <5>1
      <4> QED BY <1>1, <3>5, <4>1, <4>2, <4>3
    <3>6. CASE x \in Starts /\ x # a /\ y \in Starts
      BY <1>3, <1>14, <2>2, <3>6
    <3>7. CASE x = r /\ y = r
      BY <1>7, <2>2, <3>7
    <3>8. CASE x = a /\ y = a
      BY <1>1, <2>2, <3>8
    <3> QED BY <1>12, <3>1, <3>2, <3>3, <3>4, <3>5, <3>6, <3>7, <3>8
  <2>3. ASSUME NEW x \in Addr PROVE \E y \in Starts' : y <= x /\ x < y + space'[y]
    <3>1. PICK y \in Starts : y <= x /\ x < y + space[y]
      BY DEF Tiled
    <3>2. CASE y # a
      BY <1>12, <1>14, <3>1, <3>2
    <3>3. CASE y = a
      <4>1. x \in Nat /\ a <= x /\ x < a + m
        BY <1>6, <3>1, <3>3, AddrFacts
      <4>2. CASE x < r
        <5>1. a <= x /\ x < a + space'[a]
          BY <1>10, <4>1, <4>2
        <5> QED BY <1>12, <5>1
      <4>3. CASE r <= x
        <5>1. r <= x /\ x < r + space'[r]
          BY <1>7, <1>10, <4>1, <4>3
        <5> QED BY <1>12, <5>1
      <4>4. x < r \/ r <= x
        BY <1>7, <4>1
      <4> QED BY <4>2, <4>3, <4>4
    <3> QED BY <3>2, <3>3
  <2> QED BY <2>1, <2>2, <2>3 DEF Tiled
<1> QED BY <1>8, <1>9, <1>10, <1>12, <1>13, <1>14, <1>15

(* A free hunk, or the first part of one, becomes an object. *)
LEMMA TakeUnsizedStep ==
  ASSUME HunkInv, TakeUnsized
  PROVE  HunkInv'
<1> DEFINE n == wanted.size
<1>1. PICK i \in DOMAIN unsized :
        LET a    == unsized[i]
            rest == a + n
        IN /\ Fits(a)
           /\ \/ /\ space[a] = n
                 /\ space' = space
                 /\ unsized' = RemoveAt(unsized, i)
              \/ /\ space[a] # n
                 /\ space' = [space EXCEPT ![a] = n, ![rest] = space[a] - n]
                 /\ unsized' = [unsized EXCEPT ![i] = rest]
           /\ Make(a)
  BY DEF TakeUnsized
<1> DEFINE a    == unsized[i]
           rest == a + n
<1>2. /\ pc \in Active /\ n \in Sizes /\ n \in Nat /\ n >= HunkSize
      /\ unsized \in Seq(Addr) /\ IsInjective(unsized) /\ space \in [Addr -> 0 .. HeapSpace]
      /\ sized' = sized /\ sized \in [Sizes -> Seq(Addr)]
  BY ConstantFacts DEF HunkInv, TypeOK, FreeListed, TakeUnsized, Active
<1>3. a \in Addr /\ a \in Nat /\ a \in Range(unsized)
  BY <1>2, AddrFacts DEF Range
<1>4. /\ SizedMembers \cup Range(unsized) = Free
      /\ SizedMembers \cap Range(unsized) = {}
  BY DEF HunkInv, FreeListed
<1>5. a \in Free /\ a \notin objects /\ a \in Starts /\ a \notin SizedMembers
  BY <1>3, <1>4 DEF Free
<1>6. SizedMembers' = SizedMembers
  BY <1>2 DEF SizedMembers
<1>7. Fits(a) /\ Make(a)
  BY <1>1
<1>8. /\ NoDangling'
      /\ objects' = objects \cup {a} /\ objects' \subseteq Addr
      /\ refs' \in [Addr -> Seq(Pointer)]
      /\ frames' \in Seq(Seq(Pointer))
      /\ pc' = "run" /\ wanted' = NoRequest
  BY <1>2, <1>3, <1>5, <1>7, MakeFacts
<1>9. CASE /\ space[a] = n
           /\ space' = space
           /\ unsized' = RemoveAt(unsized, i)
  <2>1. /\ unsized' \in Seq(Addr) /\ IsInjective(unsized')
        /\ Range(unsized') = Range(unsized) \ {a}
    BY <1>2, <1>9, RemoveFacts
  <2> HIDE DEF a, n
  <2>2. Starts' = Starts /\ Free' = Free \ {a}
    BY <1>5, <1>8, <1>9 DEF Starts, Free
  <2>3. TypeOK'
    BY <1>2, <1>8, <1>9, <2>1 DEF HunkInv, TypeOK, Pointer
  <2>4. Tiled'
    BY <1>9 DEF HunkInv, Tiled, Starts
  <2>5. /\ SizedMembers' \cup Range(unsized') = Free'
        /\ SizedMembers' \cap Range(unsized') = {}
    BY <1>4, <1>5, <1>6, <2>1, <2>2
  <2>6. objects' \subseteq Starts' /\ \A x \in objects' : space'[x] \in Sizes
    BY <1>2, <1>5, <1>8, <1>9, <2>2 DEF HunkInv, FreeListed
  <2>7. FreeListed'
    BY <1>2, <1>9, <2>1, <2>5, <2>6 DEF HunkInv, FreeListed
  <2> QED BY <1>8, <2>3, <2>4, <2>7 DEF HunkInv
<1>10. CASE /\ space[a] # n
            /\ space' = [space EXCEPT ![a] = n, ![rest] = space[a] - n]
            /\ unsized' = [unsized EXCEPT ![i] = rest]
  <2>1. space[a] >= n + HunkSize
    BY <1>7, <1>10 DEF Fits
  <2>2. rest = a + n
    OBVIOUS
  <2>3. TypeOK /\ Tiled
    BY DEF HunkInv
  <2>4. IsInjective(unsized) /\ i \in DOMAIN unsized /\ unsized[i] = a
    BY <1>2
  <2> HIDE DEF a, n, rest
  <2>5. /\ rest \in Addr /\ rest \notin Starts /\ rest # a
        /\ Starts' = Starts \cup {rest}
        /\ space'[a] = n
        /\ \A x \in Starts : x # a => space'[x] = space[x]
        /\ space' \in [Addr -> 0 .. HeapSpace]
        /\ Tiled'
    BY <1>2, <1>5, <1>10, <2>1, <2>2, <2>3, SplitTiles
  <2>6. rest \notin Range(unsized) /\ rest \notin SizedMembers
    BY <1>4, <2>5 DEF Free
  <2>7. /\ unsized' \in Seq(Addr) /\ IsInjective(unsized')
        /\ Range(unsized') = (Range(unsized) \ {a}) \cup {rest}
    <3>1. /\ unsized \in Seq(Addr) /\ IsInjective(unsized) /\ i \in DOMAIN unsized
          /\ rest \in Addr /\ rest \notin Range(unsized)
      BY <1>2, <2>4, <2>5, <2>6
    <3>2. unsized' = [unsized EXCEPT ![i] = rest]
      BY <1>10
    <3>3. /\ unsized' \in Seq(Addr) /\ DOMAIN unsized' = DOMAIN unsized
          /\ unsized'[i] = rest
          /\ \A k \in DOMAIN unsized : k # i => unsized'[k] = unsized[k]
      BY <3>1, <3>2
    <3>4. /\ IsInjective(unsized')
          /\ Range(unsized') = (Range(unsized) \ {unsized[i]}) \cup {rest}
      BY <3>1, <3>3, ReplaceFacts
    <3> QED BY <2>4, <3>3, <3>4
  <2>8. Free' = (Free \ {a}) \cup {rest}
    <3>1. rest \notin objects
      BY <2>5 DEF HunkInv, FreeListed
    <3> QED BY <1>8, <2>5, <3>1 DEF Free
  <2>9. TypeOK'
    BY <1>2, <1>8, <2>5, <2>7 DEF HunkInv, TypeOK, Pointer
  <2>10. FreeListed'
    <3>1. /\ SizedMembers' \cup Range(unsized') = Free'
          /\ SizedMembers' \cap Range(unsized') = {}
      BY <1>4, <1>5, <1>6, <2>6, <2>7, <2>8
    <3>2. ASSUME NEW x \in objects' PROVE x \in Starts' /\ space'[x] \in Sizes
      <4>1. CASE x = a
        BY <1>2, <1>5, <2>5, <4>1
      <4>2. CASE x \in objects
        <5>1. x \in Starts /\ x # a /\ space[x] \in Sizes
          BY <1>5, <4>2 DEF HunkInv, FreeListed
        <5> QED BY <2>5, <5>1
      <4> QED BY <1>8, <4>1, <4>2
    <3>3. ASSUME NEW m \in Sizes
          PROVE  IsInjective(sized'[m]) /\ \A x \in Range(sized'[m]) : space'[x] = m
      <4>1. IsInjective(sized[m]) /\ \A x \in Range(sized[m]) : space[x] = m
        BY DEF HunkInv, FreeListed
      <4>2. ASSUME NEW x \in Range(sized[m]) PROVE space'[x] = space[x]
        <5>1. x \in SizedMembers
          BY DEF SizedMembers
        <5>2. x # a /\ x \in Starts
          BY <1>4, <1>5, <5>1 DEF Free
        <5> QED BY <2>5, <5>2
      <4> QED BY <1>2, <4>1, <4>2
    <3> QED BY <2>7, <3>1, <3>2, <3>3 DEF FreeListed
  <2> QED BY <1>8, <2>5, <2>9, <2>10 DEF HunkInv
<1> QED BY <1>1, <1>9, <1>10

-----------------------------------------------------------------------------
(***************************************************************************)
(* The sweep: every object that was not marked moves to the free list of   *)
(* its size, and nothing that a protected pointer leads to is touched.     *)
(***************************************************************************)
LEMMA ReclaimSizedStep ==
  ASSUME HunkInv, ReclaimSized
  PROVE  HunkInv' /\ objects' = Reachable' /\ Reachable' = Reachable
<1> DEFINE garbage == objects \ Reachable
           Dead(n) == { a \in garbage : space[a] = n }
           new(n)  == Reverse(InOrder(Dead(n))) \o sized[n]
<1>1. /\ objects' = objects \ garbage
      /\ refs' = [a \in Addr |-> IF a \in garbage THEN <<>> ELSE refs[a]]
      /\ sized' = [n \in Sizes |-> new(n)]
      /\ pc = "search" /\ pc' = "swept"
      /\ space' = space /\ unsized' = unsized /\ frames' = frames /\ wanted' = wanted
  BY DEF ReclaimSized, Marked
<1>2. /\ garbage \subseteq objects /\ garbage \cap Reachable = {}
      /\ objects \ garbage = Reachable /\ garbage \subseteq Addr /\ garbage \subseteq Starts
      /\ Reachable \subseteq objects /\ objects \subseteq Addr
      /\ \A n : Dead(n) \subseteq garbage
  BY ReachableFacts DEF HunkInv, TypeOK, FreeListed
<1>3. /\ SizedMembers \cup Range(unsized) = Free
      /\ SizedMembers \cap Range(unsized) = {}
      /\ SizedMembers \cap garbage = {} /\ Range(unsized) \cap garbage = {}
  BY <1>2 DEF HunkInv, FreeListed, Free
<1>4. ASSUME NEW n \in Sizes
      PROVE  /\ new(n) \in Seq(Addr) /\ IsInjective(new(n))
             /\ Range(new(n)) = Dead(n) \cup Range(sized[n])
  <2> DEFINE dead == Dead(n)
             list == InOrder(dead)
  <2>1. dead \subseteq garbage /\ dead \in SUBSET Addr /\ IsFiniteSet(dead) /\ dead \in SUBSET Int
    BY <1>2, AddrFacts
  <2> HIDE DEF dead
  <2>2. list \in Seq(dead) /\ IsInjective(list) /\ Range(list) = dead
    BY <2>1, InOrderFacts
  <2>3. list \in Seq(Addr)
    BY <2>1, <2>2, SeqMonotonic
  <2> HIDE DEF list
  <2>4. Reverse(list) \in Seq(Addr) /\ IsInjective(Reverse(list)) /\ Range(Reverse(list)) = dead
    BY <2>2, <2>3, ReverseFacts
  <2>5. sized[n] \in Seq(Addr) /\ IsInjective(sized[n]) /\ Range(sized[n]) \subseteq SizedMembers
    BY DEF HunkInv, TypeOK, FreeListed, SizedMembers
  <2>6. Range(Reverse(list)) \cap Range(sized[n]) = {}
    BY <1>3, <2>1, <2>4, <2>5
  <2>7. LET s == Reverse(list) \o sized[n]
        IN  s \in Seq(Addr) /\ IsInjective(s) /\ Range(s) = Range(Reverse(list)) \cup Range(sized[n])
    BY <2>4, <2>5, <2>6, ConcatFacts
  <2> QED BY <2>4, <2>7 DEF list, dead
<1> HIDE DEF new
<1>5. TypeOK'
  <2>1. sized' \in [Sizes -> Seq(Addr)]
    BY <1>1, <1>4
  <2>2. refs' \in [Addr -> Seq(Pointer)]
    BY <1>1, <1>2 DEF HunkInv, TypeOK, Pointer
  <2> QED BY <1>1, <1>2, <2>1, <2>2 DEF HunkInv, TypeOK, Pointer
<1>6. Tiled' /\ Starts' = Starts
  BY <1>1 DEF HunkInv, Tiled, Starts
<1>7. SizedMembers' = SizedMembers \cup garbage
  <2>1. \A n \in Sizes : Range(sized'[n]) = Dead(n) \cup Range(sized[n])
    BY <1>1, <1>4
  <2>2. \A a \in garbage : space[a] \in Sizes
    BY <1>2 DEF HunkInv, FreeListed
  <2>3. SizedMembers' = UNION { Range(sized'[n]) : n \in Sizes }
    BY DEF SizedMembers
  <2>4. SizedMembers' = UNION { Dead(n) \cup Range(sized[n]) : n \in Sizes }
    BY <2>1, <2>3
  <2> QED BY <2>2, <2>4 DEF SizedMembers
<1>8. FreeListed'
  <2>1. Free' = Free \cup garbage
    BY <1>1, <1>2, <1>6 DEF Free
  <2>2. /\ SizedMembers' \cup Range(unsized') = Free'
        /\ SizedMembers' \cap Range(unsized') = {}
    BY <1>1, <1>3, <1>7, <2>1
  <2>3. \A n \in Sizes : /\ IsInjective(sized'[n])
                         /\ \A a \in Range(sized'[n]) : space'[a] = n
    BY <1>1, <1>4 DEF HunkInv, FreeListed
  <2>4. objects' \subseteq Starts' /\ \A a \in objects' : space'[a] \in Sizes
    BY <1>1, <1>2, <1>6 DEF HunkInv, FreeListed
  <2> QED BY <1>1, <2>2, <2>3, <2>4 DEF HunkInv, FreeListed
<1>9. /\ \A x \in Reachable : Kids'[x] = Kids[x]
      /\ Roots' = Roots
  BY <1>1, <1>2 DEF Kids, Roots, HunkInv, TypeOK
<1>10. Reachable' = Reachable /\ objects' = Reachable
  <2>1. Reachable' = ReachFrom(objects', Roots', Kids') /\ objects' = Reachable
    BY <1>1, <1>2 DEF Reachable
  <2>2. ReachFrom(Reachable, Roots, Kids') = Reachable
    BY <1>9, ReachAfterSweep DEF Reachable
  <2> QED BY <1>9, <2>1, <2>2
<1>11. NoDangling'
  <2>1. Roots \subseteq Reachable /\ \A a \in Reachable : Kids[a] \subseteq Reachable
    BY ReachableFacts DEF HunkInv
  <2> QED BY <1>1, <1>9, <1>10, <2>1 DEF HunkInv, NoDangling
<1> QED BY <1>5, <1>6, <1>8, <1>10, <1>11 DEF HunkInv

-----------------------------------------------------------------------------
(***************************************************************************)
(* Compaction.  A run of free hunks ends at an object or at the end of its *)
(* heap, its bounds; no free hunk reaches beyond a bound.                  *)
(***************************************************************************)
Bounds == objects \cup Lasts

(* Nothing that is not free lies within a free hunk: where a run of them *)
(* may end.                                                              *)
LEMMA BoundsFacts ==
  ASSUME TypeOK, Tiled, FreeListed
  PROVE  /\ Bounds \subseteq Nat
         /\ Bounds \cap Free = {}
         /\ \A a \in Starts : a \in Nat /\ space[a] \in Nat /\ space[a] > 0
         /\ \A a \in Starts : \A e \in Bounds : a < e => a + space[a] <= e
<1>1. Addr \subseteq Nat
  BY AddrFacts
<1>2. Bounds \subseteq Nat
  <2>1. Lasts \subseteq Nat
    BY ConstantFacts DEF Lasts
  <2> QED BY <1>1, <2>1 DEF TypeOK, Bounds
<1>3. Lasts \cap Addr = {}
  <2> SUFFICES ASSUME NEW g \in Heaps, g + HeapSpace \in Addr PROVE FALSE
    BY DEF Lasts
  <2>1. PICK h \in Heaps : g + HeapSpace \in h .. (h + HeapSpace - 1)
    BY AddrFacts
  <2> QED BY <2>1, ConstantFacts
<1>4. Bounds \cap Free = {}
  BY <1>3 DEF Bounds, Free, Starts
<1>5. \A a \in Starts : a \in Nat /\ space[a] \in Nat /\ space[a] > 0
  BY <1>1, ConstantFacts DEF TypeOK, Starts
<1>6. ASSUME NEW a \in Starts, NEW e \in Bounds, a < e
      PROVE  a + space[a] <= e
  <2>1. CASE e \in objects
    BY <1>6, <2>1 DEF Tiled, FreeListed
  <2>2. CASE e \in Lasts
    <3>1. PICK h \in Heaps : h <= a /\ a + space[a] <= h + HeapSpace
      BY DEF Tiled
    <3>2. PICK g \in Heaps : e = g + HeapSpace
      BY <2>2 DEF Lasts
    <3>3. g \in Nat /\ h \in Nat /\ ~(g + HeapSpace < h)
      BY <1>5, <1>6, <3>1, <3>2, ConstantFacts
    <3>4. ~(g < h)
      BY <3>3, ConstantFacts
    <3> QED BY <1>5, <3>1, <3>2, <3>3, <3>4, ConstantFacts
  <2> QED BY <2>1, <2>2 DEF Bounds
<1> QED BY <1>2, <1>4, <1>5, <1>6

(***************************************************************************)
(* The walk from a hunk meets a bound, and so the first bound.             *)
(***************************************************************************)
LEMMA RunEndFacts ==
  ASSUME TypeOK, Tiled, FreeListed, NEW a \in Starts
  PROVE  /\ RunEnd(a) \in Bounds /\ RunEnd(a) > a
         /\ \A x \in Bounds : x > a => RunEnd(a) <= x
         /\ a + space[a] <= RunEnd(a)
         /\ \E h \in Heaps : h <= a /\ RunEnd(a) <= h + HeapSpace
<1>1. PICK h \in Heaps : h <= a /\ a + space[a] <= h + HeapSpace
  BY DEF Tiled
<1>2. a \in Nat /\ space[a] \in Nat /\ space[a] > 0 /\ h \in Nat /\ Bounds \subseteq Nat
  BY BoundsFacts, ConstantFacts
<1>3. h + HeapSpace \in Bounds /\ h + HeapSpace > a
  BY <1>1, <1>2, ConstantFacts DEF Bounds, Lasts
<1> DEFINE above == { x \in Bounds : x > a }
<1>4. above \in SUBSET Nat /\ above # {}
  BY <1>2, <1>3
<1>5. \E e \in above : \A x \in above : e <= x
  <2> HIDE DEF above
  <2> QED BY <1>4, LeastMember
<1>6. \E e \in Bounds : e > a /\ \A x \in Bounds : x > a => e <= x
  BY <1>5
<1>7. /\ RunEnd(a) \in Bounds /\ RunEnd(a) > a
      /\ \A x \in Bounds : x > a => RunEnd(a) <= x
  BY <1>6 DEF RunEnd, Bounds
<1>8. a + space[a] <= RunEnd(a)
  BY <1>2, <1>7, BoundsFacts
<1> QED BY <1>1, <1>3, <1>7, <1>8

(***************************************************************************)
(* Every free hunk lies within the run of some run start.                  *)
(***************************************************************************)
LEMMA InSomeRun ==
  ASSUME TypeOK, Tiled, FreeListed, NEW a \in Free
  PROVE  \E b \in RunStarts : b <= a /\ a + space[a] <= RunEnd(b)
<1> DEFINE within == { b \in Free : b <= a /\ \A e \in Bounds : e <= b \/ e > a }
<1>1. \A b \in Free : b \in Starts /\ b \in Nat /\ space[b] \in Nat /\ space[b] > 0
  BY BoundsFacts DEF Free
<1>2. Bounds \subseteq Nat
  BY BoundsFacts
<1>3. a \in within /\ within \in SUBSET Nat
  BY <1>1, <1>2
<1>4. PICK b \in within : \A x \in within : b <= x
  <2> HIDE DEF within
  <2> QED BY <1>3, LeastMember
<1>5. b \in Free /\ b <= a /\ \A e \in Bounds : e <= b \/ e > a
  OBVIOUS
<1>6. ASSUME NEW c \in Free, c + space[c] = b PROVE FALSE
  <2>1. c < b /\ c <= a
    BY <1>1, <1>5, <1>6
  <2>2. ASSUME NEW e \in Bounds PROVE e <= c \/ e > a
    <3>1. CASE e > c
      <4>1. b <= e
        BY <1>1, <1>2, <1>6, <3>1, BoundsFacts
      <4>2. e # b
        BY <1>5, BoundsFacts
      <4> QED BY <1>1, <1>2, <1>5, <4>1, <4>2
    <3> QED BY <1>1, <1>2, <3>1
  <2>3. c \in within
    BY <2>1, <2>2
  <2> QED BY <1>1, <1>4, <1>5, <2>1, <2>3
<1>7. b \in RunStarts
  BY <1>5, <1>6 DEF RunStarts
<1>8. RunEnd(b) \in Bounds /\ RunEnd(b) > b
  BY <1>1, <1>5, RunEndFacts
<1>9. RunEnd(b) > a
  <2> HIDE DEF within
  <2>0. RunEnd(b) \in Nat /\ b \in Nat
    BY <1>1, <1>2, <1>5, <1>8
  <2>1. ~(RunEnd(b) <= b)
    BY <1>8, <2>0
  <2>2. RunEnd(b) <= b \/ RunEnd(b) > a
    BY <1>5, <1>8
  <2> QED BY <2>1, <2>2
<1>10. a + space[a] <= RunEnd(b)
  BY <1>1, <1>8, <1>9, BoundsFacts
<1> QED BY <1>5, <1>7, <1>10

(***************************************************************************)
(* Between the runs of two run starts there is an object, so no run        *)
(* reaches the next run start.                                             *)
(***************************************************************************)
LEMMA RunsApart ==
  ASSUME TypeOK, Tiled, FreeListed, NEW a \in RunStarts, NEW b \in RunStarts, a < b
  PROVE  RunEnd(a) < b
<1>1. /\ a \in Starts /\ b \in Starts /\ b \in Addr /\ b \notin Bounds /\ b \in Free
      /\ Bounds \subseteq Nat
      /\ a \in Nat /\ b \in Nat /\ space[a] \in Nat /\ space[a] > 0 /\ a \notin objects
  BY BoundsFacts DEF RunStarts, Free, Starts
<1>2. /\ RunEnd(a) \in Bounds /\ RunEnd(a) \in Nat
      /\ \A x \in Bounds : x > a => RunEnd(a) <= x
  BY <1>1, RunEndFacts
<1>3. PICK h \in Heaps : h <= a /\ RunEnd(a) <= h + HeapSpace
  BY <1>1, RunEndFacts
<1> HIDE DEF RunEnd
<1>4. SUFFICES ASSUME b < RunEnd(a) PROVE FALSE
  BY <1>1, <1>2
<1>5. b - 1 \in Addr
  <2>1. h \in Nat /\ HeapSpace \in Nat
    BY ConstantFacts
  <2>2. b - 1 \in h .. (h + HeapSpace - 1)
    BY <1>1, <1>2, <1>3, <1>4, <2>1
  <2> QED BY <2>2, AddrFacts
<1>6. PICK c \in Starts : c <= b - 1 /\ b - 1 < c + space[c]
  BY <1>5 DEF Tiled
<1>7. c \in Nat /\ space[c] \in Nat /\ c < b
  BY <1>1, <1>6, BoundsFacts
<1>8. c + space[c] = b
  <2>1. c + space[c] <= b
    BY <1>1, <1>7 DEF Tiled
  <2> QED BY <1>1, <1>6, <1>7, <2>1
<1>9. c \in objects /\ c \in Bounds /\ c # a
  BY <1>1, <1>8 DEF RunStarts, Free, Bounds
<1>10. c > a
  <2>1. CASE c < a
    <3>1. c + space[c] <= a
      BY <1>1, <2>1 DEF Tiled
    <3> QED BY <1>1, <1>8, <3>1
  <2> QED BY <1>1, <1>7, <1>9, <2>1
<1> QED BY <1>1, <1>2, <1>4, <1>7, <1>9, <1>10

(* RECLAIM UNSIZED HUNKS: adjoining free hunks become one, and no list of *)
(* hunks by size is left.                                                 *)
LEMMA ReclaimUnsizedStep ==
  ASSUME HunkInv, ReclaimUnsized
  PROVE  /\ HunkInv'
         /\ SizedMembers' = {}
         /\ \A a, b \in Free' : a + space'[a] # b
         /\ objects' = objects /\ Reachable' = Reachable
<1>1. /\ pc' = "compacted" /\ pc = "swept"
      /\ space' = [a \in Addr |-> IF a \in RunStarts THEN RunEnd(a) - a
                                  ELSE IF a \in Free THEN 0 ELSE space[a]]
      /\ sized' = [n \in Sizes |-> <<>>] /\ unsized' = InOrder(RunStarts)
      /\ objects' = objects /\ refs' = refs /\ frames' = frames /\ wanted' = wanted
  BY DEF ReclaimUnsized, ClobberedSized
<1>2. /\ TypeOK /\ Tiled /\ FreeListed
      /\ space \in [Addr -> 0 .. HeapSpace] /\ objects \subseteq Starts /\ objects \subseteq Addr
      /\ RunStarts \subseteq Free /\ Free \subseteq Starts /\ Free \cap objects = {}
      /\ Starts \subseteq Addr /\ Starts = Free \cup objects
      /\ Addr \subseteq Nat /\ Bounds \subseteq Nat /\ Bounds \cap Free = {} /\ objects \subseteq Bounds
      /\ \A a \in Addr : space[a] \in Nat
  <2>1. /\ TypeOK /\ Tiled /\ FreeListed
        /\ space \in [Addr -> 0 .. HeapSpace] /\ objects \subseteq Starts /\ objects \subseteq Addr
    BY DEF HunkInv, TypeOK, FreeListed
  <2>2. Bounds \subseteq Nat /\ Bounds \cap Free = {} /\ Addr \subseteq Nat /\ HeapSpace \in Nat
    BY <2>1, BoundsFacts, AddrFacts, ConstantFacts
  <2>3. /\ RunStarts \subseteq Free /\ Free \subseteq Starts /\ Free \cap objects = {}
        /\ Starts \subseteq Addr /\ Starts = Free \cup objects /\ objects \subseteq Bounds
    BY <2>1 DEF RunStarts, Free, Starts, Bounds
  <2>4. \A a \in Addr : space[a] \in Nat
    BY <2>1, <2>2
  <2> QED BY <2>1, <2>2, <2>3, <2>4
<1>3. ASSUME NEW a \in RunStarts
      PROVE  /\ RunEnd(a) \in Bounds /\ RunEnd(a) \in Nat /\ a \in Nat /\ RunEnd(a) > a
             /\ \A x \in Bounds : x > a => RunEnd(a) <= x
             /\ a + space[a] <= RunEnd(a)
             /\ \E h \in Heaps : h <= a /\ RunEnd(a) <= h + HeapSpace
             /\ a + (RunEnd(a) - a) = RunEnd(a)
             /\ RunEnd(a) - a \in 0 .. HeapSpace
             /\ RunEnd(a) - a # 0
             /\ RunEnd(a) - a >= HunkSize
  <2>1. /\ RunEnd(a) \in Bounds /\ RunEnd(a) \in Nat /\ a \in Nat /\ RunEnd(a) > a
        /\ \A x \in Bounds : x > a => RunEnd(a) <= x
        /\ a + space[a] <= RunEnd(a)
        /\ \E h \in Heaps : h <= a /\ RunEnd(a) <= h + HeapSpace
    BY <1>2, RunEndFacts
  <2>2. space[a] \in Nat /\ space[a] >= HunkSize
    BY <1>2 DEF Tiled
  <2> DEFINE e == RunEnd(a)
             m == space[a]
  <2> HIDE DEF e, m
  <2>3. PICK h \in Heaps : h <= a /\ e <= h + HeapSpace
    BY <2>1 DEF e
  <2>4. /\ e \in Nat /\ a \in Nat /\ m \in Nat /\ a + m <= e /\ m >= HunkSize /\ h \in Nat /\ e > a
        /\ HunkSize \in Nat /\ HeapSpace \in Nat
    BY <2>1, <2>2, ConstantFacts DEF e, m
  <2>5. a + (e - a) = e /\ e - a \in 0 .. HeapSpace /\ e - a # 0 /\ e - a >= HunkSize
    BY <2>3, <2>4
  <2> QED BY <2>1, <2>5 DEF e
<1>4. \A a \in Addr : /\ a \in RunStarts => space'[a] = RunEnd(a) - a
                      /\ a \in Free \ RunStarts => space'[a] = 0
                      /\ a \notin Free => space'[a] = space[a]
  BY <1>1, <1>2
<1>5. \A a \in RunStarts : space'[a] # 0 /\ a + space'[a] = RunEnd(a) /\ space'[a] \in 0 .. HeapSpace
  BY <1>2, <1>3, <1>4
<1>6. space' \in [Addr -> 0 .. HeapSpace]
  BY <1>1, <1>2, <1>3, ConstantFacts
<1>7. Starts' = RunStarts \cup objects
  <2>1. \A a \in Addr : space[a] # 0 <=> a \in Free \/ a \in objects
    BY <1>2 DEF Starts
  <2> QED BY <1>2, <1>4, <1>5, <2>1 DEF Starts
<1>8. Free' = RunStarts
  BY <1>1, <1>2, <1>7 DEF Free
<1>9. \A a \in objects : space'[a] = space[a] /\ a \notin RunStarts
  BY <1>2, <1>4
<1>10. Tiled'
  <2>1. ASSUME NEW a \in Starts'
        PROVE  /\ space'[a] >= HunkSize
               /\ \E h \in Heaps : h <= a /\ a + space'[a] <= h + HeapSpace
    <3>1. CASE a \in RunStarts
      BY <1>2, <1>3, <1>4, <3>1
    <3>2. CASE a \in objects
      BY <1>2, <1>9, <3>2 DEF Tiled
    <3> QED BY <1>7, <3>1, <3>2
  <2>2. ASSUME NEW a \in Starts', NEW b \in Starts', a < b
        PROVE  a + space'[a] <= b
    <3>1. CASE a \in RunStarts /\ b \in RunStarts
      <4>1. RunEnd(a) < b /\ RunEnd(a) \in Nat /\ b \in Nat
        BY <1>2, <1>3, <2>2, <3>1, RunsApart
      <4> QED BY <1>5, <3>1, <4>1
    <3>2. CASE a \in RunStarts /\ b \in objects
      <4>1. b \in Bounds /\ b > a
        BY <1>2, <1>3, <2>2, <3>2
      <4> QED BY <1>3, <1>5, <3>2, <4>1
    <3>3. CASE a \in objects
      BY <1>2, <1>7, <1>9, <2>2, <3>3 DEF Tiled
    <3> QED BY <1>7, <3>1, <3>2, <3>3
  <2>3. ASSUME NEW x \in Addr PROVE \E a \in Starts' : a <= x /\ x < a + space'[a]
    <3>1. PICK a \in Starts : a <= x /\ x < a + space[a]
      BY <1>2 DEF Tiled
    <3>2. CASE a \in objects
      BY <1>7, <1>9, <3>1, <3>2
    <3>3. CASE a \in Free
      <4>1. PICK b \in RunStarts : b <= a /\ a + space[a] <= RunEnd(b)
        BY <1>2, <3>3, InSomeRun
      <4>2. RunEnd(b) \in Nat /\ b \in Nat /\ a \in Nat /\ x \in Nat /\ space[a] \in Nat
        BY <1>2, <1>3
      <4>3. b <= x /\ x < RunEnd(b)
        BY <3>1, <4>1, <4>2
      <4> QED BY <1>5, <1>7, <4>3
    <3> QED BY <1>2, <3>2, <3>3
  <2> QED BY <2>1, <2>2, <2>3 DEF Tiled
<1>11. SizedMembers' = {} /\ \A n \in Sizes : sized'[n] \in Seq(Addr) /\ IsInjective(sized'[n]) /\ Range(sized'[n]) = {}
  BY <1>1 DEF SizedMembers, Range, IsInjective
<1>12. unsized' \in Seq(Addr) /\ IsInjective(unsized') /\ Range(unsized') = RunStarts
  <2>1. RunStarts \in SUBSET Addr /\ IsFiniteSet(RunStarts) /\ RunStarts \in SUBSET Int
    BY <1>2, AddrFacts
  <2>2. unsized' \in Seq(RunStarts) /\ IsInjective(unsized') /\ Range(unsized') = RunStarts
    BY <1>1, <2>1, InOrderFacts
  <2> QED BY <2>1, <2>2, SeqMonotonic
<1>13. FreeListed'
  <2>1. objects' \subseteq Starts' /\ \A a \in objects' : space'[a] \in Sizes
    BY <1>1, <1>2, <1>7, <1>9 DEF FreeListed
  <2> QED BY <1>8, <1>11, <1>12, <2>1 DEF FreeListed
<1>14. Reachable' = Reachable /\ Roots' = Roots /\ Kids' = Kids
  BY <1>1, SameGraph
<1>15. TypeOK'
  <2>1. sized' \in [Sizes -> Seq(Addr)]
    BY <1>1
  <2> QED BY <1>1, <1>2, <1>6, <1>12, <2>1 DEF TypeOK
<1>16. NoDangling'
  BY <1>1, <1>14 DEF HunkInv, NoDangling
<1>17. \A a, b \in Free' : a + space'[a] # b
  BY <1>2, <1>3, <1>5, <1>8
<1> QED BY <1>1, <1>10, <1>11, <1>13, <1>14, <1>15, <1>16, <1>17 DEF HunkInv

-----------------------------------------------------------------------------
(***************************************************************************)
(* Every step keeps the invariant.                                         *)
(***************************************************************************)
LEMMA CompilerStep ==
  ASSUME HunkInv, Compiler
  PROVE  HunkInv' /\ pc = "run" /\ pc' \in {"run", "search"}
<1>1. ASSUME NEW n \in FrameSizes, Push(n)
      PROVE  HunkInv' /\ pc = "run" /\ pc' \in {"run", "search"}
  BY <1>1, PushStep DEF Push
<1>2. ASSUME NEW value \in Values, NEW j \in DOMAIN frames, NEW i \in DOMAIN frames[j],
             Pop(value, j, i)
      PROVE  HunkInv' /\ pc = "run" /\ pc' \in {"run", "search"}
  BY <1>2, PopStep DEF Pop
<1>3. ASSUME NEW value \in Values, NEW j \in DOMAIN frames, NEW i \in DOMAIN frames[j],
             Assign(value, j, i)
      PROVE  HunkInv' /\ pc = "run" /\ pc' \in {"run", "search"}
  BY <1>3, AssignStep DEF Assign
<1>4. ASSUME NEW value \in Values, NEW a \in Reachable, NEW i \in DOMAIN refs[a],
             SetRef(a, i, value)
      PROVE  HunkInv' /\ pc = "run" /\ pc' \in {"run", "search"}
  BY <1>4, SetRefStep DEF SetRef
<1>5. ASSUME NEW k \in Kinds, NEW args \in [1 .. k.degree -> Values],
             NEW j \in DOMAIN frames, NEW i \in DOMAIN frames[j], Request(k, args, j, i)
      PROVE  HunkInv' /\ pc = "run" /\ pc' \in {"run", "search"}
  BY <1>5, RequestStep DEF Request
<1>6. ASSUME NEW a \in objects, Destroy(a)
      PROVE  HunkInv' /\ pc = "run" /\ pc' \in {"run", "search"}
  BY <1>6, DestroyStep DEF Destroy
<1> QED BY <1>1, <1>2, <1>3, <1>4, <1>5, <1>6 DEF Compiler

(* A step that changes nothing. *)
LEMMA StutterStep ==
  ASSUME HunkInv, UNCHANGED vars
  PROVE  HunkInv'
<1>1. Tiled' /\ FreeListed'
  BY SameHunks DEF vars
<1>2. Reachable' = Reachable /\ Roots' = Roots /\ Kids' = Kids /\ objects' = objects
  BY SameGraph DEF vars
<1>3. TypeOK'
  BY DEF HunkInv, TypeOK, vars
<1>4. NoDangling'
  BY <1>2 DEF HunkInv, NoDangling, vars
<1> QED BY <1>1, <1>3, <1>4 DEF HunkInv

(* Every step keeps the invariant. *)
LEMMA HunkInvStep ==
  ASSUME HunkInv, [Next]_vars
  PROVE  HunkInv'
  BY CompilerStep, TakeSizedStep, TakeUnsizedStep, ReclaimSizedStep, ReclaimUnsizedStep,
     ExhaustedStep, StutterStep DEF Next, MakeHunk

(***************************************************************************)
(* In every reachable state, whatever the heaps, objects and frames, the   *)
(* invariant of HUNK.C holds.                                              *)
(***************************************************************************)
THEOREM HunkInvariant == Spec => []HunkInv
<1>1. HunkInv /\ [Next]_vars => HunkInv'
  BY HunkInvStep
<1> QED BY InitHolds, <1>1, PTL DEF Spec

(***************************************************************************)
(* The parts of the invariant.  No walk of the collector over the hunks of *)
(* a heap is ever derailed, no hunk is in two free lists or in none, and   *)
(* no protected pointer denotes a hunk that is not in use.                 *)
(***************************************************************************)
THEOREM TypeCorrect == Spec => []TypeOK
<1>1. HunkInv => TypeOK
  BY DEF HunkInv
<1> QED BY HunkInvariant, <1>1, PTL

THEOREM HeapsTiled == Spec => []Tiled
<1>1. HunkInv => Tiled
  BY DEF HunkInv
<1> QED BY HunkInvariant, <1>1, PTL

THEOREM ListsSound == Spec => []FreeListed
<1>1. HunkInv => FreeListed
  BY DEF HunkInv
<1> QED BY HunkInvariant, <1>1, PTL

THEOREM PointersSound == Spec => []NoDangling
<1>1. HunkInv => NoDangling
  BY DEF HunkInv
<1> QED BY HunkInvariant, <1>1, PTL

-----------------------------------------------------------------------------
(***************************************************************************)
(* No step moves, resizes or reclaims what a protected pointer leads to:   *)
(* the collector may run inside any call of a maker of MAKE.C.             *)
(***************************************************************************)
LEMMA KeepsReachableStep ==
  ASSUME HunkInv, Next, NEW a \in Reachable
  PROVE  /\ a \in objects'
         /\ space'[a] = space[a]
         /\ pc # "run" => refs'[a] = refs[a]
<1>1. /\ a \in objects /\ a \in Addr /\ a \notin Free /\ a \in Starts
      /\ Reachable \subseteq objects
      /\ space \in [Addr -> 0 .. HeapSpace] /\ refs \in [Addr -> Seq(Pointer)]
  BY ReachableFacts DEF HunkInv, TypeOK, FreeListed, Free, Pointer
<1>2. CASE Compiler
  <2>1. space' = space /\ pc = "run"
    BY <1>2 DEF Compiler, Push, Pop, Assign, SetRef, Request, Destroy, heapVars
  <2>2. a \in objects'
    BY <1>1, <1>2 DEF Compiler, Push, Pop, Assign, SetRef, Request, Destroy, heapVars
  <2> QED BY <2>1, <2>2
<1>3. CASE TakeSized
  <2>1. Head(sized[wanted.size]) \in Range(sized[wanted.size])
    BY <1>3, TailFacts DEF TakeSized, HasSized, HunkInv, TypeOK, FreeListed
  <2>2. wanted.size \in Sizes
    BY <1>3 DEF TakeSized, HunkInv, TypeOK
  <2>3. Head(sized[wanted.size]) # a
    BY <1>1, <2>1, <2>2 DEF HunkInv, FreeListed, SizedMembers
  <2> QED BY <1>1, <1>3, <2>3 DEF TakeSized, Make
<1>4. CASE TakeUnsized
  <2>1. PICK i \in DOMAIN unsized :
          LET b    == unsized[i]
              rest == b + wanted.size
          IN /\ Fits(b)
             /\ \/ space' = space
                \/ /\ space[b] # wanted.size
                   /\ space' = [space EXCEPT ![b] = wanted.size, ![rest] = space[b] - wanted.size]
             /\ Make(b)
    BY <1>4 DEF TakeUnsized
  <2> DEFINE b == unsized[i]
             n == wanted.size
             r == b + n
  <2>2. b \in Free /\ b \in Starts /\ b # a
    <3>1. b \in Range(unsized)
      BY DEF Range
    <3> QED BY <1>1, <3>1 DEF HunkInv, FreeListed, Free
  <2>3. /\ objects' = objects \cup {b} /\ refs' = [refs EXCEPT ![b] = wanted.refs]
        /\ b = unsized[i]
    BY <2>1 DEF Make
  <2>4. n \in Nat /\ n >= HunkSize
    BY <1>4, ConstantFacts DEF TakeUnsized, HunkInv, TypeOK
  <2>5. space'[a] = space[a]
    <3>1. CASE space' = space
      BY <3>1
    <3>2. CASE /\ space[b] # n
               /\ space' = [space EXCEPT ![b] = n, ![r] = space[b] - n]
      <4>1. Fits(b) /\ r = b + n /\ TypeOK /\ Tiled
        BY <2>1 DEF HunkInv
      <4>2. space[b] >= n + HunkSize
        BY <3>2, <4>1 DEF Fits
      <4> HIDE DEF b, n, r
      <4>3. \A x \in Starts : x # b => space'[x] = space[x]
        BY <2>2, <2>4, <3>2, <4>1, <4>2, SplitTiles
      <4> QED BY <1>1, <2>2, <4>3
    <3> QED BY <2>1, <3>1, <3>2
  <2> HIDE DEF b
  <2> QED BY <1>1, <2>2, <2>3, <2>5
<1>5. CASE ReclaimSized
  BY <1>1, <1>5 DEF ReclaimSized, Marked
<1>6. CASE ReclaimUnsized
  BY <1>1, <1>6 DEF ReclaimUnsized, RunStarts
<1>7. CASE Exhausted
  BY <1>1, <1>7 DEF Exhausted, heapVars
<1> QED BY <1>2, <1>3, <1>4, <1>5, <1>6, <1>7 DEF Next, MakeHunk

THEOREM CollectorIsSafe == Spec => KeepsReachable
<1>1. HunkInv /\ [Next]_vars =>
        [\A a \in Reachable : /\ a \in objects'
                              /\ space'[a] = space[a]
                              /\ pc # "run" => refs'[a] = refs[a]]_vars
  BY KeepsReachableStep
<1> QED BY HunkInvariant, <1>1, PTL DEF Spec, KeepsReachable

-----------------------------------------------------------------------------
(***************************************************************************)
(* What the collectors have done by the time MAKE HUNK tries again, kept   *)
(* until it returns or halts.                                              *)
(***************************************************************************)
Drained == pc = "halted" =>
             /\ objects = Reachable
             /\ SizedMembers = {}
             /\ \A a, b \in Free : a + space[a] # b
             /\ ~HasUnsized

HeapInv == HunkInv /\ Collected /\ Drained

(* Every step keeps it, with what the two passes of the collector *)
(* promise.                                                       *)
LEMMA HeapInvStep ==
  ASSUME HeapInv, [Next]_vars
  PROVE  HeapInv'
<1>1. HunkInv /\ HunkInv'
  BY HunkInvStep DEF HeapInv
<1>2. CASE Compiler
  <2>1. pc' \in {"run", "search"}
    BY <1>1, <1>2, CompilerStep
  <2> QED BY <1>1, <2>1 DEF HeapInv, Collected, Drained
<1>3. CASE TakeSized \/ TakeUnsized
  <2>1. pc' = "run"
    BY <1>3 DEF TakeSized, TakeUnsized, Make
  <2> QED BY <1>1, <2>1 DEF HeapInv, Collected, Drained
<1>4. CASE ReclaimSized
  <2>1. pc' = "swept" /\ objects' = Reachable'
    BY <1>1, <1>4, ReclaimSizedStep DEF ReclaimSized
  <2> QED BY <1>1, <2>1 DEF HeapInv, Collected, Drained
<1>5. CASE ReclaimUnsized
  <2>1. /\ SizedMembers' = {}
        /\ \A a, b \in Free' : a + space'[a] # b
        /\ objects' = objects /\ Reachable' = Reachable
    BY <1>1, <1>5, ReclaimUnsizedStep
  <2>2. pc = "swept" /\ pc' = "compacted"
    BY <1>5 DEF ReclaimUnsized
  <2> QED BY <1>1, <2>1, <2>2 DEF HeapInv, Collected, Drained
<1>6. CASE Exhausted
  <2>1. /\ pc = "compacted" /\ pc' = "halted" /\ ~HasUnsized
        /\ space' = space /\ objects' = objects /\ refs' = refs /\ sized' = sized
        /\ unsized' = unsized /\ frames' = frames /\ wanted' = wanted
    BY <1>6 DEF Exhausted, heapVars
  <2>2. Reachable' = Reachable
    BY <1>1, <2>1, SameGraph
  <2>3. SizedMembers' = SizedMembers /\ Free' = Free /\ HasUnsized' = HasUnsized
    BY <2>1 DEF SizedMembers, Free, Starts, HasUnsized, Fits
  <2> QED BY <1>1, <2>1, <2>2, <2>3 DEF HeapInv, Collected, Drained
<1>7. CASE UNCHANGED vars
  <2>1. /\ space' = space /\ objects' = objects /\ refs' = refs /\ sized' = sized
        /\ unsized' = unsized /\ frames' = frames /\ wanted' = wanted /\ pc' = pc
    BY <1>7 DEF vars
  <2>2. Reachable' = Reachable
    BY <1>1, <2>1, SameGraph
  <2>3. SizedMembers' = SizedMembers /\ Free' = Free /\ HasUnsized' = HasUnsized
    BY <2>1 DEF SizedMembers, Free, Starts, HasUnsized, Fits
  <2> QED BY <1>1, <2>1, <2>2, <2>3 DEF HeapInv, Collected, Drained
<1> QED BY <1>2, <1>3, <1>4, <1>5, <1>6, <1>7 DEF Next, MakeHunk

(***************************************************************************)
(* The invariant that the collectors add to that of the lists.             *)
(***************************************************************************)
THEOREM HeapInvariant == Spec => []HeapInv
<1>1. Init => HeapInv
  BY InitHolds DEF Init, HeapInv, Collected, Drained
<1>2. HeapInv /\ [Next]_vars => HeapInv'
  BY HeapInvStep
<1> QED BY <1>1, <1>2, PTL DEF Spec

(***************************************************************************)
(* After the sweep nothing unreachable is in use; after compaction the     *)
(* free hunks are maximal and all in UNSIZED HUNKS.                        *)
(***************************************************************************)
THEOREM CollectorIsComplete == Spec => []Collected
<1>1. HeapInv => Collected
  BY DEF HeapInv
<1> QED BY HeapInvariant, <1>1, PTL

(***************************************************************************)
(* A hole is just a free hunk, once Orson has halted.                      *)
(***************************************************************************)
LEMMA HolesAreHunks ==
  ASSUME HeapInv, pc = "halted", NEW a \in Addr, NEW e \in (a + 1) .. (a + HeapSpace), Hole(a, e)
  PROVE  a \in Free /\ e = a + space[a]
<1>1. /\ TypeOK /\ Tiled /\ FreeListed /\ objects = Reachable
      /\ \A x, y \in Free : x + space[x] # y
      /\ objects \subseteq Starts
  BY DEF HeapInv, HunkInv, Drained, FreeListed
<1>2. /\ a \in Nat /\ e \in Nat /\ a < e /\ Addr \subseteq Nat
      /\ HeapSpace \in Nat /\ \A h \in Heaps : h \in Nat
      /\ \A x \in Starts : x \in Nat /\ space[x] \in Nat /\ space[x] > 0
      /\ \A x, y \in Starts : x < y => x + space[x] <= y
  <2>1. a \in Nat /\ Addr \subseteq Nat /\ HeapSpace \in Nat
    BY AddrFacts, ConstantFacts
  <2> QED BY <1>1, <2>1, BoundsFacts, ConstantFacts DEF Tiled
<1>3. \A x : x \in InUse <=> \E o \in objects : x \in o .. (o + space[o] - 1)
  BY <1>1 DEF InUse
<1>4. \A o \in objects : o \in InUse
  <2> SUFFICES ASSUME NEW o \in objects PROVE o \in InUse
    OBVIOUS
  <2>1. o \in o .. (o + space[o] - 1)
    BY <1>1, <1>2
  <2> QED BY <1>3, <2>1
<1>5. ASSUME NEW x \in Nat, NEW c \in Starts, NEW d \in Starts,
             c <= x, x < c + space[c], d <= x, x < d + space[d]
      PROVE  c = d
  BY <1>2, <1>5
<1>6. /\ \A x \in a .. (e - 1) : x \in Addr /\ x \notin InUse
      /\ a \in Heaps \/ a - 1 \in InUse
      /\ e \in Lasts \/ e \in InUse
  BY DEF Hole
<1>7. a \notin InUse /\ a \notin objects
  <2>1. a \in a .. (e - 1)
    BY <1>2
  <2> QED BY <1>4, <1>6, <2>1
<1>8. PICK c \in Starts : c <= a /\ a < c + space[c]
  BY <1>1 DEF Tiled
<1>9. a = c
  <2> SUFFICES ASSUME c < a PROVE FALSE
    BY <1>2, <1>8
  <2>1. CASE a \in Heaps
    <3>1. PICK h \in Heaps : h <= c /\ c + space[c] <= h + HeapSpace
      BY <1>1 DEF Tiled
    <3>2. h < a /\ h + HeapSpace < a
      BY <1>2, <2>1, <3>1, ConstantFacts
    <3> QED BY <1>2, <1>8, <3>1, <3>2
  <2>2. CASE a - 1 \in InUse
    <3>1. PICK o \in objects : a - 1 \in o .. (o + space[o] - 1)
      BY <1>3, <2>2
    <3>2. o \in Starts /\ o \in Nat /\ space[o] \in Nat /\ o <= a - 1 /\ a - 1 < o + space[o]
      BY <1>1, <1>2, <3>1
    <3>3. a - 1 \in Nat /\ c <= a - 1 /\ a - 1 < c + space[c]
      BY <1>2, <1>8
    <3>4. c = o
      BY <1>5, <3>2, <3>3
    <3>5. a \in o .. (o + space[o] - 1)
      BY <1>2, <1>8, <3>2, <3>4
    <3> QED BY <1>3, <1>7, <3>5
  <2> QED BY <1>6, <2>1, <2>2
<1>10. a \in Free /\ a \in Starts
  BY <1>7, <1>9 DEF Free
<1> DEFINE f == a + space[a]
<1>11. f \in Nat /\ space[a] \in Nat /\ space[a] > 0 /\ a < f /\ f = a + space[a]
  BY <1>2, <1>10
<1>12. ASSUME e < f PROVE FALSE
  <2>1. CASE e \in Lasts
    <3>1. e \in Bounds
      BY <2>1 DEF Bounds
    <3>2. f <= e
      BY <1>1, <1>2, <1>10, <3>1, BoundsFacts
    <3> QED BY <1>2, <1>11, <1>12, <3>2
  <2>2. CASE e \in InUse
    <3>1. PICK o \in objects : e \in o .. (o + space[o] - 1)
      BY <1>3, <2>2
    <3>2. o \in Starts /\ o \in Nat /\ space[o] \in Nat /\ o <= e /\ e < o + space[o]
      BY <1>1, <1>2, <3>1
    <3>3. a <= e /\ e < a + space[a]
      BY <1>2, <1>11, <1>12
    <3>4. a = o
      BY <1>2, <1>5, <1>10, <3>2, <3>3
    <3> QED BY <1>7, <3>4
  <2> QED BY <1>6, <2>1, <2>2
<1>13. ASSUME f < e PROVE FALSE
  <2>1. f \in a .. (e - 1)
    BY <1>2, <1>11, <1>13
  <2>2. f \in Addr /\ f \notin InUse
    BY <1>6, <2>1
  <2>3. PICK d \in Starts : d <= f /\ f < d + space[d]
    BY <1>1, <2>2 DEF Tiled
  <2>4. d \in Nat /\ space[d] \in Nat
    BY <1>2
  <2>5. d # a
    BY <1>11, <2>3
  <2>6. ~(d < a)
    <3>1. d < a => d + space[d] <= a
      BY <1>2, <1>10
    <3> QED BY <1>2, <1>11, <2>3, <2>4, <3>1
  <2>7. a < d => f <= d
    BY <1>2, <1>10, <1>11
  <2>8. d = f
    BY <1>2, <1>11, <2>3, <2>4, <2>5, <2>6, <2>7
  <2>9. f \in Free
    BY <1>4, <2>2, <2>8 DEF Free
  <2> QED BY <1>1, <1>10, <1>11, <2>9
<1> QED BY <1>2, <1>10, <1>11, <1>12, <1>13

(***************************************************************************)
(* When Orson halts for lack of memory, no way of collecting garbage could *)
(* have found a stretch of memory for the object.                          *)
(***************************************************************************)
THEOREM HaltsOnlyIfFull == Spec => []HaltOnlyIfFull
<1>1. HeapInv => HaltOnlyIfFull
  <2> SUFFICES ASSUME HeapInv, pc = "halted", NEW a \in Addr,
                      NEW e \in (a + 1) .. (a + HeapSpace), Hole(a, e)
               PROVE  e - a # wanted.size /\ e - a < wanted.size + HunkSize
    BY DEF HaltOnlyIfFull
  <2>1. a \in Free /\ e = a + space[a]
    BY HolesAreHunks
  <2>2. a \in Range(unsized) /\ ~HasUnsized
    BY <2>1 DEF HeapInv, HunkInv, FreeListed, Drained
  <2>3. ~Fits(a)
    BY <2>2 DEF HasUnsized, Range
  <2>4. /\ a \in Nat /\ space[a] \in Nat /\ wanted.size \in Nat /\ HunkSize \in Nat
    <3>1. space \in [Addr -> 0 .. HeapSpace] /\ wanted.size \in Sizes
      BY DEF HeapInv, HunkInv, TypeOK
    <3> QED BY <3>1, AddrFacts, ConstantFacts
  <2>5. e - a = space[a]
    BY <2>1, <2>4
  <2>6. space[a] # wanted.size /\ ~(space[a] >= wanted.size + HunkSize)
    BY <2>3 DEF Fits
  <2> QED BY <2>4, <2>5, <2>6
<1> QED BY HeapInvariant, <1>1, PTL

-----------------------------------------------------------------------------
(***************************************************************************)
(* Hunk implements Store.  What the compiler sees is the graph of the      *)
(* objects it can reach; a request is always for an object of MAKE.C.      *)
(***************************************************************************)
KindWanted == pc # "run" =>
                \E k \in Kinds : wanted.size = k.size /\ DOMAIN wanted.refs = 1 .. k.degree

SeenInv == HunkInv /\ KindWanted

(* Every step keeps it: the kind that was asked for is one that there is. *)
LEMMA SeenInvStep ==
  ASSUME SeenInv, [Next]_vars
  PROVE  SeenInv'
<1>1. HunkInv'
  BY HunkInvStep DEF SeenInv
<1>2. CASE Compiler
  <2>1. ASSUME NEW k \in Kinds, NEW args \in [1 .. k.degree -> Values], NEW j, NEW i,
               Request(k, args, j, i)
        PROVE  KindWanted'
    BY <2>1 DEF Request, KindWanted
  <2>2. (\E k \in Kinds : \E args \in [1 .. k.degree -> Values] :
           \E j \in DOMAIN frames : \E i \in DOMAIN frames[j] : Request(k, args, j, i))
        \/ pc' = "run"
    BY <1>2 DEF Compiler, Push, Pop, Assign, SetRef, Destroy
  <2>3. KindWanted'
    BY <2>1, <2>2 DEF KindWanted
  <2> QED BY <1>1, <2>3 DEF SeenInv
<1>3. CASE TakeSized \/ TakeUnsized
  BY <1>1, <1>3 DEF TakeSized, TakeUnsized, Make, KindWanted, SeenInv
<1>4. CASE ReclaimSized \/ ReclaimUnsized \/ Exhausted \/ UNCHANGED vars
  <2>1. wanted' = wanted /\ (pc' # "run" => pc # "run")
    BY <1>4 DEF ReclaimSized, ReclaimUnsized, Exhausted, vars
  <2> QED BY <1>1, <2>1 DEF SeenInv, KindWanted
<1> QED BY <1>2, <1>3, <1>4 DEF Next, MakeHunk

(***************************************************************************)
(* The objects M, with their sizes and pointers, as Store sees them.       *)
(***************************************************************************)
Snapshot(M, s, r) == [a \in M |-> [size |-> s[a], refs |-> r[a]]]

(***************************************************************************)
(* What is reached among all objects is what is reached among those in a   *)
(* set that holds the roots and is closed under pointers.                  *)
(***************************************************************************)
LEMMA ReachWithin ==
  ASSUME NEW N, NEW M, M \subseteq N, N \subseteq Addr, NEW p, NEW r,
         Addr \cap p \subseteq M,
         \A x \in M : Addr \cap Range(r[x]) \subseteq M
  PROVE  ReachFrom(N, Addr \cap p, [a \in Addr |-> Addr \cap Range(r[a])])
           = ReachFrom(M, p, [a \in M |-> Range(r[a])])
<1> DEFINE kids == [a \in Addr |-> Addr \cap Range(r[a])]
           range == [a \in M |-> Range(r[a])]
           A == ReachFrom(N, Addr \cap p, kids)
           B == ReachFrom(M, p, range)
<1>1. \A x \in M : kids[x] = Addr \cap Range(r[x]) /\ range[x] = Range(r[x])
  OBVIOUS
<1> HIDE DEF kids, range
<1>2. /\ A \subseteq N
      /\ Addr \cap p \cap N \subseteq A
      /\ \A x \in A : kids[x] \cap N \subseteq A
  BY ReachIsClosed
<1>3. /\ B \subseteq M
      /\ p \cap M \subseteq B
      /\ \A x \in B : range[x] \cap M \subseteq B
  BY ReachIsClosed
<1>4. A \subseteq M
  <2>1. Addr \cap p \cap N \subseteq M /\ \A x \in M : kids[x] \cap N \subseteq M
    BY <1>1
  <2> QED BY <2>1, ReachIsLeast
<1>5. A \subseteq B
  <2> HIDE DEF B
  <2>1. B \subseteq N /\ Addr \cap p \cap N \subseteq B
    BY <1>3
  <2>2. \A x \in B : kids[x] \cap N \subseteq B
    BY <1>1, <1>3
  <2> QED BY <2>1, <2>2, ReachIsLeast
<1>6. B \subseteq A
  <2> HIDE DEF A
  <2>1. p \cap M \subseteq A
    BY <1>2
  <2>2. \A x \in A : range[x] \cap M \subseteq A
    BY <1>1, <1>2, <1>4
  <2> QED BY <1>4, <2>1, <2>2, ReachIsLeast
<1> QED BY <1>5, <1>6 DEF kids, range

(***************************************************************************)
(* After a step, the compiler sees what lives of any such set.             *)
(***************************************************************************)
LEMMA LivingSeen ==
  ASSUME TypeOK', NEW M, M \subseteq objects', Roots' \subseteq M,
         \A x \in M : Kids'[x] \subseteq M
  PROVE  Visible' = Memory!Living(Snapshot(M, space', refs'), frames')
<1> DEFINE p == PointersIn(frames')
           live == ReachFrom(M, p, [a \in M |-> Range(refs'[a])])
           m == Snapshot(M, space', refs')
<1>1. /\ objects' \subseteq Addr /\ M \subseteq Addr /\ Addr \cap p \subseteq M
      /\ \A x \in M : Addr \cap Range(refs'[x]) \subseteq M
  BY DEF TypeOK, Roots, Kids
<1>2. Reachable' = live
  <2> HIDE DEF p
  <2>1. Reachable' = ReachFrom(objects', Addr \cap p, [a \in Addr |-> Addr \cap Range(refs'[a])])
    BY DEF Reachable, Roots, Kids, p
  <2> QED BY <1>1, <2>1, ReachWithin
<1>3. live \subseteq M
  BY ReachIsClosed
<1>4. DOMAIN m = M /\ \A a \in M : m[a] = [size |-> space'[a], refs |-> refs'[a]]
  BY DEF Snapshot
<1>5. Memory!Living(m, frames') = [a \in live |-> m[a]]
  <2> HIDE DEF m
  <2>1. [a \in DOMAIN m |-> Range(m[a].refs)] = [a \in M |-> Range(refs'[a])]
    BY <1>4
  <2>2. Memory!Living(m, frames')
          = [a \in ReachFrom(DOMAIN m, p, [a \in DOMAIN m |-> Range(m[a].refs)]) |-> m[a]]
    BY DEF Memory!Living, Memory!ReachFrom, Memory!ClosedSets, Memory!Range,
           ReachFrom, ClosedSets, Range, PointersIn
  <2> QED BY <1>4, <2>1, <2>2
<1>6. Visible' = [a \in live |-> [size |-> space'[a], refs |-> refs'[a]]]
  <2> HIDE DEF live
  <2> QED BY <1>2 DEF Visible
<1> HIDE DEF m, live
<1> QED BY <1>3, <1>4, <1>5, <1>6 DEF m

(***************************************************************************)
(* The steps of the compiler.  A step that leaves what is reached as it    *)
(* was, sizes and pointers included, changes nothing the compiler sees.    *)
(***************************************************************************)
LEMMA SeenSame ==
  ASSUME HunkInv, Reachable' = Reachable,
         \A a \in Reachable : space'[a] = space[a] /\ refs'[a] = refs[a]
  PROVE  Visible' = Visible
  BY DEF Visible

(* What the compiler can see, object by object. *)
LEMMA VisibleIs ==
  /\ Visible = Snapshot(Reachable, space, refs)
  /\ DOMAIN Visible = Reachable
  /\ \A a \in Reachable : Visible[a] = [size |-> space[a], refs |-> refs[a]]
  /\ Memory!Values = Values
  BY DEF Visible, Snapshot, Memory!Values, Values

(***************************************************************************)
(* The compiler stores a pointer that it could see into a frame.           *)
(***************************************************************************)
LEMMA FramesSeen ==
  ASSUME HunkInv, HunkInv', UNCHANGED heapVars,
         PointersIn(frames') \subseteq PointersIn(frames) \cup Values
  PROVE  Visible' = Memory!Living(Visible, frames')
<1>1. Roots' \subseteq Reachable
  BY ReachableFacts, ConstantFacts DEF HunkInv, Roots, Values
<1>2. /\ Kids' = Kids /\ objects' = objects /\ space' = space /\ refs' = refs
  BY DEF Kids, heapVars
<1>3. /\ Reachable \subseteq objects' /\ \A x \in Reachable : Kids'[x] \subseteq Reachable
  BY <1>2, ReachableFacts DEF HunkInv
<1>4. Visible' = Memory!Living(Snapshot(Reachable, space', refs'), frames')
  BY <1>1, <1>3, LivingSeen DEF HunkInv
<1> QED BY <1>2, <1>4, VisibleIs

(* PUSH is the Push of a store without end. *)
LEMMA PushSeen ==
  ASSUME HunkInv, NEW n \in FrameSizes, Push(n)
  PROVE  Memory!Push(n)
<1> DEFINE new == [i \in 1 .. n |-> Nil]
<1>1. new \in Seq(Pointer) /\ Range(new) \subseteq {Nil}
  BY FramesAssumption DEF Pointer, Range
<1> HIDE DEF new
<1>2. frames' = Append(frames, new) /\ frames \in Seq(Seq(Pointer))
  BY DEF Push, HunkInv, TypeOK, Pointer, new
<1>3. /\ DOMAIN frames' = 1 .. (Len(frames) + 1)
      /\ DOMAIN frames = 1 .. Len(frames) /\ Len(frames) \in Nat
      /\ \A k \in DOMAIN frames : frames'[k] = frames[k]
      /\ frames'[Len(frames) + 1] = new
  BY <1>1, <1>2
<1>4. \A k \in DOMAIN frames' : k \in DOMAIN frames \/ k = Len(frames) + 1
  BY <1>3
<1>5. \A k \in DOMAIN frames : k \in DOMAIN frames'
  BY <1>3
<1>6. \A x : x \in PointersIn(frames') => x \in PointersIn(frames) \/ x = Nil
  BY <1>1, <1>3, <1>4 DEF PointersIn
<1>7. \A x : x \in PointersIn(frames) => x \in PointersIn(frames')
  BY <1>3, <1>5 DEF PointersIn
<1>8. Roots' = Roots
  BY <1>6, <1>7, ConstantFacts DEF Roots
<1>9. UNCHANGED <<space, objects, refs>>
  BY DEF Push, heapVars
<1>10. Reachable' = Reachable
  BY <1>8, <1>9 DEF Reachable, Kids
<1>11. Visible' = Visible
  BY <1>9, <1>10, SeenSame
<1> QED BY <1>11 DEF Push, Memory!Push

(* An assignment to a slot is the Assign of a store without end. *)
LEMMA AssignSeen ==
  ASSUME HunkInv, NEW value \in Values, NEW j \in DOMAIN frames, NEW i \in DOMAIN frames[j],
         Assign(value, j, i)
  PROVE  Memory!Assign(value, j, i)
<1>1. frames \in Seq(Seq(Pointer)) /\ value \in Pointer
  BY ReachableFacts DEF HunkInv, TypeOK, Pointer, Values
<1>2. PointersIn(frames') \subseteq PointersIn(frames) \cup {value}
  BY <1>1, SlotFacts DEF Assign
<1>3. Visible' = Memory!Living(Visible, frames')
  BY <1>2, AssignStep, FramesSeen DEF Assign
<1> QED BY <1>3 DEF Assign, Memory!Assign

(* POP is the Pop of a store without end. *)
LEMMA PopSeen ==
  ASSUME HunkInv, NEW value \in Values, NEW j \in DOMAIN frames, NEW i \in DOMAIN frames[j],
         Pop(value, j, i)
  PROVE  Memory!Pop(value, j, i)
<1> DEFINE rest == Front(frames)
<1>1. frames \in Seq(Seq(Pointer)) /\ value \in Pointer /\ j < Len(frames) /\ Len(frames) > 1
  BY ReachableFacts DEF HunkInv, TypeOK, Pointer, Values, Pop
<1>2. /\ rest \in Seq(Seq(Pointer))
      /\ DOMAIN rest \subseteq DOMAIN frames
      /\ \A k \in DOMAIN rest : rest[k] = frames[k]
      /\ j \in DOMAIN rest /\ i \in DOMAIN rest[j]
  <2>1. j \in DOMAIN frames /\ i \in DOMAIN frames[j]
    OBVIOUS
  <2> QED BY <1>1, <2>1, FrontFacts
<1>3. Memory!Front(frames) = rest
  BY DEF Front, Memory!Front
<1>4. frames' = [rest EXCEPT ![j][i] = value]
  BY DEF Pop
<1> HIDE DEF rest
<1>5. PointersIn(rest) \subseteq PointersIn(frames)
  BY <1>2 DEF PointersIn
<1>6. PointersIn(frames') \subseteq PointersIn(rest) \cup {value}
  BY <1>1, <1>2, <1>4, SlotFacts
<1>7. Visible' = Memory!Living(Visible, frames')
  BY <1>5, <1>6, PopStep, FramesSeen DEF Pop
<1> QED BY <1>3, <1>4, <1>7 DEF Pop, Memory!Pop

(***************************************************************************)
(* An assignment to a slot of an object.                                   *)
(***************************************************************************)
LEMMA SetRefSeen ==
  ASSUME HunkInv, NEW a \in Reachable, NEW i \in DOMAIN refs[a], NEW value \in Values,
         SetRef(a, i, value)
  PROVE  Memory!SetRef(a, i, value)
<1>1. /\ a \in objects /\ a \in Addr /\ value \in Pointer /\ refs \in [Addr -> Seq(Pointer)]
      /\ Reachable \subseteq Addr
  BY ReachableFacts DEF HunkInv, TypeOK, Pointer, Values
<1>2. refs[a] \in Seq(Pointer)
  BY <1>1
<1> DEFINE new == [refs[a] EXCEPT ![i] = value]
<1>3. Range(new) \subseteq Range(refs[a]) \cup {value}
  BY <1>1, <1>2 DEF Range
<1>4. /\ refs' = [refs EXCEPT ![a] = new]
      /\ space' = space /\ objects' = objects /\ frames' = frames
  BY DEF SetRef
<1>5. [Visible EXCEPT ![a].refs[i] = value]
        = [Visible EXCEPT ![a] = [size |-> space[a], refs |-> new]]
  <2>1. \A s, r, u : [[size |-> s, refs |-> r] EXCEPT !.refs = u] = [size |-> s, refs |-> u]
    OBVIOUS
  <2>2. Visible[a] = [size |-> space[a], refs |-> refs[a]]
    BY VisibleIs
  <2>3. [Visible[a] EXCEPT !.refs = [Visible[a].refs EXCEPT ![i] = value]]
          = [size |-> space[a], refs |-> new]
    BY <2>1, <2>2
  <2> QED BY <2>3
<1> HIDE DEF new
<1>6. Snapshot(Reachable, space', refs') = [Visible EXCEPT ![a] = [size |-> space[a], refs |-> new]]
  BY <1>1, <1>4, VisibleIs DEF Snapshot
<1>7. ASSUME NEW x \in Reachable PROVE Kids'[x] \subseteq Reachable
  <2>1. x \in Addr /\ Kids[x] \subseteq Reachable
    BY ReachableFacts DEF HunkInv, TypeOK
  <2>2. CASE x # a
    BY <1>1, <1>4, <2>1, <2>2 DEF Kids
  <2>3. CASE x = a
    BY <1>1, <1>3, <1>4, <2>1, <2>3, ConstantFacts DEF Kids, Values
  <2> QED BY <2>2, <2>3
<1>8. Roots' \subseteq Reachable /\ Reachable \subseteq objects'
  BY <1>4, ReachableFacts DEF HunkInv, Roots
<1>9. Visible' = Memory!Living(Snapshot(Reachable, space', refs'), frames')
  BY <1>7, <1>8, SetRefStep, LivingSeen DEF HunkInv
<1>10. Visible' = Memory!Living([Visible EXCEPT ![a].refs[i] = value], frames)
  BY <1>4, <1>5, <1>6, <1>9
<1> QED BY <1>4, <1>10 DEF Memory!SetRef

(***************************************************************************)
(* DESTROY frees what the compiler could not see.                          *)
(***************************************************************************)
LEMMA DestroySeen ==
  ASSUME HunkInv, NEW a \in objects, Destroy(a)
  PROVE  Visible' = Visible
<1>1. /\ a \notin Reachable /\ objects' = objects \ {a}
      /\ refs' = [refs EXCEPT ![a] = <<>>] /\ space' = space /\ frames' = frames
      /\ refs \in [Addr -> Seq(Pointer)] /\ objects \subseteq Addr
  BY DEF Destroy, HunkInv, TypeOK, Pointer
<1>2. Reachable \subseteq objects /\ Roots \subseteq Reachable
  BY ReachableFacts DEF HunkInv
<1>3. \A x \in Addr \ {a} : Kids'[x] = Kids[x]
  BY <1>1 DEF Kids
<1>4. Roots' = Roots
  BY <1>1 DEF Roots
<1>5. Reachable' \subseteq Reachable
  <2>1. \A x \in Reachable : Kids'[x] \subseteq Reachable
    BY <1>1, <1>2, <1>3, ReachableFacts DEF HunkInv
  <2>2. Reachable \subseteq objects'
    BY <1>1, <1>2
  <2> QED BY <1>2, <1>4, <2>1, <2>2, StaysGood
<1>6. Reachable \subseteq Reachable'
  <2>1. /\ Reachable' \subseteq objects' /\ Roots' \cap objects' \subseteq Reachable'
        /\ \A x \in Reachable' : Kids'[x] \cap objects' \subseteq Reachable'
    <3>1. Reachable' = ReachFrom(objects', Roots', Kids')
      BY DEF Reachable
    <3> QED BY <3>1, ReachIsClosed
  <2>2. Reachable' \subseteq objects
    BY <1>1, <2>1
  <2>3. Roots \cap objects \subseteq Reachable'
    BY <1>1, <1>2, <1>4, <2>1
  <2>4. \A x \in Reachable' : Kids[x] \cap objects \subseteq Reachable'
    <3> SUFFICES ASSUME NEW x \in Reachable' PROVE Kids[x] \cap objects \subseteq Reachable'
      OBVIOUS
    <3>1. x \in Reachable /\ x \in Addr \ {a}
      BY <1>1, <1>2, <1>5
    <3>2. Kids[x] \subseteq Reachable
      BY <3>1, ReachableFacts DEF HunkInv
    <3>3. Kids[x] \cap objects \subseteq objects'
      BY <1>1, <3>2
    <3> QED BY <1>3, <2>1, <3>1, <3>3
  <2>5. Reachable = ReachFrom(objects, Roots, Kids)
    BY DEF Reachable
  <2> QED BY <2>2, <2>3, <2>4, <2>5, ReachIsLeast
<1>7. \A x \in Reachable : space'[x] = space[x] /\ refs'[x] = refs[x]
  BY <1>1, <1>2
<1>8. Reachable' = Reachable
  BY <1>5, <1>6
<1> QED BY <1>7, <1>8, SeenSame

(***************************************************************************)
(* The collectors, and the halt, cannot be seen.                           *)
(***************************************************************************)
LEMMA CollectorUnseen ==
  ASSUME HunkInv, ReclaimSized \/ ReclaimUnsized \/ Exhausted
  PROVE  Visible' = Visible /\ frames' = frames
<1>1. Reachable' = Reachable
  <2>1. CASE Exhausted
    BY <2>1, SameGraph DEF Exhausted, heapVars
  <2> QED BY <2>1, ReclaimSizedStep, ReclaimUnsizedStep
<1>2. Next /\ pc # "run" /\ frames' = frames
  BY DEF Next, MakeHunk, ReclaimSized, ReclaimUnsized, Exhausted
<1>3. \A a \in Reachable : space'[a] = space[a] /\ refs'[a] = refs[a]
  BY <1>2, KeepsReachableStep
<1> QED BY <1>1, <1>2, <1>3, SeenSame

(***************************************************************************)
(* MAKE HUNK hands out a free hunk, trimmed to the wanted size if larger;  *)
(* no other hunk in use changes its size.                                  *)
(***************************************************************************)
LEMMA HandedOut ==
  ASSUME HunkInv, TakeSized \/ TakeUnsized
  PROVE  \E a \in Free : /\ space[a] >= wanted.size /\ space'[a] = wanted.size
                         /\ \A x \in Starts : x # a => space'[x] = space[x]
                         /\ pc \in Active /\ Make(a)
<1> DEFINE n == wanted.size
<1>1. /\ pc \in Active /\ n \in Sizes /\ n \in Nat /\ n >= HunkSize
      /\ sized \in [Sizes -> Seq(Addr)]
      /\ SizedMembers \cup Range(unsized) = Free
  BY ConstantFacts DEF HunkInv, TypeOK, FreeListed, TakeSized, TakeUnsized, Active
<1>2. CASE TakeSized
  <2>1. PICK a : a = Head(sized[n])
    OBVIOUS
  <2>2. a \in Range(sized[n])
    BY <1>1, <1>2, <2>1, TailFacts DEF TakeSized, HasSized, HunkInv, FreeListed
  <2>3. a \in Free /\ space[a] = n
    BY <1>1, <2>2 DEF HunkInv, FreeListed, SizedMembers
  <2>4. Make(a) /\ space' = space
    BY <1>2, <2>1 DEF TakeSized
  <2> QED BY <1>1, <2>3, <2>4
<1>3. CASE TakeUnsized
  <2>1. PICK i \in DOMAIN unsized :
          LET b    == unsized[i]
              rest == b + wanted.size
          IN /\ Fits(b)
             /\ \/ space[b] = wanted.size /\ space' = space
                \/ /\ space[b] # wanted.size
                   /\ space' = [space EXCEPT ![b] = wanted.size, ![rest] = space[b] - wanted.size]
             /\ Make(b)
    BY <1>3 DEF TakeUnsized
  <2>2. PICK a, r : a = unsized[i] /\ r = a + n
    OBVIOUS
  <2>3. /\ Fits(a) /\ Make(a)
        /\ \/ space[a] = n /\ space' = space
           \/ space[a] # n /\ space' = [space EXCEPT ![a] = n, ![r] = space[a] - n]
    BY <2>1, <2>2
  <2>4. a \in Free /\ a \in Starts
    BY <1>1, <2>2 DEF Range, Free
  <2> HIDE DEF n
  <2>5. CASE space[a] = n /\ space' = space
    BY <1>1, <2>3, <2>4, <2>5 DEF n
  <2>6. CASE space[a] # n /\ space' = [space EXCEPT ![a] = n, ![r] = space[a] - n]
    <3>1. space[a] >= n + HunkSize
      BY <2>3, <2>6 DEF Fits, n
    <3>2. TypeOK /\ Tiled
      BY DEF HunkInv
    <3>3. /\ space'[a] = n
          /\ \A x \in Starts : x # a => space'[x] = space[x]
      BY <1>1, <2>2, <2>4, <2>6, <3>1, <3>2, SplitTiles
    <3>4. space[a] \in Nat /\ HunkSize \in Nat
      BY <2>4, <3>2, ConstantFacts DEF TypeOK, Starts
    <3>5. space[a] >= n
      BY <1>1, <3>1, <3>4
    <3> QED BY <1>1, <2>3, <2>4, <3>3, <3>5 DEF n
  <2> QED BY <2>3, <2>5, <2>6
<1> QED BY <1>2, <1>3

(***************************************************************************)
(* The bytes handed out belong to no object that the compiler can see, and *)
(* lie in one heap.                                                        *)
(***************************************************************************)
LEMMA HandedVacant ==
  ASSUME HunkInv, NEW a \in Free, NEW n \in Nat, space[a] >= n
  PROVE  Memory!Vacant(a, n)
<1>1. /\ \A x \in Starts : /\ x \in Nat /\ space[x] \in Nat
                           /\ \E h \in Heaps : h <= x /\ x + space[x] <= h + HeapSpace
      /\ \A x, y \in Starts : x < y => x + space[x] <= y
      /\ a \in Starts /\ HeapSpace \in Nat /\ \A h \in Heaps : h \in Nat
  BY BoundsFacts, ConstantFacts DEF HunkInv, Tiled, Free
<1>2. Memory!Addr = Addr
  BY DEF Memory!Addr, Addr
<1>3. ASSUME NEW x \in a .. (a + n - 1) PROVE x \in Memory!Addr
  <2>1. PICK h \in Heaps : h <= a /\ a + space[a] <= h + HeapSpace
    BY <1>1
  <2>2. x \in h .. (h + HeapSpace - 1)
    BY <1>1, <2>1
  <2> QED BY <1>2, <2>2, AddrFacts
<1>4. ASSUME NEW b \in Reachable
      PROVE  (a .. (a + n - 1)) \cap (b .. (b + space[b] - 1)) = {}
  <2>1. b \in Starts /\ b # a
    BY ReachableFacts DEF HunkInv, FreeListed, Free
  <2>2. \A x : ~(x \in a .. (a + n - 1) /\ x \in b .. (b + space[b] - 1))
    <3>1. a + space[a] <= b \/ b + space[b] <= a
      BY <1>1, <2>1
    <3> QED BY <1>1, <2>1, <3>1
  <2> QED BY <2>2
<1>5. DOMAIN Visible = Reachable /\ \A b \in Reachable : Visible[b].size = space[b]
  BY VisibleIs
<1> QED BY <1>3, <1>4, <1>5 DEF Memory!Vacant, Memory!Extent

(***************************************************************************)
(* A maker of MAKE.C returns its object.                                   *)
(***************************************************************************)
LEMMA MakeSeen ==
  ASSUME SeenInv, TakeSized \/ TakeUnsized
  PROVE  Memory!Next
<1>1. HunkInv /\ HunkInv' /\ KindWanted
  BY TakeSizedStep, TakeUnsizedStep DEF SeenInv
<1>2. PICK a \in Free : /\ space[a] >= wanted.size /\ space'[a] = wanted.size
                        /\ \A x \in Starts : x # a => space'[x] = space[x]
                        /\ pc \in Active /\ Make(a)
  BY <1>1, HandedOut
<1>3. PICK k \in Kinds : wanted.size = k.size /\ DOMAIN wanted.refs = 1 .. k.degree
  BY <1>1, <1>2 DEF KindWanted, Active
<1> DEFINE args == wanted.refs
           j    == wanted.frame
           i    == wanted.slot
<1>4. /\ args \in Seq(Pointer) /\ j \in DOMAIN frames /\ i \in DOMAIN frames[j]
      /\ frames \in Seq(Seq(Pointer)) /\ a \in Pointer /\ a \in Addr /\ a \notin objects
      /\ refs \in [Addr -> Seq(Pointer)] /\ objects \subseteq Starts /\ objects \subseteq Addr
      /\ k.size \in Nat
  BY <1>1, <1>2, <1>3, KindsAssumption DEF HunkInv, TypeOK, FreeListed, Active, Pointer, Free, Starts
<1>5. /\ frames' = [frames EXCEPT ![j][i] = a]
      /\ objects' = objects \cup {a}
      /\ refs' = [refs EXCEPT ![a] = args]
  BY <1>2, <1>3 DEF Make
<1>6. /\ Reachable \subseteq objects /\ Roots \subseteq Reachable
      /\ \A x \in Reachable : Kids[x] \subseteq Reachable
      /\ \A x \in DOMAIN args : args[x] \in Reachable \cup {Nil}
  BY <1>1, <1>3, ReachableFacts DEF HunkInv, NoDangling
<1>7. args \in [1 .. k.degree -> Memory!Values]
  <2>1. args = [x \in DOMAIN args |-> args[x]]
    BY <1>4
  <2>2. Memory!Values = Reachable \cup {Nil}
    BY VisibleIs DEF Values
  <2> QED BY <1>3, <1>6, <2>1, <2>2
<1> DEFINE S == Reachable \cup {a}
<1>8. Roots' \subseteq S
  <2>1. PointersIn(frames') \subseteq PointersIn(frames) \cup {a}
    BY <1>4, <1>5, SlotFacts
  <2> QED BY <1>6, <2>1 DEF Roots
<1>9. ASSUME NEW x \in S PROVE Kids'[x] \subseteq S
  <2>1. CASE x = a
    <3>1. Range(refs'[a]) \subseteq Reachable \cup {Nil}
      BY <1>4, <1>5, <1>6 DEF Range
    <3> QED BY <1>4, <2>1, <3>1, ConstantFacts DEF Kids
  <2>2. CASE x # a
    <3>1. x \in Reachable /\ x \in Addr
      BY <1>4, <1>6, <2>2
    <3> QED BY <1>4, <1>5, <1>6, <2>2, <3>1 DEF Kids
  <2> QED BY <2>1, <2>2
<1>10. Visible' = Memory!Living(Snapshot(S, space', refs'), frames')
  <2>1. S \subseteq objects' /\ TypeOK'
    BY <1>1, <1>5, <1>6 DEF HunkInv
  <2> HIDE DEF S
  <2> QED BY <1>8, <1>9, <2>1, LivingSeen
<1>11. Snapshot(S, space', refs')
         = [x \in DOMAIN Visible \cup {a} |->
              IF x = a THEN [size |-> k.size, refs |-> args] ELSE Visible[x]]
  <2>1. space'[a] = k.size /\ refs'[a] = args
    BY <1>2, <1>3, <1>4, <1>5
  <2>2. \A x \in Reachable : x # a /\ space'[x] = space[x] /\ refs'[x] = refs[x]
    BY <1>2, <1>4, <1>5, <1>6
  <2>3. DOMAIN Visible = Reachable
        /\ \A x \in Reachable : Visible[x] = [size |-> space[x], refs |-> refs[x]]
    BY VisibleIs
  <2> QED BY <2>1, <2>2, <2>3 DEF Snapshot
<1>12. Memory!Vacant(a, k.size)
  BY <1>1, <1>2, <1>3, <1>4, HandedVacant
<1>13. Memory!Make(k, args, j, i, a)
  BY <1>5, <1>10, <1>11, <1>12 DEF Memory!Make
<1>14. a \in Memory!Addr
  BY <1>4 DEF Memory!Addr, Addr
<1> QED BY <1>4, <1>7, <1>13, <1>14 DEF Memory!Next

(* Every step of the heap is a step of a store without end, or nothing in *)
(* it.                                                                    *)
LEMMA StepSeen ==
  ASSUME SeenInv, [Next]_vars
  PROVE  [Memory!Next]_(Memory!vars)
<1>1. HunkInv
  BY DEF SeenInv
<1>2. DOMAIN Visible = Reachable /\ Memory!Values = Values
      /\ \A a \in Reachable : DOMAIN Visible[a].refs = DOMAIN refs[a]
  BY VisibleIs
<1>3. ASSUME NEW n \in FrameSizes, Push(n) PROVE Memory!Next
  BY <1>1, <1>3, PushSeen DEF Memory!Next
<1>4. ASSUME NEW value \in Values, NEW j \in DOMAIN frames, NEW i \in DOMAIN frames[j],
             Pop(value, j, i) \/ Assign(value, j, i)
      PROVE  Memory!Next
  BY <1>1, <1>2, <1>4, PopSeen, AssignSeen DEF Memory!Next
<1>5. ASSUME NEW value \in Values, NEW a \in Reachable, NEW i \in DOMAIN refs[a],
             SetRef(a, i, value)
      PROVE  Memory!Next
  <2>1. Memory!SetRef(a, i, value)
    BY <1>1, <1>5, SetRefSeen
  <2>2. a \in DOMAIN Visible /\ i \in DOMAIN Visible[a].refs /\ value \in Memory!Values
    BY <1>2
  <2> QED BY <2>1, <2>2 DEF Memory!Next
<1>6. ASSUME NEW k, NEW args, NEW j, NEW i, Request(k, args, j, i)
      PROVE  UNCHANGED <<Visible, frames>>
  <2>1. UNCHANGED <<space, objects, refs, frames>>
    BY <1>6 DEF Request, heapVars
  <2> QED BY <1>1, <2>1, SameGraph, SeenSame
<1>7. ASSUME NEW a \in objects, Destroy(a) PROVE UNCHANGED <<Visible, frames>>
  BY <1>1, <1>7, DestroySeen DEF Destroy
<1>8. CASE Compiler
  BY <1>3, <1>4, <1>5, <1>6, <1>7, <1>8 DEF Compiler, Memory!vars
<1>9. CASE MakeHunk
  BY <1>1, <1>9, MakeSeen, CollectorUnseen DEF MakeHunk, Memory!vars
<1>10. CASE UNCHANGED vars
  <2>1. UNCHANGED <<space, objects, refs, frames>>
    BY <1>10 DEF vars
  <2>2. UNCHANGED <<Visible, frames>>
    BY <1>1, <2>1, SameGraph, SeenSame
  <2> QED BY <2>2 DEF Memory!vars
<1> QED BY <1>8, <1>9, <1>10 DEF Next

(***************************************************************************)
(* HUNK.C implements the memory of module Store: whatever the collectors   *)
(* do, the compiler sees objects that live exactly as long as it can reach *)
(* them, that only it changes, and that never share a byte.                *)
(***************************************************************************)
THEOREM HunkIsStore == Spec => ImplementsStore
<1>1. Init => SeenInv /\ Memory!Init
  <2> SUFFICES ASSUME Init PROVE SeenInv /\ Memory!Init
    OBVIOUS
  <2>1. SeenInv
    BY InitHolds DEF Init, SeenInv, KindWanted
  <2>2. Reachable = {}
    BY ReachIsClosed DEF Reachable, Init
  <2>3. Visible = << >>
    BY <2>2 DEF Visible
  <2> QED BY <2>1, <2>3 DEF Init, Memory!Init
<1>2. SeenInv /\ [Next]_vars => SeenInv'
  BY SeenInvStep
<1>3. SeenInv /\ [Next]_vars => [Memory!Next]_(Memory!vars)
  BY StepSeen
<1> QED BY <1>1, <1>2, <1>3, PTL DEF Spec, ImplementsStore, Memory!Spec
=============================================================================
