-------------------------------- MODULE Layer --------------------------------
(***************************************************************************)
(* LAYER.C: lists of binder trees.  A layer holds the root of an AVL tree  *)
(* of binders (its CAR) and the layer that it extends (its CDR).           *)
(*                                                                         *)
(* Keys are ordered by their addresses, which the collector never changes. *)
(* A binder is named by its key: SET KEY makes one only when the search    *)
(* for the key found none.  One call of SET KEY is a sequence              *)
(* of steps (pc): the recursion of SETTING KEY goes down the tree without  *)
(* touching it, makes a binder (a maker, so the collector may run), and    *)
(* rebalances on its way up.                                               *)
(***************************************************************************)
EXTENDS Integers, Sequences, FiniteSets, SequencesExt, Functions, Reach

CONSTANTS
  Layer,  (* layers, in use or not                                          *)
  Key,    (* the objects that may be bound: their addresses                 *)
  Value,  (* what a key may be bound to: the slots INFO and VALUE           *)
  Count,  (* character counts of arguments                                  *)
  Nil

ASSUME KeyAssumption ==
  /\ Key \subseteq Int
  /\ IsFiniteSet(Key)
  /\ Nil \notin Key \cup Layer \cup Count

VARIABLES
  car,     (* car[l]: the root of the binder tree of l                      *)
  cdr,     (* cdr[l]: the layer that l extends; DOMAIN cdr are those in use *)
  node,    (* node[l][k]: the slots of the binder of key k in l             *)
  pc,      (* where the one call of SET KEY is, or "rest" outside it        *)
  call,    (* its arguments                                                 *)
  path,    (* the binders that wait for SETTING KEY to return               *)
  P0,      (* the subtree that SETTING KEY visits, or returns               *)
  higher   (* is that subtree deeper now than it was?                       *)

layerVars == <<car, cdr, node>>
callVars  == <<call, path, P0, higher>>
vars      == <<layerVars, pc, callVars>>

Side == {"left", "right"}

Opposite(side) == CHOOSE s \in Side : s # side

-----------------------------------------------------------------------------
(***************************************************************************)
(* The searches.  All of GET KEY, GOT KEY, GET COUNT, IS IN LAYER and SET  *)
(* COUNTS go down a tree in this way, and those that search more than one  *)
(* tree go from layer to layer in this way.                                *)
(***************************************************************************)

Toward(key, k) == IF key < k THEN "left" ELSE "right"

(* Where n steps of the search for key lead in the tree of layer l. *)
Descent(l, key) ==
  LET at[n \in Nat] ==
        IF n = 0 THEN car[l]
        ELSE LET k == at[n - 1]
             IN IF k \in {Nil, key} THEN k ELSE node[l][k][Toward(key, k)]
  IN at

Found(l, key) == Descent(l, key)[Cardinality(Key)]

IsInLayer(l, key) == Found(l, key) # Nil

OwnBinding(l, key) == IF IsInLayer(l, key) THEN l ELSE Nil

(* The layer where the search for key that starts in l ends, or Nil. *)
Binding(l, key) ==
  LET at[n \in Nat] ==
        IF n = 0 THEN l
        ELSE IF at[n - 1] = Nil \/ IsInLayer(at[n - 1], key) THEN at[n - 1]
        ELSE cdr[at[n - 1]]
  IN at[Cardinality(DOMAIN cdr)]

-----------------------------------------------------------------------------
NoCall == [layer |-> Nil, key |-> Nil, value |-> Nil]

(* INIT LAYER. *)
Init ==
  /\ \E l \in Layer : cdr = [x \in {l} |-> Nil]
  /\ car = [l \in DOMAIN cdr |-> Nil]
  /\ node = [l \in DOMAIN cdr |-> << >>]
  /\ pc = "rest"
  /\ call = NoCall
  /\ path = << >>
  /\ P0 = Nil
  /\ higher = FALSE

PushLayer(l, next) ==
  /\ pc = "rest"
  /\ l \notin DOMAIN cdr
  /\ LET used == DOMAIN cdr \cup {l}
     IN /\ car'  = [x \in used |-> IF x = l THEN Nil ELSE car[x]]
        /\ cdr'  = [x \in used |-> IF x = l THEN next ELSE cdr[x]]
        /\ node' = [x \in used |-> IF x = l THEN << >> ELSE node[x]]
  /\ UNCHANGED <<pc, callVars>>

(***************************************************************************)
(* DESTROY LAYER.  Its callers know that nothing refers to the layer.      *)
(***************************************************************************)
DestroyLayer(l) ==
  /\ pc = "rest"
  /\ l \notin Range(cdr)
  /\ Cardinality(DOMAIN cdr) > 1
  /\ LET used == DOMAIN cdr \ {l}
     IN /\ car'  = Restrict(car, used)
        /\ cdr'  = Restrict(cdr, used)
        /\ node' = Restrict(node, used)
  /\ UNCHANGED <<pc, callVars>>

(***************************************************************************)
(* SET COUNTS.  Its callers have bound the names of all the parameters.    *)
(***************************************************************************)
SetCounts(l, counts) ==
  /\ pc = "rest"
  /\ \A key \in DOMAIN counts : IsInLayer(l, key)
  /\ node' = [node EXCEPT ![l] =
       [k \in DOMAIN @ |->
          IF \E key \in DOMAIN counts : Found(l, key) = k
          THEN [@[k] EXCEPT !.count = counts[k]]
          ELSE @[k]]]
  /\ UNCHANGED <<car, cdr, pc, callVars>>

-----------------------------------------------------------------------------
(***************************************************************************)
(* SET KEY.                                                                *)
(***************************************************************************)
SetKey(l, key, value) ==
  /\ pc = "rest"
  /\ pc' = "down"
  /\ call' = [layer |-> l, key |-> key, value |-> value]
  /\ P0' = car[l]
  /\ UNCHANGED <<layerVars, path, higher>>

(* SETTING KEY calls itself on the left or the right subtree. *)
Down ==
  /\ pc = "down"
  /\ P0 \notin {Nil, call.key}
  /\ path' = Append(path, P0)
  /\ P0' = node[call.layer][P0][Toward(call.key, P0)]
  /\ UNCHANGED <<layerVars, pc, call, higher>>

UntaggedBinder == [left |-> Nil, right |-> Nil, tag |-> Nil,
                   value |-> call.value, count |-> Nil]

(* No binder has the key: MAKE BINDER makes one. *)
NewBinder == [left |-> Nil, right |-> Nil, tag |-> "even",
              value |-> call.value, count |-> Nil]

Add ==
  /\ pc = "down"
  /\ P0 = Nil
  /\ node' = [node EXCEPT ![call.layer] =
       [k \in DOMAIN @ \cup {call.key} |-> IF k = call.key THEN NewBinder ELSE @[k]]]
  /\ P0' = call.key
  /\ higher' = TRUE
  /\ pc' = "up"
  /\ UNCHANGED <<car, cdr, call, path>>

RebindAnew ==
  /\ pc = "down"
  /\ P0 = call.key
  /\ node' = [node EXCEPT ![call.layer][P0] = NewBinder]
  /\ higher' = FALSE
  /\ pc' = "up"
  /\ UNCHANGED <<car, cdr, call, path, P0>>

Rebind ==
  /\ pc = "down"
  /\ P0 = call.key
  /\ node' = [node EXCEPT ![call.layer][P0].value = call.value]
  /\ higher' = FALSE
  /\ pc' = "up"
  /\ UNCHANGED <<car, cdr, call, path, P0>>

(***************************************************************************)
(* Rotations of the tree t at P, whose subtree on this side became too     *)
(* deep.  The code has one copy for each side; one is the mirror image of  *)
(* the other.                                                              *)
(***************************************************************************)
SingleLost(t, P, side) ==
  LET P1 == t[P][side]
      other == Opposite(side)
  IN [t EXCEPT ![P][side] = Nil, ![P].tag = "even",
               ![P1][other] = P, ![P1].tag = "even"]

Single(t, P, side) ==
  LET P1 == t[P][side]
      other == Opposite(side)
  IN [t EXCEPT ![P][side] = t[P1][other], ![P].tag = "even",
               ![P1][other] = P,          ![P1].tag = "even"]

CrossedDouble(t, P, side) ==
  LET P1 == t[P][side]
      other == Opposite(side)
      P2 == t[P1][other]
  IN [t EXCEPT ![P1][other] = t[P2][other], ![P2][side] = P1,
               ![P][side] = t[P2][side],    ![P2][other] = P,
               ![P].tag  = IF t[P2].tag = side  THEN other ELSE "even",
               ![P1].tag = IF t[P2].tag = other THEN side  ELSE "even",
               ![P2].tag = "even"]

UntaggedDouble(t, P, side) ==
  LET P1 == t[P][side]
      other == Opposite(side)
      P2 == t[P1][other]
  IN [t EXCEPT ![P1][other] = t[P2][side], ![P2][side] = P1,
               ![P][side] = t[P2][other],  ![P2][other] = P,
               ![P].tag = "even", ![P1].tag = "even", ![P2].tag = "even"]

Double(t, P, side) ==
  LET P1 == t[P][side]
      other == Opposite(side)
      P2 == t[P1][other]
  IN [t EXCEPT ![P1][other] = t[P2][side], ![P2][side] = P1,
               ![P][side] = t[P2][other],  ![P2][other] = P,
               ![P].tag  = IF t[P2].tag = side  THEN other ELSE "even",
               ![P1].tag = IF t[P2].tag = other THEN side  ELSE "even",
               ![P2].tag = "even"]

(***************************************************************************)
(* SETTING KEY returns to P: the subtree P0 is stored into it and, if that *)
(* subtree became deeper, P is rebalanced.                                 *)
(***************************************************************************)
Return(l, P, side) ==
  LET t == [node[l] EXCEPT ![P][side] = P0]
      P1 == P0
  IN \/ /\ ~higher
        /\ node' = [node EXCEPT ![l] = t]
        /\ P0' = P
        /\ higher' = FALSE
     \/ /\ higher
        /\ t[P].tag = Opposite(side)
        /\ node' = [node EXCEPT ![l] = [t EXCEPT ![P].tag = "even"]]
        /\ P0' = P
        /\ higher' = FALSE
     \/ /\ higher
        /\ t[P].tag = "even"
        /\ node' = [node EXCEPT ![l] = [t EXCEPT ![P].tag = side]]
        /\ P0' = P
        /\ higher' = TRUE
     \/ /\ higher
        /\ t[P].tag = side
        /\ \/ /\ t[P1].tag = side
              /\ node' = [node EXCEPT ![l] = Single(t, P, side)]
              /\ P0' = P1
           \/ /\ t[P1].tag # side
              /\ node' = [node EXCEPT ![l] = Double(t, P, side)]
              /\ P0' = t[P1][Opposite(side)]
        /\ higher' = FALSE

Up ==
  /\ pc = "up"
  /\ path # << >>
  /\ Return(call.layer, Last(path), Toward(call.key, Last(path)))
  /\ path' = Front(path)
  /\ UNCHANGED <<car, cdr, pc, call>>

(* The body of SET KEY stores the tree into the layer. *)
Finish ==
  /\ pc = "up"
  /\ path = << >>
  /\ car' = [car EXCEPT ![call.layer] = P0]
  /\ pc' = "rest"
  /\ call' = NoCall
  /\ P0' = Nil
  /\ higher' = FALSE
  /\ UNCHANGED <<cdr, node, path>>

-----------------------------------------------------------------------------
SettingKey == Down \/ Add \/ Rebind \/ Up \/ Finish

Next ==
  \/ \E l \in Layer : \E next \in DOMAIN cdr \cup {Nil} : PushLayer(l, next)
  \/ \E l \in DOMAIN cdr :
       \/ DestroyLayer(l)
       \/ \E key \in Key, value \in Value : SetKey(l, key, value)
       \/ \E keys \in SUBSET DOMAIN node[l] : \E counts \in [keys -> Count] :
            SetCounts(l, counts)
  \/ SettingKey

(* SET KEY runs to its end: no other code can stop it. *)
Spec == Init /\ [][Next]_vars /\ WF_vars(SettingKey)

-----------------------------------------------------------------------------
(***************************************************************************)
(* Invariants.                                                             *)
(***************************************************************************)

(* The keys of the subtree of layer l whose root is k. *)
Subtree(l, k) ==
  ReachFrom(DOMAIN node[l], {k}, [x \in DOMAIN node[l] |-> {node[l][x].left, node[l][x].right}])

(***************************************************************************)
(* Every binder of a layer is in its tree, or while SET KEY is at work, in *)
(* the subtree P0 or on the path to it with all that hangs on the other    *)
(* side.  A rotation that loses a subtree unbinds its keys.                *)
(***************************************************************************)
Held(l) ==
  IF pc = "up" /\ l = call.layer
  THEN Subtree(l, P0) \cup Range(path) \cup
       UNION { Subtree(l, node[l][k][Opposite(Toward(call.key, k))]) : k \in Range(path) }
  ELSE Subtree(l, car[l])

NothingLost == \A l \in DOMAIN cdr : Held(l) = DOMAIN node[l]

(***************************************************************************)
(* Whenever a tree may be searched, keys on the left of a binder are less  *)
(* than its key, and those on its right greater.                           *)
(***************************************************************************)
Quiet(l) == pc = "rest" \/ l # call.layer

Ordered ==
  \A l \in DOMAIN cdr : Quiet(l) =>
    \A k \in DOMAIN node[l] :
      /\ \A x \in Subtree(l, node[l][k].left)  : x < k
      /\ \A x \in Subtree(l, node[l][k].right) : x > k

(***************************************************************************)
(* Whenever a tree may be searched, it is balanced: the two sides of any   *)
(* binder differ in depth by one at most, and its tag tells which is the   *)
(* deeper.  So searches are short, and the recursion of SETTING KEY fits   *)
(* any stack.                                                              *)
(***************************************************************************)
Depth(l) ==
  LET level[n \in Nat] ==
        IF n = 0 THEN [k \in DOMAIN node[l] \cup {Nil} |-> 0]
        ELSE [k \in DOMAIN node[l] \cup {Nil} |->
                IF k = Nil THEN 0
                ELSE LET left  == level[n - 1][node[l][k].left]
                         right == level[n - 1][node[l][k].right]
                     IN 1 + (IF left > right THEN left ELSE right)]
  IN level[Cardinality(DOMAIN node[l])]

Leaning(tag) == CASE tag = "left" -> -1 [] tag = "even" -> 0 [] tag = "right" -> 1

Balanced ==
  \A l \in DOMAIN cdr : Quiet(l) =>
    LET depth == Depth(l)
    IN \A k \in DOMAIN node[l] :
         depth[node[l][k].right] - depth[node[l][k].left] = Leaning(node[l][k].tag)

(***************************************************************************)
(* A search finds a key just where it is bound: in the nearest layer whose *)
(* tree holds it, or nowhere.                                              *)
(***************************************************************************)
Enclosing(l) == ReachFrom(DOMAIN cdr, {l}, [x \in DOMAIN cdr |-> {cdr[x]}])

Meaning ==
  pc = "rest" =>
    \A l \in DOMAIN cdr : \A key \in Key :
      LET b == Binding(l, key)
          binders == { x \in Enclosing(l) : key \in Subtree(x, car[x]) }
      IN IF binders = {} THEN b = Nil
         ELSE b \in binders /\ binders \subseteq Enclosing(b)

-----------------------------------------------------------------------------
(***************************************************************************)
(* Action and liveness properties.                                         *)
(***************************************************************************)

(* SET KEY returns. *)
SetKeyEnds == (pc # "rest") ~> (pc = "rest")

(***************************************************************************)
(* Layer implements the scopes of module Scope.  A layer binds the keys    *)
(* that a search of its tree finds, and while SET KEY rebalances the tree, *)
(* those of its binders: the rotations cannot be seen.                     *)
(***************************************************************************)
Keys(l) == IF pc = "up" /\ l = call.layer THEN DOMAIN node[l]
           ELSE { key \in DOMAIN node[l] : IsInLayer(l, key) }

Bound ==
  [l \in DOMAIN cdr |->
     [k \in Keys(l) |-> [value |-> node[l][k].value, count |-> node[l][k].count]]]

Scopes == INSTANCE Scope WITH bound <- Bound

ImplementsScopes == Scopes!Spec

=============================================================================
