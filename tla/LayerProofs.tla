---------------------------- MODULE LayerProofs ----------------------------
(***************************************************************************)
(* Theorems about module Layer.  First what rotations, searches and paths  *)
(* do in any tree; then the inductive invariant LayerInv, action by        *)
(* action; then the safety properties of the run, and that layers are      *)
(* scopes.                                                                 *)
(*                                                                         *)
(* A tree is described by two functions: S[k] are the keys at and below k, *)
(* and H[k] is how deep that subtree is.  They are quantified, never       *)
(* computed, so no proof needs a recursive definition; that they agree     *)
(* with what the run computes is proved where the properties are.          *)
(***************************************************************************)
EXTENDS Layer, Lemmas

Tag == {"left", "even", "right"}

(* Each of the two sides is the opposite of the other. *)
LEMMA Sides ==
  /\ Opposite("left") = "right" /\ Opposite("right") = "left"
  /\ \A s \in Side : Opposite(s) \in Side /\ Opposite(s) # s /\ Opposite(Opposite(s)) = s
  BY DEF Opposite, Side

(* A binder *)
Binder == [left : Key \cup {Nil}, right : Key \cup {Nil}, tag : Tag,
           value : Value, count : Count \cup {Nil}]

IsTree(t) == DOMAIN t \subseteq Key /\ t \in [DOMAIN t -> Binder]

(* Storing a binder into a slot of another. *)
SideIs(t, u, P, s, o, x) ==
  /\ IsTree(u) /\ DOMAIN u = DOMAIN t
  /\ u[P][s] = x /\ u[P][o] = t[P][o]
  /\ u[P].tag = t[P].tag /\ u[P].value = t[P].value /\ u[P].count = t[P].count
  /\ \A k \in DOMAIN t \ {P} : u[k] = t[k]

(* What storing a pointer into a binder changes: that pointer. *)
LEMMA SideSet ==
  ASSUME NEW t, IsTree(t), NEW P \in DOMAIN t, NEW s \in Side, NEW x \in Key \cup {Nil},
         NEW u, u = [t EXCEPT ![P][s] = x]
  PROVE  SideIs(t, u, P, s, Opposite(s), x)
  <1>1. CASE s = "left"
    BY <1>1, Sides DEF IsTree, Binder, SideIs
  <1>2. CASE s = "right"
    BY <1>2, Sides DEF IsTree, Binder, SideIs
  <1> QED BY <1>1, <1>2 DEF Side

(* Storing a tag into a binder. *)
TagIs(t, u, P, x) ==
  /\ IsTree(u) /\ DOMAIN u = DOMAIN t
  /\ \A s \in Side : u[P][s] = t[P][s]
  /\ u[P].tag = x /\ u[P].value = t[P].value /\ u[P].count = t[P].count
  /\ \A k \in DOMAIN t \ {P} : u[k] = t[k]

(* What storing a tag into a binder changes: that tag. *)
LEMMA TagSet ==
  ASSUME NEW t, IsTree(t), NEW P \in DOMAIN t, NEW x \in Tag, NEW u, u = [t EXCEPT ![P].tag = x]
  PROVE  TagIs(t, u, P, x)
  BY DEF IsTree, Binder, Side, TagIs

(* What a single rotation leaves in the two binders that it turns. *)
LEMMA SingleFacts ==
  ASSUME NEW t, IsTree(t), NEW P \in DOMAIN t, NEW s \in Side, NEW o, o = Opposite(s),
         NEW P1 \in DOMAIN t, P1 = t[P][s], P1 # P, NEW u, u = Single(t, P, s)
  PROVE  /\ IsTree(u) /\ DOMAIN u = DOMAIN t
         /\ u[P][s] = t[P1][o] /\ u[P][o] = t[P][o] /\ u[P].tag = "even"
         /\ u[P1][s] = t[P1][s] /\ u[P1][o] = P /\ u[P1].tag = "even"
         /\ \A k \in DOMAIN t : u[k].value = t[k].value /\ u[k].count = t[k].count
         /\ \A k \in DOMAIN t \ {P, P1} : u[k] = t[k]
  <1>0. PICK x : x = t[P1][o]
    OBVIOUS
  <1>1. /\ o \in Side /\ o # s /\ P \in Key \cup {Nil} /\ P1 \in Key \cup {Nil}
        /\ Opposite(o) = s /\ "even" \in Tag /\ x \in Key \cup {Nil}
    BY <1>0, Sides DEF IsTree, Tag, Binder, Side
  <1>2. PICK t1 : t1 = [t EXCEPT ![P][s] = x]
    OBVIOUS
  <1>3. PICK t2 : t2 = [t1 EXCEPT ![P].tag = "even"]
    OBVIOUS
  <1>4. PICK t3 : t3 = [t2 EXCEPT ![P1][o] = P]
    OBVIOUS
  <1>6. u = [t3 EXCEPT ![P1].tag = "even"]
    BY <1>0, <1>2, <1>3, <1>4 DEF Single
  <1>7. SideIs(t, t1, P, s, o, x)
    BY <1>0, <1>1, <1>2, SideSet
  <1>8. TagIs(t1, t2, P, "even")
    BY <1>1, <1>3, <1>7, TagSet DEF SideIs
  <1>9. SideIs(t2, t3, P1, o, s, P)
    <2>1. IsTree(t2) /\ P1 \in DOMAIN t2
      BY <1>7, <1>8 DEF SideIs, TagIs
    <2> QED
      BY ONLY <1>1, <1>4, <2>1, SideSet
  <1>10. TagIs(t3, u, P1, "even")
    <2>1. IsTree(t3) /\ P1 \in DOMAIN t3
      BY <1>7, <1>8, <1>9 DEF SideIs, TagIs
    <2> QED
      BY ONLY <1>1, <1>6, <2>1, TagSet
  <1> QED
    BY ONLY <1>0, <1>1, <1>7, <1>8, <1>9, <1>10, P \in DOMAIN t, P1 \in DOMAIN t, P1 # P,
            s \in Side, SMTT(60) DEF SideIs, TagIs

(* What a double rotation leaves in the three binders that it turns. *)
LEMMA DoubleFacts ==
  ASSUME NEW t, IsTree(t), NEW P \in DOMAIN t, NEW s \in Side, NEW o, o = Opposite(s),
         NEW P1 \in DOMAIN t, P1 = t[P][s], P1 # P,
         NEW P2 \in DOMAIN t, P2 = t[P1][o], P2 \notin {P, P1},
         NEW u, u = Double(t, P, s)
  PROVE  /\ IsTree(u) /\ DOMAIN u = DOMAIN t
         /\ u[P][s] = t[P2][o] /\ u[P][o] = t[P][o]
         /\ u[P].tag = IF t[P2].tag = s THEN o ELSE "even"
         /\ u[P1][s] = t[P1][s] /\ u[P1][o] = t[P2][s]
         /\ u[P1].tag = IF t[P2].tag = o THEN s ELSE "even"
         /\ u[P2][s] = P1 /\ u[P2][o] = P /\ u[P2].tag = "even"
         /\ \A k \in DOMAIN t : u[k].value = t[k].value /\ u[k].count = t[k].count
         /\ \A k \in DOMAIN t \ {P, P1, P2} : u[k] = t[k]
  <1>0. PICK x, y, a, b : /\ x = t[P2][s] /\ y = t[P2][o]
                          /\ a = (IF t[P2].tag = s THEN o ELSE "even")
                          /\ b = (IF t[P2].tag = o THEN s ELSE "even")
    OBVIOUS
  <1>1. /\ o \in Side /\ o # s /\ P \in Key \cup {Nil} /\ P1 \in Key \cup {Nil}
        /\ Opposite(o) = s /\ "even" \in Tag /\ a \in Tag /\ b \in Tag
        /\ x \in Key \cup {Nil} /\ y \in Key \cup {Nil}
    BY <1>0, Sides DEF IsTree, Tag, Binder, Side
  <1>2. PICK t1 : t1 = [t EXCEPT ![P1][o] = x]
    OBVIOUS
  <1>3. PICK t2 : t2 = [t1 EXCEPT ![P2][s] = P1]
    OBVIOUS
  <1>4. PICK t3 : t3 = [t2 EXCEPT ![P][s] = y]
    OBVIOUS
  <1>5. PICK t4 : t4 = [t3 EXCEPT ![P2][o] = P]
    OBVIOUS
  <1>6. PICK t5 : t5 = [t4 EXCEPT ![P].tag = a]
    OBVIOUS
  <1>7. PICK t6 : t6 = [t5 EXCEPT ![P1].tag = b]
    OBVIOUS
  <1>8. u = [t6 EXCEPT ![P2].tag = "even"]
    BY <1>0, <1>2, <1>3, <1>4, <1>5, <1>6, <1>7 DEF Double
  <1>9. SideIs(t, t1, P1, o, s, x)
    BY ONLY <1>1, <1>2, IsTree(t), P1 \in DOMAIN t, SideSet
  <1>10. SideIs(t1, t2, P2, s, o, P1)
    <2>1. IsTree(t1) /\ P2 \in DOMAIN t1
      BY <1>9 DEF SideIs
    <2> QED
      BY ONLY <1>1, <1>3, <2>1, o = Opposite(s), s \in Side, SideSet
  <1>11. SideIs(t2, t3, P, s, o, y)
    <2>1. IsTree(t2) /\ P \in DOMAIN t2
      BY <1>9, <1>10 DEF SideIs
    <2> QED
      BY ONLY <1>1, <1>4, <2>1, o = Opposite(s), s \in Side, SideSet
  <1>12. SideIs(t3, t4, P2, o, s, P)
    <2>1. IsTree(t3) /\ P2 \in DOMAIN t3
      BY <1>9, <1>10, <1>11 DEF SideIs
    <2> QED
      BY ONLY <1>1, <1>5, <2>1, SideSet
  <1>13. TagIs(t4, t5, P, a)
    <2>1. IsTree(t4) /\ P \in DOMAIN t4
      BY <1>9, <1>10, <1>11, <1>12 DEF SideIs
    <2> QED
      BY ONLY <1>1, <1>6, <2>1, TagSet
  <1>14. TagIs(t5, t6, P1, b)
    <2>1. IsTree(t5) /\ P1 \in DOMAIN t5
      BY <1>9, <1>10, <1>11, <1>12, <1>13 DEF SideIs, TagIs
    <2> QED
      BY ONLY <1>1, <1>7, <2>1, TagSet
  <1>15. TagIs(t6, u, P2, "even")
    <2>1. IsTree(t6) /\ P2 \in DOMAIN t6
      BY <1>9, <1>10, <1>11, <1>12, <1>13, <1>14 DEF SideIs, TagIs
    <2> QED
      BY ONLY <1>1, <1>8, <2>1, TagSet
  <1>16. /\ IsTree(t4) /\ DOMAIN t4 = DOMAIN t
         /\ t4[P][s] = y /\ t4[P][o] = t[P][o]
         /\ t4[P1][s] = t[P1][s] /\ t4[P1][o] = x
         /\ t4[P2][s] = P1 /\ t4[P2][o] = P
         /\ \A k \in DOMAIN t : t4[k].value = t[k].value /\ t4[k].count = t[k].count
         /\ \A k \in DOMAIN t \ {P, P1, P2} : t4[k] = t[k]
    BY ONLY <1>1, <1>9, <1>10, <1>11, <1>12, P \in DOMAIN t, P1 \in DOMAIN t, P2 \in DOMAIN t,
            P1 # P, P2 \notin {P, P1}, s \in Side, SMTT(60) DEF SideIs
  <1>17. /\ IsTree(u) /\ DOMAIN u = DOMAIN t4
         /\ \A k \in {P, P1, P2} : u[k][s] = t4[k][s] /\ u[k][o] = t4[k][o]
         /\ u[P].tag = a /\ u[P1].tag = b /\ u[P2].tag = "even"
         /\ \A k \in DOMAIN t4 : u[k].value = t4[k].value /\ u[k].count = t4[k].count
         /\ \A k \in DOMAIN t4 \ {P, P1, P2} : u[k] = t4[k]
    BY ONLY <1>1, <1>13, <1>14, <1>15, <1>16, P \in DOMAIN t, P1 \in DOMAIN t, P2 \in DOMAIN t,
            P1 # P, P2 \notin {P, P1}, s \in Side, SMTT(60) DEF TagIs
  <1> QED
    BY ONLY <1>0, <1>16, <1>17, P \in DOMAIN t, P1 \in DOMAIN t, P2 \in DOMAIN t, SMTT(60)

-----------------------------------------------------------------------------
(* What hangs below a binder *)

(* X is on this side of K in the order of keys. *)
Beyond(side, x, k) == IF side = "left" THEN x < k ELSE x > k

(* S[k] are the binders of the subtree whose root is K. *)
Hangs(t, S, k) ==
  \A s \in Side :
    /\ t[k][s] \in DOMAIN t \cup {Nil}
    /\ S[k] = {k} \cup S[t[k][s]] \cup S[t[k][Opposite(s)]]
    /\ \A x \in S[t[k][s]] : Beyond(s, x, k)

IsBelow(t, S) == S \in [DOMAIN t \cup {Nil} -> SUBSET DOMAIN t] /\ S[Nil] = {}

Searchable(t, S) == IsBelow(t, S) /\ \A k \in DOMAIN t : Hangs(t, S, k)

(* The order of keys, seen from either side. *)
LEMMA BeyondFacts ==
  /\ \A s \in Side : \A x \in Key : ~Beyond(s, x, x)
  /\ \A s \in Side : \A x, y \in Key :
       /\ Beyond(s, x, y) => ~Beyond(Opposite(s), x, y)
       /\ Beyond(s, x, y) <=> Beyond(Opposite(s), y, x)
  /\ \A s \in Side : \A x, y, z \in Key : Beyond(s, x, y) /\ Beyond(s, y, z) => Beyond(s, x, z)
  /\ \A x, y \in Key : x # y => Beyond(Toward(x, y), x, y)
  BY KeyAssumption, Sides DEF Beyond, Side, Toward

(* A search goes left or right. *)
LEMMA TowardSide == \A x, y : Toward(x, y) \in Side
  BY DEF Toward, Side

(* All trees are finite. *)
LEMMA TreeFinite ==
  ASSUME NEW t, IsTree(t), NEW S \in SUBSET DOMAIN t
  PROVE  /\ IsFiniteSet(S) /\ Cardinality(S) \in Nat
         /\ \A R \in SUBSET S : Cardinality(R) \in Nat /\ (R # S => Cardinality(R) < Cardinality(S))
  <1>1. IsFiniteSet(S)
    BY KeyAssumption, FS_Subset DEF IsTree
  <1> QED
    BY <1>1, FS_Subset, FS_CardinalityType

(* No binder hangs below itself. *)
LEMMA NotBelowItself ==
  ASSUME NEW t, IsTree(t), NEW S, IsBelow(t, S), NEW k \in DOMAIN t, Hangs(t, S, k), NEW s \in Side
  PROVE  /\ t[k][s] \in DOMAIN t \cup {Nil} /\ k \in S[k]
         /\ k \notin S[t[k][s]] /\ S[t[k][s]] \subseteq S[k] /\ S[t[k][s]] # S[k]
         /\ Cardinality(S[t[k][s]]) \in Nat /\ Cardinality(S[k]) \in Nat
         /\ Cardinality(S[t[k][s]]) < Cardinality(S[k])
         /\ S[t[k][s]] \cap S[t[k][Opposite(s)]] = {}
  <1>1. /\ t[k][s] \in DOMAIN t \cup {Nil} /\ k \in S[k] /\ S[t[k][s]] \subseteq S[k]
        /\ S[k] \subseteq DOMAIN t /\ DOMAIN t \subseteq Key
        /\ Opposite(s) \in Side /\ t[k][Opposite(s)] \in DOMAIN t \cup {Nil}
        /\ S[t[k][Opposite(s)]] \subseteq S[k]
    BY Sides DEF Hangs, IsBelow, IsTree
  <1>2. k \notin S[t[k][s]]
    BY <1>1, BeyondFacts DEF Hangs
  <1>3. S[t[k][s]] \cap S[t[k][Opposite(s)]] = {}
    <2> SUFFICES ASSUME NEW x \in S[t[k][s]], x \in S[t[k][Opposite(s)]]
                 PROVE  FALSE
      OBVIOUS
    <2>1. Beyond(s, x, k) /\ Beyond(Opposite(s), x, k) /\ x \in Key
      BY <1>1 DEF Hangs
    <2> QED
      BY <1>1, <2>1, BeyondFacts
  <1>4. /\ Cardinality(S[t[k][s]]) \in Nat /\ Cardinality(S[k]) \in Nat
        /\ Cardinality(S[t[k][s]]) < Cardinality(S[k])
    BY <1>1, <1>2, TreeFinite
  <1> QED
    BY <1>1, <1>2, <1>3, <1>4

(* What hangs below a binder that hangs below K hangs below K. *)
LEMMA BelowTransitive ==
  ASSUME NEW t, IsTree(t), NEW S, Searchable(t, S), NEW k \in DOMAIN t, NEW j \in S[k]
  PROVE  j \in DOMAIN t /\ S[j] \subseteq S[k]
  <1> DEFINE Bad(x) == \E y \in S[x] : ~(S[y] \subseteq S[x])
             Sizes == { Cardinality(S[x]) : x \in { x \in DOMAIN t : Bad(x) } }
  <1>1. \A x \in DOMAIN t : S[x] \subseteq DOMAIN t /\ Cardinality(S[x]) \in Nat
    BY TreeFinite DEF Searchable, IsBelow
  <1>2. Sizes = {}
    <2> SUFFICES ASSUME Sizes # {} PROVE FALSE
      OBVIOUS
    <2>1. Sizes \subseteq Nat
      BY <1>1
    <2>2. PICK m \in Sizes : \A n \in Sizes : m <= n
      BY <2>1, LeastMember
    <2>3. PICK x \in DOMAIN t : Bad(x) /\ m = Cardinality(S[x])
      OBVIOUS
    <2>4. PICK y \in S[x] : ~(S[y] \subseteq S[x])
      BY <2>3
    <2>5. PICK s \in Side : y \in S[t[x][s]]
      BY <2>3, <2>4, Sides DEF Searchable, Hangs, Side
    <2>6. /\ t[x][s] \in DOMAIN t \cup {Nil} /\ S[t[x][s]] \subseteq S[x]
          /\ Cardinality(S[t[x][s]]) \in Nat /\ Cardinality(S[x]) \in Nat
          /\ Cardinality(S[t[x][s]]) < Cardinality(S[x])
      BY <2>3, NotBelowItself DEF Searchable
    <2>7. t[x][s] \in DOMAIN t
      BY <2>5, <2>6 DEF Searchable, IsBelow
    <2>8. Bad(t[x][s])
      BY <2>4, <2>5, <2>6
    <2>9. Cardinality(S[t[x][s]]) \in Sizes
      BY <2>7, <2>8
    <2> QED
      BY <2>2, <2>3, <2>6, <2>9
  <1>3. ~Bad(k)
    BY <1>2
  <1> QED
    BY <1>1, <1>3

(* Two binders hang one below the other, or have nothing below both. *)
LEMMA Laminar ==
  ASSUME NEW t, IsTree(t), NEW S, Searchable(t, S), NEW r \in DOMAIN t, S[r] = DOMAIN t,
         NEW j \in DOMAIN t, NEW k \in DOMAIN t
  PROVE  j \in S[k] \/ k \in S[j] \/ S[j] \cap S[k] = {}
  <1> DEFINE Both == { x \in DOMAIN t : j \in S[x] /\ k \in S[x] }
             Sizes == { Cardinality(S[x]) : x \in Both }
  <1>1. \A x \in DOMAIN t : S[x] \subseteq DOMAIN t /\ Cardinality(S[x]) \in Nat
    BY TreeFinite DEF Searchable, IsBelow
  <1>2. Sizes \subseteq Nat /\ Sizes # {}
    BY <1>1
  <1>3. PICK m \in Sizes : \A n \in Sizes : m <= n
    BY <1>2, LeastMember
  <1>4. PICK x \in DOMAIN t : j \in S[x] /\ k \in S[x] /\ m = Cardinality(S[x])
    OBVIOUS
  <1>5. ASSUME NEW s \in Side, j \in S[t[x][s]], k \in S[t[x][s]] PROVE FALSE
    <2>1. /\ t[x][s] \in DOMAIN t \cup {Nil} /\ Cardinality(S[t[x][s]]) \in Nat
          /\ Cardinality(S[x]) \in Nat /\ Cardinality(S[t[x][s]]) < Cardinality(S[x])
      BY <1>4, NotBelowItself DEF Searchable
    <2>2. t[x][s] \in DOMAIN t
      BY <1>5, <2>1 DEF Searchable, IsBelow
    <2>3. Cardinality(S[t[x][s]]) \in Sizes
      BY <1>5, <2>2
    <2> QED
      BY <1>3, <1>4, <2>1, <2>3
  <1>6. CASE j = x \/ k = x
    BY <1>4, <1>6
  <1>7. CASE j # x /\ k # x
    <2>1. PICK s \in Side : j \in S[t[x][s]] /\ k \in S[t[x][Opposite(s)]]
      BY <1>4, <1>5, <1>7, Sides DEF Searchable, Hangs, Side
    <2>2. /\ t[x][s] \in DOMAIN t \cup {Nil} /\ t[x][Opposite(s)] \in DOMAIN t \cup {Nil}
          /\ S[t[x][s]] \cap S[t[x][Opposite(s)]] = {}
      BY <1>4, <2>1, NotBelowItself, Sides DEF Searchable
    <2>3. t[x][s] \in DOMAIN t /\ t[x][Opposite(s)] \in DOMAIN t
      BY <2>1, <2>2 DEF Searchable, IsBelow
    <2>4. S[j] \subseteq S[t[x][s]] /\ S[k] \subseteq S[t[x][Opposite(s)]]
      BY <2>1, <2>3, BelowTransitive
    <2> QED
      BY <2>2, <2>4
  <1> QED
    BY <1>6, <1>7

(* A binder hangs from one binder, on one side, and the root from none. *)
LEMMA OneParent ==
  ASSUME NEW t, IsTree(t), NEW S, Searchable(t, S), NEW r \in DOMAIN t, S[r] = DOMAIN t,
         NEW j \in DOMAIN t, NEW a \in Side, t[j][a] # Nil
  PROVE  /\ t[j][a] # r
         /\ \A k \in DOMAIN t : \A b \in Side : t[k][b] = t[j][a] => k = j /\ b = a
  <1>1. PICK c \in DOMAIN t : c = t[j][a]
    BY DEF Searchable, Hangs
  <1>2. \A x \in DOMAIN t : x \in S[x] /\ \A s \in Side : x \notin S[t[x][s]]
    BY NotBelowItself DEF Searchable
  <1>3. c # r
    BY <1>1, <1>2
  <1>4. ASSUME NEW x \in DOMAIN t, NEW y \in DOMAIN t, NEW s \in Side, NEW q \in Side,
               t[x][s] = c, t[y][q] = c, y \in S[x], y # x
        PROVE  FALSE
    <2>1. PICK p \in Side : y \in S[t[x][p]]
      BY <1>4, Sides DEF Searchable, Hangs, Side
    <2>2. CASE p = s
      <3>1. y \in S[t[y][q]]
        BY <1>4, <2>1, <2>2
      <3> QED
        BY <1>2, <3>1
    <2>3. CASE p # s
      <3>1. p = Opposite(s)
        BY <2>3, Sides DEF Side
      <3>2. t[x][p] \in DOMAIN t \cup {Nil} /\ S[t[x][s]] \cap S[t[x][p]] = {}
        BY SMTT(40), <3>1, NotBelowItself DEF Searchable
      <3>3. t[x][p] \in DOMAIN t
        BY <2>1, <3>2 DEF Searchable, IsBelow
      <3>4. S[y] \subseteq S[t[x][p]]
        BY <2>1, <3>3, BelowTransitive
      <3>5. c \in S[y]
        <4>1. S[t[y][q]] \subseteq S[y]
          BY DEF Searchable, Hangs
        <4> QED
          BY <1>2, <1>4, <4>1
      <3> QED
        BY <1>2, <1>4, <3>2, <3>4, <3>5
    <2> QED
      BY <2>2, <2>3
  <1>5. ASSUME NEW k \in DOMAIN t, NEW b \in Side, t[k][b] = c
        PROVE  k = j /\ b = a
    <2>1. c \in S[j] /\ c \in S[k]
      <3>1. S[t[j][a]] \subseteq S[j] /\ S[t[k][b]] \subseteq S[k]
        BY DEF Searchable, Hangs
      <3> QED
        BY <1>1, <1>2, <1>5, <3>1
    <2>2. j \in S[k] \/ k \in S[j]
      BY <2>1, Laminar
    <2>3. k = j
      BY <1>1, <1>4, <1>5, <2>2
    <2>4. b = a
      <3> SUFFICES ASSUME b # a PROVE FALSE
        OBVIOUS
      <3>1. b = Opposite(a)
        BY Sides DEF Side
      <3>2. S[t[j][a]] \cap S[t[j][b]] = {}
        BY <3>1, NotBelowItself DEF Searchable
      <3> QED
        BY <1>1, <1>2, <1>5, <2>3, <3>2
    <2> QED
      BY <2>3, <2>4
  <1> QED
    BY <1>1, <1>3, <1>5

-----------------------------------------------------------------------------
(* What is computed step by step *)

(* A function can be applied again and again. *)
LEMMA Iterates ==
  ASSUME NEW X, NEW a \in X, NEW G \in [X -> X]
  PROVE  \E f \in [Nat -> X] : f[0] = a /\ \A n \in Nat \ {0} : f[n] = G[f[n - 1]]
  <1> DEFINE Upto(n, f) == /\ f \in [0 .. n -> X] /\ f[0] = a
                           /\ \A i \in 1 .. n : f[i] = G[f[i - 1]]
             Bad == { n \in Nat : ~\E f : Upto(n, f) }
  <1>1. Bad = {}
    <2> SUFFICES ASSUME Bad # {} PROVE FALSE
      OBVIOUS
    <2>1. PICK m \in Bad : \A n \in Bad : m <= n
      BY LeastMember
    <2>2. m # 0
      <3>1. Upto(0, [i \in 0 .. 0 |-> a])
        OBVIOUS
      <3> QED
        BY <3>1
    <2>3. m \in Nat /\ m - 1 \in Nat /\ m - 1 \notin Bad
      <3>1. m \in Nat
        OBVIOUS
      <3> HIDE DEF Bad
      <3>2. m - 1 \in Nat /\ ~(m <= m - 1)
        BY <2>2, <3>1
      <3> QED
        BY <2>1, <3>1, <3>2
    <2>4. PICK f : Upto(m - 1, f)
      BY <2>3
    <2>5. PICK g : g = [i \in 0 .. m |-> IF i = m THEN G[f[m - 1]] ELSE f[i]]
      OBVIOUS
    <2>6. f[m - 1] \in X /\ G[f[m - 1]] \in X
      BY <2>3, <2>4
    <2>7. Upto(m, g)
      <3>1. g \in [0 .. m -> X] /\ g[0] = a
        BY <2>2, <2>3, <2>4, <2>5, <2>6
      <3>2. ASSUME NEW i \in 1 .. m PROVE g[i] = G[g[i - 1]]
        BY <2>3, <2>4, <2>5
      <3> QED
        BY <3>1, <3>2
    <2> QED
      BY <2>1, <2>7
  <1>2. ASSUME NEW m \in Nat, NEW n \in Nat, NEW f, NEW g, Upto(m, f), Upto(n, g), m <= n
        PROVE  \A i \in 0 .. m : f[i] = g[i]
    <2> DEFINE Differ == { i \in 0 .. m : f[i] # g[i] }
    <2> SUFFICES ASSUME Differ # {} PROVE FALSE
      OBVIOUS
    <2>1. PICK i \in Differ : \A j \in Differ : i <= j
      <3>1. Differ \in SUBSET Nat
        OBVIOUS
      <3> HIDE DEF Differ
      <3> QED
        BY <3>1, LeastMember
    <2>2. i # 0
      BY <1>2, <2>1
    <2>3. i - 1 \in 0 .. m /\ f[i - 1] = g[i - 1]
      BY <1>2, <2>1, <2>2
    <2>4. i \in 1 .. m /\ i \in 1 .. n
      BY <1>2, <2>2
    <2>5. f[i] = G[f[i - 1]] /\ g[i] = G[g[i - 1]]
      BY <1>2, <2>4
    <2> QED
      BY <2>3, <2>5
  <1> DEFINE part(n) == CHOOSE f : Upto(n, f)
             whole == [n \in Nat |-> part(n)[n]]
  <1>3. \A n \in Nat : Upto(n, part(n))
    BY <1>1
  <1> HIDE DEF part
  <1>4. whole \in [Nat -> X] /\ whole[0] = a
    <2>1. \A n \in Nat : part(n)[n] \in X
      BY <1>3
    <2> QED
      BY <1>3, <2>1
  <1>5. ASSUME NEW n \in Nat \ {0} PROVE whole[n] = G[whole[n - 1]]
    <2>1. n - 1 \in Nat /\ n - 1 <= n /\ n \in 1 .. n /\ n - 1 \in 0 .. (n - 1)
      OBVIOUS
    <2>2. Upto(n, part(n)) /\ Upto(n - 1, part(n - 1))
      BY <1>3, <2>1
    <2>3. part(n - 1)[n - 1] = part(n)[n - 1]
      BY <1>2, <2>1, <2>2
    <2>4. part(n)[n] = G[part(n)[n - 1]]
      BY <2>1, <2>2
    <2> QED
      BY <2>1, <2>3, <2>4
  <1> QED
    BY <1>4, <1>5

(* A tree that hangs from R. *)
Whole(t, r, S) == Searchable(t, S) /\ r \in DOMAIN t \cup {Nil} /\ S[r] = DOMAIN t

(* The steps of a search. *)
LEMMA DescentFacts ==
  ASSUME NEW l, NEW key \in Key, NEW S, IsTree(node[l]), Whole(node[l], car[l], S)
  PROVE  LET at == Descent(l, key)
         IN /\ at[0] = car[l]
            /\ \A n \in Nat : at[n] \in DOMAIN node[l] \cup {Nil}
            /\ \A n \in Nat \ {0} :
                 at[n] = IF at[n - 1] \in {Nil, key} THEN at[n - 1]
                         ELSE node[l][at[n - 1]][Toward(key, at[n - 1])]
  <1> DEFINE X == DOMAIN node[l] \cup {Nil}
             G == [k \in X |-> IF k \in {Nil, key} THEN k ELSE node[l][k][Toward(key, k)]]
             Steps(f) == f = [n \in Nat |-> IF n = 0 THEN car[l]
                                ELSE LET k == f[n - 1]
                                     IN IF k \in {Nil, key} THEN k ELSE node[l][k][Toward(key, k)]]
  <1>1. G \in [X -> X] /\ car[l] \in X
    BY TowardSide DEF Whole, Searchable, Hangs
  <1>2. PICK f \in [Nat -> X] : f[0] = car[l] /\ \A n \in Nat \ {0} : f[n] = G[f[n - 1]]
    <2> HIDE DEF G, X
    <2> QED
      BY <1>1, Iterates
  <1>3. \A n \in Nat \ {0} : n - 1 \in Nat /\ f[n - 1] \in X
    BY <1>2
  <1>4. Steps(f)
    <2>1. f = [n \in Nat |-> IF n = 0 THEN car[l] ELSE G[f[n - 1]]]
      <3> HIDE DEF G
      <3> QED
        BY <1>2
    <2> QED
      BY <1>3, <2>1
  <1>5. Descent(l, key) = CHOOSE at : Steps(at)
    BY DEF Descent
  <1>6. PICK at : at = Descent(l, key) /\ Steps(at)
    <2> HIDE DEF Steps
    <2> QED
      BY <1>4, <1>5
  <1>7. at[0] = car[l] /\ \A n \in Nat \ {0} :
           at[n] = IF at[n - 1] \in {Nil, key} THEN at[n - 1]
                         ELSE node[l][at[n - 1]][Toward(key, at[n - 1])]
    BY <1>6
  <1>8. \A n \in Nat : at[n] \in X
    <2> DEFINE Bad == { n \in Nat : at[n] \notin X }
    <2> SUFFICES ASSUME Bad # {} PROVE FALSE
      OBVIOUS
    <2>1. PICK n \in Bad : \A m \in Bad : n <= m
      <3>1. Bad \in SUBSET Nat
        OBVIOUS
      <3> HIDE DEF Bad
      <3> QED
        BY <3>1, LeastMember
    <2>2. n # 0 /\ n - 1 \in Nat /\ at[n - 1] \in X
      BY <1>1, <1>7, <2>1
    <2>3. at[n] = G[at[n - 1]]
      BY <1>7, <2>2
    <2> HIDE DEF G, X
    <2> QED
      BY <1>1, <2>1, <2>2, <2>3
  <1> QED
    BY <1>6, <1>7, <1>8

(***************************************************************************)
(* A search of a tree finds a key just where it is bound, in no more steps *)
(* than there are keys.                                                    *)
(***************************************************************************)
LEMMA SearchFinds ==
  ASSUME NEW l, NEW key \in Key, NEW S, IsTree(node[l]), Whole(node[l], car[l], S)
  PROVE  Found(l, key) = IF key \in DOMAIN node[l] THEN key ELSE Nil
  <1> DEFINE D == DOMAIN node[l]
             size == Cardinality(D)
             all == Cardinality(Key)
  <1>0. PICK at : at = Descent(l, key)
    OBVIOUS
  <1>1. /\ at[0] = car[l]
        /\ \A n \in Nat : at[n] \in D \cup {Nil}
        /\ \A n \in Nat \ {0} :
                 at[n] = IF at[n - 1] \in {Nil, key} THEN at[n - 1]
                         ELSE node[l][at[n - 1]][Toward(key, at[n - 1])]
    BY <1>0, DescentFacts
  <1>2. all \in Nat /\ size \in Nat /\ size <= all /\ Found(l, key) = at[all]
    BY <1>0, KeyAssumption, FS_Subset, FS_CardinalityType DEF IsTree, Found
  <1>3. \A k \in D \cup {Nil} : S[k] \subseteq D /\ Cardinality(S[k]) \in Nat
    BY TreeFinite DEF Whole, Searchable, IsBelow
  <1>4. \A k \in D : k \in S[k] /\ Hangs(node[l], S, k)
    BY DEF Whole, Searchable, Hangs, Side
  <1> HIDE DEF D, size, all
  <1> DEFINE Sound(n) == /\ key \in D => key \in S[at[n]]
                         /\ at[n] \in {Nil, key} \/ Cardinality(S[at[n]]) + n <= size
             Bad == { n \in Nat : ~Sound(n) }
  <1>5. Bad = {}
    <2> SUFFICES ASSUME Bad # {} PROVE FALSE
      OBVIOUS
    <2>1. PICK n \in Bad : \A m \in Bad : n <= m
      <3>1. Bad \in SUBSET Nat
        OBVIOUS
      <3> HIDE DEF Bad
      <3> QED
        BY <3>1, LeastMember
    <2>2. n \in Nat /\ ~Sound(n)
      OBVIOUS
    <2>3. n # 0
      <3>1. S[at[0]] = D /\ Cardinality(S[at[0]]) = size
        BY <1>1 DEF Whole, D, size
      <3>2. Sound(0)
        BY <1>2, <3>1
      <3> QED
        BY <2>2, <3>2
    <2>4. PICK p : p = n - 1
      OBVIOUS
    <2>5. p \in Nat /\ Sound(p)
      <3>1. p \in Nat /\ ~(n <= p)
        BY <2>2, <2>3, <2>4
      <3>2. p \notin Bad
        BY <2>1, <3>1
      <3> QED
        BY <3>1, <3>2
    <2>6. at[n] = IF at[p] \in {Nil, key} THEN at[p] ELSE node[l][at[p]][Toward(key, at[p])]
      BY <1>1, <2>2, <2>3, <2>4
    <2>7. CASE at[p] \in {Nil, key}
      BY <2>2, <2>5, <2>6, <2>7
    <2>8. CASE at[p] \notin {Nil, key}
      <3>1. PICK k, s : k = at[p] /\ s = Toward(key, k)
        OBVIOUS
      <3>2. k \in D /\ k # key /\ s \in Side /\ at[n] = node[l][k][s]
        BY <1>1, <2>5, <2>6, <2>8, <3>1, TowardSide
      <3>3. /\ at[n] \in D \cup {Nil} /\ Cardinality(S[at[n]]) < Cardinality(S[k])
            /\ Cardinality(S[at[n]]) \in Nat /\ Cardinality(S[k]) \in Nat
        BY <1>4, <3>2, NotBelowItself DEF Whole, Searchable, D
      <3>4. Cardinality(S[at[n]]) + n <= size
        <4>1. Cardinality(S[k]) + p <= size
          BY <2>5, <2>8, <3>1
        <4> QED
          BY ONLY <1>2, <2>2, <2>4, <2>5, <3>3, <4>1
      <3>5. key \in D => key \in S[at[n]]
        <4> SUFFICES ASSUME key \in D PROVE key \in S[at[n]]
          OBVIOUS
        <4>1. key \in S[k]
          BY <2>5, <3>1
        <4>2. S[k] = {k} \cup S[node[l][k][s]] \cup S[node[l][k][Opposite(s)]]
          BY <1>4, <3>2 DEF Hangs
        <4>3. k \in Key /\ Opposite(s) \in Side
          BY <3>2, Sides DEF IsTree, D
        <4>4. key \notin S[node[l][k][Opposite(s)]]
          <5>1. \A x \in S[node[l][k][Opposite(s)]] : Beyond(Opposite(s), x, k)
            BY <1>4, <3>2, <4>3 DEF Hangs
          <5>2. Beyond(s, key, k)
            BY <3>1, <3>2, <4>3, BeyondFacts
          <5>3. ~Beyond(Opposite(s), key, k)
            BY <3>2, <4>3, <5>2, BeyondFacts
          <5> QED
            BY <5>1, <5>3
        <4> QED
          BY <3>2, <4>1, <4>2, <4>4
      <3> QED
        BY <2>2, <3>4, <3>5
    <2> QED
      BY <2>7, <2>8
  <1>6. Sound(all)
    BY <1>2, <1>5
  <1>7. at[all] \in {Nil, key}
    <2> SUFFICES ASSUME at[all] \notin {Nil, key} PROVE FALSE
      OBVIOUS
    <2>1. at[all] \in D /\ Cardinality(S[at[all]]) + all <= size
      BY <1>1, <1>2, <1>6
    <2>2. Cardinality(S[at[all]]) \in Nat /\ Cardinality(S[at[all]]) # 0
      <3>1. IsFiniteSet(S[at[all]]) /\ S[at[all]] # {}
        BY <1>3, <1>4, <2>1, TreeFinite DEF D
      <3> QED
        BY <1>3, <2>1, <3>1, FS_EmptySet
    <2> QED
      BY ONLY <1>2, <2>1, <2>2
  <1>8. Nil # key /\ Nil \notin D /\ S[Nil] = {}
    BY KeyAssumption DEF D, IsTree, Whole, Searchable, IsBelow
  <1> QED
    BY <1>1, <1>2, <1>6, <1>7, <1>8 DEF D

(* What can be reached from k in the tree n. *)
Below(n, k) == ReachFrom(DOMAIN n, {k}, [x \in DOMAIN n |-> {n[x].left, n[x].right}])

(***************************************************************************)
(* S[k] is what can be reached from k, in any tree that is the same there. *)
(***************************************************************************)
LEMMA SubtreeIs ==
  ASSUME NEW n, NEW t, IsTree(t), NEW S, Searchable(t, S), DOMAIN n = DOMAIN t,
         NEW k \in DOMAIN t \cup {Nil}, \A x \in S[k] : n[x] = t[x]
  PROVE  Below(n, k) = S[k]
  <1> DEFINE D == DOMAIN n
             kids == [x \in D |-> {n[x].left, n[x].right}]
             R == ReachFrom(D, {k}, kids)
  <1>0. /\ S[k] \subseteq D /\ Nil \notin D
        /\ \A x \in D : S[x] \subseteq D /\ Cardinality(S[x]) \in Nat /\ x \in S[x]
        /\ \A x \in D : S[x] = {x} \cup S[t[x].left] \cup S[t[x].right]
        /\ \A x \in D : t[x].left \in D \cup {Nil} /\ t[x].right \in D \cup {Nil}
    <2>1. \A x \in D : S[x] \subseteq D /\ Cardinality(S[x]) \in Nat
      BY TreeFinite DEF Searchable, IsBelow
    <2>2. S[k] \subseteq D /\ Nil \notin D
      BY KeyAssumption DEF Searchable, IsBelow, IsTree
    <2>3. \A x \in D : Hangs(t, S, x)
      BY DEF Searchable
    <2>4. \A x \in D : S[x] = {x} \cup S[t[x].left] \cup S[t[x].right]
      BY <2>3, Sides DEF Hangs, Side
    <2>5. \A x \in D : t[x].left \in D \cup {Nil} /\ t[x].right \in D \cup {Nil}
      BY <2>3, Sides DEF Hangs, Side
    <2> QED
      BY <2>1, <2>2, <2>4, <2>5
  <1>1. \A x \in S[k] : kids[x] = {t[x].left, t[x].right}
    BY <1>0
  <1>2. R \subseteq S[k]
    <2>1. {k} \cap D \subseteq S[k]
      BY <1>0
    <2>2. \A x \in S[k] : kids[x] \cap D \subseteq S[k]
      <3> TAKE x \in S[k]
      <3>1. S[x] \subseteq S[k]
        <4>1. k \in D
          BY <1>0 DEF Searchable, IsBelow
        <4> QED
          BY <4>1, BelowTransitive
      <3>2. \A c \in kids[x] \cap D : c \in S[c] /\ S[c] \subseteq S[x]
        BY <1>0, <1>1
      <3> QED
        BY <3>1, <3>2
    <2> HIDE DEF D, kids
    <2> QED
      BY <1>0, <2>1, <2>2, ReachIsLeast DEF R
  <1>3. \A x \in R : S[x] \subseteq R
    <2> DEFINE Bad == { x \in R : ~(S[x] \subseteq R) }
               Sizes == { Cardinality(S[x]) : x \in Bad }
    <2> SUFFICES ASSUME Bad # {} PROVE FALSE
      OBVIOUS
    <2>0. /\ R \subseteq D /\ \A x \in R : kids[x] \cap D \subseteq R
      <3> HIDE DEF D, kids
      <3> QED
        BY ReachIsClosed DEF R
    <2> HIDE DEF R
    <2>1. Sizes \subseteq Nat /\ Sizes # {}
      BY <1>0, <2>0
    <2>2. PICK m \in Sizes : \A i \in Sizes : m <= i
      BY <2>1, LeastMember
    <2>3. PICK x \in Bad : m = Cardinality(S[x])
      OBVIOUS
    <2>4. x \in S[k] /\ x \in D /\ x \in R
      BY <1>2, <2>0
    <2>5. ASSUME NEW c \in {t[x].left, t[x].right} PROVE S[c] \subseteq R
      <3>1. CASE c \notin D
        BY <1>0, <2>4, <3>1, <2>5 DEF Searchable, IsBelow
      <3>2. CASE c \in D
        <4>1. c \in R
          BY <1>1, <2>0, <2>4, <2>5, <3>2
        <4>2. Cardinality(S[c]) < Cardinality(S[x])
          <5>1. PICK s \in Side : c = t[x][s]
            BY <2>5 DEF Side
          <5> QED
            BY <2>4, <5>1, NotBelowItself DEF Searchable
        <4>3. Cardinality(S[c]) \in Nat /\ Cardinality(S[x]) \in Nat
          BY <1>0, <2>4, <3>2
        <4>4. c \notin Bad
          BY <2>2, <2>3, <4>2, <4>3
        <4> QED
          BY <4>1, <4>4
      <3> QED
        BY <3>1, <3>2
    <2>6. S[x] \subseteq R
      BY <1>0, <2>4, <2>5
    <2> QED
      BY <2>6
  <1>4. S[k] \subseteq R
    <2>1. CASE k \in D
      <3>1. {k} \cap D \subseteq R
        <4> HIDE DEF D, kids
        <4> QED
          BY ReachIsClosed DEF R
      <3> QED
        BY <1>3, <2>1, <3>1
    <2>2. CASE k = Nil
      BY <2>2 DEF Searchable, IsBelow
    <2> QED
      BY <2>1, <2>2
  <1> QED
    BY <1>2, <1>4 DEF Below

-----------------------------------------------------------------------------
(* How deep a tree is *)

(* A binder with this tag and a subtree of depth A on this side, B on the other. *)
Leans(tag, side, a, b, depth) ==
  \/ tag = "even" /\ a = b /\ depth = a + 1
  \/ tag = side /\ a = b + 1 /\ depth = a + 1
  \/ tag = Opposite(side) /\ b = a + 1 /\ depth = b + 1

IsDepth(t, H) == H \in [DOMAIN t \cup {Nil} -> Nat] /\ H[Nil] = 0

Level(t, H, k) ==
  \A s \in Side : Leans(t[k].tag, s, H[t[k][s]], H[t[k][Opposite(s)]], H[k])

(* How a binder leans may be told from either side. *)
LEMMA LeansMirrored ==
  ASSUME NEW tag, NEW s \in Side, NEW a, NEW b, NEW h
  PROVE  Leans(tag, s, a, b, h) <=> Leans(tag, Opposite(s), b, a, h)
  BY Sides DEF Leans

(* A tree is no deeper than it has binders. *)
LEMMA DepthBounded ==
  ASSUME NEW t, IsTree(t), NEW S, Searchable(t, S), NEW H, IsDepth(t, H),
         \A k \in DOMAIN t : Level(t, H, k)
  PROVE  \A k \in DOMAIN t \cup {Nil} : H[k] <= Cardinality(S[k])
  <1> DEFINE Bad == { k \in DOMAIN t \cup {Nil} : ~(H[k] <= Cardinality(S[k])) }
             Sizes == { Cardinality(S[x]) : x \in Bad }
  <1> SUFFICES ASSUME Bad # {} PROVE FALSE
    OBVIOUS
  <1>0. \A x \in DOMAIN t \cup {Nil} : Cardinality(S[x]) \in Nat
    BY TreeFinite DEF Searchable, IsBelow
  <1>1. PICK m \in Sizes : \A i \in Sizes : m <= i
    <2>1. Sizes \in SUBSET Nat /\ Sizes # {}
      BY <1>0
    <2> QED
      BY <2>1, LeastMember
  <1>2. PICK k \in Bad : m = Cardinality(S[k])
    OBVIOUS
  <1>3. k \in DOMAIN t
    BY <1>0, FS_EmptySet DEF IsDepth, Searchable, IsBelow
  <1>4. \A s \in Side : /\ t[k][s] \in DOMAIN t \cup {Nil} 
                        /\ Cardinality(S[t[k][s]]) < Cardinality(S[k])
    BY <1>3, NotBelowItself DEF Searchable
  <1>5. \A s \in Side : H[t[k][s]] <= Cardinality(S[t[k][s]])
    BY <1>0, <1>1, <1>2, <1>3, <1>4
  <1>6. \A s \in Side : H[t[k][s]] \in Nat /\ H[t[k][s]] + 1 <= Cardinality(S[k])
    BY <1>0, <1>3, <1>4, <1>5 DEF IsDepth
  <1>7. \E s \in Side : H[k] = H[t[k][s]] + 1
    BY <1>3, Sides DEF Level, Leans, Side
  <1> QED
    BY <1>6, <1>7

(***************************************************************************)
(* The depths that Balanced computes are those that the tags speak of.     *)
(***************************************************************************)
LEMMA DepthIs ==
  ASSUME NEW l, NEW S, IsTree(node[l]), Whole(node[l], car[l], S),
         NEW H, IsDepth(node[l], H), \A k \in DOMAIN node[l] : Level(node[l], H, k)
  PROVE  \A k \in DOMAIN node[l] \cup {Nil} : Depth(l)[k] = H[k]
  <1> DEFINE D == DOMAIN node[l]
             zeros == [k \in D \cup {Nil} |-> 0]
             deeper(f) == [k \in D \cup {Nil} |->
                             IF k = Nil THEN 0
                             ELSE LET left  == f[node[l][k].left]
                                      right == f[node[l][k].right]
                                  IN 1 + (IF left > right THEN left ELSE right)]
             X == [D \cup {Nil} -> Nat]
             G == [f \in X |-> deeper(f)]
             Steps(g) == g = [n \in Nat |-> IF n = 0 THEN zeros ELSE deeper(g[n - 1])]
  <1>0. \A k \in D : node[l][k].left \in D \cup {Nil} /\ node[l][k].right \in D \cup {Nil}
    BY Sides DEF Whole, Searchable, Hangs, Side
  <1>1. zeros \in X /\ G \in [X -> X]
    <2>1. \A f \in X : deeper(f) \in X
      BY <1>0
    <2> HIDE DEF deeper, X
    <2>2. G \in [X -> X]
      BY <2>1
    <2> QED
      BY <2>2 DEF X
  <1>2. PICK f \in [Nat -> X] : f[0] = zeros /\ \A n \in Nat \ {0} : f[n] = G[f[n - 1]]
    <2> HIDE DEF zeros, X, G
    <2>1. PICK levels, none, next : levels = X /\ none = zeros /\ next = G
      OBVIOUS
    <2>2. \E f \in [Nat -> levels] : f[0] = none /\ \A n \in Nat \ {0} : f[n] = next[f[n - 1]]
      <3>1. none \in levels /\ next \in [levels -> levels]
        BY <1>1, <2>1
      <3> QED
        BY ONLY <3>1, Iterates
    <2> QED
      BY <2>1, <2>2
  <1>3. Steps(f)
    <2> HIDE DEF zeros, X, deeper
    <2>1. f = [n \in Nat |-> IF n = 0 THEN zeros ELSE G[f[n - 1]]]
      <3> HIDE DEF G
      <3> QED
        BY <1>2
    <2>2. \A n \in Nat : n # 0 => n - 1 \in Nat /\ f[n - 1] \in X
      BY <1>2
    <2>3. \A n \in Nat : n # 0 => G[f[n - 1]] = deeper(f[n - 1])
      BY <2>2
    <2> QED
      BY <2>1, <2>3
  <1>4. PICK g : g = (CHOOSE level : Steps(level)) /\ Steps(g)
    <2> HIDE DEF Steps
    <2> QED
      BY <1>3
  <1>5. Depth(l) = g[Cardinality(D)]
    BY <1>4 DEF Depth
  <1>6. /\ g[0] = zeros
        /\ \A n \in Nat \ {0} : g[n] = deeper(g[n - 1])
    <2> HIDE DEF zeros, deeper
    <2> QED
      BY <1>4
  <1>7. \A k \in D \cup {Nil} : H[k] \in Nat /\ H[Nil] = 0 /\ Nil \notin D
    BY KeyAssumption DEF IsDepth, IsTree
  <1>8. \A k \in D : LET left  == H[node[l][k].left]
                         right == H[node[l][k].right]
                     IN H[k] = 1 + (IF left > right THEN left ELSE right)
    <2> TAKE k \in D
    <2>1. Leans(node[l][k].tag, "left", H[node[l][k].left], H[node[l][k].right], H[k])
      BY Sides DEF Level, Side
    <2>2. H[node[l][k].left] \in Nat /\ H[node[l][k].right] \in Nat
      BY <1>0, <1>7
    <2> QED
      BY <2>1, <2>2 DEF Leans
  <1>9. \A n \in Nat : \A k \in D \cup {Nil} : H[k] <= n => g[n][k] = H[k]
    <2> DEFINE Bad == { n \in Nat : \E k \in D \cup {Nil} : H[k] <= n /\ g[n][k] # H[k] }
    <2> SUFFICES ASSUME Bad # {} PROVE FALSE
      OBVIOUS
    <2>1. PICK n \in Bad : \A m \in Bad : n <= m
      <3>1. Bad \in SUBSET Nat
        OBVIOUS
      <3> HIDE DEF Bad
      <3> QED
        BY <3>1, LeastMember
    <2>2. n \in Nat
      OBVIOUS
    <2>3. PICK k \in D \cup {Nil} : H[k] <= n /\ g[n][k] # H[k]
      OBVIOUS
    <2>4. n # 0
      <3> SUFFICES ASSUME n = 0 PROVE FALSE
        OBVIOUS
      <3>1. H[k] = 0
        BY <1>7, <2>3
      <3>2. g[0][k] = 0
        BY <1>6
      <3> QED
        BY <2>3, <3>1, <3>2
    <2>5. PICK p \in Nat : p = n - 1
      BY <2>2, <2>4
    <2>6. \A x \in D \cup {Nil} : H[x] <= p => g[p][x] = H[x]
      <3>1. ~(n <= p)
        BY <2>2, <2>5
      <3>2. p \notin Bad
        BY <2>1, <3>1
      <3> QED
        BY <3>2
    <2>7. g[n] = deeper(g[p])
      <3> HIDE DEF deeper
      <3> QED
        BY <1>6, <2>2, <2>4, <2>5
    <2>8. k \in D
      <3> SUFFICES ASSUME k = Nil PROVE FALSE
        OBVIOUS
      <3>1. g[n][k] = 0
        BY <2>7
      <3> QED
        BY <1>7, <2>3, <3>1
    <2>9. PICK a, b : a = node[l][k].left /\ b = node[l][k].right
      OBVIOUS
    <2>10. /\ a \in D \cup {Nil} /\ b \in D \cup {Nil} /\ H[a] \in Nat /\ H[b] \in Nat
           /\ H[k] = 1 + (IF H[a] > H[b] THEN H[a] ELSE H[b])
      BY <1>0, <1>7, <1>8, <2>8, <2>9
    <2>11. H[a] <= p /\ H[b] <= p
      <3>1. PICK x, y, h : x = H[a] /\ y = H[b] /\ h = H[k]
        OBVIOUS
      <3>2. /\ x \in Nat /\ y \in Nat /\ h = 1 + (IF x > y THEN x ELSE y)
            /\ h <= n /\ n \in Nat /\ p = n - 1
        BY ONLY <2>2, <2>3, <2>5, <2>10, <3>1
      <3>3. x <= p /\ y <= p
        BY ONLY <3>2
      <3> QED
        BY <3>1, <3>3
    <2>12. g[p][a] = H[a] /\ g[p][b] = H[b]
      BY <2>6, <2>10, <2>11
    <2>13. g[n][k] = 1 + (IF g[p][a] > g[p][b] THEN g[p][a] ELSE g[p][b])
      BY <1>7, <2>7, <2>8, <2>9
    <2> QED
      BY <2>3, <2>10, <2>12, <2>13
  <1>10. \A k \in D \cup {Nil} : H[k] <= Cardinality(D) /\ Cardinality(D) \in Nat
    <2> TAKE k \in D \cup {Nil}
    <2>1. H[k] <= Cardinality(S[k])
      BY DepthBounded DEF Whole
    <2>2. S[k] \in SUBSET D
      BY DEF Whole, Searchable, IsBelow
    <2>3. Cardinality(S[k]) \in Nat /\ Cardinality(D) \in Nat /\ Cardinality(S[k]) <= Cardinality(D)
      BY <2>2, TreeFinite
    <2> QED
      BY <1>7, <2>1, <2>3
  <1> QED
    BY <1>5, <1>9, <1>10

-----------------------------------------------------------------------------
(* Rotations *)

(* What hangs below a binder, seen from one side. *)
LEMMA HangsSeen ==
  ASSUME NEW t, NEW S, NEW k, Hangs(t, S, k), NEW s \in Side, NEW o, o = Opposite(s),
         NEW a, a = t[k][s], NEW b, b = t[k][o]
  PROVE  /\ a \in DOMAIN t \cup {Nil} /\ b \in DOMAIN t \cup {Nil}
         /\ S[k] = {k} \cup S[a] \cup S[b]
         /\ \A x \in S[a] : Beyond(s, x, k)
         /\ \A x \in S[b] : Beyond(o, x, k)
  <1>1. o \in Side /\ Opposite(o) = s
    BY Sides
  <1> QED
    BY <1>1 DEF Hangs

(* What hangs below a binder may be told from either side. *)
LEMMA HangsIf ==
  ASSUME NEW t, NEW S, NEW k, NEW s \in Side, NEW o, o = Opposite(s),
         NEW a, a = t[k][s], NEW b, b = t[k][o],
         a \in DOMAIN t \cup {Nil}, b \in DOMAIN t \cup {Nil},
         S[k] = {k} \cup S[a] \cup S[b],
         \A x \in S[a] : Beyond(s, x, k), \A x \in S[b] : Beyond(o, x, k)
  PROVE  Hangs(t, S, k)
  <1>1. o \in Side /\ Opposite(o) = s /\ \A q \in Side : q = s \/ q = o
    BY Sides DEF Side
  <1> QED
    BY <1>1 DEF Hangs

(* How deep a binder is may be told from either side. *)
LEMMA LevelSeen ==
  ASSUME NEW t, NEW H, NEW k, NEW s \in Side, NEW o, o = Opposite(s),
         NEW a, a = t[k][s], NEW b, b = t[k][o]
  PROVE  Level(t, H, k) <=> Leans(t[k].tag, s, H[a], H[b], H[k])
  <1>1. o \in Side /\ Opposite(o) = s /\ \A q \in Side : q = s \/ q = o
    BY Sides DEF Side
  <1> QED
    BY <1>1, LeansMirrored DEF Level

(***************************************************************************)
(* SETTING KEY returns to P with a subtree that is deeper than it was, or  *)
(* not; only the binders M change, and the tree that was P is R now.       *)
(***************************************************************************)
Rebuilt(t, u, S, T, H, I, M, P, R, growth) ==
  /\ IsTree(u) /\ DOMAIN u = DOMAIN t
  /\ IsBelow(u, T) /\ IsDepth(u, I)
  /\ M \subseteq S[P] /\ {P, R} \subseteq M
  /\ \A k \in DOMAIN t \ M : u[k] = t[k]
  /\ \A k \in (DOMAIN t \cup {Nil}) \ M : T[k] = S[k] /\ I[k] = H[k]
  /\ \A k \in M : Hangs(u, T, k) /\ Level(u, I, k)
  /\ \A k \in M \ {P} : \E j \in M : \E a \in Side : t[j][a] = k
  /\ T[R] = S[P] /\ I[R] = H[P] + growth
  /\ growth = 0 \/ (growth = 1 /\ u[R].tag # "even")
  /\ \A k \in DOMAIN t : u[k].value = t[k].value /\ u[k].count = t[k].count

(* P1 and P2 hang below P, and what hangs below them does not hang elsewhere. *)
LEMMA ChildFacts ==
  ASSUME NEW t, IsTree(t), NEW S, Searchable(t, S), NEW P \in DOMAIN t,
         NEW s \in Side, NEW o, o = Opposite(s), NEW P1 \in DOMAIN t, P1 = t[P][s]
  PROVE  /\ P \in S[P] /\ P1 \in S[P1] /\ P1 \in S[P] /\ P \notin S[P1] /\ P # P1
         /\ P # Nil /\ P1 # Nil /\ P \in Key /\ P1 \in Key
         /\ t[P1][s] \notin {P, P1} /\ t[P1][o] \notin {P, P1} /\ t[P][o] \notin {P, P1}
         /\ o \in Side /\ o # s
  <1>1. o \in Side /\ o # s /\ Opposite(o) = s
    BY Sides
  <1>2. /\ P \in S[P] /\ P \notin S[P1] /\ S[P1] \subseteq S[P] /\ P \notin S[t[P][o]]
        /\ S[P1] \cap S[t[P][o]] = {} /\ t[P][o] \in DOMAIN t \cup {Nil}
    BY <1>1, NotBelowItself DEF Searchable
  <1>3. /\ P1 \in S[P1] /\ P1 \notin S[t[P1][s]] /\ P1 \notin S[t[P1][o]]
        /\ S[t[P1][s]] \subseteq S[P1] /\ S[t[P1][o]] \subseteq S[P1]
        /\ t[P1][s] \in DOMAIN t \cup {Nil} /\ t[P1][o] \in DOMAIN t \cup {Nil}
    BY <1>1, NotBelowItself DEF Searchable
  <1>4. Nil \notin DOMAIN t /\ DOMAIN t \subseteq Key
    BY KeyAssumption DEF IsTree
  <1>5. \A x \in DOMAIN t : x \in S[x]
    BY Sides DEF Searchable, Hangs, Side
  <1> QED
    BY <1>1, <1>2, <1>3, <1>4, <1>5

(***************************************************************************)
(* A single rotation of a subtree that is too deep on one side makes it    *)
(* balanced, with the same keys in the same order, and no deeper than it   *)
(* was before the key was added.                                           *)
(***************************************************************************)
LEMMA SingleRebuilt ==
  ASSUME NEW t, IsTree(t), NEW S, Searchable(t, S), NEW H, IsDepth(t, H), NEW P \in DOMAIN t,
         NEW s \in Side, NEW o, o = Opposite(s), NEW P1 \in DOMAIN t, P1 = t[P][s],
         Level(t, H, P1), Leans(t[P].tag, s, H[P1] - 1, H[t[P][o]], H[P]),
         t[P].tag = s, t[P1].tag = s, NEW u, u = Single(t, P, s)
  PROVE  \E T, I : Rebuilt(t, u, S, T, H, I, {P, P1}, P, P1, 0)
  <1>0. PICK A, B, C : A = t[P1][s] /\ B = t[P1][o] /\ C = t[P][o]
    OBVIOUS
  <1>1. /\ P \in S[P] /\ P1 \in S[P1] /\ P1 \in S[P] /\ P \notin S[P1] /\ P # P1
        /\ P # Nil /\ P1 # Nil /\ P \in Key /\ P1 \in Key
        /\ A \notin {P, P1} /\ B \notin {P, P1} /\ C \notin {P, P1} /\ o \in Side /\ o # s
    BY <1>0, ChildFacts
  <1>2. /\ IsTree(u) /\ DOMAIN u = DOMAIN t
        /\ u[P][s] = B /\ u[P][o] = C /\ u[P].tag = "even"
        /\ u[P1][s] = A /\ u[P1][o] = P /\ u[P1].tag = "even"
        /\ \A k \in DOMAIN t : u[k].value = t[k].value /\ u[k].count = t[k].count
        /\ \A k \in DOMAIN t \ {P, P1} : u[k] = t[k]
    BY <1>0, <1>1, SingleFacts
  <1>3. /\ A \in DOMAIN t \cup {Nil} /\ B \in DOMAIN t \cup {Nil} /\ C \in DOMAIN t \cup {Nil}
        /\ S[P] = {P} \cup S[P1] \cup S[C]
        /\ S[P1] = {P1} \cup S[A] \cup S[B]
        /\ \A x \in S[P1] : Beyond(s, x, P)
        /\ \A x \in S[C]  : Beyond(o, x, P)
        /\ \A x \in S[A]  : Beyond(s, x, P1)
        /\ \A x \in S[B]  : Beyond(o, x, P1)
    <2>1. Hangs(t, S, P) /\ Hangs(t, S, P1)
      BY DEF Searchable
    <2>2. /\ A \in DOMAIN t \cup {Nil} /\ B \in DOMAIN t \cup {Nil}
          /\ S[P1] = {P1} \cup S[A] \cup S[B]
          /\ \A x \in S[A] : Beyond(s, x, P1)
          /\ \A x \in S[B] : Beyond(o, x, P1)
      BY ONLY <1>0, <2>1, s \in Side, o = Opposite(s), HangsSeen
    <2>3. /\ C \in DOMAIN t \cup {Nil}
          /\ S[P] = {P} \cup S[P1] \cup S[C]
          /\ \A x \in S[P1] : Beyond(s, x, P)
          /\ \A x \in S[C] : Beyond(o, x, P)
      BY ONLY <1>0, <2>1, s \in Side, o = Opposite(s), P1 = t[P][s], HangsSeen
    <2> QED
      BY <2>2, <2>3
  <1>4. PICK T : T = [S EXCEPT ![P1] = S[P], ![P] = {P} \cup S[B] \cup S[C]]
    OBVIOUS
  <1>5. /\ IsBelow(u, T) /\ T[P1] = S[P] /\ T[P] = {P} \cup S[B] \cup S[C]
        /\ \A k \in (DOMAIN t \cup {Nil}) \ {P, P1} : T[k] = S[k]
    BY <1>1, <1>2, <1>3, <1>4 DEF Searchable, IsBelow
  <1>6. Hangs(u, T, P)
    <2>1. T[B] = S[B] /\ T[C] = S[C]
      BY <1>1, <1>3, <1>5
    <2>2. /\ B \in DOMAIN u \cup {Nil} /\ C \in DOMAIN u \cup {Nil}
          /\ T[P] = {P} \cup T[B] \cup T[C]
          /\ \A x \in T[B] : Beyond(s, x, P)
          /\ \A x \in T[C] : Beyond(o, x, P)
      BY <1>2, <1>3, <1>5, <2>1
    <2> QED
      BY ONLY <1>2, <2>2, s \in Side, o = Opposite(s), HangsIf
  <1>7. Hangs(u, T, P1)
    <2>1. T[A] = S[A]
      BY <1>1, <1>3, <1>5
    <2>2. Beyond(o, P, P1)
      BY <1>1, <1>3, BeyondFacts
    <2>3. \A x \in S[C] : Beyond(o, x, P1)
      <3> TAKE x \in S[C]
      <3>1. x \in Key
        BY <1>3 DEF Searchable, IsBelow, IsTree
      <3> QED
        BY <1>1, <1>3, <2>2, <3>1, BeyondFacts
    <2>4. \A x \in T[P] : Beyond(o, x, P1)
      BY <1>3, <1>5, <2>2, <2>3
    <2>5. T[P1] = {P1} \cup T[A] \cup T[P]
      BY <1>3, <1>5, <2>1
    <2>6. /\ A \in DOMAIN u \cup {Nil} /\ P \in DOMAIN u \cup {Nil}
          /\ \A x \in T[A] : Beyond(s, x, P1)
      BY <1>2, <1>3, <2>1
    <2> QED
      BY ONLY <1>2, <2>4, <2>5, <2>6, s \in Side, o = Opposite(s), HangsIf
  <1>8. /\ H[A] \in Nat /\ H[B] \in Nat /\ H[C] \in Nat /\ H[P1] \in Nat /\ H[P] \in Nat
        /\ H[A] = H[B] + 1 /\ H[P1] = H[A] + 1 /\ H[C] = H[B] /\ H[P] = H[P1]
    <2>1. H[A] \in Nat /\ H[B] \in Nat /\ H[C] \in Nat /\ H[P1] \in Nat /\ H[P] \in Nat
      BY <1>3 DEF IsDepth
    <2>2. s # "even" /\ s # Opposite(s)
      BY Sides DEF Side
    <2>3. Leans(s, s, H[A], H[B], H[P1])
      BY <1>0, LevelSeen
    <2>4. H[A] = H[B] + 1 /\ H[P1] = H[A] + 1
      BY <2>2, <2>3 DEF Leans
    <2>5. H[P1] - 1 = H[C] + 1 /\ H[P] = H[P1] - 1 + 1
      BY <1>0, <2>2 DEF Leans
    <2>6. PICK a, b, c, p, q : a = H[A] /\ b = H[B] /\ c = H[C] /\ p = H[P] /\ q = H[P1]
      OBVIOUS
    <2>7. a \in Nat /\ b \in Nat /\ c \in Nat /\ p \in Nat /\ q \in Nat
      BY <2>1, <2>6
    <2>8. a = b + 1 /\ q = a + 1 /\ q - 1 = c + 1 /\ p = q - 1 + 1
      BY <2>4, <2>5, <2>6
    <2>9. c = b /\ p = q
      BY ONLY <2>7, <2>8
    <2> QED
      BY <2>1, <2>4, <2>6, <2>9
  <1>9. PICK I : I = [H EXCEPT ![P] = H[B] + 1]
    OBVIOUS
  <1>10. /\ IsDepth(u, I) /\ I[P] = H[B] + 1
         /\ \A k \in (DOMAIN t \cup {Nil}) \ {P} : I[k] = H[k]
    BY <1>1, <1>2, <1>8, <1>9 DEF IsDepth
  <1>11. Level(u, I, P)
    <2>1. Leans("even", s, I[B], I[C], I[P])
      BY <1>1, <1>3, <1>8, <1>10 DEF Leans
    <2> QED
      BY ONLY ZenonT(40), <1>2, <2>1, s \in Side, o = Opposite(s), LevelSeen
  <1>12. Level(u, I, P1)
    <2>1. Leans("even", s, I[A], I[P], I[P1])
      BY <1>1, <1>3, <1>8, <1>10 DEF Leans
    <2> QED
      BY ONLY <1>2, <2>1, s \in Side, o = Opposite(s), LevelSeen
  <1>13. I[P1] = H[P] + 0
    BY <1>1, <1>8, <1>10
  <1>14. Rebuilt(t, u, S, T, H, I, {P, P1}, P, P1, 0)
    <2>1. \A k \in {P, P1} \ {P} : \E j \in {P, P1} : \E a \in Side : t[j][a] = k
      OBVIOUS
    <2>2. /\ {P, P1} \subseteq S[P]
          /\ \A k \in DOMAIN t \ {P, P1} : u[k] = t[k]
          /\ \A k \in (DOMAIN t \cup {Nil}) \ {P, P1} : T[k] = S[k] /\ I[k] = H[k]
          /\ \A k \in {P, P1} : Hangs(u, T, k) /\ Level(u, I, k)
      BY <1>1, <1>2, <1>5, <1>6, <1>7, <1>10, <1>11, <1>12
    <2> QED
      BY ONLY <1>2, <1>5, <1>10, <1>13, <2>1, <2>2 DEF Rebuilt
  <1> QED
    BY <1>14

(***************************************************************************)
(* So does a double rotation, which also finds the binder it raises.       *)
(***************************************************************************)
LEMMA DoubleRebuilt ==
  ASSUME NEW t, IsTree(t), NEW S, Searchable(t, S), NEW H, IsDepth(t, H), NEW P \in DOMAIN t,
         NEW s \in Side, NEW o, o = Opposite(s), NEW P1 \in DOMAIN t, P1 = t[P][s],
         \A k \in S[P1] : Level(t, H, k), Leans(t[P].tag, s, H[P1] - 1, H[t[P][o]], H[P]),
         t[P].tag = s, t[P1].tag = o, NEW u, u = Double(t, P, s), NEW P2, P2 = t[P1][o]
  PROVE  P2 \in DOMAIN t /\ \E T, I : Rebuilt(t, u, S, T, H, I, {P, P1, P2}, P, P2, 0)
  <1>0. PICK A, X, Y, C : A = t[P1][s] /\ X = t[P2][s] /\ Y = t[P2][o] /\ C = t[P][o]
    OBVIOUS
  <1>1. /\ P \in S[P] /\ P1 \in S[P1] /\ P1 \in S[P] /\ P \notin S[P1] /\ P # P1
        /\ P # Nil /\ P1 # Nil /\ P \in Key /\ P1 \in Key
        /\ A \notin {P, P1} /\ P2 \notin {P, P1} /\ C \notin {P, P1} /\ o \in Side /\ o # s
    BY <1>0, ChildFacts
  <1>2. /\ A \in DOMAIN t \cup {Nil} /\ P2 \in DOMAIN t \cup {Nil} /\ C \in DOMAIN t \cup {Nil}
        /\ S[P] = {P} \cup S[P1] \cup S[C]
        /\ S[P1] = {P1} \cup S[A] \cup S[P2]
        /\ \A x \in S[P1] : Beyond(s, x, P)
        /\ \A x \in S[C]  : Beyond(o, x, P)
        /\ \A x \in S[A]  : Beyond(s, x, P1)
        /\ \A x \in S[P2] : Beyond(o, x, P1)
    <2>1. Hangs(t, S, P) /\ Hangs(t, S, P1)
      BY DEF Searchable
    <2>2. /\ A \in DOMAIN t \cup {Nil} /\ P2 \in DOMAIN t \cup {Nil}
          /\ S[P1] = {P1} \cup S[A] \cup S[P2]
          /\ \A x \in S[A] : Beyond(s, x, P1)
          /\ \A x \in S[P2] : Beyond(o, x, P1)
      BY ONLY <1>0, <2>1, s \in Side, o = Opposite(s), P2 = t[P1][o], HangsSeen
    <2>3. /\ C \in DOMAIN t \cup {Nil}
          /\ S[P] = {P} \cup S[P1] \cup S[C]
          /\ \A x \in S[P1] : Beyond(s, x, P)
          /\ \A x \in S[C] : Beyond(o, x, P)
      BY ONLY <1>0, <2>1, s \in Side, o = Opposite(s), P1 = t[P][s], HangsSeen
    <2> QED
      BY <2>2, <2>3
  <1>3. s # "even" /\ o # "even"
    BY <1>1 DEF Side
  <1>4. /\ H[A] \in Nat /\ H[P2] \in Nat /\ H[C] \in Nat /\ H[P1] \in Nat /\ H[P] \in Nat
        /\ H[P2] = H[A] + 1 /\ H[P1] = H[A] + 2 /\ H[C] = H[A] /\ H[P] = H[P1]
    <2>1. H[A] \in Nat /\ H[P2] \in Nat /\ H[C] \in Nat /\ H[P1] \in Nat /\ H[P] \in Nat
      BY <1>2 DEF IsDepth
    <2>2. Leans(o, s, H[A], H[P2], H[P1])
      BY <1>0, <1>1, LevelSeen
    <2>3. H[P2] = H[A] + 1 /\ H[P1] = H[P2] + 1
      BY <1>1, <1>3, <2>2 DEF Leans
    <2>4. H[P1] - 1 = H[C] + 1 /\ H[P] = H[P1] - 1 + 1
      BY <1>0, <1>1, <1>3 DEF Leans
    <2>5. PICK a, b, c, p, q : a = H[A] /\ b = H[P2] /\ c = H[C] /\ p = H[P] /\ q = H[P1]
      OBVIOUS
    <2>6. a \in Nat /\ b \in Nat /\ c \in Nat /\ p \in Nat /\ q \in Nat
      BY <2>1, <2>5
    <2>7. b = a + 1 /\ q = b + 1 /\ q - 1 = c + 1 /\ p = q - 1 + 1
      BY <2>3, <2>4, <2>5
    <2>8. c = a /\ p = q /\ q = a + 2
      BY ONLY <2>6, <2>7
    <2> QED
      BY <2>1, <2>3, <2>5, <2>8
  <1>5. P2 \in DOMAIN t
    <2>1. H[P2] # 0
      BY <1>4
    <2> QED
      BY <1>2, <2>1 DEF IsDepth
  <1>6. /\ P2 \in S[P2] /\ P2 \in S[P1] /\ P2 \in S[P] /\ P2 # Nil /\ P2 \in Key
        /\ X \notin {P, P1, P2} /\ Y \notin {P, P1, P2}
        /\ A # P2 /\ C # P2
    <2>1. /\ P2 \in S[P2] /\ P2 # Nil /\ P2 \in Key /\ P1 \notin S[P2]
          /\ t[P2][s] \notin {P1, P2} /\ t[P2][o] \notin {P1, P2} /\ t[P1][s] \notin {P1, P2}
      <3>1. s = Opposite(o)
        BY Sides
      <3> QED
        BY ONLY <1>1, <1>5, <3>1, IsTree(t), Searchable(t, S), P1 \in DOMAIN t, P2 = t[P1][o],
                ChildFacts
    <2>2. /\ S[X] \subseteq S[P2] /\ S[Y] \subseteq S[P2]
          /\ X \in DOMAIN t \cup {Nil} /\ Y \in DOMAIN t \cup {Nil}
      BY <1>0, <1>1, <1>5, NotBelowItself DEF Searchable
    <2>3. \A x \in DOMAIN t : x \in S[x]
      BY Sides DEF Searchable, Hangs, Side
    <2>4. S[P1] \cap S[C] = {}
      BY <1>0, NotBelowItself DEF Searchable
    <2> QED
      BY <1>0, <1>1, <1>2, <2>1, <2>2, <2>3, <2>4
  <1>7. /\ X \in DOMAIN t \cup {Nil} /\ Y \in DOMAIN t \cup {Nil}
        /\ S[P2] = {P2} \cup S[X] \cup S[Y]
        /\ \A x \in S[X] : Beyond(s, x, P2)
        /\ \A x \in S[Y] : Beyond(o, x, P2)
    <2>1. Hangs(t, S, P2)
      BY <1>5 DEF Searchable
    <2> QED
      BY ONLY <1>0, <2>1, s \in Side, o = Opposite(s), HangsSeen
  <1>8. /\ IsTree(u) /\ DOMAIN u = DOMAIN t
        /\ u[P][s] = Y /\ u[P][o] = C
        /\ u[P].tag = (IF t[P2].tag = s THEN o ELSE "even")
        /\ u[P1][s] = A /\ u[P1][o] = X
        /\ u[P1].tag = (IF t[P2].tag = o THEN s ELSE "even")
        /\ u[P2][s] = P1 /\ u[P2][o] = P /\ u[P2].tag = "even"
        /\ \A k \in DOMAIN t : u[k].value = t[k].value /\ u[k].count = t[k].count
        /\ \A k \in DOMAIN t \ {P, P1, P2} : u[k] = t[k]
    BY <1>0, <1>1, <1>5, DoubleFacts
  <1>9. PICK T : T = [S EXCEPT ![P2] = S[P], ![P1] = {P1} \cup S[A] \cup S[X],
                               ![P] = {P} \cup S[Y] \cup S[C]]
    OBVIOUS
  <1>10. /\ IsBelow(u, T) /\ T[P2] = S[P] /\ T[P] = {P} \cup S[Y] \cup S[C]
         /\ T[P1] = {P1} \cup S[A] \cup S[X]
         /\ \A k \in (DOMAIN t \cup {Nil}) \ {P, P1, P2} : T[k] = S[k]
    <2>1. S \in [DOMAIN t \cup {Nil} -> SUBSET DOMAIN t] /\ S[Nil] = {}
      BY DEF Searchable, IsBelow
    <2>2. PICK a, b, c : a = {P1} \cup S[A] \cup S[X] /\ b = {P} \cup S[Y] \cup S[C] /\ c = S[P]
      OBVIOUS
    <2>3. a \subseteq DOMAIN t /\ b \subseteq DOMAIN t /\ c \subseteq DOMAIN t
      BY <1>2, <1>7, <2>1, <2>2
    <2>4. T = [S EXCEPT ![P2] = c, ![P1] = a, ![P] = b]
      BY <1>9, <2>2
    <2>5. /\ P \in DOMAIN t /\ P1 \in DOMAIN t /\ P2 \in DOMAIN t
          /\ P # Nil /\ P1 # Nil /\ P2 # Nil /\ P # P1 /\ P # P2 /\ P1 # P2
      BY <1>1, <1>5, <1>6
    <2>6. /\ T \in [DOMAIN t \cup {Nil} -> SUBSET DOMAIN t] /\ T[Nil] = {}
          /\ T[P2] = c /\ T[P] = b /\ T[P1] = a
          /\ \A k \in (DOMAIN t \cup {Nil}) \ {P, P1, P2} : T[k] = S[k]
      BY ONLY <2>1, <2>3, <2>4, <2>5
    <2> QED
      BY <1>8, <2>2, <2>6 DEF IsBelow
  <1>11. T[A] = S[A] /\ T[X] = S[X] /\ T[Y] = S[Y] /\ T[C] = S[C]
    BY <1>1, <1>2, <1>6, <1>7, <1>10
  <1>12. Hangs(u, T, P)
    <2>1. /\ Y \in DOMAIN u \cup {Nil} /\ C \in DOMAIN u \cup {Nil}
          /\ T[P] = {P} \cup T[Y] \cup T[C]
          /\ \A x \in T[Y] : Beyond(s, x, P)
          /\ \A x \in T[C] : Beyond(o, x, P)
      BY <1>2, <1>7, <1>8, <1>10, <1>11
    <2> QED
      BY ONLY <1>8, <2>1, s \in Side, o = Opposite(s), HangsIf
  <1>13. Hangs(u, T, P1)
    <2>1. /\ A \in DOMAIN u \cup {Nil} /\ X \in DOMAIN u \cup {Nil}
          /\ T[P1] = {P1} \cup T[A] \cup T[X]
          /\ \A x \in T[A] : Beyond(s, x, P1)
          /\ \A x \in T[X] : Beyond(o, x, P1)
      BY <1>2, <1>7, <1>8, <1>10, <1>11
    <2> QED
      BY ONLY <1>8, <2>1, s \in Side, o = Opposite(s), HangsIf
  <1>14. Hangs(u, T, P2)
    <2>0. \A k \in DOMAIN t : S[k] \subseteq Key
      BY DEF Searchable, IsBelow, IsTree
    <2>1. Beyond(s, P1, P2) /\ Beyond(o, P, P2)
      <3>1. Beyond(o, P2, P1) /\ Beyond(s, P2, P)
        BY <1>2, <1>6
      <3>2. Opposite(o) = s
        BY Sides
      <3> QED
        BY ONLY <1>1, <1>6, <3>1, <3>2, s \in Side, o = Opposite(s), BeyondFacts
    <2>2. \A x \in S[A] : Beyond(s, x, P2)
      <3> TAKE x \in S[A]
      <3>1. x \in Key /\ Beyond(s, x, P1)
        BY <1>2, <2>0
      <3> QED
        BY ONLY <1>1, <1>6, <2>1, <3>1, s \in Side, BeyondFacts
    <2>3. \A x \in S[C] : Beyond(o, x, P2)
      <3> TAKE x \in S[C]
      <3>1. x \in Key /\ Beyond(o, x, P)
        BY <1>2, <2>0
      <3> QED
        BY ONLY <1>1, <1>6, <2>1, <3>1, BeyondFacts
    <2>4. /\ P1 \in DOMAIN u \cup {Nil} /\ P \in DOMAIN u \cup {Nil}
          /\ T[P2] = {P2} \cup T[P1] \cup T[P]
          /\ \A x \in T[P1] : Beyond(s, x, P2)
          /\ \A x \in T[P] : Beyond(o, x, P2)
      BY <1>2, <1>7, <1>8, <1>10, <2>1, <2>2, <2>3
    <2> QED
      BY ONLY <1>8, <2>4, s \in Side, o = Opposite(s), HangsIf
  <1>15. PICK I : I = [H EXCEPT ![P] = H[A] + 1, ![P1] = H[A] + 1, ![P2] = H[A] + 2]
    OBVIOUS
  <1>16. /\ IsDepth(u, I) /\ I[P] = H[A] + 1 /\ I[P1] = H[A] + 1 /\ I[P2] = H[A] + 2
         /\ \A k \in (DOMAIN t \cup {Nil}) \ {P, P1, P2} : I[k] = H[k]
    <2>1. H[A] + 1 \in Nat /\ H[A] + 2 \in Nat
      BY <1>4
    <2> QED
      BY <1>1, <1>5, <1>6, <1>8, <1>15, <2>1 DEF IsDepth
  <1>17. I[A] = H[A] /\ I[X] = H[X] /\ I[Y] = H[Y] /\ I[C] = H[A]
    BY <1>1, <1>2, <1>4, <1>6, <1>7, <1>16
  <1>18. /\ H[X] \in Nat /\ H[Y] \in Nat
         /\ \/ t[P2].tag = "even" /\ H[X] = H[A] /\ H[Y] = H[A]
            \/ t[P2].tag = s /\ H[X] = H[A] /\ H[A] = H[Y] + 1
            \/ t[P2].tag = o /\ H[Y] = H[A] /\ H[A] = H[X] + 1
    <2>1. H[X] \in Nat /\ H[Y] \in Nat
      BY <1>7 DEF IsDepth
    <2>2. Leans(t[P2].tag, s, H[X], H[Y], H[P2])
      <3>1. Level(t, H, P2)
        BY <1>6
      <3> QED
        BY ONLY <1>0, <3>1, s \in Side, o = Opposite(s), LevelSeen
    <2>3. PICK a, x, y : a = H[A] /\ x = H[X] /\ y = H[Y]
      OBVIOUS
    <2>4. a \in Nat /\ x \in Nat /\ y \in Nat /\ Leans(t[P2].tag, s, x, y, a + 1)
      BY <1>4, <2>1, <2>2, <2>3
    <2>5. \/ t[P2].tag = "even" /\ x = a /\ y = a
          \/ t[P2].tag = s /\ x = a /\ a = y + 1
          \/ t[P2].tag = o /\ y = a /\ a = x + 1
      BY ONLY <2>4, o = Opposite(s) DEF Leans
    <2> QED
      BY <2>1, <2>3, <2>5
  <1>19. Level(u, I, P)
    <2>1. Leans(u[P].tag, s, I[Y], I[C], I[P])
      BY <1>1, <1>3, <1>4, <1>8, <1>16, <1>17, <1>18 DEF Leans
    <2> QED
      BY ONLY <1>8, <2>1, s \in Side, o = Opposite(s), LevelSeen
  <1>20. Level(u, I, P1)
    <2>1. Leans(u[P1].tag, s, I[A], I[X], I[P1])
      BY <1>1, <1>3, <1>4, <1>8, <1>16, <1>17, <1>18 DEF Leans
    <2> QED
      BY ONLY <1>8, <2>1, s \in Side, o = Opposite(s), LevelSeen
  <1>21. Level(u, I, P2)
    <2>1. u[P2].tag = "even" /\ u[P2][s] = P1 /\ u[P2][o] = P
      BY <1>8
    <2>2. Leans(u[P2].tag, s, I[P1], I[P], I[P2])
      BY <1>4, <1>16, <2>1 DEF Leans
    <2> QED
      BY ONLY <2>1, <2>2, s \in Side, o = Opposite(s), LevelSeen
  <1>22. Rebuilt(t, u, S, T, H, I, {P, P1, P2}, P, P2, 0)
    <2>1. \A k \in {P, P1, P2} \ {P} : \E j \in {P, P1, P2} : \E a \in Side : t[j][a] = k
      BY <1>1
    <2>2. /\ {P, P1, P2} \subseteq S[P]
          /\ \A k \in DOMAIN t \ {P, P1, P2} : u[k] = t[k]
      BY <1>1, <1>4, <1>6, <1>8, <1>10, <1>12, <1>13, <1>14, <1>16
    <2>3. \A k \in (DOMAIN t \cup {Nil}) \ {P, P1, P2} : T[k] = S[k] /\ I[k] = H[k]
      BY ONLY <1>10, <1>16
    <2>4. \A k \in {P, P1, P2} : Hangs(u, T, k) /\ Level(u, I, k)
      BY ONLY <1>12, <1>13, <1>14, <1>19, <1>20, <1>21
    <2>5. I[P2] = H[P] + 0
      BY ONLY <1>4, <1>16
    <2> QED
      BY ONLY <1>8, <1>10, <1>16, <2>1, <2>2, <2>3, <2>4, <2>5 DEF Rebuilt
  <1> QED
    BY <1>5, <1>22

(* SETTING KEY returns to P with the subtree Q, G deeper than it was. *)
Returned(t, P, s, q, g, u, R, growth) ==
  \/ g = 0 /\ u = t /\ R = P /\ growth = 0
  \/ g = 1 /\ t[P].tag = Opposite(s) /\ u = [t EXCEPT ![P].tag = "even"] /\ R = P /\ growth = 0
  \/ g = 1 /\ t[P].tag = "even" /\ u = [t EXCEPT ![P].tag = s] /\ R = P /\ growth = 1
  \/ g = 1 /\ t[P].tag = s /\ t[q].tag = s /\ u = Single(t, P, s) /\ R = q /\ growth = 0
  \/ /\ g = 1 /\ t[P].tag = s /\ t[q].tag # s /\ u = Double(t, P, s)
     /\ R = t[q][Opposite(s)] /\ growth = 0

(* Storing a tag is all that P needs when the depths differ by one at most. *)
LEMMA TagRebuilt ==
  ASSUME NEW t, IsTree(t), NEW S, Searchable(t, S), NEW H, IsDepth(t, H), NEW P \in DOMAIN t,
         NEW s \in Side, NEW x \in Tag, NEW u, u = [t EXCEPT ![P].tag = x],
         NEW growth \in {0, 1}, growth = 1 => x # "even",
         Leans(x, s, H[t[P][s]], H[t[P][Opposite(s)]], H[P] + growth)
  PROVE  \E T, I : Rebuilt(t, u, S, T, H, I, {P}, P, P, growth)
  <1>1. TagIs(t, u, P, x)
    BY TagSet
  <1>2. PICK I : I = [H EXCEPT ![P] = H[P] + growth]
    OBVIOUS
  <1>3. P \in S[P] /\ P # Nil /\ H[P] \in Nat
    BY KeyAssumption, NotBelowItself, Sides DEF Searchable, IsTree, IsDepth, Side
  <1>4. /\ IsDepth(u, I) /\ I[P] = H[P] + growth
        /\ \A k \in (DOMAIN t \cup {Nil}) \ {P} : I[k] = H[k]
    BY <1>1, <1>2, <1>3 DEF TagIs, IsDepth
  <1>5. IsBelow(u, S) /\ Hangs(u, S, P)
    <2>1. IsBelow(u, S)
      BY <1>1 DEF TagIs, Searchable, IsBelow
    <2>2. Hangs(t, S, P) /\ \A a \in Side : Opposite(a) \in Side
      BY Sides DEF Searchable
    <2>3. Hangs(u, S, P)
      BY <1>1, <2>2 DEF TagIs, Hangs
    <2> QED
      BY <2>1, <2>3
  <1>6. Level(u, I, P)
    <2>1. \A a \in Side : t[P][a] \in (DOMAIN t \cup {Nil}) \ {P}
      <3> TAKE a \in Side
      <3>1. t[P][a] \in DOMAIN t \cup {Nil} /\ P \notin S[t[P][a]]
        BY NotBelowItself DEF Searchable
      <3>2. t[P][a] # P
        BY <1>3, <3>1
      <3> QED
        BY <3>1, <3>2
    <2>2. Opposite(s) \in Side
      BY Sides
    <2>3. /\ u[P][s] = t[P][s] /\ u[P][Opposite(s)] = t[P][Opposite(s)] /\ u[P].tag = x
          /\ I[t[P][s]] = H[t[P][s]] /\ I[t[P][Opposite(s)]] = H[t[P][Opposite(s)]]
      BY <1>1, <1>4, <2>1, <2>2 DEF TagIs
    <2>4. Leans(u[P].tag, s, I[u[P][s]], I[u[P][Opposite(s)]], I[P])
      BY <1>4, <2>3
    <2> QED
      BY <2>4, LevelSeen
  <1>7. Rebuilt(t, u, S, S, H, I, {P}, P, P, growth)
    BY <1>1, <1>3, <1>4, <1>5, <1>6 DEF Rebuilt, TagIs
  <1> QED
    BY <1>7

(***************************************************************************)
(* Whichever way SETTING KEY returns, the subtree it returns is balanced   *)
(* and has the same keys, and HIGHER says if it is deeper than it was.     *)
(***************************************************************************)
LEMMA ReturnRebuilds ==
  ASSUME NEW t, IsTree(t), NEW S, Searchable(t, S), NEW H, IsDepth(t, H), NEW P \in DOMAIN t,
         NEW s \in Side, NEW q \in DOMAIN t, q = t[P][s], NEW g,
         \A k \in S[q] : Level(t, H, k),
         Leans(t[P].tag, s, H[q] - g, H[t[P][Opposite(s)]], H[P]),
         g = 1 => t[q].tag # "even" \/ H[q] = 1,
         NEW u, NEW R, NEW growth, Returned(t, P, s, q, g, u, R, growth)
  PROVE  \E T, I, M : Rebuilt(t, u, S, T, H, I, M, P, R, growth)
  <1> DEFINE o == Opposite(s)
  <1>1. /\ o \in Side /\ o # s /\ s # "even" /\ o # "even" /\ s \in Tag /\ "even" \in Tag
        /\ Tag = {s, o, "even"}
    BY Sides DEF Side, Tag
  <1>2. PICK a, b, h : a = H[q] /\ b = H[t[P][o]] /\ h = H[P]
    OBVIOUS
  <1>3. a \in Nat /\ b \in Nat /\ h \in Nat
    BY <1>1, <1>2 DEF IsDepth, Searchable, Hangs
  <1>4. t[P].tag \in Tag /\ t[q].tag \in Tag
    BY DEF IsTree, Binder
  <1>5. Leans(t[P].tag, s, a - g, b, h)
    BY <1>2
  <1>6. ASSUME g = 0, u = t, R = P, growth = 0 PROVE \E T, I : Rebuilt(t, u, S, T, H, I, {P}, P, P, growth)
    <2>1. u = [t EXCEPT ![P].tag = t[P].tag]
      BY <1>6 DEF IsTree, Binder
    <2>2. Leans(t[P].tag, s, a, b, h + growth)
      BY ONLY <1>3, <1>5, g = 0, growth = 0, <1>6 DEF Leans
    <2>3. Leans(t[P].tag, s, H[t[P][s]], H[t[P][Opposite(s)]], H[P] + growth)
      BY <1>2, <2>2
    <2>4. t[P].tag \in Tag /\ growth \in {0, 1} /\ (growth = 1 => t[P].tag # "even")
      BY <1>1, <1>4, <1>6
    <2> QED
      BY ONLY <1>6, <2>3, <2>4, <2>1, IsTree(t), Searchable(t, S), IsDepth(t, H), P \in DOMAIN t,
              s \in Side, TagRebuilt
  <1>7. ASSUME g = 1, t[P].tag = o, u = [t EXCEPT ![P].tag = "even"], R = P, growth = 0
        PROVE \E T, I : Rebuilt(t, u, S, T, H, I, {P}, P, P, growth)
    <2>1. Leans("even", s, a, b, h + growth)
      BY ONLY <1>1, <1>3, <1>5, <1>7 DEF Leans
    <2>2. Leans("even", s, H[t[P][s]], H[t[P][Opposite(s)]], H[P] + growth)
      BY <1>2, <2>1
    <2>3. "even" \in Tag /\ growth \in {0, 1} /\ (growth = 1 => "even" # "even")
      BY <1>1, <1>4, <1>7
    <2> QED
      BY ONLY <1>7, <2>2, <2>3, IsTree(t), Searchable(t, S), IsDepth(t, H), P \in DOMAIN t,
              s \in Side, TagRebuilt
  <1>8. ASSUME g = 1, t[P].tag = "even", u = [t EXCEPT ![P].tag = s], R = P, growth = 1
        PROVE \E T, I : Rebuilt(t, u, S, T, H, I, {P}, P, P, growth)
    <2>1. Leans(s, s, a, b, h + growth)
      BY ONLY <1>1, <1>3, <1>5, <1>8 DEF Leans
    <2>2. Leans(s, s, H[t[P][s]], H[t[P][Opposite(s)]], H[P] + growth)
      BY <1>2, <2>1
    <2>3. s \in Tag /\ growth \in {0, 1} /\ (growth = 1 => s # "even")
      BY <1>1, <1>4, <1>8
    <2> QED
      BY ONLY <1>8, <2>2, <2>3, IsTree(t), Searchable(t, S), IsDepth(t, H), P \in DOMAIN t,
              s \in Side, TagRebuilt
  <1>9. ASSUME g = 1, t[P].tag = s, t[q].tag = s, u = Single(t, P, s), R = q, growth = 0
        PROVE \E T, I : Rebuilt(t, u, S, T, H, I, {P, q}, P, q, growth)
    <2>1. Level(t, H, q)
      BY NotBelowItself DEF Searchable
    <2> QED
      BY <1>9, <2>1, SingleRebuilt
  <1>10. ASSUME g = 1, t[P].tag = s, t[q].tag # s, u = Double(t, P, s), R = t[q][o], growth = 0
         PROVE \E T, I : Rebuilt(t, u, S, T, H, I, {P, q, t[q][o]}, P, R, growth)
    <2>1. a # 1
      BY ONLY <1>1, <1>3, <1>5, <1>10 DEF Leans
    <2>2. t[q].tag = o
      BY <1>1, <1>2, <1>4, <1>10, <2>1
    <2> QED
      BY <1>10, <2>2, DoubleRebuilt
  <1>11. \/ g = 0 /\ u = t /\ R = P /\ growth = 0
         \/ g = 1 /\ t[P].tag = o /\ u = [t EXCEPT ![P].tag = "even"] /\ R = P /\ growth = 0
         \/ g = 1 /\ t[P].tag = "even" /\ u = [t EXCEPT ![P].tag = s] /\ R = P /\ growth = 1
         \/ g = 1 /\ t[P].tag = s /\ t[q].tag = s /\ u = Single(t, P, s) /\ R = q /\ growth = 0
         \/ /\ g = 1 /\ t[P].tag = s /\ t[q].tag # s /\ u = Double(t, P, s)
            /\ R = t[q][o] /\ growth = 0
    BY DEF Returned
  <1> HIDE DEF o
  <1> QED
    BY <1>6, <1>7, <1>8, <1>9, <1>10, <1>11

-----------------------------------------------------------------------------
(* The path of SETTING KEY *)

(* Where the path P that leads to Q goes on from its Ith binder, and begins. *)
After(p, q, i) == IF i = Len(p) THEN q ELSE p[i + 1]

Root(p, q) == IF p = << >> THEN q ELSE p[1]

(* The path is that of the search for KEY. *)
Linked(t, p, q, key) ==
  /\ p \in Seq(DOMAIN t) /\ q \in DOMAIN t \cup {Nil}
  /\ \A i \in 1 .. Len(p) : p[i] # key /\ t[p[i]][Toward(key, p[i])] = After(p, q, i)

(* Where the binders of the path are, and what follows each of them. *)
LEMMA PathFacts ==
  ASSUME NEW t, NEW p, NEW q, NEW key, Linked(t, p, q, key)
  PROVE  /\ Len(p) \in Nat /\ DOMAIN p = 1 .. Len(p) /\ (p = << >> <=> Len(p) = 0)
         /\ \A i \in 1 .. Len(p) : p[i] \in DOMAIN t /\ After(p, q, i) \in DOMAIN t \cup {Nil}
         /\ p # << >> => /\ Len(p) \in 1 .. Len(p) /\ 1 \in 1 .. Len(p) /\ Last(p) = p[Len(p)]
                         /\ After(p, q, Len(p)) = q
  BY DEF Linked, After, Last

(* All that follows on the path hangs on its side. *)
LEMMA PathBelow ==
  ASSUME NEW t, IsTree(t), NEW S, Searchable(t, S), NEW p, NEW q, NEW key, Linked(t, p, q, key),
         NEW i \in 1 .. Len(p)
  PROVE  /\ \A j \in (i + 1) .. Len(p) : p[j] \in S[After(p, q, i)]
         /\ q \in DOMAIN t => q \in S[After(p, q, i)]
  <1>0. /\ Len(p) \in Nat /\ \A x \in DOMAIN t : x \in S[x]
        /\ \A j \in 1 .. Len(p) : p[j] \in DOMAIN t /\ After(p, q, j) \in DOMAIN t \cup {Nil}
    BY PathFacts, Sides DEF Searchable, Hangs, Side
  <1>1. \A j \in 1 .. Len(p) : S[After(p, q, j)] \subseteq S[p[j]]
    <2> TAKE j \in 1 .. Len(p)
    <2>1. PICK k, s : k = p[j] /\ s = Toward(key, k)
      OBVIOUS
    <2>2. k \in DOMAIN t /\ s \in Side /\ t[k][s] = After(p, q, j)
      BY <1>0, <2>1, TowardSide DEF Linked
    <2>3. S[t[k][s]] \subseteq S[k]
      BY <2>2, NotBelowItself DEF Searchable
    <2> QED
      BY <2>1, <2>2, <2>3
  <1> DEFINE Bad == { j \in (i + 1) .. Len(p) : p[j] \notin S[After(p, q, i)] }
  <1>2. Bad = {}
    <2> SUFFICES ASSUME Bad # {} PROVE FALSE
      OBVIOUS
    <2>1. PICK j \in Bad : \A m \in Bad : j <= m
      <3>1. Bad \in SUBSET Nat
        BY <1>0
      <3> HIDE DEF Bad
      <3> QED
        BY <3>1, LeastMember
    <2>2. j \in (i + 1) .. Len(p) /\ p[j] \notin S[After(p, q, i)]
      OBVIOUS
    <2>3. PICK h : h = j - 1
      OBVIOUS
    <2>4. h \in i .. Len(p) /\ h \in 1 .. Len(p) /\ h # Len(p) /\ j = h + 1 /\ p[j] = After(p, q, h)
      BY <1>0, <2>2, <2>3 DEF After
    <2>5. p[j] \in S[After(p, q, h)]
      BY <1>0, <2>2, <2>4
    <2>6. h # i
      BY <2>2, <2>5
    <2>7. h \in (i + 1) .. Len(p) /\ ~(j <= h)
      BY <1>0, <2>2, <2>4, <2>6
    <2>8. p[h] \in S[After(p, q, i)]
      <3>1. h \notin Bad
        BY <2>1, <2>7
      <3> QED
        BY <2>7, <3>1
    <2>9. S[p[h]] \subseteq S[After(p, q, i)]
      <3>1. After(p, q, i) \in DOMAIN t
        BY <1>0, <2>8 DEF Searchable, IsBelow
      <3> QED
        BY <2>8, <3>1, BelowTransitive
    <2> QED
      BY <1>1, <2>2, <2>4, <2>5, <2>9
  <1>3. ASSUME q \in DOMAIN t PROVE q \in S[After(p, q, i)]
    <2>1. CASE i = Len(p)
      BY <1>0, <1>3, <2>1 DEF After
    <2>2. CASE i # Len(p)
      <3>1. Len(p) \in (i + 1) .. Len(p) /\ Len(p) \in 1 .. Len(p) /\ After(p, q, Len(p)) = q
        BY <1>0, <2>2 DEF After
      <3>2. p[Len(p)] \in S[After(p, q, i)]
        BY <1>2, <3>1
      <3>3. S[p[Len(p)]] \subseteq S[After(p, q, i)]
        <4>1. After(p, q, i) \in DOMAIN t
          BY <1>0, <3>2 DEF Searchable, IsBelow
        <4> QED
          BY <3>2, <4>1, BelowTransitive
      <3>4. q \in S[p[Len(p)]]
        BY <1>0, <1>1, <1>3, <3>1
      <3> QED
        BY <3>3, <3>4
    <2> QED
      BY <2>1, <2>2
  <1> QED
    BY <1>2, <1>3

(* What is on the path hangs above what follows. *)
LEMMA PathApart ==
  ASSUME NEW t, IsTree(t), NEW S, Searchable(t, S), NEW p, NEW q, NEW key, Linked(t, p, q, key),
         NEW i \in 1 .. Len(p), NEW j \in (i + 1) .. Len(p)
  PROVE  p[i] \notin S[p[j]]
  <1>1. p[j] \in S[After(p, q, i)]
    BY PathBelow
  <1>2. /\ p[i] \in DOMAIN t /\ After(p, q, i) \in DOMAIN t \cup {Nil}
        /\ t[p[i]][Toward(key, p[i])] = After(p, q, i)
    <2>1. p[i] \in DOMAIN t /\ After(p, q, i) \in DOMAIN t \cup {Nil}
      BY PathFacts
    <2> QED
      BY <2>1 DEF Linked
  <1>3. p[i] \notin S[After(p, q, i)]
    <2>1. p[i] \notin S[t[p[i]][Toward(key, p[i])]]
      BY <1>2, TowardSide, NotBelowItself DEF Searchable
    <2> QED
      BY <1>2, <2>1
  <1>4. S[p[j]] \subseteq S[After(p, q, i)]
    <2>1. After(p, q, i) \in DOMAIN t
      BY <1>1, <1>2 DEF Searchable, IsBelow
    <2> QED
      BY <1>1, <2>1, BelowTransitive
  <1> QED
    BY <1>3, <1>4

(* A binder of the path hangs from the one before it. *)
LEMMA PathFrom ==
  ASSUME NEW t, IsTree(t), NEW S, NEW p, NEW q, NEW key, Linked(t, p, q, key),
         Whole(t, Root(p, q), S), NEW k \in DOMAIN t, NEW b \in Side
  PROVE  /\ \A j \in 1 .. Len(p) : t[k][b] = p[j] =>
              j > 1 /\ j - 1 \in 1 .. Len(p) /\ p[j - 1] = k /\ b = Toward(key, k)
         /\ t[k][b] = q /\ q # Nil =>
              p # << >> /\ k = Last(p) /\ b = Toward(key, k)
  <1>0. /\ Len(p) \in Nat /\ Nil \notin DOMAIN t /\ Searchable(t, S)
        /\ \A j \in 1 .. Len(p) : p[j] \in DOMAIN t
    BY PathFacts, KeyAssumption DEF Whole, IsTree
  <1>1. Root(p, q) \in DOMAIN t /\ S[Root(p, q)] = DOMAIN t
    <2>1. Root(p, q) # Nil
      BY <1>0 DEF Whole, Searchable, IsBelow
    <2> QED
      BY <2>1 DEF Whole
  <1>2. ASSUME NEW j \in 1 .. Len(p), t[k][b] = p[j]
        PROVE  j > 1 /\ j - 1 \in 1 .. Len(p) /\ p[j - 1] = k /\ b = Toward(key, k)
    <2>1. t[k][b] # Nil
      BY <1>0, <1>2
    <2>2. t[k][b] # Root(p, q)
      BY <1>0, <1>1, <2>1, OneParent
    <2>3. j # 1 /\ j - 1 \in 1 .. Len(p) /\ j - 1 # Len(p)
      BY <1>0, <1>2, <2>2 DEF Root
    <2>4. PICK x, s : x = p[j - 1] /\ s = Toward(key, x)
      OBVIOUS
    <2>5. x \in DOMAIN t /\ s \in Side /\ t[x][s] = p[j]
      BY <1>0, <2>3, <2>4, TowardSide DEF Linked, After
    <2>6. x = k /\ s = b
      BY <1>0, <1>1, <1>2, <2>1, <2>5, OneParent
    <2> QED
      BY <2>3, <2>4, <2>6
  <1>3. ASSUME t[k][b] = q, q # Nil
        PROVE  p # << >> /\ k = Last(p) /\ b = Toward(key, k)
    <2>1. t[k][b] # Root(p, q)
      BY <1>0, <1>1, <1>3, OneParent
    <2>2. p # << >>
      BY <1>3, <2>1 DEF Root
    <2>3. Len(p) \in 1 .. Len(p) /\ Last(p) = p[Len(p)] /\ After(p, q, Len(p)) = q
      BY <2>2, PathFacts
    <2>4. PICK x, s : x = p[Len(p)] /\ s = Toward(key, x)
      OBVIOUS
    <2>5. x \in DOMAIN t /\ s \in Side /\ t[x][s] = q
      BY <1>0, <2>3, <2>4, TowardSide DEF Linked
    <2>6. x = k /\ s = b
      BY <1>0, <1>1, <1>3, <2>5, OneParent
    <2> QED
      BY <2>2, <2>3, <2>4, <2>6
  <1> QED
    BY <1>2, <1>3

-----------------------------------------------------------------------------
(* SETTING KEY on its way up *)

(* A binder of the path, which does not know yet that its subtree is G deeper. *)
PathLeans(t, H, p, q, key, g, i) ==
  LET k == p[i]
      s == Toward(key, k)
  IN Leans(t[k].tag, s, H[After(p, q, i)] - (IF i = Len(p) THEN g ELSE 0),
           H[t[k][Opposite(s)]], H[k])

(* The tree T when the subtree Q, G deeper than it was, is stored at the end of the path P. *)
Rising(t, S, H, p, q, key, g) ==
  /\ IsTree(t) /\ Linked(t, p, q, key) /\ q \in DOMAIN t /\ key \in DOMAIN t
  /\ Whole(t, Root(p, q), S) /\ IsDepth(t, H)
  /\ \A k \in DOMAIN t : (\A i \in 1 .. Len(p) : p[i] # k) => Level(t, H, k)
  /\ \A i \in 1 .. Len(p) : PathLeans(t, H, p, q, key, g, i)
  /\ g \in {0, 1} /\ (g = 1 => t[q].tag # "even" \/ H[q] = 1)

(* Q is stored at the end of the path P. *)
Stored(n, p, q, key) ==
  IF p = << >> THEN n ELSE [n EXCEPT ![Last(p)][Toward(key, Last(p))] = q]

(* Storing P0 at the end of the path changes the last binder, toward the key. *)
LEMMA StoredFacts ==
  ASSUME NEW n, IsTree(n), NEW p \in Seq(DOMAIN n), NEW q \in Key \cup {Nil}, NEW key,
         NEW v, v = Stored(n, p, q, key)
  PROVE  /\ IsTree(v) /\ DOMAIN v = DOMAIN n
         /\ \A k \in DOMAIN n : /\ v[k].tag = n[k].tag
                                /\ v[k].value = n[k].value /\ v[k].count = n[k].count
         /\ \A k \in DOMAIN n : v[k][Opposite(Toward(key, k))] = n[k][Opposite(Toward(key, k))]
         /\ \A k \in DOMAIN n : p # << >> /\ k = Last(p) => v[k][Toward(key, k)] = q
         /\ \A k \in DOMAIN n : ~(p # << >> /\ k = Last(p)) => v[k] = n[k]
  <1>1. CASE p = << >>
    BY <1>1 DEF Stored
  <1>2. CASE p # << >>
    <2>1. PICK P, s : P = Last(p) /\ s = Toward(key, P)
      OBVIOUS
    <2>2. P \in DOMAIN n /\ s \in Side
      BY <1>2, <2>1, TowardSide DEF Last
    <2>3. v = [n EXCEPT ![P][s] = q]
      BY <1>2, <2>1 DEF Stored
    <2>4. SideIs(n, v, P, s, Opposite(s), q)
      BY <2>2, <2>3, SideSet
    <2>5. \A k \in DOMAIN n : k # P => v[k] = n[k]
      BY <2>4 DEF SideIs
    <2>6. /\ IsTree(v) /\ DOMAIN v = DOMAIN n
          /\ v[P].tag = n[P].tag /\ v[P].value = n[P].value /\ v[P].count = n[P].count
          /\ v[P][Opposite(s)] = n[P][Opposite(s)] /\ v[P][s] = q
      BY <2>4 DEF SideIs
    <2>7. /\ v[P][Opposite(Toward(key, P))] = n[P][Opposite(Toward(key, P))]
          /\ v[P][Toward(key, P)] = q
      BY <2>1, <2>6
    <2>8. \A k \in DOMAIN n : /\ v[k].tag = n[k].tag
                              /\ v[k].value = n[k].value /\ v[k].count = n[k].count
                              /\ v[k][Opposite(Toward(key, k))] = n[k][Opposite(Toward(key, k))]
      <3> TAKE k \in DOMAIN n
      <3>1. CASE k = P
        BY ONLY <2>6, <2>7, <3>1
      <3>2. CASE k # P
        BY <2>5, <3>2
      <3> QED
        BY <3>1, <3>2
    <2>9. \A k \in DOMAIN n : k = Last(p) => v[k][Toward(key, k)] = q
      BY <2>1, <2>7
    <2>10. \A k \in DOMAIN n : ~(p # << >> /\ k = Last(p)) => v[k] = n[k]
      BY <1>2, <2>1, <2>5
    <2> QED
      BY <2>6, <2>8, <2>9, <2>10
  <1> QED
    BY <1>1, <1>2

(* What is left of a path without its end. *)
LEMMA FrontFacts ==
  ASSUME NEW X, NEW p \in Seq(X), p # << >>, NEW f, f = Front(p)
  PROVE  /\ f \in Seq(X) /\ Len(f) = Len(p) - 1 /\ Len(p) \in Nat \ {0}
         /\ \A i \in 1 .. Len(f) : i \in 1 .. Len(p) /\ i # Len(p) /\ f[i] = p[i]
         /\ f # << >> => /\ Len(f) \in 1 .. Len(f) /\ Len(f) \in 1 .. Len(p)
                         /\ Len(f) + 1 = Len(p) /\ Last(f) = p[Len(f)] /\ f[1] = p[1]
         /\ f = << >> => Len(p) = 1 /\ Last(p) = p[1]
         /\ Last(p) = p[Len(p)]
  <1>1. Len(p) \in Nat \ {0} /\ f = SubSeq(p, 1, Len(p) - 1)
    BY DEF Front
  <1>2. PICK n \in Nat : n = Len(p) - 1
    <2>1. \A m \in Nat \ {0} : m - 1 \in Nat
      OBVIOUS
    <2> QED
      BY <1>1, <2>1
  <1>3. Len(f) = n /\ f \in Seq(X) /\ \A i \in 1 .. n : f[i] = p[i]
    BY <1>1, <1>2
  <1>4. f = << >> <=> n = 0
    BY <1>3
  <1> QED
    BY <1>1, <1>2, <1>3, <1>4 DEF Last

(* SETTING KEY returns to the last binder of its path. *)
Climbs(t, S, H, p, q, key, g, u, R, growth) ==
  /\ Rising(t, S, H, p, q, key, g) /\ key \in Key /\ p # << >>
  /\ Returned(t, Last(p), Toward(key, Last(p)), q, g, u, R, growth)

(* What a return changes does not disturb the rest of the tree. *)
LEMMA Climb ==
  ASSUME NEW t, NEW S, NEW H, NEW p, NEW q, NEW key, NEW g, NEW u, NEW R, NEW growth,
         Climbs(t, S, H, p, q, key, g, u, R, growth)
  PROVE  /\ \E T, I : Rising(Stored(u, Front(p), R, key), T, I, Front(p), R, key, growth)
         /\ IsTree(u) /\ DOMAIN u = DOMAIN t
         /\ \A k \in DOMAIN t : u[k].value = t[k].value /\ u[k].count = t[k].count
  <1>0. PICK P, f, v : P = Last(p) /\ f = Front(p) /\ v = Stored(u, f, R, key)
    OBVIOUS
  <1>a. /\ Rising(t, S, H, p, q, key, g) /\ key \in Key /\ p # << >>
        /\ Returned(t, P, Toward(key, P), q, g, u, R, growth)
    BY <1>0 DEF Climbs
  <1> USE <1>0, <1>a
  <1> DEFINE D == DOMAIN t
  <1>1. /\ IsTree(t) /\ Linked(t, p, q, key) /\ q \in D /\ key \in D
        /\ Whole(t, Root(p, q), S) /\ IsDepth(t, H)
        /\ \A k \in D : (\A i \in 1 .. Len(p) : p[i] # k) => Level(t, H, k)
        /\ \A i \in 1 .. Len(p) : PathLeans(t, H, p, q, key, g, i)
        /\ g \in {0, 1} /\ (g = 1 => t[q].tag # "even" \/ H[q] = 1)
    BY DEF Rising
  <1>2. PICK s : s = Toward(key, P)
    OBVIOUS
  <1>3. /\ Len(p) \in Nat /\ p \in Seq(D) /\ Len(p) \in 1 .. Len(p) /\ P = p[Len(p)] /\ P \in D
        /\ After(p, q, Len(p)) = q /\ s \in Side /\ Searchable(t, S)
        /\ \A i \in 1 .. Len(p) : p[i] \in D
    <2>1. /\ Len(p) \in Nat /\ Len(p) \in 1 .. Len(p) /\ P = p[Len(p)]
          /\ After(p, q, Len(p)) = q /\ \A i \in 1 .. Len(p) : p[i] \in D
      BY <1>1, PathFacts
    <2> QED
      BY <1>1, <1>2, <2>1, TowardSide DEF Linked, Whole
  <1>4. q = t[P][s]
    BY <1>1, <1>2, <1>3 DEF Linked
  <1>5. PICK T, I, M : Rebuilt(t, u, S, T, H, I, M, P, R, growth)
    <2>1. Leans(t[P].tag, s, H[q] - g, H[t[P][Opposite(s)]], H[P])
      BY <1>1, <1>2, <1>3 DEF PathLeans
    <2>2. \A k \in S[q] : Level(t, H, k)
      <3> TAKE k \in S[q]
      <3>1. k \in D
        BY <1>1, <1>3 DEF Searchable, IsBelow
      <3>2. ASSUME NEW i \in 1 .. Len(p), p[i] = k PROVE FALSE
        <4>1. S[q] \subseteq S[After(p, q, i)]
          <5>1. q \in S[After(p, q, i)]
            BY <1>1, <1>3, PathBelow
          <5>2. After(p, q, i) \in D
            <6>1. After(p, q, i) \in D \cup {Nil}
              BY <1>1, PathFacts
            <6> QED
              BY <1>3, <5>1, <6>1 DEF Searchable, IsBelow
          <5> QED
            BY <1>1, <1>3, <5>1, <5>2, BelowTransitive
        <4>2. k \notin S[After(p, q, i)]
          <5>1. t[k][Toward(key, k)] = After(p, q, i)
            BY <1>1, <3>2 DEF Linked
          <5>2. k \notin S[t[k][Toward(key, k)]]
            BY <1>1, <1>3, <3>1, TowardSide, NotBelowItself DEF Searchable
          <5> QED
            BY <5>1, <5>2
        <4> QED
          BY <4>1, <4>2
      <3> QED
        BY <1>1, <3>1, <3>2
    <2>3. Returned(t, P, s, q, g, u, R, growth)
      BY <1>2
    <2> QED
      BY ONLY <1>1, <1>3, <1>4, <2>1, <2>2, <2>3, ReturnRebuilds
  <1>6. /\ IsTree(u) /\ DOMAIN u = D
        /\ IsBelow(u, T) /\ IsDepth(u, I)
        /\ M \subseteq S[P] /\ P \in M /\ R \in M /\ M \subseteq D
        /\ \A k \in D \ M : u[k] = t[k]
        /\ \A k \in (D \cup {Nil}) \ M : T[k] = S[k] /\ I[k] = H[k]
        /\ \A k \in M : Hangs(u, T, k) /\ Level(u, I, k)
        /\ \A k \in M \ {P} : \E j \in M : \E a \in Side : t[j][a] = k
        /\ T[R] = S[P] /\ I[R] = H[P] + growth
        /\ growth = 0 \/ (growth = 1 /\ u[R].tag # "even")
        /\ \A k \in D : u[k].value = t[k].value /\ u[k].count = t[k].count
    BY <1>3, <1>5 DEF Rebuilt, Searchable, IsBelow
  <1>7. /\ f \in Seq(D) /\ Len(f) = Len(p) - 1 /\ Len(p) \in Nat \ {0}
        /\ \A i \in 1 .. Len(f) : i \in 1 .. Len(p) /\ i # Len(p) /\ f[i] = p[i]
        /\ f # << >> => /\ Len(f) \in 1 .. Len(f) /\ Len(f) \in 1 .. Len(p)
                         /\ Len(f) + 1 = Len(p) /\ Last(f) = p[Len(f)] /\ f[1] = p[1]
        /\ f = << >> => Len(p) = 1 /\ Last(p) = p[1]
    BY <1>3, FrontFacts
  <1> HIDE DEF D
  \* The rest of the path is not touched.
  <1>8. \A i \in 1 .. Len(f) : f[i] \in D \ M
    <2> TAKE i \in 1 .. Len(f)
    <2>1. i \in 1 .. Len(p) /\ Len(p) \in (i + 1) .. Len(p) /\ f[i] = p[i]
      BY SMTT(40), <1>3, <1>7
    <2>2. p[i] \notin S[P]
      BY <1>1, <1>3, <2>1, PathApart
    <2> QED
      BY <1>3, <1>6, <2>1, <2>2
  \* What hangs from the rest of the tree, but for the end of the path, is not touched.
  <1>9. ASSUME NEW k \in D \ M, NEW b \in Side,
               ~(f # << >> /\ k = Last(f) /\ b = Toward(key, k))
        PROVE  t[k][b] \in (D \cup {Nil}) \ M
    <2>1. t[k][b] \in D \cup {Nil} /\ Nil \notin D
      BY <1>1, <1>3, KeyAssumption DEF Searchable, Hangs, IsTree, D
    <2>2. t[k][b] # P
      <3> SUFFICES ASSUME t[k][b] = P PROVE FALSE
        OBVIOUS
      <3>1. Len(p) > 1 /\ Len(p) - 1 \in 1 .. Len(p) /\ p[Len(p) - 1] = k /\ b = Toward(key, k)
        BY <1>1, <1>3, PathFrom DEF D
      <3>2. f # << >>
        BY <1>7, <3>1
      <3> QED
        BY <1>7, <1>9, <3>1, <3>2
    <2>3. ASSUME t[k][b] \in M, t[k][b] # P PROVE FALSE
      <3>1. PICK j \in M : \E a \in Side : t[j][a] = t[k][b]
        BY <1>6, <2>3
      <3>2. PICK a \in Side : t[j][a] = t[k][b]
        BY <3>1
      <3>3. Root(p, q) \in DOMAIN t /\ S[Root(p, q)] = DOMAIN t
        <4>1. Root(p, q) = p[1] /\ 1 \in 1 .. Len(p)
          BY <1>7 DEF Root
        <4> QED
          BY <1>1, <1>3, <4>1 DEF Whole, D
      <3>4. k \in DOMAIN t /\ j \in DOMAIN t /\ t[k][b] # Nil
        BY <1>6, <2>1, <2>3 DEF D
      <3>5. j = k
        BY ONLY <1>1, <1>3, <3>2, <3>3, <3>4, b \in Side, OneParent
      <3> QED
        BY <3>5
    <2> QED
      BY <2>1, <2>2, <2>3
  <1>10. /\ IsTree(v) /\ DOMAIN v = D
         /\ \A k \in D : v[k].tag = u[k].tag
         /\ \A k \in D : v[k][Opposite(Toward(key, k))] = u[k][Opposite(Toward(key, k))]
         /\ \A k \in D : f # << >> /\ k = Last(f) => v[k][Toward(key, k)] = R
         /\ \A k \in D : ~(f # << >> /\ k = Last(f)) => v[k] = u[k]
    <2>1. R \in Key \cup {Nil} /\ f \in Seq(DOMAIN u)
      BY <1>1, <1>6, <1>7 DEF IsTree, D
    <2>2. v = Stored(u, f, R, key)
      BY <1>0
    <2> QED
      BY ONLY <1>6, <2>1, <2>2, StoredFacts
  <1>11. \A k \in M : v[k] = u[k]
    <2> TAKE k \in M
    <2>1. ~(f # << >> /\ k = Last(f))
      BY <1>7, <1>8
    <2> QED
      BY <1>6, <1>10, <2>1
  <1>12. \A k \in D \ M : \A b \in Side :
           \/ /\ v[k][b] = t[k][b] /\ v[k][b] \in (D \cup {Nil}) \ M
           \/ /\ f # << >> /\ k = Last(f) /\ b = Toward(key, k) /\ v[k][b] = R /\ t[k][b] = P
    <2> TAKE k \in D \ M
    <2> TAKE b \in Side
    <2>1. u[k] = t[k]
      BY <1>6
    <2>2. CASE f # << >> /\ k = Last(f)
      <3>1. CASE b = Toward(key, k)
        <4>1. v[k][b] = R
          BY <1>10, <2>2, <3>1
        <4>2. t[k][b] = P
          <5>1. k = p[Len(f)] /\ Len(f) \in 1 .. Len(p) /\ Len(f) # Len(p) /\ p[Len(f) + 1] = P
            BY <1>3, <1>7, <2>2
          <5> QED
            BY <1>1, <3>1, <5>1 DEF Linked, After
        <4> QED
          BY <2>2, <3>1, <4>1, <4>2
      <3>2. CASE b # Toward(key, k)
        <4>1. b = Opposite(Toward(key, k))
          BY <3>2, TowardSide, Sides DEF Side
        <4> QED
          BY <1>9, <1>10, <2>1, <3>2, <4>1
      <3> QED
        BY <3>1, <3>2
    <2>3. CASE ~(f # << >> /\ k = Last(f))
      BY <1>9, <1>10, <2>1, <2>3
    <2> QED
      BY <2>2, <2>3
  <1>13. Whole(v, Root(f, R), T)
    <2>1. IsBelow(v, T)
      BY <1>6, <1>10 DEF IsBelow
    <2>2. \A k \in M : Hangs(v, T, k)
      BY <1>6, <1>10, <1>11 DEF Hangs
    <2>3. ASSUME NEW k \in D \ M PROVE Hangs(v, T, k)
      <3>1. T[k] = S[k]
        BY <1>6
      <3>2. \A b \in Side : v[k][b] \in D \cup {Nil} /\ T[v[k][b]] = S[t[k][b]]
        BY <1>6, <1>12
      <3>3. Hangs(t, S, k) /\ \A b \in Side : Opposite(b) \in Side
        BY <1>3, Sides DEF Searchable, D
      <3> QED
        BY <1>10, <3>1, <3>2, <3>3 DEF Hangs
    <2>4. Root(f, R) \in D /\ T[Root(f, R)] = D
      <3>1. S[p[1]] = D
        BY <1>1, <1>7 DEF Whole, Root, D
      <3>2. CASE f = << >>
        BY <1>6, <1>7, <3>1, <3>2 DEF Root, D
      <3>3. CASE f # << >>
        <4>1. Root(f, R) = p[1] /\ p[1] \in D \ M
          BY <1>7, <1>8, <3>3 DEF Root
        <4> QED
          BY <1>6, <3>1, <4>1
      <3> QED
        BY <3>2, <3>3
    <2> QED
      BY <1>10, <2>1, <2>2, <2>3, <2>4 DEF Whole, Searchable
  <1>14. Linked(v, f, R, key)
    <2>1. ASSUME NEW i \in 1 .. Len(f)
          PROVE  f[i] # key /\ v[f[i]][Toward(key, f[i])] = After(f, R, i)
      <3>1. f[i] = p[i] /\ i \in 1 .. Len(p) /\ i # Len(p) /\ f[i] \in D \ M
        BY <1>7, <1>8
      <3>2. f[i] # key /\ t[f[i]][Toward(key, f[i])] = p[i + 1]
        BY <1>1, <3>1 DEF Linked, After
      <3>3. CASE i = Len(f)
        <4>1. f # << >> /\ f[i] = Last(f)
          BY <1>7, <3>3, <3>1
        <4> QED
          BY <1>10, <3>1, <3>2, <3>3, <4>1 DEF After
      <3>4. CASE i # Len(f)
        <4>1. i + 1 \in 1 .. Len(f)
          BY <1>7, <3>4
        <4>2. f[i + 1] = p[i + 1] /\ f[i + 1] \in D \ M
          BY <1>7, <1>8, <4>1
        <4>3. v[f[i]][Toward(key, f[i])] = t[f[i]][Toward(key, f[i])]
          BY <1>3, <1>6, <1>12, <3>1, <3>2, <4>2, TowardSide
        <4> QED
          BY <3>2, <3>4, <4>2, <4>3 DEF After
      <3> QED
        BY <3>3, <3>4
    <2> QED
      BY <1>6, <1>7, <1>10, <2>1 DEF Linked
  <1>15. \A k \in D : (\A i \in 1 .. Len(f) : f[i] # k) => Level(v, I, k)
    <2> TAKE k \in D
    <2> HAVE \A i \in 1 .. Len(f) : f[i] # k
    <2>1. CASE k \in M
      BY <1>6, <1>11, <2>1 DEF Level
    <2>2. CASE k \notin M
      <3>1. \A i \in 1 .. Len(p) : p[i] # k
        <4> TAKE i \in 1 .. Len(p)
        <4>1. CASE i = Len(p)
          BY <1>3, <1>6, <2>2, <4>1
        <4>2. CASE i # Len(p)
          BY SMTT(40), <1>3, <1>7, <4>2
        <4> QED
          BY <4>1, <4>2
      <3>2. Level(t, H, k) /\ \A b \in Side : Opposite(b) \in Side
        BY <1>1, <3>1, Sides DEF D
      <3>3. ~(f # << >> /\ k = Last(f))
        BY <1>7
      <3>4. v[k] = t[k] /\ I[k] = H[k]
        BY <1>6, <1>10, <2>2, <3>3
      <3>5. \A b \in Side : I[v[k][b]] = H[t[k][b]]
        BY <1>6, <1>12, <2>2, <3>3
      <3> QED
        BY <3>2, <3>4, <3>5 DEF Level
    <2> QED
      BY <2>1, <2>2
  <1>16. \A i \in 1 .. Len(f) : PathLeans(v, I, f, R, key, growth, i)
    <2> TAKE i \in 1 .. Len(f)
    <2>1. f[i] = p[i] /\ i \in 1 .. Len(p) /\ i # Len(p) /\ f[i] \in D \ M
      BY <1>7, <1>8
    <2>2. PICK k, b, c : k = f[i] /\ b = Toward(key, k) /\ c = t[k][Opposite(b)]
      OBVIOUS
    <2>3. k \in D \ M /\ b \in Side /\ Opposite(b) \in Side /\ Opposite(b) # b
      BY <2>1, <2>2, TowardSide, Sides
    <2>4. v[k].tag = t[k].tag /\ I[k] = H[k] /\ v[k][Opposite(b)] = c /\ I[c] = H[c]
      BY <1>6, <1>10, <1>12, <2>2, <2>3
    <2>5. Leans(t[k].tag, b, H[p[i + 1]] - 0, H[c], H[k])
      <3>1. PathLeans(t, H, p, q, key, g, i)
        BY <1>1, <2>1
      <3> QED
        BY <2>1, <2>2, <3>1 DEF PathLeans, After
    <2>6. H[p[i + 1]] - 0 = I[After(f, R, i)] - (IF i = Len(f) THEN growth ELSE 0)
      <3>1. CASE i = Len(f)
        <4>1. p[i + 1] = P /\ After(f, R, i) = R
          BY <1>3, <1>7, <3>1 DEF After
        <4>2. H[P] \in Nat /\ growth \in Nat
          <5>1. P \in DOMAIN t /\ IsDepth(t, H) /\ (growth = 0 \/ growth = 1)
            BY <1>1, <1>3, <1>6 DEF D
          <5> QED
            BY ONLY <5>1 DEF IsDepth
        <4> QED
          BY <1>6, <3>1, <4>1, <4>2
      <3>2. CASE i # Len(f)
        <4>1. i + 1 \in 1 .. Len(f) /\ After(f, R, i) = p[i + 1]
          BY SMTT(40), <1>7, <3>2 DEF After
        <4>2. p[i + 1] \in D \ M
          BY <1>7, <1>8, <4>1
        <4> QED
          BY <1>6, <3>2, <4>1, <4>2
      <3> QED
        BY <3>1, <3>2
    <2>7. Leans(v[k].tag, b, I[After(f, R, i)] - (IF i = Len(f) THEN growth ELSE 0), I[c], I[k])
      BY <2>4, <2>5, <2>6
    <2> QED
      BY <2>2, <2>4, <2>7 DEF PathLeans
  <1>17. IsDepth(v, I) /\ R \in D /\ v[R].tag = u[R].tag
    BY <1>6, <1>10 DEF IsDepth
  <1>18. Rising(v, T, I, f, R, key, growth)
    <2>1. growth \in {0, 1} /\ (growth = 1 => v[R].tag # "even" \/ I[R] = 1)
      BY <1>6, <1>17
    <2> QED
      BY ONLY <1>1, <1>10, <1>13, <1>14, <1>15, <1>16, <1>17, <2>1 DEF Rising, D
  <1> QED
    BY <1>6, <1>18 DEF D

-----------------------------------------------------------------------------
(* SETTING KEY where it turns *)

(* A tree that may be searched, and is balanced. *)
Sound(t, r) ==
  /\ IsTree(t)
  /\ \E S, H : Whole(t, r, S) /\ IsDepth(t, H) /\ \A k \in DOMAIN t : Level(t, H, k)

(* The same binders with other values and counts. *)
SameShape(t, v) ==
  /\ IsTree(v) /\ DOMAIN v = DOMAIN t
  /\ \A k \in DOMAIN t : v[k].tag = t[k].tag /\ \A s \in Side : v[k][s] = t[k][s]

(* A tree of the same shape is as sound. *)
LEMMA ShapeKeeps ==
  ASSUME NEW t, NEW v, SameShape(t, v)
  PROVE  /\ \A r, S : Whole(t, r, S) => Whole(v, r, S)
         /\ \A H : IsDepth(t, H) => IsDepth(v, H)
         /\ \A H : \A k \in DOMAIN t : Level(t, H, k) => Level(v, H, k)
         /\ \A p, q, key : Linked(t, p, q, key) => Linked(v, p, q, key)
         /\ \A r : Sound(t, r) => Sound(v, r)
  <1>1. \A s \in Side : Opposite(s) \in Side
    BY Sides
  <1>2. \A r, S : Whole(t, r, S) => Whole(v, r, S)
    <2>1. \A S : \A k \in DOMAIN t : Hangs(t, S, k) => Hangs(v, S, k)
      BY <1>1 DEF SameShape, Hangs
    <2> QED
      BY <2>1 DEF SameShape, Whole, Searchable, IsBelow
  <1>3. \A H : IsDepth(t, H) => IsDepth(v, H)
    BY DEF SameShape, IsDepth
  <1>4. \A H : \A k \in DOMAIN t : Level(t, H, k) => Level(v, H, k)
    BY <1>1 DEF SameShape, Level
  <1>5. ASSUME NEW p, NEW q, NEW key, Linked(t, p, q, key)
        PROVE  Linked(v, p, q, key)
    <2>1. \A i \in 1 .. Len(p) : p[i] \in DOMAIN t
      BY <1>5, PathFacts
    <2>2. \A i \in 1 .. Len(p) : v[p[i]][Toward(key, p[i])] = t[p[i]][Toward(key, p[i])]
      BY <2>1, TowardSide DEF SameShape
    <2> QED
      BY <1>5, <2>2 DEF SameShape, Linked
  <1>6. ASSUME NEW r, Sound(t, r) PROVE Sound(v, r)
    <2>1. PICK S, H : Whole(t, r, S) /\ IsDepth(t, H) /\ \A k \in DOMAIN t : Level(t, H, k)
      BY <1>6 DEF Sound
    <2>2. Whole(v, r, S) /\ IsDepth(v, H) /\ \A k \in DOMAIN v : Level(v, H, k)
      BY <1>2, <1>3, <1>4, <2>1 DEF SameShape
    <2> QED
      BY <2>2 DEF Sound, SameShape
  <1> QED
    BY <1>2, <1>3, <1>4, <1>5, <1>6

(* What hangs from the root, and from each binder where the path goes on, hangs from its end. *)
LEMMA PathFollowed ==
  ASSUME NEW t, NEW S, NEW p, NEW q, NEW key, Linked(t, p, q, key), NEW x, x \in S[Root(p, q)],
         \A i \in 1 .. Len(p) : x \in S[p[i]] => x \in S[After(p, q, i)]
  PROVE  x \in S[q]
  <1>0. Len(p) \in Nat /\ (p = << >> <=> Len(p) = 0)
    BY PathFacts
  <1>1. \A i \in 1 .. Len(p) : x \in S[p[i]] => x \in S[After(p, q, i)]
    OBVIOUS
  <1> DEFINE Bad == { i \in 1 .. Len(p) : x \notin S[p[i]] }
  <1>2. Bad = {}
    <2> SUFFICES ASSUME Bad # {} PROVE FALSE
      OBVIOUS
    <2>1. PICK i \in Bad : \A m \in Bad : i <= m
      <3>1. Bad \in SUBSET Nat
        BY <1>0
      <3> HIDE DEF Bad
      <3> QED
        BY <3>1, LeastMember
    <2>2. i \in 1 .. Len(p) /\ x \notin S[p[i]]
      OBVIOUS
    <2>3. i # 1
      BY <1>0, <2>2 DEF Root
    <2>4. PICK h : h = i - 1
      OBVIOUS
    <2>5. h \in 1 .. Len(p) /\ ~(i <= h) /\ h + 1 = i /\ h # Len(p)
      BY <1>0, <2>2, <2>3, <2>4
    <2>6. x \in S[p[h]]
      <3>1. h \notin Bad
        BY <2>1, <2>5
      <3> QED
        BY <2>5, <3>1
    <2> QED
      BY <1>1, <2>2, <2>5, <2>6 DEF After
  <1>3. x \in S[q]
    <2>1. CASE p = << >>
      BY <2>1 DEF Root
    <2>2. CASE p # << >>
      <3>1. Len(p) \in 1 .. Len(p) /\ After(p, q, Len(p)) = q
        BY <1>0, <2>2 DEF After
      <3> QED
        BY <1>1, <1>2, <3>1
    <2> QED
      BY <2>1, <2>2
  <1> QED
    BY <1>3

(* The path leads to the key. *)
LEMMA KeyFollows ==
  ASSUME NEW t, IsTree(t), NEW S, NEW p, NEW q, NEW key \in DOMAIN t, Linked(t, p, q, key),
         Whole(t, Root(p, q), S)
  PROVE  q # Nil
  <1>0. /\ Len(p) \in Nat /\ Searchable(t, S) /\ S[Nil] = {} /\ key \in Key
        /\ \A i \in 1 .. Len(p) : p[i] \in DOMAIN t /\ After(p, q, i) \in DOMAIN t \cup {Nil}
        /\ (p = << >> <=> Len(p) = 0)
    BY PathFacts DEF Whole, Searchable, IsBelow, IsTree
  <1>1. \A i \in 1 .. Len(p) : key \in S[p[i]] => key \in S[After(p, q, i)]
    <2> TAKE i \in 1 .. Len(p)
    <2> HAVE key \in S[p[i]]
    <2>1. PICK k, s : k = p[i] /\ s = Toward(key, k)
      OBVIOUS
    <2>2. /\ k \in DOMAIN t /\ s \in Side /\ Opposite(s) \in Side /\ k \in Key /\ k # key
          /\ t[k][s] = After(p, q, i)
      BY <1>0, <2>1, TowardSide, Sides DEF Linked, IsTree
    <2>3. /\ S[k] = {k} \cup S[t[k][s]] \cup S[t[k][Opposite(s)]]
          /\ \A x \in S[t[k][Opposite(s)]] : Beyond(Opposite(s), x, k)
      BY <1>0, <2>2 DEF Searchable, Hangs
    <2>4. ~Beyond(Opposite(s), key, k)
      BY <1>0, <2>1, <2>2, BeyondFacts
    <2> QED
      BY <2>1, <2>2, <2>3, <2>4
  <1>2. key \in S[Root(p, q)]
    BY DEF Whole
  <1>3. key \in S[q]
    BY <1>1, <1>2, PathFollowed
  <1> QED
    BY <1>0, <1>3

(* The key was found, and its binder is stored where it is. *)
LEMMA RebindRises ==
  ASSUME NEW n, NEW p, NEW key \in Key, Sound(n, Root(p, key)),
         Linked(n, p, key, key), key \in DOMAIN n,
         NEW u, SameShape(n, u), NEW v, v = Stored(u, p, key, key)
  PROVE  \E S, H : Rising(v, S, H, p, key, key, 0)
  <1>1. PICK S, H : Whole(n, Root(p, key), S) /\ IsDepth(n, H) /\ \A k \in DOMAIN n : Level(n, H, k)
    BY DEF Sound
  <1>2. /\ Linked(u, p, key, key) /\ IsTree(u) /\ DOMAIN u = DOMAIN n
        /\ p \in Seq(DOMAIN u)
    BY ShapeKeeps DEF SameShape, Linked
  <1>3. SameShape(u, v)
    <2>1. /\ IsTree(v) /\ DOMAIN v = DOMAIN u
          /\ \A k \in DOMAIN u : v[k].tag = u[k].tag
          /\ \A k \in DOMAIN u : v[k][Opposite(Toward(key, k))] = u[k][Opposite(Toward(key, k))]
          /\ \A k \in DOMAIN u : p # << >> /\ k = Last(p) => v[k][Toward(key, k)] = key
          /\ \A k \in DOMAIN u : ~(p # << >> /\ k = Last(p)) => v[k] = u[k]
      BY <1>2, StoredFacts
    <2>2. ASSUME NEW k \in DOMAIN u, NEW s \in Side PROVE v[k][s] = u[k][s]
      <3>1. CASE p # << >> /\ k = Last(p)
        <4>1. u[k][Toward(key, k)] = key
          <5>1. k = p[Len(p)] /\ Len(p) \in 1 .. Len(p) /\ After(p, key, Len(p)) = key
            BY <1>2, <3>1, PathFacts
          <5> QED
            BY <1>2, <5>1 DEF Linked
        <4>2. s = Toward(key, k) \/ s = Opposite(Toward(key, k))
          BY TowardSide, Sides DEF Side
        <4> QED
          BY <2>1, <3>1, <4>1, <4>2
      <3>2. CASE ~(p # << >> /\ k = Last(p))
        BY <2>1, <3>2
      <3> QED
        BY <3>1, <3>2
    <2> QED
      BY <2>1, <2>2 DEF SameShape
  <1>4. SameShape(n, v)
    BY <1>3 DEF SameShape
  <1>5. /\ Whole(v, Root(p, key), S) /\ IsDepth(v, H) /\ Linked(v, p, key, key)
        /\ \A k \in DOMAIN v : Level(v, H, k)
        /\ IsTree(v) /\ key \in DOMAIN v
    BY <1>1, <1>4, ShapeKeeps DEF SameShape
  <1>6. \A i \in 1 .. Len(p) : PathLeans(v, H, p, key, key, 0, i)
    <2> TAKE i \in 1 .. Len(p)
    <2>1. PICK k, s : k = p[i] /\ s = Toward(key, k)
      OBVIOUS
    <2>2. k \in DOMAIN v /\ s \in Side /\ v[k][s] = After(p, key, i) /\ After(p, key, i) \in DOMAIN v \cup {Nil}
      <3>1. p[i] \in DOMAIN v /\ After(p, key, i) \in DOMAIN v \cup {Nil}
        BY <1>5, PathFacts
      <3> QED
        BY <1>5, <2>1, <3>1, TowardSide DEF Linked
    <2>3. Leans(v[k].tag, s, H[After(p, key, i)], H[v[k][Opposite(s)]], H[k])
      BY <1>5, <2>2 DEF Level
    <2>4. H[After(p, key, i)] = H[After(p, key, i)] - (IF i = Len(p) THEN 0 ELSE 0)
      <3>1. H[After(p, key, i)] \in Nat
        BY <1>5, <2>2 DEF IsDepth
      <3> QED
        BY <3>1
    <2> QED
      BY <2>1, <2>3, <2>4 DEF PathLeans
  <1>7. Rising(v, S, H, p, key, key, 0)
    BY <1>5, <1>6 DEF Rising
  <1> QED
    BY <1>7

(* The binder B is made for the key. *)
Added(n, key, b) == [k \in DOMAIN n \cup {key} |-> IF k = key THEN b ELSE n[k]]

(* The key was not found, and its binder is stored where the search ended. *)
LEMMA AddRises ==
  ASSUME NEW n, NEW p, NEW key \in Key, Sound(n, Root(p, Nil)), Linked(n, p, Nil, key),
         NEW b \in Binder, b.left = Nil, b.right = Nil, b.tag = "even"
  PROVE  /\ key \notin DOMAIN n /\ IsTree(Added(n, key, b))
         /\ \E T, I : Rising(Stored(Added(n, key, b), p, key, key), T, I, p, key, key, 1)
  <1>0. PICK u, v : u = Added(n, key, b) /\ v = Stored(u, p, key, key)
    OBVIOUS
  <1> USE <1>0
  <1> DEFINE D == DOMAIN n
             OnPath(k) == \E i \in 1 .. Len(p) : p[i] = k
  <1>1. PICK S, H : Whole(n, Root(p, Nil), S) /\ IsDepth(n, H) /\ \A k \in D : Level(n, H, k)
    BY DEF Sound
  <1>2. key \notin D /\ IsTree(n) /\ Nil \notin D /\ key # Nil
    BY <1>1, KeyFollows, KeyAssumption DEF Sound, IsTree
  <1>3. /\ IsTree(u) /\ DOMAIN u = D \cup {key} /\ u[key] = b /\ \A k \in D : u[k] = n[k]
    BY <1>2 DEF IsTree, Added
  <1>4. /\ Len(p) \in Nat /\ p \in Seq(D) /\ p \in Seq(DOMAIN u) /\ (p = << >> <=> Len(p) = 0)
        /\ \A i \in 1 .. Len(p) : p[i] \in D
        /\ p # << >> => Len(p) \in 1 .. Len(p) /\ Last(p) = p[Len(p)] /\ 1 \in 1 .. Len(p)
    <2>1. /\ Len(p) \in Nat /\ (p = << >> <=> Len(p) = 0)
          /\ \A i \in 1 .. Len(p) : p[i] \in D
          /\ p # << >> => Len(p) \in 1 .. Len(p) /\ Last(p) = p[Len(p)] /\ 1 \in 1 .. Len(p)
      BY PathFacts
    <2>2. p \in Seq(D)
      BY DEF Linked
    <2>3. p \in Seq(DOMAIN u)
      BY <1>3, <2>2
    <2> QED
      BY <2>1, <2>2, <2>3
  <1> HIDE DEF D
  <1>5. /\ IsTree(v) /\ DOMAIN v = D \cup {key}
        /\ v[key] = b
        /\ \A k \in D : v[k].tag = n[k].tag
        /\ \A k \in D : v[k][Opposite(Toward(key, k))] = n[k][Opposite(Toward(key, k))]
        /\ \A k \in D : p # << >> /\ k = Last(p) => v[k][Toward(key, k)] = key
        /\ \A k \in D : ~(p # << >> /\ k = Last(p)) => v[k] = n[k]
    <2>1. /\ IsTree(v) /\ DOMAIN v = DOMAIN u
          /\ \A k \in DOMAIN u : v[k].tag = u[k].tag
          /\ \A k \in DOMAIN u : v[k][Opposite(Toward(key, k))] = u[k][Opposite(Toward(key, k))]
          /\ \A k \in DOMAIN u : p # << >> /\ k = Last(p) => v[k][Toward(key, k)] = key
          /\ \A k \in DOMAIN u : ~(p # << >> /\ k = Last(p)) => v[k] = u[k]
      BY <1>3, <1>4, StoredFacts
    <2>2. ~(p # << >> /\ key = Last(p))
      BY <1>2, <1>4
    <2>3. \A k \in D : k \in DOMAIN u /\ u[k] = n[k]
      BY <1>3
    <2>4. v[key] = b
      BY <1>3, <2>1, <2>2
    <2>5. DOMAIN v = D \cup {key}
      BY <1>3, <2>1
    <2>6. \A k \in D : /\ v[k].tag = n[k].tag
                       /\ v[k][Opposite(Toward(key, k))] = n[k][Opposite(Toward(key, k))]
                       /\ p # << >> /\ k = Last(p) => v[k][Toward(key, k)] = key
                       /\ ~(p # << >> /\ k = Last(p)) => v[k] = n[k]
      <3> TAKE k \in D
      <3>1. k \in DOMAIN u /\ u[k] = n[k]
        BY <2>3
      <3> QED
        BY ONLY <2>1, <3>1
    <2> QED
      BY ONLY <2>1, <2>4, <2>5, <2>6
  <1>6. \A k \in D : \A s \in Side : n[k][s] \in D \cup {Nil}
    BY <1>1 DEF Whole, Searchable, Hangs, D
  <1>7. \A k \in D : \A s \in Side : OnPath(n[k][s]) => OnPath(k) /\ s = Toward(key, k)
    <2> TAKE k \in D
    <2> TAKE s \in Side
    <2> HAVE OnPath(n[k][s])
    <2>1. PICK i \in 1 .. Len(p) : p[i] = n[k][s]
      OBVIOUS
    <2>2. i - 1 \in 1 .. Len(p) /\ p[i - 1] = k /\ s = Toward(key, k)
      BY <1>1, <1>2, <2>1, PathFrom DEF D
    <2> QED
      BY <2>2
  <1>8. \A i \in 1 .. Len(p) : /\ p[i] \in D
                               /\ n[p[i]][Toward(key, p[i])] = (IF i = Len(p) THEN Nil ELSE p[i + 1])
                               /\ i # Len(p) => i + 1 \in 1 .. Len(p)
                               /\ p[i] = Last(p) <=> i = Len(p)
    <2> TAKE i \in 1 .. Len(p)
    <2>1. n[p[i]][Toward(key, p[i])] = (IF i = Len(p) THEN Nil ELSE p[i + 1])
      BY DEF Linked, After
    <2>2. i # Len(p) => i + 1 \in 1 .. Len(p)
      BY <1>4
    <2>3. p # << >> /\ Len(p) \in 1 .. Len(p) /\ Last(p) = p[Len(p)]
      BY <1>4
    <2>4. n[Last(p)][Toward(key, Last(p))] = Nil
      BY <2>3 DEF Linked, After
    <2>5. p[i] = Last(p) <=> i = Len(p)
      BY <1>2, <1>4, <2>1, <2>2, <2>3, <2>4
    <2> QED
      BY <1>4, <2>1, <2>2, <2>5
  <1>9. PICK T : T = [k \in D \cup {key, Nil} |->
                        IF k = key THEN {key} ELSE IF OnPath(k) THEN S[k] \cup {key} ELSE S[k]]
    OBVIOUS
  <1>10. PICK I : I = [k \in D \cup {key, Nil} |-> IF k = key THEN 1 ELSE H[k]]
    OBVIOUS
  <1>11. ~OnPath(Nil) /\ ~OnPath(key)
    BY <1>2, <1>4
  <1> HIDE DEF OnPath
  <1>12. /\ T[key] = {key} /\ T[Nil] = {} /\ S[Nil] = {}
         /\ \A k \in D : OnPath(k) => T[k] = S[k] \cup {key}
         /\ \A k \in D \cup {Nil} : ~OnPath(k) => T[k] = S[k]
         /\ \A k \in D \cup {Nil} : S[k] \in SUBSET D
         /\ IsBelow(v, T)
    <2>1. S[Nil] = {} /\ \A k \in D \cup {Nil} : S[k] \in SUBSET D
      BY <1>1 DEF Whole, Searchable, IsBelow, D
    <2>2. /\ T[key] = {key} /\ T[Nil] = {}
          /\ \A k \in D : OnPath(k) => T[k] = S[k] \cup {key}
          /\ \A k \in D \cup {Nil} : ~OnPath(k) => T[k] = S[k]
      BY <1>2, <1>9, <1>11, <2>1
    <2>3. T \in [D \cup {key, Nil} -> SUBSET (D \cup {key})]
      BY <1>9, <2>1
    <2>4. DOMAIN v = D \cup {key} /\ (D \cup {key}) \cup {Nil} = D \cup {key, Nil}
      BY <1>5
    <2>5. IsBelow(v, T)
      BY <2>2, <2>3, <2>4 DEF IsBelow
    <2> QED
      BY <2>1, <2>2, <2>5
  <1>13. /\ I[key] = 1 /\ \A k \in D \cup {Nil} : I[k] = H[k] /\ H[k] \in Nat
         /\ H[Nil] = 0 /\ IsDepth(v, I)
    <2>1. /\ H[Nil] = 0 /\ \A k \in D \cup {Nil} : H[k] \in Nat
      BY <1>1 DEF IsDepth, D
    <2>2. I[key] = 1 /\ \A k \in D \cup {Nil} : I[k] = H[k]
      BY <1>2, <1>10
    <2>3. I \in [D \cup {key, Nil} -> Nat]
      BY <1>10, <2>1
    <2>4. DOMAIN v = D \cup {key} /\ (D \cup {key}) \cup {Nil} = D \cup {key, Nil}
      BY <1>5
    <2> QED
      BY <2>1, <2>2, <2>3, <2>4 DEF IsDepth
  <1>14. \A k \in D : Hangs(n, S, k) /\ Level(n, H, k) /\ k \in Key
    BY <1>1, <1>2 DEF Whole, Searchable, IsTree, D
  <1>15. ASSUME NEW k \in D, ~OnPath(k)
         PROVE  Hangs(v, T, k) /\ Level(v, I, k)
    <2>1. v[k] = n[k]
      <3>1. ~(p # << >> /\ k = Last(p))
        BY <1>4, <1>15 DEF OnPath
      <3> QED
        BY <1>5, <3>1
    <2>2. \A s \in Side : /\ Opposite(s) \in Side /\ v[k][s] = n[k][s] /\ n[k][s] \in D \cup {Nil}
                          /\ T[n[k][s]] = S[n[k][s]] /\ I[n[k][s]] = H[n[k][s]]
      BY <1>6, <1>7, <1>12, <1>13, <1>15, <2>1, Sides
    <2>3. T[k] = S[k] /\ I[k] = H[k]
      BY <1>12, <1>13, <1>15
    <2>4. PICK s, o, c, d : s = "left" /\ o = Opposite(s) /\ c = n[k][s] /\ d = n[k][o]
      OBVIOUS
    <2>5. s \in Side /\ o \in Side /\ v[k][s] = c /\ v[k][o] = d
      BY <2>2, <2>4 DEF Side
    <2>6. /\ c \in DOMAIN v \cup {Nil} /\ d \in DOMAIN v \cup {Nil}
          /\ T[c] = S[c] /\ T[d] = S[d] /\ I[c] = H[c] /\ I[d] = H[d]
      BY <1>5, <2>2, <2>4, <2>5
    <2>7. Hangs(v, T, k)
      <3>1. /\ S[k] = {k} \cup S[c] \cup S[d]
            /\ \A x \in S[c] : Beyond(s, x, k)
            /\ \A x \in S[d] : Beyond(o, x, k)
        BY <1>14, <2>4, <2>5, HangsSeen
      <3> QED
        BY <2>3, <2>4, <2>5, <2>6, <3>1, HangsIf
    <2>8. Level(v, I, k)
      <3>1. Leans(n[k].tag, s, H[c], H[d], H[k])
        BY <1>14, <2>4, <2>5 DEF Level
      <3>2. Leans(v[k].tag, s, I[c], I[d], I[k])
        BY <2>1, <2>3, <2>6, <3>1
      <3> QED
        BY <2>4, <2>5, <3>2, LevelSeen
    <2> QED
      BY <2>7, <2>8
  <1>16. ASSUME NEW i \in 1 .. Len(p)
         PROVE  /\ Hangs(v, T, p[i])
                /\ PathLeans(v, I, p, key, key, 1, i)
                /\ v[p[i]][Toward(key, p[i])] = After(p, key, i)
    <2>1. PICK k, s, o : k = p[i] /\ s = Toward(key, k) /\ o = Opposite(s)
      OBVIOUS
    <2>2. /\ k \in D /\ s \in Side /\ o \in Side /\ o # s /\ Opposite(o) = s
          /\ n[k][s] = (IF i = Len(p) THEN Nil ELSE p[i + 1])
          /\ i # Len(p) => i + 1 \in 1 .. Len(p)
          /\ OnPath(k)
          /\ p # << >> /\ (k = Last(p) <=> i = Len(p))
      BY <1>4, <1>8, <2>1, TowardSide, Sides DEF OnPath
    <2>3. PICK a, c : a = v[k][s] /\ c = n[k][o]
      OBVIOUS
    <2>4. v[k][o] = c /\ c \in D \cup {Nil} /\ ~OnPath(c) /\ T[c] = S[c] /\ I[c] = H[c]
      BY <1>5, <1>6, <1>7, <1>12, <1>13, <2>1, <2>2, <2>3
    <2>5. /\ a = After(p, key, i) /\ a \in DOMAIN v \cup {Nil}
          /\ T[a] = S[n[k][s]] \cup {key}
          /\ I[a] - (IF i = Len(p) THEN 1 ELSE 0) = H[n[k][s]]
      <3>1. CASE i = Len(p)
        <4>1. a = key
          BY <1>5, <2>1, <2>2, <2>3, <3>1
        <4> QED
          BY <1>5, <1>12, <1>13, <2>2, <3>1, <4>1 DEF After
      <3>2. CASE i # Len(p)
        <4>1. a = p[i + 1] /\ n[k][s] = a
          BY <1>5, <2>2, <2>3, <3>2
        <4>2. OnPath(a) /\ a \in D
          BY <1>8, <2>2, <3>2, <4>1 DEF OnPath
        <4>3. I[a] - 0 = H[a]
          BY <1>13, <4>2
        <4> QED
          BY <1>5, <1>12, <3>2, <4>1, <4>2, <4>3 DEF After
      <3> QED
        BY <3>1, <3>2
    <2>6. Hangs(v, T, k)
      <3>1. /\ S[k] = {k} \cup S[n[k][s]] \cup S[c]
            /\ \A x \in S[n[k][s]] : Beyond(s, x, k)
            /\ \A x \in S[c] : Beyond(o, x, k)
        BY <1>14, <2>1, <2>2, <2>3 DEF Hangs
      <3>2. Beyond(s, key, k)
        BY <1>2, <1>14, <2>1, <2>2, BeyondFacts
      <3>3. T[k] = {k} \cup T[a] \cup T[c]
        BY <1>12, <2>2, <2>4, <2>5, <3>1
      <3>4. \A x \in T[a] : Beyond(s, x, k)
        BY <2>5, <3>1, <3>2
      <3>5. (\A x \in T[c] : Beyond(o, x, k)) /\ c \in DOMAIN v \cup {Nil}
        BY <1>5, <2>4, <3>1
      <3> QED
        BY ONLY <2>1, <2>2, <2>3, <2>4, <2>5, <3>3, <3>4, <3>5, HangsIf
    <2>7. PathLeans(v, I, p, key, key, 1, i)
      <3>1. Leans(n[k].tag, s, H[n[k][s]], H[c], H[k])
        BY <1>14, <2>1, <2>2, <2>3 DEF Level
      <3>2. v[k].tag = n[k].tag /\ I[k] = H[k]
        BY <1>5, <1>13, <2>2
      <3>3. Leans(v[k].tag, s, I[a] - (IF i = Len(p) THEN 1 ELSE 0), I[c], I[k])
        BY <2>4, <2>5, <3>1, <3>2
      <3> QED
        BY <2>1, <2>4, <2>5, <3>3 DEF PathLeans
    <2> QED
      BY <2>1, <2>3, <2>5, <2>6, <2>7
  <1>17. Hangs(v, T, key) /\ Level(v, I, key)
    <2>1. v[key].left = Nil /\ v[key].right = Nil /\ v[key].tag = "even"
      BY <1>5
    <2>2. Hangs(v, T, key)
      BY <1>12, <2>1, Sides DEF Hangs, Side
    <2>3. Level(v, I, key)
      BY <1>13, <2>1, Sides DEF Level, Side, Leans
    <2> QED
      BY <2>2, <2>3
  <1>18. Whole(v, Root(p, key), T)
    <2>1. \A k \in DOMAIN v : Hangs(v, T, k)
      <3> TAKE k \in DOMAIN v
      <3>1. CASE k = key
        BY <1>17, <3>1
      <3>2. CASE k # key /\ OnPath(k)
        BY <1>16, <3>2 DEF OnPath
      <3>3. CASE k # key /\ ~OnPath(k)
        BY <1>5, <1>15, <3>3
      <3> QED
        BY <3>1, <3>2, <3>3
    <2>2. Root(p, key) \in DOMAIN v /\ T[Root(p, key)] = DOMAIN v
      <3>1. CASE p = << >>
        BY <1>1, <1>5, <1>12, <3>1 DEF Root, Whole, D
      <3>2. CASE p # << >>
        <4>1. Root(p, key) = p[1] /\ p[1] \in D /\ OnPath(p[1]) /\ S[p[1]] = D
          BY <1>1, <1>4, <3>2 DEF Root, OnPath, Whole, D
        <4> QED
          BY <1>5, <1>12, <4>1
      <3> QED
        BY <3>1, <3>2
    <2> QED
      BY <1>12, <2>1, <2>2 DEF Whole, Searchable
  <1>19. Linked(v, p, key, key)
    <2>1. p \in Seq(DOMAIN v) /\ key \in DOMAIN v /\ \A i \in 1 .. Len(p) : p[i] # key
      BY <1>2, <1>3, <1>4, <1>5
    <2> QED
      BY <1>16, <2>1 DEF Linked
  <1>20. \A k \in DOMAIN v : (\A i \in 1 .. Len(p) : p[i] # k) => Level(v, I, k)
    BY <1>5, <1>15, <1>17 DEF OnPath
  <1>21. Rising(v, T, I, p, key, key, 1)
    BY <1>5, <1>13, <1>16, <1>18, <1>19, <1>20 DEF Rising
  <1> QED
    BY <1>2, <1>3, <1>21 DEF D

-----------------------------------------------------------------------------
(* The inductive invariant *)

Trees == UNION { [K -> Binder] : K \in SUBSET Key }

Types ==
  /\ DOMAIN cdr \subseteq Layer /\ IsFiniteSet(DOMAIN cdr)
  /\ cdr \in [DOMAIN cdr -> DOMAIN cdr \cup {Nil}]
  /\ car \in [DOMAIN cdr -> Key \cup {Nil}]
  /\ node \in [DOMAIN cdr -> Trees]
  /\ pc \in {"rest", "down", "up"} /\ higher \in BOOLEAN
  /\ pc = "rest" => call = NoCall /\ path = << >> /\ P0 = Nil
  /\ pc # "rest" => call \in [layer : DOMAIN cdr, key : Key, value : Value]

(* No layer extends itself, directly or not. *)
Ranked ==
  \E rank \in [DOMAIN cdr -> Nat] :
    \A l \in DOMAIN cdr : cdr[l] # Nil => rank[cdr[l]] < rank[l]

(* Only the tree that SET KEY rebuilds may not be searched. *)
Rebuilding(l) == pc = "up" /\ l = call.layer

Settled == \A l \in DOMAIN cdr : Rebuilding(l) \/ Sound(node[l], car[l])

(* On its way down SETTING KEY searches. *)
Seeking ==
  pc = "down" => /\ Linked(node[call.layer], path, P0, call.key)
                 /\ Root(path, P0) = car[call.layer]

(* On its way up it returns a tree that is sound but for what is not stored yet. *)
Growth == IF higher THEN 1 ELSE 0

Returning ==
  pc = "up" => /\ path \in Seq(DOMAIN node[call.layer])
               /\ \E S, H : Rising(Stored(node[call.layer], path, P0, call.key),
                                   S, H, path, P0, call.key, Growth)

LayerInv == Types /\ Ranked /\ Settled /\ Seeking /\ Returning

(* The set of trees is that of the functions IsTree describes. *)
LEMMA TreesAre == \A t : t \in Trees <=> IsTree(t)
  BY DEF Trees, IsTree

(* Every layer in use has a tree. *)
LEMMA TypesTrees ==
  ASSUME Types, NEW l \in DOMAIN cdr
  PROVE  /\ IsTree(node[l]) /\ node = [x \in DOMAIN cdr |-> node[x]] /\ DOMAIN node = DOMAIN cdr
         /\ DOMAIN node[l] \subseteq Key
  BY TreesAre DEF Types, IsTree

(* The empty tree is sound. *)
LEMMA EmptySound == Sound(<< >>, Nil)
  <1>1. PICK t : t = << >>
    OBVIOUS
  <1>2. DOMAIN t = {} /\ t \in [{} -> Binder]
    BY <1>1
  <1>3. PICK S, H : S = [k \in {Nil} |-> {}] /\ H = [k \in {Nil} |-> 0]
    OBVIOUS
  <1>4. IsTree(t)
    BY <1>2 DEF IsTree
  <1>5. Whole(t, Nil, S) /\ IsDepth(t, H) /\ \A k \in DOMAIN t : Level(t, H, k)
    BY <1>2, <1>3 DEF Whole, Searchable, IsBelow, IsDepth
  <1> QED
    BY <1>1, <1>4, <1>5 DEF Sound

(* INIT LAYER establishes the invariant. *)
LEMMA LayerStarts == Init => LayerInv
  <1> SUFFICES ASSUME Init PROVE LayerInv
    OBVIOUS
  <1>1. PICK l \in Layer : cdr = [x \in {l} |-> Nil]
    BY DEF Init
  <1>2. DOMAIN cdr = {l} /\ car = [x \in {l} |-> Nil] /\ node = [x \in {l} |-> << >>]
    BY <1>1 DEF Init
  <1>3. IsTree(<< >>)
    BY EmptySound DEF Sound
  <1>4. Types
    <2>1. IsFiniteSet({l})
      BY FS_Singleton
    <2>2. node \in [{l} -> Trees]
      BY <1>2, <1>3, TreesAre
    <2> QED
      BY <1>1, <1>2, <2>1, <2>2 DEF Types, Init
  <1>5. Ranked
    <2>1. [x \in {l} |-> 0] \in [DOMAIN cdr -> Nat]
      BY <1>2
    <2> QED
      BY <1>1, <1>2, <2>1 DEF Ranked
  <1>6. Settled
    BY <1>2, EmptySound DEF Settled
  <1>7. pc = "rest"
    BY DEF Init
  <1> QED
    BY <1>4, <1>5, <1>6, <1>7 DEF LayerInv, Seeking, Returning

(* PUSH LAYER keeps it: the new layer is empty, and no layer extends it yet. *)
LEMMA PushLayerKeeps ==
  ASSUME LayerInv, NEW l \in Layer, NEW next \in DOMAIN cdr \cup {Nil}, PushLayer(l, next)
  PROVE  LayerInv'
  <1> USE DEF LayerInv
  <1>1. /\ pc = "rest" /\ l \notin DOMAIN cdr /\ pc' = pc /\ call' = call /\ path' = path
        /\ P0' = P0 /\ higher' = higher
        /\ DOMAIN cdr' = DOMAIN cdr \cup {l}
        /\ car' = [x \in DOMAIN cdr \cup {l} |-> IF x = l THEN Nil ELSE car[x]]
        /\ cdr' = [x \in DOMAIN cdr \cup {l} |-> IF x = l THEN next ELSE cdr[x]]
        /\ node' = [x \in DOMAIN cdr \cup {l} |-> IF x = l THEN << >> ELSE node[x]]
    BY DEF PushLayer, callVars
  <1>2. Types'
    <2>1. IsFiniteSet(DOMAIN cdr')
      BY <1>1, FS_AddElement DEF Types
    <2>2. node' \in [DOMAIN cdr' -> Trees]
      <3>1. << >> \in Trees
        BY EmptySound, TreesAre DEF Sound
      <3> QED
        BY <1>1, <3>1 DEF Types
    <2>3. cdr' \in [DOMAIN cdr' -> DOMAIN cdr' \cup {Nil}] /\ car' \in [DOMAIN cdr' -> Key \cup {Nil}]
      BY <1>1 DEF Types
    <2> QED
      BY <1>1, <2>1, <2>2, <2>3 DEF Types
  <1>3. Ranked'
    <2>1. PICK rank \in [DOMAIN cdr -> Nat] :
            \A x \in DOMAIN cdr : cdr[x] # Nil => rank[cdr[x]] < rank[x]
      BY DEF Ranked
    <2>2. PICK r \in Nat : next # Nil => rank[next] < r
      <3>1. CASE next = Nil
        BY <3>1
      <3>2. CASE next # Nil
        <4>1. rank[next] \in Nat
          BY <3>2
        <4>2. rank[next] + 1 \in Nat /\ rank[next] < rank[next] + 1
          BY <4>1
        <4> QED
          BY <4>2
      <3> QED
        BY <3>1, <3>2
    <2>3. PICK order : order = [x \in DOMAIN cdr \cup {l} |-> IF x = l THEN r ELSE rank[x]]
      OBVIOUS
    <2>4. order \in [DOMAIN cdr' -> Nat]
      BY <1>1, <2>3
    <2>5. ASSUME NEW x \in DOMAIN cdr', cdr'[x] # Nil PROVE order[cdr'[x]] < order[x]
      <3>1. CASE x = l
        BY <1>1, <2>2, <2>3, <2>5, <3>1
      <3>2. CASE x # l
        <4>1. x \in DOMAIN cdr /\ cdr'[x] = cdr[x] /\ cdr[x] \in DOMAIN cdr
          BY <1>1, <2>5, <3>2 DEF Types
        <4> QED
          BY <1>1, <2>1, <2>3, <2>5, <4>1
      <3> QED
        BY <3>1, <3>2
    <2> QED
      BY <2>4, <2>5 DEF Ranked
  <1>4. Settled'
    <2> SUFFICES ASSUME NEW x \in DOMAIN cdr' PROVE Sound(node'[x], car'[x])
      BY DEF Settled
    <2>1. CASE x = l
      BY <1>1, <2>1, EmptySound
    <2>2. CASE x # l
      <3>1. x \in DOMAIN cdr /\ node'[x] = node[x] /\ car'[x] = car[x]
        BY <1>1, <2>2
      <3>2. Sound(node[x], car[x])
        BY <1>1, <3>1 DEF Settled, Rebuilding
      <3> QED
        BY <3>1, <3>2
    <2> QED
      BY <2>1, <2>2
  <1> QED
    BY <1>1, <1>2, <1>3, <1>4 DEF Seeking, Returning

(* DESTROY LAYER keeps it: no layer extends the one that goes. *)
LEMMA DestroyLayerKeeps ==
  ASSUME LayerInv, NEW l \in DOMAIN cdr, DestroyLayer(l)
  PROVE  LayerInv'
  <1> USE DEF LayerInv
  <1>1. /\ pc = "rest" /\ pc' = pc /\ call' = call /\ path' = path
        /\ P0' = P0 /\ higher' = higher
        /\ DOMAIN cdr' = DOMAIN cdr \ {l}
        /\ \A x \in DOMAIN cdr : cdr[x] # l
        /\ car' = [x \in DOMAIN cdr \ {l} |-> car[x]]
        /\ cdr' = [x \in DOMAIN cdr \ {l} |-> cdr[x]]
        /\ node' = [x \in DOMAIN cdr \ {l} |-> node[x]]
    BY DEF DestroyLayer, callVars, Restrict, Range
  <1>2. Types'
    <2>1. IsFiniteSet(DOMAIN cdr')
      BY <1>1, FS_RemoveElement DEF Types
    <2>2. node' \in [DOMAIN cdr' -> Trees]
      BY <1>1 DEF Types
    <2>3. cdr' \in [DOMAIN cdr' -> DOMAIN cdr' \cup {Nil}] /\ car' \in [DOMAIN cdr' -> Key \cup {Nil}]
      BY <1>1 DEF Types
    <2> QED
      BY <1>1, <2>1, <2>2, <2>3 DEF Types
  <1>3. Ranked'
    <2>1. PICK rank \in [DOMAIN cdr -> Nat] :
            \A x \in DOMAIN cdr : cdr[x] # Nil => rank[cdr[x]] < rank[x]
      BY DEF Ranked
    <2>2. PICK order : order = [x \in DOMAIN cdr \ {l} |-> rank[x]]
      OBVIOUS
    <2>3. order \in [DOMAIN cdr' -> Nat]
      BY <1>1, <2>2
    <2>4. ASSUME NEW x \in DOMAIN cdr', cdr'[x] # Nil PROVE order[cdr'[x]] < order[x]
      <3>1. /\ x \in DOMAIN cdr /\ x # l /\ cdr'[x] = cdr[x] /\ cdr[x] # l
            /\ cdr[x] \in DOMAIN cdr
        BY <1>1, <2>4 DEF Types
      <3> QED
        BY <2>1, <2>2, <2>4, <3>1
    <2> QED
      BY <2>3, <2>4 DEF Ranked
  <1>4. Settled'
    <2> SUFFICES ASSUME NEW x \in DOMAIN cdr' PROVE Sound(node'[x], car'[x])
      BY DEF Settled
    <2>1. x \in DOMAIN cdr /\ node'[x] = node[x] /\ car'[x] = car[x]
      BY <1>1
    <2>2. Sound(node[x], car[x])
      BY <1>1, <2>1 DEF Settled, Rebuilding
    <2> QED
      BY <2>1, <2>2
  <1> QED
    BY <1>1, <1>2, <1>3, <1>4 DEF Seeking, Returning

(* The tree of one layer becomes T. *)
LEMMA OneTree ==
  ASSUME Types, NEW l \in DOMAIN cdr, NEW t, IsTree(t), node' = [node EXCEPT ![l] = t]
  PROVE  /\ node' \in [DOMAIN cdr -> Trees] /\ node'[l] = t
         /\ \A x \in DOMAIN cdr : x # l => node'[x] = node[x]
  BY TreesAre DEF Types

(* SET COUNTS changes counts only. *)
LEMMA CountsShape ==
  ASSUME LayerInv, NEW l \in DOMAIN cdr, NEW keys \in SUBSET DOMAIN node[l],
         NEW counts \in [keys -> Count], SetCounts(l, counts)
  PROVE  \E t : /\ SameShape(node[l], t) /\ node' = [node EXCEPT ![l] = t]
                /\ \A k \in DOMAIN t : /\ t[k].value = node[l][k].value
                                       /\ t[k].count \in Count \cup {node[l][k].count}
  <1>1. /\ Types /\ IsTree(node[l]) /\ node = [x \in DOMAIN cdr |-> node[x]] /\ DOMAIN node[l] \subseteq Key
    BY TypesTrees DEF LayerInv
  <1>2. pc = "rest"
    BY DEF SetCounts
  <1>3. PICK S : Whole(node[l], car[l], S)
    BY <1>2 DEF LayerInv, Settled, Rebuilding, Sound
  <1>4. \A key \in keys : Found(l, key) = key
    <2> TAKE key \in keys
    <2>1. key \in Key /\ key \in DOMAIN node[l]
      BY <1>1
    <2> QED
      BY <1>1, <1>3, <2>1, SearchFinds
  <1>5. PICK n : n = node[l]
    OBVIOUS
  <1>6. PICK t : t = [k \in DOMAIN n |-> IF \E key \in keys : Found(l, key) = k
                                         THEN [n[k] EXCEPT !.count = counts[k]] ELSE n[k]]
    OBVIOUS
  <1>7. node' = [node EXCEPT ![l] = t]
    BY <1>5, <1>6 DEF SetCounts
  <1>8. ASSUME NEW k \in DOMAIN n
        PROVE  /\ t[k] \in Binder /\ t[k].left = n[k].left /\ t[k].right = n[k].right
               /\ t[k].tag = n[k].tag /\ t[k].value = n[k].value
               /\ t[k].count \in Count \cup {n[k].count}
    <2>1. n[k] \in Binder
      BY <1>1, <1>5 DEF IsTree
    <2>2. CASE k \in keys
      <3>1. t[k] = [n[k] EXCEPT !.count = counts[k]] /\ counts[k] \in Count
        BY <1>4, <1>6, <2>2
      <3> QED
        BY <2>1, <3>1 DEF Binder
    <2>3. CASE k \notin keys
      <3>1. t[k] = n[k]
        BY <1>4, <1>6, <2>3
      <3> QED
        BY <2>1, <3>1 DEF Binder
    <2> QED
      BY <2>2, <2>3
  <1>9. DOMAIN t = DOMAIN n
    BY <1>6
  <1>10. IsTree(t)
    <2>1. t \in [DOMAIN t -> Binder]
      BY <1>6, <1>8, <1>9
    <2> QED
      BY <1>1, <1>5, <1>9, <2>1 DEF IsTree
  <1>11. SameShape(n, t)
    BY <1>8, <1>9, <1>10 DEF SameShape, Side
  <1>12. \A k \in DOMAIN t : /\ t[k].value = node[l][k].value
                             /\ t[k].count \in Count \cup {node[l][k].count}
    BY <1>5, <1>8, <1>9
  <1>13. SameShape(node[l], t)
    BY <1>5, <1>11
  <1> QED
    BY <1>7, <1>12, <1>13

(* SET COUNTS keeps it: the shape of the tree is the same. *)
LEMMA SetCountsKeeps ==
  ASSUME LayerInv, NEW l \in DOMAIN cdr, NEW keys \in SUBSET DOMAIN node[l],
         NEW counts \in [keys -> Count], SetCounts(l, counts)
  PROVE  LayerInv'
  <1>1. /\ pc = "rest" /\ pc' = pc /\ call' = call /\ path' = path
        /\ P0' = P0 /\ higher' = higher /\ cdr' = cdr /\ car' = car
    BY DEF SetCounts, callVars
  <1>2. PICK t : SameShape(node[l], t) /\ node' = [node EXCEPT ![l] = t]
    BY CountsShape
  <1>3. /\ node' \in [DOMAIN cdr -> Trees] /\ node'[l] = t
        /\ \A x \in DOMAIN cdr : x # l => node'[x] = node[x]
    <2>1. IsTree(t) /\ Types
      BY <1>2 DEF SameShape, LayerInv
    <2> QED
      BY <1>2, <2>1, OneTree
  <1>4. Types'
    BY <1>1, <1>3 DEF LayerInv, Types
  <1>5. Ranked'
    BY <1>1 DEF LayerInv, Ranked
  <1>6. Settled'
    <2> SUFFICES ASSUME NEW x \in DOMAIN cdr PROVE Sound(node'[x], car'[x])
      BY <1>1 DEF Settled
    <2>1. Sound(node[x], car[x])
      BY <1>1 DEF LayerInv, Settled, Rebuilding
    <2>2. CASE x = l
      BY <1>1, <1>2, <1>3, <2>1, <2>2, ShapeKeeps
    <2>3. CASE x # l
      BY <1>1, <1>3, <2>1, <2>3
    <2> QED
      BY <2>2, <2>3
  <1> QED
    BY <1>1, <1>4, <1>5, <1>6 DEF LayerInv, Seeking, Returning

(* SET KEY keeps it: the search begins at the root. *)
LEMMA SetKeyKeeps ==
  ASSUME LayerInv, NEW l \in DOMAIN cdr, NEW key \in Key, NEW value \in Value, SetKey(l, key, value)
  PROVE  LayerInv'
  <1>1. /\ pc = "rest" /\ pc' = "down" /\ call' = [layer |-> l, key |-> key, value |-> value]
        /\ P0' = car[l] /\ path' = path /\ higher' = higher
        /\ cdr' = cdr /\ car' = car /\ node' = node
    BY DEF SetKey, layerVars
  <1>2. path = << >>
    BY <1>1 DEF LayerInv, Types
  <1>3. Types'
    BY <1>1 DEF LayerInv, Types
  <1>4. Ranked'
    BY <1>1 DEF LayerInv, Ranked
  <1>5. Settled'
    BY <1>1 DEF LayerInv, Settled, Rebuilding
  <1>6. Linked(node[l], << >>, car[l], key) /\ Root(<< >>, car[l]) = car[l]
    <2>1. Sound(node[l], car[l])
      BY <1>1 DEF LayerInv, Settled, Rebuilding
    <2>2. car[l] \in DOMAIN node[l] \cup {Nil}
      BY <2>1 DEF Sound, Whole
    <2> QED
      BY <2>2 DEF Linked, Root
  <1>7. Seeking'
    BY <1>1, <1>2, <1>6 DEF Seeking
  <1> QED
    BY <1>1, <1>3, <1>4, <1>5, <1>7 DEF LayerInv, Returning

(* SETTING KEY keeps it on its way down: it goes where a search would. *)
LEMMA DownKeeps ==
  ASSUME LayerInv, Down
  PROVE  LayerInv'
  <1>1. /\ pc = "down" /\ pc' = pc /\ call' = call /\ higher' = higher
        /\ cdr' = cdr /\ car' = car /\ node' = node
        /\ P0 # Nil /\ P0 # call.key /\ path' = Append(path, P0)
        /\ P0' = node[call.layer][P0][Toward(call.key, P0)]
    BY DEF Down, layerVars
  <1>2. Types'
    BY <1>1 DEF LayerInv, Types
  <1>3. Ranked'
    BY <1>1 DEF LayerInv, Ranked
  <1>4. Settled'
    BY <1>1 DEF LayerInv, Settled, Rebuilding
  <1>5. PICK l, key, t, p, q : l = call.layer /\ key = call.key /\ t = node[l] /\ p = path /\ q = P0
    OBVIOUS
  <1>6. Linked(t, p, q, key) /\ Root(p, q) = car[l] /\ l \in DOMAIN cdr
    BY <1>1, <1>5 DEF LayerInv, Seeking, Types
  <1>7. PICK r, m : r = t[q][Toward(key, q)] /\ m = Append(p, q)
    OBVIOUS
  <1>8. q \in DOMAIN t /\ r \in DOMAIN t \cup {Nil}
    <2>1. q \in DOMAIN t
      BY <1>1, <1>5, <1>6 DEF Linked
    <2>2. Sound(t, car[l])
      BY <1>1, <1>5, <1>6 DEF LayerInv, Settled, Rebuilding
    <2> QED
      BY <1>7, <2>1, <2>2, TowardSide DEF Sound, Whole, Searchable, Hangs
  <1>9. /\ p \in Seq(DOMAIN t) /\ Len(p) \in Nat /\ m \in Seq(DOMAIN t) /\ Len(m) = Len(p) + 1
        /\ m[Len(p) + 1] = q /\ \A i \in 1 .. Len(p) : m[i] = p[i]
    BY <1>6, <1>7, <1>8 DEF Linked
  <1>10. Linked(t, m, r, key)
    <2> SUFFICES ASSUME NEW i \in 1 .. Len(m)
                 PROVE  m[i] # key /\ t[m[i]][Toward(key, m[i])] = After(m, r, i)
      BY <1>8, <1>9 DEF Linked
    <2>1. CASE i = Len(p) + 1
      BY <1>1, <1>5, <1>7, <1>9, <2>1 DEF After
    <2>2. CASE i = Len(p)
      <3>1. i \in 1 .. Len(p) /\ i + 1 = Len(m) - 0 /\ i # Len(m) /\ m[i] = p[i] /\ m[i + 1] = q
        BY <1>9, <2>2
      <3> QED
        BY <1>6, <2>2, <3>1 DEF After, Linked
    <2>3. CASE i # Len(p) /\ i # Len(p) + 1
      <3>1. i \in 1 .. Len(p) /\ i + 1 \in 1 .. Len(p) /\ i # Len(m) /\ m[i] = p[i] /\ m[i + 1] = p[i + 1]
        BY <1>9, <2>3
      <3> QED
        BY <1>6, <2>3, <3>1 DEF After, Linked
    <2> QED
      BY <2>1, <2>2, <2>3
  <1>11. Root(m, r) = Root(p, q)
    <2>1. m # << >> /\ (p = << >> => Len(p) = 0) /\ (p # << >> => 1 \in 1 .. Len(p))
      BY <1>9
    <2> QED
      BY <1>9, <2>1 DEF Root
  <1>12. Seeking'
    BY <1>1, <1>5, <1>6, <1>7, <1>10, <1>11 DEF Seeking
  <1> QED
    BY <1>1, <1>2, <1>3, <1>4, <1>12 DEF LayerInv, Returning

(* Where SET KEY is, and what it may not disturb while it rebuilds a tree. *)
LEMMA OthersSettled ==
  ASSUME LayerInv, pc # "rest", NEW t, IsTree(t), cdr' = cdr, car' = car, pc' = "up", call' = call,
         node' = [node EXCEPT ![call.layer] = t], P0' \in Key, path' \in Seq(DOMAIN t), higher' \in BOOLEAN,
         \E S, H : Rising(Stored(t, path', P0', call.key), S, H, path', P0', call.key, Growth')
  PROVE  LayerInv'
  <1>1. /\ call.layer \in DOMAIN cdr /\ Types
        /\ call \in [layer : DOMAIN cdr, key : Key, value : Value]
    BY DEF LayerInv, Types
  <1>2. /\ node' \in [DOMAIN cdr -> Trees] /\ node'[call.layer] = t
        /\ \A x \in DOMAIN cdr : x # call.layer => node'[x] = node[x]
    BY <1>1, OneTree
  <1>3. Types'
    <2>1. /\ DOMAIN cdr \subseteq Layer /\ IsFiniteSet(DOMAIN cdr)
          /\ cdr \in [DOMAIN cdr -> DOMAIN cdr \cup {Nil}]
          /\ car \in [DOMAIN cdr -> Key \cup {Nil}]
      BY <1>1 DEF Types
    <2> QED
      BY <1>1, <1>2, <2>1 DEF Types
  <1>4. Ranked'
    BY DEF LayerInv, Ranked
  <1>5. Settled'
    <2> SUFFICES ASSUME NEW x \in DOMAIN cdr, x # call.layer PROVE Sound(node'[x], car'[x])
      BY DEF Settled, Rebuilding
    <2>1. Sound(node[x], car[x])
      BY DEF LayerInv, Settled, Rebuilding
    <2> QED
      BY <1>2, <2>1
  <1>6. Returning'
    BY <1>2 DEF Returning
  <1> QED
    BY <1>3, <1>4, <1>5, <1>6 DEF LayerInv, Seeking

(* Adding a binder keeps it, and the key had none. *)
LEMMA AddKeeps ==
  ASSUME LayerInv, Add
  PROVE  LayerInv' /\ call.key \notin DOMAIN node[call.layer]
  <1>1. /\ pc = "down" /\ P0 = Nil /\ P0' = call.key /\ higher' = TRUE /\ pc' = "up"
        /\ car' = car /\ cdr' = cdr /\ call' = call /\ path' = path
    BY DEF Add
  <1>2. /\ call.layer \in DOMAIN cdr /\ call.key \in Key /\ call.value \in Value /\ Types
    BY <1>1 DEF LayerInv, Types
  <1>3. PICK l, key, n, p : l = call.layer /\ key = call.key /\ n = node[l] /\ p = path
    OBVIOUS
  <1>4. /\ l \in DOMAIN cdr /\ key \in Key /\ IsTree(n) /\ Sound(n, Root(p, Nil))
        /\ Linked(n, p, Nil, key)
    <2>1. IsTree(n)
      BY <1>2, <1>3, TypesTrees
    <2>2. Linked(n, p, Nil, key) /\ Root(p, Nil) = car[l]
      BY <1>1, <1>3 DEF LayerInv, Seeking
    <2>3. Sound(n, car[l])
      BY <1>1, <1>2, <1>3 DEF LayerInv, Settled, Rebuilding
    <2> QED
      BY <1>2, <1>3, <2>1, <2>2, <2>3
  <1>5. PICK b : b = NewBinder
    OBVIOUS
  <1>6. b \in Binder /\ b.left = Nil /\ b.right = Nil /\ b.tag = "even"
    BY <1>2, <1>5 DEF NewBinder, Binder, Tag
  <1>7. PICK u : u = Added(n, key, b)
    OBVIOUS
  <1>8. /\ key \notin DOMAIN n /\ IsTree(Added(n, key, b))
        /\ \E T, I : Rising(Stored(Added(n, key, b), p, key, key), T, I, p, key, key, 1)
    BY ONLY <1>4, <1>6, AddRises
  <1>9. key \notin DOMAIN n /\ IsTree(u) /\ \E T, I : Rising(Stored(u, p, key, key), T, I, p, key, key, 1)
    BY <1>7, <1>8
  <1>10. node' = [node EXCEPT ![l] = u]
    BY <1>3, <1>5, <1>7 DEF Add, Added
  <1>11. path' \in Seq(DOMAIN u)
    <2>1. p \in Seq(DOMAIN n) /\ DOMAIN n \subseteq DOMAIN u
      BY <1>4, <1>7 DEF Linked, Added
    <2> QED
      BY <1>1, <1>3, <2>1
  <1>12. \E S, H : Rising(Stored(u, path', P0', call.key), S, H, path', P0', call.key, Growth')
    BY <1>1, <1>3, <1>9 DEF Growth
  <1>13. pc # "rest" /\ P0' \in Key /\ higher' \in BOOLEAN
    BY <1>1, <1>2
  <1>14. LayerInv'
    BY <1>1, <1>3, <1>9, <1>10, <1>11, <1>12, <1>13, OthersSettled
  <1> QED
    BY <1>3, <1>9, <1>14

(* Binding a key anew keeps it, and changes one value only. *)
LEMMA RebindKeeps ==
  ASSUME LayerInv, Rebind
  PROVE  /\ LayerInv' /\ call.key \in DOMAIN node[call.layer]
         /\ \E t : /\ SameShape(node[call.layer], t) /\ node' = [node EXCEPT ![call.layer] = t]
                   /\ t[call.key].value = call.value
                   /\ t[call.key].count = node[call.layer][call.key].count
                   /\ \A k \in DOMAIN t : k # call.key => t[k] = node[call.layer][k]
  <1>1. /\ pc = "down" /\ P0 = call.key /\ P0' = P0 /\ higher' = FALSE /\ pc' = "up"
        /\ car' = car /\ cdr' = cdr /\ call' = call /\ path' = path
        /\ node' = [node EXCEPT ![call.layer][P0].value = call.value]
    BY DEF Rebind
  <1>2. /\ call.layer \in DOMAIN cdr /\ call.key \in Key /\ call.value \in Value /\ Types
    BY <1>1 DEF LayerInv, Types
  <1>3. PICK l, key, n, p : l = call.layer /\ key = call.key /\ n = node[l] /\ p = path
    OBVIOUS
  <1>4. /\ l \in DOMAIN cdr /\ key \in Key /\ IsTree(n) /\ Sound(n, Root(p, key))
        /\ Linked(n, p, key, key) /\ key \in DOMAIN n
    <2>1. IsTree(n)
      BY <1>2, <1>3, TypesTrees
    <2>2. Linked(n, p, key, key) /\ Root(p, key) = car[l]
      BY <1>1, <1>3 DEF LayerInv, Seeking
    <2>3. Sound(n, car[l])
      BY <1>1, <1>2, <1>3 DEF LayerInv, Settled, Rebuilding
    <2>4. key \in DOMAIN n
      BY <1>2, <1>3, <2>2, KeyAssumption DEF Linked
    <2> QED
      BY <1>2, <1>3, <2>1, <2>2, <2>3, <2>4
  <1>5. PICK u : u = [n EXCEPT ![key].value = call.value]
    OBVIOUS
  <1>6. /\ SameShape(n, u) /\ u[key].value = call.value /\ u[key].count = n[key].count
        /\ \A k \in DOMAIN u : k # key => u[k] = n[k]
    <2>1. /\ DOMAIN u = DOMAIN n /\ u[key] = [n[key] EXCEPT !.value = call.value]
          /\ \A k \in DOMAIN n : k # key => u[k] = n[k]
      BY <1>4, <1>5
    <2>2. n[key] \in Binder
      BY <1>4 DEF IsTree
    <2>3. /\ u[key] \in Binder /\ u[key].left = n[key].left /\ u[key].right = n[key].right
          /\ u[key].tag = n[key].tag /\ u[key].value = call.value /\ u[key].count = n[key].count
      BY <1>2, <2>1, <2>2 DEF Binder
    <2>4. IsTree(u)
      BY <1>4, <1>5, <2>1, <2>3 DEF IsTree
    <2> QED
      BY <2>1, <2>3, <2>4 DEF SameShape, Side
  <1>7. PICK v : v = Stored(u, p, key, key)
    OBVIOUS
  <1>8. \E T, I : Rising(v, T, I, p, key, key, 0)
    BY ONLY <1>4, <1>6, <1>7, RebindRises
  <1>9. node' = [node EXCEPT ![l] = u]
    BY <1>1, <1>3, <1>5
  <1>10. path' \in Seq(DOMAIN u)
    <2>1. p \in Seq(DOMAIN n) /\ DOMAIN n = DOMAIN u
      BY <1>4, <1>6 DEF Linked, SameShape
    <2> QED
      BY <1>1, <1>3, <2>1
  <1>11. \E S, H : Rising(Stored(u, path', P0', call.key), S, H, path', P0', call.key, Growth')
    BY <1>1, <1>3, <1>7, <1>8 DEF Growth
  <1>12. pc # "rest" /\ P0' \in Key /\ higher' \in BOOLEAN /\ IsTree(u)
    BY <1>1, <1>2, <1>6 DEF SameShape
  <1>13. LayerInv'
    BY <1>1, <1>3, <1>9, <1>10, <1>11, <1>12, OthersSettled
  <1> QED
    BY <1>3, <1>4, <1>6, <1>9, <1>13

(* SETTING KEY keeps it on its way up, and moves binders without changing them. *)
LEMMA UpKeeps ==
  ASSUME LayerInv, Up
  PROVE  /\ LayerInv'
         /\ \E t : /\ IsTree(t) /\ DOMAIN t = DOMAIN node[call.layer]
                   /\ node' = [node EXCEPT ![call.layer] = t]
                   /\ \A k \in DOMAIN t : /\ t[k].value = node[call.layer][k].value
                                          /\ t[k].count = node[call.layer][k].count
  <1>1. /\ pc = "up" /\ path # << >> /\ path' = Front(path) /\ car' = car /\ cdr' = cdr
        /\ pc' = pc /\ call' = call
        /\ Return(call.layer, Last(path), Toward(call.key, Last(path)))
    BY DEF Up
  <1>2. /\ call.layer \in DOMAIN cdr /\ call.key \in Key /\ Types
    BY <1>1 DEF LayerInv, Types
  <1>3. PICK l, key, n, p, q, g : /\ l = call.layer /\ key = call.key /\ n = node[l] /\ p = path
                                  /\ q = P0 /\ g = Growth
    OBVIOUS
  <1>4. PICK t : t = Stored(n, p, q, key)
    OBVIOUS
  <1>5. PICK S, H : Rising(t, S, H, p, q, key, g)
    BY <1>1, <1>3, <1>4 DEF LayerInv, Returning
  <1>6. p \in Seq(DOMAIN n) /\ IsTree(n) /\ key \in Key
    BY <1>1, <1>2, <1>3, TypesTrees DEF LayerInv, Returning
  <1>7. q \in Key
    BY <1>5 DEF Rising, IsTree
  <1>8. /\ DOMAIN t = DOMAIN n
        /\ \A k \in DOMAIN n : t[k].value = n[k].value /\ t[k].count = n[k].count
    BY <1>4, <1>6, <1>7, StoredFacts
  <1>9. PICK P, s : P = Last(p) /\ s = Toward(key, P)
    OBVIOUS
  <1>10. t = [n EXCEPT ![P][s] = q]
    BY <1>1, <1>3, <1>4, <1>9 DEF Stored
  <1>11. higher \in BOOLEAN /\ (g = 1 <=> higher) /\ (g = 0 <=> ~higher)
    BY <1>2, <1>3 DEF Types, Growth
  <1>12. \E u : /\ node' = [node EXCEPT ![l] = u] /\ higher' \in BOOLEAN
                /\ Returned(t, P, s, q, g, u, P0', IF higher' THEN 1 ELSE 0)
    <2>1. \/ /\ ~higher
             /\ node' = [node EXCEPT ![l] = t]
             /\ P0' = P
             /\ higher' = FALSE
          \/ /\ higher
             /\ t[P].tag = Opposite(s)
             /\ node' = [node EXCEPT ![l] = [t EXCEPT ![P].tag = "even"]]
             /\ P0' = P
             /\ higher' = FALSE
          \/ /\ higher
             /\ t[P].tag = "even"
             /\ node' = [node EXCEPT ![l] = [t EXCEPT ![P].tag = s]]
             /\ P0' = P
             /\ higher' = TRUE
          \/ /\ higher
             /\ t[P].tag = s
             /\ t[q].tag = s
             /\ node' = [node EXCEPT ![l] = Single(t, P, s)]
             /\ P0' = q
             /\ higher' = FALSE
          \/ /\ higher
             /\ t[P].tag = s
             /\ t[q].tag # s
             /\ node' = [node EXCEPT ![l] = Double(t, P, s)]
             /\ P0' = t[q][Opposite(s)]
             /\ higher' = FALSE
      BY <1>1, <1>3, <1>9, <1>10 DEF Return
    <2> QED
      BY <1>11, <2>1 DEF Returned
  <1>13. PICK u : /\ node' = [node EXCEPT ![l] = u] /\ higher' \in BOOLEAN
                  /\ Returned(t, P, s, q, g, u, P0', IF higher' THEN 1 ELSE 0)
    BY <1>12
  <1>14. PICK R, growth : R = P0' /\ growth = (IF higher' THEN 1 ELSE 0)
    OBVIOUS
  <1>15. /\ \E T, I : Rising(Stored(u, Front(p), R, key), T, I, Front(p), R, key, growth)
         /\ IsTree(u) /\ DOMAIN u = DOMAIN t
         /\ \A k \in DOMAIN t : u[k].value = t[k].value /\ u[k].count = t[k].count
    <2>1. p # << >> /\ Returned(t, Last(p), Toward(key, Last(p)), q, g, u, R, growth)
      BY <1>1, <1>3, <1>9, <1>13, <1>14
    <2>2. Climbs(t, S, H, p, q, key, g, u, R, growth)
      BY <1>5, <1>6, <2>1 DEF Climbs
    <2> QED
      BY ONLY <2>2, Climb
  <1>16. path' \in Seq(DOMAIN u)
    <2>1. Front(p) \in Seq(DOMAIN n)
      BY <1>1, <1>3, <1>6, FrontFacts
    <2> QED
      BY <1>1, <1>3, <1>8, <1>15, <2>1
  <1>17. P0' \in Key
    <2>1. PICK v : R \in DOMAIN v /\ IsTree(v)
      BY <1>15 DEF Rising
    <2> QED
      BY <1>14, <2>1 DEF IsTree
  <1>18. \E T, I : Rising(Stored(u, path', P0', call.key), T, I, path', P0', call.key, Growth')
    BY <1>1, <1>3, <1>14, <1>15 DEF Growth
  <1>19. LayerInv'
    <2>1. pc # "rest" /\ pc' = "up" /\ node' = [node EXCEPT ![call.layer] = u]
      BY <1>1, <1>3, <1>13
    <2> QED
      BY <1>1, <1>13, <1>15, <1>16, <1>17, <1>18, <2>1, OthersSettled
  <1>20. \A k \in DOMAIN u : u[k].value = n[k].value /\ u[k].count = n[k].count
    BY <1>8, <1>15
  <1> QED
    BY ZenonT(40), <1>3, <1>8, <1>13, <1>15, <1>19, <1>20

(* SET KEY keeps it when it stores the root. *)
LEMMA FinishKeeps ==
  ASSUME LayerInv, Finish
  PROVE  LayerInv'
  <1>1. /\ pc = "up" /\ path = << >> /\ car' = [car EXCEPT ![call.layer] = P0]
        /\ pc' = "rest" /\ call' = NoCall /\ P0' = Nil /\ higher' = FALSE
        /\ cdr' = cdr /\ node' = node /\ path' = path
    BY DEF Finish
  <1>2. /\ call.layer \in DOMAIN cdr /\ Types
    BY <1>1 DEF LayerInv, Types
  <1>3. PICK S, H : Rising(node[call.layer], S, H, << >>, P0, call.key, Growth)
    BY <1>1 DEF LayerInv, Returning, Stored
  <1>4. Sound(node[call.layer], P0) /\ P0 \in Key
    <2>1. Len(<< >>) = 0 /\ Root(<< >>, P0) = P0
      BY DEF Root
    <2> QED
      BY <1>3, <2>1 DEF Rising, Sound, IsTree
  <1>5. Types'
    BY <1>1, <1>2, <1>4 DEF Types
  <1>6. Ranked'
    BY <1>1 DEF LayerInv, Ranked
  <1>7. Settled'
    <2> SUFFICES ASSUME NEW x \in DOMAIN cdr PROVE Sound(node'[x], car'[x])
      BY <1>1 DEF Settled
    <2>1. car \in [DOMAIN cdr -> Key \cup {Nil}]
      BY <1>2 DEF Types
    <2>2. CASE x = call.layer
      BY <1>1, <1>4, <2>1, <2>2
    <2>3. CASE x # call.layer
      <3>1. Sound(node[x], car[x])
        BY <2>3 DEF LayerInv, Settled, Rebuilding
      <3> QED
        BY <1>1, <2>1, <2>3, <3>1
    <2> QED
      BY <2>2, <2>3
  <1> QED
    BY <1>1, <1>5, <1>6, <1>7 DEF LayerInv, Seeking, Returning

(* The invariant is inductive. *)
THEOREM LayerSound == Spec => []LayerInv
  <1>1. Init => LayerInv
    BY LayerStarts
  <1>2. LayerInv /\ [Next]_vars => LayerInv'
    <2> SUFFICES ASSUME LayerInv, [Next]_vars PROVE LayerInv'
      OBVIOUS
    <2>1. CASE \E l \in Layer : \E next \in DOMAIN cdr \cup {Nil} : PushLayer(l, next)
      BY <2>1, PushLayerKeeps
    <2>2. ASSUME NEW l \in DOMAIN cdr, DestroyLayer(l) PROVE LayerInv'
      BY <2>2, DestroyLayerKeeps
    <2>3. ASSUME NEW l \in DOMAIN cdr, NEW key \in Key, NEW value \in Value, SetKey(l, key, value)
          PROVE  LayerInv'
      BY <2>3, SetKeyKeeps
    <2>4. ASSUME NEW l \in DOMAIN cdr, NEW keys \in SUBSET DOMAIN node[l],
                 NEW counts \in [keys -> Count], SetCounts(l, counts)
          PROVE  LayerInv'
      BY <2>4, SetCountsKeeps
    <2>5. CASE SettingKey
      BY <2>5, DownKeeps, AddKeeps, RebindKeeps, UpKeeps, FinishKeeps DEF SettingKey
    <2>6. CASE UNCHANGED vars
      BY <2>6 DEF vars, layerVars, callVars, LayerInv, Types, Ranked, Settled, Seeking, Returning,
                  Rebuilding, Growth
    <2> QED
      BY <2>1, <2>2, <2>3, <2>4, <2>5, <2>6 DEF Next
  <1> QED
    BY <1>1, <1>2, PTL DEF Spec

-----------------------------------------------------------------------------
(* What the invariant says *)

(***************************************************************************)
(* While a tree is rebuilt, the subtree P0, the path and what hangs on its *)
(* other side are all of it.                                               *)
(***************************************************************************)
LEMMA HeldIs ==
  ASSUME NEW l \in DOMAIN cdr, Types, Returning, Rebuilding(l)
  PROVE  Held(l) = DOMAIN node[l]
  <1>1. PICK n, key, p, q : n = node[l] /\ key = call.key /\ p = path /\ q = P0
    OBVIOUS
  <1>2. PICK t : t = Stored(n, p, q, key)
    OBVIOUS
  <1>3. p \in Seq(DOMAIN n) /\ \E S, H : Rising(t, S, H, p, q, key, Growth)
    BY <1>1, <1>2 DEF Returning, Rebuilding
  <1>4. PICK S, H : Rising(t, S, H, p, q, key, Growth)
    BY <1>3
  <1>5. /\ IsTree(t) /\ Linked(t, p, q, key) /\ q \in DOMAIN t /\ Whole(t, Root(p, q), S)
        /\ Searchable(t, S)
    BY <1>4 DEF Rising, Whole
  <1>6. /\ DOMAIN t = DOMAIN n
        /\ \A k \in DOMAIN n : t[k][Opposite(Toward(key, k))] = n[k][Opposite(Toward(key, k))]
        /\ \A k \in DOMAIN n : ~(p # << >> /\ k = Last(p)) => t[k] = n[k]
    <2>1. IsTree(n) /\ q \in Key \cup {Nil}
      BY <1>1, <1>5, TypesTrees DEF IsTree
    <2> QED
      BY SMTT(40), <1>2, <1>3, <2>1, StoredFacts
  <1>7. /\ Len(p) \in Nat /\ DOMAIN p = 1 .. Len(p)
        /\ \A i \in 1 .. Len(p) : p[i] \in DOMAIN t /\ After(p, q, i) \in DOMAIN t \cup {Nil}
        /\ p # << >> => Len(p) \in 1 .. Len(p) /\ Last(p) = p[Len(p)] /\ After(p, q, Len(p)) = q
    BY <1>5, PathFacts
  <1>8. \A k \in DOMAIN t \cup {Nil} : S[k] \subseteq DOMAIN t
    BY <1>5 DEF Searchable, IsBelow
  <1>9. ASSUME NEW c \in DOMAIN t \cup {Nil}, p # << >> => Last(p) \notin S[c]
        PROVE  Subtree(l, c) = S[c]
    <2>1. \A x \in S[c] : n[x] = t[x]
      BY <1>6, <1>8, <1>9
    <2>2. /\ IsTree(t) /\ Searchable(t, S) /\ DOMAIN n = DOMAIN t
          /\ c \in DOMAIN t \cup {Nil}
      BY <1>5, <1>6, <1>9
    <2>3. Below(n, c) = S[c]
      BY ONLY <2>1, <2>2, SubtreeIs
    <2> QED
      BY <1>1, <2>3 DEF Subtree, Below
  <1>10. ASSUME NEW i \in 1 .. Len(p)
         PROVE  /\ S[p[i]] = {p[i]} \cup S[After(p, q, i)]
                                    \cup S[t[p[i]][Opposite(Toward(key, p[i]))]]
                /\ Subtree(l, n[p[i]][Opposite(Toward(key, p[i]))])
                     = S[t[p[i]][Opposite(Toward(key, p[i]))]]
                /\ t[p[i]][Opposite(Toward(key, p[i]))] \in DOMAIN t \cup {Nil}
    <2>1. PICK k, s, o, c : k = p[i] /\ s = Toward(key, k) /\ o = Opposite(s) /\ c = t[k][o]
      OBVIOUS
    <2>2. /\ k \in DOMAIN t /\ s \in Side /\ o \in Side /\ t[k][s] = After(p, q, i)
      BY <1>5, <1>7, <2>1, TowardSide, Sides DEF Linked
    <2>3. Hangs(t, S, k)
      BY <1>5, <2>2 DEF Searchable
    <2>4. /\ S[k] = {k} \cup S[After(p, q, i)] \cup S[c] /\ c \in DOMAIN t \cup {Nil}
      BY <2>1, <2>2, <2>3 DEF Hangs
    <2>5. k \notin S[c] /\ S[After(p, q, i)] \cap S[c] = {}
      <3>1. S[t[k][s]] \cap S[t[k][Opposite(s)]] = {} /\ k \notin S[t[k][o]]
        BY <1>5, <2>2, <2>3, NotBelowItself DEF Searchable
      <3> QED
        BY <2>1, <2>2, <3>1
    <2>6. p # << >> /\ Last(p) \notin S[c]
      <3>1. p # << >> /\ Len(p) \in 1 .. Len(p) /\ Last(p) = p[Len(p)]
        BY <1>7
      <3>2. CASE i = Len(p)
        BY <2>1, <2>5, <3>1, <3>2
      <3>3. CASE i # Len(p)
        <4>1. Len(p) \in (i + 1) .. Len(p)
          <5>1. PICK m : m = Len(p)
            OBVIOUS
          <5>2. m \in Nat /\ i \in 1 .. m /\ i # m
            BY <1>7, <1>10, <3>3, <5>1
          <5>3. m \in (i + 1) .. m
            BY ONLY <5>2
          <5> QED
            BY <5>1, <5>3
        <4>2. p[Len(p)] \in S[After(p, q, i)]
          BY <1>5, <4>1, PathBelow
        <4> QED
          BY <2>5, <3>1, <4>2
      <3> QED
        BY <3>2, <3>3
    <2>7. Subtree(l, c) = S[c]
      BY <1>9, <2>4, <2>6
    <2>8. n[k][o] = c
      BY <1>6, <2>1, <2>2
    <2> QED
      BY <2>1, <2>4, <2>7, <2>8
  <1>11. Subtree(l, q) = S[q]
    <2>1. ASSUME p # << >> PROVE Last(p) \notin S[q]
      <3>1. PICK k, s : k = Last(p) /\ s = Toward(key, k)
        OBVIOUS
      <3>2. k \in DOMAIN t /\ s \in Side /\ t[k][s] = q
        BY <1>5, <1>7, <2>1, <3>1, TowardSide DEF Linked
      <3>3. k \notin S[t[k][s]]
        BY <1>5, <3>2, NotBelowItself DEF Searchable
      <3> QED
        BY <3>1, <3>2, <3>3
    <2> QED
      BY <1>5, <1>9, <2>1
  <1>12. PICK aside : aside = [k \in Range(p) |-> Subtree(l, n[k][Opposite(Toward(key, k))])]
    OBVIOUS
  <1>13. Range(p) = { p[i] : i \in 1 .. Len(p) }
    BY <1>7 DEF Range
  <1>14. Held(l) = Subtree(l, q) \cup Range(p) \cup UNION { aside[k] : k \in Range(p) }
    <2>1. \A k \in Range(p) : aside[k] = Subtree(l, node[l][k][Opposite(Toward(call.key, k))])
      BY <1>1, <1>12
    <2>2. { aside[k] : k \in Range(p) }
            = { Subtree(l, node[l][k][Opposite(Toward(call.key, k))]) : k \in Range(p) }
      BY <2>1
    <2> QED
      BY <1>1, <2>2 DEF Held, Rebuilding
  <1>15. \A i \in 1 .. Len(p) : p[i] \in Range(p) /\ aside[p[i]] = S[t[p[i]][Opposite(Toward(key, p[i]))]]
    BY <1>10, <1>12, <1>13
  <1>16. Held(l) \subseteq DOMAIN t
    <2>1. Subtree(l, q) \subseteq DOMAIN t
      BY <1>5, <1>8, <1>11
    <2>2. \A k \in Range(p) : k \in DOMAIN t
      BY <1>7, <1>13
    <2>3. \A i \in 1 .. Len(p) : aside[p[i]] \subseteq DOMAIN t
      BY <1>8, <1>10, <1>15
    <2>4. \A k \in Range(p) : aside[k] \subseteq DOMAIN t
      BY <1>13, <2>3
    <2> QED
      BY <1>14, <2>1, <2>2, <2>4
  <1>17. ASSUME NEW x \in DOMAIN t, x \notin Held(l) PROVE FALSE
    <2>1. x \in S[Root(p, q)]
      BY <1>5 DEF Whole
    <2>2. ASSUME NEW i \in 1 .. Len(p), x \in S[p[i]] PROVE x \in S[After(p, q, i)]
      <3>1. p[i] \in Held(l) /\ aside[p[i]] \subseteq Held(l)
        BY <1>14, <1>15
      <3> QED
        BY <1>10, <1>15, <1>17, <2>2, <3>1
    <2>3. x \in S[q]
      BY <1>5, <2>1, <2>2, PathFollowed
    <2> QED
      BY <1>11, <1>14, <1>17, <2>3
  <1> QED
    BY <1>1, <1>6, <1>16, <1>17

(* A sound tree, as the runs see it. *)
LEMMA SoundSeen ==
  ASSUME NEW l \in DOMAIN cdr, Types, Sound(node[l], car[l])
  PROVE  /\ Subtree(l, car[l]) = DOMAIN node[l]
         /\ \A key \in Key : Found(l, key) = IF key \in DOMAIN node[l] THEN key ELSE Nil
         /\ \A k \in DOMAIN node[l] :
              /\ \A x \in Subtree(l, node[l][k].left)  : x < k
              /\ \A x \in Subtree(l, node[l][k].right) : x > k
              /\ Depth(l)[node[l][k].right] - Depth(l)[node[l][k].left] = Leaning(node[l][k].tag)
  <1>1. PICK S, H : /\ Whole(node[l], car[l], S) /\ IsDepth(node[l], H)
                    /\ \A k \in DOMAIN node[l] : Level(node[l], H, k)
    BY DEF Sound
  <1>2. IsTree(node[l]) /\ Searchable(node[l], S)
    BY <1>1 DEF Sound, Whole
  <1>3. \A k \in DOMAIN node[l] \cup {Nil} : Subtree(l, k) = S[k]
    <2>1. PICK t : t = node[l]
      OBVIOUS
    <2>2. IsTree(t) /\ Searchable(t, S)
      BY <1>2, <2>1
    <2>3. \A k \in DOMAIN t \cup {Nil} : Below(t, k) = S[k]
      BY ONLY <2>2, SubtreeIs
    <2> QED
      BY <2>1, <2>3 DEF Subtree, Below
  <1>4. Subtree(l, car[l]) = DOMAIN node[l]
    BY <1>1, <1>3 DEF Whole
  <1>5. \A key \in Key : Found(l, key) = IF key \in DOMAIN node[l] THEN key ELSE Nil
    BY <1>1, <1>2, SearchFinds
  <1>6. \A k \in DOMAIN node[l] \cup {Nil} : Depth(l)[k] = H[k]
    BY <1>1, <1>2, DepthIs
  <1>7. ASSUME NEW k \in DOMAIN node[l]
        PROVE  /\ \A x \in Subtree(l, node[l][k].left)  : x < k
               /\ \A x \in Subtree(l, node[l][k].right) : x > k
               /\ Depth(l)[node[l][k].right] - Depth(l)[node[l][k].left] = Leaning(node[l][k].tag)
    <2>1. PICK a, b, tag : a = node[l][k].left /\ b = node[l][k].right /\ tag = node[l][k].tag
      OBVIOUS
    <2>2. Hangs(node[l], S, k) /\ Level(node[l], H, k)
      BY <1>1, <1>2 DEF Searchable
    <2>3. /\ a \in DOMAIN node[l] \cup {Nil} /\ b \in DOMAIN node[l] \cup {Nil}
          /\ \A x \in S[a] : x < k
          /\ \A x \in S[b] : x > k
      BY <2>1, <2>2, Sides DEF Hangs, Side, Beyond
    <2>4. Leans(tag, "left", H[a], H[b], H[k])
      BY <2>1, <2>2, Sides DEF Level, Side
    <2>5. H[a] \in Nat /\ H[b] \in Nat
      BY <1>1, <2>3 DEF IsDepth
    <2>6. H[b] - H[a] = Leaning(tag)
      <3>1. CASE tag = "even" /\ H[a] = H[b]
        BY <2>5, <3>1 DEF Leaning
      <3>2. CASE tag = "left" /\ H[a] = H[b] + 1
        BY <2>5, <3>2 DEF Leaning
      <3>3. CASE tag = "right" /\ H[b] = H[a] + 1
        BY <2>5, <3>3 DEF Leaning
      <3> QED
        BY <2>4, <3>1, <3>2, <3>3, Sides DEF Leans
    <2> QED
      BY <1>3, <1>6, <2>1, <2>3, <2>6
  <1> QED
    BY <1>4, <1>5, <1>7

(***************************************************************************)
(* No rotation of SETTING KEY loses a binder, at any moment of a call.     *)
(***************************************************************************)
THEOREM NothingIsLost == Spec => []NothingLost
  <1>1. LayerInv => NothingLost
    <2> SUFFICES ASSUME LayerInv, NEW l \in DOMAIN cdr PROVE Held(l) = DOMAIN node[l]
      BY DEF NothingLost
    <2>1. CASE Rebuilding(l)
      BY <2>1, HeldIs DEF LayerInv
    <2>2. CASE ~Rebuilding(l)
      <3>1. Subtree(l, car[l]) = DOMAIN node[l]
        BY <2>2, SoundSeen DEF LayerInv, Settled
      <3> QED
        BY <2>2, <3>1 DEF Held, Rebuilding
    <2> QED
      BY <2>1, <2>2
  <1> QED
    BY <1>1, LayerSound, PTL

(***************************************************************************)
(* Whenever a tree may be searched, it is a search tree.                   *)
(***************************************************************************)
THEOREM OrderedAlways == Spec => []Ordered
  <1>1. LayerInv => Ordered
    BY SoundSeen DEF LayerInv, Settled, Ordered, Quiet, Rebuilding
  <1> QED
    BY <1>1, LayerSound, PTL

(***************************************************************************)
(* Whenever a tree may be searched, it is balanced and its tags say so.    *)
(***************************************************************************)
THEOREM BalancedAlways == Spec => []Balanced
  <1>1. LayerInv => Balanced
    BY SoundSeen DEF LayerInv, Settled, Balanced, Quiet, Rebuilding
  <1> QED
    BY <1>1, LayerSound, PTL


-----------------------------------------------------------------------------
(* From layer to layer *)

(***************************************************************************)
(* The layers that x extends: x, and those that its CDR extends.           *)
(***************************************************************************)
LEMMA EnclosingFacts ==
  ASSUME Types, Ranked, NEW x \in DOMAIN cdr
  PROVE  /\ Enclosing(x) \subseteq DOMAIN cdr /\ x \in Enclosing(x)
         /\ \A y \in Enclosing(x) : cdr[y] # Nil => cdr[y] \in Enclosing(x)
         /\ cdr[x] = Nil => Enclosing(x) = {x}
         /\ cdr[x] # Nil => /\ cdr[x] \in DOMAIN cdr
                            /\ Enclosing(x) = {x} \cup Enclosing(cdr[x])
                            /\ x \notin Enclosing(cdr[x])
  <1>1. PICK D, kids : D = DOMAIN cdr /\ kids = [y \in D |-> {cdr[y]}]
    OBVIOUS
  <1>2. /\ \A y \in D : kids[y] = {cdr[y]} /\ cdr[y] \in D \cup {Nil}
        /\ Nil \notin D /\ x \in D
    BY <1>1, KeyAssumption DEF Types
  <1>3. \A y : Enclosing(y) = ReachFrom(D, {y}, kids)
    BY <1>1 DEF Enclosing
  <1>4. ASSUME NEW y \in D
        PROVE  /\ Enclosing(y) \subseteq D /\ y \in Enclosing(y)
               /\ \A z \in Enclosing(y) : cdr[z] # Nil => cdr[z] \in Enclosing(y)
    <2>1. /\ ReachFrom(D, {y}, kids) \subseteq D
          /\ {y} \cap D \subseteq ReachFrom(D, {y}, kids)
          /\ \A z \in ReachFrom(D, {y}, kids) : kids[z] \cap D \subseteq ReachFrom(D, {y}, kids)
      BY ReachIsClosed
    <2> QED
      BY <1>2, <1>3, <1>4, <2>1
  <1>5. ASSUME NEW y \in D, NEW R, R \subseteq D, y \in R,
               \A z \in R : cdr[z] # Nil => cdr[z] \in R
        PROVE  Enclosing(y) \subseteq R
    <2>1. {y} \cap D \subseteq R /\ \A z \in R : kids[z] \cap D \subseteq R
      BY <1>2, <1>5
    <2>2. ReachFrom(D, {y}, kids) \subseteq R
      BY <1>5, <2>1, ReachIsLeast
    <2> QED
      BY <1>3, <2>2
  <1>6. ASSUME cdr[x] = Nil PROVE Enclosing(x) = {x}
    <2>1. Enclosing(x) \subseteq {x}
      <3>1. PICK R : R = {x}
        OBVIOUS
      <3>2. R \subseteq D /\ x \in R /\ \A z \in R : cdr[z] # Nil => cdr[z] \in R
        BY <1>2, <1>6, <3>1
      <3>3. Enclosing(x) \subseteq R
        BY <1>2, <1>5, <3>2
      <3> QED
        BY <3>1, <3>3
    <2> QED
      BY <1>2, <1>4, <2>1
  <1>7. ASSUME cdr[x] # Nil
        PROVE  /\ cdr[x] \in D /\ Enclosing(x) = {x} \cup Enclosing(cdr[x])
               /\ x \notin Enclosing(cdr[x])
    <2>1. PICK c \in D : c = cdr[x]
      BY <1>2, <1>7
    <2>2. /\ Enclosing(c) \subseteq D /\ c \in Enclosing(c)
          /\ \A z \in Enclosing(c) : cdr[z] # Nil => cdr[z] \in Enclosing(c)
      BY <1>4
    <2>3. Enclosing(x) \subseteq {x} \cup Enclosing(c)
      <3>1. PICK R : R = {x} \cup Enclosing(c)
        OBVIOUS
      <3>2. R \subseteq D /\ x \in R /\ \A z \in R : cdr[z] # Nil => cdr[z] \in R
        BY <1>2, <2>1, <2>2, <3>1
      <3>3. Enclosing(x) \subseteq R
        BY <1>2, <1>5, <3>2
      <3> QED
        BY <3>1, <3>3
    <2>4. Enclosing(c) \subseteq Enclosing(x)
      <3>1. /\ Enclosing(x) \subseteq D /\ c \in Enclosing(x)
            /\ \A z \in Enclosing(x) : cdr[z] # Nil => cdr[z] \in Enclosing(x)
        BY <1>2, <1>4, <1>7, <2>1
      <3> QED
        BY <1>5, <2>1, <3>1
    <2>5. x \notin Enclosing(c)
      <3>1. PICK rank \in [D -> Nat] : \A y \in D : cdr[y] # Nil => rank[cdr[y]] < rank[y]
        BY <1>1 DEF Ranked
      <3>2. PICK R : R = { y \in D : rank[y] <= rank[c] }
        OBVIOUS
      <3>3. \A z \in R : cdr[z] # Nil => cdr[z] \in R
        <4> SUFFICES ASSUME NEW z \in R, cdr[z] # Nil PROVE cdr[z] \in R
          OBVIOUS
        <4>1. z \in D /\ cdr[z] \in D /\ rank[z] \in Nat /\ rank[cdr[z]] \in Nat /\ rank[c] \in Nat
          BY <1>2, <2>1, <3>1, <3>2
        <4>2. rank[cdr[z]] < rank[z] /\ rank[z] <= rank[c]
          BY <3>1, <3>2, <4>1
        <4> QED
          BY <3>2, <4>1, <4>2
      <3>4. R \subseteq D /\ c \in R
        BY <2>1, <3>1, <3>2
      <3>5. Enclosing(c) \subseteq R
        BY <1>5, <2>1, <3>3, <3>4
      <3>6. rank[c] < rank[x] /\ rank[c] \in Nat /\ rank[x] \in Nat
        BY <1>2, <1>7, <2>1, <3>1
      <3> QED
        BY <3>2, <3>5, <3>6
    <2> QED
      BY <1>2, <1>4, <2>1, <2>3, <2>4, <2>5
  <1> QED
    BY <1>1, <1>2, <1>4, <1>6, <1>7

(* The steps of a search from layer to layer. *)
LEMMA BindingFacts ==
  ASSUME Types, NEW l \in DOMAIN cdr, NEW key \in Key
  PROVE  \E at \in [Nat -> DOMAIN cdr \cup {Nil}] :
           /\ at[0] = l
           /\ \A n \in Nat \ {0} :
                at[n] = IF at[n - 1] = Nil \/ IsInLayer(at[n - 1], key) THEN at[n - 1]
                        ELSE cdr[at[n - 1]]
           /\ Binding(l, key) = at[Cardinality(DOMAIN cdr)]
  <1> DEFINE X == DOMAIN cdr \cup {Nil}
             G == [x \in X |-> IF x = Nil \/ IsInLayer(x, key) THEN x ELSE cdr[x]]
             Steps(f) == f = [n \in Nat |-> IF n = 0 THEN l
                                ELSE IF f[n - 1] = Nil \/ IsInLayer(f[n - 1], key) THEN f[n - 1]
                                ELSE cdr[f[n - 1]]]
  <1>1. G \in [X -> X] /\ l \in X
    BY DEF Types
  <1>2. PICK f \in [Nat -> X] : f[0] = l /\ \A n \in Nat \ {0} : f[n] = G[f[n - 1]]
    <2> HIDE DEF G, X
    <2> QED
      BY <1>1, Iterates
  <1>3. \A n \in Nat \ {0} : n - 1 \in Nat /\ f[n - 1] \in X
    BY <1>2
  <1>4. Steps(f)
    <2>1. f = [n \in Nat |-> IF n = 0 THEN l ELSE G[f[n - 1]]]
      <3> HIDE DEF G
      <3> QED
        BY <1>2
    <2> QED
      BY <1>3, <2>1
  <1>5. PICK at : at = (CHOOSE g : Steps(g)) /\ Steps(at)
    <2> HIDE DEF Steps
    <2> QED
      BY <1>4
  <1>6. Binding(l, key) = at[Cardinality(DOMAIN cdr)]
    BY <1>5 DEF Binding
  <1>7. at[0] = l /\ \A n \in Nat \ {0} :
           at[n] = IF at[n - 1] = Nil \/ IsInLayer(at[n - 1], key) THEN at[n - 1]
                   ELSE cdr[at[n - 1]]
    BY <1>5
  <1>8. \A n \in Nat : at[n] \in X
    <2> DEFINE Bad == { n \in Nat : at[n] \notin X }
    <2> SUFFICES ASSUME Bad # {} PROVE FALSE
      OBVIOUS
    <2>1. PICK n \in Bad : \A m \in Bad : n <= m
      <3>1. Bad \in SUBSET Nat
        OBVIOUS
      <3> HIDE DEF Bad
      <3> QED
        BY <3>1, LeastMember
    <2>2. n # 0 /\ n - 1 \in Nat /\ at[n - 1] \in X
      BY <1>1, <1>7, <2>1
    <2>3. at[n] = G[at[n - 1]]
      BY <1>7, <2>2
    <2> HIDE DEF G, X
    <2> QED
      BY <1>1, <2>1, <2>2, <2>3
  <1>9. at \in [Nat -> X]
    BY <1>5, <1>8
  <1> QED
    BY <1>6, <1>7, <1>9

(***************************************************************************)
(* A search from layer to layer ends where the key is bound first.         *)
(***************************************************************************)
LEMMA BindingFinds ==
  ASSUME Types, Ranked, NEW l \in DOMAIN cdr, NEW key \in Key, NEW binders,
         binders = { x \in Enclosing(l) : key \in DOMAIN node[x] },
         \A x \in DOMAIN cdr : IsInLayer(x, key) <=> key \in DOMAIN node[x]
  PROVE  IF binders = {} THEN Binding(l, key) = Nil
         ELSE Binding(l, key) \in binders /\ binders \subseteq Enclosing(Binding(l, key))
  <1>1. PICK D, size : D = DOMAIN cdr /\ size = Cardinality(D)
    OBVIOUS
  <1>2. PICK at \in [Nat -> D \cup {Nil}] :
           /\ at[0] = l
           /\ \A n \in Nat \ {0} :
                at[n] = IF at[n - 1] = Nil \/ IsInLayer(at[n - 1], key) THEN at[n - 1]
                        ELSE cdr[at[n - 1]]
           /\ Binding(l, key) = at[size]
    <2>1. PICK at \in [Nat -> DOMAIN cdr \cup {Nil}] :
           /\ at[0] = l
           /\ \A n \in Nat \ {0} :
                at[n] = IF at[n - 1] = Nil \/ IsInLayer(at[n - 1], key) THEN at[n - 1]
                        ELSE cdr[at[n - 1]]
           /\ Binding(l, key) = at[Cardinality(DOMAIN cdr)]
      BY BindingFacts
    <2>2. at \in [Nat -> D \cup {Nil}] /\ Binding(l, key) = at[size]
      BY <1>1, <2>1
    <2> QED
      BY <2>1, <2>2
  <1>3. /\ IsFiniteSet(D) /\ size \in Nat /\ Nil \notin D /\ l \in D
        /\ \A x \in D : cdr[x] \in D \cup {Nil}
    BY <1>1, KeyAssumption, FS_CardinalityType DEF Types
  <1>4. \A x \in D : /\ Enclosing(x) \subseteq D /\ x \in Enclosing(x)
                     /\ \A y \in Enclosing(x) : cdr[y] # Nil => cdr[y] \in Enclosing(x)
                     /\ cdr[x] = Nil => Enclosing(x) = {x}
                     /\ cdr[x] # Nil => /\ Enclosing(x) = {x} \cup Enclosing(cdr[x])
                                        /\ x \notin Enclosing(cdr[x])
    BY <1>1, EnclosingFacts
  <1>5. ASSUME NEW x \in D
        PROVE  /\ IsFiniteSet(Enclosing(x)) /\ Cardinality(Enclosing(x)) \in Nat
               /\ Cardinality(Enclosing(x)) # 0 /\ Cardinality(Enclosing(x)) <= size
    <2>1. IsFiniteSet(Enclosing(x)) /\ Cardinality(Enclosing(x)) <= size
      BY <1>1, <1>3, <1>4, FS_Subset
    <2> QED
      BY <1>4, <2>1, FS_CardinalityType, FS_EmptySet
  <1> DEFINE Stopped(x) == x = Nil \/ key \in DOMAIN node[x]
             Good(n) == /\ at[n] \in Enclosing(l) \cup {Nil}
                        /\ at[n] = Nil => binders = {}
                        /\ at[n] # Nil => binders \subseteq Enclosing(at[n])
                        /\ Stopped(at[n]) \/ Cardinality(Enclosing(at[n])) + n <= size
             Bad == { n \in Nat : ~Good(n) }
  <1>6. Good(0)
    <2>1. at[0] = l /\ l # Nil
      BY <1>2, <1>3
    <2>2. Cardinality(Enclosing(l)) + 0 <= size
      BY <1>3, <1>5
    <2> QED
      BY <1>3, <1>4, <2>1, <2>2
  <1>7. ASSUME NEW n \in Nat, NEW p \in Nat, p = n - 1, n # 0, Good(p)
        PROVE  Good(n)
    <2>1. at[n] = IF at[p] = Nil \/ IsInLayer(at[p], key) THEN at[p] ELSE cdr[at[p]]
      BY <1>2, <1>7
    <2>2. CASE Stopped(at[p])
      <3>1. at[n] = at[p]
        BY <1>1, <1>2, <2>1, <2>2
      <3> QED
        BY <1>7, <2>2, <3>1
    <2>3. CASE ~Stopped(at[p])
      <3>1. PICK x \in D : x = at[p]
        BY <1>2, <2>3
      <3>2. x # Nil /\ key \notin DOMAIN node[x] /\ x \in Enclosing(l)
        BY <1>3, <1>7, <2>3, <3>1
      <3>3. at[n] = cdr[x] /\ x \notin binders /\ binders \subseteq Enclosing(x)
        BY <1>1, <1>7, <2>1, <2>3, <3>1, <3>2
      <3>4. CASE cdr[x] = Nil
        BY <1>4, <3>3, <3>4
      <3>5. CASE cdr[x] # Nil
        <4>1. PICK c \in D : c = cdr[x] /\ c # Nil
          BY <1>3, <3>5
        <4>2. Enclosing(x) = {x} \cup Enclosing(c) /\ x \notin Enclosing(c) /\ c \in Enclosing(l)
          BY <1>3, <1>4, <3>2, <4>1
        <4>3. Cardinality(Enclosing(x)) = Cardinality(Enclosing(c)) + 1
          <5>1. PICK E : E = Enclosing(c) /\ IsFiniteSet(E) /\ x \notin E
            BY <1>5, <4>2
          <5>2. Cardinality(E \cup {x}) = Cardinality(E) + 1
            BY <5>1, FS_AddElement
          <5>3. Enclosing(x) = E \cup {x}
            BY <4>2, <5>1
          <5> QED
            BY <5>1, <5>2, <5>3
        <4>4. Cardinality(Enclosing(x)) + p <= size
          BY <1>7, <2>3, <3>1
        <4>5. Cardinality(Enclosing(c)) + n <= size
          <5>1. Cardinality(Enclosing(c)) \in Nat
            BY <1>5
          <5> QED
            BY ONLY <1>3, <1>7, <4>3, <4>4, <5>1
        <4> QED
          BY <3>3, <4>1, <4>2, <4>5
      <3> QED
        BY <3>4, <3>5
    <2> QED
      BY <2>2, <2>3
  <1>8. Bad = {}
    <2> SUFFICES ASSUME Bad # {} PROVE FALSE
      OBVIOUS
    <2>1. PICK n \in Bad : \A m \in Bad : n <= m
      <3>1. Bad \in SUBSET Nat
        OBVIOUS
      <3> HIDE DEF Bad
      <3> QED
        BY <3>1, LeastMember
    <2>2. n \in Nat /\ ~Good(n) /\ n # 0
      BY <1>6
    <2>3. PICK p : p = n - 1 /\ p \in Nat /\ ~(n <= p)
      BY <2>2
    <2>4. Good(p)
      BY <2>1, <2>3
    <2> HIDE DEF Good
    <2> QED
      BY <1>7, <2>2, <2>3, <2>4
  <1>9. Good(size)
    BY <1>3, <1>8
  <1>10. Stopped(at[size])
    <2> SUFFICES ASSUME ~Stopped(at[size]) PROVE FALSE
      OBVIOUS
    <2>1. at[size] \in D
      BY <1>2, <1>3
    <2>2. /\ Cardinality(Enclosing(at[size])) + size <= size
          /\ Cardinality(Enclosing(at[size])) \in Nat /\ Cardinality(Enclosing(at[size])) # 0
      BY <1>5, <1>9, <2>1
    <2> QED
      BY ONLY <1>3, <2>2
  <1> QED
    BY <1>2, <1>9, <1>10

(***************************************************************************)
(* A search finds a key in the nearest layer that binds it, or nowhere.    *)
(***************************************************************************)
THEOREM MeaningAlways == Spec => []Meaning
  <1>1. LayerInv => Meaning
    <2> SUFFICES ASSUME LayerInv, pc = "rest", NEW l \in DOMAIN cdr, NEW key \in Key
                 PROVE  LET b == Binding(l, key)
                            binders == { x \in Enclosing(l) : key \in Subtree(x, car[x]) }
                        IN IF binders = {} THEN b = Nil
                           ELSE b \in binders /\ binders \subseteq Enclosing(b)
      BY DEF Meaning
    <2>1. Types /\ Ranked /\ \A x \in DOMAIN cdr : Sound(node[x], car[x])
      BY DEF LayerInv, Settled, Rebuilding
    <2>2. \A x \in DOMAIN cdr : /\ Subtree(x, car[x]) = DOMAIN node[x]
                                /\ Found(x, key) = IF key \in DOMAIN node[x] THEN key ELSE Nil
      BY <2>1, SoundSeen
    <2>3. Enclosing(l) \subseteq DOMAIN cdr
      BY <2>1, EnclosingFacts
    <2>4. \A x \in DOMAIN cdr : IsInLayer(x, key) <=> key \in DOMAIN node[x]
      BY <2>2, KeyAssumption DEF IsInLayer
    <2>5. PICK binders : binders = { x \in Enclosing(l) : key \in DOMAIN node[x] }
      OBVIOUS
    <2>6. binders = { x \in Enclosing(l) : key \in Subtree(x, car[x]) }
      BY <2>2, <2>3, <2>5
    <2>7. IF binders = {} THEN Binding(l, key) = Nil
          ELSE Binding(l, key) \in binders /\ binders \subseteq Enclosing(Binding(l, key))
      BY <2>1, <2>4, <2>5, BindingFinds
    <2> QED
      BY <2>6, <2>7
  <1> QED
    BY <1>1, LayerSound, PTL


-----------------------------------------------------------------------------
(* Layers are scopes *)

(* What the scopes show of a tree. *)
Shown(n) == [k \in DOMAIN n |-> [value |-> n[k].value, count |-> n[k].count]]

BoundShown == Bound = [l \in DOMAIN cdr |-> Shown(node[l])]

(* A layer binds the keys of its binders, all of them. *)
LEMMA BoundIs == LayerInv => BoundShown
  <1> SUFFICES ASSUME LayerInv PROVE BoundShown
    OBVIOUS
  <1>1. ASSUME NEW l \in DOMAIN cdr PROVE Keys(l) = DOMAIN node[l]
    <2>1. CASE Rebuilding(l)
      BY <2>1 DEF Keys, Rebuilding
    <2>2. CASE ~Rebuilding(l)
      <3>1. Types /\ Sound(node[l], car[l])
        BY <2>2 DEF LayerInv, Settled
      <3>2. \A key \in DOMAIN node[l] : key \in Key /\ Found(l, key) = key
        BY <3>1, SoundSeen, TypesTrees
      <3>3. \A key \in DOMAIN node[l] : IsInLayer(l, key)
        BY <3>2, KeyAssumption DEF IsInLayer
      <3> QED
        BY <2>2, <3>3 DEF Keys, Rebuilding
    <2> QED
      BY <2>1, <2>2
  <1> QED
    BY <1>1 DEF BoundShown, Bound, Shown

(* A new layer shows nothing. *)
LEMMA NothingShown == Shown(<< >>) = << >>
  <1>1. DOMAIN << >> = {}
    OBVIOUS
  <1> QED
    BY <1>1 DEF Shown

(* When one tree changes, one scope does. *)
LEMMA OneScope ==
  ASSUME Types, BoundShown, BoundShown', cdr' = cdr, NEW l \in DOMAIN cdr, NEW t, IsTree(t),
         node' = [node EXCEPT ![l] = t]
  PROVE  /\ Bound[l] = Shown(node[l]) /\ Bound'[l] = Shown(t)
         /\ Bound' = [Bound EXCEPT ![l] = Bound'[l]]
  <1>1. node'[l] = t /\ \A x \in DOMAIN cdr : x # l => node'[x] = node[x]
    BY OneTree
  <1>2. Bound = [x \in DOMAIN cdr |-> Shown(node[x])] /\ Bound' = [x \in DOMAIN cdr |-> Shown(node'[x])]
    BY DEF BoundShown
  <1> QED
    BY <1>1, <1>2

(* PUSH LAYER is a step of the scopes. *)
LEMMA PushLayerShown ==
  ASSUME LayerInv, BoundShown, BoundShown', NEW l \in Layer, NEW next \in DOMAIN cdr \cup {Nil},
         PushLayer(l, next)
  PROVE  Scopes!Next
  <1>1. /\ l \notin DOMAIN cdr
        /\ DOMAIN cdr' = DOMAIN cdr \cup {l}
        /\ cdr' = [x \in DOMAIN cdr \cup {l} |-> IF x = l THEN next ELSE cdr[x]]
        /\ node' = [x \in DOMAIN cdr \cup {l} |-> IF x = l THEN << >> ELSE node[x]]
    BY DEF PushLayer
  <1>2. Bound = [x \in DOMAIN cdr |-> Shown(node[x])] /\ Bound' = [x \in DOMAIN cdr' |-> Shown(node'[x])]
    BY DEF BoundShown
  <1>3. Bound' = [x \in DOMAIN cdr \cup {l} |-> IF x = l THEN << >> ELSE Bound[x]]
    <2>1. \A x \in DOMAIN cdr' : Shown(node'[x]) = IF x = l THEN << >> ELSE Bound[x]
      BY <1>1, <1>2, NothingShown
    <2> QED
      BY <1>1, <1>2, <2>1
  <1>4. Bound' # Bound
    <2>1. DOMAIN Bound' # DOMAIN Bound
      BY <1>1, <1>2
    <2> QED
      BY <2>1
  <1>5. Scopes!PushLayer(l, next)
    BY <1>1, <1>3 DEF Scopes!PushLayer
  <1> QED
    BY <1>1, <1>4, <1>5 DEF Scopes!Next

(* DESTROY LAYER is a step of the scopes. *)
LEMMA DestroyLayerShown ==
  ASSUME LayerInv, BoundShown, BoundShown', NEW l \in DOMAIN cdr, DestroyLayer(l)
  PROVE  Scopes!Next
  <1>1. /\ DOMAIN cdr' = DOMAIN cdr \ {l}
        /\ cdr' = Restrict(cdr, DOMAIN cdr \ {l})
        /\ node' = [x \in DOMAIN cdr \ {l} |-> node[x]]
    BY DEF DestroyLayer, Restrict
  <1>2. Bound = [x \in DOMAIN cdr |-> Shown(node[x])] /\ Bound' = [x \in DOMAIN cdr' |-> Shown(node'[x])]
    BY DEF BoundShown
  <1>3. Bound' = Restrict(Bound, DOMAIN Bound \ {l})
    <2>1. DOMAIN Bound \ {l} = DOMAIN cdr' /\ \A x \in DOMAIN cdr' : Shown(node'[x]) = Bound[x]
      BY <1>1, <1>2
    <2> QED
      BY <1>2, <2>1 DEF Restrict
  <1>4. Bound' # Bound
    <2>1. DOMAIN Bound' # DOMAIN Bound
      BY <1>1, <1>2
    <2> QED
      BY <2>1
  <1>5. Scopes!DestroyLayer(l)
    BY <1>1, <1>3 DEF Scopes!DestroyLayer, Scopes!Restrict, Restrict
  <1> QED
    BY <1>4, <1>5 DEF Scopes!Next

(* SET COUNTS is a step of the scopes, if it changes any count. *)
LEMMA SetCountsShown ==
  ASSUME LayerInv, BoundShown, BoundShown', NEW l \in DOMAIN cdr, NEW keys \in SUBSET DOMAIN node[l],
         NEW counts \in [keys -> Count], SetCounts(l, counts)
  PROVE  Scopes!Next \/ UNCHANGED <<cdr, Bound>>
  <1>1. cdr' = cdr
    BY DEF SetCounts
  <1>2. PICK t : /\ SameShape(node[l], t) /\ node' = [node EXCEPT ![l] = t]
                 /\ \A k \in DOMAIN t : /\ t[k].value = node[l][k].value
                                        /\ t[k].count \in Count \cup {node[l][k].count}
    BY CountsShape
  <1>3. /\ Bound[l] = Shown(node[l]) /\ Bound'[l] = Shown(t)
        /\ Bound' = [Bound EXCEPT ![l] = Bound'[l]]
    BY <1>1, <1>2, OneScope DEF LayerInv, SameShape
  <1>4. DOMAIN t = DOMAIN node[l]
    BY <1>2 DEF SameShape
  <1>5. PICK was, is : was = Bound[l] /\ is = Bound'[l]
    OBVIOUS
  <1>6. /\ DOMAIN is = DOMAIN was
        /\ \A k \in DOMAIN was : /\ was[k] = [value |-> node[l][k].value, count |-> node[l][k].count]
                                 /\ is[k] = [value |-> t[k].value, count |-> t[k].count]
    BY <1>3, <1>4, <1>5 DEF Shown
  <1>7. ASSUME NEW k \in DOMAIN was
        PROVE  \E c \in Count \cup {was[k].count} : is[k] = [was[k] EXCEPT !.count = c]
    <2>1. PICK c : c = t[k].count
      OBVIOUS
    <2>2. k \in DOMAIN t /\ was[k].count = node[l][k].count /\ c \in Count \cup {was[k].count}
      BY <1>2, <1>3, <1>4, <1>5, <1>6, <2>1 DEF Shown
    <2>3. is[k] = [was[k] EXCEPT !.count = c]
      BY <1>2, <1>6, <2>1, <2>2
    <2> QED
      BY <2>2, <2>3
  <1>8. Scopes!SetCounts(l)
    <2>1. \A k \in DOMAIN Bound[l] :
            \E c \in Count \cup {Bound[l][k].count} : Bound'[l][k] = [Bound[l][k] EXCEPT !.count = c]
      BY ONLY <1>5, <1>7
    <2>2. DOMAIN Bound'[l] = DOMAIN Bound[l]
      BY <1>5, <1>6
    <2> QED
      BY ONLY <1>1, <1>3, <2>1, <2>2 DEF Scopes!SetCounts
  <1> QED
    BY <1>1, <1>8 DEF Scopes!Next

(* The step where a key becomes bound is the one that adds its binder. *)
LEMMA AddShown ==
  ASSUME LayerInv, BoundShown, BoundShown', Add
  PROVE  Scopes!Next
  <1>1. PICK l, key, n : l = call.layer /\ key = call.key /\ n = node[l]
    OBVIOUS
  <1>2. cdr' = cdr /\ pc = "down"
    BY DEF Add
  <1>3. /\ l \in DOMAIN cdr /\ key \in Key /\ call.value \in Value /\ Types /\ key \notin DOMAIN n
    BY <1>1, <1>2, AddKeeps DEF LayerInv, Types
  <1>4. PICK b : b = NewBinder
    OBVIOUS
  <1>5. b \in Binder /\ b.left = Nil /\ b.right = Nil /\ b.tag = "even" /\ b.value = call.value /\ b.count = Nil
    BY <1>3, <1>4 DEF NewBinder, Binder, Tag
  <1>6. PICK t : t = Added(n, key, b)
    OBVIOUS
  <1>7. node' = [node EXCEPT ![l] = t] /\ IsTree(t)
    <2>1. node' = [node EXCEPT ![l] = t]
      BY <1>1, <1>4, <1>6 DEF Add, Added
    <2>2. IsTree(n)
      BY <1>1, <1>3, TypesTrees
    <2>3. IsTree(t)
      BY <1>3, <1>5, <1>6, <2>2 DEF IsTree, Added
    <2> QED
      BY <2>1, <2>3
  <1>8. /\ Bound[l] = Shown(n) /\ Bound'[l] = Shown(t)
        /\ Bound' = [Bound EXCEPT ![l] = Bound'[l]]
    BY <1>1, <1>2, <1>3, <1>7, OneScope
  <1>9. PICK was, is : was = Bound[l] /\ is = Bound'[l]
    OBVIOUS
  <1>10. /\ DOMAIN t = DOMAIN n \cup {key} /\ t[key] = b
         /\ \A k \in DOMAIN n : t[k] = n[k]
    BY <1>3, <1>6 DEF Added
  <1>11. /\ DOMAIN was = DOMAIN n /\ DOMAIN is = DOMAIN was \cup {key}
         /\ \A k \in DOMAIN was \ {key} : is[k] = was[k]
         /\ is[key].value = call.value /\ is[key].count = Nil
    BY <1>5, <1>8, <1>9, <1>10 DEF Shown
  <1>12. Scopes!SetKey(l)
    <2>1. Bound' = [Bound EXCEPT ![l] = is]
      BY <1>8, <1>9
    <2>2. /\ key \in Key \cap DOMAIN is /\ is[key].value \in Value
          /\ is[key].count = IF key \in DOMAIN was THEN was[key].count ELSE Nil
      BY <1>3, <1>11
    <2> QED
      BY <1>2, <1>9, <1>11, <2>1, <2>2 DEF Scopes!SetKey
  <1>13. Bound' # Bound
    <2>1. DOMAIN is # DOMAIN was
      BY <1>3, <1>11
    <2> QED
      BY <1>9, <2>1
  <1> QED
    BY <1>3, <1>12, <1>13 DEF Scopes!Next

(* A key gets its new value in one step. *)
LEMMA RebindShown ==
  ASSUME LayerInv, BoundShown, BoundShown', Rebind
  PROVE  Scopes!Next \/ UNCHANGED <<cdr, Bound>>
  <1>1. PICK l, key, n : l = call.layer /\ key = call.key /\ n = node[l]
    OBVIOUS
  <1>2. cdr' = cdr /\ pc = "down"
    BY DEF Rebind
  <1>3. /\ l \in DOMAIN cdr /\ key \in Key /\ call.value \in Value /\ Types
    BY <1>1, <1>2 DEF LayerInv, Types
  <1>4. PICK t : /\ SameShape(n, t) /\ node' = [node EXCEPT ![l] = t] /\ key \in DOMAIN n
                 /\ t[key].value = call.value /\ t[key].count = n[key].count
                 /\ \A k \in DOMAIN t : k # key => t[k] = n[k]
    BY <1>1, RebindKeeps
  <1>5. /\ Bound[l] = Shown(n) /\ Bound'[l] = Shown(t)
        /\ Bound' = [Bound EXCEPT ![l] = Bound'[l]]
    <2>1. IsTree(t)
      BY <1>4 DEF SameShape
    <2> QED
      BY <1>1, <1>2, <1>3, <1>4, <2>1, OneScope
  <1>6. PICK was, is : was = Bound[l] /\ is = Bound'[l]
    OBVIOUS
  <1>7. /\ DOMAIN was = DOMAIN n /\ DOMAIN is = DOMAIN was /\ key \in DOMAIN was
        /\ \A k \in DOMAIN was \ {key} : is[k] = was[k]
        /\ is[key].value = call.value /\ is[key].count = was[key].count
    BY <1>4, <1>5, <1>6 DEF Shown, SameShape
  <1>8. Scopes!SetKey(l)
    <2>1. Bound' = [Bound EXCEPT ![l] = is]
      BY <1>5, <1>6
    <2>2. /\ key \in Key \cap DOMAIN is /\ is[key].value \in Value
          /\ DOMAIN is = DOMAIN was \cup {key}
          /\ is[key].count = IF key \in DOMAIN was THEN was[key].count ELSE Nil
      BY <1>3, <1>7
    <2> QED
      BY <1>2, <1>6, <1>7, <2>1, <2>2 DEF Scopes!SetKey
  <1> QED
    BY <1>2, <1>3, <1>8 DEF Scopes!Next

(* The rotations cannot be seen. *)
LEMMA UpShown ==
  ASSUME LayerInv, BoundShown, BoundShown', Up
  PROVE  UNCHANGED <<cdr, Bound>>
  <1>1. PICK l, n : l = call.layer /\ n = node[l]
    OBVIOUS
  <1>2. cdr' = cdr /\ pc = "up"
    BY DEF Up
  <1>3. l \in DOMAIN cdr /\ Types
    BY <1>1, <1>2 DEF LayerInv, Types
  <1>4. PICK t : /\ IsTree(t) /\ DOMAIN t = DOMAIN n /\ node' = [node EXCEPT ![l] = t]
                 /\ \A k \in DOMAIN t : t[k].value = n[k].value /\ t[k].count = n[k].count
    BY <1>1, UpKeeps
  <1>5. Shown(t) = Shown(n)
    BY <1>4 DEF Shown
  <1>6. /\ Bound[l] = Shown(n) /\ Bound'[l] = Shown(t)
        /\ Bound' = [Bound EXCEPT ![l] = Bound'[l]]
    BY <1>1, <1>2, <1>3, <1>4, OneScope
  <1>7. Bound = [x \in DOMAIN cdr |-> Shown(node[x])]
    BY DEF BoundShown
  <1>8. Bound' = Bound
    <2>1. Bound' = [Bound EXCEPT ![l] = Bound[l]]
      BY <1>5, <1>6
    <2> QED
      BY <1>7, <2>1
  <1> QED
    BY <1>2, <1>8

(***************************************************************************)
(* Layer implements the scopes of module Scope.                            *)
(***************************************************************************)
THEOREM LayersAreScopes == Spec => ImplementsScopes
  <1>1. Init => Scopes!Init
    <2> SUFFICES ASSUME Init PROVE Scopes!Init
      OBVIOUS
    <2>1. BoundShown
      BY LayerStarts, BoundIs
    <2>2. /\ \E l \in Layer : cdr = [x \in {l} |-> Nil]
          /\ node = [l \in DOMAIN cdr |-> << >>]
      BY DEF Init
    <2>3. Bound = [l \in DOMAIN cdr |-> << >>]
      BY <2>1, <2>2, NothingShown DEF BoundShown
    <2> QED
      BY <2>2, <2>3 DEF Scopes!Init
  <1>2. LayerInv /\ BoundShown /\ BoundShown' /\ [Next]_vars => [Scopes!Next]_(Scopes!vars)
    <2> SUFFICES ASSUME LayerInv, BoundShown, BoundShown', [Next]_vars
                 PROVE  Scopes!Next \/ UNCHANGED <<cdr, Bound>>
      BY DEF Scopes!vars
    <2>1. ASSUME cdr' = cdr, node' = node PROVE UNCHANGED <<cdr, Bound>>
      <3>1. /\ Bound = [x \in DOMAIN cdr |-> Shown(node[x])]
            /\ Bound' = [x \in DOMAIN cdr' |-> Shown(node'[x])]
        BY DEF BoundShown
      <3> QED
        BY <2>1, <3>1
    <2>2. CASE \E l \in Layer : \E next \in DOMAIN cdr \cup {Nil} : PushLayer(l, next)
      BY <2>2, PushLayerShown
    <2>3. CASE \E l \in DOMAIN cdr : DestroyLayer(l)
      BY <2>3, DestroyLayerShown
    <2>4. CASE \E l \in DOMAIN cdr : \E keys \in SUBSET DOMAIN node[l] :
                 \E counts \in [keys -> Count] : SetCounts(l, counts)
      BY <2>4, SetCountsShown
    <2>5. CASE \/ \E l \in DOMAIN cdr : \E key \in Key, value \in Value : SetKey(l, key, value)
               \/ Down \/ Finish \/ UNCHANGED vars
      <3>1. cdr' = cdr /\ node' = node
        BY <2>5 DEF SetKey, Down, Finish, vars, layerVars
      <3> QED
        BY <2>1, <3>1
    <2>6. CASE Add \/ Rebind \/ Up
      BY <2>6, AddShown, RebindShown, UpShown
    <2> QED
      BY <2>2, <2>3, <2>4, <2>5, <2>6 DEF Next, SettingKey
  <1> QED
    BY <1>1, <1>2, LayerSound, BoundIs, PTL DEF Spec, ImplementsScopes, Scopes!Spec

-----------------------------------------------------------------------------
(***************************************************************************)
(* What SET KEY has still to do: on its way up, the path back and storing  *)
(* the tree; on its way down, at most that for a path through all keys,    *)
(* and the binders of the path that it has not yet gone through.           *)
(***************************************************************************)
ToGo == CASE pc = "rest" -> 0
          [] pc = "down" -> 2 * Cardinality(Key) + 3 - Len(path)
          [] pc = "up"   -> Len(path) + 1

PathShort == /\ Len(path) \in Nat /\ Cardinality(Key) \in Nat
             /\ pc = "down" => Len(path) <= Cardinality(Key)

(* The search goes through no binder twice, so through no more than there are keys. *)
LEMMA PathIsShort == LayerInv => PathShort
  <1> SUFFICES ASSUME LayerInv PROVE PathShort
    OBVIOUS
  <1>1. Len(path) \in Nat
    <2>1. CASE pc = "rest"
      BY <2>1 DEF LayerInv, Types
    <2>2. CASE pc = "down"
      BY <2>2, PathFacts DEF LayerInv, Seeking
    <2>3. CASE pc = "up"
      BY <2>3 DEF LayerInv, Returning
    <2> QED
      BY <2>1, <2>2, <2>3 DEF LayerInv, Types
  <1>2. IsFiniteSet(Key) /\ Cardinality(Key) \in Nat
    BY KeyAssumption, FS_CardinalityType
  <1>3. ASSUME pc = "down" PROVE Len(path) <= Cardinality(Key)
    <2>1. PICK l, key, t, p, q : l = call.layer /\ key = call.key /\ t = node[l] /\ p = path /\ q = P0
      OBVIOUS
    <2>2. Linked(t, p, q, key) /\ l \in DOMAIN cdr
      BY <1>3, <2>1 DEF LayerInv, Seeking, Types
    <2>3. Sound(t, car[l])
      BY <1>3, <2>1, <2>2 DEF LayerInv, Settled, Rebuilding
    <2>4. PICK S : IsTree(t) /\ Searchable(t, S)
      BY <2>3 DEF Sound, Whole
    <2>5. /\ Len(p) \in Nat /\ DOMAIN p = 1 .. Len(p) /\ p \in [1 .. Len(p) -> DOMAIN t]
          /\ \A i \in 1 .. Len(p) : p[i] \in DOMAIN t
      BY <2>2, PathFacts DEF Linked
    <2>6. \A i \in 1 .. Len(p) : \A j \in (i + 1) .. Len(p) : p[i] # p[j]
      <3> TAKE i \in 1 .. Len(p)
      <3> TAKE j \in (i + 1) .. Len(p)
      <3>1. p[i] \notin S[p[j]]
        BY <2>2, <2>4, PathApart
      <3>2. p[j] \in S[p[j]]
        BY <2>4, <2>5 DEF Searchable, Hangs, Side
      <3> QED
        BY <3>1, <3>2
    <2>7. \A i, j \in 1 .. Len(p) : p[i] = p[j] => i = j
      <3> TAKE i \in 1 .. Len(p), j \in 1 .. Len(p)
      <3>1. i = j \/ j \in (i + 1) .. Len(p) \/ i \in (j + 1) .. Len(p)
        BY <2>5
      <3> QED
        BY <2>6, <3>1
    <2>8. DOMAIN t \subseteq Key
      BY <2>4 DEF IsTree
    <2>9. p \in Injection(1 .. Len(p), Key)
      BY <2>5, <2>7, <2>8 DEF Injection, IsInjective
    <2>10. Cardinality(1 .. Len(p)) <= Cardinality(Key)
      BY <1>2, <2>9, FS_Injection
    <2>11. Cardinality(1 .. Len(p)) = Len(p)
      <3>1. \A n \in Nat : Cardinality(1 .. n) = n
        BY FS_Interval
      <3> QED
        BY ONLY <2>5, <3>1
    <2> QED
      BY <2>1, <2>10, <2>11
  <1> QED
    BY <1>1, <1>2, <1>3 DEF PathShort

(***************************************************************************)
(* Every step of SET KEY leaves it less to do, so that it makes at most    *)
(* 2 * Cardinality(Key) + 3 of them.  That it is never stuck on the way is *)
(* left to model checking.                                                 *)
(***************************************************************************)
THEOREM SetKeyShrinks == Spec => /\ [](ToGo \in Nat /\ (ToGo = 0 <=> pc = "rest"))
                                 /\ [][pc # "rest" => ToGo' < ToGo]_vars
  <1>1. LayerInv => ToGo \in Nat /\ (ToGo = 0 <=> pc = "rest")
    <2> SUFFICES ASSUME LayerInv PROVE ToGo \in Nat /\ (ToGo = 0 <=> pc = "rest")
      OBVIOUS
    <2>1. PathShort /\ pc \in {"rest", "down", "up"}
      BY PathIsShort DEF LayerInv, Types
    <2> QED
      BY <2>1 DEF ToGo, PathShort
  <1>2. LayerInv /\ Next => (pc # "rest" => ToGo' < ToGo)
    <2> SUFFICES ASSUME LayerInv, Next, pc # "rest" PROVE ToGo' < ToGo
      OBVIOUS
    <2>1. SettingKey
      BY DEF Next, PushLayer, DestroyLayer, SetKey, SetCounts
    <2>2. PathShort
      BY PathIsShort
    <2>3. CASE Down
      <3>1. path \in Seq(DOMAIN node[call.layer]) /\ path' = Append(path, P0)
        BY <2>3 DEF Down, LayerInv, Seeking, Linked
      <3>2. Len(path') = Len(path) + 1 /\ pc = "down" /\ pc' = "down"
        BY <2>3, <3>1 DEF Down
      <3> QED
        BY <2>2, <3>2 DEF ToGo, PathShort
    <2>4. CASE Add
      <3>1. pc = "down" /\ pc' = "up" /\ path' = path
        BY <2>4 DEF Add
      <3> QED
        BY <2>2, <3>1 DEF ToGo, PathShort
    <2>5. CASE Rebind
      <3>1. pc = "down" /\ pc' = "up" /\ path' = path
        BY <2>5 DEF Rebind
      <3> QED
        BY <2>2, <3>1 DEF ToGo, PathShort
    <2>6. CASE Up
      <3>1. path \in Seq(DOMAIN node[call.layer]) /\ path # << >> /\ path' = Front(path)
        BY <2>6 DEF Up, LayerInv, Returning
      <3>2. Len(path') = Len(path) - 1 /\ pc = "up" /\ pc' = "up"
        BY <2>6, <3>1, FrontFacts DEF Up
      <3> QED
        BY <2>2, <3>2 DEF ToGo, PathShort
    <2>7. CASE Finish
      <3>1. pc = "up" /\ pc' = "rest"
        BY <2>7 DEF Finish
      <3> QED
        BY <2>2, <3>1 DEF ToGo, PathShort
    <2> QED
      BY <2>1, <2>3, <2>4, <2>5, <2>6, <2>7 DEF SettingKey
  <1>3. LayerInv /\ [Next]_vars => [pc # "rest" => ToGo' < ToGo]_vars
    BY <1>2
  <1> QED
    BY LayerSound, <1>1, <1>3, PTL DEF Spec
=============================================================================
