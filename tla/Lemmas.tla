-------------------------------- MODULE Lemmas -------------------------------
(***************************************************************************)
(* What the operations on the free lists of HUNK.C do to the members of a  *)
(* list, that a list without repetitions stays one, and what holds of all  *)
(* that is reached from a set of roots.                                    *)
(***************************************************************************)
EXTENDS Order, Reach, SequencesExt, FiniteSetTheorems, SequenceTheorems, WellFoundedInduction,
        TLAPS

(***************************************************************************)
(* Taking the first hunk of a list removes that hunk and no other.         *)
(***************************************************************************)
LEMMA TailFacts ==
  ASSUME NEW S, NEW s \in Seq(S), s # <<>>, IsInjective(s)
  PROVE  /\ Head(s) \in S
         /\ Head(s) \in Range(s)
         /\ Tail(s) \in Seq(S)
         /\ IsInjective(Tail(s))
         /\ Range(Tail(s)) = Range(s) \ {Head(s)}
<1>1. Len(s) \in Nat /\ Len(s) > 0 /\ DOMAIN s = 1 .. Len(s) /\ Head(s) = s[1]
  OBVIOUS
<1>2. /\ Tail(s) \in Seq(S)
      /\ DOMAIN Tail(s) = 1 .. (Len(s) - 1)
      /\ \A i \in 1 .. (Len(s) - 1) : Tail(s)[i] = s[i + 1]
  BY <1>1
<1>3. IsInjective(Tail(s))
  BY <1>1, <1>2 DEF IsInjective
<1>4. Range(Tail(s)) \subseteq Range(s) \ {Head(s)}
  BY <1>1, <1>2 DEF Range, IsInjective
<1>5. ASSUME NEW x \in Range(s) \ {Head(s)} PROVE x \in Range(Tail(s))
  <2>1. PICK i \in DOMAIN s : s[i] = x
    BY DEF Range
  <2>2. i # 1 /\ i - 1 \in 1 .. (Len(s) - 1)
    BY <1>1, <2>1
  <2>3. Tail(s)[i - 1] = x
    BY <1>1, <1>2, <2>1, <2>2
  <2> QED BY <1>2, <2>2, <2>3 DEF Range
<1>6. Head(s) \in S /\ Head(s) \in Range(s)
  <2>1. 1 \in DOMAIN s /\ s[1] = Head(s)
    BY <1>1
  <2> QED BY <1>1, <2>1 DEF Range
<1>7. Range(Tail(s)) = Range(s) \ {Head(s)}
  BY <1>4, <1>5
<1> QED BY <1>2, <1>3, <1>6, <1>7

(***************************************************************************)
(* Two lists with no member in common make one list without repetitions.   *)
(***************************************************************************)
LEMMA ConcatFacts ==
  ASSUME NEW S, NEW s \in Seq(S), NEW t \in Seq(S),
         IsInjective(s), IsInjective(t), Range(s) \cap Range(t) = {}
  PROVE  /\ s \o t \in Seq(S)
         /\ IsInjective(s \o t)
         /\ Range(s \o t) = Range(s) \cup Range(t)
<1> DEFINE m == Len(s)
           n == Len(t)
<1>1. /\ m \in Nat /\ n \in Nat
      /\ DOMAIN s = 1 .. m /\ DOMAIN t = 1 .. n
      /\ s \o t \in Seq(S)
      /\ DOMAIN (s \o t) = 1 .. (m + n)
      /\ \A i \in 1 .. (m + n) : (s \o t)[i] = IF i <= m THEN s[i] ELSE t[i - m]
  OBVIOUS
<1> HIDE DEF m, n
<1>2. ASSUME NEW i \in 1 .. (m + n)
      PROVE  \/ i \in DOMAIN s /\ (s \o t)[i] = s[i]
             \/ i - m \in DOMAIN t /\ (s \o t)[i] = t[i - m] /\ i > m
  BY <1>1
<1>3. ASSUME NEW i \in 1 .. (m + n), NEW j \in 1 .. (m + n), (s \o t)[i] = (s \o t)[j]
      PROVE  i = j
  <2>1. CASE i <= m /\ j <= m
    BY <1>1, <1>3, <2>1 DEF IsInjective
  <2>2. CASE i > m /\ j > m
    <3>1. i - m \in DOMAIN t /\ j - m \in DOMAIN t /\ t[i - m] = t[j - m]
      BY <1>1, <1>3, <2>2
    <3>2. i - m = j - m
      BY <3>1 DEF IsInjective
    <3> QED BY <1>1, <3>2
  <2>3. CASE i <= m /\ j > m
    <3>1. i \in DOMAIN s /\ j - m \in DOMAIN t /\ s[i] = t[j - m]
      BY <1>1, <1>3, <2>3
    <3> QED BY <3>1 DEF Range
  <2>4. CASE i > m /\ j <= m
    <3>1. j \in DOMAIN s /\ i - m \in DOMAIN t /\ s[j] = t[i - m]
      BY <1>1, <1>3, <2>4
    <3> QED BY <3>1 DEF Range
  <2> QED BY <1>1, <2>1, <2>2, <2>3, <2>4
<1>4. Range(s \o t) \subseteq Range(s) \cup Range(t)
  BY <1>1, <1>2 DEF Range
<1>5. ASSUME NEW x \in Range(s) PROVE x \in Range(s \o t)
  <2>1. PICK i \in DOMAIN s : s[i] = x
    BY DEF Range
  <2>2. i \in 1 .. (m + n) /\ (s \o t)[i] = x
    BY <1>1, <2>1
  <2> QED BY <1>1, <2>2 DEF Range
<1>6. ASSUME NEW x \in Range(t) PROVE x \in Range(s \o t)
  <2>1. PICK i \in DOMAIN t : t[i] = x
    BY DEF Range
  <2>2. m + i \in 1 .. (m + n) /\ (s \o t)[m + i] = x
    BY <1>1, <2>1
  <2> QED BY <1>1, <2>2 DEF Range
<1> QED BY <1>1, <1>3, <1>4, <1>5, <1>6 DEF IsInjective

(***************************************************************************)
(* DESTROY puts one hunk in front of a list.                               *)
(***************************************************************************)
LEMMA ConsFacts ==
  ASSUME NEW S, NEW s \in Seq(S), NEW a \in S, IsInjective(s), a \notin Range(s)
  PROVE  /\ <<a>> \o s \in Seq(S)
         /\ IsInjective(<<a>> \o s)
         /\ Range(<<a>> \o s) = {a} \cup Range(s)
<1> DEFINE t == <<a>>
<1>1. t \in Seq(S) /\ DOMAIN t = {1} /\ t[1] = a
  OBVIOUS
<1> HIDE DEF t
<1>2. IsInjective(t) /\ Range(t) = {a}
  BY <1>1 DEF IsInjective, Range
<1>3. Range(t) \cap Range(s) = {}
  BY <1>2
<1>4. /\ t \o s \in Seq(S)
      /\ IsInjective(t \o s)
      /\ Range(t \o s) = {a} \cup Range(s)
  BY <1>1, <1>2, <1>3, ConcatFacts
<1> QED BY <1>4 DEF t

(***************************************************************************)
(* Unlinking a hunk that fits exactly.                                     *)
(***************************************************************************)
LEMMA RemoveFacts ==
  ASSUME NEW S, NEW s \in Seq(S), NEW i \in DOMAIN s, IsInjective(s)
  PROVE  /\ RemoveAt(s, i) \in Seq(S)
         /\ IsInjective(RemoveAt(s, i))
         /\ Range(RemoveAt(s, i)) = Range(s) \ {s[i]}
<1> DEFINE l == SubSeq(s, 1, i - 1)
           r == SubSeq(s, i + 1, Len(s))
           n == Len(s)
<1>1. n \in Nat /\ DOMAIN s = 1 .. n /\ i \in 1 .. n
  OBVIOUS
<1>2. /\ l \in Seq(S) /\ DOMAIN l = 1 .. (i - 1)
      /\ \A k \in 1 .. (i - 1) : l[k] = s[k]
  BY <1>1
<1>3. /\ r \in Seq(S) /\ DOMAIN r = 1 .. (n - i)
      /\ \A k \in 1 .. (n - i) : r[k] = s[i + k]
  BY <1>1
<1>4. RemoveAt(s, i) = l \o r
  BY DEF RemoveAt
<1> HIDE DEF l, r, n
<1>5. IsInjective(l) /\ Range(l) = { s[k] : k \in 1 .. (i - 1) }
  BY <1>1, <1>2 DEF IsInjective, Range
<1>6. IsInjective(r) /\ Range(r) \subseteq { s[k] : k \in (i + 1) .. n }
  <2>1. ASSUME NEW j \in DOMAIN r, NEW k \in DOMAIN r, r[j] = r[k]
        PROVE  j = k
    <3>1. i + j \in DOMAIN s /\ i + k \in DOMAIN s /\ s[i + j] = s[i + k]
      BY <1>1, <1>3, <2>1
    <3>2. i + j = i + k
      BY <3>1 DEF IsInjective
    <3> QED BY <1>1, <1>3, <3>2
  <2>2. \A k \in DOMAIN r : i + k \in (i + 1) .. n /\ r[k] = s[i + k]
    BY <1>1, <1>3
  <2> QED BY <2>1, <2>2 DEF IsInjective, Range
<1>7. ASSUME NEW k \in (i + 1) .. n PROVE s[k] \in Range(r)
  <2>1. k - i \in 1 .. (n - i) /\ i + (k - i) = k
    BY <1>1
  <2>2. r[k - i] = s[k]
    BY <1>3, <2>1
  <2> QED BY <1>3, <2>1, <2>2 DEF Range
<1>8. Range(l) \cap Range(r) = {}
  BY <1>1, <1>5, <1>6 DEF IsInjective
<1>9. Range(l) \cup Range(r) = Range(s) \ {s[i]}
  <2>1. \A k \in 1 .. n : k # i => k \in 1 .. (i - 1) \/ k \in (i + 1) .. n
    BY <1>1
  <2>2. \A k \in 1 .. n : k # i => s[k] # s[i]
    BY <1>1 DEF IsInjective
  <2>3. Range(s) = { s[k] : k \in 1 .. n }
    BY <1>1 DEF Range
  <2>4. Range(s) \ {s[i]} \subseteq Range(l) \cup Range(r)
    BY <2>1, <2>3, <1>5, <1>7
  <2>5. Range(l) \cup Range(r) \subseteq Range(s) \ {s[i]}
    BY <1>1, <2>2, <2>3, <1>5, <1>6
  <2> QED BY <2>4, <2>5
<1> QED BY <1>2, <1>3, <1>4, <1>5, <1>6, <1>8, <1>9, ConcatFacts

(***************************************************************************)
(* Leaving the remainder of a split hunk in its place.                     *)
(***************************************************************************)
LEMMA ReplaceFacts ==
  ASSUME NEW S, NEW s \in Seq(S), NEW i \in DOMAIN s, IsInjective(s),
         NEW b \in S, b \notin Range(s), NEW t \in Seq(S),
         DOMAIN t = DOMAIN s, t[i] = b, \A k \in DOMAIN s : k # i => t[k] = s[k]
  PROVE  /\ IsInjective(t)
         /\ Range(t) = (Range(s) \ {s[i]}) \cup {b}
<1>1. IsInjective(t)
  BY DEF IsInjective, Range
<1>2. Range(t) = (Range(s) \ {s[i]}) \cup {b}
  BY DEF IsInjective, Range
<1> QED BY <1>1, <1>2

(***************************************************************************)
(* The sweep pushes the hunks it meets, so a list has them in reverse.     *)
(***************************************************************************)
LEMMA ReverseFacts ==
  ASSUME NEW S, NEW s \in Seq(S), IsInjective(s)
  PROVE  /\ Reverse(s) \in Seq(S)
         /\ IsInjective(Reverse(s))
         /\ Range(Reverse(s)) = Range(s)
<1> DEFINE t == Reverse(s)
           n == Len(s)
<1>1. n \in Nat /\ DOMAIN s = 1 .. n
  OBVIOUS
<1>2. /\ t \in Seq(S) /\ DOMAIN t = 1 .. n
      /\ \A i \in 1 .. n : t[i] = s[n - i + 1] /\ n - i + 1 \in 1 .. n
  BY <1>1 DEF Reverse
<1> HIDE DEF t, n
<1>3. ASSUME NEW i \in DOMAIN t, NEW j \in DOMAIN t, t[i] = t[j]
      PROVE  i = j
  <2>1. n - i + 1 = n - j + 1
    BY <1>1, <1>2, <1>3 DEF IsInjective
  <2> QED BY <1>1, <1>2, <2>1
<1>4. ASSUME NEW x \in Range(s) PROVE x \in Range(t)
  <2>1. PICK k \in 1 .. n : s[k] = x
    BY <1>1 DEF Range
  <2>2. n - k + 1 \in 1 .. n /\ n - (n - k + 1) + 1 = k
    BY <1>1
  <2>3. t[n - k + 1] = x
    BY <1>2, <2>1, <2>2
  <2> QED BY <1>2, <2>2, <2>3 DEF Range
<1>5. Range(t) \subseteq Range(s)
  BY <1>1, <1>2 DEF Range
<1> QED BY <1>2, <1>3, <1>4, <1>5 DEF t, IsInjective

(***************************************************************************)
(* A walk through memory meets every member of a set exactly once.         *)
(***************************************************************************)
LEMMA InOrderFacts ==
  ASSUME NEW S \in SUBSET Int, IsFiniteSet(S)
  PROVE  /\ InOrder(S) \in Seq(S)
         /\ IsInjective(InOrder(S))
         /\ Range(InOrder(S)) = S
<1> DEFINE n        == Cardinality(S)
           Below(a) == { b \in S : b < a }
           rank     == [a \in S |-> Cardinality(Below(a))]
<1>1. n \in Nat
  BY FS_CardinalityType
<1>2. ASSUME NEW a \in S
      PROVE  IsFiniteSet(Below(a)) /\ Cardinality(Below(a)) \in 0 .. (n - 1)
  <2>1. Below(a) \in SUBSET S /\ Below(a) # S
    OBVIOUS
  <2>2. IsFiniteSet(Below(a)) /\ Cardinality(Below(a)) <= n /\ Cardinality(Below(a)) # n
    BY <2>1, FS_Subset
  <2>3. Cardinality(Below(a)) \in Nat
    BY <2>2, FS_CardinalityType
  <2> QED BY <1>1, <2>2, <2>3
<1>3. ASSUME NEW a \in S, NEW b \in S, a < b
      PROVE  Cardinality(Below(a)) < Cardinality(Below(b))
  <2>0. a \in Int /\ b \in Int /\ \A x \in S : x \in Int
    OBVIOUS
  <2>1. Below(a) \in SUBSET Below(b) /\ a \in Below(b) /\ a \notin Below(a)
    <3>1. a \in Below(b) /\ a \notin Below(a)
      BY <1>3, <2>0
    <3>2. \A x \in S : x < a => x < b
      BY <1>3, <2>0
    <3> QED BY <3>1, <3>2
  <2>2. IsFiniteSet(Below(a)) /\ IsFiniteSet(Below(b))
    BY <1>2
  <2>3. Cardinality(Below(a)) <= Cardinality(Below(b)) /\ Cardinality(Below(a)) # Cardinality(Below(b))
    BY <2>1, <2>2, FS_Subset
  <2>4. Cardinality(Below(a)) \in Nat /\ Cardinality(Below(b)) \in Nat
    BY <2>2, FS_CardinalityType
  <2> QED BY <2>3, <2>4
<1> HIDE DEF n
<1>4. \A a, b \in S : rank[a] = rank[b] => a = b
  <2> SUFFICES ASSUME NEW a \in S, NEW b \in S, rank[a] = rank[b], a # b
               PROVE  FALSE
    OBVIOUS
  <2>1. a < b \/ b < a
    OBVIOUS
  <2>2. Cardinality(Below(a)) \in Nat /\ Cardinality(Below(b)) \in Nat
    BY <1>2
  <2>3. Cardinality(Below(a)) = Cardinality(Below(b))
    OBVIOUS
  <2> QED BY <1>3, <2>1, <2>2, <2>3
<1>5. rank \in [S -> 0 .. (n - 1)]
  BY <1>2
<1>6. rank \in Injection(S, 0 .. (n - 1))
  BY <1>4, <1>5 DEF Injection, IsInjective
<1>7. IsFiniteSet(0 .. (n - 1)) /\ Cardinality(0 .. (n - 1)) = n
  BY <1>1, FS_Interval
<1>8. rank \in Surjection(S, 0 .. (n - 1))
  BY <1>6, <1>7, FS_Injection DEF n
<1>9. ASSUME NEW i \in 1 .. n
      PROVE  InOrder(S)[i] \in S /\ rank[InOrder(S)[i]] = i - 1
  <2>1. i - 1 \in 0 .. (n - 1)
    BY <1>1
  <2>2. PICK a \in S : rank[a] = i - 1
    BY <1>8, <2>1 DEF Surjection
  <2>3. Cardinality({ b \in S : b < a }) = i - 1
    BY <2>2
  <2>4. InOrder(S)[i] = CHOOSE x \in S : Cardinality({ b \in S : b < x }) = i - 1
    BY DEF InOrder, n
  <2>5. /\ InOrder(S)[i] \in S
        /\ Cardinality({ b \in S : b < InOrder(S)[i] }) = i - 1
    BY <2>3, <2>4
  <2> QED BY <2>5
<1>10. DOMAIN InOrder(S) = 1 .. n /\ InOrder(S) \in Seq(S)
  <2> HIDE DEF rank
  <2>1. InOrder(S) = [i \in 1 .. n |-> InOrder(S)[i]]
    BY SMTT(40) DEF InOrder, n
  <2>2. InOrder(S) \in [1 .. n -> S]
    BY <1>9, <2>1
  <2> QED BY <1>1, <2>2, SeqDef
<1> HIDE DEF rank
<1>11. IsInjective(InOrder(S))
  <2> SUFFICES ASSUME NEW i \in 1 .. n, NEW j \in 1 .. n, InOrder(S)[i] = InOrder(S)[j]
               PROVE  i = j
    BY <1>10 DEF IsInjective
  <2>1. i - 1 = j - 1
    BY <1>9
  <2> QED BY <1>1, <2>1
<1>12. ASSUME NEW a \in S PROVE a \in Range(InOrder(S))
  <2>1. rank[a] \in 0 .. (n - 1)
    BY <1>5
  <2>2. PICK i \in 1 .. n : i - 1 = rank[a]
    BY <1>1, <2>1
  <2>3. InOrder(S)[i] \in S /\ rank[InOrder(S)[i]] = rank[a]
    BY <1>9, <2>2
  <2>4. InOrder(S)[i] = a
    BY <1>4, <2>3
  <2> QED BY <1>10, <2>4 DEF Range
<1>13. Range(InOrder(S)) \subseteq S
  BY <1>9, <1>10 DEF Range
<1> QED BY <1>10, <1>11, <1>12, <1>13

-----------------------------------------------------------------------------
(***************************************************************************)
(* A set of naturals that is not empty has a least member: the form in     *)
(* which the proofs of this project use induction.                         *)
(***************************************************************************)
LEMMA LeastMember ==
  ASSUME NEW S \in SUBSET Nat, S # {}
  PROVE  \E m \in S : \A x \in S : m <= x
<1>1. PICK m \in S : \A y \in S : ~ (<<y, m>> \in OpToRel(<, Nat))
  BY NatLessThanWellFounded, WFMin
<1>2. \A y \in S : ~(y < m)
  BY <1>1 DEF OpToRel
<1> QED BY <1>2

-----------------------------------------------------------------------------
(* Reachability as a least closed set: what holds of every set of nodes,   *)
(* roots and pointers.                                                     *)

(***************************************************************************)
(* Only nodes are reached, every root that is a node is, and so is every   *)
(* node that one reached points to.                                        *)
(***************************************************************************)
LEMMA ReachIsClosed ==
  ASSUME NEW nodes, NEW roots, NEW kids
  PROVE  /\ ReachFrom(nodes, roots, kids) \subseteq nodes
         /\ roots \cap nodes \subseteq ReachFrom(nodes, roots, kids)
         /\ \A x \in ReachFrom(nodes, roots, kids) :
              kids[x] \cap nodes \subseteq ReachFrom(nodes, roots, kids)
  BY DEF ReachFrom, ClosedSets

(***************************************************************************)
(* A set of nodes that holds the roots and is closed under following       *)
(* pointers holds all that is reached.                                     *)
(***************************************************************************)
LEMMA ReachIsLeast ==
  ASSUME NEW nodes, NEW roots, NEW kids, NEW S,
         S \subseteq nodes,
         roots \cap nodes \subseteq S,
         \A x \in S : kids[x] \cap nodes \subseteq S
  PROVE  ReachFrom(nodes, roots, kids) \subseteq S
  BY DEF ReachFrom, ClosedSets

(***************************************************************************)
(* A sweep that keeps what was reached, and its pointers, reaches it again.*)
(***************************************************************************)
LEMMA ReachAfterSweep ==
  ASSUME NEW nodes, NEW roots, NEW kids, NEW kidsAfter,
         \A x \in ReachFrom(nodes, roots, kids) : kidsAfter[x] = kids[x]
  PROVE  ReachFrom(ReachFrom(nodes, roots, kids), roots, kidsAfter)
           = ReachFrom(nodes, roots, kids)
<1> DEFINE R == ReachFrom(nodes, roots, kids)
           Q == ReachFrom(R, roots, kidsAfter)
<1>1. /\ R \subseteq nodes
      /\ roots \cap nodes \subseteq R
      /\ \A x \in R : kids[x] \cap nodes \subseteq R
  BY ReachIsClosed
<1>2. /\ Q \subseteq R
      /\ roots \cap R \subseteq Q
      /\ \A x \in Q : kidsAfter[x] \cap R \subseteq Q
  BY ReachIsClosed
<1>3. \A x \in R : kidsAfter[x] = kids[x]
  OBVIOUS
<1>4. R \subseteq Q
  <2> HIDE DEF Q
  <2>1. roots \cap nodes \subseteq Q
    BY <1>1, <1>2
  <2>2. \A x \in Q : kids[x] \cap nodes \subseteq Q
    BY <1>1, <1>2, <1>3
  <2>3. Q \subseteq nodes
    BY <1>1, <1>2
  <2> QED BY <2>1, <2>2, <2>3, ReachIsLeast
<1> QED BY <1>2, <1>4
=============================================================================
