-------------------------- MODULE SchorrWaiteProofs --------------------------
(***************************************************************************)
(* MARK of HUNK.C, for every graph of objects: it marks just what the      *)
(* protected pointers lead to, and leaves all pointers as they were.       *)
(***************************************************************************)
EXTENDS SchorrWaite, Lemmas, FiniteSetTheorems

(***************************************************************************)
(* The inductive invariant: the path back (that of PathBack, without the   *)
(* bound on its length); no pointer out of place between calls; the        *)
(* targets of all pointers followed so far visited; nothing visited that   *)
(* is not reached; and the roots marked so far visited.                    *)
(***************************************************************************)
Visited(n) == state[n] # 0 \/ n = P1

HasPath == P1 # P3 => \E k \in Nat : \E path \in [1 .. k -> Node] : IsPath(k, path)

Idle == P1 = P3 => /\ refs = graph
                   /\ \A n \in Node : state[n] \in {0, Full}

Followed == \A n \in Node : \A i \in Slots(n) :
              i < state[n] => graph[n][i] = Nil \/ Visited(graph[n][i])

OnlyReached == \A n \in Node \ Permanent : Visited(n) => n \in Reached

RootsVisited == \A r \in roots \ todo : r = Nil \/ Visited(r)

AlwaysFull == \A n \in Permanent : state[n] = Full

MarkInv == /\ TypeOK /\ HasPath /\ Idle /\ Followed
           /\ OnlyReached /\ RootsVisited /\ AlwaysFull

-----------------------------------------------------------------------------
LEMMA NodeFacts ==
  /\ Full \in Nat /\ Full # 0
  /\ \A n \in Node : Degree[n] \in Nat /\ Degree[n] < Full
  /\ \A n \in Node : \A i : i \in Slots(n) <=> i \in Nat /\ i < Degree[n]
  /\ P3 \notin Target /\ Nil \notin Node /\ Nil # P3
  /\ Permanent \subseteq Node
  BY NodeAssumption DEF Slots, Target

(***************************************************************************)
(* Changing one pointer.                                                   *)
(***************************************************************************)
Turn(g, n, i, t) == [g EXCEPT ![n][i] = t]

LEMMA LinkFacts ==
  ASSUME NEW T, NEW g \in Links(T), NEW n \in Node, NEW i \in Slots(n), NEW t \in T
  PROVE  /\ Turn(g, n, i, t) \in Links(T)
         /\ Turn(g, n, i, t)[n][i] = t
         /\ \A m \in Node : \A j \in Slots(m) :
              m # n \/ j # i => Turn(g, n, i, t)[m][j] = g[m][j]
<1> DEFINE h == Turn(g, n, i, t)
<1>1. /\ g \in [Node -> UNION { [Slots(m) -> T] : m \in Node }]
      /\ \A m \in Node : g[m] \in [Slots(m) -> T]
  BY DEF Links
<1> DEFINE u == [g[n] EXCEPT ![i] = t]
<1>2. /\ u \in [Slots(n) -> T] /\ u[i] = t
      /\ \A j \in Slots(n) : j # i => u[j] = g[n][j]
  BY <1>1
<1>3. h = [g EXCEPT ![n] = u]
  BY DEF Turn
<1> HIDE DEF u, h
<1>4. /\ h \in [Node -> UNION { [Slots(m) -> T] : m \in Node }]
      /\ h[n] = u /\ \A m \in Node : m # n => h[m] = g[m]
  BY <1>1, <1>2, <1>3
<1>5. \A m \in Node : h[m] \in [Slots(m) -> T]
  BY <1>1, <1>2, <1>4
<1> QED BY <1>2, <1>4, <1>5 DEF Links, h

LEMMA SameLinks ==
  ASSUME NEW S, NEW T, NEW g \in Links(S), NEW h \in Links(T),
         \A n \in Node : \A i \in Slots(n) : g[n][i] = h[n][i]
  PROVE  g = h
<1>1. \A n \in Node : g[n] = h[n]
  BY DEF Links
<1> QED BY <1>1 DEF Links

(***************************************************************************)
(* What is reached does not change while MARK runs.                        *)
(***************************************************************************)
LEMMA ReachedFacts ==
  ASSUME TypeOK
  PROVE  /\ \A r \in roots : r \in Node \ Permanent => r \in Reached
         /\ \A n \in Reached : \A i \in Slots(n) :
              graph[n][i] \in Node \ Permanent => graph[n][i] \in Reached
<1>1. /\ roots \cap (Node \ Permanent) \subseteq Reached
      /\ \A x \in Reached : Kids[x] \cap (Node \ Permanent) \subseteq Reached
      /\ Reached \subseteq Node \ Permanent
  BY ReachIsClosed DEF Reached
<1>2. \A n \in Node : \A i \in Slots(n) : graph[n][i] \in Kids[n]
  BY DEF Kids, Range, TypeOK, Links
<1> QED BY <1>1, <1>2

LEMMA SameReached ==
  ASSUME UNCHANGED <<graph, roots>>
  PROVE  Reached' = Reached
  BY DEF Reached, Kids

-----------------------------------------------------------------------------
LEMMA InitHolds == Init => MarkInv
<1> SUFFICES ASSUME Init PROVE MarkInv
  OBVIOUS
<1>1. TypeOK
  <2>1. refs \in Links(Target \cup {P3})
    <3>1. graph \in Links(Target) /\ refs = graph
      BY DEF Init
    <3>2. \A n \in Node : graph[n] \in [Slots(n) -> Target \cup {P3}]
      BY <3>1 DEF Links
    <3> QED BY <3>1, <3>2 DEF Links
  <2> QED BY <2>1, NodeFacts DEF Init, TypeOK, Target
<1>2. HasPath /\ Idle /\ RootsVisited /\ AlwaysFull
  BY NodeFacts DEF Init, HasPath, Idle, RootsVisited, AlwaysFull
<1>3. OnlyReached
  BY NodeFacts DEF Init, OnlyReached, Visited, Target
<1>4. Followed
  <2> SUFFICES ASSUME NEW n \in Node, NEW i \in Slots(n), i < state[n] PROVE FALSE
    BY DEF Followed
  <2>1. CASE n \in Permanent
    <3>1. Degree[n] = 0
      BY <2>1, NodeAssumption
    <3> QED BY <3>1 DEF Slots
  <2>2. CASE n \notin Permanent
    BY <2>2, NodeFacts DEF Init
  <2> QED BY <2>1, <2>2
<1> QED BY <1>1, <1>2, <1>3, <1>4 DEF MarkInv

(***************************************************************************)
(* A call begins: the path is empty.                                       *)
(***************************************************************************)
LEMMA CallStep ==
  ASSUME MarkInv, NEW object \in todo, Call(object)
  PROVE  MarkInv'
<1>1. /\ P1 = P3 /\ todo' = todo \ {object} /\ P0' = P3
      /\ P1' = (IF object = Nil THEN P3 ELSE object)
      /\ graph' = graph /\ roots' = roots /\ refs' = refs /\ state' = state /\ beyond' = beyond
  BY DEF Call, input
<1>2. object \in roots /\ object \in Target /\ refs = graph
  BY <1>1 DEF MarkInv, TypeOK, Idle
<1>3. TypeOK'
  BY <1>1, <1>2 DEF MarkInv, TypeOK, Target
<1>4. HasPath'
  <2> SUFFICES ASSUME P1' # P3
               PROVE \E k \in Nat : \E path \in [1 .. k -> Node] : IsPath(k, path)'
    BY DEF HasPath
  <2> DEFINE none == [j \in 1 .. 0 |-> P3]
  <2>1. none \in [1 .. 0 -> Node]
    OBVIOUS
  <2>2. IsPath(0, none)'
    BY <1>1, <1>2, NodeFacts DEF IsPath, MarkInv, Idle
  <2> QED BY <2>1, <2>2
<1>5. Idle' /\ AlwaysFull'
  BY <1>1 DEF MarkInv, Idle, AlwaysFull
<1>6. Followed'
  BY <1>1, NodeFacts DEF MarkInv, Followed, Visited, TypeOK, Links, Target
<1>7. OnlyReached'
  <2>1. Reached' = Reached
    BY <1>1, SameReached
  <2>2. object \in Node \ Permanent => object \in Reached
    BY <1>2, ReachedFacts DEF MarkInv
  <2> QED BY <1>1, <2>1, <2>2, NodeFacts DEF MarkInv, OnlyReached, Visited
<1>8. RootsVisited'
  BY <1>1, NodeFacts DEF MarkInv, RootsVisited, Visited, TypeOK, Target
<1> QED BY <1>3, <1>4, <1>5, <1>6, <1>7, <1>8 DEF MarkInv

-----------------------------------------------------------------------------
(***************************************************************************)
(* A pointer is followed.  What the two cases have in common.              *)
(***************************************************************************)
LEMMA FollowFacts ==
  ASSUME MarkInv, Follow
  PROVE  /\ P1 \in Node /\ P1 \notin Permanent
         /\ state[P1] \in Slots(P1) /\ state[P1] \in Nat
         /\ state' \in [Node -> 0 .. Full]
         /\ state'[P1] = state[P1] + 1 /\ state'[P1] - 1 = state[P1]
         /\ state'[P1] \notin {0, Full}
         /\ \A n \in Node : n # P1 => state'[n] = state[n]
         /\ refs[P1][state[P1]] = graph[P1][state[P1]]
         /\ graph[P1][state[P1]] \in Target
<1>1. /\ P1 # P3 /\ state[P1] < Degree[P1]
      /\ state' = [state EXCEPT ![P1] = state[P1] + 1]
      /\ state \in [Node -> 0 .. Full] /\ P1 \in Node
  BY DEF Follow, Unfollowed, Counted, MarkInv, TypeOK
<1>2. P1 \notin Permanent /\ state[P1] \in Nat /\ state[P1] \in Slots(P1)
  BY <1>1, NodeFacts DEF MarkInv, AlwaysFull
<1>3. /\ state[P1] + 1 \in 0 .. Full /\ state[P1] + 1 # 0 /\ state[P1] + 1 # Full
      /\ (state[P1] + 1) - 1 = state[P1]
  BY <1>1, <1>2, NodeFacts
<1>4. /\ state' \in [Node -> 0 .. Full]
      /\ state'[P1] = state[P1] + 1
      /\ \A n \in Node : n # P1 => state'[n] = state[n]
  BY <1>1, <1>3
<1>5. PICK k \in Nat : \E path \in [1 .. k -> Node] : IsPath(k, path)
  BY <1>1 DEF MarkInv, HasPath
<1>6. PICK path \in [1 .. k -> Node] : IsPath(k, path)
  BY <1>5
<1>7. refs[P1][state[P1]] = graph[P1][state[P1]]
  BY <1>1, <1>2, <1>6 DEF IsPath
<1>8. graph[P1][state[P1]] \in Target
  BY <1>1, <1>2 DEF MarkInv, TypeOK, Links
<1> QED BY <1>1, <1>2, <1>3, <1>4, <1>7, <1>8

(***************************************************************************)
(* It leads to no new node.                                                *)
(***************************************************************************)
LEMMA PassStep ==
  ASSUME MarkInv, Follow, UNCHANGED <<refs, P0, P1>>,
         refs[P1][state[P1]] = Nil \/ state'[refs[P1][state[P1]]] # 0
  PROVE  MarkInv'
<1>1. /\ P1 \in Node /\ P1 \notin Permanent
      /\ state[P1] \in Slots(P1) /\ state[P1] \in Nat
      /\ state' \in [Node -> 0 .. Full]
      /\ state'[P1] = state[P1] + 1 /\ state'[P1] - 1 = state[P1]
      /\ state'[P1] \notin {0, Full}
      /\ \A n \in Node : n # P1 => state'[n] = state[n]
      /\ refs[P1][state[P1]] = graph[P1][state[P1]]
      /\ graph[P1][state[P1]] \in Target
  BY FollowFacts
<1>2. /\ graph' = graph /\ roots' = roots /\ todo' = todo /\ beyond' = beyond
      /\ refs' = refs /\ P0' = P0 /\ P1' = P1 /\ P1 # P3
  BY <1>1, NodeFacts DEF Follow, input, Target
<1>3. TypeOK'
  BY <1>1, <1>2 DEF MarkInv, TypeOK
<1>4. HasPath'
  <2>1. PICK k \in Nat : \E path \in [1 .. k -> Node] : IsPath(k, path)
    BY <1>2 DEF MarkInv, HasPath
  <2>2. PICK path \in [1 .. k -> Node] : IsPath(k, path)
    BY <2>1
  <2>3. \A j \in 1 .. k : path[j] # P1 /\ state'[path[j]] = state[path[j]]
    BY <1>1, <2>2 DEF IsPath
  <2>4. IsPath(k, path)'
    <3>1. /\ P0 = (IF k = 0 THEN P3 ELSE path[k])
          /\ \A i, j \in 1 .. k : path[i] = path[j] => i = j
      BY <2>2 DEF IsPath
    <3>2. ASSUME NEW j \in 1 .. k
          PROVE  LET last == state'[path[j]] - 1
                 IN /\ path[j] # P1
                    /\ last \in Slots(path[j])
                    /\ refs[path[j]][last] = (IF j = 1 THEN P3 ELSE path[j - 1])
                    /\ graph[path[j]][last] = (IF j = k THEN P1 ELSE path[j + 1])
      BY <2>2, <2>3 DEF IsPath
    <3>3. ASSUME NEW n \in Node, NEW i \in Slots(n), refs[n][i] # graph[n][i]
          PROVE  \E j \in 1 .. k : n = path[j] /\ i = state'[n] - 1
      <4>1. PICK j \in 1 .. k : n = path[j] /\ i = state[n] - 1
        BY <2>2, <3>3 DEF IsPath
      <4> QED BY <2>3, <4>1
    <3>4. ASSUME NEW n \in Node \ {P1}, state'[n] \notin {0, Full}
          PROVE  \E j \in 1 .. k : n = path[j]
      <4>1. state[n] \notin {0, Full}
        BY <1>1, <3>4
      <4> QED BY <2>2, <4>1 DEF IsPath
    <3> QED BY <1>2, <3>1, <3>2, <3>3, <3>4 DEF IsPath
  <2> QED BY <2>4 DEF HasPath
<1>5. Idle' /\ AlwaysFull'
  BY <1>1, <1>2, NodeFacts DEF MarkInv, Idle, AlwaysFull
<1>6. \A n \in Node : state'[n] # 0 \/ n = P1' <=> Visited(n)
  BY <1>1, <1>2 DEF Visited
<1>7. Followed'
  <2> SUFFICES ASSUME NEW n \in Node, NEW i \in Slots(n), i < state'[n]
               PROVE graph[n][i] = Nil \/ state'[graph[n][i]] # 0 \/ graph[n][i] = P1'
    BY <1>2 DEF Followed, Visited
  <2>1. graph[n][i] \in Target
    BY DEF MarkInv, TypeOK, Links
  <2>2. CASE n = P1 /\ i = state[P1]
    BY <1>1, <2>2 DEF Visited
  <2>3. CASE ~(n = P1 /\ i = state[P1])
    <3>1. i < state[n]
      BY <1>1, <2>3, NodeFacts
    <3>2. graph[n][i] = Nil \/ Visited(graph[n][i])
      BY <3>1 DEF MarkInv, Followed
    <3> QED BY <1>6, <2>1, <3>2 DEF Target
  <2> QED BY <2>2, <2>3
<1>8. OnlyReached'
  BY <1>2, <1>6, NodeFacts, SameReached DEF MarkInv, OnlyReached, Visited
<1>9. RootsVisited'
  BY <1>2, <1>6 DEF MarkInv, RootsVisited, TypeOK, Target, Visited
<1> QED BY <1>3, <1>4, <1>5, <1>7, <1>8, <1>9 DEF MarkInv

(***************************************************************************)
(* It leads to a new node: the path gets longer by the node left behind.   *)
(***************************************************************************)
LEMMA DescendStep ==
  ASSUME MarkInv, Follow, NEW P2, P2 = refs[P1][state[P1]], P2 # Nil, state'[P2] = 0,
         refs' = Turn(refs, P1, state[P1], P0), P0' = P1, P1' = P2
  PROVE  MarkInv'
<1>1. /\ P1 \in Node /\ P1 \notin Permanent
      /\ state[P1] \in Slots(P1) /\ state[P1] \in Nat
      /\ state' \in [Node -> 0 .. Full]
      /\ state'[P1] = state[P1] + 1 /\ state'[P1] - 1 = state[P1]
      /\ state'[P1] \notin {0, Full}
      /\ \A n \in Node : n # P1 => state'[n] = state[n]
      /\ refs[P1][state[P1]] = graph[P1][state[P1]]
      /\ graph[P1][state[P1]] \in Target
  BY FollowFacts
<1>2. /\ graph' = graph /\ roots' = roots /\ todo' = todo /\ beyond' = beyond
      /\ P1 # P3
  BY <1>1, NodeFacts DEF Follow, input, Target
<1>3. P2 \in Node /\ P2 # P1 /\ state[P2] = 0 /\ P2 \notin Permanent /\ P2 # P3
      /\ graph[P1][state[P1]] = P2
  BY <1>1, NodeFacts DEF Target, MarkInv, AlwaysFull
<1>4. PICK k \in Nat : \E path \in [1 .. k -> Node] : IsPath(k, path)
  BY <1>2 DEF MarkInv, HasPath
<1>5. PICK path \in [1 .. k -> Node] : IsPath(k, path)
  BY <1>4
<1>6. P0 \in Target \cup {P3}
  BY DEF MarkInv, TypeOK
<1>7. /\ refs' \in Links(Target \cup {P3})
      /\ refs'[P1][state[P1]] = P0
      /\ \A m \in Node : \A j \in Slots(m) :
           m # P1 \/ j # state[P1] => refs'[m][j] = refs[m][j]
  <2> DEFINE T == Target \cup {P3}
             S == state[P1]
  <2>1. refs' = Turn(refs, P1, S, P0)
    OBVIOUS
  <2>2. refs \in Links(T) /\ P0 \in T
    BY <1>6 DEF MarkInv, TypeOK
  <2>3. P1 \in Node /\ S \in Slots(P1)
    BY <1>1
  <2> HIDE DEF T, S
  <2>4. /\ Turn(refs, P1, S, P0) \in Links(T)
        /\ Turn(refs, P1, S, P0)[P1][S] = P0
        /\ \A m \in Node : \A j \in Slots(m) :
             m # P1 \/ j # S => Turn(refs, P1, S, P0)[m][j] = refs[m][j]
    BY <2>2, <2>3, LinkFacts
  <2>5. /\ refs' \in Links(T)
        /\ refs'[P1][S] = P0
        /\ \A m \in Node : \A j \in Slots(m) : m # P1 \/ j # S => refs'[m][j] = refs[m][j]
    BY <2>1, <2>4
  <2> QED BY <2>5 DEF T, S
<1>8. TypeOK'
  BY <1>1, <1>2, <1>3, <1>7 DEF MarkInv, TypeOK, Target
<1>9. PICK long \in [1 .. (k + 1) -> Node] :
        long = [j \in 1 .. (k + 1) |-> IF j <= k THEN path[j] ELSE P1]
  <2> DEFINE more == [j \in 1 .. (k + 1) |-> IF j <= k THEN path[j] ELSE P1]
  <2>1. more \in [1 .. (k + 1) -> Node]
    BY <1>1
  <2> QED BY <2>1
<1>10. IsPath(k + 1, long)'
  <2>1. /\ \A j \in 1 .. k : long[j] = path[j] /\ j \in 1 .. (k + 1)
        /\ long[k + 1] = P1 /\ k + 1 \in 1 .. (k + 1)
        /\ \A j \in 1 .. (k + 1) : j \in 1 .. k \/ j = k + 1
    BY <1>9
  <2>2. /\ P0 = (IF k = 0 THEN P3 ELSE path[k])
        /\ \A i, j \in 1 .. k : path[i] = path[j] => i = j
    BY <1>5 DEF IsPath
  <2>3. ASSUME NEW j \in 1 .. k
        PROVE  /\ path[j] \in Node /\ path[j] # P1 /\ path[j] # P2
               /\ state'[path[j]] = state[path[j]]
               /\ state[path[j]] - 1 \in Slots(path[j])
               /\ refs'[path[j]][state[path[j]] - 1] = (IF j = 1 THEN P3 ELSE path[j - 1])
               /\ graph[path[j]][state[path[j]] - 1] = (IF j = k THEN P1 ELSE path[j + 1])
    <3>1. /\ path[j] \in Node /\ path[j] # P1
          /\ state[path[j]] - 1 \in Slots(path[j])
          /\ refs[path[j]][state[path[j]] - 1] = (IF j = 1 THEN P3 ELSE path[j - 1])
          /\ graph[path[j]][state[path[j]] - 1] = (IF j = k THEN P1 ELSE path[j + 1])
      BY <1>5 DEF IsPath
    <3>2. path[j] # P2
      BY <1>3, <3>1, NodeFacts
    <3> QED BY <1>1, <1>7, <3>1, <3>2
  <2>4. \A i, j \in 1 .. (k + 1) : long[i] = long[j] => i = j
    BY <2>1, <2>2, <2>3
  <2>5. ASSUME NEW j \in 1 .. (k + 1)
        PROVE  LET last == state'[long[j]] - 1
               IN /\ long[j] # P2
                  /\ last \in Slots(long[j])
                  /\ refs'[long[j]][last] = (IF j = 1 THEN P3 ELSE long[j - 1])
                  /\ graph[long[j]][last] = (IF j = k + 1 THEN P2 ELSE long[j + 1])
    <3>1. CASE j = k + 1
      <4>1. P0 = (IF j = 1 THEN P3 ELSE long[j - 1])
        BY <2>1, <2>2, <3>1
      <4> QED BY <1>1, <1>3, <1>7, <2>1, <3>1, <4>1
    <3>2. CASE j \in 1 .. k
      <4>1. (IF j = 1 THEN P3 ELSE path[j - 1]) = (IF j = 1 THEN P3 ELSE long[j - 1])
        BY <2>1, <3>2
      <4>2. (IF j = k THEN P1 ELSE path[j + 1]) = long[j + 1] /\ j # k + 1
        BY <2>1, <3>2
      <4> QED BY <2>1, <2>3, <3>2, <4>1, <4>2, SMTT(40)
    <3> QED BY <2>1, <3>1, <3>2
  <2>6. ASSUME NEW n \in Node, NEW i \in Slots(n), refs'[n][i] # graph[n][i]
        PROVE  \E j \in 1 .. (k + 1) : n = long[j] /\ i = state'[n] - 1
    <3>1. CASE n = P1 /\ i = state[P1]
      BY <1>1, <2>1, <3>1
    <3>2. CASE ~(n = P1 /\ i = state[P1])
      <4>1. refs[n][i] # graph[n][i]
        BY <1>7, <2>6, <3>2
      <4>2. PICK j \in 1 .. k : n = path[j] /\ i = state[n] - 1
        BY <1>5, <4>1 DEF IsPath
      <4> QED BY <2>1, <2>3, <4>2
    <3> QED BY <3>1, <3>2
  <2>7. ASSUME NEW n \in Node \ {P2}, state'[n] \notin {0, Full}
        PROVE  \E j \in 1 .. (k + 1) : n = long[j]
    <3>1. CASE n = P1
      BY <2>1, <3>1
    <3>2. CASE n # P1
      <4>1. PICK j \in 1 .. k : n = path[j]
        BY <1>1, <1>5, <2>7, <3>2 DEF IsPath
      <4> QED BY <2>1, <4>1
    <3> QED BY <3>1, <3>2
  <2>8. P1 = (IF k + 1 = 0 THEN P3 ELSE long[k + 1])
    BY <2>1
  <2>9. P0' = P1 /\ P1' = P2 /\ graph' = graph
    BY <1>2
  <2>10. \A j \in 1 .. (k + 1) :
           LET last == state'[long[j]] - 1
           IN /\ long[j] # P1'
              /\ last \in Slots(long[j])
              /\ refs'[long[j]][last] = (IF j = 1 THEN P3 ELSE long[j - 1])
              /\ graph'[long[j]][last] = (IF j = k + 1 THEN P1' ELSE long[j + 1])
    BY <2>5, <2>9
  <2>11. \A n \in Node : \A i \in Slots(n) :
           refs'[n][i] # graph'[n][i] => \E j \in 1 .. (k + 1) : n = long[j] /\ i = state'[n] - 1
    BY <2>6, <2>9
  <2>12. \A n \in Node \ {P1'} : state'[n] \notin {0, Full} => \E j \in 1 .. (k + 1) : n = long[j]
    BY <2>7, <2>9
  <2>13. P0' = (IF k + 1 = 0 THEN P3 ELSE long[k + 1])
    BY <2>8, <2>9
  <2> QED BY <2>4, <2>10, <2>11, <2>12, <2>13 DEF IsPath
<1>11. Idle' /\ AlwaysFull'
  BY <1>1, <1>3, NodeFacts DEF MarkInv, Idle, AlwaysFull
<1>12. \A n \in Node : state'[n] # 0 \/ n = P1' <=> Visited(n) \/ n = P2
  BY <1>1, <1>3 DEF Visited
<1>13. Followed'
  <2> SUFFICES ASSUME NEW n \in Node, NEW i \in Slots(n), i < state'[n]
               PROVE graph[n][i] = Nil \/ state'[graph[n][i]] # 0 \/ graph[n][i] = P1'
    BY <1>2 DEF Followed, Visited
  <2>1. graph[n][i] \in Target
    BY DEF MarkInv, TypeOK, Links
  <2>2. CASE n = P1 /\ i = state[P1]
    BY <1>3, <1>12, <2>2
  <2>3. CASE ~(n = P1 /\ i = state[P1])
    <3>1. i < state[n]
      BY <1>1, <2>3, NodeFacts
    <3>2. graph[n][i] = Nil \/ Visited(graph[n][i])
      BY <3>1 DEF MarkInv, Followed
    <3>3. graph[n][i] \in Node /\ Visited(graph[n][i]) => state'[graph[n][i]] # 0 \/ graph[n][i] = P1'
      BY <1>12
    <3> QED BY <2>1, <3>2, <3>3 DEF Target
  <2> QED BY <2>2, <2>3
<1>14. OnlyReached'
  <2>1. P1 \in Reached
    BY <1>1 DEF MarkInv, OnlyReached, Visited
  <2>2. P2 \in Reached
    BY <1>1, <1>3, <2>1, ReachedFacts DEF MarkInv
  <2> QED BY <1>2, <1>12, <2>2, NodeFacts, SameReached DEF MarkInv, OnlyReached, Visited
<1>15. RootsVisited'
  BY <1>2, <1>12 DEF MarkInv, RootsVisited, TypeOK, Target, Visited
<1>16. HasPath'
  BY <1>10 DEF HasPath
<1> QED BY <1>8, <1>11, <1>13, <1>14, <1>15, <1>16 DEF MarkInv

-----------------------------------------------------------------------------
(***************************************************************************)
(* A node is left.  What the two cases have in common.                     *)
(***************************************************************************)
LEMMA LeaveFacts ==
  ASSUME MarkInv, P1 # P3, state[P1] >= Degree[P1],
         state' = [state EXCEPT ![P1] = Full], UNCHANGED <<graph, roots, todo>>,
         P1' # P1, P1' # P3 => state[P1'] # 0
  PROVE  /\ P1 \in Node
         /\ state' \in [Node -> 0 .. Full] /\ state'[P1] = Full
         /\ \A n \in Node : n # P1 => state'[n] = state[n]
         /\ Followed' /\ OnlyReached' /\ RootsVisited' /\ AlwaysFull'
<1>1. /\ P1 \in Node /\ state \in [Node -> 0 .. Full] /\ Full \in 0 .. Full
      /\ graph' = graph /\ roots' = roots /\ todo' = todo
  BY NodeFacts DEF MarkInv, TypeOK
<1>2. /\ state' \in [Node -> 0 .. Full] /\ state'[P1] = Full
      /\ \A n \in Node : n # P1 => state'[n] = state[n]
  BY <1>1
<1>3. \A n \in Node : Visited(n) => state'[n] # 0
  BY <1>2, NodeFacts DEF Visited
<1>4. \A n \in Node : state'[n] # 0 \/ n = P1' => Visited(n)
  <2> SUFFICES ASSUME NEW n \in Node, state'[n] # 0 \/ n = P1', n # P1 PROVE state[n] # 0
    BY DEF Visited
  <2>1. CASE n = P1'
    BY <2>1, NodeFacts DEF Target
  <2>2. CASE state'[n] # 0
    BY <1>2, <2>2
  <2> QED BY <2>1, <2>2
<1>5. Followed'
  <2> SUFFICES ASSUME NEW n \in Node, NEW i \in Slots(n), i < state'[n]
               PROVE graph[n][i] = Nil \/ state'[graph[n][i]] # 0 \/ graph[n][i] = P1'
    BY <1>1 DEF Followed, Visited
  <2>1. graph[n][i] \in Target
    BY DEF MarkInv, TypeOK, Links
  <2>2. i < state[n]
    <3>1. CASE n = P1
      BY <1>1, <3>1, NodeFacts
    <3>2. CASE n # P1
      BY <1>2, <3>2
    <3> QED BY <3>1, <3>2
  <2>3. graph[n][i] = Nil \/ Visited(graph[n][i])
    BY <2>2 DEF MarkInv, Followed
  <2> QED BY <1>3, <2>1, <2>3 DEF Target
<1>6. OnlyReached'
  BY <1>1, <1>4, NodeFacts, SameReached DEF MarkInv, OnlyReached, Visited
<1>7. RootsVisited'
  BY <1>1, <1>3 DEF MarkInv, RootsVisited, TypeOK, Target, Visited
<1>8. AlwaysFull'
  BY <1>2, NodeFacts DEF MarkInv, AlwaysFull
<1> QED BY <1>1, <1>2, <1>5, <1>6, <1>7, <1>8

(***************************************************************************)
(* It was the root: the path is empty, so nothing is turned around.        *)
(***************************************************************************)
LEMMA ReturnFromRootStep ==
  ASSUME MarkInv, ReturnFromRoot
  PROVE  MarkInv'
<1>1. /\ P1 # P3 /\ state[P1] >= Degree[P1] /\ P0 = P3
      /\ state' = [state EXCEPT ![P1] = Full] /\ UNCHANGED <<graph, roots, todo>>
      /\ beyond' = P1 /\ P1' = P3 /\ P0' = beyond /\ refs' = refs
  BY NodeFacts DEF ReturnFromRoot, Unfollowed, Marked, input, MarkInv, TypeOK
<1>2. /\ P1 \in Node
      /\ state' \in [Node -> 0 .. Full] /\ state'[P1] = Full
      /\ \A n \in Node : n # P1 => state'[n] = state[n]
      /\ Followed' /\ OnlyReached' /\ RootsVisited' /\ AlwaysFull'
  BY <1>1, LeaveFacts
<1>3. PICK k \in Nat : \E path \in [1 .. k -> Node] : IsPath(k, path)
  BY <1>1 DEF MarkInv, HasPath
<1>4. PICK path \in [1 .. k -> Node] : IsPath(k, path)
  BY <1>3
<1>5. k = 0
  <2>1. k # 0 => path[k] \in Node /\ P0 = path[k]
    BY <1>4 DEF IsPath
  <2> QED BY <1>1, <2>1, NodeFacts DEF Target
<1>6. TypeOK'
  BY <1>1, <1>2 DEF MarkInv, TypeOK, Target
<1>7. Idle'
  <2>1. \A n \in Node : \A i \in Slots(n) : refs[n][i] = graph[n][i]
    BY <1>4, <1>5 DEF IsPath
  <2>2. refs = graph
    BY <2>1, SameLinks DEF MarkInv, TypeOK
  <2>3. \A n \in Node : n # P1 => state[n] \in {0, Full}
    BY <1>4, <1>5 DEF IsPath
  <2> QED BY <1>1, <1>2, <2>2, <2>3 DEF Idle
<1>8. HasPath'
  BY <1>1 DEF HasPath
<1> QED BY <1>2, <1>6, <1>7, <1>8 DEF MarkInv

(***************************************************************************)
(* It was not: the path gets shorter by its last node, and the pointer of  *)
(* that node is turned back.                                               *)
(***************************************************************************)
LEMMA ReturnStep ==
  ASSUME MarkInv, Return
  PROVE  MarkInv'
<1>1. PICK k \in Nat : \E path \in [1 .. k -> Node] : IsPath(k, path)
  BY DEF MarkInv, HasPath, Return
<1>2. PICK path \in [1 .. k -> Node] : IsPath(k, path)
  BY <1>1
<1> DEFINE last == state[P0] - 1
<1>3. /\ k # 0 /\ k \in 1 .. k /\ k - 1 \in Nat /\ P0 = path[k] /\ P0 \in Node /\ P0 # P1 /\ last \in Slots(P0)
      /\ refs[P0][last] = (IF k = 1 THEN P3 ELSE path[k - 1])
      /\ graph[P0][last] = P1
  BY <1>2 DEF IsPath, Return
<1>4. /\ P1 # P3 /\ state[P1] >= Degree[P1]
      /\ state' = [state EXCEPT ![P1] = Full] /\ UNCHANGED <<graph, roots, todo>>
      /\ beyond' = beyond /\ P1' = P0
      /\ state'[P0] = state[P0]
      /\ P0' = refs[P0][last]
      /\ refs' = [refs EXCEPT ![P0][last] = P1]
  <2>1. state'[P0] = state[P0]
    BY <1>3 DEF Return, Marked, MarkInv, TypeOK
  <2>2. P1 # P3 /\ state[P1] >= Degree[P1]
    BY NodeFacts DEF Return, Unfollowed, MarkInv, TypeOK
  <2>3. state' = [state EXCEPT ![P1] = Full] /\ UNCHANGED <<graph, roots, todo, beyond>> /\ P1' = P0
    BY DEF Return, Marked, input
  <2>4. refs' = [refs EXCEPT ![P0][last] = P1] /\ P0' = refs[P0][last]
    BY <2>1 DEF Return, TurnedBack
  <2> QED BY <2>1, <2>2, <2>3, <2>4
<1>5. P1' # P1 /\ P1' # P3 /\ state[P1'] # 0
  BY <1>3, <1>4, NodeFacts DEF Target, MarkInv, TypeOK
<1>6. /\ P1 \in Node
      /\ state' \in [Node -> 0 .. Full] /\ state'[P1] = Full
      /\ \A n \in Node : n # P1 => state'[n] = state[n]
      /\ Followed' /\ OnlyReached' /\ RootsVisited' /\ AlwaysFull'
  BY <1>4, <1>5, LeaveFacts
<1> HIDE DEF last
<1>7. /\ refs' \in Links(Target \cup {P3})
      /\ refs'[P0][last] = P1
      /\ \A m \in Node : \A j \in Slots(m) : m # P0 \/ j # last => refs'[m][j] = refs[m][j]
  <2> DEFINE T == Target \cup {P3}
  <2>1. refs' = Turn(refs, P0, last, P1)
    BY <1>4 DEF Turn
  <2>2. refs \in Links(T) /\ P1 \in T
    BY <1>6 DEF MarkInv, TypeOK, Target
  <2> HIDE DEF T
  <2>3. /\ Turn(refs, P0, last, P1) \in Links(T)
        /\ Turn(refs, P0, last, P1)[P0][last] = P1
        /\ \A m \in Node : \A j \in Slots(m) :
             m # P0 \/ j # last => Turn(refs, P0, last, P1)[m][j] = refs[m][j]
    BY <1>3, <2>2, LinkFacts
  <2> QED BY <2>1, <2>3 DEF T
<1>8. TypeOK'
  <2>1. P0' \in Target \cup {P3}
    BY <1>3, <1>4 DEF Target
  <2> QED BY <1>3, <1>4, <1>6, <1>7, <2>1 DEF MarkInv, TypeOK
<1>9. PICK short \in [1 .. (k - 1) -> Node] : \A j \in 1 .. (k - 1) : short[j] = path[j]
  <2> DEFINE less == [j \in 1 .. (k - 1) |-> path[j]]
  <2>1. less \in [1 .. (k - 1) -> Node]
    BY <1>3
  <2> QED BY <2>1
<1>10. IsPath(k - 1, short)'
  <2>1. P0' = (IF k - 1 = 0 THEN P3 ELSE short[k - 1])
    BY <1>3, <1>4, <1>9
  <2>2. \A i, j \in 1 .. k : path[i] = path[j] => i = j
    BY <1>2 DEF IsPath
  <2>3. \A i, j \in 1 .. (k - 1) : short[i] = short[j] => i = j
    BY <1>3, <1>9, <2>2
  <2>4. ASSUME NEW j \in 1 .. (k - 1)
        PROVE  LET end == state'[short[j]] - 1
               IN /\ short[j] # P0
                  /\ end \in Slots(short[j])
                  /\ refs'[short[j]][end] = (IF j = 1 THEN P3 ELSE short[j - 1])
                  /\ graph[short[j]][end] = (IF j = k - 1 THEN P0 ELSE short[j + 1])
    <3> DEFINE end == state[path[j]] - 1
    <3>1. j \in 1 .. k /\ j # k /\ short[j] = path[j]
      BY <1>3, <1>9
    <3>2. /\ path[j] \in Node /\ path[j] # P1 /\ path[j] # P0
          /\ end \in Slots(path[j])
          /\ refs[path[j]][end] = (IF j = 1 THEN P3 ELSE path[j - 1])
          /\ graph[path[j]][end] = path[j + 1]
      BY <1>2, <1>3, <2>2, <3>1 DEF IsPath
    <3>3. state'[path[j]] = state[path[j]]
      BY <1>6, <3>2
    <3>4. refs'[path[j]][end] = refs[path[j]][end]
      BY <1>7, <3>2
    <3>5. path[j + 1] = (IF j = k - 1 THEN P0 ELSE short[j + 1])
      BY <1>3, <1>9
    <3>6. (IF j = 1 THEN P3 ELSE path[j - 1]) = (IF j = 1 THEN P3 ELSE short[j - 1])
      BY <1>3, <1>9
    <3> QED BY <3>1, <3>2, <3>3, <3>4, <3>5, <3>6
  <2>5. ASSUME NEW n \in Node, NEW i \in Slots(n), refs'[n][i] # graph[n][i]
        PROVE  \E j \in 1 .. (k - 1) : n = short[j] /\ i = state'[n] - 1
    <3>1. ~(n = P0 /\ i = last)
      BY <1>3, <1>7, <2>5
    <3>2. refs[n][i] # graph[n][i]
      BY <1>7, <2>5, <3>1
    <3>3. PICK j \in 1 .. k : n = path[j] /\ i = state[n] - 1
      BY <1>2, <3>2 DEF IsPath
    <3>4. j # k
      BY <1>3, <3>1, <3>3 DEF last
    <3>5. j \in 1 .. (k - 1) /\ path[j] # P1
      BY <1>2, <3>3, <3>4 DEF IsPath
    <3> QED BY <1>6, <1>9, <3>3, <3>5
  <2>6. ASSUME NEW n \in Node \ {P0}, state'[n] \notin {0, Full}
        PROVE  \E j \in 1 .. (k - 1) : n = short[j]
    <3>1. n # P1 /\ state[n] \notin {0, Full}
      BY <1>6, <2>6
    <3>2. PICK j \in 1 .. k : n = path[j]
      BY <1>2, <3>1 DEF IsPath
    <3>3. j \in 1 .. (k - 1)
      BY <1>3, <3>2
    <3> QED BY <1>9, <3>2, <3>3
  <2> QED BY <1>4, <2>1, <2>3, <2>4, <2>5, <2>6 DEF IsPath
<1>11. HasPath'
  BY <1>3, <1>10 DEF HasPath
<1>12. Idle'
  BY <1>4, <1>5 DEF Idle
<1> QED BY <1>6, <1>8, <1>11, <1>12 DEF MarkInv

-----------------------------------------------------------------------------
LEMMA StutterStep ==
  ASSUME MarkInv, UNCHANGED vars
  PROVE  MarkInv'
<1>1. TypeOK' /\ Idle' /\ AlwaysFull'
  BY DEF MarkInv, TypeOK, Idle, AlwaysFull, vars
<1>2. HasPath'
  BY DEF MarkInv, HasPath, IsPath, vars
<1>3. Followed' /\ RootsVisited'
  BY DEF MarkInv, Followed, RootsVisited, Visited, vars
<1>4. OnlyReached'
  BY SameReached DEF MarkInv, OnlyReached, Visited, vars
<1> QED BY <1>1, <1>2, <1>3, <1>4 DEF MarkInv

LEMMA MarkInvStep ==
  ASSUME MarkInv, [Next]_vars
  PROVE  MarkInv'
<1>1. CASE Follow
  <2>1. CASE UNCHANGED <<refs, P0, P1>>
             /\ (refs[P1][state[P1]] # Nil => state'[refs[P1][state[P1]]] # 0)
    BY <1>1, <2>1, PassStep
  <2>2. CASE /\ refs[P1][state[P1]] # Nil /\ state'[refs[P1][state[P1]]] = 0
             /\ refs' = [refs EXCEPT ![P1][state[P1]] = P0]
             /\ P0' = P1 /\ P1' = refs[P1][state[P1]]
    BY <1>1, <2>2, DescendStep DEF Turn
  <2> QED BY <1>1, <2>1, <2>2 DEF Follow
<1> QED BY <1>1, CallStep, ReturnStep, ReturnFromRootStep, StutterStep DEF Next

THEOREM MarkInvariant == Spec => []MarkInv
<1>1. MarkInv /\ [Next]_vars => MarkInv'
  BY MarkInvStep
<1> QED BY InitHolds, <1>1, PTL DEF Spec

(***************************************************************************)
(* The pointers turned around always lead back to where MARK began.        *)
(***************************************************************************)
THEOREM PathAlwaysBack == Spec => []PathBack
<1>1. MarkInv => PathBack
  <2> SUFFICES ASSUME MarkInv, P1 # P3
               PROVE  \E k \in 0 .. Cardinality(Node) : \E path \in [1 .. k -> Node] : IsPath(k, path)
    BY DEF PathBack
  <2>1. PICK k \in Nat : \E path \in [1 .. k -> Node] : IsPath(k, path)
    BY DEF MarkInv, HasPath
  <2>2. PICK path \in [1 .. k -> Node] : IsPath(k, path)
    BY <2>1
  <2>3. path \in Injection(1 .. k, Node)
    BY <2>2 DEF IsPath, Injection, IsInjective
  <2>4. Cardinality(1 .. k) = k
    BY FS_Interval
  <2>5. Cardinality(Node) \in Nat /\ k <= Cardinality(Node)
    BY <2>3, <2>4, FS_Injection, FS_CardinalityType, NodeAssumption
  <2> QED BY <2>2, <2>5
<1> QED BY MarkInvariant, <1>1, PTL

(***************************************************************************)
(* Between two calls of MARK no pointer is out of place.                   *)
(***************************************************************************)
THEOREM PointersRestored == Spec => []Restored
<1>1. MarkInv => Restored
  BY DEF MarkInv, Idle, Restored
<1> QED BY MarkInvariant, <1>1, PTL

(***************************************************************************)
(* The objects marked in the end are those that module Hunk keeps.         *)
(***************************************************************************)
THEOREM MarksExactly == Spec => []MarksReachable
<1>1. MarkInv => MarksReachable
  <2> DEFINE marked == { n \in Node \ Permanent : state[n] # 0 }
  <2> SUFFICES ASSUME MarkInv, todo = {}, P1 = P3 PROVE marked = Reached
    BY DEF MarksReachable, Done
  <2>1. marked \subseteq Reached
    BY DEF MarkInv, OnlyReached, Visited
  <2>2. \A n \in Node : state[n] \in {0, Full} /\ (Visited(n) <=> state[n] # 0)
    BY NodeFacts DEF MarkInv, Idle, Visited, Target
  <2>3. roots \cap (Node \ Permanent) \subseteq marked
    BY <2>2, NodeFacts DEF MarkInv, RootsVisited
  <2>4. ASSUME NEW x \in marked PROVE Kids[x] \cap (Node \ Permanent) \subseteq marked
    <3>1. x \in Node /\ state[x] = Full
      BY <2>2
    <3>2. ASSUME NEW y \in Kids[x], y \in Node PROVE state[y] # 0
      <4>1. PICK i \in Slots(x) : y = graph[x][i]
        BY <3>1 DEF Kids, Range, MarkInv, TypeOK, Links
      <4>2. i < state[x]
        BY <3>1, NodeFacts
      <4> QED BY <2>2, <3>1, <3>2, <4>1, <4>2, NodeFacts DEF MarkInv, Followed
    <3> QED BY <3>2
  <2>5. Reached \subseteq marked
    <3>1. marked \subseteq Node \ Permanent
      OBVIOUS
    <3> HIDE DEF marked
    <3> QED BY <2>3, <2>4, <3>1, ReachIsLeast DEF Reached
  <2> QED BY <2>1, <2>5
<1> QED BY MarkInvariant, <1>1, PTL

-----------------------------------------------------------------------------
(***************************************************************************)
(* What MARK has still to do: two steps for every root not yet begun with, *)
(* one for every pointer not yet followed and for every node not yet       *)
(* marked, and one for the return from the root it is at.                  *)
(***************************************************************************)
Ahead    == { slot \in Node \X (0 .. Full) : slot[2] \in Slots(slot[1]) /\ slot[2] >= state[slot[1]] }
Unmarked == { n \in Node : state[n] # Full }
Work     == 2 * Cardinality(todo) + Cardinality(Ahead) + Cardinality(Unmarked)
              + (IF P1 = P3 THEN 0 ELSE 1)

(* A node that is visited through a pointer is not yet marked. *)
Fresh == P1 # P3 /\ P0 # P3 => state[P1] # Full

(* The three sets are finite: Work is a number. *)
LEMMA WorkFacts ==
  ASSUME TypeOK
  PROVE  /\ IsFiniteSet(todo) /\ IsFiniteSet(Ahead) /\ IsFiniteSet(Unmarked)
         /\ Work \in Nat
<1>1. IsFiniteSet(Node) /\ IsFiniteSet(0 .. Full)
  <2>1. \A n \in Nat : IsFiniteSet(0 .. n)
    BY FS_Interval
  <2> QED BY <2>1, NodeAssumption
<1>2. IsFiniteSet(Node \cup {Nil})
  BY <1>1, FS_AddElement
<1>3. IsFiniteSet(todo)
  BY <1>2, FS_Subset DEF TypeOK, Target
<1>4. IsFiniteSet(Node \X (0 .. Full))
  BY <1>1, FS_Product
<1>5. IsFiniteSet(Ahead)
  BY <1>4, FS_Subset DEF Ahead
<1>6. IsFiniteSet(Unmarked)
  BY <1>1, FS_Subset DEF Unmarked
<1>7. PICK a \in Nat, b \in Nat, c \in Nat :
        a = Cardinality(todo) /\ b = Cardinality(Ahead) /\ c = Cardinality(Unmarked)
  BY <1>3, <1>5, <1>6, FS_CardinalityType
<1>8. Work = 2 * a + b + c + (IF P1 = P3 THEN 0 ELSE 1)
  BY <1>7 DEF Work
<1> QED BY <1>3, <1>5, <1>6, <1>8

(* A call exchanges the two steps of a root for the one of its return. *)
LEMMA CallWork ==
  ASSUME MarkInv, NEW object \in todo, Call(object)
  PROVE  Work' < Work /\ Fresh'
<1>1. /\ P1 = P3 /\ todo' = todo \ {object} /\ P0' = P3 /\ state' = state
  BY DEF Call
<1>2. Ahead' = Ahead /\ Unmarked' = Unmarked
  BY <1>1 DEF Ahead, Unmarked
<1>3. IsFiniteSet(todo) /\ IsFiniteSet(Ahead) /\ IsFiniteSet(Unmarked)
  BY WorkFacts DEF MarkInv
<1>4. PICK a \in Nat, b \in Nat, c \in Nat :
        a = Cardinality(todo) /\ b = Cardinality(Ahead) /\ c = Cardinality(Unmarked)
  BY <1>3, FS_CardinalityType
<1>5. Cardinality(todo') = a - 1
  BY <1>1, <1>3, <1>4, FS_RemoveElement
<1>6. Work = 2 * a + b + c
  BY <1>1, <1>4 DEF Work
<1>7. Work' = 2 * (a - 1) + b + c + (IF P1' = P3 THEN 0 ELSE 1)
  BY <1>2, <1>4, <1>5 DEF Work
<1>8. Work' < Work
  BY <1>6, <1>7
<1> QED BY <1>1, <1>8 DEF Fresh

(* A pointer is followed: it is no longer ahead, and nothing else changes. *)
LEMMA FollowWork ==
  ASSUME MarkInv, Fresh, Follow
  PROVE  Work' < Work /\ Fresh'
<1>1. /\ P1 \in Node /\ P1 \notin Permanent
      /\ state[P1] \in Slots(P1) /\ state[P1] \in Nat
      /\ state' \in [Node -> 0 .. Full]
      /\ state'[P1] = state[P1] + 1
      /\ state'[P1] \notin {0, Full}
      /\ \A n \in Node : n # P1 => state'[n] = state[n]
  BY FollowFacts
<1>2. /\ todo' = todo /\ P1 # P3 /\ state[P1] < Degree[P1]
      /\ state \in [Node -> 0 .. Full]
  BY DEF Follow, Unfollowed, MarkInv, TypeOK
<1>3. P1' # P3
  <2>1. refs[P1][state[P1]] \in Target
    BY FollowFacts
  <2> QED BY <1>2, <2>1, NodeFacts DEF Follow
<1>4. Unmarked' = Unmarked
  <2>1. state[P1] # Full
    BY <1>1, <1>2, NodeFacts
  <2> QED BY <1>1, <2>1 DEF Unmarked
<1>5. Ahead' = Ahead \ {<<P1, state[P1]>>} /\ <<P1, state[P1]>> \in Ahead
  <2>1. state[P1] \in 0 .. Full
    BY <1>1, <1>2
  <2>2. <<P1, state[P1]>> \in Ahead
    BY <1>1, <2>1 DEF Ahead
  <2>3. ASSUME NEW n \in Node, NEW i \in 0 .. Full
        PROVE  <<n, i>> \in Ahead' <=> <<n, i>> \in Ahead /\ <<n, i>> # <<P1, state[P1]>>
    <3>1. /\ <<n, i>> \in Ahead <=> i \in Slots(n) /\ i >= state[n]
          /\ <<n, i>> \in Ahead' <=> i \in Slots(n) /\ i >= state'[n]
      BY DEF Ahead
    <3>2. CASE n = P1
      BY <1>1, <3>1, <3>2, NodeFacts
    <3>3. CASE n # P1
      BY <1>1, <3>1, <3>3
    <3> QED BY <3>2, <3>3
  <2>4. Ahead \subseteq Node \X (0 .. Full) /\ Ahead' \subseteq Node \X (0 .. Full)
    BY DEF Ahead
  <2> QED BY <2>2, <2>3, <2>4
<1>6. IsFiniteSet(todo) /\ IsFiniteSet(Ahead) /\ IsFiniteSet(Unmarked)
  BY WorkFacts DEF MarkInv
<1>7. PICK a \in Nat, b \in Nat, c \in Nat :
        a = Cardinality(todo) /\ b = Cardinality(Ahead) /\ c = Cardinality(Unmarked)
  BY <1>6, FS_CardinalityType
<1>8. Cardinality(Ahead') = b - 1
  BY <1>5, <1>6, <1>7, FS_RemoveElement
<1>9. Work = 2 * a + b + c + 1 /\ Work' = 2 * a + (b - 1) + c + 1
  BY <1>2, <1>3, <1>4, <1>7, <1>8 DEF Work
<1>10. Work' < Work
  BY <1>9
<1>11. Fresh'
  <2>1. CASE UNCHANGED <<refs, P0, P1>>
    BY <1>1, <2>1 DEF Fresh
  <2>2. CASE refs[P1][state[P1]] # Nil /\ state'[refs[P1][state[P1]]] = 0 /\ P1' = refs[P1][state[P1]]
    BY <2>2, NodeFacts DEF Fresh
  <2> QED BY <2>1, <2>2 DEF Follow
<1> QED BY <1>10, <1>11

(***************************************************************************)
(* A node is left: no pointer of it was ahead, and it is marked.           *)
(***************************************************************************)
LEMMA LeaveWork ==
  ASSUME MarkInv, P1 # P3, state[P1] >= Degree[P1],
         state' = [state EXCEPT ![P1] = Full], todo' = todo
  PROVE  /\ Ahead' = Ahead
         /\ Unmarked' = Unmarked \ {P1}
<1>1. /\ P1 \in Node /\ state \in [Node -> 0 .. Full] /\ Full \in 0 .. Full
  BY NodeFacts DEF MarkInv, TypeOK
<1>2. /\ state'[P1] = Full
      /\ \A n \in Node : n # P1 => state'[n] = state[n]
  BY <1>1
<1>3. Unmarked' = Unmarked \ {P1}
  BY <1>1, <1>2 DEF Unmarked
<1>4. ASSUME NEW n \in Node, NEW i \in 0 .. Full
      PROVE  <<n, i>> \in Ahead' <=> <<n, i>> \in Ahead
  <2>1. /\ <<n, i>> \in Ahead <=> i \in Slots(n) /\ i >= state[n]
        /\ <<n, i>> \in Ahead' <=> i \in Slots(n) /\ i >= state'[n]
    BY DEF Ahead
  <2>2. CASE n = P1
    BY <1>1, <1>2, <2>1, <2>2, NodeFacts
  <2>3. CASE n # P1
    BY <1>2, <2>1, <2>3
  <2> QED BY <2>2, <2>3
<1>5. Ahead \subseteq Node \X (0 .. Full) /\ Ahead' \subseteq Node \X (0 .. Full)
  BY DEF Ahead
<1> QED BY <1>3, <1>4, <1>5

(* At the root the return that was owed is made. *)
LEMMA ReturnFromRootWork ==
  ASSUME MarkInv, ReturnFromRoot
  PROVE  Work' < Work /\ Fresh'
<1>1. /\ P1 # P3 /\ state[P1] >= Degree[P1] /\ P1' = P3
      /\ state' = [state EXCEPT ![P1] = Full] /\ todo' = todo
  BY NodeFacts DEF ReturnFromRoot, Unfollowed, Marked, MarkInv, TypeOK
<1>2. Ahead' = Ahead /\ Unmarked' = Unmarked \ {P1}
  BY <1>1, LeaveWork
<1>3. IsFiniteSet(todo) /\ IsFiniteSet(Ahead) /\ IsFiniteSet(Unmarked)
  BY WorkFacts DEF MarkInv
<1>4. PICK a \in Nat, b \in Nat, c \in Nat :
        a = Cardinality(todo) /\ b = Cardinality(Ahead) /\ c = Cardinality(Unmarked)
  BY <1>3, FS_CardinalityType
<1>5. PICK d \in Int : d = Cardinality(Unmarked') /\ d <= c
  BY <1>2, <1>3, <1>4, FS_RemoveElement
<1>6. Work = 2 * a + b + c + 1 /\ Work' = 2 * a + b + d
  BY <1>1, <1>2, <1>4, <1>5 DEF Work
<1>7. Work' < Work
  BY <1>5, <1>6
<1> QED BY <1>1, <1>7 DEF Fresh

(***************************************************************************)
(* Elsewhere one node less is not yet marked; and the node MARK returns to *)
(* is on the path, where no node is marked.                                *)
(***************************************************************************)
LEMMA ReturnWork ==
  ASSUME MarkInv, Fresh, Return
  PROVE  Work' < Work /\ Fresh'
<1>1. /\ P1 # P3 /\ P0 # P3 /\ state[P1] >= Degree[P1] /\ P1' = P0
      /\ state' = [state EXCEPT ![P1] = Full] /\ todo' = todo
  BY NodeFacts DEF Return, Unfollowed, Marked, MarkInv, TypeOK
<1>2. Ahead' = Ahead /\ Unmarked' = Unmarked \ {P1}
  BY <1>1, LeaveWork
<1>3. IsFiniteSet(todo) /\ IsFiniteSet(Ahead) /\ IsFiniteSet(Unmarked)
  BY WorkFacts DEF MarkInv
<1>4. PICK a \in Nat, b \in Nat, c \in Nat :
        a = Cardinality(todo) /\ b = Cardinality(Ahead) /\ c = Cardinality(Unmarked)
  BY <1>3, FS_CardinalityType
<1>5. P1 \in Node /\ P1 \in Unmarked /\ state \in [Node -> 0 .. Full]
  BY <1>1 DEF Fresh, Unmarked, MarkInv, TypeOK
<1>6. Cardinality(Unmarked') = c - 1
  BY <1>2, <1>3, <1>4, <1>5, FS_RemoveElement
<1>7. Work = 2 * a + b + c + 1 /\ Work' = 2 * a + b + (c - 1) + 1
  BY <1>1, <1>2, <1>4, <1>6 DEF Work
<1>8. Work' < Work
  BY <1>7
<1>9. PICK k \in Nat : \E path \in [1 .. k -> Node] : IsPath(k, path)
  BY <1>1 DEF MarkInv, HasPath
<1>10. PICK path \in [1 .. k -> Node] : IsPath(k, path)
  BY <1>9
<1>11. k # 0 /\ k \in 1 .. k /\ P0 = path[k] /\ P0 \in Node /\ P0 # P1 /\ state[P0] - 1 \in Slots(P0)
  BY <1>1, <1>10 DEF IsPath
<1>12. state'[P0] = state[P0] /\ state[P0] # Full
  BY <1>1, <1>5, <1>11, NodeFacts
<1>13. Fresh'
  BY <1>1, <1>12 DEF Fresh
<1> QED BY <1>8, <1>13

(***************************************************************************)
(* Every step of MARK leaves less to do than there was, so that it makes   *)
(* at most as many steps as there is work in the beginning.  What this     *)
(* leaves to model checking is that MARK is not stuck on the way.          *)
(***************************************************************************)
THEOREM WorkFalls == Spec => [](Work \in Nat) /\ [][Work' < Work]_vars
<1>1. MarkInv /\ Fresh /\ Next => Work' < Work /\ Fresh'
  BY CallWork, FollowWork, ReturnWork, ReturnFromRootWork DEF Next
<1>2. Init => Fresh
  BY DEF Init, Fresh
<1>3. MarkInv /\ Fresh /\ [Next]_vars => Fresh'
  BY <1>1 DEF Fresh, vars
<1>4. Spec => []Fresh
  BY MarkInvariant, <1>2, <1>3, PTL DEF Spec
<1>5. MarkInv => Work \in Nat
  BY WorkFacts DEF MarkInv
<1>6. MarkInv /\ Fresh /\ [Next]_vars => [Work' < Work]_vars
  BY <1>1
<1> QED BY MarkInvariant, <1>4, <1>5, <1>6, PTL DEF Spec
=============================================================================
