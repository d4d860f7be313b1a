---------------------- MODULE ConsistentHashRing_proofs ----------------------
(***************************************************************************)
(* Theorems about ConsistentHashRing, for every hash function, any nodes   *)
(* and any number of points of each.                                       *)
(***************************************************************************)
EXTENDS ConsistentHashRing, TLAPS, FiniteSetTheorems, WellFoundedInduction

LEMMA HasLeast == ASSUME NEW S \in SUBSET Nat, S # {}
                  PROVE  /\ Min(S) \in S
                         /\ \A y \in S : Min(S) <= y
<1>1. PICK x \in S : \A y \in S : ~ (<<y, x>> \in OpToRel(<, Nat))
  BY WFMin, NatLessThanWellFounded, Zenon
<1>2. \A y \in S : ~ (y < x)
  BY <1>1 DEF OpToRel
<1>3. \A y \in S : x <= y
  BY <1>2
<1> QED BY <1>3 DEF Min

\* The point of a key is at or behind the others: what bisect_right finds.
LEMMA ClockwiseIs ==
    ASSUME NEW h \in Nat, NEW S \in SUBSET Nat, S # {}
    PROVE  /\ Clockwise(h, S) \in S
           /\ (\E x \in S : x > h) =>
                 /\ Clockwise(h, S) > h
                 /\ \A y \in S : y > h => Clockwise(h, S) <= y
           /\ ~ (\E x \in S : x > h) => \A y \in S : Clockwise(h, S) <= y
<1>1. CASE \E x \in S : x > h
  <2> DEFINE A == {x \in S : x > h}
  <2>1. A \in SUBSET Nat /\ A # {}
    BY <1>1
  <2>2. Min(A) \in A /\ \A y \in A : Min(A) <= y
    BY <2>1, HasLeast
  <2>3. Clockwise(h, S) = Min(A)
    BY <1>1 DEF Clockwise
  <2> QED BY <1>1, <2>2, <2>3
<1>2. CASE ~ \E x \in S : x > h
  <2>1. Clockwise(h, S) = Min(S)
    BY <1>2 DEF Clockwise
  <2> QED BY <1>2, <2>1, HasLeast
<1> QED BY <1>1, <1>2

\* Taking other points away leaves a key where it is.
LEMMA KeepsItsPoint ==
    ASSUME NEW h \in Nat, NEW T \in SUBSET Nat, NEW S \in SUBSET T,
           Clockwise(h, T) \in S
    PROVE  Clockwise(h, S) = Clockwise(h, T)
<1> DEFINE c == Clockwise(h, T)
           d == Clockwise(h, S)
<1>1. S \in SUBSET Nat /\ S # {} /\ T # {} /\ c \in S
  OBVIOUS
<1>2. /\ (\E x \in T : x > h) => c > h /\ \A y \in T : y > h => c <= y
      /\ ~ (\E x \in T : x > h) => \A y \in T : c <= y
  BY <1>1, ClockwiseIs
<1>3. /\ d \in S
      /\ (\E x \in S : x > h) => d > h /\ \A y \in S : y > h => d <= y
      /\ ~ (\E x \in S : x > h) => \A y \in S : d <= y
  BY <1>1, ClockwiseIs
<1>4. c \in Nat /\ d \in Nat
  BY <1>1, <1>3
<1> HIDE DEF c, d
<1>5. c = d
  BY <1>1, <1>2, <1>3, <1>4
<1> QED BY <1>5 DEF c, d

----------------------------------------------------------------------------
LEMMA FreeLabelIsLabel ==
    ASSUME NEW n, NEW r, NEW l \in FreeLabels(n, r)
    PROVE  /\ l \in Labels /\ l.node = n /\ l.replica = r
           /\ Hash[l] \in Points \ DOMAIN label
  BY RingAssumption DEF FreeLabels

LEMMA TypeStep == TypeOK /\ [Next]_vars => TypeOK'
<1> SUFFICES ASSUME TypeOK, [Next]_vars PROVE TypeOK'
  OBVIOUS
<1> USE RingAssumption DEF TypeOK
<1>1. ASSUME NEW n \in NodeIds, AddNode(n) PROVE TypeOK'
  <2>1. n \in nodes' /\ join' = [joining |-> {n}, next |-> join'.next] /\ join'.next \in 0 .. VNodes
    BY <1>1 DEF AddNode
  <2>2. \E m \in nodes' : join' = [joining |-> {m}, next |-> join'.next]
    BY <2>1
  <2> QED BY <1>1, <2>1, <2>2 DEF AddNode
<1>2. ASSUME PlaceReplica PROVE TypeOK'
  <2>1. PICK n \in join.joining :
           /\ join.next < VNodes
           /\ \E l \in FreeLabels(n, join.next) :
                 label' = [h \in DOMAIN label \union {Hash[l]} |->
                              IF h = Hash[l] THEN l ELSE label[h]]
           /\ join' = [join EXCEPT !.next = @ + 1]
           /\ UNCHANGED nodes
    BY <1>2 DEF PlaceReplica
  <2>2. PICK l \in FreeLabels(n, join.next) :
           label' = [h \in DOMAIN label \union {Hash[l]} |->
                        IF h = Hash[l] THEN l ELSE label[h]]
    BY <2>1
  <2>3. l \in Labels /\ l.node = n /\ Hash[l] \in Points
    BY FreeLabelIsLabel
  <2>4. ~ Idle
    BY <2>1 DEF Idle, Nobody
  <2>5. join.next \in 0 .. VNodes /\ n \in nodes /\ join = [joining |-> {n}, next |-> join.next]
    BY <2>1, <2>4
  <2>6. /\ join'.next \in 0 .. VNodes
        /\ n \in nodes'
        /\ join' = [joining |-> {n}, next |-> join'.next]
    <3> DEFINE k == join.next
    <3>1. k \in Nat /\ k < VNodes /\ join = [joining |-> {n}, next |-> k]
      BY <2>1, <2>5
    <3>2. join' = [join EXCEPT !.next = k + 1]
      BY <2>1
    <3> HIDE DEF k
    <3>3. join' = [joining |-> {n}, next |-> k + 1]
      BY <3>1, <3>2
    <3>4. k + 1 \in 0 .. VNodes
      BY <3>1
    <3>5. join'.next = k + 1
      BY <3>3
    <3> QED BY <2>1, <2>5, <3>3, <3>4, <3>5
  <2>7. /\ DOMAIN label' \subseteq Points
        /\ \A h \in DOMAIN label' : /\ label'[h] \in Labels
                                    /\ Hash[label'[h]] = h
                                    /\ label'[h].node \in nodes'
    BY <2>1, <2>2, <2>3, <2>5
  <2>8. nodes' \subseteq NodeIds
    BY <2>1
  <2> HIDE RingAssumption
  <2> QED BY <2>6, <2>7, <2>8
<1>3. ASSUME Joined PROVE TypeOK'
  BY <1>3 DEF Joined, Idle
<1>4. ASSUME NEW n \in NodeIds, RemoveNode(n) PROVE TypeOK'
  BY <1>4 DEF RemoveNode, Restrict, Idle
<1>5. ASSUME UNCHANGED vars PROVE TypeOK'
  BY <1>5 DEF vars, Idle
<1> QED BY <1>1, <1>2, <1>3, <1>4, <1>5 DEF Next

LEMMA TypeInit == Init => TypeOK
  BY DEF Init, TypeOK, Idle, Nobody

\* Every point of the ring belongs to a node that is in it and is where its
\* label hashes to, however the labels collide.
THEOREM TypeCorrect == Spec => []TypeOK
  BY TypeInit, TypeStep, PTL DEF Spec

----------------------------------------------------------------------------
\* The points of one replica of a node.
At(n, r) == {h \in DOMAIN label : label[h].node = n /\ label[h].replica = r}

\* EveryReplicaPlaced with the one point named.
OnePointEach ==
    \A n \in nodes : \A r \in 0 .. VNodes - 1 :
        IF r < Placed(n) THEN \E h \in DOMAIN label : At(n, r) = {h}
                         ELSE At(n, r) = {}

Inv == TypeOK /\ OnePointEach

LEMMA OneIsCounted == OnePointEach => EveryReplicaPlaced
<1> SUFFICES ASSUME OnePointEach, NEW n \in nodes, NEW r \in 0 .. VNodes - 1
             PROVE  Cardinality(At(n, r)) = IF r < Placed(n) THEN 1 ELSE 0
  BY DEF EveryReplicaPlaced, At
<1>1. CASE r < Placed(n)
  <2>1. PICK h \in DOMAIN label : At(n, r) = {h}
    BY <1>1 DEF OnePointEach
  <2> QED BY <1>1, <2>1, FS_Singleton
<1>2. CASE ~ (r < Placed(n))
  <2>1. At(n, r) = {}
    BY <1>2 DEF OnePointEach
  <2> QED BY <1>2, <2>1, FS_EmptySet
<1> QED BY <1>1, <1>2

LEMMA AddNodeKeeps == ASSUME Inv, NEW m \in NodeIds, AddNode(m) PROVE OnePointEach'
<1> SUFFICES ASSUME NEW n \in nodes', NEW r \in 0 .. VNodes - 1
             PROVE  (IF r < Placed(n) THEN \E h \in DOMAIN label : At(n, r) = {h}
                                      ELSE At(n, r) = {})'
  BY DEF OnePointEach
<1>1. At(n, r)' = At(n, r) /\ label' = label
  BY DEF AddNode, At
<1>2. CASE n = m
  <2>1. Placed(n)' = 0
    BY <1>2 DEF AddNode, Placed
  <2>2. At(n, r) = {}
    BY <1>2 DEF AddNode, At, Inv, TypeOK
  <2> QED BY <1>1, <2>1, <2>2
<1>3. CASE n # m
  <2>1. n \in nodes /\ Placed(n)' = VNodes /\ Placed(n) = VNodes
    BY <1>3 DEF AddNode, Placed, Idle, Nobody
  <2> QED BY <1>1, <2>1 DEF OnePointEach, Inv
<1> QED BY <1>2, <1>3

LEMMA PlaceReplicaKeeps == ASSUME Inv, PlaceReplica PROVE OnePointEach'
<1>1. PICK m \in join.joining :
         /\ join.next < VNodes
         /\ \E l \in FreeLabels(m, join.next) :
               label' = [h \in DOMAIN label \union {Hash[l]} |->
                            IF h = Hash[l] THEN l ELSE label[h]]
         /\ join' = [join EXCEPT !.next = @ + 1]
         /\ UNCHANGED nodes
  BY DEF PlaceReplica
<1>2. PICK l \in FreeLabels(m, join.next) :
         label' = [h \in DOMAIN label \union {Hash[l]} |->
                      IF h = Hash[l] THEN l ELSE label[h]]
  BY <1>1
<1> DEFINE k == join.next
<1>3. l.node = m /\ l.replica = k /\ Hash[l] \notin DOMAIN label
  BY FreeLabelIsLabel
<1>4. /\ k \in Nat /\ k < VNodes /\ VNodes \in Nat
      /\ m \in nodes /\ join = [joining |-> {m}, next |-> k]
  BY <1>1, RingAssumption DEF Inv, TypeOK, Idle, Nobody
<1>5. join' = [join EXCEPT !.next = k + 1]
  BY <1>1
<1> HIDE DEF k
<1>6. join' = [joining |-> {m}, next |-> k + 1]
  BY <1>4, <1>5
<1> SUFFICES ASSUME NEW n \in nodes', NEW r \in 0 .. VNodes - 1
             PROVE  (IF r < Placed(n) THEN \E h \in DOMAIN label : At(n, r) = {h}
                                      ELSE At(n, r) = {})'
  BY DEF OnePointEach
<1>7. n \in nodes
  BY <1>1
<1>8. /\ Placed(n) = IF n = m THEN k ELSE VNodes
      /\ Placed(n)' = IF n = m THEN k + 1 ELSE VNodes
  <2>1. join.joining = {m} /\ join.next = k /\ join'.joining = {m} /\ join'.next = k + 1
    BY <1>4, <1>6
  <2> QED BY <2>1 DEF Placed
<1>9. CASE n = m /\ r = k
  <2>1. At(n, r) = {}
    BY <1>4, <1>7, <1>8, <1>9 DEF OnePointEach, Inv
  <2>2. At(n, r)' = {Hash[l]}
    BY <1>2, <1>3, <1>9, <2>1 DEF At
  <2>3. Hash[l] \in DOMAIN label'
    BY <1>2
  <2>4. r < Placed(n)'
    BY <1>4, <1>8, <1>9
  <2> QED BY <2>2, <2>3, <2>4
<1>10. CASE ~ (n = m /\ r = k)
  <2>1. At(n, r)' = At(n, r)
    BY <1>2, <1>3, <1>10 DEF At
  <2>2. r < Placed(n)' <=> r < Placed(n)
    BY <1>4, <1>8, <1>10
  <2>3. DOMAIN label \subseteq DOMAIN label'
    BY <1>2
  <2> QED BY <1>7, <2>1, <2>2, <2>3 DEF OnePointEach, Inv
<1> QED BY <1>9, <1>10

LEMMA JoinedKeeps == ASSUME Inv, Joined PROVE OnePointEach'
<1> SUFFICES ASSUME NEW n \in nodes', NEW r \in 0 .. VNodes - 1
             PROVE  (IF r < Placed(n) THEN \E h \in DOMAIN label : At(n, r) = {h}
                                      ELSE At(n, r) = {})'
  BY DEF OnePointEach
<1>1. n \in nodes /\ label' = label /\ At(n, r)' = At(n, r)
  BY DEF Joined, At
<1>2. Placed(n)' = Placed(n)
  BY DEF Joined, Placed, Nobody
<1> QED BY <1>1, <1>2 DEF OnePointEach, Inv

LEMMA RemoveNodeKeeps == ASSUME Inv, NEW m \in NodeIds, RemoveNode(m) PROVE OnePointEach'
<1> SUFFICES ASSUME NEW n \in nodes', NEW r \in 0 .. VNodes - 1
             PROVE  (IF r < Placed(n) THEN \E h \in DOMAIN label : At(n, r) = {h}
                                      ELSE At(n, r) = {})'
  BY DEF OnePointEach
<1>1. n \in nodes /\ n # m
  BY DEF RemoveNode
<1>2. At(n, r)' = At(n, r)
  BY <1>1 DEF RemoveNode, Restrict, At
<1>3. Placed(n)' = Placed(n)
  BY DEF RemoveNode, Placed
<1>4. At(n, r) \subseteq DOMAIN label'
  BY <1>2 DEF At
<1> QED BY <1>1, <1>2, <1>3, <1>4 DEF OnePointEach, Inv

LEMMA InvStep == Inv /\ [Next]_vars => Inv'
<1> SUFFICES ASSUME Inv, [Next]_vars PROVE OnePointEach'
  BY TypeStep DEF Inv
<1>1. CASE UNCHANGED vars
  BY <1>1 DEF vars, Inv, OnePointEach, At, Placed
<1> QED BY <1>1, AddNodeKeeps, PlaceReplicaKeeps, JoinedKeeps, RemoveNodeKeeps DEF Next

LEMMA InvInit == Init => Inv
  BY TypeInit DEF Inv, Init, OnePointEach

\* No collision, and no order of joining and leaving, costs a node a replica
\* or leaves it with two points for one.
THEOREM ReplicasArePlaced == Spec => []EveryReplicaPlaced
<1>1. Inv => EveryReplicaPlaced
  BY OneIsCounted DEF Inv
<1> QED BY <1>1, InvInit, InvStep, PTL DEF Spec

----------------------------------------------------------------------------
\* OnlyItsArcMoves for one key and one step.
LEMMA ArcStep ==
    ASSUME TypeOK, [Next]_vars, NEW k \in Keys, Routed, Routed'
    PROVE  \/ Owner(k)' = Owner(k)
           \/ Owner(k)' \in join.joining
           \/ Owner(k) \in nodes \ nodes'
<1> DEFINE h == KeyHash[k]
           D == DOMAIN label
           E == DOMAIN label'
           c == Clockwise(h, D)
           d == Clockwise(h, E)
<1>1. h \in Nat /\ D \in SUBSET Nat /\ D # {}
  BY RingAssumption DEF TypeOK, Routed
<1>2. E \in SUBSET Nat /\ E # {}
  BY RingAssumption, TypeStep DEF TypeOK, Routed
<1>3. c \in D /\ d \in E
  BY <1>1, <1>2, ClockwiseIs
<1>4. Owner(k) = label[c].node /\ Owner(k)' = label'[d].node
  BY DEF Owner
<1>5. ASSUME NEW n \in join.joining, NEW l \in FreeLabels(n, join.next),
             label' = [x \in D \union {Hash[l]} |-> IF x = Hash[l] THEN l ELSE label[x]]
      PROVE  Owner(k)' = Owner(k) \/ Owner(k)' \in join.joining
  <2>1. l.node = n /\ Hash[l] \notin D
    BY FreeLabelIsLabel
  <2>2. D \in SUBSET E
    BY <1>5
  <2>3. CASE d = Hash[l]
    BY <1>4, <1>5, <2>1, <2>3
  <2>4. CASE d # Hash[l]
    <3>1. d \in D
      BY <1>3, <1>5, <2>4
    <3>2. c = d
      BY <1>1, <1>2, <2>2, <3>1, KeepsItsPoint
    <3>3. label'[d] = label[d]
      BY <1>5, <2>4, <3>1
    <3> QED BY <1>4, <3>2, <3>3
  <2> QED BY <2>3, <2>4
<1>6. ASSUME NEW n \in NodeIds, RemoveNode(n)
      PROVE  Owner(k)' = Owner(k) \/ Owner(k) \in nodes \ nodes'
  <2>1. E = {x \in D : label[x].node # n} /\ \A x \in E : label'[x] = label[x]
    BY <1>6 DEF RemoveNode, Restrict
  <2>2. CASE c \in E
    <3>1. d = c
      BY <1>1, <2>1, <2>2, KeepsItsPoint
    <3> QED BY <1>4, <2>1, <2>2, <3>1
  <2>3. CASE c \notin E
    <3>1. label[c].node = n
      BY <1>3, <2>1, <2>3
    <3> QED BY <1>4, <1>6, <3>1 DEF RemoveNode
  <2> QED BY <2>2, <2>3
<1>7. label' = label => Owner(k)' = Owner(k)
  BY DEF Owner
<1>8. PlaceReplica => Owner(k)' = Owner(k) \/ Owner(k)' \in join.joining
  BY <1>5 DEF PlaceReplica
<1>9. (\E n \in NodeIds : AddNode(n)) \/ Joined \/ UNCHANGED vars => label' = label
  BY DEF AddNode, Joined, vars
<1> QED BY <1>6, <1>7, <1>8, <1>9 DEF Next

\* Minimal movement: whatever the hash, however many nodes, points and
\* collisions, a key changes hands only to the node that joins or from the
\* node that leaves.
THEOREM OnlyTheArcMoves == Spec => OnlyItsArcMoves
<1>1. TypeOK /\ [Next]_vars =>
        [\A k \in Keys : Routed /\ Routed' /\ Owner(k)' # Owner(k) =>
            \/ Owner(k)' \in join.joining
            \/ Owner(k) \in nodes \ nodes']_vars
  BY ArcStep
<1> QED BY <1>1, TypeCorrect, PTL DEF Spec, OnlyItsArcMoves
============================================================================
