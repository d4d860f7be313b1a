------------------------ MODULE DistributedCache_proofs ------------------------
(***************************************************************************)
(* Theorems about DistributedCache, for every set of prefixes and nodes,   *)
(* every ring, TTL and capacity.                                           *)
(***************************************************************************)
EXTENDS DistributedCache, TLAPS, WellFoundedInduction, FiniteSetTheorems

\* f is the order of the keys S: strict, and total on each node.
IsOrder(S, f) ==
    /\ f \in [S -> SUBSET S]
    /\ \A k \in S : f[k] \subseteq Peers(k)
    /\ \A j, k \in S : j \in Peers(k) => (j \in f[k] <=> k \notin f[j])
    /\ \A i, j, k \in S : j \in f[k] /\ i \in f[j] => i \in f[k]

Types == /\ left \in [Stored -> 0 .. TTL]
         /\ Stored \subseteq Keys
         /\ due \in [Keys -> 0 .. TTL]
         /\ since \in [Keys -> SUBSET Keys]

Bounded == \A k \in Stored : Cardinality(Held(k)) <= Capacity

\* A stored entry is as old as its last set, and whatever is behind it in the
\* order was used after it.
EntriesExact == \A k \in Stored : left[k] = due[k] /\ newer[k] \subseteq since[k]

Inv == /\ Types
       /\ IsOrder(Stored, newer)
       /\ Bounded
       /\ EntriesExact
       /\ RecentlyUsedStay
--------------------------------------------------------------------------------
(* Lemmas about the order                                                  *)

\* Moving a key to the end, or adding it there, keeps the order.
LEMMA MoveOrder ==
    ASSUME NEW S \in SUBSET Keys, NEW f, IsOrder(S, f), NEW k \in Keys
    PROVE  IsOrder(S \union {k},
                   [x \in S \union {k} |-> CASE x = k          -> {}
                                             [] x \in Peers(k) -> f[x] \union {k}
                                             [] OTHER          -> f[x]])
<1> DEFINE T == S \union {k}
           g == [x \in T |-> CASE x = k          -> {}
                               [] x \in Peers(k) -> f[x] \union {k}
                               [] OTHER          -> f[x]]
<1>3. \A x, y \in Keys : /\ x \in Peers(y) <=> y \in Peers(x)
                         /\ \A z \in Peers(y) : x \in Peers(y) /\ x # z => x \in Peers(z)
                         /\ x \notin Peers(x)
  BY DEF Peers
<1>1. g[k] = {}
  BY <1>3
<1>2. \A x \in T \ {k} : /\ x \in S
                         /\ g[x] = IF x \in Peers(k) THEN f[x] \union {k} ELSE f[x]
  OBVIOUS
<1>4. \A x \in S : f[x] \in SUBSET S /\ f[x] \subseteq Peers(x)
  BY DEF IsOrder
<1>5. g \in [T -> SUBSET T]
  <2>1. \A x \in T : g[x] \in SUBSET T
    BY <1>1, <1>2, <1>4
  <2> QED
    BY <2>1
<1>6. \A x \in T : g[x] \subseteq Peers(x)
  BY <1>1, <1>2, <1>3, <1>4
<1> HIDE DEF g
<1>7. ASSUME NEW i \in T, NEW j \in T, i \in Peers(j)
      PROVE  i \in g[j] <=> j \notin g[i]
  <2>1. CASE i = k
    <3>1. j \in T \ {k} /\ j \in Peers(k)
      BY <2>1, <1>3, <1>7
    <3>2. k \in g[j]
      BY <3>1, <1>2
    <3> QED
      BY <2>1, <3>2, <1>1
  <2>2. CASE j = k
    <3>1. i \in T \ {k} /\ i \in Peers(k)
      BY <2>2, <1>3, <1>7
    <3>2. k \in g[i]
      BY <3>1, <1>2
    <3> QED
      BY <2>2, <3>2, <1>1
  <2>3. CASE i # k /\ j # k
    <3>1. i \in S /\ j \in S /\ (i \in f[j] <=> j \notin f[i])
      BY <2>3, <1>2, <1>7 DEF IsOrder
    <3> QED
      BY <2>3, <3>1, <1>2
  <2> QED
    BY <2>1, <2>2, <2>3
<1>8. ASSUME NEW h \in T, NEW i \in T, NEW j \in T, i \in g[j], h \in g[i]
      PROVE  h \in g[j]
  <2>1. i # k /\ j # k
    BY <1>1, <1>8
  <2>2. i \in S /\ j \in S /\ i \in f[j] /\ i \in Peers(j)
    BY <2>1, <1>2, <1>4, <1>8
  <2>3. CASE h = k
    <3>1. i \in Peers(k)
      BY <2>1, <2>2, <2>3, <1>2, <1>3, <1>4, <1>8
    <3>2. j \in Peers(k)
      BY <2>1, <2>2, <3>1, <1>3
    <3> QED
      BY <2>1, <2>3, <3>2, <1>2
  <2>4. CASE h # k
    <3>1. h \in S /\ h \in f[i]
      BY <2>1, <2>4, <1>2, <1>8
    <3>2. h \in f[j]
      BY <2>2, <3>1 DEF IsOrder
    <3> QED
      BY <2>1, <3>2, <1>2
  <2> QED
    BY <2>3, <2>4
<1> QED
  BY <1>5, <1>6, <1>7, <1>8 DEF IsOrder, g

\* A bounded function to the numbers takes a largest value.
LEMMA Largest ==
    ASSUME NEW S, S # {}, NEW m \in [S -> Nat], NEW b \in Nat, \A x \in S : m[x] <= b
    PROVE  \E x \in S : \A y \in S : m[y] <= m[x]
<1> DEFINE Gaps == {b - m[x] : x \in S}
<1>1. Gaps \subseteq Nat /\ Gaps # {}
  OBVIOUS
<1>2. PICK g \in Gaps : \A h \in Gaps : ~ (<<h, g>> \in OpToRel(<, Nat))
  BY <1>1, WFMin, NatLessThanWellFounded, Zenon
<1>3. \A h \in Gaps : g <= h
  <2>1. \A x, y \in Nat : x < y => <<x, y>> \in OpToRel(<, Nat)
    BY DEF OpToRel
  <2>2. \A h \in Gaps : h \in Nat /\ g \in Nat /\ ~ (h < g)
    BY <1>1, <1>2, <2>1
  <2> QED
    BY <2>2
<1>4. PICK x \in S : g = b - m[x]
  OBVIOUS
<1>5. \A y \in S : b - m[x] <= b - m[y]
  BY <1>3, <1>4
<1>6. \A y \in S : m[y] <= m[x]
  BY <1>5
<1> QED
  BY <1>6

\* The keys of a node are finitely many.
LEMMA HeldFinite ==
    ASSUME Types, NEW k \in Keys
    PROVE  /\ IsFiniteSet(Held(k)) /\ Cardinality(Held(k)) \in Nat
           /\ Held(k) \subseteq Stored
<1>1. Held(k) \subseteq Keys
  BY DEF Held, Types
<1> QED
  BY <1>1, FS_Subset, FS_CardinalityType, DistributedCacheAssumption DEF Held

\* A node that holds something has a key at the front of its order.
LEMMA OldestExists ==
    ASSUME Types, IsOrder(Stored, newer), NEW k \in Keys, Held(k) # {}
    PROVE  Oldest(k) # {}
<1> DEFINE m == [x \in Held(k) |-> Cardinality(newer[x])]
<1>1. \A x \in Held(k) : newer[x] \subseteq Held(k)
  BY DEF IsOrder, Peers, Held, Types
<1>2. \A x \in Held(k) : /\ IsFiniteSet(newer[x]) /\ Cardinality(newer[x]) \in Nat
                         /\ Cardinality(newer[x]) <= Cardinality(Held(k))
  BY <1>1, HeldFinite, FS_Subset, FS_CardinalityType
<1>3. PICK v \in Held(k) : \A y \in Held(k) : m[y] <= m[v]
  <2>1. m \in [Held(k) -> Nat] /\ \A x \in Held(k) : m[x] <= Cardinality(Held(k))
    BY <1>2
  <2> HIDE DEF m
  <2> QED
    BY <2>1, HeldFinite, Largest
<1>4. ASSUME NEW x \in Held(k) \ {v}, x \notin newer[v] PROVE FALSE
  <2>1. x \in Stored /\ v \in Stored /\ x \in Peers(v) /\ v \in Peers(x)
    BY <1>4 DEF Held, Peers, Types
  <2>2. v \in newer[x] /\ v \notin newer[v]
    BY <1>4, <2>1 DEF IsOrder, Peers
  <2>3. newer[v] \subseteq newer[x]
    BY <2>1, <2>2 DEF IsOrder
  <2>4. Cardinality(newer[v]) < Cardinality(newer[x])
    BY <1>2, <2>2, <2>3, FS_Subset
  <2> QED
    BY <1>2, <1>3, <2>4
<1>5. newer[v] = Held(k) \ {v}
  <2>1. v \notin newer[v]
    BY DEF IsOrder, Peers, Held
  <2> QED
    BY <1>1, <1>4, <2>1
<1> QED
  BY <1>5 DEF Oldest

--------------------------------------------------------------------------------
(* The actions keep Inv                                                    *)

LEMMA InitInv == Init => Inv
<1> SUFFICES ASSUME Init PROVE Inv
  OBVIOUS
<1>1. Stored = {}
  BY DEF Init, Stored
<1>2. Types
  BY <1>1, DistributedCacheAssumption DEF Init, Types
<1>3. IsOrder(Stored, newer)
  BY <1>1 DEF Init, IsOrder
<1>4. RecentlyUsedStay
  BY DEF Init, RecentlyUsedStay
<1> QED
  BY <1>1, <1>2, <1>3, <1>4 DEF Inv, Bounded, EntriesExact

\* A use of k resets what k keeps, and adds k to what its peers keep.
LEMMA UsedFacts ==
    ASSUME Types, NEW k \in Keys, Used(k)
    PROVE  /\ since' \in [Keys -> SUBSET Keys]
           /\ \A x \in Keys \ {k} : since[x] \subseteq since'[x]
           /\ \A x \in Peers(k) : since'[x] = since[x] \union {k}
<1>1. k \notin Peers(k) /\ Peers(k) \subseteq Keys
  BY DEF Peers
<1>2. \A x \in Keys : since'[x] = CASE x = k          -> {}
                                   [] x \in Peers(k) -> since[x] \union {k}
                                   [] OTHER          -> since[x]
  BY DEF Used
<1>3. \A x \in Keys : since'[x] \in SUBSET Keys
  BY <1>1, <1>2 DEF Types
<1>4. since' \in [Keys -> SUBSET Keys]
  BY <1>3 DEF Used
<1> QED
  BY <1>1, <1>2, <1>4

\* Keys that were missing for a good reason still are while since grows.
LEMMA MissingStays ==
    ASSUME Types, RecentlyUsedStay, NEW x \in Keys, x \notin Stored, due[x] > 0,
           since'[x] \in SUBSET Keys, since[x] \subseteq since'[x]
    PROVE  Cardinality(since'[x]) >= Capacity
<1>1. Cardinality(since[x]) >= Capacity
  BY DEF RecentlyUsedStay
<1>2. /\ IsFiniteSet(since'[x])
      /\ Cardinality(since[x]) <= Cardinality(since'[x])
      /\ Cardinality(since[x]) \in Nat /\ Cardinality(since'[x]) \in Nat
  BY FS_Subset, FS_CardinalityType, DistributedCacheAssumption
<1> QED
  BY <1>1, <1>2, DistributedCacheAssumption

\* GetHit and SetPresent: a stored key moves to the end.
LEMMA MoveInv ==
    ASSUME Inv, NEW k \in Stored, newer' = MovedToEnd(k), Used(k),
           DOMAIN left' = Stored, left' \in [Stored -> 0 .. TTL],
           due' \in [Keys -> 0 .. TTL],
           \A x \in Stored : left'[x] = due'[x],
           \A x \in Keys \ Stored : due'[x] = due[x]
    PROVE  Inv'
<1>1. k \in Keys /\ Stored' = Stored /\ Stored \subseteq Keys /\ Types
  BY DEF Inv, Types, Stored
<1>2. Types'
  BY <1>1, UsedFacts DEF Types
<1>3. IsOrder(Stored, newer)'
  <2>1. IsOrder(Stored \union {k}, MovedToEnd(k))
    BY <1>1, MoveOrder DEF Inv, MovedToEnd
  <2>2. Stored \union {k} = Stored
    OBVIOUS
  <2> QED
    BY <1>1, <2>1, <2>2 DEF IsOrder, Peers
<1>4. Bounded'
  BY <1>1 DEF Inv, Bounded, Held
<1>5. EntriesExact'
  <2>1. k \notin Peers(k) /\ \A x \in Stored : newer[x] \subseteq since[x]
    BY DEF Inv, EntriesExact, Peers
  <2>2. \A x \in Stored : newer'[x] \subseteq since'[x]
    BY <1>1, <2>1, UsedFacts DEF MovedToEnd
  <2> QED
    BY <1>1, <2>2 DEF EntriesExact
<1>6. RecentlyUsedStay'
  BY <1>1, UsedFacts, MissingStays DEF RecentlyUsedStay, Inv
<1> QED
  BY <1>2, <1>3, <1>4, <1>5, <1>6 DEF Inv

\* GetExpired, InvalidateAllModes and Clear: keys that no longer count go.
LEMMA DropInv ==
    ASSUME Inv, NEW gone \in SUBSET Keys, Drop(gone), since' = since,
           due' \in [Keys -> 0 .. TTL],
           \A x \in Keys \ gone : due'[x] = due[x] \/ (due'[x] = 0 /\ x \notin Stored),
           \A x \in gone : due'[x] = 0
    PROVE  Inv'
<1>1. /\ Stored' = Stored \ gone
      /\ newer' = [x \in Stored \ gone |-> newer[x] \ gone]
      /\ \A x \in Stored' : left'[x] = left[x]
  BY DEF Drop, Stored
<1>2. Types'
  <2>1. left' \in [Stored' -> 0 .. TTL]
    BY <1>1 DEF Drop, Inv, Types
  <2> QED
    BY <1>1, <2>1 DEF Inv, Types
<1>3. IsOrder(Stored, newer)'
  <2>1. IsOrder(Stored \ gone, [x \in Stored \ gone |-> newer[x] \ gone])
    <3>1. IsOrder(Stored, newer)
      BY DEF Inv
    <3> QED
      BY <3>1 DEF IsOrder
  <2> QED
    BY <1>1, <2>1 DEF IsOrder, Peers
<1>4. Bounded'
  <2> SUFFICES ASSUME NEW x \in Stored' PROVE Cardinality(Held(x)') <= Capacity
    BY DEF Bounded
  <2>1. x \in Stored /\ x \in Keys /\ Held(x)' \subseteq Held(x)
    BY <1>1 DEF Held, Inv, Types
  <2>2. IsFiniteSet(Held(x)) /\ Cardinality(Held(x)) \in Nat
    BY <2>1, HeldFinite DEF Inv
  <2>3. /\ Cardinality(Held(x)') <= Cardinality(Held(x))
        /\ Cardinality(Held(x)') \in Nat
    BY <2>1, <2>2, FS_Subset, FS_CardinalityType
  <2> QED
    BY <2>1, <2>2, <2>3, DistributedCacheAssumption DEF Inv, Bounded
<1>5. EntriesExact'
  BY <1>1 DEF EntriesExact, Inv, Types
<1>6. RecentlyUsedStay'
  <2> SUFFICES ASSUME NEW x \in Keys, due'[x] > 0, x \notin Stored'
               PROVE  Cardinality(since'[x]) >= Capacity
    BY DEF RecentlyUsedStay
  <2>1. x \notin gone
    OBVIOUS
  <2>2. x \notin Stored /\ due[x] > 0
    BY <1>1, <2>1
  <2> QED
    BY <2>2 DEF Inv, RecentlyUsedStay
<1> QED
  BY <1>2, <1>3, <1>4, <1>5, <1>6 DEF Inv

LEMMA TickInv == Inv /\ Tick => Inv'
<1> SUFFICES ASSUME Inv, Tick PROVE Inv'
  OBVIOUS
<1>1. \A n \in 0 .. TTL : Less(n) \in 0 .. TTL /\ (Less(n) > 0 => n > 0)
  BY DistributedCacheAssumption DEF Less
<1>2. /\ Stored' = Stored /\ newer' = newer /\ since' = since
      /\ \A x \in Stored : left'[x] = Less(left[x])
      /\ \A x \in Keys : due'[x] = Less(due[x])
  BY DEF Tick, Stored
<1>3. Types'
  <2>1. left' \in [Stored -> 0 .. TTL] /\ due' \in [Keys -> 0 .. TTL]
    BY <1>1 DEF Tick, Inv, Types
  <2> QED
    BY <1>2, <2>1 DEF Inv, Types
<1>4. IsOrder(Stored, newer)'
  BY <1>2 DEF Inv, IsOrder, Peers
<1>5. Bounded' /\ EntriesExact'
  BY <1>2 DEF Inv, Bounded, Held, EntriesExact, Types
<1>6. RecentlyUsedStay'
  BY <1>1, <1>2 DEF Inv, RecentlyUsedStay, Types
<1> QED
  BY <1>3, <1>4, <1>5, <1>6 DEF Inv

\* A key joins its node, and when there is no room the oldest one leaves.
LEMMA SetAbsentInv ==
    ASSUME Inv, NEW k \in Keys, SetAbsent(k)
    PROVE  Inv'
<1> DEFINE Ev == Evicted(k)
<1>1. /\ k \notin Stored /\ Held(k) \subseteq Stored /\ Ev \subseteq Held(k)
      /\ Stored \subseteq Keys /\ Types /\ k \notin Peers(k)
      /\ IsOrder(Stored, newer)
  BY DEF SetAbsent, Evicted, Oldest, Held, Inv, Types, Peers
<1>2. /\ Stored' = (Stored \ Ev) \union {k}
      /\ Stored' = (Stored \union {k}) \ Ev
      /\ \A x \in Stored' : left'[x] = IF x = k THEN TTL ELSE left[x]
      /\ newer' = [x \in (Stored \union {k}) \ Ev |-> MovedToEnd(k)[x] \ Ev]
  BY <1>1 DEF SetAbsent, Stored
<1>3. /\ \A x \in Keys \ {k} : due'[x] = due[x]
      /\ due'[k] = TTL /\ due' \in [Keys -> 0 .. TTL]
      /\ Used(k)
  BY <1>1, DistributedCacheAssumption DEF SetAbsent, Types
<1>4. Types'
  <2>1. left' \in [Stored' -> 0 .. TTL]
    <3>1. \A x \in Stored' : left'[x] \in 0 .. TTL
      BY <1>1, <1>2, DistributedCacheAssumption DEF Types
    <3>2. left' = [x \in Stored' |-> left'[x]]
      BY DEF SetAbsent, Stored
    <3> QED
      BY <3>1, <3>2
  <2> QED
    BY <1>1, <1>2, <1>3, <2>1, UsedFacts DEF Types
<1>5. IsOrder(Stored, newer)'
  <2> DEFINE T == Stored \union {k}
             g == MovedToEnd(k)
  <2>1. IsOrder(T, g)
    BY <1>1, MoveOrder DEF MovedToEnd
  <2> HIDE DEF T, g, Ev
  <2>2. IsOrder(T \ Ev, [x \in T \ Ev |-> g[x] \ Ev])
    BY <2>1 DEF IsOrder
  <2>3. IsOrder(Stored', newer')
    BY <1>2, <2>2 DEF T, g
  <2> QED
    BY <2>3 DEF IsOrder, Peers
<1>6. /\ IsFiniteSet(Held(k)) /\ Cardinality(Held(k)) \in Nat
      /\ Cardinality(Held(k)) <= Capacity
  <2>1. IsFiniteSet(Held(k)) /\ Cardinality(Held(k)) \in Nat
    BY <1>1, HeldFinite
  <2>2. CASE Held(k) = {}
    BY <2>2, FS_EmptySet, DistributedCacheAssumption
  <2>3. CASE Held(k) # {}
    <3>1. PICK y \in Held(k) : TRUE
      BY <2>3
    <3>2. Held(y) = Held(k) /\ y \in Stored
      BY DEF Held
    <3> QED
      BY <2>1, <3>2 DEF Inv, Bounded
  <2> QED
    BY <2>1, <2>2, <2>3
<1>7. Bounded'
  <2>1. Cardinality((Held(k) \ Ev) \union {k}) <= Capacity
    <3>1. CASE Cardinality(Held(k)) >= Capacity
      <4>1. Held(k) # {}
        BY <3>1, FS_EmptySet, DistributedCacheAssumption
      <4>2. PICK v \in Held(k) : v \in Ev
        BY <1>1, <3>1, <4>1, OldestExists DEF Evicted
      <4>3. /\ Cardinality(Held(k) \ {v}) = Cardinality(Held(k)) - 1
            /\ IsFiniteSet(Held(k) \ {v})
        BY <1>6, FS_RemoveElement
      <4>4. k \notin Held(k) \ {v}
        BY <1>1
      <4>5. /\ Cardinality((Held(k) \ {v}) \union {k}) = Cardinality(Held(k))
            /\ IsFiniteSet((Held(k) \ {v}) \union {k})
        <5>1. /\ Cardinality((Held(k) \ {v}) \union {k})
                     = Cardinality(Held(k) \ {v}) + 1
              /\ IsFiniteSet((Held(k) \ {v}) \union {k})
          BY <4>3, <4>4, FS_AddElement, Zenon
        <5> QED
          BY <1>6, <4>3, <5>1
      <4>6. (Held(k) \ Ev) \union {k} \subseteq (Held(k) \ {v}) \union {k}
        BY <4>2
      <4>7. /\ Cardinality((Held(k) \ Ev) \union {k})
                 <= Cardinality((Held(k) \ {v}) \union {k})
            /\ IsFiniteSet((Held(k) \ Ev) \union {k})
        BY <4>5, <4>6, FS_Subset
      <4>8. Cardinality((Held(k) \ Ev) \union {k}) \in Nat
        BY <4>7, FS_CardinalityType
      <4> QED
        BY <1>6, <4>5, <4>7, <4>8, DistributedCacheAssumption
    <3>2. CASE ~ (Cardinality(Held(k)) >= Capacity)
      <4>1. Ev = {} /\ k \notin Held(k)
        BY <1>1, <3>2 DEF Evicted
      <4>2. Cardinality(Held(k) \union {k}) = Cardinality(Held(k)) + 1
        BY <1>6, <4>1, FS_AddElement
      <4>3. (Held(k) \ Ev) \union {k} = Held(k) \union {k}
        BY <4>1
      <4> QED
        BY <1>6, <3>2, <4>2, <4>3, DistributedCacheAssumption
    <3> QED
      BY <3>1, <3>2
  <2> SUFFICES ASSUME NEW x \in Stored' PROVE Cardinality(Held(x)') <= Capacity
    BY DEF Bounded
  <2>2. CASE NodeOf[x] = NodeOf[k]
    <3>1. Held(x)' = (Held(k) \ Ev) \union {k}
      BY <1>2, <2>2 DEF Held
    <3> QED
      BY <2>1, <3>1
  <2>3. CASE NodeOf[x] # NodeOf[k]
    <3>1. x \in Stored /\ Held(x)' = Held(x)
      BY <1>1, <1>2, <2>3 DEF Held
    <3> QED
      BY <3>1 DEF Inv, Bounded
  <2> QED
    BY <2>2, <2>3
<1>8. EntriesExact'
  <2> SUFFICES ASSUME NEW x \in Stored'
               PROVE  left'[x] = due'[x] /\ newer'[x] \subseteq since'[x]
    BY DEF EntriesExact
  <2>1. newer'[x] \subseteq MovedToEnd(k)[x]
    BY <1>2
  <2>2. CASE x = k
    BY <1>1, <1>2, <1>3, <2>1, <2>2 DEF MovedToEnd
  <2>3. CASE x # k
    <3>1. x \in Stored /\ x \in Keys /\ left[x] = due[x] /\ newer[x] \subseteq since[x]
      BY <1>1, <1>2, <2>3 DEF Inv, EntriesExact
    <3>2. MovedToEnd(k)[x] \subseteq since'[x]
      BY <1>1, <1>3, <2>3, <3>1, UsedFacts DEF MovedToEnd
    <3> QED
      BY <1>2, <1>3, <2>1, <2>3, <3>1, <3>2
  <2> QED
    BY <2>2, <2>3
<1>9. RecentlyUsedStay'
  <2> SUFFICES ASSUME NEW x \in Keys, due'[x] > 0, x \notin Stored'
               PROVE  Cardinality(since'[x]) >= Capacity
    BY DEF RecentlyUsedStay
  <2>1. x # k /\ due[x] > 0 /\ since[x] \subseteq since'[x] /\ since'[x] \in SUBSET Keys
    BY <1>1, <1>2, <1>3, UsedFacts
  <2>2. CASE x \notin Stored
    BY <1>1, <2>1, <2>2, MissingStays DEF Inv
  <2>3. CASE x \in Stored
    <3>1. /\ x \in Held(k) /\ newer[x] = Held(k) \ {x}
          /\ Cardinality(Held(k)) >= Capacity
      BY <1>2, <2>1, <2>3 DEF Evicted, Oldest
    <3>2. x \in Peers(k)
      BY <2>1, <3>1 DEF Held, Peers
    <3>3. (Held(k) \ {x}) \union {k} \subseteq since'[x]
      BY <1>1, <1>3, <2>3, <3>1, <3>2, UsedFacts DEF Inv, EntriesExact
    <3>4. /\ Cardinality(Held(k) \ {x}) = Cardinality(Held(k)) - 1
          /\ IsFiniteSet(Held(k) \ {x})
      BY <1>6, <3>1, FS_RemoveElement
    <3>5. k \notin Held(k) \ {x}
      BY <1>1
    <3>6. Cardinality((Held(k) \ {x}) \union {k}) = Cardinality(Held(k))
      <4>1. Cardinality((Held(k) \ {x}) \union {k}) = Cardinality(Held(k) \ {x}) + 1
        BY <3>4, <3>5, FS_AddElement, Zenon
      <4> QED
        BY <1>6, <3>4, <4>1
    <3>7. IsFiniteSet(since'[x]) /\ Cardinality(since'[x]) \in Nat
      BY <2>1, FS_Subset, FS_CardinalityType, DistributedCacheAssumption
    <3>8. Cardinality((Held(k) \ {x}) \union {k}) <= Cardinality(since'[x])
      BY <3>3, <3>7, FS_Subset
    <3> QED
      BY <1>6, <3>1, <3>6, <3>7, <3>8, DistributedCacheAssumption
  <2> QED
    BY <2>2, <2>3
<1> QED
  BY <1>4, <1>5, <1>7, <1>8, <1>9 DEF Inv

\* Order, times and bookkeeping of every node agree in every state.
THEOREM Invariance == Spec => []Inv
<1>1. Inv /\ [Next]_vars => Inv'
  <2> SUFFICES ASSUME Inv, [Next]_vars PROVE Inv'
    OBVIOUS
  <2>0. Types /\ Stored \subseteq Keys /\ \A x \in Stored : left[x] = due[x]
    BY DEF Inv, Types, EntriesExact
  <2>1. ASSUME NEW k \in Keys, GetHit(k) PROVE Inv'
    BY <2>0, <2>1, MoveInv DEF GetHit, Hit, Types, Stored
  <2>2. ASSUME NEW k \in Keys, GetExpired(k) PROVE Inv'
    BY <2>0, <2>2, DropInv DEF GetExpired, Expired, Types
  <2>3. ASSUME NEW k \in Keys, SetPresent(k) PROVE Inv'
    <3>1. /\ k \in Stored /\ newer' = MovedToEnd(k) /\ Used(k)
          /\ left' \in [Stored -> 0 .. TTL] /\ due' \in [Keys -> 0 .. TTL]
          /\ DOMAIN left' = Stored
          /\ \A x \in Stored : left'[x] = due'[x]
          /\ \A x \in Keys \ Stored : due'[x] = due[x]
      BY <2>0, <2>3, DistributedCacheAssumption DEF SetPresent, Types, Stored
    <3> QED
      BY <3>1, MoveInv
  <2>4. ASSUME NEW k \in Keys, SetAbsent(k) PROVE Inv'
    BY <2>4, SetAbsentInv
  <2>5. ASSUME NEW p \in Prefixes, InvalidateAllModes(p) PROVE Inv'
    <3> DEFINE gone == {k \in Keys : k[1] = p}
    <3>1. Drop(gone)
      <4>1. Stored \ gone = Stored \ Variants(p)
        BY <2>0 DEF Variants
      <4>2. \A x \in Stored : newer[x] \ gone = newer[x] \ Variants(p)
        BY <2>0 DEF Variants, Inv, IsOrder
      <4> QED
        BY <2>5, <4>1, <4>2 DEF InvalidateAllModes, Drop
    <3>2. /\ due' \in [Keys -> 0 .. TTL] /\ since' = since
          /\ \A x \in Keys \ gone : due'[x] = due[x]
          /\ \A x \in gone : due'[x] = 0
      BY <2>0, <2>5, DistributedCacheAssumption DEF InvalidateAllModes, Types
    <3> QED
      BY <3>1, <3>2, DropInv
  <2>6. CASE Clear
    <3>1. /\ due' \in [Keys -> 0 .. TTL] /\ since' = since /\ Drop(Stored)
          /\ \A x \in Keys : due'[x] = 0
      BY <2>6, DistributedCacheAssumption DEF Clear
    <3> QED
      BY <2>0, <3>1, DropInv
  <2>7. CASE Tick
    BY <2>7, TickInv
  <2>8. ASSUME UNCHANGED vars PROVE Inv'
    BY <2>8 DEF vars, Inv, Types, IsOrder, Bounded, EntriesExact,
                RecentlyUsedStay, Stored, Held, Peers
  <2>9. ASSUME NEW k \in Keys, GetAbsent(k) PROVE Inv'
    BY <2>8, <2>9 DEF GetAbsent
  <2> QED
    BY <2>1, <2>2, <2>3, <2>4, <2>5, <2>6, <2>7, <2>8, <2>9 DEF Next
<1> QED
  BY <1>1, InitInv, PTL DEF Spec

--------------------------------------------------------------------------------
(* The theorems                                                            *)

\* The order of every node is total and no node outgrows its capacity.
THEOREM WithinCapacity == Spec => []TypeOK
<1>1. Inv => TypeOK
  BY DEF Inv, Types, IsOrder, Bounded, TypeOK
<1> QED
  BY <1>1, Invariance, PTL

\* No invalidated or expired answer is served.
THEOREM ServedIsLive == Spec => []HitsAreLive
<1>1. Inv => HitsAreLive
  BY DEF Inv, Types, EntriesExact, HitsAreLive, Hit, Expired
<1> QED
  BY <1>1, Invariance, PTL

\* The LRU guarantee: a live key is missing only after Capacity other keys of
\* its node were used more recently.
THEOREM RecentlyUsedKept == Spec => []RecentlyUsedStay
<1>1. Inv => RecentlyUsedStay
  BY DEF Inv
<1> QED
  BY <1>1, Invariance, PTL

--------------------------------------------------------------------------------
(* The cache of AnswerCache inside                                         *)

LEMMA EntriesFacts ==
    /\ DOMAIN Entries = Stored
    /\ \A k \in Stored : /\ Entries[k] = [answer |-> "cached", age |-> TTL - left[k]]
                         /\ Entries[k].age = TTL - left[k]
    /\ \A k : Answers!Held(k) = Held(k)
  BY DEF Entries, Answers!Held, Held

\* An entry is served in the one cache when it is in the other.
LEMMA HitSame ==
    ASSUME Types, NEW k \in Keys
    PROVE  Answers!Hit(k) <=> Hit(k)
<1>1. k \in Stored => left[k] \in 0 .. TTL /\ (TTL - left[k] < TTL <=> left[k] # 0)
  BY DistributedCacheAssumption DEF Types
<1> QED
  BY <1>1, EntriesFacts DEF Answers!Hit, Hit, Expired

\* A node that is full gives up the one key at the front, another one none.
LEMMA EvictedOne ==
    ASSUME Inv, NEW k \in Keys, k \notin Stored
    PROVE  /\ Evicted(k) \in {{}} \union {{v} : v \in Held(k) \ {k}}
           /\ Evicted(k) = {} <=> Cardinality(Held(k) \union {k}) <= Capacity
<1>1. /\ IsFiniteSet(Held(k)) /\ Cardinality(Held(k)) \in Nat
      /\ Held(k) \subseteq Stored /\ k \notin Held(k)
  BY HeldFinite DEF Inv
<1>2. Cardinality(Held(k) \union {k}) = Cardinality(Held(k)) + 1
  BY <1>1, FS_AddElement
<1>3. CASE Cardinality(Held(k)) >= Capacity
  <2>1. Held(k) # {}
    BY <1>3, FS_EmptySet, DistributedCacheAssumption
  <2>2. PICK v \in Held(k) : v \in Oldest(k)
    BY <2>1, OldestExists DEF Inv, Oldest
  <2>3. ASSUME NEW w \in Oldest(k), w # v PROVE FALSE
    <3>1. /\ v \in Held(k) /\ newer[v] = Held(k) \ {v}
          /\ w \in Held(k) /\ newer[w] = Held(k) \ {w}
      BY <2>2 DEF Oldest
    <3>2. w \in newer[v] /\ v \in newer[w]
      BY <2>3, <3>1
    <3>3. v \in Stored /\ w \in Stored /\ w \in Peers(v)
      BY <1>1, <3>1, <3>2 DEF Inv, IsOrder
    <3> QED
      BY <3>2, <3>3 DEF Inv, IsOrder
  <2>4. Evicted(k) = {v}
    BY <1>3, <2>2, <2>3 DEF Evicted
  <2> QED
    BY <1>1, <1>2, <1>3, <2>2, <2>4, DistributedCacheAssumption
<1>4. CASE ~ (Cardinality(Held(k)) >= Capacity)
  <2>1. Evicted(k) = {}
    BY <1>4 DEF Evicted
  <2> QED
    BY <1>1, <1>2, <1>4, <2>1, DistributedCacheAssumption
<1> QED
  BY <1>3, <1>4

\* get of an expired key forgets it.
LEMMA ExpiredForgets ==
    ASSUME Inv, NEW k \in Keys, GetExpired(k)
    PROVE  Answers!Forget(k)
<1>1. k \in Stored /\ ~ Hit(k) /\ Types
  BY DEF GetExpired, Hit, Inv
<1>2. Entries' = [x \in Stored \ {k} |-> Entries[x]]
  BY EntriesFacts DEF GetExpired, Drop, Entries, Stored
<1>3. Entries' = Answers!Without({k})
  BY <1>2, EntriesFacts DEF Answers!Without, Answers!Restrict
<1> QED
  BY <1>1, <1>3, EntriesFacts, HitSame DEF Answers!Forget

\* Both modules count alike.
LEMMA SameCardinality == \A S : Answers!Cardinality(S) = Cardinality(S)
  BY Zenon DEF Answers!Cardinality, Cardinality

\* What set does to the entries when it pushes out the victims.
LEMMA Stores ==
    ASSUME NEW k \in Keys,
           NEW victims \in {{}} \union {{v} : v \in Held(k) \ {k}},
           victims = {} <=> Cardinality(Held(k) \union {k}) <= Capacity,
           Entries' = [x \in (Stored \ victims) \union {k} |->
                          IF x = k THEN [answer |-> "cached", age |-> 0] ELSE Entries[x]]
    PROVE  Answers!Store(k, "cached")
<1>1. /\ DOMAIN Entries = Stored /\ Answers!Held(k) = Held(k)
      /\ Answers!Cardinality(Answers!Held(k) \union {k}) = Cardinality(Held(k) \union {k})
  BY EntriesFacts, SameCardinality
<1> HIDE DEF Stored
<1> QED
  BY <1>1, Zenon DEF Answers!Store, Answers!Insert

\* set of a key that is there renews it where it is.
LEMMA PresentStores ==
    ASSUME Inv, NEW k \in Keys, SetPresent(k)
    PROVE  Answers!Store(k, "cached")
<1>1. k \in Stored /\ Held(k) \union {k} = Held(k)
  BY DEF SetPresent, Held
<1>2. Cardinality(Held(k) \union {k}) <= Capacity
  BY <1>1 DEF Inv, Bounded
<1>3. Stored' = Stored /\ \A x \in Stored : left'[x] = IF x = k THEN TTL ELSE left[x]
  BY DEF SetPresent, Stored, Inv, Types
<1>4. \A x \in Stored : [answer |-> "cached", age |-> TTL - left'[x]]
                        = IF x = k THEN [answer |-> "cached", age |-> 0] ELSE Entries[x]
  BY <1>1, <1>3, EntriesFacts, DistributedCacheAssumption
<1>5. Entries' = [x \in (Stored \ {}) \union {k} |->
                     IF x = k THEN [answer |-> "cached", age |-> 0] ELSE Entries[x]]
  BY <1>1, <1>3, <1>4 DEF Entries
<1> QED
  BY <1>2, <1>5, Stores

\* set of a new key pushes out what a full node must give up.
LEMMA AbsentStores ==
    ASSUME Inv, NEW k \in Keys, SetAbsent(k)
    PROVE  Answers!Store(k, "cached")
<1> DEFINE Ev == Evicted(k)
           T == (Stored \ Ev) \union {k}
<1>1. k \notin Stored
  BY DEF SetAbsent
<1>2. Stored' = T /\ \A x \in T : left'[x] = IF x = k THEN TTL ELSE left[x]
  BY DEF SetAbsent, Stored
<1>3. \A x \in T : [answer |-> "cached", age |-> TTL - left'[x]]
                   = IF x = k THEN [answer |-> "cached", age |-> 0] ELSE Entries[x]
  BY <1>2, EntriesFacts, DistributedCacheAssumption
<1>4. Entries' = [x \in T |->
                     IF x = k THEN [answer |-> "cached", age |-> 0] ELSE Entries[x]]
  <2> HIDE DEF T
  <2> QED
    BY <1>2, <1>3 DEF Entries
<1>5. /\ Ev \in {{}} \union {{v} : v \in Held(k) \ {k}}
      /\ Ev = {} <=> Cardinality(Held(k) \union {k}) <= Capacity
  BY <1>1, EvictedOne
<1> HIDE DEF Ev
<1> QED
  BY <1>4, <1>5, Stores

\* What is invalidated is gone in every mode, and nothing else is.
LEMMA DropInvalidates ==
    ASSUME Types, NEW some \in SUBSET Prefixes,
           Drop({k \in Stored : k[1] \in some})
    PROVE  Answers!Invalidate(some)
<1> DEFINE gone == {k \in Stored : k[1] \in some}
<1>1. Stored \ gone = Stored \ {k \in Answers!Keys : k[1] \in some}
  BY DEF Types, Answers!Keys, Keys, Answers!Modes, Modes
<1>2. Entries' = [x \in Stored \ gone |-> Entries[x]]
  BY EntriesFacts DEF Drop, Entries, Stored
<1> HIDE DEF gone
<1> QED
  BY <1>1, <1>2, EntriesFacts DEF Answers!Invalidate, Answers!Without, Answers!Restrict

\* A tick ages what has not expired.
LEMMA TickAges == ASSUME Types, Tick PROVE Answers!Age
<1>1. Stored' = Stored /\ \A k \in Stored : left'[k] = Less(left[k])
  BY DEF Tick, Stored
<1>2. \A n \in 0 .. TTL : TTL - Less(n) = IF TTL - n < TTL THEN (TTL - n) + 1 ELSE TTL
  BY DistributedCacheAssumption DEF Less
<1>3. \A k \in Stored : left[k] \in 0 .. TTL
  BY DEF Types
<1>4. \A k \in Stored :
         [answer |-> "cached", age |-> TTL - left'[k]]
             = [answer |-> Entries[k].answer,
                age    |-> IF Entries[k].age < TTL THEN Entries[k].age + 1 ELSE TTL]
  BY <1>1, <1>2, <1>3, EntriesFacts
<1> QED
  BY <1>1, <1>4, EntriesFacts DEF Answers!Age, Entries

LEMMA CacheSteps ==
    Inv /\ [Next]_vars => [Answers!CacheNext({"cached"})]_Entries
<1> SUFFICES ASSUME Inv, [Next]_vars
             PROVE  Answers!CacheNext({"cached"}) \/ Entries' = Entries
  OBVIOUS
<1>0. Types /\ Answers!Keys = Keys
  BY DEF Inv, Answers!Keys, Keys, Answers!Modes, Modes
<1>1. CASE left' = left
  BY <1>1 DEF Entries, Stored
<1>2. ASSUME NEW k \in Keys, GetExpired(k) PROVE Answers!CacheNext({"cached"})
  BY <1>0, <1>2, ExpiredForgets DEF Answers!CacheNext
<1>3. ASSUME NEW k \in Keys, SetPresent(k) \/ SetAbsent(k)
      PROVE  Answers!CacheNext({"cached"})
  BY <1>0, <1>3, PresentStores, AbsentStores DEF Answers!CacheNext
<1>4. ASSUME NEW p \in Prefixes, InvalidateAllModes(p)
      PROVE  Answers!CacheNext({"cached"})
  <2>1. Variants(p) = {k \in Stored : k[1] \in {p}}
    BY DEF Variants
  <2>2. Answers!Invalidate({p})
    BY <1>0, <1>4, <2>1, DropInvalidates DEF InvalidateAllModes
  <2> QED
    BY <2>2 DEF Answers!CacheNext
<1>5. CASE Clear
  <2>1. Stored = {k \in Stored : k[1] \in Prefixes}
    BY <1>0 DEF Types, Keys
  <2>2. Answers!Invalidate(Prefixes)
    BY <1>0, <1>5, <2>1, DropInvalidates DEF Clear
  <2> QED
    BY <2>2 DEF Answers!CacheNext
<1>6. CASE Tick
  BY <1>0, <1>6, TickAges DEF Answers!CacheNext
<1> QED
  BY <1>1, <1>2, <1>3, <1>4, <1>5, <1>6 DEF Next, GetHit, GetAbsent, vars

\* The LRU maps of the nodes are the cache that the read path relies on.
THEOREM IsAnswerCache == Spec => ImplementsCache
<1>1. Init => Answers!CacheInit
  BY DEF Init, Entries, Stored, Answers!CacheInit, Answers!Empty
<1> QED
  BY <1>1, CacheSteps, Invariance, PTL DEF Spec, ImplementsCache
================================================================================
