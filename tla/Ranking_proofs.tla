--------------------------- MODULE Ranking_proofs ---------------------------
(***************************************************************************)
(* The top-K lists of the trie are exact, for every set of queries, every  *)
(* shape of the trie and every K (PrefixIndex, and Ranking that uses it).  *)
(*                                                                         *)
(* A list is best among some counts if nothing outside of it comes before  *)
(* something in it, and if it is full unless it has everything.  This says *)
(* the same as sorting and cutting, but can be kept step by step.          *)
(*                                                                         *)
(* The scores of the tracker are those of halving at every tick, for every *)
(* horizon and capacity: Power is shown to be the function its recursive   *)
(* definition describes, by induction over sets of numbers, and halving by *)
(* the next power is halving once more.  From that, what a search adds to  *)
(* the pool of its prefixes at once.                                       *)
(***************************************************************************)
EXTENDS Ranking, TLAPS, WellFoundedInduction, FiniteSetTheorems

IsBest(list, all) ==
    /\ DOMAIN list \subseteq DOMAIN all
    /\ list = [q \in DOMAIN list |-> all[q]]
    /\ Cardinality(DOMAIN list) <= K
    /\ \A q \in DOMAIN list, r \in DOMAIN all \ DOMAIN list :
          Before(q, all[q], r, all[r])
    /\ DOMAIN list # DOMAIN all => Cardinality(DOMAIN list) = K

\* The counts of the queries below a node.
Below(p) == Restrict(word, DOMAIN word \intersect Under[p])

IndexInv ==
    /\ IsTable(word)
    /\ IsTable(todo)
    /\ built \subseteq Nodes
    /\ top = [p \in Nodes |-> top[p]]
    /\ \A p \in built : IsBest(top[p], Below(p))
    /\ \A q \in DOMAIN todo : todo[q] >= CountOf(q)

--------------------------------------------------------------------------------
(* The order                                                               *)

LEMMA BeforeOrder ==
    ASSUME NEW q \in Queries, NEW r \in Queries, NEW s \in Queries,
           NEW c \in Nat, NEW d \in Nat, NEW e \in Nat
    PROVE  /\ q # r => (Before(q, c, r, d) <=> ~ Before(r, d, q, c))
           /\ ~ Before(q, c, q, c)
           /\ Before(q, c, r, d) /\ Before(r, d, s, e) => Before(q, c, s, e)
BY PrefixIndexAssumption DEF Before

LEMMA TableFinite ==
    ASSUME NEW t, IsTable(t), NEW some \in SUBSET DOMAIN t
    PROVE  IsFiniteSet(some) /\ Cardinality(some) \in Nat
BY FS_Subset, FS_CardinalityType, PrefixIndexAssumption DEF IsTable

\* A relation that is transitive and irreflexive, given by the sets of what
\* comes ahead, leaves something in front of every finite set.
LEMMA Front ==
    ASSUME NEW S, IsFiniteSet(S), NEW ahead \in [S -> SUBSET S],
           \A x \in S : x \notin ahead[x],
           \A x, y \in S : x \in ahead[y] => ahead[x] \subseteq ahead[y],
           NEW X \in SUBSET S, X # {}
    PROVE  \E f \in X : \A x \in X : x \notin ahead[f]
<1> DEFINE Sizes == {Cardinality(ahead[x]) : x \in X}
<1>1. \A x \in S : IsFiniteSet(ahead[x]) /\ Cardinality(ahead[x]) \in Nat
  BY FS_Subset, FS_CardinalityType
<1>2. Sizes \subseteq Nat /\ Sizes # {}
  BY <1>1
<1>3. PICK g \in Sizes : \A h \in Sizes : ~ (<<h, g>> \in OpToRel(<, Nat))
  BY <1>2, WFMin, NatLessThanWellFounded, Zenon
<1>4. \A h \in Sizes : ~ (h < g)
  <2>1. \A x, y \in Nat : x < y => <<x, y>> \in OpToRel(<, Nat)
    BY DEF OpToRel
  <2> QED
    BY <1>2, <1>3, <2>1
<1>5. PICK f \in X : g = Cardinality(ahead[f])
  OBVIOUS
<1>6. ASSUME NEW x \in X, x \in ahead[f] PROVE FALSE
  <2>1. ahead[x] \subseteq ahead[f] /\ ahead[x] # ahead[f]
    BY <1>6
  <2>2. Cardinality(ahead[x]) < Cardinality(ahead[f])
    BY <2>1, <1>1, FS_Subset, FS_CardinalityType
  <2> QED
    BY <2>2, <1>4, <1>5
<1> QED
  BY <1>6

\* What comes ahead of an entry, as a function, is such a relation,
LEMMA AheadOrder ==
    ASSUME NEW t, IsTable(t)
    PROVE  /\ \A q \in DOMAIN t : Ahead(t, q) \subseteq DOMAIN t /\ q \notin Ahead(t, q)
           /\ \A q, r \in DOMAIN t :
                 q \in Ahead(t, r) => Ahead(t, q) \subseteq Ahead(t, r)
<1>1. \A q \in DOMAIN t : q \in Queries /\ t[q] \in Nat
  BY DEF IsTable
<1>2. \A q, r, s \in DOMAIN t : Before(s, t[s], q, t[q]) /\ Before(q, t[q], r, t[r])
                                   => Before(s, t[s], r, t[r])
  BY <1>1, BeforeOrder
<1>3. \A q \in DOMAIN t : ~ Before(q, t[q], q, t[q])
  BY <1>1, BeforeOrder
<1> QED
  BY <1>2, <1>3 DEF Ahead

\* so a first entry of any part of a table exists,
LEMMA FirstExists ==
    ASSUME NEW t, IsTable(t), NEW X \in SUBSET DOMAIN t, X # {}
    PROVE  \E f \in X : \A x \in X \ {f} : Before(f, t[f], x, t[x])
<1> DEFINE ahead == [q \in DOMAIN t |-> Ahead(t, q)]
<1>1. PICK f \in X : \A x \in X : x \notin ahead[f]
  <2>1. IsFiniteSet(DOMAIN t)
    BY TableFinite
  <2>2. ahead \in [DOMAIN t -> SUBSET DOMAIN t]
    BY AheadOrder
  <2>3. /\ \A q \in DOMAIN t : q \notin ahead[q]
        /\ \A q, r \in DOMAIN t : q \in ahead[r] => ahead[q] \subseteq ahead[r]
    BY AheadOrder
  <2> HIDE DEF ahead
  <2> QED
    BY <2>1, <2>2, <2>3, Front
<1>2. \A x \in X \ {f} : ~ Before(x, t[x], f, t[f])
  BY <1>1 DEF Ahead
<1>3. \A x \in X : x \in Queries /\ t[x] \in Nat
  BY DEF IsTable
<1> QED
  BY <1>2, <1>3, BeforeOrder

\* and a last one, which is Worst.
LEMMA WorstIsLast ==
    ASSUME NEW t, IsTable(t), DOMAIN t # {}
    PROVE  /\ Worst(t) \in DOMAIN t
           /\ \A r \in DOMAIN t \ {Worst(t)} : Before(r, t[r], Worst(t), t[Worst(t)])
<1> DEFINE behind == [q \in DOMAIN t |-> {r \in DOMAIN t : Before(q, t[q], r, t[r])}]
<1>1. \A q \in DOMAIN t : q \in Queries /\ t[q] \in Nat
  BY DEF IsTable
<1>2. PICK w \in DOMAIN t : \A x \in DOMAIN t : x \notin behind[w]
  <2>1. IsFiniteSet(DOMAIN t)
    BY TableFinite
  <2>2. behind \in [DOMAIN t -> SUBSET DOMAIN t]
    OBVIOUS
  <2>3. \A q \in DOMAIN t : q \notin behind[q]
    BY <1>1, BeforeOrder
  <2>4. \A q, r \in DOMAIN t : q \in behind[r] => behind[q] \subseteq behind[r]
    BY <1>1, BeforeOrder
  <2> HIDE DEF behind
  <2> QED
    BY <2>1, <2>2, <2>3, <2>4, Front
<1>3. \A x \in DOMAIN t \ {w} : Before(x, t[x], w, t[w])
  BY <1>1, <1>2, BeforeOrder
<1> QED
  BY <1>3 DEF Worst

--------------------------------------------------------------------------------
(* Sorting and cutting gives the best entries, and nothing else does       *)

LEMMA BestIsCut ==
    ASSUME NEW all, IsTable(all), NEW list, IsBest(list, all)
    PROVE  list = Cut(all)
<1> DEFINE D == DOMAIN list
           S == DOMAIN all
<1>1. \A q \in S : q \in Queries /\ all[q] \in Nat
  BY DEF IsTable
<1>2. D \subseteq S /\ IsFiniteSet(D) /\ Cardinality(D) \in Nat /\ K \in Nat
  BY TableFinite, PrefixIndexAssumption DEF IsBest
<1>3. ASSUME NEW q \in D PROVE Cardinality(Ahead(all, q)) < K
  <2>1. Ahead(all, q) \subseteq D \ {q}
    <3>1. ASSUME NEW r \in Ahead(all, q) PROVE r \in D \ {q}
      <4>1. r \in S /\ Before(r, all[r], q, all[q])
        BY DEF Ahead
      <4>2. r \notin D => Before(q, all[q], r, all[r])
        BY <4>1 DEF IsBest
      <4> QED
        BY <4>1, <4>2, <1>1, <1>2, BeforeOrder
    <3> QED
      BY <3>1
  <2>2. IsFiniteSet(D \ {q}) /\ Cardinality(D \ {q}) = Cardinality(D) - 1
    BY <1>2, FS_RemoveElement
  <2>3. Cardinality(Ahead(all, q)) <= Cardinality(D \ {q})
    BY <2>1, <2>2, FS_Subset
  <2>4. Cardinality(Ahead(all, q)) \in Nat
    BY <2>1, <2>2, FS_Subset, FS_CardinalityType
  <2>5. Cardinality(D) <= K
    BY DEF IsBest
  <2> QED
    BY <2>2, <2>3, <2>4, <2>5, <1>2
<1>4. ASSUME NEW q \in S \ D PROVE ~ (Cardinality(Ahead(all, q)) < K)
  <2>1. Cardinality(D) = K
    BY <1>4 DEF IsBest
  <2>2. D \subseteq Ahead(all, q)
    BY <1>2, <1>4 DEF IsBest, Ahead
  <2>3. IsFiniteSet(Ahead(all, q)) /\ Cardinality(Ahead(all, q)) \in Nat
    BY TableFinite DEF Ahead
  <2>4. Cardinality(D) <= Cardinality(Ahead(all, q))
    BY <2>2, <2>3, FS_Subset
  <2> QED
    BY <2>1, <2>3, <2>4, <1>2
<1>5. D = {q \in S : Cardinality(Ahead(all, q)) < K}
  BY <1>2, <1>3, <1>4
<1>6. list = [q \in D |-> all[q]]
  BY DEF IsBest
<1> QED
  BY <1>5, <1>6 DEF Cut, Restrict

LEMMA CutIsBest ==
    ASSUME NEW all, IsTable(all)
    PROVE  IsBest(Cut(all), all)
<1> DEFINE S == DOMAIN all
           D == {q \in S : Cardinality(Ahead(all, q)) < K}
<1>1. \A q \in S : q \in Queries /\ all[q] \in Nat
  BY DEF IsTable
<1>2. Cut(all) = [q \in D |-> all[q]] /\ DOMAIN Cut(all) = D
  BY DEF Cut, Restrict
<1>3. IsFiniteSet(S) /\ IsFiniteSet(D) /\ Cardinality(D) \in Nat /\ K \in Nat /\ K > 0
  BY TableFinite, PrefixIndexAssumption
<1>4. \A q \in S : IsFiniteSet(Ahead(all, q)) /\ Cardinality(Ahead(all, q)) \in Nat
  BY TableFinite DEF Ahead
<1>5. ASSUME NEW q \in D, NEW r \in S \ D PROVE Before(q, all[q], r, all[r])
  <2>1. SUFFICES ASSUME ~ Before(q, all[q], r, all[r]) PROVE FALSE
    OBVIOUS
  <2>2. r \in Ahead(all, q)
    BY <2>1, <1>1, <1>5, BeforeOrder DEF Ahead
  <2>3. Ahead(all, r) \subseteq Ahead(all, q)
    BY <2>2, <1>5, AheadOrder
  <2>4. Cardinality(Ahead(all, r)) <= Cardinality(Ahead(all, q))
    BY <2>3, <1>4, FS_Subset
  <2> QED
    BY <2>4, <1>4, <1>5, <1>3
<1>6. Cardinality(D) <= K
  <2>1. CASE D = {}
    BY <2>1, <1>3, FS_EmptySet
  <2>2. CASE D # {}
    <3> DEFINE t == [q \in D |-> all[q]]
    <3>1. IsTable(t) /\ DOMAIN t = D
      BY <1>1 DEF IsTable
    <3>2. PICK w \in D : \A x \in D \ {w} : Before(x, all[x], w, all[w])
      <4>1. \A x \in D : t[x] = all[x]
        OBVIOUS
      <4>2. Worst(t) \in D /\ \A r \in D \ {Worst(t)} : Before(r, t[r], Worst(t), t[Worst(t)])
        BY <3>1, <2>2, WorstIsLast
      <4> QED
        BY <4>1, <4>2
    <3>3. D \ {w} \subseteq Ahead(all, w)
      BY <3>2 DEF Ahead
    <3>4. Cardinality(D \ {w}) = Cardinality(D) - 1
      BY <1>3, FS_RemoveElement
    <3>5. Cardinality(D \ {w}) <= Cardinality(Ahead(all, w))
      BY <3>3, <1>4, FS_Subset
    <3> QED
      BY <3>4, <3>5, <1>3, <1>4
  <2> QED
    BY <2>1, <2>2
<1>7. ASSUME D # S PROVE Cardinality(D) = K
  <2>1. PICK f \in S \ D : \A x \in (S \ D) \ {f} : Before(f, all[f], x, all[x])
    BY <1>7, FirstExists
  <2>2. Ahead(all, f) \subseteq D
    <3>1. ASSUME NEW r \in Ahead(all, f), r \notin D PROVE FALSE
      <4>1. r \in S /\ Before(r, all[r], f, all[f])
        BY DEF Ahead
      <4>2. r # f
        BY <4>1, <1>1, <2>1, BeforeOrder
      <4> QED
        BY <4>1, <4>2, <3>1, <2>1, <1>1, BeforeOrder
    <3> QED
      BY <3>1
  <2>3. Cardinality(Ahead(all, f)) <= Cardinality(D)
    BY <2>2, <1>3, FS_Subset
  <2>4. Cardinality(Ahead(all, f)) >= K
    BY <2>1, <1>4, <1>3
  <2> QED
    BY <2>3, <2>4, <1>6, <1>4, <1>3
<1> QED
  BY <1>2, <1>5, <1>6, <1>7 DEF IsBest

--------------------------------------------------------------------------------
(* One upsert keeps one list                                               *)

LEMMA UpsertKeeps ==
    ASSUME NEW all, IsTable(all), NEW list, IsBest(list, all),
           NEW q \in Queries, NEW c \in Nat,
           q \in DOMAIN all => c >= all[q]
    PROVE  IsBest(UpsertNode(list, q, c), With(all, q, c))
<1> DEFINE D == DOMAIN list
           S == DOMAIN all
           new == With(all, q, c)
           w == Worst(list)
<1>1. \A r \in S : r \in Queries /\ all[r] \in Nat
  BY DEF IsTable
<1>2. D \subseteq S /\ IsFiniteSet(D) /\ Cardinality(D) \in Nat /\ K \in Nat /\ K > 0
  BY TableFinite, PrefixIndexAssumption DEF IsBest
<1>3. /\ \A r \in D : list[r] = all[r]
      /\ Cardinality(D) <= K
      /\ \A x \in D, r \in S \ D : Before(x, all[x], r, all[r])
      /\ D # S => Cardinality(D) = K
  BY DEF IsBest
<1>4. DOMAIN new = S \union {q} /\ \A r \in S \union {q} : new[r] = IF r = q THEN c ELSE all[r]
  BY DEF With
<1>5. CASE q \in D
  <2>1. UpsertNode(list, q, c) = [r \in D |-> IF r = q THEN c ELSE list[r]]
    BY <1>5 DEF UpsertNode, With
  <2>2. \A r \in D : (IF r = q THEN c ELSE list[r]) = new[r]
    BY <1>2, <1>3, <1>4
  <2>3. S \union {q} = S
    BY <1>5, <1>2
  <2>4. ASSUME NEW x \in D, NEW r \in S \ D PROVE Before(x, new[x], r, new[r])
    <3>1. Before(x, all[x], r, all[r]) /\ new[r] = all[r]
      BY <1>3, <1>4, <1>5, <2>4
    <3>2. CASE x # q
      BY <3>1, <3>2, <1>4, <1>2
    <3>3. CASE x = q
      <4>1. all[x] \in Nat /\ all[r] \in Nat /\ c >= all[x] /\ new[x] = c
        BY <1>1, <1>2, <1>4, <3>3
      <4> QED
        BY <3>1, <4>1 DEF Before
    <3> QED
      BY <3>2, <3>3
  <2> HIDE DEF new
  <2>5. DOMAIN UpsertNode(list, q, c) = D
    BY <2>1
  <2>6. UpsertNode(list, q, c) = [r \in D |-> new[r]]
    BY <2>1, <2>2
  <2> QED
    BY <2>3, <2>4, <2>5, <2>6, <1>2, <1>3, <1>4 DEF IsBest, new
<1>6. CASE q \notin D /\ Cardinality(D) < K
  <2>1. D = S
    BY <1>6, <1>2, <1>3
  <2>2. ~ (Cardinality(D) >= K)
    BY <1>6, <1>2
  <2>3. UpsertNode(list, q, c) = With(list, q, c)
    BY <2>2 DEF UpsertNode
  <2>4. list = all
    BY <2>1 DEF IsBest, IsTable
  <2>5. Cardinality(D \union {q}) = Cardinality(D) + 1
    BY <1>6, <1>2, FS_AddElement
  <2>6. Cardinality(DOMAIN new) <= K
    BY <2>5, <2>1, <1>4, <1>6, <1>2
  <2>7. new = [r \in DOMAIN new |-> new[r]]
    BY DEF With
  <2> HIDE DEF new
  <2>8. IsBest(new, new)
    BY <2>6, <2>7 DEF IsBest
  <2> QED
    BY <2>3, <2>4, <2>8 DEF new
<1>7. CASE q \notin D /\ ~ (Cardinality(D) < K)
  <2>1. Cardinality(D) = K /\ Cardinality(D) >= K /\ D # {}
    BY <1>7, <1>2, <1>3, FS_EmptySet
  <2>2. IsTable(list)
    BY <1>1, <1>2 DEF IsTable, IsBest
  <2>3. w \in D /\ \A r \in D \ {w} : Before(r, all[r], w, all[w])
    BY <2>1, <2>2, <1>3, WorstIsLast
  <2>4. list[w] = all[w]
    BY <2>3, <1>3
  <2>5. w \in S /\ w # q /\ w \in Queries /\ all[w] \in Nat /\ new[w] = all[w]
    BY <2>3, <1>1, <1>2, <1>4, <1>7
  <2>6. CASE Before(q, c, w, all[w])
    <3> DEFINE E == (D \ {w}) \union {q}
    <3>1. UpsertNode(list, q, c) = With(Restrict(list, D \ {w}), q, c)
      BY <2>1, <2>4, <2>6, <1>7 DEF UpsertNode
    <3>2. With(Restrict(list, D \ {w}), q, c)
            = [r \in E |-> IF r = q THEN c ELSE Restrict(list, D \ {w})[r]]
      BY DEF With, Restrict
    <3>3. \A r \in E : (IF r = q THEN c ELSE Restrict(list, D \ {w})[r]) = new[r]
      BY <1>2, <1>3, <1>4 DEF Restrict
    <3>4. UpsertNode(list, q, c) = [r \in E |-> new[r]]
      BY <3>1, <3>2, <3>3
    <3>5. Cardinality(E) = K
      <4>1. IsFiniteSet(D \ {w}) /\ Cardinality(D \ {w}) = K - 1
        BY <2>1, <2>3, <1>2, FS_RemoveElement
      <4>2. q \notin D \ {w}
        BY <1>7
      <4>3. Cardinality((D \ {w}) \union {q}) = Cardinality(D \ {w}) + 1
        BY <4>1, <4>2, FS_AddElement, Zenon
      <4> QED
        BY <4>1, <4>3, <1>2
    <3>6. E \subseteq S \union {q}
      BY <1>2
    <3>7. ASSUME NEW x \in E, NEW r \in (S \union {q}) \ E
          PROVE  Before(x, new[x], r, new[r])
      <4>1. r \in S /\ r # q /\ new[r] = all[r] /\ (r = w \/ r \notin D)
        BY <3>7, <1>4
      <4>2. r # w => Before(w, all[w], r, all[r])
        BY <4>1, <2>3, <1>3
      <4>3. Before(x, new[x], w, all[w])
        <5>1. CASE x = q
          BY <5>1, <2>6, <1>4
        <5>2. CASE x # q
          <6>1. x \in D \ {w} /\ new[x] = all[x]
            BY <3>7, <5>2, <1>4, <1>2
          <6> QED
            BY <6>1, <2>3
        <5> QED
          BY <5>1, <5>2
      <4>4. x \in Queries /\ new[x] \in Nat
        BY <3>7, <1>1, <1>2, <1>4
      <4> QED
        BY <4>1, <4>2, <4>3, <4>4, <2>5, <1>1, BeforeOrder
    <3> HIDE DEF new, E
    <3>8. DOMAIN UpsertNode(list, q, c) = E
      BY <3>4
    <3> DEFINE U == UpsertNode(list, q, c)
    <3>9. DOMAIN U = E /\ U = [r \in E |-> new[r]] /\ DOMAIN new = S \union {q}
      BY <3>4, <3>8, <1>4
    <3> HIDE DEF U
    <3>10. U = [r \in DOMAIN U |-> new[r]]
      BY <3>9
    <3>11. IsBest(U, new)
      BY <3>5, <3>6, <3>7, <3>9, <3>10, <1>2 DEF IsBest
    <3> QED
      BY <3>11 DEF U, new
  <2>7. CASE ~ Before(q, c, w, all[w])
    <3>1. UpsertNode(list, q, c) = list
      BY <2>1, <2>4, <2>7, <1>7 DEF UpsertNode
    <3>2. Before(w, all[w], q, c)
      BY <2>5, <2>7, BeforeOrder
    <3>3. ASSUME NEW x \in D, NEW r \in (S \union {q}) \ D
          PROVE  Before(x, new[x], r, new[r])
      <4>1. new[x] = all[x] /\ x \in Queries /\ all[x] \in Nat
        BY <3>3, <1>1, <1>2, <1>4, <1>7
      <4>2. CASE r # q
        BY <4>1, <4>2, <3>3, <1>3, <1>4
      <4>3. CASE r = q
        <5>1. x = w \/ Before(x, all[x], w, all[w])
          BY <2>3
        <5> QED
          BY <5>1, <4>1, <4>3, <3>2, <2>5, <1>4, BeforeOrder
      <4> QED
        BY <4>2, <4>3
    <3>4. list = [r \in D |-> new[r]]
      BY <1>2, <1>4, <1>7 DEF IsBest
    <3> HIDE DEF new
    <3>5. IsBest(list, new)
      BY <3>3, <3>4, <2>1, <1>2, <1>4 DEF IsBest
    <3> QED
      BY <3>1, <3>5 DEF new
  <2> QED
    BY <2>6, <2>7
<1> QED
  BY <1>5, <1>6, <1>7

--------------------------------------------------------------------------------
(* The steps of the index                                                  *)

LEMMA BelowTable ==
    ASSUME IsTable(word), NEW p \in Nodes
    PROVE  /\ IsTable(Below(p))
           /\ DOMAIN Below(p) = DOMAIN word \intersect Under[p]
           /\ \A q \in DOMAIN Below(p) : Below(p)[q] = word[q]
BY DEF Below, IsTable, Restrict

\* Cutting the lists of the children is enough: what a child has left out is
\* beaten by as many of its own entries as the node can keep.
LEMMA BuildBest ==
    ASSUME IndexInv, NEW p \in Nodes, Children[p] \subseteq built
    PROVE  IsBest(Cut(Candidates(p)), Below(p))
<1> DEFINE C == (DOMAIN word \intersect {p}) \union UNION {DOMAIN top[c] : c \in Children[p]}
           S == DOMAIN word \intersect Under[p]
           L == Cut(Candidates(p))
           D == DOMAIN L
<1>1. \A q \in DOMAIN word : q \in Queries /\ word[q] \in Nat
  BY DEF IndexInv, IsTable
<1>2. \A c \in Children[p] : /\ c \in Nodes /\ Under[c] \subseteq Under[p]
                             /\ IsBest(top[c], Below(c))
  <2>1. Under[p] = (Queries \intersect {p}) \union UNION {Under[c] : c \in Children[p]}
    BY PrefixIndexAssumption
  <2>2. \A c \in Children[p] : Under[c] \subseteq Under[p]
    BY <2>1
  <2> QED
    BY <2>2 DEF IndexInv
<1>3. ASSUME NEW c \in Children[p]
      PROVE  /\ DOMAIN top[c] \subseteq DOMAIN word \intersect Under[c]
             /\ \A q \in DOMAIN top[c], r \in (DOMAIN word \intersect Under[c]) \ DOMAIN top[c] :
                   Before(q, word[q], r, word[r])
             /\ DOMAIN top[c] # DOMAIN word \intersect Under[c]
                   => Cardinality(DOMAIN top[c]) = K
  <2>1. /\ DOMAIN Below(c) = DOMAIN word \intersect Under[c]
        /\ \A q \in DOMAIN Below(c) : Below(c)[q] = word[q]
    BY <1>2, BelowTable DEF IndexInv
  <2>2. IsBest(top[c], Below(c))
    BY <1>2
  <2> QED
    BY <2>1, <2>2 DEF IsBest
<1>4. C \subseteq S
  <2>1. DOMAIN word \intersect {p} \subseteq Under[p]
    BY <1>1, PrefixIndexAssumption
  <2> QED
    BY <1>2, <1>3, <2>1
<1>5. /\ Candidates(p) = [q \in C |-> word[q]]
      /\ IsTable(Candidates(p)) /\ DOMAIN Candidates(p) = C
  BY <1>1, <1>4 DEF Candidates, Restrict, IsTable
<1>6. IsBest(L, Candidates(p))
  BY <1>5, CutIsBest
<1>7. /\ D \subseteq C
      /\ L = [q \in D |-> word[q]]
      /\ Cardinality(D) <= K
      /\ \A q \in D, r \in C \ D : Before(q, word[q], r, word[r])
      /\ D # C => Cardinality(D) = K
  <2>1. D \subseteq C
    BY <1>5, <1>6 DEF IsBest
  <2>2. L = [q \in D |-> Candidates(p)[q]]
    BY <1>6 DEF IsBest
  <2>3. \A q \in C : Candidates(p)[q] = word[q]
    BY <1>5
  <2>4. L = [q \in D |-> word[q]]
    BY <2>1, <2>2, <2>3
  <2> QED
    BY <1>5, <1>6, <2>1, <2>3, <2>4 DEF IsBest
<1>8. IsFiniteSet(D) /\ IsFiniteSet(C) /\ Cardinality(D) \in Nat /\ Cardinality(C) \in Nat
  BY <1>4, <1>7, TableFinite DEF IndexInv
<1>9. \A r \in S \ C : \E c \in Children[p] : r \in (DOMAIN word \intersect Under[c]) \ DOMAIN top[c]
  BY PrefixIndexAssumption
<1>14. K \in Nat
  BY PrefixIndexAssumption
<1> HIDE DEF L
<1>10. ASSUME NEW q \in D, NEW r \in S \ D PROVE Before(q, word[q], r, word[r])
  <2>1. CASE r \in C
    BY <2>1, <1>7, <1>10
  <2>2. CASE r \notin C
    <3>1. PICK c \in Children[p] : r \in (DOMAIN word \intersect Under[c]) \ DOMAIN top[c]
      BY <1>9, <1>10, <2>2
    <3>2. /\ Cardinality(DOMAIN top[c]) = K
          /\ \A x \in DOMAIN top[c] : Before(x, word[x], r, word[r])
      BY <1>3, <3>1
    <3>3. DOMAIN top[c] \subseteq C
      OBVIOUS
    <3>4. CASE DOMAIN top[c] \subseteq D
      <4>1. DOMAIN top[c] = D
        <5>1. Cardinality(DOMAIN top[c]) <= Cardinality(D)
          BY <3>4, <1>8, FS_Subset
        <5>2. Cardinality(DOMAIN top[c]) = Cardinality(D)
          BY <5>1, <3>2, <1>7, <1>8, <1>14
        <5> QED
          BY <5>2, <3>4, <1>8, FS_Subset
      <4> QED
        BY <4>1, <3>2
    <3>5. CASE ~ (DOMAIN top[c] \subseteq D)
      <4>1. PICK y \in DOMAIN top[c] : y \notin D
        BY <3>5
      <4>2. Before(q, word[q], y, word[y]) /\ Before(y, word[y], r, word[r])
        BY <4>1, <3>2, <3>3, <1>7
      <4>3. {q, y, r} \subseteq DOMAIN word
        BY <4>1, <3>3, <1>4, <1>7, <1>10
      <4> QED
        BY <4>2, <4>3, <1>1, BeforeOrder
    <3> QED
      BY <3>4, <3>5
  <2> QED
    BY <2>1, <2>2
<1>11. ASSUME D # S PROVE Cardinality(D) = K
  <2>1. CASE D # C
    BY <2>1, <1>7
  <2>2. CASE D = C
    <3>1. PICK r \in S : r \notin C
      BY <2>2, <1>4, <1>11
    <3>2. PICK c \in Children[p] : Cardinality(DOMAIN top[c]) = K
      BY <3>1, <1>9, <1>3
    <3>3. DOMAIN top[c] \subseteq C
      OBVIOUS
    <3>4. Cardinality(DOMAIN top[c]) <= Cardinality(D)
      BY <3>3, <2>2, <1>8, FS_Subset
    <3> QED
      BY <3>2, <3>4, <1>7, <1>8, <1>14
  <2> QED
    BY <2>1, <2>2
<1>12. /\ DOMAIN Below(p) = S
       /\ \A q \in S : Below(p)[q] = word[q]
  BY BelowTable DEF IndexInv
<1>13. D \subseteq S /\ L = [q \in D |-> Below(p)[q]]
  BY <1>4, <1>7, <1>12
<1> QED
  BY <1>7, <1>10, <1>11, <1>12, <1>13 DEF IsBest, L

LEMMA InitIndex == Init => IndexInv
BY PrefixIndexAssumption DEF Init, IndexInv, None, IsTable, CountOf

LEMMA BuildTopIndex ==
    ASSUME IndexInv, NEW p \in Nodes, BuildTop(p)
    PROVE  IndexInv'
<1>1. /\ top' = [top EXCEPT ![p] = Cut(Candidates(p))] /\ built' = built \union {p}
      /\ word' = word /\ todo' = todo
  BY DEF BuildTop
<1>2. IsBest(Cut(Candidates(p)), Below(p))
  BY BuildBest DEF BuildTop
<1>3. top' = [x \in Nodes |-> IF x = p THEN Cut(Candidates(p)) ELSE top[x]]
  BY <1>1, Zenon DEF IndexInv
<1>4. \A x \in built' : IsBest(top'[x], Below(x))
  BY <1>1, <1>2, <1>3 DEF IndexInv
<1>5. top' = [x \in Nodes |-> top'[x]] /\ built' \subseteq Nodes
  BY <1>1, <1>3 DEF IndexInv
<1>6. (Below(p))' = Below(p) /\ \A x : Below(x)' = Below(x)
  BY <1>1 DEF Below
<1> QED
  BY <1>1, <1>4, <1>5, <1>6 DEF IndexInv, CountOf

LEMMA PostApplyIndex ==
    ASSUME IndexInv, NEW counts, IsTable(counts), PostApply(counts)
    PROVE  IndexInv'
<1>1. /\ word' = word /\ top' = top /\ built' = built /\ todo' = counts
      /\ \A q \in DOMAIN counts : counts[q] >= CountOf(q)
  BY DEF PostApply
<1>2. \A x : Below(x)' = Below(x)
  BY <1>1 DEF Below
<1> QED
  BY <1>1, <1>2 DEF IndexInv, CountOf

LEMMA ReloadIndex ==
    ASSUME IndexInv, NEW table, IsTable(table), Reload(table)
    PROVE  IndexInv'
BY DEF IndexInv, Reload, None, IsTable, CountOf

LEMMA UpsertIndex ==
    ASSUME IndexInv, NEW q \in Queries, Upsert(q)
    PROVE  IndexInv'
<1> DEFINE c == todo[q]
<1>1. /\ built = Nodes /\ built' = built /\ q \in DOMAIN todo
      /\ word' = With(word, q, c)
      /\ top' = [p \in Nodes |-> IF q \in Under[p] THEN UpsertNode(top[p], q, c) ELSE top[p]]
      /\ todo' = Restrict(todo, DOMAIN todo \ {q})
  BY DEF Upsert, Ready
<1>2. c \in Nat /\ (q \in DOMAIN word => c >= word[q])
  BY <1>1 DEF IndexInv, IsTable, CountOf
<1>3. IsTable(word') /\ IsTable(todo')
  BY <1>1, <1>2 DEF IndexInv, IsTable, With, Restrict
<1>4. ASSUME NEW p \in Nodes PROVE IsBest(top'[p], Below(p)')
  <2>1. IsBest(top[p], Below(p)) /\ IsTable(Below(p))
    BY <1>1, BelowTable DEF IndexInv
  <2>2. CASE q \in Under[p]
    <3>1. Below(p)' = With(Below(p), q, c)
      BY <1>1, <2>2 DEF Below, With, Restrict
    <3>2. q \in DOMAIN Below(p) => c >= Below(p)[q]
      BY <1>2, BelowTable DEF IndexInv
    <3>3. top'[p] = UpsertNode(top[p], q, c)
      BY <1>1, <2>2
    <3> QED
      BY <3>1, <3>2, <3>3, <2>1, <1>2, UpsertKeeps
  <2>3. CASE q \notin Under[p]
    <3>1. Below(p)' = Below(p)
      BY <1>1, <2>3 DEF Below, With, Restrict
    <3> QED
      BY <3>1, <2>1, <2>3, <1>1
  <2> QED
    BY <2>2, <2>3
<1>5. \A r \in DOMAIN todo' : todo'[r] >= CountOf(r)'
  <2>1. \A r \in DOMAIN todo' : r # q /\ r \in DOMAIN todo /\ todo'[r] = todo[r]
    BY <1>1 DEF Restrict
  <2>2. \A r : r # q => CountOf(r)' = CountOf(r)
    BY <1>1 DEF CountOf, With
  <2> QED
    BY <2>1, <2>2 DEF IndexInv
<1> QED
  BY <1>1, <1>3, <1>4, <1>5 DEF IndexInv

LEMMA IndexStutter ==
    ASSUME IndexInv, UNCHANGED indexVars
    PROVE  IndexInv'
<1>1. word' = word /\ top' = top /\ built' = built /\ todo' = todo
  BY DEF indexVars
<1>2. \A x : Below(x)' = Below(x)
  BY <1>1 DEF Below
<1> QED
  BY <1>1, <1>2 DEF IndexInv, CountOf

LEMMA IndexExact == IndexInv => ListsExact
<1> SUFFICES ASSUME IndexInv, NEW p \in built PROVE top[p] = Cut(Below(p))
  BY DEF ListsExact, Below
<1>1. IsTable(Below(p)) /\ IsBest(top[p], Below(p))
  BY BelowTable DEF IndexInv
<1> QED
  BY <1>1, BestIsCut

--------------------------------------------------------------------------------
(* Theorems                                                                *)

\* The index alone: from every table it may load, for every batch of counts
\* that grow, the list of every node is at all times the K best of its subtree.
THEOREM IndexListsExact == Spec => []ListsExact
<1>1. IndexInv /\ [Next]_indexVars => IndexInv'
  <2> SUFFICES ASSUME IndexInv, [Next]_indexVars PROVE IndexInv'
    OBVIOUS
  <2>1. CASE UNCHANGED indexVars
    BY <2>1, IndexStutter
  <2>2. ASSUME NEW p \in Nodes, BuildTop(p) PROVE IndexInv'
    BY <2>2, BuildTopIndex
  <2>3. ASSUME NEW q \in Queries, Upsert(q) PROVE IndexInv'
    BY <2>3, UpsertIndex
  <2>4. ASSUME NEW some \in SUBSET Queries, NEW table \in [some -> Nat],
               PostApply(table) \/ Reload(table)
        PROVE  IndexInv'
    <3>1. IsTable(table)
      BY DEF IsTable
    <3> QED
      BY <2>4, <3>1, PostApplyIndex, ReloadIndex
  <2> QED
    BY <2>1, <2>2, <2>3, <2>4 DEF Next
<1> QED
  BY <1>1, InitIndex, IndexExact, PTL DEF Spec

PendingType == pending \in [Queries -> Nat] /\ batch \in [Queries -> Nat]

\* What a crash leaves for recover to replay are counts, whether or not the
\* batch in flight had been committed.
LEMMA RestartCounts ==
    ASSUME IndexInv, PendingType, Restart
    PROVE  /\ IndexInv'
           /\ pending' = Zero
           /\ \A q \in Queries : batch'[q] \in Nat /\ batch'[q] <= pending[q] + batch[q]
           /\ batch' = [q \in Queries |-> batch'[q]]
<1>1. /\ DOMAIN word \subseteq Queries /\ DOMAIN todo \subseteq Queries
      /\ \A q \in Queries : CountOf(q) \in Nat
      /\ \A q \in DOMAIN todo : todo[q] \in Nat
      /\ \A q \in Queries : pending[q] \in Nat /\ batch[q] \in Nat
  BY DEF IndexInv, IsTable, CountOf, PendingType
<1>2. PICK committed \in {Zero, batch} :
          /\ Reload(StoredRows(committed))
          /\ batch' = [q \in Queries |-> pending[q] + batch[q] - committed[q]]
  BY DEF Restart
<1>3. \A q \in Queries : committed[q] \in Nat /\ committed[q] <= batch[q]
  BY <1>1, <1>2 DEF Zero
<1>4. IsTable(StoredRows(committed))
  BY <1>1, <1>3 DEF IsTable, StoredRows
<1> QED
  BY <1>1, <1>2, <1>3, <1>4, ReloadIndex DEF Restart

LEMMA IndexAndPending ==
    IndexInv /\ PendingType /\ [RankingNext]_vars => IndexInv' /\ PendingType'
<1> SUFFICES ASSUME IndexInv, PendingType, [RankingNext]_vars
             PROVE  IndexInv' /\ PendingType'
  OBVIOUS
<1>1. /\ \A q \in Queries : CountOf(q) \in Nat
      /\ \A q \in Queries : pending[q] \in Nat /\ batch[q] \in Nat
      /\ Zero \in [Queries -> Nat]
  BY DEF IndexInv, IsTable, CountOf, PendingType, Zero
<1>2. CASE UNCHANGED <<indexVars, pending, batch>>
  BY <1>2, IndexStutter DEF PendingType
<1>3. ASSUME NEW q \in Queries, Search(q) PROVE IndexInv' /\ PendingType'
  BY <1>3, <1>1, IndexStutter DEF Search, PendingType
<1>4. CASE StartFlush
  BY <1>4, <1>1, IndexStutter DEF StartFlush, PendingType
<1>5. CASE ApplyError
  BY <1>5, <1>1, IndexStutter DEF ApplyError, PendingType, Plus
<1>6. CASE Publish
  <2>1. IsTable(NewCounts)
    BY <1>1 DEF IsTable, NewCounts
  <2> QED
    BY <1>6, <1>1, <2>1, PostApplyIndex DEF Publish, PendingType
<1>7. CASE IndexStep
  BY <1>7, BuildTopIndex, UpsertIndex DEF IndexStep, PendingType
<1>8. CASE Restart
  <2>1. /\ IndexInv' /\ pending' = Zero
        /\ batch' = [q \in Queries |-> batch'[q]]
        /\ \A q \in Queries : batch'[q] \in Nat
    BY <1>8, RestartCounts
  <2> QED
    BY <1>1, <2>1 DEF PendingType
<1> QED
  BY <1>2, <1>3, <1>4, <1>5, <1>6, <1>7, <1>8
  DEF RankingNext, Serve, TimePasses, vars

\* The index between searches, flushes, time and restarts: the lists stay
\* exact, for every number of searches and every capacity.
THEOREM RankingListsExact == RankingSpec => []ListsExact
<1> DEFINE RInv == IndexInv /\ PendingType
<1>1. RankingInit => RInv
  BY InitIndex DEF RankingInit, PendingType, Zero
<1>2. RInv /\ [RankingNext]_vars => RInv'
  BY IndexAndPending
<1>3. RInv => ListsExact
  BY IndexExact
<1> QED
  BY <1>1, <1>2, <1>3, PTL DEF RankingSpec

\* The new counts on their way to the index are counts of something.
TodoPositive == \A q \in DOMAIN todo : todo[q] > 0

TrackedKnown == \A q \in Recency!Tracked :
                   CountOf(q) = 0 => Uncounted(q) > 0 \/ q \in DOMAIN todo

ZeroInv == /\ IndexInv
           /\ PendingType
           /\ TodoPositive
           /\ Recency!Tracked \subseteq Queries
           /\ TrackedKnown

\* A search makes at most its own query tracked, whatever the prune drops.
LEMMA RecordTracks ==
    ASSUME NEW q \in Queries, Recency!Record(q)
    PROVE  Recency!Tracked' \subseteq Recency!Tracked \union {q}
<1>1. CASE Recency!RecordAgain(q)
  BY <1>1 DEF Recency!RecordAgain, Recency!Tracked
<1>2. CASE Recency!RecordNew(q)
  <2> DEFINE most == Recency!Tracked \union {q}
  <2>1. Recency!Survivors(Recency!Current(q)) \subseteq SUBSET most
    BY DEF Recency!Survivors, Recency!Current, Recency!Put
  <2>2. PICK kept \in SUBSET most :
             Recency!Keep(kept, Recency!Put(score, q, Recency!Weight),
                          Recency!Put(updated, q, now))
    BY <1>2, <2>1 DEF Recency!RecordNew
  <2>3. DOMAIN score' = kept
    BY <2>2 DEF Recency!Keep, Recency!Restrict
  <2> QED
    BY <2>2, <2>3 DEF Recency!Tracked
<1> QED
  BY <1>1, <1>2 DEF Recency!Record

\* A query in the trending panel has a count, or a search of it waits for a flush
\* or is in its transaction, or the flush is just being applied.
THEOREM ZeroOnlyWhenNew == RankingSpec => []ZeroCountIsNew
<1>1. RankingInit => ZeroInv
  BY InitIndex DEF RankingInit, Init, Recency!Init, Recency!Nothing, None, PendingType,
                   Zero, ZeroInv, TodoPositive, TrackedKnown, Recency!Tracked
<1>2. ZeroInv /\ [RankingNext]_vars => ZeroInv'
  <2> SUFFICES ASSUME ZeroInv, [RankingNext]_vars, IndexInv', PendingType'
               PROVE  /\ TodoPositive' /\ Recency!Tracked' \subseteq Queries
                      /\ TrackedKnown'
    BY IndexAndPending DEF ZeroInv
  <2>1. \A q \in Queries : /\ CountOf(q) \in Nat /\ pending[q] \in Nat /\ batch[q] \in Nat
                           /\ Uncounted(q) = pending[q] + batch[q]
    BY DEF ZeroInv, IndexInv, IsTable, CountOf, PendingType, Uncounted
  <2>2. CASE UNCHANGED <<word, todo, score>> /\ \A r \in Queries : Uncounted(r)' = Uncounted(r)
    BY <2>2 DEF ZeroInv, TodoPositive, TrackedKnown, CountOf, Recency!Tracked
  <2>3. ASSUME NEW q \in Queries, Search(q)
        PROVE  /\ TodoPositive' /\ Recency!Tracked' \subseteq Queries
               /\ TrackedKnown'
    <3>1. /\ word' = word /\ todo' = todo /\ batch' = batch
          /\ pending' = [pending EXCEPT ![q] = @ + 1]
          /\ Recency!Tracked' \subseteq Recency!Tracked \union {q}
      BY <2>3, RecordTracks DEF Search, indexVars
    <3>2. Uncounted(q)' > 0 /\ \A r \in Queries : Uncounted(r) > 0 => Uncounted(r)' > 0
      BY <3>1, <2>1 DEF ZeroInv, PendingType, Uncounted
    <3>3. \A r : CountOf(r)' = CountOf(r)
      BY <3>1 DEF CountOf
    <3> QED
      BY <3>1, <3>2, <3>3 DEF ZeroInv, TodoPositive, TrackedKnown
  <2>4. CASE StartFlush
    BY <2>1, <2>2, <2>4 DEF StartFlush, indexVars, recencyVars, Uncounted, Zero
  <2>5. CASE ApplyError
    BY <2>1, <2>2, <2>5 DEF ApplyError, indexVars, recencyVars, Uncounted, Zero, Plus
  <2>6. CASE Publish
    <3>1. /\ word' = word /\ todo = None /\ todo' = NewCounts /\ score' = score
          /\ pending' = pending
      BY <2>6 DEF Publish, PostApply, recencyVars
    <3>2. \A r : CountOf(r)' = CountOf(r)
      BY <3>1 DEF CountOf
    <3>3. \A r \in Queries : Uncounted(r) > 0 => Uncounted(r)' > 0 \/ r \in DOMAIN todo'
      <4>1. \A r \in Queries : batch[r] > 0 => r \in DOMAIN todo'
        BY <3>1 DEF NewCounts
      <4>2. \A r \in Queries : batch'[r] = 0
        BY <2>6 DEF Publish, Zero
      <4> QED
        BY <2>1, <3>1, <4>1, <4>2 DEF Uncounted
    <3>4. DOMAIN todo = {}
      BY <3>1 DEF None
    <3>5. \A r \in DOMAIN todo' : todo'[r] > 0
      BY <3>1, <2>1 DEF NewCounts
    <3> QED
      BY <3>1, <3>2, <3>3, <3>4, <3>5
      DEF ZeroInv, TodoPositive, TrackedKnown, Recency!Tracked
  <2>7. CASE IndexStep
    <3>1. score' = score /\ \A r : Uncounted(r)' = Uncounted(r)
      BY <2>7 DEF IndexStep, recencyVars, Uncounted
    <3>2. CASE \E p \in Nodes : BuildTop(p)
      BY <3>1, <3>2 DEF BuildTop, ZeroInv, TodoPositive, TrackedKnown, CountOf,
                        Recency!Tracked
    <3>3. ASSUME NEW q \in Queries, Upsert(q)
          PROVE  TodoPositive' /\ TrackedKnown'
      <4>1. /\ q \in DOMAIN todo /\ todo[q] > 0
            /\ word' = With(word, q, todo[q])
            /\ todo' = Restrict(todo, DOMAIN todo \ {q})
        BY <3>3 DEF Upsert, ZeroInv, TodoPositive
      <4>2. CountOf(q)' > 0 /\ \A r : r # q => CountOf(r)' = CountOf(r)
        BY <4>1 DEF CountOf, With
      <4>3. \A r : r # q => (r \in DOMAIN todo' <=> r \in DOMAIN todo)
        BY <4>1 DEF Restrict
      <4>4. \A r \in DOMAIN todo' : todo'[r] > 0
        BY <4>1 DEF Restrict, ZeroInv, TodoPositive
      <4> QED
        BY <3>1, <4>2, <4>3, <4>4 DEF ZeroInv, TodoPositive, TrackedKnown, Recency!Tracked
    <3> QED
      BY <2>7, <3>1, <3>2, <3>3 DEF IndexStep, ZeroInv, Recency!Tracked
  <2>8. CASE TimePasses
    BY <2>2, <2>8 DEF TimePasses, Recency!Tick, Recency!ClockBack, indexVars, Uncounted
  <2>9. CASE Restart
    BY <2>9 DEF Restart, Reload, None, Recency!Forget, Recency!Nothing, ZeroInv,
                TodoPositive, TrackedKnown, Recency!Tracked
  <2>10. CASE UNCHANGED <<indexVars, score, pending, batch>>
    BY <2>2, <2>10 DEF indexVars, Uncounted
  <2> QED
    BY <2>3, <2>4, <2>5, <2>6, <2>7, <2>8, <2>9, <2>10
    DEF RankingNext, Serve, recencyVars, vars
<1>3. ZeroInv => ZeroCountIsNew
  BY DEF ZeroInv, TrackedKnown, ZeroCountIsNew, Trending, Recency!Top
<1> QED
  BY <1>1, <1>2, <1>3, PTL DEF RankingSpec

--------------------------------------------------------------------------------
(* Half-lives: what Power computes, and halving one tick at a time         *)

\* Induction over the naturals, for sets: the smallest number outside of S would
\* follow one that is in S.
LEMMA Induction ==
    ASSUME NEW S \in SUBSET Nat, 0 \in S, \A n \in S : n + 1 \in S
    PROVE  S = Nat
<1> SUFFICES ASSUME S # Nat PROVE FALSE
  OBVIOUS
<1> DEFINE Rest == Nat \ S
<1>1. PICK m \in Rest : \A n \in Rest : ~ (<<n, m>> \in OpToRel(<, Nat))
  <2>1. Rest # {} /\ Rest \subseteq Nat
    OBVIOUS
  <2> HIDE DEF Rest
  <2> QED
    BY <2>1, WFMin, NatLessThanWellFounded, Zenon
<1>2. m # 0 /\ m - 1 \in Nat /\ m = (m - 1) + 1
  OBVIOUS
<1>3. m - 1 \notin S
  BY <1>1, <1>2
<1>4. m - 1 \in Rest /\ <<m - 1, m>> \in OpToRel(<, Nat)
  BY <1>1, <1>2, <1>3 DEF OpToRel
<1> QED
  BY <1>1, <1>4

\* The first n + 1 values of the recursion.
Begins(g, n) ==
    /\ g \in [0 .. n -> Nat \ {0}]
    /\ g[0] = 1
    /\ \A k \in 0 .. n : k # 0 => g[k] = 2 * g[k - 1]

\* For every n, the first values exist ...
LEMMA PowerBegins == \A n \in Nat : \E g : Begins(g, n)
<1> DEFINE S == {n \in Nat : \E g : Begins(g, n)}
<1>1. 0 \in S
  <2>1. Begins([k \in 0 .. 0 |-> 1], 0)
    BY DEF Begins
  <2> QED
    BY <2>1
<1>2. ASSUME NEW n \in S PROVE n + 1 \in S
  <2>1. PICK g : Begins(g, n)
    OBVIOUS
  <2> DEFINE h == [k \in 0 .. n + 1 |-> IF k = n + 1 THEN 2 * g[n] ELSE g[k]]
  <2>2. g[n] \in Nat \ {0} /\ 2 * g[n] \in Nat \ {0}
    BY <2>1 DEF Begins
  <2>3. \A k \in 0 .. n + 1 : k # n + 1 => k \in 0 .. n
    OBVIOUS
  <2>4. h \in [0 .. n + 1 -> Nat \ {0}] /\ h[0] = 1
    BY <2>1, <2>2, <2>3 DEF Begins
  <2>5. ASSUME NEW k \in 0 .. n + 1, k # 0 PROVE h[k] = 2 * h[k - 1]
    <3>1. k - 1 \in 0 .. n /\ k - 1 # n + 1 /\ h[k - 1] = g[k - 1]
      BY <2>5
    <3>2. CASE k = n + 1
      BY <3>1, <3>2
    <3>3. CASE k # n + 1
      BY <3>1, <3>3, <2>1, <2>3, <2>5 DEF Begins
    <3> QED
      BY <3>2, <3>3
  <2> HIDE DEF h
  <2>6. Begins(h, n + 1)
    BY <2>4, <2>5 DEF Begins
  <2> QED
    BY <2>6
<1> HIDE DEF S
<1>3. S \in SUBSET Nat
  BY DEF S
<1>4. S = Nat
  BY <1>1, <1>2, <1>3, Induction
<1> QED
  BY <1>4 DEF S

\* ... and there is one choice of them.
LEMMA BeginsAgree ==
    ASSUME NEW m \in Nat, NEW n \in Nat, NEW g, NEW h, Begins(g, m), Begins(h, n), m <= n
    PROVE  g[m] = h[m]
<1> DEFINE S == {k \in Nat : k <= m => g[k] = h[k]}
<1>1. 0 \in S
  BY DEF Begins
<1>2. ASSUME NEW k \in S PROVE k + 1 \in S
  <2> SUFFICES ASSUME k + 1 <= m PROVE g[k + 1] = h[k + 1]
    OBVIOUS
  <2>1. k + 1 \in 0 .. m /\ k + 1 \in 0 .. n /\ k + 1 # 0 /\ (k + 1) - 1 = k
    OBVIOUS
  <2>2. g[k + 1] = 2 * g[k] /\ h[k + 1] = 2 * h[k] /\ g[k] = h[k]
    BY <2>1 DEF Begins
  <2> QED
    BY <2>2
<1> HIDE DEF S
<1>3. S = Nat
  <2>1. S \in SUBSET Nat
    BY DEF S
  <2> QED
    BY <1>1, <1>2, <2>1, Induction
<1> QED
  BY <1>3 DEF S

\* Power is the function its recursive definition describes.
LEMMA PowerDoubles ==
    /\ \A n \in Nat : Recency!Power[n] \in Nat \ {0}
    /\ Recency!Power[0] = 1
    /\ \A n \in Nat : Recency!Power[n + 1] = 2 * Recency!Power[n]
<1> DEFINE first[n \in Nat] == CHOOSE g : Begins(g, n)
           G == [n \in Nat |-> first[n][n]]
<1>1. \A n \in Nat : Begins(first[n], n)
  BY PowerBegins
<1> HIDE DEF first
<1>2. ASSUME NEW n \in Nat PROVE G[n] \in Nat \ {0}
  BY <1>1 DEF Begins
<1>3. G[0] = 1
  BY <1>1 DEF Begins
<1>4. ASSUME NEW n \in Nat PROVE G[n + 1] = 2 * G[n]
  <2>1. Begins(first[n], n) /\ Begins(first[n + 1], n + 1) /\ n <= n + 1
    BY <1>1
  <2>2. first[n][n] = first[n + 1][n]
    BY <2>1, BeginsAgree
  <2>3. first[n + 1][n + 1] = 2 * first[n + 1][n]
    <3>1. n + 1 \in 0 .. n + 1 /\ n + 1 # 0 /\ (n + 1) - 1 = n
      OBVIOUS
    <3> QED
      BY <2>1, <3>1 DEF Begins
  <2> QED
    BY <2>2, <2>3
<1>5. G = [n \in Nat |-> IF n = 0 THEN 1 ELSE 2 * G[n - 1]]
  <2>1. ASSUME NEW n \in Nat PROVE G[n] = IF n = 0 THEN 1 ELSE 2 * G[n - 1]
    <3>1. CASE n = 0
      BY <3>1, <1>3
    <3>2. CASE n # 0
      <4>1. n - 1 \in Nat /\ n = (n - 1) + 1
        BY <3>2
      <4> QED
        BY <4>1, <3>2, <1>4
    <3> QED
      BY <3>1, <3>2
  <2>2. G = [n \in Nat |-> G[n]]
    OBVIOUS
  <2> HIDE DEF G
  <2> QED
    BY <2>1, <2>2, Zenon
<1> QED
  <2> HIDE DEF G
  <2>1. Recency!Power = [n \in Nat |-> IF n = 0 THEN 1 ELSE 2 * Recency!Power[n - 1]]
    BY <1>5, Zenon DEF Recency!Power
  <2>2. Recency!Power[0] = 1
    BY <2>1
  <2>3. ASSUME NEW n \in Nat PROVE Recency!Power[n + 1] = 2 * Recency!Power[n]
    <3>1. n + 1 \in Nat /\ n + 1 # 0 /\ (n + 1) - 1 = n
      OBVIOUS
    <3> QED
      BY <2>1, <3>1
  <2> DEFINE S == {n \in Nat : Recency!Power[n] \in Nat \ {0}}
  <2>4. 0 \in S /\ \A n \in S : n + 1 \in S
    BY <2>2, <2>3
  <2>5. S = Nat
    <3>1. S \in SUBSET Nat
      OBVIOUS
    <3> HIDE DEF S
    <3> QED
      BY <2>4, <3>1, Induction
  <2> QED
    BY <2>2, <2>3, <2>5

\* Halving once more at the next tick is halving by the next power.
LEMMA OneMoreTick ==
    ASSUME NEW v \in Nat, NEW n \in Nat
    PROVE  /\ v \div Recency!Power[n] \in Nat
           /\ (v \div Recency!Power[n]) \div 2 = v \div Recency!Power[n + 1]
<1>1. Recency!Power[n] \in Nat \ {0} /\ Recency!Power[n + 1] = 2 * Recency!Power[n]
  BY PowerDoubles
<1> DEFINE m == Recency!Power[n]
<1> HIDE DEF m
<1>2. m \in Nat \ {0} /\ Recency!Power[n + 1] = 2 * m /\ Recency!Power[n] = m
  BY <1>1 DEF m
<1>3. v \div m \in Nat /\ (v \div m) \div 2 = v \div (2 * m)
  BY <1>2
<1> QED
  BY <1>2, <1>3

LEMMA NoTicks == \A v \in Nat : v \div Recency!Power[0] = v
BY PowerDoubles

LEMMA WeightNat == Recency!Weight \in Nat \ {0}
BY PowerDoubles, RankingAssumption DEF Recency!Weight

--------------------------------------------------------------------------------
(* The tracker                                                             *)

\* The instance has its own name for the operator.
LEMMA SameCardinality == \A S : Recency!Cardinality(S) = Cardinality(S)
BY Zenon DEF Recency!Cardinality, Cardinality

TrackerInv ==
    /\ Recency!TrackerTypeOK
    /\ Recency!LazyDecayExact

LEMMA ScoreType ==
    ASSUME Recency!TrackerTypeOK, NEW q
    PROVE  /\ Recency!Score(q) \in Nat
           /\ q \in Recency!Tracked =>
                  /\ score[q] \in Nat /\ updated[q] \in 0 .. Horizon /\ now \in Nat
                  /\ Recency!Score(q) <= score[q]
                  /\ updated[q] <= now =>
                        Recency!Score(q) = score[q] \div Recency!Power[now - updated[q]]
                  /\ now <= updated[q] => Recency!Score(q) = score[q]
           /\ q \notin Recency!Tracked => Recency!Score(q) = 0
<1>1. q \in Recency!Tracked => /\ score[q] \in Nat /\ updated[q] \in 0 .. Horizon
                               /\ now \in Nat /\ Horizon \in Nat
  BY RankingAssumption DEF Recency!TrackerTypeOK
<1>2. ASSUME q \in Recency!Tracked, ~ (now <= updated[q])
      PROVE  /\ score[q] \div Recency!Power[now - updated[q]] \in Nat
             /\ score[q] \div Recency!Power[now - updated[q]] <= score[q]
  <2>1. now - updated[q] \in Nat
    BY <1>1, <1>2
  <2> DEFINE m == Recency!Power[now - updated[q]]
  <2>2. m \in Nat \ {0}
    BY <2>1, PowerDoubles
  <2> HIDE DEF m
  <2>3. \A v \in Nat : v \div m \in Nat /\ v \div m <= v
    BY <2>2
  <2> QED
    BY <1>1, <1>2, <2>3 DEF m
<1>3. ASSUME q \in Recency!Tracked, now <= updated[q], updated[q] <= now
      PROVE  score[q] \div Recency!Power[now - updated[q]] = score[q]
  <2>1. now - updated[q] = 0
    BY <1>1, <1>3
  <2> QED
    BY <1>1, <1>3, <2>1, NoTicks
<1>4. q \in Recency!Tracked =>
          Recency!Score(q) = IF now <= updated[q] THEN score[q]
                             ELSE score[q] \div Recency!Power[now - updated[q]]
  BY DEF Recency!Score, Recency!Decay
<1>5. q \notin Recency!Tracked => Recency!Score(q) = 0
  BY DEF Recency!Score
<1> QED
  BY <1>1, <1>2, <1>3, <1>4, <1>5

\* Whatever the clock does, decay raises no score.
NoneRaised == \A q \in Recency!Tracked : Recency!Score(q) <= score[q]

LEMMA ScoreBelow == Recency!TrackerTypeOK => NoneRaised
BY ScoreType DEF NoneRaised

LEMMA TrackedFinite ==
    ASSUME Recency!Tracked \subseteq Queries, NEW some \in SUBSET Recency!Tracked
    PROVE  IsFiniteSet(some) /\ Cardinality(some) \in Nat
<1>1. some \in SUBSET Queries
  OBVIOUS
<1> QED
  BY <1>1, PrefixIndexAssumption, FS_Subset, FS_CardinalityType

\* What a search of q leaves: the kept queries, q with the weight on top of its
\* score, the others with the scores they had.
Recorded(q) ==
    /\ Recency!Tracked' \subseteq Recency!Tracked \union {q}
    /\ Cardinality(Recency!Tracked') <= TrendingCapacity
    /\ score' \in [Recency!Tracked' -> Nat]
    /\ updated' \in [Recency!Tracked' -> 0 .. Horizon]
    /\ now' = now
    /\ exact' \in [DOMAIN exact' -> Nat]
    /\ Queries \ Recency!Tracked' \subseteq DOMAIN exact' /\ DOMAIN exact' \subseteq Queries
    /\ DOMAIN exact' \intersect Recency!Tracked' \subseteq DOMAIN exact
    /\ \A r \in Recency!Tracked' :
          IF r = q THEN /\ score'[q] = Recency!Score(q) + Recency!Weight
                        /\ updated'[q] = now
                        /\ q \in DOMAIN exact' => exact'[q] = exact[q] + Recency!Weight
                   ELSE /\ score'[r] = score[r] /\ updated'[r] = updated[r]
                        /\ r \in DOMAIN exact' => exact'[r] = exact[r]
    /\ \A r \in Queries \ Recency!Tracked' : exact'[r] = 0
    /\ q \notin Recency!Tracked' =>
          /\ Cardinality(Recency!Tracked') = TrendingCapacity
          /\ \A r \in Recency!Tracked' : Recency!Score(r) >= Recency!Score(q) + Recency!Weight

LEMMA RecordedAgain ==
    ASSUME TrackerInv, NEW q \in Queries, Recency!RecordAgain(q)
    PROVE  Recorded(q)
<1>1. /\ q \in Recency!Tracked
      /\ score' = [score EXCEPT ![q] = Recency!Score(q) + Recency!Weight]
      /\ updated' = [updated EXCEPT ![q] = now]
      /\ exact' = [r \in DOMAIN exact |-> exact[r] + (IF r = q THEN Recency!Weight ELSE 0)]
      /\ now' = now
  BY DEF Recency!RecordAgain
<1>2. /\ score \in [Recency!Tracked -> Nat] /\ updated \in [Recency!Tracked -> 0 .. Horizon]
      /\ exact \in [DOMAIN exact -> Nat] /\ now \in 0 .. Horizon
      /\ Queries \ Recency!Tracked \subseteq DOMAIN exact /\ DOMAIN exact \subseteq Queries
      /\ Cardinality(Recency!Tracked) <= TrendingCapacity
      /\ Recency!Score(q) \in Nat /\ Recency!Weight \in Nat
  <2>1. Recency!TrackerTypeOK
    BY DEF TrackerInv
  <2>2. Recency!Score(q) \in Nat /\ Recency!Weight \in Nat
    BY <2>1, ScoreType, WeightNat
  <2> QED
    BY <2>1, <2>2, SameCardinality DEF Recency!TrackerTypeOK
<1>3. Recency!Tracked' = Recency!Tracked /\ DOMAIN exact' = DOMAIN exact
  BY <1>1 DEF Recency!Tracked
<1>4. \A r \in DOMAIN exact : exact'[r] = IF r = q THEN exact[r] + Recency!Weight ELSE exact[r]
  BY <1>1, <1>2
<1>5. /\ score' \in [Recency!Tracked' -> Nat]
      /\ updated' \in [Recency!Tracked' -> 0 .. Horizon]
  BY <1>1, <1>2, <1>3
<1>6. exact' \in [DOMAIN exact' -> Nat]
  BY <1>1, <1>2, <1>3, <1>4
<1>7. \A r \in Recency!Tracked :
          IF r = q THEN /\ score'[q] = Recency!Score(q) + Recency!Weight
                        /\ updated'[q] = now
                        /\ q \in DOMAIN exact' => exact'[q] = exact[q] + Recency!Weight
                   ELSE /\ score'[r] = score[r] /\ updated'[r] = updated[r]
                        /\ r \in DOMAIN exact' => exact'[r] = exact[r]
  BY <1>1, <1>2, <1>3, <1>4
<1>8. \A r \in Queries \ Recency!Tracked : exact'[r] = 0
  <2>1. \A r \in Queries \ Recency!Tracked : exact[r] = 0
    BY <1>2, ScoreType DEF TrackerInv, Recency!LazyDecayExact
  <2> QED
    BY <1>1, <1>2, <1>4, <2>1
<1> QED
  BY <1>1, <1>2, <1>3, <1>5, <1>6, <1>7, <1>8 DEF Recorded

LEMMA RecordedNew ==
    ASSUME TrackerInv, NEW q \in Queries, Recency!RecordNew(q)
    PROVE  Recorded(q)
<1> DEFINE most == Recency!Tracked \union {q}
           current == Recency!Current(q)
<1>1. /\ score \in [Recency!Tracked -> Nat] /\ updated \in [Recency!Tracked -> 0 .. Horizon]
      /\ exact \in [DOMAIN exact -> Nat] /\ now \in 0 .. Horizon
      /\ Queries \ Recency!Tracked \subseteq DOMAIN exact /\ DOMAIN exact \subseteq Queries
      /\ Recency!Weight \in Nat
      /\ q \notin Recency!Tracked /\ Recency!Score(q) = 0
      /\ q \in DOMAIN exact /\ exact[q] = 0
      /\ \A r \in Recency!Tracked : Recency!Score(r) \in Nat
      /\ Recency!Tracked \subseteq Queries
  BY ScoreType, WeightNat, RankingAssumption
  DEF TrackerInv, Recency!TrackerTypeOK, Recency!LazyDecayExact, Recency!RecordNew
<1>2. PICK kept \in IF Cardinality(most) > TrendingCapacity
                   THEN Recency!Survivors(current) ELSE {most} :
          /\ Recency!Keep(kept, Recency!Put(score, q, Recency!Weight),
                           Recency!Put(updated, q, now))
          /\ exact' = [r \in DOMAIN exact \union (Queries \ kept) |->
                          IF r \in kept THEN Recency!Put(exact, q, Recency!Weight)[r] ELSE 0]
  BY SameCardinality DEF Recency!RecordNew
<1>13. exact' = [r \in DOMAIN exact \union (Queries \ kept) |->
                  IF r \in kept THEN IF r = q THEN Recency!Weight ELSE exact[r] ELSE 0]
  <2>1. \A r \in (DOMAIN exact \union (Queries \ kept)) \intersect kept :
            Recency!Put(exact, q, Recency!Weight)[r]
                = IF r = q THEN Recency!Weight ELSE exact[r]
    BY <1>1 DEF Recency!Put
  <2> QED
    BY <1>2, <2>1
<1>3. IsFiniteSet(most) /\ Cardinality(most) \in Nat
  BY <1>1, PrefixIndexAssumption, FS_Subset, FS_CardinalityType
<1>12. current = [r \in most |-> IF r = q THEN Recency!Weight ELSE Recency!Score(r)]
  BY <1>1 DEF Recency!Current, Recency!Put
<1>4. /\ kept \in SUBSET most
      /\ Cardinality(kept) <= TrendingCapacity
      /\ q \notin kept => /\ Cardinality(kept) = TrendingCapacity
                         /\ \A r \in kept : current[r] >= current[q]
  <2>1. CASE Cardinality(most) > TrendingCapacity
    <3>0. kept \in Recency!Survivors(current)
      BY <2>1, <1>2
    <3> HIDE DEF current
    <3>1. /\ kept \in SUBSET DOMAIN current /\ Cardinality(kept) = TrendingCapacity
          /\ \A x \in kept, r \in DOMAIN current \ kept : current[x] >= current[r]
      BY <3>0, SameCardinality DEF Recency!Survivors
    <3> QED
      BY <3>1, <1>12, RankingAssumption
  <2>2. CASE ~ (Cardinality(most) > TrendingCapacity)
    <3>1. kept = most
      BY <2>2, <1>2
    <3> QED
      BY <3>1, <2>2, <1>3, RankingAssumption
  <2> QED
    BY <2>1, <2>2
<1>5. /\ score' = [r \in kept |-> IF r = q THEN Recency!Weight ELSE score[r]]
      /\ updated' = [r \in kept |-> IF r = q THEN now ELSE updated[r]]
  BY <1>1, <1>2, <1>4 DEF Recency!Keep, Recency!Put, Recency!Restrict, Recency!Tracked
<1>6. Recency!Tracked' = kept
  BY <1>5 DEF Recency!Tracked
<1>7. now' = now
  BY DEF Recency!RecordNew
<1>8. /\ score' \in [kept -> Nat] /\ updated' \in [kept -> 0 .. Horizon]
      /\ exact' \in [DOMAIN exact' -> Nat]
      /\ Queries \ kept \subseteq DOMAIN exact' /\ DOMAIN exact' \subseteq Queries
      /\ DOMAIN exact' \intersect kept \subseteq DOMAIN exact
  BY <1>1, <1>13, <1>4, <1>5
<1>9. \A r \in kept :
          IF r = q THEN /\ score'[q] = Recency!Score(q) + Recency!Weight
                        /\ updated'[q] = now
                        /\ q \in DOMAIN exact' => exact'[q] = exact[q] + Recency!Weight
                   ELSE /\ score'[r] = score[r] /\ updated'[r] = updated[r]
                        /\ r \in DOMAIN exact' => exact'[r] = exact[r]
  BY <1>1, <1>13, <1>4, <1>5
<1>10. \A r \in Queries \ kept : exact'[r] = 0
  BY <1>13
<1>11. q \notin kept => \A r \in kept : Recency!Score(r) >= Recency!Score(q) + Recency!Weight
  BY <1>1, <1>4, <1>12
<1> QED
  BY <1>4, <1>6, <1>7, <1>8, <1>9, <1>10, <1>11 DEF Recorded

LEMMA RecordIs ==
    ASSUME TrackerInv, NEW q \in Queries, Recency!Record(q)
    PROVE  Recorded(q)
BY RecordedAgain, RecordedNew DEF Recency!Record

\* The scores as they are read after a search.
LEMMA RecordedScores ==
    ASSUME TrackerInv, NEW q \in Queries, Recorded(q)
    PROVE  \A r \in Recency!Tracked' :
              Recency!Score(r)' = IF r = q THEN Recency!Score(q) + Recency!Weight
                                          ELSE Recency!Score(r)
<1> SUFFICES ASSUME NEW r \in Recency!Tracked'
             PROVE  Recency!Score(r)' = IF r = q THEN Recency!Score(q) + Recency!Weight
                                                 ELSE Recency!Score(r)
  OBVIOUS
<1>1. Recency!Score(r)' = IF now' <= updated'[r] THEN score'[r]
                          ELSE score'[r] \div Recency!Power[now' - updated'[r]]
  BY DEF Recency!Score, Recency!Decay
<1>2. now' = now /\ now \in Nat
  BY RankingAssumption DEF Recorded, TrackerInv, Recency!TrackerTypeOK
<1>3. CASE r = q
  <2>1. now' <= updated'[r] /\ score'[r] = Recency!Score(q) + Recency!Weight
    BY <1>2, <1>3 DEF Recorded
  <2> QED
    BY <1>1, <1>3, <2>1
<1>4. CASE r # q
  <2>1. score'[r] = score[r] /\ updated'[r] = updated[r] /\ r \in Recency!Tracked
    BY <1>4 DEF Recorded
  <2> QED
    BY <1>1, <1>2, <1>4, <2>1 DEF Recency!Score, Recency!Decay
<1> QED
  BY <1>3, <1>4

LEMMA RecordTracker ==
    ASSUME TrackerInv, NEW q \in Queries, Recency!Record(q)
    PROVE  TrackerInv'
<1>1. Recorded(q)
  BY RecordIs
<1>2. Recency!Tracked \subseteq Queries /\ now \in 0 .. Horizon
  BY DEF TrackerInv, Recency!TrackerTypeOK
<1>3. Recency!TrackerTypeOK'
  <2>1. /\ Recency!Tracked' \subseteq Queries
        /\ Cardinality(Recency!Tracked') <= TrendingCapacity
        /\ score' \in [Recency!Tracked' -> Nat]
        /\ updated' \in [Recency!Tracked' -> 0 .. Horizon]
        /\ now' \in 0 .. Horizon
        /\ exact' \in [DOMAIN exact' -> Nat]
        /\ Queries \ Recency!Tracked' \subseteq DOMAIN exact' /\ DOMAIN exact' \subseteq Queries
    BY <1>1, <1>2 DEF Recorded
  <2>2. ASSUME NEW r \in Recency!Tracked' \intersect DOMAIN exact' PROVE updated'[r] <= now'
    <3>1. CASE r = q
      BY <1>1, <1>2, <3>1 DEF Recorded
    <3>2. CASE r # q
      <4>1. /\ r \in Recency!Tracked \intersect DOMAIN exact
            /\ updated'[r] = updated[r] /\ now' = now
        BY <1>1, <3>2 DEF Recorded
      <4> QED
        BY <4>1 DEF TrackerInv, Recency!TrackerTypeOK
    <3> QED
      BY <3>1, <3>2
  <2> QED
    BY <2>1, <2>2, SameCardinality DEF Recency!TrackerTypeOK
<1>4. ASSUME NEW r \in DOMAIN exact' PROVE Recency!Score(r)' = exact'[r]
  <2>1. r \in DOMAIN exact => Recency!Score(r) = exact[r]
    BY DEF TrackerInv, Recency!LazyDecayExact
  <2>2. CASE r \in Recency!Tracked'
    <3>1. r \in DOMAIN exact /\ Recency!Score(r) = exact[r]
      BY <1>1, <2>1, <2>2 DEF Recorded
    <3> QED
      BY <1>1, <2>2, <3>1, RecordedScores DEF Recorded
  <2>3. CASE r \notin Recency!Tracked'
    <3>1. Recency!Score(r)' = 0
      BY <2>3 DEF Recency!Score
    <3> QED
      BY <1>1, <1>3, <2>3, <3>1 DEF Recorded, Recency!TrackerTypeOK
  <2> QED
    BY <2>2, <2>3
<1>5. Recency!TrackerTypeOK' => NoneRaised'
  BY ScoreBelow, PTL
<1> QED
  BY <1>3, <1>4, <1>5 DEF TrackerInv, Recency!LazyDecayExact, NoneRaised

LEMMA TickTracker ==
    ASSUME TrackerInv, Recency!Tick
    PROVE  TrackerInv'
<1>1. /\ now' = now + 1 /\ now \in 0 .. Horizon /\ now < Horizon
      /\ exact' = [q \in DOMAIN exact |-> exact[q] \div 2]
      /\ score' = score /\ updated' = updated
      /\ Recency!Tracked' = Recency!Tracked
  BY DEF Recency!Tick, TrackerInv, Recency!TrackerTypeOK, Recency!Tracked
<1>2. now' \in 0 .. Horizon /\ \A t \in 0 .. Horizon : t <= now => t <= now'
  BY <1>1, RankingAssumption
<1>3. exact' \in [DOMAIN exact' -> Nat] /\ DOMAIN exact' = DOMAIN exact
  BY <1>1 DEF TrackerInv, Recency!TrackerTypeOK
<1>4. Recency!TrackerTypeOK'
  BY <1>1, <1>2, <1>3 DEF TrackerInv, Recency!TrackerTypeOK
<1>5. ASSUME NEW q \in DOMAIN exact' PROVE Recency!Score(q)' = exact'[q]
  <2>1. Recency!Score(q) = exact[q] /\ exact'[q] = exact[q] \div 2 /\ q \in DOMAIN exact
    BY <1>1, <1>3 DEF TrackerInv, Recency!LazyDecayExact
  <2>2. CASE q \in Recency!Tracked
    <3>0. updated[q] \in 0 .. Horizon /\ updated[q] <= now
      BY <2>1, <2>2 DEF TrackerInv, Recency!TrackerTypeOK
    <3>1. /\ score[q] \in Nat /\ now - updated[q] \in Nat
          /\ Recency!Score(q) = score[q] \div Recency!Power[now - updated[q]]
      BY <1>1, <2>2, <3>0, ScoreType DEF TrackerInv
    <3>2. now' - updated[q] = (now - updated[q]) + 1 /\ ~ (now' <= updated[q])
      BY <1>1, <3>0
    <3>3. Recency!Score(q)' = score[q] \div Recency!Power[now' - updated[q]]
      BY <1>1, <2>2, <3>2 DEF Recency!Score, Recency!Decay
    <3>4. Recency!Score(q)' = (score[q] \div Recency!Power[now - updated[q]]) \div 2
      BY <3>1, <3>2, <3>3, OneMoreTick
    <3> QED
      BY <2>1, <3>1, <3>4
  <2>3. CASE q \notin Recency!Tracked
    <3>1. Recency!Score(q)' = 0 /\ Recency!Score(q) = 0
      BY <1>1, <2>3 DEF Recency!Score
    <3> QED
      BY <2>1, <3>1
  <2> QED
    BY <2>2, <2>3
<1>6. Recency!TrackerTypeOK' => NoneRaised'
  BY ScoreBelow, PTL
<1> QED
  BY <1>4, <1>5, <1>6 DEF TrackerInv, Recency!LazyDecayExact, NoneRaised

\* After the clock is set back, there are exact values only of what has no score.
LEMMA ClockBackTracker ==
    ASSUME TrackerInv, Recency!ClockBack
    PROVE  TrackerInv'
<1>1. /\ now' \in 0 .. Horizon
      /\ exact' = [q \in Queries \ Recency!Tracked |-> 0]
      /\ score' = score /\ updated' = updated
      /\ Recency!Tracked' = Recency!Tracked
  BY DEF Recency!ClockBack, Recency!Tracked
<1>2. DOMAIN exact' = Queries \ Recency!Tracked' /\ exact' \in [DOMAIN exact' -> Nat]
  BY <1>1
<1>3. Recency!TrackerTypeOK'
  BY <1>1, <1>2 DEF TrackerInv, Recency!TrackerTypeOK
<1>4. \A q \in DOMAIN exact' : Recency!Score(q)' = exact'[q]
  BY <1>1 DEF Recency!Score
<1>5. Recency!TrackerTypeOK' => NoneRaised'
  BY ScoreBelow, PTL
<1> QED
  BY <1>3, <1>4, <1>5 DEF TrackerInv, Recency!LazyDecayExact, NoneRaised

Forgotten ==
    /\ score = Recency!Nothing
    /\ updated = Recency!Nothing
    /\ now \in 0 .. Horizon
    /\ exact = [q \in Queries |-> 0]

LEMMA EmptyTracker == Forgotten => TrackerInv
<1> SUFFICES ASSUME Forgotten PROVE TrackerInv
  OBVIOUS
<1>1. Recency!Tracked = {}
  BY DEF Recency!Tracked, Recency!Nothing, Forgotten
<1>2. Cardinality(Recency!Tracked) <= TrendingCapacity
  BY <1>1, FS_EmptySet, RankingAssumption
<1> QED
  <2>1. /\ Recency!Tracked \subseteq Queries
        /\ score \in [Recency!Tracked -> Nat]
        /\ updated \in [Recency!Tracked -> 0 .. Horizon]
        /\ exact \in [Queries -> Nat] /\ DOMAIN exact = Queries
    BY <1>1 DEF Recency!Nothing, Forgotten
  <2>2. Recency!TrackerTypeOK
    BY <1>1, <1>2, <2>1, SameCardinality DEF Recency!TrackerTypeOK, Forgotten
  <2>3. Recency!LazyDecayExact
    BY <1>1 DEF Recency!LazyDecayExact, Recency!Score, Forgotten
  <2> QED
    BY <2>2, <2>3 DEF TrackerInv

LEMMA TrackerStutter ==
    ASSUME TrackerInv, UNCHANGED <<score, updated, now, exact>>
    PROVE  TrackerInv'
BY DEF TrackerInv, Recency!TrackerTypeOK, Recency!LazyDecayExact, Recency!Score,
       Recency!Decay, Recency!Tracked

--------------------------------------------------------------------------------
(* Ranking: what index, tracker and the pending counts keep together       *)

\* A list that the bulk load has not made yet is empty.
UnbuiltEmpty == \A p \in Nodes \ built : top[p] = None

SearchesBound ==
    /\ searches \in 0 .. MaxSearches
    /\ \A q \in Queries : Uncounted(q) <= searches

RankingInv ==
    /\ IndexInv
    /\ PendingType
    /\ pending = [q \in Queries |-> pending[q]]
    /\ batch = [q \in Queries |-> batch[q]]
    /\ serving \in BOOLEAN
    /\ UnbuiltEmpty
    /\ SearchesBound
    /\ TrackerInv

LEMMA InitRanking == RankingInit => RankingInv
<1> SUFFICES ASSUME RankingInit PROVE RankingInv
  OBVIOUS
<1>1. IndexInv /\ UnbuiltEmpty
  BY InitIndex DEF RankingInit, Init, UnbuiltEmpty
<1>2. /\ PendingType /\ SearchesBound /\ serving \in BOOLEAN
      /\ pending = [q \in Queries |-> pending[q]] /\ batch = [q \in Queries |-> batch[q]]
  <2>1. /\ pending = [q \in Queries |-> 0] /\ batch = [q \in Queries |-> 0]
        /\ searches = 0 /\ serving = FALSE /\ MaxSearches \in Nat
    BY RankingAssumption DEF RankingInit, Zero
  <2>2. \A q \in Queries : pending[q] = 0 /\ batch[q] = 0
    BY <2>1
  <2>3. SearchesBound
    BY <2>1, <2>2 DEF SearchesBound, Uncounted
  <2>4. PendingType
    BY <2>1 DEF PendingType
  <2>5. pending = [q \in Queries |-> pending[q]]
    BY <2>1
  <2>6. batch = [q \in Queries |-> batch[q]]
    BY <2>1
  <2> QED
    BY <2>1, <2>3, <2>4, <2>5, <2>6
<1>3. TrackerInv
  <2>1. /\ score = Recency!Nothing /\ updated = Recency!Nothing /\ now \in 0 .. Horizon
        /\ exact = [q \in Queries |-> 0]
    BY RankingAssumption DEF RankingInit, Recency!Init
  <2> QED
    BY <2>1, EmptyTracker DEF Forgotten
<1> QED
  BY <1>1, <1>2, <1>3 DEF RankingInv

LEMMA NextUnbuilt ==
    ASSUME RankingInv, [RankingNext]_vars
    PROVE  UnbuiltEmpty'
<1>1. CASE UNCHANGED indexVars
  BY <1>1 DEF indexVars, RankingInv, UnbuiltEmpty
<1>2. ASSUME NEW p \in Nodes, BuildTop(p) PROVE UnbuiltEmpty'
  BY <1>2 DEF BuildTop, RankingInv, UnbuiltEmpty, IndexInv
<1>3. ASSUME NEW q \in Queries, Upsert(q) PROVE UnbuiltEmpty'
  BY <1>3 DEF Upsert, Ready, UnbuiltEmpty
<1>4. ASSUME NEW counts, PostApply(counts) PROVE UnbuiltEmpty'
  BY <1>4 DEF PostApply, RankingInv, UnbuiltEmpty
<1>5. ASSUME NEW table, Reload(table) PROVE UnbuiltEmpty'
  BY <1>5 DEF Reload, UnbuiltEmpty
<1>6. UNCHANGED vars => UNCHANGED indexVars
  BY DEF vars, indexVars
<1> QED
  BY <1>1, <1>2, <1>3, <1>4, <1>5, <1>6
  DEF RankingNext, Search, StartFlush, ApplyError, Publish, IndexStep, Serve,
      TimePasses, Restart

LEMMA NextPending ==
    ASSUME RankingInv, [RankingNext]_vars
    PROVE  /\ pending' = [q \in Queries |-> pending'[q]]
           /\ batch' = [q \in Queries |-> batch'[q]]
           /\ serving' \in BOOLEAN
           /\ SearchesBound'
<1>1. /\ pending \in [Queries -> Nat] /\ batch \in [Queries -> Nat]
      /\ searches \in 0 .. MaxSearches /\ MaxSearches \in Nat
      /\ pending = [q \in Queries |-> pending[q]] /\ batch = [q \in Queries |-> batch[q]]
      /\ serving \in BOOLEAN
      /\ \A q \in Queries : pending[q] + batch[q] <= searches
  BY RankingAssumption DEF RankingInv, PendingType, SearchesBound, Uncounted
<1>2. SUFFICES /\ pending' = [q \in Queries |-> pending'[q]]
               /\ batch' = [q \in Queries |-> batch'[q]]
               /\ serving' \in BOOLEAN
               /\ searches' \in 0 .. MaxSearches
               /\ \A q \in Queries : pending'[q] + batch'[q] <= searches'
  BY DEF SearchesBound, Uncounted
<1>3. CASE UNCHANGED <<pending, batch, searches>> /\ serving' \in BOOLEAN
  BY <1>1, <1>3
<1>4. ASSUME NEW q \in Queries, Search(q)
      PROVE  /\ pending' = [r \in Queries |-> pending'[r]]
             /\ batch' = [r \in Queries |-> batch'[r]] /\ serving' \in BOOLEAN
             /\ searches' \in 0 .. MaxSearches
             /\ \A r \in Queries : pending'[r] + batch'[r] <= searches'
  <2>1. /\ searches < MaxSearches /\ searches' = searches + 1
        /\ pending' = [r \in Queries |-> IF r = q THEN pending[q] + 1 ELSE pending[r]]
        /\ batch' = batch /\ serving' = serving
    BY <1>1, <1>4 DEF Search
  <2> QED
    BY <1>1, <2>1
<1>5. CASE StartFlush
  BY <1>1, <1>5 DEF StartFlush, Zero
<1>6. CASE ApplyError
  BY <1>1, <1>6 DEF ApplyError, Plus, Zero
<1>7. CASE Publish
  BY <1>1, <1>7 DEF Publish, Zero
<1>8. CASE Restart
  <2>1. /\ pending' = Zero /\ batch' = [q \in Queries |-> batch'[q]]
        /\ \A q \in Queries : batch'[q] \in Nat /\ batch'[q] <= pending[q] + batch[q]
    BY <1>8, RestartCounts DEF RankingInv
  <2>2. searches' = searches /\ serving' = FALSE
    BY <1>8 DEF Restart
  <2>3. pending' = [q \in Queries |-> pending'[q]]
    BY <2>1 DEF Zero
  <2>4. ASSUME NEW q \in Queries PROVE pending'[q] + batch'[q] <= searches'
    <3>1. /\ pending'[q] = 0 /\ pending[q] + batch[q] <= searches
          /\ batch'[q] \in Nat /\ batch'[q] <= pending[q] + batch[q]
          /\ pending[q] \in Nat /\ batch[q] \in Nat /\ searches \in Nat
      BY <1>1, <2>1 DEF Zero
    <3> QED
      BY <2>2, <3>1
  <2> QED
    BY <1>1, <2>1, <2>2, <2>3, <2>4
<1> QED
  BY <1>1, <1>3, <1>4, <1>5, <1>6, <1>7, <1>8
  DEF RankingNext, IndexStep, Serve, TimePasses, vars

LEMMA NextTracker ==
    ASSUME RankingInv, [RankingNext]_vars
    PROVE  TrackerInv'
<1>1. TrackerInv
  BY DEF RankingInv
<1>2. CASE UNCHANGED <<score, updated, now, exact>>
  BY <1>1, <1>2, TrackerStutter
<1>3. ASSUME NEW q \in Queries, Search(q) PROVE TrackerInv'
  BY <1>1, <1>3, RecordTracker DEF Search
<1>4. CASE TimePasses
  BY <1>1, <1>4, TickTracker, ClockBackTracker DEF TimePasses
<1>5. CASE Restart
  <2>1. Forgotten'
    BY <1>1, <1>5 DEF Forgotten, Restart, Recency!Forget, Recency!Nothing,
                      TrackerInv, Recency!TrackerTypeOK
  <2>2. Forgotten' => TrackerInv'
    BY EmptyTracker, PTL
  <2> QED
    BY <2>1, <2>2
<1> QED
  BY <1>2, <1>3, <1>4, <1>5
  DEF RankingNext, StartFlush, ApplyError, Publish, IndexStep, Serve, recencyVars, vars

LEMMA NextRanking == RankingInv /\ [RankingNext]_vars => RankingInv'
BY IndexAndPending, NextUnbuilt, NextPending, NextTracker DEF RankingInv

LEMMA RankingTyped == RankingInv => TypeOK
<1> SUFFICES ASSUME RankingInv PROVE TypeOK
  OBVIOUS
<1>1. ASSUME NEW p \in Nodes PROVE IsTable(top[p]) /\ Cardinality(DOMAIN top[p]) <= K
  <2>1. CASE p \in built
    <3>1. IsBest(top[p], Below(p)) /\ IsTable(Below(p))
      BY <2>1, BelowTable DEF RankingInv, IndexInv
    <3> QED
      BY <3>1 DEF IsBest, IsTable
  <2>2. CASE p \notin built
    <3>1. top[p] = None /\ DOMAIN top[p] = {}
      BY <2>2 DEF RankingInv, UnbuiltEmpty, None
    <3> QED
      BY <3>1, FS_EmptySet, PrefixIndexAssumption DEF IsTable, None
  <2> QED
    BY <2>1, <2>2
<1>2. /\ {pending, batch} \subseteq [Queries -> 0 .. MaxSearches]
      /\ searches \in 0 .. MaxSearches
  <2>1. \A q \in Queries : pending[q] \in 0 .. MaxSearches /\ batch[q] \in 0 .. MaxSearches
    BY RankingAssumption DEF RankingInv, PendingType, SearchesBound, Uncounted
  <2> QED
    BY <2>1 DEF RankingInv, SearchesBound
<1> QED
  BY <1>1, <1>2 DEF TypeOK, RankingInv, IndexInv, TrackerInv

\* Index, tracker and counts have the values the code can give them, whatever
\* the capacities: no list is longer than K, and the tracker never keeps more
\* than its capacity.
THEOREM RankingTypeOK == RankingSpec => []TypeOK
BY InitRanking, NextRanking, RankingTyped, PTL DEF RankingSpec

\* A score that is decayed only when it is read or written is the score halved
\* at every tick: after any searches, prunes, ticks and restarts.
THEOREM LazyDecay == RankingSpec => []LazyDecayExact
<1>1. RankingInv => LazyDecayExact
  BY DEF RankingInv, TrackerInv, LazyDecayExact
<1> QED
  BY <1>1, InitRanking, NextRanking, PTL DEF RankingSpec

\* The queries that score as high as q would after one more search.
AsHot(q) == {r \in Recency!Tracked' \ {q} :
                Recency!Score(r)' >= Recency!Score(q) + Recency!Weight}

\* After a search, either its query is in the pool of a prefix of it, or as
\* many others as the tracker or the match limit has places for are as hot.
LEMMA SearchShows ==
    ASSUME RankingInv, RankingInv', NEW q \in Queries, Search(q),
           NEW p \in Nodes, q \in Under[p]
    PROVE  \/ q \in Pool(p)'
           \/ Cardinality(AsHot(q)) >= TrendingCapacity
           \/ Cardinality(AsHot(q) \intersect Under[p]) >= MatchLimit
<1>1. TrackerInv /\ Recency!TrackerTypeOK /\ Recency!TrackerTypeOK'
  BY DEF RankingInv, TrackerInv
<1>2. Recorded(q)
  BY <1>1, RecordIs DEF Search
<1>3. /\ \A r \in Recency!Tracked' :
            Recency!Score(r)' = IF r = q THEN Recency!Score(q) + Recency!Weight
                                          ELSE Recency!Score(r)
      /\ \A r : Recency!Score(r) \in Nat
      /\ Recency!Weight \in Nat \ {0} /\ MinScore \in Nat /\ MinScore < Recency!Weight
      /\ MatchLimit \in Nat /\ TrendingCapacity \in Nat
  BY <1>1, <1>2, RecordedScores, ScoreType, WeightNat, RankingAssumption, MinScoreAssumption
<1>4. Recency!Tracked' \subseteq Queries
  BY <1>1 DEF Recency!TrackerTypeOK
<1>5. ASSUME NEW some \in SUBSET Queries
      PROVE  IsFiniteSet(some) /\ Cardinality(some) \in Nat
  BY PrefixIndexAssumption, FS_Subset, FS_CardinalityType
<1>6. AsHot(q) \subseteq Queries /\ AsHot(q) \intersect Under[p] \subseteq Queries
  BY <1>4 DEF AsHot
<1>7. CASE q \notin Recency!Tracked'
  <2>1. Recency!Tracked' \subseteq AsHot(q)
    BY <1>2, <1>3, <1>7 DEF Recorded, AsHot
  <2>2. Cardinality(Recency!Tracked') = TrendingCapacity
    BY <1>2, <1>7 DEF Recorded
  <2>3. Cardinality(AsHot(q)) >= Cardinality(Recency!Tracked')
    BY <2>1, <1>4, <1>5, <1>6, FS_Subset
  <2> QED
    BY <2>2, <2>3
<1>8. CASE q \in Recency!Tracked' /\ q \notin Pool(p)'
  <2> DEFINE hot == {r \in Recency!Tracked' \intersect Under[p] : Recency!Score(r)' > MinScore}
             hotter == {r \in hot : Recency!Hotter(r, q)'}
  <2>1. q \in hot
    BY <1>3, <1>8
  <2>2. Recency!Matching(Under[p])' =
           {r \in hot : Cardinality({s \in hot : Recency!Hotter(s, r)'}) < MatchLimit}
    BY SameCardinality DEF Recency!Matching
  <2>3. q \notin Recency!Matching(Under[p])'
    BY <1>8 DEF Pool
  <2>4. ~ (Cardinality(hotter) < MatchLimit)
    BY <2>1, <2>2, <2>3
  <2>5. hotter \subseteq AsHot(q) \intersect Under[p]
    <3> SUFFICES ASSUME NEW r \in hotter PROVE r \in AsHot(q)
      OBVIOUS
    <3>1. /\ Recency!Score(r)' \in Nat /\ Recency!Score(q)' = Recency!Score(q) + Recency!Weight
          /\ Recency!Score(q) \in Nat
      BY <1>3, <1>8
    <3>2. \/ Recency!Score(r)' > Recency!Score(q)'
          \/ Recency!Score(r)' = Recency!Score(q)' /\ Rank[r] < Rank[q]
      BY DEF Recency!Hotter
    <3>3. Rank[q] \in Nat
      BY PrefixIndexAssumption
    <3>4. r # q
      BY <3>1, <3>2, <3>3
    <3> QED
      BY <3>1, <3>2, <3>4, <1>3 DEF AsHot
  <2>6. Cardinality(AsHot(q) \intersect Under[p]) >= Cardinality(hotter)
    BY <2>5, <1>5, <1>6, FS_Subset
  <2>7. Cardinality(hotter) \in Nat
    <3>1. hotter \subseteq Queries
      BY <1>4
    <3> QED
      BY <3>1, <1>5
  <2> HIDE DEF hot, hotter
  <2> QED
    BY <2>4, <2>6, <2>7, <1>3, <1>5, <1>6
<1> QED
  BY <1>7, <1>8

\* A query that was just searched is a candidate for each of its prefixes at
\* once, whatever the index knows of it, unless as many others are as hot as
\* the tracker or the match limit has places for.
THEOREM SurgeShown == RankingSpec => SurgeIsShown
<1> DEFINE Shown ==
        \A q \in Queries : Uncounted(q)' > Uncounted(q) =>
          LET others == {r \in Recency!Tracked' \ {q} :
                            Recency!Score(r)' >= Recency!Score(q) + Recency!Weight}
          IN  \A p \in Nodes : q \in Under[p] =>
                 \/ q \in Pool(p)'
                 \/ Cardinality(others) >= TrendingCapacity
                 \/ Cardinality(others \intersect Under[p]) >= MatchLimit
<1>1. RankingInv /\ RankingInv' /\ [RankingNext]_vars => [Shown]_vars
  <2> SUFFICES ASSUME RankingInv, RankingInv', RankingNext, NEW q \in Queries,
                      Uncounted(q)' > Uncounted(q), NEW p \in Nodes, q \in Under[p]
               PROVE  \/ q \in Pool(p)'
                      \/ Cardinality(AsHot(q)) >= TrendingCapacity
                      \/ Cardinality(AsHot(q) \intersect Under[p]) >= MatchLimit
    BY DEF AsHot
  <2>1. \A r \in Queries : /\ pending[r] \in Nat /\ batch[r] \in Nat
                           /\ Uncounted(r) = pending[r] + batch[r]
                           /\ Uncounted(r)' = pending'[r] + batch'[r]
    BY DEF RankingInv, PendingType, Uncounted
  <2>2. ~ (StartFlush \/ ApplyError \/ Publish)
    BY <2>1 DEF StartFlush, ApplyError, Publish, Plus, Zero
  <2>3. ~ Restart
    <3> SUFFICES ASSUME Restart PROVE FALSE
      OBVIOUS
    <3>1. pending'[q] = 0 /\ batch'[q] <= pending[q] + batch[q] /\ batch'[q] \in Nat
      BY RestartCounts DEF RankingInv, Zero
    <3> QED
      BY <2>1, <3>1
  <2>4. ~ UNCHANGED <<pending, batch>>
    BY <2>1
  <2>5. PICK r \in Queries : Search(r)
    BY <2>2, <2>3, <2>4 DEF RankingNext, IndexStep, Serve, TimePasses
  <2>6. r = q
    BY <2>1, <2>5 DEF Search, RankingInv
  <2> QED
    BY <2>5, <2>6, SearchShows
<1>2. RankingInv /\ [RankingNext]_vars => RankingInv'
  BY NextRanking
<1> QED
  BY <1>1, <1>2, InitRanking, PTL DEF RankingSpec, SurgeIsShown
================================================================================
