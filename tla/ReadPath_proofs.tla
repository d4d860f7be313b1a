--------------------------- MODULE ReadPath_proofs ---------------------------
(***************************************************************************)
(* Types, capacity, expiry and coherence of the cache of ReadPath, for     *)
(* every set of queries and prefixes, and for every K, TTL and capacity.   *)
(***************************************************************************)
EXTENDS ReadPath, TLAPS, FiniteSetTheorems

\* What an entry keeps is right at any age: its counts are the current ones,
\* only an answer that is full lacks a current candidate, what is not one was
\* trending, and in basic mode the entry is what ranking would give now.
EntryExact(k) ==
    LET answer == cache[k].answer
        shown == DOMAIN answer.counts
    IN  /\ shown \subseteq Under(k[1])
        /\ \A q \in shown : answer.counts[q] = CountOf(q)
        /\ Candidates(k[1]) \subseteq shown \/ Cardinality(shown) = K
        /\ \A q \in shown \ Candidates(k[1]) : answer.scores[q] > 0
        /\ k[2] = "basic" => answer = Answer(Candidates(k[1]), "basic")

CacheExact == DOMAIN cache \subseteq Keys /\ \A k \in DOMAIN cache : EntryExact(k)

\* A ranking in basic mode depends on the index alone, and only on its queries
\* under the prefix.
LEMMA RankedLocal ==
    ASSUME NEW p \in Prefixes,
           \A q \in Under(p) : q \in DOMAIN index' <=> q \in DOMAIN index,
           \A q \in Under(p) \intersect DOMAIN index : index'[q] = index[q]
    PROVE  /\ Candidates(p)' = Candidates(p)
           /\ \A q \in Under(p) : CountOf(q)' = CountOf(q)
           /\ Answer(Candidates(p), "basic")' = Answer(Candidates(p), "basic")
<1> DEFINE Known == Under(p) \intersect DOMAIN index
<1>1. Under(p)' = Under(p) /\ (Under(p) \intersect DOMAIN index)' = Known
  BY DEF Under
<1>2. \A q, r \in Known : Beats(r, q)' <=> Beats(r, q)
  BY DEF Beats
<1>3. ASSUME NEW q \in Known
      PROVE  {r \in Known : Beats(r, q)}' = {r \in Known : Beats(r, q)}
  BY <1>1, <1>2
<1>4. Candidates(p)' = Candidates(p)
  BY <1>1, <1>3 DEF Candidates
<1>5. \A q \in Under(p) : CountOf(q)' = CountOf(q)
  BY DEF CountOf
<1>6. Candidates(p) \subseteq Under(p)
  BY DEF Candidates
<1>7. Answer(Candidates(p), "basic")' = Answer(Candidates(p), "basic")
  BY <1>4, <1>5, <1>6 DEF Answer
<1> QED
  BY <1>4, <1>5, <1>7

\* An entry that stays in the cache stays right when the index keeps what is
\* under its prefix.
LEMMA EntryStays ==
    ASSUME NEW k \in DOMAIN cache, k \in Keys, EntryExact(k),
           k \in DOMAIN cache', cache'[k].answer = cache[k].answer,
           \A q \in Under(k[1]) : q \in DOMAIN index' <=> q \in DOMAIN index,
           \A q \in Under(k[1]) \intersect DOMAIN index : index'[q] = index[q]
    PROVE  EntryExact(k)'
<1>1. k[1] \in Prefixes
  BY DEF Keys
<1>2. /\ Candidates(k[1])' = Candidates(k[1])
      /\ \A q \in Under(k[1]) : CountOf(q)' = CountOf(q)
      /\ Answer(Candidates(k[1]), "basic")' = Answer(Candidates(k[1]), "basic")
  BY <1>1, RankedLocal
<1>3. Under(k[1])' = Under(k[1])
  BY DEF Under
<1> QED
  BY <1>2, <1>3 DEF EntryExact

\* What a ranking may show.
LEMMA RankingShows ==
    ASSUME NEW p \in Prefixes, NEW mode \in Modes, NEW shown \in Rankings(p, mode)
    PROVE  /\ shown \subseteq Under(p)
           /\ Candidates(p) \subseteq shown \/ Cardinality(shown) = K
           /\ \A q \in shown \ Candidates(p) : mode = "trending" /\ score[q] > 0
           /\ mode = "basic" => shown = Candidates(p)
<1>1. Candidates(p) \subseteq Under(p)
  BY DEF Candidates
<1>2. \A hot \in Trending(p) : hot \subseteq {q \in Under(p) : score[q] > 0}
  BY DEF Trending
<1>3. CASE mode = "basic"
  BY <1>1, <1>3 DEF Rankings
<1>4. CASE mode = "trending"
  <2>1. PICK hot \in Trending(p) : shown \in BestOf(Candidates(p) \union hot)
    BY <1>4 DEF Rankings
  <2> DEFINE pool == Candidates(p) \union hot
  <2>2. shown = pool \/ (shown \subseteq pool /\ Cardinality(shown) = K)
    BY <2>1 DEF BestOf
  <2> QED
    BY <1>1, <1>2, <1>4, <2>2
<1> QED
  BY <1>3, <1>4 DEF Modes

LEMMA CacheStep == CacheExact /\ [Next]_vars => CacheExact'
<1> SUFFICES ASSUME CacheExact, [Next]_vars PROVE CacheExact'
  OBVIOUS
<1>1. ASSUME NEW p \in Prefixes, NEW mode \in Modes, SuggestMiss(p, mode)
      PROVE  CacheExact'
  <2> DEFINE new == <<p, mode>>
  <2>1. index' = index /\ score' = score
    BY <1>1 DEF SuggestMiss, writeVars
  <2>2. PICK shown \in Rankings(p, mode) :
           Insert(new, [answer |-> Answer(shown, mode), age |-> 0])
    BY <1>1 DEF SuggestMiss, Store
  <2>3. /\ DOMAIN cache' \subseteq DOMAIN cache \union {new}
        /\ new \in DOMAIN cache' /\ cache'[new].answer = Answer(shown, mode)
        /\ \A k \in DOMAIN cache' \ {new} : cache'[k] = cache[k]
    BY <2>2 DEF Insert
  <2>4. new \in Keys /\ new[1] = p /\ new[2] = mode
    BY DEF Keys
  <2>5. EntryExact(new)'
    <3>1. /\ Candidates(p)' = Candidates(p) /\ Under(p)' = Under(p)
          /\ \A q \in Queries : CountOf(q)' = CountOf(q)
      BY <2>1 DEF Candidates, Under, CountOf, Beats
    <3>2. Answer(Candidates(p), "basic")' = Answer(Candidates(p), "basic")
      BY <2>1, RankedLocal
    <3>3. /\ shown \subseteq Under(p)
          /\ Candidates(p) \subseteq shown \/ Cardinality(shown) = K
          /\ \A q \in shown \ Candidates(p) : mode = "trending" /\ score[q] > 0
          /\ mode = "basic" => shown = Candidates(p)
      BY RankingShows
    <3>4. /\ DOMAIN Answer(shown, mode).counts = shown
          /\ \A q \in shown : Answer(shown, mode).counts[q] = CountOf(q)
          /\ \A q \in shown : mode = "trending"
                                => Answer(shown, mode).scores[q] = score[q]
      BY DEF Answer
    <3>5. Under(p) \subseteq Queries
      BY DEF Under
    <3> HIDE DEF new
    <3> QED
      BY <2>3, <2>4, <3>1, <3>2, <3>3, <3>4, <3>5 DEF EntryExact
  <2>6. ASSUME NEW k \in DOMAIN cache' \ {new} PROVE EntryExact(k)'
    <3>1. k \in DOMAIN cache /\ k \in Keys /\ EntryExact(k)
      BY <2>3 DEF CacheExact
    <3> QED
      BY <2>1, <2>3, <3>1, EntryStays
  <2> HIDE DEF new
  <2> QED
    BY <2>3, <2>4, <2>5, <2>6 DEF CacheExact
<1>2. CASE Tick
  <2>1. /\ DOMAIN cache' = DOMAIN cache /\ index' = index
        /\ \A k \in DOMAIN cache : cache'[k].answer = cache[k].answer
    BY <1>2 DEF Tick, Age, writeVars
  <2> QED
    BY <2>1, EntryStays DEF CacheExact
<1>3. CASE PostApply
  <2>1. /\ DOMAIN cache' = DOMAIN cache \ Invalidated
        /\ \A k \in DOMAIN cache' : cache'[k] = cache[k]
    BY <1>3 DEF PostApply, Without, Restrict, Publish
  <2>2. ASSUME NEW k \in DOMAIN cache' PROVE EntryExact(k)'
    <3>1. k \in DOMAIN cache /\ k \in Keys /\ EntryExact(k)
      BY <2>1 DEF CacheExact
    <3>2. Under(k[1]) \intersect Changed = {}
      BY <2>1, <3>1 DEF Invalidated
    <3>3. \A q \in Under(k[1]) : q \in DOMAIN index' <=> q \in DOMAIN index
      BY <1>3, <3>2 DEF PostApply, Upserted, Publish
    <3>4. \A q \in Under(k[1]) \intersect DOMAIN index : index'[q] = index[q]
      BY <1>3, <3>2 DEF PostApply, Upserted, Publish
    <3> QED
      BY <2>1, <3>1, <3>3, <3>4, EntryStays
  <2> QED
    BY <2>1, <2>2 DEF CacheExact
<1>4. CASE Restart
  BY <1>4 DEF Restart, Empty, CacheExact
<1>5. CASE \/ \E p \in Prefixes, mode \in Modes : SuggestHit(p, mode)
           \/ \E q \in Queries : Search(q)
           \/ Decay \/ StartFlush \/ CommitBatch \/ ApplyError
           \/ UNCHANGED vars
  <2>1. cache' = cache /\ index' = index
    BY <1>5 DEF SuggestHit, Search, Decay, StartFlush, CommitBatch, ApplyError, vars,
                TakeBatch, CountBatch, GiveBack, LogSearch, writeVars
  <2> QED
    BY <2>1, EntryStays DEF CacheExact
<1> QED
  BY <1>1, <1>2, <1>3, <1>4, <1>5 DEF Next

\* Every entry of the cache, expired or not, is exact for the index of the moment.
THEOREM CacheInvariance == Spec => []CacheExact
<1>1. Init => CacheExact
  BY DEF Init, CacheExact, Empty, CacheInit
<1> QED
  BY <1>1, CacheStep, PTL DEF Spec

\* A basic answer served from the cache is never stale.
THEOREM BasicCoherent == Spec => []BasicNeverStale
<1>1. CacheExact => BasicNeverStale
  BY DEF CacheExact, EntryExact, BasicNeverStale, Hit, Keys, Modes
<1> QED
  BY <1>1, CacheInvariance, PTL

\* A trending answer served from the cache shows current counts and lacks no
\* all-time candidate.
THEOREM TrendingCoherent == Spec => []TrendingCountsCurrent
<1>1. CacheExact => TrendingCountsCurrent
  BY DEF CacheExact, EntryExact, TrendingCountsCurrent, Hit, Keys, Modes
<1> QED
  BY <1>1, CacheInvariance, PTL

----------------------------------------------------------------------------
(* Types and capacity                                                      *)

\* The cache holds finitely many entries, so that they can be counted.
TypeInv == TypeOK /\ IsFiniteSet(DOMAIN cache)

EntryOK(entry) == /\ DOMAIN entry = {"answer", "age"}
                  /\ entry.age \in 0 .. TTL
                  /\ DOMAIN entry.answer = {"counts", "scores"}

\* Fewer entries are within the capacity too.
LEMMA FewerFit ==
    ASSUME TypeInv, DOMAIN cache' \subseteq DOMAIN cache
    PROVE  /\ IsFiniteSet(DOMAIN cache')
           /\ \A k \in DOMAIN cache' : Cardinality(Held(k)') <= Capacity
<1>1. IsFiniteSet(DOMAIN cache')
  BY FS_Subset DEF TypeInv
<1>2. ASSUME NEW k \in DOMAIN cache' PROVE Cardinality(Held(k)') <= Capacity
  <2>1. Held(k)' \subseteq Held(k) /\ Held(k) \subseteq DOMAIN cache
    BY DEF Held
  <2>2. IsFiniteSet(Held(k)) /\ IsFiniteSet(Held(k)')
    BY <2>1, FS_Subset DEF TypeInv
  <2>3. Cardinality(Held(k)') <= Cardinality(Held(k))
    BY <2>1, <2>2, FS_Subset
  <2>4. Cardinality(Held(k)) <= Capacity
    BY DEF TypeInv, TypeOK
  <2>5. Cardinality(Held(k)) \in Nat /\ Cardinality(Held(k)') \in Nat /\ Capacity \in Nat
    BY <2>2, FS_CardinalityType, ReadPathAssumption
  <2> QED BY <2>3, <2>4, <2>5
<1> QED BY <1>1, <1>2

\* set keeps its node within the capacity and touches no other node.
LEMMA InsertFits ==
    ASSUME TypeInv, NEW key \in Keys, NEW entry, Insert(key, entry)
    PROVE  /\ IsFiniteSet(DOMAIN cache')
           /\ \A k \in DOMAIN cache' : Cardinality(Held(k)') <= Capacity
<1>1. PICK victims \in {{}} \union {{v} : v \in Held(key) \ {key}} :
         /\ victims = {} <=> Cardinality(Held(key) \union {key}) <= Capacity
         /\ cache' = [x \in (DOMAIN cache \ victims) \union {key} |->
                         IF x = key THEN entry ELSE cache[x]]
  BY DEF Insert
<1>2. DOMAIN cache' = (DOMAIN cache \ victims) \union {key}
  BY <1>1
<1>3. victims \subseteq Held(key) \ {key} /\ Held(key) \subseteq DOMAIN cache
  BY <1>1 DEF Held
<1>4. IsFiniteSet(DOMAIN cache \union {key}) /\ IsFiniteSet(DOMAIN cache)
  BY FS_AddElement DEF TypeInv
<1>5. IsFiniteSet(DOMAIN cache')
  <2>1. DOMAIN cache' \subseteq DOMAIN cache \union {key}
    BY <1>2
  <2> QED BY <1>4, <2>1, FS_Subset
<1>6. IsFiniteSet(Held(key))
  BY <1>3, <1>4, FS_Subset
<1>7. Capacity \in Nat
  BY ReadPathAssumption
<1>8. ASSUME NEW k \in DOMAIN cache' PROVE Cardinality(Held(k)') <= Capacity
  <2>1. CASE NodeOf[k] # NodeOf[key]
    <3>1. k \in DOMAIN cache /\ Held(k)' = Held(k)
      BY <1>2, <1>3, <2>1 DEF Held
    <3> QED BY <3>1 DEF TypeInv, TypeOK
  <2>2. CASE NodeOf[k] = NodeOf[key]
    <3>1. Held(k)' = (Held(key) \ victims) \union {key}
      BY <1>2, <2>2 DEF Held
    <3>2. CASE victims = {}
      <4>1. Held(k)' = Held(key) \union {key}
        BY <3>1, <3>2
      <4> QED BY <1>1, <3>2, <4>1
    <3>3. ASSUME NEW v \in Held(key) \ {key}, victims = {v}
          PROVE  Cardinality(Held(k)') <= Capacity
      <4>1. Held(v) = Held(key) /\ v \in DOMAIN cache
        BY DEF Held
      <4>2. Cardinality(Held(key)) <= Capacity
        BY <4>1 DEF TypeInv, TypeOK
      <4>3. /\ IsFiniteSet(Held(key) \ {v})
            /\ Cardinality(Held(key) \ {v}) = Cardinality(Held(key)) - 1
        BY <1>6, FS_RemoveElement, Zenon
      <4>4. Cardinality(Held(k)') = Cardinality(Held(key) \ {v})
            \/ Cardinality(Held(k)') = Cardinality(Held(key) \ {v}) + 1
        BY <3>1, <3>3, <4>3, FS_AddElement, Zenon
      <4>5. Cardinality(Held(key)) \in Nat
        BY <1>6, FS_CardinalityType
      <4> QED BY <1>7, <4>2, <4>3, <4>4, <4>5
    <3> QED BY <1>1, <3>2, <3>3
  <2> QED BY <2>1, <2>2
<1> QED BY <1>5, <1>8

LEMMA TypeInit == Init => TypeInv
<1> SUFFICES ASSUME Init PROVE TypeInv
  OBVIOUS
<1>1. DOMAIN cache = {}
  BY DEF Init, Empty, CacheInit
<1>2. IsFiniteSet(DOMAIN cache)
  BY <1>1, FS_EmptySet
<1>3. /\ DOMAIN index \subseteq Queries
      /\ \A q \in DOMAIN index : index[q] \in Nat
  BY ReadPathAssumption DEF Init, Restrict, WriteInit, Indexed
<1>4. score \in [Queries -> 0 .. MaxScore]
  BY ReadPathAssumption DEF Init, Zero, WriteInit, Indexed
<1> QED BY <1>1, <1>2, <1>3, <1>4, ReadPathAssumption
  DEF TypeInv, TypeOK, Init, Zero, Counts, WriteInit, Indexed

\* The conjuncts of TypeOK about the cache, and those about the rest.
CacheOK == /\ IsFiniteSet(DOMAIN cache)
           /\ DOMAIN cache \subseteq Keys
           /\ \A k \in DOMAIN cache : Cardinality(Held(k)) <= Capacity
           /\ \A k \in DOMAIN cache : EntryOK(cache[k])

RestOK == /\ waiting \in Counts
          /\ inflight \in Counts
          /\ flush \in {"idle", "apply", "commit"}
          /\ stored \in Counts
          /\ DOMAIN index \subseteq Queries
          /\ \A q \in DOMAIN index : index[q] \in Nat
          /\ score \in [Queries -> 0 .. MaxScore]

LEMMA Split == /\ TypeInv <=> CacheOK /\ RestOK
               /\ TypeInv' <=> CacheOK' /\ RestOK'
  BY DEF TypeInv, TypeOK, CacheOK, RestOK, EntryOK

LEMMA PlusCounts == ASSUME NEW f \in Counts, NEW g \in Counts PROVE Plus(f, g) \in Counts
  BY DEF Plus, Counts

LEMMA TypeStep == TypeInv /\ [Next]_vars => TypeInv'
<1> SUFFICES ASSUME TypeInv, [Next]_vars PROVE CacheOK' /\ RestOK'
  BY Split
<1>1. CacheOK /\ RestOK
  BY Split
<1>2. Zero \in Counts
  BY DEF Zero, Counts
<1>3. CacheOK'
  <2>1. ASSUME NEW p \in Prefixes, NEW mode \in Modes, SuggestMiss(p, mode) PROVE CacheOK'
    <3> DEFINE key == <<p, mode>>
    <3>1. PICK shown \in Rankings(p, mode) :
             Insert(key, [answer |-> Answer(shown, mode), age |-> 0])
      BY <2>1 DEF SuggestMiss, Store
    <3> DEFINE entry == [answer |-> Answer(shown, mode), age |-> 0]
    <3>2. key \in Keys
      BY DEF Keys
    <3>3. EntryOK(entry)
      BY ReadPathAssumption DEF EntryOK, Answer
    <3> HIDE DEF key, entry
    <3>4. /\ DOMAIN cache' \subseteq DOMAIN cache \union {key}
          /\ \A k \in DOMAIN cache' : cache'[k] = IF k = key THEN entry ELSE cache[k]
      BY <3>1 DEF Insert, entry
    <3>5. \A k \in DOMAIN cache' : EntryOK(cache'[k])
      BY <1>1, <3>3, <3>4 DEF CacheOK
    <3>6. /\ IsFiniteSet(DOMAIN cache')
          /\ \A k \in DOMAIN cache' : Cardinality(Held(k)') <= Capacity
      BY <3>1, <3>2, InsertFits
    <3>7. DOMAIN cache' \subseteq Keys
      BY <1>1, <3>2, <3>4 DEF CacheOK
    <3> QED BY <3>5, <3>6, <3>7 DEF CacheOK, EntryOK
  <2>2. ASSUME DOMAIN cache' \subseteq DOMAIN cache,
               \A k \in DOMAIN cache' : EntryOK(cache'[k])
        PROVE  CacheOK'
    BY <1>1, <2>2, FewerFit DEF CacheOK, EntryOK
  <2>3. CASE Tick
    <3>1. DOMAIN cache' = DOMAIN cache
      BY <2>3 DEF Tick, Age, writeVars
    <3>2. ASSUME NEW k \in DOMAIN cache' PROVE EntryOK(cache'[k])
      <4>1. EntryOK(cache[k])
        BY <1>1, <3>1 DEF CacheOK
      <4>2. cache'[k] = [answer |-> cache[k].answer,
                         age |-> IF cache[k].age < TTL THEN cache[k].age + 1 ELSE TTL]
        BY <2>3, <3>1 DEF Tick, Age, writeVars
      <4>3. cache'[k].age \in 0 .. TTL /\ cache'[k].answer = cache[k].answer
            /\ DOMAIN cache'[k] = {"answer", "age"}
        BY <4>1, <4>2, ReadPathAssumption DEF EntryOK
      <4> QED BY <4>1, <4>3 DEF EntryOK
    <3> QED BY <2>2, <3>1, <3>2
  <2>4. CASE PostApply
    <3>1. DOMAIN cache' \subseteq DOMAIN cache /\ \A k \in DOMAIN cache' : cache'[k] = cache[k]
      BY <2>4 DEF PostApply, Without, Restrict, Publish
    <3> QED BY <1>1, <2>2, <3>1 DEF CacheOK
  <2>5. CASE Restart
    BY <2>2, <2>5 DEF Restart, Empty
  <2>6. CASE cache' = cache
    BY <1>1, <2>2, <2>6 DEF CacheOK
  <2> QED BY <2>1, <2>3, <2>4, <2>5, <2>6
          DEF Next, SuggestHit, Search, Decay, StartFlush, CommitBatch, ApplyError,
              vars, TakeBatch, CountBatch, GiveBack, LogSearch, writeVars
<1>4. RestOK'
  <2>1. ASSUME NEW q \in Queries, Search(q) PROVE RestOK'
    <3>1. waiting' \in Counts
      BY <1>1, <2>1 DEF RestOK, Search, Counts, LogSearch, writeVars
    <3>2. score' \in [Queries -> 0 .. MaxScore]
      BY <1>1, <2>1, ReadPathAssumption DEF RestOK, Search, LogSearch, writeVars
    <3> QED BY <1>1, <2>1, <3>1, <3>2 DEF RestOK, Search, Counts, LogSearch, writeVars
  <2>2. CASE Decay
    BY <1>1, <2>2 DEF RestOK, Decay, Counts, writeVars
  <2>3. CASE StartFlush
    BY <1>1, <1>2, <2>3 DEF RestOK, StartFlush, Counts, TakeBatch
  <2>4. CASE CommitBatch
    <3>1. stored' \in Counts
      BY <1>1, <2>4, PlusCounts DEF RestOK, CommitBatch, CountBatch
    <3> QED BY <1>1, <2>4, <3>1 DEF RestOK, CommitBatch, Counts, CountBatch
  <2>5. CASE ApplyError
    <3>1. waiting' \in Counts
      BY <1>1, <2>5, PlusCounts DEF RestOK, ApplyError, GiveBack
    <3> QED BY <1>1, <1>2, <2>5, <3>1 DEF RestOK, ApplyError, Counts, GiveBack
  <2>6. CASE PostApply
    <3>1. DOMAIN index' \subseteq Queries /\ \A q \in DOMAIN index' : index'[q] \in Nat
      BY <1>1, <2>6 DEF RestOK, PostApply, Upserted, Changed, Counts, Publish
    <3> QED BY <1>1, <1>2, <2>6, <3>1 DEF RestOK, PostApply, Counts, Publish
  <2>7. CASE Restart
    <3>1. Recovered \in Counts
      BY <1>1, PlusCounts DEF RestOK, Recovered
    <3>2. DOMAIN index' \subseteq Queries /\ \A q \in DOMAIN index' : index'[q] \in Nat
      BY <2>7, <3>1 DEF Restart, Counts, Reload, Indexed, Restrict
    <3>3. score' \in [Queries -> 0 .. MaxScore]
      BY <2>7, ReadPathAssumption DEF Restart, Zero
    <3> QED BY <1>2, <2>7, <3>1, <3>2, <3>3 DEF RestOK, Restart, Counts, Reload, Indexed
  <2>8. CASE UNCHANGED <<waiting, inflight, flush, stored, index, score>>
    BY <1>1, <2>8 DEF RestOK, Counts
  <2> QED BY <2>1, <2>2, <2>3, <2>4, <2>5, <2>6, <2>7, <2>8
          DEF Next, SuggestHit, SuggestMiss, Tick, vars, writeVars
<1> QED BY <1>3, <1>4

\* The state is well-formed, and no cache node outgrows its capacity.
THEOREM TypeCorrect == Spec => []TypeOK
<1>1. TypeInv => TypeOK
  BY DEF TypeInv
<1> QED BY <1>1, TypeInit, TypeStep, PTL DEF Spec

----------------------------------------------------------------------------
LEMMA AgeStep ==
    ASSUME TypeInv, [Next]_vars, NEW k \in Keys, Hit(k), Hit(k)'
    PROVE  cache'[k].answer = cache[k].answer /\ cache'[k].age >= cache[k].age
<1>1. k \in DOMAIN cache /\ k \in DOMAIN cache' /\ cache[k].age < TTL
  BY DEF Hit
<1>2. cache[k].age \in 0 .. TTL /\ TTL \in Nat
  BY <1>1, ReadPathAssumption DEF TypeInv, TypeOK
<1>3. CASE cache'[k] = cache[k]
  BY <1>2, <1>3
<1>4. CASE Tick
  <2>1. cache'[k] = [answer |-> cache[k].answer,
                     age |-> IF cache[k].age < TTL THEN cache[k].age + 1 ELSE TTL]
    BY <1>1, <1>4 DEF Tick, Age, writeVars
  <2> QED BY <1>1, <1>2, <2>1
<1>5. ASSUME NEW p \in Prefixes, NEW mode \in Modes, SuggestMiss(p, mode)
      PROVE  cache'[k] = cache[k]
  <2>1. k # <<p, mode>>
    BY <1>5 DEF SuggestMiss, writeVars
  <2> QED BY <1>1, <1>5, <2>1 DEF SuggestMiss, Store, Insert
<1>6. PostApply \/ Restart => cache'[k] = cache[k]
  BY <1>1 DEF PostApply, Without, Restrict, Restart, Empty, Publish
<1> QED BY <1>3, <1>4, <1>5, <1>6
        DEF Next, SuggestHit, Search, Decay, StartFlush, CommitBatch, ApplyError, vars,
            TakeBatch, CountBatch, GiveBack, LogSearch, writeVars

\* However often an answer is read, it expires TTL after its ranking.
THEOREM AnswersExpire == Spec => NoSlidingTTL
<1>1. TypeInv /\ [Next]_vars =>
        [\A k \in Keys : Hit(k) /\ Hit(k)'
           => cache'[k].answer = cache[k].answer /\ cache'[k].age >= cache[k].age]_vars
  BY AgeStep
<1> QED BY <1>1, TypeInit, TypeStep, PTL DEF Spec, NoSlidingTTL

----------------------------------------------------------------------------
(* The write path and the cache inside                                     *)

\* Serving suggestions, the clock and the cache never disturb the counters: the
\* service seen without scores and cache is the write path of WritePath.
THEOREM WritesAlone == Spec => WriteSpec
<1>1. Init => WriteInit
  BY DEF Init
<1>2. [Next]_vars => [WriteNext]_writeVars
  <2>1. CASE UNCHANGED vars
    BY <2>1 DEF vars, writeVars
  <2>2. CASE \/ \E p \in Prefixes, mode \in Modes : SuggestHit(p, mode) \/ SuggestMiss(p, mode)
             \/ Tick \/ Decay
    BY <2>2 DEF SuggestHit, SuggestMiss, Tick, Decay, vars, writeVars
  <2>3. ASSUME NEW q \in Queries, Search(q) PROVE WriteNext
    BY <2>3 DEF Search, WriteNext
  <2>4. CASE StartFlush \/ CommitBatch \/ ApplyError \/ PostApply \/ Restart
    BY <2>4 DEF StartFlush, CommitBatch, ApplyError, PostApply, Restart, WriteNext
  <2> QED
    BY <2>1, <2>2, <2>3, <2>4 DEF Next
<1> QED
  BY <1>1, <1>2, PTL DEF Spec, WriteSpec

\* All that the cache could be given at this moment.
Answers == {Answer(shown, mode) : shown \in SUBSET Queries, mode \in Modes}

\* Nor does the write path disturb the cache but by invalidating it: the service
\* seen without its counters is a cache of AnswerCache.
THEOREM CacheAlone == Spec => CacheInit /\ [][CacheNext(Answers)]_cache
<1>1. Init => CacheInit
  BY DEF Init
<1>2. TypeInv /\ [Next]_vars => [CacheNext(Answers)]_cache
  <2> SUFFICES ASSUME TypeInv, [Next]_vars PROVE CacheNext(Answers) \/ cache' = cache
    OBVIOUS
  <2>1. ASSUME NEW p \in Prefixes, NEW mode \in Modes, SuggestMiss(p, mode)
        PROVE  CacheNext(Answers)
    <3>1. PICK shown \in Rankings(p, mode) : Store(<<p, mode>>, Answer(shown, mode))
      BY <2>1 DEF SuggestMiss
    <3>2. <<p, mode>> \in Keys
      BY DEF Keys
    <3>3. shown \in SUBSET Queries
      BY RankingShows DEF Under
    <3>4. Answer(shown, mode) \in Answers
      BY <3>3 DEF Answers
    <3> QED
      BY <3>1, <3>2, <3>4 DEF CacheNext
  <2>2. CASE Tick
    BY <2>2 DEF Tick, CacheNext
  <2>3. CASE PostApply
    <3> DEFINE some == {p \in Prefixes : Under(p) \intersect Changed # {}}
    <3>1. Invalidated = {k \in Keys : k[1] \in some}
      BY DEF Invalidated, Keys
    <3>2. Invalidate(some)
      BY <2>3, <3>1 DEF PostApply, Invalidate
    <3> QED
      BY <3>2 DEF CacheNext
  <2>4. CASE Restart
    <3>1. DOMAIN cache \ {k \in Keys : k[1] \in Prefixes} = {}
      BY DEF TypeInv, TypeOK, Keys
    <3>2. Invalidate(Prefixes)
      BY <2>4, <3>1 DEF Restart, Empty, Invalidate, Without, Restrict
    <3> QED
      BY <3>2 DEF CacheNext
  <2> QED
    BY <2>1, <2>2, <2>3, <2>4 DEF Next, SuggestHit, Search, Decay, StartFlush,
                                  CommitBatch, ApplyError, vars
<1> QED
  BY <1>1, <1>2, TypeInit, TypeStep, PTL DEF Spec
============================================================================
