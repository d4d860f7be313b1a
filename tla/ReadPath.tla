------------------------------ MODULE ReadPath ------------------------------
(***************************************************************************)
(* What /suggest answers (app/service.py with the cache of app/cache.py    *)
(* and the index of app/trie.py), beside the write path that changes what  *)
(* the right answer is.                                                    *)
(*                                                                         *)
(* The answer for a prefix and a ranking mode is cached for TTL ticks.  A  *)
(* flush upserts the index and drops every cached prefix of every changed  *)
(* query; a search alone drops nothing, although it changes the recency    *)
(* scores that the trending mode ranks by.                                 *)
(*                                                                         *)
(* An answer is kept as what determines it: the queries shown with their   *)
(* counts and, in trending mode, their recency scores.  A score is known   *)
(* only by its level: 0 is up to min_score, and queries of different       *)
(* levels are in the order of their levels, while two of one level may be  *)
(* in any order.  Which queries of a pool larger than K the blend keeps    *)
(* depends on logarithms and weights; here any K of them that leave out    *)
(* nobody better in both respects.  The write path is the one of           *)
(* WritePath, which BatchWriter implements, and the cache the one of       *)
(* AnswerCache, which DistributedCache implements.                         *)
(***************************************************************************)
EXTENDS WritePath, AnswerCache

CONSTANTS
    Rank,            \* alphabetical position, the tie-break of _rank_key
    Matches,         \* the pairs <<p, q>> such that query q starts with p
    K,               \* TYPEAHEAD_TRIE_K, candidates kept per trie node
    MatchLimit,      \* limit of matching_prefix
    MaxSearches,     \* bound: searches accepted per query
    MaxScore         \* bound: levels of recency above min_score told apart

ASSUME ReadPathAssumption ==
    /\ IsFiniteSet(Queries)
    /\ Rank \in [Queries -> Nat]
    /\ \A q, r \in Queries : Rank[q] = Rank[r] => q = r
    /\ Matches \subseteq Prefixes \X Queries
    /\ K \in Nat \ {0}
    /\ MatchLimit \in Nat
    /\ NodeOf \in [Keys -> Nodes]
    /\ TTL \in Nat
    /\ Capacity \in Nat \ {0}
    /\ Loaded \in [Queries -> Nat]
    /\ MaxSearches \in Nat
    /\ MaxScore \in Nat \ {0}

VARIABLE score       \* the level of each recency score, 0 up to min_score

vars == <<waiting, inflight, flush, stored, index, score, cache>>

Init == /\ WriteInit
        /\ CacheInit
        /\ score = Zero

----------------------------------------------------------------------------
(* Ranking                                                                 *)

Under(p) == {q \in Queries : <<p, q>> \in Matches}

\* _rank_key: larger counts first, then alphabetical order.
Beats(q, r) == \/ index[q] > index[r]
               \/ index[q] = index[r] /\ Rank[q] < Rank[r]

\* Trie.candidates: the best K indexed queries under the prefix.
Candidates(p) ==
    {q \in Under(p) \intersect DOMAIN index :
        Cardinality({r \in Under(p) \intersect DOMAIN index : Beats(r, q)}) < K}

\* RecencyTracker.matching_prefix: what trends under the prefix, in the index
\* or not, the highest scores first; of equal levels any.
Trending(p) ==
    LET hot == {q \in Under(p) : score[q] > 0}
    IN  IF Cardinality(hot) <= MatchLimit THEN {hot}
        ELSE {some \in SUBSET hot :
                 /\ Cardinality(some) = MatchLimit
                 /\ \A q \in some, r \in hot : score[r] > score[q] => r \in some}

CountOf(q) == IF q \in DOMAIN index THEN index[q] ELSE 0

\* blend puts r before q whatever its weights are, none of them negative.
Outranks(r, q) == /\ score[r] > score[q]
                  /\ \/ CountOf(r) > CountOf(q)
                     \/ CountOf(r) = CountOf(q) /\ Rank[r] < Rank[q]

\* blend: the K best of a pool.
BestOf(pool) ==
    IF Cardinality(pool) <= K THEN {pool}
    ELSE {shown \in SUBSET pool :
             /\ Cardinality(shown) = K
             /\ \A q \in shown, r \in pool : Outranks(r, q) => r \in shown}

\* _rank: the queries it may return, and what it returns of each.
Rankings(p, mode) == IF mode = "basic" THEN {Candidates(p)}
                     ELSE UNION {BestOf(Candidates(p) \union hot) : hot \in Trending(p)}

Answer(shown, mode) ==
    [counts |-> [q \in shown |-> CountOf(q)],
     scores |-> [q \in shown |-> IF mode = "trending" THEN score[q] ELSE 0]]

----------------------------------------------------------------------------
(* Serving suggestions                                                     *)

BugSlidingTTL(p, mode) ==
    /\ Hit(<<p, mode>>)
    /\ cache' = [cache EXCEPT ![<<p, mode>>].age = 0]
    /\ UNCHANGED <<writeVars, score>>

\* suggest: a hit answers from the cache and changes nothing that matters here.
SuggestHit(p, mode) ==
    /\ Hit(<<p, mode>>)
    /\ UNCHANGED vars

\* A miss ranks, and caches all of the ranking.
SuggestMiss(p, mode) ==
    /\ ~ Hit(<<p, mode>>)
    /\ \E shown \in Rankings(p, mode) :
          Store(<<p, mode>>, Answer(shown, mode))
    /\ UNCHANGED <<writeVars, score>>

\* How often q was searched, the dataset's count included.
Accepted(q) ==
    stored[q] + waiting[q] + (IF flush = "apply" THEN inflight[q] ELSE 0)

\* search: the line is logged and the recency score rises at once.
Search(q) ==
    /\ Accepted(q) < Loaded[q] + MaxSearches
    /\ LogSearch(q)
    /\ \E level \in 1 .. MaxScore :
          /\ level >= score[q]
          /\ score' = [score EXCEPT ![q] = level]
    /\ UNCHANGED cache

\* Time passes: entries age,
Tick == Age /\ UNCHANGED <<writeVars, score>>

\* and, on a scale of its own, the recency scores decay, all by one factor:
\* some fall to a lower level, and none passes another.
Decay ==
    /\ score' \in [Queries -> 0 .. MaxScore]
    /\ \A q \in Queries : score'[q] <= score[q]
    /\ \A q, r \in Queries : score[q] < score[r] => score'[q] <= score'[r]
    /\ UNCHANGED <<writeVars, cache>>

----------------------------------------------------------------------------
(* The write path                                                          *)

StartFlush == TakeBatch /\ UNCHANGED <<score, cache>>

CommitBatch == CountBatch /\ UNCHANGED <<score, cache>>

ApplyError == GiveBack /\ UNCHANGED <<score, cache>>

BugInvalidateWhereShown ==
    {k \in Keys : Candidates(k[1]) \intersect Changed # {}}

BugInvalidateBasicOnly == {<<p, "basic">> : p \in {x \in Prefixes :
                              Under(x) \intersect Changed # {}}}

\* _invalidate_prefixes: every prefix of every changed query, in both modes.
Invalidated == {k \in Keys : Under(k[1]) \intersect Changed # {}}

\* _post_apply: upsert the index, drop the cached answers, all in one step of
\* the event loop.
PostApply ==
    /\ Publish
    /\ cache' = Without(Invalidated)
    /\ UNCHANGED score

\* A crash and the restart after it: recovery counts what was logged and not
\* counted, the index is loaded from the database, the cache is empty.
Restart ==
    /\ Reload
    /\ score' = Zero
    /\ cache' = Empty

Next == \/ \E p \in Prefixes, mode \in Modes : SuggestHit(p, mode)
        \/ \E p \in Prefixes, mode \in Modes : SuggestMiss(p, mode)
        \/ \E q \in Queries : Search(q)
        \/ Tick
        \/ Decay
        \/ StartFlush
        \/ CommitBatch
        \/ ApplyError
        \/ PostApply
        \/ Restart

Spec == Init /\ [][Next]_vars

\* The flushing task runs; a transaction that is tried again and again commits
\* in the end.  Nobody has to search or to ask for suggestions.
FairSpec == /\ Spec
            /\ WF_vars(StartFlush)
            /\ SF_vars(CommitBatch)
            /\ WF_vars(PostApply)

----------------------------------------------------------------------------
(* Properties                                                              *)

\* Every variable has the values the code can give it, and no cache node
\* outgrows its capacity.
TypeOK ==
    /\ waiting \in Counts
    /\ inflight \in Counts
    /\ flush \in {"idle", "apply", "commit"}
    /\ stored \in Counts
    /\ DOMAIN index \subseteq Queries
    /\ \A q \in DOMAIN index : index[q] \in Nat
    /\ score \in [Queries -> 0 .. MaxScore]
    /\ DOMAIN cache \subseteq Keys
    /\ \A k \in DOMAIN cache : Cardinality(Held(k)) <= Capacity
    /\ \A k \in DOMAIN cache :
          /\ DOMAIN cache[k] = {"answer", "age"}
          /\ cache[k].age \in 0 .. TTL
          /\ DOMAIN cache[k].answer = {"counts", "scores"}

\* "Suggestions reflect the new counts immediately after a flush": a basic
\* answer from the cache is the one a fresh ranking would give, at any time.
BasicNeverStale ==
    \A p \in Prefixes : Hit(<<p, "basic">>)
        => cache[<<p, "basic">>].answer = Answer(Candidates(p), "basic")

\* A trending answer from the cache may lag in its ranking, but it has only
\* current counts, an all-time candidate of the moment is missing only when the
\* answer is full, and what is not a candidate was trending at the ranking.
TrendingCountsCurrent ==
    \A p \in Prefixes : Hit(<<p, "trending">>)
        => LET answer == cache[<<p, "trending">>].answer
               shown == DOMAIN answer.counts
           IN  /\ \A q \in shown : answer.counts[q] = CountOf(q)
               /\ Candidates(p) \subseteq shown \/ Cardinality(shown) = K
               /\ \A q \in shown \ Candidates(p) : answer.scores[q] > 0

\* TTL bounds the age of the ranking, however often the entry is read: no step
\* replaces or rejuvenates an entry that can still be served.
NoSlidingTTL ==
    [][\A k \in Keys : Hit(k) /\ Hit(k)'
         => cache'[k].answer = cache[k].answer /\ cache'[k].age >= cache[k].age]_vars

\* Every search ends up in the counts that suggestions show, also the first
\* search for a query that no dataset contains.
EventuallySuggested ==
    \A q \in Queries : \A n \in 1 .. MaxSearches :
        Accepted(q) >= Loaded[q] + n ~> CountOf(q) >= Loaded[q] + n
============================================================================
