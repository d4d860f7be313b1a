--------------------------- MODULE RecencyTracker ---------------------------
(***************************************************************************)
(* The recency scores of app/ranking.py.  A search adds one to the score   *)
(* of its query, and scores halve once per half-life; the code keeps the   *)
(* score as of the last search and decays it when it reads it.  Beyond its *)
(* capacity the tracker drops the lowest scores.                           *)
(*                                                                         *)
(* A tick is one half-life.  Scores are in units of 2^-Horizon, in which   *)
(* every halving is exact as long as the clock runs forward.  It is the    *)
(* clock of the wall, which may be set back; a score that then is halved   *)
(* more often than Horizon times is rounded down.  The half-life is a      *)
(* positive one; the code forgets all scores at once for any other.        *)
(***************************************************************************)
EXTENDS Naturals, FiniteSets, Functions

CONSTANTS
    Queries,         \* normalised query texts
    Rank,            \* alphabetical position, the tie-break of the sorts
    TrendingCapacity,\* TYPEAHEAD_TRENDING_CAP, queries tracked
    MinScore,        \* min_score of matching_prefix, in units
    MatchLimit,      \* limit of matching_prefix
    Horizon          \* bound: the last time of the clock

VARIABLES
    score,           \* _State.score of the tracked queries
    updated,         \* _State.updated of the tracked queries
    now,             \* the clock
    exact            \* bookkeeping: the scores, halved at every tick, but of
                     \* the queries whose score saw the clock set back

recencyVars == <<score, updated, now, exact>>

Tracked == DOMAIN score
Nothing == [q \in {} |-> 0]

\* What n half-lives divide a score by.
Power[n \in Nat] == IF n = 0 THEN 1 ELSE 2 * Power[n - 1]

\* weight of record, 1.0, in units.
Weight == Power[Horizon]

Init == /\ score = Nothing
        /\ updated = Nothing
        /\ now = 0
        /\ exact = [q \in Queries |-> 0]

BugWithoutDecay(value, since) == value

\* _decay_factor applied to a score that was computed at time `since`, which is
\* in the future when the clock has been set back.
Decay(value, since) ==
    IF now <= since THEN value ELSE value \div Power[now - since]

\* score(q): 0 if never seen.
Score(q) == IF q \in Tracked THEN Decay(score[q], updated[q]) ELSE 0

\* _prune: which queries may survive, given their current scores.  Among equal
\* ones the order of the dict decides; here any choice.
Survivors(f) ==
    {kept \in SUBSET DOMAIN f :
        /\ Cardinality(kept) = TrendingCapacity
        /\ \A q \in kept, r \in DOMAIN f \ kept : f[q] >= f[r]}

\* The queries in `kept` stay tracked, with these scores as of these times.
Keep(kept, scores, times) ==
    /\ score' = Restrict(scores, kept)
    /\ updated' = Restrict(times, kept)

Put(f, q, value) ==
    [r \in DOMAIN f \union {q} |-> IF r = q THEN value ELSE f[r]]

\* record of a tracked query: decay the old score up to now, add the weight.
RecordAgain(q) ==
    /\ q \in Tracked
    /\ score' = [score EXCEPT ![q] = Score(q) + Weight]
    /\ updated' = [updated EXCEPT ![q] = now]
    /\ exact' = [r \in DOMAIN exact |-> exact[r] + (IF r = q THEN Weight ELSE 0)]
    /\ UNCHANGED now

BugUndecayed(q) == Put(score, q, Weight)

\* What _prune sorts by, with q just recorded.
Current(q) == Put([r \in Tracked |-> Score(r)], q, Weight)

\* record of a query not tracked, and the prune when that is one too many.
RecordNew(q) ==
    /\ q \notin Tracked
    /\ \E kept \in IF Cardinality(Tracked \union {q}) > TrendingCapacity
                   THEN Survivors(Current(q)) ELSE {Tracked \union {q}} :
          /\ Keep(kept, Put(score, q, Weight), Put(updated, q, now))
          /\ exact' = [r \in DOMAIN exact \union (Queries \ kept) |->
                          IF r \in kept THEN Put(exact, q, Weight)[r] ELSE 0]
    /\ UNCHANGED now

Record(q) == RecordAgain(q) \/ RecordNew(q)

\* A half-life passes; the tracker does nothing.
Tick == /\ now < Horizon
        /\ now' = now + 1
        /\ exact' = [q \in DOMAIN exact |-> exact[q] \div 2]
        /\ UNCHANGED <<score, updated>>

\* The clock is set back.  What halving would make of that is not defined.
ClockBack == /\ now' \in 0 .. Horizon
             /\ now' < now
             /\ exact' = [q \in Queries \ Tracked |-> 0]
             /\ UNCHANGED <<score, updated>>

\* A new process starts with an empty tracker.
Forget == /\ score' = Nothing
          /\ updated' = Nothing
          /\ exact' = [q \in Queries |-> 0]
          /\ UNCHANGED now

\* The sort key of top and matching_prefix.
Hotter(q, r) == \/ Score(q) > Score(r)
                \/ Score(q) = Score(r) /\ Rank[q] < Rank[r]

\* matching_prefix over the queries that start with the prefix.
Matching(some) ==
    LET hot == {q \in Tracked \intersect some : Score(q) > MinScore}
    IN  {q \in hot : Cardinality({r \in hot : Hotter(r, q)}) < MatchLimit}

\* top: the n hottest.
Top(n) == {q \in Tracked : Cardinality({r \in Tracked : Hotter(r, q)}) < n}

\* The tracked queries have both parts of their state, at most as many as the
\* configured capacity, and only those that saw the clock set back can be from
\* the future.
TrackerTypeOK ==
    /\ Tracked \subseteq Queries
    /\ Cardinality(Tracked) <= TrendingCapacity
    /\ score \in [Tracked -> Nat]
    /\ updated \in [Tracked -> 0 .. Horizon]
    /\ now \in 0 .. Horizon
    /\ exact \in [DOMAIN exact -> Nat]
    /\ Queries \ Tracked \subseteq DOMAIN exact
    /\ DOMAIN exact \subseteq Queries
    /\ \A q \in Tracked \intersect DOMAIN exact : updated[q] <= now

\* "Apply the decay lazily": whenever it is read, a score is what halving all
\* scores at every tick would have given, for searches since the last drop; and
\* a clock that was set back does not make it more than its last search left.
LazyDecayExact ==
    /\ \A q \in DOMAIN exact : Score(q) = exact[q]
    /\ \A q \in Tracked : Score(q) <= score[q]
============================================================================
