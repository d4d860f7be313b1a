------------------------------ MODULE Ranking ------------------------------
(***************************************************************************)
(* The two sources of a trending answer side by side (app/service.py): the *)
(* index of PrefixIndex, which learns of a search when a flush has counted *)
(* it, and the scores of RecencyTracker, which learn of it at once.        *)
(*                                                                         *)
(* The write path between them is the one of BatchWriter, here as what it  *)
(* shows of itself in memory: the searches not counted yet, and the batch  *)
(* in a transaction.  After a restart that batch is what recover() replays.*)
(***************************************************************************)
EXTENDS PrefixIndex

CONSTANTS
    TrendingCapacity, MinScore, MatchLimit, Horizon,   \* see RecencyTracker
    PanelSize,       \* n of /trending
    MaxSearches      \* bound: searches in a behaviour

ASSUME RankingAssumption ==
    {TrendingCapacity, MinScore, MatchLimit, Horizon, PanelSize, MaxSearches}
        \subseteq Nat

VARIABLES
    score, updated, now, exact,    \* see RecencyTracker
    serving,         \* is start-up complete
    pending,         \* the searches for each query that no flush has taken
    batch,           \* those in the transaction of a flush or of recover
    searches         \* how many searches there were

recencyVars == <<score, updated, now, exact>>
vars == <<indexVars, recencyVars, serving, pending, batch, searches>>

Recency == INSTANCE RecencyTracker

\* A search just made is above the threshold of matching_prefix: 1.0 and 1e-3.
ASSUME MinScoreAssumption == MinScore < Recency!Weight

Zero == [q \in Queries |-> 0]

Plus(f, g) == [q \in Queries |-> f[q] + g[q]]

RankingInit == /\ Init
               /\ Recency!Init
               /\ serving = FALSE
               /\ pending = Zero
               /\ batch = Zero
               /\ searches = 0

\* Requests are served, and no handler of the event loop is half done.
Idle == serving /\ Ready /\ todo = None

\* submit: logged and buffered, and trending at once.
Search(q) ==
    /\ Idle
    /\ searches < MaxSearches
    /\ searches' = searches + 1
    /\ pending' = [pending EXCEPT ![q] = @ + 1]
    /\ Recency!Record(q)
    /\ UNCHANGED <<indexVars, serving, batch>>

\* A flush takes what is pending; searches go on during its transaction.
StartFlush ==
    /\ Idle
    /\ batch = Zero
    /\ pending # Zero
    /\ batch' = pending
    /\ pending' = Zero
    /\ UNCHANGED <<indexVars, recencyVars, serving, searches>>

\* Its transaction fails: the next flush takes the same searches again.
ApplyError ==
    /\ Idle
    /\ batch # Zero
    /\ pending' = Plus(pending, batch)
    /\ batch' = Zero
    /\ UNCHANGED <<indexVars, recencyVars, serving, searches>>

\* The counts that apply_batch read back: old ones plus the batch.
NewCounts == [q \in {r \in Queries : batch[r] > 0} |-> CountOf(q) + batch[q]]

\* The batch is committed, and _post_apply of a flush or recover at start-up
\* begins to upsert.
Publish ==
    /\ batch # Zero
    /\ PostApply(NewCounts)
    /\ batch' = Zero
    /\ UNCHANGED <<recencyVars, serving, pending, searches>>

\* Start-up: one list after the other.  After a commit: one upsert after the
\* other.
IndexStep ==
    /\ \/ \E p \in Nodes : BuildTop(p)
       \/ \E q \in Queries : Upsert(q)
    /\ UNCHANGED <<recencyVars, serving, pending, batch, searches>>

\* The index is built and the log replayed into it.
Serve ==
    /\ ~ serving
    /\ Ready
    /\ todo = None
    /\ batch = Zero
    /\ serving' = TRUE
    /\ UNCHANGED <<indexVars, recencyVars, pending, batch, searches>>

\* Time passes, or the clock is set back; nothing half done looks at it.
TimePasses ==
    /\ Idle
    /\ Recency!Tick \/ Recency!ClockBack
    /\ UNCHANGED <<indexVars, serving, pending, batch, searches>>

\* load_all: the counts in the table, those on their way to the index and those
\* of a batch that has committed included.
StoredRows(committed) ==
    [q \in DOMAIN word \union DOMAIN todo \union {r \in Queries : committed[r] > 0} |->
        (IF q \in DOMAIN todo THEN todo[q] ELSE CountOf(q)) + committed[q]]

\* A crash and the restart after it: the scores are gone, load_index reads the
\* table, and then recover replays what had not been committed into the index.
Restart ==
    /\ \E committed \in {Zero, batch} :
          /\ Reload(StoredRows(committed))
          /\ batch' = [q \in Queries |-> pending[q] + batch[q] - committed[q]]
    /\ pending' = Zero
    /\ serving' = FALSE
    /\ Recency!Forget
    /\ UNCHANGED searches

RankingNext == \/ \E q \in Queries : Search(q)
               \/ StartFlush
               \/ ApplyError
               \/ Publish
               \/ IndexStep
               \/ Serve
               \/ TimePasses
               \/ Restart

RankingSpec == RankingInit /\ [][RankingNext]_vars

----------------------------------------------------------------------------
\* _rank, trending: the candidates of the prefix and what trends under it,
\* before blend orders them.
Pool(p) == DOMAIN top[p] \union Recency!Matching(Under[p])

\* trending, the panel of the n hottest queries with their counts.
Trending(n) == [q \in Recency!Top(n) |-> CountOf(q)]

(* Properties                                                              *)

\* Index, tracker and the counts between them have the values the code can
\* give them; neither list nor tracker outgrows its capacity.
TypeOK ==
    /\ IsTable(word)
    /\ \A p \in Nodes : IsTable(top[p]) /\ Cardinality(DOMAIN top[p]) <= K
    /\ built \subseteq Nodes
    /\ IsTable(todo)
    /\ Recency!TrackerTypeOK
    /\ serving \in BOOLEAN
    /\ {pending, batch} \subseteq [Queries -> 0 .. MaxSearches]
    /\ searches \in 0 .. MaxSearches

\* "Apply the decay lazily": a score that is read equals the one halved at
\* every tick, whatever was searched, read and dropped in between; a clock that
\* is set back raises no score.
LazyDecayExact == Recency!LazyDecayExact

\* The searches for q that the index does not know of, nor is being told.
Uncounted(q) == pending[q] + batch[q]

\* "Trending reflects activity immediately, before the count is flushed": what
\* was searched is in the pool of each of its prefixes at once, even if no
\* index knows it, unless others score as high, as many as the tracker or the
\* match limit has places for.
SurgeIsShown ==
    [][\A q \in Queries : Uncounted(q)' > Uncounted(q) =>
          LET others == {r \in Recency!Tracked' \ {q} :
                            Recency!Score(r)' >= Recency!Score(q) + Recency!Weight}
          IN  \A p \in Nodes : q \in Under[p] =>
                 \/ q \in Pool(p)'
                 \/ Cardinality(others) >= TrendingCapacity
                 \/ Cardinality(others \intersect Under[p]) >= MatchLimit]_vars

\* The trending panel shows a count of 0 only for a query whose searches all
\* wait for a flush or are in one: after that the index knows it.
ZeroCountIsNew ==
    LET panel == Trending(PanelSize)
    IN  \A q \in DOMAIN panel :
            panel[q] = 0 => Uncounted(q) > 0 \/ q \in DOMAIN todo
============================================================================
