# Formal model of hld-typeahead

This directory holds a TLA+ model of the search typeahead service in `app/`:
modules, TLC configurations, and machine-checked proofs (TLAPS). It covers the
write path with and without its log, the dataset loader beside it, what `/suggest`
and `/trending` answer, the index and the recency scores behind them, the
distributed cache with its hash ring, and the search box in the browser.
Section 5 says what is left out, and why.

    tlc -workers 4 -config BatchWriter_masked.cfg MCWritePath   # one run
    tlapm BatchWriter_proofs.tla                                # one proof

## 1. The system and its parts

A FastAPI process serves `/suggest` and `/search` on one asyncio event loop.
Searches are aggregated in memory and flushed to SQLite in batches; suggestions
come from a cache, and on a miss from an in-memory index.

| part | state it keeps | operations | interacts with |
|---|---|---|---|
| **BatchWriter** (`batch_writer.py`) | `_buffer`, live log `buffer.wal`, segments `buffer.wal.seg.N`, `_seg_seq`, the asyncio lock, loop task, size-triggered task | `submit`, `flush`, `_run`, `recover`, `start`, `stop` | Storage (in a worker thread), Trie, cache, RecencyTracker |
| **Storage** (`storage.py`) | SQLite tables `queries`, `meta` | `apply_batch`, `bulk_replace`, `load_all`, `get_meta_int` | called by BatchWriter, the loader, start-up |
| **SuggestionService** (`service.py`) | none of its own | `suggest`, `_rank`, `search`, `trending`, `load_index`, `cache_debug` | all parts |
| **DistributedCache, CacheNode** (`cache.py`) | per node an LRU map with expiry times | `get`, `set`, `invalidate_all_modes`, `clear`, `debug` | ring for placement |
| **ConsistentHashRing** (`consistent_hash.py`) | sorted points, labels, nodes | `add_node`, `remove_node`, `locate` | cache |
| **Trie** (`trie.py`) | counts, per-node top-K lists | `bulk_load`, `upsert`, `candidates`, `get_count` | BatchWriter writes, service reads |
| **RecencyTracker, blend** (`ranking.py`) | decayed score per query | `record`, `matching_prefix`, `scores_for`, `top`, `_prune`; `blend` | `submit` writes, `_rank` reads |
| **Metrics** (`metrics.py`) | counters, latency window | `record_*`, percentiles | |
| **main.py** | lifecycle of the process | start: `load_index`, `recover`, `start`; end: `stop` | |
| **app.js** | input, timer, `reqSeq`, `searchSeq`, suggestions, active index | typing, debounce, answers, keys | HTTP |
| **load_dataset.py** | the table it replaces | parse, `bulk_replace`, reset of log and watermark | Storage |
| scripts, page, settings | none worth a model | | |

What is hard, and what makes each part correct:

* **Write path.** Three tasks flush (the loop, a full buffer, shutdown) and
  share a lock; searches arrive between the two awaits of a flush; the process
  can die at any point; each file or database operation can fail. Correct: every
  acknowledged search is counted once, in order, and finally; shutdown ends and
  drains.
* **Read path.** The index and the cache are copies. Correct: a cached answer is
  what ranking would answer, as far as the design promises it; every search
  finally shows.
* **Cache.** LRU and TTL interact, several modes of a prefix sit on different
  nodes. Correct: nothing dead is served, nothing in use is thrown out early.
* **Ring, trie, recency.** Algorithms whose incremental form must equal a simple
  definition (minimal movement, exact top-K, bounded set of scores).
* **Browser.** Answers arrive out of order, and a debounce timer runs between.

`PROJECT.json` lists every hazard with its line and the properties that watch it.

## 2. The modules

| module | models | role |
|---|---|---|
| `SearchCounter` | what the write path promises | abstract specification |
| `WritePath` | log, batch, stored counts and index as counters per query | abstract specification, and the write side of `ReadPath` |
| `BatchWriter` | `batch_writer.py`, `Storage.apply_batch`, `lifespan` | detailed; implements `SearchCounter` |
| `MCBatchWriter` | | four searches for three queries |
| `WritePathMapping` | | `BatchWriter` implements `WritePath` |
| `MCWritePath` | | the instance of `MCBatchWriter` on top of a dataset |
| `BatchWriter_proofs` | | theorems about `BatchWriter` and the mapping |
| `AnswerCache` | `get`, `set`, invalidation and expiry, without the order of accesses | abstract specification, and the cache of `ReadPath` |
| `ReadPath` | `suggest`, `_rank`, cache and index beside a condensed write path | composes service and recency with `AnswerCache` and `WritePath` |
| `MCReadPath`, `ReadPath_proofs` | | instance, theorems |
| `DistributedCache` | `cache.py` with the exact order of accesses | detailed; implements `AnswerCache` |
| `MCDistributedCache`, `DistributedCache_proofs` | | instance, theorems |
| `SearchBox` | `app.js`, without its two panels | |
| `MCSearchBox`, `SearchBox_proofs` | | instance, theorems |
| `PrefixIndex` | `trie.py`: `bulk_load`, `upsert`, the list of each node | the index alone |
| `RecencyTracker` | `record`, `_prune`, `score`, `top`, `matching_prefix` of `ranking.py` | the scores alone |
| `Ranking` | `submit`, `_post_apply`, `load_index`, `trending`, the pool of `_rank` | composes the two with the searches no flush has counted |
| `MCRanking`, `Ranking_proofs` | | instance, theorems |
| `ConsistentHashRing` | `consistent_hash.py` | |
| `MCConsistentHashRing`, `ConsistentHashRing_proofs` | | instance, theorems |
| `NoWalWriter` | `_flush_no_wal` and the same tasks with `TYPEAHEAD_WAL=0` | |
| `MCNoWalWriter`, `NoWalWriter_proofs` | | instance, theorems |
| `DatasetLoad` | `load_dataset.py` from the removal of the log on, `bulk_replace`, `set_meta` | extends `BatchWriter` |
| `MCDatasetLoad`, `DatasetLoad_proofs` | | instance, theorems |

Definitions whose name begins with `Bug` are no part of a model. Each is the
definition after it with one plausible mistake; substituting it makes TLC find a
named property violated, which shows that the property can fail.

### BatchWriter

Every search is one log line, named by its arrival number; `applied[s]` says how
often line `s` is in `queries.count`. A count per query would hide a lost search
behind a double one. The sum for a query is the sum over its lines times the
configured increment.

| variable | code |
|---|---|
| `applied`, `watermark` | `queries.count`, `meta.last_flush_seq` |
| `live`, `seg` | lines of `buffer.wal` and of `buffer.wal.seg.N` |
| `buffer`, `walOpen`, `segSeq` | `_buffer`, whether `_wal_file` is open, `_seg_seq` |
| `pc` | loop (`run`), size-triggered task (`size`), final flush (`stop`): off, asleep, wanting the lock, before the commit, after it, returned |
| `job` | the locals of the flush inside the lock |
| `index` | the counts in the trie |
| `phase` | down, recovering, serving, stopping |

An action is what runs between two points where something else can happen: an
`await`, a commit, or the death of the process. `StartFlush` is `_flush_wal` up to
`asyncio.to_thread`, `CommitBatch` the transaction in the worker thread,
`FinishFlush` the rest. `Recover` and `FinishRecovery` are the two sides of the
commit in `recover`. Six kinds of failure have their own actions: `crash`
(also half-way through the unlinking), `recoverCrash`, `applyError` (before the
commit), `readbackError` (after it), `removeError`, `rotateError`.

Choices worth knowing: the server answers its requests before `stop` runs, so
nothing is submitted while stopping; the lock admits waiting tasks in any order
(asyncio is FIFO, so this allows more); an `apply_batch` that fails before its
commit leaves no open transaction behind (SQLite rolls back on the errors that
occur there); a `recover` whose transaction raises keeps the process down, which
is the state before `Recover`; statistics and `_flush_seq`, which nothing reads
but the statistics, are left out.

### WritePath and its mapping

Per query, how many searches wait in the log (`waiting`), are in the batch of the
running flush (`inflight`), are stored and are indexed; `flush` is idle, before the
commit or after it. A process that ends is up again at once (`Reload`). `ReadPath`
extends this module and uses its actions.

`WritePathMapping` reads these counters off the state of `BatchWriter`. A counter is
a sum over searches, so a search counted twice shows. What waits is
`ReplayedLines`, what a recovery would replay, without the batch a flush has taken;
so a line that no recovery would find is not waiting. While no process runs, the
index is the one that the next process will load. The replay of `Recover` maps to
`Reload`, and so a crash maps to nothing, to a failed transaction or to the end of
the flush, by how far the flush has come.

### ReadPath and AnswerCache

The cache maps (prefix, mode) to what determines an answer and to its age: the
queries shown, with the counts and scores they were ranked by. The basic mode shows
the top K under the prefix by `_rank_key`. The trending mode blends; its logarithms
and weights are replaced by what they respect for any non-negative weights: a query
with a higher score than another and at least its count (at equal counts, a
tie-break in its favour too) comes first. Any K of the pool that respect this may be
shown. Of a recency score only its level counts, 0 for up to `min_score`: a search
may raise it to any level, `Decay` lowers all in order, and two scores of one level
may be in either order, in the blend and at the limit of `matching_prefix`. The
write path is that of `WritePath`; `Search`, `PostApply` and `Restart` say what its
steps do to scores and cache besides. Placement is the constant `NodeOf`. Which
entry of a full node goes is left open in `AnswerCache`: any one but that just set.
It is exact in `DistributedCache`. The index is taken as the counts it has, with
candidates by definition, which `PrefixIndex` shows the incremental lists to be;
`_prune` and exact scores are in `RecencyTracker`.

### DistributedCache

A node's `OrderedDict` is, for each stored key, the set of keys moved to the end
after it: order without sequences. Times are relative (ticks left), so the state
space is finite with no bound on time. Two variables are bookkeeping: `due` says
for how long the last set of a key still counts, `since` which keys of its node
were used after it. Values are left out; `Entries` gives `AnswerCache` one answer for
all keys, and the ages that go with the ticks left (`TTL - left`).

### SearchBox

One action is one run of an event handler, or the part of an `async` function
between two `await`s. Requests are records in `asked` and numbers in `posted`;
any of them may be answered or fail at any time, in any order, and the list in an
answer is any of `Lists`, since the counts behind it change. `content` is what was
rendered last, which may differ from `suggestions` (the spinner over an older
list). The timer has no duration: it fires some time after the last input event.
`shown` and `sought` are bookkeeping: the request answered last, and whether the
text in the input was typed or asked for, not written by a search. The mode buttons
are outside `#searchbox`, so the document's click listener closes the box that
their own listener has just opened; the answer opens it again. Two things that no
comment speaks about can be read off the model: Enter during the spinner submits
the selected item of the older list, which is not on the page any more, and
ArrowUp without a selection goes to the last item but one. Left out: the trending
and metrics panels, the status line, and what only assistive technology reads.

### PrefixIndex, RecencyTracker, Ranking

A trie node is named by its prefix, a query by the node it ends at; a list is the
map from its queries to their counts, because the code sorts it by a total order
after every change. `BuildTop` is one step of the post-order walk of `bulk_load`,
`Upsert` one call of `upsert`: the count, then every list on the path, each looking
only at its own entries. `todo` is what `_post_apply` has still to upsert.
`ListsExact` compares with sorting all the counts below a node, also half-way
through a batch. It needs counts that never shrink (the guard of `PostApply`), as the
docstring of `upsert` says.

A tick of `RecencyTracker` is one half-life and the unit of a score is `2^-Horizon`,
so every halving is exact and integers suffice. Scores between two half-lives are
left out (they are real numbers), and so is a half-life of zero or less, with which
the code forgets at once. `exact` is bookkeeping, the scores halved eagerly at every
tick. The code reads the wall clock, which `ClockBack` sets back: a score that is
newer than the clock is not decayed, and what is in `exact` of a query that saw this
is no longer defined. Such a score may be halved more than `Horizon` times later,
and is then rounded down. Which of equally low scores `_prune` drops depends on the
order of a `dict`; any choice is allowed here.

`Ranking` puts both behind `submit` and `_post_apply`: a search is trending at once
and counted later. A search goes from `pending` to the `batch` of a transaction,
during which others arrive, and from there by `Publish` into `todo`; a transaction
that fails gives the batch back. Nothing is submitted between two upserts of a batch,
since `_post_apply` does not await. `Restart` follows `lifespan`: `load_index` builds
from the rows stored, in which the batch is or is not, then `recover` upserts what it
replays (the new `batch`) into the built index, and only then `Serve` opens the
door. That nothing is lost or doubled on the way is shown of `BatchWriter` and
assumed here. At capacity the comment at
`ranking.py:137` ("exactly the ones that can ever appear") is too strong: with ties
at the edge, what is dropped may be the query just recorded, and `SurgeIsShown`
excepts that case.

### ConsistentHashRing

The sorted arrays of points and labels are one map from a point to its label; the
hash is any function, so labels may collide, and the label that is nudged keeps its
point when the one it gave way to leaves. `PlaceReplica` is one round of the loop of
`add_node`. `Nudges` bounds how often one label may be nudged.

### NoWalWriter

The tasks and the lock are those of `BatchWriter`; `buffer` counts, because a batch
that failed after its commit is put back and counted again. That failure is in
(`ReadBackError`, remembered by `reread`). `lost` names the searches that were only in
memory when a process ended, which this mode does not promise to keep; `failed` says
whether the last transaction of the running process failed.

### DatasetLoad

`EXTENDS BatchWriter` and adds the loader's steps on the same files and tables:
`RemoveLive`, `RemoveSegment`, `BulkReplace` (one transaction), `ResetWatermark`
(another), and `LoaderDies` between any two. The server's steps are `BatchWriter!Next`,
barred while the loader runs with the server down. `gone` names the searches whose
counts went with the old table, `old` those accepted before the last load started.

## 3. The runs

| run | configuration | shows |
|---|---|---|
| `write_path_promises` | `BatchWriter_masked.cfg` | with crashes while serving and failed transactions: `BatchWriter` implements `SearchCounter` and `WritePath`, whose index has the stored counts; a clean stop drains |
| `write_path_failures` | `BatchWriter_faults.cfg` | with all six kinds, up to three failures: types, no loss, lines in one file, counting in order, buffer mirrors the live log, unlink only under the watermark; every search is counted but for what a failed rotation strands; every shutdown ends |
| `suggestions_coherent` | `ReadPath_safe.cfg` | cached basic answers equal a fresh ranking; trending ones have current counts; reading does not prolong an entry; every search finally shows in the counts |
| `lru_with_ttl` | `DistributedCache_safe.cfg` | nothing dead is served; the LRU guarantee; capacity per node; implements `AnswerCache` |
| `search_box` | `SearchBox_safe.cfg` | no older answer replaces a newer one; at rest the list is for the text typed and the mode selected; what stays in the input is answered, with a list or an error |
| `ranking` | `Ranking.cfg` | the incremental lists are exact; lazy decay equals eager decay; a count of 0 in the panel only for what no flush has published; a surge is in the trending pool at once (a trending answer in the cache may lag until a flush or the TTL, and the blend may still cut it) |
| `ring` | `ConsistentHashRing.cfg` | no replica is dropped by a collision; a key moves only to who joins or from who leaves |
| `without_log` | `NoWalWriter.cfg` | re-buffering neither loses nor doubles; a shutdown gives up only what its last failed transaction held; the rest is counted |
| `dataset_load` | `DatasetLoad.cfg` | with crashes, failed transactions and failed rotations: no search from before a load enters the new table, none after it is lost, none is counted twice |
| `crash_in_recovery` | `BatchWriter_recovercrash.cfg` | *violated*, finding 1 |
| `failure_after_commit` | `BatchWriter_readback.cfg` | *violated*, finding 2 |
| `failed_rotation_sticks` | `BatchWriter_rotate.cfg` | *violated*, finding 3 |

**Bounds.** Four searches with a batch size of two distinct queries give two full
windows, a repeated query within a window, and a search left over that only the loop
or the shutdown takes. Three failures are enough for a failed flush, a crash before
its retry, and one more; numbers of segments and the watermark are bounded by the
searches. In `ReadPath` K = 1 makes a flush change what is shown, and two queries
under one prefix let a trending one push the candidate out; TTL 2 lets an entry age
and be read before it expires; `MaxScore` is the number of levels above `min_score`
told apart, `MaxSearches` caps the searches per query. `DistributedCache` has six
keys on two nodes with room for two each and needs no further bound. `SearchBox` has
three requests, so that an answer is neither the oldest nor the newest, and two
searches; lists of length 0, 1 and 2 let a selection outlive its list; the texts
include a blank one and two that `trim` makes equal. A running timer has a request
of the bound reserved, so the bound never keeps it from firing. `Ranking` has three
queries, one of them a prefix of the others, and lists and tracker with room for
two: every table over them is loaded, three searches (`MaxSearches`) let a query
that was cut out come back, and two half-lives (`Horizon`, the last time of the
clock) age scores twice, or more after the clock was set back. The ring has three
nodes with two points each on eight places, with labels that collide on the first
and on the nudged hash. `NoWalWriter` has a batch size of one, so that a second
window fills during the first one's transaction, and three failures. `DatasetLoad`
has three searches and two loads (`MaxLoads`), the second one after an incomplete
first.

**Fairness.** `BatchWriter!FairSpec`: weak fairness of each step the event loop or
the worker thread takes once it can (`StartFlush`, `FlushNothing`, `CommitBatch`,
`FinishFlush` per task, `Tick`, `Discard`, `StopFlush`, `StopDone`), and of
`Recover` and `FinishRecovery`, which assume that somebody restarts the service.
No client, operator or failure is obliged to act. Weak fairness per task
suffices although tasks compete for the lock, since only boundedly many flushes
find anything to do. `NoWalWriter!FairSpec` is the same without recovery; nobody has
to restart, because a search whose process ended is lost. `ReadPath!FairSpec` asks
strong fairness of `CommitBatch`: there failures are not counted, so a transaction
tried again and again has to commit in the end. `SearchBox!FairSpec`: the timer
fires and every request resolves (`fetch` ends with an answer or an error); no user
has to act.

### Findings

1. **A crash inside `recover` counts the live log twice** (`batch_writer.py:153`).
   The replay commits under a fresh number; the live log itself has no number and
   is removed last.
2. **`apply_batch` raising after its commit counts a batch again**
   (`batch_writer.py:260`). A flush takes every segment, also those the watermark
   covers. The read-back `SELECT` uses one parameter per query and raises when
   SQLite allows fewer.
3. **A failed rotation is not retried** (`batch_writer.py:250`): the buffer is
   cleared first, so later flushes find nothing to rotate, and `_wal_file` stays
   closed until a restart. `CountedUnlessStranded` says that nothing else waits.

All three were also reproduced by running the code. Met while modelling, and left to
reading:

* A buffer that fills while the earlier size-triggered flush is in its transaction
  gets no flush of its own (`batch_writer.py:211`, against the docstring at 189) and
  waits for the next tick. It is counted all the same.
* Without the log, a `stop` whose final flush fails logs "data is safe in the WAL"
  (`batch_writer.py:174`). There is none, and `StopKeeps` has to except that case.
* `run.sh` loads the dataset "if empty" (line 3) but tests only whether the file is
  there (line 20). `Storage()` creates it, so after a loader that died early the
  server starts with what is there, and no later start loads anything. The files
  are consistent (`FreshNotPolluted`, `NoLossSinceLoad`).
* `load_dataset --db other.db` removes the log of the configured database.
* A blank input returns before `reqSeq` advances, so the answer of the earlier
  request opens the box again under an empty input (`app.js:107`, `app.js:114`).
* A late failure of an older search overwrites the status of the newer one, in the
  only branch without a check of the sequence number (`app.js:184`);
  `aria-activedescendant` keeps naming an item after a new list or the mouse has
  moved the selection (`app.js:116`, `app.js:251`).
* `/cache/debug` reports an entry that has expired and was not read since as present
  (`cache.py:182`).

## 4. What is proved

`BatchWriter_proofs`, for every set of searches, every `MaxSize`, and every number
of failures of every kind:

* `TypeCorrect`, `NothingLost`, `LinesInOneFile`, `InArrivalOrder`, `BufferIsLive`,
  `UnlinkedWhenCovered`. They follow from the inductive `Inv == Base /\ NoLoss /\
  CountedInOrder`. `Base` is what holds of files, database and memory whichever
  searches the database has, so that `DatasetLoad_proofs` can use it after the table
  was replaced: lines on disk belong to acknowledged searches and segments hold older
  lines than the live log (`LinesAccepted`); `segSeq` bounds every number in use, so a
  new segment's number is fresh (`NumbersBounded`); the lock has one holder whose job
  is what is on disk and, after the commit, is counted and covered by the watermark
  (`JobExact`); what the watermark covers is counted (`CoveredCounted`), also between
  the halves of recovery (`ReplayCounted`). Without `JobExact` the unlinking in
  `FinishFlush` could drop a line that was never counted. `NoLoss` then follows from
  `KeepsAll`: a step leaves every search counted or on disk that was.
* `CountedOnce`, `IndexIsStore` and `ExactlyOnce` (BatchWriter implements
  SearchCounter) under the assumption `Faults \subseteq HarmlessFaults`: crashes while
  serving, failed transactions, and failed rotations, which delay what they strand
  but move no counted line. `OnceInv` adds that a line which will still be applied
  has not been counted yet; findings 1 and 2 are ways to break it, and so is a
  failed unlink, which leaves segments that the next flush takes although the
  watermark covers them. `IndexInv` says that the trie lacks at most the batch of
  the flush that has just committed. (On a run the index is checked by `ImplementsWritePath`.)
* `ImplementsPath` (BatchWriter implements WritePath), for every dataset, under
  `Faults \subseteq MaskedFaults`; a failed rotation leaves lines waiting that the next
  flush does not take. `LinkInv` adds to the three invariants that the log is open,
  that a flush that is over leaves no batch, that `stop` flushes only after the
  loop has ended, and that the trie counts no search twice. Where each search is
  counted at most once, a sum is the size of a set of searches (`TallyOfOnes`), and
  each step moves a set of searches from one stage to the next (`Stages`): the
  lemmas `SubmitLogs` to `RecoverReloads` are one per step of `WritePath`. That a
  crash after the commit publishes the batch needs `IndexInv`: what the next process
  loads is what `_post_apply` would have put into the index (`IndexAfterBatch`).
* `ShutdownDrains`, from `DrainInv`: as long as nothing has failed, segments exist
  only while a flush is inside the lock, no line outlives its process, and the live
  log stays empty once the flush of `stop` has rotated it.

`DatasetLoad_proofs`, for any number of loads that die anywhere: `LoadTypeCorrect`,
`DatasetStaysClean`, `NothingLostSinceLoad`, and, under the same assumption,
`CountedOnceBesideLoads` (for `HarmlessFaults`). `LoadInv` adds to `Base` that the
loader is alone while it works, that the segments it has still to remove are all
there are (`LoaderAlone`), and that a dropped search is in no job either, from which
a flush could bring it back (`Clean`).

`NoWalWriter_proofs`, for any number of failures: `TypeCorrect`,
`NothingLostOrDoubled`, `ShutdownKeeps`. `Inv` adds that no task outlives its process,
and that once the flush of `stop` has begun nothing fills the buffer but a
transaction that fails (`StopFlushes`).

`ReadPath_proofs`, for every set of queries and prefixes, K, TTL and capacity:
`TypeCorrect`, `BasicCoherent`, `TrendingCoherent`, `AnswersExpire`, `WritesAlone`
(seen without cache and scores, `ReadPath` is `WritePath`) and `CacheAlone` (seen
without the rest, its cache is an `AnswerCache` that is filled with rankings of the
moment). `BatchWriter` implements the first of these specifications
(`ImplementsPath`) and `DistributedCache` the second (`IsAnswerCache`), so what
`ReadPath` says of suggestions rests on the detailed modules. The two theorems about
coherence follow from `CacheExact`, which holds of every entry also after it has
expired. It is inductive because `_invalidate_prefixes` drops every prefix of every
changed query, shown there or not.

`Ranking_proofs`, for every trie, every K, every number of searches and every capacity
of the tracker: `IndexListsExact` (the index alone, for any batches of counts that do
not shrink), `RankingListsExact`, `ZeroOnlyWhenNew`, `RankingTypeOK`, `LazyDecay` and
`SurgeShown`. A list is `IsBest` if nothing
outside of it comes before something in it and it is full unless it has everything.
That is what `UpsertNode` preserves by looking at the list alone; `ListsExact` follows
because `_rank_key` is total. That the counts still to be upserted are not smaller
than those in the trie is part of the invariant: a count that shrank could leave an
entry in the list that a query outside now beats.

`LazyDecay` says of any `Horizon` that one division by a power of two does what
halving at every tick does, of every score that did not see the clock set back, and
that no reading makes a score larger than it was written; with the type invariant it
is inductive, by `OneMoreTick`.
It needs to know what the recursive function `Power` computes, which is an induction.
The library's induction theorems take an operator, so `Induction` states the principle
for a set of numbers, proved from the well-foundedness of `<`.
`SurgeShown` rests on `_prune` dropping only scores that are not higher than what it
keeps, and on `MinScoreAssumption`: one search weighs more than `min_score`.

`ConsistentHashRing_proofs`, for every hash function, any nodes and number of points:
`TypeCorrect`, `ReplicasArePlaced`, `OnlyTheArcMoves`. The first two rest on
`OnePointEach` (no label has two points, and none is missing); the third on what
`bisect_right` finds: taking away other points leaves a key where it is.

`DistributedCache_proofs`, for every set of keys, ring, TTL and capacity:
`WithinCapacity`, `ServedIsLive`, `RecentlyUsedKept` and `IsAnswerCache`
(DistributedCache implements AnswerCache). `Inv` adds that the order of
each node is transitive, so that a full node has an oldest key, that an entry is
as old as its last set, and that what stands behind a key in the order was used
after it. `IsAnswerCache` needs the order to be total besides: a full node has
exactly one oldest key, and gives up no other (`EvictedOne`).

`SearchBox_proofs`, for every set of texts and lists and any number of requests:
`TypeCorrect`, `AtRest`, `NewestWins`. `Inv` adds that a request number belongs to one
request, which is outstanding or answered (`OneRequestPerNumber`), and that unless
the timer runs, the last request made is for what the input and the mode are now
(`LastIsForInput`): without it nothing would relate an answer that arrives late to
what is on the page.

Assumptions are the named `ASSUME`s of each module, plus the kinds of failure where
said. Every invariant, every action property and all three refinements that a run
checks are proved. Only model-checked: all liveness
(`CountedUnlessStranded`, `EventuallyCounted`, `StopTerminates`,
`EventuallySuggested`, `TypedIsAnswered`), which is beyond this prover.

## 5. Not modelled

* **Metrics** (`metrics.py`): counters and a bounded window of latencies that nothing
  reads back into a decision. The same holds of the statistics of writer, storage and
  cache.
* **The blend as numbers** (`ranking.py:164`): logarithms and weights are replaced by
  the dominance order they respect. Which of two queries that do not dominate each
  other is shown first is a matter of tuning.
* **Reading and generating datasets** (`load_dataset.py` up to line 220): text
  processing that computes the new rows, which is any table here.
* **A loader beside a running server.** Nothing in the code is made for it; its first
  commit and the server's next flush would meet in the same tables.
* **Torn log lines.** A write that fails half-way answers an error, and what it left
  would be read as the beginning of the next line, or as a query of its own. The log
  here consists of whole lines.
* **What a failed transaction leaves open.** `apply_batch` has no rollback. Errors
  SQLite meets in the middle of the upserts (disk full, I/O) undo the whole
  transaction, which is what `ApplyError` does. A row that the binding to Python
  refused would leave the rows before it in an open transaction; that case is left out.
* **Power loss.** A commit and a rename are atomic, and what was handed to the
  operating system survives the process. With `synchronous=NORMAL` and without
  `fsync`, a power failure could undo a commit whose segments were unlinked already;
  the docstring speaks of unsynced log lines only.
* **Panels and status line of the page**, routing and validation of requests,
  `config.py` (its values are the CONSTANTS), the benchmark, demo, report and
  screenshot scripts, and the style. They have no state to verify.

Worth doing next: the ring as the constant `NodeOf` of the cache while nodes come and
go, and an open transaction in `Storage` that outlives a failed `apply_batch`.
