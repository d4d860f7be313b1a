----------------------------- MODULE WritePath -----------------------------
(***************************************************************************)
(* The write path as its counters show it: how many searches for each      *)
(* query wait in the log, are in the batch of the flush that is running,   *)
(* are stored, and are known to the index.  There are no files, no buffer  *)
(* and no tasks here, and a process that ends is up again at once.         *)
(*                                                                         *)
(* ReadPath puts the cache beside these counters.  BatchWriter implements  *)
(* them, as long as only the failures happen that it masks: see            *)
(* WritePathMapping.                                                       *)
(***************************************************************************)
EXTENDS Naturals, Functions

CONSTANTS
    Queries,         \* normalised query texts
    Loaded           \* the counts of the ingested dataset

VARIABLES
    waiting,         \* searches in the log and not yet taken by a flush
    inflight,        \* the batch of the flush that is running
    flush,           \* where that flush is: idle, apply or commit
    stored,          \* queries.count in the database
    index            \* the trie: the counts of the queries it knows

writeVars == <<waiting, inflight, flush, stored, index>>

Counts == [Queries -> Nat]
Zero == [q \in Queries |-> 0]
Plus(f, g) == [q \in Queries |-> f[q] + g[q]]

\* load_index: the queries that the database has counts of.
Indexed(counts) == Restrict(counts, {q \in Queries : counts[q] > 0})

WriteInit == /\ waiting = Zero
             /\ inflight = Zero
             /\ flush = "idle"
             /\ stored = Loaded
             /\ index = Indexed(Loaded)

\* submit: the line is logged.
LogSearch(q) ==
    /\ waiting' = [waiting EXCEPT ![q] = @ + 1]
    /\ UNCHANGED <<inflight, flush, stored, index>>

\* A flush takes all that waits and hands it to the worker thread.
TakeBatch ==
    /\ flush = "idle"
    /\ waiting # Zero
    /\ flush' = "apply"
    /\ inflight' = waiting
    /\ waiting' = Zero
    /\ UNCHANGED <<stored, index>>

CountBatch ==
    /\ flush = "apply"
    /\ flush' = "commit"
    /\ stored' = Plus(stored, inflight)
    /\ UNCHANGED <<waiting, inflight, index>>

\* The transaction fails; the segments stay and the next flush takes them.
GiveBack ==
    /\ flush = "apply"
    /\ flush' = "idle"
    /\ waiting' = Plus(waiting, inflight)
    /\ inflight' = Zero
    /\ UNCHANGED <<stored, index>>

Changed == {q \in Queries : inflight[q] > 0}

BugUpsertKnownOnly ==
    [q \in DOMAIN index |-> IF q \in Changed THEN stored[q] ELSE index[q]]

Upserted == [q \in DOMAIN index \union Changed |->
                IF q \in Changed THEN stored[q] ELSE index[q]]

\* _post_apply: the counts of the batch's queries go into the index.
Publish ==
    /\ flush = "commit"
    /\ flush' = "idle"
    /\ index' = Upserted
    /\ inflight' = Zero
    /\ UNCHANGED <<waiting, stored>>

\* What a recovery finds counted after its replay: all that was logged.
Recovered == Plus(stored, IF flush = "commit" THEN waiting
                                              ELSE Plus(waiting, inflight))

\* The process ended; the next one replays the log and loads the index.
Reload ==
    /\ stored' = Recovered
    /\ index' = Indexed(Recovered)
    /\ waiting' = Zero
    /\ inflight' = Zero
    /\ flush' = "idle"

WriteNext == \/ \E q \in Queries : LogSearch(q)
             \/ TakeBatch
             \/ CountBatch
             \/ GiveBack
             \/ Publish
             \/ Reload

WriteSpec == WriteInit /\ [][WriteNext]_writeVars
============================================================================
