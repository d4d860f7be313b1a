-------------------------- MODULE WritePathMapping --------------------------
(***************************************************************************)
(* BatchWriter seen as WritePath: the files, the buffer and the three      *)
(* tasks behind the counters that ReadPath builds on.                      *)
(*                                                                         *)
(* A counter of WritePath is the sum, over the searches for its query, of  *)
(* how often each is stored, in the batch, indexed, or still to be         *)
(* replayed.  While no process runs there is no index; WritePath, which    *)
(* knows no such time, keeps the one that the next process will load, and  *)
(* takes the replay and the load for one step.                             *)
(***************************************************************************)
EXTENDS BatchWriter

CONSTANT Loaded      \* the counts of the ingested dataset

ASSUME MappingAssumption == Loaded \in [Queries -> Nat]

\* The n-th time that a search is counted, for every search and n.
Times(count) == UNION {{s} \X (1 .. count[s]) : s \in Searches}

\* How many of these are for each query.
Tally(times) == [q \in Queries |-> Cardinality({c \in times : QueryOf[c[1]] = q})]
WithLoaded(times) == [q \in Queries |-> Loaded[q] + Tally(times)[q]]

Counted == Times(applied)
InFlight == Times(job.deltas)
Known == IF phase = "down" THEN Counted ELSE Times(index)

\* What the next recovery would replay and no flush has taken.  After its own
\* replay a recovery has nothing left to do but to remove the files.
Logged == IF phase = "recovering" THEN {} ELSE Times(ReplayedLines) \ InFlight

FlushStage == CASE \E t \in Tasks : pc[t] = "apply"  -> "apply"
                [] \E t \in Tasks : pc[t] = "commit" -> "commit"
                [] OTHER                             -> "idle"

\* The queries that a table of counts has.
Positive(counts) == [q \in {r \in Queries : counts[r] > 0} |-> counts[q]]

Path == INSTANCE WritePath WITH
            waiting  <- Tally(Logged),
            inflight <- Tally(InFlight),
            flush    <- FlushStage,
            stored   <- WithLoaded(Counted),
            index    <- Positive(WithLoaded(Known))

\* The write path on disk and in memory implements the counters that the
\* suggestions build on: whatever the log, the tasks and the restarts do, a
\* search moves once from waiting through a batch to the stored counts, and the
\* index gets the stored counts of exactly the queries of each batch.
ImplementsWritePath == Path!WriteSpec
=============================================================================
