---------------------------- MODULE BatchWriter ----------------------------
(***************************************************************************)
(* The durable write path (app/batch_writer.py with the transaction of     *)
(* app/storage.py), in its default mode with the write-ahead log.          *)
(*                                                                         *)
(* A search is appended to the live log and to the buffer; a flush moves   *)
(* the live log to a numbered segment, applies every outstanding segment   *)
(* in one transaction together with a watermark, and unlinks the segments. *)
(* Recovery replays what the watermark does not cover.  Three tasks flush: *)
(* the periodic loop, the task a full buffer starts, and the shutdown.     *)
(* They share an asyncio lock; between the two awaits of a flush the event *)
(* loop accepts other searches.                                            *)
(*                                                                         *)
(* Every search is its own log line, named by its arrival number; the sum  *)
(* the database keeps for a query is the sum of `applied` over the         *)
(* searches for it (times the configured increment).                       *)
(***************************************************************************)
EXTENDS Naturals, FiniteSets, FiniteSetsExt

CONSTANTS
    Searches,        \* arrival numbers of the /search requests
    Queries,         \* normalised query texts
    QueryOf,         \* the query each search is for
    MaxSize,         \* TYPEAHEAD_BATCH_SIZE
    Faults,          \* the kinds of failure that may happen
    MaxFaults        \* bound: how many failures happen in one behaviour

Tasks == {"run", "size", "stop"}

FaultKinds == {"crash", "recoverCrash", "applyError", "readbackError",
               "removeError", "rotateError"}

\* The failures the module's docstring promises to survive with no loss and
\* no double count: a process crash while serving, a failed transaction.
MaskedFaults == {"crash", "applyError"}

ASSUME BatchWriterAssumption ==
    /\ Searches \subseteq Nat
    /\ QueryOf \in [Searches -> Queries]
    /\ MaxSize \in Nat
    /\ Faults \subseteq FaultKinds
    /\ MaxFaults \in Nat

VARIABLES
    \* on disk
    applied,         \* how often each search is in queries.count
    watermark,       \* meta.last_flush_seq
    live,            \* the lines of buffer.wal
    seg,             \* the segment files: number -> its lines
    \* in memory
    phase,           \* lifecycle of the process
    buffer,          \* the searches aggregated in _buffer
    walOpen,         \* is _wal_file open for appending
    segSeq,          \* _seg_seq
    pc,              \* where each flushing task is
    job,             \* the locals of the flush that holds _lock
    index,           \* how often each search is in the trie's counts
    \* bookkeeping
    accepted,        \* the searches that were acknowledged
    faults           \* how many failures happened

disk == <<applied, watermark, live, seg>>
memory == <<phase, buffer, walOpen, segSeq, pc, job, index>>
vars == <<applied, watermark, live, seg, phase, buffer, walOpen, segSeq, pc,
          job, index, accepted, faults>>

Zero == [s \in Searches |-> 0]
NoSegments == [n \in {} |-> {}]
NoJob == [segs |-> {}, deltas |-> Zero]
AllOff == [t \in Tasks |-> "off"]

\* _read_into over a set of files: how many lines each search has in them.
LinesIn(files) ==
    [s \in Searches |-> Cardinality({n \in DOMAIN files : s \in files[n]})]

Plus(f, g) == [s \in Searches |-> f[s] + g[s]]

Up == phase \in {"serving", "stopping"}

\* The task that holds _lock is in one of the two halves of its flush.
LockFree == \A t \in Tasks : pc[t] \notin {"apply", "commit"}

\* A failure of this kind happens now.
Fault(kind) == /\ kind \in Faults
               /\ faults < MaxFaults
               /\ faults' = faults + 1

(***************************************************************************)
(* Definitions whose name begins with Bug are no part of the model: each   *)
(* is the definition after it with one plausible mistake, and shows that a *)
(* property below would notice the mistake.                                *)
(***************************************************************************)

Init == /\ applied = Zero
        /\ watermark = 0
        /\ live = {}
        /\ seg = NoSegments
        /\ phase = "down"
        /\ buffer = {}
        /\ walOpen = FALSE
        /\ segSeq = 0
        /\ pc = AllOff
        /\ job = NoJob
        /\ index = Zero
        /\ accepted = {}
        /\ faults = 0

----------------------------------------------------------------------------
(* Accepting searches                                                      *)

\* A full buffer asks for a flush unless the task it started is still there.
FlushDue(buf) == /\ Cardinality({QueryOf[s] : s \in buf}) >= MaxSize
                 /\ pc["size"] = "off"

\* submit: log the line, buffer it, perhaps schedule the size-triggered flush.
\* A closed _wal_file makes write raise, and the search is not acknowledged.
Submit(s) ==
    /\ phase = "serving"
    /\ walOpen
    /\ s \in Searches \ accepted
    /\ \A t \in Searches \ accepted : s <= t
    /\ live' = live \union {s}
    /\ buffer' = buffer \union {s}
    /\ accepted' = accepted \union {s}
    /\ pc' = IF FlushDue(buffer \union {s}) THEN [pc EXCEPT !["size"] = "want"]
                                            ELSE pc
    /\ UNCHANGED <<applied, watermark, seg, phase, walOpen, segSeq, job, index,
                   faults>>

----------------------------------------------------------------------------
(* Flushing                                                                *)

BugLoopDiesOnError(t) ==
    [pc EXCEPT ![t] = CASE t # "run"                      -> "done"
                        [] t = "run" /\ phase = "serving"
                                     /\ pc[t] # "apply"   -> "sleep"
                        [] OTHER                          -> "off"]

BugLoopIgnoresStop(t) ==
    [pc EXCEPT ![t] = IF t = "run" THEN "sleep" ELSE "done"]

\* What a task does after flush() returned or raised: the loop sleeps again
\* unless _stop is set, the other two end.
Returned(t) ==
    [pc EXCEPT ![t] = CASE t # "run"                        -> "done"
                        [] t = "run" /\ phase = "serving"   -> "sleep"
                        [] t = "run" /\ phase # "serving"   -> "off"]

\* The interval elapsed, or _stop woke the loop.
Tick == /\ Up
        /\ pc["run"] = "sleep"
        /\ pc' = [pc EXCEPT !["run"] = "want"]
        /\ UNCHANGED <<disk, phase, buffer, walOpen, segSeq, job, index,
                       accepted, faults>>

\* os.replace of the live log onto segment n.
WithSegment(n) ==
    [m \in DOMAIN seg \union {n} |-> IF m = n THEN live ELSE seg[m]]

BugRotateBeforeIncrement ==
    \/ buffer = {} /\ UNCHANGED <<buffer, segSeq, seg, live>>
    \/ /\ buffer # {} /\ buffer' = {} /\ segSeq' = segSeq + 1
       /\ seg' = WithSegment(segSeq) /\ live' = {}

BugRotateCopiesLive ==
    \/ buffer = {} /\ UNCHANGED <<buffer, segSeq, seg, live>>
    \/ /\ buffer # {} /\ buffer' = {} /\ segSeq' = segSeq + 1
       /\ seg' = WithSegment(segSeq + 1) /\ live' = live

\* The current window, if it has any search, becomes a segment.
Rotate ==
    \/ /\ buffer = {}
       /\ UNCHANGED <<buffer, segSeq, seg, live>>
    \/ /\ buffer # {}
       /\ buffer' = {}
       /\ segSeq' = segSeq + 1
       /\ seg' = WithSegment(segSeq + 1)
       /\ live' = {}

BugNewestSegment(files) == {Max(DOMAIN files)}

\* _list_segments: a flush takes every segment, those of failed ones included.
Outstanding(files) == DOMAIN files

JobFor(files) ==
    [segs   |-> Outstanding(files),
     deltas |-> LinesIn([n \in Outstanding(files) |-> files[n]])]

\* The task enters the lock, rotates, reads all the segments and hands the
\* transaction to a worker thread.
StartFlush(t) ==
    /\ Up
    /\ pc[t] = "want"
    /\ LockFree
    /\ Rotate
    /\ DOMAIN seg' # {}
    /\ job' = JobFor(seg')
    /\ pc' = [pc EXCEPT ![t] = "apply"]
    /\ UNCHANGED <<applied, watermark, phase, walOpen, index, accepted, faults>>

FlushNothing(t) ==
    /\ Up
    /\ pc[t] = "want"
    /\ LockFree
    /\ buffer = {}
    /\ DOMAIN seg = {}
    /\ pc' = Returned(t)
    /\ UNCHANGED <<disk, phase, buffer, walOpen, segSeq, job, index, accepted,
                   faults>>

\* Closing, replacing or reopening the log raises: _buffer is cleared already,
\* the number is taken, and the file object stays closed.
RotateError(t) ==
    /\ Up
    /\ pc[t] = "want"
    /\ LockFree
    /\ buffer # {}
    /\ Fault("rotateError")
    /\ buffer' = {}
    /\ segSeq' = segSeq + 1
    /\ walOpen' = FALSE
    /\ \/ seg' = WithSegment(segSeq + 1) /\ live' = {}
       \/ UNCHANGED <<seg, live>>
    /\ pc' = Returned(t)
    /\ UNCHANGED <<applied, watermark, phase, job, index, accepted>>

BugFirstSeq == Min(job.segs)

\* max_seq, the watermark the transaction stores with the counts.
MaxSeq == Max(job.segs)

BugCommitWithoutWatermark(t) ==
    /\ pc[t] = "apply"
    /\ applied' = Plus(applied, job.deltas)
    /\ pc' = [pc EXCEPT ![t] = "commit"]
    /\ UNCHANGED <<watermark, live, seg, phase, buffer, walOpen, segSeq, job,
                   index, accepted, faults>>

\* apply_batch commits the counts and the watermark.
CommitBatch(t) ==
    /\ pc[t] = "apply"
    /\ applied' = Plus(applied, job.deltas)
    /\ watermark' = MaxSeq
    /\ pc' = [pc EXCEPT ![t] = "commit"]
    /\ UNCHANGED <<live, seg, phase, buffer, walOpen, segSeq, job, index,
                   accepted, faults>>

\* apply_batch raises before its commit (the database is locked, the disk is
\* full): the transaction leaves nothing behind.
ApplyError(t) ==
    /\ pc[t] = "apply"
    /\ Fault("applyError")
    /\ job' = NoJob
    /\ pc' = Returned(t)
    /\ UNCHANGED <<disk, phase, buffer, walOpen, segSeq, index, accepted>>

\* apply_batch raises after its commit, in the SELECT of the new counts (more
\* distinct queries than SQLite takes parameters).
ReadBackError(t) ==
    /\ pc[t] = "commit"
    /\ Fault("readbackError")
    /\ job' = NoJob
    /\ pc' = Returned(t)
    /\ UNCHANGED <<disk, phase, buffer, walOpen, segSeq, index, accepted>>

\* _post_apply: upsert the counts that apply_batch read back, the stored ones,
\* for every query of the batch.
Changed == {QueryOf[s] : s \in {r \in Searches : job.deltas[r] > 0}}

Upserted == [s \in Searches |-> IF QueryOf[s] \in Changed THEN applied[s]
                                                          ELSE index[s]]

Keeping(numbers) == [n \in DOMAIN seg \intersect numbers |-> seg[n]]

\* The segments of `files`, removed in ascending order, are gone below `cut`.
UnlinkedBelow(files, cut) == Keeping({n \in Nat : n \in files => n >= cut})

FinishFlush(t) ==
    /\ pc[t] = "commit"
    /\ index' = Upserted
    /\ seg' = Keeping(Nat \ job.segs)
    /\ job' = NoJob
    /\ pc' = Returned(t)
    /\ UNCHANGED <<applied, watermark, live, phase, buffer, walOpen, segSeq,
                   accepted, faults>>

\* os.remove raises at one of the applied segments.
RemoveError(t) ==
    /\ pc[t] = "commit"
    /\ Fault("removeError")
    /\ index' = Upserted
    /\ \E cut \in job.segs : seg' = UnlinkedBelow(job.segs, cut)
    /\ job' = NoJob
    /\ pc' = Returned(t)
    /\ UNCHANGED <<applied, watermark, live, phase, buffer, walOpen, segSeq,
                   accepted>>

\* The done-callback of the size-triggered task.
Discard == /\ Up
           /\ pc["size"] = "done"
           /\ pc' = [pc EXCEPT !["size"] = "off"]
           /\ UNCHANGED <<disk, phase, buffer, walOpen, segSeq, job, index,
                          accepted, faults>>

----------------------------------------------------------------------------
(* Lifecycle: shutdown, crash, recovery                                    *)

\* The memory of a process that ended.
MemoryLost == /\ phase' = "down"
              /\ buffer' = {}
              /\ walOpen' = FALSE
              /\ segSeq' = 0
              /\ pc' = AllOff
              /\ job' = NoJob
              /\ index' = Zero

\* stop: the server has answered its requests and takes no new ones.
BeginStop == /\ phase = "serving"
             /\ phase' = "stopping"
             /\ UNCHANGED <<disk, buffer, walOpen, segSeq, pc, job, index,
                            accepted, faults>>

BugStopSkipsFlush == /\ phase = "stopping"
                     /\ pc["run"] = "off"
                     /\ pc["stop"] = "off"
                     /\ pc' = [pc EXCEPT !["stop"] = "done"]
                     /\ UNCHANGED <<disk, phase, buffer, walOpen, segSeq, job,
                                    index, accepted, faults>>

\* stop awaited the loop and calls flush itself.
StopFlush == /\ phase = "stopping"
             /\ pc["run"] = "off"
             /\ pc["stop"] = "off"
             /\ pc' = [pc EXCEPT !["stop"] = "want"]
             /\ UNCHANGED <<disk, phase, buffer, walOpen, segSeq, job, index,
                            accepted, faults>>

\* Its flush ended, the pending size-triggered task too; close everything.
StopDone == /\ phase = "stopping"
            /\ pc["stop"] = "done"
            /\ pc["size"] \in {"off", "done"}
            /\ MemoryLost
            /\ UNCHANGED <<disk, accepted, faults>>

\* The process dies.  A flush that committed may have unlinked some segments.
Crash == /\ Up
         /\ Fault("crash")
         /\ \/ UNCHANGED seg
            \/ /\ \E t \in Tasks : pc[t] = "commit"
               /\ \E cut \in job.segs : seg' = UnlinkedBelow(job.segs, cut)
         /\ MemoryLost
         /\ UNCHANGED <<applied, watermark, live, accepted>>

\* recover replays what the watermark does not cover, and the live log.
ToReplay == {n \in DOMAIN seg : n > watermark}

ReplayedLines ==
    [s \in Searches |-> LinesIn(Keeping(ToReplay))[s]
                        + (IF s \in live THEN 1 ELSE 0)]

BugBaseFromFiles == Max({0} \union DOMAIN seg)

\* No number at or below this one is ever given to a segment again.
RecoveryBase == Max({watermark} \union DOMAIN seg)

BugIndexOnlyLoaded == applied

\* load_index, then the upsert of the replayed counts.
RecoveredIndex == Plus(applied, ReplayedLines)

\* load_index and the first half of recover: one transaction replays the log
\* under a fresh number.
Recover ==
    /\ phase = "down"
    /\ phase' = "recovering"
    /\ applied' = Plus(applied, ReplayedLines)
    /\ index' = RecoveredIndex
    /\ IF ReplayedLines = Zero
       THEN watermark' = watermark /\ segSeq' = RecoveryBase
       ELSE watermark' = RecoveryBase + 1 /\ segSeq' = RecoveryBase + 1
    /\ UNCHANGED <<live, seg, buffer, walOpen, pc, job, accepted, faults>>

BugLiveNotRemoved ==
    /\ phase = "recovering"
    /\ phase' = "serving"
    /\ seg' = NoSegments
    /\ walOpen' = TRUE
    /\ pc' = [pc EXCEPT !["run"] = "sleep"]
    /\ UNCHANGED <<applied, watermark, live, buffer, segSeq, job, index,
                   accepted, faults>>

\* The second half: unlink everything, open a new live log, start the loop.
FinishRecovery ==
    /\ phase = "recovering"
    /\ phase' = "serving"
    /\ seg' = NoSegments
    /\ live' = {}
    /\ walOpen' = TRUE
    /\ pc' = [pc EXCEPT !["run"] = "sleep"]
    /\ UNCHANGED <<applied, watermark, buffer, segSeq, job, index, accepted,
                   faults>>

\* The process dies between the replay's commit and the removal of the live
\* log, which comes after the segments.
CrashInRecovery ==
    /\ phase = "recovering"
    /\ Fault("recoverCrash")
    /\ \E cut \in DOMAIN seg \union {segSeq + 1} :
          seg' = UnlinkedBelow(DOMAIN seg, cut)
    /\ MemoryLost
    /\ UNCHANGED <<applied, watermark, live, accepted>>

----------------------------------------------------------------------------
TaskStep(t) == \/ StartFlush(t)
               \/ FlushNothing(t)
               \/ RotateError(t)
               \/ CommitBatch(t)
               \/ ApplyError(t)
               \/ ReadBackError(t)
               \/ FinishFlush(t)
               \/ RemoveError(t)

Next == \/ \E s \in Searches : Submit(s)
        \/ \E t \in Tasks : TaskStep(t)
        \/ Tick
        \/ Discard
        \/ BeginStop
        \/ StopFlush
        \/ StopDone
        \/ Crash
        \/ Recover
        \/ FinishRecovery
        \/ CrashInRecovery

Spec == Init /\ [][Next]_vars

(***************************************************************************)
(* The event loop runs every task that is ready, the worker thread ends,   *)
(* the interval elapses, and somebody restarts a process that ended.       *)
(* Nothing obliges clients to search, an operator to stop the service, or  *)
(* a failure to happen.                                                    *)
(***************************************************************************)
Fairness ==
    /\ \A t \in Tasks : /\ WF_vars(StartFlush(t))
                        /\ WF_vars(FlushNothing(t))
                        /\ WF_vars(CommitBatch(t))
                        /\ WF_vars(FinishFlush(t))
    /\ WF_vars(Tick)
    /\ WF_vars(Discard)
    /\ WF_vars(StopFlush)
    /\ WF_vars(StopDone)
    /\ WF_vars(Recover)
    /\ WF_vars(FinishRecovery)

FairSpec == Spec /\ Fairness

----------------------------------------------------------------------------
(* Properties                                                              *)

Counts == [Searches -> Nat]

\* Every variable has the values the code can give it; a segment is numbered
\* from 1, since _rotate_live_to_segment gets _seg_seq after its increment.
TypeOK ==
    /\ applied \in Counts
    /\ watermark \in Nat
    /\ live \subseteq Searches
    /\ DOMAIN seg \subseteq Nat \ {0}
    /\ seg \in [DOMAIN seg -> SUBSET Searches]
    /\ phase \in {"down", "recovering", "serving", "stopping"}
    /\ buffer \subseteq Searches
    /\ walOpen \in BOOLEAN
    /\ segSeq \in Nat
    /\ pc \in [Tasks -> {"off", "sleep", "want", "apply", "commit", "done"}]
    /\ job \in [segs : SUBSET Nat, deltas : Counts]
    /\ index \in Counts
    /\ accepted \subseteq Searches
    /\ faults \in 0 .. MaxFaults

\* "No loss": an acknowledged search is in the stored counts, or in a file
\* that the next recovery will replay, whatever failed so far.
NoLoss ==
    \A s \in accepted : \/ applied[s] > 0
                        \/ s \in live
                        \/ \E n \in ToReplay : s \in seg[n]

\* "No double count": neither a retried flush nor a restart adds a search to
\* the stored counts a second time.
CountedAtMostOnce == \A s \in Searches : applied[s] <= 1

\* "Each submission's data lives in exactly one segment": no two log files
\* hold the line of the same search, so no transaction adds it twice.
OneFile ==
    /\ \A n \in DOMAIN seg : seg[n] \intersect live = {}
    /\ \A m, n \in DOMAIN seg : m # n => seg[m] \intersect seg[n] = {}

\* A batch takes everything that is outstanding: a search is never counted
\* while one acknowledged before it still waits, even after failed flushes.
CountedInOrder ==
    \A s, t \in accepted : s < t /\ applied[t] > 0 => applied[s] > 0

\* While the log can be appended to, the buffer (which decides whether a flush
\* rotates at all) holds exactly the lines of the live log.
BufferMirrorsLive == Up /\ walOpen => buffer = live

\* The index that answers /suggest has the stored counts, except while a
\* committed batch has not come back to the event loop yet.
IndexFollowsStore ==
    Up /\ (\A t \in Tasks : pc[t] # "commit") => index = applied

\* A segment is only ever unlinked when the watermark on disk covers it, or
\* by a recovery that has counted its lines: until then it is the only copy.
WatermarkBeforeUnlink ==
    [][\A n \in DOMAIN seg \ DOMAIN seg' : n <= watermark]_vars

\* A clean shutdown without failures leaves nothing to replay: the loop, the
\* size-triggered task and the final flush have between them emptied the log.
StopDrains ==
    [][phase = "stopping" /\ phase' = "down" /\ faults' = 0
         => live' = {} /\ DOMAIN seg' = {}]_vars

\* "The next tick retries": every acknowledged search is eventually counted.
EventuallyCounted ==
    \A s \in Searches : s \in accepted ~> applied[s] > 0

\* The same with failures of every kind: only searches that a failed rotation
\* left behind in the log of a running process wait, for its restart.
CountedUnlessStranded ==
    \A s \in Searches :
        s \in accepted ~> applied[s] > 0 \/ (Up /\ ~ walOpen /\ s \in live)

\* Shutdown ends: the loop, the pending task and the final flush all return.
StopTerminates == phase = "stopping" ~> phase = "down"

\* The detailed write path implements exactly-once counting in arrival order.
Counter == INSTANCE SearchCounter WITH count <- applied
ImplementsCounter == Counter!Spec
============================================================================
