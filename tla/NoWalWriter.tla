---------------------------- MODULE NoWalWriter ----------------------------
(***************************************************************************)
(* The write path with the write-ahead log switched off                    *)
(* (TYPEAHEAD_WAL=0; _flush_no_wal of app/batch_writer.py).                *)
(*                                                                         *)
(* There are no files: a flush takes the buffer itself, and a transaction  *)
(* that fails is put back into the buffer that searches have meanwhile     *)
(* started to fill.  What is not counted when the process ends is lost.    *)
(* The tasks and the lock are those of BatchWriter, and so is what happens *)
(* to the index after a commit, which is left out here.                    *)
(***************************************************************************)
EXTENDS Naturals, FiniteSets

CONSTANTS
    Searches,        \* arrival numbers of the /search requests
    Queries,         \* normalised query texts
    QueryOf,         \* the query each search is for
    MaxSize,         \* TYPEAHEAD_BATCH_SIZE
    MaxFaults        \* bound: how many failures happen in one behaviour

Tasks == {"run", "size", "stop"}

ASSUME NoWalAssumption ==
    /\ Searches \subseteq Nat
    /\ QueryOf \in [Searches -> Queries]
    /\ MaxSize \in Nat
    /\ MaxFaults \in Nat

VARIABLES
    applied,         \* how often each search is in queries.count
    phase,           \* lifecycle of the process
    buffer,          \* how often each search is in _buffer
    inflight,        \* deltas of the flush that holds _lock
    pc,              \* where each flushing task is
    failed,          \* bookkeeping: did the last one of this process raise
    reread,          \* bookkeeping: did one ever raise after its commit
    accepted,        \* bookkeeping: the searches that were acknowledged
    lost,            \* bookkeeping: those in memory only when a process ended
    faults           \* bookkeeping: how many failures happened

vars == <<applied, phase, buffer, inflight, pc, failed, reread, accepted, lost,
          faults>>

Zero == [s \in Searches |-> 0]
Plus(f, g) == [s \in Searches |-> f[s] + g[s]]
AllOff == [t \in Tasks |-> "off"]

Up == phase \in {"serving", "stopping"}
BugNoLock == pc["run"] # "apply"
LockFree == \A t \in Tasks : pc[t] \notin {"apply", "commit"}
Fault == faults < MaxFaults /\ faults' = faults + 1

Init == /\ applied = Zero
        /\ phase = "down"
        /\ buffer = Zero
        /\ inflight = Zero
        /\ pc = AllOff
        /\ failed = FALSE
        /\ reread = FALSE
        /\ accepted = {}
        /\ lost = {}
        /\ faults = 0

\* recover returns at once; start creates the loop.
Start == /\ phase = "down"
         /\ phase' = "serving"
         /\ pc' = [pc EXCEPT !["run"] = "sleep"]
         /\ UNCHANGED <<applied, buffer, inflight, failed, reread, accepted,
                        lost, faults>>

Held(buf) == {s \in Searches : buf[s] > 0}

FlushDue(buf) == /\ Cardinality({QueryOf[s] : s \in Held(buf)}) >= MaxSize
                 /\ pc["size"] = "off"

\* submit: buffer the search, perhaps schedule the size-triggered flush.
Submit(s) ==
    /\ phase = "serving"
    /\ s \in Searches \ accepted
    /\ \A t \in Searches \ accepted : s <= t
    /\ accepted' = accepted \union {s}
    /\ buffer' = [buffer EXCEPT ![s] = @ + 1]
    /\ pc' = IF FlushDue(buffer') THEN [pc EXCEPT !["size"] = "want"] ELSE pc
    /\ UNCHANGED <<applied, phase, inflight, failed, reread, lost, faults>>

----------------------------------------------------------------------------
(* Flushing                                                                *)

BugLoopRunsOnce(t) == [pc EXCEPT ![t] = IF t = "run" THEN "off" ELSE "done"]

\* What a task does after flush() returned or raised.
Returned(t) ==
    [pc EXCEPT ![t] = CASE t # "run"                        -> "done"
                        [] t = "run" /\ phase = "serving"   -> "sleep"
                        [] t = "run" /\ phase # "serving"   -> "off"]

Tick == /\ Up
        /\ pc["run"] = "sleep"
        /\ pc' = [pc EXCEPT !["run"] = "want"]
        /\ UNCHANGED <<applied, phase, buffer, inflight, failed, reread,
                       accepted, lost, faults>>

\* The buffer becomes the batch, and searches get a new one.
StartFlush(t) ==
    /\ Up
    /\ pc[t] = "want"
    /\ LockFree
    /\ buffer # Zero
    /\ inflight' = buffer
    /\ buffer' = Zero
    /\ pc' = [pc EXCEPT ![t] = "apply"]
    /\ UNCHANGED <<applied, phase, failed, reread, accepted, lost, faults>>

FlushNothing(t) ==
    /\ Up
    /\ pc[t] = "want"
    /\ LockFree
    /\ buffer = Zero
    /\ pc' = Returned(t)
    /\ UNCHANGED <<applied, phase, buffer, inflight, failed, reread, accepted,
                   lost, faults>>

\* apply_batch commits.
CommitBatch(t) ==
    /\ pc[t] = "apply"
    /\ applied' = Plus(applied, inflight)
    /\ pc' = [pc EXCEPT ![t] = "commit"]
    /\ UNCHANGED <<phase, buffer, inflight, failed, reread, accepted, lost,
                   faults>>

BugRebufferReplaces(t) ==
    /\ buffer' = inflight
    /\ inflight' = Zero
    /\ failed' = TRUE
    /\ pc' = Returned(t)

\* The except branch: the batch joins what was buffered meanwhile.
Rebuffer(t) ==
    /\ buffer' = Plus(buffer, inflight)
    /\ inflight' = Zero
    /\ failed' = TRUE
    /\ pc' = Returned(t)

\* apply_batch raises before its commit,
ApplyError(t) ==
    /\ pc[t] = "apply"
    /\ Fault
    /\ Rebuffer(t)
    /\ UNCHANGED <<applied, phase, reread, accepted, lost>>

\* or after it, in the SELECT of the new counts.
ReadBackError(t) ==
    /\ pc[t] = "commit"
    /\ Fault
    /\ Rebuffer(t)
    /\ reread' = TRUE
    /\ UNCHANGED <<applied, phase, accepted, lost>>

\* _post_apply, and the flush returns.
FinishFlush(t) ==
    /\ pc[t] = "commit"
    /\ inflight' = Zero
    /\ failed' = FALSE
    /\ pc' = Returned(t)
    /\ UNCHANGED <<applied, phase, buffer, reread, accepted, lost, faults>>

\* The done-callback of the size-triggered task.
Discard == /\ Up
           /\ pc["size"] = "done"
           /\ pc' = [pc EXCEPT !["size"] = "off"]
           /\ UNCHANGED <<applied, phase, buffer, inflight, failed, reread,
                          accepted, lost, faults>>

----------------------------------------------------------------------------
(* The end of the process                                                  *)

\* The batch whose transaction has not committed.
Uncommitted == IF \E t \in Tasks : pc[t] = "apply" THEN inflight ELSE Zero

MemoryLost == /\ phase' = "down"
              /\ buffer' = Zero
              /\ inflight' = Zero
              /\ pc' = AllOff
              /\ failed' = FALSE
              /\ lost' = lost \union Held(Plus(buffer, Uncommitted))

BeginStop == /\ phase = "serving"
             /\ phase' = "stopping"
             /\ UNCHANGED <<applied, buffer, inflight, pc, failed, reread,
                            accepted, lost, faults>>

BugStopSkipsFlush ==
    /\ phase = "stopping"
    /\ pc["run"] = "off"
    /\ pc["stop"] = "off"
    /\ pc' = [pc EXCEPT !["stop"] = "done"]
    /\ UNCHANGED <<applied, phase, buffer, inflight, failed, reread, accepted,
                   lost, faults>>

StopFlush == /\ phase = "stopping"
             /\ pc["run"] = "off"
             /\ pc["stop"] = "off"
             /\ pc' = [pc EXCEPT !["stop"] = "want"]
             /\ UNCHANGED <<applied, phase, buffer, inflight, failed, reread,
                            accepted, lost, faults>>

StopDone == /\ phase = "stopping"
            /\ pc["stop"] = "done"
            /\ pc["size"] \in {"off", "done"}
            /\ MemoryLost
            /\ UNCHANGED <<applied, reread, accepted, faults>>

Crash == /\ Up
         /\ Fault
         /\ MemoryLost
         /\ UNCHANGED <<applied, reread, accepted>>

TaskStep(t) == \/ StartFlush(t)
               \/ FlushNothing(t)
               \/ CommitBatch(t)
               \/ ApplyError(t)
               \/ ReadBackError(t)
               \/ FinishFlush(t)

Next == \/ Start
        \/ \E s \in Searches : Submit(s)
        \/ \E t \in Tasks : TaskStep(t)
        \/ Tick
        \/ Discard
        \/ BeginStop
        \/ StopFlush
        \/ StopDone
        \/ Crash

Spec == Init /\ [][Next]_vars

\* As in BatchWriter: the tasks run, the worker thread ends, the interval
\* elapses; no client, operator or failure has to act.
FairSpec == /\ Spec
            /\ \A t \in Tasks : /\ WF_vars(StartFlush(t))
                                /\ WF_vars(FlushNothing(t))
                                /\ WF_vars(CommitBatch(t))
                                /\ WF_vars(FinishFlush(t))
            /\ WF_vars(Tick)
            /\ WF_vars(Discard)
            /\ WF_vars(StopFlush)
            /\ WF_vars(StopDone)

----------------------------------------------------------------------------
(* Properties                                                              *)

Counts == [Searches -> Nat]

\* Every variable has the values the code can give it, and the batch of a
\* flush belongs to the one task inside the lock.
TypeOK ==
    /\ applied \in Counts
    /\ phase \in {"down", "serving", "stopping"}
    /\ buffer \in Counts
    /\ inflight \in Counts
    /\ pc \in [Tasks -> {"off", "sleep", "want", "apply", "commit", "done"}]
    /\ failed \in BOOLEAN
    /\ reread \in BOOLEAN
    /\ accepted \subseteq Searches
    /\ lost \subseteq accepted
    /\ faults \in 0 .. MaxFaults
    /\ \A t, u \in Tasks :
          {pc[t], pc[u]} \subseteq {"apply", "commit"} => t = u
    /\ LockFree => inflight = Zero

Places(s) == applied[s] + buffer[s] + Uncommitted[s]

\* Re-buffering neither loses nor duplicates: while its process lives, a search
\* is in the buffer, in the open transaction or in the counts, in one of them
\* only and once, unless a transaction raised after it had committed.
Conserved ==
    \A s \in Searches :
        LET kept == s \in accepted \ lost
        IN  /\ kept => Places(s) >= 1
            /\ ~ reread => Places(s) = IF kept THEN 1 ELSE 0

\* A clean shutdown gives up searches only when the last transaction of the same
\* process failed: one failure before it is made good by the flush that follows.
StopKeeps ==
    [][phase = "stopping" /\ phase' = "down" /\ faults' = faults
         => lost' = lost \/ failed]_vars

\* "Retry on next interval": every search is counted or lost with its process.
EventuallyCounted ==
    \A s \in Searches : s \in accepted ~> applied[s] > 0 \/ s \in lost
============================================================================
