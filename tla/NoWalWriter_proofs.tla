------------------------- MODULE NoWalWriter_proofs -------------------------
(***************************************************************************)
(* Theorems about NoWalWriter, for every number of searches, queries and   *)
(* failures and every batch size.                                          *)
(***************************************************************************)
EXTENDS NoWalWriter, TLAPS

Locked(t) == pc[t] \in {"apply", "commit"}

\* Nothing is anywhere that was not acknowledged.
OnlyAccepted == \A s \in Searches :
    applied[s] > 0 \/ buffer[s] > 0 \/ inflight[s] > 0 => s \in accepted

\* No task outlives its process.
DownIsOff == phase = "down" => \A t \in Tasks : pc[t] = "off"

\* Once the flush of stop() has begun, nothing else fills the buffer than a
\* transaction that fails.
StopFlushes ==
    /\ pc["stop"] # "off" => phase = "stopping" /\ pc["run"] = "off"
    /\ Locked("stop") => buffer = Zero
    /\ pc["stop"] = "done" => /\ buffer = Zero \/ failed
                              /\ ~ LockFree => buffer = Zero

\* The inductive invariant.
Inv == TypeOK /\ OnlyAccepted /\ Conserved /\ DownIsOff /\ StopFlushes

LEMMA ZeroCounts == Zero \in Counts /\ \A s \in Searches : Zero[s] = 0
  BY DEF Zero, Counts

LEMMA PlusCounts ==
    ASSUME NEW f \in Counts, NEW g \in Counts
    PROVE  /\ Plus(f, g) \in Counts
           /\ \A s \in Searches : Plus(f, g)[s] = f[s] + g[s]
  BY DEF Plus, Counts

\* Where a flush leaves its task: outside the lock.
LEMMA Outside ==
    ASSUME TypeOK, NEW t \in Tasks, pc' = Returned(t)
    PROVE  /\ pc' \in [Tasks -> {"off", "sleep", "want", "apply", "commit", "done"}]
           /\ pc'[t] \in {"off", "sleep", "done"}
           /\ t = "stop" => pc'[t] = "done"
           /\ pc'["run"] = "off" \/ t # "run" \/ phase = "serving"
           /\ \A u \in Tasks \ {t} : pc'[u] = pc[u]
<1>1. CASE t # "run"
  <2>1. pc' = [pc EXCEPT ![t] = "done"]
    BY <1>1 DEF Returned
  <2> QED BY <1>1, <2>1 DEF TypeOK, Tasks
<1>2. CASE t = "run" /\ phase = "serving"
  <2>1. pc' = [pc EXCEPT ![t] = "sleep"]
    BY <1>2 DEF Returned
  <2> QED BY <1>2, <2>1 DEF TypeOK, Tasks
<1>3. CASE t = "run" /\ phase # "serving"
  <2>1. pc' = [pc EXCEPT ![t] = "off"]
    BY <1>3 DEF Returned
  <2> QED BY <1>3, <2>1 DEF TypeOK, Tasks
<1> QED BY <1>1, <1>2, <1>3

\* The task in the lock is the only one.
LEMMA Alone == ASSUME TypeOK, NEW t \in Tasks, Locked(t), NEW u \in Tasks, u # t
               PROVE  ~ Locked(u)
  BY DEF TypeOK, Locked

LEMMA FreeIs == LockFree <=> \A t \in Tasks : ~ Locked(t)
  BY DEF LockFree, Locked

LEMMA UncommittedIs ==
    ASSUME TypeOK
    PROVE  /\ Uncommitted \in Counts
           /\ (\E t \in Tasks : pc[t] = "apply") => Uncommitted = inflight
           /\ ~ (\E t \in Tasks : pc[t] = "apply") => Uncommitted = Zero
  BY ZeroCounts DEF TypeOK, Uncommitted

----------------------------------------------------------------------------
(* The steps, each with all it does to the invariant                       *)

LEMMA Initially == Init => Inv
<1> SUFFICES ASSUME Init PROVE Inv
  OBVIOUS
<1>1. TypeOK
  <2>1. \A t \in Tasks : pc[t] = "off"
    BY DEF Init, AllOff
  <2>2. \A t, u \in Tasks : {pc[t], pc[u]} \subseteq {"apply", "commit"} => t = u
    BY <2>1
  <2>3. pc \in [Tasks -> {"off", "sleep", "want", "apply", "commit", "done"}]
    BY DEF Init, AllOff
  <2>4. faults \in 0 .. MaxFaults
    BY NoWalAssumption DEF Init
  <2> QED BY <2>2, <2>3, <2>4, ZeroCounts DEF Init, TypeOK
<1>2. Uncommitted = Zero
  BY DEF Uncommitted, Init, AllOff
<1>3. OnlyAccepted /\ StopFlushes /\ DownIsOff
  BY ZeroCounts DEF Init, OnlyAccepted, StopFlushes, DownIsOff, AllOff, Locked, Tasks
<1>4. Conserved
  BY <1>2, ZeroCounts DEF Init, Conserved, Places
<1> QED BY <1>1, <1>3, <1>4 DEF Inv

\* A step of a task outside the lock that stays outside and touches no search.
LEMMA OutsideStep ==
    ASSUME Inv,
           UNCHANGED <<applied, buffer, inflight, accepted, lost, failed, reread, faults>>,
           pc' \in [Tasks -> {"off", "sleep", "want", "apply", "commit", "done"}],
           \A t \in Tasks : pc'[t] # pc[t] => ~ Locked(t) /\ ~ Locked(t)',
           phase' \in {"down", "serving", "stopping"},
           DownIsOff',
           StopFlushes'
    PROVE  Inv'
<1>1. \A t \in Tasks : Locked(t)' = Locked(t) /\ (pc'[t] = "apply" <=> pc[t] = "apply")
  BY DEF Locked
<1>2. LockFree' = LockFree
  BY <1>1, FreeIs DEF LockFree, Locked
<1>3. TypeOK'
  <2>1. \A t, u \in Tasks : {pc'[t], pc'[u]} \subseteq {"apply", "commit"} => t = u
    BY <1>1 DEF Inv, TypeOK, Locked
  <2> QED BY <1>2, <2>1 DEF Inv, TypeOK, Counts, Zero
<1>4. Uncommitted' = Uncommitted
  BY <1>1 DEF Uncommitted, Zero
<1>5. OnlyAccepted' /\ Conserved'
  BY <1>4 DEF Inv, OnlyAccepted, Conserved, Places
<1> QED BY <1>3, <1>5 DEF Inv

LEMMA OutsideSteps ==
    ASSUME Inv,
           \/ Start \/ Tick \/ Discard \/ BeginStop \/ StopFlush
           \/ \E t \in Tasks : FlushNothing(t)
    PROVE  Inv'
<1>1. TypeOK /\ StopFlushes /\ DownIsOff
      /\ pc \in [Tasks -> {"off", "sleep", "want", "apply", "commit", "done"}]
  BY DEF Inv, TypeOK
<1>2. ASSUME UNCHANGED <<applied, buffer, inflight, accepted, lost, failed, reread, faults>>,
             phase' \in {"down", "serving", "stopping"},
             NEW t \in Tasks, ~ Locked(t), pc'[t] \notin {"apply", "commit"},
             pc' \in [Tasks -> {"off", "sleep", "want", "apply", "commit", "done"}],
             \A u \in Tasks \ {t} : pc'[u] = pc[u],
             DownIsOff', StopFlushes'
      PROVE  Inv'
  <2>1. \A u \in Tasks : pc'[u] # pc[u] => ~ Locked(u) /\ ~ Locked(u)'
    BY <1>2 DEF Locked
  <2> QED BY <1>2, <2>1, OutsideStep
<1>3. ASSUME NEW t \in Tasks, NEW x \in {"off", "sleep", "want", "done"},
             pc' = [pc EXCEPT ![t] = x]
      PROVE  /\ pc' \in [Tasks -> {"off", "sleep", "want", "apply", "commit", "done"}]
             /\ pc'[t] = x /\ x \notin {"apply", "commit"}
             /\ \A u \in Tasks \ {t} : pc'[u] = pc[u]
  BY <1>1, <1>3
\* The conditions StopFlushes and DownIsOff speak about.
<1>4. Tasks = {"run", "size", "stop"}
  BY DEF Tasks
<1>5. ASSUME Start PROVE Inv'
  <2>1. pc["stop"] = "off" /\ pc["run"] = "off" /\ phase' = "serving"
    BY <1>1, <1>4, <1>5 DEF Start, DownIsOff
  <2>2. pc' = [pc EXCEPT !["run"] = "sleep"]
    BY <1>5 DEF Start
  <2>3. DownIsOff' /\ StopFlushes'
    BY <1>1, <1>4, <2>1, <2>2 DEF DownIsOff, StopFlushes, Locked
  <2>4. ~ Locked("run")
    BY <2>1 DEF Locked
  <2> QED BY <1>2, <1>3, <1>4, <1>5, <2>1, <2>2, <2>3, <2>4 DEF Start
<1>6. ASSUME Tick PROVE Inv'
  <2>1. pc["run"] = "sleep" /\ pc["stop"] = "off" /\ phase' = phase /\ phase # "down"
    BY <1>1, <1>4, <1>6 DEF Tick, StopFlushes, Up
  <2>2. pc' = [pc EXCEPT !["run"] = "want"]
    BY <1>6 DEF Tick
  <2>3. DownIsOff' /\ StopFlushes'
    BY <1>1, <1>4, <2>1, <2>2 DEF DownIsOff, StopFlushes, Locked
  <2>4. ~ Locked("run")
    BY <2>1 DEF Locked
  <2> QED BY <1>1, <1>2, <1>3, <1>4, <1>6, <2>1, <2>2, <2>3, <2>4 DEF Tick, Inv, TypeOK
<1>7. ASSUME Discard PROVE Inv'
  <2>1. pc["size"] = "done" /\ phase' = phase /\ phase # "down"
    BY <1>7 DEF Discard, Up
  <2>2. pc' = [pc EXCEPT !["size"] = "off"]
    BY <1>7 DEF Discard
  <2>3. \A t \in Tasks : Locked(t)' = Locked(t)
    BY <1>1, <1>4, <2>1, <2>2 DEF Locked
  <2>4. LockFree' = LockFree
    BY <2>3, FreeIs DEF LockFree, Locked
  <2>5. DownIsOff' /\ StopFlushes'
    BY <1>1, <1>4, <1>7, <2>1, <2>2, <2>3, <2>4 DEF DownIsOff, StopFlushes, Discard, Zero
  <2>6. ~ Locked("size")
    BY <2>1 DEF Locked
  <2> QED BY <1>1, <1>2, <1>3, <1>4, <1>7, <2>1, <2>2, <2>5, <2>6 DEF Discard, Inv, TypeOK
<1>8. ASSUME BeginStop PROVE Inv'
  <2>1. phase' = "stopping" /\ pc' = pc /\ pc["stop"] = "off" /\ UNCHANGED <<buffer, failed>>
    BY <1>1, <1>8 DEF BeginStop, StopFlushes
  <2>2. DownIsOff' /\ StopFlushes'
    BY <2>1 DEF DownIsOff, StopFlushes, Locked
  <2> QED BY <1>1, <1>8, <2>1, <2>2, OutsideStep DEF BeginStop
<1>9. ASSUME StopFlush PROVE Inv'
  <2>1. pc["run"] = "off" /\ pc["stop"] = "off" /\ phase' = phase /\ phase = "stopping"
    BY <1>9 DEF StopFlush
  <2>2. pc' = [pc EXCEPT !["stop"] = "want"]
    BY <1>9 DEF StopFlush
  <2>3. DownIsOff' /\ StopFlushes'
    BY <1>1, <1>4, <2>1, <2>2 DEF DownIsOff, StopFlushes, Locked
  <2>4. ~ Locked("stop")
    BY <2>1 DEF Locked
  <2> QED BY <1>2, <1>3, <1>4, <1>9, <2>1, <2>2, <2>3, <2>4 DEF StopFlush
<1>10. ASSUME NEW t \in Tasks, FlushNothing(t) PROVE Inv'
  <2>1. pc[t] = "want" /\ phase' = phase /\ phase # "down" /\ buffer = Zero /\ buffer' = Zero
        /\ ~ Locked(t) /\ LockFree /\ pc' = Returned(t)
    BY <1>10 DEF FlushNothing, Up, Locked, Zero
  <2>2. /\ pc' \in [Tasks -> {"off", "sleep", "want", "apply", "commit", "done"}]
        /\ pc'[t] \in {"off", "sleep", "done"}
        /\ t = "stop" => pc'[t] = "done"
        /\ pc'["run"] = "off" \/ t # "run" \/ phase = "serving"
        /\ \A u \in Tasks \ {t} : pc'[u] = pc[u]
    BY <1>1, <2>1, Outside
  <2>3. DownIsOff' /\ StopFlushes'
    BY <1>1, <1>4, <2>1, <2>2 DEF DownIsOff, StopFlushes, Locked, Zero
  <2> QED BY <1>1, <1>2, <1>10, <2>1, <2>2, <2>3 DEF FlushNothing, Inv, TypeOK
<1> QED BY <1>5, <1>6, <1>7, <1>8, <1>9, <1>10

----------------------------------------------------------------------------
LEMMA SubmitStep == ASSUME Inv, NEW s \in Searches, Submit(s) PROVE Inv'
<1> DEFINE PCs == {"off", "sleep", "want", "apply", "commit", "done"}
<1>1. TypeOK /\ OnlyAccepted /\ Conserved /\ StopFlushes /\ DownIsOff /\ pc \in [Tasks -> PCs]
      /\ buffer \in Counts /\ applied \in Counts /\ inflight \in Counts /\ lost \subseteq accepted
  BY DEF Inv, TypeOK
<1>2. /\ pc' \in [Tasks -> PCs]
      /\ \A t \in Tasks : Locked(t)' = Locked(t) /\ (pc'[t] = "apply" <=> pc[t] = "apply")
      /\ pc'["stop"] = pc["stop"] /\ pc'["run"] = pc["run"]
  <2>1. CASE pc' = pc
    BY <1>1, <2>1 DEF Locked
  <2>2. CASE pc' = [pc EXCEPT !["size"] = "want"] /\ pc["size"] = "off"
    BY <1>1, <2>2 DEF Locked, Tasks
  <2> QED BY <2>1, <2>2 DEF Submit, FlushDue
<1>3. /\ buffer' \in Counts
      /\ \A u \in Searches : buffer'[u] = IF u = s THEN buffer[u] + 1 ELSE buffer[u]
  BY <1>1 DEF Submit, Counts
<1>4. LockFree' = LockFree
  BY <1>2, FreeIs DEF LockFree, Locked
<1>5. TypeOK'
  <2>1. \A t, u \in Tasks : {pc'[t], pc'[u]} \subseteq {"apply", "commit"} => t = u
    BY <1>1, <1>2 DEF TypeOK, Locked
  <2> QED BY <1>1, <1>2, <1>3, <1>4, <2>1 DEF TypeOK, Submit, Zero, Counts
<1>6. Uncommitted' = Uncommitted
  BY <1>2 DEF Uncommitted, Submit, Zero
<1>7. OnlyAccepted' /\ DownIsOff'
  BY <1>1, <1>2, <1>3 DEF OnlyAccepted, Submit, DownIsOff
<1>8. StopFlushes'
  BY <1>1, <1>2 DEF StopFlushes, Submit, Locked
<1>9. Conserved'
  <2>1. Uncommitted \in Counts
    BY <1>1, UncommittedIs
  <2>2. Places(s)' = Places(s) + 1 /\ Places(s) \in Nat
    BY <1>1, <1>3, <1>6, <2>1 DEF Places, Counts, Submit
  <2>3. \A u \in Searches \ {s} : Places(u)' = Places(u)
    BY <1>3, <1>6 DEF Places, Submit
  <2>4. s \notin accepted /\ s \notin lost' /\ accepted' = accepted \union {s}
        /\ lost' = lost /\ reread' = reread
    BY <1>1 DEF Submit
  <2>5. \A u \in Searches \ {s} : u \in accepted' \ lost' <=> u \in accepted \ lost
    BY <2>4
  <2>6. s \notin accepted \ lost /\ s \in accepted' \ lost'
    BY <2>4
  <2>7. /\ Places(s)' >= 1
        /\ ~ reread' => Places(s)' = 1
    BY <1>1, <2>2, <2>4, <2>6 DEF Conserved
  <2> QED BY <1>1, <2>3, <2>4, <2>5, <2>6, <2>7 DEF Conserved
<1> QED BY <1>5, <1>7, <1>8, <1>9 DEF Inv

\* What a task does inside the lock, or as it enters or leaves it.
LEMMA LockSteps ==
    ASSUME Inv, NEW t \in Tasks,
           phase' = phase /\ phase # "down",
           UNCHANGED <<accepted, lost>>,
           pc' \in [Tasks -> {"off", "sleep", "want", "apply", "commit", "done"}],
           \A u \in Tasks \ {t} : pc'[u] = pc[u] /\ ~ Locked(u),
           applied' \in Counts, buffer' \in Counts, inflight' \in Counts,
           failed' \in BOOLEAN, reread' \in BOOLEAN, faults' \in 0 .. MaxFaults,
           ~ Locked(t)' => inflight' = Zero,
           \A s \in Searches :
               LET open  == IF pc[t] = "apply" THEN inflight[s] ELSE 0
                   open2 == IF pc'[t] = "apply" THEN inflight'[s] ELSE 0
               IN  /\ applied'[s] + buffer'[s] + open2 >= applied[s] + buffer[s] + open
                   /\ ~ reread' => ~ reread
                   /\ ~ reread' => applied'[s] + buffer'[s] + open2 = applied[s] + buffer[s] + open
                   /\ applied'[s] > 0 \/ buffer'[s] > 0 \/ inflight'[s] > 0
                         => applied[s] > 0 \/ buffer[s] > 0 \/ inflight[s] > 0,
           StopFlushes'
    PROVE  Inv'
<1>1. TypeOK /\ OnlyAccepted /\ Conserved
  BY DEF Inv
<1>2. TypeOK'
  <2>1. \A x, y \in Tasks : {pc'[x], pc'[y]} \subseteq {"apply", "commit"} => x = y
    BY DEF Locked
  <2>2. LockFree' => inflight' = Zero
    BY DEF LockFree, Locked
  <2>3. inflight' = Zero => inflight' = Zero'
    BY DEF Zero
  <2> QED BY <1>1, <2>1, <2>2, <2>3 DEF TypeOK, Counts
<1>3. OnlyAccepted' /\ DownIsOff'
  BY <1>1 DEF OnlyAccepted, DownIsOff
<1>4. \A s \in Searches : Uncommitted[s] = IF pc[t] = "apply" THEN inflight[s] ELSE 0
  BY <1>1, UncommittedIs, ZeroCounts DEF Locked
<1>5. \A s \in Searches : Uncommitted'[s] = IF pc'[t] = "apply" THEN inflight'[s] ELSE 0
  <2>1. (\E u \in Tasks : pc'[u] = "apply") <=> pc'[t] = "apply"
    BY DEF Locked
  <2>2. Uncommitted' = IF pc'[t] = "apply" THEN inflight' ELSE Zero
    BY <2>1 DEF Uncommitted, Zero
  <2> QED BY <2>2, ZeroCounts
<1>6. \A s \in Searches : /\ Places(s)' >= Places(s)
                          /\ ~ reread' => ~ reread /\ Places(s)' = Places(s)
  BY <1>4, <1>5 DEF Places
<1>7. \A s \in Searches : Places(s) \in Nat /\ Places(s)' \in Nat
  <2>1. \A s \in Searches : (IF pc'[t] = "apply" THEN inflight'[s] ELSE 0) \in Nat
    BY DEF Counts
  <2>2. \A s \in Searches : (IF pc[t] = "apply" THEN inflight[s] ELSE 0) \in Nat
    BY <1>1 DEF TypeOK, Counts
  <2> QED BY <1>1, <1>4, <1>5, <2>1, <2>2 DEF Places, TypeOK, Counts
<1>8. Conserved'
  BY <1>1, <1>6, <1>7 DEF Conserved
<1> QED BY <1>2, <1>3, <1>8 DEF Inv

LEMMA StartFlushStep == ASSUME Inv, NEW t \in Tasks, StartFlush(t) PROVE Inv'
<1>1. TypeOK /\ StopFlushes /\ applied \in Counts /\ buffer \in Counts
      /\ pc \in [Tasks -> {"off", "sleep", "want", "apply", "commit", "done"}]
  BY DEF Inv, TypeOK
<1>2. /\ pc[t] = "want" /\ phase' = phase /\ phase # "down"
      /\ inflight' = buffer /\ buffer' = Zero /\ pc' = [pc EXCEPT ![t] = "apply"]
      /\ \A u \in Tasks : ~ Locked(u)
  BY FreeIs DEF StartFlush, Up
<1>3. inflight = Zero
  BY <1>1 DEF TypeOK, StartFlush
<1>4. /\ pc' \in [Tasks -> {"off", "sleep", "want", "apply", "commit", "done"}]
      /\ pc'[t] = "apply" /\ Locked(t)'
      /\ \A u \in Tasks \ {t} : pc'[u] = pc[u]
  BY <1>1, <1>2 DEF Locked
<1>5. StopFlushes'
  <2>1. pc'["stop"] # "off" => pc["stop"] # "off"
    BY <1>2, <1>4 DEF Tasks
  <2>2. t = "run" => pc["stop"] = "off"
    BY <1>1, <1>2 DEF StopFlushes
  <2>3. pc'["stop"] # "off" => phase' = "stopping" /\ pc'["run"] = "off"
    BY <1>1, <1>2, <1>4, <2>1, <2>2 DEF StopFlushes, Tasks
  <2>4. buffer' = Zero'
    BY <1>2 DEF Zero
  <2> QED BY <2>3, <2>4 DEF StopFlushes
<1>6. \A s \in Searches :
         /\ inflight[s] = 0 /\ buffer'[s] = 0 /\ inflight'[s] = buffer[s]
         /\ applied[s] \in Nat /\ buffer[s] \in Nat
  BY <1>1, <1>2, <1>3, ZeroCounts DEF Counts
<1>7. UNCHANGED <<applied, accepted, lost, failed, reread, faults>>
  BY DEF StartFlush
<1>8. buffer' \in Counts /\ inflight' \in Counts
  BY <1>1, <1>2, ZeroCounts
<1> QED BY <1>1, <1>2, <1>4, <1>5, <1>6, <1>7, <1>8, LockSteps DEF TypeOK

LEMMA CommitBatchStep == ASSUME Inv, NEW t \in Tasks, CommitBatch(t) PROVE Inv'
<1>1. TypeOK /\ StopFlushes /\ DownIsOff /\ applied \in Counts /\ buffer \in Counts
      /\ inflight \in Counts
      /\ pc \in [Tasks -> {"off", "sleep", "want", "apply", "commit", "done"}]
  BY DEF Inv, TypeOK
<1>2. /\ pc[t] = "apply" /\ Locked(t) /\ phase' = phase /\ phase # "down"
      /\ applied' = Plus(applied, inflight) /\ pc' = [pc EXCEPT ![t] = "commit"]
      /\ UNCHANGED <<buffer, inflight, accepted, lost, failed, reread, faults>>
  BY <1>1 DEF CommitBatch, Locked, DownIsOff
<1>3. /\ pc' \in [Tasks -> {"off", "sleep", "want", "apply", "commit", "done"}]
      /\ pc'[t] = "commit" /\ Locked(t)'
      /\ \A u \in Tasks \ {t} : pc'[u] = pc[u] /\ ~ Locked(u)
  BY <1>1, <1>2, Alone DEF Locked
<1>4. StopFlushes'
  <2>1. \A u \in Tasks : Locked(u)' = Locked(u) /\ (pc'[u] = pc[u] \/ Locked(u))
    BY <1>2, <1>3 DEF Locked
  <2>2. LockFree' = LockFree
    BY <2>1, FreeIs DEF LockFree, Locked
  <2>3. /\ pc'["stop"] = "off" <=> pc["stop"] = "off"
        /\ pc'["stop"] = "done" <=> pc["stop"] = "done"
        /\ pc'["run"] = "off" <=> pc["run"] = "off"
    BY <1>2, <1>3 DEF Tasks
  <2>4. buffer' = buffer /\ Zero' = Zero
    BY <1>2 DEF Zero
  <2>5. Locked("stop")' = Locked("stop")
    BY <2>1 DEF Tasks
  <2> QED BY <1>1, <1>2, <2>2, <2>3, <2>4, <2>5 DEF StopFlushes
<1>5. /\ applied' \in Counts
      /\ \A s \in Searches : applied'[s] = applied[s] + inflight[s]
  BY <1>1, <1>2, PlusCounts
<1>6. \A s \in Searches : applied[s] \in Nat /\ buffer[s] \in Nat /\ inflight[s] \in Nat
  BY <1>1 DEF Counts
<1> QED BY <1>1, <1>2, <1>3, <1>4, <1>5, <1>6, LockSteps DEF TypeOK

\* How a flush ends, with the batch back in the buffer or counted.
LEMMA ReleaseStep ==
    ASSUME Inv, NEW t \in Tasks, Locked(t), pc' = Returned(t),
           inflight' = Zero, UNCHANGED <<applied, phase, accepted, lost>>,
           faults' \in 0 .. MaxFaults, reread' \in BOOLEAN,
           \/ /\ pc[t] = "apply" /\ buffer' = Plus(buffer, inflight) /\ failed' = TRUE
              /\ reread' = reread
           \/ /\ pc[t] = "commit" /\ buffer' = Plus(buffer, inflight) /\ failed' = TRUE
              /\ reread' = TRUE
           \/ /\ pc[t] = "commit" /\ buffer' = buffer /\ failed' = FALSE /\ reread' = reread
    PROVE  Inv'
<1>1. TypeOK /\ StopFlushes /\ DownIsOff /\ applied \in Counts /\ buffer \in Counts
      /\ inflight \in Counts
      /\ pc \in [Tasks -> {"off", "sleep", "want", "apply", "commit", "done"}]
  BY DEF Inv, TypeOK
<1>2. phase # "down"
  BY <1>1 DEF DownIsOff, Locked
<1>3. /\ pc' \in [Tasks -> {"off", "sleep", "want", "apply", "commit", "done"}]
      /\ pc'[t] \in {"off", "sleep", "done"} /\ pc'[t] # "apply" /\ ~ Locked(t)'
      /\ t = "stop" => pc'[t] = "done"
      /\ pc'["run"] = "off" \/ t # "run" \/ phase = "serving"
      /\ \A u \in Tasks \ {t} : pc'[u] = pc[u] /\ ~ Locked(u)
  BY <1>1, Outside, Alone DEF Locked
<1>4. /\ buffer' \in Counts
      /\ \A s \in Searches : buffer'[s] = buffer[s] \/ buffer'[s] = buffer[s] + inflight[s]
      /\ pc[t] = "apply" => \A s \in Searches : buffer'[s] = buffer[s] + inflight[s]
      /\ ~ reread' => ~ reread /\ (pc[t] = "commit" => \A s \in Searches : buffer'[s] = buffer[s])
  BY <1>1, PlusCounts
<1>5. \A s \in Searches : applied[s] \in Nat /\ buffer[s] \in Nat /\ inflight[s] \in Nat
                          /\ inflight'[s] = 0
  BY <1>1, ZeroCounts DEF Counts
<1>6. StopFlushes'
  <2>1. LockFree' /\ Zero' = Zero /\ ~ LockFree
    BY <1>3 DEF LockFree, Locked, Zero
  <2>2. failed' = TRUE \/ (failed' = FALSE /\ buffer' = buffer)
    OBVIOUS
  <2>3. CASE t = "stop"
    <3>1. buffer = Zero
      BY <1>1, <2>3 DEF StopFlushes
    <3>2. phase = "stopping" /\ pc["run"] = "off"
      BY <1>1, <2>3 DEF StopFlushes, Locked
    <3>3. pc'["run"] = "off" /\ phase' = "stopping"
      BY <1>3, <2>3, <3>2 DEF Tasks
    <3> QED BY <1>3, <2>1, <2>2, <2>3, <3>1, <3>3 DEF StopFlushes
  <2>4. CASE t # "stop"
    <3>1. pc'["stop"] = pc["stop"] /\ ~ Locked("stop")
      BY <1>3, <2>4 DEF Tasks
    <3>2. ~ Locked("stop")'
      BY <3>1 DEF Locked
    <3>3. CASE pc["stop"] = "off"
      BY <3>1, <3>2, <3>3 DEF StopFlushes
    <3>4. CASE pc["stop"] # "off"
      <4>1. phase = "stopping" /\ pc["run"] = "off"
        BY <1>1, <3>4 DEF StopFlushes
      <4>2. t # "run"
        BY <4>1 DEF Locked
      <4>3. pc'["run"] = "off"
        BY <1>3, <4>1, <4>2 DEF Tasks
      <4>4. pc["stop"] = "done" => buffer = Zero
        BY <1>1, <2>1 DEF StopFlushes
      <4> QED BY <2>1, <2>2, <3>1, <3>2, <4>1, <4>3, <4>4 DEF StopFlushes
    <3> QED BY <3>3, <3>4
  <2> QED BY <2>3, <2>4
<1>7. pc[t] = "apply" \/ pc[t] = "commit"
  BY DEF Locked
<1> HIDE DEF Locked
<1>8. inflight' \in Counts /\ failed' \in BOOLEAN /\ phase' = phase /\ applied' \in Counts
  BY <1>1, ZeroCounts
<1>9. \A s \in Searches :
         LET open  == IF pc[t] = "apply" THEN inflight[s] ELSE 0
             open2 == IF pc'[t] = "apply" THEN inflight'[s] ELSE 0
         IN  /\ applied'[s] + buffer'[s] + open2 >= applied[s] + buffer[s] + open
             /\ ~ reread' => ~ reread
             /\ ~ reread' => applied'[s] + buffer'[s] + open2 = applied[s] + buffer[s] + open
             /\ applied'[s] > 0 \/ buffer'[s] > 0 \/ inflight'[s] > 0
                   => applied[s] > 0 \/ buffer[s] > 0 \/ inflight[s] > 0
  BY <1>3, <1>4, <1>5, <1>7
<1> QED BY <1>2, <1>3, <1>4, <1>6, <1>8, <1>9, LockSteps

LEMMA TaskSteps == ASSUME Inv, NEW t \in Tasks, TaskStep(t) PROVE Inv'
<1>1. faults \in 0 .. MaxFaults /\ reread \in BOOLEAN
  BY DEF Inv, TypeOK
<1>2. Fault => faults' \in 0 .. MaxFaults
  BY <1>1, NoWalAssumption DEF Fault
<1>3. CASE ApplyError(t)
  BY <1>1, <1>2, <1>3, ReleaseStep DEF ApplyError, Rebuffer, Locked
<1>4. CASE ReadBackError(t)
  BY <1>1, <1>2, <1>4, ReleaseStep DEF ReadBackError, Rebuffer, Locked
<1>5. CASE FinishFlush(t)
  BY <1>1, <1>5, ReleaseStep DEF FinishFlush, Locked
<1> QED BY <1>3, <1>4, <1>5, StartFlushStep, CommitBatchStep, OutsideSteps DEF TaskStep

----------------------------------------------------------------------------
\* The end of a process: what is kept is what was counted.
LEMMA EndStep ==
    ASSUME Inv, MemoryLost, UNCHANGED <<applied, reread, accepted>>,
           faults' \in 0 .. MaxFaults
    PROVE  Inv'
<1>1. TypeOK /\ OnlyAccepted /\ Conserved /\ applied \in Counts /\ buffer \in Counts
      /\ inflight \in Counts
  BY DEF Inv, TypeOK
<1>2. /\ phase' = "down" /\ buffer' = Zero /\ inflight' = Zero /\ failed' = FALSE
      /\ lost' = lost \union Held(Plus(buffer, Uncommitted))
  BY DEF MemoryLost
<1>3. /\ pc' \in [Tasks -> {"off", "sleep", "want", "apply", "commit", "done"}]
      /\ \A t \in Tasks : pc'[t] = "off"
  BY DEF MemoryLost, AllOff
<1>4. /\ Uncommitted \in Counts
      /\ \A s \in Searches : Uncommitted[s] = inflight[s] \/ Uncommitted[s] = 0
  BY <1>1, UncommittedIs, ZeroCounts
<1>5. \A s \in Searches : /\ applied[s] \in Nat /\ buffer[s] \in Nat /\ Uncommitted[s] \in Nat
                          /\ s \in Held(Plus(buffer, Uncommitted)) <=> buffer[s] + Uncommitted[s] > 0
  BY <1>1, <1>4, PlusCounts DEF Counts, Held
<1>6. Held(Plus(buffer, Uncommitted)) \subseteq accepted
  <2>1. \A s \in Searches : inflight[s] \in Nat
    BY <1>1 DEF Counts
  <2>2. \A s \in Searches : buffer[s] + Uncommitted[s] > 0 => buffer[s] > 0 \/ inflight[s] > 0
    BY <1>4, <1>5, <2>1
  <2> QED BY <1>1, <1>5, <2>2 DEF OnlyAccepted, Held
<1>7. TypeOK'
  <2>1. Zero' = Zero
    BY DEF Zero
  <2>2. \A t, u \in Tasks : {pc'[t], pc'[u]} \subseteq {"apply", "commit"} => t = u
    BY <1>3
  <2> QED BY <1>1, <1>2, <1>3, <1>6, <2>1, <2>2, ZeroCounts DEF TypeOK, Counts
<1>8. OnlyAccepted'
  BY <1>1, <1>2, ZeroCounts DEF OnlyAccepted
<1>9. DownIsOff' /\ StopFlushes'
  BY <1>3 DEF DownIsOff, StopFlushes, Locked, Tasks
<1>10. Conserved'
  <2>1. Uncommitted' = Zero
    BY <1>3 DEF Uncommitted, Zero
  <2>2. \A s \in Searches : Places(s)' = applied[s]
    BY <1>2, <1>5, <2>1, ZeroCounts DEF Places
  <2>3. \A s \in Searches : Places(s) = applied[s] + buffer[s] + Uncommitted[s]
    BY DEF Places
  <2>4. \A s \in Searches : s \in accepted' \ lost' <=>
            s \in accepted \ lost /\ buffer[s] + Uncommitted[s] = 0
    BY <1>2, <1>5
  <2>5. ASSUME NEW s \in Searches
        PROVE  LET kept == s \in accepted' \ lost'
               IN  /\ kept => Places(s)' >= 1
                   /\ ~ reread' => Places(s)' = IF kept THEN 1 ELSE 0
    <3>1. LET kept == s \in accepted \ lost
          IN  /\ kept => Places(s) >= 1
              /\ ~ reread => Places(s) = IF kept THEN 1 ELSE 0
      BY <1>1 DEF Conserved
    <3> QED BY <1>5, <2>2, <2>3, <2>4, <3>1
  <2> QED BY <2>5 DEF Conserved
<1> QED BY <1>7, <1>8, <1>9, <1>10 DEF Inv

LEMMA InvStep == Inv /\ [Next]_vars => Inv'
<1> SUFFICES ASSUME Inv, [Next]_vars PROVE Inv'
  OBVIOUS
<1>1. failed \in BOOLEAN /\ faults \in 0 .. MaxFaults
  BY DEF Inv, TypeOK
<1>2. StopDone => Inv'
  BY <1>1, EndStep DEF StopDone
<1>3. Crash => Inv'
  BY <1>1, EndStep, NoWalAssumption DEF Crash, Fault
<1>4. UNCHANGED vars => Inv'
  BY DEF vars, Inv, TypeOK, OnlyAccepted, Conserved, DownIsOff, StopFlushes, Places,
         Uncommitted, LockFree, Locked, Zero, Counts
<1> QED BY <1>2, <1>3, <1>4, OutsideSteps, SubmitStep, TaskSteps DEF Next

----------------------------------------------------------------------------
\* The state is well-formed, and one task at a time is in the lock.
THEOREM TypeCorrect == Spec => []TypeOK
<1>1. Inv => TypeOK
  BY DEF Inv
<1> QED BY <1>1, Initially, InvStep, PTL DEF Spec

\* Whatever fails and however often, re-buffering loses no search and counts
\* none twice while its process lives, but for errors after a commit.
THEOREM NothingLostOrDoubled == Spec => []Conserved
<1>1. Inv => Conserved
  BY DEF Inv
<1> QED BY <1>1, Initially, InvStep, PTL DEF Spec

LEMMA StopStep ==
    ASSUME Inv, [Next]_vars, phase = "stopping", phase' = "down", faults' = faults
    PROVE  lost' = lost \/ failed
<1>1. TypeOK /\ StopFlushes
  BY DEF Inv
<1>2. StopDone
  <2>1. ~ Crash
    BY <1>1 DEF Crash, Fault, TypeOK
  <2>2. \A t \in Tasks : ~ TaskStep(t)
    BY DEF TaskStep, StartFlush, FlushNothing, CommitBatch, ApplyError, ReadBackError,
           FinishFlush
  <2>3. ~ (Start \/ Tick \/ Discard \/ BeginStop \/ StopFlush \/ UNCHANGED vars)
    BY DEF Start, Tick, Discard, BeginStop, StopFlush, vars
  <2>4. \A s \in Searches : ~ Submit(s)
    BY DEF Submit
  <2> QED BY <2>1, <2>2, <2>3, <2>4 DEF Next
<1>3. pc["stop"] = "done" /\ pc["size"] \in {"off", "done"} /\ MemoryLost
  BY <1>2 DEF StopDone
<1>4. pc["run"] = "off" /\ (buffer = Zero \/ failed)
  BY <1>1, <1>3 DEF StopFlushes
<1>5. Uncommitted = Zero
  BY <1>3, <1>4 DEF Uncommitted, Tasks
<1>6. CASE buffer = Zero
  <2>1. Plus(buffer, Uncommitted) \in Counts
        /\ \A s \in Searches : Plus(buffer, Uncommitted)[s] = 0
    BY <1>5, <1>6, ZeroCounts, PlusCounts
  <2>2. Held(Plus(buffer, Uncommitted)) = {}
    BY <2>1 DEF Held
  <2> QED BY <1>3, <2>2 DEF MemoryLost
<1> QED BY <1>4, <1>6

\* A clean shutdown gives up a search only when the last transaction of the
\* same process failed.
THEOREM ShutdownKeeps == Spec => StopKeeps
<1>1. Inv /\ [Next]_vars =>
        [phase = "stopping" /\ phase' = "down" /\ faults' = faults
           => lost' = lost \/ failed]_vars
  BY StopStep
<1> QED BY <1>1, Initially, InvStep, PTL DEF Spec, StopKeeps
============================================================================
