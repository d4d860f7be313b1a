------------------------- MODULE DatasetLoad_proofs -------------------------
(***************************************************************************)
(* Theorems about DatasetLoad, for every number of searches, of loads and  *)
(* of failures.  The part of the invariant of BatchWriter that does not    *)
(* depend on which searches the database has, Base, survives the steps of  *)
(* the loader as well.                                                     *)
(***************************************************************************)
EXTENDS DatasetLoad, BatchWriter_proofs

\* Nothing that is there, on disk or in a batch, could count s.
Clean(s) == /\ applied[s] = 0
            /\ job.deltas[s] = 0
            /\ s \notin live
            /\ \A n \in DOMAIN seg : s \notin seg[n]

\* The loader runs while the server is down; while it removes files, what is
\* left is what it still means to remove.
LoaderAlone ==
    /\ step \in {"none", "remove", "reset"}
    /\ step # "none" => phase = "down" /\ live = {} /\ old = accepted
    /\ doomed = IF step = "remove" THEN DOMAIN seg ELSE {}
    /\ step = "reset" => DOMAIN seg = {}
    /\ phase = "down" => job = NoJob

Books == /\ gone \subseteq old
         /\ old \subseteq accepted
         /\ loads \in 0 .. MaxLoads

LoadInv == /\ Base
           /\ LoaderAlone
           /\ Books
           /\ \A s \in gone : Clean(s)
           /\ \A s \in accepted \ old : Kept(s)

LEMMA NotInLines ==
    ASSUME NEW files, NEW s \in Searches, \A n \in DOMAIN files : s \notin files[n]
    PROVE  LinesIn(files)[s] = 0
<1>1. {n \in DOMAIN files : s \in files[n]} = {}
  OBVIOUS
<1>2. LinesIn(files)[s] = Cardinality({n \in DOMAIN files : s \in files[n]})
  BY DEF LinesIn
<1> QED BY <1>1, <1>2, FS_EmptySet

LEMMA NoJobIsClean == NoJob.deltas = Zero /\ \A s \in Searches : Zero[s] = 0
  BY DEF NoJob, Zero

\* What each step of the server does to the log files.
LEMMA Files ==
    ASSUME Next
    PROVE  \/ seg' = seg
           \/ seg' = NoSegments
           \/ seg' = WithSegment(segSeq + 1)
           \/ \E numbers : seg' = Keeping(numbers)
  BY DEF Next, Submit, TaskStep, StartFlush, Rotate, FlushNothing, RotateError,
         CommitBatch, ApplyError, ReadBackError, FinishFlush, RemoveError, Tick, Discard,
         BeginStop, StopFlush, StopDone, Crash, Recover, FinishRecovery, CrashInRecovery,
         UnlinkedBelow, disk

\* No step of the server brings a search back that nothing holds.
LEMMA StaysClean == ASSUME NEW s \in accepted, s \in Searches, Clean(s), Next
                    PROVE  Clean(s)'
<1>1. s \notin live' /\ s \in accepted'
  BY DEF Clean, Next, Submit, TaskStep, StartFlush, Rotate, FlushNothing, RotateError,
         CommitBatch, ApplyError, ReadBackError, FinishFlush, RemoveError, Tick, Discard,
         BeginStop, StopFlush, StopDone, Crash, Recover, FinishRecovery, CrashInRecovery, disk
<1>2. \A n \in DOMAIN seg' : s \notin seg'[n]
  <2>1. CASE seg' = seg
    BY <2>1 DEF Clean
  <2>2. CASE seg' = NoSegments
    BY <2>2 DEF NoSegments
  <2>3. CASE seg' = WithSegment(segSeq + 1)
    BY <2>3 DEF Clean, WithSegment
  <2>4. ASSUME NEW numbers, seg' = Keeping(numbers) PROVE \A n \in DOMAIN seg' : s \notin seg'[n]
    BY <2>4, KeepingSegments DEF Clean
  <2> QED BY <2>1, <2>2, <2>3, <2>4, Files
<1>3. job'.deltas[s] = 0
  <2>1. ASSUME NEW t \in Tasks, StartFlush(t) PROVE job'.deltas[s] = 0
    <3> DEFINE files == [n \in Outstanding(seg') |-> seg'[n]]
    <3>1. job'.deltas = LinesIn(files)
      BY <2>1 DEF StartFlush, JobFor
    <3>2. \A n \in DOMAIN files : s \notin files[n]
      BY <1>2 DEF Outstanding
    <3> HIDE DEF files
    <3> QED BY <3>1, <3>2, NotInLines
  <2>2. job' = job \/ job' = NoJob \/ \E t \in Tasks : StartFlush(t)
    BY DEF Next, Submit, TaskStep, FlushNothing, RotateError, CommitBatch, ApplyError,
           ReadBackError, FinishFlush, RemoveError, Tick, Discard, BeginStop, StopFlush,
           StopDone, Crash, Recover, FinishRecovery, CrashInRecovery, MemoryLost
  <2> QED BY <2>1, <2>2, NoJobIsClean DEF Clean
<1>4. applied'[s] = 0
  <2>1. ReplayedLines[s] = 0
    <3>1. \A n \in DOMAIN Keeping(ToReplay) : s \notin Keeping(ToReplay)[n]
      BY KeepingSegments DEF Clean
    <3>2. LinesIn(Keeping(ToReplay))[s] = 0
      BY <3>1, NotInLines
    <3> QED BY <3>2 DEF ReplayedLines, Clean
  <2>2. applied' = applied \/ applied' = Plus(applied, job.deltas)
        \/ applied' = Plus(applied, ReplayedLines)
    BY DEF Next, Submit, TaskStep, StartFlush, FlushNothing, RotateError, CommitBatch,
           ApplyError, ReadBackError, FinishFlush, RemoveError, Tick, Discard, BeginStop,
           StopFlush, StopDone, Crash, Recover, FinishRecovery, CrashInRecovery, disk
  <2>3. Plus(applied, job.deltas)[s] = 0 /\ Plus(applied, ReplayedLines)[s] = 0
    BY <2>1 DEF Plus, Clean
  <2> QED BY <2>2, <2>3 DEF Clean
<1> QED BY <1>1, <1>2, <1>3, <1>4 DEF Clean

LEMMA ServerStepKeeps == ASSUME LoadInv, ServerStep PROVE LoadInv'
<1>1. step = "none" /\ Next /\ UNCHANGED loadVars
  <2>1. CASE phase = "down"
    BY <2>1 DEF ServerStep
  <2>2. CASE phase # "down"
    BY <2>2 DEF ServerStep, LoadInv, LoaderAlone
  <2> QED BY <2>1, <2>2 DEF ServerStep
<1>2. Base' /\ KeepsAll
  BY <1>1, BaseStep DEF LoadInv
<1>3. accepted \subseteq accepted' /\ \A s \in accepted' \ accepted : s \in live'
  BY <1>1 DEF Next, Submit, TaskStep, StartFlush, FlushNothing, RotateError,
         CommitBatch, ApplyError, ReadBackError, FinishFlush, RemoveError, Tick, Discard,
         BeginStop, StopFlush, StopDone, Crash, Recover, FinishRecovery, CrashInRecovery
<1>4. phase' = "down" => job' = NoJob
  BY <1>1 DEF LoadInv, LoaderAlone, Next, Submit, TaskStep, StartFlush, FlushNothing,
         RotateError, CommitBatch, ApplyError, ReadBackError, FinishFlush, RemoveError, Tick,
         Discard, BeginStop, StopFlush, StopDone, Crash, Recover, FinishRecovery,
         CrashInRecovery, MemoryLost, Up
<1>5. gone' = gone /\ old' = old /\ doomed' = doomed /\ loads' = loads /\ step' = "none"
  BY <1>1 DEF loadVars
<1>6. accepted \subseteq Searches
  BY DEF LoadInv, Base, TypeOK
<1>7. \A s \in gone' : Clean(s)'
  BY <1>1, <1>5, <1>6, StaysClean DEF LoadInv, Books
<1>8. \A s \in accepted' \ old' : Kept(s)'
  BY <1>2, <1>3, <1>5, <1>6 DEF LoadInv, KeepsAll, Kept
<1>9. LoaderAlone' /\ Books'
  BY <1>1, <1>3, <1>4, <1>5 DEF LoadInv, LoaderAlone, Books
<1> QED BY <1>2, <1>7, <1>8, <1>9 DEF LoadInv

\* While the server is down, nobody holds the lock and nothing is buffered.
LEMMA DownBase ==
    ASSUME Base, phase = "down", UNCHANGED <<phase, buffer, walOpen, segSeq, pc, job,
                                             index, accepted, faults>>,
           applied' \in Counts, watermark' \in Nat, live' \subseteq live,
           DOMAIN seg' \subseteq DOMAIN seg, \A n \in DOMAIN seg' : seg'[n] = seg[n],
           seg' \in [DOMAIN seg' -> SUBSET Searches],
           applied' = applied \/ applied' = Zero,
           CoveredCounted'
    PROVE  Base'
<1>1. TypeOK'
  BY DEF Base, TypeOK
<1>2. OneFile' /\ BufferExact' /\ ReplayCounted'
  BY DEF Base, OneFile, BufferExact, ReplayCounted, Up
<1>3. LinesAccepted'
  BY DEF Base, LinesAccepted, Zero, TypeOK
<1>4. NumbersBounded'
  BY DEF Base, NumbersBounded
<1>5. JobExact'
  BY DEF Base, JobExact, Holds, Up
<1> QED BY <1>1, <1>2, <1>3, <1>4, <1>5 DEF Base

LEMMA LoaderStepKeeps ==
    ASSUME LoadInv,
           \/ RemoveLive \/ BulkReplace \/ ResetWatermark \/ LoaderDies
           \/ \E n \in doomed : RemoveSegment(n)
    PROVE  LoadInv'
<1>1. /\ Base /\ LoaderAlone /\ Books /\ TypeOK /\ CoveredCounted
      /\ applied \in Counts /\ watermark \in Nat /\ seg \in [DOMAIN seg -> SUBSET Searches]
      /\ DOMAIN seg \subseteq Nat \ {0} /\ accepted \subseteq Searches
  BY DEF LoadInv, Base, TypeOK
<1>2. CASE RemoveLive
  <2>1. Base'
    BY <1>1, <1>2, DownBase DEF RemoveLive, memory, CoveredCounted
  <2>2. LoaderAlone' /\ Books'
    BY <1>1, <1>2, DatasetLoadAssumption
       DEF RemoveLive, memory, LoaderAlone, Books, StaleSegments
  <2>3. \A s \in gone' : Clean(s)'
    BY <1>2 DEF RemoveLive, memory, LoadInv, Clean
  <2>4. accepted' \ old' = {}
    BY <1>2 DEF RemoveLive
  <2> QED BY <2>1, <2>2, <2>3, <2>4 DEF LoadInv
<1>3. ASSUME NEW n \in doomed, RemoveSegment(n) PROVE LoadInv'
  <2>1. /\ DOMAIN seg' = DOMAIN seg \intersect (Nat \ {n})
        /\ \A m \in DOMAIN seg' : seg'[m] = seg[m]
        /\ seg' \in [DOMAIN seg' -> SUBSET Searches]
    BY <1>1, <1>3, KeepingSegments DEF RemoveSegment, Keeping
  <2>2. phase = "down" /\ UNCHANGED <<applied, watermark, live>> /\ UNCHANGED memory
        /\ UNCHANGED <<accepted, faults, step, loads, old, gone>> /\ step = "remove"
        /\ doomed' = doomed \ {n}
    BY <1>1, <1>3 DEF RemoveSegment, LoaderAlone
  <2>3. Base'
    BY <1>1, <2>1, <2>2, DownBase DEF memory, CoveredCounted
  <2>4. LoaderAlone' /\ Books'
    BY <1>1, <2>1, <2>2 DEF LoaderAlone, Books, memory
  <2>5. \A s \in gone' : Clean(s)'
    BY <2>1, <2>2 DEF LoadInv, Clean, memory
  <2>6. accepted' \ old' = {}
    BY <1>1, <2>2 DEF LoaderAlone
  <2> QED BY <2>3, <2>4, <2>5, <2>6 DEF LoadInv
<1>4. CASE BulkReplace
  <2>1. /\ step = "remove" /\ DOMAIN seg = {} /\ live = {} /\ job = NoJob /\ phase = "down"
        /\ applied' = Zero /\ gone' = accepted /\ step' = "reset" /\ old = accepted
        /\ UNCHANGED <<watermark, live, seg, accepted, faults, doomed, loads, old>>
        /\ UNCHANGED memory /\ doomed = {}
    BY <1>1, <1>4 DEF BulkReplace, LoaderAlone
  <2>2. Zero \in Counts
    BY DEF Zero, Counts
  <2>3. Base'
    BY <1>1, <2>1, <2>2, DownBase DEF memory, CoveredCounted
  <2>4. LoaderAlone' /\ Books'
    BY <1>1, <2>1 DEF LoaderAlone, Books, memory, NoJob, Zero
  <2>5. \A s \in gone' : Clean(s)'
    BY <1>1, <2>1, NoJobIsClean DEF Clean, memory
  <2>6. accepted' \ old' = {}
    BY <2>1
  <2> QED BY <2>3, <2>4, <2>5, <2>6 DEF LoadInv
<1>5. CASE ResetWatermark
  <2>1. /\ step = "reset" /\ DOMAIN seg = {} /\ phase = "down" /\ watermark' = 0
        /\ step' = "none" /\ old = accepted /\ doomed = {}
        /\ UNCHANGED <<applied, live, seg, accepted, faults, doomed, loads, old, gone>>
        /\ UNCHANGED memory
    BY <1>1, <1>5 DEF ResetWatermark, LoaderAlone
  <2>2. Base'
    BY <1>1, <2>1, DownBase DEF memory, CoveredCounted
  <2>3. LoaderAlone' /\ Books'
    BY <1>1, <2>1 DEF LoaderAlone, Books, memory
  <2>4. \A s \in gone' : Clean(s)'
    BY <2>1 DEF LoadInv, Clean, memory
  <2>5. accepted' \ old' = {}
    BY <2>1
  <2> QED BY <2>2, <2>3, <2>4, <2>5 DEF LoadInv
<1>6. CASE LoaderDies
  <2>1. Base' /\ UNCHANGED vars /\ step' = "none" /\ doomed' = {} /\ accepted' \ old' = {}
        /\ UNCHANGED <<loads, old, gone>>
    BY <1>1, <1>6, StutterInv DEF LoaderDies, LoaderAlone, vars
  <2>2. LoaderAlone' /\ Books'
    BY <1>1, <2>1 DEF LoaderAlone, Books, vars
  <2>3. \A s \in gone' : Clean(s)'
    BY <2>1 DEF LoadInv, Clean, vars
  <2> QED BY <2>1, <2>2, <2>3 DEF LoadInv
<1> QED BY <1>2, <1>3, <1>4, <1>5, <1>6

LEMMA LoadInitInv == LoadInit => LoadInv
<1> SUFFICES ASSUME LoadInit PROVE LoadInv
  OBVIOUS
<1>1. Base
  BY InitBase DEF LoadInit
<1>2. LoaderAlone /\ Books
  BY DatasetLoadAssumption DEF LoadInit, Init, LoaderAlone, Books, NoSegments
<1> QED BY <1>1, <1>2 DEF LoadInit, Init, LoadInv

LEMMA LoadStep == LoadInv /\ [LoadNext]_allVars => LoadInv'
<1> SUFFICES ASSUME LoadInv, [LoadNext]_allVars PROVE LoadInv'
  OBVIOUS
<1>1. CASE UNCHANGED allVars
  <2>1. Base' /\ UNCHANGED vars /\ UNCHANGED loadVars
    BY <1>1, StutterInv DEF allVars, LoadInv
  <2> QED BY <2>1 DEF vars, loadVars, LoadInv, LoaderAlone, Books, Clean, Kept, ToReplay
<1> QED BY <1>1, ServerStepKeeps, LoaderStepKeeps DEF LoadNext

\* LoadInv holds in every state, whatever fails and whenever the loader runs.
THEOREM LoadInvariance == LoadSpec => []LoadInv
  BY LoadInitInv, LoadStep, PTL DEF LoadSpec

\* The loader touches files only while the server is down.
THEOREM LoadTypeCorrect == LoadSpec => []LoadTypeOK
<1>1. LoadInv => LoadTypeOK
  BY DEF LoadInv, Base, LoaderAlone, Books, LoadTypeOK
<1> QED BY <1>1, LoadInvariance, PTL

\* Wherever loader and server die and whatever else fails, no search from
\* before a load is counted in the dataset that it left.
THEOREM DatasetStaysClean == LoadSpec => []FreshNotPolluted
<1>1. LoadInv => FreshNotPolluted
  BY DEF LoadInv, FreshNotPolluted, Clean
<1> QED BY <1>1, LoadInvariance, PTL

\* Nor does a load, complete or not, cost a search that came after it.
THEOREM NothingLostSinceLoad == LoadSpec => []NoLossSinceLoad
<1>1. LoadInv => NoLossSinceLoad
  BY DEF LoadInv, NoLossSinceLoad, Kept
<1> QED BY <1>1, LoadInvariance, PTL

----------------------------------------------------------------------------
LEMMA OnceLoadStep ==
    ASSUME LoadInv, LoadInv', OnceInv, Faults \subseteq HarmlessFaults, [LoadNext]_allVars
    PROVE  OnceInv'
<1>1. CASE ServerStep
  BY <1>1, OnceStep DEF ServerStep, LoadInv
<1>2. CASE UNCHANGED allVars \/ LoaderDies
  BY <1>2 DEF allVars, LoaderDies, vars, OnceInv, ToReplay, Up
<1>3. CASE RemoveLive
  BY <1>3 DEF RemoveLive, memory, OnceInv, ToReplay, Up
<1>4. ASSUME NEW n \in doomed, RemoveSegment(n) PROVE OnceInv'
  <2>1. DOMAIN seg' \subseteq DOMAIN seg /\ \A m \in DOMAIN seg' : seg'[m] = seg[m]
    BY <1>4, KeepingSegments DEF RemoveSegment
  <2>2. phase = "down"
    BY <1>4 DEF RemoveSegment, LoadInv, LoaderAlone
  <2> QED BY <1>4, <2>1, <2>2 DEF RemoveSegment, memory, OnceInv, ToReplay, Up
<1>5. CASE BulkReplace \/ ResetWatermark
  <2>1. phase' = "down" /\ DOMAIN seg' = {} /\ live' = {}
        /\ (applied' = applied \/ applied' = Zero)
    BY <1>5 DEF BulkReplace, ResetWatermark, LoadInv, LoaderAlone, memory
  <2> QED BY <2>1 DEF OnceInv, ToReplay, Up, Zero
<1> QED BY <1>1, <1>2, <1>3, <1>4, <1>5 DEF LoadNext

\* With crashes while serving, failed transactions and failed rotations, loads
\* at any moment make no search counted twice.
THEOREM CountedOnceBesideLoads ==
    ASSUME Faults \subseteq HarmlessFaults
    PROVE  LoadSpec => []CountedAtMostOnce
<1>1. LoadInit => OnceInv
  BY InitOnce DEF LoadInit
<1>2. LoadInv /\ LoadInv' /\ OnceInv /\ [LoadNext]_allVars => OnceInv'
  BY OnceLoadStep
<1>3. OnceInv => CountedAtMostOnce
  BY DEF OnceInv, CountedAtMostOnce
<1> QED BY <1>1, <1>2, <1>3, LoadInvariance, PTL DEF LoadSpec
============================================================================
