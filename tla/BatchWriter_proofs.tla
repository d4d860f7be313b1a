------------------------- MODULE BatchWriter_proofs -------------------------
(***************************************************************************)
(* Theorems about BatchWriter, for every set of searches, every MaxSize    *)
(* and every number of failures.                                           *)
(*                                                                         *)
(* Inv is inductive whatever fails: it gives type correctness, no loss,    *)
(* and counting in arrival order.  Its part Base does not depend on which  *)
(* searches the database has.  OnceInv adds what holds when, besides the   *)
(* failures in MaskedFaults, at most a rotation fails: then no search is   *)
(* counted twice.  IndexInv and LinkInv add the trie and the locals of a   *)
(* flush: with them the write path implements the counters of WritePath.   *)
(***************************************************************************)
EXTENDS WritePathMapping, TLAPS, WellFoundedInduction, FiniteSetTheorems

\* A task is inside the lock.
Holds(t) == pc[t] \in {"apply", "commit"}

\* Only acknowledged searches have a line or are counted, later requests come
\* later, and no segment is empty.
LinesAccepted ==
    /\ live \subseteq accepted
    /\ \A n \in DOMAIN seg : seg[n] \subseteq accepted /\ seg[n] # {}
    /\ \A s \in Searches \ accepted : applied[s] = 0
    /\ \A s \in accepted, t \in Searches \ accepted : s < t
    /\ \A n \in DOMAIN seg : \A s \in seg[n], t \in live : s < t

\* The buffer is the live log while it is open, and empty otherwise.
BufferExact == buffer = IF Up /\ walOpen THEN live ELSE {}

\* segSeq bounds every number in use, so a new segment's number is fresh.
NumbersBounded ==
    /\ \E b \in Nat : \A n \in DOMAIN seg : n <= b
    /\ phase # "down" => /\ watermark <= segSeq
                         /\ \A n \in DOMAIN seg : n <= segSeq

\* The lock is held by at most one task of a running process, and its job is
\* what is on disk.
JobExact ==
    \A t \in Tasks : Holds(t) =>
        /\ Up
        /\ \A u \in Tasks \ {t} : ~Holds(u)
        /\ DOMAIN seg # {}
        /\ job = [segs |-> DOMAIN seg, deltas |-> LinesIn(seg)]
        /\ pc[t] = "commit" => /\ \A n \in DOMAIN seg : n <= watermark
                               /\ \A n \in DOMAIN seg : \A s \in seg[n] : applied[s] > 0

\* What the watermark covers is counted.
CoveredCounted ==
    \A n \in DOMAIN seg : n <= watermark => \A s \in seg[n] : applied[s] > 0

\* Between the two halves of recovery everything in the log is counted: the
\* watermark covers every segment.
ReplayCounted ==
    phase = "recovering" => /\ \A s \in live : applied[s] > 0
                            /\ \A n \in DOMAIN seg : n <= watermark

\* What holds of files, database and memory whichever searches the database
\* has: a fresh dataset may have taken the place of old ones.
Base == /\ TypeOK
        /\ OneFile
        /\ LinesAccepted
        /\ BufferExact
        /\ NumbersBounded
        /\ JobExact
        /\ CoveredCounted
        /\ ReplayCounted

\* A search is counted or will be replayed, and a step leaves it so.
Kept(s) == applied[s] > 0 \/ s \in live \/ \E n \in ToReplay : s \in seg[n]
KeepsAll == \A s \in Searches : Kept(s) => Kept(s)'

Inv == Base /\ NoLoss /\ CountedInOrder

\* The failures that do not let a search be counted twice.  A failed rotation
\* delays what it strands, but it moves no counted line.
HarmlessFaults == MaskedFaults \union {"rotateError"}

\* With these failures only: a line that will still be applied is not
\* counted yet, and the segments below the watermark are those of a job.
OnceInv ==
    /\ \A s \in Searches : applied[s] <= 1
    /\ phase # "recovering" => \A s \in live : applied[s] = 0
    /\ \A n \in ToReplay : \A s \in seg[n] : applied[s] = 0
    /\ Up /\ (\A t \in Tasks : pc[t] # "commit")
          => \A n \in DOMAIN seg : n > watermark

\* The trie lacks at most the counts of the committed job.
IndexInv ==
    /\ phase = "recovering" => index = applied
    /\ Up => \A s \in Searches :
          index[s] = applied[s] \/ \E t \in Tasks : /\ pc[t] = "commit"
                                                    /\ QueryOf[s] \in Changed
-----------------------------------------------------------------------------
(* Lemmas about the operators                                              *)

\* A bounded set of numbers that is not empty has a largest member.
LEMMA MaxIsLargest ==
    ASSUME NEW S \in SUBSET Nat, S # {},
           NEW b \in Nat, \A n \in S : n <= b
    PROVE  Max(S) \in S /\ \A n \in S : n <= Max(S)
<1> DEFINE Gaps == {b - n : n \in S}
<1>1. Gaps \subseteq Nat /\ Gaps # {}
  <2>1. \A n \in S : b - n \in Nat
    OBVIOUS
  <2>2. PICK n \in S : TRUE
    OBVIOUS
  <2> QED
    BY <2>1, <2>2
<1>2. PICK g \in Gaps : \A h \in Gaps : ~ (<<h, g>> \in OpToRel(<, Nat))
  BY <1>1, WFMin, NatLessThanWellFounded, Zenon
<1>3. \A h \in Gaps : g <= h
  <2>1. \A x, y \in Nat : x < y => <<x, y>> \in OpToRel(<, Nat)
    BY DEF OpToRel
  <2>2. \A h \in Gaps : h \in Nat /\ g \in Nat /\ ~ (h < g)
    BY <1>1, <1>2, <2>1
  <2> QED
    BY <2>2
<1>4. PICK m \in S : g = b - m
  OBVIOUS
<1>5. \A n \in S : m >= n
  <2>1. \A n \in S : b - m <= b - n
    BY <1>3, <1>4
  <2> QED
    BY <2>1
<1>6. \A n \in S : Max(S) >= n /\ Max(S) \in S
  BY <1>4, <1>5 DEF Max
<1> QED
  BY <1>4, <1>6

\* Where no two files share a line, reading them all counts a line at most once.
LEMMA LinesInDisjoint ==
    ASSUME NEW files,
           \A m, n \in DOMAIN files : m # n => files[m] \intersect files[n] = {},
           NEW s \in Searches
    PROVE  LinesIn(files)[s] =
               IF \E n \in DOMAIN files : s \in files[n] THEN 1 ELSE 0
<1> DEFINE At == {n \in DOMAIN files : s \in files[n]}
<1>1. LinesIn(files)[s] = Cardinality(At)
  BY DEF LinesIn
<1>2. CASE At = {}
  BY <1>1, <1>2, FS_EmptySet
<1>3. CASE At # {}
  <2>1. PICK n \in At : TRUE
    BY <1>3
  <2>2. At = {n}
    BY <2>1
  <2>3. Cardinality(At) = 1
    BY <2>2, FS_Singleton
  <2> QED
    BY <1>1, <2>1, <2>3
<1> QED
  BY <1>2, <1>3

\* Keeping some segments keeps their lines.
LEMMA KeepingSegments ==
    ASSUME NEW numbers
    PROVE  /\ DOMAIN Keeping(numbers) = DOMAIN seg \intersect numbers
           /\ \A n \in DOMAIN Keeping(numbers) : Keeping(numbers)[n] = seg[n]
BY DEF Keeping

\* Recovery counts every line that is not under the watermark once.
LEMMA ReplayCountsOnce ==
    ASSUME OneFile, NEW s \in Searches
    PROVE  ReplayedLines[s] =
               IF s \in live \/ \E n \in ToReplay : s \in seg[n] THEN 1 ELSE 0
<1> DEFINE kept == Keeping(ToReplay)
<1>1. DOMAIN kept = ToReplay /\ \A n \in ToReplay : kept[n] = seg[n]
  BY KeepingSegments DEF ToReplay
<1>2. \A m, n \in DOMAIN kept : m # n => kept[m] \intersect kept[n] = {}
  BY <1>1 DEF OneFile, ToReplay
<1>3. LinesIn(kept)[s] = IF \E n \in ToReplay : s \in seg[n] THEN 1 ELSE 0
  <2> HIDE DEF kept
  <2> QED
    BY <1>1, <1>2, LinesInDisjoint
<1>4. s \in live => ~ \E n \in ToReplay : s \in seg[n]
  BY DEF OneFile, ToReplay
<1>5. ReplayedLines[s] = LinesIn(kept)[s] + (IF s \in live THEN 1 ELSE 0)
  BY DEF ReplayedLines
<1> QED
  BY <1>3, <1>4, <1>5

\* The job of a flush adds one to each search with a line in a segment.
LEMMA JobCountsOnce ==
    ASSUME Base, NEW t \in Tasks, Holds(t), NEW s \in Searches
    PROVE  job.deltas[s] = IF \E n \in DOMAIN seg : s \in seg[n] THEN 1 ELSE 0
<1>1. job.deltas = LinesIn(seg)
  BY DEF Base, JobExact
<1> QED
  BY <1>1, LinesInDisjoint DEF Base, OneFile

\* Rotation closes the window: its lines are in the segments or there are none.
LEMMA RotateFacts ==
    ASSUME Base, Up, Rotate
    PROVE  /\ buffer' = {}
           /\ \/ /\ buffer = {} /\ seg' = seg /\ live' = live
                 /\ segSeq' = segSeq
              \/ /\ live = buffer /\ live # {}
                 /\ seg' = WithSegment(segSeq + 1)
                 /\ live' = {}
                 /\ segSeq' = segSeq + 1
BY DEF Rotate, Base, BufferExact

\* A new segment has a fresh number, and the live log's lines.
LEMMA NewSegment ==
    ASSUME Base, Up
    PROVE  /\ segSeq + 1 \notin DOMAIN seg
           /\ segSeq + 1 > watermark
           /\ DOMAIN WithSegment(segSeq + 1) = DOMAIN seg \union {segSeq + 1}
           /\ WithSegment(segSeq + 1)[segSeq + 1] = live
           /\ \A n \in DOMAIN seg : WithSegment(segSeq + 1)[n] = seg[n]
<1>1. segSeq \in Nat /\ watermark \in Nat /\ DOMAIN seg \subseteq Nat
  BY DEF Base, TypeOK
<1>2. watermark <= segSeq /\ \A n \in DOMAIN seg : n <= segSeq
  BY DEF Base, NumbersBounded, Up
<1>3. segSeq + 1 \notin DOMAIN seg /\ segSeq + 1 > watermark
  BY <1>1, <1>2
<1> QED
  BY <1>3 DEF WithSegment

-----------------------------------------------------------------------------
(* The inductive invariant, one lemma per group of actions                 *)

LEMMA InitBase == Init => Base
<1> SUFFICES ASSUME Init PROVE Base
  OBVIOUS
<1> USE DEF Init, Zero, NoSegments, NoJob, AllOff
<1>1. TypeOK
  <2>1. Zero \in Counts
    BY DEF Counts
  <2>2. DOMAIN seg = {} /\ seg \in [DOMAIN seg -> SUBSET Searches]
    OBVIOUS
  <2>3. 0 \in 0 .. MaxFaults
    BY BatchWriterAssumption
  <2> QED
    BY <2>1, <2>2, <2>3 DEF TypeOK
<1>2. OneFile /\ LinesAccepted /\ BufferExact
  BY DEF OneFile, LinesAccepted, BufferExact, Up
<1>3. NumbersBounded /\ JobExact /\ ReplayCounted
  BY DEF NumbersBounded, JobExact, Holds, ReplayCounted
<1>4. CoveredCounted
  BY DEF CoveredCounted
<1> QED
  BY <1>1, <1>2, <1>3, <1>4 DEF Base

LEMMA SubmitInv ==
    ASSUME Base, NEW s \in Searches, Submit(s)
    PROVE  Base' /\ KeepsAll
<1> USE DEF Base, Submit
<1>1. TypeOK'
  BY DEF TypeOK, Tasks
<1>2. OneFile'
  BY DEF OneFile, LinesAccepted
<1>3. LinesAccepted'
  <2>1. \A r \in accepted, t \in Searches \ accepted' : r < t
    BY DEF LinesAccepted
  <2>2. \A t \in Searches \ accepted' : s < t
    BY BatchWriterAssumption
  <2>3. \A n \in DOMAIN seg : \A r \in seg[n] : r < s
    BY DEF LinesAccepted
  <2> QED
    BY <2>1, <2>2, <2>3 DEF LinesAccepted
<1>4. BufferExact'
  BY DEF BufferExact, Up
<1>5. NumbersBounded'
  BY DEF NumbersBounded
<1>6. JobExact'
  <2>1. \A t \in Tasks : Holds(t)' <=> Holds(t)
    BY DEF Holds, FlushDue, TypeOK, Tasks
  <2>2. \A t \in Tasks : Holds(t) => pc'[t] = pc[t]
    BY DEF Holds, FlushDue, TypeOK, Tasks
  <2> QED
    BY <2>1, <2>2 DEF JobExact, Up
<1>7. ReplayCounted'
  BY DEF ReplayCounted
<1>8. CoveredCounted' /\ KeepsAll
  BY DEF CoveredCounted, KeepsAll, Kept, ToReplay
<1> QED
  BY <1>1, <1>2, <1>3, <1>4, <1>5, <1>6, <1>7, <1>8

\* After a flush its task is outside the lock, and the others are where they were.
LEMMA ReturnedFacts ==
    ASSUME TypeOK, NEW t \in Tasks
    PROVE  /\ Returned(t) \in
                 [Tasks -> {"off", "sleep", "want", "apply", "commit", "done"}]
           /\ Returned(t)[t] \in {"done", "sleep", "off"}
           /\ \A u \in Tasks \ {t} : Returned(t)[u] = pc[u]
BY DEF Returned, TypeOK

\* What changes no file, no count and not who holds the lock keeps Base.
LEMMA QuietInv ==
    ASSUME Base, Tick \/ Discard \/ BeginStop \/ StopFlush
                \/ \E t \in Tasks : FlushNothing(t)
    PROVE  Base' /\ KeepsAll
<1> USE DEF Base
<1>1. UNCHANGED <<disk, buffer, walOpen, segSeq, job, index, accepted, faults>>
  BY DEF Tick, Discard, BeginStop, StopFlush, FlushNothing
<1>2. Up /\ Up'
  BY DEF Tick, Discard, BeginStop, StopFlush, FlushNothing, Up
<1>3. phase' \in {"serving", "stopping"}
  BY <1>2 DEF Up
<1>4. /\ pc' \in [Tasks -> {"off", "sleep", "want", "apply", "commit", "done"}]
      /\ \A t \in Tasks : Holds(t)' => Holds(t) /\ pc'[t] = pc[t]
  <2>1. CASE \E t \in Tasks : FlushNothing(t)
    BY <2>1, ReturnedFacts DEF FlushNothing, Holds
  <2>2. CASE Tick \/ Discard \/ BeginStop \/ StopFlush
    BY <2>2 DEF Tick, Discard, BeginStop, StopFlush, Holds, TypeOK, Tasks
  <2> QED
    BY <2>1, <2>2
<1>5. TypeOK'
  BY <1>1, <1>3, <1>4 DEF TypeOK, disk
<1>6. OneFile' /\ LinesAccepted' /\ CoveredCounted' /\ KeepsAll
  BY <1>1 DEF OneFile, LinesAccepted, CoveredCounted, KeepsAll, Kept, ToReplay, disk
<1>7. BufferExact' /\ NumbersBounded' /\ ReplayCounted'
  BY <1>1, <1>2, <1>3 DEF BufferExact, NumbersBounded, ReplayCounted, Up, disk
<1>8. JobExact'
  BY <1>1, <1>2, <1>4 DEF JobExact, Holds, disk
<1> QED
  BY <1>5, <1>6, <1>7, <1>8

\* Taking the lock: the outstanding lines, the closed window among them,
\* become the job.
LEMMA StartFlushInv ==
    ASSUME Base, NEW t \in Tasks, StartFlush(t)
    PROVE  Base' /\ KeepsAll
<1> USE DEF Base
<1> DEFINE new == segSeq + 1
<1>1. /\ Up /\ Up' /\ Rotate
      /\ UNCHANGED <<applied, watermark, phase, walOpen, index, accepted, faults>>
  BY DEF StartFlush, Up
<1>2. /\ buffer' = {}
      /\ \/ /\ buffer = {} /\ seg' = seg /\ live' = live
            /\ segSeq' = segSeq
         \/ /\ live = buffer /\ live # {}
            /\ seg' = WithSegment(new)
            /\ live' = {}
            /\ segSeq' = new
  BY <1>1, RotateFacts
<1>3. /\ new \in Nat \ {0}
      /\ new \notin DOMAIN seg
      /\ new > watermark
      /\ \A n \in DOMAIN WithSegment(new) :
            IF n = new THEN WithSegment(new)[n] = live
                       ELSE n \in DOMAIN seg /\ WithSegment(new)[n] = seg[n]
      /\ DOMAIN WithSegment(new) = DOMAIN seg \union {new}
  BY <1>1, NewSegment DEF TypeOK
<1>4. OneFile'
  <2> HIDE DEF new
  <2> QED
    BY <1>2, <1>3 DEF OneFile
<1>5. job' = [segs |-> DOMAIN seg', deltas |-> LinesIn(seg')]
  <2>1. seg' = [n \in DOMAIN seg' |-> seg'[n]]
    BY <1>2 DEF TypeOK, WithSegment
  <2> QED
    BY <2>1 DEF StartFlush, JobFor, Outstanding
<1>6. TypeOK'
  <2>1. /\ DOMAIN seg' \subseteq Nat \ {0}
        /\ seg' \in [DOMAIN seg' -> SUBSET Searches]
    BY <1>2, <1>3 DEF TypeOK, WithSegment
  <2>2. LinesIn(seg') \in Counts
    <3>1. \A s \in Searches : LinesIn(seg')[s] \in Nat
      BY <1>4, LinesInDisjoint DEF OneFile
    <3> QED
      BY <3>1 DEF LinesIn, Counts
  <2>3. job' \in [segs : SUBSET Nat, deltas : Counts]
    BY <1>5, <2>1, <2>2
  <2>4. pc' \in [Tasks -> {"off", "sleep", "want", "apply", "commit", "done"}]
    BY DEF StartFlush, TypeOK
  <2>5. live' \subseteq Searches /\ buffer' \subseteq Searches /\ segSeq' \in Nat
    BY <1>2, <1>3 DEF TypeOK
  <2> QED
    BY <1>1, <2>1, <2>3, <2>4, <2>5 DEF TypeOK
<1>7. LinesAccepted'
  <2> HIDE DEF new
  <2> QED
    BY <1>1, <1>2, <1>3 DEF LinesAccepted
<1>8. BufferExact'
  BY <1>1, <1>2 DEF BufferExact, Up
<1>9. NumbersBounded'
  <2>1. watermark <= segSeq /\ \A n \in DOMAIN seg : n <= segSeq
    BY <1>1 DEF NumbersBounded, Up
  <2>2. watermark <= segSeq' /\ \A n \in DOMAIN seg' : n <= segSeq' /\ segSeq' \in Nat
    BY <1>2, <1>3, <2>1 DEF TypeOK
  <2> QED
    BY <1>1, <2>2 DEF NumbersBounded
<1>10. JobExact'
  <2>1. \A u \in Tasks : ~ Holds(u)
    BY DEF StartFlush, LockFree, Holds
  <2>2. \A u \in Tasks \ {t} : pc'[u] = pc[u]
    BY DEF StartFlush, TypeOK
  <2>3. pc'[t] = "apply" /\ DOMAIN seg' # {}
    BY DEF StartFlush, TypeOK
  <2> QED
    BY <1>1, <1>5, <2>1, <2>2, <2>3 DEF JobExact, Holds
<1>11. ReplayCounted'
  BY <1>1 DEF ReplayCounted, Up
<1>12. KeepsAll
  <2> HIDE DEF new
  <2> QED
    BY <1>1, <1>2, <1>3 DEF KeepsAll, Kept, ToReplay
<1>13. CoveredCounted'
  <2> HIDE DEF new
  <2> QED
    BY <1>1, <1>2, <1>3 DEF CoveredCounted, TypeOK
<1> QED
  BY <1>4, <1>6, <1>7, <1>8, <1>9, <1>10, <1>11, <1>12, <1>13

\* A failed rotation leaves the lines in the live log or in the new segment,
\* and the log closed: the buffer is empty and nobody can append.
LEMMA RotateErrorInv ==
    ASSUME Base, NEW t \in Tasks, RotateError(t)
    PROVE  Base' /\ KeepsAll
<1> USE DEF Base
<1> DEFINE new == segSeq + 1
<1>1. /\ Up /\ Up' /\ buffer' = {} /\ segSeq' = new /\ walOpen' = FALSE
      /\ pc' = Returned(t)
      /\ UNCHANGED <<applied, watermark, phase, job, index, accepted>>
  BY DEF RotateError, Up
<1> live # {}
  BY DEF RotateError, BufferExact
<1>2. \/ seg' = WithSegment(new) /\ live' = {}
      \/ seg' = seg /\ live' = live
  BY DEF RotateError
<1>3. /\ new \in Nat \ {0}
      /\ new \notin DOMAIN seg
      /\ new > watermark
      /\ \A n \in DOMAIN WithSegment(new) :
            IF n = new THEN WithSegment(new)[n] = live
                       ELSE n \in DOMAIN seg /\ WithSegment(new)[n] = seg[n]
      /\ DOMAIN WithSegment(new) = DOMAIN seg \union {new}
  BY <1>1, NewSegment DEF TypeOK
<1>4. TypeOK'
  <2>1. /\ DOMAIN seg' \subseteq Nat \ {0}
        /\ seg' \in [DOMAIN seg' -> SUBSET Searches]
    BY <1>2, <1>3 DEF TypeOK, WithSegment
  <2>2. live' \subseteq Searches /\ segSeq' \in Nat
    BY <1>1, <1>2, <1>3 DEF TypeOK
  <2>3. faults' \in 0 .. MaxFaults
    BY BatchWriterAssumption DEF RotateError, Fault, TypeOK
  <2> QED
    BY <1>1, <2>1, <2>2, <2>3, ReturnedFacts DEF TypeOK
<1>5. OneFile' /\ LinesAccepted' /\ CoveredCounted' /\ KeepsAll
  <2> HIDE DEF new
  <2>1. OneFile' /\ LinesAccepted'
    BY <1>1, <1>2, <1>3 DEF OneFile, LinesAccepted
  <2>2. CoveredCounted'
    BY <1>1, <1>2, <1>3 DEF CoveredCounted, TypeOK
  <2>3. KeepsAll
    BY <1>1, <1>2, <1>3 DEF KeepsAll, Kept, ToReplay
  <2> QED
    BY <2>1, <2>2, <2>3
<1>6. BufferExact' /\ ReplayCounted'
  BY <1>1 DEF BufferExact, ReplayCounted, Up
<1>7. NumbersBounded'
  <2>1. watermark <= segSeq /\ \A n \in DOMAIN seg : n <= segSeq
    BY <1>1 DEF NumbersBounded, Up
  <2>2. watermark <= segSeq' /\ \A n \in DOMAIN seg' : n <= segSeq' /\ segSeq' \in Nat
    BY <1>1, <1>2, <1>3, <2>1 DEF TypeOK
  <2> QED
    BY <1>1, <2>2 DEF NumbersBounded
<1>8. JobExact'
  <2>1. \A u \in Tasks : ~ Holds(u)
    BY DEF RotateError, LockFree, Holds
  <2>2. \A u \in Tasks : ~ Holds(u)'
    BY <1>1, <2>1, ReturnedFacts DEF Holds
  <2> QED
    BY <2>2 DEF JobExact
<1> QED
  BY <1>4, <1>5, <1>6, <1>7, <1>8

\* The transaction counts every line of every segment, and covers them with
\* the watermark.
LEMMA CommitBatchInv ==
    ASSUME Base, NEW t \in Tasks, CommitBatch(t)
    PROVE  Base' /\ KeepsAll
<1> USE DEF Base
<1>1. /\ Holds(t) /\ Up /\ Up'
      /\ UNCHANGED <<live, seg, phase, buffer, walOpen, segSeq, job, index,
                     accepted, faults>>
  BY DEF CommitBatch, JobExact, Holds, Up
<1>2. DOMAIN seg # {} /\ job.segs = DOMAIN seg /\ \A u \in Tasks \ {t} : ~Holds(u)
  BY <1>1 DEF JobExact
<1>3. watermark' \in DOMAIN seg /\ \A n \in DOMAIN seg : n <= watermark'
  <2>1. PICK b \in Nat : \A n \in DOMAIN seg : n <= b
    BY DEF NumbersBounded
  <2> QED
    BY <1>2, <2>1, MaxIsLargest DEF CommitBatch, MaxSeq, TypeOK
<1>4. \A s \in Searches :
        applied'[s] = applied[s]
                      + (IF \E n \in DOMAIN seg : s \in seg[n] THEN 1 ELSE 0)
  BY <1>1, JobCountsOnce DEF CommitBatch, Plus
<1>5. \A s \in Searches : /\ applied'[s] \in Nat
                          /\ applied[s] \in Nat
                          /\ applied[s] > 0 => applied'[s] > 0
                          /\ applied'[s] = applied[s] \/ applied'[s] > 0
  BY <1>4 DEF TypeOK, Counts
<1>6. \A n \in DOMAIN seg : \A s \in seg[n] : s \in Searches /\ applied'[s] > 0
  BY <1>4, <1>5 DEF TypeOK, Counts
<1>7. pc'[t] = "commit" /\ \A u \in Tasks \ {t} : pc'[u] = pc[u]
  BY DEF CommitBatch, TypeOK
<1>8. TypeOK'
  <2>1. applied' \in Counts
    BY <1>5 DEF CommitBatch, Plus, Counts
  <2>2. pc' \in [Tasks -> {"off", "sleep", "want", "apply", "commit", "done"}]
    BY DEF CommitBatch, TypeOK
  <2> QED
    BY <1>1, <1>3, <2>1, <2>2 DEF TypeOK
<1>9. OneFile' /\ BufferExact'
  BY <1>1 DEF OneFile, BufferExact, Up
<1>10. LinesAccepted'
  <2>1. \A s \in Searches \ accepted : applied'[s] = 0
    BY <1>4 DEF LinesAccepted
  <2> QED
    BY <1>1, <2>1 DEF LinesAccepted
<1>11. NumbersBounded' /\ ReplayCounted'
  BY <1>1, <1>3 DEF NumbersBounded, ReplayCounted, Up
<1>12. JobExact'
  BY <1>1, <1>2, <1>3, <1>6, <1>7 DEF JobExact, Holds
<1>13. CoveredCounted'
  BY <1>1, <1>6 DEF CoveredCounted
<1>14. KeepsAll
  BY <1>1, <1>5, <1>6 DEF KeepsAll, Kept, ToReplay
<1> QED
  BY <1>8, <1>9, <1>10, <1>11, <1>12, <1>13, <1>14

\* Unlinking segments whose lines are counted already loses nothing.
LEMMA UnlinkKeeps ==
    ASSUME Base, NEW numbers,
           seg' = Keeping(numbers),
           \A n \in DOMAIN seg \ numbers : \A s \in seg[n] : applied[s] > 0,
           UNCHANGED <<applied, watermark, live, accepted>>
    PROVE  /\ DOMAIN seg' \subseteq Nat \ {0}
           /\ seg' \in [DOMAIN seg' -> SUBSET Searches]
           /\ OneFile' /\ LinesAccepted' /\ CoveredCounted' /\ KeepsAll
           /\ \E b \in Nat : \A n \in DOMAIN seg' : n <= b
           /\ DOMAIN seg' \subseteq DOMAIN seg
<1> USE DEF Base
<1>1. /\ DOMAIN seg' = DOMAIN seg \intersect numbers
      /\ \A n \in DOMAIN seg' : seg'[n] = seg[n]
  BY KeepingSegments
<1>2. /\ DOMAIN seg' \subseteq Nat \ {0}
      /\ seg' \in [DOMAIN seg' -> SUBSET Searches]
  BY <1>1 DEF TypeOK, Keeping
<1>3. OneFile' /\ LinesAccepted' /\ CoveredCounted'
  BY <1>1 DEF OneFile, LinesAccepted, CoveredCounted
<1>4. KeepsAll
  BY <1>1 DEF KeepsAll, Kept, ToReplay
<1>5. \E b \in Nat : \A n \in DOMAIN seg' : n <= b
  BY <1>1 DEF NumbersBounded
<1> QED
  BY <1>1, <1>2, <1>3, <1>4, <1>5

\* The holder of the lock leaves it, its segments kept or unlinked.
LEMMA LeaveInv ==
    ASSUME Base, NEW t \in Tasks, Holds(t),
           FinishFlush(t) \/ RemoveError(t) \/ ApplyError(t) \/ ReadBackError(t)
    PROVE  Base' /\ KeepsAll
<1> USE DEF Base
<1>1. /\ Up /\ Up' /\ job' = NoJob /\ pc' = Returned(t)
      /\ UNCHANGED <<applied, watermark, live, phase, buffer, walOpen, segSeq,
                     accepted>>
  BY DEF JobExact, FinishFlush, RemoveError, ApplyError, ReadBackError, Up, disk
<1>2. \E numbers : /\ seg' = Keeping(numbers)
                   /\ \A n \in DOMAIN seg \ numbers : \A s \in seg[n] : applied[s] > 0
  <2>1. CASE ApplyError(t) \/ ReadBackError(t)
    <3>1. seg' = seg /\ seg = Keeping(DOMAIN seg)
      BY <2>1 DEF ApplyError, ReadBackError, disk, Keeping, TypeOK
    <3> QED
      BY <3>1
  <2>2. CASE FinishFlush(t) \/ RemoveError(t)
    <3>1. \A n \in DOMAIN seg : \A s \in seg[n] : applied[s] > 0
      BY <2>2 DEF FinishFlush, RemoveError, JobExact
    <3>2. \E numbers : seg' = Keeping(numbers)
      BY <2>2 DEF FinishFlush, RemoveError, UnlinkedBelow
    <3> QED
      BY <3>1, <3>2
  <2> QED
    BY <2>1, <2>2
<1>3. /\ DOMAIN seg' \subseteq Nat \ {0}
      /\ seg' \in [DOMAIN seg' -> SUBSET Searches]
      /\ OneFile' /\ LinesAccepted' /\ CoveredCounted' /\ KeepsAll
      /\ \E b \in Nat : \A n \in DOMAIN seg' : n <= b
      /\ DOMAIN seg' \subseteq DOMAIN seg
  BY <1>1, <1>2, UnlinkKeeps
<1>4. TypeOK'
  <2>1. index' \in Counts
    BY DEF FinishFlush, RemoveError, ApplyError, ReadBackError, Upserted,
           TypeOK, Counts
  <2>2. faults' \in 0 .. MaxFaults
    BY BatchWriterAssumption
       DEF FinishFlush, RemoveError, ApplyError, ReadBackError, Fault, TypeOK
  <2>3. NoJob \in [segs : SUBSET Nat, deltas : Counts]
    BY DEF NoJob, Zero, Counts
  <2> QED
    BY <1>1, <1>3, <2>1, <2>2, <2>3, ReturnedFacts DEF TypeOK
<1>5. BufferExact' /\ ReplayCounted'
  BY <1>1 DEF BufferExact, ReplayCounted, Up
<1>6. NumbersBounded'
  BY <1>1, <1>3 DEF NumbersBounded, Up
<1>7. JobExact'
  <2>1. \A u \in Tasks : ~ Holds(u)'
    BY <1>1, ReturnedFacts DEF JobExact, Holds
  <2> QED
    BY <2>1 DEF JobExact
<1> QED
  BY <1>3, <1>4, <1>5, <1>6, <1>7

\* The process ends; the files and the database stay.
LEMMA EndInv ==
    ASSUME Base, StopDone \/ Crash \/ CrashInRecovery
    PROVE  Base' /\ KeepsAll
<1> USE DEF Base
<1>1. MemoryLost /\ UNCHANGED <<applied, watermark, live, accepted>>
  BY DEF StopDone, Crash, CrashInRecovery, disk
<1>2. \E numbers : /\ seg' = Keeping(numbers)
                   /\ \A n \in DOMAIN seg \ numbers : \A s \in seg[n] : applied[s] > 0
  <2>1. CASE seg' = seg
    <3>1. seg = Keeping(DOMAIN seg)
      BY DEF Keeping, TypeOK
    <3> QED
      BY <2>1, <3>1
  <2>2. CASE Crash /\ seg' # seg
    <3>1. \A n \in DOMAIN seg : \A s \in seg[n] : applied[s] > 0
      BY <2>2 DEF Crash, JobExact, Holds
    <3>2. \E numbers : seg' = Keeping(numbers)
      BY <2>2 DEF Crash, UnlinkedBelow
    <3> QED
      BY <3>1, <3>2
  <2>3. CASE CrashInRecovery
    <3>1. \A n \in DOMAIN seg : \A s \in seg[n] : applied[s] > 0
      BY <2>3 DEF CrashInRecovery, ReplayCounted, CoveredCounted
    <3>2. \E numbers : seg' = Keeping(numbers)
      BY <2>3 DEF CrashInRecovery, UnlinkedBelow
    <3> QED
      BY <3>1, <3>2
  <2> QED
    BY <2>1, <2>2, <2>3 DEF StopDone, disk
<1>3. /\ DOMAIN seg' \subseteq Nat \ {0}
      /\ seg' \in [DOMAIN seg' -> SUBSET Searches]
      /\ OneFile' /\ LinesAccepted' /\ CoveredCounted' /\ KeepsAll
      /\ \E b \in Nat : \A n \in DOMAIN seg' : n <= b
  BY <1>1, <1>2, UnlinkKeeps
<1>4. TypeOK'
  <2>1. NoJob \in [segs : SUBSET Nat, deltas : Counts] /\ Zero \in Counts
    BY DEF NoJob, Zero, Counts
  <2>2. faults' \in 0 .. MaxFaults
    BY BatchWriterAssumption DEF StopDone, Crash, CrashInRecovery, Fault, TypeOK
  <2>3. AllOff \in [Tasks -> {"off", "sleep", "want", "apply", "commit", "done"}]
    BY DEF AllOff
  <2> QED
    BY <1>1, <1>3, <2>1, <2>2, <2>3 DEF TypeOK, MemoryLost
<1>5. BufferExact' /\ NumbersBounded' /\ JobExact' /\ ReplayCounted'
  BY <1>1, <1>3 DEF MemoryLost, BufferExact, NumbersBounded, JobExact, Holds,
                    ReplayCounted, AllOff, Up
<1> QED
  BY <1>3, <1>4, <1>5

\* Down or recovering, no task runs.
LEMMA NobodyHolds ==
    ASSUME Base, ~ Up, NEW t \in Tasks
    PROVE  ~ Holds(t)
BY DEF Base, JobExact

\* The replay counts everything that was in the files but not counted.
LEMMA RecoverInv ==
    ASSUME Base, Recover
    PROVE  Base' /\ KeepsAll
<1> USE DEF Base
<1>1. /\ phase = "down" /\ phase' = "recovering" /\ ~ Up /\ ~ Up'
      /\ UNCHANGED <<live, seg, buffer, walOpen, pc, job, accepted, faults>>
  BY DEF Recover, Up
<1>2. \A s \in Searches :
        ReplayedLines[s] = IF s \in live \/ \E n \in ToReplay : s \in seg[n]
                           THEN 1 ELSE 0
  BY ReplayCountsOnce
<1>3. \A s \in Searches :
        /\ applied'[s] = applied[s] + ReplayedLines[s]
        /\ index'[s] = applied[s] + ReplayedLines[s]
  BY DEF Recover, Plus, RecoveredIndex
<1>4. RecoveryBase \in Nat /\ RecoveryBase >= watermark
      /\ \A n \in DOMAIN seg : n <= RecoveryBase
  <2> DEFINE S == {watermark} \union DOMAIN seg
  <2>1. PICK b \in Nat : \A n \in DOMAIN seg : n <= b
    BY DEF NumbersBounded
  <2>2. PICK c \in Nat : \A n \in S : n <= c
    <3>1. watermark <= b + watermark /\ b + watermark \in Nat
          /\ \A n \in DOMAIN seg : n <= b + watermark
      BY <2>1 DEF TypeOK
    <3> QED
      BY <3>1
  <2>3. S \in SUBSET Nat /\ S # {}
    BY DEF TypeOK
  <2>4. Max(S) \in S /\ \A n \in S : n <= Max(S)
    <3> HIDE DEF S
    <3> QED
      BY <2>2, <2>3, MaxIsLargest
  <2> QED
    BY <2>3, <2>4 DEF RecoveryBase, TypeOK
<1>5. watermark' \in Nat /\ segSeq' \in Nat /\ watermark' <= segSeq'
      /\ \A n \in DOMAIN seg : n <= segSeq'
  BY <1>4 DEF Recover, TypeOK
<1>6. /\ \A s \in live : applied'[s] > 0
      /\ \A n \in DOMAIN seg : \A s \in seg[n] : applied'[s] > 0
      /\ \A s \in Searches : applied[s] > 0 => applied'[s] > 0
  <2>1. \A s \in Searches : applied[s] \in Nat /\ ReplayedLines[s] \in Nat
    BY <1>2 DEF TypeOK, Counts
  <2>2. \A n \in DOMAIN seg : \A s \in seg[n] :
          s \in Searches /\ (applied[s] > 0 \/ n \in ToReplay)
    BY DEF CoveredCounted, ToReplay, TypeOK
  <2>3. live \subseteq Searches
    BY DEF TypeOK
  <2> QED
    BY <1>2, <1>3, <2>1, <2>2, <2>3
<1>7. \A n \in DOMAIN seg : n <= watermark'
  <2>1. CASE ReplayedLines = Zero
    <3>1. \A n \in ToReplay : seg[n] = {}
      BY <1>2, <2>1 DEF Zero, ToReplay, TypeOK
    <3>2. \A n \in DOMAIN seg : n <= watermark
      BY <3>1 DEF LinesAccepted, ToReplay, TypeOK
    <3> QED
      BY <2>1, <3>2 DEF Recover
  <2>2. CASE ReplayedLines # Zero
    BY <1>4, <2>2 DEF Recover, TypeOK
  <2> QED
    BY <2>1, <2>2
<1>8. TypeOK'
  <2>1. applied' \in Counts /\ index' \in Counts
    BY <1>2, <1>3 DEF Recover, Plus, RecoveredIndex, TypeOK, Counts
  <2> QED
    BY <1>1, <1>5, <2>1 DEF TypeOK
<1>9. /\ OneFile' /\ BufferExact' /\ ReplayCounted' /\ CoveredCounted'
      /\ KeepsAll
  BY <1>1, <1>6, <1>7 DEF OneFile, BufferExact, ReplayCounted, CoveredCounted, KeepsAll,
                          Kept, ToReplay
<1>10. LinesAccepted'
  <2>1. \A s \in Searches \ accepted : applied'[s] = 0
    BY <1>2, <1>3 DEF LinesAccepted, ToReplay
  <2> QED
    BY <1>1, <2>1 DEF LinesAccepted
<1>11. NumbersBounded'
  BY <1>1, <1>5 DEF NumbersBounded
<1>12. JobExact'
  BY <1>1, NobodyHolds DEF JobExact, Holds
<1> QED
  BY <1>8, <1>9, <1>10, <1>11, <1>12

\* Removing the replayed files: everything in them is counted.
LEMMA FinishRecoveryInv ==
    ASSUME Base, FinishRecovery
    PROVE  Base' /\ KeepsAll
<1> USE DEF Base
<1>1. /\ ~ Up /\ Up' /\ phase = "recovering" /\ phase' = "serving"
      /\ DOMAIN seg' = {} /\ live' = {}
      /\ UNCHANGED <<applied, watermark, buffer, segSeq, job, index, accepted,
                     faults>>
  BY DEF FinishRecovery, Up, NoSegments
<1>2. /\ \A s \in live : applied[s] > 0
      /\ \A n \in DOMAIN seg : \A s \in seg[n] : applied[s] > 0
  BY <1>1 DEF ReplayCounted, CoveredCounted
<1>3. TypeOK'
  BY <1>1 DEF TypeOK, FinishRecovery, NoSegments, Tasks
<1>4. OneFile' /\ LinesAccepted' /\ CoveredCounted' /\ KeepsAll
  BY <1>1, <1>2 DEF OneFile, LinesAccepted, CoveredCounted, KeepsAll, Kept, ToReplay
<1>5. BufferExact' /\ NumbersBounded' /\ ReplayCounted'
  BY <1>1 DEF BufferExact, NumbersBounded, ReplayCounted
<1>6. JobExact'
  <2>1. \A t \in Tasks : ~ Holds(t)'
    BY <1>1, NobodyHolds DEF FinishRecovery, Holds, TypeOK, Tasks
  <2> QED
    BY <2>1 DEF JobExact
<1> QED
  BY <1>3, <1>4, <1>5, <1>6

LEMMA StutterInv == Base /\ UNCHANGED vars => Base' /\ KeepsAll
BY DEF Base, vars, TypeOK, OneFile, LinesAccepted, BufferExact, Up, NumbersBounded,
       JobExact, Holds, CoveredCounted, ReplayCounted, ToReplay, KeepsAll, Kept

\* Whatever happens, what does not depend on the searches in the database is
\* preserved, and no search is lost.
LEMMA BaseStep == ASSUME Base, [Next]_vars PROVE Base' /\ KeepsAll
<1>1. CASE \E s \in Searches : Submit(s)
  BY <1>1, SubmitInv
<1>2. CASE Tick \/ Discard \/ BeginStop \/ StopFlush
  BY <1>2, QuietInv
<1>3. CASE StopDone \/ Crash \/ CrashInRecovery
  BY <1>3, EndInv
<1>4. CASE Recover
  BY <1>4, RecoverInv
<1>5. CASE FinishRecovery
  BY <1>5, FinishRecoveryInv
<1>6. ASSUME NEW t \in Tasks, TaskStep(t) PROVE Base' /\ KeepsAll
  <2>1. CASE StartFlush(t)
    BY <2>1, StartFlushInv
  <2>2. CASE FlushNothing(t)
    BY <2>2, QuietInv
  <2>3. CASE RotateError(t)
    BY <2>3, RotateErrorInv
  <2>4. CASE CommitBatch(t)
    BY <2>4, CommitBatchInv
  <2>5. CASE FinishFlush(t) \/ RemoveError(t) \/ ApplyError(t) \/ ReadBackError(t)
    <3>1. Holds(t)
      BY <2>5 DEF Holds, FinishFlush, RemoveError, ApplyError, ReadBackError
    <3> QED
      BY <2>5, <3>1, LeaveInv
  <2> QED
    BY <1>6, <2>1, <2>2, <2>3, <2>4, <2>5 DEF TaskStep
<1>7. CASE UNCHANGED vars
  BY <1>7, StutterInv
<1> QED
  BY <1>1, <1>2, <1>3, <1>4, <1>5, <1>6, <1>7 DEF Next

\* Only a batch and a replay count anything, and each takes all there is.
LEMMA OrderStep == ASSUME Inv, [Next]_vars PROVE CountedInOrder'
<1> USE DEF Inv, Base
<1>1. ASSUME NEW s \in Searches, Submit(s) PROVE CountedInOrder'
  <2>1. \A r \in accepted : r < s /\ applied[s] = 0
    BY <1>1 DEF Submit, LinesAccepted
  <2>2. \A r \in accepted : ~ (s < r)
    BY <2>1, BatchWriterAssumption DEF TypeOK
  <2>3. applied[s] = 0
    BY <1>1 DEF Submit, LinesAccepted
  <2> QED
    BY <1>1, <2>2, <2>3 DEF Submit, CountedInOrder
<1>2. ASSUME NEW t \in Tasks, CommitBatch(t) PROVE CountedInOrder'
  <2>1. Holds(t) /\ Up /\ UNCHANGED <<live, seg, accepted>>
    BY <1>2 DEF CommitBatch, JobExact, Holds
  <2>2. \A s \in Searches :
          applied'[s] = applied[s]
                        + (IF \E n \in DOMAIN seg : s \in seg[n] THEN 1 ELSE 0)
    BY <1>2, <2>1, JobCountsOnce DEF CommitBatch, Plus
  <2>3. \A s \in Searches : /\ applied[s] \in Nat /\ applied'[s] \in Nat
                            /\ applied[s] > 0 => applied'[s] > 0
                            /\ applied'[s] = applied[s] \/ applied'[s] > 0
    BY <2>2 DEF TypeOK, Counts
  <2>4. \A n \in DOMAIN seg : \A s \in seg[n] : s \in Searches /\ applied'[s] > 0
    BY <2>2, <2>3 DEF TypeOK, Counts
  <2> SUFFICES ASSUME NEW r \in accepted, NEW s \in accepted, r < s,
                      applied'[s] > 0
               PROVE  applied'[r] > 0
    BY <2>1 DEF CountedInOrder
  <2>5. r \in Searches /\ s \in Searches
    BY DEF TypeOK
  <2>6. CASE applied[s] > 0
    BY <2>3, <2>5, <2>6 DEF CountedInOrder
  <2>7. CASE ~ (applied[s] > 0)
    <3>1. PICK n \in DOMAIN seg : s \in seg[n]
      BY <2>2, <2>3, <2>5, <2>7
    <3>2. r \notin live
      BY <2>5, <3>1, BatchWriterAssumption DEF LinesAccepted
    <3>3. applied[r] > 0 \/ \E m \in DOMAIN seg : r \in seg[m]
      BY <3>2 DEF NoLoss, ToReplay
    <3> QED
      BY <2>3, <2>4, <2>5, <3>3
  <2> QED
    BY <2>6, <2>7
<1>3. CASE Recover
  <2>1. \A s \in accepted : applied'[s] > 0
    <3>1. \A s \in Searches :
            ReplayedLines[s] = IF s \in live \/ \E n \in ToReplay : s \in seg[n]
                               THEN 1 ELSE 0
      BY ReplayCountsOnce
    <3>2. \A s \in Searches : applied'[s] = applied[s] + ReplayedLines[s]
      BY <1>3 DEF Recover, Plus
    <3> QED
      BY <3>1, <3>2 DEF NoLoss, TypeOK, Counts
  <2> QED
    BY <1>3, <2>1 DEF Recover, CountedInOrder
<1>4. UNCHANGED <<applied, accepted>> => CountedInOrder'
  BY DEF CountedInOrder
<1> QED
  BY <1>1, <1>2, <1>3, <1>4
  DEF Next, TaskStep, StartFlush, FlushNothing, RotateError, ApplyError, ReadBackError,
      FinishFlush, RemoveError, Tick, Discard, BeginStop, StopFlush, StopDone, Crash,
      FinishRecovery, CrashInRecovery, disk, vars

LEMMA InvStep == ASSUME Inv, [Next]_vars PROVE Inv'
<1>1. Base' /\ KeepsAll
  BY BaseStep DEF Inv
<1>2. NoLoss'
  <2>1. \A s \in accepted : Kept(s)
    BY DEF Inv, NoLoss, Kept
  <2>2. \A s \in accepted : Kept(s)'
    BY <1>1, <2>1 DEF KeepsAll, Inv, Base, TypeOK
  <2>3. \A s \in accepted' \ accepted : s \in live'
    BY DEF Next, Submit, TaskStep, StartFlush, FlushNothing, RotateError, CommitBatch,
           ApplyError, ReadBackError, FinishFlush, RemoveError, Tick, Discard, BeginStop,
           StopFlush, StopDone, Crash, Recover, FinishRecovery, CrashInRecovery, vars
  <2> QED
    BY <2>2, <2>3 DEF NoLoss, Kept
<1> QED
  BY <1>1, <1>2, OrderStep DEF Inv

\* Inv holds in every state of every behaviour, whatever fails and how often.
THEOREM Invariance == Spec => []Inv
<1>1. Init => Inv
  <2>1. Init => NoLoss /\ CountedInOrder
    BY DEF Init, NoLoss, CountedInOrder
  <2> QED
    BY <2>1, InitBase DEF Inv
<1> QED
  BY <1>1, InvStep, PTL DEF Spec

\* Every variable keeps its type, and segments are numbered from 1.
THEOREM TypeCorrect == Spec => []TypeOK
<1>1. Inv => TypeOK
  BY DEF Inv, Base
<1> QED
  BY <1>1, Invariance, PTL

\* No acknowledged search is lost, whatever fails.
THEOREM NothingLost == Spec => []NoLoss
<1>1. Inv => NoLoss
  BY DEF Inv, Base
<1> QED
  BY <1>1, Invariance, PTL

\* No two log files ever hold the same line, whatever fails.
THEOREM LinesInOneFile == Spec => []OneFile
<1>1. Inv => OneFile
  BY DEF Inv, Base
<1> QED
  BY <1>1, Invariance, PTL

\* Searches are counted in arrival order, whatever fails.
THEOREM InArrivalOrder == Spec => []CountedInOrder
<1>1. Inv => CountedInOrder
  BY DEF Inv, Base
<1> QED
  BY <1>1, Invariance, PTL

\* While the log is open the buffer is exactly its lines.
THEOREM BufferIsLive == Spec => []BufferMirrorsLive
<1>1. Inv => BufferMirrorsLive
  BY DEF Inv, Base, BufferExact, BufferMirrorsLive
<1> QED
  BY <1>1, Invariance, PTL

\* A segment disappears only when the watermark on disk covers it.
THEOREM UnlinkedWhenCovered == Spec => WatermarkBeforeUnlink
<1>1. Inv /\ [Next]_vars => [\A n \in DOMAIN seg \ DOMAIN seg' : n <= watermark]_vars
  <2> DEFINE Covered == \A n \in DOMAIN seg \ DOMAIN seg' : n <= watermark
  <2> SUFFICES ASSUME Inv, Next PROVE Covered
    OBVIOUS
  <2>1. CASE \/ \E s \in Searches : Submit(s)
             \/ Tick \/ Discard \/ BeginStop \/ StopFlush \/ StopDone \/ Recover
    BY <2>1 DEF Submit, Tick, Discard, BeginStop, StopFlush, StopDone, Recover, disk
  <2>2. CASE Crash
    <3>1. (\E t \in Tasks : pc[t] = "commit") => \A n \in DOMAIN seg : n <= watermark
      BY DEF Inv, Base, JobExact, Holds
    <3> QED
      BY <2>2, <3>1 DEF Crash
  <2>3. CASE FinishRecovery \/ CrashInRecovery
    BY <2>3 DEF FinishRecovery, CrashInRecovery, Inv, Base, ReplayCounted
  <2>4. ASSUME NEW t \in Tasks, TaskStep(t) PROVE Covered
    <3>1. CASE StartFlush(t) \/ RotateError(t)
      <4>1. DOMAIN seg \subseteq DOMAIN seg'
        BY <3>1 DEF StartFlush, RotateError, Rotate, WithSegment
      <4> QED
        BY <4>1
    <3>2. CASE FlushNothing(t) \/ CommitBatch(t) \/ ApplyError(t) \/ ReadBackError(t)
      BY <3>2 DEF FlushNothing, CommitBatch, ApplyError, ReadBackError, disk
    <3>3. CASE FinishFlush(t) \/ RemoveError(t)
      BY <3>3 DEF FinishFlush, RemoveError, Inv, Base, JobExact, Holds
    <3> QED
      BY <2>4, <3>1, <3>2, <3>3 DEF TaskStep
  <2> QED
    BY <2>1, <2>2, <2>3, <2>4 DEF Next
<1> QED
  BY <1>1, Invariance, PTL DEF WatermarkBeforeUnlink, Spec

-----------------------------------------------------------------------------
(* No double count, when only the harmless failures happen                 *)

LEMMA InitOnce == Init => OnceInv
BY DEF Init, Zero, NoSegments, OnceInv, ToReplay, Up

\* The other failures do not happen, and a step is one of these.
LEMMA HarmlessStep ==
    ASSUME Faults \subseteq HarmlessFaults, [Next]_vars
    PROVE  \/ \E s \in Searches : Submit(s)
           \/ Tick \/ Discard \/ BeginStop \/ StopFlush
           \/ StopDone \/ Crash \/ Recover \/ FinishRecovery
           \/ \E t \in Tasks : \/ StartFlush(t) \/ FlushNothing(t)
                               \/ CommitBatch(t) \/ ApplyError(t) \/ FinishFlush(t)
                               \/ RotateError(t)
           \/ UNCHANGED vars
BY DEF Next, TaskStep, Fault, HarmlessFaults, MaskedFaults, ReadBackError, RemoveError,
       CrashInRecovery

LEMMA OnceStep ==
    ASSUME Base, Base', OnceInv, Faults \subseteq HarmlessFaults, [Next]_vars
    PROVE  OnceInv'
<1>1. ASSUME NEW s \in Searches, Submit(s) PROVE OnceInv'
  <2>1. applied[s] = 0
    BY <1>1 DEF Base, LinesAccepted, Submit
  <2>2. \A t \in Tasks : pc[t] = "commit" => pc'[t] = "commit"
    BY <1>1 DEF Submit, FlushDue, Base, TypeOK, Tasks
  <2> QED
    BY <1>1, <2>1, <2>2 DEF OnceInv, Submit, ToReplay, Up
<1>2. CASE Tick \/ Discard \/ BeginStop \/ StopFlush
  <2>1. /\ UNCHANGED <<applied, watermark, live, seg>>
        /\ Up /\ phase' # "recovering"
    BY <1>2 DEF Tick, Discard, BeginStop, StopFlush, disk, Up
  <2>2. \A t \in Tasks : pc[t] = "commit" => pc'[t] = "commit"
    BY <1>2 DEF Tick, Discard, BeginStop, StopFlush, Base, TypeOK, Tasks
  <2> QED
    BY <2>1, <2>2 DEF OnceInv, ToReplay, Up
<1>3. CASE StopDone \/ Crash
  <2>1. UNCHANGED <<applied, watermark, live>> /\ phase' = "down" /\ Up
    BY <1>3 DEF StopDone, Crash, disk, MemoryLost, Up
  <2>2. seg' = seg \/ \E numbers : seg' = Keeping(numbers)
    BY <1>3 DEF StopDone, Crash, UnlinkedBelow, disk
  <2>3. DOMAIN seg' \subseteq DOMAIN seg /\ \A n \in DOMAIN seg' : seg'[n] = seg[n]
    BY <2>2, KeepingSegments
  <2> QED
    BY <2>1, <2>3 DEF OnceInv, ToReplay, Up
<1>4. CASE Recover
  <2>1. \A s \in Searches :
          ReplayedLines[s] = IF s \in live \/ \E n \in ToReplay : s \in seg[n]
                             THEN 1 ELSE 0
    BY ReplayCountsOnce DEF Base
  <2>2. \A s \in Searches : applied'[s] = applied[s] + ReplayedLines[s]
    BY <1>4 DEF Recover, Plus
  <2>3. \A s \in Searches : applied'[s] <= 1
    BY <1>4, <2>1, <2>2 DEF OnceInv, Recover, Base, TypeOK, Counts
  <2>4. phase' = "recovering" /\ \A n \in DOMAIN seg' : n <= watermark'
    BY <1>4 DEF Recover, Base, ReplayCounted
  <2>5. ToReplay' = {}
    BY <2>4 DEF ToReplay, Base, TypeOK
  <2> QED
    BY <2>3, <2>4, <2>5 DEF OnceInv, Up
<1>5. CASE FinishRecovery
  <2>1. DOMAIN seg' = {} /\ live' = {} /\ applied' = applied
    BY <1>5 DEF FinishRecovery, NoSegments
  <2> QED
    BY <2>1 DEF OnceInv, ToReplay
<1>6. ASSUME NEW t \in Tasks, StartFlush(t) \/ RotateError(t) PROVE OnceInv'
  <2> DEFINE new == segSeq + 1
  <2>1. /\ Up /\ Up' /\ UNCHANGED <<applied, watermark>>
        /\ StartFlush(t) => Rotate
    BY <1>6 DEF StartFlush, RotateError, Up
  <2>2. /\ phase # "recovering"
        /\ \A n \in DOMAIN seg : n > watermark
        /\ \A n \in DOMAIN seg : \A s \in seg[n] : applied[s] = 0
        /\ \A s \in live : applied[s] = 0
    BY <1>6, <2>1 DEF StartFlush, RotateError, LockFree, OnceInv, Up, ToReplay
  <2>3. /\ new > watermark
        /\ \A n \in DOMAIN WithSegment(new) :
              IF n = new THEN WithSegment(new)[n] = live
                         ELSE n \in DOMAIN seg /\ WithSegment(new)[n] = seg[n]
    BY <2>1, NewSegment
  <2>4. (seg' = seg /\ live' = live) \/ (seg' = WithSegment(new) /\ live' = {})
    BY <1>6, <2>1, RotateFacts DEF RotateError
  <2> HIDE DEF new
  <2>5. /\ \A n \in DOMAIN seg' : n > watermark
        /\ \A n \in DOMAIN seg' : \A s \in seg'[n] : applied[s] = 0
        /\ \A s \in live' : applied[s] = 0
    BY <2>2, <2>3, <2>4
  <2> QED
    BY <2>1, <2>5 DEF OnceInv, ToReplay
<1>7. ASSUME NEW t \in Tasks, FlushNothing(t) PROVE OnceInv'
  <2>1. \A u \in Tasks : pc[u] = "commit" => pc'[u] = "commit"
    BY <1>7, ReturnedFacts DEF FlushNothing, Base
  <2>2. UNCHANGED <<applied, watermark, live, seg, phase>>
    BY <1>7 DEF FlushNothing, disk
  <2> QED
    BY <2>1, <2>2 DEF OnceInv, ToReplay, Up
<1>8. ASSUME NEW t \in Tasks, CommitBatch(t) PROVE OnceInv'
  <2>1. Holds(t) /\ Up /\ \A u \in Tasks : pc[u] # "commit"
    BY <1>8 DEF CommitBatch, Base, JobExact, Holds
  <2>2. \A n \in DOMAIN seg : \A s \in seg[n] : applied[s] = 0
    BY <2>1 DEF OnceInv, ToReplay
  <2>3. \A s \in Searches :
          applied'[s] = applied[s]
                        + (IF \E n \in DOMAIN seg : s \in seg[n] THEN 1 ELSE 0)
    BY <1>8, <2>1, JobCountsOnce DEF CommitBatch, Plus
  <2>4. \A s \in Searches : applied'[s] <= 1
    BY <2>2, <2>3 DEF OnceInv, Base, TypeOK, Counts
  <2>5. pc'[t] = "commit" /\ UNCHANGED <<live, seg, phase>>
    BY <1>8 DEF CommitBatch, Base, TypeOK
  <2>6. ToReplay' = {}
    BY <2>5 DEF ToReplay, Base, TypeOK, JobExact, Holds
  <2>7. phase # "recovering" /\ \A s \in live : applied'[s] = 0
    BY <2>1, <2>3 DEF OnceInv, Up, Base, OneFile, TypeOK, Counts
  <2> QED
    BY <2>4, <2>5, <2>6, <2>7 DEF OnceInv
<1>9. ASSUME NEW t \in Tasks, ApplyError(t) PROVE OnceInv'
  <2>1. Up /\ \A u \in Tasks : pc[u] # "commit"
    BY <1>9 DEF ApplyError, Base, JobExact, Holds
  <2>2. UNCHANGED <<applied, watermark, live, seg, phase>>
    BY <1>9 DEF ApplyError, disk
  <2> QED
    BY <2>1, <2>2 DEF OnceInv, ToReplay, Up
<1>10. ASSUME NEW t \in Tasks, FinishFlush(t) PROVE OnceInv'
  <2>1. job.segs = DOMAIN seg /\ UNCHANGED <<applied, live, phase>>
    BY <1>10 DEF FinishFlush, Base, JobExact, Holds
  <2>2. DOMAIN seg' = {}
    BY <1>10, <2>1, KeepingSegments DEF FinishFlush
  <2> QED
    BY <2>1, <2>2 DEF OnceInv, ToReplay
<1>11. CASE UNCHANGED vars
  BY <1>11 DEF OnceInv, ToReplay, Up, vars
<1> QED
  BY <1>1, <1>2, <1>3, <1>4, <1>5, <1>6, <1>7, <1>8, <1>9, <1>10, <1>11, HarmlessStep

\* When only crashes while serving, failed transactions and failed rotations
\* happen, no search is counted twice.
THEOREM CountedOnce ==
    ASSUME Faults \subseteq HarmlessFaults
    PROVE  Spec => []CountedAtMostOnce
<1>1. Inv /\ OnceInv /\ [Next]_vars /\ Inv' => OnceInv'
  BY OnceStep DEF Inv
<1>2. OnceInv => CountedAtMostOnce
  BY DEF OnceInv, CountedAtMostOnce
<1> QED
  BY <1>1, <1>2, InitOnce, Invariance, PTL DEF Spec

-----------------------------------------------------------------------------
(* The index follows the store                                             *)

LEMMA InitIndex == Init => IndexInv
BY DEF Init, IndexInv, Up

LEMMA IndexStep ==
    ASSUME Base, IndexInv, Faults \subseteq HarmlessFaults, [Next]_vars
    PROVE  IndexInv'
<1>1. CASE \/ \E s \in Searches : Submit(s)
           \/ Tick \/ Discard \/ BeginStop \/ StopFlush
           \/ \E t \in Tasks : FlushNothing(t)
  <2>1. UNCHANGED <<applied, index, job>> /\ Up /\ phase' # "recovering"
    BY <1>1 DEF Submit, Tick, Discard, BeginStop, StopFlush, FlushNothing, disk, Up
  <2>2. \A t \in Tasks : pc[t] = "commit" => pc'[t] = "commit"
    <3>1. CASE \E t \in Tasks : FlushNothing(t)
      BY <3>1, ReturnedFacts DEF FlushNothing, Base
    <3>2. CASE ~ \E t \in Tasks : FlushNothing(t)
      BY <1>1, <3>2 DEF Submit, FlushDue, Tick, Discard, BeginStop, StopFlush, Base,
                        TypeOK, Tasks
    <3> QED
      BY <3>1, <3>2
  <2> QED
    BY <2>1, <2>2 DEF IndexInv, Changed, Up
<1>2. CASE StopDone \/ Crash
  BY <1>2 DEF StopDone, Crash, MemoryLost, IndexInv, Up
<1>3. CASE Recover \/ FinishRecovery
  BY <1>3 DEF Recover, FinishRecovery, RecoveredIndex, IndexInv, Up
<1>4. ASSUME NEW t \in Tasks, StartFlush(t) \/ RotateError(t) \/ ApplyError(t)
      PROVE  IndexInv'
  <2>1. Up /\ \A u \in Tasks : pc[u] # "commit"
    BY <1>4 DEF StartFlush, RotateError, ApplyError, LockFree, Base, JobExact, Holds
  <2>2. UNCHANGED <<applied, index, phase>>
    BY <1>4 DEF StartFlush, RotateError, ApplyError, disk
  <2> QED
    BY <2>1, <2>2 DEF IndexInv, Up
<1>5. ASSUME NEW t \in Tasks, CommitBatch(t) PROVE IndexInv'
  <2>1. Up /\ \A u \in Tasks : pc[u] # "commit"
    BY <1>5 DEF CommitBatch, Base, JobExact, Holds
  <2>2. pc'[t] = "commit" /\ UNCHANGED <<index, phase, job>>
    BY <1>5 DEF CommitBatch, Base, TypeOK
  <2>3. \A s \in Searches : applied'[s] = applied[s] + job.deltas[s]
    BY <1>5 DEF CommitBatch, Plus
  <2>4. \A s \in Searches : job.deltas[s] > 0 => QueryOf[s] \in Changed'
    BY <2>2 DEF Changed
  <2>5. \A s \in Searches : applied'[s] = applied[s] \/ QueryOf[s] \in Changed'
    BY <2>3, <2>4 DEF Base, TypeOK, Counts
  <2> QED
    BY <2>1, <2>2, <2>5 DEF IndexInv, Up
<1>6. ASSUME NEW t \in Tasks, FinishFlush(t) PROVE IndexInv'
  <2>1. Up /\ UNCHANGED <<applied, phase>>
    BY <1>6 DEF FinishFlush, Base, JobExact, Holds
  <2>2. \A s \in Searches : index'[s] = applied[s]
    BY <1>6, <2>1 DEF FinishFlush, Upserted, IndexInv
  <2> QED
    BY <2>1, <2>2 DEF IndexInv, Up
<1>7. CASE UNCHANGED vars
  BY <1>7 DEF IndexInv, Changed, Up, vars
<1> QED
  BY <1>1, <1>2, <1>3, <1>4, <1>5, <1>6, <1>7, HarmlessStep

\* With these failures the trie has the stored counts, except between the
\* commit of a batch and its return to the event loop.
THEOREM IndexIsStore ==
    ASSUME Faults \subseteq HarmlessFaults
    PROVE  Spec => []IndexFollowsStore
<1>1. Inv /\ IndexInv /\ [Next]_vars => IndexInv'
  BY IndexStep DEF Inv
<1>2. Inv /\ IndexInv => IndexFollowsStore
  BY DEF IndexInv, IndexFollowsStore, Inv, Base, TypeOK, Counts
<1> QED
  BY <1>1, <1>2, InitIndex, Invariance, PTL DEF Spec

-----------------------------------------------------------------------------
(* A clean shutdown drains the log                                         *)

\* As long as nothing failed, segments exist only while a flush is inside the
\* lock, no line outlives a process, and what stop() flushed stays empty.
DrainInv ==
    faults = 0 =>
        /\ Up => walOpen
        /\ ~ Up => live = {} /\ DOMAIN seg = {}
        /\ Up /\ LockFree => DOMAIN seg = {}
        /\ pc["stop"] # "off" => phase = "stopping" /\ pc["run"] = "off"
        /\ pc["stop"] \in {"apply", "commit", "done"} => live = {}

LEMMA InitDrain == Init => DrainInv
  BY DEF Init, DrainInv, Up, AllOff, Tasks, NoSegments

\* Every failure is counted, and the other steps count none.
LEMMA FaultCounts ==
    ASSUME Base, NEW kind, Fault(kind)
    PROVE  faults' # 0
  BY BatchWriterAssumption DEF Fault, Base, TypeOK

LEMMA DrainStep == ASSUME Base, DrainInv, [Next]_vars PROVE DrainInv'
<1> SUFFICES ASSUME faults' = 0 PROVE DrainInv'
  BY DEF DrainInv
<1> USE DEF Base
<1>1. ASSUME NEW s \in Searches, Submit(s) PROVE DrainInv'
  <2>1. /\ phase = "serving" /\ UNCHANGED <<phase, walOpen, seg, faults>>
        /\ pc' = pc \/ (pc["size"] = "off" /\ pc' = [pc EXCEPT !["size"] = "want"])
    BY <1>1 DEF Submit, FlushDue
  <2>2. LockFree' => LockFree
    BY <2>1 DEF LockFree, Tasks, TypeOK
  <2>3. pc["stop"] = "off" /\ pc'["stop"] = "off"
    BY <2>1 DEF DrainInv, Tasks, TypeOK
  <2> QED
    BY <2>1, <2>2, <2>3 DEF DrainInv, Up
<1>2. CASE Tick \/ Discard \/ BeginStop \/ StopFlush
  <2>1. CASE Tick
    BY <2>1 DEF Tick, DrainInv, Up, LockFree, Tasks, TypeOK, disk
  <2>2. CASE Discard
    BY <2>2 DEF Discard, DrainInv, Up, LockFree, Tasks, TypeOK, disk
  <2>3. CASE BeginStop
    BY <2>3 DEF BeginStop, DrainInv, Up, LockFree, Tasks, TypeOK, disk
  <2>4. CASE StopFlush
    BY <2>4 DEF StopFlush, DrainInv, Up, LockFree, Tasks, TypeOK, disk
  <2> QED
    BY <1>2, <2>1, <2>2, <2>3, <2>4
<1>3. ASSUME NEW t \in Tasks, StartFlush(t) PROVE DrainInv'
  <2>1. buffer = live
    BY <1>3 DEF StartFlush, DrainInv, BufferExact
  <2>2. live' = {} /\ Up' /\ walOpen' /\ phase' = phase
    BY <1>3, <2>1 DEF StartFlush, Rotate, DrainInv, Up
  <2>3. pc'[t] = "apply" /\ \A u \in Tasks \ {t} : pc'[u] = pc[u]
    BY <1>3 DEF StartFlush, TypeOK
  <2>4. ~ LockFree'
    BY <2>3 DEF LockFree
  <2> QED
    BY <1>3, <2>2, <2>3, <2>4 DEF StartFlush, DrainInv, Tasks
<1>4. ASSUME NEW t \in Tasks, FlushNothing(t) PROVE DrainInv'
  <2>1. live = {} /\ Up
    BY <1>4 DEF FlushNothing, DrainInv, BufferExact
  <2>2. UNCHANGED <<live, seg, phase, walOpen>> /\ DOMAIN seg = {}
    BY <1>4 DEF FlushNothing, disk
  <2>3. \A u \in Tasks \ {t} : pc'[u] = pc[u]
    BY <1>4, ReturnedFacts DEF FlushNothing
  <2> QED
    BY <1>4, <2>1, <2>2, <2>3, ReturnedFacts DEF FlushNothing, DrainInv, Up, Tasks
<1>5. ASSUME NEW t \in Tasks, CommitBatch(t) PROVE DrainInv'
  <2>1. pc'[t] = "commit" /\ \A u \in Tasks \ {t} : pc'[u] = pc[u]
    BY <1>5 DEF CommitBatch, TypeOK
  <2> QED
    BY <1>5, <2>1 DEF CommitBatch, DrainInv, Up, LockFree, Tasks
<1>6. ASSUME NEW t \in Tasks, FinishFlush(t) PROVE DrainInv'
  <2>1. Up /\ job.segs = DOMAIN seg
    BY <1>6 DEF FinishFlush, JobExact, Holds
  <2>2. DOMAIN seg' = {} /\ UNCHANGED <<live, phase, walOpen>>
    BY <1>6, <2>1 DEF FinishFlush, Keeping
  <2>3. \A u \in Tasks \ {t} : pc'[u] = pc[u]
    BY <1>6, ReturnedFacts DEF FinishFlush
  <2> QED
    BY <1>6, <2>1, <2>2, <2>3, ReturnedFacts DEF FinishFlush, DrainInv, Up, Tasks
<1>7. CASE StopDone
  <2>1. live = {} /\ LockFree /\ Up
    BY <1>7 DEF StopDone, DrainInv, LockFree, Up, Tasks
  <2> QED
    BY <1>7, <2>1 DEF StopDone, DrainInv, MemoryLost, AllOff, Tasks, Up, disk
<1>8. CASE Recover \/ FinishRecovery
  BY <1>8 DEF Recover, FinishRecovery, DrainInv, Up, NoSegments, Tasks, TypeOK
<1>9. CASE UNCHANGED vars
  BY <1>9 DEF DrainInv, Up, LockFree, vars
<1>10. CASE \/ Crash \/ CrashInRecovery
            \/ \E t \in Tasks : RotateError(t) \/ ApplyError(t)
                                \/ ReadBackError(t) \/ RemoveError(t)
  BY <1>10, FaultCounts DEF Crash, CrashInRecovery, RotateError, ApplyError,
                            ReadBackError, RemoveError
<1> QED
  BY <1>1, <1>2, <1>3, <1>4, <1>5, <1>6, <1>7, <1>8, <1>9, <1>10
     DEF Next, TaskStep

\* A shutdown after which nothing has ever failed leaves no line in the log and
\* no segment: whichever tasks were flushing, stop() waits for the last one.
THEOREM ShutdownDrains == Spec => StopDrains
<1>1. Inv /\ DrainInv /\ [Next]_vars => DrainInv'
  BY DrainStep DEF Inv
<1>2. Inv /\ DrainInv /\ DrainInv' /\ [Next]_vars
        => [phase = "stopping" /\ phase' = "down" /\ faults' = 0
              => live' = {} /\ DOMAIN seg' = {}]_vars
  BY DEF DrainInv, Up
<1> QED
  BY <1>1, <1>2, InitDrain, Invariance, PTL DEF Spec, StopDrains

-----------------------------------------------------------------------------
(* BatchWriter implements SearchCounter                                    *)

LEMMA CommitCounts ==
    ASSUME Inv, OnceInv, NEW t \in Tasks, CommitBatch(t)
    PROVE  Counter!Next
<1> DEFINE batch == {s \in Searches : \E n \in DOMAIN seg : s \in seg[n]}
<1>1. /\ Holds(t) /\ Up /\ DOMAIN seg # {}
      /\ \A u \in Tasks : pc[u] # "commit"
  BY DEF CommitBatch, Inv, Base, JobExact, Holds
<1>2. \A s \in batch : s \in accepted /\ applied[s] = 0
  BY <1>1 DEF OnceInv, ToReplay, Inv, Base, LinesAccepted
<1>3. batch # {}
  BY <1>1 DEF Inv, Base, LinesAccepted, TypeOK
<1>4. batch \in SUBSET Counter!Waiting
  BY <1>2 DEF Counter!Waiting
<1>5. ASSUME NEW s \in batch, NEW r \in Counter!Waiting \ batch PROVE s < r
  <2>1. r \in accepted /\ applied[r] = 0 /\ r \in Searches
    BY DEF Counter!Waiting, Inv, Base, TypeOK
  <2>2. r \in live
    BY <2>1 DEF Inv, Base, NoLoss, ToReplay
  <2> QED
    BY <2>2 DEF Inv, Base, LinesAccepted
<1>6. applied' = [s \in Searches |-> IF s \in batch THEN 1 ELSE applied[s]]
  <2>1. \A s \in Searches : applied[s] + job.deltas[s] =
                            IF s \in batch THEN 1 ELSE applied[s]
    BY <1>1, <1>2, JobCountsOnce DEF Inv, Base, TypeOK, Counts
  <2> HIDE DEF batch
  <2> QED
    BY <2>1 DEF CommitBatch, Plus
<1>7. Counter!CountBatch(batch)
  <2> HIDE DEF batch
  <2> QED
    BY <1>3, <1>5, <1>6 DEF Counter!CountBatch, CommitBatch
<1> QED
  BY <1>4, <1>7 DEF Counter!Next

LEMMA RecoverCounts ==
    ASSUME Inv, OnceInv, Recover
    PROVE  Counter!Next \/ UNCHANGED Counter!vars
<1> DEFINE batch == {s \in Searches : s \in live \/ \E n \in ToReplay : s \in seg[n]}
<1>1. \A s \in batch : s \in accepted /\ applied[s] = 0
  BY DEF OnceInv, ToReplay, Inv, Base, LinesAccepted, Recover
<1>2. batch \in SUBSET Counter!Waiting
  BY <1>1 DEF Counter!Waiting
<1>3. Counter!Waiting \ batch = {}
  BY DEF Counter!Waiting, Inv, Base, NoLoss, TypeOK, Counts
<1>4. applied' = [s \in Searches |-> IF s \in batch THEN 1 ELSE applied[s]]
  <2>1. \A s \in Searches : applied[s] + ReplayedLines[s] =
                            IF s \in batch THEN 1 ELSE applied[s]
    BY <1>1, ReplayCountsOnce DEF Inv, Base, TypeOK, Counts
  <2> HIDE DEF batch
  <2> QED
    BY <2>1 DEF Recover, Plus
<1>5. accepted' = accepted
  BY DEF Recover
<1>6. CASE batch = {}
  <2>1. applied' = applied
    <3> HIDE DEF batch
    <3> QED
      BY <1>4, <1>6 DEF Inv, Base, TypeOK, Counts
  <2> QED
    BY <1>5, <2>1 DEF Counter!vars
<1>7. CASE batch # {}
  <2>1. Counter!CountBatch(batch)
    <3> HIDE DEF batch
    <3> QED
      BY <1>3, <1>4, <1>5, <1>7 DEF Counter!CountBatch
  <2> QED
    BY <1>2, <2>1 DEF Counter!Next
<1> QED
  BY <1>6, <1>7

LEMMA RefinesStep ==
    ASSUME Inv, OnceInv, Faults \subseteq HarmlessFaults, [Next]_vars
    PROVE  Counter!Next \/ UNCHANGED Counter!vars
<1>1. ASSUME NEW s \in Searches, Submit(s) PROVE Counter!Next
  BY <1>1 DEF Submit, Counter!Next, Counter!Accept
<1>2. ASSUME NEW t \in Tasks, CommitBatch(t) PROVE Counter!Next
  BY <1>2, CommitCounts
<1>3. CASE Recover
  BY <1>3, RecoverCounts
<1>4. CASE \/ Tick \/ Discard \/ BeginStop \/ StopFlush
           \/ StopDone \/ Crash \/ FinishRecovery
           \/ \E t \in Tasks : StartFlush(t) \/ FlushNothing(t)
                               \/ RotateError(t) \/ ApplyError(t) \/ FinishFlush(t)
           \/ UNCHANGED vars
  BY <1>4 DEF Tick, Discard, BeginStop, StopFlush, StopDone, Crash, FinishRecovery,
              StartFlush, FlushNothing, RotateError, ApplyError, FinishFlush, disk, vars,
              Counter!vars
<1> QED
  BY <1>1, <1>2, <1>3, <1>4, HarmlessStep

\* When only crashes while serving, failed transactions and failed rotations
\* happen, the write path is a counter that counts every accepted search once,
\* in arrival order.
THEOREM ExactlyOnce ==
    ASSUME Faults \subseteq HarmlessFaults
    PROVE  Spec => ImplementsCounter
<1>1. Init => Counter!Init
  BY DEF Init, Counter!Init, Zero
<1>2. Inv /\ OnceInv /\ [Next]_vars => [Counter!Next]_(Counter!vars)
  BY RefinesStep
<1>3. Inv /\ OnceInv /\ [Next]_vars /\ Inv' => OnceInv'
  BY OnceStep DEF Inv
<1> QED
  BY <1>1, <1>2, <1>3, InitOnce, Invariance, PTL
     DEF Spec, ImplementsCounter, Counter!Spec

-----------------------------------------------------------------------------
(* BatchWriter implements WritePath                                        *)

\* What the mapping to WritePath needs besides: there are finitely many
\* searches, the log is open, a flush that is over leaves no locals, stop()
\* waited for the loop, and the trie counts each search that was made once.
LinkInv ==
    /\ IsFiniteSet(accepted)
    /\ Up => walOpen
    /\ LockFree => job = NoJob
    /\ pc["stop"] # "off" => phase = "stopping" /\ pc["run"] = "off"
    /\ \A s \in Searches : index[s] <= 1
    /\ \A s \in Searches \ accepted : index[s] = 0

LEMMA InitLink == Init => LinkInv
BY FS_EmptySet DEF Init, LinkInv, Up, AllOff, Tasks, Zero

LEMMA LinkStep ==
    ASSUME Base, Base', OnceInv, OnceInv', LinkInv, Faults \subseteq MaskedFaults, [Next]_vars
    PROVE  LinkInv'
<1> USE DEF Base
<1>1. ASSUME NEW s \in Searches, Submit(s) PROVE LinkInv'
  <2>1. /\ pc' = pc \/ (pc["size"] = "off" /\ pc' = [pc EXCEPT !["size"] = "want"])
        /\ phase = "serving" /\ accepted' = accepted \union {s}
        /\ UNCHANGED <<phase, walOpen, job, index>>
    BY <1>1 DEF Submit, FlushDue
  <2>2. LockFree' => LockFree
    BY <2>1 DEF LockFree, Tasks, TypeOK
  <2>3. pc'["stop"] = pc["stop"] /\ pc'["run"] = pc["run"]
    BY <2>1 DEF Tasks, TypeOK
  <2>4. IsFiniteSet(accepted')
    BY <2>1, FS_AddElement DEF LinkInv
  <2> QED
    BY <2>1, <2>2, <2>3, <2>4 DEF LinkInv, Up
<1>2. CASE Tick \/ Discard \/ BeginStop \/ StopFlush
  <2>1. CASE Tick
    BY <2>1 DEF Tick, LinkInv, Up, LockFree, Tasks, TypeOK, disk
  <2>2. CASE Discard
    BY <2>2 DEF Discard, LinkInv, Up, LockFree, Tasks, TypeOK, disk
  <2>3. CASE BeginStop
    BY <2>3 DEF BeginStop, LinkInv, Up, LockFree, Tasks, TypeOK, disk
  <2>4. CASE StopFlush
    BY <2>4 DEF StopFlush, LinkInv, Up, LockFree, Tasks, TypeOK, disk
  <2> QED
    BY <1>2, <2>1, <2>2, <2>3, <2>4
<1>3. ASSUME NEW t \in Tasks, StartFlush(t) PROVE LinkInv'
  <2>1. pc'[t] = "apply" /\ \A u \in Tasks \ {t} : pc'[u] = pc[u]
    BY <1>3 DEF StartFlush, TypeOK
  <2>2. ~ LockFree'
    BY <2>1 DEF LockFree
  <2>3. UNCHANGED <<phase, walOpen, index, accepted>> /\ pc[t] = "want"
    BY <1>3 DEF StartFlush
  <2> QED
    BY <2>1, <2>2, <2>3 DEF LinkInv, Tasks, Up
<1>4. ASSUME NEW t \in Tasks, CommitBatch(t) PROVE LinkInv'
  <2>1. pc'[t] = "commit" /\ \A u \in Tasks \ {t} : pc'[u] = pc[u]
    BY <1>4 DEF CommitBatch, TypeOK
  <2>2. ~ LockFree'
    BY <2>1 DEF LockFree
  <2>3. UNCHANGED <<phase, walOpen, index, accepted>> /\ pc[t] = "apply"
    BY <1>4 DEF CommitBatch
  <2> QED
    BY <2>1, <2>2, <2>3 DEF LinkInv, Tasks, Up
<1>5. ASSUME NEW t \in Tasks, FlushNothing(t) \/ ApplyError(t) \/ FinishFlush(t)
      PROVE  LinkInv'
  <2>1. /\ pc' = Returned(t) /\ pc[t] \in {"want", "apply", "commit"}
        /\ UNCHANGED <<phase, walOpen, accepted>>
    BY <1>5 DEF FlushNothing, ApplyError, FinishFlush, disk
  <2>2. /\ \A u \in Tasks \ {t} : pc'[u] = pc[u]
        /\ t = "run" /\ phase # "serving" => pc'[t] = "off"
    BY <2>1, ReturnedFacts DEF Returned, TypeOK
  <2>3. LockFree' => job' = NoJob
    <3>1. CASE FlushNothing(t)
      BY <3>1 DEF FlushNothing, LinkInv
    <3> QED
      BY <1>5, <3>1 DEF ApplyError, FinishFlush
  <2>4. /\ \A s \in Searches : index'[s] <= 1
        /\ \A s \in Searches \ accepted : index'[s] = 0
    <3>1. CASE FinishFlush(t)
      BY <3>1 DEF FinishFlush, Upserted, LinkInv, LinesAccepted, OnceInv
    <3> QED
      BY <1>5, <3>1 DEF FlushNothing, ApplyError, LinkInv
  <2>5. pc'["stop"] # "off" => phase' = "stopping" /\ pc'["run"] = "off"
    BY <2>1, <2>2 DEF LinkInv, Tasks
  <2> QED
    BY <2>1, <2>3, <2>4, <2>5 DEF LinkInv, Up
<1>6. CASE StopDone \/ Crash
  BY <1>6 DEF StopDone, Crash, MemoryLost, LinkInv, Up, AllOff, Tasks, Zero
<1>7. CASE Recover
  <2>1. index' = applied'
    BY <1>7 DEF Recover, RecoveredIndex
  <2>2. /\ \A s \in Searches : index'[s] <= 1
        /\ \A s \in Searches \ accepted' : index'[s] = 0
    BY <2>1 DEF LinesAccepted, OnceInv
  <2> QED
    BY <1>7, <2>2 DEF Recover, LinkInv, Up, LockFree
<1>8. CASE FinishRecovery
  BY <1>8 DEF FinishRecovery, LinkInv, Up, LockFree, JobExact, Holds, Tasks, TypeOK
<1>9. CASE UNCHANGED vars
  BY <1>9 DEF LinkInv, Up, LockFree, vars
<1>10. ~ \E t \in Tasks : RotateError(t)
  BY DEF RotateError, Fault, MaskedFaults
<1>11. Faults \subseteq HarmlessFaults
  BY DEF HarmlessFaults
<1> QED
  BY <1>1, <1>2, <1>3, <1>4, <1>5, <1>6, <1>7, <1>8, <1>9, <1>10, <1>11,
     HarmlessStep

\* How many of these searches are for each query, and that on top of the
\* dataset.
Numbers(some) == [q \in Queries |-> Cardinality({s \in some : QueryOf[s] = q})]
Totals(some) == [q \in Queries |-> Loaded[q] + Numbers(some)[q]]

\* Where nothing is counted twice, a tally is the number of searches counted.
LEMMA TimesOfOnes ==
    ASSUME NEW count \in Counts, \A s \in Searches : count[s] <= 1
    PROVE  Times(count) = {s \in Searches : count[s] > 0} \X {1}
<1>1. \A s \in Searches : {s} \X (1 .. count[s]) = IF count[s] > 0 THEN {<<s, 1>>}
                                                                   ELSE {}
  BY DEF Counts
<1> QED
  BY <1>1 DEF Times

LEMMA TallyOfOnes ==
    ASSUME NEW some, IsFiniteSet(some)
    PROVE  Tally(some \X {1}) = Numbers(some)
<1> SUFFICES ASSUME NEW q \in Queries
             PROVE  Cardinality({c \in some \X {1} : QueryOf[c[1]] = q}) =
                    Cardinality({s \in some : QueryOf[s] = q})
  BY DEF Tally, Numbers
<1> DEFINE those == {s \in some : QueryOf[s] = q}
           times == {c \in some \X {1} : QueryOf[c[1]] = q}
           first == [s \in those |-> <<s, 1>>]
<1>1. IsFiniteSet(those)
  BY FS_Subset
<1>2. first \in [those -> times]
  OBVIOUS
<1>3. \A r, s \in those : first[r] = first[s] => r = s
  OBVIOUS
<1>4. \A c \in times : \E s \in those : first[s] = c
  OBVIOUS
<1>5. ExistsBijection(those, times)
  <2> HIDE DEF those, times, first
  <2> QED
    BY <1>2, <1>3, <1>4 DEF ExistsBijection, Bijection, Injection, IsInjective, Surjection
<1> QED
  BY <1>1, <1>5, FS_Bijection

\* Numbers of finitely many searches are counts; those of disjoint sets add up,
\* and a query is in one exactly when one of the searches is for it.
LEMMA NumbersType ==
    ASSUME NEW some, IsFiniteSet(some)
    PROVE  /\ Numbers(some) \in Path!Counts
           /\ \A q \in Queries : Numbers(some)[q] > 0 <=>
                                 \E s \in some : QueryOf[s] = q
<1> SUFFICES ASSUME NEW q \in Queries
             PROVE  /\ Numbers(some)[q] \in Nat
                    /\ Numbers(some)[q] > 0 <=> \E s \in some : QueryOf[s] = q
  BY DEF Numbers, Path!Counts
<1> DEFINE those == {s \in some : QueryOf[s] = q}
<1>1. IsFiniteSet(those)
  BY FS_Subset
<1>2. Cardinality(those) \in Nat
  BY <1>1, FS_CardinalityType
<1>3. Cardinality(those) = 0 <=> those = {}
  BY <1>1, FS_EmptySet
<1>4. Numbers(some)[q] = Cardinality(those)
  BY DEF Numbers
<1> QED
  BY <1>2, <1>3, <1>4

LEMMA NumbersUnion ==
    ASSUME NEW one, NEW other, IsFiniteSet(one), IsFiniteSet(other),
           one \intersect other = {}
    PROVE  Numbers(one \union other) = Path!Plus(Numbers(one), Numbers(other))
<1> SUFFICES ASSUME NEW q \in Queries
             PROVE  Numbers(one \union other)[q] = Numbers(one)[q] + Numbers(other)[q]
  BY DEF Numbers, Path!Plus
<1> DEFINE ones == {s \in one : QueryOf[s] = q}
           others == {s \in other : QueryOf[s] = q}
<1>1. IsFiniteSet(ones) /\ IsFiniteSet(others)
  BY FS_Subset
<1>2. ones \intersect others = {}
  OBVIOUS
<1>3. {s \in one \union other : QueryOf[s] = q} = ones \union others
  OBVIOUS
<1>4. Cardinality(ones) \in Nat /\ Cardinality(others) \in Nat
  BY <1>1, FS_CardinalityType
<1>5. Cardinality(ones \union others) = Cardinality(ones) + Cardinality(others)
  <2> HIDE DEF ones, others
  <2>1. Cardinality(ones \union others) =
          Cardinality(ones) + Cardinality(others) - Cardinality(ones \intersect others)
    BY <1>1, FS_Union
  <2>2. Cardinality(ones \intersect others) = 0
    BY <1>2, FS_EmptySet
  <2> QED
    BY <1>4, <2>1, <2>2
<1> QED
  BY <1>3, <1>5 DEF Numbers

LEMMA NumbersEmpty == Numbers({}) = Path!Zero
BY FS_EmptySet DEF Numbers, Path!Zero

LEMMA NumbersOne ==
    ASSUME NEW some, IsFiniteSet(some), NEW s \in Searches \ some
    PROVE  Numbers(some \union {s}) = [Numbers(some) EXCEPT ![QueryOf[s]] = @ + 1]
<1>1. Numbers(some \union {s}) = Path!Plus(Numbers(some), Numbers({s}))
  <2>1. IsFiniteSet({s}) /\ some \intersect {s} = {}
    BY FS_Singleton
  <2> QED
    BY <2>1, NumbersUnion
<1>2. ASSUME NEW q \in Queries
      PROVE  Numbers({s})[q] = IF q = QueryOf[s] THEN 1 ELSE 0
  <2>1. CASE q = QueryOf[s]
    <3>1. {r \in {s} : QueryOf[r] = q} = {s}
      BY <2>1
    <3> QED
      BY <2>1, <3>1, FS_Singleton DEF Numbers
  <2>2. CASE q # QueryOf[s]
    <3>1. {r \in {s} : QueryOf[r] = q} = {}
      BY <2>2
    <3> QED
      BY <2>2, <3>1, FS_EmptySet DEF Numbers
  <2> QED
    BY <2>1, <2>2
<1>3. \A q \in Queries : Numbers(some)[q] \in Nat
  BY NumbersType DEF Path!Counts
<1>4. DOMAIN Numbers(some) = Queries /\ QueryOf[s] \in Queries
  BY BatchWriterAssumption DEF Numbers
<1>5. ASSUME NEW q \in Queries
      PROVE  Numbers(some)[q] + Numbers({s})[q] =
             [Numbers(some) EXCEPT ![QueryOf[s]] = @ + 1][q]
  BY <1>2, <1>3, <1>4, <1>5
<1> QED
  BY <1>1, <1>4, <1>5 DEF Path!Plus

\* The stored counts and the index that a mapped state shows.
LEMMA TotalsType ==
    ASSUME NEW some, IsFiniteSet(some)
    PROVE  /\ Totals(some) \in Path!Counts
           /\ Positive(Totals(some)) = Path!Indexed(Totals(some))
<1>1. Totals(some) \in Path!Counts
  BY MappingAssumption, NumbersType DEF Totals, Path!Counts
<1> QED
  BY <1>1 DEF Positive, Path!Indexed, Path!Restrict

LEMMA TotalsUnion ==
    ASSUME NEW one, NEW other, IsFiniteSet(one), IsFiniteSet(other),
           one \intersect other = {}
    PROVE  Totals(one \union other) = Path!Plus(Totals(one), Numbers(other))
<1>1. Numbers(one \union other) = Path!Plus(Numbers(one), Numbers(other))
  BY NumbersUnion
<1>2. \A q \in Queries : /\ Loaded[q] \in Nat
                         /\ Numbers(one)[q] \in Nat
                         /\ Numbers(other)[q] \in Nat
  BY MappingAssumption, NumbersType DEF Path!Counts
<1> QED
  BY <1>1, <1>2 DEF Totals, Path!Plus

-----------------------------------------------------------------------------
\* The searches behind each counter of WritePath.
InStore == {s \in Searches : applied[s] > 0}
InBatch == {s \in Searches : job.deltas[s] > 0}
InTrie == IF phase = "down" THEN InStore ELSE {s \in Searches : index[s] > 0}
InLog == accepted \ (InStore \union InBatch)

\* Where the acknowledged searches are at each stage of a flush.
Applying == \E t \in Tasks : pc[t] = "apply"
Committed == \E t \in Tasks : pc[t] = "commit"

Stages ==
    /\ IsFiniteSet(accepted)
    /\ accepted \subseteq Searches
    /\ InStore \subseteq accepted /\ InTrie \subseteq accepted
    /\ Tally(Counted) = Numbers(InStore)
    /\ Tally(InFlight) = Numbers(InBatch)
    /\ Tally(Known) = Numbers(InTrie)
    /\ Tally(Logged) = Numbers(InLog)
    /\ InBatch = {s \in accepted : ~ LockFree /\ \E n \in DOMAIN seg : s \in seg[n]}
    /\ LockFree => FlushStage = "idle" /\ InBatch = {}
    /\ Applying => FlushStage = "apply" /\ Up /\ InBatch \intersect InStore = {}
    /\ Committed => FlushStage = "commit" /\ Up /\ InBatch \subseteq InStore
    /\ ~ Committed => InTrie = InStore
    /\ LockFree \/ Applying \/ Committed
    /\ Applying => ~ LockFree /\ ~ Committed
    /\ Committed => ~ LockFree

PathInv == Inv /\ OnceInv /\ IndexInv /\ LinkInv

\* A batch has no search twice.
LEMMA BatchOnce ==
    ASSUME PathInv, NEW s \in Searches
    PROVE  job.deltas[s] <= 1
<1>1. CASE LockFree
  BY <1>1 DEF PathInv, LinkInv, NoJob, Zero
<1>2. CASE ~ LockFree
  <2>1. PICK t \in Tasks : Holds(t)
    BY <1>2 DEF LockFree, Holds
  <2> QED
    BY <2>1, JobCountsOnce DEF PathInv, Inv
<1> QED
  BY <1>1, <1>2

\* What a recovery would replay is what was acknowledged and is not counted.
LEMMA ReplayIsWaiting ==
    ASSUME PathInv
    PROVE  /\ phase = "recovering" => accepted \subseteq InStore
           /\ phase # "recovering" => Times(ReplayedLines) = (accepted \ InStore) \X {1}
<1> USE DEF PathInv, Inv, Base
<1>1. ASSUME phase = "recovering"
      PROVE  accepted \subseteq InStore
  BY <1>1 DEF InStore, NoLoss, ReplayCounted, ToReplay, TypeOK
<1>2. ASSUME phase # "recovering"
      PROVE  Times(ReplayedLines) = (accepted \ InStore) \X {1}
  <2>1. \A s \in Searches :
          ReplayedLines[s] = IF s \in live \/ \E n \in ToReplay : s \in seg[n] THEN 1 ELSE 0
    BY ReplayCountsOnce
  <2>2. ReplayedLines \in Counts /\ \A s \in Searches : ReplayedLines[s] <= 1
    BY <2>1 DEF ReplayedLines, Counts
  <2>3. \A s \in Searches : s \in live \/ (\E n \in ToReplay : s \in seg[n])
                              <=> s \in accepted /\ ~ (applied[s] > 0)
    BY <1>2 DEF NoLoss, OnceInv, LinesAccepted, ToReplay
  <2>4. {s \in Searches : ReplayedLines[s] > 0} = accepted \ InStore
    BY <2>1, <2>3 DEF InStore, TypeOK
  <2> QED
    BY <2>2, <2>4, TimesOfOnes
<1> QED
  BY <1>1, <1>2

LEMMA StagesHold == PathInv => Stages
<1> SUFFICES ASSUME PathInv PROVE Stages
  OBVIOUS
<1> USE DEF PathInv, Inv, Base
<1>1. IsFiniteSet(accepted) /\ InStore \subseteq accepted /\ accepted \subseteq Searches
  BY DEF LinkInv, InStore, TypeOK, LinesAccepted
<1>2. /\ LockFree \/ Applying \/ Committed
      /\ Applying => ~ LockFree /\ ~ Committed
      /\ Committed => ~ LockFree
  BY DEF LockFree, Applying, Committed, JobExact, Holds
<1>3. InBatch = {s \in accepted : ~ LockFree /\ \E n \in DOMAIN seg : s \in seg[n]}
  <2>1. CASE LockFree
    <3>1. \A s \in Searches : job.deltas[s] = 0
      BY <2>1 DEF LinkInv, NoJob, Zero
    <3> QED
      BY <2>1, <3>1 DEF InBatch
  <2>2. CASE ~ LockFree
    <3>1. PICK t \in Tasks : Holds(t)
      BY <2>2 DEF LockFree, Holds
    <3>2. \A s \in Searches : job.deltas[s] = IF \E n \in DOMAIN seg : s \in seg[n]
                                              THEN 1 ELSE 0
      BY <3>1, JobCountsOnce
    <3> QED
      BY <1>1, <2>2, <3>2 DEF InBatch, LinesAccepted
  <2> QED
    BY <2>1, <2>2
<1>4. LockFree => FlushStage = "idle"
  BY DEF FlushStage, LockFree
<1>5. ASSUME Applying
      PROVE  FlushStage = "apply" /\ Up /\ InBatch \intersect InStore = {}
  <2>1. Up /\ \A t \in Tasks : pc[t] # "commit"
    BY <1>5 DEF Applying, JobExact, Holds
  <2>2. FlushStage = "apply"
    BY <1>5, <2>1 DEF FlushStage, Applying
  <2>3. \A n \in DOMAIN seg : \A s \in seg[n] : applied[s] = 0
    BY <2>1 DEF OnceInv, ToReplay
  <2> QED
    BY <1>3, <2>1, <2>2, <2>3 DEF InStore
<1>6. ASSUME Committed
      PROVE  FlushStage = "commit" /\ Up /\ InBatch \subseteq InStore
  <2>1. /\ Up /\ \A t \in Tasks : pc[t] # "apply"
        /\ \A n \in DOMAIN seg : \A s \in seg[n] : applied[s] > 0
    BY <1>6 DEF Committed, JobExact, Holds
  <2>2. FlushStage = "commit"
    BY <1>6, <2>1 DEF FlushStage, Committed
  <2> QED
    BY <1>1, <1>3, <2>1, <2>2 DEF InStore
<1>7. ~ Committed => InTrie = InStore
  <2>1. ~ Committed /\ phase # "down" => \A s \in Searches : index[s] = applied[s]
    BY DEF Committed, IndexInv, Up, TypeOK, Counts
  <2> QED
    BY <1>1, <2>1 DEF InTrie, InStore
<1>8. InTrie \subseteq accepted
  BY <1>1 DEF InTrie, LinkInv
<1>9. /\ Tally(Counted) = Numbers(InStore)
      /\ Tally(InFlight) = Numbers(InBatch)
      /\ Tally(Known) = Numbers(InTrie)
      /\ Tally(Logged) = Numbers(InLog)
  <2>1. /\ IsFiniteSet(InStore) /\ IsFiniteSet(InBatch)
        /\ IsFiniteSet(InTrie) /\ IsFiniteSet(InLog)
    BY <1>1, <1>3, <1>8, FS_Subset DEF InLog
  <2>2. Counted = InStore \X {1}
    BY TimesOfOnes DEF Counted, InStore, OnceInv, TypeOK
  <2>3. InFlight = InBatch \X {1}
    BY TimesOfOnes, BatchOnce DEF InFlight, InBatch, TypeOK
  <2>4. Known = InTrie \X {1}
    BY <2>2, TimesOfOnes DEF Known, InTrie, LinkInv, TypeOK
  <2>5. Logged = InLog \X {1}
    BY <1>1, <2>3, ReplayIsWaiting DEF Logged, InLog
  <2> QED
    BY <2>1, <2>2, <2>3, <2>4, <2>5, TallyOfOnes
<1> QED
  BY <1>1, <1>2, <1>3, <1>4, <1>5, <1>6, <1>7, <1>8, <1>9 DEF Stages

\* The searches of each stage, and of the index, are finitely many.
LEMMA StagesFinite ==
    ASSUME Stages
    PROVE  /\ IsFiniteSet(InStore) /\ IsFiniteSet(InBatch)
           /\ IsFiniteSet(InLog) /\ IsFiniteSet(InTrie)
BY FS_Subset DEF Stages, InStore, InBatch, InLog, InTrie

\* The counters of a state are those of its stages.
LEMMA Mapped ==
    ASSUME Stages
    PROVE  /\ Tally(Logged) = Numbers(InLog)
           /\ Tally(InFlight) = Numbers(InBatch)
           /\ WithLoaded(Counted) = Totals(InStore)
           /\ WithLoaded(Known) = Totals(InTrie)
BY DEF Stages, WithLoaded, Totals

LEMMA MappedNext ==
    ASSUME Stages'
    PROVE  /\ Tally(Logged)' = Numbers(InLog')
           /\ Tally(InFlight)' = Numbers(InBatch')
           /\ WithLoaded(Counted)' = Totals(InStore')
           /\ Positive(WithLoaded(Known))' = Positive(Totals(InTrie'))
<1>1. /\ Tally(Logged)' = Numbers(InLog)'
      /\ Tally(InFlight)' = Numbers(InBatch)'
      /\ Tally(Counted)' = Numbers(InStore)'
      /\ Tally(Known)' = Numbers(InTrie)'
  BY DEF Stages
<1>2. /\ Numbers(InLog)' = Numbers(InLog')
      /\ Numbers(InBatch)' = Numbers(InBatch')
      /\ Numbers(InStore)' = Numbers(InStore')
      /\ Numbers(InTrie)' = Numbers(InTrie')
  BY DEF Numbers
<1> QED
  BY <1>1, <1>2 DEF WithLoaded, Totals, Positive

-----------------------------------------------------------------------------
(* The steps of the refinement                                             *)

\* A step that leaves every search at its stage is a stutter.
LEMMA SameStages ==
    ASSUME Stages, Stages',
           UNCHANGED <<InStore, InBatch, InLog, InTrie, FlushStage>>
    PROVE  UNCHANGED Path!writeVars
BY Mapped, MappedNext DEF Path!writeVars

\* submit: one more search for its query waits.
LEMMA SubmitLogs ==
    ASSUME PathInv, Stages, Stages', NEW s \in Searches, Submit(s)
    PROVE  Path!LogSearch(QueryOf[s])
<1> USE DEF PathInv, Inv, Base
<1>1. /\ s \notin accepted /\ accepted' = accepted \union {s}
      /\ phase = "serving" /\ UNCHANGED <<applied, seg, job, index, phase>>
  BY DEF Submit
<1>2. \A t \in Tasks : /\ pc'[t] = "apply" <=> pc[t] = "apply"
                       /\ pc'[t] = "commit" <=> pc[t] = "commit"
  BY DEF Submit, FlushDue, TypeOK, Tasks
<1>3. FlushStage' = FlushStage /\ LockFree' = LockFree
  BY <1>2 DEF FlushStage, LockFree
<1>4. applied[s] = 0 /\ index[s] = 0 /\ \A n \in DOMAIN seg : s \notin seg[n]
  BY <1>1 DEF LinesAccepted, LinkInv
<1>5. InStore' = InStore /\ InTrie' = InTrie
  BY <1>1, <1>4 DEF InStore, InTrie
<1>6. InBatch' = InBatch
  BY <1>1, <1>3, <1>4 DEF Stages
<1>7. InLog' = InLog \union {s} /\ s \notin InLog
  BY <1>1, <1>4, <1>5, <1>6 DEF InLog, Stages
<1>8. Numbers(InLog') = [Numbers(InLog) EXCEPT ![QueryOf[s]] = @ + 1]
  BY <1>7, StagesFinite, NumbersOne
<1> QED
  BY <1>3, <1>5, <1>6, <1>8, Mapped, MappedNext DEF Path!LogSearch

\* Taking the lock: all that waits is the batch.
LEMMA FlushTakes ==
    ASSUME PathInv, PathInv', Stages, Stages', NEW t \in Tasks, StartFlush(t)
    PROVE  Path!TakeBatch
<1> USE DEF PathInv, Inv, Base
<1>1. /\ LockFree /\ Up /\ Up' /\ Rotate /\ DOMAIN seg' # {}
      /\ UNCHANGED <<applied, watermark, phase, walOpen, index, accepted>>
  BY DEF StartFlush, Up
<1>2. Applying'
  BY DEF StartFlush, Applying, TypeOK
<1>3. live' = {}
  BY <1>1 DEF Rotate, LinkInv, BufferExact
<1>4. InStore' = InStore /\ InTrie' = InTrie
  BY <1>1 DEF InStore, InTrie
<1>5. ~ LockFree' /\ \A u \in Tasks : pc'[u] # "commit"
  BY <1>2 DEF Stages, Committed
<1>6. \A n \in DOMAIN seg' : \A s \in seg'[n] : applied'[s] = 0
  BY <1>1, <1>5 DEF OnceInv, ToReplay
<1>7. InBatch' = InLog
  <2>1. \A s \in accepted' : applied'[s] > 0 \/ \E n \in DOMAIN seg' : s \in seg'[n]
    BY <1>3 DEF NoLoss, ToReplay
  <2>2. InBatch' = accepted' \ InStore'
    BY <1>5, <1>6, <2>1 DEF Stages, InStore
  <2>3. InLog = accepted \ InStore
    BY <1>1 DEF Stages, InLog
  <2> QED
    BY <1>1, <1>4, <2>2, <2>3
<1>8. InLog' = {}
  BY <1>1, <1>4, <1>7 DEF InLog, Stages
<1>9. Numbers(InLog) # Path!Zero
  <2>1. PICK n \in DOMAIN seg' : TRUE
    BY <1>1
  <2>2. PICK s \in seg'[n] : s \in accepted' /\ s \in Searches
    BY DEF LinesAccepted, TypeOK
  <2>3. s \in InLog /\ QueryOf[s] \in Queries
    BY <1>5, <1>7, <2>2, BatchWriterAssumption DEF Stages
  <2>4. Numbers(InLog)[QueryOf[s]] > 0
    BY <2>3, StagesFinite, NumbersType
  <2> QED
    BY <2>3, <2>4 DEF Path!Zero
<1>10. FlushStage = "idle" /\ FlushStage' = "apply"
  BY <1>1, <1>2 DEF Stages
<1> QED
  BY <1>4, <1>7, <1>8, <1>9, <1>10, Mapped, MappedNext, NumbersEmpty DEF Path!TakeBatch

\* The commit adds the batch to the stored counts.
LEMMA CommitStores ==
    ASSUME PathInv, Stages, Stages', NEW t \in Tasks, CommitBatch(t)
    PROVE  Path!CountBatch
<1> USE DEF PathInv, Inv, Base
<1>1. Applying /\ UNCHANGED <<seg, phase, job, index, accepted>>
  BY DEF CommitBatch, Applying
<1>2. Committed'
  BY DEF CommitBatch, Committed, TypeOK
<1>3. InBatch' = InBatch
  BY <1>1, <1>2 DEF Stages
<1>4. InStore' = InStore \union InBatch
  <2>1. Holds(t)
    BY DEF CommitBatch, Holds
  <2>2. \A s \in Searches : applied'[s] = applied[s] + job.deltas[s]
    BY DEF CommitBatch, Plus
  <2>3. \A s \in Searches : applied[s] \in Nat /\ job.deltas[s] \in Nat
    BY DEF TypeOK, Counts
  <2> QED
    BY <1>1, <2>2, <2>3 DEF InStore, InBatch
<1>5. InLog' = InLog
  BY <1>1, <1>3, <1>4 DEF InLog
<1>6. InTrie' = InTrie
  BY <1>1 DEF InTrie, Stages, Up
<1>7. Totals(InStore') = Path!Plus(Totals(InStore), Numbers(InBatch))
  BY <1>1, <1>4, StagesFinite, TotalsUnion DEF Stages
<1>8. FlushStage = "apply" /\ FlushStage' = "commit"
  BY <1>1, <1>2 DEF Stages
<1> QED
  BY <1>3, <1>5, <1>6, <1>7, <1>8, Mapped, MappedNext DEF Path!CountBatch

\* Whatever ends a flush before its commit gives the batch back.
LEMMA FailureGivesBack ==
    ASSUME Stages, Stages', Applying, LockFree',
           UNCHANGED <<applied, accepted>>
    PROVE  Path!GiveBack
<1>1. InStore' = InStore /\ InTrie' = InTrie
  BY DEF InStore, Stages
<1>2. InBatch' = {}
  BY DEF Stages
<1>3. InLog' = InLog \union InBatch
  BY <1>1, <1>2 DEF InLog, Stages
<1>4. InLog \intersect InBatch = {}
  BY DEF InLog
<1>5. Numbers(InLog') = Path!Plus(Numbers(InLog), Numbers(InBatch))
  BY <1>3, <1>4, StagesFinite, NumbersUnion
<1>6. FlushStage = "apply" /\ FlushStage' = "idle"
  BY DEF Stages
<1> QED
  BY <1>1, <1>2, <1>5, <1>6, Mapped, MappedNext, NumbersEmpty DEF Path!GiveBack

\* The stored counts are those of the index with the batch's queries replaced.
LEMMA IndexAfterBatch ==
    ASSUME PathInv, Stages, Committed
    PROVE  Positive(Totals(InStore)) = Path!Upserted
<1> USE DEF PathInv, Inv, Base
<1> DEFINE batched(q) == \E s \in InBatch : QueryOf[s] = q
<1>1. /\ IsFiniteSet(InStore) /\ IsFiniteSet(InTrie) /\ IsFiniteSet(InBatch)
      /\ InBatch \subseteq InStore /\ Up
  BY StagesFinite DEF Stages
<1>2. \A q \in Queries : q \in Path!Changed <=> batched(q)
  BY <1>1, Mapped, NumbersType DEF Path!Changed
<1>3. Path!Changed \subseteq Queries
  BY DEF Path!Changed
<1>4. ASSUME NEW q \in Queries, ~ batched(q)
      PROVE  Totals(InTrie)[q] = Totals(InStore)[q]
  <2>1. q \notin Changed
    BY <1>4 DEF Changed, InBatch
  <2>2. \A s \in Searches : QueryOf[s] = q => index[s] = applied[s]
    BY <1>1, <2>1 DEF IndexInv
  <2>3. {s \in InTrie : QueryOf[s] = q} = {s \in InStore : QueryOf[s] = q}
    BY <1>1, <2>2 DEF InTrie, InStore, Up
  <2> QED
    BY <2>3 DEF Totals, Numbers
<1>5. ASSUME NEW q \in Queries, batched(q)
      PROVE  Totals(InStore)[q] > 0
  <2>1. Numbers(InStore)[q] > 0 /\ Numbers(InStore)[q] \in Nat
    BY <1>1, <1>5, NumbersType DEF Path!Counts
  <2> QED
    BY <2>1, MappingAssumption DEF Totals
<1>6. DOMAIN Positive(Totals(InStore)) =
        DOMAIN Positive(Totals(InTrie)) \union Path!Changed
  <2> HIDE DEF batched
  <2>1. \A q \in Queries : q \in DOMAIN Positive(Totals(InStore)) <=>
            q \in DOMAIN Positive(Totals(InTrie)) \/ q \in Path!Changed
    BY <1>2, <1>4, <1>5 DEF Positive
  <2> QED
    BY <1>3, <2>1 DEF Positive
<1>7. ASSUME NEW q \in DOMAIN Positive(Totals(InStore))
      PROVE  Positive(Totals(InStore))[q] =
                 IF q \in Path!Changed THEN Totals(InStore)[q]
                                       ELSE Positive(Totals(InTrie))[q]
  <2> HIDE DEF batched
  <2> QED
    BY <1>2, <1>4, <1>6, <1>7 DEF Positive
<1> QED
  BY <1>6, <1>7, Mapped DEF Path!Upserted, Positive

\* The end of a committed flush, and a crash that cuts it short, publish the
\* stored counts: the next process loads what _post_apply would have put in.
LEMMA EndPublishes ==
    ASSUME PathInv, Stages, Stages', Committed, LockFree',
           UNCHANGED <<applied, accepted>>
    PROVE  Path!Publish
<1>1. InStore' = InStore /\ InTrie' = InStore
  BY DEF InStore, Stages
<1>2. InBatch' = {} /\ InLog' = InLog
  BY <1>1 DEF InLog, Stages
<1>3. FlushStage = "commit" /\ FlushStage' = "idle"
  BY DEF Stages
<1> QED
  BY <1>1, <1>2, <1>3, IndexAfterBatch, Mapped, MappedNext, NumbersEmpty DEF Path!Publish

\* The next process counts all that was acknowledged, and loads the counts.
LEMMA RecoverReloads ==
    ASSUME PathInv, Stages, Stages', Recover
    PROVE  Path!Reload
<1> USE DEF PathInv, Inv, Base
<1>1. /\ phase = "down" /\ phase' = "recovering"
      /\ UNCHANGED <<accepted, pc>>
  BY DEF Recover
<1>2. LockFree /\ LockFree'
  BY <1>1 DEF LockFree, JobExact, Holds, Up
<1>3. \A s \in accepted : applied'[s] > 0
  BY ReplayCountsOnce DEF Recover, Plus, NoLoss, TypeOK, Counts
<1>4. InStore' = accepted /\ InTrie' = accepted
  BY <1>1, <1>2, <1>3 DEF InStore, Stages
<1>5. InBatch' = {} /\ InLog' = {}
  BY <1>1, <1>2, <1>4 DEF Stages, InLog
<1>6. InBatch = {} /\ InStore \union InLog = accepted
      /\ InStore \intersect InLog = {} /\ FlushStage = "idle" /\ FlushStage' = "idle"
  BY <1>2 DEF Stages, InLog
<1>7. Totals(accepted) = Path!Plus(Totals(InStore), Numbers(InLog))
  BY <1>6, StagesFinite, TotalsUnion
<1>8. Path!Plus(Numbers(InLog), Numbers(InBatch)) = Numbers(InLog)
  <2>1. InLog \union {} = InLog /\ InLog \intersect {} = {} /\ IsFiniteSet({})
    BY FS_EmptySet
  <2> QED
    BY <1>6, <2>1, StagesFinite, NumbersUnion
<1>9. Path!Recovered = Totals(accepted)
  BY <1>6, <1>7, <1>8, Mapped DEF Path!Recovered
<1>10. Positive(Totals(accepted)) = Path!Indexed(Totals(accepted))
  BY TotalsType DEF Stages
<1> QED
  BY <1>4, <1>5, <1>6, <1>9, <1>10, Mapped, MappedNext, NumbersEmpty DEF Path!Reload

LEMMA PathStep ==
    ASSUME PathInv, PathInv', Stages, Stages', Faults \subseteq MaskedFaults,
           [Next]_vars
    PROVE  [Path!WriteNext]_(Path!writeVars)
<1> USE DEF PathInv, Inv, Base
<1>1. ASSUME NEW s \in Searches, Submit(s) PROVE Path!WriteNext
  BY <1>1, SubmitLogs, BatchWriterAssumption DEF Path!WriteNext
<1>2. ASSUME NEW t \in Tasks, StartFlush(t) PROVE Path!WriteNext
  BY <1>2, FlushTakes DEF Path!WriteNext
<1>3. ASSUME NEW t \in Tasks, CommitBatch(t) PROVE Path!WriteNext
  BY <1>3, CommitStores DEF Path!WriteNext
<1>4. ASSUME NEW t \in Tasks, ApplyError(t) PROVE Path!WriteNext
  <2>1. Applying /\ LockFree'
    BY <1>4, ReturnedFacts DEF ApplyError, Applying, Stages, LockFree, JobExact, Holds
  <2>2. UNCHANGED <<applied, accepted>>
    BY <1>4 DEF ApplyError, disk
  <2>3. Path!GiveBack
    BY <2>1, <2>2, FailureGivesBack
  <2> QED
    BY <2>3 DEF Path!WriteNext
<1>5. ASSUME NEW t \in Tasks, FinishFlush(t) PROVE Path!WriteNext
  <2>1. Committed /\ LockFree'
    BY <1>5, ReturnedFacts DEF FinishFlush, Committed, LockFree, JobExact, Holds
  <2> QED
    BY <1>5, <2>1, EndPublishes DEF FinishFlush, Path!WriteNext
<1>6. CASE Crash
  <2>1. LockFree' /\ UNCHANGED <<applied, accepted>>
    BY <1>6 DEF Crash, MemoryLost, AllOff, LockFree
  <2>2. CASE Applying
    BY <2>1, <2>2, FailureGivesBack DEF Stages, Path!WriteNext
  <2>3. CASE Committed
    BY <2>1, <2>3, EndPublishes DEF Path!WriteNext
  <2>4. CASE LockFree
    BY <2>1, <2>4, SameStages DEF Stages, InStore, InLog
  <2> QED
    BY <2>2, <2>3, <2>4 DEF Stages
<1>7. CASE Recover
  BY <1>7, RecoverReloads DEF Path!WriteNext
<1>8. CASE StopDone \/ FinishRecovery
  <2>1. UNCHANGED <<applied, accepted>>
    BY <1>8 DEF StopDone, FinishRecovery, disk
  <2>2. LockFree /\ LockFree'
    <3>1. CASE StopDone
      BY <3>1 DEF StopDone, MemoryLost, AllOff, LinkInv, LockFree, Tasks
    <3>2. CASE FinishRecovery
      BY <3>2 DEF FinishRecovery, LockFree, JobExact, Holds, Up, Tasks, TypeOK
    <3> QED
      BY <1>8, <3>1, <3>2
  <2> QED
    BY <2>1, <2>2, SameStages DEF Stages, InStore, InLog
<1>9. CASE \/ Tick \/ Discard \/ BeginStop \/ StopFlush \/ UNCHANGED vars
           \/ \E t \in Tasks : FlushNothing(t)
  <2>1. /\ UNCHANGED <<applied, seg, job, index, accepted>>
        /\ phase = "down" <=> phase' = "down"
    BY <1>9 DEF Tick, Discard, BeginStop, StopFlush, FlushNothing, vars, disk, Up
  <2>2. \A t \in Tasks : /\ pc'[t] = "apply" <=> pc[t] = "apply"
                         /\ pc'[t] = "commit" <=> pc[t] = "commit"
    <3>1. CASE \E t \in Tasks : FlushNothing(t)
      BY <3>1, ReturnedFacts DEF FlushNothing
    <3>2. CASE Tick \/ Discard \/ BeginStop \/ StopFlush \/ UNCHANGED vars
      BY <3>2 DEF Tick, Discard, BeginStop, StopFlush, vars, TypeOK, Tasks
    <3> QED
      BY <1>9, <3>1, <3>2
  <2>3. FlushStage' = FlushStage
    BY <2>2 DEF FlushStage
  <2>4. InStore' = InStore /\ InTrie' = InTrie /\ InBatch' = InBatch
    BY <2>1 DEF InStore, InTrie, InBatch
  <2>5. InLog' = InLog
    BY <2>1, <2>4 DEF InLog
  <2> QED
    BY <2>3, <2>4, <2>5, SameStages
<1>10. ~ \E t \in Tasks : RotateError(t)
  BY DEF RotateError, Fault, MaskedFaults
<1>11. Faults \subseteq HarmlessFaults
  BY DEF HarmlessFaults
<1> QED
  BY <1>1, <1>2, <1>3, <1>4, <1>5, <1>6, <1>7, <1>8, <1>9, <1>10, <1>11,
     HarmlessStep

LEMMA PathInit ==
    ASSUME Init, Stages
    PROVE  Path!WriteInit
<1>1. InStore = {} /\ InBatch = {} /\ InLog = {} /\ InTrie = {}
  BY DEF Init, InStore, InBatch, InLog, InTrie, NoJob, Zero
<1>2. FlushStage = "idle"
  BY DEF Init, FlushStage, AllOff
<1>3. Totals({}) = Loaded
  <2>1. \A q \in Queries : Loaded[q] + Numbers({})[q] = Loaded[q]
    BY MappingAssumption, NumbersEmpty DEF Path!Zero
  <2> QED
    BY <2>1, MappingAssumption DEF Totals
<1>4. Positive(Loaded) = Path!Indexed(Loaded)
  BY <1>3, TotalsType, FS_EmptySet
<1> QED
  BY <1>1, <1>2, <1>3, <1>4, Mapped, NumbersEmpty DEF Path!WriteInit

\* When only crashes while serving and failed transactions happen, the log,
\* the tasks and the restarts implement the counters of WritePath.
THEOREM ImplementsPath ==
    ASSUME Faults \subseteq MaskedFaults
    PROVE  Spec => ImplementsWritePath
<1>1. PathInv /\ [Next]_vars /\ Inv' => PathInv'
  <2>1. Faults \subseteq HarmlessFaults
    BY DEF HarmlessFaults
  <2> QED
    BY <2>1, OnceStep, IndexStep, LinkStep DEF PathInv, Inv
<1>2. PathInv /\ PathInv' /\ Stages /\ Stages' /\ [Next]_vars
        => [Path!WriteNext]_(Path!writeVars)
  BY PathStep
<1>3. Init => OnceInv /\ IndexInv /\ LinkInv
  BY InitOnce, InitIndex, InitLink
<1>4. Inv /\ OnceInv /\ IndexInv /\ LinkInv => PathInv
  BY DEF PathInv
<1>5. Init /\ Stages => Path!WriteInit
  BY PathInit
<1> QED
  BY <1>1, <1>2, <1>3, <1>4, <1>5, Invariance, StagesHold, PTL
     DEF Spec, ImplementsWritePath, Path!WriteSpec
=============================================================================
