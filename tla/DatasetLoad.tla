---------------------------- MODULE DatasetLoad ----------------------------
(***************************************************************************)
(* scripts/load_dataset.py beside the durable write path: while the server *)
(* is down, the loader removes the log of its searches, replaces the table *)
(* by a fresh dataset and resets the watermark.  These are separate steps  *)
(* on files and two transactions on the database, and the loader may die   *)
(* between any two of them; the server then recovers from what is there.   *)
(*                                                                         *)
(* A loader beside a running server is left out: nothing in the code is    *)
(* made for it.                                                            *)
(***************************************************************************)
EXTENDS BatchWriter

CONSTANT MaxLoads    \* bound: how often the loader is run

ASSUME DatasetLoadAssumption == MaxLoads \in Nat

VARIABLES
    step,            \* what the loader does next
    doomed,          \* `stale` of main: the segments still to be removed
    loads,           \* bookkeeping: how often the loader was started
    old,             \* bookkeeping: the searches accepted before the last load
    gone             \* bookkeeping: those whose counts bulk_replace dropped

loadVars == <<step, doomed, loads, old, gone>>
allVars == <<vars, loadVars>>

LoadInit == /\ Init
            /\ step = "none"
            /\ doomed = {}
            /\ loads = 0
            /\ old = {}
            /\ gone = {}

----------------------------------------------------------------------------
BugForgetsSegments == {}

\* The glob over the segment files.
StaleSegments == DOMAIN seg

BugForgetsLive ==
    /\ phase = "down" /\ step = "none" /\ loads < MaxLoads
    /\ loads' = loads + 1
    /\ doomed' = StaleSegments
    /\ old' = accepted
    /\ step' = "remove"
    /\ UNCHANGED <<disk, memory, accepted, faults, gone>>

BugResetFirst ==
    /\ phase = "down" /\ step = "none" /\ loads < MaxLoads
    /\ loads' = loads + 1
    /\ live' = {}
    /\ watermark' = 0
    /\ doomed' = StaleSegments
    /\ old' = accepted
    /\ step' = "remove"
    /\ UNCHANGED <<applied, seg, memory, accepted, faults, gone>>

\* The loader has its items and lists the stale files; the live log is the
\* first of them to go.
RemoveLive ==
    /\ phase = "down"
    /\ step = "none"
    /\ loads < MaxLoads
    /\ loads' = loads + 1
    /\ live' = {}
    /\ doomed' = StaleSegments
    /\ old' = accepted
    /\ step' = "remove"
    /\ UNCHANGED <<applied, watermark, seg, memory, accepted, faults, gone>>

\* The segments go one by one, in the order of the glob, which is any order.
RemoveSegment(n) ==
    /\ step = "remove"
    /\ n \in doomed
    /\ seg' = Keeping(Nat \ {n})
    /\ doomed' = doomed \ {n}
    /\ UNCHANGED <<applied, watermark, live, memory, accepted, faults, step,
                   loads, old, gone>>

\* bulk_replace: the old rows and the searches counted in them are gone, the
\* new rows are there, in one transaction.
BulkReplace ==
    /\ step = "remove"
    /\ doomed = {}
    /\ applied' = Zero
    /\ gone' = accepted
    /\ step' = "reset"
    /\ UNCHANGED <<watermark, live, seg, memory, accepted, faults, doomed,
                   loads, old>>

\* set_meta("last_flush_seq", "0"), a transaction of its own.
ResetWatermark ==
    /\ step = "reset"
    /\ watermark' = 0
    /\ step' = "none"
    /\ UNCHANGED <<applied, live, seg, memory, accepted, faults, doomed, loads,
                   old, gone>>

\* The loader is killed, or a statement raises and its transaction is undone.
LoaderDies ==
    /\ step # "none"
    /\ step' = "none"
    /\ doomed' = {}
    /\ UNCHANGED <<vars, loads, old, gone>>

\* The server starts only when no loader runs.
ServerStep == /\ phase = "down" => step = "none"
              /\ Next
              /\ UNCHANGED loadVars

LoadNext == \/ RemoveLive
            \/ \E n \in doomed : RemoveSegment(n)
            \/ BulkReplace
            \/ ResetWatermark
            \/ LoaderDies
            \/ ServerStep

LoadSpec == LoadInit /\ [][LoadNext]_allVars

----------------------------------------------------------------------------
(* Properties                                                              *)

\* The loader removes only files that are there, while the server is down,
\* and what it dropped was accepted before it came.
LoadTypeOK ==
    /\ TypeOK
    /\ step \in {"none", "remove", "reset"}
    /\ doomed \subseteq DOMAIN seg
    /\ step # "none" => phase = "down" /\ live = {}
    /\ gone \subseteq old
    /\ old \subseteq accepted
    /\ loads \in 0 .. MaxLoads

\* "So the fresh dataset isn't polluted by old buffered writes": a search that
\* was accepted before the table was replaced is not counted in the new one,
\* and no file could bring it back, wherever loader or server died meanwhile.
FreshNotPolluted ==
    \A s \in gone : /\ applied[s] = 0
                    /\ s \notin live
                    /\ \A n \in DOMAIN seg : s \notin seg[n]

\* No loss after a load: the searches accepted since are counted or will be
\* replayed, with the watermark reset or, if the loader died before, not.
NoLossSinceLoad ==
    \A s \in accepted \ old : \/ applied[s] > 0
                              \/ s \in live
                              \/ \E n \in ToReplay : s \in seg[n]
============================================================================
