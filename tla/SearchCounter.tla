--------------------------- MODULE SearchCounter ---------------------------
(***************************************************************************)
(* What the write path promises to the people who search: every accepted   *)
(* search is counted once, in arrival order, whatever happens in between.  *)
(* There is no buffer, no log and no crash here; BatchWriter implements it.*)
(***************************************************************************)
EXTENDS Naturals

CONSTANT Searches    \* the numbers of the /search requests, in arrival order

VARIABLES
    accepted,        \* the searches acknowledged to a client
    count            \* how many times each search is in the stored counts

vars == <<accepted, count>>

Init == /\ accepted = {}
        /\ count = [s \in Searches |-> 0]

\* The service answers request s with "recorded".
Accept(s) == /\ s \notin accepted
             /\ accepted' = accepted \union {s}
             /\ UNCHANGED count

Waiting == {s \in accepted : count[s] = 0}

\* One transaction counts a batch of waiting searches, the oldest ones first.
CountBatch(batch) ==
    /\ batch # {}
    /\ \A s \in batch, t \in Waiting \ batch : s < t
    /\ count' = [s \in Searches |-> IF s \in batch THEN 1 ELSE count[s]]
    /\ UNCHANGED accepted

Next == \/ \E s \in Searches : Accept(s)
        \/ \E batch \in SUBSET Waiting : CountBatch(batch)

Spec == Init /\ [][Next]_vars
============================================================================
