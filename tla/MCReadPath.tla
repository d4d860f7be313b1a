----------------------------- MODULE MCReadPath -----------------------------
(***************************************************************************)
(* ReadPath for TLC: two queries under one short prefix, one of them       *)
(* unknown to the dataset, and one candidate per node so that a flush can  *)
(* change which query is shown, or a trending one push the candidate out.  *)
(***************************************************************************)
EXTENDS ReadPath

MCRank == [q \in Queries |-> CASE q = "ipad"   -> 1
                               [] q = "iphone" -> 2]
MCMatches == {<<"ip", "ipad">>, <<"ip", "iphone">>, <<"iph", "iphone">>}
MCNodeOf == [k \in Keys |-> IF k = <<"iph", "trending">> THEN "cache-1"
                                                       ELSE "cache-0"]
MCLoaded == [q \in Queries |-> IF q = "ipad" THEN 1 ELSE 0]
=============================================================================
