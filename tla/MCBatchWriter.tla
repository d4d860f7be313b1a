--------------------------- MODULE MCBatchWriter ---------------------------
(***************************************************************************)
(* BatchWriter for TLC: four searches for three queries, the first one     *)
(* searched again by the third request (so that a batch aggregates).       *)
(***************************************************************************)
EXTENDS BatchWriter

MCSearches == 1 .. 4
MCQueryOf == [s \in MCSearches |-> CASE s \in {1, 3} -> "iphone"
                                     [] s = 2        -> "ipad"
                                     [] s = 4        -> "imac"]
============================================================================
