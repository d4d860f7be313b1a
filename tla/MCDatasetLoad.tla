--------------------------- MODULE MCDatasetLoad ---------------------------
(***************************************************************************)
(* DatasetLoad for TLC: three searches for two queries, of which some come *)
(* before a load and some after it.                                        *)
(***************************************************************************)
EXTENDS DatasetLoad

MCSearches == 1 .. 3
MCQueryOf == [s \in MCSearches |-> IF s = 2 THEN "ipad" ELSE "iphone"]
============================================================================
