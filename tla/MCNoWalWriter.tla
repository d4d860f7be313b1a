--------------------------- MODULE MCNoWalWriter ---------------------------
(***************************************************************************)
(* NoWalWriter for TLC: three searches, two of them for the same query, so *)
(* that a batch aggregates and a second one fills while it is applied.     *)
(***************************************************************************)
EXTENDS NoWalWriter

MCSearches == 1 .. 3
MCQueryOf == [s \in MCSearches |-> IF s = 2 THEN "ipad" ELSE "iphone"]
============================================================================
