---------------------------- MODULE MCWritePath ----------------------------
(***************************************************************************)
(* WritePathMapping for TLC: the searches of MCBatchWriter, on top of a    *)
(* dataset that knows one of the three queries.                            *)
(***************************************************************************)
EXTENDS MCBatchWriter, WritePathMapping

MCLoaded == [q \in Queries |-> IF q = "ipad" THEN 1 ELSE 0]
============================================================================
