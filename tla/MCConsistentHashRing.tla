------------------------ MODULE MCConsistentHashRing ------------------------
(***************************************************************************)
(* ConsistentHashRing for TLC: three nodes with two points each on a ring  *)
(* of eight.  The labels of each node collide with those of the next, and  *)
(* some nudged ones collide again, so a ring depends on the order in which *)
(* its nodes came.  There is a key at every point.                         *)
(***************************************************************************)
EXTENDS ConsistentHashRing

MCKeys == 0 .. 7
MCKeyHash == [k \in MCKeys |-> k]
MCHash == [l \in Labels |->
    LET first == CASE l.node = "cache-0" -> 5 * l.replica + 1
                   [] l.node = "cache-1" -> 3 * l.replica + 1
                   [] l.node = "cache-2" -> 2 * l.replica + 4
    IN  (first + 3 * l.nudges) % 8]
============================================================================
