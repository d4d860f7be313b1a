------------------------- MODULE MCDistributedCache -------------------------
(***************************************************************************)
(* DistributedCache for TLC: three keys on each of two nodes with room for *)
(* two: the variants of a prefix are spread over the nodes.                *)
(***************************************************************************)
EXTENDS DistributedCache

MCNodeOf == [k \in Keys |-> IF k \in {<<"i", "trending">>, <<"ip", "basic">>,
                                      <<"iph", "basic">>}
                            THEN "cache-1" ELSE "cache-0"]
============================================================================
