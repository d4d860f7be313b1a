----------------------------- MODULE MCRanking -----------------------------
(***************************************************************************)
(* Ranking for TLC: three queries, one of them a prefix of the others, so  *)
(* that inner nodes have a query of their own and lists of two entries     *)
(* are too short for all; scores are tracked for two of the three.         *)
(***************************************************************************)
EXTENDS Ranking

MCNodes == {"", "i", "ip", "im"}
MCQueries == {"i", "ip", "im"}
MCChildren == [p \in MCNodes |-> CASE p = ""  -> {"i"}
                                   [] p = "i" -> {"ip", "im"}
                                   [] OTHER   -> {}]
MCUnder == [p \in MCNodes |-> IF p \in {"", "i"} THEN MCQueries ELSE {p}]
MCRank == [q \in MCQueries |-> CASE q = "i"  -> 1
                                 [] q = "im" -> 2
                                 [] q = "ip" -> 3]
MCLoaded == UNION {[some -> 1 .. 2] : some \in SUBSET MCQueries}
============================================================================
