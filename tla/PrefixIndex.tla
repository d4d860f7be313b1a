---------------------------- MODULE PrefixIndex ----------------------------
(***************************************************************************)
(* The index of app/trie.py: every trie node keeps the K best queries of   *)
(* its subtree, so that a lookup need not walk it.                         *)
(*                                                                         *)
(* The lists are made once from the stored counts, bottom up, each from    *)
(* the lists of the children; later a flush changes counts one query at a  *)
(* time, and only the lists on the path of that query are touched, each    *)
(* by looking at its own entries.  That this keeps all of them right is    *)
(* what there is to show.                                                  *)
(*                                                                         *)
(* A node is named by its prefix, and a query by the node it ends at.      *)
(* Every list operation of the code ends in a sort by a total order, so a  *)
(* list is kept as the counts of its queries; nodes that the code creates  *)
(* only when a query needs them are there from the start, empty.           *)
(***************************************************************************)
EXTENDS Naturals, FiniteSets, Functions

CONSTANTS
    Nodes,           \* the trie nodes, each a prefix
    Queries,         \* the queries, each the node of its last letter
    Children,        \* the nodes one letter below a node
    Under,           \* the queries that start with the prefix of a node
    Rank,            \* alphabetical position, the tie-break of _rank_key
    K,               \* TYPEAHEAD_TRIE_K, entries a node retains
    Loaded           \* the tables the store may hold at the first start

\* A table, or a list: the counts of some queries.
IsTable(t) == DOMAIN t \subseteq Queries /\ t \in [DOMAIN t -> Nat]

ASSUME PrefixIndexAssumption ==
    /\ Queries \subseteq Nodes
    /\ IsFiniteSet(Queries)
    /\ Children \in [Nodes -> SUBSET Nodes]
    /\ Under \in [Nodes -> SUBSET Queries]
    /\ \A p \in Nodes : Under[p] = (Queries \intersect {p})
                                   \union UNION {Under[c] : c \in Children[p]}
    /\ Rank \in [Queries -> Nat]
    /\ \A q, r \in Queries : Rank[q] = Rank[r] => q = r
    /\ K \in Nat \ {0}
    /\ \A table \in Loaded : IsTable(table)

VARIABLES
    word,            \* the queries that end at a node, with their counts
    top,             \* the list of each node
    built,           \* the nodes whose list the bulk load has made
    todo             \* the new counts that _post_apply has still to upsert

indexVars == <<word, top, built, todo>>

None == [q \in {} |-> 0]

Init == /\ word \in Loaded
        /\ top = [p \in Nodes |-> None]
        /\ built = {}
        /\ todo = None

----------------------------------------------------------------------------
(* Order                                                                   *)

\* _rank_key: q with count c comes before r with count d.
Before(q, c, r, d) == \/ c > d
                      \/ c = d /\ Rank[q] < Rank[r]

\* The entries of a list that come before the one of q.
Ahead(list, q) == {r \in DOMAIN list : Before(r, list[r], q, list[q])}

BugCutTooLong(list) ==
    Restrict(list, {q \in DOMAIN list : Cardinality(Ahead(list, q)) <= K})

\* sort by _rank_key, then [:capacity].
Cut(list) ==
    Restrict(list, {q \in DOMAIN list : Cardinality(Ahead(list, q)) < K})

----------------------------------------------------------------------------
(* Bulk load                                                               *)

\* A node's own query and the lists of its children, which agree on counts.
Candidates(p) ==
    Restrict(word, (DOMAIN word \intersect {p})
                   \union UNION {DOMAIN top[c] : c \in Children[p]})

\* _build_top, post-order: the list of a node, once its children have theirs.
BuildTop(p) ==
    /\ p \notin built
    /\ Children[p] \subseteq built
    /\ top' = [top EXCEPT ![p] = Cut(Candidates(p))]
    /\ built' = built \union {p}
    /\ UNCHANGED <<word, todo>>

Ready == built = Nodes

\* A new process: all terminals are inserted, and no list is there yet.
Reload(table) ==
    /\ word' = table
    /\ top' = [p \in Nodes |-> None]
    /\ built' = {}
    /\ todo' = None

----------------------------------------------------------------------------
(* Live updates                                                            *)

With(list, q, c) ==
    [r \in DOMAIN list \union {q} |-> IF r = q THEN c ELSE list[r]]

\* top[-1], the last entry of a sorted list.
Worst(list) ==
    CHOOSE w \in DOMAIN list :
        \A r \in DOMAIN list \ {w} : Before(r, list[r], w, list[w])

BugKeepWorst(list, q, c) ==
    CASE q \in DOMAIN list           -> With(list, q, c)
      [] /\ q \notin DOMAIN list
         /\ Cardinality(DOMAIN list) < K -> With(list, q, c)
      [] OTHER                       -> list

\* _upsert_node: update the entry, or append one if there is room, or put it
\* in the place of the worst if it beats that.
UpsertNode(list, q, c) ==
    LET full == Cardinality(DOMAIN list) >= K
        w == Worst(list)
    IN  CASE q \in DOMAIN list \/ ~ full -> With(list, q, c)
          [] q \notin DOMAIN list /\ full /\ Before(q, c, w, list[w])
                -> With(Restrict(list, DOMAIN list \ {w}), q, c)
          [] OTHER -> list

BugUpsertKnownOnly(q) ==
    /\ Ready
    /\ q \in DOMAIN todo
    /\ word' = IF q \in DOMAIN word THEN With(word, q, todo[q]) ELSE word
    /\ top' = [p \in Nodes |-> IF q \in Under[p] \intersect DOMAIN word
                               THEN UpsertNode(top[p], q, todo[q]) ELSE top[p]]
    /\ todo' = Restrict(todo, DOMAIN todo \ {q})
    /\ UNCHANGED built

\* upsert: the count at the node where q ends, then every list on its path.
Upsert(q) ==
    /\ Ready
    /\ q \in DOMAIN todo
    /\ word' = With(word, q, todo[q])
    /\ top' = [p \in Nodes |-> IF q \in Under[p]
                               THEN UpsertNode(top[p], q, todo[q]) ELSE top[p]]
    /\ todo' = Restrict(todo, DOMAIN todo \ {q})
    /\ UNCHANGED built

\* get_count(q) or 0.
CountOf(q) == IF q \in DOMAIN word THEN word[q] ELSE 0

\* A flush committed and hands over the new counts; "counts only increase".
PostApply(counts) ==
    /\ Ready
    /\ todo = None
    /\ \A q \in DOMAIN counts : counts[q] >= CountOf(q)
    /\ todo' = counts
    /\ UNCHANGED <<word, top, built>>

Next == \/ \E p \in Nodes : BuildTop(p)
        \/ \E q \in Queries : Upsert(q)
        \/ \E some \in SUBSET Queries : \E table \in [some -> Nat] :
              PostApply(table) \/ Reload(table)

Spec == Init /\ [][Next]_indexVars

----------------------------------------------------------------------------
(* Properties                                                              *)

\* "Correct for monotonically increasing counts": the list of every node is
\* what sorting and cutting all the queries below it would give, also while a
\* batch is half upserted.
ListsExact ==
    \A p \in built : top[p] = Cut(Restrict(word, DOMAIN word \intersect Under[p]))
============================================================================
