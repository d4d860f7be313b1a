------------------------- MODULE ConsistentHashRing -------------------------
(***************************************************************************)
(* The ring that assigns cache keys to cache nodes (app/consistent_hash.py)*)
(* with its virtual nodes.  A key belongs to the first point clockwise of  *)
(* its hash.  The sorted parallel arrays of the code are the map from each *)
(* point to its label, which names its node.                               *)
(*                                                                         *)
(* The hash is any function, so labels may collide; the code then appends  *)
(* a character to the later label and hashes again.  A node joins one      *)
(* replica at a time; nothing else runs in between, but that each of these *)
(* steps moves few keys shows that all of them together do.                *)
(***************************************************************************)
EXTENDS Naturals, FiniteSets, FiniteSetsExt, Functions

CONSTANTS
    NodeIds,         \* the cache nodes that may join
    VNodes,          \* TYPEAHEAD_CACHE_VNODES, points per node
    Points,          \* the hash space
    Nudges,          \* bound: how often a label may be nudged
    Hash,            \* label -> point
    Keys,            \* the cache keys
    KeyHash          \* key -> point

\* "node#replica" with so many "~" appended.
Labels == [node : NodeIds, replica : 0 .. VNodes - 1, nudges : 0 .. Nudges]

Nobody == [joining |-> {}, next |-> 0]

ASSUME RingAssumption ==
    /\ IsFiniteSet(Points) /\ Points \subseteq Nat
    /\ VNodes \in Nat
    /\ Nudges \in Nat
    /\ Hash \in [Labels -> Points]
    /\ KeyHash \in [Keys -> Points]

VARIABLES
    nodes,           \* _nodes
    label,           \* the points of the ring with their labels
    join             \* the node that is being added and its next replica

vars == <<nodes, label, join>>

Init == /\ nodes = {}
        /\ label = [h \in {} |-> 0]
        /\ join = Nobody

Idle == join = Nobody

\* add_node up to its loop; a node that is there already is left alone.
AddNode(n) ==
    /\ Idle
    /\ n \notin nodes
    /\ nodes' = nodes \union {n}
    /\ join' = [joining |-> {n}, next |-> 0]
    /\ UNCHANGED label

LabelOf(n, r, nudges) == [node |-> n, replica |-> r, nudges |-> nudges]

BugNoNudge(n, r) == {LabelOf(n, r, 0)}

\* "while h in _vnode_labels": the first of the nudged labels whose point is
\* free.
FreeLabels(n, r) ==
    {l \in Labels : /\ l.node = n /\ l.replica = r
                    /\ Hash[l] \notin DOMAIN label
                    /\ \A t \in 0 .. l.nudges - 1 :
                          Hash[LabelOf(n, r, t)] \in DOMAIN label}

\* One round of the loop of add_node.
PlaceReplica ==
    \E n \in join.joining :
        /\ join.next < VNodes
        /\ \E l \in FreeLabels(n, join.next) :
              label' = [h \in DOMAIN label \union {Hash[l]} |->
                           IF h = Hash[l] THEN l ELSE label[h]]
        /\ join' = [join EXCEPT !.next = @ + 1]
        /\ UNCHANGED nodes

\* The loop ends.
Joined == /\ join # Nobody
          /\ join.next = VNodes
          /\ join' = Nobody
          /\ UNCHANGED <<nodes, label>>

BugRemoveFirstNames(n) ==
    /\ Idle
    /\ n \in nodes
    /\ nodes' = nodes \ {n}
    /\ label' = Restrict(label, DOMAIN label \ {Hash[LabelOf(n, r, 0)] : r \in 0 .. VNodes - 1})
    /\ UNCHANGED join

\* remove_node: every point of the node goes, nudged ones included; the points
\* that were nudged because of them stay where they are.
RemoveNode(n) ==
    /\ Idle
    /\ n \in nodes
    /\ nodes' = nodes \ {n}
    /\ label' = Restrict(label, {h \in DOMAIN label : label[h].node # n})
    /\ UNCHANGED join

Next == \/ \E n \in NodeIds : AddNode(n)
        \/ PlaceReplica
        \/ Joined
        \/ \E n \in NodeIds : RemoveNode(n)

Spec == Init /\ [][Next]_vars

----------------------------------------------------------------------------
BugModulo(h, points) ==
    CHOOSE x \in points : Cardinality({y \in points : y < x}) = h % Cardinality(points)

\* bisect_right: the first point after h, and the first of all past the end.
Clockwise(h, points) ==
    IF \E x \in points : x > h THEN Min({x \in points : x > h}) ELSE Min(points)

\* get_node, of a ring that is not empty.
Owner(k) == label[Clockwise(KeyHash[k], DOMAIN label)].node

\* locate raises for an empty ring.
Routed == DOMAIN label # {}

(* Properties                                                              *)

\* A point is where its label hashes to, and belongs to a node of the ring.
TypeOK ==
    /\ nodes \subseteq NodeIds
    /\ DOMAIN label \subseteq Points
    /\ \A h \in DOMAIN label : /\ label[h] \in Labels
                               /\ Hash[label[h]] = h
                               /\ label[h].node \in nodes
    /\ \/ Idle
       \/ /\ join.next \in 0 .. VNodes
          /\ \E n \in nodes : join = [joining |-> {n}, next |-> join.next]

Placed(n) == IF join.joining = {n} THEN join.next ELSE VNodes

\* "We never silently drop a replica": whatever collides, and whoever joined
\* and left before, each node has one point for each of its replicas.
EveryReplicaPlaced ==
    \A n \in nodes : \A r \in 0 .. VNodes - 1 :
        Cardinality({h \in DOMAIN label : label[h].node = n /\ label[h].replica = r})
            = IF r < Placed(n) THEN 1 ELSE 0

\* "Adding or removing a node only remaps the keys in that node's arc": a key
\* changes hands only to the node that joins or from the node that leaves.
OnlyItsArcMoves ==
    [][\A k \in Keys : Routed /\ Routed' /\ Owner(k)' # Owner(k) =>
          \/ Owner(k)' \in join.joining
          \/ Owner(k) \in nodes \ nodes']_vars
============================================================================
