---------------------------- MODULE AnswerCache ----------------------------
(***************************************************************************)
(* What the read path relies on of the distributed cache: an answer is     *)
(* served until it is TTL ticks old, what is invalidated is gone in every  *)
(* mode, and a node gives up one of its other entries when a new one does  *)
(* not fit.  Which one goes is left open.                                  *)
(*                                                                         *)
(* ReadPath uses these operations.  DistributedCache, which has the order  *)
(* of accesses and no answers, implements them.                            *)
(***************************************************************************)
EXTENDS Naturals, FiniteSets, Functions

CONSTANTS
    Prefixes,        \* the prefixes users type
    Nodes,           \* the cache nodes
    NodeOf,          \* the ring: which node holds a key
    TTL,             \* cache lifetime in ticks
    Capacity         \* entries a node holds before it evicts

Modes == {"basic", "trending"}
Keys == Prefixes \X Modes

VARIABLE cache       \* the cached answers, with their age in ticks

Empty == [x \in {} |-> 0]

CacheInit == cache = Empty

\* CacheNode.get: an entry is there and has not expired.
Hit(k) == k \in DOMAIN cache /\ cache[k].age < TTL

Without(keys) == Restrict(cache, DOMAIN cache \ keys)

\* get deletes what it finds expired.
Forget(k) == /\ k \in DOMAIN cache
             /\ ~ Hit(k)
             /\ cache' = Without({k})

BugInsertWithoutEviction(k, entry) ==
    cache' = [x \in DOMAIN cache \union {k} |-> IF x = k THEN entry ELSE cache[x]]

\* The keys that the node of k holds.
Held(k) == {x \in DOMAIN cache : NodeOf[x] = NodeOf[k]}

\* CacheNode.set: the new entry is the most recent one of its node; when the
\* node has no room another one goes (the order of accesses decides which).
Insert(k, entry) ==
    \E victims \in {{}} \union {{v} : v \in Held(k) \ {k}} :
        LET kept == DOMAIN cache \ victims
        IN  /\ victims = {} <=> Cardinality(Held(k) \union {k}) <= Capacity
            /\ cache' = [x \in kept \union {k} |-> IF x = k THEN entry ELSE cache[x]]

Store(k, answer) == Insert(k, [answer |-> answer, age |-> 0])

\* invalidate_all_modes of some prefixes; clear, of all of them.
Invalidate(some) == cache' = Without({k \in Keys : k[1] \in some})

\* Time passes: entries age.
Age == cache' = [k \in DOMAIN cache |->
                    [answer |-> cache[k].answer,
                     age    |-> IF cache[k].age < TTL THEN cache[k].age + 1 ELSE TTL]]

\* A step of a cache of these answers.
CacheNext(answers) == \/ \E k \in Keys : Forget(k)
                      \/ \E k \in Keys, answer \in answers : Store(k, answer)
                      \/ \E some \in SUBSET Prefixes : Invalidate(some)
                      \/ Age
============================================================================
