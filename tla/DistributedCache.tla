-------------------------- MODULE DistributedCache --------------------------
(***************************************************************************)
(* The cache of suggestion lists (app/cache.py): N nodes behind a ring,    *)
(* each an LRU map with a time to live.  The order of accesses is exact    *)
(* here and the values are left out; AnswerCache, which this module        *)
(* implements, leaves the order open.                                      *)
(*                                                                         *)
(* The OrderedDict of a node is its set of keys with, for each key, the    *)
(* keys that moved to the end after it.  Times are relative: an entry has  *)
(* so many ticks left, and has expired when it has none.                   *)
(***************************************************************************)
EXTENDS Naturals, FiniteSets

CONSTANTS
    Prefixes,        \* the prefixes users type
    Nodes,           \* the cache nodes
    NodeOf,          \* the ring: which node holds a key
    TTL,             \* lifetime of an entry in ticks
    Capacity         \* entries a node holds before it evicts

Modes == {"basic", "trending"}
Keys == Prefixes \X Modes

ASSUME DistributedCacheAssumption ==
    /\ IsFiniteSet(Keys)
    /\ NodeOf \in [Keys -> Nodes]
    /\ TTL \in Nat \ {0}
    /\ Capacity \in Nat \ {0}

VARIABLES
    left,            \* stored key -> ticks until it expires
    newer,           \* stored key -> the keys of its node behind it in the order
    due,             \* bookkeeping: ticks for which the last set still counts
    since            \* bookkeeping: keys of the node used since the key was

vars == <<left, newer, due, since>>

Stored == DOMAIN left

\* The other keys of the node of k.
Peers(k) == {x \in Keys \ {k} : NodeOf[x] = NodeOf[k]}

Held(k) == {x \in Stored : NodeOf[x] = NodeOf[k]}

Init == /\ left = [k \in {} |-> 0]
        /\ newer = [k \in {} |-> {}]
        /\ due = [k \in Keys |-> 0]
        /\ since = [k \in Keys |-> {}]

----------------------------------------------------------------------------
\* k was used: for each of its peers it is one more key used since then.
Used(k) ==
    since' = [x \in Keys |-> CASE x = k        -> {}
                               [] x \in Peers(k) -> since[x] \union {k}
                               [] OTHER        -> since[x]]

\* The keys in `gone` leave the maps.
Drop(gone) ==
    /\ left' = [x \in Stored \ gone |-> left[x]]
    /\ newer' = [x \in Stored \ gone |-> newer[x] \ gone]

\* move_to_end.
MovedToEnd(k) ==
    [x \in Stored \union {k} |-> CASE x = k            -> {}
                                   [] x \in Peers(k)   -> newer[x] \union {k}
                                   [] OTHER            -> newer[x]]

BugExpiresLate(k) == FALSE

Expired(k) == left[k] = 0

\* get: whether the answer comes from the cache.
Hit(k) == k \in Stored /\ ~ Expired(k)

BugGetWithoutTouch(k) ==
    /\ Hit(k)
    /\ Used(k)
    /\ UNCHANGED <<left, newer, due>>

GetHit(k) ==
    /\ Hit(k)
    /\ newer' = MovedToEnd(k)
    /\ Used(k)
    /\ UNCHANGED <<left, due>>

\* An expired entry is deleted when it is looked up, not before.
GetExpired(k) ==
    /\ k \in Stored
    /\ Expired(k)
    /\ Drop({k})
    /\ UNCHANGED <<due, since>>

GetAbsent(k) ==
    /\ k \notin Stored
    /\ UNCHANGED vars

\* The front of the order of a node, when k has just joined it.
Oldest(k) == {v \in Held(k) : newer[v] = Held(k) \ {v}}

BugEvictOneLate(k) == IF Cardinality(Held(k)) > Capacity THEN Oldest(k) ELSE {}

\* set: whom the new key k pushes out of its node.
Evicted(k) == IF Cardinality(Held(k)) >= Capacity THEN Oldest(k) ELSE {}

SetPresent(k) ==
    /\ k \in Stored
    /\ left' = [left EXCEPT ![k] = TTL]
    /\ newer' = MovedToEnd(k)
    /\ due' = [due EXCEPT ![k] = TTL]
    /\ Used(k)

SetAbsent(k) ==
    /\ k \notin Stored
    /\ left' = [x \in (Stored \ Evicted(k)) \union {k} |->
                   IF x = k THEN TTL ELSE left[x]]
    /\ newer' = [x \in (Stored \ Evicted(k)) \union {k} |->
                    MovedToEnd(k)[x] \ Evicted(k)]
    /\ due' = [due EXCEPT ![k] = TTL]
    /\ Used(k)

BugBasicOnly(p) == {k \in Stored : k = <<p, "basic">>}

\* What invalidate_all_modes drops of a prefix.
Variants(p) == {k \in Stored : k[1] = p}

InvalidateAllModes(p) ==
    /\ Drop(Variants(p))
    /\ due' = [k \in Keys |-> IF k[1] = p THEN 0 ELSE due[k]]
    /\ UNCHANGED since

Clear ==
    /\ Drop(Stored)
    /\ due' = [k \in Keys |-> 0]
    /\ UNCHANGED since

\* One tick of the clock.
Less(n) == IF n = 0 THEN 0 ELSE n - 1

Tick ==
    /\ left' = [k \in Stored |-> Less(left[k])]
    /\ due' = [k \in Keys |-> Less(due[k])]
    /\ UNCHANGED <<newer, since>>

Next == \/ \E k \in Keys : \/ GetHit(k)
                           \/ GetExpired(k)
                           \/ GetAbsent(k)
                           \/ SetPresent(k)
                           \/ SetAbsent(k)
        \/ \E p \in Prefixes : InvalidateAllModes(p)
        \/ Clear
        \/ Tick

Spec == Init /\ [][Next]_vars

----------------------------------------------------------------------------
(* Properties                                                              *)

\* The two views of a node's OrderedDict agree, its order is total, and no
\* node outgrows its capacity.
TypeOK ==
    /\ left \in [Stored -> 0 .. TTL]
    /\ Stored \subseteq Keys
    /\ newer \in [Stored -> SUBSET Stored]
    /\ \A k \in Stored : newer[k] \subseteq Peers(k)
    /\ \A j, k \in Stored : j \in Peers(k) => (j \in newer[k] <=> k \notin newer[j])
    /\ due \in [Keys -> 0 .. TTL]
    /\ since \in [Keys -> SUBSET Keys]
    /\ \A k \in Stored : Cardinality(Held(k)) <= Capacity

\* What is served was set, was not invalidated since, and is younger than TTL,
\* whatever evictions, reads and later sets of the key came in between.
HitsAreLive == \A k \in Keys : Hit(k) => due[k] > 0

\* LRU: a key that was set, not invalidated and has not expired is missing only
\* after Capacity other keys of its node have been used more recently.
RecentlyUsedStay ==
    \A k \in Keys : due[k] > 0 /\ k \notin Stored
        => Cardinality(since[k]) >= Capacity

\* The entries of all nodes with their ages, as AnswerCache sees them.
Entries == [k \in Stored |-> [answer |-> "cached", age |-> TTL - left[k]]]

Answers == INSTANCE AnswerCache WITH cache <- Entries

\* The cache that the suggestions rely on is this one: nothing is dropped but
\* what has expired or is invalidated, and a node gives up an entry only when it
\* is full: one entry, and never the one just set.
ImplementsCache == Answers!CacheInit /\ [][Answers!CacheNext({"cached"})]_Entries
============================================================================
