---------------------------- MODULE SpatialIndex ----------------------------
(* SpatialIndex and its octree.  The code tests the three axes one by one, so *)
(* one axis shows what it does: a node is a centre and a half size, it covers *)
(* both its borders, and a split node has two children that meet in a point.  *)
(* Nodes keep lists: an observation counts as often as it is held.            *)
EXTENDS Integers, FiniteSets, FiniteSetsExt

CONSTANTS
    Observations,  \* the observations that come, each with its own dedup key
    At, Entity,    \* observation |-> coordinate, entity_id
    Half,          \* half of world_size
    MaxDepth,      \* _max_depth
    MaxPerLeaf,    \* _max_per_leaf
    MaxRebuilds,   \* bound: calls of prune_expired
    Centres, Radii \* the sphere queries asked

VARIABLES
    lists,     \* node |-> observation |-> its copies in the node's obs
    split,     \* the nodes that have children
    seen,      \* _seen
    expired,   \* the observations older than max_age_s
    rebuilt,   \* copies a rebuild under way still has to insert
    rebuilds,  \* calls of prune_expired so far
    locked     \* a rebuild holds _lock

vars == <<lists, split, seen, expired, rebuilt, rebuilds, locked>>

Root == <<0, Half>>
Children(n) == {<<n[1] - n[2] \div 2, n[2] \div 2>>, <<n[1] + n[2] \div 2, n[2] \div 2>>}
Levels[d \in 0 .. MaxDepth] == IF d = 0 THEN {Root} ELSE UNION {Children(n) : n \in Levels[d - 1]}
Nodes == UNION {Levels[d] : d \in 0 .. MaxDepth}
Bottom == Levels[MaxDepth]

Distance(a, b) == IF a < b THEN b - a ELSE a - b
Contains(n, o) == Distance(n[1], At[o]) <= n[2]
InWorld == {o \in Observations : Contains(Root, o)}
None == [o \in Observations |-> 0]
Empty == [n \in Nodes |-> None]
Copies(o) == FoldSet(LAMBDA n, sum : sum + lists[n][o], 0, Nodes)

Leaves == {n \in Nodes : /\ n \notin split
                         /\ n = Root \/ \E p \in split : n \in Children(p)}

(* A bug: a node splits at any depth.                                        *)
FullAtAnyDepth(n) ==
    Cardinality({Entity[o] : o \in {p \in Observations : lists[n][p] > 0}}) >= MaxPerLeaf

(* len(self.obs) of a node counts entities, not observations.                *)
Full(n) ==
    /\ n \notin Bottom
    /\ Cardinality({Entity[o] : o \in {p \in Observations : lists[n][p] > 0}}) >= MaxPerLeaf

Overfull(o) == {n \in Leaves : Contains(n, o) /\ Full(n)}

(* A bug: a child covers only the border it does not share.                  *)
LandingInside(o) ==
    {n \in Leaves : Contains(n, o) /\ ~Full(n)}
        \cup {c \in UNION {Children(n) : n \in Overfull(o)} : Distance(c[1], At[o]) < c[2]}

(* _OctreeNode.insert: o goes to every leaf that covers it, or to every      *)
(* covering child of one that is full and splits; what that leaf held stays. *)
Landing(o) ==
    {n \in Leaves : Contains(n, o) /\ ~Full(n)}
        \cup {c \in UNION {Children(n) : n \in Overfull(o)} : Contains(c, o)}

Inserted(o) ==
    /\ lists' = [n \in Nodes |-> IF n \in Landing(o)
                                 THEN [lists[n] EXCEPT ![o] = @ + 1] ELSE lists[n]]
    /\ split' = split \cup Overfull(o)

Init ==
    /\ lists = Empty
    /\ split = {}
    /\ seen = {}
    /\ expired = {}
    /\ rebuilt = None
    /\ rebuilds = 0
    /\ locked = FALSE

(* insert, from a publish, an observation, a merge or a snapshot.  One that  *)
(* was seen is skipped.                                                      *)
Insert(o) ==
    /\ ~locked
    /\ o \notin seen
    /\ seen' = seen \cup {o}
    /\ Inserted(o)
    /\ UNCHANGED <<expired, rebuilt, rebuilds, locked>>

Age(o) ==
    /\ o \in seen \ expired
    /\ expired' = expired \cup {o}
    /\ UNCHANGED <<lists, split, seen, rebuilt, rebuilds, locked>>

(* prune_expired takes the lock and lists what is fresh; _rebuild puts an    *)
(* empty root in place before it inserts the list again, copy by copy.       *)
PruneStart ==
    /\ ~locked
    /\ rebuilds < MaxRebuilds
    /\ rebuilds' = rebuilds + 1
    /\ rebuilt' = [o \in Observations |-> IF o \in expired THEN 0 ELSE Copies(o)]
    /\ seen' = {o \in Observations : rebuilt'[o] > 0}
    /\ lists' = Empty
    /\ split' = {}
    /\ locked' = TRUE
    /\ UNCHANGED expired

Reinsert(o) ==
    /\ locked
    /\ rebuilt[o] > 0
    /\ rebuilt' = [rebuilt EXCEPT ![o] = @ - 1]
    /\ Inserted(o)
    /\ UNCHANGED <<seen, expired, rebuilds, locked>>

PruneEnd ==
    /\ locked
    /\ rebuilt = None
    /\ locked' = FALSE
    /\ UNCHANGED <<lists, split, seen, expired, rebuilt, rebuilds>>

Next ==
    \/ \E o \in Observations : Insert(o) \/ Age(o) \/ Reinsert(o)
    \/ PruneStart \/ PruneEnd

Spec == Init /\ [][Next]_vars
-----------------------------------------------------------------------------
TypeOK ==
    /\ lists \in [Nodes -> [Observations -> Nat]]
    /\ split \subseteq Nodes \ Bottom
    /\ seen \subseteq Observations
    /\ expired \subseteq Observations
    /\ rebuilt \in [Observations -> Nat]
    /\ rebuilds \in 0 .. MaxRebuilds
    /\ locked \in BOOLEAN

(* The index, with what a rebuild still has to insert, is a set of           *)
(* observations: it takes in, keeps and drops what that set does.            *)
Flat == INSTANCE ObservationSet WITH
    held <- {o \in Observations : Copies(o) + rebuilt[o] > 0},
    known <- seen

(* A bug: the query asks whether the node has the query's centre.            *)
OverlapsCentre(n, x, r) == Distance(n[1], x) <= n[2]

(* _overlaps_sphere: the nodes a query goes into.                            *)
Overlaps(n, x, r) ==
    IF x < n[1] - n[2] THEN n[1] - n[2] - x <= r
    ELSE x > n[1] + n[2] => x - n[1] - n[2] <= r

(* query_sphere goes from the root through the children that overlap: the   *)
(* nodes around n are those with n's centre inside their borders.            *)
Reached(x, r) ==
    {n \in Nodes : \A m \in Nodes : Distance(m[1], n[1]) < m[2] => Overlaps(m, x, r)}

Found(x, r) ==
    {o \in Observations : Distance(At[o], x) <= r /\ \E n \in Reached(x, r) : lists[n][o] > 0}

(* A query that has the lock finds every observation held within the radius, *)
(* whatever its place in the tree: no pruned node holds one.                 *)
SphereIsExact ==
    ~locked => \A x \in Centres, r \in Radii :
                   Found(x, r) = {o \in Observations : Copies(o) > 0 /\ Distance(At[o], x) <= r}
=============================================================================
