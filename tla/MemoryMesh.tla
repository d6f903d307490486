----------------------------- MODULE MemoryMesh -----------------------------
(***************************************************************************)
(* MemorySyncNode and InMemoryFactStore (memory_sync.py): the Tier-2 facts *)
(* that agents teach each other.                                           *)
(*                                                                         *)
(* A fact is keyed by its origin and the origin's local id, and only its   *)
(* origin publishes it.  Inbound envelopes are handled by whatever thread  *)
(* polls the chain; two threads may poll one agent's chain (the runtime's  *)
(* loop and a query), and _on_fact reads the store, decides, and writes    *)
(* the store in separate critical sections, so handling a fact or a digest *)
(* is two steps here.                                                      *)
(*                                                                         *)
(* Data abstraction: a content is the number of the origin's write that    *)
(* produced it (0: no fact stored); vectors, kinds, metadata and clocks    *)
(* follow the content; salience counts reinforcements of one unit; digests *)
(* are the set of keys they list.                                          *)
(***************************************************************************)
EXTENDS Naturals, FiniteSets, Sequences, SequencesExt

CONSTANTS
    Nodes,         \* agents of the fleet
    Keys,          \* the facts: pairs of origin and local id
    Workers,       \* threads that may poll one agent's chain
    Syncers,       \* agents whose application keeps calling send_digests
    Pruners,       \* agents whose application prunes facts and says so
    Private,       \* pairs <<n, p>>: n gives p the PRIVATE sharing profile
    Media,         \* what links are made of: TRUE keeps the order of the sends
    SalienceCap,   \* cap, where reinforcement stops (10.0)
    Saliences,     \* saliences the application stores facts with
    MaxItems,      \* MAX_PAYLOAD_ITEMS, the longest list a payload carries (64)
    MaxPerDigest,  \* MAX_FACTS_PER_DIGEST (32)
    MaxWrites,     \* bound: writes of one fact by its origin
    MaxLink,       \* bound: messages in one link when the application sends
    MaxLoss        \* bound: messages lost

ASSUME BoundAssumption ==
    /\ {SalienceCap, MaxItems, MaxPerDigest, MaxWrites, MaxLink, MaxLoss} \subseteq Nat
    /\ Saliences \subseteq Nat
ASSUME SwitchAssumption ==
    Media \subseteq BOOLEAN /\ Syncers \subseteq Nodes /\ Pruners \subseteq Nodes
ASSUME WorkerAssumption == IsFiniteSet(Workers)
ASSUME KeyAssumption == \A k \in Keys : k[1] \in Nodes

VARIABLES
    inOrder,     \* the links deliver in the order of the sends (never changes)
    facts,       \* facts[n][k]: the record of key k in n's store
    tombstones,  \* _tombstones of each node
    buried,      \* history: keys of each node's tombstones the origin itself sent
    handling,    \* handling[n][w]: the envelope worker w of n is handling
    net,         \* net[<<p, n>>]: envelopes from p on their way to n
    writes,      \* history: how often the origin of each key wrote it
    announced,   \* history: the content of each key its origin last broadcast
    pruned,      \* history: keys the application of each node removed
    lost         \* messages lost so far

vars ==
    <<inOrder, facts, tombstones, buried, handling, net, writes, announced, pruned, lost>>

Origin(k) == k[1]
Others(n) == Nodes \ {n}
Links == {l \in Nodes \X Nodes : l[1] # l[2]}

\* max and min of two saliences or lengths.
MaxOf(a, b) == IF a >= b THEN a ELSE b
MinOf(a, b) == IF a <= b THEN a ELSE b

Absent == [content |-> 0, salience |-> 0]
Has(n, k) == facts[n][k] # Absent

FactMsg(k, f) == [type |-> "memory_fact", key |-> k, fact |-> f]
ReinforceMsg(k) == [type |-> "reinforce", key |-> k]
TombstoneMsg(k) == [type |-> "tombstone", key |-> k]
DigestMsg(K) == [type |-> "memory_digest", keys |-> K]

\* What a worker holds between its two steps.
Free == [step |-> "free"]
Deciding(k, f, seen) == [step |-> "deciding", key |-> k, fact |-> f, seen |-> seen]
Pushing(p, F) == [step |-> "pushing", peer |-> p, missing |-> F]

-----------------------------------------------------------------------------
(* The store and the links.                                                *)

Put(n, k, f) == facts' = [facts EXCEPT ![n][k] = f]

\* InMemoryFactStore.reinforce
Reinforced(f) == [f EXCEPT !.salience = MinOf(SalienceCap, f.salience + 1)]

\* The merge _on_fact stores when the contents differ: arrival order decides
\* the content, salience is the maximum.
BrokenMerged(seen, f) == f
FirstWriterMerged(seen, f) ==
    [f EXCEPT !.content = seen.content, !.salience = MaxOf(seen.salience, f.salience)]
Merged(seen, f) == [f EXCEPT !.salience = MaxOf(seen.salience, f.salience)]

RoomFor(n, P) == \A p \in P : Len(net[<<n, p>>]) < MaxLink

\* chain.send to every agent of P.
Sent(links, n, P, m) ==
    [l \in Links |-> IF l[1] = n /\ l[2] \in P THEN Append(links[l], m) ELSE links[l]]

\* Envelopes link l may hand over next.
Deliverable(l) == IF inOrder THEN {1} \cap DOMAIN net[l] ELSE DOMAIN net[l]

\* send_digests: the digest list of every fact in the store; a list longer
\* than the protocol's bound does not encode, and the send fails.
Digested(n) == {k \in Keys : Has(n, k)}
DigestEncodes(n) == Cardinality(Digested(n)) <= MaxItems

-----------------------------------------------------------------------------
(* The application of a node.                                              *)

\* store_fact of a local fact: a new one, or new content for an old id.
StoreFact(n, k, s) ==
    /\ Origin(k) = n
    /\ k \notin pruned[n]
    /\ writes[k] < MaxWrites
    /\ writes' = [writes EXCEPT ![k] = @ + 1]
    /\ Put(n, k, [content |-> writes'[k], salience |-> s])
    /\ UNCHANGED <<inOrder, tombstones, buried, handling, net, announced, pruned, lost>>

\* publish_fact with peers=None: one envelope to the whole fleet.
BrokenPublishFact(n, k) ==
    /\ Has(n, k)
    /\ RoomFor(n, Others(n))
    /\ net' = Sent(net, n, Others(n), FactMsg(k, facts[n][k]))
    /\ announced' = [announced EXCEPT ![k] = facts[n][k].content]
    /\ UNCHANGED <<inOrder, facts, tombstones, buried, handling, writes, pruned, lost>>
PublishFact(n, k) ==
    /\ Origin(k) = n
    /\ Has(n, k)
    /\ RoomFor(n, Others(n))
    /\ net' = Sent(net, n, Others(n), FactMsg(k, facts[n][k]))
    /\ announced' = [announced EXCEPT ![k] = facts[n][k].content]
    /\ UNCHANGED <<inOrder, facts, tombstones, buried, handling, writes, pruned, lost>>

\* publish_fact with an explicit peer, whose sharing profile decides.
PublishFactTo(n, k, p) ==
    /\ Origin(k) = n
    /\ Has(n, k)
    /\ <<n, p>> \notin Private
    /\ RoomFor(n, {p})
    /\ net' = Sent(net, n, {p}, FactMsg(k, facts[n][k]))
    /\ UNCHANGED <<inOrder, facts, tombstones, buried, handling, writes, announced, pruned, lost>>

SendReinforce(n, k) ==
    /\ Origin(k) # n
    /\ Has(n, k)
    /\ RoomFor(n, {Origin(k)})
    /\ net' = Sent(net, n, {Origin(k)}, ReinforceMsg(k))
    /\ UNCHANGED <<inOrder, facts, tombstones, buried, handling, writes, announced, pruned, lost>>

\* store.remove: a node prunes a fact, its own or a peer's.
Prune(n, k) ==
    /\ n \in Pruners
    /\ Has(n, k)
    /\ Put(n, k, Absent)
    /\ pruned' = [pruned EXCEPT ![n] = @ \cup {k}]
    /\ UNCHANGED <<inOrder, tombstones, buried, handling, net, writes, announced, lost>>

\* publish_tombstone for a fact the node has pruned.
PublishTombstone(n, k) ==
    /\ k \in pruned[n]
    /\ ~Has(n, k)
    /\ RoomFor(n, Others(n))
    /\ net' = Sent(net, n, Others(n), TombstoneMsg(k))
    /\ UNCHANGED <<inOrder, facts, tombstones, buried, handling, writes, announced, pruned, lost>>

\* One digest at a time is enough on a link.
SendDigests(n, p) ==
    /\ n \in Syncers
    /\ p # n
    /\ DigestEncodes(n)
    /\ \A j \in DOMAIN net[<<n, p>>] : net[<<n, p>>][j].type # "memory_digest"
    /\ RoomFor(n, {p})
    /\ net' = Sent(net, n, {p}, DigestMsg(Digested(n)))
    /\ UNCHANGED <<inOrder, facts, tombstones, buried, handling, writes, announced, pruned, lost>>

-----------------------------------------------------------------------------
(* _on_envelope: a worker of n takes the j-th envelope of the link from p.  *)

Take(p, n, j) ==
    /\ j \in Deliverable(<<p, n>>)
    /\ net' = [net EXCEPT ![<<p, n>>] = RemoveAt(@, j)]

\* Mail of a PRIVATE sender, and facts and tombstones about one's own facts,
\* are dropped; so is a reinforcement of somebody else's fact.
BrokenIgnored(p, n, m) == <<n, p>> \in Private
Ignored(p, n, m) ==
    \/ <<n, p>> \in Private
    \/ m.type \in {"memory_fact", "tombstone"} /\ Origin(m.key) = n
    \/ m.type = "reinforce" /\ Origin(m.key) # n

Drop(n, w, p, j) ==
    /\ handling[n][w] = Free
    /\ Take(p, n, j)
    /\ Ignored(p, n, net[<<p, n>>][j])
    /\ UNCHANGED <<inOrder, facts, tombstones, buried, handling, writes, announced, pruned, lost>>

\* _on_fact up to get_fact.
OnFactRead(n, w, p, j) ==
    LET m == net[<<p, n>>][j] IN
    /\ handling[n][w] = Free
    /\ Take(p, n, j)
    /\ ~Ignored(p, n, m)
    /\ m.type = "memory_fact"
    /\ handling' = [handling EXCEPT ![n][w] = Deciding(m.key, m.fact, facts[n][m.key])]
    /\ UNCHANGED <<inOrder, facts, tombstones, buried, writes, announced, pruned, lost>>

\* _on_fact from the decision on: store a fact not seen before, merge one whose
\* content differs, reinforce one that is the same (if it is still there).
OnFactWrite(n, w) ==
    LET h == handling[n][w] IN
    /\ h.step = "deciding"
    /\ \/ h.seen = Absent /\ Put(n, h.key, h.fact)
       \/ /\ h.seen # Absent
          /\ h.seen.content # h.fact.content
          /\ Put(n, h.key, Merged(h.seen, h.fact))
       \/ /\ h.seen # Absent
          /\ h.seen.content = h.fact.content
          /\ IF Has(n, h.key) THEN Put(n, h.key, Reinforced(facts[n][h.key]))
                              ELSE UNCHANGED facts
    /\ handling' = [handling EXCEPT ![n][w] = Free]
    /\ UNCHANGED <<inOrder, tombstones, buried, net, writes, announced, pruned, lost>>

OnReinforce(n, w, p, j) ==
    LET m == net[<<p, n>>][j] IN
    /\ handling[n][w] = Free
    /\ Take(p, n, j)
    /\ ~Ignored(p, n, m)
    /\ m.type = "reinforce"
    /\ IF Has(n, m.key) THEN Put(n, m.key, Reinforced(facts[n][m.key]))
                        ELSE UNCHANGED facts
    /\ UNCHANGED <<inOrder, tombstones, buried, handling, writes, announced, pruned, lost>>

Bury(n, p, k) ==
    /\ tombstones' = [tombstones EXCEPT ![n] = @ \cup {k}]
    /\ buried' = [buried EXCEPT ![n] = IF p = Origin(k) THEN @ \cup {k} ELSE @]

BrokenOnTombstone(n, w, p, j) ==
    LET m == net[<<p, n>>][j] IN
    /\ handling[n][w] = Free
    /\ Take(p, n, j)
    /\ ~Ignored(p, n, m)
    /\ m.type = "tombstone"
    /\ UNCHANGED facts
    /\ Bury(n, p, m.key)
    /\ UNCHANGED <<inOrder, handling, writes, announced, pruned, lost>>

OnTombstone(n, w, p, j) ==
    LET m == net[<<p, n>>][j] IN
    /\ handling[n][w] = Free
    /\ Take(p, n, j)
    /\ ~Ignored(p, n, m)
    /\ m.type = "tombstone"
    /\ Put(n, m.key, Absent)
    /\ Bury(n, p, m.key)
    /\ UNCHANGED <<inOrder, handling, writes, announced, pruned, lost>>

\* _on_digest up to its cut: own facts the peer does not list, the most salient
\* MAX_FACTS_PER_DIGEST of them.
BrokenMissing(n, K) == {k \in Keys : Origin(k) = n /\ Has(n, k) /\ k \in K}
Missing(n, K) == {k \in Keys : Origin(k) = n /\ Has(n, k) /\ k \notin K}
MostSalient(n, M, S) ==
    /\ S \subseteq M
    /\ Cardinality(S) = MinOf(MaxPerDigest, Cardinality(M))
    /\ \A k \in S, u \in M \ S : facts[n][k].salience >= facts[n][u].salience

OnDigestRead(n, w, p, j) ==
    LET m == net[<<p, n>>][j] IN
    /\ handling[n][w] = Free
    /\ Take(p, n, j)
    /\ ~Ignored(p, n, m)
    /\ m.type = "memory_digest"
    /\ \E S \in SUBSET Missing(n, m.keys) :
        /\ MostSalient(n, Missing(n, m.keys), S)
        /\ handling' = [handling EXCEPT ![n][w] =
                            Pushing(p, {<<k, facts[n][k]>> : k \in S})]
    /\ UNCHANGED <<inOrder, facts, tombstones, buried, writes, announced, pruned, lost>>

\* _on_digest publishes what it read, one envelope per fact; a copy of an envelope
\* still on the link is left out, which bounds the link.
OnDigestPush(n, w) ==
    LET h == handling[n][w] IN
    /\ h.step = "pushing"
    /\ \/ /\ h.missing = {} \/ <<n, h.peer>> \in Private
          /\ handling' = [handling EXCEPT ![n][w] = Free]
          /\ UNCHANGED net
       \/ \E x \in h.missing :
          /\ <<n, h.peer>> \notin Private
          /\ net' = IF FactMsg(x[1], x[2]) \in ToSet(net[<<n, h.peer>>])
                    THEN net ELSE Sent(net, n, {h.peer}, FactMsg(x[1], x[2]))
          /\ handling' = [handling EXCEPT ![n][w].missing = @ \ {x}]
    /\ UNCHANGED <<inOrder, facts, tombstones, buried, writes, announced, pruned, lost>>

\* Every transport may lose a frame.
Lose(l) ==
    /\ lost < MaxLoss
    /\ \E j \in DOMAIN net[l] : net' = [net EXCEPT ![l] = RemoveAt(@, j)]
    /\ lost' = lost + 1
    /\ UNCHANGED <<inOrder, facts, tombstones, buried, handling, writes, announced, pruned>>

-----------------------------------------------------------------------------
Init ==
    /\ inOrder \in Media
    /\ facts = [n \in Nodes |-> [k \in Keys |-> Absent]]
    /\ tombstones = [n \in Nodes |-> {}]
    /\ buried = [n \in Nodes |-> {}]
    /\ handling = [n \in Nodes |-> [w \in Workers |-> Free]]
    /\ net = [l \in Links |-> << >>]
    /\ writes = [k \in Keys |-> 0]
    /\ announced = [k \in Keys |-> 0]
    /\ pruned = [n \in Nodes |-> {}]
    /\ lost = 0

Application(n) ==
    \/ \E k \in Keys :
        \/ \E s \in Saliences : StoreFact(n, k, s)
        \/ PublishFact(n, k)
        \/ SendReinforce(n, k)
        \/ Prune(n, k)
        \/ PublishTombstone(n, k)
        \/ \E p \in Others(n) : PublishFactTo(n, k, p)
    \/ \E p \in Others(n) : SendDigests(n, p)

Receive(n, w, p, j) ==
    \/ Drop(n, w, p, j)
    \/ OnFactRead(n, w, p, j)
    \/ OnReinforce(n, w, p, j)
    \/ OnTombstone(n, w, p, j)
    \/ OnDigestRead(n, w, p, j)

Work(n, w) ==
    \/ OnFactWrite(n, w)
    \/ OnDigestPush(n, w)
    \/ \E p \in Others(n) : \E j \in DOMAIN net[<<p, n>>] : Receive(n, w, p, j)

Next ==
    \/ \E n \in Nodes : Application(n)
    \/ \E n \in Nodes, w \in Workers : Work(n, w)
    \/ \E l \in Links : Lose(l)

Spec == Init /\ [][Next]_vars

\* Applications that sync keep calling send_digests, the host loop keeps polling,
\* and a link does not lose every digest and every fact forever.  Strong fairness
\* of the sends makes up for the bound on the links: chain.send never waits.
Handled(p, n, type) ==
    \E w \in Workers : \E j \in DOMAIN net[<<p, n>>] :
        net[<<p, n>>][j].type = type /\ Receive(n, w, p, j)

Fairness ==
    /\ \A n \in Nodes, w \in Workers :
        WF_vars(OnFactWrite(n, w)) /\ SF_vars(OnDigestPush(n, w)) /\ WF_vars(Work(n, w))
    /\ \A l \in Links :
        /\ SF_vars(SendDigests(l[1], l[2]))
        /\ SF_vars(Handled(l[1], l[2], "memory_digest"))
        /\ SF_vars(Handled(l[1], l[2], "memory_fact"))

FairSpec == Spec /\ Fairness

-----------------------------------------------------------------------------
(* Properties.                                                             *)

Fact ==
    [content : 0..MaxWrites,
     salience : {s \in Nat : s <= SalienceCap \/ s \in Saliences}]
Message ==
    [type : {"memory_fact"}, key : Keys, fact : Fact]
        \cup [type : {"reinforce", "tombstone"}, key : Keys]
        \cup [type : {"memory_digest"}, keys : SUBSET Keys]

TypeOK ==
    /\ inOrder \in Media
    /\ facts \in [Nodes -> [Keys -> Fact]]
    /\ tombstones \in [Nodes -> SUBSET Keys]
    /\ buried \in [Nodes -> SUBSET Keys]
    /\ \A n \in Nodes, w \in Workers : handling[n][w].step \in {"free", "deciding", "pushing"}
    /\ net \in [Links -> Seq(Message)]
    /\ writes \in [Keys -> 0..MaxWrites]
    /\ announced \in [Keys -> 0..MaxWrites]
    /\ pruned \in [Nodes -> SUBSET Keys]
    /\ lost \in 0..MaxLoss

\* "only its origin teaches its content" (memory_sync.py:8-10): a copy holds
\* something its origin wrote, a fact in flight comes from its origin, and
\* nobody holds a fact its origin never wrote.
Provenance ==
    /\ \A n \in Nodes, k \in Keys : facts[n][k].content <= writes[k]
    /\ \A l \in Links : \A j \in DOMAIN net[l] :
        net[l][j].type = "memory_fact" =>
            /\ Origin(net[l][j].key) = l[1]
            /\ net[l][j].fact.content \in 1..writes[net[l][j].key]

\* The wire never removes or rewrites a fact at its own origin (the loop guards
\* of _on_fact and _on_tombstone): its content changes only by the origin's own
\* store_fact and remove, and its salience only rises otherwise, below the cap
\* where reinforcement stops (memory_sync.py:242-243).
OriginKeepsItsFacts ==
    [][\A k \in Keys :
        LET n == Origin(k) IN
        writes'[k] = writes[k] /\ pruned' = pruned =>
            /\ facts'[n][k].content = facts[n][k].content
            /\ facts'[n][k].salience >= MinOf(SalienceCap, facts[n][k].salience)]_vars

\* "salience merges as max with additive reinforcement" (memory_sync.py:11-12):
\* as long as a peer keeps its copy of a fact, the copy's salience never drops,
\* below the cap where reinforcement stops.
CopySalienceNeverDrops ==
    [][\A k \in Keys : \A n \in Others(Origin(k)) :
        Has(n, k) /\ Has(n, k)' =>
            facts'[n][k].salience >= MinOf(SalienceCap, facts[n][k].salience)]_vars

\* Every envelope has been handled and none was lost.
Quiet ==
    /\ lost = 0
    /\ \A l \in Links : net[l] = << >>
    /\ \A n \in Nodes, w \in Workers : handling[n][w] = Free

\* Nodes that may apply an older message after a newer one: mail overtakes mail
\* on the links or between two workers, or on the way of a digest's answer.
Unruly == IF inOrder /\ Cardinality(Workers) = 1 THEN Syncers ELSE Nodes

\* Once the fleet is quiet, every copy of a fact whose last content was broadcast
\* holds that content, at the nodes that apply mail in order.
QuietPeersAgree ==
    Quiet => \A k \in Keys : \A n \in Nodes \ (Unruly \cup {Origin(k)}) :
        Has(n, k) /\ announced[k] = writes[k] => facts[n][k].content = writes[k]

\* "a forgotten memory cannot resurrect from a stale peer" (memory_sync.py:13):
\* a node that applied the tombstone its origin sent for a fact never holds that
\* fact again, where mail is applied in order.  (The tombstone of a third agent
\* may overtake a fact that is still on its way from the origin.)
ForgottenStaysForgotten ==
    \A n \in Nodes \ Unruly : \A k \in buried[n] : ~Has(n, k)

\* The promise of the digest exchange (memory_sync.py:19-22, 617-644): if two
\* agents keep sending each other digests, a fact its origin keeps eventually
\* reaches the peer, whatever the link loses or reorders.
DigestsRepair ==
    \A k \in Keys : \A p \in Syncers \ {Origin(k)} :
        <<Origin(k), p>> \notin Private /\ <<p, Origin(k)>> \notin Private =>
            [](Has(Origin(k), k) => <>(Has(p, k) \/ ~Has(Origin(k), k)))

=============================================================================
