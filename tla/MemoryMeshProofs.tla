-------------------------- MODULE MemoryMeshProofs --------------------------
(* Proofs about the memory mesh, for any agents, facts, saliences, sharing   *)
(* profiles and links: only the origin teaches, the wire leaves the origin's *)
(* facts alone, copies keep their salience, a quiet fleet agrees and what    *)
(* its origin buried stays forgotten.                                        *)
EXTENDS MemoryMesh, TLAPS, SequenceTheorems, FiniteSetTheorems

(* The types of what the workers hold between their two steps.               *)
Task ==
    [step : {"free"}]
      \cup [step : {"deciding"}, key : Keys, fact : Fact, seen : Fact]
      \cup [step : {"pushing"}, peer : Nodes, missing : SUBSET (Keys \X Fact)]

Typed == TypeOK /\ handling \in [Nodes -> [Workers -> Task]]

\* A fact an agent stores was written by its origin; the origin's own holds the
\* last write and is gone once pruned; mail of a PRIVATE origin leaves no copy.
StoreOK(n, k) ==
    /\ facts[n][k].content <= writes[k]
    /\ Has(n, k) => facts[n][k].content >= 1
    /\ Origin(k) = n /\ Has(n, k) => facts[n][k].content = writes[k] /\ k \notin pruned[n]
    /\ Origin(k) # n /\ <<n, Origin(k)>> \in Private => ~Has(n, k)

\* What may be on the link l: facts of its sender as the sender wrote them,
\* tombstones the sender sends of its own facts after it pruned them, and
\* digests of agents that sync.
MailOK(l, m) ==
    /\ m.type = "memory_fact" =>
         Origin(m.key) = l[1] /\ m.fact.content \in 1..writes[m.key]
    /\ m.type = "tombstone" /\ Origin(m.key) = l[1] => m.key \in pruned[l[1]]
    /\ m.type = "memory_digest" => l[1] \in Syncers

\* What a worker of n may hold: a fact of somebody else that is not PRIVATE, or
\* records of n's own facts for an agent that syncs.
WorkOK(n, h) ==
    /\ h.step = "deciding" =>
         /\ Origin(h.key) # n /\ <<n, Origin(h.key)>> \notin Private
         /\ h.fact.content \in 1..writes[h.key]
    /\ h.step = "pushing" =>
         /\ h.peer \in Syncers /\ h.peer # n
         /\ \A x \in h.missing : Origin(x[1]) = n /\ x[2].content \in 1..writes[x[1]]

(* What makes Provenance inductive.                                          *)
Stores == \A n \in Nodes, k \in Keys : StoreOK(n, k)
Mail == \A l \in Links : \A j \in DOMAIN net[l] : MailOK(l, net[l][j])
Works == \A n \in Nodes, w \in Workers : WorkOK(n, handling[n][w])
Broadcast == \A k \in Keys : announced[k] <= writes[k]

Teaching == Typed /\ Stores /\ Mail /\ Works /\ Broadcast

(* With one worker, a copy being decided about is as it was read, or pruned. *)
Alone ==
    \A n \in Nodes, w \in Workers :
        LET h == handling[n][w] IN
        h.step = "deciding" => facts[n][h.key] \in {h.seen, Absent}

(* Sequences of envelopes: which carry the fact k, what the last of them     *)
(* says, and that none follows a tombstone of k.                             *)
Carries(m, k) == m.type = "memory_fact" /\ m.key = k
NoneOf(s, k) == \A j \in DOMAIN s : ~Carries(s[j], k)
LastIs(s, k, c) ==
    \A j \in DOMAIN s :
        Carries(s[j], k) /\ (\A i \in DOMAIN s : i > j => ~Carries(s[i], k))
            => s[j].fact.content = c
NothingAfter(s, k) ==
    \A i \in DOMAIN s, j \in DOMAIN s :
        i < j /\ s[i].type = "tombstone" /\ s[i].key = k => ~Carries(s[j], k)

Way(n, k) == net[<<Origin(k), n>>]
Decides(n, w, k) == handling[n][w].step = "deciding" /\ handling[n][w].key = k

\* What QuietPeersAgree says of n and k while mail is still on its way: the last
\* content that is coming, or the one being decided, or else n's, is the last write.
Settled(n, k) ==
    lost = 0 /\ announced[k] = writes[k] /\ <<n, Origin(k)>> \notin Private =>
        /\ LastIs(Way(n, k), k, writes[k])
        /\ NoneOf(Way(n, k), k) =>
             /\ \A w \in Workers :
                  Decides(n, w, k) => handling[n][w].fact.content = writes[k]
             /\ (\A w \in Workers : ~Decides(n, w, k)) /\ Has(n, k) =>
                  facts[n][k].content = writes[k]

\* What ForgottenStaysForgotten says of n and k with what is on its way: behind a
\* tombstone comes no fact, and after it nothing of the fact is left.
Forgotten(n, k) ==
    /\ NothingAfter(Way(n, k), k)
    /\ k \in buried[n] =>
        /\ k \in pruned[Origin(k)] /\ ~Has(n, k)
        /\ NoneOf(Way(n, k), k)
        /\ \A w \in Workers : ~Decides(n, w, k)

Foreign(n, k) == Origin(k) # n
Orderly == \A n \in Nodes \ Unruly, k \in Keys : Foreign(n, k) => Settled(n, k) /\ Forgotten(n, k)
OnlyForeign == \A n \in Nodes : \A k \in buried[n] : Foreign(n, k)

MeshInv == Teaching /\ (Cardinality(Workers) = 1 => Alone) /\ OnlyForeign /\ Orderly
-----------------------------------------------------------------------------
(* Links and the sequences of envelopes on them.                             *)
LEMMA LinkIs ==
    ASSUME NEW n \in Nodes, NEW p \in Nodes, p # n
    PROVE  /\ <<p, n>> \in Links /\ <<p, n>>[1] = p /\ <<p, n>>[2] = n
           /\ p \in Others(n) /\ n \in Others(p)
BY DEF Links, Others

LEMMA OriginIs == \A k \in Keys : Origin(k) \in Nodes
BY KeyAssumption DEF Origin

\* Taking the j-th envelope of a sequence keeps the others, in order.
LEMMA Removed ==
    ASSUME NEW S, NEW s \in Seq(S), NEW j \in DOMAIN s
    PROVE  /\ RemoveAt(s, j) \in Seq(S)
           /\ DOMAIN RemoveAt(s, j) = 1..(Len(s) - 1)
           /\ Len(s) \in Nat /\ DOMAIN s = 1..Len(s)
           /\ \A i \in 1..(Len(s) - 1) :
                RemoveAt(s, j)[i] = IF i < j THEN s[i] ELSE s[i + 1]
<1>1. j \in 1..Len(s) /\ Len(s) \in Nat /\ DOMAIN s = 1..Len(s)
    BY LenProperties
<1> DEFINE u == SubSeq(s, 1, j - 1)
<1> DEFINE v == SubSeq(s, j + 1, Len(s))
<1>2. /\ u \in Seq(S) /\ Len(u) = j - 1
      /\ \A i \in 1..(j - 1) : u[i] = s[i]
    BY <1>1, SubSeqProperties
<1>3. /\ v \in Seq(S) /\ Len(v) = Len(s) - j
      /\ \A i \in 1..(Len(s) - j) : v[i] = s[j + i]
    BY <1>1, SubSeqProperties
<1>4. RemoveAt(s, j) = u \o v
    BY DEF RemoveAt
<1> HIDE DEF u, v
<1>5. /\ u \o v \in Seq(S) /\ Len(u \o v) = Len(s) - 1
      /\ \A i \in 1..(Len(s) - 1) : (u \o v)[i] = IF i <= j - 1 THEN u[i] ELSE v[i - (j - 1)]
    <2>1. /\ u \o v \in Seq(S) /\ Len(u \o v) = Len(u) + Len(v)
          /\ \A i \in 1..(Len(u) + Len(v)) :
               (u \o v)[i] = IF i <= Len(u) THEN u[i] ELSE v[i - Len(u)]
        BY <1>2, <1>3, ConcatProperties
    <2>2. Len(u) + Len(v) = Len(s) - 1
        BY <1>1, <1>2, <1>3
    <2> QED BY <1>2, <2>1, <2>2
<1>6. ASSUME NEW i \in 1..(Len(s) - 1)
      PROVE  (u \o v)[i] = IF i < j THEN s[i] ELSE s[i + 1]
    <2>1. CASE i < j
        BY <1>1, <1>2, <1>5, <2>1
    <2>2. CASE ~(i < j)
        <3>1. PICK g \in 1..(Len(s) - j) : g = i - (j - 1)
            BY <1>1, <2>2
        <3>2. j + g = i + 1 /\ ~(i <= j - 1)
            BY <1>1, <2>2, <3>1
        <3>3. (u \o v)[i] = v[g]
            BY <1>5, <3>1, <3>2
        <3> QED BY <1>3, <2>2, <3>2, <3>3
    <2> QED BY <2>1, <2>2
<1>7. DOMAIN (u \o v) = 1..(Len(s) - 1)
    BY <1>5, LenProperties
<1> QED BY <1>1, <1>4, <1>5, <1>6, <1>7

\* Whatever is left was there, in the order it was there.
LEMMA RemovedComesFrom ==
    ASSUME NEW S, NEW s \in Seq(S), NEW j \in DOMAIN s
    PROVE  /\ \A i \in DOMAIN RemoveAt(s, j) : \E g \in DOMAIN s : RemoveAt(s, j)[i] = s[g]
           /\ \A i, h \in DOMAIN RemoveAt(s, j) : i < h =>
                \E g, f \in DOMAIN s :
                    g < f /\ RemoveAt(s, j)[i] = s[g] /\ RemoveAt(s, j)[h] = s[f]
<1>1. DOMAIN RemoveAt(s, j) = 1..(Len(s) - 1) /\ Len(s) \in Nat /\ DOMAIN s = 1..Len(s)
    BY Removed
<1> DEFINE From(i) == IF i < j THEN i ELSE i + 1
<1>2. \A i \in 1..(Len(s) - 1) : From(i) \in 1..Len(s) /\ RemoveAt(s, j)[i] = s[From(i)]
    BY <1>1, Removed
<1>3. \A i, h \in 1..(Len(s) - 1) : i < h => From(i) < From(h)
    BY <1>1
<1> HIDE DEF From
<1> QED BY <1>1, <1>2, <1>3

LEMMA Appended ==
    ASSUME NEW S, NEW s \in Seq(S), NEW m \in S
    PROVE  /\ Append(s, m) \in Seq(S) /\ Len(s) \in Nat
           /\ DOMAIN s = 1..Len(s) /\ DOMAIN Append(s, m) = 1..(Len(s) + 1)
           /\ \A i \in 1..Len(s) : Append(s, m)[i] = s[i]
           /\ Append(s, m)[Len(s) + 1] = m
BY AppendProperties, LenProperties

\* What a link holds after a send and after a delivery.
LEMMA SentHolds ==
    ASSUME NEW S, NEW C \in [Links -> Seq(S)], NEW n, NEW P, NEW m \in S
    PROVE  /\ Sent(C, n, P, m) \in [Links -> Seq(S)]
           /\ \A l \in Links :
                Sent(C, n, P, m)[l] =
                    IF l[1] = n /\ l[2] \in P THEN Append(C[l], m) ELSE C[l]
<1>1. \A l \in Links : Append(C[l], m) \in Seq(S)
    BY AppendProperties
<1> QED BY <1>1 DEF Sent

LEMMA TakenHolds ==
    ASSUME NEW S, NEW C \in [Links -> Seq(S)], NEW g \in Links, NEW j \in DOMAIN C[g]
    PROVE  LET D == [C EXCEPT ![g] = RemoveAt(@, j)] IN
           /\ D \in [Links -> Seq(S)]
           /\ \A l \in Links : D[l] = IF l = g THEN RemoveAt(C[l], j) ELSE C[l]
<1>1. RemoveAt(C[g], j) \in Seq(S)
    BY Removed
<1> QED BY <1>1

-----------------------------------------------------------------------------
(* What the sequences say of one fact, when an envelope is sent or taken.    *)
LEMMA RemovedSays ==
    ASSUME NEW S, NEW s \in Seq(S), NEW j \in DOMAIN s, NEW k
    PROVE  /\ NoneOf(s, k) => NoneOf(RemoveAt(s, j), k)
           /\ NothingAfter(s, k) => NothingAfter(RemoveAt(s, j), k)
<1>1. NoneOf(s, k) => NoneOf(RemoveAt(s, j), k)
    BY RemovedComesFrom DEF NoneOf
<1>2. ASSUME NothingAfter(s, k),
             NEW i \in DOMAIN RemoveAt(s, j), NEW h \in DOMAIN RemoveAt(s, j), i < h,
             RemoveAt(s, j)[i].type = "tombstone", RemoveAt(s, j)[i].key = k
      PROVE  ~Carries(RemoveAt(s, j)[h], k)
    <2>1. PICK g \in DOMAIN s, f \in DOMAIN s :
            g < f /\ RemoveAt(s, j)[i] = s[g] /\ RemoveAt(s, j)[h] = s[f]
        BY <1>2, RemovedComesFrom
    <2>2. s[g].type = "tombstone" /\ s[g].key = k
        BY <1>2, <2>1
    <2> QED BY <1>2, <2>1, <2>2 DEF NothingAfter
<1> QED BY <1>1, <1>2 DEF NothingAfter

\* Taking the first envelope: the rest follows it.
LEMMA FirstSays ==
    ASSUME NEW S, NEW s \in Seq(S), 1 \in DOMAIN s, NEW k, NEW c
    PROVE  LET t == RemoveAt(s, 1) IN
           /\ LastIs(s, k, c) => LastIs(t, k, c)
           /\ NoneOf(t, k) /\ ~Carries(s[1], k) => NoneOf(s, k)
           /\ LastIs(s, k, c) /\ NoneOf(t, k) /\ Carries(s[1], k) => s[1].fact.content = c
           /\ NothingAfter(s, k) /\ s[1].type = "tombstone" /\ s[1].key = k => NoneOf(t, k)
<1> DEFINE t == RemoveAt(s, 1)
<1>1. /\ Len(s) \in Nat /\ DOMAIN s = 1..Len(s) /\ DOMAIN t = 1..(Len(s) - 1)
      /\ \A i \in 1..(Len(s) - 1) : t[i] = s[i + 1]
    <2>1. /\ Len(s) \in Nat /\ DOMAIN s = 1..Len(s) /\ DOMAIN t = 1..(Len(s) - 1)
          /\ \A i \in 1..(Len(s) - 1) : t[i] = IF i < 1 THEN s[i] ELSE s[i + 1]
        BY Removed
    <2>2. \A i \in 1..(Len(s) - 1) : ~(i < 1)
        BY <2>1
    <2> QED BY <2>1, <2>2
<1>2. \A i \in DOMAIN s : i # 1 => i - 1 \in DOMAIN t /\ t[i - 1] = s[i]
    BY <1>1
<1>3. \A i \in DOMAIN t : i + 1 \in DOMAIN s /\ t[i] = s[i + 1] /\ 1 < i + 1
    BY <1>1
<1> HIDE DEF t
<1>4. ASSUME LastIs(s, k, c), NEW j \in DOMAIN t, Carries(t[j], k),
             \A i \in DOMAIN t : i > j => ~Carries(t[i], k)
      PROVE  t[j].fact.content = c
    <2>1. ASSUME NEW i \in DOMAIN s, i > j + 1 PROVE ~Carries(s[i], k)
        <3>1. i - 1 \in DOMAIN t /\ i - 1 > j /\ t[i - 1] = s[i]
            BY <1>1, <1>2, <2>1
        <3> QED BY <1>4, <3>1
    <2> QED BY <1>3, <1>4, <2>1 DEF LastIs
<1>5. ASSUME NoneOf(t, k), NEW i \in DOMAIN s, i # 1 PROVE ~Carries(s[i], k)
    BY <1>2, <1>5 DEF NoneOf
<1>6. NoneOf(t, k) /\ ~Carries(s[1], k) => NoneOf(s, k)
    BY <1>5 DEF NoneOf
<1>7. ASSUME LastIs(s, k, c), NoneOf(t, k), Carries(s[1], k)
      PROVE  s[1].fact.content = c
    <2>1. \A i \in DOMAIN s : i > 1 => ~Carries(s[i], k)
        BY <1>1, <1>5, <1>7
    <2> QED BY <1>7, <2>1 DEF LastIs
<1>8. ASSUME NothingAfter(s, k), s[1].type = "tombstone", s[1].key = k
      PROVE  NoneOf(t, k)
    BY <1>3, <1>8 DEF NothingAfter, NoneOf
<1> QED BY <1>4, <1>6, <1>7, <1>8 DEF t, LastIs

\* Sending an envelope that does not carry the fact, and one that does.
LEMMA AppendSays ==
    ASSUME NEW S, NEW s \in Seq(S), NEW m \in S, NEW k, NEW c
    PROVE  LET t == Append(s, m) IN
           /\ ~Carries(m, k) =>
                /\ LastIs(s, k, c) => LastIs(t, k, c)
                /\ NoneOf(s, k) => NoneOf(t, k)
                /\ NoneOf(t, k) => NoneOf(s, k)
                /\ NothingAfter(s, k) => NothingAfter(t, k)
           /\ Carries(m, k) =>
                /\ ~NoneOf(t, k)
                /\ m.fact.content = c => LastIs(t, k, c)
                /\ (\A i \in DOMAIN s : ~(s[i].type = "tombstone" /\ s[i].key = k)) =>
                     NothingAfter(t, k)
<1> DEFINE t == Append(s, m)
<1>1. /\ Len(s) \in Nat /\ DOMAIN s = 1..Len(s) /\ DOMAIN t = 1..(Len(s) + 1)
      /\ \A i \in 1..Len(s) : t[i] = s[i]
      /\ t[Len(s) + 1] = m
    BY Appended
<1> HIDE DEF t
<1>2. ASSUME NEW i \in DOMAIN t
      PROVE  (i \in DOMAIN s /\ t[i] = s[i]) \/ (i = Len(s) + 1 /\ t[i] = m)
    <2>1. i \in 1..Len(s) \/ i = Len(s) + 1
        BY <1>1
    <2> QED BY <1>1, <2>1
<1>3. \A i \in DOMAIN s : i \in DOMAIN t /\ t[i] = s[i] /\ i < Len(s) + 1
    BY <1>1
<1>4. ASSUME ~Carries(m, k)
      PROVE  /\ LastIs(s, k, c) => LastIs(t, k, c)
             /\ NoneOf(s, k) => NoneOf(t, k)
             /\ NoneOf(t, k) => NoneOf(s, k)
             /\ NothingAfter(s, k) => NothingAfter(t, k)
    <2>1. NoneOf(s, k) <=> NoneOf(t, k)
        BY <1>2, <1>3, <1>4 DEF NoneOf
    <2>2. LastIs(s, k, c) => LastIs(t, k, c)
        BY <1>2, <1>3, <1>4 DEF LastIs
    <2>3. ASSUME NothingAfter(s, k), NEW i \in DOMAIN t, NEW j \in DOMAIN t, i < j,
                 t[i].type = "tombstone", t[i].key = k
          PROVE  ~Carries(t[j], k)
        <3>1. CASE j \in DOMAIN s /\ t[j] = s[j]
            <4>1. i \in DOMAIN s /\ t[i] = s[i]
                BY <1>1, <2>3, <3>1
            <4> QED BY <2>3, <3>1, <4>1 DEF NothingAfter
        <3> QED BY <1>2, <1>4, <3>1
    <2> QED BY <2>1, <2>2, <2>3 DEF NothingAfter
<1>5. ASSUME Carries(m, k)
      PROVE  ~NoneOf(t, k) /\ (m.fact.content = c => LastIs(t, k, c))
    <2>1. Len(s) + 1 \in DOMAIN t
        BY <1>1
    <2>2. ~NoneOf(t, k)
        BY <1>1, <1>5, <2>1 DEF NoneOf
    <2> QED BY <1>1, <1>2, <1>3, <1>5, <2>1, <2>2 DEF LastIs
<1>6. ASSUME \A i \in DOMAIN s : ~(s[i].type = "tombstone" /\ s[i].key = k), Carries(m, k)
      PROVE  NothingAfter(t, k)
    BY <1>1, <1>2, <1>6 DEF NothingAfter
<1> QED BY <1>4, <1>5, <1>6 DEF t

-----------------------------------------------------------------------------
(* Records: facts, envelopes and what workers hold.                          *)
LEMMA FactIs ==
    /\ Absent \in Fact /\ Absent.content = 0
    /\ \A f \in Fact : f.content \in 0..MaxWrites /\ f.salience \in Nat
    /\ \A f \in Fact : Reinforced(f) \in Fact /\ Reinforced(f).content = f.content
                       /\ Reinforced(f).salience = MinOf(SalienceCap, f.salience + 1)
    /\ \A f, g \in Fact : Merged(f, g) \in Fact /\ Merged(f, g).content = g.content
                          /\ Merged(f, g).salience = MaxOf(f.salience, g.salience)
<1> SalienceCap \in Nat /\ MaxWrites \in Nat /\ Saliences \subseteq Nat
    BY BoundAssumption
<1>1. Absent \in Fact /\ Absent.content = 0
    BY DEF Absent, Fact
<1>2. \A f \in Fact : f.content \in 0..MaxWrites /\ f.salience \in Nat
    BY DEF Fact
<1>3. ASSUME NEW f \in Fact
      PROVE  Reinforced(f) \in Fact /\ Reinforced(f).content = f.content
             /\ Reinforced(f).salience = MinOf(SalienceCap, f.salience + 1)
    BY DEF Fact, Reinforced, MinOf
<1>4. ASSUME NEW f \in Fact, NEW g \in Fact
      PROVE  Merged(f, g) \in Fact /\ Merged(f, g).content = g.content
             /\ Merged(f, g).salience = MaxOf(f.salience, g.salience)
    BY DEF Fact, Merged, MaxOf
<1> QED BY <1>1, <1>2, <1>3, <1>4

LEMMA EnvelopeIs ==
    /\ \A k \in Keys, f \in Fact :
        /\ FactMsg(k, f) \in Message /\ FactMsg(k, f).type = "memory_fact"
        /\ FactMsg(k, f).key = k /\ FactMsg(k, f).fact = f
    /\ \A k \in Keys :
        /\ ReinforceMsg(k) \in Message /\ ReinforceMsg(k).type = "reinforce"
        /\ TombstoneMsg(k) \in Message /\ TombstoneMsg(k).type = "tombstone"
        /\ ReinforceMsg(k).key = k /\ TombstoneMsg(k).key = k
    /\ \A K \in SUBSET Keys : DigestMsg(K) \in Message /\ DigestMsg(K).type = "memory_digest"
    /\ \A m \in Message :
        /\ m.type \in {"memory_fact", "reinforce", "tombstone", "memory_digest"}
        /\ m.type # "memory_digest" => m.key \in Keys
        /\ m.type = "memory_fact" => m.fact \in Fact
        /\ m.type = "memory_digest" => m.keys \in SUBSET Keys
BY DEF FactMsg, ReinforceMsg, TombstoneMsg, DigestMsg, Message

LEMMA TaskIs ==
    /\ Free \in Task /\ Free.step = "free"
    /\ \A k \in Keys, f, g \in Fact :
        /\ Deciding(k, f, g) \in Task /\ Deciding(k, f, g).step = "deciding"
        /\ Deciding(k, f, g).key = k /\ Deciding(k, f, g).fact = f
        /\ Deciding(k, f, g).seen = g
    /\ \A p \in Nodes, F \in SUBSET (Keys \X Fact) :
        /\ Pushing(p, F) \in Task /\ Pushing(p, F).step = "pushing"
        /\ Pushing(p, F).peer = p /\ Pushing(p, F).missing = F
    /\ \A h \in Task :
        /\ h.step = "deciding" => h.key \in Keys /\ h.fact \in Fact /\ h.seen \in Fact
        /\ h.step = "pushing" =>
             /\ h.peer \in Nodes /\ h.missing \in SUBSET (Keys \X Fact)
             /\ \A F \in SUBSET (Keys \X Fact) :
                  /\ [h EXCEPT !.missing = F] \in Task
                  /\ [h EXCEPT !.missing = F].step = "pushing"
                  /\ [h EXCEPT !.missing = F].peer = h.peer
                  /\ [h EXCEPT !.missing = F].missing = F
<1>1. Free \in Task /\ Free.step = "free"
    BY DEF Free, Task
<1>2. ASSUME NEW k \in Keys, NEW f \in Fact, NEW g \in Fact
      PROVE  /\ Deciding(k, f, g) \in Task /\ Deciding(k, f, g).step = "deciding"
             /\ Deciding(k, f, g).key = k /\ Deciding(k, f, g).fact = f
             /\ Deciding(k, f, g).seen = g
    BY DEF Deciding, Task
<1>3. ASSUME NEW p \in Nodes, NEW F \in SUBSET (Keys \X Fact)
      PROVE  /\ Pushing(p, F) \in Task /\ Pushing(p, F).step = "pushing"
             /\ Pushing(p, F).peer = p /\ Pushing(p, F).missing = F
    BY DEF Pushing, Task
<1>4. ASSUME NEW h \in Task, h.step = "deciding"
      PROVE  h.key \in Keys /\ h.fact \in Fact /\ h.seen \in Fact
    BY <1>4 DEF Task
<1>5. ASSUME NEW h \in Task, h.step = "pushing"
      PROVE  /\ h.peer \in Nodes /\ h.missing \in SUBSET (Keys \X Fact)
             /\ h \in [step : {"pushing"}, peer : Nodes, missing : SUBSET (Keys \X Fact)]
    BY <1>5 DEF Task
<1>6. ASSUME NEW h \in Task, h.step = "pushing", NEW F \in SUBSET (Keys \X Fact)
      PROVE  /\ [h EXCEPT !.missing = F] \in Task
             /\ [h EXCEPT !.missing = F].step = "pushing"
             /\ [h EXCEPT !.missing = F].peer = h.peer
             /\ [h EXCEPT !.missing = F].missing = F
    <2> DEFINE P == SUBSET (Keys \X Fact)
    <2>1. h \in [step : {"pushing"}, peer : Nodes, missing : P] /\ F \in P
        BY <1>5, <1>6
    <2> HIDE DEF P
    <2>2. /\ [h EXCEPT !.missing = F] \in [step : {"pushing"}, peer : Nodes, missing : P]
          /\ [h EXCEPT !.missing = F].step = "pushing"
          /\ [h EXCEPT !.missing = F].peer = h.peer
          /\ [h EXCEPT !.missing = F].missing = F
        BY <2>1
    <2> QED BY <2>2 DEF P, Task
<1> QED BY <1>1, <1>2, <1>3, <1>4, <1>5, <1>6

\* Every step is one of these.
LEMMA Steps ==
    ASSUME [Next]_vars
    PROVE  \/ \E n \in Nodes, k \in Keys, s \in Saliences : StoreFact(n, k, s)
           \/ \E n \in Nodes, k \in Keys :
                \/ PublishFact(n, k) \/ SendReinforce(n, k)
                \/ Prune(n, k) \/ PublishTombstone(n, k)
           \/ \E n \in Nodes, k \in Keys : \E p \in Others(n) : PublishFactTo(n, k, p)
           \/ \E n \in Nodes : \E p \in Others(n) : SendDigests(n, p)
           \/ \E n \in Nodes, w \in Workers : \E p \in Others(n) :
                \E j \in DOMAIN net[<<p, n>>] :
                  \/ Drop(n, w, p, j) \/ OnFactRead(n, w, p, j) \/ OnReinforce(n, w, p, j)
                  \/ OnTombstone(n, w, p, j) \/ OnDigestRead(n, w, p, j)
           \/ \E n \in Nodes, w \in Workers : OnFactWrite(n, w) \/ OnDigestPush(n, w)
           \/ \E l \in Links : Lose(l)
           \/ UNCHANGED vars
BY DEF Next, Application, Work, Receive

-----------------------------------------------------------------------------
(* One entry of a table of tables is replaced, the others stay.              *)
LEMMA TableHolds ==
    ASSUME NEW A, NEW B, NEW S, NEW C \in [A -> [B -> S]],
           NEW a \in A, NEW b \in B, NEW x \in S
    PROVE  LET D == [C EXCEPT ![a][b] = x] IN
           /\ D \in [A -> [B -> S]] /\ D[a][b] = x
           /\ \A c \in A, e \in B : c # a \/ e # b => D[c][e] = C[c][e]
OBVIOUS

\* A handler's or an application's effect on one record, in the words of StoreOK.
Lawful(n, k, f) ==
    \/ f = Absent
    \/ f.content = facts[n][k].content /\ Has(n, k)
    \/ /\ Origin(k) # n /\ <<n, Origin(k)>> \notin Private
       /\ f.content \in 1..writes[k]
Rewrites(n, k) ==
    /\ \E f \in Fact : Put(n, k, f) /\ Lawful(n, k, f)
    /\ UNCHANGED <<writes, pruned>>

LEMMA HandlersRewrite ==
    ASSUME Typed, Works, NEW n \in Nodes, NEW w \in Workers
    PROVE  /\ OnFactWrite(n, w) =>
                handling[n][w].key \in Keys /\
                (Rewrites(n, handling[n][w].key) \/ UNCHANGED <<facts, writes, pruned>>)
           /\ \A p \in Others(n) : \A j \in DOMAIN net[<<p, n>>] :
                /\ OnReinforce(n, w, p, j) =>
                     net[<<p, n>>][j].key \in Keys /\ Origin(net[<<p, n>>][j].key) = n /\
                     (Rewrites(n, net[<<p, n>>][j].key) \/ UNCHANGED <<facts, writes, pruned>>)
                /\ OnTombstone(n, w, p, j) =>
                     net[<<p, n>>][j].key \in Keys /\ Origin(net[<<p, n>>][j].key) # n /\
                     Rewrites(n, net[<<p, n>>][j].key)
<1>1. /\ facts \in [Nodes -> [Keys -> Fact]] /\ handling[n][w] \in Task
      /\ net \in [Links -> Seq(Message)]
    BY DEF Typed, TypeOK
<1>2. ASSUME OnFactWrite(n, w)
      PROVE  handling[n][w].key \in Keys /\
             (Rewrites(n, handling[n][w].key) \/ UNCHANGED <<facts, writes, pruned>>)
    <2>1. PICK h : h = handling[n][w]
        OBVIOUS
    <2>2. /\ h.step = "deciding" /\ h.key \in Keys /\ h.fact \in Fact /\ h.seen \in Fact
          /\ facts[n][h.key] \in Fact
        BY <1>1, <1>2, <2>1, TaskIs DEF OnFactWrite
    <2>3. /\ Origin(h.key) # n /\ <<n, Origin(h.key)>> \notin Private
          /\ h.fact.content \in 1..writes[h.key]
        BY <2>1, <2>2 DEF Works, WorkOK
    <2>4. UNCHANGED <<writes, pruned>>
        BY <1>2 DEF OnFactWrite
    <2>5. \/ Put(n, h.key, h.fact)
          \/ Put(n, h.key, Merged(h.seen, h.fact))
          \/ Has(n, h.key) /\ Put(n, h.key, Reinforced(facts[n][h.key]))
          \/ UNCHANGED facts
        BY <1>2, <2>1 DEF OnFactWrite
    <2>6. ASSUME Put(n, h.key, h.fact) PROVE Rewrites(n, h.key)
        BY <2>2, <2>3, <2>4, <2>6 DEF Rewrites, Lawful
    <2>7. ASSUME Put(n, h.key, Merged(h.seen, h.fact)) PROVE Rewrites(n, h.key)
        <3>1. Merged(h.seen, h.fact) \in Fact /\ Merged(h.seen, h.fact).content = h.fact.content
            BY <2>2, FactIs
        <3> QED BY <2>3, <2>4, <2>7, <3>1 DEF Rewrites, Lawful
    <2>8. ASSUME Has(n, h.key), Put(n, h.key, Reinforced(facts[n][h.key]))
          PROVE  Rewrites(n, h.key)
        <3>1. /\ Reinforced(facts[n][h.key]) \in Fact
              /\ Reinforced(facts[n][h.key]).content = facts[n][h.key].content
            BY <2>2, FactIs
        <3> QED BY <2>4, <2>8, <3>1 DEF Rewrites, Lawful
    <2> QED BY <2>1, <2>2, <2>4, <2>5, <2>6, <2>7, <2>8
<1>3. ASSUME NEW p \in Others(n), NEW j \in DOMAIN net[<<p, n>>], OnReinforce(n, w, p, j)
      PROVE  net[<<p, n>>][j].key \in Keys /\ Origin(net[<<p, n>>][j].key) = n /\
             (Rewrites(n, net[<<p, n>>][j].key) \/ UNCHANGED <<facts, writes, pruned>>)
    <2>1. PICK m : m = net[<<p, n>>][j]
        OBVIOUS
    <2>2. m \in Message
        BY <1>1, <2>1, LinkIs DEF Others
    <2>3. m.type = "reinforce" /\ ~Ignored(p, n, m)
        BY <1>3, <2>1 DEF OnReinforce
    <2>4. m.key \in Keys /\ Origin(m.key) = n
        BY <2>2, <2>3, EnvelopeIs DEF Ignored
    <2>5. /\ UNCHANGED <<writes, pruned>>
          /\ \/ Has(n, m.key) /\ Put(n, m.key, Reinforced(facts[n][m.key]))
             \/ UNCHANGED facts
        BY <1>3, <2>1 DEF OnReinforce
    <2>6. ASSUME Has(n, m.key), Put(n, m.key, Reinforced(facts[n][m.key]))
          PROVE  Rewrites(n, m.key)
        <3>1. /\ Reinforced(facts[n][m.key]) \in Fact
              /\ Reinforced(facts[n][m.key]).content = facts[n][m.key].content
            BY <1>1, <2>4, FactIs
        <3> QED BY <2>5, <2>6, <3>1 DEF Rewrites, Lawful
    <2> QED BY <2>1, <2>4, <2>5, <2>6
<1>4. ASSUME NEW p \in Others(n), NEW j \in DOMAIN net[<<p, n>>], OnTombstone(n, w, p, j)
      PROVE  net[<<p, n>>][j].key \in Keys /\ Origin(net[<<p, n>>][j].key) # n /\
             Rewrites(n, net[<<p, n>>][j].key)
    <2>1. PICK m : m = net[<<p, n>>][j]
        OBVIOUS
    <2>2. m \in Message
        BY <1>1, <2>1, LinkIs DEF Others
    <2>3. m.type = "tombstone" /\ ~Ignored(p, n, m)
        BY <1>4, <2>1 DEF OnTombstone
    <2>4. m.key \in Keys /\ Origin(m.key) # n
        BY <2>2, <2>3, EnvelopeIs DEF Ignored
    <2>5. UNCHANGED <<writes, pruned>> /\ Put(n, m.key, Absent)
        BY <1>4, <2>1 DEF OnTombstone
    <2> QED BY <2>1, <2>4, <2>5, FactIs DEF Rewrites, Lawful
<1> QED BY <1>2, <1>3, <1>4

\* What a step does to the stores, the writes and what was pruned.
LEMMA FactsKinds ==
    ASSUME [Next]_vars
    PROVE  \/ UNCHANGED <<facts, writes, pruned>>
           \/ \E n \in Nodes, k \in Keys, s \in Saliences : StoreFact(n, k, s)
           \/ \E n \in Nodes, k \in Keys : Prune(n, k)
           \/ \E n \in Nodes, w \in Workers : OnFactWrite(n, w)
           \/ \E n \in Nodes, w \in Workers : \E p \in Others(n) :
                \E j \in DOMAIN net[<<p, n>>] :
                  OnReinforce(n, w, p, j) \/ OnTombstone(n, w, p, j)
<1>1. ASSUME NEW n \in Nodes, NEW k \in Keys,
             PublishFact(n, k) \/ SendReinforce(n, k) \/ PublishTombstone(n, k)
      PROVE  UNCHANGED <<facts, writes, pruned>>
    BY <1>1 DEF PublishFact, SendReinforce, PublishTombstone
<1>2. ASSUME NEW n \in Nodes, NEW k \in Keys, NEW p \in Others(n), PublishFactTo(n, k, p)
      PROVE  UNCHANGED <<facts, writes, pruned>>
    BY <1>2 DEF PublishFactTo
<1>3. ASSUME NEW n \in Nodes, NEW p \in Others(n), SendDigests(n, p)
      PROVE  UNCHANGED <<facts, writes, pruned>>
    BY <1>3 DEF SendDigests
<1>4. ASSUME NEW n \in Nodes, NEW w \in Workers, NEW p \in Others(n),
             NEW j \in DOMAIN net[<<p, n>>],
             Drop(n, w, p, j) \/ OnFactRead(n, w, p, j) \/ OnDigestRead(n, w, p, j)
      PROVE  UNCHANGED <<facts, writes, pruned>>
    BY <1>4 DEF Drop, OnFactRead, OnDigestRead
<1>5. ASSUME NEW n \in Nodes, NEW w \in Workers, OnDigestPush(n, w)
      PROVE  UNCHANGED <<facts, writes, pruned>>
    BY <1>5 DEF OnDigestPush
<1>6. ASSUME NEW l \in Links, Lose(l) PROVE UNCHANGED <<facts, writes, pruned>>
    BY <1>6 DEF Lose
<1>7. UNCHANGED vars => UNCHANGED <<facts, writes, pruned>>
    BY DEF vars
<1> QED BY <1>1, <1>2, <1>3, <1>4, <1>5, <1>6, <1>7, Steps

LEMMA StoreKinds ==
    ASSUME Typed, Works, [Next]_vars
    PROVE  \/ UNCHANGED <<facts, writes, pruned>>
           \/ \E n \in Nodes, k \in Keys, s \in Saliences : StoreFact(n, k, s)
           \/ \E n \in Nodes, k \in Keys : Prune(n, k)
           \/ \E n \in Nodes, k \in Keys : Rewrites(n, k)
BY FactsKinds, HandlersRewrite

LEMMA Grows ==
    ASSUME Typed, Works, [Next]_vars
    PROVE  /\ \A k \in Keys : /\ writes[k] \in Nat /\ writes'[k] \in Nat
                              /\ writes[k] <= writes'[k]
           /\ writes' \in [Keys -> 0..MaxWrites]
           /\ \A n \in Nodes : pruned[n] \subseteq pruned'[n]
           /\ pruned' \in [Nodes -> SUBSET Keys]
<1>1. /\ writes \in [Keys -> 0..MaxWrites] /\ MaxWrites \in Nat
      /\ pruned \in [Nodes -> SUBSET Keys]
    BY BoundAssumption DEF Typed, TypeOK
<1>2. CASE UNCHANGED <<writes, pruned>>
    BY <1>1, <1>2
<1>3. ASSUME NEW n \in Nodes, NEW k \in Keys, NEW s \in Saliences, StoreFact(n, k, s)
      PROVE  /\ writes' \in [Keys -> 0..MaxWrites]
             /\ \A g \in Keys : writes[g] <= writes'[g]
             /\ UNCHANGED pruned
    BY <1>1, <1>3 DEF StoreFact
<1>4. ASSUME NEW n \in Nodes, NEW k \in Keys, Prune(n, k)
      PROVE  /\ UNCHANGED writes /\ pruned' \in [Nodes -> SUBSET Keys]
             /\ \A o \in Nodes : pruned[o] \subseteq pruned'[o]
    BY <1>1, <1>4 DEF Prune
<1> QED BY <1>1, <1>2, <1>3, <1>4, StoreKinds DEF Rewrites

-----------------------------------------------------------------------------
(* The stores.                                                               *)
LEMMA StoresStep ==
    ASSUME Typed, Works, Stores, [Next]_vars
    PROVE  facts' \in [Nodes -> [Keys -> Fact]] /\ Stores'
<1>1. /\ facts \in [Nodes -> [Keys -> Fact]] /\ writes \in [Keys -> 0..MaxWrites]
      /\ pruned \in [Nodes -> SUBSET Keys] /\ MaxWrites \in Nat
    BY BoundAssumption DEF Typed, TypeOK
<1>2. \A k \in Keys : writes[k] \in Nat /\ writes'[k] \in Nat
    BY Grows
<1>3. \A o \in Nodes, g \in Keys : facts[o][g] \in Fact /\ facts[o][g].content \in Nat
    BY <1>1, FactIs
<1>4. CASE UNCHANGED <<facts, writes, pruned>>
    BY <1>1, <1>4 DEF Stores, StoreOK, Has
<1>5. ASSUME NEW n \in Nodes, NEW k \in Keys, NEW s \in Saliences, StoreFact(n, k, s)
      PROVE  facts' \in [Nodes -> [Keys -> Fact]] /\ Stores'
    <2>1. PICK f : f = [content |-> writes'[k], salience |-> s]
        OBVIOUS
    <2>2. /\ Origin(k) = n /\ k \notin pruned[n] /\ writes[k] < MaxWrites
          /\ writes' = [writes EXCEPT ![k] = @ + 1] /\ UNCHANGED pruned
          /\ facts' = [facts EXCEPT ![n][k] = f]
        BY <1>5, <2>1 DEF StoreFact, Put
    <2>3. writes'[k] = writes[k] + 1 /\ \A g \in Keys : writes[g] <= writes'[g]
        BY <1>1, <1>2, <2>2
    <2>4. f \in Fact /\ f.content = writes'[k] /\ f.content >= 1
        BY <1>1, <1>2, <2>1, <2>2, <2>3, BoundAssumption DEF Fact
    <2>5. /\ facts' \in [Nodes -> [Keys -> Fact]] /\ facts'[n][k] = f
          /\ \A o \in Nodes, g \in Keys : o # n \/ g # k => facts'[o][g] = facts[o][g]
        BY <1>1, <2>2, <2>4, TableHolds
    <2>6. ASSUME NEW o \in Nodes, NEW g \in Keys PROVE StoreOK(o, g)'
        <3>1. CASE o = n /\ g = k
            BY <1>2, <2>2, <2>4, <2>5, <3>1 DEF StoreOK, Has
        <3>2. CASE ~(o = n /\ g = k)
            <4>1. facts'[o][g] = facts[o][g] /\ (Origin(g) = o => writes'[g] = writes[g])
                BY <1>1, <2>2, <2>5, <3>2
            <4> QED BY <1>2, <1>3, <2>2, <2>3, <4>1 DEF Stores, StoreOK, Has
        <3> QED BY <3>1, <3>2
    <2> QED BY <2>5, <2>6 DEF Stores
<1>6. ASSUME NEW n \in Nodes, NEW k \in Keys, Prune(n, k)
      PROVE  facts' \in [Nodes -> [Keys -> Fact]] /\ Stores'
    <2>1. /\ facts' = [facts EXCEPT ![n][k] = Absent] /\ UNCHANGED writes
          /\ pruned' = [pruned EXCEPT ![n] = @ \cup {k}]
        BY <1>6 DEF Prune, Put
    <2>2. /\ facts' \in [Nodes -> [Keys -> Fact]] /\ facts'[n][k] = Absent
          /\ \A o \in Nodes, g \in Keys : o # n \/ g # k => facts'[o][g] = facts[o][g]
        BY <1>1, <2>1, FactIs, TableHolds
    <2>3. \A o \in Nodes, g \in Keys : o # n \/ g # k => (g \in pruned'[o] <=> g \in pruned[o])
        BY <1>1, <2>1
    <2>4. ASSUME NEW o \in Nodes, NEW g \in Keys PROVE StoreOK(o, g)'
        <3>1. CASE o = n /\ g = k
            BY <1>2, <2>2, <3>1, FactIs DEF StoreOK, Has
        <3>2. CASE o # n \/ g # k
            BY <2>1, <2>2, <2>3, <3>2 DEF Stores, StoreOK, Has
        <3> QED BY <3>1, <3>2
    <2> QED BY <2>2, <2>4 DEF Stores
<1>7. ASSUME NEW n \in Nodes, NEW k \in Keys, Rewrites(n, k)
      PROVE  facts' \in [Nodes -> [Keys -> Fact]] /\ Stores'
    <2>1. PICK f \in Fact : facts' = [facts EXCEPT ![n][k] = f] /\ Lawful(n, k, f)
        BY <1>7 DEF Rewrites, Put
    <2>2. UNCHANGED <<writes, pruned>>
        BY <1>7 DEF Rewrites
    <2>3. /\ facts' \in [Nodes -> [Keys -> Fact]] /\ facts'[n][k] = f
          /\ \A o \in Nodes, g \in Keys : o # n \/ g # k => facts'[o][g] = facts[o][g]
        BY <1>1, <2>1, TableHolds
    <2>4. StoreOK(n, k) /\ f.content \in Nat
        BY FactIs DEF Stores
    <2>5. StoreOK(n, k)'
        <3>1. CASE f = Absent
            BY <1>2, <2>2, <2>3, <3>1, FactIs DEF StoreOK, Has
        <3>2. CASE f.content = facts[n][k].content /\ Has(n, k)
            BY <1>2, <2>2, <2>3, <2>4, <3>2 DEF StoreOK, Has
        <3>3. CASE /\ Origin(k) # n /\ <<n, Origin(k)>> \notin Private
                   /\ f.content \in 1..writes[k]
            BY <1>2, <2>2, <2>3, <3>3 DEF StoreOK, Has
        <3> QED BY <2>1, <3>1, <3>2, <3>3 DEF Lawful
    <2>6. ASSUME NEW o \in Nodes, NEW g \in Keys, o # n \/ g # k PROVE StoreOK(o, g)'
        BY <2>2, <2>3, <2>6 DEF Stores, StoreOK, Has
    <2> QED BY <2>3, <2>5, <2>6 DEF Stores
<1> QED BY <1>4, <1>5, <1>6, <1>7, StoreKinds

\* What was broadcast was written before.
LEMMA BroadcastStep ==
    ASSUME Typed, Works, Stores, Broadcast, [Next]_vars
    PROVE  announced' \in [Keys -> 0..MaxWrites] /\ Broadcast'
<1>1. announced \in [Keys -> 0..MaxWrites] /\ facts \in [Nodes -> [Keys -> Fact]]
    BY DEF Typed, TypeOK
<1>2. \A k \in Keys : /\ writes[k] \in Nat /\ writes'[k] \in Nat /\ announced[k] \in Nat
                      /\ writes[k] <= writes'[k] /\ announced[k] <= writes[k]
    BY <1>1, Grows, BoundAssumption DEF Broadcast
<1>3. ASSUME NEW n \in Nodes, NEW k \in Keys, PublishFact(n, k)
      PROVE  announced' \in [Keys -> 0..MaxWrites] /\ Broadcast'
    <2>1. /\ announced' = [announced EXCEPT ![k] = facts[n][k].content]
          /\ UNCHANGED writes
        BY <1>3 DEF PublishFact
    <2>2. facts[n][k].content \in 0..MaxWrites /\ facts[n][k].content <= writes[k]
        <3>1. facts[n][k] \in Fact
            BY <1>1
        <3>2. StoreOK(n, k)
            BY DEF Stores
        <3> QED BY <3>1, <3>2, FactIs DEF StoreOK
    <2> QED BY <1>1, <1>2, <2>1, <2>2 DEF Broadcast
<1>4. ASSUME UNCHANGED announced
      PROVE  announced' \in [Keys -> 0..MaxWrites] /\ Broadcast'
    BY <1>1, <1>2, <1>4 DEF Broadcast
<1>5. \/ UNCHANGED announced
      \/ \E n \in Nodes, k \in Keys : PublishFact(n, k)
    <2>1. ASSUME NEW n \in Nodes, NEW k \in Keys,
                 \/ SendReinforce(n, k) \/ Prune(n, k) \/ PublishTombstone(n, k)
                 \/ \E s \in Saliences : StoreFact(n, k, s)
                 \/ \E p \in Others(n) : PublishFactTo(n, k, p)
          PROVE  UNCHANGED announced
        BY <2>1 DEF SendReinforce, Prune, PublishTombstone, StoreFact, PublishFactTo
    <2>2. ASSUME NEW n \in Nodes, NEW p \in Others(n), SendDigests(n, p)
          PROVE  UNCHANGED announced
        BY <2>2 DEF SendDigests
    <2>3. ASSUME NEW n \in Nodes, NEW w \in Workers, NEW p \in Others(n),
                 NEW j \in DOMAIN net[<<p, n>>],
                 \/ Drop(n, w, p, j) \/ OnFactRead(n, w, p, j) \/ OnReinforce(n, w, p, j)
                 \/ OnTombstone(n, w, p, j) \/ OnDigestRead(n, w, p, j)
          PROVE  UNCHANGED announced
        BY <2>3 DEF Drop, OnFactRead, OnReinforce, OnTombstone, OnDigestRead
    <2>4. ASSUME NEW n \in Nodes, NEW w \in Workers, OnFactWrite(n, w) \/ OnDigestPush(n, w)
          PROVE  UNCHANGED announced
        BY <2>4 DEF OnFactWrite, OnDigestPush
    <2>5. ASSUME NEW l \in Links, Lose(l) PROVE UNCHANGED announced
        BY <2>5 DEF Lose
    <2>6. UNCHANGED vars => UNCHANGED announced
        BY DEF vars
    <2> QED BY <2>1, <2>2, <2>3, <2>4, <2>5, <2>6, Steps
<1> QED BY <1>3, <1>4, <1>5

-----------------------------------------------------------------------------
(* The mail.  A step sends an envelope, takes one away, or leaves the links. *)
Sends(n, P, m) ==
    /\ net' = Sent(net, n, P, m)
    /\ P \subseteq Others(n) /\ m \in Message
    /\ \A l \in Links : l[1] = n => MailOK(l, m)
Removes(l, j) == net' = [net EXCEPT ![l] = RemoveAt(@, j)]

LEMMA FactsAreSendable ==
    ASSUME Typed, Stores, NEW n \in Nodes, NEW k \in Keys, Origin(k) = n, Has(n, k)
    PROVE  /\ FactMsg(k, facts[n][k]) \in Message
           /\ facts[n][k].content = writes[k] /\ k \notin pruned[n]
           /\ \A l \in Links : l[1] = n => MailOK(l, FactMsg(k, facts[n][k]))
<1>1. facts[n][k] \in Fact /\ writes[k] \in Nat
    BY BoundAssumption DEF Typed, TypeOK
<1>2. StoreOK(n, k)
    BY DEF Stores
<1>3. facts[n][k].content \in 1..writes[k] /\ facts[n][k].content = writes[k]
    BY <1>1, <1>2, FactIs DEF StoreOK
<1>4. \A l \in Links : l[1] = n => MailOK(l, FactMsg(k, facts[n][k]))
    BY <1>1, <1>3, EnvelopeIs DEF MailOK
<1> QED BY <1>1, <1>2, <1>3, <1>4, EnvelopeIs DEF StoreOK

LEMMA Pushes ==
    ASSUME Typed, Works, NEW n \in Nodes, NEW w \in Workers, OnDigestPush(n, w)
    PROVE  \/ UNCHANGED net
           \/ \E p \in Syncers \cap Others(n) : \E m \in Message : Sends(n, {p}, m)
<1>1. PICK h : h = handling[n][w]
    OBVIOUS
<1>2. /\ h \in Task /\ h.step = "pushing" /\ h.peer \in Nodes
      /\ h.missing \in SUBSET (Keys \X Fact)
    BY <1>1, TaskIs DEF OnDigestPush, Typed
<1>3. /\ h.peer \in Syncers /\ h.peer \in Others(n)
      /\ \A x \in h.missing : Origin(x[1]) = n /\ x[2].content \in 1..writes[x[1]]
    BY <1>1, <1>2 DEF Works, WorkOK, Others
<1>4. \/ UNCHANGED net
      \/ \E x \in h.missing : net' = Sent(net, n, {h.peer}, FactMsg(x[1], x[2]))
    BY <1>1 DEF OnDigestPush
<1>5. ASSUME NEW x \in h.missing, net' = Sent(net, n, {h.peer}, FactMsg(x[1], x[2]))
      PROVE  Sends(n, {h.peer}, FactMsg(x[1], x[2])) /\ FactMsg(x[1], x[2]) \in Message
    <2>1. x[1] \in Keys /\ x[2] \in Fact
        BY <1>2
    <2>2. \A l \in Links : l[1] = n => MailOK(l, FactMsg(x[1], x[2]))
        BY <1>3, <2>1, EnvelopeIs DEF MailOK
    <2> QED BY <1>3, <1>5, <2>1, <2>2, EnvelopeIs DEF Sends
<1> QED BY <1>3, <1>4, <1>5

LEMMA SendKinds ==
    ASSUME Typed, Stores, NEW n \in Nodes, NEW k \in Keys, NEW p \in Others(n)
    PROVE  /\ PublishFact(n, k) => Sends(n, Others(n), FactMsg(k, facts[n][k]))
           /\ PublishFactTo(n, k, p) => Sends(n, {p}, FactMsg(k, facts[n][k]))
           /\ SendReinforce(n, k) => Sends(n, {Origin(k)}, ReinforceMsg(k))
           /\ PublishTombstone(n, k) => Sends(n, Others(n), TombstoneMsg(k))
<1>1. ASSUME PublishFact(n, k) PROVE Sends(n, Others(n), FactMsg(k, facts[n][k]))
    BY <1>1, FactsAreSendable DEF PublishFact, Sends
<1>2. ASSUME PublishFactTo(n, k, p) PROVE Sends(n, {p}, FactMsg(k, facts[n][k]))
    BY <1>2, FactsAreSendable DEF PublishFactTo, Sends
<1>3. ASSUME SendReinforce(n, k) PROVE Sends(n, {Origin(k)}, ReinforceMsg(k))
    BY <1>3, OriginIs, EnvelopeIs DEF SendReinforce, Sends, Others, MailOK
<1>4. ASSUME PublishTombstone(n, k) PROVE Sends(n, Others(n), TombstoneMsg(k))
    BY <1>4, EnvelopeIs DEF PublishTombstone, Sends, MailOK
<1> QED BY <1>1, <1>2, <1>3, <1>4

LEMMA DigestIsSent ==
    ASSUME NEW n \in Nodes, NEW p \in Others(n), SendDigests(n, p)
    PROVE  Sends(n, {p}, DigestMsg(Digested(n)))
<1>1. Digested(n) \in SUBSET Keys
    BY DEF Digested
<1>2. /\ DigestMsg(Digested(n)) \in Message
      /\ DigestMsg(Digested(n)).type = "memory_digest"
    BY <1>1, EnvelopeIs
<1>3. net' = Sent(net, n, {p}, DigestMsg(Digested(n))) /\ n \in Syncers
    BY DEF SendDigests
<1> QED BY <1>2, <1>3 DEF Sends, MailOK

LEMMA NetKinds ==
    ASSUME Typed, Works, Stores, [Next]_vars
    PROVE  \/ UNCHANGED net
           \/ \E n \in Nodes : \E P \in SUBSET Others(n), m \in Message : Sends(n, P, m)
           \/ \E l \in Links : \E j \in DOMAIN net[l] : Removes(l, j)
<1>1. ASSUME NEW n \in Nodes, NEW k \in Keys,
             Prune(n, k) \/ \E s \in Saliences : StoreFact(n, k, s)
      PROVE  UNCHANGED net
    BY <1>1 DEF Prune, StoreFact
<1>2. ASSUME NEW n \in Nodes, NEW k \in Keys, NEW p \in Others(n),
             \/ PublishFact(n, k) \/ PublishFactTo(n, k, p)
             \/ SendReinforce(n, k) \/ PublishTombstone(n, k)
      PROVE  \E P \in SUBSET Others(n), m \in Message : Sends(n, P, m)
    <2>1. \E P, m : Sends(n, P, m)
        BY <1>2, SendKinds
    <2> QED BY <2>1 DEF Sends
<1>3. ASSUME NEW n \in Nodes, NEW k \in Keys,
             PublishFact(n, k) \/ SendReinforce(n, k) \/ PublishTombstone(n, k)
      PROVE  \/ UNCHANGED net
             \/ \E P \in SUBSET Others(n), m \in Message : Sends(n, P, m)
    <2>1. CASE Others(n) # {}
        BY <1>2, <1>3, <2>1
    <2>2. CASE Others(n) = {}
        <3>1. ~SendReinforce(n, k)
            BY <2>2, OriginIs DEF SendReinforce, Others
        <3>2. \E m : net' = Sent(net, n, {}, m)
            BY <1>3, <2>2, <3>1 DEF PublishFact, PublishTombstone
        <3>3. net \in [Links -> Seq(Message)]
            BY DEF Typed, TypeOK
        <3>4. \A m : Sent(net, n, {}, m) = net
            BY <3>3 DEF Sent
        <3> QED BY <3>2, <3>4
    <2> QED BY <2>1, <2>2
<1>4. ASSUME NEW n \in Nodes, NEW p \in Others(n), SendDigests(n, p)
      PROVE  \E P \in SUBSET Others(n), m \in Message : Sends(n, P, m)
    BY <1>4, DigestIsSent DEF Sends
<1>5. ASSUME NEW n \in Nodes, NEW w \in Workers, NEW p \in Others(n),
             NEW j \in DOMAIN net[<<p, n>>],
             \/ Drop(n, w, p, j) \/ OnFactRead(n, w, p, j) \/ OnReinforce(n, w, p, j)
             \/ OnTombstone(n, w, p, j) \/ OnDigestRead(n, w, p, j)
      PROVE  <<p, n>> \in Links /\ Removes(<<p, n>>, j)
    BY <1>5, LinkIs DEF Others, Drop, OnFactRead, OnReinforce, OnTombstone, OnDigestRead,
                        Take, Removes
<1>6. ASSUME NEW n \in Nodes, NEW w \in Workers, OnFactWrite(n, w) PROVE UNCHANGED net
    BY <1>6 DEF OnFactWrite
<1>7. ASSUME NEW n \in Nodes, NEW w \in Workers, OnDigestPush(n, w)
      PROVE  \/ UNCHANGED net
             \/ \E P \in SUBSET Others(n), m \in Message : Sends(n, P, m)
    BY <1>7, Pushes
<1>8. ASSUME NEW l \in Links, Lose(l) PROVE \E j \in DOMAIN net[l] : Removes(l, j)
    BY <1>8 DEF Lose, Removes
<1>9. UNCHANGED vars => UNCHANGED net
    BY DEF vars
<1> QED BY <1>1, <1>2, <1>3, <1>4, <1>5, <1>6, <1>7, <1>8, <1>9, Steps

LEMMA MailStep ==
    ASSUME Typed, Works, Stores, Mail, [Next]_vars
    PROVE  net' \in [Links -> Seq(Message)] /\ Mail'
<1>1. net \in [Links -> Seq(Message)]
    BY DEF Typed, TypeOK
<1>2. ASSUME NEW l \in Links, NEW m \in Message, MailOK(l, m) PROVE MailOK(l, m)'
    <2>1. l[1] \in Nodes
        BY DEF Links
    <2> QED BY <1>2, <2>1, Grows, EnvelopeIs DEF MailOK
<1>3. \A l \in Links : \A j \in DOMAIN net[l] : net[l][j] \in Message /\ MailOK(l, net[l][j])
    BY <1>1, ElementOfSeq, LenProperties DEF Mail
<1>4. ASSUME \A l \in Links : \A i \in DOMAIN net'[l] :
                net'[l][i] \in Message /\ MailOK(l, net'[l][i])
      PROVE  Mail'
    <2>1. ASSUME NEW l \in Links, NEW i \in DOMAIN net'[l], NEW m, m = net'[l][i]
          PROVE  MailOK(l, m)'
        BY <1>2, <1>4, <2>1
    <2> QED BY <2>1 DEF Mail, MailOK
<1>5. CASE UNCHANGED net
    BY <1>1, <1>3, <1>5, <1>4
<1>6. ASSUME NEW n \in Nodes, NEW P \in SUBSET Others(n), NEW m \in Message, Sends(n, P, m)
      PROVE  net' \in [Links -> Seq(Message)] /\ Mail'
    <2>1. /\ net' \in [Links -> Seq(Message)]
          /\ \A l \in Links : net'[l] = IF l[1] = n /\ l[2] \in P THEN Append(net[l], m)
                                                                  ELSE net[l]
        BY <1>1, <1>6, SentHolds DEF Sends
    <2>2. ASSUME NEW l \in Links, NEW i \in DOMAIN net'[l]
          PROVE  net'[l][i] \in Message /\ MailOK(l, net'[l][i])
        <3>1. net[l] \in Seq(Message)
            BY <1>1
        <3>2. CASE l[1] = n /\ l[2] \in P
            <4>1. net'[l] = Append(net[l], m)
                BY <2>1, <3>2
            <4>2. net'[l][i] = m \/ \E j \in DOMAIN net[l] : net'[l][i] = net[l][j]
                <5>1. i \in 1..Len(net[l]) \/ i = Len(net[l]) + 1
                    BY <3>1, <4>1, Appended
                <5> QED BY <3>1, <4>1, <5>1, Appended
            <4>3. MailOK(l, m) /\ m \in Message
                BY <1>6, <3>2 DEF Sends
            <4> QED BY <1>3, <4>2, <4>3
        <3>3. CASE ~(l[1] = n /\ l[2] \in P)
            BY <1>3, <2>1, <3>3
        <3> QED BY <3>2, <3>3
    <2> QED BY <1>4, <2>1, <2>2
<1>7. ASSUME NEW l \in Links, NEW j \in DOMAIN net[l], Removes(l, j)
      PROVE  net' \in [Links -> Seq(Message)] /\ Mail'
    <2>1. /\ net' \in [Links -> Seq(Message)]
          /\ \A g \in Links : net'[g] = IF g = l THEN RemoveAt(net[g], j) ELSE net[g]
        BY <1>1, <1>7, TakenHolds DEF Removes
    <2>2. ASSUME NEW g \in Links, NEW i \in DOMAIN net'[g]
          PROVE  net'[g][i] \in Message /\ MailOK(g, net'[g][i])
        <3>1. \E h \in DOMAIN net[g] : net'[g][i] = net[g][h]
            <4>1. CASE g = l
                BY <1>1, <2>1, <4>1, RemovedComesFrom
            <4>2. CASE g # l
                BY <2>1, <4>2
            <4> QED BY <4>1, <4>2
        <3> QED BY <1>3, <3>1
    <2> QED BY <1>4, <2>1, <2>2
<1> QED BY <1>5, <1>6, <1>7, NetKinds

-----------------------------------------------------------------------------
(* The workers.                                                              *)
LEMMA FactIsRead ==
    ASSUME Typed, Mail, NEW n \in Nodes, NEW w \in Workers, NEW p \in Others(n),
           NEW j \in DOMAIN net[<<p, n>>], OnFactRead(n, w, p, j)
    PROVE  LET m == net[<<p, n>>][j] IN
           /\ m.type = "memory_fact" /\ m.key \in Keys /\ m.fact \in Fact
           /\ Origin(m.key) = p /\ <<n, p>> \notin Private
           /\ m.fact.content \in 1..writes[m.key]
           /\ facts[n][m.key] \in Fact
           /\ handling' = [handling EXCEPT ![n][w] = Deciding(m.key, m.fact, facts[n][m.key])]
<1>1. PICK m : m = net[<<p, n>>][j]
    OBVIOUS
<1>2. <<p, n>> \in Links /\ <<p, n>>[1] = p
    BY LinkIs DEF Others
<1>3. m \in Message /\ MailOK(<<p, n>>, m)
    BY <1>1, <1>2, ElementOfSeq, LenProperties DEF Mail, Typed, TypeOK
<1>4. /\ m.type = "memory_fact" /\ ~Ignored(p, n, m)
      /\ handling' = [handling EXCEPT ![n][w] = Deciding(m.key, m.fact, facts[n][m.key])]
    BY <1>1 DEF OnFactRead
<1>5. m.key \in Keys /\ m.fact \in Fact
    BY <1>3, <1>4, EnvelopeIs
<1>6. facts[n][m.key] \in Fact
    BY <1>5 DEF Typed, TypeOK
<1> QED BY <1>1, <1>2, <1>3, <1>4, <1>5, <1>6 DEF MailOK, Ignored

LEMMA DigestIsRead ==
    ASSUME Typed, Mail, Stores, NEW n \in Nodes, NEW w \in Workers, NEW p \in Others(n),
           NEW j \in DOMAIN net[<<p, n>>], OnDigestRead(n, w, p, j)
    PROVE  \E F \in SUBSET (Keys \X Fact) :
             /\ handling' = [handling EXCEPT ![n][w] = Pushing(p, F)]
             /\ WorkOK(n, Pushing(p, F))
<1>1. <<p, n>> \in Links /\ <<p, n>>[1] = p /\ p \in Nodes /\ p # n
    BY LinkIs DEF Others
<1>2. net[<<p, n>>][j].type = "memory_digest" /\ MailOK(<<p, n>>, net[<<p, n>>][j])
    BY <1>1 DEF OnDigestRead, Mail
<1>3. p \in Syncers
    BY <1>1, <1>2 DEF MailOK
<1>4. PICK S \in SUBSET Missing(n, net[<<p, n>>][j].keys) :
        handling' = [handling EXCEPT ![n][w] = Pushing(p, {<<k, facts[n][k]>> : k \in S})]
    BY DEF OnDigestRead
<1> DEFINE F == {<<k, facts[n][k]>> : k \in S}
<1>5. ASSUME NEW k \in S
      PROVE  /\ k \in Keys /\ facts[n][k] \in Fact /\ Origin(k) = n
             /\ facts[n][k].content \in 1..writes[k]
    <2>1. k \in Keys /\ Origin(k) = n /\ Has(n, k)
        BY DEF Missing
    <2>2. facts[n][k] \in Fact /\ writes[k] \in Nat
        BY <2>1, BoundAssumption DEF Typed, TypeOK
    <2>3. StoreOK(n, k)
        BY <2>1 DEF Stores
    <2> QED BY <2>1, <2>2, <2>3, FactIs DEF StoreOK
<1>6. F \in SUBSET (Keys \X Fact)
    BY <1>5
<1>7. \A x \in F : Origin(x[1]) = n /\ x[2].content \in 1..writes[x[1]]
    BY <1>5
<1> HIDE DEF F
<1>8. WorkOK(n, Pushing(p, F))
    BY <1>1, <1>3, <1>6, <1>7, TaskIs DEF WorkOK
<1> QED BY <1>4, <1>6, <1>8 DEF F

\* What OnDigestPush leaves to push.
LEMMA PushLeaves ==
    ASSUME Typed, Works, NEW n \in Nodes, NEW w \in Workers, OnDigestPush(n, w)
    PROVE  \E h \in Task :
             /\ handling' = [handling EXCEPT ![n][w] = h]
             /\ WorkOK(n, h) /\ h.step # "deciding"
<1>1. PICK h : h = handling[n][w]
    OBVIOUS
<1>2. handling \in [Nodes -> [Workers -> Task]]
    BY DEF Typed
<1>3. h \in Task /\ h.step = "pushing" /\ h.missing \in SUBSET (Keys \X Fact)
    BY <1>1, <1>2, TaskIs DEF OnDigestPush
<1>4. WorkOK(n, h)
    BY <1>1 DEF Works
<1>5. CASE handling' = [handling EXCEPT ![n][w] = Free]
    BY <1>5, TaskIs DEF WorkOK
<1>6. ASSUME NEW x \in h.missing, handling' = [handling EXCEPT ![n][w].missing = @ \ {x}]
      PROVE  \E g \in Task :
               /\ handling' = [handling EXCEPT ![n][w] = g]
               /\ WorkOK(n, g) /\ g.step # "deciding"
    <2>1. PICK F \in SUBSET (Keys \X Fact) : F = h.missing \ {x}
        BY <1>3
    <2>2. PICK g : g = [h EXCEPT !.missing = F]
        OBVIOUS
    <2>3. g \in Task /\ g.step = "pushing" /\ g.peer = h.peer /\ g.missing = F
        <3>1. \A G \in SUBSET (Keys \X Fact) :
                /\ [h EXCEPT !.missing = G] \in Task
                /\ [h EXCEPT !.missing = G].step = "pushing"
                /\ [h EXCEPT !.missing = G].peer = h.peer
                /\ [h EXCEPT !.missing = G].missing = G
            BY <1>3, TaskIs
        <3> QED BY <2>1, <2>2, <3>1
    <2>4. handling' = [handling EXCEPT ![n][w] = g]
        BY <1>1, <1>6, <2>1, <2>2
    <2>5. WorkOK(n, g)
        BY <1>3, <1>4, <2>1, <2>3 DEF WorkOK
    <2> QED BY <2>3, <2>4, <2>5
<1> QED BY <1>1, <1>5, <1>6 DEF OnDigestPush

LEMMA HandlingKinds ==
    ASSUME Typed, Works, Stores, Mail, [Next]_vars
    PROVE  \/ UNCHANGED handling
           \/ \E n \in Nodes, w \in Workers : \E h \in Task :
                handling' = [handling EXCEPT ![n][w] = h] /\ WorkOK(n, h)
<1>1. ASSUME NEW n \in Nodes, NEW k \in Keys,
             \/ PublishFact(n, k) \/ SendReinforce(n, k) \/ Prune(n, k) \/ PublishTombstone(n, k)
             \/ \E s \in Saliences : StoreFact(n, k, s)
             \/ \E p \in Others(n) : PublishFactTo(n, k, p)
      PROVE  UNCHANGED handling
    BY <1>1 DEF PublishFact, SendReinforce, Prune, PublishTombstone, StoreFact, PublishFactTo
<1>2. ASSUME NEW n \in Nodes, NEW p \in Others(n), SendDigests(n, p)
      PROVE  UNCHANGED handling
    BY <1>2 DEF SendDigests
<1>3. ASSUME NEW n \in Nodes, NEW w \in Workers, NEW p \in Others(n),
             NEW j \in DOMAIN net[<<p, n>>],
             Drop(n, w, p, j) \/ OnReinforce(n, w, p, j) \/ OnTombstone(n, w, p, j)
      PROVE  UNCHANGED handling
    BY <1>3 DEF Drop, OnReinforce, OnTombstone
<1>4. ASSUME NEW n \in Nodes, NEW w \in Workers, NEW p \in Others(n),
             NEW j \in DOMAIN net[<<p, n>>], OnFactRead(n, w, p, j)
      PROVE  \E h \in Task :
               handling' = [handling EXCEPT ![n][w] = h] /\ WorkOK(n, h)
    <2>1. PICK m : m = net[<<p, n>>][j]
        OBVIOUS
    <2>2. /\ m.key \in Keys /\ m.fact \in Fact /\ Origin(m.key) = p /\ <<n, p>> \notin Private
          /\ m.fact.content \in 1..writes[m.key] /\ facts[n][m.key] \in Fact
          /\ handling' = [handling EXCEPT ![n][w] = Deciding(m.key, m.fact, facts[n][m.key])]
        BY <1>4, <2>1, FactIsRead
    <2>3. PICK h : h = Deciding(m.key, m.fact, facts[n][m.key])
        OBVIOUS
    <2>4. /\ h \in Task /\ h.step = "deciding" /\ h.key = m.key /\ h.fact = m.fact
        BY <2>2, <2>3, TaskIs
    <2>5. WorkOK(n, h)
        BY <2>2, <2>4 DEF WorkOK, Others
    <2> QED BY <2>2, <2>3, <2>4, <2>5
<1>5. ASSUME NEW n \in Nodes, NEW w \in Workers, NEW p \in Others(n),
             NEW j \in DOMAIN net[<<p, n>>], OnDigestRead(n, w, p, j)
      PROVE  \E h \in Task :
               handling' = [handling EXCEPT ![n][w] = h] /\ WorkOK(n, h)
    BY <1>5, DigestIsRead, TaskIs DEF Others
<1>6. ASSUME NEW n \in Nodes, NEW w \in Workers, OnFactWrite(n, w)
      PROVE  \E h \in Task :
               handling' = [handling EXCEPT ![n][w] = h] /\ WorkOK(n, h)
    <2>1. handling' = [handling EXCEPT ![n][w] = Free]
        BY <1>6 DEF OnFactWrite
    <2> QED BY <2>1, TaskIs DEF WorkOK
<1>7. ASSUME NEW n \in Nodes, NEW w \in Workers, OnDigestPush(n, w)
      PROVE  \E h \in Task :
               handling' = [handling EXCEPT ![n][w] = h] /\ WorkOK(n, h)
    BY <1>7, PushLeaves
<1>8. ASSUME NEW l \in Links, Lose(l) PROVE UNCHANGED handling
    BY <1>8 DEF Lose
<1>9. UNCHANGED vars => UNCHANGED handling
    BY DEF vars
<1> QED BY <1>1, <1>2, <1>3, <1>4, <1>5, <1>6, <1>7, <1>8, <1>9, Steps

LEMMA WorksStep ==
    ASSUME Typed, Works, Stores, Mail, [Next]_vars
    PROVE  handling' \in [Nodes -> [Workers -> Task]] /\ Works'
<1>1. handling \in [Nodes -> [Workers -> Task]]
    BY DEF Typed
<1>2. ASSUME NEW n \in Nodes, NEW h \in Task, WorkOK(n, h) PROVE WorkOK(n, h)'
    <2>1. ASSUME h.step = "pushing", NEW x \in h.missing
          PROVE  x[2].content \in 1..writes'[x[1]]
        <3>1. x[1] \in Keys
            BY <2>1, TaskIs
        <3>2. x[2].content \in 1..writes[x[1]]
            BY <1>2, <2>1 DEF WorkOK
        <3> QED BY <3>1, <3>2, Grows
    <2>2. h.step = "deciding" => h.fact.content \in 1..writes'[h.key]
        BY <1>2, Grows, TaskIs DEF WorkOK
    <2> QED BY <1>2, <2>1, <2>2 DEF WorkOK
<1>3. ASSUME handling' \in [Nodes -> [Workers -> Task]],
             \A n \in Nodes, w \in Workers : WorkOK(n, handling'[n][w])
      PROVE  Works'
    <2>1. ASSUME NEW n \in Nodes, NEW w \in Workers, NEW h, h = handling'[n][w]
          PROVE  WorkOK(n, h)'
        BY <1>2, <1>3, <2>1
    <2> QED BY <2>1 DEF Works, WorkOK
<1>4. CASE UNCHANGED handling
    BY <1>1, <1>3, <1>4 DEF Works
<1>5. ASSUME NEW n \in Nodes, NEW w \in Workers, NEW h \in Task,
             handling' = [handling EXCEPT ![n][w] = h], WorkOK(n, h)
      PROVE  handling' \in [Nodes -> [Workers -> Task]] /\ Works'
    <2>1. /\ handling' \in [Nodes -> [Workers -> Task]] /\ handling'[n][w] = h
          /\ \A o \in Nodes, v \in Workers : o # n \/ v # w => handling'[o][v] = handling[o][v]
        BY <1>1, <1>5, TableHolds
    <2>2. ASSUME NEW o \in Nodes, NEW v \in Workers PROVE WorkOK(o, handling'[o][v])
        BY <1>5, <2>1 DEF Works
    <2> QED BY <1>3, <2>1, <2>2
<1> QED BY <1>4, <1>5, HandlingKinds

-----------------------------------------------------------------------------
(* The rest of the types, and the first invariant.                           *)
LEMMA RestKinds ==
    ASSUME [Next]_vars
    PROVE  /\ UNCHANGED inOrder
           /\ \/ UNCHANGED lost
              \/ lost < MaxLoss /\ lost' = lost + 1
           /\ \/ UNCHANGED <<tombstones, buried>>
              \/ \E n \in Nodes, w \in Workers : \E p \in Others(n) :
                   \E j \in DOMAIN net[<<p, n>>] : OnTombstone(n, w, p, j)
<1> DEFINE Calm == UNCHANGED <<inOrder, lost, tombstones, buried>>
<1>1. ASSUME NEW n \in Nodes, NEW k \in Keys,
             \/ PublishFact(n, k) \/ SendReinforce(n, k) \/ Prune(n, k) \/ PublishTombstone(n, k)
             \/ \E s \in Saliences : StoreFact(n, k, s)
             \/ \E p \in Others(n) : PublishFactTo(n, k, p)
      PROVE  Calm
    BY <1>1 DEF PublishFact, SendReinforce, Prune, PublishTombstone, StoreFact, PublishFactTo
<1>2. ASSUME NEW n \in Nodes, NEW p \in Others(n), SendDigests(n, p)
      PROVE  Calm
    BY <1>2 DEF SendDigests
<1>3. ASSUME NEW n \in Nodes, NEW w \in Workers, NEW p \in Others(n),
             NEW j \in DOMAIN net[<<p, n>>],
             Drop(n, w, p, j) \/ OnFactRead(n, w, p, j) \/ OnReinforce(n, w, p, j)
             \/ OnDigestRead(n, w, p, j)
      PROVE  Calm
    BY <1>3 DEF Drop, OnFactRead, OnReinforce, OnDigestRead
<1>4. ASSUME NEW n \in Nodes, NEW w \in Workers, OnFactWrite(n, w) \/ OnDigestPush(n, w)
      PROVE  Calm
    BY <1>4 DEF OnFactWrite, OnDigestPush
<1>5. ASSUME NEW l \in Links, Lose(l)
      PROVE  UNCHANGED <<inOrder, tombstones, buried>> /\ lost < MaxLoss /\ lost' = lost + 1
    BY <1>5 DEF Lose
<1>6. UNCHANGED vars => Calm
    BY DEF vars
<1>7. ASSUME NEW n \in Nodes, NEW w \in Workers, NEW p \in Others(n),
             NEW j \in DOMAIN net[<<p, n>>], OnTombstone(n, w, p, j)
      PROVE  UNCHANGED <<inOrder, lost>>
    BY <1>7 DEF OnTombstone
<1> QED BY <1>1, <1>2, <1>3, <1>4, <1>5, <1>6, <1>7, Steps

LEMMA BuriedStep ==
    ASSUME Typed, Works, OnlyForeign, [Next]_vars
    PROVE  /\ tombstones' \in [Nodes -> SUBSET Keys] /\ buried' \in [Nodes -> SUBSET Keys]
           /\ OnlyForeign'
<1>1. tombstones \in [Nodes -> SUBSET Keys] /\ buried \in [Nodes -> SUBSET Keys]
    BY DEF Typed, TypeOK
<1>2. CASE UNCHANGED <<tombstones, buried>>
    BY <1>1, <1>2 DEF OnlyForeign, Foreign
<1>3. ASSUME NEW n \in Nodes, NEW w \in Workers, NEW p \in Others(n),
             NEW j \in DOMAIN net[<<p, n>>], OnTombstone(n, w, p, j)
      PROVE  /\ tombstones' \in [Nodes -> SUBSET Keys] /\ buried' \in [Nodes -> SUBSET Keys]
             /\ OnlyForeign'
    <2>1. PICK k : k = net[<<p, n>>][j].key
        OBVIOUS
    <2>2. k \in Keys /\ Origin(k) # n
        BY <1>3, <2>1, HandlersRewrite
    <2>3. Bury(n, p, k)
        BY <1>3, <2>1 DEF OnTombstone
    <2>4. tombstones' \in [Nodes -> SUBSET Keys] /\ buried' \in [Nodes -> SUBSET Keys]
        BY <1>1, <2>2, <2>3 DEF Bury
    <2>5. \A o \in Nodes : \A g \in buried'[o] : g \in buried[o] \/ (o = n /\ g = k)
        BY <1>1, <2>3 DEF Bury
    <2> QED BY <2>2, <2>4, <2>5 DEF OnlyForeign, Foreign
<1> QED BY <1>2, <1>3, RestKinds

LEMMA TeachingStep ==
    ASSUME Teaching, OnlyForeign, [Next]_vars
    PROVE  Teaching' /\ OnlyForeign'
<1>1. Typed /\ Stores /\ Mail /\ Works /\ Broadcast
    BY DEF Teaching
<1>2. /\ facts' \in [Nodes -> [Keys -> Fact]] /\ Stores'
    BY <1>1, StoresStep
<1>3. net' \in [Links -> Seq(Message)] /\ Mail'
    BY <1>1, MailStep
<1>4. handling' \in [Nodes -> [Workers -> Task]] /\ Works'
    BY <1>1, WorksStep
<1>5. announced' \in [Keys -> 0..MaxWrites] /\ Broadcast'
    BY <1>1, BroadcastStep
<1>6. /\ tombstones' \in [Nodes -> SUBSET Keys] /\ buried' \in [Nodes -> SUBSET Keys]
      /\ OnlyForeign'
    BY <1>1, BuriedStep
<1>7. writes' \in [Keys -> 0..MaxWrites] /\ pruned' \in [Nodes -> SUBSET Keys]
    BY <1>1, Grows
<1>8. inOrder' \in Media /\ lost' \in 0..MaxLoss
    BY <1>1, RestKinds, BoundAssumption DEF Typed, TypeOK
<1>9. \A n \in Nodes, w \in Workers : handling'[n][w].step \in {"free", "deciding", "pushing"}
    <2>1. \A h \in Task : h.step \in {"free", "deciding", "pushing"}
        BY DEF Task
    <2> QED BY <1>4, <2>1
<1> QED BY <1>2, <1>3, <1>4, <1>5, <1>6, <1>7, <1>8, <1>9 DEF Teaching, Typed, TypeOK

LEMMA TeachingInit == Init => Teaching /\ OnlyForeign
<1> SUFFICES ASSUME Init PROVE Teaching /\ OnlyForeign
    OBVIOUS
<1>1. MaxWrites \in Nat /\ MaxLoss \in Nat
    BY BoundAssumption
<1>2. TypeOK
    <2>1. net \in [Links -> Seq(Message)]
        BY EmptySeq DEF Init
    <2> QED BY <1>1, <2>1, FactIs, TaskIs DEF Init, TypeOK
<1>3. Typed
    BY <1>2, TaskIs DEF Init, Typed
<1>4. Stores /\ Works /\ Broadcast /\ OnlyForeign
    BY FactIs, TaskIs DEF Init, Stores, StoreOK, Has, Works, WorkOK, Broadcast, OnlyForeign
<1>5. Mail
    <2>1. \A l \in Links : net[l] = << >>
        BY DEF Init
    <2> QED BY <2>1 DEF Mail
<1> QED BY <1>3, <1>4, <1>5 DEF Teaching

LEMMA TeachingHolds == Spec => [](Teaching /\ OnlyForeign)
BY TeachingInit, TeachingStep, PTL DEF Spec

(* Only the origin of a fact teaches its content (memory_sync.py:8-10): for  *)
(* any agents, facts, links, workers and sharing profiles, every copy holds  *)
(* something its origin wrote and every fact in flight comes from its        *)
(* origin, whatever store_fact, publish_fact and _on_fact interleave.        *)
THEOREM OnlyTheOriginTeaches == Spec => []Provenance
<1>1. Teaching => Provenance
    <2> SUFFICES ASSUME Teaching PROVE Provenance
        OBVIOUS
    <2>1. \A n \in Nodes, k \in Keys : facts[n][k].content <= writes[k]
        BY DEF Teaching, Stores, StoreOK
    <2> QED BY <2>1 DEF Teaching, Mail, MailOK, Provenance
<1> QED BY <1>1, TeachingHolds, PTL

-----------------------------------------------------------------------------
(* What a step leaves of the stores: an action on a record of one agent      *)
(* leaves every other record as it was.                                      *)
LEMMA RecordsStay ==
    ASSUME Typed, Works, NEW n \in Nodes, NEW k \in Keys,
           \/ \E s \in Saliences : StoreFact(n, k, s)
           \/ Prune(n, k)
           \/ Rewrites(n, k)
    PROVE  /\ \A o \in Nodes, g \in Keys : o # n \/ g # k => facts'[o][g] = facts[o][g]
           /\ Prune(n, k) => facts'[n][k] = Absent
<1>1. facts \in [Nodes -> [Keys -> Fact]]
    BY DEF Typed, TypeOK
<1>2. \E f : facts' = [facts EXCEPT ![n][k] = f]
    BY DEF StoreFact, Prune, Rewrites, Put
<1>3. Prune(n, k) => facts' = [facts EXCEPT ![n][k] = Absent]
    BY DEF Prune, Put
<1> QED BY <1>1, <1>2, <1>3

LEMMA Reinforcing ==
    ASSUME NEW f \in Fact
    PROVE  /\ f.salience >= MinOf(SalienceCap, f.salience)
           /\ Reinforced(f).content = f.content
           /\ Reinforced(f).salience >= MinOf(SalienceCap, f.salience)
<1> SalienceCap \in Nat /\ f.salience \in Nat
    BY BoundAssumption, FactIs
<1>1. Reinforced(f).salience = MinOf(SalienceCap, f.salience + 1)
    BY FactIs
<1> QED BY <1>1, FactIs DEF MinOf

\* What OnReinforce and OnTombstone write.
LEMMA ReinforceWrites ==
    ASSUME Typed, NEW n \in Nodes, NEW w \in Workers, NEW p \in Others(n),
           NEW j \in DOMAIN net[<<p, n>>], NEW k \in Keys, k = net[<<p, n>>][j].key
    PROVE  /\ OnReinforce(n, w, p, j) =>
                facts'[n][k] = Reinforced(facts[n][k]) \/ UNCHANGED facts
           /\ OnTombstone(n, w, p, j) => facts'[n][k] = Absent
<1>1. facts \in [Nodes -> [Keys -> Fact]]
    BY DEF Typed, TypeOK
<1>2. OnReinforce(n, w, p, j) =>
        facts' = [facts EXCEPT ![n][k] = Reinforced(facts[n][k])] \/ UNCHANGED facts
    BY DEF OnReinforce, Put
<1>3. OnTombstone(n, w, p, j) => facts' = [facts EXCEPT ![n][k] = Absent]
    BY DEF OnTombstone, Put
<1> QED BY <1>1, <1>2, <1>3

\* What OnFactWrite writes.
LEMMA FactWrites ==
    ASSUME Typed, NEW n \in Nodes, NEW w \in Workers, OnFactWrite(n, w)
    PROVE  LET h == handling[n][w] IN
           /\ h.step = "deciding" /\ h.key \in Keys /\ h.fact \in Fact /\ h.seen \in Fact
           /\ facts[n][h.key] \in Fact
           /\ handling' = [handling EXCEPT ![n][w] = Free]
           /\ \/ h.seen = Absent /\ facts'[n][h.key] = h.fact
              \/ /\ h.seen # Absent /\ h.seen.content # h.fact.content
                 /\ facts'[n][h.key] = Merged(h.seen, h.fact)
              \/ /\ h.seen # Absent /\ h.seen.content = h.fact.content
                 /\ \/ Has(n, h.key) /\ facts'[n][h.key] = Reinforced(facts[n][h.key])
                    \/ ~Has(n, h.key) /\ UNCHANGED facts
<1>1. PICK h : h = handling[n][w]
    OBVIOUS
<1>2. /\ facts \in [Nodes -> [Keys -> Fact]] /\ h \in Task /\ h.step = "deciding"
    BY <1>1 DEF Typed, TypeOK, OnFactWrite
<1>3. h.key \in Keys /\ h.fact \in Fact /\ h.seen \in Fact /\ facts[n][h.key] \in Fact
    BY <1>2, TaskIs
<1>4. handling' = [handling EXCEPT ![n][w] = Free]
    BY DEF OnFactWrite
<1>5. \/ h.seen = Absent /\ Put(n, h.key, h.fact)
      \/ /\ h.seen # Absent /\ h.seen.content # h.fact.content
         /\ Put(n, h.key, Merged(h.seen, h.fact))
      \/ /\ h.seen # Absent /\ h.seen.content = h.fact.content
         /\ \/ Has(n, h.key) /\ Put(n, h.key, Reinforced(facts[n][h.key]))
            \/ ~Has(n, h.key) /\ UNCHANGED facts
    BY <1>1 DEF OnFactWrite
<1>6. \A f : Put(n, h.key, f) => facts'[n][h.key] = f
    BY <1>2, <1>3 DEF Put
<1> QED BY <1>1, <1>2, <1>3, <1>4, <1>5, <1>6

(* The wire never removes or rewrites a fact at its own origin               *)
(* (memory_sync.py:412-413 and 490-491, the loop guards of _on_fact and      *)
(* _on_tombstone): at any origin, its content changes only by its own        *)
(* store_fact and remove, and otherwise its salience only rises, up to the   *)
(* cap of reinforce.                                                         *)
THEOREM OriginsAreSafe == Spec => OriginKeepsItsFacts
<1> DEFINE Kept(k) ==
        LET n == Origin(k) IN
        writes'[k] = writes[k] /\ pruned' = pruned =>
            /\ facts'[n][k].content = facts[n][k].content
            /\ facts'[n][k].salience >= MinOf(SalienceCap, facts[n][k].salience)
<1>1. ASSUME Teaching, [Next]_vars, NEW k \in Keys PROVE Kept(k)
    <2>1. PICK n \in Nodes : n = Origin(k)
        BY OriginIs
    <2>2. /\ facts \in [Nodes -> [Keys -> Fact]] /\ Typed /\ Works /\ StoreOK(n, k)
          /\ pruned \in [Nodes -> SUBSET Keys] /\ writes \in [Keys -> 0..MaxWrites]
          /\ facts[n][k] \in Fact
        <3>1. Typed /\ Works /\ StoreOK(n, k)
            BY <1>1 DEF Teaching, Stores
        <3>2. /\ facts \in [Nodes -> [Keys -> Fact]] /\ pruned \in [Nodes -> SUBSET Keys]
              /\ writes \in [Keys -> 0..MaxWrites]
            BY <3>1 DEF Typed, TypeOK
        <3> QED BY <3>1, <3>2
    <2>3. facts'[n][k] = facts[n][k] => Kept(k)
        BY <2>1, <2>2, Reinforcing
    <2>4. ASSUME NEW o \in Nodes, NEW g \in Keys, NEW s \in Saliences, StoreFact(o, g, s)
          PROVE  Kept(k)
        <3>1. CASE o # n \/ g # k
            BY <2>2, <2>3, <2>4, <3>1, RecordsStay
        <3>2. CASE g = k
            <4>1. writes'[k] = writes[k] + 1 /\ writes[k] \in Nat
                BY <2>2, <2>4, <3>2, BoundAssumption DEF StoreFact
            <4> QED BY <4>1
        <3> QED BY <3>1, <3>2
    <2>5. ASSUME NEW o \in Nodes, NEW g \in Keys, Prune(o, g) PROVE Kept(k)
        <3>1. CASE o # n \/ g # k
            BY <2>2, <2>3, <2>5, <3>1, RecordsStay
        <3>2. CASE o = n /\ g = k
            <4>1. k \notin pruned[n] /\ k \in pruned'[n]
                BY <2>1, <2>2, <2>5, <3>2 DEF Prune, StoreOK
            <4> QED BY <4>1
        <3> QED BY <3>1, <3>2
    <2>6. ASSUME NEW o \in Nodes, NEW w \in Workers, OnFactWrite(o, w) PROVE Kept(k)
        <3>1. handling[o][w].key \in Keys /\ Origin(handling[o][w].key) # o
            BY <2>2, <2>6, FactWrites DEF Works, WorkOK
        <3>2. facts'[n][k] = facts[n][k]
            BY <2>1, <2>2, <2>6, <3>1, HandlersRewrite, RecordsStay
        <3> QED BY <2>3, <3>2
    <2>7. ASSUME NEW o \in Nodes, NEW w \in Workers, NEW p \in Others(o),
                 NEW j \in DOMAIN net[<<p, o>>], OnTombstone(o, w, p, j)
          PROVE  Kept(k)
        <3>1. PICK g \in Keys : g = net[<<p, o>>][j].key /\ Origin(g) # o /\ Rewrites(o, g)
            BY <2>2, <2>7, HandlersRewrite
        <3>2. facts'[n][k] = facts[n][k]
            BY <2>1, <2>2, <3>1, RecordsStay
        <3> QED BY <2>3, <3>2
    <2>8. ASSUME NEW o \in Nodes, NEW w \in Workers, NEW p \in Others(o),
                 NEW j \in DOMAIN net[<<p, o>>], OnReinforce(o, w, p, j)
          PROVE  Kept(k)
        <3>1. PICK g \in Keys :
                /\ g = net[<<p, o>>][j].key
                /\ Rewrites(o, g) \/ UNCHANGED <<facts, writes, pruned>>
            BY <2>2, <2>8, HandlersRewrite
        <3>2. facts'[o][g] = Reinforced(facts[o][g]) \/ UNCHANGED facts
            BY <2>2, <2>8, <3>1, ReinforceWrites
        <3>3. CASE o = n /\ g = k
            <4>1. facts'[n][k] = Reinforced(facts[n][k]) \/ facts'[n][k] = facts[n][k]
                BY <3>2, <3>3
            <4> QED BY <2>1, <2>2, <2>3, <4>1, Reinforcing
        <3>4. CASE o # n \/ g # k
            <4>1. facts'[n][k] = facts[n][k]
                BY <2>2, <3>1, <3>4, RecordsStay
            <4> QED BY <2>3, <4>1
        <3> QED BY <3>3, <3>4
    <2> QED BY <1>1, <2>3, <2>4, <2>5, <2>6, <2>7, <2>8, FactsKinds
<1>2. Teaching /\ [Next]_vars => \A k \in Keys : Kept(k)
    BY <1>1
<1>3. (\A k \in Keys : Kept(k)) =>
        [\A k \in Keys :
            LET n == Origin(k) IN
            writes'[k] = writes[k] /\ pruned' = pruned =>
                /\ facts'[n][k].content = facts[n][k].content
                /\ facts'[n][k].salience >= MinOf(SalienceCap, facts[n][k].salience)]_vars
    OBVIOUS
<1> QED BY <1>2, <1>3, TeachingHolds, PTL DEF Spec, OriginKeepsItsFacts

-----------------------------------------------------------------------------
(* Copies.  A node with one worker decides about the copy it read, unless it *)
(* was pruned.                                                               *)
AloneAt(n, w) ==
    handling[n][w].step = "deciding" =>
        facts[n][handling[n][w].key] \in {handling[n][w].seen, Absent}

LEMMA AloneStep ==
    ASSUME Teaching, Alone, NEW v \in Workers, Workers = {v}, [Next]_vars,
           NEW n \in Nodes
    PROVE  AloneAt(n, v)'
<1>1. /\ Typed /\ Works /\ Mail /\ Stores
      /\ facts \in [Nodes -> [Keys -> Fact]] /\ handling \in [Nodes -> [Workers -> Task]]
    BY DEF Teaching, Typed, TypeOK
<1>2. AloneAt(n, v)
    BY DEF Alone, AloneAt
<1>3. PICK h : h = handling[n][v]
    OBVIOUS
<1>4. h \in Task /\ (h.step = "deciding" => h.key \in Keys /\ Origin(h.key) # n)
    <2>1. h \in Task /\ WorkOK(n, h)
        BY <1>1, <1>3 DEF Works
    <2> QED BY <2>1, TaskIs DEF WorkOK
<1>5. ASSUME handling'[n][v] = h,
             h.step = "deciding" =>
                facts'[n][h.key] = facts[n][h.key] \/ facts'[n][h.key] = Absent
      PROVE  AloneAt(n, v)'
    BY <1>2, <1>3, <1>5 DEF AloneAt
<1>6. ASSUME UNCHANGED <<facts, handling>> PROVE AloneAt(n, v)'
    BY <1>3, <1>5, <1>6
<1>7. ASSUME NEW o \in Nodes, NEW k \in Keys,
             \/ PublishFact(o, k) \/ SendReinforce(o, k) \/ PublishTombstone(o, k)
             \/ \E p \in Others(o) : PublishFactTo(o, k, p)
      PROVE  UNCHANGED <<facts, handling>>
    BY <1>7 DEF PublishFact, SendReinforce, PublishTombstone, PublishFactTo
<1>8. ASSUME NEW o \in Nodes, NEW p \in Others(o), SendDigests(o, p)
      PROVE  UNCHANGED <<facts, handling>>
    BY <1>8 DEF SendDigests
<1>9. ASSUME NEW l \in Links, Lose(l) PROVE UNCHANGED <<facts, handling>>
    BY <1>9 DEF Lose
<1>10. ASSUME UNCHANGED vars PROVE UNCHANGED <<facts, handling>>
    BY <1>10 DEF vars
<1>11. ASSUME NEW o \in Nodes, NEW k \in Keys,
              Prune(o, k) \/ \E s \in Saliences : StoreFact(o, k, s)
       PROVE  AloneAt(n, v)'
    <2>1. UNCHANGED handling
        BY <1>11 DEF Prune, StoreFact
    <2>2. (\E s \in Saliences : StoreFact(o, k, s)) => Origin(k) = o
        BY DEF StoreFact
    <2>3. ASSUME h.step = "deciding"
          PROVE  facts'[n][h.key] = facts[n][h.key] \/ facts'[n][h.key] = Absent
        <3>1. CASE o # n \/ k # h.key
            BY <1>1, <1>4, <1>11, <2>3, <3>1, RecordsStay
        <3>2. CASE o = n /\ k = h.key
            BY <1>1, <1>4, <1>11, <2>2, <2>3, <3>2, RecordsStay
        <3> QED BY <3>1, <3>2
    <2> QED BY <1>3, <1>5, <2>1, <2>3
<1>12. ASSUME NEW o \in Nodes, NEW w \in Workers, NEW p \in Others(o),
              NEW j \in DOMAIN net[<<p, o>>],
              Drop(o, w, p, j) \/ OnReinforce(o, w, p, j) \/ OnTombstone(o, w, p, j)
       PROVE  AloneAt(n, v)'
    <2>1. UNCHANGED handling /\ handling[o][w] = Free /\ w = v
        BY <1>12 DEF Drop, OnReinforce, OnTombstone
    <2>2. CASE o = n
        BY <1>3, <1>5, <2>1, <2>2, TaskIs
    <2>3. CASE o # n
        <3>1. \A g \in Keys : facts'[n][g] = facts[n][g]
            <4>1. Drop(o, w, p, j) => UNCHANGED facts
                BY DEF Drop
            <4>2. ASSUME OnReinforce(o, w, p, j)
                  PROVE  \A g \in Keys : facts'[n][g] = facts[n][g]
                BY <1>1, <2>3, <4>2, HandlersRewrite, RecordsStay
            <4>3. ASSUME OnTombstone(o, w, p, j)
                  PROVE  \A g \in Keys : facts'[n][g] = facts[n][g]
                BY <1>1, <2>3, <4>3, HandlersRewrite, RecordsStay
            <4> QED BY <1>12, <4>1, <4>2, <4>3
        <3> QED BY <1>3, <1>4, <1>5, <2>1, <3>1
    <2> QED BY <2>2, <2>3
<1>13. ASSUME NEW o \in Nodes, NEW w \in Workers, NEW p \in Others(o),
              NEW j \in DOMAIN net[<<p, o>>], OnFactRead(o, w, p, j)
       PROVE  AloneAt(n, v)'
    <2>1. PICK m : m = net[<<p, o>>][j]
        OBVIOUS
    <2>2. /\ m.key \in Keys /\ m.fact \in Fact /\ facts[o][m.key] \in Fact
          /\ handling' = [handling EXCEPT ![o][w] = Deciding(m.key, m.fact, facts[o][m.key])]
          /\ UNCHANGED facts
        BY <1>1, <1>13, <2>1, FactIsRead DEF OnFactRead
    <2>3. PICK d \in Task : d = Deciding(m.key, m.fact, facts[o][m.key])
        BY <2>2, TaskIs
    <2>4. d.key = m.key /\ d.seen = facts[o][m.key]
        BY <2>2, <2>3, TaskIs
    <2>5. CASE o = n
        <3>1. handling'[n][v] = d
            BY <1>1, <2>2, <2>3, <2>5
        <3> QED BY <2>2, <2>4, <2>5, <3>1 DEF AloneAt
    <2>6. CASE o # n
        <3>1. handling'[n][v] = h
            BY <1>1, <1>3, <2>2, <2>6
        <3> QED BY <1>5, <2>2, <3>1
    <2> QED BY <2>5, <2>6
<1>14. ASSUME NEW o \in Nodes, NEW w \in Workers, NEW d \in Task, d.step # "deciding",
              handling' = [handling EXCEPT ![o][w] = d],
              \A g \in Keys : o # n => facts'[n][g] = facts[n][g]
       PROVE  AloneAt(n, v)'
    <2>1. CASE o = n
        <3>1. handling'[n][v] = d
            BY <1>1, <1>14, <2>1
        <3> QED BY <1>14, <3>1 DEF AloneAt
    <2>2. CASE o # n
        <3>1. handling'[n][v] = h
            BY <1>1, <1>3, <1>14, <2>2
        <3> QED BY <1>4, <1>5, <1>14, <2>2, <3>1
    <2> QED BY <2>1, <2>2
<1>15. ASSUME NEW o \in Nodes, NEW w \in Workers, OnFactWrite(o, w)
       PROVE  AloneAt(n, v)'
    <2>1. handling' = [handling EXCEPT ![o][w] = Free]
        BY <1>15 DEF OnFactWrite
    <2>2. \A g \in Keys : o # n => facts'[n][g] = facts[n][g]
        BY <1>1, <1>15, HandlersRewrite, RecordsStay
    <2> QED BY <1>14, <2>1, <2>2, TaskIs
<1>16. ASSUME NEW o \in Nodes, NEW w \in Workers, NEW p \in Others(o),
              NEW j \in DOMAIN net[<<p, o>>], OnDigestRead(o, w, p, j)
       PROVE  AloneAt(n, v)'
    <2>1. PICK F \in SUBSET (Keys \X Fact) : handling' = [handling EXCEPT ![o][w] = Pushing(p, F)]
        BY <1>1, <1>16, DigestIsRead
    <2>2. UNCHANGED facts /\ p \in Nodes
        BY <1>16 DEF OnDigestRead, Others
    <2>3. Pushing(p, F) \in Task /\ Pushing(p, F).step # "deciding"
        BY <2>2, TaskIs
    <2> QED BY <1>14, <2>1, <2>2, <2>3
<1>17. ASSUME NEW o \in Nodes, NEW w \in Workers, OnDigestPush(o, w)
       PROVE  AloneAt(n, v)'
    <2>1. UNCHANGED facts
        BY <1>17 DEF OnDigestPush
    <2> QED BY <1>1, <1>14, <1>17, <2>1, PushLeaves
<1> QED BY <1>6, <1>7, <1>8, <1>9, <1>10, <1>11, <1>12, <1>13, <1>15, <1>16, <1>17, Steps

LEMMA OneWorker == Cardinality(Workers) = 1 => \E v \in Workers : Workers = {v}
<1> SUFFICES ASSUME Cardinality(Workers) = 1 PROVE \E v \in Workers : Workers = {v}
    OBVIOUS
<1>1. IsFiniteSet(Workers)
    BY WorkerAssumption
<1>2. PICK v : Workers = {v}
    BY <1>1, FS_Singleton
<1> QED BY <1>2

Copying == Teaching /\ OnlyForeign /\ (Cardinality(Workers) = 1 => Alone)

LEMMA CopyingHolds == Spec => []Copying
<1>1. Init => Copying
    <2>1. Init => Alone
        BY TaskIs DEF Init, Alone
    <2> QED BY <2>1, TeachingInit DEF Copying
<1>2. ASSUME Copying, [Next]_vars PROVE Copying'
    <2>1. ASSUME Cardinality(Workers) = 1 PROVE Alone'
        <3>1. PICK v \in Workers : Workers = {v}
            BY <2>1, OneWorker
        <3>2. \A n \in Nodes : AloneAt(n, v)'
            BY <1>2, <2>1, <3>1, AloneStep DEF Copying
        <3> QED BY <3>1, <3>2 DEF Alone, AloneAt
    <2> QED BY <1>2, <2>1, TeachingStep DEF Copying
<1> QED BY <1>1, <1>2, PTL DEF Spec

(* As long as a peer whose envelopes one thread handles keeps its copy of a  *)
(* fact, the copy's salience never drops, up to the cap of reinforce         *)
(* (memory_sync.py:11-12, _on_fact 431-467): a merge takes the maximum and a *)
(* repetition reinforces, whatever comes from wherever in whatever order.    *)
THEOREM CopiesKeepTheirSalience ==
    ASSUME Cardinality(Workers) = 1
    PROVE  Spec => CopySalienceNeverDrops
<1> DEFINE Kept(k, n) ==
        Has(n, k) /\ Has(n, k)' =>
            facts'[n][k].salience >= MinOf(SalienceCap, facts[n][k].salience)
<1>1. ASSUME Copying, [Next]_vars,
             NEW k \in Keys, NEW n \in Others(Origin(k))
      PROVE  Kept(k, n)
    <2>1. /\ Typed /\ Works /\ Alone /\ n \in Nodes /\ Origin(k) # n
          /\ facts \in [Nodes -> [Keys -> Fact]] /\ facts[n][k] \in Fact
        BY <1>1 DEF Copying, Teaching, Typed, TypeOK, Others
    <2>2. facts'[n][k] = facts[n][k] => Kept(k, n)
        BY <2>1, Reinforcing
    <2>3. facts'[n][k] = Absent => Kept(k, n)
        BY DEF Has
    <2>4. facts'[n][k] = Reinforced(facts[n][k]) => Kept(k, n)
        BY <2>1, Reinforcing
    <2>5. ASSUME NEW o \in Nodes, NEW g \in Keys,
                 Prune(o, g) \/ \E s \in Saliences : StoreFact(o, g, s)
          PROVE  Kept(k, n)
        <3>1. (\E s \in Saliences : StoreFact(o, g, s)) => Origin(g) = o
            BY DEF StoreFact
        <3>2. facts'[n][k] = facts[n][k] \/ facts'[n][k] = Absent
            BY <2>1, <2>5, <3>1, RecordsStay
        <3> QED BY <2>2, <2>3, <3>2
    <2>6. ASSUME NEW o \in Nodes, NEW w \in Workers, NEW p \in Others(o),
                 NEW j \in DOMAIN net[<<p, o>>],
                 OnReinforce(o, w, p, j) \/ OnTombstone(o, w, p, j)
          PROVE  Kept(k, n)
        <3>1. PICK g \in Keys :
                /\ g = net[<<p, o>>][j].key
                /\ Rewrites(o, g) \/ UNCHANGED <<facts, writes, pruned>>
            BY <2>1, <2>6, HandlersRewrite
        <3>2. CASE o = n /\ g = k
            <4>1. \/ facts'[n][k] = Reinforced(facts[n][k]) \/ UNCHANGED facts
                  \/ facts'[n][k] = Absent
                BY <2>1, <2>6, <3>1, <3>2, ReinforceWrites
            <4> QED BY <2>2, <2>3, <2>4, <4>1
        <3>3. CASE o # n \/ g # k
            <4>1. facts'[n][k] = facts[n][k]
                BY <2>1, <3>1, <3>3, RecordsStay
            <4> QED BY <2>2, <4>1
        <3> QED BY <3>2, <3>3
    <2>7. ASSUME NEW o \in Nodes, NEW w \in Workers, OnFactWrite(o, w) PROVE Kept(k, n)
        <3>1. PICK h : h = handling[o][w]
            OBVIOUS
        <3>2. /\ h.step = "deciding" /\ h.key \in Keys /\ h.fact \in Fact /\ h.seen \in Fact
              /\ facts[o][h.key] \in {h.seen, Absent}
            BY <2>1, <2>7, <3>1, FactWrites DEF Alone
        <3>3. CASE o # n \/ h.key # k
            <4>1. facts'[n][k] = facts[n][k]
                BY <2>1, <2>7, <3>1, <3>2, <3>3, HandlersRewrite, RecordsStay
            <4> QED BY <2>2, <4>1
        <3>4. CASE o = n /\ h.key = k
            <4>1. \/ h.seen = Absent
                  \/ facts'[n][k] = Merged(h.seen, h.fact)
                  \/ facts'[n][k] = Reinforced(facts[n][k])
                  \/ facts'[n][k] = facts[n][k]
                BY <2>1, <2>7, <3>1, <3>4, FactWrites
            <4>2. ASSUME facts'[n][k] = Merged(h.seen, h.fact), Has(n, k) PROVE Kept(k, n)
                <5>1. facts[n][k] = h.seen
                    BY <3>2, <3>4, <4>2 DEF Has
                <5>2. /\ Merged(h.seen, h.fact).salience = MaxOf(h.seen.salience, h.fact.salience)
                      /\ h.seen.salience \in Nat /\ h.fact.salience \in Nat
                    BY <3>2, FactIs
                <5> QED BY <4>2, <5>1, <5>2, BoundAssumption DEF MaxOf, MinOf
            <4>3. h.seen = Absent => ~Has(n, k)
                BY <3>2, <3>4 DEF Has
            <4> QED BY <2>2, <2>4, <4>1, <4>2, <4>3
        <3> QED BY <3>3, <3>4
    <2> QED BY <1>1, <2>2, <2>5, <2>6, <2>7, FactsKinds
<1>2. Copying /\ [Next]_vars =>
        [\A k \in Keys : \A n \in Others(Origin(k)) :
            Has(n, k) /\ Has(n, k)' =>
                facts'[n][k].salience >= MinOf(SalienceCap, facts[n][k].salience)]_vars
    BY <1>1
<1> QED BY <1>2, CopyingHolds, PTL DEF Spec, CopySalienceNeverDrops

-----------------------------------------------------------------------------
(* Order.  What is on the way of a fact to an agent, what its one worker     *)
(* decides, and what it stores, as three values.                             *)
DecidesIn(d, k) == d.step = "deciding" /\ d.key = k
SettledIn(q, d, f, k, c) ==
    /\ LastIs(q, k, c)
    /\ NoneOf(q, k) =>
         /\ DecidesIn(d, k) => d.fact.content = c
         /\ ~DecidesIn(d, k) /\ f # Absent => f.content = c
ForgottenIn(q, d, f, k, B) ==
    /\ NothingAfter(q, k)
    /\ k \in B => f = Absent /\ NoneOf(q, k) /\ ~DecidesIn(d, k)

Counts(n, k) == lost = 0 /\ announced[k] = writes[k] /\ <<n, Origin(k)>> \notin Private
OrderlyAt(n, k, v) ==
    /\ Counts(n, k) =>
         SettledIn(net[<<Origin(k), n>>], handling[n][v], facts[n][k], k, writes[k])
    /\ ForgottenIn(net[<<Origin(k), n>>], handling[n][v], facts[n][k], k, buried[n])
    /\ k \in buried[n] => k \in pruned[Origin(k)]

LEMMA OrderlyIs ==
    ASSUME NEW v \in Workers, Workers = {v}, NEW n \in Nodes, NEW k \in Keys
    PROVE  Settled(n, k) /\ Forgotten(n, k) <=> OrderlyAt(n, k, v)
BY DEF Settled, Forgotten, OrderlyAt, SettledIn, ForgottenIn, Decides, DecidesIn, Way, Has,
       Counts

\* The fact is not touched on its way: at most the copy is dropped.
LEMMA AsideKeeps ==
    ASSUME NEW q, NEW d, NEW f, NEW e, NEW g, NEW k, NEW c, NEW B, NEW D,
           g = f \/ g = Absent,
           DecidesIn(e, k) <=> DecidesIn(d, k), DecidesIn(d, k) => e.fact = d.fact,
           k \in D => k \in B
    PROVE  /\ SettledIn(q, d, f, k, c) => SettledIn(q, e, g, k, c)
           /\ ForgottenIn(q, d, f, k, B) => ForgottenIn(q, e, g, k, D)
BY DEF SettledIn, ForgottenIn

\* Another envelope is sent.
LEMMA OtherSent ==
    ASSUME NEW S, NEW q \in Seq(S), NEW m \in S, NEW d, NEW f, NEW k, NEW c, NEW B,
           ~Carries(m, k)
    PROVE  /\ SettledIn(q, d, f, k, c) => SettledIn(Append(q, m), d, f, k, c)
           /\ ForgottenIn(q, d, f, k, B) => ForgottenIn(Append(q, m), d, f, k, B)
<1>1. /\ LastIs(q, k, c) => LastIs(Append(q, m), k, c)
      /\ NoneOf(q, k) <=> NoneOf(Append(q, m), k)
      /\ NothingAfter(q, k) => NothingAfter(Append(q, m), k)
    BY AppendSays
<1> QED BY <1>1 DEF SettledIn, ForgottenIn

\* The fact is sent, before its origin pruned it.
LEMMA FactSent ==
    ASSUME NEW S, NEW q \in Seq(S), NEW m \in S, NEW d, NEW f, NEW k, NEW c, NEW B,
           Carries(m, k), m.fact.content = c, k \notin B,
           \A i \in DOMAIN q : ~(q[i].type = "tombstone" /\ q[i].key = k)
    PROVE  SettledIn(Append(q, m), d, f, k, c) /\ ForgottenIn(Append(q, m), d, f, k, B)
<1>1. /\ LastIs(Append(q, m), k, c) /\ ~NoneOf(Append(q, m), k)
      /\ NothingAfter(Append(q, m), k)
    BY AppendSays
<1> QED BY <1>1 DEF SettledIn, ForgottenIn

\* The first envelope is taken, and is not about the fact; the worker was idle.
LEMMA OtherTaken ==
    ASSUME NEW S, NEW q \in Seq(S), 1 \in DOMAIN q, NEW d, NEW e, NEW f, NEW g,
           NEW k, NEW c, NEW B,
           ~Carries(q[1], k), ~DecidesIn(d, k), ~DecidesIn(e, k), g = f \/ g = Absent
    PROVE  /\ SettledIn(q, d, f, k, c) => SettledIn(RemoveAt(q, 1), e, g, k, c)
           /\ ForgottenIn(q, d, f, k, B) => ForgottenIn(RemoveAt(q, 1), e, g, k, B)
<1>1. /\ LastIs(q, k, c) => LastIs(RemoveAt(q, 1), k, c)
      /\ NoneOf(RemoveAt(q, 1), k) => NoneOf(q, k)
    BY FirstSays
<1>2. /\ NoneOf(q, k) => NoneOf(RemoveAt(q, 1), k)
      /\ NothingAfter(q, k) => NothingAfter(RemoveAt(q, 1), k)
    BY RemovedSays
<1> QED BY <1>1, <1>2 DEF SettledIn, ForgottenIn

\* The fact is taken and decided about.
LEMMA FactTaken ==
    ASSUME NEW S, NEW q \in Seq(S), 1 \in DOMAIN q, NEW d, NEW e, NEW f,
           NEW k, NEW c, NEW B,
           Carries(q[1], k), DecidesIn(e, k), e.fact = q[1].fact
    PROVE  /\ SettledIn(q, d, f, k, c) => SettledIn(RemoveAt(q, 1), e, f, k, c)
           /\ ForgottenIn(q, d, f, k, B) => ForgottenIn(RemoveAt(q, 1), e, f, k, B)
<1>1. /\ LastIs(q, k, c) => LastIs(RemoveAt(q, 1), k, c)
      /\ LastIs(q, k, c) /\ NoneOf(RemoveAt(q, 1), k) => q[1].fact.content = c
    BY FirstSays
<1>2. NothingAfter(q, k) => NothingAfter(RemoveAt(q, 1), k)
    BY RemovedSays
<1>3. ~NoneOf(q, k)
    BY DEF NoneOf
<1> QED BY <1>1, <1>2, <1>3 DEF SettledIn, ForgottenIn

\* The tombstone of the fact is taken and the copy removed.
LEMMA TombstoneTaken ==
    ASSUME NEW S, NEW q \in Seq(S), 1 \in DOMAIN q, NEW d, NEW f, NEW k, NEW c, NEW B, NEW D,
           q[1].type = "tombstone", q[1].key = k, ~DecidesIn(d, k)
    PROVE  /\ SettledIn(q, d, f, k, c) => SettledIn(RemoveAt(q, 1), d, Absent, k, c)
           /\ ForgottenIn(q, d, f, k, B) => ForgottenIn(RemoveAt(q, 1), d, Absent, k, D)
<1>1. /\ LastIs(q, k, c) => LastIs(RemoveAt(q, 1), k, c)
      /\ NothingAfter(q, k) => NoneOf(RemoveAt(q, 1), k)
    BY FirstSays
<1>2. NothingAfter(q, k) => NothingAfter(RemoveAt(q, 1), k)
    BY RemovedSays
<1> QED BY <1>1, <1>2 DEF SettledIn, ForgottenIn

\* What was decided is stored.
LEMMA FactStored ==
    ASSUME NEW q, NEW d, NEW e, NEW f, NEW g, NEW k, NEW c, NEW B,
           DecidesIn(d, k), ~DecidesIn(e, k), g = Absent \/ g.content = d.fact.content
    PROVE  /\ SettledIn(q, d, f, k, c) => SettledIn(q, e, g, k, c)
           /\ ForgottenIn(q, d, f, k, B) => ForgottenIn(q, e, g, k, B)
BY DEF SettledIn, ForgottenIn

\* An envelope is lost.
LEMMA MailLost ==
    ASSUME NEW S, NEW q \in Seq(S), NEW j \in DOMAIN q, NEW d, NEW f, NEW k, NEW B,
           ForgottenIn(q, d, f, k, B)
    PROVE  ForgottenIn(RemoveAt(q, j), d, f, k, B)
BY RemovedSays DEF ForgottenIn

-----------------------------------------------------------------------------
(* The invariant of a node that handles its mail in order, step by step.     *)
Node(n, k, v) ==
    /\ Teaching /\ Alone /\ OrderlyAt(n, k, v)
    /\ n \in Nodes /\ k \in Keys /\ v \in Workers /\ Workers = {v}
    /\ Foreign(n, k) /\ inOrder /\ n \notin Syncers

LEMMA NodeIs ==
    ASSUME NEW n, NEW k, NEW v, Node(n, k, v)
    PROVE  /\ Origin(k) \in Nodes /\ Origin(k) # n /\ n \in Others(Origin(k))
           /\ <<Origin(k), n>> \in Links
           /\ <<Origin(k), n>>[1] = Origin(k) /\ <<Origin(k), n>>[2] = n
           /\ Typed /\ Works /\ Mail /\ Stores /\ Broadcast
           /\ facts \in [Nodes -> [Keys -> Fact]] /\ facts[n][k] \in Fact
           /\ handling \in [Nodes -> [Workers -> Task]] /\ handling[n][v] \in Task
           /\ net \in [Links -> Seq(Message)] /\ net[<<Origin(k), n>>] \in Seq(Message)
           /\ buried \in [Nodes -> SUBSET Keys]
           /\ \A j \in DOMAIN net[<<Origin(k), n>>] :
                /\ net[<<Origin(k), n>>][j] \in Message
                /\ MailOK(<<Origin(k), n>>, net[<<Origin(k), n>>][j])
<1>1. n \in Nodes /\ k \in Keys /\ v \in Workers /\ Origin(k) # n /\ Teaching
    BY DEF Node, Foreign
<1>2. Origin(k) \in Nodes
    BY <1>1, OriginIs
<1>3. /\ <<Origin(k), n>> \in Links /\ n \in Others(Origin(k))
      /\ <<Origin(k), n>>[1] = Origin(k) /\ <<Origin(k), n>>[2] = n
    BY <1>1, <1>2, LinkIs
<1>4. Typed /\ Works /\ Mail /\ Stores /\ Broadcast
    BY <1>1 DEF Teaching
<1>5. /\ facts \in [Nodes -> [Keys -> Fact]]
      /\ handling \in [Nodes -> [Workers -> Task]]
      /\ net \in [Links -> Seq(Message)] /\ buried \in [Nodes -> SUBSET Keys]
    BY <1>4 DEF Typed, TypeOK
<1>6. net[<<Origin(k), n>>] \in Seq(Message)
    BY <1>3, <1>5
<1>7. \A j \in DOMAIN net[<<Origin(k), n>>] :
        /\ net[<<Origin(k), n>>][j] \in Message
        /\ MailOK(<<Origin(k), n>>, net[<<Origin(k), n>>][j])
    BY <1>3, <1>4, <1>6, ElementOfSeq, LenProperties DEF Mail
<1> QED BY <1>1, <1>2, <1>3, <1>4, <1>5, <1>6, <1>7

\* Only a broadcast of the fact makes what was announced the last write again.
LEMMA CountsStep ==
    ASSUME Teaching, [Next]_vars, NEW n, NEW k \in Keys, announced'[k] = announced[k]
    PROVE  Counts(n, k)' => Counts(n, k) /\ writes'[k] = writes[k]
<1>1. Typed /\ Works /\ Broadcast
    BY DEF Teaching
<1>2. writes[k] \in Nat /\ writes'[k] \in Nat /\ writes[k] <= writes'[k]
    BY <1>1, Grows
<1>3. announced[k] \in Nat /\ announced[k] <= writes[k] /\ lost \in Nat
    BY <1>1, BoundAssumption DEF Broadcast, Typed, TypeOK
<1>4. lost' = 0 => lost = 0
    BY <1>3, RestKinds
<1> QED BY <1>2, <1>3, <1>4 DEF Counts

\* A step that leaves the way of the fact alone.
LEMMA AsideStep ==
    ASSUME NEW n, NEW k, NEW v, Node(n, k, v), [Next]_vars,
           net'[<<Origin(k), n>>] = net[<<Origin(k), n>>],
           facts'[n][k] = facts[n][k] \/ facts'[n][k] = Absent,
           \/ handling'[n][v] = handling[n][v]
           \/ ~DecidesIn(handling'[n][v], k) /\ ~DecidesIn(handling[n][v], k),
           k \in buried'[n] => k \in buried[n],
           announced'[k] = announced[k]
    PROVE  OrderlyAt(n, k, v)'
<1> DEFINE q == net[<<Origin(k), n>>]
<1>1. PICK d, e, f, g : d = handling[n][v] /\ e = handling'[n][v]
                        /\ f = facts[n][k] /\ g = facts'[n][k]
    OBVIOUS
<1>2. PICK B, D : B = buried[n] /\ D = buried'[n]
    OBVIOUS
<1>3. /\ g = f \/ g = Absent
      /\ DecidesIn(e, k) <=> DecidesIn(d, k)
      /\ DecidesIn(d, k) => e.fact = d.fact
      /\ k \in D => k \in B
    BY <1>1, <1>2
<1>4. Counts(n, k)' => Counts(n, k) /\ writes'[k] = writes[k]
    BY CountsStep DEF Node
<1>5. k \in D => k \in pruned'[Origin(k)]
    <2>1. Origin(k) \in Nodes /\ Typed /\ Works
        BY NodeIs
    <2> QED BY <1>2, <1>3, <2>1, Grows DEF Node, OrderlyAt
<1>6. /\ Counts(n, k) => SettledIn(q, e, g, k, writes[k])
      /\ ForgottenIn(q, e, g, k, D)
    <2>1. /\ Counts(n, k) => SettledIn(q, d, f, k, writes[k])
          /\ ForgottenIn(q, d, f, k, B)
        BY <1>1, <1>2 DEF Node, OrderlyAt
    <2> QED BY <1>3, <2>1, AsideKeeps
<1>7. OrderlyAt(n, k, v)' <=>
        /\ Counts(n, k)' => SettledIn(net'[<<Origin(k), n>>], e, g, k, writes'[k])
        /\ ForgottenIn(net'[<<Origin(k), n>>], e, g, k, D)
        /\ k \in D => k \in pruned'[Origin(k)]
    BY <1>1, <1>2 DEF OrderlyAt, SettledIn, ForgottenIn, LastIs, NoneOf, NothingAfter, DecidesIn
<1> QED BY <1>4, <1>5, <1>6, <1>7

LEMMA OrderlyNext ==
    ASSUME NEW n, NEW k, NEW v, NEW q, NEW e, NEW g, NEW D,
           q = net'[<<Origin(k), n>>], e = handling'[n][v], g = facts'[n][k], D = buried'[n],
           Counts(n, k)' => SettledIn(q, e, g, k, writes'[k]),
           ForgottenIn(q, e, g, k, D),
           k \in D => k \in pruned'[Origin(k)]
    PROVE  OrderlyAt(n, k, v)'
BY DEF OrderlyAt, SettledIn, ForgottenIn, LastIs, NoneOf, NothingAfter, DecidesIn

\* An envelope is sent: on the way of the fact it is another one, or the fact as
\* its origin last wrote it and has not pruned it.
LEMMA SendsStep ==
    ASSUME NEW n, NEW k, NEW v, Node(n, k, v), [Next]_vars,
           NEW a \in Nodes, NEW P, NEW m, Sends(a, P, m),
           UNCHANGED <<facts, handling, buried, pruned, writes>>,
           \/ announced'[k] = announced[k] /\ ~Carries(m, k)
           \/ announced'[k] = announced[k] /\ ~(a = Origin(k) /\ n \in P)
           \/ /\ a = Origin(k) /\ n \in P
              /\ Carries(m, k) /\ m.fact.content = writes[k] /\ k \notin pruned[a]
    PROVE  OrderlyAt(n, k, v)'
<1> DEFINE L == <<Origin(k), n>>
<1>1. /\ m \in Message /\ net \in [Links -> Seq(Message)] /\ L \in Links
      /\ net[L] \in Seq(Message) /\ L[1] = Origin(k) /\ L[2] = n
    BY NodeIs DEF Sends
<1>2. net'[L] = IF Origin(k) = a /\ n \in P THEN Append(net[L], m) ELSE net[L]
    <2>1. net' = Sent(net, a, P, m)
        BY DEF Sends
    <2>2. \A l \in Links : Sent(net, a, P, m)[l] =
            IF l[1] = a /\ l[2] \in P THEN Append(net[l], m) ELSE net[l]
        BY <1>1, SentHolds
    <2> QED BY <1>1, <2>1, <2>2
<1>3. CASE ~(a = Origin(k) /\ n \in P)
    <2>1. announced'[k] = announced[k] /\ net'[L] = net[L]
        BY <1>2, <1>3
    <2> QED BY <2>1, AsideStep
<1> SUFFICES ASSUME a = Origin(k), n \in P PROVE OrderlyAt(n, k, v)'
    BY <1>3
<1>4. PICK q, e, f, B : /\ q = net[L] /\ e = handling[n][v] /\ f = facts[n][k]
                        /\ B = buried[n]
    OBVIOUS
<1>5. net'[L] = Append(q, m) /\ q \in Seq(Message)
    BY <1>1, <1>2, <1>4
<1>6. /\ Counts(n, k) => SettledIn(q, e, f, k, writes[k])
      /\ ForgottenIn(q, e, f, k, B)
      /\ k \in B => k \in pruned[Origin(k)]
    BY <1>4 DEF Node, OrderlyAt
<1>7. CASE announced'[k] = announced[k] /\ ~Carries(m, k)
    <2>1. Counts(n, k)' => Counts(n, k)
        BY <1>7, CountsStep DEF Node
    <2>2. /\ Counts(n, k)' => SettledIn(Append(q, m), e, f, k, writes'[k])
          /\ ForgottenIn(Append(q, m), e, f, k, B)
        BY <1>1, <1>5, <1>6, <1>7, <2>1, OtherSent
    <2> QED BY <1>4, <1>5, <1>6, <2>2, OrderlyNext
<1>8. CASE Carries(m, k) /\ m.fact.content = writes[k] /\ k \notin pruned[a]
    <2>1. k \notin B
        BY <1>6, <1>8
    <2>2. \A i \in DOMAIN q : ~(q[i].type = "tombstone" /\ q[i].key = k)
        <3>1. \A i \in DOMAIN q : MailOK(L, q[i])
            BY <1>4, NodeIs
        <3> QED BY <1>1, <1>8, <3>1 DEF MailOK
    <2>3. /\ SettledIn(Append(q, m), e, f, k, writes'[k])
          /\ ForgottenIn(Append(q, m), e, f, k, B)
        BY <1>1, <1>5, <1>8, <2>1, <2>2, FactSent
    <2> QED BY <1>4, <1>5, <2>1, <2>3, OrderlyNext
<1> QED BY <1>7, <1>8

\* The application's steps.
LEMMA ApplicationStep ==
    ASSUME NEW n, NEW k, NEW v, Node(n, k, v), [Next]_vars,
           NEW a \in Nodes, NEW g \in Keys,
           \/ PublishFact(a, g) \/ SendReinforce(a, g) \/ Prune(a, g) \/ PublishTombstone(a, g)
           \/ \E s \in Saliences : StoreFact(a, g, s)
           \/ \E p \in Others(a) : PublishFactTo(a, g, p) \/ SendDigests(a, p)
    PROVE  OrderlyAt(n, k, v)'
<1>1. /\ Typed /\ Works /\ Stores /\ n \in Nodes /\ k \in Keys /\ Origin(k) # n
      /\ Origin(k) \in Nodes /\ n \in Others(Origin(k))
      /\ announced \in [Keys -> 0..MaxWrites]
    BY NodeIs DEF Node, Typed, TypeOK
<1>2. ASSUME PublishFact(a, g) PROVE OrderlyAt(n, k, v)'
    <2>1. /\ UNCHANGED <<facts, handling, buried, pruned, writes>>
          /\ announced' = [announced EXCEPT ![g] = facts[a][g].content]
          /\ Origin(g) = a /\ Has(a, g)
        BY <1>2 DEF PublishFact
    <2>2. PICK m : m = FactMsg(g, facts[a][g])
        OBVIOUS
    <2>3. /\ m.key = g /\ m.fact = facts[a][g] /\ m.type = "memory_fact"
          /\ facts[a][g].content = writes[g] /\ g \notin pruned[a]
        <3>1. facts[a][g] \in Fact
            BY <1>1 DEF Typed, TypeOK
        <3> QED BY <1>1, <2>1, <2>2, <3>1, FactsAreSendable, EnvelopeIs
    <2>4. Sends(a, Others(a), m)
        <3>1. PublishFact(a, g) => net' = Sent(net, a, Others(a), m)
            BY <2>2 DEF PublishFact
        <3> QED BY <1>1, <1>2, <2>1, <2>2, <3>1, FactsAreSendable DEF Sends
    <2>5. CASE g = k
        BY <1>1, <2>1, <2>3, <2>4, <2>5, SendsStep DEF Carries
    <2>6. CASE g # k
        <3>1. announced'[k] = announced[k] /\ ~Carries(m, k)
            BY <1>1, <2>1, <2>3, <2>6 DEF Carries
        <3> QED BY <2>1, <2>4, <3>1, SendsStep
    <2> QED BY <2>5, <2>6
<1>3. ASSUME NEW p \in Others(a), PublishFactTo(a, g, p) PROVE OrderlyAt(n, k, v)'
    <2>1. /\ UNCHANGED <<facts, handling, buried, pruned, writes, announced>>
          /\ Origin(g) = a /\ Has(a, g)
        BY <1>3 DEF PublishFactTo
    <2>2. PICK m : m = FactMsg(g, facts[a][g])
        OBVIOUS
    <2>3. /\ m.key = g /\ m.fact = facts[a][g] /\ m.type = "memory_fact"
          /\ facts[a][g].content = writes[g] /\ g \notin pruned[a]
        <3>1. facts[a][g] \in Fact
            BY <1>1 DEF Typed, TypeOK
        <3> QED BY <1>1, <2>1, <2>2, <3>1, FactsAreSendable, EnvelopeIs
    <2>4. Sends(a, {p}, m)
        BY <1>1, <1>3, <2>2, SendKinds
    <2>5. \/ ~Carries(m, k)
          \/ ~(a = Origin(k) /\ n \in {p})
          \/ /\ a = Origin(k) /\ n \in {p}
             /\ Carries(m, k) /\ m.fact.content = writes[k] /\ k \notin pruned[a]
        BY <2>3 DEF Carries
    <2> QED BY <2>1, <2>4, <2>5, SendsStep
<1>4. ASSUME SendReinforce(a, g) \/ PublishTombstone(a, g) PROVE OrderlyAt(n, k, v)'
    <2>1. UNCHANGED <<facts, handling, buried, pruned, writes, announced>>
        BY <1>4 DEF SendReinforce, PublishTombstone
    <2>2. CASE SendReinforce(a, g)
        <3>1. Sends(a, {Origin(g)}, ReinforceMsg(g))
            BY <2>2, OriginIs, EnvelopeIs DEF SendReinforce, Sends, Others, MailOK
        <3>2. ~Carries(ReinforceMsg(g), k)
            BY EnvelopeIs DEF Carries
        <3> QED BY <2>1, <3>1, <3>2, SendsStep
    <2>3. CASE PublishTombstone(a, g)
        <3>1. Sends(a, Others(a), TombstoneMsg(g))
            BY <2>3, EnvelopeIs DEF PublishTombstone, Sends, MailOK
        <3>2. ~Carries(TombstoneMsg(g), k)
            BY EnvelopeIs DEF Carries
        <3> QED BY <2>1, <3>1, <3>2, SendsStep
    <2> QED BY <1>4, <2>2, <2>3
<1>5. ASSUME NEW p \in Others(a), SendDigests(a, p) PROVE OrderlyAt(n, k, v)'
    <2>1. UNCHANGED <<facts, handling, buried, pruned, writes, announced>>
        BY <1>5 DEF SendDigests
    <2>2. ~Carries(DigestMsg(Digested(a)), k)
        BY DEF DigestMsg, Carries
    <2> QED BY <1>5, <2>1, <2>2, DigestIsSent, SendsStep
<1>6. ASSUME Prune(a, g) \/ \E s \in Saliences : StoreFact(a, g, s)
      PROVE  OrderlyAt(n, k, v)'
    <2>1. UNCHANGED <<net, handling, buried, announced>>
        BY <1>6 DEF Prune, StoreFact
    <2>2. (\E s \in Saliences : StoreFact(a, g, s)) => Origin(g) = a
        BY DEF StoreFact
    <2>3. facts'[n][k] = facts[n][k] \/ facts'[n][k] = Absent
        BY <1>1, <1>6, <2>2, RecordsStay
    <2> QED BY <2>1, <2>3, AsideStep
<1> QED BY <1>2, <1>3, <1>4, <1>5, <1>6

\* A worker finishes what it began.
LEMMA FinishStep ==
    ASSUME NEW n, NEW k, NEW v, Node(n, k, v), [Next]_vars,
           NEW a \in Nodes, NEW w \in Workers, OnFactWrite(a, w) \/ OnDigestPush(a, w)
    PROVE  OrderlyAt(n, k, v)'
<1> DEFINE L == <<Origin(k), n>>
<1>1. /\ Typed /\ Works /\ n \in Nodes /\ k \in Keys /\ v \in Workers /\ Workers = {v}
      /\ handling \in [Nodes -> [Workers -> Task]] /\ facts[n][k] \in Fact /\ w = v
    BY NodeIs DEF Node
<1>2. CASE OnDigestPush(a, w)
    <2>1. PICK h \in Task : /\ handling' = [handling EXCEPT ![a][w] = h]
                            /\ WorkOK(a, h) /\ h.step # "deciding"
        BY <1>1, <1>2, PushLeaves
    <2>2. UNCHANGED <<facts, buried, announced, pruned, writes>>
        BY <1>2 DEF OnDigestPush
    <2>3. handling[a][w].step = "pushing"
        BY <1>2 DEF OnDigestPush
    <2>4. \/ handling'[n][v] = handling[n][v]
          \/ ~DecidesIn(handling'[n][v], k) /\ ~DecidesIn(handling[n][v], k)
        <3>1. CASE a = n
            BY <1>1, <2>1, <2>3, <3>1 DEF DecidesIn
        <3>2. CASE a # n
            BY <1>1, <2>1, <3>2
        <3> QED BY <3>1, <3>2
    <2>5. net'[L] = net[L]
        <3>1. L \in Links /\ L[2] = n /\ n \notin Syncers /\ net \in [Links -> Seq(Message)]
            BY NodeIs DEF Node
        <3>2. ASSUME NEW p \in Syncers \cap Others(a), NEW m \in Message, Sends(a, {p}, m)
              PROVE  net'[L] = net[L]
            <4>1. \A l \in Links : Sent(net, a, {p}, m)[l] =
                    IF l[1] = a /\ l[2] \in {p} THEN Append(net[l], m) ELSE net[l]
                BY <3>1, SentHolds
            <4>2. net' = Sent(net, a, {p}, m) /\ L[2] \notin {p}
                BY <3>1, <3>2 DEF Sends
            <4> QED BY <3>1, <4>1, <4>2
        <3> QED BY <1>1, <1>2, <3>2, Pushes
    <2> QED BY <2>2, <2>4, <2>5, AsideStep
<1>3. CASE OnFactWrite(a, w)
    <2>1. UNCHANGED <<net, buried, announced, pruned, writes>>
        BY <1>3 DEF OnFactWrite
    <2>2. PICK d : d = handling[a][w]
        OBVIOUS
    <2>3. /\ d.step = "deciding" /\ d.key \in Keys /\ d.fact \in Fact /\ d.seen \in Fact
          /\ facts[a][d.key] \in Fact
          /\ handling' = [handling EXCEPT ![a][w] = Free]
        BY <1>1, <1>3, <2>2, FactWrites
    <2>4. \/ d.seen = Absent /\ facts'[a][d.key] = d.fact
          \/ /\ d.seen # Absent /\ d.seen.content # d.fact.content
             /\ facts'[a][d.key] = Merged(d.seen, d.fact)
          \/ /\ d.seen # Absent /\ d.seen.content = d.fact.content
             /\ \/ Has(a, d.key) /\ facts'[a][d.key] = Reinforced(facts[a][d.key])
                \/ ~Has(a, d.key) /\ UNCHANGED facts
        BY <1>1, <1>3, <2>2, FactWrites
    <2>5. \A o \in Nodes, g \in Keys : o # a \/ g # d.key => facts'[o][g] = facts[o][g]
        BY <1>1, <1>3, <2>2, <2>3, HandlersRewrite, RecordsStay
    <2>6. CASE a # n
        BY <1>1, <2>1, <2>3, <2>5, <2>6, AsideStep
    <2>7. CASE a = n /\ d.key # k
        <3>1. ~DecidesIn(handling'[n][v], k) /\ ~DecidesIn(handling[n][v], k)
            BY <1>1, <2>2, <2>3, <2>7, TaskIs DEF DecidesIn
        <3> QED BY <1>1, <2>1, <2>5, <2>7, <3>1, AsideStep
    <2>8. CASE a = n /\ d.key = k
        <3>1. PICK q, f, g, B : q = net[L] /\ f = facts[n][k] /\ g = facts'[n][k] /\ B = buried[n]
            OBVIOUS
        <3>2. d = handling[n][v] /\ handling'[n][v] = Free
            BY <1>1, <2>2, <2>3, <2>8
        <3>3. DecidesIn(d, k) /\ ~DecidesIn(Free, k)
            BY <2>3, <2>8, TaskIs DEF DecidesIn
        <3>4. f = d.seen \/ f = Absent
            BY <1>1, <2>3, <2>8, <3>1, <3>2 DEF Node, Alone
        <3>5. g = Absent \/ g.content = d.fact.content
            <4>1. Merged(d.seen, d.fact).content = d.fact.content
                BY <2>3, FactIs
            <4>2. Reinforced(f).content = f.content
                BY <1>1, <3>1, FactIs
            <4> QED BY <2>4, <2>8, <3>1, <3>4, <4>1, <4>2 DEF Has
        <3>6. /\ Counts(n, k) => SettledIn(q, d, f, k, writes[k])
              /\ ForgottenIn(q, d, f, k, B)
              /\ k \in B => k \in pruned[Origin(k)]
            BY <3>1, <3>2 DEF Node, OrderlyAt
        <3>7. Counts(n, k)' => Counts(n, k)
            BY <1>1, <2>1, CountsStep DEF Node
        <3>8. /\ Counts(n, k)' => SettledIn(q, Free, g, k, writes'[k])
              /\ ForgottenIn(q, Free, g, k, B)
            BY <2>1, <3>3, <3>5, <3>6, <3>7, FactStored
        <3> QED BY <2>1, <3>1, <3>2, <3>6, <3>8, OrderlyNext
    <2> QED BY <2>6, <2>7, <2>8
<1> QED BY <1>2, <1>3

\* An envelope is lost.
LEMMA LoseStep ==
    ASSUME NEW n, NEW k, NEW v, Node(n, k, v), [Next]_vars, NEW l \in Links, Lose(l)
    PROVE  OrderlyAt(n, k, v)'
<1> DEFINE L == <<Origin(k), n>>
<1>1. /\ UNCHANGED <<facts, handling, buried, pruned, announced, writes>>
      /\ lost' = lost + 1
    BY DEF Lose
<1>2. PICK j \in DOMAIN net[l] : Removes(l, j)
    BY DEF Lose, Removes
<1>3. /\ L \in Links /\ net \in [Links -> Seq(Message)] /\ net[L] \in Seq(Message)
      /\ lost \in Nat
    <2>1. lost \in 0..MaxLoss /\ MaxLoss \in Nat
        BY NodeIs, BoundAssumption DEF Typed, TypeOK
    <2>2. L \in Links /\ net \in [Links -> Seq(Message)] /\ net[L] \in Seq(Message)
        BY NodeIs
    <2> QED BY <2>1, <2>2
<1>4. net'[L] = IF L = l THEN RemoveAt(net[L], j) ELSE net[L]
    BY <1>2, <1>3, TakenHolds DEF Removes
<1>5. CASE L # l
    BY <1>1, <1>4, <1>5, AsideStep
<1>6. CASE L = l
    <2>1. PICK q, d, f, B : q = net[L] /\ d = handling[n][v] /\ f = facts[n][k] /\ B = buried[n]
        OBVIOUS
    <2>2. ForgottenIn(q, d, f, k, B) /\ (k \in B => k \in pruned[Origin(k)])
        BY <2>1 DEF Node, OrderlyAt
    <2>3. ForgottenIn(RemoveAt(q, j), d, f, k, B)
        BY <1>2, <1>3, <1>6, <2>1, <2>2, MailLost
    <2>4. ~Counts(n, k)'
        BY <1>1, <1>3 DEF Counts
    <2> QED BY <1>1, <1>4, <1>6, <2>1, <2>2, <2>3, <2>4, OrderlyNext
<1> QED BY <1>5, <1>6

\* A worker that reads a fact decides about it, and nothing else happens yet.
LEMMA FactIsTaken ==
    ASSUME Typed, Mail, NEW n \in Nodes, NEW v \in Workers, NEW p \in Others(n),
           NEW j \in DOMAIN net[<<p, n>>], NEW m, m = net[<<p, n>>][j],
           OnFactRead(n, v, p, j)
    PROVE  /\ m.type = "memory_fact" /\ Origin(m.key) = p
           /\ handling'[n][v].step = "deciding" /\ handling'[n][v].key = m.key
           /\ handling'[n][v].fact = m.fact
           /\ UNCHANGED <<facts, buried>>
<1>1. /\ m.type = "memory_fact" /\ m.key \in Keys /\ m.fact \in Fact
      /\ facts[n][m.key] \in Fact
      /\ handling' = [handling EXCEPT ![n][v] = Deciding(m.key, m.fact, facts[n][m.key])]
    BY FactIsRead DEF OnFactRead
<1>2. handling \in [Nodes -> [Workers -> Task]]
    BY DEF Typed, TypeOK
<1>3. handling'[n][v] = Deciding(m.key, m.fact, facts[n][m.key])
    BY <1>1, <1>2
<1>4. UNCHANGED <<facts, buried>>
    BY DEF OnFactRead
<1>5. Origin(m.key) = p
    <2>1. <<p, n>> \in Links /\ <<p, n>>[1] = p
        BY LinkIs DEF Others
    <2>2. MailOK(<<p, n>>, m)
        BY <2>1 DEF Mail
    <2> QED BY <1>1, <2>1, <2>2 DEF MailOK
<1> QED BY <1>1, <1>3, <1>4, <1>5, TaskIs

\* What a worker of n that takes an envelope does with it.
LEMMA TakeEffects ==
    ASSUME NEW n, NEW k, NEW v, Node(n, k, v),
           NEW p \in Others(n), NEW j \in DOMAIN net[<<p, n>>],
           \/ Drop(n, v, p, j) \/ OnFactRead(n, v, p, j) \/ OnReinforce(n, v, p, j)
           \/ OnTombstone(n, v, p, j) \/ OnDigestRead(n, v, p, j)
    PROVE  LET m == net[<<p, n>>][j] IN
           /\ handling[n][v] = Free /\ Take(p, n, j)
           /\ UNCHANGED <<announced, pruned>>
           /\ \/ /\ Ignored(p, n, m)
                 /\ UNCHANGED <<facts, handling, buried>>
              \/ /\ m.type = "memory_fact" /\ Origin(m.key) = p
                 /\ handling'[n][v].step = "deciding" /\ handling'[n][v].key = m.key
                 /\ handling'[n][v].fact = m.fact
                 /\ UNCHANGED <<facts, buried>>
              \/ /\ m.type \in {"reinforce", "memory_digest"}
                 /\ facts'[n][k] = facts[n][k]
                 /\ handling'[n][v].step # "deciding"
                 /\ UNCHANGED buried
              \/ /\ m.type = "tombstone"
                 /\ facts'[n][k] = IF m.key = k THEN Absent ELSE facts[n][k]
                 /\ UNCHANGED handling
                 /\ \A g \in buried'[n] : g \in buried[n] \/ (g = m.key /\ p = Origin(m.key))
<1>1. /\ Typed /\ Works /\ Mail /\ Stores /\ n \in Nodes /\ k \in Keys /\ v \in Workers
      /\ facts \in [Nodes -> [Keys -> Fact]] /\ handling \in [Nodes -> [Workers -> Task]]
      /\ buried \in [Nodes -> SUBSET Keys] /\ Origin(k) # n
    BY NodeIs DEF Node
<1>2. PICK m : m = net[<<p, n>>][j]
    OBVIOUS
<1>3. handling[n][v] = Free /\ Take(p, n, j) /\ UNCHANGED <<announced, pruned>>
    BY DEF Drop, OnFactRead, OnReinforce, OnTombstone, OnDigestRead
<1>4. ASSUME Drop(n, v, p, j)
      PROVE  Ignored(p, n, m) /\ UNCHANGED <<facts, handling, buried>>
    BY <1>2, <1>4 DEF Drop
<1>5. ASSUME OnFactRead(n, v, p, j)
      PROVE  /\ m.type = "memory_fact" /\ Origin(m.key) = p
             /\ handling'[n][v].step = "deciding" /\ handling'[n][v].key = m.key
             /\ handling'[n][v].fact = m.fact
             /\ UNCHANGED <<facts, buried>>
    BY <1>1, <1>2, <1>5, FactIsTaken
<1>6. ASSUME OnReinforce(n, v, p, j)
      PROVE  /\ m.type \in {"reinforce", "memory_digest"}
             /\ facts'[n][k] = facts[n][k]
             /\ handling'[n][v].step # "deciding"
             /\ UNCHANGED buried
    <2>1. /\ m.key \in Keys /\ Origin(m.key) = n
          /\ Rewrites(n, m.key) \/ UNCHANGED <<facts, writes, pruned>>
        BY <1>1, <1>2, <1>6, HandlersRewrite
    <2>2. facts'[n][k] = facts[n][k]
        <3>1. n # n \/ k # m.key
            BY <1>1, <2>1
        <3>2. CASE Rewrites(n, m.key)
            BY <1>1, <2>1, <3>1, <3>2, RecordsStay
        <3> QED BY <2>1, <3>2
    <2>3. UNCHANGED <<handling, buried>> /\ m.type = "reinforce"
        BY <1>2, <1>6 DEF OnReinforce
    <2> QED BY <1>3, <2>2, <2>3, TaskIs
<1>7. ASSUME OnDigestRead(n, v, p, j)
      PROVE  /\ m.type \in {"reinforce", "memory_digest"}
             /\ facts'[n][k] = facts[n][k]
             /\ handling'[n][v].step # "deciding"
             /\ UNCHANGED buried
    <2>1. PICK F \in SUBSET (Keys \X Fact) : handling' = [handling EXCEPT ![n][v] = Pushing(p, F)]
        BY <1>1, <1>7, DigestIsRead
    <2>2. handling'[n][v] = Pushing(p, F)
        BY <1>1, <2>1
    <2>3. Pushing(p, F).step = "pushing"
        BY DEF Pushing
    <2>4. UNCHANGED <<facts, buried>> /\ m.type = "memory_digest"
        BY <1>2, <1>7 DEF OnDigestRead
    <2> QED BY <2>2, <2>3, <2>4
<1>8. ASSUME OnTombstone(n, v, p, j)
      PROVE  /\ m.type = "tombstone"
             /\ facts'[n][k] = IF m.key = k THEN Absent ELSE facts[n][k]
             /\ UNCHANGED handling
             /\ \A g \in buried'[n] : g \in buried[n] \/ (g = m.key /\ p = Origin(m.key))
    <2>1. m.key \in Keys
        BY <1>1, <1>2, <1>8, HandlersRewrite
    <2>2. facts' = [facts EXCEPT ![n][m.key] = Absent] /\ Bury(n, p, m.key)
        BY <1>2, <1>8 DEF OnTombstone, Put
    <2>3. facts'[n][k] = IF m.key = k THEN Absent ELSE facts[n][k]
        BY <1>1, <2>1, <2>2
    <2>4. buried'[n] = IF p = Origin(m.key) THEN buried[n] \cup {m.key} ELSE buried[n]
        BY <1>1, <2>2 DEF Bury
    <2>5. m.type = "tombstone" /\ UNCHANGED handling
        BY <1>2, <1>8 DEF OnTombstone
    <2> QED BY <2>3, <2>4, <2>5
<1> QED BY <1>2, <1>3, <1>4, <1>5, <1>6, <1>7, <1>8

\* A worker takes an envelope.
LEMMA TakeStep ==
    ASSUME NEW n, NEW k, NEW v, Node(n, k, v), [Next]_vars,
           NEW a \in Nodes, NEW w \in Workers, NEW p \in Others(a),
           NEW j \in DOMAIN net[<<p, a>>],
           \/ Drop(a, w, p, j) \/ OnFactRead(a, w, p, j) \/ OnReinforce(a, w, p, j)
           \/ OnTombstone(a, w, p, j) \/ OnDigestRead(a, w, p, j)
    PROVE  OrderlyAt(n, k, v)'
<1> DEFINE L == <<Origin(k), n>>
<1>1. /\ Typed /\ Works /\ Mail /\ Stores /\ n \in Nodes /\ k \in Keys /\ v \in Workers
      /\ w = v /\ L \in Links
      /\ net \in [Links -> Seq(Message)] /\ net[L] \in Seq(Message)
      /\ handling \in [Nodes -> [Workers -> Task]] /\ buried \in [Nodes -> SUBSET Keys]
    BY NodeIs DEF Node
<1>2. /\ j \in Deliverable(<<p, a>>) /\ UNCHANGED announced
      /\ net' = [net EXCEPT ![<<p, a>>] = RemoveAt(@, j)]
    BY DEF Drop, OnFactRead, OnReinforce, OnTombstone, OnDigestRead, Take
<1>3. p \in Nodes /\ p # a /\ <<p, a>> \in Links
    BY LinkIs DEF Others
<1>4. net'[L] = IF L = <<p, a>> THEN RemoveAt(net[L], j) ELSE net[L]
    BY <1>1, <1>2, <1>3, TakenHolds
<1>5. CASE a # n
    <2>1. net'[L] = net[L]
        BY <1>4, <1>5
    <2>2. facts'[n][k] = facts[n][k]
        <3>1. ASSUME Drop(a, w, p, j) \/ OnFactRead(a, w, p, j) \/ OnDigestRead(a, w, p, j)
              PROVE  UNCHANGED facts
            BY <3>1 DEF Drop, OnFactRead, OnDigestRead
        <3>2. ASSUME OnReinforce(a, w, p, j) PROVE facts'[n][k] = facts[n][k]
            BY <1>1, <1>5, <3>2, HandlersRewrite, RecordsStay
        <3>3. ASSUME OnTombstone(a, w, p, j) PROVE facts'[n][k] = facts[n][k]
            BY <1>1, <1>5, <3>3, HandlersRewrite, RecordsStay
        <3> QED BY <3>1, <3>2, <3>3
    <2>3. handling'[n][v] = handling[n][v]
        <3>1. ASSUME Drop(a, w, p, j) \/ OnReinforce(a, w, p, j) \/ OnTombstone(a, w, p, j)
              PROVE  UNCHANGED handling
            BY <3>1 DEF Drop, OnReinforce, OnTombstone
        <3>2. ASSUME OnFactRead(a, w, p, j) \/ OnDigestRead(a, w, p, j)
              PROVE  \E h : handling' = [handling EXCEPT ![a][w] = h]
            BY <3>2 DEF OnFactRead, OnDigestRead
        <3> QED BY <1>1, <1>5, <3>1, <3>2
    <2>4. buried'[n] = buried[n]
        <3>1. \/ UNCHANGED buried
              \/ \E g : Bury(a, p, g)
            BY DEF Drop, OnFactRead, OnReinforce, OnTombstone, OnDigestRead
        <3> QED BY <1>1, <1>5, <3>1 DEF Bury
    <2> QED BY <1>2, <2>1, <2>2, <2>3, <2>4, AsideStep
<1> SUFFICES ASSUME a = n PROVE OrderlyAt(n, k, v)'
    BY <1>5
<1>6. PICK m : m = net[<<p, n>>][j]
    OBVIOUS
<1>7. /\ handling[n][v] = Free /\ ~DecidesIn(handling[n][v], k)
      /\ \/ /\ Ignored(p, n, m)
            /\ UNCHANGED <<facts, handling, buried>>
         \/ /\ m.type = "memory_fact" /\ Origin(m.key) = p
            /\ handling'[n][v].step = "deciding" /\ handling'[n][v].key = m.key
            /\ handling'[n][v].fact = m.fact
            /\ UNCHANGED <<facts, buried>>
         \/ /\ m.type \in {"reinforce", "memory_digest"}
            /\ facts'[n][k] = facts[n][k]
            /\ handling'[n][v].step # "deciding"
            /\ UNCHANGED buried
         \/ /\ m.type = "tombstone"
            /\ facts'[n][k] = IF m.key = k THEN Absent ELSE facts[n][k]
            /\ UNCHANGED handling
            /\ \A g \in buried'[n] : g \in buried[n] \/ (g = m.key /\ p = Origin(m.key))
    BY <1>1, <1>6, TakeEffects, TaskIs DEF DecidesIn
<1>8. CASE p # Origin(k)
    <2>1. net'[L] = net[L]
        BY <1>4, <1>8
    <2>2. facts'[n][k] = facts[n][k] \/ facts'[n][k] = Absent
        BY <1>7
    <2>3. handling'[n][v] = handling[n][v] \/ ~DecidesIn(handling'[n][v], k)
        BY <1>7, <1>8 DEF DecidesIn
    <2>4. k \in buried'[n] => k \in buried[n]
        BY <1>7, <1>8
    <2> QED BY <1>2, <1>7, <2>1, <2>2, <2>3, <2>4, AsideStep
<1> SUFFICES ASSUME p = Origin(k) PROVE OrderlyAt(n, k, v)'
    BY <1>8
<1>9. /\ j = 1 /\ 1 \in DOMAIN net[L]
    BY <1>2 DEF Deliverable, Node
<1>10. PICK q, d, e, f, g, B, D :
        /\ q = net[L] /\ d = handling[n][v] /\ e = handling'[n][v]
        /\ f = facts[n][k] /\ g = facts'[n][k] /\ B = buried[n] /\ D = buried'[n]
    OBVIOUS
<1>11. /\ q \in Seq(Message) /\ 1 \in DOMAIN q /\ q[1] = m /\ net'[L] = RemoveAt(q, 1)
       /\ ~DecidesIn(d, k) /\ MailOK(L, m) /\ L[1] = Origin(k)
    BY <1>1, <1>4, <1>6, <1>7, <1>9, <1>10, NodeIs
<1>12. /\ Counts(n, k) => SettledIn(q, d, f, k, writes[k])
       /\ ForgottenIn(q, d, f, k, B)
       /\ k \in B => k \in pruned[Origin(k)]
    BY <1>10 DEF Node, OrderlyAt
<1>13. /\ Counts(n, k)' => Counts(n, k) /\ writes'[k] = writes[k]
       /\ k \in pruned[Origin(k)] => k \in pruned'[Origin(k)]
    BY <1>1, <1>2, CountsStep, Grows, OriginIs DEF Node
<1>14. ASSUME Counts(n, k) => SettledIn(RemoveAt(q, 1), e, g, k, writes[k]),
              ForgottenIn(RemoveAt(q, 1), e, g, k, D),
              k \in D => k \in pruned[Origin(k)]
       PROVE  OrderlyAt(n, k, v)'
    BY <1>10, <1>11, <1>13, <1>14, OrderlyNext
<1>15. CASE Carries(m, k) /\ Ignored(p, n, m)
    <2>1. <<n, Origin(k)>> \in Private /\ ~Counts(n, k)
        BY <1>11, <1>15 DEF Ignored, Carries, Node, Foreign, Counts
    <2>2. k \notin B /\ NothingAfter(q, k)
        BY <1>11, <1>12, <1>15 DEF ForgottenIn, NoneOf
    <2>3. k \notin D
        BY <1>7, <1>10, <1>15, <2>2 DEF Carries
    <2>4. ForgottenIn(RemoveAt(q, 1), e, g, k, D)
        BY <1>11, <2>2, <2>3, RemovedSays DEF ForgottenIn
    <2> QED BY <1>14, <2>1, <2>3, <2>4
<1>16. CASE Carries(m, k) /\ ~Ignored(p, n, m)
    <2>1. /\ DecidesIn(e, k) /\ e.fact = m.fact /\ g = f /\ D = B
        BY <1>7, <1>10, <1>16 DEF Carries, DecidesIn
    <2> QED BY <1>11, <1>12, <1>14, <1>16, <2>1, FactTaken
<1>17. CASE ~Carries(m, k) /\ ~(m.type = "tombstone" /\ m.key = k)
    <2>1. (g = f \/ g = Absent) /\ ~DecidesIn(e, k)
        BY <1>7, <1>10, <1>11, <1>17 DEF Carries, DecidesIn
    <2>2. k \in D => k \in B
        BY <1>7, <1>10, <1>17
    <2>3. /\ Counts(n, k) => SettledIn(RemoveAt(q, 1), e, g, k, writes[k])
          /\ ForgottenIn(RemoveAt(q, 1), e, g, k, B)
        BY <1>11, <1>12, <1>17, <2>1, OtherTaken
    <2>4. ForgottenIn(RemoveAt(q, 1), e, g, k, D)
        BY <2>2, <2>3 DEF ForgottenIn
    <2> QED BY <1>12, <1>14, <2>2, <2>3, <2>4
<1>18. CASE m.type = "tombstone" /\ m.key = k
    <2>1. ~Carries(m, k) /\ k \in pruned[Origin(k)]
        BY <1>11, <1>18 DEF Carries, MailOK
    <2>2. CASE Ignored(p, n, m) /\ UNCHANGED <<facts, handling, buried>>
        <3>1. g = f /\ e = d /\ D = B
            BY <1>10, <2>2
        <3> QED BY <1>11, <1>12, <1>14, <2>1, <3>1, OtherTaken
    <2>3. CASE g = Absent /\ e = d
        BY <1>11, <1>12, <1>14, <1>18, <2>1, <2>3, TombstoneTaken
    <2> QED BY <1>7, <1>10, <1>18, <2>2, <2>3
<1> QED BY <1>15, <1>16, <1>17, <1>18

\* Every step keeps what the one worker of n makes of a fact in order.
LEMMA OrderlyStep ==
    ASSUME NEW n, NEW k, NEW v, Node(n, k, v), [Next]_vars
    PROVE  OrderlyAt(n, k, v)'
<1>1. k \in Keys
    BY DEF Node
<1>2. ASSUME UNCHANGED vars PROVE OrderlyAt(n, k, v)'
    BY <1>2, AsideStep DEF vars
<1> QED BY <1>1, <1>2, ApplicationStep, FinishStep, LoseStep, TakeStep, Steps

\* The agents that apply mail in order are those of a link and a worker that keep
\* the order, and ask for no digests.
LEMMA RuledIs ==
    /\ \A n \in Nodes \ Unruly : inOrder /\ Cardinality(Workers) = 1 /\ n \notin Syncers
    /\ UNCHANGED inOrder => UNCHANGED Unruly
BY DEF Unruly

LEMMA MeshInit == Init => MeshInv
<1> SUFFICES ASSUME Init PROVE MeshInv
    OBVIOUS
<1>1. Teaching /\ OnlyForeign /\ Alone
    BY TeachingInit, TaskIs DEF Init, Alone
<1>2. ASSUME NEW n \in Nodes, NEW k \in Keys, Foreign(n, k)
      PROVE  Settled(n, k) /\ Forgotten(n, k)
    <2>1. Way(n, k) = << >>
        BY <1>2, OriginIs, LinkIs DEF Init, Way, Foreign
    <2>2. /\ ~Has(n, k) /\ k \notin buried[n]
          /\ \A w \in Workers : ~Decides(n, w, k)
        BY TaskIs DEF Init, Has, Decides
    <2>3. NoneOf(<< >>, k) /\ NothingAfter(<< >>, k) /\ LastIs(<< >>, k, writes[k])
        BY DEF NoneOf, NothingAfter, LastIs
    <2> QED BY <2>1, <2>2, <2>3 DEF Settled, Forgotten
<1> QED BY <1>1, <1>2 DEF MeshInv, Orderly

LEMMA MeshStep ==
    ASSUME MeshInv, [Next]_vars
    PROVE  MeshInv'
<1>1. Teaching /\ OnlyForeign /\ Orderly /\ (Cardinality(Workers) = 1 => Alone)
    BY DEF MeshInv
<1>2. Teaching' /\ OnlyForeign'
    BY <1>1, TeachingStep
<1>3. ASSUME Cardinality(Workers) = 1 PROVE Alone'
    <2>1. PICK v \in Workers : Workers = {v}
        BY <1>3, OneWorker
    <2>2. \A n \in Nodes : AloneAt(n, v)'
        BY <1>1, <1>3, <2>1, AloneStep
    <2> QED BY <2>1, <2>2 DEF Alone, AloneAt
<1>4. ASSUME NEW n \in Nodes, n \notin Unruly, NEW k \in Keys, Foreign(n, k)
      PROVE  (Settled(n, k) /\ Forgotten(n, k))'
    <2>1. inOrder /\ Cardinality(Workers) = 1 /\ n \notin Syncers
        BY <1>4, RuledIs
    <2>2. PICK v \in Workers : Workers = {v}
        BY <2>1, OneWorker
    <2>3. OrderlyAt(n, k, v)
        <3>1. Settled(n, k) /\ Forgotten(n, k)
            BY <1>1, <1>4 DEF Orderly
        <3> QED BY <2>2, <3>1, OrderlyIs
    <2>4. OrderlyAt(n, k, v)'
        BY <1>1, <1>4, <2>1, <2>2, <2>3, OrderlyStep DEF Node
    <2> QED BY <2>2, <2>4 DEF Settled, Forgotten, OrderlyAt, SettledIn, ForgottenIn, Decides,
                              DecidesIn, Way, Has, Counts, LastIs, NoneOf, NothingAfter
<1>5. Unruly' = Unruly
    BY RestKinds, RuledIs
<1>6. Orderly'
    BY <1>4, <1>5 DEF Orderly, Foreign
<1> QED BY <1>2, <1>3, <1>6 DEF MeshInv

LEMMA MeshHolds == Spec => []MeshInv
BY MeshInit, MeshStep, PTL DEF Spec

(* A quiet fleet agrees (publish_fact 190-215, _on_fact 431-467): at an      *)
(* agent that handles the mail of each link in order and asks for no         *)
(* digests, every copy of a fact whose last content its origin broadcast     *)
(* holds that content once all mail has been handled and none was lost.      *)
THEOREM QuietAgreement == Spec => []QuietPeersAgree
<1>1. ASSUME MeshInv PROVE QuietPeersAgree
    <2> SUFFICES ASSUME Quiet, NEW k \in Keys, NEW n \in Nodes,
                        n \notin Unruly, n # Origin(k),
                        Has(n, k), announced[k] = writes[k]
                 PROVE  facts[n][k].content = writes[k]
        BY DEF QuietPeersAgree
    <2>1. Settled(n, k) /\ Stores
        BY <1>1 DEF MeshInv, Orderly, Foreign, Teaching
    <2>2. <<n, Origin(k)>> \notin Private
        BY <2>1 DEF Stores, StoreOK
    <2>3. Way(n, k) = << >>
        BY OriginIs, LinkIs DEF Way, Quiet
    <2>4. NoneOf(Way(n, k), k)
        BY <2>3 DEF NoneOf
    <2>5. \A w \in Workers : ~Decides(n, w, k)
        BY TaskIs DEF Quiet, Decides
    <2> QED BY <2>1, <2>2, <2>4, <2>5 DEF Settled, Quiet
<1> QED BY <1>1, MeshHolds, PTL

(* "a forgotten memory cannot resurrect from a stale peer"                   *)
(* (memory_sync.py:13): an agent that handles the mail of each link in order *)
(* and asks for no digests never holds a fact again once it has applied a    *)
(* tombstone its origin sent (_on_tombstone 485-498, publish_tombstone).     *)
THEOREM ForgottenForGood == Spec => []ForgottenStaysForgotten
<1>1. ASSUME MeshInv PROVE ForgottenStaysForgotten
    <2> SUFFICES ASSUME NEW n \in Nodes, n \notin Unruly, NEW k \in buried[n]
                 PROVE  ~Has(n, k)
        BY DEF ForgottenStaysForgotten
    <2>1. k \in Keys
        BY <1>1 DEF MeshInv, Teaching, Typed, TypeOK
    <2>2. Foreign(n, k)
        BY <1>1 DEF MeshInv, OnlyForeign
    <2> QED BY <1>1, <2>1, <2>2 DEF MeshInv, Orderly, Forgotten
<1> QED BY <1>1, MeshHolds, PTL
=============================================================================
