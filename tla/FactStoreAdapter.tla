-------------------------- MODULE FactStoreAdapter --------------------------
(* _ShugocoreStoreAdapter: the memory mesh over ShugoCore's SemanticMemory.   *)
(* A mesh key is an origin and a fact id, a row has an autoincrement number,  *)
(* and two maps relate them.  Threads call in through the mesh's handlers,    *)
(* local stores and searches; the maps are read under the lock, rows without. *)
EXTENDS Naturals, FiniteSets

CONSTANTS
    Self,       \* agent_id
    Peers,      \* the origins of foreign facts
    Sent,       \* the fact ids that come with them, no more than MaxRows
    Contents,   \* what facts say
    Nothing,    \* no content, no key, no source
    Threads,    \* the threads that call in
    MaxRows,    \* bound: rows ever inserted
    MaxEvicted  \* bound: rows SemanticMemory drops

Rows == 1 .. MaxRows

ASSUME StoreAssumption ==
    /\ MaxRows \in Nat
    /\ Sent \subseteq Rows
    /\ Self \notin Peers
    /\ Nothing \notin Peers \cup Contents \cup (({Self} \cup Peers) \X Rows)

Keys == ({Self} \cup Peers) \X Rows
Resting == [at |-> "idle", op |-> "none", key |-> Nothing, content |-> Nothing, row |-> 0]

VARIABLES
    rows,     \* SemanticMemory: row |-> [content, shared_from]
    inserted, \* the last row number given out
    evicted,  \* the rows SemanticMemory dropped
    keymap,   \* _keymap: key |-> row; 0: not tracked
    revmap,   \* _revmap: row |-> key
    call,     \* thread |-> its local state
    offered,  \* history: key |-> contents stored for it
    minted,   \* history: keys made for imported rows
    raced     \* history: a clean-up forgot a row it had not looked up

memory == <<rows, inserted, evicted>>
maps == <<keymap, revmap>>
vars == <<memory, maps, call, offered, minted, raced>>

Present(r) == r \in 1 .. inserted \ evicted
Held(k) == IF Present(keymap[k]) THEN rows[keymap[k]].content ELSE Nothing

Init ==
    /\ rows = [r \in Rows |-> [content |-> Nothing, shared_from |-> Nothing]]
    /\ inserted = 0
    /\ evicted = {}
    /\ keymap = [k \in Keys |-> 0]
    /\ revmap = [r \in Rows |-> Nothing]
    /\ call = [t \in Threads |-> Resting]
    /\ offered = [k \in Keys |-> {}]
    /\ minted = {}
    /\ raced = FALSE

(* SemanticMemory.store_fact: every call makes a row.                        *)
NewRow(c, from) ==
    /\ inserted < MaxRows
    /\ inserted' = inserted + 1
    /\ rows' = [rows EXCEPT ![inserted + 1] = [content |-> c, shared_from |-> from]]
    /\ UNCHANGED evicted

(* _remember, for a key that is not tracked yet.                             *)
Remember(k, r) ==
    /\ keymap' = [keymap EXCEPT ![k] = r]
    /\ revmap' = [revmap EXCEPT ![r] = k]

(* store_fact without a fact id: a fact of one's own.                        *)
StoreOwn(t, c) ==
    LET k == <<Self, inserted + 1>>
    IN  /\ call[t].at = "idle"
        /\ NewRow(c, Nothing)
        /\ Remember(k, inserted + 1)
        /\ offered' = [offered EXCEPT ![k] = @ \cup {c}]
        /\ UNCHANGED <<call, minted, raced>>

(* The mesh's _on_fact and _on_tombstone begin with get_fact, which reads    *)
(* the map under the lock ...                                                *)
OnFact(t, k, c) ==
    /\ call[t].at = "idle"
    /\ call' = [call EXCEPT ![t] = [at |-> "read", op |-> "fact", key |-> k,
                                    content |-> c, row |-> keymap[k]]]
    /\ offered' = [offered EXCEPT ![k] = @ \cup {c}]
    /\ UNCHANGED <<memory, maps, minted, raced>>

OnTombstone(t, k) ==
    /\ call[t].at = "idle"
    /\ keymap[k] # 0
    /\ call' = [call EXCEPT ![t] = [at |-> "read", op |-> "tombstone", key |-> k,
                                    content |-> Nothing, row |-> keymap[k]]]
    /\ UNCHANGED <<memory, maps, offered, minted, raced>>

(* ... and the row without it.  A fact that is there with the same content   *)
(* is only reinforced, a tombstone for a fact that is absent does nothing.   *)
AfterRead(m) ==
    IF m.row # 0 /\ ~Present(m.row) THEN "clean"
    ELSE IF m.op = "fact" /\ m.row # 0 /\ rows[m.row].content = m.content THEN "idle"
    ELSE "act"

ReadRow(t) ==
    /\ call[t].at = "read"
    /\ LET to == AfterRead(call[t])
       IN  call' = [call EXCEPT ![t] = IF to = "idle" THEN Resting ELSE [@ EXCEPT !.at = to]]
    /\ UNCHANGED <<memory, maps, offered, minted, raced>>

(* The row was gone: get_fact drops the key and the row it had read.         *)
CleanUp(t) ==
    LET m == call[t]
    IN  /\ m.at = "clean"
        /\ raced' = (raced \/ keymap[m.key] \notin {0, m.row})
        /\ keymap' = [keymap EXCEPT ![m.key] = 0]
        /\ revmap' = [revmap EXCEPT ![m.row] = Nothing]
        /\ call' = [call EXCEPT ![t] = IF m.op = "fact" THEN [m EXCEPT !.at = "act"] ELSE Resting]
        /\ UNCHANGED <<memory, offered, minted>>

(* store_fact under the lock: the content gets a row, but a key that is      *)
(* tracked stays with the row it has.                                        *)
StoreFact(t) ==
    LET m == call[t]
    IN  /\ m.at = "act" /\ m.op = "fact"
        /\ NewRow(m.content, Nothing)
        /\ IF keymap[m.key] = 0 THEN Remember(m.key, inserted + 1) ELSE UNCHANGED maps
        /\ call' = [call EXCEPT ![t] = Resting]
        /\ UNCHANGED <<offered, minted, raced>>

(* A bug: the key goes and its row still knows it.                           *)
RemoveKeepsRow(t) ==
    LET m == call[t]
    IN  /\ m.at = "act" /\ m.op = "tombstone"
        /\ keymap' = [keymap EXCEPT ![m.key] = 0]
        /\ call' = [call EXCEPT ![t] = Resting]
        /\ UNCHANGED <<memory, revmap, offered, minted, raced>>

Remove(t) ==
    LET m == call[t]
    IN  /\ m.at = "act" /\ m.op = "tombstone"
        /\ revmap' = [r \in Rows |-> IF r = keymap[m.key] THEN Nothing ELSE revmap[r]]
        /\ keymap' = [keymap EXCEPT ![m.key] = 0]
        /\ call' = [call EXCEPT ![t] = Resting]
        /\ UNCHANGED <<memory, offered, minted, raced>>

(* import_shared_facts writes a row past the maps, unless one says the same. *)
Import(p, c) ==
    /\ \A r \in Rows : Present(r) => rows[r].content # c
    /\ NewRow(c, p)
    /\ UNCHANGED <<maps, call, offered, minted, raced>>

(* search and facts_by_kind: _key_for_row finds a row not tracked ...        *)
SearchHit(t, r) ==
    /\ call[t].at = "idle"
    /\ Present(r)
    /\ revmap[r] = Nothing
    /\ rows[r].shared_from # Nothing
    /\ call' = [call EXCEPT ![t] = [at |-> "mint", op |-> "none", content |-> Nothing,
                                    key |-> <<rows[r].shared_from, r>>, row |-> r]]
    /\ UNCHANGED <<memory, maps, offered, minted, raced>>

(* A bug: the key is not looked up again.                                    *)
MintUnchecked(t) ==
    LET m == call[t]
    IN  /\ m.at = "mint"
        /\ Remember(m.key, m.row)
        /\ minted' = minted \cup {m.key}
        /\ call' = [call EXCEPT ![t] = Resting]
        /\ UNCHANGED <<memory, offered, raced>>

(* ... and, taking the lock again, makes it a key that nobody has.           *)
Mint(t) ==
    LET m == call[t]
        free == keymap[m.key] = 0
    IN  /\ m.at = "mint"
        /\ IF free THEN Remember(m.key, m.row) ELSE UNCHANGED maps
        /\ minted' = IF free THEN minted \cup {m.key} ELSE minted
        /\ call' = [call EXCEPT ![t] = Resting]
        /\ UNCHANGED <<memory, offered, raced>>

(* SemanticMemory drops a row.                                               *)
Evict(r) ==
    /\ Present(r)
    /\ Cardinality(evicted) < MaxEvicted
    /\ evicted' = evicted \cup {r}
    /\ UNCHANGED <<rows, inserted, maps, call, offered, minted, raced>>

Next ==
    \/ \E t \in Threads :
        \/ \E c \in Contents : StoreOwn(t, c)
        \/ \E k \in Peers \X Sent, c \in Contents : OnFact(t, k, c)
        \/ \E k \in Peers \X Sent : OnTombstone(t, k)
        \/ ReadRow(t) \/ CleanUp(t) \/ StoreFact(t) \/ Remove(t) \/ Mint(t)
        \/ \E r \in Rows : SearchHit(t, r)
    \/ \E p \in Peers, c \in Contents : Import(p, c)
    \/ \E r \in Rows : Evict(r)

Spec == Init /\ [][Next]_vars
-----------------------------------------------------------------------------
Calls ==
    [at : {"idle", "read", "clean", "act", "mint"}, op : {"none", "fact", "tombstone"},
     key : Keys \cup {Nothing}, content : Contents \cup {Nothing}, row : 0 .. MaxRows]

TypeOK ==
    /\ rows \in [Rows -> [content : Contents \cup {Nothing}, shared_from : Peers \cup {Nothing}]]
    /\ inserted \in 0 .. MaxRows
    /\ evicted \subseteq Rows
    /\ keymap \in [Keys -> 0 .. MaxRows]
    /\ revmap \in [Rows -> Keys \cup {Nothing}]
    /\ call \in [Threads -> Calls]
    /\ offered \in [Keys -> SUBSET Contents]
    /\ minted \subseteq Keys
    /\ raced \in BOOLEAN

FirstWriter == INSTANCE FirstWriterStore WITH held <- [k \in Keys |-> Held(k)]

(* What get_fact gives for a key is the content of the first store_fact for  *)
(* it, or of the row a search made it for, and never changes to another: an  *)
(* update of a tracked key makes a row that no key leads to (402-450).       *)
KeysReadFirst == FirstWriter!Spec

(* _keymap and _revmap: the row of a tracked key knows the key, so no two    *)
(* keys share a row; and a search never meets a row under a key that reads   *)
(* as another row, unless a clean-up overtook a tombstone and a new fact for *)
(* its key.                                                                  *)
MapsAgree ==
    /\ \A k \in Keys : keymap[k] # 0 => revmap[keymap[k]] = k
    /\ ~raced => \A r \in Rows : revmap[r] # Nothing => keymap[revmap[r]] = r
=============================================================================
