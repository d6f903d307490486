----------------------------- MODULE PartsProofs -----------------------------
(* Proofs about the parts that Parts puts side by side: FactStoreAdapter, for *)
(* any peers, threads, contents and bounds, SpatialIndex, for any tree and    *)
(* observations, Requests, for any calls and peers, and AuditTrail, for any   *)
(* threads and pages.                                                         *)
EXTENDS Parts, TLAPS, FiniteSetTheorems, SequenceTheorems, WellFoundedInduction

(* The invariant.  A key's row exists and knows the key.                      *)
KeyRows ==
    \A k \in Keys : keymap[k] # 0 => keymap[k] <= inserted /\ revmap[keymap[k]] = k

(* An imported row has one key only: the one a search mints for it.           *)
ImportedKeys ==
    \A k \in Keys : keymap[k] # 0 /\ rows[keymap[k]].shared_from # Nothing =>
        k = <<rows[keymap[k]].shared_from, keymap[k]>>

(* The keys of the agent's own facts are those of rows that exist.            *)
OwnKeys == \A n \in Rows : n > inserted => keymap[<<Self, n>>] = 0

EvictedRows == evicted \subseteq 1 .. inserted

(* What a thread took with it between two steps: a row it read can have come  *)
(* to no key but its own, whatever the other threads did meanwhile.           *)
Carries(m) ==
    /\ m.at \in {"read", "clean", "act"} =>
          m.key \in Peers \X Rows /\ m.op \in {"fact", "tombstone"}
    /\ m.at \in {"read", "clean", "act"} /\ m.op = "fact" =>
          m.content \in Contents /\ m.content \in offered[m.key]
    /\ m.at \in {"read", "clean"} /\ m.row # 0 =>
          /\ m.row <= inserted
          /\ \A k \in Keys : keymap[k] = m.row => k = m.key
          /\ rows[m.row].shared_from # Nothing => m.key = <<rows[m.row].shared_from, m.row>>
    /\ m.at = "clean" => m.row # 0
    /\ m.at = "mint" =>
          /\ m.row \in 1 .. inserted
          /\ rows[m.row].shared_from \in Peers
          /\ m.key = <<rows[m.row].shared_from, m.row>>

RowsKnown == ~raced => \A r \in Rows : revmap[r] # Nothing => keymap[revmap[r]] = r

IInv ==
    /\ TypeOK
    /\ KeyRows
    /\ ImportedKeys
    /\ OwnKeys
    /\ EvictedRows
    /\ \A t \in Threads : Carries(call[t])
    /\ RowsKnown

LEMMA RestingTyped == Resting \in Calls
  BY StoreAssumption DEF Resting, Calls

LEMMA MovedTyped ==
    ASSUME NEW m \in Calls, NEW a \in {"idle", "read", "clean", "act", "mint"}
    PROVE  [m EXCEPT !.at = a] \in Calls
  BY DEF Calls

(* A key without a row is paired with a row without a key.                    *)
LEMMA Paired ==
    ASSUME TypeOK, KeyRows, RowsKnown, NEW k \in Keys, NEW r \in Rows, Remember(k, r),
           keymap[k] = 0, \A j \in Keys : keymap[j] # r,
           inserted \in Nat, inserted' \in Nat, inserted <= inserted', r <= inserted',
           raced' = raced
    PROVE  /\ keymap' \in [Keys -> 0 .. MaxRows] /\ revmap' \in [Rows -> Keys \cup {Nothing}]
           /\ KeyRows' /\ RowsKnown'
           /\ \A j \in Keys : keymap'[j] = keymap[j] \/ (j = k /\ keymap'[j] = r)
<1>1. keymap' = [keymap EXCEPT ![k] = r] /\ revmap' = [revmap EXCEPT ![r] = k]
  BY DEF Remember
<1>2. keymap' \in [Keys -> 0 .. MaxRows] /\ revmap' \in [Rows -> Keys \cup {Nothing}]
  BY <1>1 DEF TypeOK, Rows
<1>3. \A j \in Keys : keymap'[j] = IF j = k THEN r ELSE keymap[j]
  BY <1>1 DEF TypeOK
<1>4. KeyRows'
  BY <1>1, <1>3 DEF TypeOK, KeyRows, Rows
<1>5. RowsKnown'
  BY <1>1, <1>3 DEF TypeOK, RowsKnown, Rows
<1>6. \A j \in Keys : keymap'[j] = keymap[j] \/ (j = k /\ keymap'[j] = r)
  BY <1>3
<1> QED  BY <1>2, <1>4, <1>5, <1>6

(* One lemma per action.                                                      *)
LEMMA StoreOwnKeeps ==
    ASSUME IInv, NEW t \in Threads, NEW c \in Contents, StoreOwn(t, c)
    PROVE  IInv'
<1> DEFINE k == <<Self, inserted + 1>>
<1>1. k \in Keys /\ inserted + 1 \in Rows /\ inserted \in Nat
  BY StoreAssumption DEF IInv, TypeOK, StoreOwn, NewRow, Keys, Rows
<1>2. keymap[k] = 0
  BY <1>1 DEF IInv, OwnKeys
<1>3. \A j \in Keys : keymap[j] # inserted + 1
  BY <1>1 DEF IInv, TypeOK, KeyRows
<1>4. /\ inserted' = inserted + 1 /\ evicted' = evicted /\ call' = call
      /\ minted' = minted /\ raced' = raced
      /\ rows' = [rows EXCEPT ![inserted + 1] = [content |-> c, shared_from |-> Nothing]]
      /\ Remember(k, inserted + 1)
  BY DEF StoreOwn, NewRow
<1>5. /\ keymap' \in [Keys -> 0 .. MaxRows] /\ revmap' \in [Rows -> Keys \cup {Nothing}]
      /\ KeyRows' /\ RowsKnown'
      /\ \A j \in Keys : keymap'[j] = keymap[j] \/ (j = k /\ keymap'[j] = inserted + 1)
  <2> HIDE DEF k
  <2> QED  BY <1>1, <1>2, <1>3, <1>4, Paired DEF IInv
<1>6. TypeOK'
  <2>1. offered' \in [Keys -> SUBSET Contents]
    BY <1>1 DEF IInv, TypeOK, StoreOwn
  <2> QED  BY <1>1, <1>4, <1>5, <2>1 DEF IInv, TypeOK, Rows
<1>7. ImportedKeys' /\ OwnKeys' /\ EvictedRows'
  BY <1>1, <1>4, <1>5, StoreAssumption
  DEF IInv, TypeOK, KeyRows, ImportedKeys, OwnKeys, EvictedRows, Keys, Rows
<1>8. ASSUME NEW u \in Threads  PROVE Carries(call[u])'
  <2>1. PICK n \in Calls : n = call[u] /\ n = call'[u] /\ Carries(n)
    BY <1>4 DEF IInv, TypeOK
  <2>2. \A j \in Keys : offered[j] \subseteq offered'[j]
    BY DEF IInv, TypeOK, StoreOwn
  <2>3. \A r \in Rows : r <= inserted =>
            rows'[r] = rows[r] /\ \A j \in Keys : keymap'[j] = r => keymap[j] = r
    BY <1>1, <1>4, <1>5 DEF IInv, TypeOK, Rows
  <2>4. Peers \X Rows \subseteq Keys /\ inserted <= inserted'
    BY <1>1, <1>4 DEF Keys
  <2> QED  BY <1>1, <1>4, <2>1, <2>2, <2>3, <2>4 DEF Carries, Calls, Rows
<1> QED  BY <1>5, <1>6, <1>7, <1>8 DEF IInv

LEMMA OnFactKeeps ==
    ASSUME IInv, NEW t \in Threads, NEW k \in Peers \X Sent, NEW c \in Contents, OnFact(t, k, c)
    PROVE  IInv'
<1>1. k \in Peers \X Rows /\ k \in Keys
  BY StoreAssumption DEF Keys
<1>2. TypeOK'
  BY <1>1 DEF IInv, TypeOK, OnFact, memory, maps, Calls
<1>3. KeyRows' /\ ImportedKeys' /\ OwnKeys' /\ EvictedRows' /\ RowsKnown'
  BY DEF IInv, KeyRows, ImportedKeys, OwnKeys, EvictedRows, RowsKnown, OnFact, memory, maps
<1>4. ASSUME NEW u \in Threads  PROVE Carries(call[u])'
  <2>1. CASE u = t
    BY <2>1, <1>1 DEF IInv, TypeOK, KeyRows, ImportedKeys, Carries, OnFact, memory, maps
  <2>2. CASE u # t
    BY <2>2, <1>1 DEF IInv, TypeOK, Carries, OnFact, memory, maps, Calls, Keys
  <2> QED  BY <2>1, <2>2
<1> QED  BY <1>2, <1>3, <1>4 DEF IInv

LEMMA OnTombstoneKeeps ==
    ASSUME IInv, NEW t \in Threads, NEW k \in Peers \X Sent, OnTombstone(t, k)
    PROVE  IInv'
<1>1. k \in Peers \X Rows /\ k \in Keys
  BY StoreAssumption DEF Keys
<1>2. TypeOK'
  BY <1>1 DEF IInv, TypeOK, OnTombstone, memory, maps, Calls
<1>3. KeyRows' /\ ImportedKeys' /\ OwnKeys' /\ EvictedRows' /\ RowsKnown'
  BY DEF IInv, KeyRows, ImportedKeys, OwnKeys, EvictedRows, RowsKnown, OnTombstone, memory, maps
<1>4. ASSUME NEW u \in Threads  PROVE Carries(call[u])'
  <2>1. CASE u = t
    BY <2>1, <1>1 DEF IInv, TypeOK, KeyRows, ImportedKeys, Carries, OnTombstone, memory, maps
  <2>2. CASE u # t
    BY <2>2 DEF IInv, TypeOK, Carries, OnTombstone, memory, maps
  <2> QED  BY <2>1, <2>2
<1> QED  BY <1>2, <1>3, <1>4 DEF IInv

LEMMA ReadRowKeeps ==
    ASSUME IInv, NEW t \in Threads, ReadRow(t)
    PROVE  IInv'
<1>1. AfterRead(call[t]) \in {"idle", "clean", "act"}
      /\ (AfterRead(call[t]) = "clean" => call[t].row # 0)
  BY DEF AfterRead
<1>2. call[t] \in Calls
  BY DEF IInv, TypeOK
<1>3. TypeOK'
  BY <1>1, <1>2, RestingTyped, MovedTyped DEF IInv, TypeOK, ReadRow, memory, maps
<1>4. KeyRows' /\ ImportedKeys' /\ OwnKeys' /\ EvictedRows' /\ RowsKnown'
  BY DEF IInv, KeyRows, ImportedKeys, OwnKeys, EvictedRows, RowsKnown, ReadRow, memory, maps
<1>5. (\A u \in Threads : Carries(call[u]))'
  BY <1>1, <1>2 DEF IInv, TypeOK, Carries, ReadRow, Resting, memory, maps, Calls
<1> QED  BY <1>3, <1>4, <1>5 DEF IInv

LEMMA CleanUpKeeps ==
    ASSUME IInv, NEW t \in Threads, CleanUp(t)
    PROVE  IInv'
<1> DEFINE m == call[t]
<1>1. m \in Calls /\ m.key \in Peers \X Rows /\ m.key \in Keys /\ m.row \in Rows
      /\ \A k \in Keys : keymap[k] = m.row => k = m.key
  BY StoreAssumption DEF IInv, TypeOK, Carries, CleanUp, Calls, Keys, Rows
<1>2. TypeOK'
  <2>1. call' \in [Threads -> Calls]
    BY <1>1, RestingTyped, MovedTyped DEF IInv, TypeOK, CleanUp
  <2>2. keymap' \in [Keys -> 0 .. MaxRows] /\ revmap' \in [Rows -> Keys \cup {Nothing}]
    BY <1>1, StoreAssumption DEF IInv, TypeOK, CleanUp
  <2>3. raced' \in BOOLEAN
    BY DEF IInv, TypeOK, CleanUp
  <2> QED  BY <2>1, <2>2, <2>3 DEF IInv, TypeOK, CleanUp, memory
<1>3. KeyRows' /\ ImportedKeys' /\ OwnKeys' /\ EvictedRows'
  BY <1>1, StoreAssumption
  DEF IInv, TypeOK, KeyRows, ImportedKeys, OwnKeys, EvictedRows, CleanUp, memory, Keys, Rows
<1>4. (\A u \in Threads : Carries(call[u]))'
  BY <1>1 DEF IInv, TypeOK, Carries, CleanUp, Resting, memory, Calls
<1>5. RowsKnown'
  <2> SUFFICES ASSUME ~raced', NEW r \in Rows, revmap'[r] # Nothing
               PROVE  keymap'[revmap'[r]] = r
    BY DEF RowsKnown
  <2>1. r # m.row /\ revmap'[r] = revmap[r] /\ revmap[r] \in Keys
    BY <1>1 DEF IInv, TypeOK, CleanUp
  <2>2. ~raced /\ keymap[m.key] \in {0, m.row}
    BY Zenon DEF CleanUp
  <2>3. keymap[revmap[r]] = r /\ r # 0
    BY <2>1, <2>2 DEF IInv, RowsKnown, Rows
  <2>4. revmap[r] # m.key
    BY <2>1, <2>2, <2>3
  <2> QED  BY <2>1, <2>3, <2>4 DEF IInv, TypeOK, CleanUp
<1> QED  BY <1>2, <1>3, <1>4, <1>5 DEF IInv

LEMMA StoreFactKeeps ==
    ASSUME IInv, NEW t \in Threads, StoreFact(t)
    PROVE  IInv'
<1> PICK m \in Calls : m = call[t]
  BY DEF IInv, TypeOK
<1>1. m.key \in Peers \X Rows /\ m.key \in Keys /\ m.content \in Contents
      /\ inserted + 1 \in Rows /\ inserted \in Nat
  BY StoreAssumption DEF IInv, TypeOK, Carries, StoreFact, NewRow, Keys, Rows
<1>2. /\ call' = [call EXCEPT ![t] = Resting]
      /\ inserted' = inserted + 1
      /\ rows' = [rows EXCEPT ![inserted + 1] = [content |-> m.content, shared_from |-> Nothing]]
      /\ evicted' = evicted /\ offered' = offered /\ minted' = minted /\ raced' = raced
  BY DEF StoreFact, NewRow
<1>3. /\ keymap' \in [Keys -> 0 .. MaxRows] /\ revmap' \in [Rows -> Keys \cup {Nothing}]
      /\ KeyRows' /\ RowsKnown'
      /\ \A j \in Keys : keymap'[j] = keymap[j] \/ (j = m.key /\ keymap'[j] = inserted + 1)
  <2>1. CASE keymap[m.key] = 0
    <3>1. \A j \in Keys : keymap[j] # inserted + 1
      BY <1>1 DEF IInv, TypeOK, KeyRows
    <3>2. Remember(m.key, inserted + 1)
      BY <2>1 DEF StoreFact
    <3>3. inserted' \in Nat /\ inserted <= inserted' /\ inserted + 1 <= inserted' /\ raced' = raced
      BY <1>1, <1>2
    <3> DEFINE k == m.key
    <3>4. k \in Keys /\ keymap[k] = 0 /\ Remember(k, inserted + 1)
      BY <1>1, <2>1, <3>2
    <3> HIDE DEF k
    <3>5. /\ keymap' \in [Keys -> 0 .. MaxRows] /\ revmap' \in [Rows -> Keys \cup {Nothing}]
          /\ KeyRows' /\ RowsKnown'
          /\ \A j \in Keys : keymap'[j] = keymap[j] \/ (j = k /\ keymap'[j] = inserted + 1)
      BY <1>1, <3>1, <3>3, <3>4, Paired DEF IInv
    <3> QED  BY <3>5 DEF k
  <2>2. CASE keymap[m.key] # 0
    <3>1. keymap' = keymap /\ revmap' = revmap
      BY <2>2 DEF StoreFact, maps
    <3>2. KeyRows'
      BY <1>1, <1>2, <3>1 DEF IInv, TypeOK, KeyRows
    <3>3. RowsKnown'
      BY <1>2, <3>1 DEF IInv, RowsKnown
    <3> QED  BY <3>1, <3>2, <3>3 DEF IInv, TypeOK
  <2> QED  BY <2>1, <2>2
<1>4. TypeOK'
  <2>1. call' \in [Threads -> Calls]
    BY <1>2, RestingTyped DEF IInv, TypeOK
  <2> QED  BY <1>1, <1>2, <1>3, <2>1 DEF IInv, TypeOK, Rows
<1>5. ImportedKeys'
  <2> SUFFICES ASSUME NEW k \in Keys, keymap'[k] # 0,
                      rows'[keymap'[k]].shared_from # Nothing
               PROVE  k = <<rows'[keymap'[k]].shared_from, keymap'[k]>>
    BY DEF ImportedKeys
  <2>1. rows'[inserted + 1].shared_from = Nothing
        /\ \A r \in Rows : r # inserted + 1 => rows'[r] = rows[r]
    BY <1>1, <1>2 DEF IInv, TypeOK
  <2>2. keymap'[k] = keymap[k] /\ keymap[k] \in Rows /\ keymap[k] # inserted + 1
    BY <1>1, <1>3, <2>1 DEF IInv, TypeOK, KeyRows, Rows
  <2> QED  BY <2>1, <2>2 DEF IInv, ImportedKeys
<1>6. OwnKeys' /\ EvictedRows'
  <2>1. \A n \in Rows : <<Self, n>> \in Keys /\ <<Self, n>> # m.key
    BY <1>1, StoreAssumption DEF Keys
  <2>2. OwnKeys'
    BY <1>1, <1>2, <1>3, <2>1 DEF IInv, OwnKeys, Rows
  <2>3. EvictedRows'
    BY <1>1, <1>2 DEF IInv, EvictedRows
  <2> QED  BY <2>2, <2>3
<1>7. (\A u \in Threads : Carries(call[u]))'
  BY <1>1, <1>2, <1>3 DEF IInv, TypeOK, Carries, Resting, Calls, Keys, Rows
<1> QED  BY <1>3, <1>4, <1>5, <1>6, <1>7 DEF IInv

LEMMA RemoveKeeps ==
    ASSUME IInv, NEW t \in Threads, Remove(t)
    PROVE  IInv'
<1> DEFINE m == call[t]
<1>1. m.key \in Peers \X Rows /\ m.key \in Keys
  BY StoreAssumption DEF IInv, TypeOK, Carries, Remove, Keys
<1>2. TypeOK'
  <2>1. keymap' \in [Keys -> 0 .. MaxRows] /\ revmap' \in [Rows -> Keys \cup {Nothing}]
    BY <1>1, StoreAssumption DEF IInv, TypeOK, Remove
  <2> QED  BY <2>1, RestingTyped DEF IInv, TypeOK, Remove, memory
<1>3. KeyRows' /\ ImportedKeys' /\ OwnKeys' /\ EvictedRows'
  BY <1>1, StoreAssumption
  DEF IInv, TypeOK, KeyRows, ImportedKeys, OwnKeys, EvictedRows, Remove, memory, Keys, Rows
<1>4. (\A u \in Threads : Carries(call[u]))'
  BY <1>1 DEF IInv, TypeOK, Carries, Remove, Resting, memory, Calls
<1>5. RowsKnown'
  BY <1>1 DEF IInv, TypeOK, RowsKnown, Remove
<1> QED  BY <1>2, <1>3, <1>4, <1>5 DEF IInv

LEMMA SearchHitKeeps ==
    ASSUME IInv, NEW t \in Threads, NEW r \in Rows, SearchHit(t, r)
    PROVE  IInv'
<1>1. r \in 1 .. inserted /\ rows[r].shared_from \in Peers
  BY DEF IInv, TypeOK, SearchHit, Present
<1>2. <<rows[r].shared_from, r>> \in Keys
  BY <1>1 DEF Keys
<1>3. TypeOK'
  <2>1. [at |-> "mint", op |-> "none", content |-> Nothing,
         key |-> <<rows[r].shared_from, r>>, row |-> r] \in Calls
    BY <1>2, StoreAssumption DEF Calls, Rows
  <2> QED  BY <2>1 DEF IInv, TypeOK, SearchHit, memory, maps
<1>4. KeyRows' /\ ImportedKeys' /\ OwnKeys' /\ EvictedRows' /\ RowsKnown'
  BY DEF IInv, KeyRows, ImportedKeys, OwnKeys, EvictedRows, RowsKnown, SearchHit, memory, maps
<1>5. (\A u \in Threads : Carries(call[u]))'
  BY <1>1 DEF IInv, TypeOK, Carries, SearchHit, memory, maps
<1> QED  BY <1>3, <1>4, <1>5 DEF IInv

LEMMA MintKeeps ==
    ASSUME IInv, NEW t \in Threads, Mint(t)
    PROVE  IInv'
<1> PICK m \in Calls : m = call[t]
  BY DEF IInv, TypeOK
<1>1. Carries(m) /\ m.at = "mint"
  BY DEF IInv, Mint
<1>2. /\ m.row \in Rows /\ m.row <= inserted /\ m.row # 0
      /\ m.key \in Peers \X Rows /\ m.key \in Keys
      /\ rows[m.row].shared_from # Nothing /\ m.key = <<rows[m.row].shared_from, m.row>>
  <2>1. m.row \in Rows /\ m.row <= inserted /\ m.row # 0
    BY <1>1, StoreAssumption DEF IInv, TypeOK, Carries, Rows
  <2>2. /\ rows[m.row].shared_from \in Peers /\ rows[m.row].shared_from # Nothing
        /\ m.key = <<rows[m.row].shared_from, m.row>>
    BY <1>1, StoreAssumption DEF Carries
  <2> QED  BY <2>1, <2>2 DEF Keys
<1>3. \A k \in Keys : keymap[k] = m.row => k = m.key
  BY <1>2 DEF IInv, ImportedKeys
<1>4. /\ call' = [call EXCEPT ![t] = Resting]
      /\ rows' = rows /\ inserted' = inserted /\ evicted' = evicted
      /\ offered' = offered /\ raced' = raced /\ (minted' = minted \/ minted' = minted \cup {m.key})
  BY DEF Mint, memory
<1>5. /\ keymap' \in [Keys -> 0 .. MaxRows] /\ revmap' \in [Rows -> Keys \cup {Nothing}]
      /\ KeyRows' /\ RowsKnown'
      /\ \A j \in Keys : keymap'[j] = keymap[j] \/ (j = m.key /\ keymap'[j] = m.row)
  <2>1. CASE keymap[m.key] = 0
    <3>1. \A j \in Keys : keymap[j] # m.row
      BY <1>2, <1>3, <2>1
    <3>2. Remember(m.key, m.row)
      BY <2>1 DEF Mint
    <3>3. inserted \in Nat /\ inserted' \in Nat /\ inserted <= inserted' /\ m.row <= inserted'
          /\ raced' = raced
      BY <1>2, <1>4, StoreAssumption DEF IInv, TypeOK
    <3> DEFINE k == m.key
               r == m.row
    <3>4. k \in Keys /\ keymap[k] = 0 /\ r \in Rows /\ r <= inserted' /\ Remember(k, r)
          /\ \A j \in Keys : keymap[j] # r
      BY <1>2, <2>1, <3>1, <3>2, <3>3
    <3> HIDE DEF k, r
    <3>5. /\ keymap' \in [Keys -> 0 .. MaxRows] /\ revmap' \in [Rows -> Keys \cup {Nothing}]
          /\ KeyRows' /\ RowsKnown'
          /\ \A j \in Keys : keymap'[j] = keymap[j] \/ (j = k /\ keymap'[j] = r)
      BY <3>3, <3>4, Paired DEF IInv
    <3> QED  BY <3>5 DEF k, r
  <2>2. CASE keymap[m.key] # 0
    <3>1. keymap' = keymap /\ revmap' = revmap
      BY <2>2 DEF Mint, maps
    <3>2. KeyRows' /\ RowsKnown'
      BY <1>4, <3>1 DEF IInv, KeyRows, RowsKnown
    <3> QED  BY <3>1, <3>2 DEF IInv, TypeOK
  <2> QED  BY <2>1, <2>2
<1>6. TypeOK'
  <2>1. call' \in [Threads -> Calls]
    BY <1>4, RestingTyped DEF IInv, TypeOK
  <2> QED  BY <1>2, <1>4, <1>5, <2>1 DEF IInv, TypeOK
<1>7. ImportedKeys' /\ OwnKeys' /\ EvictedRows'
  BY <1>2, <1>4, <1>5, StoreAssumption
  DEF IInv, TypeOK, ImportedKeys, OwnKeys, EvictedRows, Keys
<1>8. ASSUME NEW u \in Threads  PROVE Carries(call[u])'
  <2>1. CASE u = t
    BY <2>1, <1>4 DEF IInv, TypeOK, Carries, Resting
  <2>2. CASE u # t
    <3> PICK n \in Calls : n = call[u] /\ n = call'[u] /\ Carries(n)
      BY <2>2, <1>4 DEF IInv, TypeOK
    <3> QED  BY <1>2, <1>4, <1>5 DEF Carries
  <2> QED  BY <2>1, <2>2
<1> QED  BY <1>5, <1>6, <1>7, <1>8 DEF IInv

LEMMA ImportKeeps ==
    ASSUME IInv, NEW p \in Peers, NEW c \in Contents, Import(p, c)
    PROVE  IInv'
<1>1. inserted + 1 \in Rows /\ inserted \in Nat
  BY StoreAssumption DEF IInv, TypeOK, Import, NewRow, Rows
<1>2. TypeOK'
  BY <1>1 DEF IInv, TypeOK, Import, NewRow, maps, Rows
<1>3. KeyRows' /\ ImportedKeys' /\ OwnKeys' /\ EvictedRows' /\ RowsKnown'
  BY <1>1 DEF IInv, TypeOK, KeyRows, ImportedKeys, OwnKeys, EvictedRows, RowsKnown,
      Import, NewRow, maps, Rows
<1>4. (\A u \in Threads : Carries(call[u]))'
  BY <1>1 DEF IInv, TypeOK, Carries, Import, NewRow, maps, Calls, Rows
<1> QED  BY <1>2, <1>3, <1>4 DEF IInv

LEMMA EvictKeeps ==
    ASSUME IInv, NEW r \in Rows, Evict(r)
    PROVE  IInv'
<1>1. TypeOK' /\ EvictedRows'
  BY DEF IInv, TypeOK, EvictedRows, Evict, Present, maps
<1>2. KeyRows' /\ ImportedKeys' /\ OwnKeys' /\ RowsKnown'
  BY DEF IInv, KeyRows, ImportedKeys, OwnKeys, RowsKnown, Evict, maps
<1>3. (\A u \in Threads : Carries(call[u]))'
  BY DEF IInv, Carries, Evict, maps
<1> QED  BY <1>1, <1>2, <1>3 DEF IInv

LEMMA Inductive == IInv /\ [Next]_vars => IInv'
<1> SUFFICES ASSUME IInv, [Next]_vars  PROVE IInv'
  OBVIOUS
<1>1. CASE UNCHANGED vars
  BY <1>1 DEF IInv, TypeOK, KeyRows, ImportedKeys, OwnKeys, EvictedRows, Carries, RowsKnown,
      vars, memory, maps
<1>2. CASE Next
  BY <1>2, StoreOwnKeeps, OnFactKeeps, OnTombstoneKeeps, ReadRowKeeps, CleanUpKeeps,
      StoreFactKeeps, RemoveKeeps, SearchHitKeeps, MintKeeps, ImportKeeps, EvictKeeps
  DEF Next
<1> QED  BY <1>1, <1>2

LEMMA InitIInv == Init => IInv
<1> SUFFICES ASSUME Init  PROVE IInv
  OBVIOUS
<1>1. TypeOK
  <2>1. rows \in [Rows -> [content : Contents \cup {Nothing}, shared_from : Peers \cup {Nothing}]]
    BY DEF Init
  <2>2. call \in [Threads -> Calls]
    BY RestingTyped DEF Init
  <2>3. keymap \in [Keys -> 0 .. MaxRows] /\ inserted \in 0 .. MaxRows
    BY StoreAssumption DEF Init
  <2> QED  BY <2>1, <2>2, <2>3 DEF Init, TypeOK
<1>2. KeyRows /\ ImportedKeys /\ OwnKeys /\ EvictedRows /\ RowsKnown
  BY StoreAssumption DEF Init, KeyRows, ImportedKeys, OwnKeys, EvictedRows, RowsKnown, Keys, Rows
<1>3. \A t \in Threads : Carries(call[t])
  BY DEF Init, Carries, Resting
<1> QED  BY <1>1, <1>2, <1>3 DEF IInv

(* The inductive invariant holds in every reachable state: every map entry,   *)
(* call under way and row number fits the others (shugocore_bridge.py:402-   *)
(* 508).                                                                     *)
THEOREM Invariance == Spec => []IInv
  BY InitIInv, Inductive, PTL DEF Spec

(* The store's two maps agree, MapsAgree: however the handlers, the searches  *)
(* and the evictions interleave, no two keys share a row.                     *)
THEOREM MapsAlwaysAgree == Spec => []MapsAgree
<1>1. IInv => MapsAgree
  BY DEF IInv, KeyRows, RowsKnown, MapsAgree
<1> QED  BY <1>1, Invariance, PTL

-----------------------------------------------------------------------------
(* What a key reads as changes only with its row, or when that row goes: a    *)
(* row that is new belongs to no key.                                         *)
LEMMA ReadsTheSame ==
    ASSUME IInv, NEW k \in Keys, keymap'[k] = keymap[k], evicted' = evicted,
           \/ rows' = rows /\ inserted' = inserted
           \/ \E c \in Contents, p \in Peers \cup {Nothing} : NewRow(c, p)
    PROVE  Held(k)' = Held(k)
<1>1. keymap[k] \in 0 .. MaxRows /\ (keymap[k] = 0 \/ keymap[k] <= inserted) /\ inserted \in 0 .. MaxRows
  BY DEF IInv, TypeOK, KeyRows
<1>2. CASE rows' = rows /\ inserted' = inserted
  BY <1>2 DEF Held, Present
<1>3. CASE \E c \in Contents, p \in Peers \cup {Nothing} : NewRow(c, p)
  <2>1. inserted' = inserted + 1 /\ (keymap[k] # 0 => rows'[keymap[k]] = rows[keymap[k]])
    BY <1>1, <1>3 DEF IInv, TypeOK, NewRow, Rows
  <2>2. Present(keymap[k])' <=> Present(keymap[k])
    BY <1>1, <2>1, StoreAssumption DEF Present
  <2> QED  BY <1>1, <2>1, <2>2 DEF Held, Present
<1> QED  BY <1>2, <1>3

LEMMA UnmappedReadsNothing ==
    ASSUME NEW k \in Keys, keymap[k] = 0
    PROVE  Held(k) = Nothing
  BY DEF Held, Present

(* A key that gets a row takes that row's content, the others keep theirs.    *)
LEMMA OneKeyReads ==
    ASSUME NEW k \in Keys, NEW v, Held(k)' = v, \A j \in Keys \ {k} : Held(j)' = Held(j)
    PROVE  [j \in Keys |-> Held(j)]' = [[j \in Keys |-> Held(j)] EXCEPT ![k] = v]
  OBVIOUS

LEMMA NewRowReads ==
    ASSUME IInv, NEW k \in Keys, NEW c \in Contents, inserted + 1 \in Rows, NewRow(c, Nothing),
           keymap' = [keymap EXCEPT ![k] = inserted + 1]
    PROVE  Held(k)' = c
<1>1. keymap'[k] = inserted + 1 /\ inserted' = inserted + 1 /\ evicted' = evicted
  BY DEF IInv, TypeOK, NewRow
<1>2. rows'[inserted + 1].content = c
  BY DEF IInv, TypeOK, NewRow
<1>3. inserted \in Nat /\ inserted + 1 \notin evicted
  BY StoreAssumption DEF IInv, TypeOK, EvictedRows
<1> QED  BY <1>1, <1>2, <1>3 DEF Held, Present

LEMMA AllKeysRead ==
    ASSUME \A j \in Keys : Held(j)' = Held(j)
    PROVE  [j \in Keys |-> Held(j)]' = [j \in Keys |-> Held(j)]
  OBVIOUS

LEMMA StoreOwnPuts ==
    ASSUME IInv, NEW t \in Threads, NEW c \in Contents, StoreOwn(t, c)
    PROVE  FirstWriter!Next
<1> PICK k \in Keys : k = <<Self, inserted + 1>>
  BY StoreAssumption DEF IInv, TypeOK, StoreOwn, NewRow, Keys, Rows
<1>1. inserted + 1 \in Rows /\ inserted \in Nat
  BY StoreAssumption DEF IInv, TypeOK, StoreOwn, NewRow, Rows
<1>2. Held(k) = Nothing
  BY <1>1, UnmappedReadsNothing DEF IInv, OwnKeys
<1>3. NewRow(c, Nothing) /\ keymap' = [keymap EXCEPT ![k] = inserted + 1]
      /\ offered' = [offered EXCEPT ![k] = @ \cup {c}] /\ minted' = minted
  BY DEF StoreOwn, Remember
<1>4. Held(k)' = c
  BY <1>1, <1>3, NewRowReads
<1>5. \A j \in Keys \ {k} : Held(j)' = Held(j)
  BY <1>3, ReadsTheSame DEF IInv, TypeOK, NewRow
<1>6. FirstWriter!PutOwn(k, c)
  BY <1>1, <1>2, <1>3, <1>4, <1>5, OneKeyReads DEF FirstWriter!PutOwn
<1> QED  BY <1>1, <1>6 DEF FirstWriter!Next

LEMMA OnFactOffers ==
    ASSUME IInv, NEW t \in Threads, NEW k \in Peers \X Sent, NEW c \in Contents, OnFact(t, k, c)
    PROVE  FirstWriter!Next
<1>1. k \in Keys
  BY StoreAssumption DEF Keys
<1>2. \A j \in Keys : Held(j)' = Held(j)
  BY ReadsTheSame DEF OnFact, memory, maps
<1>3. FirstWriter!Offer(k, c)
  BY <1>2, AllKeysRead DEF OnFact, FirstWriter!Offer
<1> QED  BY <1>1, <1>3 DEF FirstWriter!Next

(* A clean-up and a tombstone both take one key's row away.                   *)
LEMMA KeyIsForgotten ==
    ASSUME IInv, NEW k \in Keys, keymap' = [keymap EXCEPT ![k] = 0],
           UNCHANGED <<rows, inserted, evicted, offered, minted>>
    PROVE  FirstWriter!Next
<1>1. Held(k)' = Nothing
  BY DEF IInv, TypeOK, Held, Present
<1>2. \A j \in Keys \ {k} : Held(j)' = Held(j)
  BY ReadsTheSame DEF IInv, TypeOK
<1>3. FirstWriter!Forget(k)
  BY <1>1, <1>2, OneKeyReads DEF FirstWriter!Forget
<1> QED  BY <1>3 DEF FirstWriter!Next

LEMMA StoreFactPuts ==
    ASSUME IInv, NEW t \in Threads, StoreFact(t)
    PROVE  [FirstWriter!Next]_FirstWriter!vars
<1> PICK k \in Keys, c \in Contents : k = call[t].key /\ c = call[t].content /\ c \in offered[k]
  BY StoreAssumption DEF IInv, TypeOK, Carries, StoreFact, Keys, Rows
<1>1. inserted + 1 \in Rows /\ inserted \in Nat
  BY StoreAssumption DEF IInv, TypeOK, StoreFact, NewRow, Rows
<1>2. NewRow(c, Nothing) /\ offered' = offered /\ minted' = minted
  BY DEF StoreFact
<1>3. evicted' = evicted
  BY <1>2 DEF NewRow
<1>4. CASE keymap[k] = 0
  <2>1. keymap' = [keymap EXCEPT ![k] = inserted + 1]
    BY <1>4 DEF StoreFact, Remember
  <2>2. Held(k) = Nothing
    BY <1>1, <1>4, UnmappedReadsNothing
  <2>3. Held(k)' = c
    BY <1>1, <1>2, <2>1, NewRowReads
  <2>4. \A j \in Keys \ {k} : Held(j)' = Held(j)
    BY <1>1, <1>2, <1>3, <2>1, ReadsTheSame DEF IInv, TypeOK
  <2>5. FirstWriter!Put(k, c)
    BY <1>1, <1>2, <2>2, <2>3, <2>4, OneKeyReads DEF FirstWriter!Put
  <2> QED  BY <1>1, <2>5 DEF FirstWriter!Next
<1>5. CASE keymap[k] # 0
  <2>1. keymap' = keymap
    BY <1>5 DEF StoreFact, maps
  <2>2. \A j \in Keys : Held(j)' = Held(j)
    BY <1>1, <1>2, <1>3, <2>1, ReadsTheSame
  <2> QED  BY <1>2, <2>2, AllKeysRead DEF FirstWriter!vars
<1> QED  BY <1>4, <1>5

LEMMA MintMints ==
    ASSUME IInv, NEW t \in Threads, Mint(t)
    PROVE  [FirstWriter!Next]_FirstWriter!vars
<1> PICK k \in Keys, r \in Rows :
        k = call[t].key /\ r = call[t].row /\ rows[r].content \in Contents \cup {Nothing}
  <2>1. call[t] \in Calls /\ Carries(call[t]) /\ call[t].at = "mint"
    BY DEF IInv, TypeOK, Mint
  <2>2. call[t].row \in Rows
    BY <2>1, StoreAssumption DEF IInv, TypeOK, Carries, Rows
  <2>3. call[t].key = <<rows[call[t].row].shared_from, call[t].row>>
        /\ rows[call[t].row].shared_from \in Peers
    BY <2>1 DEF Carries
  <2>4. rows[call[t].row].content \in Contents \cup {Nothing}
    BY <2>2 DEF IInv, TypeOK
  <2> QED  BY <2>2, <2>3, <2>4 DEF Keys
<1>2. rows' = rows /\ inserted' = inserted /\ evicted' = evicted /\ offered' = offered
  BY DEF Mint, memory
<1>3. CASE keymap[k] = 0
  <2>1. keymap' = [keymap EXCEPT ![k] = r] /\ minted' = minted \cup {k}
    BY <1>3 DEF Mint, Remember
  <2>2. Held(k) = Nothing
    BY <1>3, UnmappedReadsNothing
  <2>3. Held(k)' \in Contents \cup {Nothing}
    <3>1. keymap'[k] = r /\ rows'[r].content \in Contents \cup {Nothing}
      BY <1>2, <2>1 DEF IInv, TypeOK
    <3> QED  BY <3>1 DEF Held
  <2>4. \A j \in Keys \ {k} : Held(j)' = Held(j)
    BY <1>2, <2>1, ReadsTheSame DEF IInv, TypeOK
  <2>5. FirstWriter!Mint(k, Held(k)')
    BY <1>2, <2>1, <2>2, <2>4, OneKeyReads DEF FirstWriter!Mint
  <2> QED  BY <2>3, <2>5 DEF FirstWriter!Next
<1>4. CASE keymap[k] # 0
  <2>1. keymap' = keymap /\ minted' = minted
    BY <1>4 DEF Mint, maps
  <2>2. \A j \in Keys : Held(j)' = Held(j)
    BY <1>2, <2>1, ReadsTheSame
  <2> QED  BY <1>2, <2>1, <2>2, AllKeysRead DEF FirstWriter!vars
<1> QED  BY <1>3, <1>4

LEMMA EvictForgets ==
    ASSUME IInv, NEW r \in Rows, Evict(r)
    PROVE  [FirstWriter!Next]_FirstWriter!vars
<1>1. keymap' = keymap /\ rows' = rows /\ inserted' = inserted /\ evicted' = evicted \cup {r}
      /\ offered' = offered /\ minted' = minted
  BY DEF Evict, maps
<1>2. \A j \in Keys : keymap[j] # r => Held(j)' = Held(j)
  BY <1>1 DEF Held, Present
<1>3. CASE \E k \in Keys : keymap[k] = r
  <2>1. PICK k \in Keys : keymap[k] = r
    BY <1>3
  <2>2. \A j \in Keys \ {k} : keymap[j] # r
    BY <2>1 DEF IInv, KeyRows, Rows
  <2>3. Held(k)' = Nothing
    BY <1>1, <2>1 DEF Held, Present
  <2>4. FirstWriter!Forget(k)
    BY <1>1, <1>2, <2>2, <2>3, OneKeyReads DEF FirstWriter!Forget
  <2> QED  BY <2>4 DEF FirstWriter!Next
<1>4. CASE \A k \in Keys : keymap[k] # r
  BY <1>1, <1>2, <1>4, AllKeysRead DEF FirstWriter!vars
<1> QED  BY <1>3, <1>4

LEMMA StepSimulation == IInv /\ [Next]_vars => [FirstWriter!Next]_FirstWriter!vars
<1> SUFFICES ASSUME IInv, [Next]_vars  PROVE [FirstWriter!Next]_FirstWriter!vars
  OBVIOUS
<1>1. ASSUME NEW t \in Threads, CleanUp(t)  PROVE FirstWriter!Next
  <2>1. call[t].key \in Keys
    BY <1>1, StoreAssumption DEF IInv, Carries, CleanUp, Keys
  <2> QED  BY <1>1, <2>1, KeyIsForgotten DEF CleanUp, memory
<1>2. ASSUME NEW t \in Threads, Remove(t)  PROVE FirstWriter!Next
  <2>1. call[t].key \in Keys
    BY <1>2, StoreAssumption DEF IInv, Carries, Remove, Keys
  <2> QED  BY <1>2, <2>1, KeyIsForgotten DEF Remove, memory
<1>3. ASSUME UNCHANGED <<memory, keymap, offered, minted>>  PROVE UNCHANGED FirstWriter!vars
  BY <1>3, ReadsTheSame, AllKeysRead DEF memory, FirstWriter!vars
<1>4. ASSUME NEW p \in Peers, NEW c \in Contents, Import(p, c)  PROVE UNCHANGED FirstWriter!vars
  <2>1. NewRow(c, p) /\ evicted' = evicted /\ keymap' = keymap
        /\ offered' = offered /\ minted' = minted
    BY <1>4 DEF Import, NewRow, maps
  <2> QED  BY <2>1, ReadsTheSame, AllKeysRead DEF FirstWriter!vars
<1>5. ASSUME NEW t \in Threads, NEW k \in Peers \X Sent, OnTombstone(t, k)
      PROVE  UNCHANGED <<memory, keymap, offered, minted>>
  BY <1>5 DEF OnTombstone, maps
<1>6. ASSUME NEW t \in Threads, ReadRow(t)  PROVE UNCHANGED <<memory, keymap, offered, minted>>
  BY <1>6 DEF ReadRow, maps
<1>7. ASSUME NEW t \in Threads, NEW r \in Rows, SearchHit(t, r)
      PROVE  UNCHANGED <<memory, keymap, offered, minted>>
  BY <1>7 DEF SearchHit, maps
<1>8. CASE UNCHANGED vars
  BY <1>3, <1>8 DEF vars, maps
<1>9. CASE Next
  BY <1>1, <1>2, <1>3, <1>4, <1>5, <1>6, <1>7, <1>9,
     StoreOwnPuts, OnFactOffers, StoreFactPuts, MintMints, EvictForgets DEF Next
<1> QED  BY <1>8, <1>9

LEMMA InitSimulation == Init => FirstWriter!Init
  BY UnmappedReadsNothing DEF Init, FirstWriter!Init

(* The adapter implements the first-writer store: what a key reads as is the  *)
(* first content offered for it, or that of the row the key was made for, and *)
(* it never changes to another before the key is forgotten.                   *)
THEOREM ReadsAsFirstWriter == Spec => KeysReadFirst
  BY InitSimulation, StepSimulation, Invariance, PTL DEF Spec, KeysReadFirst, FirstWriter!Spec

-----------------------------------------------------------------------------
(* The models' recursive functions count up; these two lemmas are what their *)
(* proofs by induction rest on.                                              *)
LEMMA LeastNumber ==
    ASSUME NEW T \in SUBSET Nat, T # {}
    PROVE  \E n \in T : \A m \in T : n <= m
<1> DEFINE R == OpToRel(<, Nat)
<1>1. IsWellFoundedOn(R, Nat)
    BY NatLessThanWellFounded
<1>2. \E n \in T : \A m \in T : ~(<<m, n>> \in R)
    <2> HIDE DEF R
    <2> QED BY <1>1, WFMin
<1>3. \A m, n \in Nat : <<m, n>> \in R <=> m < n
    BY DEF OpToRel
<1> HIDE DEF R
<1>4. PICK n \in T : \A m \in T : ~(<<m, n>> \in R)
    BY <1>2
<1>5. ASSUME NEW m \in T PROVE n <= m
    <2>1. ~(m < n) /\ m \in Nat /\ n \in Nat
        BY <1>3, <1>4
    <2> QED BY <2>1
<1> QED BY <1>5

\* A set of numbers that has 0 and never stops has all of them.
LEMMA CountsUp ==
    ASSUME NEW N \in Nat, NEW S, 0 \in S,
           \A n \in 1..N : n - 1 \in S => n \in S
    PROVE  \A n \in 0..N : n \in S
<1> DEFINE T == {n \in 0..N : n \notin S}
<1>1. SUFFICES ASSUME T # {} PROVE FALSE
    OBVIOUS
<1>2. PICK n \in T : \A m \in T : n <= m
    <2>1. T \in SUBSET Nat
        OBVIOUS
    <2> HIDE DEF T
    <2> QED BY <1>1, <2>1, LeastNumber
<1>3. n # 0 /\ n \in 1..N /\ n - 1 \in 0..N /\ ~(n <= n - 1)
    BY <1>2
<1>4. n - 1 \in S
    BY <1>2, <1>3
<1> QED BY <1>2, <1>3, <1>4

Reaches(N, V, base, step) ==
    \E f \in [0..N -> V] : f[0] = base /\ \A i \in 1..N : f[i] = step[<<i, f[i - 1]>>]

LEMMA Recursion ==
    ASSUME NEW N \in Nat, NEW V, NEW base \in V, NEW step \in [(1..N) \X V -> V]
    PROVE  Reaches(N, V, base, step)
<1> DEFINE Goes(f, n) == f[0] = base /\ \A i \in 1..n : f[i] = step[<<i, f[i - 1]>>]
           S == {n \in 0..N : \E f \in [0..n -> V] : Goes(f, n)}
<1>1. 0 \in S
    <2>1. PICK f : f = [i \in 0..0 |-> base]
        OBVIOUS
    <2>2. f \in [0..0 -> V] /\ f[0] = base /\ 1..0 = {}
        BY <2>1
    <2> QED BY <2>2
<1>2. ASSUME NEW n \in 1..N, n - 1 \in S PROVE n \in S
    <2>1. n - 1 \in Nat /\ n \in Nat
        OBVIOUS
    <2>2. PICK f \in [0..n - 1 -> V] : Goes(f, n - 1)
        BY <1>2
    <2>3. PICK g : g = [i \in 0..n |-> IF i = n THEN step[<<n, f[n - 1]>>] ELSE f[i]]
        OBVIOUS
    <2>4. f[n - 1] \in V /\ <<n, f[n - 1]>> \in (1..N) \X V
        BY <1>2, <2>1, <2>2
    <2>5. ASSUME NEW i \in 0..n PROVE g[i] \in V
        <3>1. i # n => i \in 0..n - 1
            BY <2>1
        <3> QED BY <2>2, <2>3, <2>4, <3>1
    <2>6. \A i \in 0..n - 1 : i \in 0..n /\ i # n /\ g[i] = f[i]
        BY <2>1, <2>3
    <2>7. ASSUME NEW i \in 1..n PROVE g[i] = step[<<i, g[i - 1]>>]
        <3>1. i - 1 \in 0..n - 1
            BY <2>1
        <3>2. g[i - 1] = f[i - 1]
            BY <2>6, <3>1
        <3>3. CASE i = n
            <4>1. g[n] = step[<<n, f[n - 1]>>]
                BY <2>1, <2>3
            <4> QED BY <3>2, <3>3, <4>1
        <3>4. CASE i # n
            <4>1. i \in 1..n - 1 /\ i \in 0..n - 1
                BY <2>1, <3>4
            <4>2. g[i] = f[i]
                BY <2>6, <4>1
            <4>3. f[i] = step[<<i, f[i - 1]>>]
                BY <2>2, <4>1
            <4> QED BY <3>2, <4>2, <4>3
        <3> QED BY <3>3, <3>4
    <2>8. g \in [0..n -> V] /\ g[0] = base
        BY <2>1, <2>2, <2>3, <2>5, <2>6
    <2> QED BY <1>2, <2>7, <2>8
<1>3. N \in S
    <2> HIDE DEF S
    <2>1. \A n \in 0..N : n \in S
        BY <1>1, <1>2, CountsUp
    <2> QED BY <2>1
<1> QED BY <1>3 DEF Reaches

-----------------------------------------------------------------------------
(* SpatialIndex.  The tree's levels, and how two nodes may lie to each other. *)
Places == Int \X Int

LEMMA LevelsAre ==
    /\ Spatial!Levels[0] = {Spatial!Root}
    /\ \A d \in 1..MaxDepth :
          Spatial!Levels[d] = UNION {Spatial!Children(n) : n \in Spatial!Levels[d - 1]}
<1> DEFINE Below(level) == UNION {Spatial!Children(n) : n \in level}
           Grows(f) == f = [d \in 0..MaxDepth |-> IF d = 0 THEN {Spatial!Root} ELSE Below(f[d - 1])]
<1>1. MaxDepth \in Nat /\ Spatial!Root \in Places
    BY SpatialAssumption DEF Spatial!Root, Places
<1>2. \A n \in Places : Spatial!Children(n) \in SUBSET Places
    BY DEF Places, Spatial!Children
<1>3. \A level \in SUBSET Places : Below(level) \in SUBSET Places
    BY <1>2
<1>4. PICK step : step = [p \in (1..MaxDepth) \X SUBSET Places |-> Below(p[2])]
    OBVIOUS
<1>5. step \in [(1..MaxDepth) \X SUBSET Places -> SUBSET Places]
    <2> HIDE DEF Below
    <2> QED BY <1>3, <1>4
<1>6. PICK f \in [0..MaxDepth -> SUBSET Places] :
          f[0] = {Spatial!Root} /\ \A d \in 1..MaxDepth : f[d] = step[<<d, f[d - 1]>>]
    <2>1. PICK V : V = SUBSET Places
        OBVIOUS
    <2>2. PICK top : top = {Spatial!Root}
        OBVIOUS
    <2>3. top \in V /\ step \in [(1..MaxDepth) \X V -> V]
        BY <1>1, <1>5, <2>1, <2>2
    <2>4. Reaches(MaxDepth, V, top, step)
        BY <1>1, <2>3, Recursion
    <2> QED BY <2>1, <2>2, <2>4 DEF Reaches
<1>7. Grows(f)
    <2> HIDE DEF Below
    <2>1. ASSUME NEW d \in 1..MaxDepth PROVE f[d] = Below(f[d - 1])
        <3>1. d - 1 \in 0..MaxDepth
            BY <1>1
        <3>2. f[d - 1] \in SUBSET Places
            BY <1>6, <3>1
        <3> QED BY <1>4, <1>6, <3>2
    <2>2. \A d \in 0..MaxDepth : d = 0 \/ d \in 1..MaxDepth
        BY <1>1
    <2> QED BY <1>6, <2>1, <2>2
<1>8. Spatial!Levels = CHOOSE g : Grows(g)
    BY DEF Spatial!Levels
<1>9. Grows(Spatial!Levels)
    <2> HIDE DEF Grows
    <2> QED BY <1>7, <1>8
<1> QED
    <2> HIDE DEF Below
    <2>1. \A d \in 1..MaxDepth : d \in 0..MaxDepth /\ d # 0 /\ 0 \in 0..MaxDepth
        BY <1>1
    <2>2. 0 \in 0..MaxDepth
        BY <1>1
    <2>3. \A d \in 1..MaxDepth : Spatial!Levels[d] = Below(Spatial!Levels[d - 1])
        BY <1>9, <2>1
    <2>4. Spatial!Levels[0] = {Spatial!Root}
        BY <1>9, <2>2
    <2> QED BY <2>3, <2>4 DEF Below

\* Half of a node's size, on either side of its centre.
ChildOf(m, n) ==
    /\ m \in Places /\ m[2] > 0 /\ n[2] = 2 * m[2]
    /\ m[1] = n[1] - m[2] \/ m[1] = n[1] + m[2]

LEMMA ChildrenAre ==
    ASSUME NEW n \in Places, n[2] > 0, n[2] % 2 = 0
    PROVE  /\ \A m \in Spatial!Children(n) : ChildOf(m, n)
           /\ \E m \in Spatial!Children(n) : m[1] = n[1] - m[2]
           /\ \E m \in Spatial!Children(n) : m[1] = n[1] + m[2]
<1>1. PICK c \in Int, h \in Int : n = <<c, h>>
    BY DEF Places
<1>2. PICK k \in Int : k = h \div 2
    BY <1>1
<1>3. h = 2 * k /\ k > 0
    BY <1>1, <1>2
<1>4. Spatial!Children(n) = {<<c - k, k>>, <<c + k, k>>}
    BY <1>1, <1>2 DEF Spatial!Children
<1>6. ASSUME NEW m \in Spatial!Children(n) PROVE ChildOf(m, n)
    BY <1>1, <1>3, <1>4, <1>6 DEF ChildOf, Places
<1>7. <<c - k, k>> \in Spatial!Children(n) /\ <<c + k, k>> \in Spatial!Children(n)
    BY <1>4
<1>8. <<c - k, k>>[1] = n[1] - <<c - k, k>>[2] /\ <<c + k, k>>[1] = n[1] + <<c + k, k>>[2]
    BY <1>1
<1> QED BY <1>6, <1>7, <1>8

\* The sizes are halved from level to level, and every node is inside the root.
LevelFits(d) ==
    /\ Spatial!Levels[d] \subseteq Places
    /\ \A n \in Spatial!Levels[d] :
          /\ n[2] > 0
          /\ - Half <= n[1] - n[2] /\ n[1] + n[2] <= Half
    /\ \A m, n \in Spatial!Levels[d] : m[2] = n[2]

LEMMA LevelDown ==
    ASSUME NEW d \in 1..MaxDepth, LevelFits(d - 1)
    PROVE  /\ LevelFits(d)
           /\ \A m \in Spatial!Levels[d] : \E n \in Spatial!Levels[d - 1] : ChildOf(m, n)
           /\ \A n \in Spatial!Levels[d - 1] :
                 /\ Spatial!Children(n) \subseteq Spatial!Levels[d]
                 /\ \A m \in Spatial!Children(n) : ChildOf(m, n)
                 /\ \E m \in Spatial!Children(n) : m[1] = n[1] - m[2]
                 /\ \E m \in Spatial!Children(n) : m[1] = n[1] + m[2]
<1>1. Spatial!Levels[d] = UNION {Spatial!Children(n) : n \in Spatial!Levels[d - 1]}
    BY LevelsAre
<1>2. ASSUME NEW n \in Spatial!Levels[d - 1]
      PROVE  /\ n \in Places /\ n[2] > 0 /\ n[2] % 2 = 0
             /\ - Half <= n[1] - n[2] /\ n[1] + n[2] <= Half
    BY SpatialAssumption DEF LevelFits
<1>3. \A n \in Spatial!Levels[d - 1] :
          /\ \A m \in Spatial!Children(n) : ChildOf(m, n)
          /\ \E m \in Spatial!Children(n) : m[1] = n[1] - m[2]
          /\ \E m \in Spatial!Children(n) : m[1] = n[1] + m[2]
    BY <1>2, ChildrenAre
<1>4. \A m \in Spatial!Levels[d] : \E n \in Spatial!Levels[d - 1] : ChildOf(m, n)
    BY <1>1, <1>3
<1>6. Half \in Nat
    BY SpatialAssumption
<1>7. ASSUME NEW m \in Spatial!Levels[d]
      PROVE  /\ m \in Places /\ m[2] > 0
             /\ - Half <= m[1] - m[2] /\ m[1] + m[2] <= Half
    <2>1. PICK n \in Spatial!Levels[d - 1] : ChildOf(m, n)
        BY <1>4
    <2>2. m[1] \in Int /\ m[2] \in Int /\ n[1] \in Int /\ n[2] \in Int
        BY <1>2, <2>1 DEF ChildOf, Places
    <2> QED BY <1>2, <1>6, <2>1, <2>2 DEF ChildOf
<1>8. ASSUME NEW m \in Spatial!Levels[d], NEW n \in Spatial!Levels[d] PROVE m[2] = n[2]
    <2>1. PICK p \in Spatial!Levels[d - 1], q \in Spatial!Levels[d - 1] : ChildOf(m, p) /\ ChildOf(n, q)
        BY <1>4
    <2>2. p[2] = q[2]
        BY DEF LevelFits
    <2>3. m[2] \in Int /\ n[2] \in Int
        BY <1>7 DEF Places
    <2> QED BY <2>1, <2>2, <2>3 DEF ChildOf
<1>9. LevelFits(d)
    BY <1>7, <1>8 DEF LevelFits
<1> QED BY <1>1, <1>3, <1>4, <1>9

LEMMA LevelsFit == \A d \in 0..MaxDepth : LevelFits(d)
<1>1. MaxDepth \in Nat /\ Half \in Nat \ {0}
    BY SpatialAssumption
<1>2. LevelFits(0)
    <2>1. Spatial!Levels[0] = {<<0, Half>>}
        BY LevelsAre DEF Spatial!Root
    <2>2. PICK top : top = <<0, Half>>
        OBVIOUS
    <2>3. top \in Places /\ top[2] > 0 /\ - Half <= top[1] - top[2] /\ top[1] + top[2] <= Half
        BY <1>1, <2>2 DEF Places
    <2> QED BY <2>1, <2>2, <2>3 DEF LevelFits
<1> DEFINE S == {d \in 0..MaxDepth : LevelFits(d)}
<1>3. 0 \in S
    BY <1>1, <1>2
<1>4. ASSUME NEW d \in 1..MaxDepth, d - 1 \in S PROVE d \in S
    <2>1. d \in 0..MaxDepth
        BY <1>1
    <2> QED BY <1>4, <2>1, LevelDown
<1>5. \A d \in 0..MaxDepth : d \in S
    <2> HIDE DEF S
    <2> QED BY <1>1, <1>3, <1>4, CountsUp
<1> QED BY <1>5

\* m is in one half of n, or beside it.
InHalf(m, n) ==
    \/ n[1] - n[2] <= m[1] - m[2] /\ m[1] + m[2] <= n[1]
    \/ n[1] <= m[1] - m[2] /\ m[1] + m[2] <= n[1] + n[2]
Beside(m, n) == m[1] + m[2] <= n[1] - n[2] \/ n[1] + n[2] <= m[1] - m[2]
Nested(m, n) == m = n \/ InHalf(m, n) \/ InHalf(n, m) \/ Beside(m, n)

LEMMA ChildNested ==
    ASSUME NEW m \in Places, NEW p \in Places, NEW n \in Places,
           ChildOf(m, p), n[2] > 0, n[2] >= p[2], Nested(p, n)
    PROVE  InHalf(m, n) \/ Beside(m, n)
<1>1. m[1] \in Int /\ m[2] \in Int /\ p[1] \in Int /\ p[2] \in Int /\ n[1] \in Int /\ n[2] \in Int
    BY DEF Places
<1>2. m[2] > 0 /\ p[2] = 2 * m[2] /\ (m[1] = p[1] - m[2] \/ m[1] = p[1] + m[2])
    BY DEF ChildOf
<1>3. CASE p = n
    BY <1>1, <1>2, <1>3 DEF InHalf
<1>4. CASE InHalf(p, n)
    BY <1>1, <1>2, <1>4 DEF InHalf
<1>5. CASE InHalf(n, p)
    BY <1>1, <1>2, <1>5 DEF InHalf
<1>6. CASE Beside(p, n)
    BY <1>1, <1>2, <1>6 DEF Beside
<1> QED BY <1>3, <1>4, <1>5, <1>6 DEF Nested

LEMMA ChildInside ==
    ASSUME NEW m \in Places, NEW p \in Places, ChildOf(m, p)
    PROVE  p[1] - p[2] <= m[1] - m[2] /\ m[1] + m[2] <= p[1] + p[2]
<1>1. m[1] \in Int /\ m[2] \in Int /\ p[1] \in Int /\ p[2] \in Int
    BY DEF Places
<1> QED BY <1>1 DEF ChildOf

\* Two children, of one node or of two beside each other.
LEMMA SiblingsNested ==
    ASSUME NEW m \in Places, NEW n \in Places, NEW p \in Places, NEW q \in Places,
           ChildOf(m, p), ChildOf(n, q), p[2] = q[2], Nested(p, q)
    PROVE  Nested(m, n)
<1>1. /\ m[1] \in Int /\ m[2] \in Int /\ p[1] \in Int /\ p[2] \in Int
      /\ n[1] \in Int /\ n[2] \in Int /\ q[1] \in Int /\ q[2] \in Int
    BY DEF Places
<1>2. /\ m[2] > 0 /\ p[2] = 2 * m[2] /\ (m[1] = p[1] - m[2] \/ m[1] = p[1] + m[2])
      /\ n[2] > 0 /\ q[2] = 2 * n[2] /\ (n[1] = q[1] - n[2] \/ n[1] = q[1] + n[2])
    BY DEF ChildOf
<1>3. CASE p = q
    <2>1. m[2] = n[2]
        BY <1>1, <1>2, <1>3
    <2>2. m[1] = n[1] => m = n
        BY <2>1 DEF Places
    <2>3. m[1] # n[1] => Beside(m, n)
        BY <1>1, <1>2, <1>3 DEF Beside
    <2> QED BY <2>2, <2>3 DEF Nested
<1>4. ~InHalf(p, q) /\ ~InHalf(q, p)
    BY <1>1, <1>2 DEF InHalf
<1>5. CASE Beside(p, q)
    <2>1. p[1] - p[2] <= m[1] - m[2] /\ m[1] + m[2] <= p[1] + p[2]
        BY ChildInside
    <2>2. q[1] - q[2] <= n[1] - n[2] /\ n[1] + n[2] <= q[1] + q[2]
        BY ChildInside
    <2>3. CASE p[1] + p[2] <= q[1] - q[2]
        <3>1. m[1] + m[2] <= n[1] - n[2]
            BY <1>1, <2>1, <2>2, <2>3
        <3> QED BY <3>1 DEF Nested, Beside
    <2>4. CASE q[1] + q[2] <= p[1] - p[2]
        <3>1. n[1] + n[2] <= m[1] - m[2]
            BY <1>1, <2>1, <2>2, <2>4
        <3> QED BY <3>1 DEF Nested, Beside
    <2> QED BY <1>5, <2>3, <2>4 DEF Beside
<1> QED BY <1>3, <1>4, <1>5 DEF Nested

LEMMA NestedBack ==
    ASSUME NEW m, NEW n, Nested(m, n)
    PROVE  Nested(n, m)
BY DEF Nested, Beside

\* Any two nodes are the same, one in a half of the other, or beside each other.
Laminar(d) ==
    /\ \A e \in 0..d : \A m \in Spatial!Levels[d], n \in Spatial!Levels[e] :
          n[2] >= m[2] /\ Nested(m, n)

LEMMA LevelsLaminar == \A d \in 0..MaxDepth : Laminar(d)
<1>1. MaxDepth \in Nat
    BY SpatialAssumption
<1>2. Laminar(0)
    <2>1. LevelFits(0) /\ Spatial!Levels[0] = {Spatial!Root}
        BY <1>1, LevelsFit, LevelsAre
    <2>2. \A e \in 0..0 : e = 0
        OBVIOUS
    <2>3. \A n \in Spatial!Levels[0] : n[2] \in Int
        BY <2>1 DEF LevelFits, Places
    <2> QED BY <2>1, <2>2, <2>3 DEF Laminar, Nested
<1> DEFINE S == {d \in 0..MaxDepth : Laminar(d)}
<1>3. 0 \in S
    BY <1>1, <1>2
<1>4. ASSUME NEW d \in 1..MaxDepth, d - 1 \in S PROVE d \in S
    <2>1. d \in 0..MaxDepth /\ d - 1 \in 0..MaxDepth /\ d \in Nat
        BY <1>1
    <2>2. LevelFits(d) /\ LevelFits(d - 1)
        BY <2>1, LevelsFit
    <2>3. \A m \in Spatial!Levels[d] : \E p \in Spatial!Levels[d - 1] : ChildOf(m, p)
        BY <2>2, LevelDown
    <2>4. ASSUME NEW e \in 0..d, NEW m \in Spatial!Levels[d], NEW n \in Spatial!Levels[e]
          PROVE  n[2] >= m[2] /\ Nested(m, n)
        <3>1. PICK p \in Spatial!Levels[d - 1] : ChildOf(m, p)
            BY <2>3
        <3>2. m \in Places /\ p \in Places
            BY <2>2 DEF LevelFits
        <3>3. m[2] \in Int /\ p[2] \in Int /\ m[2] > 0 /\ p[2] = 2 * m[2]
            BY <3>1, <3>2 DEF ChildOf, Places
        <3>4. CASE e = d
            <4>1. PICK q \in Spatial!Levels[d - 1] : ChildOf(n, q)
                BY <2>3, <3>4
            <4>2. n \in Places /\ q \in Places /\ n[2] = m[2] /\ p[2] = q[2]
                BY <2>2, <3>4 DEF LevelFits
            <4>3. d - 1 \in 0..d - 1
                BY <2>1, <1>4
            <4>4. Nested(p, q)
                BY <1>4, <4>3 DEF Laminar
            <4> QED BY <3>1, <3>2, <3>3, <4>1, <4>2, <4>4, SiblingsNested
        <3>5. CASE e # d
            <4>1. e \in 0..d - 1 /\ e \in 0..MaxDepth
                BY <1>1, <2>1, <2>4, <3>5
            <4>2. n \in Places /\ n[2] > 0
                BY <4>1, LevelsFit DEF LevelFits
            <4>3. n[2] >= p[2] /\ Nested(p, n)
                BY <1>4, <4>1 DEF Laminar
            <4>4. n[2] \in Int
                BY <4>2 DEF Places
            <4> QED BY <3>1, <3>2, <3>3, <4>2, <4>3, <4>4, ChildNested DEF Nested
        <3> QED BY <3>4, <3>5
    <2> QED BY <2>1, <2>4 DEF Laminar
<1>5. \A d \in 0..MaxDepth : d \in S
    <2> HIDE DEF S
    <2> QED BY <1>1, <1>3, <1>4, CountsUp
<1> QED BY <1>5

LEMMA NodesLaminar ==
    ASSUME NEW m \in Spatial!Nodes, NEW n \in Spatial!Nodes
    PROVE  /\ m \in Places /\ m[2] > 0 /\ Nested(m, n)
           /\ - Half <= m[1] - m[2] /\ m[1] + m[2] <= Half
<1>1. PICK d \in 0..MaxDepth, e \in 0..MaxDepth : m \in Spatial!Levels[d] /\ n \in Spatial!Levels[e]
    BY DEF Spatial!Nodes
<1>2. MaxDepth \in Nat
    BY SpatialAssumption
<1>3. d \in 0..e \/ e \in 0..d
    BY <1>2
<1>4. Nested(m, n)
    BY <1>1, <1>3, LevelsLaminar, NestedBack DEF Laminar
<1> QED BY <1>1, <1>4, LevelsFit DEF LevelFits

LEMMA NodesFinite == IsFiniteSet(Spatial!Nodes)
<1>1. Half \in Int /\ - Half \in Int
    BY SpatialAssumption
<1>2. ASSUME NEW n \in Spatial!Nodes PROVE n \in (- Half..Half) \X (0..Half)
    <2>1. /\ n \in Places /\ n[2] > 0
          /\ - Half <= n[1] - n[2] /\ n[1] + n[2] <= Half
        BY NodesLaminar
    <2>2. PICK c \in Int, h \in Int : n = <<c, h>>
        BY <2>1 DEF Places
    <2>3. h > 0 /\ - Half <= c - h /\ c + h <= Half
        BY <2>1, <2>2
    <2>4. c \in - Half..Half /\ h \in 0..Half
        BY <1>1, <2>2, <2>3
    <2> QED BY <2>2, <2>4
<1>3. IsFiniteSet(- Half..Half) /\ IsFiniteSet(0..Half)
    BY <1>1, FS_Interval
<1>4. IsFiniteSet((- Half..Half) \X (0..Half))
    BY <1>3, FS_Product
<1>5. Spatial!Nodes \in SUBSET ((- Half..Half) \X (0..Half))
    BY <1>2
<1> QED BY <1>4, <1>5, FS_Subset

\* A node above the last level has a child on either side, in the tree.
LEMMA ChildrenBelow ==
    ASSUME NEW n \in Spatial!Nodes, n \notin Spatial!Bottom
    PROVE  /\ Spatial!Children(n) \subseteq Spatial!Nodes
           /\ \A m \in Spatial!Children(n) : ChildOf(m, n)
           /\ \E m \in Spatial!Children(n) : m[1] = n[1] - m[2]
           /\ \E m \in Spatial!Children(n) : m[1] = n[1] + m[2]
<1>1. MaxDepth \in Nat
    BY SpatialAssumption
<1>2. PICK d \in 0..MaxDepth : n \in Spatial!Levels[d]
    BY DEF Spatial!Nodes
<1>3. d # MaxDepth
    BY <1>2 DEF Spatial!Bottom
<1>4. PICK e : e = d + 1
    OBVIOUS
<1>5. e \in 1..MaxDepth /\ e \in 0..MaxDepth /\ e - 1 = d
    BY <1>1, <1>3, <1>4
<1>6. LevelFits(e - 1)
    BY <1>5, LevelsFit
<1>7. n \in Spatial!Levels[e - 1]
    BY <1>2, <1>5
<1>8. /\ Spatial!Children(n) \subseteq Spatial!Levels[e]
      /\ \A m \in Spatial!Children(n) : ChildOf(m, n)
      /\ \E m \in Spatial!Children(n) : m[1] = n[1] - m[2]
      /\ \E m \in Spatial!Children(n) : m[1] = n[1] + m[2]
    BY <1>5, <1>6, <1>7, LevelDown
<1>9. Spatial!Levels[e] \subseteq Spatial!Nodes
    BY <1>5 DEF Spatial!Nodes
<1> QED BY <1>8, <1>9

LEMMA CoversBetween ==
    ASSUME NEW n \in Places, NEW o \in Observations
    PROVE  Spatial!Contains(n, o) <=> n[1] - n[2] <= At[o] /\ At[o] <= n[1] + n[2]
<1>1. n[1] \in Int /\ n[2] \in Int /\ At[o] \in Int
    BY SpatialAssumption DEF Places
<1> QED BY <1>1 DEF Spatial!Contains, Spatial!Distance

\* One of the children covers what the node covers.
LEMMA ChildCovers ==
    ASSUME NEW n \in Spatial!Nodes, n \notin Spatial!Bottom, NEW o \in Observations,
           Spatial!Contains(n, o)
    PROVE  \E m \in Spatial!Children(n) :
               m \in Spatial!Nodes /\ Spatial!Contains(m, o) /\ m[2] < n[2]
<1>1. n \in Places /\ n[1] \in Int /\ n[2] \in Int /\ At[o] \in Int
    BY NodesLaminar, SpatialAssumption DEF Places
<1>2. n[1] - n[2] <= At[o] /\ At[o] <= n[1] + n[2]
    BY <1>1, CoversBetween
<1>3. PICK a \in Spatial!Children(n) : a[1] = n[1] - a[2]
    BY ChildrenBelow
<1>4. PICK b \in Spatial!Children(n) : b[1] = n[1] + b[2]
    BY ChildrenBelow
<1>5. ChildOf(a, n) /\ ChildOf(b, n) /\ a \in Spatial!Nodes /\ b \in Spatial!Nodes
    BY <1>3, <1>4, ChildrenBelow
<1>6. a \in Places /\ a[2] \in Int /\ a[2] > 0 /\ n[2] = 2 * a[2]
    BY <1>5 DEF ChildOf, Places
<1>7. b \in Places /\ b[2] \in Int /\ b[2] > 0 /\ n[2] = 2 * b[2]
    BY <1>5 DEF ChildOf, Places
<1>8. CASE At[o] <= n[1]
    <2>1. a[1] - a[2] <= At[o] /\ At[o] <= a[1] + a[2] /\ a[2] < n[2]
        BY <1>1, <1>2, <1>3, <1>6, <1>8
    <2> QED BY <1>3, <1>5, <1>6, <2>1, CoversBetween
<1>9. CASE n[1] <= At[o]
    <2>1. b[1] - b[2] <= At[o] /\ At[o] <= b[1] + b[2] /\ b[2] < n[2]
        BY <1>1, <1>2, <1>4, <1>7, <1>9
    <2> QED BY <1>4, <1>5, <1>7, <2>1, CoversBetween
<1> QED BY <1>1, <1>8, <1>9

-----------------------------------------------------------------------------
(* An observation has copies exactly if a node holds it: what the sum over   *)
(* the nodes, taken in any order, says of its summands.                      *)
Lists == [Spatial!Nodes -> [Observations -> Nat]]
Tally(all, o, f, s) ==
    IF s = {} THEN 0
    ELSE f[s \ {CHOOSE n \in s : TRUE}] + all[CHOOSE n \in s : TRUE][o]
Tallies(all, o, f) == f = [s \in SUBSET Spatial!Nodes |-> Tally(all, o, f, s)]

LEMMA OneLess ==
    ASSUME NEW s \in SUBSET Spatial!Nodes, s # {}
    PROVE  /\ (CHOOSE n \in s : TRUE) \in s
           /\ s \ {CHOOSE n \in s : TRUE} \in SUBSET Spatial!Nodes
           /\ IsFiniteSet(s)
           /\ Cardinality(s) \in 1..Cardinality(Spatial!Nodes)
           /\ Cardinality(s \ {CHOOSE n \in s : TRUE}) = Cardinality(s) - 1
<1>1. PICK x : x = CHOOSE n \in s : TRUE
    OBVIOUS
<1>2. x \in s
    BY <1>1
<1>3. IsFiniteSet(s) /\ Cardinality(s) <= Cardinality(Spatial!Nodes)
    BY NodesFinite, FS_Subset
<1>4. Cardinality(s) \in Nat /\ Cardinality(Spatial!Nodes) \in Nat /\ Cardinality(s) # 0
    BY <1>3, NodesFinite, FS_CardinalityType, FS_EmptySet
<1>5. Cardinality(s \ {x}) = Cardinality(s) - 1
    BY <1>2, <1>3, FS_RemoveElement
<1> QED BY <1>1, <1>2, <1>3, <1>4, <1>5

LEMMA TallyExists ==
    ASSUME NEW all \in Lists, NEW o \in Observations
    PROVE  \E f : Tallies(all, o, f)
<1> DEFINE sets == SUBSET Spatial!Nodes
           size == Cardinality(Spatial!Nodes)
<1>1. size \in Nat
    BY NodesFinite, FS_CardinalityType
<1>2. PICK V : V = [sets -> Nat]
    OBVIOUS
<1>3. PICK base : base = [s \in sets |-> 0]
    OBVIOUS
<1>4. PICK step : step = [p \in (1..size) \X V |-> [s \in sets |-> Tally(all, o, p[2], s)]]
    OBVIOUS
<1>5. base \in V
    BY <1>2, <1>3
<1>6. ASSUME NEW g \in V PROVE [s \in sets |-> Tally(all, o, g, s)] \in V
    <2>1. ASSUME NEW s \in sets PROVE Tally(all, o, g, s) \in Nat
        <3>1. CASE s = {}
            BY <3>1 DEF Tally
        <3>2. CASE s # {}
            <4>1. PICK x : x = CHOOSE n \in s : TRUE
                OBVIOUS
            <4>2. x \in s /\ s \ {x} \in sets
                BY <3>2, <4>1, OneLess
            <4>3. g[s \ {x}] \in Nat /\ all[x][o] \in Nat
                BY <1>2, <4>2 DEF Lists
            <4> QED BY <3>2, <4>1, <4>3 DEF Tally
        <3> QED BY <3>1, <3>2
    <2> QED BY <1>2, <2>1
<1>7. step \in [(1..size) \X V -> V]
    <2>1. \A p \in (1..size) \X V : p[2] \in V
        OBVIOUS
    <2> QED BY <1>4, <1>6, <2>1
<1>8. PICK h \in [0..size -> V] : h[0] = base /\ \A i \in 1..size : h[i] = step[<<i, h[i - 1]>>]
    <2>1. Reaches(size, V, base, step)
        <3> HIDE DEF size
        <3> QED BY <1>1, <1>5, <1>7, Recursion
    <2> QED BY <2>1 DEF Reaches
<1>9. PICK f : f = [s \in sets |-> h[Cardinality(s)][s]]
    OBVIOUS
<1>10. ASSUME NEW s \in sets PROVE f[s] = Tally(all, o, f, s)
    <2>1. CASE s = {}
        <3>1. f[s] = h[0][s] /\ h[0][s] = 0
            BY <1>3, <1>8, <1>9, <2>1, FS_EmptySet
        <3> QED BY <2>1, <3>1 DEF Tally
    <2>2. CASE s # {}
        <3>1. PICK x : x = CHOOSE n \in s : TRUE
            OBVIOUS
        <3>2. x \in s /\ s \ {x} \in sets /\ Cardinality(s) \in 1..size
              /\ Cardinality(s \ {x}) = Cardinality(s) - 1
            BY <2>2, <3>1, OneLess
        <3>3. PICK k : k = Cardinality(s)
            OBVIOUS
        <3>4. k \in 1..size /\ k - 1 \in 0..size /\ h[k - 1] \in V
            BY <1>1, <1>8, <3>2, <3>3
        <3>5. f[s] = h[k][s] /\ f[s \ {x}] = h[k - 1][s \ {x}]
            BY <1>9, <3>2, <3>3
        <3>6. h[k] = step[<<k, h[k - 1]>>] /\ <<k, h[k - 1]>> \in (1..size) \X V
            BY <1>8, <3>4
        <3>7. step[<<k, h[k - 1]>>] = [t \in sets |-> Tally(all, o, h[k - 1], t)]
            BY <1>4, <3>6
        <3>8. h[k][s] = Tally(all, o, h[k - 1], s)
            BY <3>6, <3>7
        <3>9. h[k][s] = h[k - 1][s \ {x}] + all[x][o]
            BY <2>2, <3>1, <3>8 DEF Tally
        <3> QED BY <2>2, <3>1, <3>5, <3>9 DEF Tally
    <2> QED BY <2>1, <2>2
<1>11. Tallies(all, o, f)
    <2>1. [s \in sets |-> h[Cardinality(s)][s]] = [s \in sets |-> Tally(all, o, f, s)]
        BY <1>9, <1>10
    <2> QED BY <1>9, <2>1 DEF Tallies
<1> QED BY <1>11

Summed(all, o, f, s) == f[s] \in Nat /\ (f[s] > 0 <=> \E n \in s : all[n][o] > 0)

LEMMA TallySums ==
    ASSUME NEW all \in Lists, NEW o \in Observations, NEW f, Tallies(all, o, f)
    PROVE  Summed(all, o, f, Spatial!Nodes)
<1> DEFINE sets == SUBSET Spatial!Nodes
           size == Cardinality(Spatial!Nodes)
           S == {k \in 0..size : \A s \in sets : Cardinality(s) = k => Summed(all, o, f, s)}
<1>1. size \in Nat
    BY NodesFinite, FS_CardinalityType
<1>2. \A s \in sets : f[s] = Tally(all, o, f, s)
    BY DEF Tallies
<1>3. 0 \in S
    <2>1. ASSUME NEW s \in sets, Cardinality(s) = 0 PROVE Summed(all, o, f, s)
        <3>1. s = {}
            <4>1. IsFiniteSet(s)
                BY NodesFinite, FS_Subset
            <4> QED BY <2>1, <4>1, FS_EmptySet
        <3>2. f[s] = 0
            BY <1>2, <3>1 DEF Tally
        <3> QED BY <3>1, <3>2 DEF Summed
    <2> QED BY <1>1, <2>1
<1>4. ASSUME NEW k \in 1..size, k - 1 \in S PROVE k \in S
    <2>1. ASSUME NEW s \in sets, Cardinality(s) = k PROVE Summed(all, o, f, s)
        <3>1. s # {}
            BY <1>1, <2>1, FS_EmptySet
        <3>2. PICK x : x = CHOOSE n \in s : TRUE
            OBVIOUS
        <3>3. PICK t : t = s \ {x}
            OBVIOUS
        <3>4. x \in s /\ t \in sets /\ Cardinality(t) = k - 1
            BY <2>1, <3>1, <3>2, <3>3, OneLess
        <3>5. Summed(all, o, f, t)
            BY <1>4, <3>4
        <3>6. f[s] = f[t] + all[x][o]
            BY <1>2, <3>1, <3>2, <3>3 DEF Tally
        <3>7. all[x][o] \in Nat
            BY <3>4 DEF Lists
        <3>8. s = t \cup {x}
            BY <3>3, <3>4
        <3>9. f[t] \in Nat /\ (f[t] > 0 <=> \E n \in t : all[n][o] > 0)
            BY <3>5 DEF Summed
        <3>10. f[s] \in Nat /\ (f[s] > 0 <=> f[t] > 0 \/ all[x][o] > 0)
            BY <3>6, <3>7, <3>9
        <3>11. (\E n \in s : all[n][o] > 0) <=> (\E n \in t : all[n][o] > 0) \/ all[x][o] > 0
            BY <3>8
        <3> QED BY <3>9, <3>10, <3>11 DEF Summed
    <2>2. k \in 0..size
        BY <1>1
    <2> QED BY <2>1, <2>2
<1>5. \A k \in 0..size : k \in S
    <2> HIDE DEF S, size
    <2> QED BY <1>1, <1>3, <1>4, CountsUp
<1>6. size \in S
    <2> HIDE DEF S
    <2> QED BY <1>1, <1>5
<1> QED BY <1>6

Counted(all, o, count) ==
    count \in Nat /\ (count > 0 <=> \E n \in Spatial!Nodes : all[n][o] > 0)

LEMMA ChosenTally ==
    ASSUME NEW all \in Lists, NEW o \in Observations
    PROVE  Counted(all, o, (CHOOSE f : Tallies(all, o, f))[Spatial!Nodes])
<1>1. PICK f : f = CHOOSE g : Tallies(all, o, g)
    OBVIOUS
<1>2. Tallies(all, o, f)
    <2>1. \E g : Tallies(all, o, g)
        BY TallyExists
    <2> QED BY <1>1, <2>1
<1>3. Summed(all, o, f, Spatial!Nodes)
    BY <1>2, TallySums
<1> QED BY <1>1, <1>3 DEF Summed, Counted

LEMMA CopiesAre ==
    ASSUME lists \in Lists, NEW o \in Observations
    PROVE  Counted(lists, o, Spatial!Copies(o))
<1>1. Spatial!Copies(o) =
          (CHOOSE f : f = [s \in SUBSET Spatial!Nodes |-> Tally(lists, o, f, s)])[Spatial!Nodes]
    BY DEF Spatial!Copies, Spatial!FoldSet, Spatial!MapThenFoldSet, Tally
<1>2. Spatial!Copies(o) = (CHOOSE f : Tallies(lists, o, f))[Spatial!Nodes]
    BY <1>1 DEF Tallies
<1> QED BY <1>2, ChosenTally

LEMMA NextCopiesAre ==
    ASSUME lists' \in Lists, NEW o \in Observations
    PROVE  Counted(lists', o, Spatial!Copies(o)')
<1>1. Spatial!Copies(o)' =
          (CHOOSE f : f = [s \in SUBSET Spatial!Nodes |-> Tally(lists', o, f, s)])[Spatial!Nodes]
    BY DEF Spatial!Copies, Spatial!FoldSet, Spatial!MapThenFoldSet, Tally
<1>2. Spatial!Copies(o)' = (CHOOSE f : Tallies(lists', o, f))[Spatial!Nodes]
    BY <1>1 DEF Tallies
<1>3. PICK all : all = lists'
    OBVIOUS
<1>4. Counted(all, o, (CHOOSE f : Tallies(all, o, f))[Spatial!Nodes])
    BY <1>3, ChosenTally
<1> QED BY <1>2, <1>3, <1>4

-----------------------------------------------------------------------------
(* Where an insertion goes.                                                  *)
LEMMA OverfullAre ==
    ASSUME NEW o \in Observations
    PROVE  Spatial!Overfull(o) \subseteq
               {n \in Spatial!Leaves \ Spatial!Bottom : Spatial!Contains(n, o) /\ Spatial!Full(n)}
BY DEF Spatial!Overfull, Spatial!Full

LEMMA LandsWhereItIs ==
    ASSUME NEW o \in Observations, NEW n \in Spatial!Landing(o)
    PROVE  n \in Spatial!Nodes /\ Spatial!Contains(n, o)
<1>1. CASE n \in Spatial!Leaves /\ Spatial!Contains(n, o)
    BY <1>1 DEF Spatial!Leaves
<1>2. CASE \E p \in Spatial!Overfull(o) : n \in Spatial!Children(p) /\ Spatial!Contains(n, o)
    <2>1. PICK p \in Spatial!Overfull(o) : n \in Spatial!Children(p) /\ Spatial!Contains(n, o)
        BY <1>2
    <2>2. p \in Spatial!Nodes /\ p \notin Spatial!Bottom
        BY OverfullAre DEF Spatial!Leaves
    <2> QED BY <2>1, <2>2, ChildrenBelow
<1> QED BY <1>1, <1>2 DEF Spatial!Landing

LEMMA RootCovers ==
    ASSUME NEW o \in Observations, NEW n \in Spatial!Nodes, Spatial!Contains(n, o)
    PROVE  o \in Spatial!InWorld
<1>1. /\ n \in Places /\ n[1] \in Int /\ n[2] \in Int /\ At[o] \in Int /\ Half \in Int
      /\ - Half <= n[1] - n[2] /\ n[1] + n[2] <= Half
    BY NodesLaminar, SpatialAssumption DEF Places
<1>2. n[1] - n[2] <= At[o] /\ At[o] <= n[1] + n[2]
    BY <1>1, CoversBetween
<1>3. PICK top : top = Spatial!Root
    OBVIOUS
<1>4. top \in Places /\ top[1] = 0 /\ top[2] = Half
    BY <1>1, <1>3 DEF Spatial!Root, Places
<1>5. top[1] - top[2] <= At[o] /\ At[o] <= top[1] + top[2]
    BY <1>1, <1>2, <1>4
<1> QED BY <1>3, <1>4, <1>5, CoversBetween DEF Spatial!InWorld

\* The smallest node of the tree that covers it is a leaf.
LEMMA LandsSomewhere ==
    ASSUME split \subseteq Spatial!Nodes \ Spatial!Bottom, NEW o \in Spatial!InWorld
    PROVE  Spatial!Landing(o) # {}
<1> DEFINE InTree(n) == n = Spatial!Root \/ \E p \in split : n \in Spatial!Children(p)
           C == {n \in Spatial!Nodes : InTree(n) /\ Spatial!Contains(n, o)}
           Sizes == {k \in Nat : \E n \in C : n[2] = k}
<1>1. o \in Observations /\ Spatial!Contains(Spatial!Root, o)
    BY DEF Spatial!InWorld
<1>2. Spatial!Root \in C
    <2>1. 0 \in 0..MaxDepth /\ Spatial!Root \in Spatial!Levels[0]
        BY SpatialAssumption, LevelsAre
    <2> QED BY <1>1, <2>1 DEF Spatial!Nodes
<1>3. \A n \in C : n[2] \in Nat
    BY NodesLaminar DEF Places
<1>4. PICK k \in Sizes : \A j \in Sizes : k <= j
    <2>1. Sizes \in SUBSET Nat /\ Sizes # {}
        BY <1>2, <1>3
    <2> HIDE DEF Sizes
    <2> QED BY <2>1, LeastNumber
<1>5. PICK n \in C : n[2] = k
    BY <1>4
<1>6. ASSUME NEW m \in C PROVE ~(m[2] < n[2])
    <2>1. m[2] \in Sizes /\ m[2] \in Nat /\ n[2] \in Nat
        BY <1>3
    <2> QED BY <1>4, <1>5, <2>1
<1>7. n \notin split
    <2>1. SUFFICES ASSUME n \in split PROVE FALSE
        OBVIOUS
    <2>2. n \in Spatial!Nodes /\ n \notin Spatial!Bottom
        BY <2>1
    <2>3. PICK m \in Spatial!Children(n) :
              m \in Spatial!Nodes /\ Spatial!Contains(m, o) /\ m[2] < n[2]
        BY <1>1, <2>2, ChildCovers
    <2>4. m \in C
        BY <2>1, <2>3
    <2> HIDE DEF C
    <2> QED BY <1>6, <2>3, <2>4
<1>8. n \in Spatial!Leaves /\ Spatial!Contains(n, o)
    BY <1>7 DEF Spatial!Leaves
<1>9. CASE ~Spatial!Full(n)
    BY <1>8, <1>9 DEF Spatial!Landing
<1>10. CASE Spatial!Full(n)
    <2>1. n \in Spatial!Overfull(o) /\ n \in Spatial!Nodes /\ n \notin Spatial!Bottom
        BY <1>8, <1>10 DEF Spatial!Overfull, Spatial!Full
    <2>2. PICK m \in Spatial!Children(n) : Spatial!Contains(m, o)
        BY <1>1, <1>8, <2>1, ChildCovers
    <2> QED BY <2>1, <2>2 DEF Spatial!Landing
<1> QED BY <1>9, <1>10

-----------------------------------------------------------------------------
(* Why SphereIsExact is not inductive: it does not say that what a node      *)
(* holds is within its borders, or that a rebuild has only what was in a     *)
(* node.                                                                     *)
SpatialInv ==
    /\ Spatial!TypeOK
    /\ ~locked => \A o \in Observations : rebuilt[o] = 0
    /\ \A o \in Observations : rebuilt[o] > 0 => o \in Spatial!InWorld
    /\ \A n \in Spatial!Nodes, o \in Observations : lists[n][o] > 0 => Spatial!Contains(n, o)

HeldBy(all, o) == \E n \in Spatial!Nodes : all[n][o] > 0

LEMMA InsertedKeeps ==
    ASSUME SpatialInv, NEW o \in Observations, Spatial!Inserted(o)
    PROVE  /\ lists' \in Lists
           /\ split' \subseteq Spatial!Nodes \ Spatial!Bottom
           /\ \A n \in Spatial!Nodes, p \in Observations :
                 lists'[n][p] > 0 => Spatial!Contains(n, p)
           /\ \A p \in Observations :
                 HeldBy(lists', p) <=> HeldBy(lists, p) \/ (p = o /\ o \in Spatial!InWorld)
<1>1. lists \in Lists /\ split \subseteq Spatial!Nodes \ Spatial!Bottom
    BY DEF SpatialInv, Spatial!TypeOK, Lists
<1>2. PICK all : all = lists'
    OBVIOUS
<1>3. all = [n \in Spatial!Nodes |-> IF n \in Spatial!Landing(o)
                                    THEN [lists[n] EXCEPT ![o] = @ + 1] ELSE lists[n]]
    BY <1>2 DEF Spatial!Inserted
<1>4. ASSUME NEW n \in Spatial!Nodes
      PROVE  /\ all[n] \in [Observations -> Nat]
             /\ \A p \in Observations :
                   all[n][p] = IF n \in Spatial!Landing(o) /\ p = o
                               THEN lists[n][p] + 1 ELSE lists[n][p]
    <2>1. lists[n] \in [Observations -> Nat]
        BY <1>1 DEF Lists
    <2>2. all[n] = IF n \in Spatial!Landing(o)
                   THEN [lists[n] EXCEPT ![o] = @ + 1] ELSE lists[n]
        BY <1>3
    <2> QED BY <2>1, <2>2
<1>5. all \in Lists
    BY <1>3, <1>4 DEF Lists
<1>6. ASSUME NEW n \in Spatial!Nodes, NEW p \in Observations
      PROVE  all[n][p] > 0 <=> lists[n][p] > 0 \/ (n \in Spatial!Landing(o) /\ p = o)
    <2>1. lists[n][p] \in Nat
        BY <1>1 DEF Lists
    <2> QED BY <1>4, <2>1
<1>7. split' \subseteq Spatial!Nodes \ Spatial!Bottom
    BY <1>1, OverfullAre DEF Spatial!Inserted, Spatial!Leaves
<1>8. ASSUME NEW n \in Spatial!Nodes, NEW p \in Observations, all[n][p] > 0
      PROVE  Spatial!Contains(n, p)
    BY <1>6, <1>8, LandsWhereItIs DEF SpatialInv
<1>9. Spatial!Landing(o) # {} <=> o \in Spatial!InWorld
    BY <1>1, LandsSomewhere, LandsWhereItIs, RootCovers
<1>10. ASSUME NEW p \in Observations
       PROVE  HeldBy(all, p) <=> HeldBy(lists, p) \/ (p = o /\ o \in Spatial!InWorld)
    BY <1>6, <1>9, LandsWhereItIs DEF HeldBy
<1> QED BY <1>2, <1>5, <1>7, <1>8, <1>10

LEMMA RebuiltFromTheTree ==
    ASSUME SpatialInv, Spatial!PruneStart
    PROVE  /\ rebuilt' \in [Observations -> Nat]
           /\ \A o \in Observations : rebuilt'[o] > 0 <=> o \notin expired /\ HeldBy(lists, o)
           /\ \A n \in Spatial!Nodes, o \in Observations : lists'[n][o] = 0
           /\ lists' \in Lists
<1>1. ASSUME NEW o \in Observations PROVE Counted(lists, o, Spatial!Copies(o))
    BY CopiesAre DEF SpatialInv, Spatial!TypeOK, Lists
<1>2. PICK again : again = [o \in Observations |-> IF o \in expired THEN 0 ELSE Spatial!Copies(o)]
    OBVIOUS
<1>3. rebuilt' = again
    BY <1>2 DEF Spatial!PruneStart
<1>4. ASSUME NEW o \in Observations
      PROVE  again[o] \in Nat /\ (again[o] > 0 <=> o \notin expired /\ HeldBy(lists, o))
    BY <1>1, <1>2 DEF Counted, HeldBy
<1>5. lists' = [n \in Spatial!Nodes |-> [o \in Observations |-> 0]]
    BY DEF Spatial!PruneStart, Spatial!Empty, Spatial!None
<1> QED BY <1>2, <1>3, <1>4, <1>5 DEF Lists

LEMMA SpatialNextKeeps ==
    ASSUME SpatialInv, [Spatial!Next]_(Spatial!vars) PROVE SpatialInv'
<1> USE DEF SpatialInv, Spatial!TypeOK
<1>1. ASSUME NEW o \in Observations, Spatial!Insert(o) PROVE SpatialInv'
    <2>1. Spatial!Inserted(o) /\ seen' \subseteq Observations
          /\ UNCHANGED <<expired, rebuilt, rebuilds, locked>>
        BY <1>1 DEF Spatial!Insert
    <2> QED BY <2>1, InsertedKeeps DEF Lists
<1>2. ASSUME NEW o \in Observations, Spatial!Age(o) PROVE SpatialInv'
    BY <1>2 DEF Spatial!Age, Spatial!Contains
<1>3. ASSUME NEW o \in Observations, Spatial!Reinsert(o) PROVE SpatialInv'
    <2>1. /\ Spatial!Inserted(o) /\ locked /\ rebuilt[o] > 0
          /\ rebuilt' = [rebuilt EXCEPT ![o] = @ - 1]
          /\ UNCHANGED <<seen, expired, rebuilds, locked>>
        BY <1>3 DEF Spatial!Reinsert
    <2>2. rebuilt' \in [Observations -> Nat]
          /\ \A p \in Observations : rebuilt'[p] > 0 => rebuilt[p] > 0
        BY <2>1
    <2> QED BY <2>1, <2>2, InsertedKeeps DEF Lists
<1>4. ASSUME Spatial!PruneStart PROVE SpatialInv'
    <2>1. /\ split' = {} /\ locked' = TRUE /\ rebuilds' = rebuilds + 1 /\ rebuilds < MaxRebuilds
          /\ expired' = expired /\ seen' \subseteq Observations
        BY <1>4 DEF Spatial!PruneStart
    <2>2. rebuilds' \in 0..MaxRebuilds
        BY <2>1, SpatialAssumption
    <2>3. \A o \in Observations : rebuilt'[o] > 0 => o \in Spatial!InWorld
        BY <1>4, RebuiltFromTheTree, RootCovers DEF HeldBy
    <2>4. /\ rebuilt' \in [Observations -> Nat] /\ lists' \in Lists
          /\ \A n \in Spatial!Nodes, o \in Observations : ~(lists'[n][o] > 0)
        BY <1>4, RebuiltFromTheTree
    <2> QED BY <2>1, <2>2, <2>3, <2>4 DEF Lists
<1>5. ASSUME Spatial!PruneEnd PROVE SpatialInv'
    <2>1. \A o \in Observations : rebuilt[o] = 0
        BY <1>5 DEF Spatial!PruneEnd, Spatial!None
    <2> QED BY <1>5, <2>1 DEF Spatial!PruneEnd, Spatial!Contains
<1>6. CASE UNCHANGED Spatial!vars
    BY <1>6 DEF Spatial!vars, Spatial!Contains
<1> QED BY <1>1, <1>2, <1>3, <1>4, <1>5, <1>6 DEF Spatial!Next

LEMMA SpatialInitInv == ASSUME Spatial!Init PROVE SpatialInv
<1>1. lists = [n \in Spatial!Nodes |-> [o \in Observations |-> 0]]
      /\ rebuilt = [o \in Observations |-> 0]
    BY DEF Spatial!Init, Spatial!Empty, Spatial!None
<1>2. 0 \in 0..MaxRebuilds
    BY SpatialAssumption
<1>3. Spatial!TypeOK
    <2>1. /\ lists \in [Spatial!Nodes -> [Observations -> Nat]]
          /\ rebuilt \in [Observations -> Nat]
        BY <1>1
    <2>2. split = {} /\ seen = {} /\ expired = {} /\ rebuilds = 0 /\ locked = FALSE
        BY DEF Spatial!Init
    <2> QED BY <1>2, <2>1, <2>2 DEF Spatial!TypeOK
<1>4. \A o \in Observations : rebuilt[o] = 0 /\ \A n \in Spatial!Nodes : lists[n][o] = 0
    BY <1>1
<1> QED BY <1>3, <1>4 DEF SpatialInv

LEMMA SpatialStaysInv == Spatial!Spec => []SpatialInv
<1>1. SpatialInv /\ [Spatial!Next]_(Spatial!vars) => SpatialInv'
    BY SpatialNextKeeps
<1>2. Spatial!Init => SpatialInv
    BY SpatialInitInv
<1> QED BY <1>1, <1>2, PTL DEF Spatial!Spec

-----------------------------------------------------------------------------
(* What a query goes into.                                                   *)
LEMMA HolderIsReached ==
    ASSUME NEW n \in Spatial!Nodes, NEW o \in Observations, Spatial!Contains(n, o),
           NEW x \in Int, NEW r \in Int, Spatial!Distance(At[o], x) <= r
    PROVE  n \in Spatial!Reached(x, r)
<1>1. SUFFICES ASSUME NEW m \in Spatial!Nodes, Spatial!Distance(m[1], n[1]) < m[2]
               PROVE  Spatial!Overlaps(m, x, r)
    BY DEF Spatial!Reached
<1>2. /\ m \in Places /\ m[2] > 0 /\ Nested(m, n) /\ n \in Places /\ n[2] > 0
    BY NodesLaminar
<1>3. /\ m[1] \in Int /\ m[2] \in Int /\ n[1] \in Int /\ n[2] \in Int /\ At[o] \in Int
    BY <1>2, SpatialAssumption DEF Places
<1>4. n[1] - n[2] <= At[o] /\ At[o] <= n[1] + n[2]
    BY <1>2, CoversBetween
<1>5. m[1] - n[1] < m[2] /\ n[1] - m[1] < m[2]
    BY <1>1, <1>3 DEF Spatial!Distance
<1>6. ~InHalf(m, n) /\ ~Beside(m, n)
    BY <1>2, <1>3, <1>5 DEF InHalf, Beside
<1>7. m[1] - m[2] <= At[o] /\ At[o] <= m[1] + m[2]
    <2>1. CASE m = n
        BY <1>4, <2>1
    <2>2. CASE InHalf(n, m)
        BY <1>2, <1>3, <1>4, <2>2 DEF InHalf
    <2> QED BY <1>2, <1>6, <2>1, <2>2 DEF Nested
<1>8. At[o] - x <= r /\ x - At[o] <= r
    BY <1>3 DEF Spatial!Distance
<1> QED BY <1>3, <1>7, <1>8 DEF Spatial!Overlaps

LEMMA InvFinds == ASSUME SpatialInv PROVE Spatial!SphereIsExact
<1>1. SUFFICES ASSUME NEW x \in Centres, NEW r \in Radii
               PROVE  Spatial!Found(x, r) =
                        {o \in Observations : Spatial!Copies(o) > 0
                                              /\ Spatial!Distance(At[o], x) <= r}
    BY DEF Spatial!SphereIsExact
<1>2. x \in Int /\ r \in Int
    BY SpatialAssumption
<1>3. ASSUME NEW o \in Observations PROVE Spatial!Copies(o) > 0 <=> HeldBy(lists, o)
    BY CopiesAre DEF SpatialInv, Spatial!TypeOK, Lists, Counted, HeldBy
<1>4. ASSUME NEW o \in Observations, Spatial!Distance(At[o], x) <= r
      PROVE  HeldBy(lists, o) <=> \E n \in Spatial!Reached(x, r) : lists[n][o] > 0
    <2>1. ASSUME NEW n \in Spatial!Nodes, lists[n][o] > 0 PROVE n \in Spatial!Reached(x, r)
        BY <1>2, <1>4, <2>1, HolderIsReached DEF SpatialInv
    <2>2. Spatial!Reached(x, r) \subseteq Spatial!Nodes
        BY DEF Spatial!Reached
    <2> QED BY <2>1, <2>2 DEF HeldBy
<1> QED BY <1>3, <1>4 DEF Spatial!Found

(* A sphere query finds every observation held within its radius, whatever   *)
(* its place in the tree, SphereIsExact: of two nodes one is in a half of    *)
(* the other or they are beside each other, so no node on the way to one     *)
(* that holds an observation is pruned.                                      *)
THEOREM QueriesAreExact == Spatial!Spec => []SphereIsExact
<1>1. SpatialInv => SphereIsExact
    BY InvFinds DEF SphereIsExact
<1> QED BY <1>1, SpatialStaysInv, PTL

-----------------------------------------------------------------------------
(* The index as a set.                                                       *)
InIndex == {o \in Observations : Spatial!Copies(o) + rebuilt[o] > 0}
Inside(all, again) == {o \in Observations : HeldBy(all, o) \/ again[o] > 0}

LEMMA InIndexAre == ASSUME SpatialInv PROVE InIndex = Inside(lists, rebuilt)
<1>1. ASSUME NEW o \in Observations
      PROVE  Spatial!Copies(o) + rebuilt[o] > 0 <=> HeldBy(lists, o) \/ rebuilt[o] > 0
    <2>1. Spatial!Copies(o) \in Nat /\ (Spatial!Copies(o) > 0 <=> HeldBy(lists, o))
        BY CopiesAre DEF SpatialInv, Spatial!TypeOK, Lists, Counted, HeldBy
    <2>2. rebuilt[o] \in Nat
        BY DEF SpatialInv, Spatial!TypeOK
    <2> QED BY <2>1, <2>2
<1> QED BY <1>1 DEF InIndex, Inside

LEMMA NextInIndexAre == ASSUME SpatialInv' PROVE InIndex' = Inside(lists', rebuilt')
<1>1. ASSUME NEW o \in Observations
      PROVE  Spatial!Copies(o)' + rebuilt'[o] > 0 <=> HeldBy(lists', o) \/ rebuilt'[o] > 0
    <2>1. Spatial!Copies(o)' \in Nat /\ (Spatial!Copies(o)' > 0 <=> HeldBy(lists', o))
        BY NextCopiesAre DEF SpatialInv, Spatial!TypeOK, Lists, Counted, HeldBy
    <2>2. rebuilt'[o] \in Nat
        BY DEF SpatialInv, Spatial!TypeOK
    <2> QED BY <2>1, <2>2
<1> QED BY <1>1 DEF InIndex, Inside

LEMMA InsertTakesIn ==
    ASSUME SpatialInv, SpatialInv', NEW o \in Observations, Spatial!Insert(o)
    PROVE  Spatial!Flat!TakeIn(o)
<1>1. Inside(lists', rebuilt') =
          IF o \in Spatial!InWorld THEN Inside(lists, rebuilt) \cup {o} ELSE Inside(lists, rebuilt)
    <2>1. \A p \in Observations :
              HeldBy(lists', p) <=> HeldBy(lists, p) \/ (p = o /\ o \in Spatial!InWorld)
        BY InsertedKeeps DEF Spatial!Insert
    <2>2. rebuilt' = rebuilt
        BY DEF Spatial!Insert
    <2> QED BY <2>1, <2>2 DEF Inside
<1>2. InIndex' = IF o \in Spatial!InWorld THEN InIndex \cup {o} ELSE InIndex
    BY <1>1, InIndexAre, NextInIndexAre
<1> QED BY <1>2 DEF Spatial!Insert, Spatial!Flat!TakeIn, InIndex

LEMMA PruneDropsOld ==
    ASSUME SpatialInv, SpatialInv', Spatial!PruneStart
    PROVE  Spatial!Flat!DropOld(expired)
<1>1. /\ \A o \in Observations : rebuilt'[o] > 0 <=> o \notin expired /\ HeldBy(lists, o)
      /\ \A n \in Spatial!Nodes, o \in Observations : ~(lists'[n][o] > 0)
    BY RebuiltFromTheTree
<1>2. \A o \in Observations : ~(rebuilt[o] > 0)
    BY DEF SpatialInv, Spatial!PruneStart
<1>3. Inside(lists', rebuilt') = Inside(lists, rebuilt) \ expired
    BY <1>1, <1>2 DEF Inside, HeldBy
<1>4. seen' = Inside(lists', rebuilt')
    BY <1>1 DEF Spatial!PruneStart, Inside, HeldBy
<1>5. InIndex' = InIndex \ expired /\ seen' = InIndex'
    BY <1>3, <1>4, InIndexAre, NextInIndexAre
<1> QED BY <1>5 DEF Spatial!Flat!DropOld, InIndex

LEMMA ReinsertKeepsTheSet ==
    ASSUME SpatialInv, SpatialInv', NEW o \in Observations, Spatial!Reinsert(o)
    PROVE  InIndex' = InIndex /\ seen' = seen
<1>1. /\ rebuilt[o] > 0 /\ Spatial!Inserted(o) /\ seen' = seen
      /\ rebuilt' = [rebuilt EXCEPT ![o] = @ - 1]
    BY DEF Spatial!Reinsert
<1>2. rebuilt \in [Observations -> Nat] /\ o \in Spatial!InWorld
    BY <1>1 DEF SpatialInv, Spatial!TypeOK
<1>3. \A p \in Observations :
          HeldBy(lists', p) <=> HeldBy(lists, p) \/ p = o
    BY <1>1, <1>2, InsertedKeeps
<1>4. \A p \in Observations : p # o => rebuilt'[p] = rebuilt[p]
    BY <1>1, <1>2
<1>5. Inside(lists', rebuilt') = Inside(lists, rebuilt)
    BY <1>1, <1>3, <1>4 DEF Inside
<1> QED BY <1>1, <1>5, InIndexAre, NextInIndexAre

LEMMA IndexStep ==
    ASSUME SpatialInv, SpatialInv', [Spatial!Next]_(Spatial!vars)
    PROVE  [Spatial!Flat!Next]_(Spatial!Flat!vars)
<1>1. ASSUME NEW o \in Observations, Spatial!Insert(o) PROVE Spatial!Flat!Next
    BY <1>1, InsertTakesIn DEF Spatial!Flat!Next
<1>2. ASSUME Spatial!PruneStart PROVE Spatial!Flat!Next
    <2>1. expired \in SUBSET Observations
        BY DEF SpatialInv, Spatial!TypeOK
    <2>2. PICK old \in SUBSET Observations : old = expired
        BY <2>1
    <2>3. Spatial!Flat!DropOld(old)
        <3>1. Spatial!Flat!DropOld(expired)
            BY <1>2, PruneDropsOld
        <3> QED BY <2>2, <3>1 DEF Spatial!Flat!DropOld
    <2> QED BY <2>3 DEF Spatial!Flat!Next
<1>3. ASSUME NEW o \in Observations, Spatial!Reinsert(o) PROVE UNCHANGED Spatial!Flat!vars
    <2>1. InIndex' = InIndex /\ seen' = seen
        BY <1>3, ReinsertKeepsTheSet
    <2> QED BY <2>1 DEF InIndex, Spatial!Flat!vars
<1>4. ASSUME UNCHANGED <<lists, rebuilt, seen>> PROVE UNCHANGED Spatial!Flat!vars
    <2>1. InIndex' = InIndex
        BY <1>4, InIndexAre, NextInIndexAre
    <2> QED BY <1>4, <2>1 DEF InIndex, Spatial!Flat!vars
<1>5. ASSUME NEW o \in Observations, Spatial!Age(o) PROVE UNCHANGED <<lists, rebuilt, seen>>
    BY <1>5 DEF Spatial!Age
<1>6. ASSUME Spatial!PruneEnd PROVE UNCHANGED <<lists, rebuilt, seen>>
    BY <1>6 DEF Spatial!PruneEnd
<1>7. ASSUME UNCHANGED Spatial!vars PROVE UNCHANGED <<lists, rebuilt, seen>>
    BY <1>7 DEF Spatial!vars
<1> QED BY <1>1, <1>2, <1>3, <1>4, <1>5, <1>6, <1>7 DEF Spatial!Next

LEMMA IndexInit == ASSUME Spatial!Init PROVE Spatial!Flat!Init
<1>1. SpatialInv
    BY SpatialInitInv
<1>2. \A o \in Observations : rebuilt[o] = 0 /\ \A n \in Spatial!Nodes : lists[n][o] = 0
    BY DEF Spatial!Init, Spatial!Empty, Spatial!None
<1>3. InIndex = {}
    BY <1>1, <1>2, InIndexAre DEF Inside, HeldBy
<1> QED BY <1>3 DEF InIndex, Spatial!Init, Spatial!Flat!Init

(* The octree implements ObservationSet, IndexIsASet: with its borders,      *)
(* splits and rebuilds it takes in, keeps and drops what a set does.         *)
THEOREM IndexActsAsASet == Spatial!Spec => IndexIsASet
<1>1. SpatialInv /\ SpatialInv' /\ [Spatial!Next]_(Spatial!vars)
        => [part = "spatial" => [Spatial!Flat!Next]_(Spatial!Flat!vars)]_spatialVars
    BY IndexStep
<1>2. Spatial!Init => Spatial!Flat!Init
    BY IndexInit
<1> QED BY <1>1, <1>2, SpatialStaysInv, PTL DEF Spatial!Spec, IndexIsASet

-----------------------------------------------------------------------------
(* The requests that an agent makes of its peers.                            *)
AllFacts == UNION {Facts[p] : p \in Asked}

AskingTypes ==
    /\ sort \in [Requested -> Asking!Sorts]
    /\ asked \in [Requested -> SUBSET Asked]
    /\ state \in [Requested -> {"new", "sending", "waiting", "returned"}]
    /\ unsent \in [Requested -> SUBSET Asked]
    /\ net \subseteq Requested \X Asked \X {"ask", "reply"}
    /\ results \in [Requested -> SUBSET (AllFacts \X Asked)]
    /\ replies \in [Requested -> Nat]

(* A peer a request has been sent to is asked by at most one envelope, or    *)
(* answers with one.                                                         *)
OneEnvelope(c) ==
    /\ \A p \in Asked : ~(<<c, p, "ask">> \in net /\ <<c, p, "reply">> \in net)
    /\ \A p \in Asked : \A k \in {"ask", "reply"} :
          <<c, p, k>> \in net => p \in asked[c] /\ p \notin unsent[c]
    /\ unsent[c] \subseteq asked[c]
    /\ state[c] = "new" => asked[c] = {}
    /\ state[c] = "sending" /\ sort[c] \in {"spatial", "event", "observation"} =>
          unsent[c] = Asked

(* The replies counted came from as many peers, who have nothing under way   *)
(* any more and, for a query, whose facts are all among the results.         *)
Answered(c, those) ==
    /\ those \subseteq asked[c] \ unsent[c]
    /\ Cardinality(those) = replies[c]
    /\ \A p \in those : \A k \in {"ask", "reply"} : <<c, p, k>> \notin net
    /\ Asking!Waits(c) =>
          \A p \in those : \A f \in Facts[p] : \E q \in Asked : <<f, q>> \in results[c]

(* No fact is there twice.                                                   *)
OneSource(c) ==
    \A f \in AllFacts : \A p, q \in Asked :
        <<f, p>> \in results[c] /\ <<f, q>> \in results[c] => p = q

CallInv(c) == OneEnvelope(c) /\ OneSource(c) /\ \E those \in SUBSET Asked : Answered(c, those)
AskingInv == AskingTypes /\ \A c \in Requested : CallInv(c)

-----------------------------------------------------------------------------
\* What a step does to a call it is not about, and to one it only takes
\* envelopes from or lets return.
Quiet(c) ==
    /\ asked'[c] = asked[c] /\ unsent'[c] = unsent[c]
    /\ results'[c] = results[c] /\ replies'[c] = replies[c] /\ sort' = sort
    /\ state'[c] = state[c] \/ state'[c] = "returned"
    /\ \A p \in Asked : \A k \in {"ask", "reply"} : <<c, p, k>> \in net' => <<c, p, k>> \in net

LEMMA QuietKeeps ==
    ASSUME AskingInv, NEW c \in Requested, Quiet(c)
    PROVE  CallInv(c)'
<1>1. OneEnvelope(c)'
    BY DEF AskingInv, CallInv, OneEnvelope, Quiet
<1>2. OneSource(c)'
    BY DEF AskingInv, CallInv, OneSource, Quiet
<1>3. PICK those \in SUBSET Asked : Answered(c, those)
    BY DEF AskingInv, CallInv
<1>4. Answered(c, those)'
    BY <1>3 DEF Answered, Quiet, Asking!Waits
<1> QED BY <1>1, <1>2, <1>4 DEF CallInv

LEMMA OthersQuiet ==
    ASSUME AskingInv, NEW c \in Requested, \A d \in Requested \ {c} : Quiet(d), CallInv(c)',
           AskingTypes'
    PROVE  AskingInv'
BY QuietKeeps DEF AskingInv

-----------------------------------------------------------------------------
LEMMA StartKeeps ==
    ASSUME AskingInv, NEW c \in Requested, Asking!Start(c)
    PROVE  AskingInv'
<1>1. PICK to \in SUBSET Asked :
          /\ Asking!Begin(c, to)
          /\ sort[c] \in {"spatial", "event", "observation"} => to = Asked
    BY DEF Asking!Start, Asking!Query, Asking!QuerySphere, Asking!DispatchRender,
           Asking!DispatchSceneRequest, Asking!PublishMotionEvent, Asking!PublishObservation
<1>2. /\ state[c] = "new"
      /\ asked' = [asked EXCEPT ![c] = to] /\ unsent' = [unsent EXCEPT ![c] = to]
      /\ state' = [state EXCEPT ![c] = "sending"]
      /\ sort' = sort /\ net' = net /\ results' = results /\ replies' = replies
    BY <1>1 DEF Asking!Begin
<1>3. AskingTypes'
    BY <1>2 DEF AskingInv, AskingTypes
<1>4. asked'[c] = to /\ unsent'[c] = to /\ state'[c] = "sending"
    BY <1>2 DEF AskingInv, AskingTypes
<1>5. /\ asked[c] = {}
      /\ \A p \in Asked : \A k \in {"ask", "reply"} : <<c, p, k>> \notin net
    BY <1>2 DEF AskingInv, CallInv, OneEnvelope
<1>6. OneEnvelope(c)'
    BY <1>1, <1>2, <1>4, <1>5 DEF OneEnvelope
<1>7. OneSource(c)'
    BY <1>2 DEF AskingInv, CallInv, OneSource
<1>8. PICK those \in SUBSET Asked : Answered(c, those)
    BY DEF AskingInv, CallInv
<1>9. Answered(c, those)'
    <2>1. those = {}
        BY <1>5, <1>8 DEF Answered
    <2> QED BY <1>2, <1>8, <2>1 DEF Answered
<1>10. CallInv(c)'
    BY <1>6, <1>7, <1>9 DEF CallInv
<1>11. \A d \in Requested \ {c} : Quiet(d)
    BY <1>2 DEF AskingInv, AskingTypes, Quiet
<1> QED BY <1>3, <1>10, <1>11, OthersQuiet

(* Some peers that were not sent to are asked, or the host takes the ask.    *)
LEMMA SentKeeps ==
    ASSUME AskingInv, NEW c \in Requested, NEW to \in SUBSET Asked, NEW news \in SUBSET Asked,
           to \subseteq unsent[c], news \subseteq to,
           sort[c] \in {"spatial", "event", "observation"} => to = Asked,
           Asking!SentTo(c, to),
           net' = net \cup {<<c, p, "ask">> : p \in news},
           UNCHANGED <<sort, asked, results, replies>>
    PROVE  AskingInv'
<1>1. /\ unsent' = [unsent EXCEPT ![c] = @ \ to] /\ unsent'[c] = unsent[c] \ to
      /\ \A d \in Requested \ {c} : unsent'[d] = unsent[d]
    BY DEF AskingInv, AskingTypes, Asking!SentTo
<1>2. PICK s \in {"sending", "waiting", "returned"} :
          state' = [state EXCEPT ![c] = s] /\ (s = "sending" => unsent'[c] # {})
    BY DEF Asking!SentTo
<1>3. AskingTypes'
    BY <1>1, <1>2 DEF AskingInv, AskingTypes
<1>4. state'[c] = s
    BY <1>2 DEF AskingInv, AskingTypes
<1>5. \A p \in Asked : <<c, p, "reply">> \in net' => <<c, p, "reply">> \in net
    OBVIOUS
<1>6. \A p \in Asked : <<c, p, "ask">> \in net' => <<c, p, "ask">> \in net \/ p \in news
    OBVIOUS
<1>7. OneEnvelope(c)'
    <2>1. OneEnvelope(c) /\ unsent[c] \subseteq Asked
        BY DEF AskingInv, AskingTypes, CallInv
    <2>2. \A p \in Asked : ~(<<c, p, "ask">> \in net' /\ <<c, p, "reply">> \in net')
        BY <1>5, <1>6, <2>1 DEF OneEnvelope
    <2>3. \A p \in Asked : \A k \in {"ask", "reply"} :
              <<c, p, k>> \in net' => p \in asked'[c] /\ p \notin unsent'[c]
        BY <1>1, <1>5, <1>6, <2>1 DEF OneEnvelope
    <2>4. unsent'[c] \subseteq asked'[c] /\ state'[c] # "new"
        BY <1>1, <1>4, <2>1 DEF OneEnvelope
    <2>5. sort[c] \in {"spatial", "event", "observation"} => state'[c] # "sending"
        BY <1>1, <1>2, <1>4, <2>1
    <2> QED BY <2>2, <2>3, <2>4, <2>5 DEF OneEnvelope
<1>8. OneSource(c)'
    BY DEF AskingInv, CallInv, OneSource
<1>9. PICK those \in SUBSET Asked : Answered(c, those)
    BY DEF AskingInv, CallInv
<1>10. Answered(c, those)'
    BY <1>1, <1>5, <1>6, <1>9 DEF Answered, Asking!Waits
<1>11. CallInv(c)'
    BY <1>7, <1>8, <1>10 DEF CallInv
<1>12. \A d \in Requested \ {c} : Quiet(d)
    BY <1>1, <1>2 DEF AskingInv, AskingTypes, Quiet
<1> QED BY <1>3, <1>11, <1>12, OthersQuiet

LEMMA SendToKeeps ==
    ASSUME AskingInv, NEW c \in Requested, NEW p \in Asked, Asking!SendTo(c, p)
    PROVE  AskingInv'
<1>1. /\ sort[c] \in {"memory", "render", "scene"} /\ p \in unsent[c] /\ Asking!SentTo(c, {p})
      /\ UNCHANGED <<sort, asked, results, replies>>
    BY DEF Asking!SendTo
<1>2. PICK news \in SUBSET {p} : net' = net \cup {<<c, q, "ask">> : q \in news}
    <2>1. net' = net \/ net' = net \cup {<<c, p, "ask">>}
        BY DEF Asking!SendTo
    <2>2. net = net \cup {<<c, q, "ask">> : q \in {}}
        OBVIOUS
    <2>3. {<<c, p, "ask">>} = {<<c, q, "ask">> : q \in {p}}
        OBVIOUS
    <2> QED BY <2>1, <2>2, <2>3
<1> QED BY <1>1, <1>2, SentKeeps

LEMMA SendToAllKeeps ==
    ASSUME AskingInv, NEW c \in Requested, Asking!SendToAll(c)
    PROVE  AskingInv'
<1>1. unsent[c] = Asked
    BY DEF AskingInv, CallInv, OneEnvelope, Asking!SendToAll
<1> QED BY <1>1, SentKeeps DEF Asking!SendToAll

-----------------------------------------------------------------------------
LEMMA HandleKeeps ==
    ASSUME AskingInv, NEW c \in Requested, NEW p \in Asked, NEW answers,
           Asking!Handle(c, p, answers)
    PROVE  AskingInv'
<1>1. /\ <<c, p, "ask">> \in net
      /\ \A q \in net' : q \in net \/ q = <<c, p, "reply">>
      /\ <<c, p, "ask">> \notin net'
      /\ UNCHANGED <<sort, asked, state, unsent, results, replies>>
    BY DEF Asking!Handle, Asking!asking
<1>2. AskingTypes'
    BY <1>1 DEF AskingInv, AskingTypes
<1>3. OneEnvelope(c)'
    BY <1>1 DEF AskingInv, CallInv, OneEnvelope
<1>4. OneSource(c)'
    BY <1>1 DEF AskingInv, CallInv, OneSource
<1>5. PICK those \in SUBSET Asked : Answered(c, those)
    BY DEF AskingInv, CallInv
<1>6. Answered(c, those)'
    BY <1>1, <1>5 DEF Answered, Asking!Waits
<1>7. CallInv(c)'
    BY <1>3, <1>4, <1>6 DEF CallInv
<1>8. \A d \in Requested \ {c} : Quiet(d)
    BY <1>1 DEF Quiet
<1> QED BY <1>2, <1>7, <1>8, OthersQuiet

\* One more peer has answered.
LEMMA CountsOneMore ==
    ASSUME AskingInv, IsFiniteSet(Asked), NEW c \in Requested, NEW p \in Asked,
           <<c, p, "reply">> \in net, net' = net \ {<<c, p, "reply">>},
           replies' = [replies EXCEPT ![c] = @ + 1],
           UNCHANGED <<sort, asked, state, unsent>>,
           results[c] \subseteq results'[c],
           Asking!Waits(c) => \A f \in Facts[p] : \E q \in Asked : <<f, q>> \in results'[c]
    PROVE  OneEnvelope(c)' /\ \E those \in SUBSET Asked : Answered(c, those)'
<1>1. OneEnvelope(c)'
    BY DEF AskingInv, CallInv, OneEnvelope
<1>2. PICK those \in SUBSET Asked : Answered(c, those)
    BY DEF AskingInv, CallInv
<1>3. PICK more \in SUBSET Asked : more = those \cup {p}
    OBVIOUS
<1>4. p \notin those /\ <<c, p, "ask">> \notin net' /\ p \in asked[c] \ unsent[c]
    BY <1>2 DEF Answered, AskingInv, CallInv, OneEnvelope
<1>5. Cardinality(more) = replies'[c]
    <2>1. IsFiniteSet(those)
        BY FS_Subset
    <2>2. Cardinality(more) = Cardinality(those) + 1
        BY <1>3, <1>4, <2>1, FS_AddElement
    <2> QED BY <1>2, <2>2 DEF Answered, AskingInv, AskingTypes
<1>6. \A q \in more : \A k \in {"ask", "reply"} : <<c, q, k>> \notin net'
    BY <1>2, <1>3, <1>4 DEF Answered
<1>7. Asking!Waits(c)' =>
          \A r \in more : \A f \in Facts[r] : \E q \in Asked : <<f, q>> \in results'[c]
    BY <1>2, <1>3 DEF Answered, Asking!Waits
<1>8. Answered(c, more)'
    BY <1>2, <1>3, <1>4, <1>5, <1>6, <1>7 DEF Answered
<1> QED BY <1>1, <1>8

LEMMA CollectedKeeps ==
    ASSUME AskingInv, IsFiniteSet(Asked), NEW c \in Requested, NEW p \in Asked,
           Asking!Collected(c, p)
    PROVE  AskingInv'
<1>1. /\ <<c, p, "reply">> \in net /\ net' = net \ {<<c, p, "reply">>}
      /\ UNCHANGED <<sort, asked, state, unsent>>
    BY DEF Asking!Collected
<1>2. CASE state[c] = "returned"
    <2>1. UNCHANGED <<results, replies>>
        BY <1>2 DEF Asking!Collected
    <2>2. AskingTypes'
        BY <1>1, <2>1 DEF AskingInv, AskingTypes
    <2>3. \A d \in Requested : Quiet(d)
        BY <1>1, <2>1 DEF Quiet
    <2> QED BY <2>2, <2>3, QuietKeeps DEF AskingInv
<1>3. CASE state[c] # "returned"
    <2>1. PICK merged : merged = Asking!Merged(c, p)
        OBVIOUS
    <2>2. /\ results' = [results EXCEPT ![c] = merged]
          /\ replies' = [replies EXCEPT ![c] = @ + 1]
        BY <1>3, <2>1 DEF Asking!Collected
    <2>3. /\ \A q \in Asked : \A f \in AllFacts : <<f, q>> \in merged =>
                \/ <<f, q>> \in results[c]
                \/ q = p /\ \A r \in Asked : <<f, r>> \notin results[c]
          /\ results[c] \subseteq merged /\ merged \subseteq AllFacts \X Asked
          /\ \A f \in Facts[p] : \E q \in Asked : <<f, q>> \in merged
        <3>1. results[c] \subseteq AllFacts \X Asked /\ Facts[p] \subseteq AllFacts
            BY DEF AskingInv, AskingTypes, AllFacts
        <3> QED BY <2>1, <3>1 DEF Asking!Merged
    <2>4. AskingTypes'
        BY <1>1, <2>2, <2>3 DEF AskingInv, AskingTypes
    <2>5. results'[c] = merged
        BY <2>2 DEF AskingInv, AskingTypes
    <2>6. OneSource(c)'
        BY <2>3, <2>5 DEF AskingInv, CallInv, OneSource
    <2>7. OneEnvelope(c)' /\ \E those \in SUBSET Asked : Answered(c, those)'
        BY <1>1, <2>2, <2>3, <2>5, CountsOneMore
    <2>8. CallInv(c)'
        BY <2>6, <2>7 DEF CallInv
    <2>9. \A d \in Requested \ {c} : Quiet(d)
        BY <1>1, <2>2 DEF AskingInv, AskingTypes, Quiet
    <2> QED BY <2>4, <2>8, <2>9, OthersQuiet
<1> QED BY <1>2, <1>3

LEMMA ReceivedKeeps ==
    ASSUME AskingInv, IsFiniteSet(Asked), NEW c \in Requested, NEW p \in Asked,
           Asking!Received(c, p), ~Asking!Waits(c)
    PROVE  AskingInv'
<1>1. /\ <<c, p, "reply">> \in net /\ net' = net \ {<<c, p, "reply">>}
      /\ replies' = [replies EXCEPT ![c] = @ + 1]
      /\ UNCHANGED <<sort, asked, state, unsent, results>>
    BY DEF Asking!Received
<1>2. AskingTypes'
    BY <1>1 DEF AskingInv, AskingTypes
<1>3. OneSource(c)'
    BY <1>1 DEF AskingInv, CallInv, OneSource
<1>4. OneEnvelope(c)' /\ \E those \in SUBSET Asked : Answered(c, those)'
    BY <1>1, CountsOneMore
<1>5. CallInv(c)'
    BY <1>3, <1>4 DEF CallInv
<1>6. \A d \in Requested \ {c} : Quiet(d)
    BY <1>1 DEF AskingInv, AskingTypes, Quiet
<1> QED BY <1>2, <1>5, <1>6, OthersQuiet

LEMMA ArriveKeeps ==
    ASSUME AskingInv, IsFiniteSet(Asked), NEW c \in Requested, NEW p \in Asked,
           Asking!Arrive(c, p)
    PROVE  AskingInv'
<1>1. CASE \E answers \in BOOLEAN : Asking!Handle(c, p, answers)
    BY <1>1, HandleKeeps
<1>2. CASE Asking!Collected(c, p)
    BY <1>2, CollectedKeeps
<1>3. CASE Asking!Received(c, p) /\ ~Asking!Waits(c)
    BY <1>3, ReceivedKeeps
<1> QED
    BY <1>1, <1>2, <1>3
    DEF Asking!Arrive, Asking!Answer, Asking!HandleQuery, Asking!InboundRender,
        Asking!InboundScene, Asking!InboundMotionEvent, Asking!HandleObservation,
        Asking!Placing, Asking!Collect, Asking!HandleResponse, Asking!RenderResult,
        Asking!InboundSceneResult, Asking!Waits

LEMMA ReturnKeeps ==
    ASSUME AskingInv, NEW c \in Requested, Asking!Return(c) \/ Asking!Deadline(c)
    PROVE  AskingInv'
<1>1. /\ state' = [state EXCEPT ![c] = "returned"]
      /\ UNCHANGED <<sort, asked, unsent, results, replies, net>>
    BY DEF Asking!Return, Asking!Deadline
<1>2. AskingTypes'
    BY <1>1 DEF AskingInv, AskingTypes
<1>3. \A d \in Requested : Quiet(d)
    BY <1>1 DEF AskingInv, AskingTypes, Quiet
<1> QED BY <1>2, <1>3, QuietKeeps DEF AskingInv

LEMMA AskingNextKeeps ==
    ASSUME AskingInv, IsFiniteSet(Asked), [Asking!Next]_(Asking!vars)
    PROVE  AskingInv'
<1>1. ASSUME NEW m \in net, Asking!Lose(m) PROVE AskingInv'
    <2>1. net' \subseteq net /\ UNCHANGED <<sort, asked, state, unsent, results, replies>>
        BY <1>1 DEF Asking!Lose, Asking!asking
    <2>2. AskingTypes'
        BY <2>1 DEF AskingInv, AskingTypes
    <2>3. \A d \in Requested : Quiet(d)
        BY <2>1 DEF Quiet
    <2> QED BY <2>2, <2>3, QuietKeeps DEF AskingInv
<1>2. CASE UNCHANGED Asking!vars
    <2>1. UNCHANGED <<sort, asked, state, unsent, results, replies, net>>
        BY <1>2 DEF Asking!vars, Asking!asking
    <2>2. AskingTypes'
        BY <2>1 DEF AskingInv, AskingTypes
    <2>3. \A d \in Requested : Quiet(d)
        BY <2>1 DEF Quiet
    <2> QED BY <2>2, <2>3, QuietKeeps DEF AskingInv
<1> QED
    BY <1>1, <1>2, StartKeeps, SendToKeeps, SendToAllKeeps, ArriveKeeps, ReturnKeeps
    DEF Asking!Next

LEMMA AskingInitInv == ASSUME Asking!Init PROVE AskingInv
<1>1. AskingTypes
    BY DEF Asking!Init, AskingTypes
<1>2. ASSUME NEW c \in Requested PROVE CallInv(c)
    <2>1. OneEnvelope(c) /\ OneSource(c)
        BY DEF Asking!Init, OneEnvelope, OneSource
    <2>2. Answered(c, {})
        BY FS_EmptySet DEF Asking!Init, Answered
    <2> QED BY <2>1, <2>2 DEF CallInv
<1> QED BY <1>1, <1>2 DEF AskingInv

LEMMA AskingStaysInv == ASSUME IsFiniteSet(Asked) PROVE Asking!Spec => []AskingInv
<1>1. Asking!Init => AskingInv
    BY AskingInitInv
<1>2. AskingInv /\ [Asking!Next]_(Asking!vars) => AskingInv'
    BY AskingNextKeeps
<1> QED BY <1>1, <1>2, PTL DEF Asking!Spec

-----------------------------------------------------------------------------
LEMMA SameCount == \A S : Asking!Cardinality(S) = Cardinality(S)
BY DEF Cardinality, Asking!Cardinality

LEMMA AllAnswered ==
    ASSUME AskingInv, IsFiniteSet(Asked), NEW c \in Requested, sort[c] = "memory",
           replies[c] = Asking!Expected(c)
    PROVE  \A p \in asked[c] : \A f \in Facts[p] : \E q \in Asked : <<f, q>> \in results[c]
<1>1. PICK those \in SUBSET Asked : Answered(c, those)
    BY DEF AskingInv, CallInv
<1>2. those \subseteq asked[c] /\ Cardinality(those) = Cardinality(asked[c])
    BY <1>1, SameCount DEF Answered, Asking!Expected
<1>3. asked[c] \in SUBSET Asked
    BY DEF AskingInv, AskingTypes
<1>4. IsFiniteSet(asked[c])
    BY <1>3, FS_Subset
<1>5. those = asked[c]
    BY <1>2, <1>4, FS_Subset
<1> QED BY <1>1, <1>5 DEF Answered, Asking!Waits

(* MeshQuery.query returns with a reply from every peer it was meant for     *)
(* only with every fact of theirs, and each fact once, however the sends,    *)
(* replies and losses of any number of calls and peers interleave.           *)
THEOREM AnswersInFull ==
    ASSUME IsFiniteSet(Asked) PROVE Asking!Spec => []FullAnswer
<1>1. AskingInv => FullAnswer
    <2>1. SUFFICES ASSUME AskingInv, NEW c \in Requested, sort[c] = "memory",
                          replies[c] = Asking!Expected(c),
                          NEW f \in UNION {Facts[p] : p \in asked[c]}
                   PROVE  Asking!Cardinality({p \in Asked : <<f, p>> \in results[c]}) = 1
        BY DEF FullAnswer, Asking!FullAnswer
    <2>2. asked[c] \subseteq Asked
        BY <2>1 DEF AskingInv, AskingTypes
    <2>3. PICK q \in Asked : <<f, q>> \in results[c]
        BY <2>1, AllAnswered
    <2>4. f \in AllFacts
        BY <2>1, <2>2 DEF AllFacts
    <2>5. {p \in Asked : <<f, p>> \in results[c]} = {q}
        BY <2>1, <2>3, <2>4 DEF AskingInv, CallInv, OneSource
    <2> QED BY <2>5, SameCount, FS_Singleton
<1> QED BY <1>1, AskingStaysInv, PTL

-----------------------------------------------------------------------------
(* The audit trail, and the dashboard's pages that follow it.                *)
Page(given) ==
    [at : {"gone", "registered", "live"}, queue : Seq(Nat), got : {given},
     due : SUBSET (Nat \ {0}), full : BOOLEAN]

PagesTyped ==
    /\ IsFiniteSet(made)
    /\ notify \in [Threads -> [at : {"idle", "ring", "fanout"}, hash : Nat]]
    /\ following \in BOOLEAN
    /\ DOMAIN client = Clients
    /\ \A c \in Clients : \E given : client[c] \in Page(given)

(* Why ClientsMissNothing is not inductive: it does not say that a page is   *)
(* owed nothing when it connects, that a page that has not been given the    *)
(* ring yet is owed what it was not told, and that a thread which skips the  *)
(* ring skips no page.                                                       *)
Covered(c) ==
    client[c].at # "gone" /\ ~client[c].full =>
        \A n \in client[c].due : \/ n \in client[c].got \/ n \in Trail!ToSet(client[c].queue)
                                 \/ \E t \in Threads : notify[t].hash = n
PagesServed ==
    /\ \A t \in Threads : notify[t].at = "idle" => notify[t].hash = 0
    /\ ~following => \A c \in Clients : client[c].at = "gone"
    /\ \A c \in Clients : client[c].at = "gone" => client[c].due = {}
    /\ \A c \in Clients : Covered(c)

TrailInv == PagesTyped /\ PagesServed

-----------------------------------------------------------------------------
LEMMA GoneIs ==
    /\ Trail!Gone \in Page({})
    /\ Trail!Gone.at = "gone" /\ Trail!Gone.due = {}
BY EmptySeq DEF Trail!Gone, Page

LEMMA Appended ==
    ASSUME NEW s \in Seq(Nat), NEW n \in Nat
    PROVE  /\ Append(s, n) \in Seq(Nat)
           /\ n \in Trail!ToSet(Append(s, n)) /\ Trail!ToSet(s) \subseteq Trail!ToSet(Append(s, n))
<1>1. /\ Append(s, n) \in Seq(Nat) /\ Len(Append(s, n)) = Len(s) + 1
      /\ \A i \in 1..Len(s) : Append(s, n)[i] = s[i]
      /\ Append(s, n)[Len(s) + 1] = n
    BY AppendProperties
<1>2. DOMAIN Append(s, n) = 1..Len(s) + 1 /\ DOMAIN s = 1..Len(s) /\ Len(s) \in Nat
    BY <1>1
<1> QED BY <1>1, <1>2 DEF Trail!ToSet

LEMMA HeadOrTail ==
    ASSUME NEW s \in Seq(Nat), s # <<>>
    PROVE  /\ Tail(s) \in Seq(Nat)
           /\ \A n \in Trail!ToSet(s) : n = Head(s) \/ n \in Trail!ToSet(Tail(s))
<1>1. /\ Tail(s) \in Seq(Nat) /\ Len(Tail(s)) = Len(s) - 1
      /\ \A j \in 1..Len(Tail(s)) : Tail(s)[j] = s[j + 1]
    BY HeadTailProperties
<1>2. SUFFICES ASSUME NEW i \in 1..Len(s)
               PROVE  s[i] = Head(s) \/ s[i] \in Trail!ToSet(Tail(s))
    BY <1>1 DEF Trail!ToSet
<1>3. CASE i # 1
    <2>1. i - 1 \in DOMAIN Tail(s) /\ Tail(s)[i - 1] = s[i]
        BY <1>1, <1>2, <1>3
    <2> QED BY <2>1 DEF Trail!ToSet
<1>4. CASE i = 1
    BY <1>4
<1> QED BY <1>3, <1>4

\* Everybody's page is gone: a dashboard that stops, a process that ends.
LEMMA AllGone ==
    ASSUME TrailInv, client' = [c \in Clients |-> Trail!Gone], made' = made,
           \/ notify' = notify
           \/ notify' = [t \in Threads |-> Trail!Quiet],
           following' \in BOOLEAN
    PROVE  TrailInv'
<1>1. notify' \in [Threads -> [at : {"idle", "ring", "fanout"}, hash : Nat]]
    BY DEF TrailInv, PagesTyped, Trail!Quiet
<1>2. \A t \in Threads : notify'[t].at = "idle" => notify'[t].hash = 0
    BY DEF TrailInv, PagesServed, Trail!Quiet
<1>3. \A c \in Clients : client'[c] = Trail!Gone
    OBVIOUS
<1>4. PagesTyped'
    BY <1>1, <1>3, GoneIs DEF TrailInv, PagesTyped
<1>5. PagesServed'
    BY <1>2, <1>3, GoneIs DEF PagesServed, Covered
<1> QED BY <1>4, <1>5 DEF TrailInv

LEMMA AppendRecordKeeps ==
    ASSUME TrailInv, NEW t \in Threads, Trail!AppendRecord(t)
    PROVE  TrailInv'
<1>1. PICK n : n = Trail!Cardinality(made) + 1
    OBVIOUS
<1>2. n \in Nat \ {0}
    <2>1. Trail!Cardinality(made) = Cardinality(made)
        BY DEF Cardinality, Trail!Cardinality
    <2>2. Cardinality(made) \in Nat
        BY FS_CardinalityType DEF TrailInv, PagesTyped
    <2> QED BY <1>1, <2>1, <2>2
<1>3. /\ notify[t].at = "idle"
      /\ notify' = [notify EXCEPT ![t] = [at |-> "ring", hash |-> n]]
      /\ client' = [c \in Clients |-> IF client[c].at = "gone" THEN Trail!Gone
                                      ELSE [client[c] EXCEPT !.due = @ \cup {n}]]
      /\ following' = following /\ \E record : made' = made \cup {record}
    BY <1>1 DEF Trail!AppendRecord
<1>4. /\ notify' \in [Threads -> [at : {"idle", "ring", "fanout"}, hash : Nat]]
      /\ notify'[t].at = "ring" /\ notify'[t].hash = n
      /\ \A u \in Threads \ {t} : notify'[u] = notify[u]
      /\ notify[t].hash = 0
    BY <1>2, <1>3 DEF TrailInv, PagesTyped, PagesServed
<1>5. IsFiniteSet(made')
    <2>1. PICK record : made' = made \cup {record}
        BY <1>3
    <2>2. IsFiniteSet(made)
        BY DEF TrailInv, PagesTyped
    <2> QED BY <2>1, <2>2, FS_AddElement
<1>6. ASSUME NEW c \in Clients, client[c].at = "gone"
      PROVE  client'[c] = Trail!Gone
    BY <1>3, <1>6
<1>7. ASSUME NEW c \in Clients, client[c].at # "gone"
      PROVE  /\ \E given : client'[c] \in Page(given)
             /\ client'[c].at # "gone" /\ Covered(c)'
    <2>1. PICK given : client[c] \in Page(given)
        BY DEF TrailInv, PagesTyped
    <2>2. client'[c] = [client[c] EXCEPT !.due = @ \cup {n}]
        BY <1>3, <1>7
    <2>3. /\ client'[c] \in Page(given)
          /\ client'[c].at = client[c].at /\ client'[c].full = client[c].full
          /\ client'[c].got = client[c].got /\ client'[c].queue = client[c].queue
          /\ client'[c].due = client[c].due \cup {n} /\ 0 \notin client[c].due
        BY <1>2, <2>1, <2>2 DEF Page
    <2>4. Covered(c)
        BY DEF TrailInv, PagesServed
    <2> QED BY <1>4, <1>7, <2>3, <2>4 DEF Covered, Trail!ToSet
<1>8. PagesTyped'
    BY <1>3, <1>4, <1>5, <1>6, <1>7, GoneIs DEF TrailInv, PagesTyped
<1>9. PagesServed'
    BY <1>3, <1>4, <1>6, <1>7, GoneIs DEF TrailInv, PagesServed, Covered
<1> QED BY <1>8, <1>9 DEF TrailInv

LEMMA IntoRingKeeps ==
    ASSUME TrailInv, NEW t \in Threads, Trail!IntoRing(t)
    PROVE  TrailInv'
<1>1. UNCHANGED <<made, following, client>>
    BY DEF Trail!IntoRing, Trail!log
<1>2. CASE following
    <2>1. notify' = [notify EXCEPT ![t].at = "fanout"]
        BY <1>2 DEF Trail!IntoRing
    <2>2. /\ notify' \in [Threads -> [at : {"idle", "ring", "fanout"}, hash : Nat]]
          /\ \A u \in Threads : notify'[u].hash = notify[u].hash
          /\ \A u \in Threads : notify'[u].at = "idle" => notify[u].at = "idle"
        BY <2>1 DEF TrailInv, PagesTyped
    <2>3. \A c \in Clients : Covered(c)'
        BY <1>1, <2>2 DEF TrailInv, PagesServed, Covered, Trail!ToSet
    <2> QED BY <1>1, <2>2, <2>3 DEF TrailInv, PagesTyped, PagesServed
<1>3. CASE ~following
    <2>1. notify' = [notify EXCEPT ![t] = Trail!Quiet]
        BY <1>3 DEF Trail!IntoRing
    <2>2. /\ notify' \in [Threads -> [at : {"idle", "ring", "fanout"}, hash : Nat]]
          /\ \A u \in Threads : notify'[u].at = "idle" => notify'[u].hash = 0
        BY <2>1 DEF TrailInv, PagesTyped, PagesServed, Trail!Quiet
    <2>3. \A c \in Clients : client'[c].at = "gone"
        BY <1>1, <1>3 DEF TrailInv, PagesServed
    <2> QED BY <1>1, <2>2, <2>3 DEF TrailInv, PagesTyped, PagesServed, Covered
<1> QED BY <1>2, <1>3

LEMMA FanoutKeeps ==
    ASSUME TrailInv, NEW t \in Threads, Trail!Fanout(t)
    PROVE  TrailInv'
<1>1. PICK n \in Nat : n = notify[t].hash
    BY DEF TrailInv, PagesTyped
<1>2. /\ notify' = [notify EXCEPT ![t] = Trail!Quiet]
      /\ UNCHANGED <<made, following>>
      /\ client' = [c \in Clients |->
            IF client[c].at = "gone" THEN client[c]
            ELSE IF Len(client[c].queue) >= QueueSize THEN [client[c] EXCEPT !.full = TRUE]
            ELSE [client[c] EXCEPT !.queue = Append(@, n)]]
    BY <1>1 DEF Trail!Fanout, Trail!Registered, Trail!log
<1>3. /\ notify' \in [Threads -> [at : {"idle", "ring", "fanout"}, hash : Nat]]
      /\ \A u \in Threads : notify'[u].at = "idle" => notify'[u].hash = 0
      /\ \A u \in Threads \ {t} : notify'[u] = notify[u]
    BY <1>2 DEF TrailInv, PagesTyped, PagesServed, Trail!Quiet
<1>4. ASSUME NEW c \in Clients
      PROVE  /\ \E given : client'[c] \in Page(given)
             /\ client'[c].at = client[c].at /\ client'[c].due = client[c].due
             /\ Covered(c)'
    <2>1. PICK given : client[c] \in Page(given)
        BY DEF TrailInv, PagesTyped
    <2>2. PICK s \in Seq(Nat) : s = client[c].queue
        BY <2>1 DEF Page
    <2>3. CASE client[c].at = "gone"
        BY <1>2, <2>1, <2>3 DEF Covered
    <2>4. CASE client[c].at # "gone" /\ client'[c] = [client[c] EXCEPT !.full = TRUE]
        BY <2>1, <2>4 DEF Page, Covered
    <2>5. CASE client[c].at # "gone" /\ client'[c] = [client[c] EXCEPT !.queue = Append(@, n)]
        <3>1. /\ Append(s, n) \in Seq(Nat) /\ n \in Trail!ToSet(Append(s, n))
              /\ Trail!ToSet(s) \subseteq Trail!ToSet(Append(s, n))
            BY Appended
        <3>2. /\ client'[c] \in Page(given)
              /\ client'[c].at = client[c].at /\ client'[c].full = client[c].full
              /\ client'[c].got = client[c].got /\ client'[c].due = client[c].due
              /\ client'[c].queue = Append(s, n)
            BY <2>1, <2>2, <2>5, <3>1 DEF Page
        <3>3. Covered(c)
            BY DEF TrailInv, PagesServed
        <3>4. Trail!ToSet(client[c].queue)' = Trail!ToSet(Append(s, n))
            BY <3>2 DEF Trail!ToSet
        <3>5. ASSUME NEW m \in client'[c].due, client'[c].at # "gone", ~client'[c].full
              PROVE  \/ m \in client'[c].got \/ m \in Trail!ToSet(client[c].queue)'
                     \/ \E u \in Threads : notify'[u].hash = m
            <4>1. \/ m \in client[c].got \/ m \in Trail!ToSet(s)
                  \/ \E u \in Threads : notify[u].hash = m
                BY <2>2, <3>2, <3>3, <3>5 DEF Covered
            <4>2. CASE \E u \in Threads : notify[u].hash = m
                BY <1>1, <1>3, <3>1, <3>4, <4>2
            <4> QED BY <3>1, <3>2, <3>4, <4>1, <4>2
        <3>6. Covered(c)'
            BY <3>5 DEF Covered
        <3> QED BY <3>2, <3>6
    <2> QED BY <1>2, <2>3, <2>4, <2>5
<1>5. PagesTyped'
    BY <1>2, <1>3, <1>4 DEF TrailInv, PagesTyped
<1>6. PagesServed'
    BY <1>2, <1>3, <1>4 DEF TrailInv, PagesServed
<1> QED BY <1>5, <1>6 DEF TrailInv

(* What a page's own handler does: it is told no less than before.           *)
LEMMA PageKeeps ==
    ASSUME TrailInv, NEW c \in Clients, NEW page,
           client' = [client EXCEPT ![c] = page],
           UNCHANGED <<made, notify, following>>,
           \E given : page \in Page(given),
           following \/ client[c].at # "gone" \/ page.at = "gone",
           page.at = "gone" => page.due = {},
           page.due \subseteq client[c].due, page.full = client[c].full \/ page.due = {},
           \A m \in page.due :
               m \in client[c].got \cup Trail!ToSet(client[c].queue) =>
                   m \in page.got \cup Trail!ToSet(page.queue)
    PROVE  TrailInv'
<1>1. /\ client'[c] = page /\ DOMAIN client' = Clients
      /\ \A d \in Clients \ {c} : client'[d] = client[d]
    BY DEF TrailInv, PagesTyped
<1>2. PagesTyped'
    BY <1>1 DEF TrailInv, PagesTyped
<1>3. Covered(c)'
    <2>1. SUFFICES ASSUME page.at # "gone", ~page.full, NEW n \in page.due
                   PROVE  \/ n \in page.got \/ n \in Trail!ToSet(page.queue)
                          \/ \E t \in Threads : notify[t].hash = n
        BY <1>1 DEF Covered, Trail!ToSet
    <2>2. client[c].at # "gone" /\ ~client[c].full
        BY <2>1 DEF TrailInv, PagesServed
    <2> QED BY <2>1, <2>2 DEF TrailInv, PagesServed, Covered
<1>4. \A d \in Clients \ {c} : Covered(d)'
    BY <1>1 DEF TrailInv, PagesServed, Covered, Trail!ToSet
<1>5. PagesServed'
    BY <1>1, <1>3, <1>4 DEF TrailInv, PagesServed
<1> QED BY <1>2, <1>5 DEF TrailInv

LEMMA HandlerKeeps ==
    ASSUME TrailInv, NEW c \in Clients,
           Trail!Connect(c) \/ Trail!Replay(c) \/ Trail!Stream(c) \/ Trail!Disconnect(c)
    PROVE  TrailInv'
<1>1. PICK given : client[c] \in Page(given)
    BY DEF TrailInv, PagesTyped
<1>2. UNCHANGED <<made, notify, following>>
    BY DEF Trail!Connect, Trail!Replay, Trail!Stream, Trail!Disconnect, Trail!log
<1>3. CASE Trail!Connect(c)
    <2>1. PICK page : page = [client[c] EXCEPT !.at = "registered"]
        OBVIOUS
    <2>2. following /\ client' = [client EXCEPT ![c] = page]
        BY <1>3, <2>1 DEF Trail!Connect
    <2>3. /\ page \in Page(given) /\ page.at # "gone"
          /\ page.queue = client[c].queue /\ page.got = client[c].got
          /\ page.due = client[c].due /\ page.full = client[c].full
        BY <1>1, <2>1 DEF Page
    <2> QED BY <1>2, <2>2, <2>3, PageKeeps
<1>4. CASE Trail!Replay(c)
    <2>1. PICK page : page = [client[c] EXCEPT !.at = "live", !.got = @ \cup Trail!ToSet(ring)]
        OBVIOUS
    <2>2. client[c].at # "gone" /\ client' = [client EXCEPT ![c] = page]
        BY <1>4, <2>1 DEF Trail!Replay
    <2>3. /\ page \in Page(given \cup Trail!ToSet(ring)) /\ page.at # "gone"
          /\ page.queue = client[c].queue /\ client[c].got \subseteq page.got
          /\ page.due = client[c].due /\ page.full = client[c].full
        BY <1>1, <2>1 DEF Page
    <2> QED BY <1>2, <2>2, <2>3, PageKeeps
<1>5. CASE Trail!Stream(c)
    <2>1. PICK s \in Seq(Nat) : s = client[c].queue /\ s # <<>>
        BY <1>1, <1>5 DEF Trail!Stream, Page
    <2>2. PICK page : page = [client[c] EXCEPT !.queue = Tail(s), !.got = @ \cup {Head(s)}]
        OBVIOUS
    <2>3. client[c].at # "gone" /\ client' = [client EXCEPT ![c] = page]
        BY <1>5, <2>1, <2>2 DEF Trail!Stream
    <2>4. Tail(s) \in Seq(Nat)
          /\ \A n \in Trail!ToSet(s) : n = Head(s) \/ n \in Trail!ToSet(Tail(s))
        BY <2>1, HeadOrTail
    <2>5. /\ page \in Page(given \cup {Head(s)}) /\ page.at # "gone"
          /\ page.queue = Tail(s) /\ page.got = client[c].got \cup {Head(s)}
          /\ page.due = client[c].due /\ page.full = client[c].full
        BY <1>1, <2>2, <2>3, <2>4 DEF Page
    <2> QED BY <1>2, <2>1, <2>3, <2>4, <2>5, PageKeeps
<1>6. CASE Trail!Disconnect(c)
    BY <1>2, <1>6, GoneIs, PageKeeps DEF Trail!Disconnect
<1> QED BY <1>3, <1>4, <1>5, <1>6

LEMMA TrailNextKeeps ==
    ASSUME TrailInv, [Trail!Next]_(Trail!vars)
    PROVE  TrailInv'
<1>1. CASE Trail!StartDashboard
    BY <1>1 DEF Trail!StartDashboard, Trail!log, TrailInv, PagesTyped, PagesServed, Covered,
                Trail!ToSet
<1>2. CASE Trail!StopDashboard \/ Trail!Restart
    BY <1>2, AllGone DEF Trail!StopDashboard, Trail!Restart, Trail!log
<1>3. CASE UNCHANGED Trail!vars
    BY <1>3 DEF Trail!vars, Trail!log, TrailInv, PagesTyped, PagesServed, Covered, Trail!ToSet
<1> QED
    BY <1>1, <1>2, <1>3, AppendRecordKeeps, IntoRingKeeps, FanoutKeeps, HandlerKeeps
    DEF Trail!Next

LEMMA TrailInitInv == ASSUME Trail!Init PROVE TrailInv
<1>1. \A c \in Clients : client[c] = Trail!Gone
    BY DEF Trail!Init
<1>2. PagesTyped
    BY <1>1, GoneIs, FS_EmptySet DEF Trail!Init, PagesTyped, Trail!Quiet
<1>3. PagesServed
    BY <1>1, GoneIs DEF Trail!Init, PagesServed, Covered, Trail!Quiet
<1> QED BY <1>2, <1>3 DEF TrailInv

(* _fanout tells the pages without the lock under which a record was made,   *)
(* and a page registers before it is given the ring.  Whatever the number of *)
(* threads and pages and however long the queues, a page has, or is still to *)
(* be given, every record made since it registered, unless its queue was     *)
(* full (dashboard.py:164-201, 386-413).                                     *)
THEOREM PagesMissNothing == Trail!Spec => []ClientsMissNothing
<1>1. TrailInv /\ [Trail!Next]_(Trail!vars) => TrailInv'
    BY TrailNextKeeps
<1>2. TrailInv => ClientsMissNothing
    BY DEF TrailInv, PagesServed, Covered, ClientsMissNothing, Trail!ClientsMissNothing
<1>3. Trail!Init => TrailInv
    BY TrailInitInv
<1> QED BY <1>1, <1>2, <1>3, PTL DEF Trail!Spec

-----------------------------------------------------------------------------
(* What verify finds.  Its walk is the recursive function Previous; that it  *)
(* does what it says is shown by the least line where it would not.          *)
\* One step of verify: the hash that is the previous one after line i.
After(f, i) ==
    IF i = 0 THEN 0
    ELSE IF i \in Trail!Readable /\ lines[i].prev = f[i - 1] THEN lines[i].hash
    ELSE f[i - 1]

LEMMA WalkExists ==
    ASSUME Len(lines) \in Nat
    PROVE  \E f : f = [i \in 0..Len(lines) |-> After(f, i)]
<1> DEFINE Walks(n) == \E f : f = [i \in 0..n |-> After(f, i)]
           T == {n \in 0..Len(lines) : ~Walks(n)}
<1>1. SUFFICES ASSUME T # {} PROVE FALSE
    OBVIOUS
<1>2. PICK n \in T : \A m \in T : n <= m
    <2>1. T \in SUBSET Nat
        OBVIOUS
    <2> HIDE DEF T
    <2> QED BY <1>1, <2>1, LeastNumber
<1>3. CASE n = 0
    <2>1. PICK f : f = [i \in 0..0 |-> 0]
        OBVIOUS
    <2>2. \A i \in 0..0 : After(f, i) = 0
        BY DEF After
    <2>3. f = [i \in 0..0 |-> After(f, i)]
        BY <2>1, <2>2
    <2> QED BY <1>2, <1>3, <2>3
<1>4. CASE n # 0
    <2>1. n - 1 \in 0..Len(lines) /\ ~(n <= n - 1)
        BY <1>2, <1>4
    <2>2. PICK f : f = [i \in 0..n - 1 |-> After(f, i)]
        BY <1>2, <2>1
    <2>3. PICK g : g = [i \in 0..n |-> IF i = n THEN After(f, n) ELSE f[i]]
        OBVIOUS
    <2>4. ASSUME NEW i \in 0..n - 1 PROVE g[i] = f[i] /\ f[i] = After(f, i) /\ i \in 0..n
        <3>1. n \in Nat /\ i \in 0..n /\ i # n
            BY <1>2, <2>4
        <3>2. g[i] = f[i]
            BY <2>3, <3>1
        <3>3. f[i] = After(f, i)
            <4> HIDE DEF T
            <4> QED BY <2>2, <2>4
        <3> QED BY <3>1, <3>2, <3>3
    <2>5. ASSUME NEW i \in 0..n PROVE g[i] = After(g, i)
        <3>0. n \in Nat /\ i \in Nat
            BY <1>2, <2>5
        <3>1. g[i] = After(f, i)
            <4>1. CASE i = n
                BY <2>3, <2>5, <4>1
            <4>2. CASE i # n
                <5>1. i \in 0..n - 1
                    BY <3>0, <2>5, <4>2
                <5> QED BY <5>1, <2>4
            <4> QED BY <4>1, <4>2
        <3>2. i # 0 => g[i - 1] = f[i - 1]
            <4>1. i # 0 => i - 1 \in 0..n - 1
                BY <3>0, <2>5
            <4> QED BY <4>1, <2>4
        <3> QED BY <3>1, <3>2 DEF After
    <2>6. g = [i \in 0..n |-> After(g, i)]
        BY <2>3, <2>5
    <2> QED BY <1>2, <2>6
<1> QED BY <1>3, <1>4

LEMMA WalkIs ==
    ASSUME Len(lines) \in Nat
    PROVE  \A i \in 0..Len(lines) : Trail!Previous[i] = After(Trail!Previous, i)
<1> DEFINE Walk(f) == f = [i \in 0..Len(lines) |-> After(f, i)]
<1>1. \E f : Walk(f)
    BY WalkExists
<1>2. Trail!Previous = CHOOSE f : Walk(f)
    BY DEF Trail!Previous, After
<1>3. Walk(Trail!Previous)
    BY <1>1, <1>2
<1> QED BY <1>3

-----------------------------------------------------------------------------
(* What is true of the log.  The file holds records that were made, or lines  *)
(* that are none.                                                            *)
LinesFit ==
    /\ lines \in Seq(made \cup {Trail!Corrupt})
    /\ unended => lines # <<>>

(* Records are numbered in the order they were made, also across restarts,   *)
(* and within a run each closes over the one before.                         *)
RecordsFit ==
    /\ restarts \in Nat
    /\ IsFiniteSet(made)
    /\ \A r \in made : /\ r.hash \in 1..Cardinality(made)
                       /\ r.run \in 0..restarts
                       /\ r.run = restarts => tail = Cardinality(made)
    /\ \A r, s \in made :
          /\ r.hash = s.hash => r = s
          /\ r.hash < s.hash => r.run <= s.run
          /\ r.hash < s.hash /\ r.run = s.run => s.prev = s.hash - 1

(* While no line was damaged the file is what was made, in order.            *)
Undamaged ==
    ~damaged =>
        /\ ~unended
        /\ Len(lines) = Cardinality(made)
        /\ seq = Len(lines)
        /\ tail = Len(lines)
        /\ \A i \in 1..Len(lines) :
              lines[i].seq = i /\ lines[i].prev = i - 1 /\ lines[i].hash = i

ChainInv == damaged \in BOOLEAN /\ LinesFit /\ RecordsFit /\ Undamaged

LEMMA SameCardinality == \A S : Trail!Cardinality(S) = Cardinality(S)
    BY DEF Trail!Cardinality, Cardinality

LEMMA AddedFits ==
    ASSUME NEW line, NEW ended \in BOOLEAN, NEW records,
           lines \in Seq(records), line \in records, Trail!Corrupt \in records,
           unended => lines # <<>>, Trail!Added(line, ended)
    PROVE  lines' \in Seq(records) /\ lines' # <<>>
<1>1. CASE unended
    <2>1. lines' = [lines EXCEPT ![Len(lines)] = Trail!Corrupt]
        BY <1>1 DEF Trail!Added
    <2>2. Len(lines) \in 1..Len(lines)
        BY <1>1, EmptySeq, LenProperties
    <2>3. lines' \in Seq(records) /\ Len(lines') = Len(lines)
        BY <2>1, <2>2, ExceptSeq
    <2> QED BY <2>2, <2>3
<1>2. CASE ~unended
    BY <1>2, AppendProperties DEF Trail!Added
<1> QED BY <1>1, <1>2

LEMMA AppendKeepsLines ==
    ASSUME ChainInv, NEW t \in Threads, Trail!AppendRecord(t)
    PROVE  LinesFit'
<1> DEFINE record == [seq |-> seq + 1, prev |-> tail, hash |-> Trail!Cardinality(made) + 1,
                      run |-> restarts]
           known == made' \cup {Trail!Corrupt}
<1>1. made' = made \cup {record}
    BY DEF Trail!AppendRecord
<1>2. PICK damage \in BOOLEAN : Trail!Written(record, damage)
    BY DEF Trail!AppendRecord
<1>3. lines \in Seq(known) /\ record \in known /\ Trail!Corrupt \in known
    BY <1>1 DEF ChainInv, LinesFit
<1>4. \/ \E ended \in BOOLEAN, line \in {record, Trail!Corrupt} : Trail!Added(line, ended)
      \/ UNCHANGED <<lines, unended>>
    BY <1>2 DEF Trail!Written
<1>5. lines' \in Seq(known) /\ (unended' => lines' # <<>>)
    <2> HIDE DEF record, known
    <2>1. unended => lines # <<>>
        BY DEF ChainInv, LinesFit
    <2> QED BY <1>3, <1>4, <2>1, AddedFits
<1>6. Trail!Corrupt' = Trail!Corrupt
    BY DEF Trail!Corrupt
<1> QED BY <1>5, <1>6 DEF LinesFit

LEMMA AppendKeepsRecords ==
    ASSUME ChainInv, NEW t \in Threads, Trail!AppendRecord(t)
    PROVE  RecordsFit' /\ Cardinality(made') = Cardinality(made) + 1
<1>1. PICK n : n = Cardinality(made)
    OBVIOUS
<1>2. n \in Nat /\ Trail!Cardinality(made) = n
    BY <1>1, FS_CardinalityType, SameCardinality DEF ChainInv, RecordsFit
<1>3. PICK record : record = [seq |-> seq + 1, prev |-> tail, hash |-> n + 1, run |-> restarts]
    OBVIOUS
<1>4. made' = made \cup {record} /\ tail' = n + 1 /\ restarts' = restarts
    BY <1>2, <1>3 DEF Trail!AppendRecord, Trail!NewTail
<1>5. \A r \in made : r.hash \in 1..n /\ r.run \in 0..restarts /\ (r.run = restarts => tail = n)
    BY <1>1 DEF ChainInv, RecordsFit
<1>6. record \notin made
    BY <1>2, <1>3, <1>5
<1>7. Cardinality(made') = n + 1 /\ IsFiniteSet(made')
    BY <1>1, <1>4, <1>6, FS_AddElement DEF ChainInv, RecordsFit
<1>8. restarts \in Nat
    BY DEF ChainInv, RecordsFit
<1>9. ASSUME NEW r \in made'
      PROVE  /\ r.hash \in 1..n + 1
             /\ r.run \in 0..restarts
    BY <1>2, <1>3, <1>4, <1>5, <1>8
<1>10. ASSUME NEW r \in made', NEW s \in made'
       PROVE  /\ r.hash = s.hash => r = s
              /\ r.hash < s.hash => r.run <= s.run
              /\ r.hash < s.hash /\ r.run = s.run => s.prev = s.hash - 1
    <2>1. CASE r \in made /\ s \in made
        BY <2>1 DEF ChainInv, RecordsFit
    <2>2. CASE r \in made /\ s = record
        <3>1. s.hash = n + 1 /\ s.run = restarts /\ s.prev = tail
            BY <1>3, <2>2
        <3> QED BY <1>2, <1>5, <1>8, <2>2, <3>1
    <2>3. CASE r = record /\ s \in made
        <3>1. r.hash = n + 1
            BY <1>3, <2>3
        <3> QED BY <1>2, <1>5, <2>3, <3>1
    <2>4. CASE r = record /\ s = record
        BY <1>2, <1>3, <2>4
    <2> QED BY <1>4, <2>1, <2>2, <2>3, <2>4
<1> QED BY <1>1, <1>4, <1>7, <1>8, <1>9, <1>10 DEF RecordsFit

LEMMA AppendKeepsUndamaged ==
    ASSUME ChainInv, NEW t \in Threads, Trail!AppendRecord(t)
    PROVE  Undamaged'
<1> SUFFICES ASSUME ~damaged' PROVE Undamaged'
    BY DEF Undamaged
<1>1. PICK n : n = Cardinality(made)
    OBVIOUS
<1>2. n \in Nat /\ Trail!Cardinality(made) = n
    BY <1>1, FS_CardinalityType, SameCardinality DEF ChainInv, RecordsFit
<1>3. PICK record : record = [seq |-> seq + 1, prev |-> tail, hash |-> n + 1, run |-> restarts]
    OBVIOUS
<1>4. PICK damage \in BOOLEAN : Trail!Written(record, damage) /\ damaged' = (damaged \/ damage)
    BY <1>2, <1>3 DEF Trail!AppendRecord
<1>5. damage = FALSE /\ ~damaged
    BY <1>4
<1>6. ~unended /\ Len(lines) = n /\ seq = n /\ tail = n
    BY <1>1, <1>5 DEF ChainInv, Undamaged
<1>7. Trail!Added(record, TRUE)
    BY <1>4, <1>5 DEF Trail!Written
<1>8. lines' = Append(lines, record) /\ ~unended'
    BY <1>6, <1>7 DEF Trail!Added
<1>9. lines \in Seq(made \cup {Trail!Corrupt, record})
    BY DEF ChainInv, LinesFit
<1>10. /\ Len(lines') = n + 1
       /\ \A i \in 1..n : lines'[i] = lines[i]
       /\ lines'[n + 1] = record
    BY <1>6, <1>8, <1>9, AppendProperties
<1>11. seq' = n + 1 /\ tail' = n + 1
    BY <1>2, <1>6 DEF Trail!AppendRecord, Trail!NewTail
<1>12. \A i \in 1..n : lines[i].seq = i /\ lines[i].prev = i - 1 /\ lines[i].hash = i
    BY <1>5, <1>6 DEF ChainInv, Undamaged
<1>13. record.seq = n + 1 /\ record.prev = n /\ record.hash = n + 1
    BY <1>3, <1>6
<1>14. ASSUME NEW i \in 1..n + 1
       PROVE  lines'[i].seq = i /\ lines'[i].prev = i - 1 /\ lines'[i].hash = i
    <2>1. CASE i = n + 1
        BY <1>2, <1>10, <1>13, <2>1
    <2>2. CASE i # n + 1
        <3>1. i \in 1..n
            BY <1>2, <2>2
        <3> QED BY <1>10, <1>12, <3>1
    <2> QED BY <2>1, <2>2
<1>15. Cardinality(made') = n + 1
    BY <1>1, AppendKeepsRecords
<1> QED BY <1>8, <1>10, <1>11, <1>14, <1>15 DEF Undamaged

(* A restart reads the last number and the last hash back from the file.     *)
LEMMA RestartKeepsUndamaged ==
    ASSUME ChainInv, Trail!Restart
    PROVE  Undamaged'
<1> SUFFICES ASSUME ~damaged' PROVE Undamaged'
    BY DEF Undamaged
<1>1. ~damaged /\ lines' = lines /\ made' = made /\ unended' = unended
    BY DEF Trail!Restart
<1>2. /\ ~unended /\ Len(lines) = Cardinality(made)
      /\ \A i \in 1..Len(lines) :
            lines[i].seq = i /\ lines[i].prev = i - 1 /\ lines[i].hash = i
    BY <1>1 DEF ChainInv, Undamaged
<1>3. PICK n : n = Len(lines)
    OBVIOUS
<1>4. n \in Nat
    BY <1>3, LenProperties DEF ChainInv, LinesFit
<1>5. Trail!Readable = 1..n
    <2>1. \A i \in 1..n : lines[i] # Trail!Corrupt
        BY <1>2, <1>3, <1>4 DEF Trail!Corrupt
    <2> QED BY <1>3, <2>1 DEF Trail!Readable
<1>6. CASE n = 0
    <2>1. Trail!LoadedSeq = 0 /\ Trail!LoadedTail = 0
        BY <1>5, <1>6 DEF Trail!LoadedSeq, Trail!LoadedTail
    <2> QED BY <1>1, <1>2, <1>3, <1>6, <2>1 DEF Trail!Restart, Undamaged
<1>7. CASE n # 0
    <2>1. n \in 1..n /\ \A j \in 1..n : j <= n
        BY <1>4, <1>7
    <2>2. \A i \in 1..n : (\A j \in 1..n : j <= i) => i = n
        BY <1>4, <2>1
    <2>3. Trail!LastReadable = n
        BY <1>5, <2>1, <2>2 DEF Trail!LastReadable
    <2>4. Trail!LoadedTail = n
        BY <1>2, <1>3, <1>5, <2>1, <2>3 DEF Trail!LoadedTail
    <2>5. {lines[i].seq : i \in 1..n} = 1..n
        BY <1>2, <1>3
    <2>6. \A m \in 1..n : (\A i \in 1..n : lines[i].seq <= m) <=> m = n
        BY <1>2, <1>3, <1>4, <2>1
    <2>7. Trail!LoadedSeq = CHOOSE m \in 1..n : \A i \in 1..n : lines[i].seq <= m
        BY <1>5, <2>1, <2>5 DEF Trail!LoadedSeq
    <2>8. Trail!LoadedSeq = n
        BY <2>1, <2>6, <2>7
    <2> QED BY <1>1, <1>2, <1>3, <2>4, <2>8 DEF Trail!Restart, Undamaged
<1> QED BY <1>6, <1>7

LEMMA ChainNextKeeps ==
    ASSUME ChainInv, [Trail!Next]_(Trail!vars)
    PROVE  ChainInv'
<1>1. ASSUME NEW t \in Threads, Trail!AppendRecord(t) PROVE ChainInv'
    <2>1. damaged' \in BOOLEAN
        BY <1>1 DEF Trail!AppendRecord, ChainInv
    <2> QED BY <1>1, <2>1, AppendKeepsLines, AppendKeepsRecords, AppendKeepsUndamaged DEF ChainInv
<1>2. CASE Trail!Restart
    <2>1. /\ lines' = lines /\ unended' = unended /\ made' = made /\ damaged' = damaged
          /\ restarts' = restarts + 1
        BY <1>2 DEF Trail!Restart
    <2>2. LinesFit' /\ damaged' \in BOOLEAN
        BY <2>1 DEF ChainInv, LinesFit, Trail!Corrupt
    <2>3. RecordsFit'
        <3>1. ASSUME NEW r \in made
              PROVE  r.run \in 0..restarts + 1 /\ r.run # restarts + 1
            BY DEF ChainInv, RecordsFit
        <3> QED BY <2>1, <3>1 DEF ChainInv, RecordsFit
    <2> QED BY <1>2, <2>2, <2>3, RestartKeepsUndamaged DEF ChainInv
<1>3. ASSUME UNCHANGED Trail!log PROVE ChainInv'
    BY <1>3 DEF Trail!log, ChainInv, LinesFit, RecordsFit, Undamaged, Trail!Corrupt
<1> QED
    BY <1>1, <1>2, <1>3
    DEF Trail!Next, Trail!vars, Trail!IntoRing, Trail!Fanout, Trail!Connect, Trail!Replay,
        Trail!Stream, Trail!Disconnect, Trail!StartDashboard, Trail!StopDashboard

LEMMA ChainInitInv == ASSUME Trail!Init PROVE ChainInv
<1>1. LinesFit /\ damaged \in BOOLEAN
    BY EmptySeq DEF Trail!Init, LinesFit
<1>2. RecordsFit
    BY FS_EmptySet DEF Trail!Init, RecordsFit
<1>3. Undamaged
    <2>1. Len(lines) = 0 /\ Cardinality(made) = 0
        BY FS_EmptySet, EmptySeq DEF Trail!Init
    <2>2. 1..Len(lines) = {}
        BY <2>1
    <2> QED BY <2>1, <2>2 DEF Trail!Init, Undamaged
<1> QED BY <1>1, <1>2, <1>3 DEF ChainInv

LEMMA ChainStays == Trail!Spec => []ChainInv
<1>1. ChainInv /\ [Trail!Next]_(Trail!vars) => ChainInv'
    BY ChainNextKeeps
<1>2. Trail!Init => ChainInv
    BY ChainInitInv
<1> QED BY <1>1, <1>2, PTL DEF Trail!Spec

(* verify follows a file in which every line closes over the one before it.  *)
LEMMA WalkOfLinked ==
    ASSUME LinesFit, \A i \in 1..Len(lines) : Trail!Linked(i)
    PROVE  \A i \in 1..Len(lines) : Trail!Previous[i] = lines[i].hash
<1>1. Len(lines) \in Nat
    BY LenProperties DEF LinesFit
<1>2. ASSUME NEW i \in 1..Len(lines) PROVE Trail!Previous[i] = lines[i].hash
    <2>1. i \in 0..Len(lines) /\ i # 0
        BY <1>1, <1>2
    <2>2. Trail!Previous[i] = After(Trail!Previous, i)
        BY <1>1, <2>1, WalkIs
    <2>3. i \in Trail!Readable /\ lines[i].prev = Trail!Previous[i - 1]
        BY <1>2 DEF Trail!Linked
    <2> QED BY <2>1, <2>2, <2>3 DEF After
<1> QED BY <1>2

LEMMA QuietIfUndamaged == ASSUME ChainInv, ~damaged PROVE Trail!Problems = {}
<1>1. Len(lines) \in Nat
    BY LenProperties DEF ChainInv, LinesFit
<1>2. \A i \in 1..Len(lines) : lines[i].seq = i /\ lines[i].prev = i - 1 /\ lines[i].hash = i
    BY DEF ChainInv, Undamaged
<1>3. \A i \in 1..Len(lines) : i \in Trail!Readable
    BY <1>1, <1>2 DEF Trail!Readable, Trail!Corrupt
<1>4. \A i \in 0..Len(lines) : Trail!Previous[i] = i
    <2> DEFINE T == {i \in 0..Len(lines) : Trail!Previous[i] # i}
    <2>1. SUFFICES ASSUME T # {} PROVE FALSE
        OBVIOUS
    <2>2. PICK i \in T : \A j \in T : i <= j
        <3>1. T \in SUBSET Nat
            OBVIOUS
        <3> HIDE DEF T
        <3> QED BY <2>1, <3>1, LeastNumber
    <2>3. Trail!Previous[i] = After(Trail!Previous, i)
        BY <1>1, <2>2, WalkIs
    <2>4. CASE i = 0
        BY <2>2, <2>3, <2>4 DEF After
    <2>5. CASE i # 0
        <3>1. i \in 1..Len(lines) /\ i - 1 \in 0..Len(lines) /\ ~(i <= i - 1)
            BY <1>1, <2>2, <2>5
        <3>2. Trail!Previous[i - 1] = i - 1
            BY <2>2, <3>1
        <3>3. i \in Trail!Readable /\ lines[i].prev = Trail!Previous[i - 1] /\ lines[i].hash = i
            BY <1>2, <1>3, <3>1, <3>2
        <3>4. Trail!Previous[i] = i
            BY <2>3, <2>5, <3>3 DEF After
        <3> QED BY <2>2, <3>4
    <2> QED BY <2>4, <2>5
<1>5. ASSUME NEW i \in 1..Len(lines)
      PROVE  Trail!Linked(i) /\ \A j \in 1..i - 1 : lines[j].seq # lines[i].seq
    <2>1. i - 1 \in 0..Len(lines)
        BY <1>1, <1>5
    <2>2. Trail!Linked(i)
        BY <1>2, <1>3, <1>4, <1>5, <2>1 DEF Trail!Linked
    <2>3. ASSUME NEW j \in 1..i - 1 PROVE lines[j].seq # lines[i].seq
        <3>1. j \in 1..Len(lines) /\ j # i
            BY <1>1, <1>5, <2>3
        <3> QED BY <1>2, <1>5, <3>1
    <2> QED BY <2>2, <2>3
<1> QED BY <1>5 DEF Trail!Problems

(* verify finds no problem in a log whose lines were all written whole: every *)
(* restart goes on from the last line of the file, whatever the threads did   *)
(* before it (audit.py:62-154).                                              *)
THEOREM VerifyStaysQuiet == Trail!Spec => []VerifyIsQuiet
<1>1. ChainInv => VerifyIsQuiet
    BY QuietIfUndamaged DEF VerifyIsQuiet, Trail!VerifyIsQuiet
<1> QED BY <1>1, ChainStays, PTL

LEMMA LossBreaksTheChain ==
    ASSUME ChainInv, NEW r \in made, NEW s \in made,
           r.hash < s.hash, r.run = s.run, ~Trail!InFile(r), Trail!InFile(s)
    PROVE  Trail!Problems # {}
<1>1. SUFFICES ASSUME Trail!Problems = {} PROVE FALSE
    OBVIOUS
<1>2. Len(lines) \in Nat
    BY LenProperties DEF ChainInv, LinesFit
<1>3. \A i \in 1..Len(lines) : Trail!Linked(i)
    BY <1>1 DEF Trail!Problems
<1>4. \A i \in 1..Len(lines) : Trail!Previous[i] = lines[i].hash
    BY <1>3, WalkOfLinked DEF ChainInv
<1>5. \A i \in 1..Len(lines) : lines[i] \in made
    <2>1. ASSUME NEW i \in 1..Len(lines) PROVE lines[i] \in made
        <3>1. lines[i] \in made \cup {Trail!Corrupt}
            BY <2>1, ElementOfSeq DEF ChainInv, LinesFit
        <3>2. lines[i] # Trail!Corrupt
            BY <1>3, <2>1 DEF Trail!Linked, Trail!Readable
        <3> QED BY <3>1, <3>2
    <2> QED BY <2>1
<1>6. PICK n : n = Cardinality(made)
    OBVIOUS
<1>7. /\ n \in Nat /\ restarts \in Nat
      /\ \A x \in made : x.hash \in 1..n /\ x.run \in 0..restarts
    BY <1>6, FS_CardinalityType DEF ChainInv, RecordsFit
<1>8. \A x, y \in made : /\ x.hash = y.hash => x = y
                         /\ x.hash < y.hash => x.run <= y.run
                         /\ x.hash < y.hash /\ x.run = y.run => y.prev = y.hash - 1
    BY <1>7 DEF ChainInv, RecordsFit
<1> DEFINE T == {i \in 1..Len(lines) : lines[i].run = r.run /\ r.hash < lines[i].hash}
<1>9. PICK i \in T : \A j \in T : i <= j
    <2>1. T # {}
        BY DEF Trail!InFile, Trail!Readable
    <2>2. T \in SUBSET Nat
        OBVIOUS
    <2> HIDE DEF T
    <2> QED BY <2>1, <2>2, LeastNumber
<1>10. PICK x : x = lines[i]
    OBVIOUS
<1>11. x \in made /\ x.run = r.run /\ r.hash < x.hash /\ i \in 1..Len(lines)
    BY <1>5, <1>9, <1>10
<1>12. x.prev = x.hash - 1
    BY <1>11 DEF ChainInv, RecordsFit
<1>13. x.prev = Trail!Previous[i - 1]
    BY <1>3, <1>10, <1>11 DEF Trail!Linked
<1>14. CASE i = 1
    <2>1. Trail!Previous[0] = 0
        BY <1>2, WalkIs DEF After
    <2>2. i - 1 = 0
        BY <1>14
    <2>3. x.hash = 1
        BY <1>7, <1>11, <1>12, <1>13, <2>1, <2>2
    <2> QED BY <1>7, <1>11, <2>3
<1>15. CASE i # 1
    <2>1. i - 1 \in 1..Len(lines) /\ ~(i <= i - 1)
        BY <1>2, <1>11, <1>15
    <2>2. PICK y : y = lines[i - 1]
        OBVIOUS
    <2>3. y \in made /\ y.hash = x.hash - 1
        BY <1>4, <1>5, <1>12, <1>13, <2>1, <2>2
    <2>4. y.hash # r.hash
        <3>1. y # r
            <4>1. i - 1 \in Trail!Readable
                BY <1>3, <2>1 DEF Trail!Linked
            <4> QED BY <2>2, <4>1 DEF Trail!InFile
        <3> QED BY <1>8, <2>3, <3>1
    <2>5. r.hash < y.hash /\ y.hash < x.hash
        BY <1>7, <1>11, <2>3, <2>4
    <2>6. y.run = r.run
        <3>1. r.run <= y.run /\ y.run <= x.run
            BY <1>8, <1>11, <2>3, <2>5
        <3> QED BY <1>7, <1>11, <2>3, <3>1
    <2>7. i - 1 \in T
        BY <2>1, <2>2, <2>5, <2>6
    <2> QED BY <1>9, <2>1, <2>7
<1> QED BY <1>14, <1>15

(* The chain moves on although a write failed, so a lost record shows: if one *)
(* that the same process made later is in the file, verify finds a problem    *)
(* (audit.py:71-80, 103-129).                                                *)
THEOREM LossStaysNoticed == Trail!Spec => []LossIsNoticed
<1>1. ChainInv => LossIsNoticed
    BY LossBreaksTheChain DEF LossIsNoticed, Trail!LossIsNoticed
<1> QED BY <1>1, ChainStays, PTL

-----------------------------------------------------------------------------
(* The types that the promises above did not need: those of the requests ... *)
AskingRest ==
    /\ passed \subseteq Requested
    /\ placed \in [Asked \cup {"me"} -> SUBSET Requested]
    /\ handled \cup gone \cup swallowed \subseteq Requested \X Asked
    /\ lost \in 0..MaxLost

LEMMA CallMovesTyped ==
    ASSUME AskingRest, NEW c \in Requested,
           \/ Asking!Start(c) \/ Asking!SendToAll(c) \/ Asking!Return(c) \/ Asking!Deadline(c)
           \/ \E p \in Asked : Asking!SendTo(c, p)
    PROVE  AskingRest'
<1>1. ASSUME Asking!Start(c) PROVE AskingRest'
    <2>1. UNCHANGED <<passed, handled, gone, swallowed, lost>>
        BY <1>1 DEF Asking!Start, Asking!Query, Asking!QuerySphere, Asking!DispatchRender,
                    Asking!DispatchSceneRequest, Asking!PublishMotionEvent,
                    Asking!PublishObservation, Asking!Begin, Asking!history
    <2>2. placed' = placed \/ placed' = [placed EXCEPT !["me"] = @ \cup {c}]
        BY <1>1 DEF Asking!Start, Asking!Query, Asking!QuerySphere, Asking!DispatchRender,
                    Asking!DispatchSceneRequest, Asking!PublishMotionEvent,
                    Asking!PublishObservation
    <2> QED BY <2>1, <2>2 DEF AskingRest
<1>2. ASSUME Asking!SendToAll(c) PROVE AskingRest'
    BY <1>2 DEF Asking!SendToAll, Asking!history, AskingRest
<1>3. ASSUME Asking!Return(c) \/ Asking!Deadline(c) PROVE AskingRest'
    BY <1>3 DEF Asking!Return, Asking!Deadline, Asking!history, AskingRest
<1>4. ASSUME NEW p \in Asked, Asking!SendTo(c, p) PROVE AskingRest'
    <2>1. /\ swallowed' = swallowed \cup {<<c, p>>} \/ swallowed' = swallowed
          /\ passed' = passed \cup {c} \/ passed' = passed
          /\ UNCHANGED <<placed, handled, gone, lost>>
        BY <1>4 DEF Asking!SendTo
    <2> QED BY <2>1 DEF AskingRest
<1> QED BY <1>1, <1>2, <1>3, <1>4

LEMMA EnvelopeMovesTyped ==
    ASSUME AskingRest, NEW c \in Requested, NEW p \in Asked, Asking!Arrive(c, p)
    PROVE  AskingRest'
<1>1. UNCHANGED <<passed, gone, swallowed, lost>>
    BY DEF Asking!Arrive, Asking!Answer, Asking!HandleQuery, Asking!InboundRender,
           Asking!InboundScene, Asking!InboundMotionEvent, Asking!HandleObservation,
           Asking!Placing, Asking!Collect, Asking!HandleResponse, Asking!RenderResult,
           Asking!InboundSceneResult, Asking!Handle, Asking!Collected, Asking!Received,
           Asking!history
<1>2. handled' = handled \/ handled' = handled \cup {<<c, p>>}
    BY DEF Asking!Arrive, Asking!Answer, Asking!HandleQuery, Asking!InboundRender,
           Asking!InboundScene, Asking!InboundMotionEvent, Asking!HandleObservation,
           Asking!Placing, Asking!Collect, Asking!HandleResponse, Asking!RenderResult,
           Asking!InboundSceneResult, Asking!Handle, Asking!Collected, Asking!Received,
           Asking!history
<1>3. placed' = placed \/ \E q \in Asked \cup {"me"} : placed' = [placed EXCEPT ![q] = @ \cup {c}]
    BY DEF Asking!Arrive, Asking!Answer, Asking!HandleQuery, Asking!InboundRender,
           Asking!InboundScene, Asking!InboundMotionEvent, Asking!HandleObservation,
           Asking!Placing, Asking!Collect, Asking!HandleResponse, Asking!RenderResult,
           Asking!InboundSceneResult, Asking!Collected
<1> QED BY <1>1, <1>2, <1>3 DEF AskingRest

LEMMA AskingRestKeeps ==
    ASSUME AskingTypes, AskingRest, MaxLost \in Nat, [Asking!Next]_(Asking!vars)
    PROVE  AskingRest'
<1>1. ASSUME NEW m \in net, Asking!Lose(m) PROVE AskingRest'
    <2>1. <<m[1], m[2]>> \in Requested \X Asked
        BY DEF AskingTypes
    <2>2. /\ lost' = lost + 1 /\ lost < MaxLost /\ gone' = gone \cup {<<m[1], m[2]>>}
          /\ UNCHANGED <<passed, placed, handled, swallowed>>
        BY <1>1 DEF Asking!Lose
    <2> QED BY <2>1, <2>2 DEF AskingRest
<1>2. CASE UNCHANGED Asking!vars
    BY <1>2 DEF Asking!vars, Asking!history, AskingRest
<1> QED BY <1>1, <1>2, CallMovesTyped, EnvelopeMovesTyped DEF Asking!Next

LEMMA AskingTypeOK ==
    ASSUME IsFiniteSet(Asked), MaxLost \in Nat
    PROVE  Asking!Spec => []Asking!TypeOK
<1>1. Asking!Init => AskingRest
    BY DEF Asking!Init, AskingRest
<1>2. AskingInv /\ AskingRest /\ [Asking!Next]_(Asking!vars) => AskingRest'
    BY AskingRestKeeps DEF AskingInv
<1>3. AskingInv /\ AskingRest => Asking!TypeOK
    <2>1. SUFFICES ASSUME AskingInv, AskingRest PROVE Asking!TypeOK
        OBVIOUS
    <2>2. Cardinality(Asked) \in Nat /\ Asking!Cardinality(Asked) = Cardinality(Asked)
        BY FS_CardinalityType, SameCount
    <2>3. ASSUME NEW c \in Requested PROVE replies[c] \in 0..Asking!Cardinality(Asked)
        <3>1. PICK those \in SUBSET Asked : Answered(c, those)
            BY <2>1 DEF AskingInv, CallInv
        <3>2. Cardinality(those) <= Cardinality(Asked) /\ replies[c] = Cardinality(those)
            BY <3>1, FS_Subset DEF Answered
        <3>3. replies[c] \in Nat
            BY <2>1 DEF AskingInv, AskingTypes
        <3> QED BY <2>2, <3>2, <3>3
    <2>4. replies \in [Requested -> 0..Asking!Cardinality(Asked)]
        BY <2>1, <2>3 DEF AskingInv, AskingTypes
    <2> QED BY <2>1, <2>4 DEF AskingInv, AskingTypes, AskingRest, AllFacts, Asking!TypeOK
<1> QED BY <1>1, <1>2, <1>3, AskingStaysInv, PTL DEF Asking!Spec


-----------------------------------------------------------------------------
(* ... and those of the audit trail.                                         *)
Numbers == 1..MaxMade
TrailBounds == RingSize \in Nat /\ QueueSize \in Nat /\ MaxMade \in Nat /\ MaxRestarts \in Nat

LogRest ==
    /\ unended \in BOOLEAN
    /\ Cardinality(made) <= MaxMade
    /\ seq \in 0..Cardinality(made) /\ tail \in 0..Cardinality(made)
    /\ \A r \in made : r.seq \in 0..Cardinality(made)
    /\ restarts \in 0..MaxRestarts

PageRest(page) ==
    /\ page.queue \in Seq(Numbers) /\ Len(page.queue) <= QueueSize
    /\ page.got \cup page.due \subseteq Numbers

ServingRest ==
    /\ \A t \in Threads : notify[t].hash \in 0..MaxMade
    /\ \A t \in Threads : notify[t].at # "idle" => notify[t].hash \in Numbers
    /\ ring \in Seq(Numbers) /\ Len(ring) <= RingSize
    /\ \A c \in Clients : PageRest(client[c])

TrailRest == LogRest /\ ServingRest

LEMMA GreatestNumber ==
    ASSUME NEW n \in Nat, NEW T \in SUBSET (0..n), T # {}
    PROVE  \E m \in T : \A k \in T : k <= m
<1> DEFINE B == {n - k : k \in T}
<1>1. B \in SUBSET Nat /\ B # {}
    <2>1. \A k \in T : n - k \in Nat
        OBVIOUS
    <2>2. PICK k \in T : TRUE
        OBVIOUS
    <2>3. n - k \in B
        BY <2>2
    <2> QED BY <2>1, <2>3
<1>2. PICK b \in B : \A a \in B : b <= a
    <2> HIDE DEF B
    <2> QED BY <1>1, LeastNumber
<1>3. PICK m \in T : b = n - m
    BY <1>2
<1>4. ASSUME NEW k \in T PROVE k <= m
    <2>1. n - m <= n - k /\ k \in 0..n /\ m \in 0..n
        BY <1>2, <1>3
    <2> QED BY <2>1
<1> QED BY <1>4

LEMMA ReadBack ==
    ASSUME ChainInv, LogRest
    PROVE  Trail!LoadedSeq \in 0..Cardinality(made) /\ Trail!LoadedTail \in 0..Cardinality(made)
<1>1. PICK n : n = Cardinality(made)
    OBVIOUS
<1>2. n \in Nat /\ Len(lines) \in Nat
    BY <1>1, FS_CardinalityType, LenProperties DEF ChainInv, RecordsFit, LinesFit
<1>3. \A i \in Trail!Readable : i \in 0..Len(lines) /\ lines[i] \in made
    BY <1>2, ElementOfSeq DEF ChainInv, LinesFit, Trail!Readable
<1>4. \A i \in Trail!Readable : lines[i].seq \in 0..n /\ lines[i].hash \in 0..n
    BY <1>1, <1>2, <1>3 DEF LogRest, ChainInv, RecordsFit
<1>5. CASE Trail!Readable = {}
    BY <1>1, <1>2, <1>5 DEF Trail!LoadedSeq, Trail!LoadedTail
<1>6. CASE Trail!Readable # {}
    <2>1. \E i \in Trail!Readable : \A j \in Trail!Readable : j <= i
        BY <1>2, <1>3, <1>6, GreatestNumber
    <2>2. Trail!LastReadable \in Trail!Readable
        BY <2>1 DEF Trail!LastReadable
    <2>3. Trail!LoadedTail \in 0..n
        BY <1>4, <1>6, <2>2 DEF Trail!LoadedTail
    <2>4. PICK T : T = {lines[i].seq : i \in Trail!Readable}
        OBVIOUS
    <2>5. T \in SUBSET (0..n) /\ T # {}
        BY <1>4, <1>6, <2>4
    <2>6. \E m \in T : \A k \in T : k <= m
        BY <1>2, <2>5, GreatestNumber
    <2>7. \E m \in T : \A i \in Trail!Readable : lines[i].seq <= m
        BY <2>4, <2>6
    <2>8. Trail!LoadedSeq = CHOOSE m \in T : \A i \in Trail!Readable : lines[i].seq <= m
        BY <1>6, <2>4 DEF Trail!LoadedSeq
    <2>9. Trail!LoadedSeq \in 0..n
        BY <2>5, <2>7, <2>8
    <2> QED BY <1>1, <2>3, <2>9
<1> QED BY <1>5, <1>6

\* One step of Seeded.
NextSeeded(last, f, i) ==
    IF i = 0 THEN <<>>
    ELSE IF last[i] = Trail!Corrupt THEN f[i - 1]
    ELSE Append(f[i - 1], last[i].hash)

LEMMA SeedExists ==
    ASSUME NEW last, Len(last) \in Nat,
           \A i \in 1..Len(last) : last[i] = Trail!Corrupt \/ last[i].hash \in Numbers
    PROVE  \E f : f = [i \in 0..Len(last) |-> NextSeeded(last, f, i)]
<1>1. PICK n \in Nat : n = Len(last)
    OBVIOUS
<1>2. PICK V : V = Seq(Numbers)
    OBVIOUS
<1>3. PICK step : step = [p \in (1..n) \X V |->
                             IF last[p[1]] = Trail!Corrupt THEN p[2]
                             ELSE Append(p[2], last[p[1]].hash)]
    OBVIOUS
<1>4. PICK base : base = <<>>
    OBVIOUS
<1>5. base \in V
    BY <1>2, <1>4, EmptySeq
<1>6. ASSUME NEW p \in (1..n) \X V PROVE step[p] \in V
    <2>1. p[1] \in 1..n /\ p[2] \in Seq(Numbers)
        BY <1>2
    <2>2. CASE last[p[1]] = Trail!Corrupt
        BY <1>3, <2>2
    <2>3. CASE last[p[1]] # Trail!Corrupt
        <3>1. last[p[1]].hash \in Numbers
            BY <1>1, <2>1, <2>3
        <3>2. Append(p[2], last[p[1]].hash) \in V
            BY <1>2, <2>1, <3>1, AppendProperties
        <3> QED BY <1>3, <2>3, <3>2
    <2> QED BY <2>2, <2>3
<1>7. step \in [(1..n) \X V -> V]
    BY <1>3, <1>6
<1>8. PICK f \in [0..n -> V] : f[0] = base /\ \A i \in 1..n : f[i] = step[<<i, f[i - 1]>>]
    <2>1. Reaches(n, V, base, step)
        BY <1>5, <1>7, Recursion
    <2> QED BY <2>1 DEF Reaches
<1>9. ASSUME NEW i \in 0..n PROVE f[i] = NextSeeded(last, f, i)
    <2>1. CASE i = 0
        BY <1>4, <1>8, <2>1 DEF NextSeeded
    <2>2. CASE i # 0
        <3>1. i \in 1..n /\ i - 1 \in 0..n
            BY <2>2
        <3>2. <<i, f[i - 1]>> \in (1..n) \X V
            BY <1>8, <3>1
        <3> QED BY <1>3, <1>8, <2>2, <3>1, <3>2 DEF NextSeeded
    <2> QED BY <2>1, <2>2
<1>10. f = [i \in 0..n |-> NextSeeded(last, f, i)]
    BY <1>8, <1>9
<1> QED BY <1>1, <1>10

LEMMA SeededIs ==
    ASSUME NEW last, Len(last) \in Nat,
           \A i \in 1..Len(last) : last[i] = Trail!Corrupt \/ last[i].hash \in Numbers
    PROVE  Trail!Seeded(last) \in Seq(Numbers) /\ Len(Trail!Seeded(last)) <= Len(last)
<1> DEFINE Seeds(f) == f = [i \in 0..Len(last) |-> NextSeeded(last, f, i)]
<1>1. PICK f : f = CHOOSE g : Seeds(g)
    OBVIOUS
<1>2. Seeds(f)
    <2>1. \E g : Seeds(g)
        BY SeedExists
    <2> HIDE DEF Seeds
    <2> QED BY <1>1, <2>1
<1>3. Trail!Seeded(last) = f[Len(last)]
    BY <1>1 DEF Trail!Seeded, NextSeeded
<1>4. PICK n \in Nat : n = Len(last)
    OBVIOUS
<1> DEFINE S == {i \in 0..n : f[i] \in Seq(Numbers) /\ Len(f[i]) <= i}
<1>5. 0 \in S
    <2>1. f[0] = <<>> /\ 0 \in 0..n
        BY <1>2, <1>4 DEF NextSeeded
    <2>2. f[0] \in Seq(Numbers) /\ Len(f[0]) = 0
        BY <2>1, EmptySeq
    <2>3. Len(f[0]) <= 0
        BY <2>2
    <2> QED BY <2>1, <2>2, <2>3, Zenon
<1>6. ASSUME NEW i \in 1..n, i - 1 \in S PROVE i \in S
    <2>1. i \in 0..n /\ i # 0
        OBVIOUS
    <2>2. f[i] = NextSeeded(last, f, i)
        BY <1>2, <1>4, <2>1
    <2>3. f[i - 1] \in Seq(Numbers) /\ Len(f[i - 1]) <= i - 1 /\ Len(f[i - 1]) \in Nat
        BY <1>6, LenProperties
    <2>4. CASE last[i] = Trail!Corrupt
        <3>1. f[i] = f[i - 1]
            BY <2>1, <2>2, <2>4 DEF NextSeeded
        <3> QED BY <2>1, <2>3, <3>1
    <2>5. CASE last[i] # Trail!Corrupt
        <3>1. f[i] = Append(f[i - 1], last[i].hash) /\ last[i].hash \in Numbers
            BY <1>4, <2>1, <2>2, <2>5 DEF NextSeeded
        <3>2. f[i] \in Seq(Numbers) /\ Len(f[i]) = Len(f[i - 1]) + 1
            BY <2>3, <3>1, AppendProperties
        <3> QED BY <2>1, <2>3, <3>2
    <2> QED BY <2>4, <2>5
<1>7. n \in S
    <2> HIDE DEF S
    <2>1. \A i \in 0..n : i \in S
        BY <1>5, <1>6, CountsUp
    <2> QED BY <2>1
<1> QED BY <1>3, <1>4, <1>7


LEMMA LogRestKeeps ==
    ASSUME TrailBounds, ChainInv, LogRest, [Trail!Next]_(Trail!vars)
    PROVE  LogRest'
<1>1. PICK n : n = Cardinality(made)
    OBVIOUS
<1>2. n \in Nat /\ Trail!Cardinality(made) = n
    BY <1>1, FS_CardinalityType, SameCardinality DEF ChainInv, RecordsFit
<1>3. ASSUME NEW t \in Threads, Trail!AppendRecord(t) PROVE LogRest'
    <2>1. PICK record : record = [seq |-> seq + 1, prev |-> tail, hash |-> n + 1, run |-> restarts]
        OBVIOUS
    <2>2. /\ n < MaxMade /\ seq' = seq + 1 /\ made' = made \cup {record} /\ tail' = n + 1
          /\ restarts' = restarts
        BY <1>2, <1>3, <2>1 DEF Trail!AppendRecord, Trail!NewTail
    <2>3. unended' \in BOOLEAN
        BY <1>3 DEF Trail!AppendRecord, Trail!Written, Trail!Added, LogRest
    <2>4. Cardinality(made') = n + 1
        BY <1>1, <1>3, AppendKeepsRecords
    <2>5. seq \in 0..n /\ \A r \in made : r.seq \in 0..n
        BY <1>1 DEF LogRest
    <2>6. \A r \in made' : r.seq \in 0..n + 1
        BY <1>2, <2>1, <2>2, <2>5
    <2>7. n + 1 <= MaxMade /\ seq' \in 0..n + 1 /\ tail' \in 0..n + 1
        BY <1>2, <2>2, <2>5 DEF TrailBounds
    <2>8. restarts' \in 0..MaxRestarts
        BY <2>2 DEF LogRest
    <2> QED BY <2>3, <2>4, <2>6, <2>7, <2>8 DEF LogRest
<1>4. CASE Trail!Restart
    <2>1. /\ restarts' = restarts + 1 /\ restarts < MaxRestarts
          /\ seq' = Trail!LoadedSeq /\ tail' = Trail!LoadedTail
          /\ made' = made /\ unended' = unended
        BY <1>4 DEF Trail!Restart
    <2>2. restarts' \in 0..MaxRestarts
        BY <2>1 DEF LogRest, TrailBounds
    <2> QED BY <2>1, <2>2, ReadBack DEF LogRest
<1>5. ASSUME UNCHANGED Trail!log PROVE LogRest'
    BY <1>5 DEF Trail!log, LogRest
<1> QED
    BY <1>3, <1>4, <1>5
    DEF Trail!Next, Trail!vars, Trail!IntoRing, Trail!Fanout, Trail!Connect, Trail!Replay,
        Trail!Stream, Trail!Disconnect, Trail!StartDashboard, Trail!StopDashboard

LEMMA GoneIsFit == ASSUME TrailBounds PROVE PageRest(Trail!Gone)
BY EmptySeq DEF TrailBounds, Trail!Gone, PageRest

LEMMA AppendRecordFits ==
    ASSUME TrailBounds, TrailInv, ChainInv, LogRest, ServingRest,
           NEW t \in Threads, Trail!AppendRecord(t)
    PROVE  ServingRest'
<1>1. PICK n : n = Trail!Cardinality(made) + 1
    OBVIOUS
<1>2. n \in Numbers /\ n \in 0..MaxMade
    <2>1. Trail!Cardinality(made) = Cardinality(made) /\ Cardinality(made) \in Nat
        BY FS_CardinalityType, SameCardinality DEF ChainInv, RecordsFit
    <2>2. Trail!Cardinality(made) < MaxMade
        BY DEF Trail!AppendRecord
    <2> QED BY <1>1, <2>1, <2>2 DEF Numbers, TrailBounds
<1>3. /\ notify' = [notify EXCEPT ![t] = [at |-> "ring", hash |-> n]]
      /\ client' = [c \in Clients |-> IF client[c].at = "gone" THEN Trail!Gone
                                      ELSE [client[c] EXCEPT !.due = @ \cup {n}]]
      /\ ring' = ring
    BY <1>1 DEF Trail!AppendRecord
<1>4. /\ \A u \in Threads : notify'[u].hash \in 0..MaxMade
      /\ \A u \in Threads : notify'[u].at # "idle" => notify'[u].hash \in Numbers
    BY <1>2, <1>3 DEF TrailInv, PagesTyped, ServingRest
<1>5. ASSUME NEW c \in Clients PROVE PageRest(client'[c])
    <2>1. PICK given : client[c] \in Page(given)
        BY DEF TrailInv, PagesTyped
    <2>2. CASE client[c].at = "gone"
        BY <1>3, <2>2, GoneIsFit
    <2>3. CASE client[c].at # "gone"
        <3>1. client'[c] = [client[c] EXCEPT !.due = @ \cup {n}]
            BY <1>3, <2>3
        <3>2. /\ client'[c].queue = client[c].queue /\ client'[c].got = client[c].got
              /\ client'[c].due = client[c].due \cup {n}
            BY <2>1, <3>1 DEF Page
        <3> QED BY <1>2, <3>2 DEF ServingRest, PageRest
    <2> QED BY <2>2, <2>3
<1> QED BY <1>3, <1>4, <1>5 DEF ServingRest

LEMMA ToldFits ==
    ASSUME TrailBounds, TrailInv, ServingRest, NEW t \in Threads,
           \/ notify' = [notify EXCEPT ![t] = Trail!Quiet]
           \/ notify' = [notify EXCEPT ![t].at = "fanout"] /\ notify[t].at # "idle"
    PROVE  /\ \A u \in Threads : notify'[u].hash \in 0..MaxMade
           /\ \A u \in Threads : notify'[u].at # "idle" => notify'[u].hash \in Numbers
<1>1. 0 \in 0..MaxMade
    BY DEF TrailBounds
<1> QED BY <1>1 DEF TrailInv, PagesTyped, ServingRest, Trail!Quiet

LEMMA IntoRingFits ==
    ASSUME TrailBounds, TrailInv, ServingRest, NEW t \in Threads, Trail!IntoRing(t)
    PROVE  ServingRest'
<1>1. client' = client /\ notify[t].at = "ring"
    BY DEF Trail!IntoRing
<1>2. /\ \A u \in Threads : notify'[u].hash \in 0..MaxMade
      /\ \A u \in Threads : notify'[u].at # "idle" => notify'[u].hash \in Numbers
    BY <1>1, ToldFits DEF Trail!IntoRing
<1>3. ring' \in Seq(Numbers) /\ Len(ring') <= RingSize
    <2>1. ring \in Seq(Numbers) /\ Len(ring) <= RingSize /\ Len(ring) \in Nat /\ RingSize \in Nat
        BY LenProperties DEF ServingRest, TrailBounds
    <2>2. CASE ring' = ring
        BY <2>1, <2>2
    <2>3. CASE ring' = Trail!Capped(Append(ring, notify[t].hash))
        <3>1. notify[t].hash \in Numbers
            BY <1>1 DEF ServingRest
        <3>2. PICK longer : longer = Append(ring, notify[t].hash)
            OBVIOUS
        <3>3. longer \in Seq(Numbers) /\ Len(longer) = Len(ring) + 1 /\ longer # <<>>
            BY <2>1, <3>1, <3>2, AppendProperties
        <3>4. Tail(longer) \in Seq(Numbers) /\ Len(Tail(longer)) = Len(ring)
            BY <2>1, <3>3, HeadTailProperties
        <3>5. ring' = IF Len(longer) > RingSize THEN Tail(longer) ELSE longer
            BY <2>3, <3>2 DEF Trail!Capped
        <3> QED BY <2>1, <3>3, <3>4, <3>5
    <2> QED BY <2>2, <2>3 DEF Trail!IntoRing
<1> QED BY <1>1, <1>2, <1>3 DEF ServingRest

LEMMA FanoutFits ==
    ASSUME TrailBounds, TrailInv, ServingRest, NEW t \in Threads, Trail!Fanout(t)
    PROVE  ServingRest'
<1>1. PICK n \in Numbers : n = notify[t].hash
    BY DEF Trail!Fanout, ServingRest
<1>2. /\ notify' = [notify EXCEPT ![t] = Trail!Quiet] /\ ring' = ring
      /\ client' = [c \in Clients |->
            IF client[c].at = "gone" THEN client[c]
            ELSE IF Len(client[c].queue) >= QueueSize THEN [client[c] EXCEPT !.full = TRUE]
            ELSE [client[c] EXCEPT !.queue = Append(@, n)]]
    BY <1>1 DEF Trail!Fanout, Trail!Registered
<1>3. /\ \A u \in Threads : notify'[u].hash \in 0..MaxMade
      /\ \A u \in Threads : notify'[u].at # "idle" => notify'[u].hash \in Numbers
    BY <1>2, ToldFits
<1>4. ASSUME NEW c \in Clients PROVE PageRest(client'[c])
    <2>1. PICK given : client[c] \in Page(given)
        BY DEF TrailInv, PagesTyped
    <2>2. PICK s \in Seq(Numbers) : s = client[c].queue
        BY DEF ServingRest, PageRest
    <2>3. Len(s) \in Nat /\ QueueSize \in Nat
        BY LenProperties DEF TrailBounds
    <2>4. CASE client'[c] = client[c]
        BY <2>4 DEF ServingRest
    <2>5. CASE client'[c] = [client[c] EXCEPT !.full = TRUE]
        <3>1. /\ client'[c].queue = client[c].queue /\ client'[c].got = client[c].got
              /\ client'[c].due = client[c].due
            BY <2>1, <2>5 DEF Page
        <3> QED BY <3>1 DEF ServingRest, PageRest
    <2>6. CASE client'[c] = [client[c] EXCEPT !.queue = Append(@, n)] /\ ~(Len(s) >= QueueSize)
        <3>1. /\ client'[c].queue = Append(s, n) /\ client'[c].got = client[c].got
              /\ client'[c].due = client[c].due
            BY <2>1, <2>2, <2>6 DEF Page
        <3>2. Append(s, n) \in Seq(Numbers) /\ Len(Append(s, n)) = Len(s) + 1
            BY AppendProperties
        <3>3. Len(Append(s, n)) <= QueueSize
            BY <2>3, <2>6, <3>2
        <3> QED BY <3>1, <3>2, <3>3 DEF ServingRest, PageRest
    <2> QED BY <1>2, <2>2, <2>4, <2>5, <2>6
<1> QED BY <1>2, <1>3, <1>4 DEF ServingRest


LEMMA HandlerFits ==
    ASSUME TrailBounds, TrailInv, ServingRest, NEW c \in Clients,
           Trail!Connect(c) \/ Trail!Replay(c) \/ Trail!Stream(c) \/ Trail!Disconnect(c)
    PROVE  ServingRest'
<1>1. PICK given : client[c] \in Page(given)
    BY DEF TrailInv, PagesTyped
<1>2. UNCHANGED <<notify, ring>> /\ DOMAIN client = Clients
    BY DEF Trail!Connect, Trail!Replay, Trail!Stream, Trail!Disconnect, TrailInv, PagesTyped
<1>3. PageRest(client[c])
    BY DEF ServingRest
<1>4. ASSUME NEW page, client' = [client EXCEPT ![c] = page], PageRest(page) PROVE ServingRest'
    BY <1>2, <1>4 DEF ServingRest
<1>5. CASE Trail!Connect(c)
    <2>1. PICK page : page = [client[c] EXCEPT !.at = "registered"]
        OBVIOUS
    <2>2. client' = [client EXCEPT ![c] = page]
        BY <1>5, <2>1 DEF Trail!Connect
    <2>3. page.queue = client[c].queue /\ page.got = client[c].got /\ page.due = client[c].due
        BY <1>1, <2>1 DEF Page
    <2> QED BY <1>3, <1>4, <2>2, <2>3 DEF PageRest
<1>6. CASE Trail!Replay(c)
    <2>1. PICK page : page = [client[c] EXCEPT !.at = "live", !.got = @ \cup Trail!ToSet(ring)]
        OBVIOUS
    <2>2. client' = [client EXCEPT ![c] = page]
        BY <1>6, <2>1 DEF Trail!Replay
    <2>3. /\ page.queue = client[c].queue /\ page.due = client[c].due
          /\ page.got = client[c].got \cup Trail!ToSet(ring)
        BY <1>1, <2>1 DEF Page
    <2>4. Trail!ToSet(ring) \subseteq Numbers
        BY LenProperties, ElementOfSeq DEF ServingRest, Trail!ToSet
    <2> QED BY <1>3, <1>4, <2>2, <2>3, <2>4 DEF PageRest
<1>7. CASE Trail!Stream(c)
    <2>1. PICK s \in Seq(Numbers) : s = client[c].queue /\ s # <<>>
        BY <1>3, <1>7 DEF Trail!Stream, PageRest
    <2>2. PICK page : page = [client[c] EXCEPT !.queue = Tail(s), !.got = @ \cup {Head(s)}]
        OBVIOUS
    <2>3. client' = [client EXCEPT ![c] = page]
        BY <1>7, <2>1, <2>2 DEF Trail!Stream
    <2>4. /\ page.queue = Tail(s) /\ page.due = client[c].due
          /\ page.got = client[c].got \cup {Head(s)}
        BY <1>1, <2>2 DEF Page
    <2>5. Tail(s) \in Seq(Numbers) /\ Len(Tail(s)) = Len(s) - 1 /\ Head(s) \in Numbers
        BY <2>1, HeadTailProperties
    <2>6. Len(Tail(s)) <= QueueSize
        <3>1. Len(s) \in Nat /\ QueueSize \in Nat /\ Len(s) <= QueueSize
            BY <1>3, <2>1, LenProperties DEF TrailBounds, PageRest
        <3> QED BY <2>5, <3>1
    <2> QED BY <1>3, <1>4, <2>3, <2>4, <2>5, <2>6 DEF PageRest
<1>8. CASE Trail!Disconnect(c)
    BY <1>4, <1>8, GoneIsFit DEF Trail!Disconnect
<1> QED BY <1>5, <1>6, <1>7, <1>8

LEMMA RestartFits ==
    ASSUME TrailBounds, ChainInv, LogRest, Trail!Restart
    PROVE  ServingRest'
<1>1. PICK n : n = Len(lines)
    OBVIOUS
<1>2. n \in Nat /\ RingSize \in Nat /\ MaxMade \in Nat
    BY <1>1, LenProperties DEF TrailBounds, ChainInv, LinesFit
<1>3. PICK first : first = IF n > RingSize THEN n - RingSize + 1 ELSE 1
    OBVIOUS
<1> first \in Int /\ 1 <= first /\ n - first + 1 <= RingSize
    <2>1. CASE n > RingSize
        BY <1>2, <1>3, <2>1
    <2>2. CASE ~(n > RingSize)
        BY <1>2, <1>3, <2>2
    <2> QED BY <2>1, <2>2
<1>4. PICK last : last = SubSeq(lines, first, n)
    OBVIOUS
<1>5. \A i \in first..n : i \in 1..n /\ lines[i] \in made \cup {Trail!Corrupt}
    <2>1. \A i \in first..n : i \in 1..n
        BY <1>2, <1>3
    <2> QED BY <1>1, <2>1, ElementOfSeq DEF ChainInv, LinesFit
<1>6. /\ last \in Seq(made \cup {Trail!Corrupt})
      /\ Len(last) = IF first <= n THEN n - first + 1 ELSE 0
    BY <1>2, <1>4, <1>5, SubSeqProperties
<1>7. Len(last) \in Nat /\ Len(last) <= RingSize
    <2>1. CASE first <= n
        BY <1>2, <1>6, <2>1
    <2>2. CASE ~(first <= n)
        BY <1>2, <1>6, <2>2
    <2> QED BY <2>1, <2>2
<1>8. ASSUME NEW i \in 1..Len(last)
      PROVE  last[i] = Trail!Corrupt \/ last[i].hash \in Numbers
    <2>1. last[i] \in made \cup {Trail!Corrupt}
        BY <1>6, ElementOfSeq
    <2>2. \A r \in made : r.hash \in Numbers
        <3>1. Cardinality(made) \in Nat /\ Cardinality(made) <= MaxMade
            BY FS_CardinalityType DEF ChainInv, RecordsFit, LogRest
        <3> QED BY <1>2, <3>1 DEF ChainInv, RecordsFit, Numbers
    <2> QED BY <2>1, <2>2
<1>9. ring' = Trail!Seeded(last)
    BY <1>1, <1>3, <1>4 DEF Trail!Restart
<1>10. /\ Trail!Seeded(last) \in Seq(Numbers)
       /\ Len(Trail!Seeded(last)) <= Len(last)
    BY <1>7, <1>8, SeededIs
<1>11. Len(ring') <= RingSize
    <2>1. Len(Trail!Seeded(last)) \in Nat
        BY <1>10, LenProperties
    <2> QED BY <1>2, <1>7, <1>9, <1>10, <2>1
<1>12. /\ notify' = [t \in Threads |-> Trail!Quiet]
       /\ client' = [c \in Clients |-> Trail!Gone]
    BY DEF Trail!Restart
<1> QED BY <1>2, <1>9, <1>10, <1>11, <1>12, GoneIsFit DEF ServingRest, Trail!Quiet

LEMMA ServingRestKeeps ==
    ASSUME TrailBounds, TrailInv, ChainInv, TrailRest, [Trail!Next]_(Trail!vars)
    PROVE  ServingRest'
<1>1. LogRest /\ ServingRest
    BY DEF TrailRest
<1>2. CASE Trail!StartDashboard
    BY <1>1, <1>2 DEF Trail!StartDashboard, ServingRest
<1>3. CASE Trail!StopDashboard
    BY <1>1, <1>3, GoneIsFit DEF Trail!StopDashboard, ServingRest
<1>4. CASE UNCHANGED Trail!vars
    BY <1>1, <1>4 DEF Trail!vars, ServingRest
<1> QED
    BY <1>1, <1>2, <1>3, <1>4, AppendRecordFits, IntoRingFits, FanoutFits, HandlerFits,
       RestartFits
    DEF Trail!Next

LEMMA TrailRestInit == ASSUME TrailBounds, Trail!Init PROVE TrailRest
<1>1. LogRest
    <2>1. made = {} /\ unended = FALSE /\ seq = 0 /\ tail = 0 /\ restarts = 0
        BY DEF Trail!Init
    <2>2. Cardinality(made) = 0
        BY <2>1, FS_EmptySet
    <2>3. 0 \in 0..0 /\ 0 \in 0..MaxRestarts /\ 0 <= MaxMade
        BY DEF TrailBounds
    <2> QED BY <2>1, <2>2, <2>3 DEF LogRest
<1>2. ServingRest
    <2>1. ring = <<>> /\ notify = [t \in Threads |-> Trail!Quiet]
          /\ client = [c \in Clients |-> Trail!Gone]
        BY DEF Trail!Init
    <2>2. ring \in Seq(Numbers) /\ Len(ring) <= RingSize
        BY <2>1, EmptySeq DEF TrailBounds
    <2>3. 0 \in 0..MaxMade
        BY DEF TrailBounds
    <2>4. \A t \in Threads : notify[t].at = "idle" /\ notify[t].hash = 0
        BY <2>1 DEF Trail!Quiet
    <2>5. \A c \in Clients : PageRest(client[c])
        BY <2>1, GoneIsFit
    <2> QED BY <2>2, <2>3, <2>4, <2>5 DEF ServingRest
<1> QED BY <1>1, <1>2 DEF TrailRest

LEMMA TrailTypeOK == ASSUME TrailBounds PROVE Trail!Spec => []Trail!TypeOK
<1>1. Trail!Init => TrailInv /\ TrailRest
    BY TrailInitInv, TrailRestInit
<1>2. TrailInv /\ ChainInv /\ TrailRest /\ [Trail!Next]_(Trail!vars) => TrailInv' /\ TrailRest'
    BY TrailNextKeeps, LogRestKeeps, ServingRestKeeps DEF TrailRest
<1>3. ASSUME TrailInv, ChainInv, TrailRest PROVE Trail!TypeOK
    <2>1. Cardinality(made) \in Nat /\ Cardinality(made) <= MaxMade /\ MaxMade \in Nat
        BY <1>3, FS_CardinalityType DEF ChainInv, RecordsFit, TrailRest, LogRest, TrailBounds
    <2>2. \A i \in 1..Len(lines) : lines[i] \in made \cup {Trail!Corrupt}
        BY <1>3, ElementOfSeq DEF ChainInv, LinesFit
    <2>3. seq \in 0..MaxMade /\ tail \in 0..MaxMade
        BY <1>3, <2>1 DEF TrailRest, LogRest
    <2>4. notify \in [Threads -> [at : {"idle", "ring", "fanout"}, hash : 0..MaxMade]]
        <3>1. \A t \in Threads : notify[t] \in [at : {"idle", "ring", "fanout"}, hash : Nat]
                                 /\ notify[t].hash \in 0..MaxMade
            BY <1>3 DEF TrailInv, PagesTyped, TrailRest, ServingRest
        <3>2. \A t \in Threads : notify[t] \in [at : {"idle", "ring", "fanout"}, hash : 0..MaxMade]
            BY <3>1
        <3> QED BY <1>3, <3>2 DEF TrailInv, PagesTyped
    <2>5. ASSUME NEW c \in Clients
          PROVE  /\ client[c].at \in {"gone", "registered", "live"}
                 /\ Len(client[c].queue) <= QueueSize
                 /\ client[c].got \cup client[c].due \subseteq 1..MaxMade
                 /\ client[c].full \in BOOLEAN
        <3>1. PICK given : client[c] \in Page(given)
            BY <1>3 DEF TrailInv, PagesTyped
        <3>2. client[c].at \in {"gone", "registered", "live"} /\ client[c].full \in BOOLEAN
            BY <3>1 DEF Page
        <3>3. PageRest(client[c])
            BY <1>3 DEF TrailRest, ServingRest
        <3> QED BY <3>2, <3>3 DEF PageRest, Numbers
    <2>6. ring \in Seq(1..MaxMade) /\ Len(ring) <= RingSize
        BY <1>3 DEF TrailRest, ServingRest, Numbers
    <2>7. unended \in BOOLEAN /\ restarts \in 0..MaxRestarts /\ damaged \in BOOLEAN
          /\ following \in BOOLEAN
        BY <1>3 DEF TrailRest, LogRest, ChainInv, TrailInv, PagesTyped
    <2> QED BY <2>2, <2>3, <2>4, <2>5, <2>6, <2>7 DEF Trail!TypeOK
<1> QED BY <1>1, <1>2, <1>3, ChainStays, PTL DEF Trail!Spec


-----------------------------------------------------------------------------
(* The four parts together: each behaves as it does alone.                   *)
LEMMA PartsStep ==
    ASSUME [PartsNext]_PartsVars
    PROVE  /\ [Next]_vars /\ [Spatial!Next]_(Spatial!vars)
           /\ [Asking!Next]_(Asking!vars) /\ [Trail!Next]_(Trail!vars)
<1>1. UNCHANGED spatialVars => UNCHANGED Spatial!vars
    BY DEF spatialVars, Spatial!vars
<1>2. UNCHANGED askingVars => UNCHANGED Asking!vars
    BY DEF askingVars, Asking!vars, Asking!asking, Asking!history
<1>3. UNCHANGED trailVars => UNCHANGED Trail!vars
    BY DEF trailVars, Trail!vars, Trail!log
<1>4. CASE UNCHANGED PartsVars
    BY <1>1, <1>2, <1>3, <1>4 DEF PartsVars
<1>5. CASE PartsNext
    BY <1>1, <1>2, <1>3, <1>5 DEF PartsNext
<1> QED BY <1>4, <1>5

LEMMA EachAlone == PartsSpec => Spec /\ Spatial!Spec /\ Asking!Spec /\ Trail!Spec
<1>1. PartsInit => Init /\ Spatial!Init /\ Asking!Init /\ Trail!Init
    BY DEF PartsInit
<1>2. [PartsNext]_PartsVars => /\ [Next]_vars /\ [Spatial!Next]_(Spatial!vars)
                               /\ [Asking!Next]_(Asking!vars) /\ [Trail!Next]_(Trail!vars)
    BY PartsStep
<1> QED BY <1>1, <1>2, PTL DEF PartsSpec, Spec, Spatial!Spec, Asking!Spec, Trail!Spec

\* What the four parts need of the sizes they are given.
PartsBounds == IsFiniteSet(Asked) /\ MaxLost \in Nat /\ TrailBounds

(* The store, the index, the requests and the audit trail keep their types,  *)
(* whichever of them runs, for finitely many peers and any sizes of the      *)
(* ring, the queues and the world (Parts.tla: PartsTypeOK).                  *)
THEOREM PartsTypes ==
    ASSUME PartsBounds
    PROVE  PartsSpec => []PartsTypeOK
<1>1. IInv => TypeOK
    BY DEF IInv
<1>2. SpatialInv => Spatial!TypeOK
    BY DEF SpatialInv
<1>3. Asking!Spec => []Asking!TypeOK
    BY AskingTypeOK DEF PartsBounds
<1>4. Trail!Spec => []Trail!TypeOK
    BY TrailTypeOK DEF PartsBounds
<1>5. TypeOK /\ Spatial!TypeOK /\ Asking!TypeOK /\ Trail!TypeOK => PartsTypeOK
    BY DEF PartsTypeOK
<1> QED
    BY <1>1, <1>2, <1>3, <1>4, <1>5, Invariance, SpatialStaysInv, EachAlone, PTL

(* Beside each other the parts keep every promise they keep alone: the       *)
(* store's maps agree and its keys read first, the index answers as the set  *)
(* it stands for, a full answer is exact, verify is quiet and notices        *)
(* losses, and a page misses nothing (Parts.tla: PartsNext).                 *)
THEOREM SideBySide ==
    ASSUME IsFiniteSet(Asked)
    PROVE  PartsSpec => /\ [](MapsAgree /\ SphereIsExact /\ FullAnswer)
                        /\ [](VerifyIsQuiet /\ LossIsNoticed /\ ClientsMissNothing)
                        /\ KeysReadFirst /\ IndexIsASet
<1>1. Asking!Spec => []FullAnswer
    BY AnswersInFull
<1> QED
    BY <1>1, EachAlone, MapsAlwaysAgree, ReadsAsFirstWriter, QueriesAreExact, IndexActsAsASet,
       VerifyStaysQuiet, LossStaysNoticed, PagesMissNothing, PTL
=============================================================================
