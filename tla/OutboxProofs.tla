---------------------------- MODULE OutboxProofs ----------------------------
(***************************************************************************)
(* Proofs about Outbox for every set of ids and threads and every capacity.*)
(***************************************************************************)
EXTENDS Outbox, FiniteSetTheorems, TLAPS

-----------------------------------------------------------------------------
(* Which calls can be in progress.  A compaction holds the lock, so its    *)
(* snapshot stays equal to _pending until os.replace; the id of a          *)
(* mark_done has left _pending; the id of an enqueue has left it only if   *)
(* an ack overtook the append.                                             *)

CompactingKeepsPending ==
    \A t \in Threads : call[t].op = "compact" => call[t].ids = pending

MarkedIdsAreAcked ==
    \A t \in Threads : call[t].op = "mark_done" =>
        call[t].ids \subseteq acked \ pending

QueuedIdsArePending ==
    \A t \in Threads : call[t].op = "enqueue" =>
        call[t].ids \subseteq pending \cup (overtaken \cap acked)

CallsAgree == CompactingKeepsPending /\ MarkedIdsAreAcked /\ QueuedIdsArePending

\* While the disk has not failed, memory and log agree on what is owed.
LogAgrees ==
    faults = 0 =>
        /\ tail = "whole"
        /\ accepted \ acked \subseteq pending \cap Replayed
        /\ settled \cap (pending \cup Replayed) \subseteq overtaken

Inv == TypeOK /\ CallsAgree /\ LogAgrees

-----------------------------------------------------------------------------
\* The initial state satisfies the inductive invariant.
LEMMA InitInv == Init => Inv
<1> SUFFICES ASSUME Init
             PROVE  Inv
    OBVIOUS
<1>1. Idle \in Call
    BY DEF Idle, Call, Ops
<1>2. TypeOK
    BY <1>1, FaultAssumption DEF Init, TypeOK, Lines, Replayed
<1>3. CallsAgree
    BY DEF Init, Idle, CallsAgree, CompactingKeepsPending, MarkedIdsAreAcked,
           QueuedIdsArePending
<1>4. LogAgrees
    BY DEF Init, LogAgrees, Replayed
<1>5. QED
    BY <1>2, <1>3, <1>4 DEF Inv

\* A call begins with an operation and a set of ids, and returns to idle.
LEMMA BeginType ==
    ASSUME TypeOK, NEW t \in Threads, NEW op \in Ops, NEW S \in SUBSET Ids,
           Begin(t, op, S)
    PROVE  call' \in [Threads -> Call]
<1>1. [op |-> op, ids |-> S] \in Call
    BY DEF Call
<1>2. QED
    BY <1>1 DEF TypeOK, Begin

LEMMA ReturnType ==
    ASSUME TypeOK, NEW t \in Threads, Return(t)
    PROVE  call' \in [Threads -> Call]
<1>1. Idle \in Call
    BY DEF Idle, Call, Ops
<1>2. QED
    BY <1>1 DEF TypeOK, Return

\* An append leaves a log and a fault count within its bound.
LEMMA AppendFaultType ==
    ASSUME TypeOK, AppendFault
    PROVE  /\ lastLine' \in [Ids -> Lines]
           /\ tail' \in {"whole", "torn"}
           /\ faults' \in 0..MaxFaults
<1>2. tail' \in {"whole", "torn"}
    BY DEF AppendFault, TypeOK
<1>3. faults' \in 0..MaxFaults
    BY FaultAssumption DEF AppendFault, TypeOK
<1>4. QED
    BY <1>2, <1>3 DEF AppendFault, TypeOK

LEMMA WriteLineType ==
    ASSUME TypeOK, NEW i \in Ids, NEW line \in Lines, WriteLine(i, line)
    PROVE  /\ lastLine' \in [Ids -> Lines]
           /\ tail' \in {"whole", "torn"}
           /\ faults' \in 0..MaxFaults
           /\ Replayed' \subseteq Replayed \cup {i}
<1>1. CASE AppendLine(i, line)
    <2>1. lastLine' \in [Ids -> Lines]
        BY <1>1 DEF AppendLine, TypeOK
    <2>2. tail' \in {"whole", "torn"}
        BY <1>1 DEF AppendLine
    <2>3. faults' \in 0..MaxFaults
        BY <1>1 DEF AppendLine, TypeOK
    <2>4. Replayed' \subseteq Replayed \cup {i}
        BY <1>1 DEF AppendLine, TypeOK, Replayed
    <2>5. QED
        BY <2>1, <2>2, <2>3, <2>4
<1>2. CASE AppendFault
    <2>1. Replayed' = Replayed
        BY <1>2 DEF AppendFault, Replayed
    <2>2. QED
        BY <1>2, <2>1, AppendFaultType
<1>3. QED
    BY <1>1, <1>2 DEF WriteLine

\* Every variable keeps its type: the store never invents an id.
LEMMA TypeStep == TypeOK /\ CallsAgree /\ [Next]_vars => TypeOK'
<1> SUFFICES ASSUME TypeOK, CallsAgree, [Next]_vars
             PROVE  TypeOK'
    OBVIOUS
<1> USE DEF TypeOK, Ops, Lines, Replayed
<1>1. ASSUME NEW t \in Threads, NEW i \in Ids, Enqueue(t, i)
      PROVE  TypeOK'
    BY <1>1, BeginType DEF Enqueue, log
<1>2. ASSUME NEW t \in Threads, NEW i \in Ids, EnqueueRefused(t, i)
      PROVE  TypeOK'
    BY <1>2 DEF EnqueueRefused, log, memory
<1>3. ASSUME NEW t \in Threads, NEW i \in Ids, MarkDone(t, i)
      PROVE  TypeOK'
    BY <1>3, BeginType DEF MarkDone, log
<1>4. ASSUME NEW t \in Threads, EnqueueAppend(t)
      PROVE  TypeOK'
    <2>1. PICK i \in call[t].ids : WriteLine(i, "put") /\ accepted' = accepted \cup {i}
        BY <1>4 DEF EnqueueAppend
    <2>2. i \in Ids /\ i \in offered
        BY <1>4, <2>1 DEF EnqueueAppend, CallsAgree, QueuedIdsArePending
    <2>3. /\ lastLine' \in [Ids -> Lines]
          /\ tail' \in {"whole", "torn"}
          /\ faults' \in 0..MaxFaults
          /\ Replayed' \subseteq Replayed \cup {i}
        BY <2>1, <2>2, WriteLineType
    <2>4. QED
        BY <1>4, <2>1, <2>2, <2>3, ReturnType DEF EnqueueAppend
<1>5. ASSUME NEW t \in Threads, MarkDoneAppend(t)
      PROVE  TypeOK'
    <2>1. PICK i \in call[t].ids : WriteLine(i, "done") /\ settled' = settled \cup {i}
        BY <1>5 DEF MarkDoneAppend
    <2>2. i \in Ids /\ i \in acked
        BY <1>5, <2>1 DEF MarkDoneAppend, CallsAgree, MarkedIdsAreAcked
    <2>3. /\ lastLine' \in [Ids -> Lines]
          /\ tail' \in {"whole", "torn"}
          /\ faults' \in 0..MaxFaults
          /\ Replayed' \subseteq Replayed \cup {i}
        BY <2>1, <2>2, WriteLineType
    <2>4. QED
        BY <1>5, <2>1, <2>2, <2>3, ReturnType DEF MarkDoneAppend
<1>6. ASSUME NEW t \in Threads, CompactSnapshot(t)
      PROVE  TypeOK'
    BY <1>6, BeginType DEF CompactSnapshot, log, history
<1>7. ASSUME NEW t \in Threads, CompactReplace(t)
      PROVE  TypeOK'
    <2>1. call' \in [Threads -> Call] /\ call[t].ids = pending
        BY <1>7, ReturnType DEF CompactReplace, CallsAgree, CompactingKeepsPending
    <2>2. lastLine' \in [Ids -> Lines] /\ Replayed' \subseteq pending
        BY <1>7, <2>1 DEF CompactReplace
    <2>3. QED
        BY <1>7, <2>1, <2>2 DEF CompactReplace, history
<1>8. ASSUME NEW t \in Threads, CompactFail(t)
      PROVE  TypeOK'
    BY <1>8, ReturnType DEF CompactFail, log, history
<1>9. CASE Restart
    <2>1. lastLine' \in [Ids -> Lines] /\ tail' \in {"whole", "torn"} /\ faults' \in 0..MaxFaults
        BY <1>9, AppendFaultType DEF Restart, CutShort, log
    <2>2. Idle \in Call
        BY DEF Idle, Call
    <2>3. call' \in [Threads -> Call]
        BY <1>9, <2>2 DEF Restart
    <2>4. lastLine' = lastLine /\ pending' = Replayed
        BY <1>9 DEF Restart, CutShort, AppendFault, log
    <2>5. QED
        BY <1>9, <2>1, <2>3, <2>4 DEF Restart
<1>10. CASE UNCHANGED vars
    BY <1>10 DEF vars, memory, log, history
<1>11. QED
    BY <1>1, <1>2, <1>3, <1>4, <1>5, <1>6, <1>7, <1>8, <1>9, <1>10
    DEF Next, ThreadStep

\* The lock and the freshness of ids keep the calls in progress consistent.
LEMMA CallsStep == TypeOK /\ CallsAgree /\ [Next]_vars => CallsAgree'
<1> SUFFICES ASSUME TypeOK, CallsAgree, [Next]_vars
             PROVE  CallsAgree'
    OBVIOUS
<1> USE DEF TypeOK, Call, Ops, Idle, Begin, Return, CallsAgree,
            CompactingKeepsPending, MarkedIdsAreAcked, QueuedIdsArePending
<1>1. ASSUME NEW t \in Threads, NEW i \in Ids, Enqueue(t, i)
      PROVE  CallsAgree'
    BY <1>1 DEF Enqueue, LockFree
<1>2. ASSUME NEW t \in Threads, NEW i \in Ids, EnqueueRefused(t, i)
      PROVE  CallsAgree'
    BY <1>2 DEF EnqueueRefused, memory
<1>3. ASSUME NEW t \in Threads, NEW i \in Ids, MarkDone(t, i)
      PROVE  CallsAgree'
    <2>1. CompactingKeepsPending' /\ MarkedIdsAreAcked'
        BY <1>3 DEF MarkDone, LockFree
    <2>2. ASSUME NEW u \in Threads, call'[u].op = "enqueue"
          PROVE  call'[u].ids \subseteq pending' \cup (overtaken' \cap acked')
        <3>1. u # t /\ call[u].op = "enqueue" /\ call'[u] = call[u]
            BY <1>3, <2>2 DEF MarkDone
        <3>2. call[u].ids \subseteq InFlight("enqueue")
            BY <3>1 DEF InFlight
        <3>3. ASSUME NEW j \in call[u].ids
              PROVE  j \in pending' \cup (overtaken' \cap acked')
            BY <1>3, <3>1, <3>2, <3>3 DEF MarkDone
        <3>4. QED
            BY <3>1, <3>3
    <2>3. QED
        BY <2>1, <2>2
<1>4. ASSUME NEW t \in Threads, EnqueueAppend(t)
      PROVE  CallsAgree'
    BY <1>4 DEF EnqueueAppend
<1>5. ASSUME NEW t \in Threads, MarkDoneAppend(t)
      PROVE  CallsAgree'
    BY <1>5 DEF MarkDoneAppend
<1>6. ASSUME NEW t \in Threads, CompactSnapshot(t)
      PROVE  CallsAgree'
    BY <1>6 DEF CompactSnapshot, history
<1>7. ASSUME NEW t \in Threads, CompactReplace(t)
      PROVE  CallsAgree'
    BY <1>7 DEF CompactReplace, history
<1>8. ASSUME NEW t \in Threads, CompactFail(t)
      PROVE  CallsAgree'
    BY <1>8 DEF CompactFail, history
<1>9. CASE Restart
    BY <1>9 DEF Restart
<1>10. CASE UNCHANGED vars
    BY <1>10 DEF vars, memory, history
<1>11. QED
    BY <1>1, <1>2, <1>3, <1>4, <1>5, <1>6, <1>7, <1>8, <1>9, <1>10
    DEF Next, ThreadStep

\* One append: with a healthy disk it changes the last line of its id only.
LEMMA WriteLineEffect ==
    ASSUME TypeOK, NEW i \in Ids, NEW line \in Lines, WriteLine(i, line),
           faults' = 0
    PROVE  /\ faults = 0
           /\ tail' = "whole"
           /\ tail = "whole" => lastLine' = [lastLine EXCEPT ![i] = line]
  BY DEF WriteLine, AppendLine, AppendFault, TypeOK

\* The step that preserves the agreement of memory and log.
LEMMA LogStep == Inv /\ [Next]_vars => LogAgrees'
<1> SUFFICES ASSUME Inv, [Next]_vars, faults' = 0
             PROVE  /\ tail' = "whole"
                    /\ accepted' \ acked' \subseteq pending' \cap Replayed'
                    /\ settled' \cap (pending' \cup Replayed') \subseteq overtaken'
    BY DEF LogAgrees
<1> USE DEF Inv, LogAgrees
<1>1. ASSUME NEW t \in Threads, NEW i \in Ids, Enqueue(t, i)
      PROVE  LogAgrees'
    BY <1>1 DEF Enqueue, log, Replayed, TypeOK
<1>2. ASSUME NEW t \in Threads, NEW i \in Ids, EnqueueRefused(t, i)
      PROVE  LogAgrees'
    BY <1>2 DEF EnqueueRefused, log, memory, Replayed
<1>3. ASSUME NEW t \in Threads, NEW i \in Ids, MarkDone(t, i)
      PROVE  LogAgrees'
    BY <1>3 DEF MarkDone, log, Replayed, TypeOK
<1>4. ASSUME NEW t \in Threads, EnqueueAppend(t)
      PROVE  LogAgrees'
    <2>1. PICK i \in call[t].ids : WriteLine(i, "put") /\ accepted' = accepted \cup {i}
        BY <1>4 DEF EnqueueAppend
    <2>2. i \in Ids /\ i \in pending \cup (overtaken \cap acked)
        BY <1>4, <2>1 DEF EnqueueAppend, CallsAgree, QueuedIdsArePending, TypeOK, Call
    <2>3. faults = 0 /\ tail' = "whole" /\ lastLine' = [lastLine EXCEPT ![i] = "put"]
        BY <2>1, <2>2, WriteLineEffect DEF Lines
    <2>4. Replayed' = Replayed \cup {i}
        BY <2>2, <2>3 DEF Replayed, TypeOK
    <2>5. QED
        BY <1>4, <2>1, <2>2, <2>3, <2>4 DEF EnqueueAppend
<1>5. ASSUME NEW t \in Threads, MarkDoneAppend(t)
      PROVE  LogAgrees'
    <2>1. PICK i \in call[t].ids : WriteLine(i, "done") /\ settled' = settled \cup {i}
        BY <1>5 DEF MarkDoneAppend
    <2>2. i \in Ids /\ i \in acked \ pending
        BY <1>5, <2>1 DEF MarkDoneAppend, CallsAgree, MarkedIdsAreAcked, TypeOK, Call
    <2>3. faults = 0 /\ tail' = "whole" /\ lastLine' = [lastLine EXCEPT ![i] = "done"]
        BY <2>1, <2>2, WriteLineEffect DEF Lines
    <2>4. Replayed' = Replayed \ {i}
        BY <2>2, <2>3 DEF Replayed, TypeOK
    <2>5. QED
        BY <1>5, <2>1, <2>2, <2>3, <2>4 DEF MarkDoneAppend
<1>6. ASSUME NEW t \in Threads, CompactSnapshot(t)
      PROVE  LogAgrees'
    BY <1>6 DEF CompactSnapshot, log, history, Replayed
<1>7. ASSUME NEW t \in Threads, CompactReplace(t)
      PROVE  LogAgrees'
    <2>1. Replayed' = pending
        BY <1>7 DEF CompactReplace, Replayed, CallsAgree, CompactingKeepsPending,
                    TypeOK
    <2>2. QED
        BY <1>7, <2>1 DEF CompactReplace, history
<1>8. ASSUME NEW t \in Threads, CompactFail(t)
      PROVE  LogAgrees'
    BY <1>8 DEF CompactFail, log, history, Replayed
<1>9. CASE Restart
    BY <1>9 DEF Restart, CutShort, AppendFault, log, Replayed, TypeOK
<1>10. CASE UNCHANGED vars
    BY <1>10 DEF vars, memory, log, history, Replayed
<1>11. LogAgrees'
    BY <1>1, <1>2, <1>3, <1>4, <1>5, <1>6, <1>7, <1>8, <1>9, <1>10
    DEF Next, ThreadStep
<1>12. QED
    BY <1>11

LEMMA InvStep == Inv /\ [Next]_vars => Inv'
  BY TypeStep, CallsStep, LogStep DEF Inv

-----------------------------------------------------------------------------
\* Every variable of the store keeps its type: an id that is pending, on disk or
\* settled was offered to some enqueue (OutboxStore, store_forward.py:24-142).
THEOREM TypeCorrect == Spec => []TypeOK
<1>1. Inv => TypeOK
    BY DEF Inv
<1>2. QED
    BY InitInv, InvStep, <1>1, PTL DEF Spec

\* For any number of threads: while the disk has not failed, no interleaving of
\* enqueue, mark_done, compact and crashes loses an accepted message
\* (store_forward.py:81-142).
THEOREM Durability == Spec => []AcceptedIsDurable
<1>1. Inv => AcceptedIsDurable
    BY DEF Inv, LogAgrees, AcceptedIsDurable
<1>2. QED
    BY InitInv, InvStep, <1>1, PTL DEF Spec

\* For any number of threads: while the disk has not failed, a message whose
\* mark_done returned comes back only if that ack overtook the enqueue's own
\* append (store_forward.py:95-106).
THEOREM Settlement == Spec => []SettledStaysDone
<1>1. Inv => SettledStaysDone
    BY DEF Inv, LogAgrees, SettledStaysDone
<1>2. QED
    BY InitInv, InvStep, <1>1, PTL DEF Spec

-----------------------------------------------------------------------------
(* What failed appends cost.  A torn line will spoil the line after it, so *)
(* it counts as a loss to come; what is owed and in the log is in memory,  *)
(* so that no compaction takes it out of the log.                          *)

Missing == (accepted \ acked) \ Replayed
ToCome == IF tail = "torn" THEN 1 ELSE 0

OwedIsPending == (accepted \ acked) \cap Replayed \subseteq pending

LossInv ==
    /\ OwedIsPending
    /\ IsFiniteSet(Missing)
    /\ Cardinality(Missing) + ToCome <= 2 * faults

\* At most one more message is missing than before.
LEMMA OneMoreMissing ==
    ASSUME LossInv, NEW i, Missing' \subseteq Missing \cup {i}
    PROVE  /\ IsFiniteSet(Missing')
           /\ Cardinality(Missing) \in Nat
           /\ Cardinality(Missing') \in Nat
           /\ Cardinality(Missing') <= Cardinality(Missing) + 1
<1>1. IsFiniteSet(Missing) /\ Cardinality(Missing) \in Nat
    BY FS_CardinalityType DEF LossInv
<1> DEFINE grown == Missing \cup {i}
<1>2. /\ IsFiniteSet(grown)
      /\ Cardinality(grown) <= Cardinality(Missing) + 1
      /\ Cardinality(grown) \in Nat
    <2>1. /\ IsFiniteSet(grown)
          /\ Cardinality(grown) = IF i \in Missing THEN Cardinality(Missing)
                                  ELSE Cardinality(Missing) + 1
        BY <1>1, FS_AddElement
    <2>2. QED
        BY <1>1, <2>1, FS_CardinalityType
<1>3. IsFiniteSet(Missing') /\ Cardinality(Missing') <= Cardinality(grown)
    BY <1>2, FS_Subset
<1>4. Cardinality(Missing') \in Nat
    BY <1>3, FS_CardinalityType
<1>5. QED
    BY <1>1, <1>2, <1>3, <1>4

\* A step that loses nothing and tears no line.
LEMMA NothingLost ==
    ASSUME LossInv, TypeOK, Missing' \subseteq Missing, OwedIsPending',
           tail' \in {tail, "whole"}, faults' = faults
    PROVE  LossInv'
<1>1. IsFiniteSet(Missing) /\ Cardinality(Missing) \in Nat
    BY FS_CardinalityType DEF LossInv
<1>2. IsFiniteSet(Missing') /\ Cardinality(Missing') <= Cardinality(Missing)
    BY <1>1, FS_Subset
<1>3. Cardinality(Missing') \in Nat
    BY <1>2, FS_CardinalityType
<1>4. Cardinality(Missing') + ToCome' <= 2 * faults'
    BY <1>1, <1>2, <1>3 DEF LossInv, ToCome, TypeOK
<1>5. QED
    BY <1>2, <1>4 DEF LossInv

\* A failed append: one fault pays for the line and for the one it may spoil.
LEMMA FaultPays ==
    ASSUME LossInv, TypeOK, AppendFault, NEW i, Missing' \subseteq Missing \cup {i},
           OwedIsPending'
    PROVE  LossInv'
<1>1. /\ IsFiniteSet(Missing')
      /\ Cardinality(Missing) \in Nat
      /\ Cardinality(Missing') \in Nat
      /\ Cardinality(Missing') <= Cardinality(Missing) + 1
    BY OneMoreMissing
<1>2. faults \in Nat /\ faults' = faults + 1
    BY FaultAssumption DEF AppendFault, TypeOK
<1>3. ToCome' <= ToCome + 1 /\ ToCome \in Nat /\ ToCome' \in Nat
    BY DEF AppendFault, ToCome
<1>4. Cardinality(Missing') + ToCome' <= 2 * faults'
    <2>1. Cardinality(Missing) + ToCome <= 2 * faults
        BY DEF LossInv
    <2>2. QED
        BY <1>1, <1>2, <1>3, <2>1
<1>5. QED
    BY <1>1, <1>4 DEF LossInv

\* One append, whatever comes of it: the line of its id and no other may be
\* missing afterwards, and only if a fault pays for it or a torn line already has.
LEMMA AppendLoss ==
    ASSUME LossInv, TypeOK, NEW i \in Ids, NEW line \in Lines, WriteLine(i, line),
           Missing' \subseteq Missing \cup {i}, OwedIsPending',
           tail = "whole" /\ lastLine'[i] = line => Missing' \subseteq Missing
    PROVE  LossInv'
<1>1. CASE AppendFault
    BY <1>1, FaultPays
<1>2. CASE AppendLine(i, line) /\ tail = "torn"
    <2>1. /\ IsFiniteSet(Missing')
          /\ Cardinality(Missing) \in Nat
          /\ Cardinality(Missing') \in Nat
          /\ Cardinality(Missing') <= Cardinality(Missing) + 1
        BY OneMoreMissing
    <2>2. faults' = faults /\ ToCome = 1 /\ ToCome' = 0 /\ faults \in Nat
        BY <1>2, FaultAssumption DEF AppendLine, ToCome, TypeOK
    <2>3. Cardinality(Missing) + ToCome <= 2 * faults
        BY DEF LossInv
    <2>4. Cardinality(Missing') + ToCome' <= 2 * faults'
        BY <2>1, <2>2, <2>3
    <2>5. QED
        BY <2>1, <2>4 DEF LossInv
<1>3. CASE AppendLine(i, line) /\ tail = "whole"
    <2>1. lastLine'[i] = line /\ tail' = "whole" /\ faults' = faults
        BY <1>3 DEF AppendLine, TypeOK
    <2>2. QED
        BY <1>3, <2>1, NothingLost
<1>4. QED
    BY <1>1, <1>2, <1>3 DEF WriteLine, TypeOK

\* The last line of an id is the only one an append touches.
LEMMA AppendTouches ==
    ASSUME TypeOK, NEW i \in Ids, NEW line \in Lines, WriteLine(i, line)
    PROVE  /\ \A j \in Ids \ {i} : lastLine'[j] = lastLine[j]
           /\ lastLine'[i] \in {lastLine[i], line}
  BY DEF WriteLine, AppendLine, AppendFault, TypeOK

LEMMA LossStep == Inv /\ LossInv /\ [Next]_vars => LossInv'
<1> SUFFICES ASSUME Inv, LossInv, [Next]_vars
             PROVE  LossInv'
    OBVIOUS
<1>t. TypeOK /\ CallsAgree /\ OwedIsPending
    BY DEF Inv, LossInv
<1> USE DEF OwedIsPending, Missing, Replayed
<1>1. ASSUME NEW t \in Threads, NEW i \in Ids, Enqueue(t, i)
      PROVE  LossInv'
    <2>1. OwedIsPending' /\ Missing' \subseteq Missing /\ tail' = tail /\ faults' = faults
        BY <1>1, <1>t DEF Enqueue, log
    <2>2. QED
        BY <1>t, <2>1, NothingLost
<1>2. ASSUME NEW t \in Threads, NEW i \in Ids, EnqueueRefused(t, i)
      PROVE  LossInv'
    <2>1. OwedIsPending' /\ Missing' \subseteq Missing /\ tail' = tail /\ faults' = faults
        BY <1>2, <1>t DEF EnqueueRefused, log, memory
    <2>2. QED
        BY <1>t, <2>1, NothingLost
<1>3. ASSUME NEW t \in Threads, NEW i \in Ids, MarkDone(t, i)
      PROVE  LossInv'
    <2>1. OwedIsPending' /\ Missing' \subseteq Missing /\ tail' = tail /\ faults' = faults
        BY <1>3, <1>t DEF MarkDone, log
    <2>2. QED
        BY <1>t, <2>1, NothingLost
<1>4. ASSUME NEW t \in Threads, EnqueueAppend(t)
      PROVE  LossInv'
    <2>1. PICK i \in call[t].ids : WriteLine(i, "put") /\ accepted' = accepted \cup {i}
        BY <1>4 DEF EnqueueAppend
    <2>2. i \in Ids /\ i \in pending \cup acked
        BY <1>4, <1>t, <2>1 DEF EnqueueAppend, CallsAgree, QueuedIdsArePending, TypeOK, Call
    <2>3. /\ \A j \in Ids \ {i} : lastLine'[j] = lastLine[j]
          /\ lastLine'[i] \in {lastLine[i], "put"}
        BY <1>t, <2>1, <2>2, AppendTouches DEF Lines
    <2>4. pending' = pending /\ acked' = acked
        BY <1>4 DEF EnqueueAppend
    <2>5. OwedIsPending' /\ Missing' \subseteq Missing \cup {i}
        BY <1>t, <2>1, <2>2, <2>3, <2>4 DEF TypeOK
    <2>6. lastLine'[i] = "put" => Missing' \subseteq Missing
        BY <2>1, <2>2, <2>3, <2>4
    <2>7. QED
        BY <1>t, <2>1, <2>2, <2>5, <2>6, AppendLoss DEF Lines
<1>5. ASSUME NEW t \in Threads, MarkDoneAppend(t)
      PROVE  LossInv'
    <2>1. PICK i \in call[t].ids : WriteLine(i, "done")
        BY <1>5 DEF MarkDoneAppend
    <2>2. i \in Ids /\ i \in acked
        BY <1>5, <1>t, <2>1 DEF MarkDoneAppend, CallsAgree, MarkedIdsAreAcked, TypeOK, Call
    <2>3. /\ \A j \in Ids \ {i} : lastLine'[j] = lastLine[j]
          /\ lastLine'[i] \in {lastLine[i], "done"}
        BY <1>t, <2>1, <2>2, AppendTouches DEF Lines
    <2>4. pending' = pending /\ acked' = acked /\ accepted' = accepted
        BY <1>5 DEF MarkDoneAppend
    <2>5. OwedIsPending' /\ Missing' \subseteq Missing
        BY <1>t, <2>2, <2>3, <2>4 DEF TypeOK
    <2>6. Missing' \subseteq Missing \cup {i}
        BY <2>5
    <2>7. QED
        BY <1>t, <2>1, <2>2, <2>5, <2>6, AppendLoss DEF Lines
<1>6. ASSUME NEW t \in Threads, CompactSnapshot(t)
      PROVE  LossInv'
    <2>1. OwedIsPending' /\ Missing' \subseteq Missing /\ tail' = tail /\ faults' = faults
        BY <1>6, <1>t DEF CompactSnapshot, log, history
    <2>2. QED
        BY <1>t, <2>1, NothingLost
<1>7. ASSUME NEW t \in Threads, CompactReplace(t)
      PROVE  LossInv'
    <2>1. Replayed' = pending /\ pending' = pending
        BY <1>7, <1>t DEF CompactReplace, CallsAgree, CompactingKeepsPending, TypeOK
    <2>2. OwedIsPending' /\ Missing' \subseteq Missing
        BY <1>7, <1>t, <2>1 DEF CompactReplace, history
    <2>3. tail' = "whole" /\ faults' = faults
        BY <1>7 DEF CompactReplace, history
    <2>4. QED
        BY <1>t, <2>2, <2>3, NothingLost
<1>8. ASSUME NEW t \in Threads, CompactFail(t)
      PROVE  LossInv'
    <2>1. OwedIsPending' /\ Missing' \subseteq Missing /\ tail' = tail /\ faults' = faults
        BY <1>8, <1>t DEF CompactFail, log, history
    <2>2. QED
        BY <1>t, <2>1, NothingLost
<1>9. CASE Restart
    <2>1. lastLine' = lastLine
        BY <1>9 DEF Restart, CutShort, AppendFault, log
    <2>2. OwedIsPending' /\ Missing' \subseteq Missing
        BY <1>9, <2>1 DEF Restart
    <2>3. CASE CutShort
        BY <1>t, <2>2, <2>3, FaultPays DEF CutShort
    <2>4. CASE UNCHANGED <<log, faults>>
        BY <1>t, <2>2, <2>4, NothingLost DEF log
    <2>5. QED
        BY <1>9, <2>3, <2>4 DEF Restart
<1>10. CASE UNCHANGED vars
    <2>1. OwedIsPending' /\ Missing' \subseteq Missing /\ tail' = tail /\ faults' = faults
        BY <1>10, <1>t DEF vars, memory, log, history
    <2>2. QED
        BY <1>t, <2>1, NothingLost
<1>11. QED
    BY <1>1, <1>2, <1>3, <1>4, <1>5, <1>6, <1>7, <1>8, <1>9, <1>10
    DEF Next, ThreadStep

LEMMA InitLoss == Init => LossInv
<1> SUFFICES ASSUME Init
             PROVE  LossInv
    OBVIOUS
<1>1. Missing = {} /\ ToCome = 0 /\ faults = 0 /\ OwedIsPending
    BY DEF Init, Missing, ToCome, OwedIsPending
<1>2. QED
    BY <1>1, FS_EmptySet DEF LossInv

\* For any number of threads, crashes and failing appends: a failed append
\* costs at most two messages, its own and the one glued to the partial line it
\* left behind (store_forward.py:55-79).
THEOREM BoundedLoss == Spec => []LossIsBounded
<1>1. Inv /\ LossInv => LossIsBounded
    <2> SUFFICES ASSUME Inv, LossInv
                 PROVE  LossIsBounded
        OBVIOUS
    <2>1. Cardinality(Missing) \in Nat
        BY FS_CardinalityType DEF LossInv
    <2>2. faults \in Nat /\ ToCome \in Nat
        BY FaultAssumption DEF Inv, TypeOK, ToCome
    <2>3. Cardinality(Missing) <= 2 * faults
        BY <2>1, <2>2 DEF LossInv
    <2>4. QED
        BY <2>3 DEF LossIsBounded, Missing
<1>2. QED
    BY InitInv, InvStep, InitLoss, LossStep, <1>1, PTL DEF Spec
=============================================================================
