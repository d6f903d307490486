------------------------------- MODULE Outbox -------------------------------
(***************************************************************************)
(* OutboxStore (store_forward.py): the write-ahead log that keeps every    *)
(* at-least-once message until its ack arrives.                            *)
(*                                                                         *)
(* The store is called by several threads at once (the application thread  *)
(* that sends, the network thread that handles acks, whoever compacts).    *)
(* Its dictionary is guarded by _lock, but the lines that enqueue and      *)
(* mark_done append to the log are written AFTER the lock is released, so  *)
(* each of those calls is two steps here and anything may come between.    *)
(*                                                                         *)
(* Data abstraction: replay lets a later line for an id override the       *)
(* earlier ones and lines of different ids never interact, so the log is   *)
(* the last readable line of every id (lastLine) plus whether the file     *)
(* ends in a partial line (tail).  Frames, peers and metadata are carried  *)
(* by the line that names the id.                                          *)
(***************************************************************************)
EXTENDS Naturals, FiniteSets

CONSTANTS
    Ids,         \* message ids; protocol.new_msg_id draws a fresh one per message
    Threads,     \* threads that call the store
    MaxPending,  \* max_pending, the capacity of the store
    MaxFaults    \* bound: how many appends may fail or be cut short

ASSUME CapacityAssumption == MaxPending \in Nat \ {0}
ASSUME FaultAssumption == MaxFaults \in Nat

VARIABLES
    pending,     \* keys of _pending
    lastLine,    \* the last readable log line that names each id
    tail,        \* "torn" when the log ends in a partial line without its newline
    call,        \* the call each thread is in
    offered,     \* history: ids some enqueue was called with
    accepted,    \* history: ids whose enqueue returned True
    acked,       \* history: ids some mark_done removed from _pending
    settled,     \* history: ids whose mark_done returned True
    overtaken,   \* history: ids marked done before their own line was written
    faults       \* appends that failed so far

memory == <<pending, call>>
log == <<lastLine, tail>>
history == <<offered, accepted, acked, settled, overtaken, faults>>
vars == <<memory, log, history>>

Lines == {"none", "put", "done"}
Ops == {"idle", "enqueue", "mark_done", "compact"}
Call == [op : Ops, ids : SUBSET Ids]
Idle == [op |-> "idle", ids |-> {}]

\* What _replay rebuilds from the log: the last readable line wins, and a
\* line that does not parse is skipped.
Replayed == {i \in Ids : lastLine[i] = "put"}

TypeOK ==
    /\ lastLine \in [Ids -> Lines]
    /\ tail \in {"whole", "torn"}
    /\ call \in [Threads -> Call]
    /\ offered \subseteq Ids
    /\ pending \cup Replayed \cup accepted \cup acked \subseteq offered
    /\ settled \cup overtaken \subseteq acked
    /\ faults \in 0..MaxFaults

-----------------------------------------------------------------------------
(* Helpers.                                                                *)

\* Ids whose op-call has done its locked part and has not appended yet.
InFlight(op) == UNION {call[t].ids : t \in {u \in Threads : call[u].op = op}}

\* compact is the only operation whose locked part spans file operations.
BrokenLockFree == TRUE
LockFree == \A t \in Threads : call[t].op # "compact"

Begin(t, op, ids) == call' = [call EXCEPT ![t] = [op |-> op, ids |-> ids]]
Return(t) == call' = [call EXCEPT ![t] = Idle]

\* One append that reaches the file.  Glued to a partial line it forms one
\* unreadable line, which its newline ends.
AppendLine(i, line) ==
    /\ lastLine' = IF tail = "torn" THEN lastLine ELSE [lastLine EXCEPT ![i] = line]
    /\ tail' = "whole"
    /\ faults' = faults

\* One append that raises OSError, which is swallowed: the disk took nothing,
\* or a part of the line.
AppendFault ==
    /\ faults < MaxFaults
    /\ faults' = faults + 1
    /\ tail' \in {tail, "torn"}
    /\ lastLine' = lastLine

\* _append
WriteLine(i, line) == AppendLine(i, line) \/ AppendFault

-----------------------------------------------------------------------------
(* enqueue                                                                 *)

HasRoom(i) == Cardinality(pending) < MaxPending \/ i \in pending

Enqueue(t, i) ==
    /\ call[t] = Idle
    /\ LockFree
    /\ i \notin offered
    /\ HasRoom(i)
    /\ pending' = pending \cup {i}
    /\ offered' = offered \cup {i}
    /\ Begin(t, "enqueue", {i})
    /\ UNCHANGED <<log, accepted, acked, settled, overtaken, faults>>

\* At capacity enqueue returns False and its callers send without the store.
EnqueueRefused(t, i) ==
    /\ call[t] = Idle
    /\ LockFree
    /\ i \notin offered
    /\ ~HasRoom(i)
    /\ offered' = offered \cup {i}
    /\ UNCHANGED <<memory, log, accepted, acked, settled, overtaken, faults>>

EnqueueAppend(t) ==
    /\ call[t].op = "enqueue"
    /\ \E i \in call[t].ids :
        /\ WriteLine(i, "put")
        /\ accepted' = accepted \cup {i}
    /\ Return(t)
    /\ UNCHANGED <<pending, offered, acked, settled, overtaken>>

-----------------------------------------------------------------------------
(* mark_done: an ack for a message that was sent, by the thread that        *)
(* enqueued it or by the one that replays pending().                        *)

MarkDone(t, i) ==
    /\ call[t] = Idle
    /\ LockFree
    /\ i \in pending
    /\ pending' = pending \ {i}
    /\ acked' = acked \cup {i}
    /\ overtaken' = IF i \in InFlight("enqueue")
                    THEN overtaken \cup {i} ELSE overtaken
    /\ Begin(t, "mark_done", {i})
    /\ UNCHANGED <<log, offered, accepted, settled, faults>>

BrokenMarkDoneAppend(t) ==
    /\ call[t].op = "mark_done"
    /\ settled' = settled \cup call[t].ids
    /\ Return(t)
    /\ UNCHANGED <<pending, log, offered, accepted, acked, overtaken, faults>>
MarkDoneAppend(t) ==
    /\ call[t].op = "mark_done"
    /\ \E i \in call[t].ids :
        /\ WriteLine(i, "done")
        /\ settled' = settled \cup {i}
    /\ Return(t)
    /\ UNCHANGED <<pending, offered, accepted, acked, overtaken>>

-----------------------------------------------------------------------------
(* compact: snapshot, temporary file and os.replace, all under _lock.       *)

CompactSnapshot(t) ==
    /\ call[t] = Idle
    /\ LockFree
    /\ Begin(t, "compact", pending)
    /\ UNCHANGED <<pending, log, history>>

CompactReplace(t) ==
    /\ call[t].op = "compact"
    /\ lastLine' = [i \in Ids |-> IF i \in call[t].ids THEN "put" ELSE "none"]
    /\ tail' = "whole"
    /\ Return(t)
    /\ UNCHANGED <<pending, history>>

\* The temporary file could not be written: it is unlinked, the log stays.
BrokenCompactFail(t) ==
    /\ call[t].op = "compact"
    /\ lastLine' = [i \in Ids |-> "none"]
    /\ Return(t)
    /\ UNCHANGED <<pending, tail, history>>
CompactFail(t) ==
    /\ call[t].op = "compact"
    /\ Return(t)
    /\ UNCHANGED <<pending, log, history>>

-----------------------------------------------------------------------------
(* A crash ends every call; the next process replays the log.  A crash in   *)
(* the middle of an append leaves a partial line.                           *)

CutShort ==
    /\ InFlight("enqueue") \cup InFlight("mark_done") # {}
    /\ AppendFault
Restart ==
    /\ \/ CutShort
       \/ UNCHANGED <<log, faults>>
    /\ pending' = Replayed
    /\ call' = [t \in Threads |-> Idle]
    /\ UNCHANGED <<offered, accepted, acked, settled, overtaken>>

-----------------------------------------------------------------------------
Init ==
    /\ pending = {}
    /\ lastLine = [i \in Ids |-> "none"]
    /\ tail = "whole"
    /\ call = [t \in Threads |-> Idle]
    /\ offered = {}
    /\ accepted = {}
    /\ acked = {}
    /\ settled = {}
    /\ overtaken = {}
    /\ faults = 0

ThreadStep(t) ==
    \/ \E i \in Ids : Enqueue(t, i) \/ EnqueueRefused(t, i) \/ MarkDone(t, i)
    \/ EnqueueAppend(t)
    \/ MarkDoneAppend(t)
    \/ CompactSnapshot(t)
    \/ CompactReplace(t)
    \/ CompactFail(t)

Next == Restart \/ \E t \in Threads : ThreadStep(t)

Spec == Init /\ [][Next]_vars

-----------------------------------------------------------------------------
(* Properties.                                                             *)

\* The promise of the write-ahead log (store_forward.py:5-10, enqueue "Persist
\* an unsent frame"): while the disk has not failed, a message whose enqueue
\* returned True and that no ack removed is rebuilt by a restart at any
\* moment, whatever enqueue, mark_done and compact were doing.
AcceptedIsDurable ==
    faults = 0 => accepted \ acked \subseteq Replayed

\* The other half (mark_done, "explicit done-marking"): while the disk has not
\* failed, a message whose mark_done returned never comes back, unless the ack
\* overtook the line its own enqueue was about to write.
SettledStaysDone ==
    faults = 0 => settled \cap Replayed \subseteq overtaken

\* A failed append costs at most two messages: its own line, and the next line,
\* which is glued to the partial one it left behind.
LossIsBounded ==
    Cardinality((accepted \ acked) \ Replayed) <= 2 * faults

=============================================================================
