----------------------------- MODULE AuditTrail -----------------------------
(* AuditChain, the hash-chained log, and the DashboardServer that follows it. *)
(* A record's hash is its number among all records made, so two records never *)
(* share one; 0 is GENESIS_HASH.  Threads append, the process may end and be  *)
(* started again, and a line may fail to be written, whole or in part.        *)
EXTENDS Naturals, Sequences, FiniteSets, SequencesExt

CONSTANTS
    Threads,     \* the threads that append
    Clients,     \* the pages that stream events
    RingSize,    \* _events.maxlen
    QueueSize,   \* maxsize of a client's queue
    MaxMade,     \* bound: records made
    MaxRestarts  \* bound: restarts

VARIABLES
    lines,      \* the file: a record, or Corrupt, per line
    unended,    \* the last line has no newline
    seq, tail,  \* _seq, _tail
    made,       \* history: records made, each [seq, prev, hash, run]
    restarts,   \* how often the process was started again
    damaged,    \* history: a line was not written whole
    notify,     \* thread |-> the hash it has to tell the subscribers, and how far
    following,  \* the dashboard runs and its callback is subscribed
    ring,       \* _events
    client      \* client |-> where its handler is, its queue, and as history what
                \* its page got, what was made since, whether the queue was full

log == <<lines, unended, seq, tail, made, restarts, damaged>>
vars == <<log, notify, following, ring, client>>

Corrupt == [seq |-> 0, prev |-> 0, hash |-> 0, run |-> 0]
Quiet == [at |-> "idle", hash |-> 0]
Gone == [at |-> "gone", queue |-> <<>>, got |-> {}, due |-> {}, full |-> FALSE]
Capped(s) == IF Len(s) > RingSize THEN Tail(s) ELSE s
Readable == {i \in 1 .. Len(lines) : lines[i] # Corrupt}

Init ==
    /\ lines = <<>>
    /\ unended = FALSE
    /\ seq = 0
    /\ tail = 0
    /\ made = {}
    /\ restarts = 0
    /\ damaged = FALSE
    /\ notify = [t \in Threads |-> Quiet]
    /\ following = FALSE
    /\ ring = <<>>
    /\ client = [c \in Clients |-> Gone]

(* The file after text was added: what follows a line without a newline      *)
(* joins it, and the two are not JSON.                                       *)
Added(line, ended) ==
    /\ lines' = IF unended THEN [lines EXCEPT ![Len(lines)] = Corrupt] ELSE Append(lines, line)
    /\ unended' = ~ended

(* What comes of a write: the line, nothing, a part of it, or all of it but  *)
(* the newline.  The error is only logged.                                   *)
Written(record, damage) ==
    \/ Added(record, TRUE) /\ damage = FALSE
    \/ UNCHANGED <<lines, unended>> /\ damage = TRUE
    \/ Added(Corrupt, FALSE) /\ damage = TRUE
    \/ Added(record, FALSE) /\ damage = TRUE

(* A bug: the tail moves on when the line is in the file.                    *)
TailIfWritten(record) == IF lines' = lines THEN tail ELSE record.hash

(* append, under the lock: the record closes over the tail, and is the tail, *)
(* whatever comes of the write.                                              *)
NewTail(record) == record.hash

AppendRecord(t) ==
    LET record == [seq |-> seq + 1, prev |-> tail, hash |-> Cardinality(made) + 1,
                   run |-> restarts]
    IN  /\ notify[t].at = "idle"
        /\ Cardinality(made) < MaxMade
        /\ seq' = seq + 1
        /\ made' = made \cup {record}
        /\ \E damage \in BOOLEAN :
              Written(record, damage) /\ damaged' = (damaged \/ damage)
        /\ tail' = NewTail(record)
        /\ notify' = [notify EXCEPT ![t] = [at |-> "ring", hash |-> record.hash]]
        /\ client' = [c \in Clients |-> IF client[c].at = "gone" THEN Gone
                                        ELSE [client[c] EXCEPT !.due = @ \cup {record.hash}]]
        /\ UNCHANGED <<restarts, following, ring>>

(* The subscribers are told without the lock: _on_audit_record puts the      *)
(* record into the ring ...                                                  *)
IntoRing(t) ==
    /\ notify[t].at = "ring"
    /\ IF following
       THEN /\ ring' = Capped(Append(ring, notify[t].hash))
            /\ notify' = [notify EXCEPT ![t].at = "fanout"]
       ELSE /\ notify' = [notify EXCEPT ![t] = Quiet]
            /\ UNCHANGED ring
    /\ UNCHANGED <<log, following, client>>

(* A bug: a client is registered once its page has the ring.                 *)
RegisteredLate(c) == client[c].at = "live"

(* ... and _fanout into the queue of every registered client with room.      *)
Registered(c) == client[c].at # "gone"

Fanout(t) ==
    /\ notify[t].at = "fanout"
    /\ client' = [c \in Clients |->
          IF ~Registered(c) THEN client[c]
          ELSE IF Len(client[c].queue) >= QueueSize THEN [client[c] EXCEPT !.full = TRUE]
          ELSE [client[c] EXCEPT !.queue = Append(@, notify[t].hash)]]
    /\ notify' = [notify EXCEPT ![t] = Quiet]
    /\ UNCHANGED <<log, following, ring>>

(* _handle_events: a page registers, is given the ring, then its queue.      *)
Connect(c) ==
    /\ following
    /\ client[c].at = "gone"
    /\ client' = [client EXCEPT ![c].at = "registered"]
    /\ UNCHANGED <<log, notify, following, ring>>

Replay(c) ==
    /\ client[c].at = "registered"
    /\ client' = [client EXCEPT ![c].at = "live", ![c].got = @ \cup ToSet(ring)]
    /\ UNCHANGED <<log, notify, following, ring>>

Stream(c) ==
    /\ client[c].at = "live"
    /\ client[c].queue # <<>>
    /\ client' = [client EXCEPT ![c].queue = Tail(@),
                                ![c].got = @ \cup {Head(client[c].queue)}]
    /\ UNCHANGED <<log, notify, following, ring>>

Disconnect(c) ==
    /\ client[c].at # "gone"
    /\ client' = [client EXCEPT ![c] = Gone]
    /\ UNCHANGED <<log, notify, following, ring>>

StartDashboard ==
    /\ ~following
    /\ following' = TRUE
    /\ UNCHANGED <<log, notify, ring, client>>

(* stop takes the callback off the list and forgets the clients.             *)
StopDashboard ==
    /\ following
    /\ following' = FALSE
    /\ client' = [c \in Clients |-> Gone]
    /\ UNCHANGED <<log, notify, ring>>

(* A bug: the chain goes on from the first line.                             *)
TailOfFirst == IF lines = <<>> THEN 0 ELSE lines[1].hash

(* _load_existing: the largest number and the last hash that can be read.    *)
LastReadable == CHOOSE i \in Readable : \A j \in Readable : j <= i
LoadedTail == IF Readable = {} THEN 0 ELSE lines[LastReadable].hash
LoadedSeq == IF Readable = {} THEN 0
             ELSE CHOOSE n \in {lines[i].seq : i \in Readable} :
                      \A i \in Readable : lines[i].seq <= n

(* _seed_events: a new dashboard's ring, from lines of the file.             *)
Seeded(last) ==
    LET upto[i \in 0 .. Len(last)] ==
            IF i = 0 THEN <<>>
            ELSE IF last[i] = Corrupt THEN upto[i - 1]
            ELSE Append(upto[i - 1], last[i].hash)
    IN  upto[Len(last)]

(* The process ends, anywhere, and starts again, with a new dashboard that   *)
(* begins at the end of the file.                                            *)
Restart ==
    /\ restarts < MaxRestarts
    /\ restarts' = restarts + 1
    /\ seq' = LoadedSeq
    /\ tail' = LoadedTail
    /\ notify' = [t \in Threads |-> Quiet]
    /\ following' = FALSE
    /\ ring' = Seeded(SubSeq(lines, IF Len(lines) > RingSize THEN Len(lines) - RingSize + 1 ELSE 1,
                              Len(lines)))
    /\ client' = [c \in Clients |-> Gone]
    /\ UNCHANGED <<lines, unended, made, damaged>>

Next ==
    \/ \E t \in Threads : AppendRecord(t) \/ IntoRing(t) \/ Fanout(t)
    \/ \E c \in Clients : Connect(c) \/ Replay(c) \/ Stream(c) \/ Disconnect(c)
    \/ StartDashboard \/ StopDashboard \/ Restart

Spec == Init /\ [][Next]_vars
-----------------------------------------------------------------------------
TypeOK ==
    /\ \A i \in 1 .. Len(lines) : lines[i] \in made \cup {Corrupt}
    /\ unended \in BOOLEAN
    /\ seq \in 0 .. MaxMade
    /\ tail \in 0 .. MaxMade
    /\ restarts \in 0 .. MaxRestarts
    /\ damaged \in BOOLEAN
    /\ notify \in [Threads -> [at : {"idle", "ring", "fanout"}, hash : 0 .. MaxMade]]
    /\ following \in BOOLEAN
    /\ ring \in Seq(1 .. MaxMade) /\ Len(ring) <= RingSize
    /\ \A c \in Clients : /\ client[c].at \in {"gone", "registered", "live"}
                          /\ Len(client[c].queue) <= QueueSize
                          /\ client[c].got \cup client[c].due \subseteq 1 .. MaxMade
                          /\ client[c].full \in BOOLEAN

(* verify walks the file with the hash of the last line that was in order.   *)
Previous[i \in 0 .. Len(lines)] ==
    IF i = 0 THEN 0
    ELSE IF i \in Readable /\ lines[i].prev = Previous[i - 1] THEN lines[i].hash
    ELSE Previous[i - 1]

Linked(i) == i \in Readable /\ lines[i].prev = Previous[i - 1]
Problems ==
    {i \in 1 .. Len(lines) :
        ~Linked(i) \/ \E j \in 1 .. i - 1 : Linked(j) /\ lines[j].seq = lines[i].seq}

(* verify is quiet while every line was written whole: whatever the threads  *)
(* and restarts do, the chain goes on from the last line of the file.        *)
VerifyIsQuiet == ~damaged => Problems = {}

(* verify notices a loss: when a record is not in the file, and one that the *)
(* same process made later is, it finds a problem.                           *)
InFile(r) == \E i \in Readable : lines[i] = r
LossIsNoticed ==
    \A r, s \in made :
        r.hash < s.hash /\ r.run = s.run /\ ~InFile(r) /\ InFile(s) => Problems # {}

(* A page that has been given the ring has, or is still to be given, every   *)
(* record made since it registered, unless its queue was full once.          *)
ClientsMissNothing ==
    \A c \in Clients :
        client[c].at = "live" /\ ~client[c].full =>
            client[c].due \subseteq client[c].got \cup ToSet(client[c].queue)
                                   \cup {notify[t].hash : t \in Threads}
=============================================================================
