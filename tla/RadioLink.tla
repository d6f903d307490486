----------------------------- MODULE RadioLink ------------------------------
(* One direction of a narrow radio link: LoraTransport, or BluetoothTransport *)
(* in either mode, on the sending side, and the same class's receiving pump   *)
(* with its SegmentAssembler on the other side.  A frame waits in the outbox  *)
(* until a drain has written all its segments.  Two threads drain: the one    *)
(* that start() creates and any caller of poll(), such as the chain's.        *)
EXTENDS Naturals, Sequences, FiniteSets, SequencesExt

CONSTANTS
    Frames,      \* the frames offered, each with a message id of its own
    Class,       \* frame |-> the class in its header
    Pieces,      \* kind, frame |-> the segments the frame is cut into; 0 when
                 \* they are more than MAX_SEGMENTS and segment_frame raises
    Drainers,    \* the threads that drain
    MaxQueue,    \* max_queue
    MaxPending,  \* the assembler's max_pending
    Budget,      \* LoRa: segments one duty-cycle window has airtime for
    MaxFaults,   \* bound: losses on the air and failed writes
    MaxAir       \* bound: segments on the air

Kinds == {"lora", "ble", "rfcomm"}
CLASS_TASK == 2
CLASS_BULK == 3
Idle == [at |-> "idle", frame |-> CHOOSE f \in Frames : TRUE, next |-> 0]

VARIABLES
    kind,       \* which transport it is
    open,       \* the port has not been closed
    outbox,     \* _outbox
    drain,      \* drainer |-> its local state in _drain_outbox
    used,       \* _airtime_used, in segments
    air,        \* the segments written and not yet read
    order,      \* SegmentAssembler._order
    pending,    \* SegmentAssembler._pending: frame |-> segments held
    stale,      \* the keys whose entry is older than ttl_s
    faults,     \* losses and failed writes so far
    accepted,   \* history: the frames send_frame said True to
    written,    \* history: the segments written
    handed,     \* history: the frames handed to the subscribers
    broken,     \* history: frames that lost a segment or their entry
    overlapped  \* history: two drains have been under way at once

sender == <<open, outbox, drain, used, overlapped>>
receiver == <<order, pending, stale, handed>>
vars == <<kind, sender, air, receiver, faults, accepted, written, broken>>

Count(f) == Pieces[kind][f]
Segments(f) == {<<f, i>> : i \in 1 .. Count(f)}
Refuses(f) == Class[f] >= IF kind = "lora" THEN CLASS_TASK ELSE CLASS_BULK
Draining(d) == drain[d].at # "idle"

(* A fresh pair of transports.                                               *)
Init ==
    /\ kind \in Kinds
    /\ open = TRUE
    /\ outbox = <<>>
    /\ drain = [d \in Drainers |-> Idle]
    /\ used = 0
    /\ air = <<>>
    /\ order = <<>>
    /\ pending = [f \in Frames |-> {}]
    /\ stale = {}
    /\ faults = 0
    /\ accepted = {}
    /\ written = {}
    /\ handed = {}
    /\ broken = {}
    /\ overlapped = FALSE

(* send_frame; a frame is offered once.  A refusal changes nothing.          *)
SendFrame(f) ==
    /\ f \notin accepted
    /\ ~Refuses(f)
    /\ Len(outbox) < MaxQueue
    /\ outbox' = Append(outbox, f)
    /\ accepted' = accepted \cup {f}
    /\ UNCHANGED <<kind, open, drain, used, air, receiver, faults, written,
                   broken, overlapped>>

(* What a drain does once the segments before the i-th are written.          *)
Onward(f, i) ==
    [at |-> IF i > Count(f) THEN "pop" ELSE IF kind = "lora" THEN "budget" ELSE "write",
     frame |-> f, next |-> i]

(* _drain_outbox reads the head under the lock and cuts it.  A frame that    *)
(* cannot be cut raises out of the drain and stays the head.                 *)
ReadHead(d) ==
    /\ ~Draining(d)
    /\ outbox # <<>>
    /\ Count(Head(outbox)) > 0
    /\ drain' = [drain EXCEPT ![d] = Onward(Head(outbox), 1)]
    /\ overlapped' = (overlapped \/ \E e \in Drainers \ {d} : Draining(e))
    /\ UNCHANGED <<kind, open, outbox, used, air, receiver, faults, accepted,
                   written, broken>>

(* A bug: the check lets a segment through that the window has no room for.  *)
AirtimeOffByOne(d) ==
    /\ drain[d].at = "budget"
    /\ used <= Budget
    /\ drain' = [drain EXCEPT ![d].at = "consume"]
    /\ UNCHANGED <<kind, open, outbox, used, air, receiver, faults, accepted,
                   written, broken, overlapped>>

(* The budget check of one segment, read without the lock.                   *)
HasAirtime(d) ==
    /\ drain[d].at = "budget"
    /\ used < Budget
    /\ drain' = [drain EXCEPT ![d].at = "consume"]
    /\ UNCHANGED <<kind, open, outbox, used, air, receiver, faults, accepted,
                   written, broken, overlapped>>

(* No airtime: the drain returns and the next one starts over.               *)
OutOfAirtime(d) ==
    /\ drain[d].at = "budget"
    /\ used >= Budget
    /\ drain' = [drain EXCEPT ![d] = Idle]
    /\ UNCHANGED <<kind, open, outbox, used, air, receiver, faults, accepted,
                   written, broken, overlapped>>

Consume(d) ==
    /\ drain[d].at = "consume"
    /\ used' = used + 1
    /\ drain' = [drain EXCEPT ![d].at = "write"]
    /\ UNCHANGED <<kind, open, outbox, air, receiver, faults, accepted,
                   written, broken, overlapped>>

Write(d) ==
    LET f == drain[d].frame
        i == drain[d].next
    IN  /\ drain[d].at = "write"
        /\ open
        /\ Len(air) < MaxAir
        /\ air' = Append(air, <<f, i>>)
        /\ written' = written \cup {<<f, i>>}
        /\ drain' = [drain EXCEPT ![d] = Onward(f, i + 1)]
        /\ UNCHANGED <<kind, open, outbox, used, receiver, faults, accepted,
                       broken, overlapped>>

(* A bug: the error is logged and the drain goes on to the pop.              *)
PopsAfterFailure(d) ==
    /\ drain[d].at = "write"
    /\ open => faults < MaxFaults
    /\ faults' = IF open THEN faults + 1 ELSE faults
    /\ drain' = [drain EXCEPT ![d].at = "pop"]
    /\ UNCHANGED <<kind, open, outbox, used, air, receiver, accepted, written,
                   broken, overlapped>>

(* The port raises: always once it is closed.  The frame stays the head.     *)
WriteFails(d) ==
    /\ drain[d].at = "write"
    /\ open => faults < MaxFaults
    /\ faults' = IF open THEN faults + 1 ELSE faults
    /\ drain' = [drain EXCEPT ![d] = Idle]
    /\ UNCHANGED <<kind, open, outbox, used, air, receiver, accepted, written,
                   broken, overlapped>>

(* popleft takes whatever is the head now, and raises on an empty queue.     *)
Pop(d) ==
    /\ drain[d].at = "pop"
    /\ outbox' = IF outbox = <<>> THEN <<>> ELSE Tail(outbox)
    /\ drain' = [drain EXCEPT ![d] = Idle]
    /\ UNCHANGED <<kind, open, used, air, receiver, faults, accepted, written,
                   broken, overlapped>>

(* A bug: the window starts again and its airtime stays used.                *)
WindowKeepsUse == used > 0 /\ UNCHANGED vars

(* _reset_window_if_needed in the first check after the window has run out.  *)
WindowEnds ==
    /\ used > 0
    /\ used' = 0
    /\ UNCHANGED <<kind, open, outbox, drain, air, receiver, faults, accepted,
                   written, broken, overlapped>>

Stop ==
    /\ open
    /\ open' = FALSE
    /\ UNCHANGED <<kind, outbox, drain, used, air, receiver, faults, accepted,
                   written, broken, overlapped>>

(* A segment is lost on the air.                                             *)
Lose ==
    /\ air # <<>>
    /\ faults < MaxFaults
    /\ faults' = faults + 1
    /\ air' = Tail(air)
    /\ broken' = broken \cup {Head(air)[1]}
    /\ UNCHANGED <<kind, sender, receiver, accepted, written>>

(* An entry of the assembler outlives ttl_s.                                 *)
Expire(f) ==
    /\ f \in ToSet(order) \ stale
    /\ stale' = stale \cup {f}
    /\ UNCHANGED <<kind, sender, air, order, pending, handed, faults, accepted,
                   written, broken>>

(* The pump reads a frame that is not a segment: it passes the assembler.    *)
HandWhole ==
    /\ air # <<>>
    /\ LET f == Head(air)[1]
       IN  /\ Count(f) = 1
           /\ handed' = handed \cup {f}
    /\ air' = Tail(air)
    /\ UNCHANGED <<kind, sender, order, pending, stale, faults, accepted,
                   written, broken>>

(* The entry of a segment's frame is made if it is missing, and the oldest   *)
(* entries beyond max_pending go.                                            *)
OrderWith(f) ==
    LET grown == IF f \in ToSet(order) THEN order ELSE Append(order, f)
    IN  IF Len(grown) > MaxPending THEN Tail(grown) ELSE grown

HeldWith(f, i) ==
    [g \in Frames |-> IF g \notin ToSet(OrderWith(f)) THEN {}
                      ELSE IF g = f THEN pending[f] \cup {i} ELSE pending[g]]

(* _order.remove of every key that is gone.                                  *)
Without(keys, gone) ==
    LET Rest[i \in 0 .. Len(keys)] ==
            IF i = 0 THEN <<>>
            ELSE IF keys[i] \in gone THEN Rest[i - 1]
            ELSE Append(Rest[i - 1], keys[i])
    IN  Rest[Len(keys)]

(* A bug: a frame that is whole keeps its entry in the assembler.            *)
AddKeepsEntry ==
    /\ air # <<>>
    /\ LET f == Head(air)[1]
           held == HeldWith(f, Head(air)[2])
       IN  /\ Count(f) > 1
           /\ order' = OrderWith(f)
           /\ pending' = held
           /\ handed' = IF held[f] = 1 .. Count(f) THEN handed \cup {f} ELSE handed
           /\ broken' = broken \cup (ToSet(order) \ ToSet(OrderWith(f)))
    /\ air' = Tail(air)
    /\ UNCHANGED <<kind, sender, stale, faults, accepted, written>>

(* SegmentAssembler.add of a segment: either its frame is now whole and is   *)
(* handed on, or the stale entries are pruned.                               *)
AddSegment ==
    /\ air # <<>>
    /\ LET f == Head(air)[1]
           held == HeldWith(f, Head(air)[2])
           whole == held[f] = 1 .. Count(f)
           gone == IF whole THEN {f} ELSE stale \cap ToSet(OrderWith(f))
       IN  /\ Count(f) > 1
           /\ order' = Without(OrderWith(f), gone)
           /\ pending' = [g \in Frames |-> IF g \in gone THEN {} ELSE held[g]]
           /\ handed' = IF whole THEN handed \cup {f} ELSE handed
           /\ broken' = broken \cup (ToSet(order) \ ToSet(OrderWith(f)))
                               \cup (gone \ handed')
    /\ stale' = stale \cap ToSet(order')
    /\ air' = Tail(air)
    /\ UNCHANGED <<kind, sender, faults, accepted, written>>

Drain(d) ==
    \/ ReadHead(d) \/ HasAirtime(d) \/ OutOfAirtime(d) \/ Consume(d)
    \/ Write(d) \/ Pop(d)

Pump == HandWhole \/ AddSegment

Next ==
    \/ \E f \in Frames : SendFrame(f) \/ Expire(f)
    \/ \E d \in Drainers : Drain(d) \/ WriteFails(d)
    \/ Pump \/ WindowEnds \/ Stop \/ Lose

(* Every loop drains and pumps every 10 ms.  A window runs out, but a drain  *)
(* that has its turn meanwhile is never stopped by that.                     *)
Fairness ==
    /\ \A d \in Drainers : WF_vars(Drain(d) \/ WriteFails(d))
    /\ WF_vars(Pump)
    /\ WF_vars(WindowEnds)

Spec == Init /\ [][Next]_vars /\ Fairness
-----------------------------------------------------------------------------
TypeOK ==
    /\ kind \in Kinds
    /\ open \in BOOLEAN
    /\ outbox \in Seq(Frames)
    /\ drain \in [Drainers -> [at : {"idle", "budget", "consume", "write", "pop"},
                               frame : Frames, next : Nat]]
    /\ used \in Nat
    /\ air \in Seq(Frames \X (Nat \ {0}))
    /\ order \in Seq(Frames)
    /\ pending \in [Frames -> SUBSET (Nat \ {0})]
    /\ stale \subseteq Frames
    /\ faults \in Nat
    /\ accepted \subseteq Frames
    /\ written \subseteq Frames \X (Nat \ {0})
    /\ handed \subseteq Frames
    /\ broken \subseteq Frames
    /\ overlapped \in BOOLEAN

(* While the drains have taken turns, a frame that send_frame accepted has   *)
(* left the outbox only when every one of its segments was written.          *)
LeavesOnlyWritten ==
    ~overlapped => \A f \in accepted : f \in ToSet(outbox) \/ Segments(f) \subseteq written

(* However the drains overlap, a window carries at most one segment more     *)
(* than its airtime for each further drain: those that had checked already.  *)
AirtimeIsBounded == kind = "lora" => used <= Budget + Cardinality(Drainers) - 1

(* While the drains have taken turns, no entry of the assembler is the ghost *)
(* of a frame that was handed on already: such an entry never completes, and *)
(* holds a place until it evicts, or outlives, a frame still to come.        *)
NoGhostEntries == ~overlapped => handed \cap ToSet(order) = {}

(* Nothing at or before f's place in the outbox blocks it: a frame that is   *)
(* never cut, or that needs more airtime than a whole window has.            *)
Blocked(f) ==
    \E i \in 1 .. Len(outbox) :
        /\ f \in ToSet(SubSeq(outbox, i, Len(outbox)))
        /\ \/ Count(outbox[i]) = 0
           \/ kind = "lora" /\ Count(outbox[i]) > Budget

(* An accepted frame that nothing blocks is handed to the subscribers of the *)
(* other end, unless the port closes, two drains overlap, or the frame loses *)
(* a segment on the air or its place in the assembler.                       *)
AcceptedArrives ==
    \A f \in Frames :
        f \in accepted ~> \/ f \in handed \/ f \in broken \/ Blocked(f)
                          \/ ~open \/ overlapped
=============================================================================
