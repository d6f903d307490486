---------------------------- MODULE FleetDelivery ----------------------------
(***************************************************************************)
(* A message's way through the fleet: the sending agent's outbox and its   *)
(* replay loop (shugonet_runtime.py), the TCP link to the host, the host   *)
(* chain's dedup and router (transport_fallback.py _on_frame, host.py      *)
(* _on_raw_frame), the link to each recipient, and the recipient's dedup   *)
(* and handlers.                                                           *)
(*                                                                         *)
(* One agent sends; the fleet runs over TCP alone (no relay url, the       *)
(* default).  A message is an id with its recipients, all the receivers    *)
(* for a broadcast.  The outbox is its durable content, Outbox.tla has its *)
(* log.  No code of the repository sends an ack envelope, so nothing here  *)
(* removes a message from the outbox.                                      *)
(***************************************************************************)
EXTENDS Naturals, Sequences, FiniteSets, SequencesExt

CONSTANTS
    Messages,     \* message ids, drawn fresh by new_msg_id
    Durable,      \* those sent with qos at_least_once
    Receivers,    \* the other agents
    To,           \* the recipients of each message
    MaxPending,   \* max_pending of the outbox
    Capacity,     \* dedup_capacity, of every chain
    Faults,       \* what may fail: "sender", "host", "pairing", "receivers"
    MaxFaults     \* bound: how often something fails

ASSUME ToAssumption == To \in [Messages -> SUBSET Receivers]
ASSUME DurableAssumption == Durable \subseteq Messages
ASSUME BoundsAssumption ==
    MaxPending \in Nat \ {0} /\ Capacity \in Nat \ {0} /\ MaxFaults \in Nat

VARIABLES
    outbox,     \* messages pending in the sender's OutboxStore
    calling,    \* messages between enqueue and the chain walk
    offered,    \* messages send was called with
    uplink,     \* frames on their way to the host, or in its inbox
    paired,     \* the registry still pairs the sender
    hostSeen,   \* the host chain's dedup, oldest first
    linked,     \* receivers with a connection to the host
    downlink,   \* <<receiver, message>> on their way, or in the inbox
    seen,       \* each receiver's dedup, oldest first
    handled,    \* history: messages a receiver's handlers got since it started
    delivered,  \* history: <<receiver, message>> whose handlers ever got it
    again,      \* history: <<receiver, message>> handled twice in one life
    faults,     \* how often something failed
    struck      \* history: the kinds of failure that happened

sender == <<outbox, calling, offered>>
host == <<paired, hostSeen, linked>>
receiver == <<seen, handled, delivered, again>>
failure == <<faults, struck>>
vars == <<sender, uplink, host, downlink, receiver, failure>>

Pairs == Receivers \X Messages

TypeOK ==
    /\ outbox \subseteq Durable
    /\ Cardinality(outbox) <= MaxPending
    /\ outbox \cup calling \cup uplink \subseteq offered
    /\ offered \subseteq Messages
    /\ paired \in BOOLEAN
    /\ linked \subseteq Receivers
    /\ hostSeen \in Seq(Messages) /\ Len(hostSeen) <= Capacity
    /\ \A r \in Receivers :
        /\ seen[r] \in Seq(Messages) /\ Len(seen[r]) <= Capacity
        /\ handled[r] \subseteq Messages
    /\ downlink \cup delivered \cup again \subseteq Pairs
    /\ faults \in 0..MaxFaults
    /\ struck \subseteq Faults

-----------------------------------------------------------------------------
(* InboxDedup: a message is remembered until Capacity newer ones came, and   *)
(* a lookup of a known one does not make it younger.                         *)

BrokenKnown(list, m) == list # <<>> /\ Head(list) = m
Known(list, m) == Contains(list, m)

Remembered(list, m) ==
    Append(IF Len(list) < Capacity THEN list ELSE Tail(list), m)

-----------------------------------------------------------------------------
\* A fault of this kind happens.
Strikes(kind) ==
    /\ kind \in Faults
    /\ faults < MaxFaults
    /\ faults' = faults + 1
    /\ struck' = struck \cup {kind}

(* The sending agent.                                                      *)

\* AgentRuntime.send, up to the enqueue.  A full outbox refuses, send goes on.
Send(m) ==
    /\ m \notin offered
    /\ offered' = offered \cup {m}
    /\ calling' = calling \cup {m}
    /\ outbox' = IF m \in Durable /\ Cardinality(outbox) < MaxPending
                 THEN outbox \cup {m} ELSE outbox
    /\ UNCHANGED <<uplink, host, downlink, receiver, failure>>

\* The chain walk: the frame leaves, or no transport takes it.
Transmit(m) ==
    /\ m \in calling
    /\ calling' = calling \ {m}
    /\ uplink' = uplink \cup {m}
    /\ UNCHANGED <<outbox, offered, host, downlink, receiver, failure>>
TransmitFails(m) ==
    /\ m \in calling
    /\ Strikes("sender")
    /\ calling' = calling \ {m}
    /\ UNCHANGED <<outbox, offered, uplink, host, downlink, receiver>>

\* _replay_outbox, every pass of the runtime loop: all that is pending goes out
\* again.
BrokenReplay ==
    /\ outbox \ uplink # {}
    /\ uplink' = uplink \cup {CHOOSE m \in outbox : TRUE}
    /\ UNCHANGED <<sender, host, downlink, receiver, failure>>
Replay ==
    /\ outbox \ uplink # {}
    /\ uplink' = uplink \cup outbox
    /\ UNCHANGED <<sender, host, downlink, receiver, failure>>

\* The sender's process ends, in the middle of a send or not, and starts again
\* on the same outbox file.  What its sockets held is gone.
SenderRestarts ==
    /\ Strikes("sender")
    /\ calling' = {}
    /\ uplink' = {}
    /\ UNCHANGED <<outbox, offered, host, downlink, receiver>>

-----------------------------------------------------------------------------
(* The host.                                                               *)

\* _on_frame, then the router: a frame the dedup knows ends here; any other is
\* remembered first, and then forwarded, once, to the recipients connected now.
\* Frames of an unpaired sender are remembered and dropped.
HostReceives(m) ==
    /\ m \in uplink
    /\ uplink' = uplink \ {m}
    /\ IF Known(hostSeen, m)
       THEN UNCHANGED <<hostSeen, downlink>>
       ELSE /\ hostSeen' = Remembered(hostSeen, m)
            /\ downlink' = IF paired
                           THEN downlink \cup ((To[m] \cap linked) \X {m})
                           ELSE downlink
    /\ UNCHANGED <<sender, paired, linked, receiver, failure>>

HostRestarts ==
    /\ Strikes("host")
    /\ hostSeen' = <<>>
    /\ uplink' = {}
    /\ downlink' = {}
    /\ linked' = {}
    /\ UNCHANGED <<sender, paired, receiver>>

\* The operator unpairs the sender, whose connection stays open.
Unpair ==
    /\ paired
    /\ Strikes("pairing")
    /\ paired' = FALSE
    /\ UNCHANGED <<sender, uplink, hostSeen, linked, downlink, receiver>>
Pair ==
    /\ ~paired
    /\ paired' = TRUE
    /\ UNCHANGED <<sender, uplink, hostSeen, linked, downlink, receiver, failure>>

-----------------------------------------------------------------------------
(* A receiver.                                                             *)

ReceiverReceives(r, m) ==
    /\ <<r, m>> \in downlink
    /\ downlink' = downlink \ {<<r, m>>}
    /\ IF Known(seen[r], m)
       THEN UNCHANGED <<seen, handled, delivered, again>>
       ELSE /\ seen' = [seen EXCEPT ![r] = Remembered(@, m)]
            /\ handled' = [handled EXCEPT ![r] = @ \cup {m}]
            /\ delivered' = delivered \cup {<<r, m>>}
            /\ again' = IF m \in handled[r] THEN again \cup {<<r, m>>} ELSE again
    /\ UNCHANGED <<sender, uplink, host, failure>>

\* The connection breaks: what was on it is lost.
Disconnect(r) ==
    /\ r \in linked
    /\ Strikes("receivers")
    /\ linked' = linked \ {r}
    /\ downlink' = {p \in downlink : p[1] # r}
    /\ UNCHANGED <<sender, uplink, paired, hostSeen, receiver>>

\* The receiver's next send dials the host again.
Connect(r) ==
    /\ r \notin linked
    /\ linked' = linked \cup {r}
    /\ UNCHANGED <<sender, uplink, paired, hostSeen, downlink, receiver, failure>>

\* A new process, with a new dedup.
ReceiverRestarts(r) ==
    /\ Strikes("receivers")
    /\ linked' = linked \ {r}
    /\ downlink' = {p \in downlink : p[1] # r}
    /\ seen' = [seen EXCEPT ![r] = <<>>]
    /\ handled' = [handled EXCEPT ![r] = {}]
    /\ UNCHANGED <<sender, uplink, paired, hostSeen, delivered, again>>

-----------------------------------------------------------------------------
Init ==
    /\ outbox = {} /\ calling = {} /\ offered = {}
    /\ uplink = {}
    /\ paired = TRUE
    /\ hostSeen = <<>>
    /\ linked = Receivers
    /\ downlink = {}
    /\ seen = [r \in Receivers |-> <<>>]
    /\ handled = [r \in Receivers |-> {}]
    /\ delivered = {} /\ again = {}
    /\ faults = 0 /\ struck = {}

Next ==
    \/ \E m \in Messages : Send(m) \/ Transmit(m) \/ TransmitFails(m) \/ HostReceives(m)
    \/ Replay
    \/ SenderRestarts
    \/ HostRestarts
    \/ Unpair
    \/ Pair
    \/ \E r \in Receivers, m \in Messages : ReceiverReceives(r, m)
    \/ \E r \in Receivers : Disconnect(r) \/ Connect(r) \/ ReceiverRestarts(r)

Spec == Init /\ [][Next]_vars

\* The loops of the agents and of the host run forever: the sender replays, the
\* host and the receivers poll, a receiver's heartbeat dials the host again.
FairSpec ==
    /\ Spec
    /\ WF_vars(Replay)
    /\ \A m \in Messages : WF_vars(Transmit(m)) /\ WF_vars(HostReceives(m))
    /\ \A r \in Receivers : WF_vars(Connect(r))
    /\ \A r \in Receivers, m \in Messages : WF_vars(ReceiverReceives(r, m))

-----------------------------------------------------------------------------
(* Properties.                                                             *)

\* "a crash mid-send never loses the message" (transport_fallback.py:23-26):
\* what the outbox took reaches the handlers of every recipient, however often
\* the sender fails or starts again, as long as nothing else does.
SentIsHandled ==
    \A m \in Durable : \A r \in To[m] :
        m \in outbox ~> (<<r, m>> \in delivered \/ struck \ {"sender"} # {})

\* "at-least-once delivery ... stays idempotent" (relay_transport.py:12-14): the
\* replays that never stop reach the handlers of one process once, as long as
\* the dedups hold every message there is.
HandledOnce == again = {}

-----------------------------------------------------------------------------
(* What the repository says and the code does not do.                      *)

\* at_least_once, "reliable delivery" (README.md:306): what the outbox took
\* reaches the handlers of every recipient.
AtLeastOnce ==
    \A m \in Durable : \A r \in To[m] : m \in outbox ~> <<r, m>> \in delivered

=============================================================================
