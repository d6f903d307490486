------------------------------- MODULE Relay -------------------------------
(***************************************************************************)
(* The relay path of relay_server.py and relay_transport.py: an in-memory  *)
(* hub with one bounded, expiring mailbox per registered agent, and on     *)
(* each agent a poll thread that registers, long-polls its mailbox and     *)
(* fills an inbox that the agent's poll() dispatches.                      *)
(*                                                                         *)
(* Every HTTP request is served by a thread of the hub.  A deliver request *)
(* appends under the hub's lock and notifies under the mailbox's condition *)
(* variable, in two steps; a poll request checks the mailbox and goes to   *)
(* sleep holding that condition variable throughout.  A client that gives  *)
(* up on a request does not stop the thread that serves it.                *)
(***************************************************************************)
EXTENDS Naturals, FiniteSets, SequencesExt

CONSTANTS Agents, Messages,  \* frames, numbered in the order they are sent
          Sender, Recipient, \* [Messages -> Agents]
          Threads,           \* poll threads an agent may have alive at once
          Slots,             \* polls of one agent the hub may be serving at once
          Nobody,            \* the client of an abandoned poll request
          MaxMessages,       \* max_messages: a mailbox's capacity
          MaxRegistered,     \* max_registered
          PollMax,           \* POLL_MAX_MESSAGES: one reply's batch
          MaxInbox,          \* max_queue: a transport's inbox
          Unsteady,          \* bound: the agents that may stop or lose a poll
          MaxFaults          \* bound on failures, stops and expiries

ASSUME RelayAssumption ==
    /\ Messages \subseteq Nat /\ Slots \subseteq Nat
    /\ Sender \in [Messages -> Agents] /\ Recipient \in [Messages -> Agents]
    /\ Nobody \notin Threads /\ Nobody \notin Messages /\ Unsteady \subseteq Agents
    /\ {MaxMessages, MaxRegistered, PollMax, MaxInbox} \subseteq Nat \ {0}
    /\ MaxFaults \in Nat

VARIABLES hubUp, registered, boxes, late, handler, delivery,  \* the hub
          running, connected, stopping, thread, inbox,         \* the agents
          unsent, dispatched, lost, doubled, faults            \* histories

hub == <<hubUp, registered, boxes, late>>
agent == <<running, connected, stopping, inbox, dispatched>>
past == <<lost, doubled, faults>>
vars == <<hub, handler, delivery, agent, thread, unsent, past>>

IdleHandler == [pc |-> "free", client |-> Nobody, got |-> <<>>]
IdleDelivery == [pc |-> "idle", msg |-> Nobody]
IdleThread == [pc |-> "off", batch |-> <<>>]

Init ==
    /\ hubUp = TRUE /\ registered = {}
    /\ boxes = [a \in Agents |-> <<>>] /\ late = [a \in Agents |-> 0]
    /\ handler = [a \in Agents |-> [h \in Slots |-> IdleHandler]]
    /\ delivery = [a \in Agents |-> IdleDelivery]
    /\ running = [a \in Agents |-> FALSE] /\ connected = [a \in Agents |-> FALSE]
    /\ stopping = [a \in Agents |-> FALSE]
    /\ thread = [a \in Agents |-> [t \in Threads |-> IdleThread]]
    /\ inbox = [a \in Agents |-> <<>>] /\ dispatched = [a \in Agents |-> <<>>]
    /\ unsent = Messages /\ lost = {} /\ doubled = {} /\ faults = 0

Fault == faults < MaxFaults /\ faults' = faults + 1

----------------------------------------------------------------------------
(* The hub's mailboxes.                                                    *)

\* Whether the hub answers a registration with 200.
Admits(a) == /\ hubUp
             /\ a \in registered \/ Cardinality(registered) < MaxRegistered

\* late[a] counts the messages past their time to live.  Every message gets
\* the same one, so they are the oldest of the mailbox.
Expired(a) == SubSeq(boxes[a], 1, late[a])
Live(a) == SubSeq(boxes[a], late[a] + 1, Len(boxes[a]))

HasRoom(a) == Len(Live(a)) < MaxMessages

\* What one poll takes of a mailbox, and what it leaves.
Taken(box) == SubSeq(box, 1, IF Len(box) < PollMax THEN Len(box) ELSE PollMax)
BrokenLeft(box) == SubSeq(box, PollMax, Len(box))
Left(box) == SubSeq(box, PollMax + 1, Len(box))

\* The condition variable of a mailbox is held by a poll between the check
\* that finds nothing and the wait that releases it.
BrokenCvFree(a) == TRUE
CvFree(a) == \A h \in Slots : handler[a][h].pc # "decided"

----------------------------------------------------------------------------
(* The hub serves a poll request of agent a: the handler in slot h.        *)

\* A poll whose last check empties the mailbox, and that answers the timeout.
BrokenReply(a, h) == IF handler[a][h].pc = "waiting" THEN <<>> ELSE Taken(Live(a))
Reply(a, h) == Taken(Live(a))

\* Check the mailbox, on arrival, when notified, and a last time when the wait
\* ends because the deadline has passed.
Check(a, h) ==
    LET taken == Reply(a, h)
    IN  /\ handler[a][h].pc \in {"enter", "waiting"}
        /\ CvFree(a)
        /\ lost' = lost \cup ToSet(Expired(a))
        /\ boxes' = [boxes EXCEPT ![a] = Left(Live(a))]
        /\ late' = [late EXCEPT ![a] = 0]
        /\ handler' = [handler EXCEPT
             ![a][h].pc = IF taken # <<>> \/ handler[a][h].pc = "waiting"
                          THEN "answer" ELSE "decided",
             ![a][h].got = taken]
        /\ UNCHANGED <<hubUp, registered, delivery, agent, thread, unsent, doubled, faults>>

\* cv.wait releases the condition variable and sleeps, in one step.
Wait(a, h) ==
    /\ handler[a][h].pc = "decided"
    /\ handler' = [handler EXCEPT ![a][h].pc = "waiting"]
    /\ UNCHANGED <<hub, delivery, agent, thread, unsent, past>>

\* What happens to the messages of a reply that nobody reads: they left the
\* mailbox when they were drained.
BrokenUnread(a, got) == /\ boxes' = IF HasRoom(a) THEN [boxes EXCEPT ![a] = @ \o got] ELSE boxes
                        /\ UNCHANGED lost
Unread(a, got) == /\ lost' = lost \cup ToSet(got)
                  /\ UNCHANGED boxes

Answer(a, h) ==
    LET t == handler[a][h].client
        got == handler[a][h].got
    IN  /\ handler[a][h].pc = "answer"
        /\ handler' = [handler EXCEPT ![a][h] = IdleHandler]
        /\ IF t = Nobody
           THEN Unread(a, got) /\ UNCHANGED thread
           ELSE /\ thread' = [thread EXCEPT ![a][t] =
                     [pc |-> IF got = <<>> THEN "top" ELSE "storing", batch |-> got]]
                /\ UNCHANGED <<lost, boxes>>
        /\ UNCHANGED <<hubUp, registered, late, delivery, agent, unsent, doubled, faults>>

----------------------------------------------------------------------------
(* send_frame on the sender, deliver on the hub.                           *)

\* An agent sends one frame at a time, in the order of their numbers; a
\* transport that is not connected returns False.
SendFrame(m) ==
    LET a == Sender[m]
    IN  /\ m \in unsent /\ connected[a] /\ delivery[a].pc = "idle"
        /\ \A k \in unsent : Sender[k] = a => m <= k
        /\ unsent' = unsent \ {m}
        /\ delivery' = [delivery EXCEPT ![a] = [pc |-> "request", msg |-> m]]
        /\ UNCHANGED <<hub, handler, agent, thread, past>>

Advance(a, pc) == delivery' = [delivery EXCEPT ![a].pc = pc]

\* Expire, then append if there is room; both under the hub's lock.
Deliver(a) ==
    LET r == Recipient[delivery[a].msg]
    IN  /\ delivery[a].pc = "request"
        /\ IF hubUp /\ {a, r} \subseteq registered
           THEN /\ lost' = lost \cup ToSet(Expired(r))
                /\ late' = [late EXCEPT ![r] = 0]
                /\ boxes' = [boxes EXCEPT ![r] =
                     IF HasRoom(r) THEN Append(Live(r), delivery[a].msg) ELSE Live(r)]
                /\ Advance(a, IF HasRoom(r) THEN "appended" ELSE "refused")
           ELSE Advance(a, "refused") /\ UNCHANGED <<lost, late, boxes>>
        /\ UNCHANGED <<hubUp, registered, handler, agent, thread, unsent, doubled, faults>>

\* notify_all: every poll waiting on the mailbox checks it again.
Notify(a) ==
    LET r == Recipient[delivery[a].msg]
    IN  /\ delivery[a].pc = "appended"
        /\ CvFree(r)
        /\ handler' = [handler EXCEPT ![r] = [h \in Slots |->
             IF @[h].pc = "waiting" THEN [@[h] EXCEPT !.pc = "enter"] ELSE @[h]]]
        /\ Advance(a, "notified")
        /\ UNCHANGED <<hub, agent, thread, unsent, past>>

\* Any reply but 200, a full mailbox included, is an HTTPError, which the
\* client turns into the ConnectionError that marks the relay disconnected.
DeliverReply(a) ==
    /\ delivery[a].pc \in {"notified", "refused"}
    /\ delivery' = [delivery EXCEPT ![a] = IdleDelivery]
    /\ connected' = [connected EXCEPT ![a] = @ /\ delivery[a].pc = "notified"]
    /\ UNCHANGED <<hub, handler, running, stopping, inbox, dispatched, thread, unsent, past>>

----------------------------------------------------------------------------
(* The poll thread of an agent.                                            *)

\* A failed request: the loop registers again before it polls again.
BrokenDisconnect(a) == UNCHANGED connected
Disconnect(a) == connected' = [connected EXCEPT ![a] = FALSE]

Goto(a, t, pc) == thread' = [thread EXCEPT ![a][t].pc = pc]

\* Where the loop goes from its top, and the thread's end.
AtTop(a, t) == thread[a][t].pc = "top" /\ ~stopping[a]

Exit(a, t) ==
    /\ thread[a][t].pc = "top" /\ stopping[a]
    /\ Goto(a, t, "off")
    /\ UNCHANGED <<hub, handler, delivery, agent, unsent, past>>

Register(a, t) ==
    /\ AtTop(a, t) /\ ~connected[a]
    /\ Admits(a)
    /\ registered' = registered \cup {a}
    /\ Goto(a, t, "registered")
    /\ UNCHANGED <<hubUp, boxes, late, handler, delivery, agent, unsent, past>>

Connect(a, t) ==
    /\ thread[a][t].pc = "registered"
    /\ connected' = [connected EXCEPT ![a] = TRUE]
    /\ Goto(a, t, "poll")
    /\ UNCHANGED <<hub, handler, delivery, running, stopping, inbox, dispatched, unsent, past>>

\* The poll reaches a handler, or fails: the hub is down or has forgotten the
\* agent (404).
Poll(a, t) ==
    /\ thread[a][t].pc = "poll" \/ (AtTop(a, t) /\ connected[a])
    /\ IF hubUp /\ a \in registered
       THEN /\ \E h \in Slots :
                 /\ handler[a][h].pc = "free"
                 /\ \A g \in Slots : g < h => handler[a][g].pc # "free"
                 /\ handler' = [handler EXCEPT ![a][h] =
                      [pc |-> "enter", client |-> t, got |-> <<>>]]
            /\ Goto(a, t, "polling")
            /\ UNCHANGED connected
       ELSE /\ Disconnect(a)
            /\ Goto(a, t, "top")
            /\ UNCHANGED handler
    /\ UNCHANGED <<hub, delivery, running, stopping, inbox, dispatched, unsent, past>>

\* One message of the reply into the inbox; a full inbox drops its oldest.
Store(a, t) ==
    LET rest == Tail(thread[a][t].batch)
        full == Len(inbox[a]) = MaxInbox
    IN  /\ thread[a][t].pc = "storing"
        /\ inbox' = [inbox EXCEPT ![a] =
             Append(IF full THEN Tail(@) ELSE @, Head(thread[a][t].batch))]
        /\ lost' = IF full THEN lost \cup {Head(inbox[a])} ELSE lost
        /\ thread' = [thread EXCEPT ![a][t] =
             [pc |-> IF rest = <<>> THEN "top" ELSE "storing", batch |-> rest]]
        /\ UNCHANGED <<hub, handler, delivery, running, connected, stopping,
                       dispatched, unsent, doubled, faults>>

\* poll(): hand the oldest frame of the inbox to the subscribers.
Dispatch(a) ==
    /\ inbox[a] # <<>>
    /\ inbox' = [inbox EXCEPT ![a] = Tail(@)]
    /\ dispatched' = [dispatched EXCEPT ![a] = Append(@, Head(inbox[a]))]
    /\ UNCHANGED <<hub, handler, delivery, running, connected, stopping, thread, unsent, past>>

----------------------------------------------------------------------------
(* start, stop and the failures.                                           *)

\* A registration that fails raises out of start, which leaves the transport
\* running without a poll thread.  A poll thread of before a stop, still in
\* its request, goes on when start clears the stop event.
Start(a) ==
    /\ ~running[a]
    /\ running' = [running EXCEPT ![a] = TRUE]
    /\ stopping' = [stopping EXCEPT ![a] = FALSE]
    /\ IF Admits(a)
       THEN /\ registered' = registered \cup {a}
            /\ connected' = [connected EXCEPT ![a] = TRUE]
            /\ \E t \in Threads : /\ thread[a][t].pc = "off"
                                  /\ Goto(a, t, "top")
            /\ doubled' = IF \E t \in Threads : thread[a][t].pc # "off"
                          THEN doubled \cup {a} ELSE doubled
       ELSE UNCHANGED <<registered, connected, thread, doubled>>
    /\ UNCHANGED <<hubUp, boxes, late, handler, delivery, inbox, dispatched, unsent, lost, faults>>

\* stop() waits two seconds for a thread that may be polling for thirty.
Stop(a) ==
    /\ running[a] /\ a \in Unsteady /\ Fault
    /\ running' = [running EXCEPT ![a] = FALSE]
    /\ stopping' = [stopping EXCEPT ![a] = TRUE]
    /\ connected' = [connected EXCEPT ![a] = FALSE]
    /\ UNCHANGED <<hub, handler, delivery, inbox, dispatched, thread, unsent, lost, doubled>>

\* The connection of a poll thread's request breaks; its handler lives on.
DropConnection(a, t) ==
    /\ thread[a][t].pc \in {"polling", "registered"} /\ a \in Unsteady /\ Fault
    /\ handler' = [handler EXCEPT ![a] = [h \in Slots |->
         IF @[h].client = t THEN [@[h] EXCEPT !.client = Nobody] ELSE @[h]]]
    /\ Disconnect(a)
    /\ Goto(a, t, "top")
    /\ UNCHANGED <<hub, delivery, running, stopping, inbox, dispatched, unsent, lost, doubled>>

\* The reply to a deliver request is lost after the hub has done its work.
LoseReply(a) ==
    /\ delivery[a].pc = "notified" /\ Fault
    /\ Advance(a, "refused")
    /\ UNCHANGED <<hub, handler, agent, thread, unsent, lost, doubled>>

\* The oldest message still alive in a mailbox outlives its time to live.
Age(a) ==
    /\ late[a] < Len(boxes[a]) /\ Fault
    /\ late' = [late EXCEPT ![a] = @ + 1]
    /\ UNCHANGED <<hubUp, registered, boxes, handler, delivery, agent, thread, unsent, lost, doubled>>

\* The hub keeps everything in memory and every open request breaks.
HubCrash ==
    LET held == UNION {ToSet(boxes[a]) : a \in Agents}
                  \cup UNION {ToSet(handler[a][h].got) : a \in Agents, h \in Slots}
    IN  /\ hubUp /\ Fault
        /\ hubUp' = FALSE /\ registered' = {}
        /\ boxes' = [a \in Agents |-> <<>>] /\ late' = [a \in Agents |-> 0]
        /\ lost' = lost \cup held
        /\ handler' = [a \in Agents |-> [h \in Slots |-> IdleHandler]]
        /\ delivery' = [a \in Agents |-> IF delivery[a].pc = "appended"
                                         THEN [delivery[a] EXCEPT !.pc = "refused"]
                                         ELSE delivery[a]]
        /\ connected' = [a \in Agents |->
             connected[a] /\ \A t \in Threads : thread[a][t].pc # "polling"]
        /\ thread' = [a \in Agents |-> [t \in Threads |->
             IF thread[a][t].pc = "polling"
             THEN [thread[a][t] EXCEPT !.pc = "top"] ELSE thread[a][t]]]
        /\ UNCHANGED <<running, stopping, inbox, dispatched, unsent, doubled>>

HubStart == /\ ~hubUp /\ hubUp' = TRUE
            /\ UNCHANGED <<registered, boxes, late, handler, delivery, agent, thread, unsent, past>>

HandlerStep(a, h) == Check(a, h) \/ Wait(a, h) \/ Answer(a, h)
DeliveryStep(a) == Deliver(a) \/ Notify(a) \/ DeliverReply(a)
ThreadStep(a, t) == Exit(a, t) \/ Register(a, t) \/ Connect(a, t) \/ Poll(a, t) \/ Store(a, t)
Failure == \/ HubCrash
           \/ \E a \in Agents : Stop(a) \/ LoseReply(a) \/ Age(a)
           \/ \E a \in Agents, t \in Threads : DropConnection(a, t)

Next == \/ \E a \in Agents, h \in Slots : HandlerStep(a, h)
        \/ \E a \in Agents : DeliveryStep(a) \/ Dispatch(a) \/ Start(a)
        \/ \E a \in Agents, t \in Threads : ThreadStep(a, t)
        \/ \E m \in Messages : SendFrame(m)
        \/ HubStart \/ Failure

Spec == Init /\ [][Next]_vars

\* The threads of the hub and of the agents are scheduled, a wait with a
\* timeout ends, and a crashed hub is brought back.  Nobody has to start an
\* agent or send, and no failure has to happen.
FairSpec ==
    /\ Spec
    /\ \A a \in Agents, h \in Slots : WF_vars(HandlerStep(a, h))
    /\ \A a \in Agents : WF_vars(DeliveryStep(a)) /\ WF_vars(Dispatch(a))
    /\ \A a \in Agents, t \in Threads : WF_vars(ThreadStep(a, t))
    /\ WF_vars(HubStart)

----------------------------------------------------------------------------
(* Properties.                                                             *)

HandlerState == [pc : {"free", "enter", "decided", "waiting", "answer"},
                 client : Threads \cup {Nobody}, got : Seq(Messages)]
DeliveryState == {IdleDelivery} \cup
                 [pc : {"request", "appended", "notified", "refused"}, msg : Messages]
ThreadState == [pc : {"off", "top", "registered", "poll", "polling", "storing"},
                batch : Seq(Messages)]

TypeOK ==
    /\ hubUp \in BOOLEAN /\ registered \subseteq Agents
    /\ boxes \in [Agents -> Seq(Messages)] /\ late \in [Agents -> Nat]
    /\ \A a \in Agents : Len(boxes[a]) <= MaxMessages /\ late[a] <= Len(boxes[a])
    /\ handler \in [Agents -> [Slots -> HandlerState]]
    /\ delivery \in [Agents -> DeliveryState]
    /\ {running, connected, stopping} \subseteq [Agents -> BOOLEAN]
    /\ thread \in [Agents -> [Threads -> ThreadState]]
    /\ inbox \in [Agents -> Seq(Messages)] /\ dispatched \in [Agents -> Seq(Messages)]
    /\ \A a \in Agents : Len(inbox[a]) <= MaxInbox
    /\ unsent \subseteq Messages /\ lost \subseteq Messages
    /\ doubled \subseteq Agents /\ faults \in 0..MaxFaults

\* No lost wake-up: while a poll sleeps on a mailbox that holds a message,
\* the deliver that put one there has still to notify, although the append is
\* under the hub's lock and the notification under the condition variable.
SleepersAreWoken ==
    \A r \in Agents, h \in Slots :
      handler[r][h].pc = "waiting" /\ boxes[r] # <<>> =>
        \E a \in Agents : delivery[a].pc = "appended" /\ Recipient[delivery[a].msg] = r

\* The places a message can be in between deliver and the subscribers.
Places(m) ==
    {<<"mailbox", a>> : a \in {b \in Agents : m \in ToSet(boxes[b])}}
      \cup {<<"inbox", a>> : a \in {b \in Agents : m \in ToSet(inbox[b])}}
      \cup {<<"dispatched", a>> : a \in {b \in Agents : m \in ToSet(dispatched[b])}}
      \cup {<<"drained", at>> : at \in {x \in Agents \X Slots : m \in ToSet(handler[x[1]][x[2]].got)}}
      \cup {<<"batch", at>> : at \in {x \in Agents \X Threads : m \in ToSet(thread[x[1]][x[2]].batch)}}

\* At most once: a frame is in one place and is dispatched once.  Neither the
\* poll an agent gave up on, nor the poll thread a restart revived, nor two
\* drains of one mailbox make the relay deliver it again.
OneCopy ==
    \A m \in Messages :
      /\ Cardinality(Places(m)) <= 1
      /\ \A a \in Agents : Cardinality({i \in DOMAIN dispatched[a] : dispatched[a][i] = m}) <= 1

\* An agent that never had two poll threads dispatches a sender's frames in
\* the order they were sent, whatever was lost on the way.
InOrder ==
    \A a \in Agents \ doubled : \A i, j \in DOMAIN dispatched[a] :
      i < j /\ Sender[dispatched[a][i]] = Sender[dispatched[a][j]] =>
        dispatched[a][i] < dispatched[a][j]

Serving(a) == \E t \in Threads : thread[a][t].pc # "off"

\* A frame in the mailbox of an agent that goes on polling is dispatched,
\* unless one of the named losses takes it: it expires, the hub crashes, the
\* reply that carries it has no reader, or a full inbox drops it.
AcceptedArrives ==
    \A m \in Messages :
      m \in ToSet(boxes[Recipient[m]]) ~>
        \/ m \in ToSet(dispatched[Recipient[m]]) \cup lost
        \/ ~Serving(Recipient[m])

\* An agent with a poll thread comes back after every refusal, lost reply and
\* hub restart: again and again it is registered and believes it is.
AgentComesBack ==
    \A a \in Agents : []<>(Serving(a) => connected[a] /\ a \in registered)
=============================================================================
