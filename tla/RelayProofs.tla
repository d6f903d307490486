---------------------------- MODULE RelayProofs ----------------------------
(* Proofs that no poll sleeps through a delivery, that a message is handed   *)
(* on at most once, and that a recipient gets what one sender sent in order, *)
(* for any agents, frames, capacities and batch size, and whatever fails.    *)
EXTENDS Relay, TLAPS, SequenceTheorems, FiniteSetTheorems

(* What the proof needs of the types of the hub's state.                    *)
HubTypes ==
    /\ boxes \in [Agents -> Seq(Messages)] /\ late \in [Agents -> Nat]
    /\ handler \in [Agents -> [Slots -> HandlerState]]
    /\ delivery \in [Agents -> DeliveryState]

\* A deliver request that has put a message in r's mailbox and not notified.
Announcing(r) ==
    \E a \in Agents : delivery[a].pc = "appended" /\ Recipient[delivery[a].msg] = r

(* What makes SleepersAreWoken inductive: it holds already of a poll that   *)
(* has decided to wait and still holds the condition variable.              *)
DecidedAreWoken ==
    \A r \in Agents, h \in Slots :
      handler[r][h].pc \in {"decided", "waiting"} /\ boxes[r] # <<>> => Announcing(r)

Inv == HubTypes /\ DecidedAreWoken

-----------------------------------------------------------------------------
(* The mailbox of a poll that finds nothing to take is left empty, and what  *)
(* a poll leaves was there before.                                           *)
LEMMA MailboxParts ==
    ASSUME HubTypes, NEW a \in Agents
    PROVE  /\ Live(a) \in Seq(Messages)
           /\ Taken(Live(a)) \in Seq(Messages)
           /\ Left(Live(a)) \in Seq(Messages)
           /\ Taken(Live(a)) = <<>> => Left(Live(a)) = <<>>
           /\ Left(Live(a)) # <<>> => boxes[a] # <<>>
<1>1. PollMax \in Nat /\ PollMax >= 1
    BY RelayAssumption
<1>2. boxes[a] \in Seq(Messages) /\ late[a] \in Nat
    BY DEF HubTypes
<1>3. /\ Live(a) \in Seq(Messages)
      /\ Len(Live(a)) = IF late[a] + 1 <= Len(boxes[a]) THEN Len(boxes[a]) - late[a] ELSE 0
    BY <1>2, SubSeqProperties DEF Live
<1> DEFINE box == Live(a)
<1> HIDE DEF box
<1>4. box \in Seq(Messages) /\ Len(box) \in Nat
    BY <1>3 DEF box
<1>5. /\ Taken(box) \in Seq(Messages)
      /\ Len(Taken(box)) = IF Len(box) < PollMax THEN Len(box) ELSE PollMax
    BY <1>1, <1>4, SubSeqProperties DEF Taken
<1>6. /\ Left(box) \in Seq(Messages)
      /\ Len(Left(box)) = IF PollMax + 1 <= Len(box) THEN Len(box) - PollMax ELSE 0
    BY <1>1, <1>4, SubSeqProperties DEF Left
<1>7. Taken(box) = <<>> => Left(box) = <<>>
    BY <1>1, <1>4, <1>5, <1>6, EmptySeq
<1>8. Left(box) # <<>> => boxes[a] # <<>>
    BY <1>1, <1>2, <1>3, <1>4, <1>6, EmptySeq DEF box
<1> QED BY <1>3, <1>5, <1>6, <1>7, <1>8 DEF box

(* Changes of one handler and of one request keep their types.               *)
LEMMA HandlerChanges ==
    ASSUME NEW x \in HandlerState
    PROVE  /\ \A pc \in {"enter", "waiting"} :
                [x EXCEPT !.pc = pc] \in HandlerState /\ [x EXCEPT !.pc = pc].pc = pc
           /\ [x EXCEPT !.client = Nobody] \in HandlerState
           /\ [x EXCEPT !.client = Nobody].pc = x.pc
<1>1. PICK pc \in {"free", "enter", "decided", "waiting", "answer"},
           c \in Threads \cup {Nobody}, g \in Seq(Messages) :
             x = [pc |-> pc, client |-> c, got |-> g]
    BY DEF HandlerState
<1> QED BY <1>1 DEF HandlerState

LEMMA DeliveryChanges ==
    ASSUME NEW d \in DeliveryState, d.pc # "idle",
           NEW pc \in {"request", "appended", "notified", "refused"}
    PROVE  /\ [d EXCEPT !.pc = pc] \in DeliveryState
           /\ [d EXCEPT !.pc = pc].pc = pc /\ [d EXCEPT !.pc = pc].msg = d.msg
           /\ d.msg \in Messages
<1>1. PICK p \in {"request", "appended", "notified", "refused"}, m \in Messages :
             d = [pc |-> p, msg |-> m]
    BY DEF DeliveryState, IdleDelivery
<1> QED BY <1>1 DEF DeliveryState

-----------------------------------------------------------------------------
(* A fresh hub and fresh transports satisfy the inductive invariant           *)
(* (relay_server.py:59-82).                                                  *)
THEOREM InitInv == Init => Inv
BY EmptySeq DEF Init, Inv, HubTypes, DecidedAreWoken, IdleHandler, IdleDelivery,
                HandlerState, DeliveryState

(* A step that leaves the mailboxes, the requests and their handlers alone.  *)
LEMMA Elsewhere ==
    ASSUME Inv, UNCHANGED <<boxes, handler, delivery>>, late' \in [Agents -> Nat]
    PROVE  Inv'
BY DEF Inv, HubTypes, DecidedAreWoken, Announcing

(* The delivery of agent a moves from a step that is not "appended" to one   *)
(* that is not either: whoever is announcing goes on doing so.               *)
LEMMA OtherDelivery ==
    ASSUME Inv, UNCHANGED <<boxes, late, handler>>, NEW a \in Agents,
           NEW d \in DeliveryState, delivery' = [delivery EXCEPT ![a] = d],
           delivery[a].pc # "appended"
    PROVE  Inv'
<1>1. \A r \in Agents : Announcing(r) => Announcing(r)'
    BY DEF Announcing, Inv, HubTypes
<1> QED BY <1>1 DEF Inv, HubTypes, DecidedAreWoken

\* What has not expired was in the mailbox.
LEMMA LiveIsThere ==
    ASSUME HubTypes, NEW a \in Agents, Live(a) # <<>>
    PROVE  boxes[a] # <<>>
<1>1. boxes[a] \in Seq(Messages) /\ late[a] \in Nat
    BY DEF HubTypes
<1> QED BY <1>1, SubSeqEmpty, EmptySeq DEF Live

LEMMA CheckInv ==
    ASSUME Inv, NEW a \in Agents, NEW h \in Slots, Check(a, h)
    PROVE  Inv'
<1> USE DEF Inv
<1> DEFINE taken == Taken(Live(a))
           next == [handler[a][h] EXCEPT
                      !.pc = IF taken # <<>> \/ handler[a][h].pc = "waiting"
                             THEN "answer" ELSE "decided",
                      !.got = taken]
<1>1. /\ boxes' = [boxes EXCEPT ![a] = Left(Live(a))]
      /\ late' = [late EXCEPT ![a] = 0]
      /\ delivery' = delivery
      /\ handler' = [handler EXCEPT ![a] = [handler[a] EXCEPT ![h] = next]]
    BY DEF Check, Reply, HubTypes, HandlerState
<1>2. taken \in Seq(Messages) /\ Left(Live(a)) \in Seq(Messages)
    BY MailboxParts
<1>3. next \in HandlerState
    <2>1. handler[a][h] \in HandlerState
        BY DEF HubTypes
    <2> HIDE DEF taken
    <2> QED BY <1>2, <2>1 DEF HandlerState
<1>4. HubTypes'
    BY <1>1, <1>2, <1>3 DEF HubTypes
<1>5. ASSUME NEW r \in Agents, NEW g \in Slots,
             handler'[r][g].pc \in {"decided", "waiting"}, boxes'[r] # <<>>
      PROVE  Announcing(r)'
    <2>1. boxes[r] # <<>>
        BY <1>1, <1>5, MailboxParts DEF HubTypes
    <2>2. ~(r = a /\ g = h)
        <3>1. SUFFICES ASSUME r = a, g = h PROVE FALSE
            OBVIOUS
        <3>2. handler'[a][h] = next /\ boxes'[a] = Left(Live(a))
            BY <1>1 DEF HubTypes
        <3>3. taken = <<>>
            BY <1>5, <3>1, <3>2 DEF HubTypes, HandlerState
        <3> QED BY <1>5, <3>1, <3>2, <3>3, MailboxParts
    <2>3. handler'[r][g] = handler[r][g]
        BY <1>1, <2>2 DEF HubTypes
    <2>4. Announcing(r)
        BY <1>5, <2>1, <2>3 DEF DecidedAreWoken
    <2> QED BY <1>1, <2>4 DEF Announcing
<1> QED BY <1>4, <1>5 DEF DecidedAreWoken

(* A handler of agent a moves to a step other than "decided" and "waiting",  *)
(* or from "decided" to "waiting".                                           *)
LEMMA OtherHandler ==
    ASSUME Inv, UNCHANGED <<boxes, late, delivery>>, NEW a \in Agents, NEW h \in Slots,
           NEW x \in HandlerState, handler' = [handler EXCEPT ![a][h] = x],
           x.pc \in {"decided", "waiting"} => handler[a][h].pc \in {"decided", "waiting"}
    PROVE  Inv'
<1>1. HubTypes'
    BY DEF Inv, HubTypes
<1>2. \A r \in Agents, g \in Slots :
        handler'[r][g].pc \in {"decided", "waiting"} => handler[r][g].pc \in {"decided", "waiting"}
    BY DEF Inv, HubTypes
<1> QED BY <1>1, <1>2 DEF Inv, DecidedAreWoken, Announcing

\* A notification leaves nobody asleep in its mailbox.
LEMMA NotifyInv ==
    ASSUME Inv, NEW a \in Agents, Notify(a)
    PROVE  Inv'
<1> DEFINE r == Recipient[delivery[a].msg]
<1>1. /\ UNCHANGED <<boxes, late>>
      /\ delivery' = [delivery EXCEPT ![a].pc = "notified"]
      /\ handler' = [handler EXCEPT ![r] = [h \in Slots |->
           IF handler[r][h].pc = "waiting" THEN [handler[r][h] EXCEPT !.pc = "enter"]
                                           ELSE handler[r][h]]]
      /\ \A h \in Slots : handler[r][h].pc # "decided"
    BY DEF Notify, Advance, CvFree, hub
<1>2. HubTypes'
    <2>1. handler' \in [Agents -> [Slots -> HandlerState]]
        <3>1. ASSUME r \in Agents, NEW h \in Slots
              PROVE  [handler[r][h] EXCEPT !.pc = "enter"] \in HandlerState
            <4>1. handler[r][h] \in HandlerState
                BY <3>1 DEF Inv, HubTypes
            <4> QED BY <4>1, HandlerChanges
        <3> QED BY <1>1, <3>1 DEF Inv, HubTypes
    <2>2. delivery' \in [Agents -> DeliveryState]
        <3>1. delivery[a] \in DeliveryState /\ delivery[a].pc = "appended"
            BY DEF Inv, HubTypes, Notify
        <3>2. [delivery[a] EXCEPT !.pc = "notified"] \in DeliveryState
            BY <3>1, DeliveryChanges
        <3> QED BY <1>1, <3>2 DEF Inv, HubTypes
    <2> QED BY <1>1, <2>1, <2>2 DEF Inv, HubTypes
<1>3. ASSUME NEW q \in Agents, NEW g \in Slots,
             handler'[q][g].pc \in {"decided", "waiting"}, boxes'[q] # <<>>
      PROVE  Announcing(q)'
    <2>1. q # r
        BY <1>1, <1>3 DEF Inv, HubTypes, HandlerState
    <2>2. Announcing(q)
        BY <1>1, <1>3, <2>1 DEF Inv, HubTypes, DecidedAreWoken
    <2> QED BY <1>1, <2>1, <2>2 DEF Announcing, Inv, HubTypes, DeliveryState
<1> QED BY <1>2, <1>3 DEF Inv, DecidedAreWoken

LEMMA DeliverInv ==
    ASSUME Inv, NEW a \in Agents, Deliver(a)
    PROVE  Inv'
<1> DEFINE d(pc) == [delivery[a] EXCEPT !.pc = pc]
<1>0. PICK m, r : m = delivery[a].msg /\ r = Recipient[m]
    OBVIOUS
<1>1. /\ m \in Messages /\ r \in Agents
      /\ d("appended") \in DeliveryState /\ d("appended").pc = "appended"
      /\ d("appended").msg = m /\ d("refused") \in DeliveryState
    <2>1. delivery[a] \in DeliveryState /\ delivery[a].pc = "request"
        BY DEF Inv, HubTypes, Deliver
    <2> QED BY <1>0, <2>1, DeliveryChanges, RelayAssumption
<1>2. delivery[a].pc = "request" /\ handler' = handler
    BY DEF Deliver
<1>3. Live(r) \in Seq(Messages)
    BY <1>1, MailboxParts DEF Inv
<1>4. CASE ~(hubUp /\ {a, r} \subseteq registered)
    <2>1. /\ UNCHANGED <<boxes, late, handler>>
          /\ delivery' = [delivery EXCEPT ![a] = d("refused")]
        BY <1>0, <1>4 DEF Deliver, Advance
    <2> QED BY <1>1, <1>2, <2>1, OtherDelivery
<1>5. CASE (hubUp /\ {a, r} \subseteq registered) /\ ~HasRoom(r)
    <2>1. /\ boxes' = [boxes EXCEPT ![r] = Live(r)]
          /\ late' = [late EXCEPT ![r] = 0]
          /\ delivery' = [delivery EXCEPT ![a] = d("refused")]
        BY <1>0, <1>5 DEF Deliver, Advance
    <2>2. Live(r) # <<>> => boxes[r] # <<>>
        BY <1>1, LiveIsThere DEF Inv
    <2>3. HubTypes'
        BY <1>1, <1>2, <1>3, <2>1 DEF Inv, HubTypes
    <2>4. /\ \A q \in Agents : boxes'[q] # <<>> => boxes[q] # <<>>
          /\ \A b \in Agents : delivery[b].pc = "appended" => delivery'[b] = delivery[b]
        BY <1>1, <1>2, <2>1, <2>2 DEF Inv, HubTypes
    <2>5. ASSUME NEW q \in Agents, NEW g \in Slots,
                 handler'[q][g].pc \in {"decided", "waiting"}, boxes'[q] # <<>>
          PROVE  Announcing(q)'
        <3>1. PICK b \in Agents : delivery[b].pc = "appended" /\ Recipient[delivery[b].msg] = q
            BY <1>2, <2>4, <2>5 DEF Inv, DecidedAreWoken, Announcing
        <3> QED BY <2>4, <3>1 DEF Announcing
    <2> QED BY <2>3, <2>5 DEF Inv, DecidedAreWoken
<1>6. CASE (hubUp /\ {a, r} \subseteq registered) /\ HasRoom(r)
    <2>1. /\ boxes' = [boxes EXCEPT ![r] = Append(Live(r), m)]
          /\ late' = [late EXCEPT ![r] = 0]
          /\ delivery' = [delivery EXCEPT ![a] = d("appended")]
        BY <1>0, <1>6 DEF Deliver, Advance
    <2>2. Append(Live(r), m) \in Seq(Messages)
        BY <1>1, <1>3
    <2>3. HubTypes'
        BY <1>1, <1>2, <2>1, <2>2 DEF Inv, HubTypes
    <2>4. Announcing(r)'
        <3>1. delivery'[a] = d("appended")
            BY <2>1 DEF Inv, HubTypes
        <3>2. delivery'[a].pc = "appended" /\ Recipient[delivery'[a].msg] = r
            BY <1>0, <1>1, <3>1
        <3> QED BY <3>2 DEF Announcing
    <2>5. /\ \A q \in Agents : q # r => boxes'[q] = boxes[q]
          /\ \A b \in Agents : delivery[b].pc = "appended" => delivery'[b] = delivery[b]
        BY <1>1, <1>2, <2>1 DEF Inv, HubTypes
    <2>6. ASSUME NEW q \in Agents, NEW g \in Slots,
                 handler'[q][g].pc \in {"decided", "waiting"}, boxes'[q] # <<>>
          PROVE  Announcing(q)'
        <3>1. CASE q = r
            BY <2>4, <3>1 DEF Announcing
        <3>2. CASE q # r
            <4>1. PICK b \in Agents : delivery[b].pc = "appended" /\ Recipient[delivery[b].msg] = q
                BY <1>2, <2>5, <2>6, <3>2 DEF Inv, DecidedAreWoken, Announcing
            <4> QED BY <2>5, <4>1 DEF Announcing
        <3> QED BY <3>1, <3>2
    <2> QED BY <2>3, <2>6 DEF Inv, DecidedAreWoken
<1> QED BY <1>4, <1>5, <1>6

-----------------------------------------------------------------------------
(* The steps of the poll threads and the failures.                           *)
LEMMA PollInv ==
    ASSUME Inv, NEW a \in Agents, NEW t \in Threads, Poll(a, t)
    PROVE  Inv'
<1>1. UNCHANGED <<boxes, late, delivery>>
    BY DEF Poll, hub
<1>2. CASE hubUp /\ a \in registered
    <2> DEFINE x == [pc |-> "enter", client |-> t, got |-> <<>>]
    <2>1. PICK h \in Slots : handler' = [handler EXCEPT ![a][h] = x]
        BY <1>2 DEF Poll
    <2>2. x \in HandlerState /\ x.pc = "enter"
        BY EmptySeq DEF HandlerState
    <2> HIDE DEF x
    <2> QED BY <1>1, <2>1, <2>2, OtherHandler
<1>3. CASE ~(hubUp /\ a \in registered)
    BY <1>1, <1>3, Elsewhere DEF Poll, Inv, HubTypes
<1> QED BY <1>2, <1>3

LEMMA AnswerInv ==
    ASSUME Inv, NEW a \in Agents, NEW h \in Slots, Answer(a, h)
    PROVE  Inv'
<1>1. UNCHANGED <<boxes, late, delivery>> /\ handler' = [handler EXCEPT ![a][h] = IdleHandler]
    BY DEF Answer, Unread
<1>2. IdleHandler \in HandlerState /\ IdleHandler.pc = "free"
    BY EmptySeq DEF HandlerState, IdleHandler
<1> QED BY <1>1, <1>2, OtherHandler

LEMMA WaitInv ==
    ASSUME Inv, NEW a \in Agents, NEW h \in Slots, Wait(a, h)
    PROVE  Inv'
<1> DEFINE x == [handler[a][h] EXCEPT !.pc = "waiting"]
<1>1. /\ UNCHANGED <<boxes, late, delivery>> /\ handler' = [handler EXCEPT ![a][h] = x]
      /\ handler[a][h].pc = "decided"
    BY DEF Wait, hub, Inv, HubTypes
<1>2. x \in HandlerState
    <2>1. handler[a][h] \in HandlerState
        BY DEF Inv, HubTypes
    <2> QED BY <2>1, HandlerChanges
<1> HIDE DEF x
<1> QED BY <1>1, <1>2, OtherHandler

LEMMA DropConnectionInv ==
    ASSUME Inv, NEW a \in Agents, NEW t \in Threads, DropConnection(a, t)
    PROVE  Inv'
<1> DEFINE x(h) == IF handler[a][h].client = t
                   THEN [handler[a][h] EXCEPT !.client = Nobody] ELSE handler[a][h]
<1>1. /\ UNCHANGED <<boxes, late, delivery>>
      /\ handler' = [handler EXCEPT ![a] = [h \in Slots |-> x(h)]]
    BY DEF DropConnection, hub
<1>2. \A h \in Slots : x(h) \in HandlerState /\ x(h).pc = handler[a][h].pc
    <2>1. \A h \in Slots : handler[a][h] \in HandlerState
        BY DEF Inv, HubTypes
    <2> QED BY <2>1, HandlerChanges
<1> HIDE DEF x
<1>3. HubTypes'
    BY <1>1, <1>2 DEF Inv, HubTypes
<1>4. \A r \in Agents, g \in Slots : handler'[r][g].pc = handler[r][g].pc
    BY <1>1, <1>2 DEF Inv, HubTypes
<1> QED BY <1>1, <1>3, <1>4 DEF Inv, DecidedAreWoken, Announcing

LEMMA HubCrashInv ==
    ASSUME Inv, HubCrash
    PROVE  Inv'
<1>1. \A a \in Agents, h \in Slots : handler'[a][h] = IdleHandler
    BY DEF HubCrash
<1>2. IdleHandler \in HandlerState /\ IdleHandler.pc = "free"
    BY EmptySeq DEF HandlerState, IdleHandler
<1>3. delivery' \in [Agents -> DeliveryState]
    <2>1. \A a \in Agents : delivery[a].pc = "appended" =>
            [delivery[a] EXCEPT !.pc = "refused"] \in DeliveryState
        BY DeliveryChanges DEF Inv, HubTypes
    <2> QED BY <2>1 DEF HubCrash, Inv, HubTypes
<1>4. handler' \in [Agents -> [Slots -> HandlerState]]
    BY <1>2 DEF HubCrash
<1>5. boxes' \in [Agents -> Seq(Messages)] /\ late' \in [Agents -> Nat]
    BY EmptySeq DEF HubCrash
<1> QED BY <1>1, <1>2, <1>3, <1>4, <1>5 DEF Inv, HubTypes, DecidedAreWoken

-----------------------------------------------------------------------------
(* Every step of the hub, of an agent or of the environment preserves it: a  *)
(* delivery notifies whom it appended for, a poll waits only after it looked *)
(* (relay_server.py:112-173).                                                *)
THEOREM NextInv == Inv /\ [Next]_vars => Inv'
<1> SUFFICES ASSUME Inv, [Next]_vars PROVE Inv'
    OBVIOUS
<1>1. ASSUME NEW a \in Agents, NEW h \in Slots, HandlerStep(a, h) PROVE Inv'
    BY <1>1, CheckInv, WaitInv, AnswerInv DEF HandlerStep
<1>2. ASSUME NEW a \in Agents, DeliveryStep(a) PROVE Inv'
    <2>1. CASE DeliverReply(a)
        <3>1. /\ UNCHANGED <<boxes, late, handler>> /\ delivery[a].pc # "appended"
              /\ delivery' = [delivery EXCEPT ![a] = IdleDelivery]
            BY <2>1 DEF DeliverReply, hub
        <3> QED BY <3>1, OtherDelivery DEF DeliveryState
    <2> QED BY <1>2, <2>1, DeliverInv, NotifyInv DEF DeliveryStep
<1>3. ASSUME NEW a \in Agents, Dispatch(a) PROVE Inv'
    BY <1>3, Elsewhere DEF Dispatch, hub, Inv, HubTypes
<1>4. ASSUME NEW a \in Agents, Start(a) PROVE Inv'
    BY <1>4, Elsewhere DEF Start, Inv, HubTypes
<1>5. ASSUME NEW a \in Agents, NEW t \in Threads, ThreadStep(a, t) PROVE Inv'
    <2>1. CASE Exit(a, t)
        BY <2>1, Elsewhere DEF Exit, hub, Inv, HubTypes
    <2>2. CASE Register(a, t)
        BY <2>2, Elsewhere DEF Register, Inv, HubTypes
    <2>3. CASE Connect(a, t)
        BY <2>3, Elsewhere DEF Connect, hub, Inv, HubTypes
    <2>4. CASE Store(a, t)
        BY <2>4, Elsewhere DEF Store, hub, Inv, HubTypes
    <2> QED BY <1>5, <2>1, <2>2, <2>3, <2>4, PollInv DEF ThreadStep
<1>6. ASSUME NEW m \in Messages, SendFrame(m) PROVE Inv'
    <2> DEFINE d == [pc |-> "request", msg |-> m]
    <2>1. /\ UNCHANGED <<boxes, late, handler>> /\ Sender[m] \in Agents
          /\ delivery[Sender[m]].pc = "idle"
          /\ delivery' = [delivery EXCEPT ![Sender[m]] = d]
        BY <1>6, RelayAssumption DEF SendFrame, hub
    <2>2. d \in DeliveryState
        BY DEF DeliveryState
    <2> HIDE DEF d
    <2> QED BY <2>1, <2>2, OtherDelivery
<1>7. CASE HubStart
    BY <1>7, Elsewhere DEF HubStart, Inv, HubTypes
<1>8. CASE Failure
    <2>1. ASSUME NEW a \in Agents, Stop(a) PROVE Inv'
        BY <2>1, Elsewhere DEF Stop, hub, Inv, HubTypes
    <2>2. ASSUME NEW a \in Agents, LoseReply(a) PROVE Inv'
        <3> DEFINE d == [delivery[a] EXCEPT !.pc = "refused"]
        <3>1. /\ UNCHANGED <<boxes, late, handler>> /\ delivery[a].pc = "notified"
              /\ delivery' = [delivery EXCEPT ![a] = d]
            BY <2>2 DEF LoseReply, Advance, hub
        <3>2. d \in DeliveryState
            BY <3>1, DeliveryChanges DEF Inv, HubTypes
        <3> HIDE DEF d
        <3> QED BY <3>1, <3>2, OtherDelivery
    <2>3. ASSUME NEW a \in Agents, Age(a) PROVE Inv'
        <3>1. late' \in [Agents -> Nat]
            BY <2>3 DEF Age, Inv, HubTypes
        <3> QED BY <2>3, <3>1, Elsewhere DEF Age
    <2> QED BY <1>8, <2>1, <2>2, <2>3, HubCrashInv, DropConnectionInv DEF Failure
<1>9. CASE UNCHANGED vars
    BY <1>9, Elsewhere DEF vars, hub, Inv, HubTypes
<1> QED BY <1>1, <1>2, <1>3, <1>4, <1>5, <1>6, <1>7, <1>8, <1>9 DEF Next

(* While a poll sleeps on a mailbox that holds a message, the request that   *)
(* delivers one is about to notify it, for any number of agents, polls and   *)
(* frames, any capacities, and any failures.                                 *)
THEOREM NoLostWakeup == Spec => []SleepersAreWoken
<1>1. Inv => SleepersAreWoken
    BY DEF Inv, DecidedAreWoken, Announcing, SleepersAreWoken
<1> QED BY InitInv, NextInv, <1>1, PTL DEF Spec

-----------------------------------------------------------------------------
(* At most once.  The places a frame can be in are the keys of one function, *)
(* and a step of the relay moves a run of frames from one place to the next, *)
(* appends a frame that is in none, or drops some.                           *)
AllPlaces ==
    ({"mailbox", "inbox", "dispatched"} \X Agents)
      \cup ({"drained"} \X (Agents \X Slots)) \cup ({"batch"} \X (Agents \X Threads))

Content(p) == CASE p[1] = "mailbox" -> boxes[p[2]]
                [] p[1] = "inbox" -> inbox[p[2]]
                [] p[1] = "dispatched" -> dispatched[p[2]]
                [] p[1] = "drained" -> handler[p[2][1]][p[2][2]].got
                [] OTHER -> thread[p[2][1]][p[2][2]].batch

Held == [p \in AllPlaces |-> Content(p)]

\* No message is twice in the sequences C[p], p in S.
Distinct(C, S) ==
    \A p, q \in S : \A i \in DOMAIN C[p], j \in DOMAIN C[q] :
      C[p][i] = C[q][j] => p = q /\ i = j

\* D[p] is what C[p] had from some index on.
Shrinks(c, d) ==
    \E e \in Nat : \A i \in DOMAIN d : i \in Nat /\ i + e \in DOMAIN c /\ d[i] = c[i + e]

\* p1 keeps what it had after index k; p2 keeps at most n messages, in front of
\* some of the first k of p1.
MovesBy(C, D, S, p1, p2, k, s, n, e) ==
    /\ \A p \in S \ {p1, p2} : D[p] = C[p]
    /\ \A i \in DOMAIN D[p1] :
         i \in Nat \ {0} /\ i + k \in DOMAIN C[p1] /\ D[p1][i] = C[p1][i + k]
    /\ \A i \in DOMAIN D[p2] :
         /\ i \in Nat
         /\ \/ i <= n /\ i + e \in DOMAIN C[p2] /\ D[p2][i] = C[p2][i + e]
            \/ /\ i > n /\ i - n + s <= k
               /\ i - n + s \in DOMAIN C[p1] /\ D[p2][i] = C[p1][i - n + s]
Moves(C, D, S, p1, p2) == \E k, s, n, e \in Nat : MovesBy(C, D, S, p1, p2, k, s, n, e)

\* p2 keeps n messages and gets m behind them.
Gains(C, D, S, p2, m) ==
    \E n, e \in Nat :
      /\ \A p \in S \ {p2} : D[p] = C[p]
      /\ \A i \in DOMAIN D[p2] :
           /\ i \in Nat
           /\ \/ i <= n /\ i + e \in DOMAIN C[p2] /\ D[p2][i] = C[p2][i + e]
              \/ i = n + 1 /\ D[p2][i] = m

LEMMA DistinctShrinks ==
    ASSUME NEW S, NEW C, NEW D, Distinct(C, S), \A p \in S : Shrinks(C[p], D[p]),
           \A p \in S : DOMAIN C[p] \subseteq Nat
    PROVE  Distinct(D, S)
<1> SUFFICES ASSUME NEW p \in S, NEW q \in S, NEW i \in DOMAIN D[p], NEW j \in DOMAIN D[q],
                    D[p][i] = D[q][j]
             PROVE  p = q /\ i = j
    BY DEF Distinct
<1>1. PICK e \in Nat : \A l \in DOMAIN D[p] : l \in Nat /\ l + e \in DOMAIN C[p] /\ D[p][l] = C[p][l + e]
    BY DEF Shrinks
<1>2. PICK f \in Nat : \A l \in DOMAIN D[q] : l \in Nat /\ l + f \in DOMAIN C[q] /\ D[q][l] = C[q][l + f]
    BY DEF Shrinks
<1>3. p = q /\ i + e = j + f
    BY <1>1, <1>2 DEF Distinct
<1>4. C[p][j + e] = C[p][j + f] /\ j + e \in DOMAIN C[p] /\ j + f \in DOMAIN C[p]
    BY <1>1, <1>2, <1>3
<1>5. j + e = j + f
    BY <1>4 DEF Distinct
<1> QED BY <1>1, <1>2, <1>3, <1>5

LEMMA DistinctMoves ==
    ASSUME NEW S, NEW C, NEW D, Distinct(C, S), NEW p1 \in S, NEW p2 \in S, p1 # p2,
           Moves(C, D, S, p1, p2)
    PROVE  Distinct(D, S)
<1>1. PICK k \in Nat, s \in Nat, n \in Nat, e \in Nat :
      /\ \A p \in S \ {p1, p2} : D[p] = C[p]
      /\ \A i \in DOMAIN D[p1] :
           i \in Nat \ {0} /\ i + k \in DOMAIN C[p1] /\ D[p1][i] = C[p1][i + k]
      /\ \A i \in DOMAIN D[p2] :
           /\ i \in Nat
           /\ \/ i <= n /\ i + e \in DOMAIN C[p2] /\ D[p2][i] = C[p2][i + e]
              \/ /\ i > n /\ i - n + s <= k
                 /\ i - n + s \in DOMAIN C[p1] /\ D[p2][i] = C[p1][i - n + s]
    BY DEF Moves, MovesBy
<1>2. SUFFICES ASSUME NEW p \in S, NEW q \in S, NEW i \in DOMAIN D[p], NEW j \in DOMAIN D[q],
                      D[p][i] = D[q][j]
               PROVE  p = q /\ i = j
    BY DEF Distinct
<1>3. CASE p \notin {p1, p2} /\ q \notin {p1, p2}
    BY <1>1, <1>2, <1>3 DEF Distinct
<1>4. CASE p = p1 \/ q = p1
    <2>1. ASSUME p = p1, q = p1 PROVE i = j
        BY <1>1, <1>2, <2>1 DEF Distinct
    <2>2. ASSUME p = p1, q = p2 PROVE FALSE
        BY <1>1, <1>2, <2>2 DEF Distinct
    <2>3. ASSUME p = p2, q = p1 PROVE FALSE
        BY <1>1, <1>2, <2>3 DEF Distinct
    <2>4. ASSUME p = p1, q \notin {p1, p2} PROVE FALSE
        BY <1>1, <1>2, <2>4 DEF Distinct
    <2>5. ASSUME q = p1, p \notin {p1, p2} PROVE FALSE
        BY <1>1, <1>2, <2>5 DEF Distinct
    <2> QED BY <1>4, <2>1, <2>2, <2>3, <2>4, <2>5
<1>5. CASE p = p2 /\ q = p2
    BY <1>1, <1>2, <1>5 DEF Distinct
<1>6. ASSUME p = p2, q \notin {p1, p2} PROVE FALSE
    BY <1>1, <1>2, <1>6 DEF Distinct
<1>7. ASSUME q = p2, p \notin {p1, p2} PROVE FALSE
    BY <1>1, <1>2, <1>7 DEF Distinct
<1> QED BY <1>3, <1>4, <1>5, <1>6, <1>7

LEMMA DistinctGains ==
    ASSUME NEW S, NEW C, NEW D, Distinct(C, S), NEW p2 \in S, NEW m, Gains(C, D, S, p2, m),
           \A p \in S : \A i \in DOMAIN C[p] : C[p][i] # m
    PROVE  Distinct(D, S)
<1>1. PICK n \in Nat, e \in Nat :
      /\ \A p \in S \ {p2} : D[p] = C[p]
      /\ \A i \in DOMAIN D[p2] :
           /\ i \in Nat
           /\ \/ i <= n /\ i + e \in DOMAIN C[p2] /\ D[p2][i] = C[p2][i + e]
              \/ i = n + 1 /\ D[p2][i] = m
    BY DEF Gains
<1>2. SUFFICES ASSUME NEW p \in S, NEW q \in S, NEW i \in DOMAIN D[p], NEW j \in DOMAIN D[q],
                      D[p][i] = D[q][j]
               PROVE  p = q /\ i = j
    BY DEF Distinct
<1>3. CASE p # p2 /\ q # p2
    BY <1>1, <1>2, <1>3 DEF Distinct
<1>4. CASE p = p2 /\ q = p2
    BY <1>1, <1>2, <1>4 DEF Distinct
<1>5. ASSUME p = p2, q # p2 PROVE FALSE
    BY <1>1, <1>2, <1>5 DEF Distinct
<1>6. ASSUME q = p2, p # p2 PROVE FALSE
    BY <1>1, <1>2, <1>6 DEF Distinct
<1> QED BY <1>3, <1>4, <1>5, <1>6

-----------------------------------------------------------------------------
(* What each place holds, before and after a step.                           *)
LEMMA HeldAt ==
    ASSUME NEW a \in Agents
    PROVE  /\ Held[<<"mailbox", a>>] = boxes[a] /\ Held'[<<"mailbox", a>>] = boxes'[a]
           /\ Held[<<"inbox", a>>] = inbox[a] /\ Held'[<<"inbox", a>>] = inbox'[a]
           /\ Held[<<"dispatched", a>>] = dispatched[a]
           /\ Held'[<<"dispatched", a>>] = dispatched'[a]
           /\ {<<"mailbox", a>>, <<"inbox", a>>, <<"dispatched", a>>} \subseteq AllPlaces
           /\ \A h \in Slots : /\ <<"drained", <<a, h>>>> \in AllPlaces
                               /\ Held[<<"drained", <<a, h>>>>] = handler[a][h].got
                               /\ Held'[<<"drained", <<a, h>>>>] = handler'[a][h].got
           /\ \A t \in Threads : /\ <<"batch", <<a, t>>>> \in AllPlaces
                                 /\ Held[<<"batch", <<a, t>>>>] = thread[a][t].batch
                                 /\ Held'[<<"batch", <<a, t>>>>] = thread'[a][t].batch
<1>1. {<<"mailbox", a>>, <<"inbox", a>>, <<"dispatched", a>>} \subseteq AllPlaces
    BY DEF AllPlaces
<1>2. /\ Held[<<"mailbox", a>>] = boxes[a] /\ Held'[<<"mailbox", a>>] = boxes'[a]
      /\ Held[<<"inbox", a>>] = inbox[a] /\ Held'[<<"inbox", a>>] = inbox'[a]
      /\ Held[<<"dispatched", a>>] = dispatched[a]
      /\ Held'[<<"dispatched", a>>] = dispatched'[a]
    BY <1>1 DEF Held, Content
<1>3. ASSUME NEW h \in Slots
      PROVE  /\ <<"drained", <<a, h>>>> \in AllPlaces
             /\ Held[<<"drained", <<a, h>>>>] = handler[a][h].got
             /\ Held'[<<"drained", <<a, h>>>>] = handler'[a][h].got
    <2>1. <<"drained", <<a, h>>>> \in AllPlaces
        BY DEF AllPlaces
    <2> QED BY <2>1 DEF Held, Content
<1>4. ASSUME NEW t \in Threads
      PROVE  /\ <<"batch", <<a, t>>>> \in AllPlaces
             /\ Held[<<"batch", <<a, t>>>>] = thread[a][t].batch
             /\ Held'[<<"batch", <<a, t>>>>] = thread'[a][t].batch
    <2>1. <<"batch", <<a, t>>>> \in AllPlaces
        BY DEF AllPlaces
    <2> QED BY <2>1 DEF Held, Content
<1> QED BY <1>1, <1>2, <1>3, <1>4

\* The five kinds of place, each with the agent it belongs to.
LEMMA PlaceCases ==
    ASSUME NEW p \in AllPlaces
    PROVE  \E a \in Agents :
             \/ p \in {<<"mailbox", a>>, <<"inbox", a>>, <<"dispatched", a>>}
             \/ \E h \in Slots : p = <<"drained", <<a, h>>>>
             \/ \E t \in Threads : p = <<"batch", <<a, t>>>>
<1>1. CASE p \in {"mailbox", "inbox", "dispatched"} \X Agents
    BY <1>1
<1>2. CASE p \in {"drained"} \X (Agents \X Slots)
    BY <1>2
<1>3. CASE p \in {"batch"} \X (Agents \X Threads)
    BY <1>3
<1> QED BY <1>1, <1>2, <1>3 DEF AllPlaces

\* A step changes the places X at most.
LEMMA Unmoved ==
    ASSUME NEW X,
           \A a \in Agents : <<"mailbox", a>> \in X \/ boxes'[a] = boxes[a],
           \A a \in Agents : <<"inbox", a>> \in X \/ inbox'[a] = inbox[a],
           \A a \in Agents : <<"dispatched", a>> \in X \/ dispatched'[a] = dispatched[a],
           \A a \in Agents, h \in Slots :
             <<"drained", <<a, h>>>> \in X \/ handler'[a][h].got = handler[a][h].got,
           \A a \in Agents, t \in Threads :
             <<"batch", <<a, t>>>> \in X \/ thread'[a][t].batch = thread[a][t].batch
    PROVE  \A p \in AllPlaces \ X : Held'[p] = Held[p]
<1> SUFFICES ASSUME NEW p \in AllPlaces, p \notin X
             PROVE  Held'[p] = Held[p]
    OBVIOUS
<1>1. PICK a \in Agents :
             \/ p \in {<<"mailbox", a>>, <<"inbox", a>>, <<"dispatched", a>>}
             \/ \E h \in Slots : p = <<"drained", <<a, h>>>>
             \/ \E t \in Threads : p = <<"batch", <<a, t>>>>
    BY PlaceCases
<1>2. ASSUME NEW h \in Slots, p = <<"drained", <<a, h>>>> PROVE Held'[p] = Held[p]
    BY <1>2, HeldAt
<1>3. ASSUME NEW t \in Threads, p = <<"batch", <<a, t>>>> PROVE Held'[p] = Held[p]
    BY <1>3, HeldAt
<1>4. ASSUME p = <<"mailbox", a>> PROVE Held'[p] = Held[p]
    BY <1>4, HeldAt
<1>5. ASSUME p = <<"inbox", a>> PROVE Held'[p] = Held[p]
    BY <1>5, HeldAt
<1>6. ASSUME p = <<"dispatched", a>> PROVE Held'[p] = Held[p]
    BY <1>6, HeldAt
<1> QED BY <1>1, <1>2, <1>3, <1>4, <1>5, <1>6

(* What the proofs need of the types of the agents' state, and the loop of   *)
(* the poll thread: it has a batch in hand exactly while it stores one       *)
(* (relay_transport.py:179-214).                                             *)
AgentTypes ==
    /\ inbox \in [Agents -> Seq(Messages)] /\ dispatched \in [Agents -> Seq(Messages)]
    /\ thread \in [Agents -> [Threads -> ThreadState]]
    /\ unsent \subseteq Messages

StoringABatch ==
    \A a \in Agents, t \in Threads :
      thread[a][t].pc = "storing" <=> thread[a][t].batch # <<>>

\* Everything of its sender that is still to be delivered comes after m.
Behind(m) ==
    /\ \A k \in unsent : Sender[k] = Sender[m] => m < k
    /\ delivery[Sender[m]].pc = "request" => m < delivery[Sender[m]].msg

(* send_frame sends an agent's frames one at a time in their order, so a      *)
(* frame that is in a place is in front of those that are in none.            *)
SentInOrder ==
    /\ \A a \in Agents : delivery[a].pc = "request" =>
         /\ Sender[delivery[a].msg] = a
         /\ \A k \in unsent : Sender[k] = a => delivery[a].msg < k
    /\ \A p \in AllPlaces : \A i \in DOMAIN Held[p] : Behind(Held[p][i])

Flow == Inv /\ AgentTypes /\ StoringABatch
CopyInv == Flow /\ SentInOrder /\ Distinct(Held, AllPlaces)

LEMMA HeldType ==
    ASSUME Flow, NEW p \in AllPlaces
    PROVE  Held[p] \in Seq(Messages)
<1>1. PICK a \in Agents :
             \/ p \in {<<"mailbox", a>>, <<"inbox", a>>, <<"dispatched", a>>}
             \/ \E h \in Slots : p = <<"drained", <<a, h>>>>
             \/ \E t \in Threads : p = <<"batch", <<a, t>>>>
    BY PlaceCases
<1>2. ASSUME NEW h \in Slots, p = <<"drained", <<a, h>>>> PROVE Held[p] \in Seq(Messages)
    <2>1. handler[a][h] \in HandlerState
        BY DEF Flow, Inv, HubTypes
    <2> QED BY <1>2, <2>1, HeldAt DEF HandlerState
<1>3. ASSUME NEW t \in Threads, p = <<"batch", <<a, t>>>> PROVE Held[p] \in Seq(Messages)
    <2>1. thread[a][t] \in ThreadState
        BY DEF Flow, AgentTypes
    <2> QED BY <1>3, <2>1, HeldAt DEF ThreadState
<1>4. ASSUME p = <<"mailbox", a>> PROVE Held[p] \in Seq(Messages)
    BY <1>4, HeldAt DEF Flow, Inv, HubTypes
<1>5. ASSUME p = <<"inbox", a>> PROVE Held[p] \in Seq(Messages)
    BY <1>5, HeldAt DEF Flow, AgentTypes
<1>6. ASSUME p = <<"dispatched", a>> PROVE Held[p] \in Seq(Messages)
    BY <1>6, HeldAt DEF Flow, AgentTypes
<1> QED BY <1>1, <1>2, <1>3, <1>4, <1>5, <1>6

-----------------------------------------------------------------------------
(* What a poll takes and leaves are the front and the rest of what has not   *)
(* expired, and that is the end of the mailbox.                              *)
LEMMA MailboxIndices ==
    ASSUME HubTypes, NEW a \in Agents
    PROVE  /\ \A i \in DOMAIN Live(a) :
                i \in Nat \ {0} /\ i + late[a] \in DOMAIN boxes[a] /\ Live(a)[i] = boxes[a][i + late[a]]
           /\ \A i \in DOMAIN Taken(Live(a)) :
                /\ i \in Nat \ {0} /\ i <= PollMax /\ i + late[a] \in DOMAIN boxes[a]
                /\ Taken(Live(a))[i] = boxes[a][i + late[a]]
           /\ \A i \in DOMAIN Left(Live(a)) :
                /\ i \in Nat \ {0} /\ i + (PollMax + late[a]) \in DOMAIN boxes[a]
                /\ Left(Live(a))[i] = boxes[a][i + (PollMax + late[a])]
<1>1. PollMax \in Nat /\ PollMax >= 1
    BY RelayAssumption
<1> DEFINE B == boxes[a]
           L == late[a]
<1>2. B \in Seq(Messages) /\ L \in Nat
    BY DEF HubTypes
<1> HIDE DEF B, L
<1>3. /\ Live(a) \in Seq(Messages)
      /\ Len(Live(a)) = IF L + 1 <= Len(B) THEN Len(B) - L ELSE 0
      /\ \A i \in 1..Len(Live(a)) : Live(a)[i] = B[i + L]
    <2>1. Live(a) = SubSeq(B, L + 1, Len(B))
        BY DEF Live, B, L
    <2> QED BY <1>2, <2>1, SubSeqProperties
<1> DEFINE box == Live(a)
<1> HIDE DEF box
<1>4. box \in Seq(Messages) /\ Len(box) \in Nat /\ Len(B) \in Nat
    BY <1>2, <1>3 DEF box
<1>5. /\ Taken(box) \in Seq(Messages) /\ Len(Taken(box)) <= PollMax /\ Len(Taken(box)) <= Len(box)
      /\ \A i \in 1..Len(Taken(box)) : Taken(box)[i] = box[i]
    BY <1>1, <1>4, SubSeqProperties DEF Taken
<1>6. /\ Left(box) \in Seq(Messages)
      /\ Len(Left(box)) = IF PollMax + 1 <= Len(box) THEN Len(box) - PollMax ELSE 0
      /\ \A i \in 1..Len(Left(box)) : Left(box)[i] = box[i + PollMax]
    BY <1>1, <1>4, SubSeqProperties DEF Left
<1>7. \A i \in DOMAIN box : i \in Nat \ {0} /\ i + L \in DOMAIN B /\ box[i] = B[i + L]
    <2>1. DOMAIN box = 1..Len(box) /\ DOMAIN B = 1..Len(B)
        BY <1>2, <1>4
    <2>2. /\ Len(box) = IF L + 1 <= Len(B) THEN Len(B) - L ELSE 0
          /\ \A i \in 1..Len(box) : box[i] = B[i + L]
        BY <1>3 DEF box
    <2>3. \A i \in 1..Len(box) : i \in Nat \ {0} /\ i + L \in 1..Len(B)
        BY <1>2, <1>4, <2>2
    <2> QED BY <2>1, <2>2, <2>3
<1>8. \A i \in DOMAIN Taken(box) :
        i \in Nat \ {0} /\ i <= PollMax /\ i + L \in DOMAIN B /\ Taken(box)[i] = B[i + L]
    <2>1. \A i \in DOMAIN Taken(box) :
            i \in Nat \ {0} /\ i <= PollMax /\ i \in DOMAIN box /\ Taken(box)[i] = box[i]
        BY <1>1, <1>4, <1>5
    <2> QED BY <1>7, <2>1
<1>9. \A i \in DOMAIN Left(box) :
        /\ i \in Nat \ {0} /\ i + (PollMax + L) \in DOMAIN B
        /\ Left(box)[i] = B[i + (PollMax + L)]
    <2>1. \A i \in DOMAIN Left(box) :
            i \in Nat \ {0} /\ i + PollMax \in DOMAIN box /\ Left(box)[i] = box[i + PollMax]
        BY <1>1, <1>4, <1>6
    <2>2. ASSUME NEW i \in DOMAIN Left(box)
          PROVE  (i + PollMax) + L = i + (PollMax + L)
        BY <1>1, <1>2, <2>1
    <2> QED BY <1>7, <2>1, <2>2
<1> QED BY <1>7, <1>8, <1>9 DEF box, B, L

\* A poll thread goes on to another point of its loop, with no batch in hand.
LEMMA GotoFlow ==
    ASSUME AgentTypes, StoringABatch, NEW a \in Agents, NEW t \in Threads,
           NEW pc \in {"off", "top", "registered", "poll", "polling"},
           thread[a][t].pc # "storing", Goto(a, t, pc)
    PROVE  /\ thread' \in [Agents -> [Threads -> ThreadState]]
           /\ StoringABatch'
           /\ \A b \in Agents, u \in Threads : thread'[b][u].batch = thread[b][u].batch
           /\ \A b \in Agents, u \in Threads :
                thread'[b][u].pc = IF b = a /\ u = t THEN pc ELSE thread[b][u].pc
<1> DEFINE x == [thread[a][t] EXCEPT !.pc = pc]
<1>1. thread[a][t] \in ThreadState
    BY DEF AgentTypes
<1>2. x \in ThreadState /\ x.pc = pc /\ x.batch = thread[a][t].batch
    BY <1>1 DEF ThreadState
<1>3. thread' = [thread EXCEPT ![a] = [thread[a] EXCEPT ![t] = x]]
    BY DEF Goto, AgentTypes
<1> HIDE DEF x
<1>4. \A b \in Agents, u \in Threads : thread'[b][u] = IF b = a /\ u = t THEN x ELSE thread[b][u]
    BY <1>3 DEF AgentTypes
<1>5. thread' \in [Agents -> [Threads -> ThreadState]]
    BY <1>2, <1>3 DEF AgentTypes
<1>6. /\ \A b \in Agents, u \in Threads : thread'[b][u].batch = thread[b][u].batch
      /\ \A b \in Agents, u \in Threads :
           thread'[b][u].pc = IF b = a /\ u = t THEN pc ELSE thread[b][u].pc
    BY <1>2, <1>4
<1> QED BY <1>5, <1>6 DEF StoringABatch

(* Steps that leave what the agents hold alone.                              *)
LEMMA FlowElsewhere ==
    ASSUME Flow, Inv', UNCHANGED <<inbox, dispatched, thread>>, unsent' \subseteq unsent
    PROVE  Flow'
BY DEF Flow, AgentTypes, StoringABatch

LEMMA FlowGoto ==
    ASSUME Flow, Inv', UNCHANGED <<inbox, dispatched, unsent>>, NEW a \in Agents, NEW t \in Threads,
           NEW pc \in {"off", "top", "registered", "poll", "polling"},
           thread[a][t].pc # "storing", Goto(a, t, pc)
    PROVE  Flow'
BY GotoFlow DEF Flow, AgentTypes

\* A reply puts its messages in the hands of the poll thread that asked.
LEMMA AnswerFlow ==
    ASSUME Flow, NEW a \in Agents, NEW h \in Slots, Answer(a, h),
           handler[a][h].client # Nobody
    PROVE  /\ Flow'
           /\ handler[a][h].client \in Threads
           /\ \A u \in Threads : u # handler[a][h].client => thread'[a][u] = thread[a][u]
           /\ thread'[a][handler[a][h].client].batch = handler[a][h].got
           /\ \A b \in Agents : b # a => thread'[b] = thread[b]
<1> DEFINE t == handler[a][h].client
           got == handler[a][h].got
           x == [pc |-> IF got = <<>> THEN "top" ELSE "storing", batch |-> got]
<1>1. t \in Threads /\ got \in Seq(Messages)
    <2>1. handler[a][h] \in HandlerState
        BY DEF Flow, Inv, HubTypes
    <2> QED BY <2>1 DEF HandlerState
<1>2. /\ thread' = [thread EXCEPT ![a][t] = x]
      /\ UNCHANGED <<inbox, dispatched, unsent>>
    BY DEF Answer, agent
<1> HIDE DEF t, got
<1>3. x \in ThreadState /\ x.batch = got /\ (x.pc = "storing" <=> x.batch # <<>>)
    BY <1>1 DEF ThreadState
<1> HIDE DEF x
<1>4. thread' = [thread EXCEPT ![a] = [thread[a] EXCEPT ![t] = x]]
    BY <1>2 DEF Flow, AgentTypes
<1>5. \A b \in Agents, u \in Threads : thread'[b][u] = IF b = a /\ u = t THEN x ELSE thread[b][u]
    BY <1>1, <1>4 DEF Flow, AgentTypes
<1>6. AgentTypes'
    BY <1>1, <1>2, <1>3, <1>4 DEF Flow, AgentTypes
<1>7. StoringABatch'
    BY <1>3, <1>5 DEF Flow, StoringABatch
<1>8. Inv'
    BY AnswerInv DEF Flow
<1>9. \A b \in Agents : b # a => thread'[b] = thread[b]
    BY <1>4 DEF Flow, AgentTypes
<1> QED BY <1>1, <1>3, <1>5, <1>6, <1>7, <1>8, <1>9 DEF Flow, t, got

\* Storing a message takes it from the batch to the end of the inbox.
LEMMA StoreFlow ==
    ASSUME Flow, NEW a \in Agents, NEW t \in Threads, Store(a, t)
    PROVE  /\ Flow'
           /\ thread[a][t].batch \in Seq(Messages) /\ thread[a][t].batch # <<>>
           /\ thread'[a][t].batch = Tail(thread[a][t].batch)
           /\ \A b \in Agents, u \in Threads : ~(b = a /\ u = t) => thread'[b][u] = thread[b][u]
           /\ thread'[a][t].pc # "off"
           /\ inbox'[a] = Append(IF Len(inbox[a]) = MaxInbox THEN Tail(inbox[a]) ELSE inbox[a],
                                 Head(thread[a][t].batch))
           /\ Len(inbox[a]) = MaxInbox => inbox[a] # <<>>
           /\ \A b \in Agents : b # a => inbox'[b] = inbox[b]
<1> DEFINE batch == thread[a][t].batch
           rest == Tail(batch)
           x == [pc |-> IF rest = <<>> THEN "top" ELSE "storing", batch |-> rest]
           kept == IF Len(inbox[a]) = MaxInbox THEN Tail(inbox[a]) ELSE inbox[a]
<1>1. batch \in Seq(Messages)
    <2>1. thread[a][t] \in ThreadState
        BY DEF Flow, AgentTypes
    <2> QED BY <2>1 DEF ThreadState
<1>2. batch # <<>>
    BY DEF Store, Flow, StoringABatch
<1>3. /\ thread' = [thread EXCEPT ![a][t] = x]
      /\ inbox' = [inbox EXCEPT ![a] = Append(kept, Head(batch))]
      /\ UNCHANGED <<hub, handler, delivery, dispatched, unsent>>
    BY DEF Store, Flow, AgentTypes
<1>4. rest \in Seq(Messages) /\ Head(batch) \in Messages
    BY <1>1, <1>2, HeadTailProperties
<1>5. inbox[a] \in Seq(Messages) /\ MaxInbox \in Nat /\ MaxInbox >= 1
    BY RelayAssumption DEF Flow, AgentTypes
<1>6. Len(inbox[a]) = MaxInbox => inbox[a] # <<>>
    BY <1>5, EmptySeq
<1>7. kept \in Seq(Messages)
    BY <1>5, <1>6, HeadTailProperties
<1> HIDE DEF batch, rest, kept
<1>8. x \in ThreadState /\ x.batch = rest /\ (x.pc = "storing" <=> x.batch # <<>>) /\ x.pc # "off"
    BY <1>4 DEF ThreadState
<1> HIDE DEF x
<1>9. thread' = [thread EXCEPT ![a] = [thread[a] EXCEPT ![t] = x]]
    BY <1>3 DEF Flow, AgentTypes
<1>10. \A b \in Agents, u \in Threads : thread'[b][u] = IF b = a /\ u = t THEN x ELSE thread[b][u]
    BY <1>9 DEF Flow, AgentTypes
<1>11. Append(kept, Head(batch)) \in Seq(Messages)
    BY <1>4, <1>7
<1>12. AgentTypes'
    BY <1>3, <1>8, <1>9, <1>11 DEF Flow, AgentTypes
<1>13. StoringABatch'
    BY <1>8, <1>10 DEF Flow, StoringABatch
<1>14. Inv'
    BY <1>3, Elsewhere DEF Flow, hub, Inv, HubTypes
<1>15. inbox'[a] = Append(kept, Head(batch)) /\ \A b \in Agents : b # a => inbox'[b] = inbox[b]
    BY <1>3 DEF Flow, AgentTypes
<1> QED BY <1>1, <1>2, <1>6, <1>8, <1>10, <1>12, <1>13, <1>14, <1>15
        DEF Flow, batch, rest, kept

\* poll() takes the oldest frame of the inbox.
LEMMA DispatchFlow ==
    ASSUME Flow, NEW a \in Agents, Dispatch(a)
    PROVE  /\ Flow'
           /\ inbox'[a] = Tail(inbox[a]) /\ inbox[a] # <<>>
           /\ dispatched'[a] = Append(dispatched[a], Head(inbox[a]))
           /\ \A b \in Agents : b # a => inbox'[b] = inbox[b] /\ dispatched'[b] = dispatched[b]
<1>1. inbox[a] \in Seq(Messages) /\ dispatched[a] \in Seq(Messages) /\ inbox[a] # <<>>
    BY DEF Dispatch, Flow, AgentTypes
<1>2. Tail(inbox[a]) \in Seq(Messages) /\ Head(inbox[a]) \in Messages
    BY <1>1, HeadTailProperties
<1>3. Append(dispatched[a], Head(inbox[a])) \in Seq(Messages)
    BY <1>1, <1>2
<1>4. /\ inbox' = [inbox EXCEPT ![a] = Tail(inbox[a])]
      /\ dispatched' = [dispatched EXCEPT ![a] = Append(dispatched[a], Head(inbox[a]))]
      /\ UNCHANGED <<hub, handler, delivery, thread, unsent>>
    BY DEF Dispatch, Flow, AgentTypes
<1>5. AgentTypes' /\ StoringABatch'
    BY <1>2, <1>3, <1>4 DEF Flow, AgentTypes, StoringABatch
<1>6. Inv'
    BY <1>4, Elsewhere DEF Flow, hub, Inv, HubTypes
<1> QED BY <1>1, <1>4, <1>5, <1>6 DEF Flow, AgentTypes

LEMMA HubCrashFlow ==
    ASSUME Flow, HubCrash
    PROVE  /\ Flow'
           /\ \A a \in Agents, t \in Threads :
                /\ thread'[a][t].batch = thread[a][t].batch
                /\ thread'[a][t].pc = IF thread[a][t].pc = "polling" THEN "top" ELSE thread[a][t].pc
<1> DEFINE x(a, t) == IF thread[a][t].pc = "polling"
                      THEN [thread[a][t] EXCEPT !.pc = "top"] ELSE thread[a][t]
<1>1. /\ thread' = [a \in Agents |-> [t \in Threads |-> x(a, t)]]
      /\ UNCHANGED <<inbox, dispatched, unsent>>
    BY DEF HubCrash
<1>2. ASSUME NEW a \in Agents, NEW t \in Threads
      PROVE  /\ x(a, t) \in ThreadState /\ x(a, t).batch = thread[a][t].batch
             /\ x(a, t).pc = IF thread[a][t].pc = "polling" THEN "top" ELSE thread[a][t].pc
    <2>1. thread[a][t] \in ThreadState
        BY DEF Flow, AgentTypes
    <2> QED BY <2>1 DEF ThreadState
<1> HIDE DEF x
<1>3. AgentTypes'
    BY <1>1, <1>2 DEF Flow, AgentTypes
<1>4. \A a \in Agents, t \in Threads : thread'[a][t] = x(a, t)
    BY <1>1
<1>5. StoringABatch'
    BY <1>2, <1>4 DEF Flow, StoringABatch
<1>6. Inv'
    BY HubCrashInv DEF Flow
<1> QED BY <1>2, <1>3, <1>4, <1>5, <1>6 DEF Flow

\* The poll thread's other steps.
LEMMA LoopFlow ==
    ASSUME Flow, Inv', NEW a \in Agents, NEW t \in Threads,
           Exit(a, t) \/ Register(a, t) \/ Connect(a, t) \/ Poll(a, t) \/ DropConnection(a, t)
    PROVE  Flow'
<1>1. PICK pc \in {"off", "top", "registered", "poll", "polling"} : Goto(a, t, pc)
    BY DEF Exit, Register, Connect, Poll, DropConnection
<1>2. thread[a][t].pc # "storing" /\ UNCHANGED <<inbox, dispatched, unsent>>
    BY DEF Exit, Register, Connect, Poll, DropConnection, AtTop, agent
<1> QED BY <1>1, <1>2, FlowGoto

LEMMA StartFlow ==
    ASSUME Flow, Inv', NEW a \in Agents, Start(a)
    PROVE  Flow'
<1>1. CASE Admits(a)
    <2>1. PICK t \in Threads : thread[a][t].pc = "off" /\ Goto(a, t, "top")
        BY <1>1 DEF Start
    <2> QED BY <2>1, FlowGoto DEF Start
<1>2. CASE ~Admits(a)
    BY <1>2, FlowElsewhere DEF Start
<1> QED BY <1>1, <1>2

(* The types and the loop of the poll threads are an invariant of the relay. *)
LEMMA FlowStep ==
    ASSUME Flow, [Next]_vars
    PROVE  Flow'
<1>0. Inv'
    BY NextInv DEF Flow
<1>1. ASSUME NEW a \in Agents, NEW h \in Slots, HandlerStep(a, h) PROVE Flow'
    <2>1. CASE Check(a, h)
        BY <1>0, <2>1, FlowElsewhere DEF Check, agent
    <2>2. CASE Wait(a, h)
        BY <1>0, <2>2, FlowElsewhere DEF Wait, agent
    <2>3. CASE Answer(a, h) /\ handler[a][h].client = Nobody
        BY <1>0, <2>3, FlowElsewhere DEF Answer, agent
    <2> QED BY <1>1, <2>1, <2>2, <2>3, AnswerFlow DEF HandlerStep
<1>2. ASSUME NEW a \in Agents, DeliveryStep(a) PROVE Flow'
    BY <1>0, <1>2, FlowElsewhere DEF DeliveryStep, Deliver, Notify, DeliverReply, agent
<1>3. ASSUME NEW m \in Messages, SendFrame(m) PROVE Flow'
    BY <1>0, <1>3, FlowElsewhere DEF SendFrame, agent
<1>4. ASSUME NEW a \in Agents, NEW t \in Threads, ThreadStep(a, t) PROVE Flow'
    BY <1>0, <1>4, LoopFlow, StoreFlow DEF ThreadStep
<1>5. CASE HubStart
    BY <1>0, <1>5, FlowElsewhere DEF HubStart, agent
<1>6. CASE Failure
    <2>1. ASSUME NEW a \in Agents, Stop(a) \/ LoseReply(a) \/ Age(a) PROVE Flow'
        BY <1>0, <2>1, FlowElsewhere DEF Stop, LoseReply, Age, agent
    <2> QED BY <1>0, <1>6, <2>1, LoopFlow, HubCrashFlow DEF Failure
<1>7. CASE UNCHANGED vars
    BY <1>0, <1>7, FlowElsewhere DEF vars, agent
<1> QED BY <1>0, <1>1, <1>2, <1>3, <1>4, <1>5, <1>6, <1>7, DispatchFlow, StartFlow DEF Next

-----------------------------------------------------------------------------
(* How each step moves what the places hold.                                 *)
LEMMA SameShrinks ==
    ASSUME NEW c, NEW d, c \in Seq(Messages), d = c \/ d = <<>>
    PROVE  Shrinks(c, d)
<1>1. \A i \in DOMAIN c : i \in Nat /\ i + 0 = i
    BY LenProperties
<1>2. CASE d = c
    <2>1. 0 \in Nat /\ \A i \in DOMAIN d : i \in Nat /\ i + 0 \in DOMAIN c /\ d[i] = c[i + 0]
        BY <1>1, <1>2
    <2> QED BY <2>1 DEF Shrinks
<1>3. CASE d = <<>>
    <2>1. DOMAIN d = {}
        BY <1>3, EmptySeq
    <2> QED BY <2>1 DEF Shrinks
<1> QED BY <1>2, <1>3 DEF Shrinks

\* A step that empties some mailboxes and replies and touches nothing else.
LEMMA Quiet ==
    ASSUME Flow,
           \A a \in Agents : boxes'[a] = boxes[a] \/ boxes'[a] = <<>>,
           UNCHANGED <<inbox, dispatched>>,
           \A a \in Agents, h \in Slots :
             handler'[a][h].got = handler[a][h].got \/ handler'[a][h].got = <<>>,
           \A a \in Agents, t \in Threads : thread'[a][t].batch = thread[a][t].batch
    PROVE  \A p \in AllPlaces : Shrinks(Held[p], Held'[p])
<1> DEFINE X == {p \in AllPlaces : Held'[p] = <<>>}
<1>1. \A a \in Agents : <<"mailbox", a>> \in X \/ boxes'[a] = boxes[a]
    BY HeldAt
<1>2. ASSUME NEW a \in Agents, NEW h \in Slots, handler'[a][h].got # handler[a][h].got
      PROVE  <<"drained", <<a, h>>>> \in X
    <2>1. handler'[a][h].got = <<>>
        BY <1>2
    <2> QED BY <2>1, HeldAt
<1>3. \A p \in AllPlaces \ X : Held'[p] = Held[p]
    <2> HIDE DEF X
    <2> QED BY <1>1, <1>2, Unmoved
<1>4. \A p \in AllPlaces : Held'[p] = Held[p] \/ Held'[p] = <<>>
    BY <1>3
<1> QED BY <1>4, HeldType, SameShrinks

\* A poll drains the front of a mailbox into its reply.
LEMMA CheckMoves ==
    ASSUME Flow, NEW a \in Agents, NEW h \in Slots, Check(a, h)
    PROVE  /\ Moves(Held, Held', AllPlaces, <<"mailbox", a>>, <<"drained", <<a, h>>>>)
           /\ \A b \in Agents, g \in Slots : handler'[b][g].client = handler[b][g].client
           /\ Shrinks(Held[<<"mailbox", a>>], Held'[<<"mailbox", a>>])
<1> DEFINE p1 == <<"mailbox", a>>
           p2 == <<"drained", <<a, h>>>>
           next == [handler[a][h] EXCEPT
                      !.pc = IF Taken(Live(a)) # <<>> \/ handler[a][h].pc = "waiting"
                             THEN "answer" ELSE "decided",
                      !.got = Taken(Live(a))]
<1>1. /\ boxes' = [boxes EXCEPT ![a] = Left(Live(a))]
      /\ handler' = [handler EXCEPT ![a] = [handler[a] EXCEPT ![h] = next]]
      /\ UNCHANGED <<inbox, dispatched, thread>>
    BY DEF Check, Reply, agent, Flow, Inv, HubTypes
<1>2. next.got = Taken(Live(a)) /\ next.client = handler[a][h].client
    <2>1. handler[a][h] \in HandlerState
        BY DEF Flow, Inv, HubTypes
    <2> HIDE DEF Taken, Live
    <2> QED BY <2>1 DEF HandlerState
<1> HIDE DEF next
<1>3. \A b \in Agents, g \in Slots :
        handler'[b][g] = IF b = a /\ g = h THEN next ELSE handler[b][g]
    BY <1>1 DEF Flow, Inv, HubTypes
<1>4. \A p \in AllPlaces \ {p1, p2} : Held'[p] = Held[p]
    <2> DEFINE X == {p1, p2}
    <2>1. \A b \in Agents : <<"mailbox", b>> \in X \/ boxes'[b] = boxes[b]
        BY <1>1 DEF Flow, Inv, HubTypes
    <2>2. \A b \in Agents, g \in Slots :
            <<"drained", <<b, g>>>> \in X \/ handler'[b][g].got = handler[b][g].got
        BY <1>3
    <2> HIDE DEF X
    <2>3. \A p \in AllPlaces \ X : Held'[p] = Held[p]
        BY <1>1, <2>1, <2>2, Unmoved
    <2> QED BY <2>3 DEF X
<1>5. Held[p1] = boxes[a] /\ Held'[p1] = Left(Live(a)) /\ Held'[p2] = Taken(Live(a))
    <2>1. boxes'[a] = Left(Live(a)) /\ handler'[a][h].got = Taken(Live(a))
        BY <1>1, <1>2, <1>3 DEF Flow, Inv, HubTypes
    <2> QED BY <2>1, HeldAt
<1> DEFINE k == PollMax + late[a]
           s == late[a]
<1>6. k \in Nat /\ s \in Nat
    BY RelayAssumption DEF Flow, Inv, HubTypes
<1>7. \A i \in DOMAIN Held'[p1] :
        i \in Nat \ {0} /\ i + k \in DOMAIN Held[p1] /\ Held'[p1][i] = Held[p1][i + k]
    BY <1>5, MailboxIndices DEF Flow, Inv
<1>8. \A i \in DOMAIN Held'[p2] :
        /\ i \in Nat /\ i > 0 /\ i - 0 + s <= k
        /\ i - 0 + s \in DOMAIN Held[p1] /\ Held'[p2][i] = Held[p1][i - 0 + s]
    <2>1. \A i \in DOMAIN Taken(Live(a)) :
             /\ i \in Nat \ {0} /\ i <= PollMax /\ i + late[a] \in DOMAIN boxes[a]
             /\ Taken(Live(a))[i] = boxes[a][i + late[a]]
        BY MailboxIndices DEF Flow, Inv
    <2>2. \A i \in DOMAIN Taken(Live(a)) : i > 0 /\ i - 0 + s <= k /\ i - 0 + s = i + late[a]
        BY <1>6, <2>1, RelayAssumption
    <2> QED BY <1>5, <2>1, <2>2
<1>9. Moves(Held, Held', AllPlaces, p1, p2)
    <2> HIDE DEF k, s, p1, p2
    <2>1. MovesBy(Held, Held', AllPlaces, p1, p2, k, s, 0, 0)
        BY <1>4, <1>7, <1>8 DEF MovesBy
    <2> QED BY <1>6, <2>1 DEF Moves
<1>10. \A b \in Agents, g \in Slots : handler'[b][g].client = handler[b][g].client
    BY <1>2, <1>3
<1>11. Shrinks(Held[p1], Held'[p1])
    BY <1>6, <1>7 DEF Shrinks
<1> QED BY <1>9, <1>10, <1>11

\* A reply that is read becomes the batch of the poll thread.
LEMMA AnswerMoves ==
    ASSUME Flow, NEW a \in Agents, NEW h \in Slots, Answer(a, h),
           NEW t, t = handler[a][h].client, t # Nobody
    PROVE  Moves(Held, Held', AllPlaces, <<"drained", <<a, h>>>>, <<"batch", <<a, t>>>>)
<1> DEFINE p1 == <<"drained", <<a, h>>>>
           p2 == <<"batch", <<a, t>>>>
<1>1. /\ t \in Threads
      /\ \A u \in Threads : u # t => thread'[a][u] = thread[a][u]
      /\ thread'[a][t].batch = handler[a][h].got
      /\ \A b \in Agents : b # a => thread'[b] = thread[b]
    BY AnswerFlow
<1>2. /\ handler' = [handler EXCEPT ![a] = [handler[a] EXCEPT ![h] = IdleHandler]]
      /\ UNCHANGED <<boxes, inbox, dispatched>>
    BY DEF Answer, agent, Flow, Inv, HubTypes
<1>3. \A b \in Agents, g \in Slots :
        handler'[b][g] = IF b = a /\ g = h THEN IdleHandler ELSE handler[b][g]
    BY <1>2 DEF Flow, Inv, HubTypes
<1>4. \A p \in AllPlaces \ {p1, p2} : Held'[p] = Held[p]
    <2> DEFINE X == {p1, p2}
    <2>1. \A b \in Agents, u \in Threads :
            <<"batch", <<b, u>>>> \in X \/ thread'[b][u].batch = thread[b][u].batch
        BY <1>1
    <2>2. \A b \in Agents, g \in Slots :
            <<"drained", <<b, g>>>> \in X \/ handler'[b][g].got = handler[b][g].got
        BY <1>3
    <2> HIDE DEF X
    <2>3. \A p \in AllPlaces \ X : Held'[p] = Held[p]
        BY <1>2, <2>1, <2>2, Unmoved
    <2> QED BY <2>3 DEF X
<1>5. Held[p1] = handler[a][h].got /\ Held'[p1] = <<>> /\ Held'[p2] = Held[p1]
    <2>1. handler'[a][h].got = <<>>
        BY <1>3 DEF IdleHandler
    <2> QED BY <1>1, <2>1, HeldAt
<1>6. Held[p1] \in Seq(Messages)
    BY HeldAt, HeldType
<1> DEFINE k == Len(Held[p1])
<1>7. k \in Nat /\ DOMAIN Held[p1] = 1..k /\ DOMAIN Held'[p1] = {}
    BY <1>5, <1>6, EmptySeq
<1>8. \A i \in DOMAIN Held'[p2] :
        /\ i \in Nat /\ i > 0 /\ i - 0 + 0 <= k
        /\ i - 0 + 0 \in DOMAIN Held[p1] /\ Held'[p2][i] = Held[p1][i - 0 + 0]
    BY <1>5, <1>7
<1> HIDE DEF k, p1, p2
<1>9. MovesBy(Held, Held', AllPlaces, p1, p2, k, 0, 0, 0)
    BY <1>4, <1>7, <1>8 DEF MovesBy
<1>10. Moves(Held, Held', AllPlaces, p1, p2)
    BY <1>7, <1>9 DEF Moves
<1> QED BY <1>10 DEF p1, p2

\* The head of one queue goes to the end of another, which may drop its own.
LEMMA HandOver ==
    ASSUME NEW S, NEW C, NEW D, NEW p1 \in S, NEW p2 \in S, NEW kept,
           C[p1] \in Seq(Messages), C[p1] # <<>>, C[p2] \in Seq(Messages),
           kept = C[p2] \/ (C[p2] # <<>> /\ kept = Tail(C[p2])),
           D[p1] = Tail(C[p1]), D[p2] = Append(kept, Head(C[p1])),
           \A p \in S \ {p1, p2} : D[p] = C[p]
    PROVE  Moves(C, D, S, p1, p2)
<1>1. /\ Len(C[p1]) \in Nat /\ Len(C[p1]) >= 1 /\ DOMAIN C[p1] = 1..Len(C[p1])
      /\ Tail(C[p1]) \in Seq(Messages) /\ Len(Tail(C[p1])) = Len(C[p1]) - 1
      /\ \A i \in 1..Len(Tail(C[p1])) : Tail(C[p1])[i] = C[p1][i + 1]
      /\ Head(C[p1]) = C[p1][1] /\ Head(C[p1]) \in Messages
    BY HeadTailProperties, EmptySeq
<1>2. PICK e \in Nat : /\ kept \in Seq(Messages)
                       /\ \A i \in DOMAIN kept : i + e \in DOMAIN C[p2] /\ kept[i] = C[p2][i + e]
    <2>1. CASE kept = C[p2]
        <3>1. 0 \in Nat /\ \A i \in DOMAIN kept : i + 0 \in DOMAIN C[p2] /\ kept[i] = C[p2][i + 0]
            BY <2>1
        <3> QED BY <2>1, <3>1
    <2>2. CASE C[p2] # <<>> /\ kept = Tail(C[p2])
        <3>1. /\ Len(C[p2]) \in Nat /\ Len(C[p2]) >= 1 /\ DOMAIN C[p2] = 1..Len(C[p2])
              /\ Tail(C[p2]) \in Seq(Messages) /\ Len(Tail(C[p2])) = Len(C[p2]) - 1
              /\ \A i \in 1..Len(Tail(C[p2])) : Tail(C[p2])[i] = C[p2][i + 1]
            BY <2>2, HeadTailProperties, EmptySeq
        <3>2. 1 \in Nat /\ \A i \in DOMAIN kept : i + 1 \in DOMAIN C[p2] /\ kept[i] = C[p2][i + 1]
            BY <2>2, <3>1
        <3> QED BY <2>2, <3>1, <3>2
    <2> QED BY <2>1, <2>2
<1> DEFINE n == Len(kept)
<1>3. n \in Nat /\ DOMAIN kept = 1..n
    BY <1>2
<1>4. /\ DOMAIN D[p2] = 1..(n + 1) /\ D[p2][n + 1] = C[p1][1]
      /\ \A i \in 1..n : D[p2][i] = kept[i]
    BY <1>1, <1>2, AppendProperties
<1> HIDE DEF n
<1>5. \A i \in DOMAIN D[p1] :
        i \in Nat \ {0} /\ i + 1 \in DOMAIN C[p1] /\ D[p1][i] = C[p1][i + 1]
    BY <1>1
<1>6. \A i \in DOMAIN D[p2] :
        /\ i \in Nat
        /\ \/ i <= n /\ i + e \in DOMAIN C[p2] /\ D[p2][i] = C[p2][i + e]
           \/ /\ i > n /\ i - n + 0 <= 1
              /\ i - n + 0 \in DOMAIN C[p1] /\ D[p2][i] = C[p1][i - n + 0]
    <2> SUFFICES ASSUME NEW i \in DOMAIN D[p2]
                 PROVE  /\ i \in Nat
                        /\ \/ i <= n /\ i + e \in DOMAIN C[p2] /\ D[p2][i] = C[p2][i + e]
                           \/ /\ i > n /\ i - n + 0 <= 1
                              /\ i - n + 0 \in DOMAIN C[p1] /\ D[p2][i] = C[p1][i - n + 0]
        OBVIOUS
    <2>1. i \in Nat /\ (i \in 1..n \/ i = n + 1)
        BY <1>3, <1>4
    <2>2. CASE i \in 1..n
        <3>1. i <= n /\ D[p2][i] = kept[i] /\ i \in DOMAIN kept
            BY <1>3, <1>4, <2>1, <2>2
        <3>2. i + e \in DOMAIN C[p2] /\ kept[i] = C[p2][i + e]
            BY <1>2, <3>1
        <3> QED BY <2>1, <3>1, <3>2
    <2>3. CASE i = n + 1
        <3>1. i > n /\ i - n + 0 = 1
            BY <1>3, <2>3
        <3> QED BY <1>1, <1>4, <2>1, <2>3, <3>1
    <2> QED BY <2>1, <2>2, <2>3
<1>7. n \in Nat /\ e \in Nat
    BY <1>3
<1> HIDE DEF n
<1>8. MovesBy(C, D, S, p1, p2, 1, 0, n, e)
    BY <1>5, <1>6 DEF MovesBy
<1> QED BY <1>7, <1>8 DEF Moves

\* A message of the batch goes to the inbox.
LEMMA StoreMoves ==
    ASSUME Flow, NEW a \in Agents, NEW t \in Threads, Store(a, t)
    PROVE  Moves(Held, Held', AllPlaces, <<"batch", <<a, t>>>>, <<"inbox", a>>)
<1> DEFINE p1 == <<"batch", <<a, t>>>>
           p2 == <<"inbox", a>>
           kept == IF Len(inbox[a]) = MaxInbox THEN Tail(inbox[a]) ELSE inbox[a]
<1>1. /\ thread[a][t].batch \in Seq(Messages) /\ thread[a][t].batch # <<>>
      /\ thread'[a][t].batch = Tail(thread[a][t].batch)
      /\ \A b \in Agents, u \in Threads : ~(b = a /\ u = t) => thread'[b][u] = thread[b][u]
      /\ inbox'[a] = Append(kept, Head(thread[a][t].batch))
      /\ Len(inbox[a]) = MaxInbox => inbox[a] # <<>>
      /\ \A b \in Agents : b # a => inbox'[b] = inbox[b]
    BY StoreFlow
<1>2. kept = inbox[a] \/ (inbox[a] # <<>> /\ kept = Tail(inbox[a]))
    BY <1>1
<1> HIDE DEF kept
<1>3. UNCHANGED <<boxes, dispatched, handler>>
    BY DEF Store, hub
<1>4. \A p \in AllPlaces \ {p1, p2} : Held'[p] = Held[p]
    <2> DEFINE X == {p1, p2}
    <2>1. \A b \in Agents, u \in Threads :
            <<"batch", <<b, u>>>> \in X \/ thread'[b][u].batch = thread[b][u].batch
        BY <1>1
    <2>2. \A b \in Agents : <<"inbox", b>> \in X \/ inbox'[b] = inbox[b]
        BY <1>1
    <2> HIDE DEF X
    <2>3. \A p \in AllPlaces \ X : Held'[p] = Held[p]
        BY <1>3, <2>1, <2>2, Unmoved
    <2> QED BY <2>3 DEF X
<1>5. /\ p1 \in AllPlaces /\ p2 \in AllPlaces
      /\ Held[p1] = thread[a][t].batch /\ Held[p2] = inbox[a]
      /\ Held'[p1] = Tail(Held[p1]) /\ Held'[p2] = Append(kept, Head(Held[p1]))
    BY <1>1, HeldAt
<1>6. Held[p1] \in Seq(Messages) /\ Held[p1] # <<>> /\ Held[p2] \in Seq(Messages)
    BY <1>1, <1>5, HeldType
<1>7. kept = Held[p2] \/ (Held[p2] # <<>> /\ kept = Tail(Held[p2]))
    BY <1>2, <1>5
<1> HIDE DEF p1, p2
<1>8. Moves(Held, Held', AllPlaces, p1, p2)
    BY <1>4, <1>5, <1>6, <1>7, HandOver
<1> QED BY <1>8 DEF p1, p2

\* The oldest message of the inbox goes to the subscribers.
LEMMA DispatchMoves ==
    ASSUME Flow, NEW a \in Agents, Dispatch(a)
    PROVE  Moves(Held, Held', AllPlaces, <<"inbox", a>>, <<"dispatched", a>>)
<1> DEFINE p1 == <<"inbox", a>>
           p2 == <<"dispatched", a>>
<1>1. /\ inbox'[a] = Tail(inbox[a]) /\ inbox[a] # <<>>
      /\ dispatched'[a] = Append(dispatched[a], Head(inbox[a]))
      /\ \A b \in Agents : b # a => inbox'[b] = inbox[b] /\ dispatched'[b] = dispatched[b]
    BY DispatchFlow
<1>2. UNCHANGED <<boxes, handler, thread>>
    BY DEF Dispatch, hub
<1>3. \A p \in AllPlaces \ {p1, p2} : Held'[p] = Held[p]
    <2> DEFINE X == {p1, p2}
    <2>1. \A b \in Agents : <<"dispatched", b>> \in X \/ dispatched'[b] = dispatched[b]
        BY <1>1
    <2>2. \A b \in Agents : <<"inbox", b>> \in X \/ inbox'[b] = inbox[b]
        BY <1>1
    <2> HIDE DEF X
    <2>3. \A p \in AllPlaces \ X : Held'[p] = Held[p]
        BY <1>2, <2>1, <2>2, Unmoved
    <2> QED BY <2>3 DEF X
<1>4. /\ p1 \in AllPlaces /\ p2 \in AllPlaces
      /\ Held[p1] = inbox[a] /\ Held[p2] = dispatched[a]
      /\ Held'[p1] = Tail(Held[p1]) /\ Held'[p2] = Append(Held[p2], Head(Held[p1]))
    BY <1>1, HeldAt
<1>5. Held[p1] \in Seq(Messages) /\ Held[p1] # <<>> /\ Held[p2] \in Seq(Messages)
    BY <1>1, <1>4, HeldType
<1> HIDE DEF p1, p2
<1>6. Moves(Held, Held', AllPlaces, p1, p2)
    BY <1>3, <1>4, <1>5, HandOver
<1> QED BY <1>6 DEF p1, p2

\* A deliver request lets the expired go and appends its own, or does neither.
LEMMA DeliverGains ==
    ASSUME Flow, NEW a \in Agents, Deliver(a)
    PROVE  /\ delivery[a].pc = "request" /\ delivery[a].msg \in Messages
           /\ delivery'[a].pc # "request"
           /\ \A b \in Agents : b # a => delivery'[b] = delivery[b]
           /\ Gains(Held, Held', AllPlaces, <<"mailbox", Recipient[delivery[a].msg]>>,
                    delivery[a].msg)
<1>0. PICK m, r : m = delivery[a].msg /\ r = Recipient[m]
    OBVIOUS
<1>1. /\ delivery[a] \in DeliveryState /\ delivery[a].pc = "request"
      /\ delivery \in [Agents -> DeliveryState]
    BY DEF Deliver, Flow, Inv, HubTypes
<1>2. m \in Messages /\ r \in Agents
    BY <1>0, <1>1, DeliveryChanges, RelayAssumption
<1>3. PICK pc \in {"appended", "refused"} : delivery' = [delivery EXCEPT ![a].pc = pc]
    BY DEF Deliver, Advance
<1>4. delivery'[a].pc # "request" /\ \A b \in Agents : b # a => delivery'[b] = delivery[b]
    <2>1. [delivery[a] EXCEPT !.pc = pc].pc = pc
        BY <1>1, DeliveryChanges
    <2> QED BY <1>1, <1>3, <2>1
<1> DEFINE p2 == <<"mailbox", r>>
<1>5. UNCHANGED <<inbox, dispatched, handler, thread>>
    BY DEF Deliver, agent
<1>6. boxes'[r] \in {boxes[r], Live(r), Append(Live(r), m)}
      /\ \A b \in Agents : b # r => boxes'[b] = boxes[b]
    BY <1>0, <1>2 DEF Deliver, Flow, Inv, HubTypes
<1>7. \A p \in AllPlaces \ {p2} : Held'[p] = Held[p]
    <2> DEFINE X == {p2}
    <2>1. \A b \in Agents : <<"mailbox", b>> \in X \/ boxes'[b] = boxes[b]
        BY <1>6
    <2> HIDE DEF X
    <2>2. \A p \in AllPlaces \ X : Held'[p] = Held[p]
        BY <1>5, <2>1, Unmoved
    <2> QED BY <2>2 DEF X
<1>8. p2 \in AllPlaces /\ Held[p2] = boxes[r] /\ Held'[p2] = boxes'[r]
    BY <1>2, HeldAt
<1>9. /\ boxes[r] \in Seq(Messages) /\ late[r] \in Nat /\ Live(r) \in Seq(Messages)
      /\ \A i \in DOMAIN Live(r) : i \in Nat \ {0} /\ i + late[r] \in DOMAIN boxes[r]
                                   /\ Live(r)[i] = boxes[r][i + late[r]]
    BY <1>2, MailboxIndices, MailboxParts DEF Flow, Inv, HubTypes
<1>10. \E n, e \in Nat : \A i \in DOMAIN boxes'[r] :
         /\ i \in Nat
         /\ \/ i <= n /\ i + e \in DOMAIN boxes[r] /\ boxes'[r][i] = boxes[r][i + e]
            \/ i = n + 1 /\ boxes'[r][i] = m
    <2>1. CASE boxes'[r] = boxes[r]
        <3>1. /\ Len(boxes[r]) \in Nat /\ 0 \in Nat
              /\ \A i \in DOMAIN boxes[r] : i \in Nat /\ i <= Len(boxes[r]) /\ i + 0 = i
            BY <1>9, LenProperties
        <3> QED BY <2>1, <3>1
    <2>2. CASE boxes'[r] = Live(r)
        <3>1. /\ Len(Live(r)) \in Nat
              /\ \A i \in DOMAIN Live(r) : i \in Nat /\ i <= Len(Live(r))
            BY <1>9, LenProperties
        <3> QED BY <1>9, <2>2, <3>1
    <2>3. CASE boxes'[r] = Append(Live(r), m)
        <3>1. /\ Len(Live(r)) \in Nat /\ DOMAIN Live(r) = 1..Len(Live(r))
              /\ DOMAIN boxes'[r] = 1..(Len(Live(r)) + 1)
              /\ boxes'[r][Len(Live(r)) + 1] = m
              /\ \A i \in 1..Len(Live(r)) : boxes'[r][i] = Live(r)[i]
            BY <1>2, <1>9, <2>3, AppendProperties
        <3>2. \A i \in DOMAIN boxes'[r] :
                /\ i \in Nat
                /\ \/ i <= Len(Live(r)) /\ i \in DOMAIN Live(r) /\ boxes'[r][i] = Live(r)[i]
                   \/ i = Len(Live(r)) + 1 /\ boxes'[r][i] = m
            BY <3>1
        <3>3. \A i \in DOMAIN boxes'[r] :
                /\ i \in Nat
                /\ \/ i <= Len(Live(r)) /\ i + late[r] \in DOMAIN boxes[r]
                      /\ boxes'[r][i] = boxes[r][i + late[r]]
                   \/ i = Len(Live(r)) + 1 /\ boxes'[r][i] = m
            BY <1>9, <3>2
        <3> QED BY <1>9, <3>1, <3>3
    <2> QED BY <1>6, <2>1, <2>2, <2>3
<1> HIDE DEF p2
<1>11. Gains(Held, Held', AllPlaces, p2, m)
    <2>1. PICK n \in Nat, e \in Nat : \A i \in DOMAIN boxes'[r] :
            /\ i \in Nat
            /\ \/ i <= n /\ i + e \in DOMAIN boxes[r] /\ boxes'[r][i] = boxes[r][i + e]
               \/ i = n + 1 /\ boxes'[r][i] = m
        BY <1>10
    <2>2. \A i \in DOMAIN Held'[p2] :
            /\ i \in Nat
            /\ \/ i <= n /\ i + e \in DOMAIN Held[p2] /\ Held'[p2][i] = Held[p2][i + e]
               \/ i = n + 1 /\ Held'[p2][i] = m
        BY <1>8, <2>1
    <2> QED BY <1>7, <2>2 DEF Gains
<1> QED BY <1>0, <1>1, <1>2, <1>4, <1>11 DEF p2

-----------------------------------------------------------------------------
(* The requests that are still to be delivered stay in front of what is       *)
(* unsent, and behind everything that is in a place.                          *)
LEMMA ContentsStay ==
    ASSUME NEW p1 \in AllPlaces, NEW p2 \in AllPlaces, Moves(Held, Held', AllPlaces, p1, p2),
           NEW p \in AllPlaces, NEW i \in DOMAIN Held'[p]
    PROVE  \E q \in AllPlaces : \E j \in DOMAIN Held[q] : Held'[p][i] = Held[q][j]
<1>1. PICK k \in Nat, s \in Nat, n \in Nat, e \in Nat :
           MovesBy(Held, Held', AllPlaces, p1, p2, k, s, n, e)
    BY DEF Moves
<1> QED BY <1>1 DEF MovesBy

\* What a place holds is a message and is behind what is still to come.
LEMMA HeldBehind ==
    ASSUME CopyInv, NEW q \in AllPlaces, NEW j \in DOMAIN Held[q], NEW m, m = Held[q][j]
    PROVE  m \in Messages /\ Sender[m] \in Agents /\ Behind(m)
<1>1. Held[q] \in Seq(Messages)
    BY HeldType DEF CopyInv
<1>2. m \in Messages
    BY <1>1, ElementOfSeq, LenProperties
<1>3. Behind(Held[q][j])
    BY DEF CopyInv, SentInOrder
<1> QED BY <1>2, <1>3, RelayAssumption

LEMMA CopyElsewhere ==
    ASSUME CopyInv, Flow', UNCHANGED unsent,
           \A a \in Agents : delivery'[a].pc = "request" => delivery'[a] = delivery[a],
           \/ \A p \in AllPlaces : Shrinks(Held[p], Held'[p])
           \/ \E p1, p2 \in AllPlaces : p1 # p2 /\ Moves(Held, Held', AllPlaces, p1, p2)
    PROVE  CopyInv'
<1>1. \A p \in AllPlaces : \A i \in DOMAIN Held'[p] :
        \E q \in AllPlaces : \E j \in DOMAIN Held[q] : Held'[p][i] = Held[q][j]
    <2>1. CASE \A p \in AllPlaces : Shrinks(Held[p], Held'[p])
        BY <2>1 DEF Shrinks
    <2>2. CASE \E p1, p2 \in AllPlaces : p1 # p2 /\ Moves(Held, Held', AllPlaces, p1, p2)
        BY <2>2, ContentsStay
    <2> QED BY <2>1, <2>2
<1>2. ASSUME NEW p \in AllPlaces, NEW i \in DOMAIN Held'[p]
      PROVE  Behind(Held[p][i])'
    <2>1. PICK m : m = Held'[p][i]
        OBVIOUS
    <2>2. Sender[m] \in Agents /\ Behind(m)
        BY <1>1, <2>1, HeldBehind
    <2>3. delivery'[Sender[m]].pc = "request" => delivery'[Sender[m]] = delivery[Sender[m]]
        BY <2>2
    <2> QED BY <2>1, <2>2, <2>3 DEF Behind
<1>3. SentInOrder'
    BY <1>2 DEF CopyInv, SentInOrder
<1>4. Distinct(Held', AllPlaces)
    <2>1. CASE \A p \in AllPlaces : Shrinks(Held[p], Held'[p])
        <3>1. \A p \in AllPlaces : DOMAIN Held[p] \subseteq Nat
            <4>1. ASSUME NEW p \in AllPlaces PROVE DOMAIN Held[p] \subseteq Nat
                <5>1. Held[p] \in Seq(Messages)
                    BY HeldType DEF CopyInv
                <5> QED BY <5>1, LenProperties
            <4> QED BY <4>1
        <3> QED BY <2>1, <3>1, DistinctShrinks DEF CopyInv
    <2>2. CASE \E p1, p2 \in AllPlaces : p1 # p2 /\ Moves(Held, Held', AllPlaces, p1, p2)
        BY <2>2, DistinctMoves DEF CopyInv
    <2> QED BY <2>1, <2>2
<1>5. Distinct(Held, AllPlaces)'
    BY <1>4 DEF Distinct
<1> QED BY <1>3, <1>5 DEF CopyInv

\* The frame of a deliver request is in no place yet.
LEMMA DeliverCopy ==
    ASSUME CopyInv, Flow', NEW a \in Agents, Deliver(a)
    PROVE  CopyInv'
<1>1. PICK m : m = delivery[a].msg
    OBVIOUS
<1> DEFINE p2 == <<"mailbox", Recipient[m]>>
<1>2. /\ delivery[a].pc = "request" /\ m \in Messages /\ delivery'[a].pc # "request"
      /\ \A b \in Agents : b # a => delivery'[b] = delivery[b]
      /\ Gains(Held, Held', AllPlaces, p2, m)
      /\ UNCHANGED unsent
    BY <1>1, DeliverGains DEF CopyInv, Deliver
<1>3. Sender[m] = a /\ m \in Nat /\ \A k \in unsent : Sender[k] = a => m < k
    BY <1>1, <1>2, RelayAssumption DEF CopyInv, SentInOrder
<1>4. p2 \in AllPlaces
    BY <1>2, HeldAt, RelayAssumption
<1> HIDE DEF p2
<1>5. PICK n \in Nat, e \in Nat :
      /\ \A p \in AllPlaces \ {p2} : Held'[p] = Held[p]
      /\ \A i \in DOMAIN Held'[p2] :
           /\ i \in Nat
           /\ \/ i <= n /\ i + e \in DOMAIN Held[p2] /\ Held'[p2][i] = Held[p2][i + e]
              \/ i = n + 1 /\ Held'[p2][i] = m
    BY <1>2 DEF Gains
<1>6. ASSUME NEW p \in AllPlaces, NEW i \in DOMAIN Held'[p]
      PROVE  Behind(Held[p][i])'
    <2>1. PICK x : x = Held'[p][i]
        OBVIOUS
    <2>2. CASE x = m
        BY <1>2, <1>3, <2>1, <2>2 DEF Behind
    <2>3. CASE x # m
        <3>1. \E q \in AllPlaces : \E j \in DOMAIN Held[q] : x = Held[q][j]
            BY <1>4, <1>5, <2>1, <2>3
        <3>2. Sender[x] \in Agents /\ Behind(x)
            BY <3>1, HeldBehind
        <3>3. Sender[x] # a => delivery'[Sender[x]] = delivery[Sender[x]]
            BY <1>2, <3>2
        <3> QED BY <1>2, <2>1, <3>2, <3>3 DEF Behind
    <2> QED BY <2>2, <2>3
<1>7. ASSUME NEW b \in Agents, delivery'[b].pc = "request"
      PROVE  Sender[delivery'[b].msg] = b /\ \A k \in unsent' : Sender[k] = b => delivery'[b].msg < k
    <2>1. b # a
        BY <1>2, <1>7
    <2> QED BY <1>2, <1>7, <2>1 DEF CopyInv, SentInOrder
<1>8. SentInOrder'
    BY <1>6, <1>7 DEF SentInOrder
<1>9. ASSUME NEW p \in AllPlaces, NEW i \in DOMAIN Held[p], Held[p][i] = m PROVE FALSE
    <2>1. Behind(m)
        BY <1>9, HeldBehind
    <2> QED BY <1>1, <1>2, <1>3, <2>1 DEF Behind
<1>10. Distinct(Held', AllPlaces)
    BY <1>2, <1>4, <1>9, DistinctGains DEF CopyInv
<1>11. Distinct(Held, AllPlaces)'
    BY <1>10 DEF Distinct
<1> QED BY <1>8, <1>11 DEF CopyInv

\* An agent sends the first of its frames.
LEMMA SendFrameCopy ==
    ASSUME CopyInv, Flow', NEW m \in Messages, SendFrame(m)
    PROVE  CopyInv'
<1> DEFINE a == Sender[m]
<1>1. /\ m \in unsent /\ unsent' = unsent \ {m} /\ a \in Agents
      /\ \A k \in unsent : Sender[k] = a => m <= k
      /\ delivery' = [delivery EXCEPT ![a] = [pc |-> "request", msg |-> m]]
      /\ UNCHANGED <<boxes, handler, thread, inbox, dispatched>>
    BY RelayAssumption DEF SendFrame, hub, agent
<1>2. /\ delivery'[a] = [pc |-> "request", msg |-> m]
      /\ \A b \in Agents : b # a => delivery'[b] = delivery[b]
    BY <1>1 DEF CopyInv, Flow, Inv, HubTypes
<1>3. \A k \in unsent' : Sender[k] = a => m < k
    <2>1. \A k \in unsent : k \in Nat /\ m \in Nat
        BY RelayAssumption DEF CopyInv, Flow, AgentTypes
    <2> QED BY <1>1, <2>1
<1>4. \A p \in AllPlaces : Held'[p] = Held[p]
    <2> DEFINE X == {}
    <2>1. \A p \in AllPlaces \ X : Held'[p] = Held[p]
        <3> HIDE DEF X
        <3> QED BY <1>1, Unmoved
    <2> QED BY <2>1
<1>5. ASSUME NEW p \in AllPlaces, NEW i \in DOMAIN Held'[p]
      PROVE  Behind(Held[p][i])'
    <2>1. PICK x : x = Held'[p][i] /\ x = Held[p][i]
        BY <1>4
    <2>2. Sender[x] \in Agents /\ Behind(x)
        BY <1>4, <2>1, HeldBehind
    <2>3. CASE Sender[x] = a
        <3>1. x < m
            BY <1>1, <2>2, <2>3 DEF Behind
        <3> QED BY <1>1, <1>2, <2>1, <2>2, <2>3, <3>1 DEF Behind
    <2>4. CASE Sender[x] # a
        BY <1>1, <1>2, <2>1, <2>2, <2>4 DEF Behind
    <2> QED BY <2>3, <2>4
<1>6. ASSUME NEW b \in Agents, delivery'[b].pc = "request"
      PROVE  Sender[delivery'[b].msg] = b /\ \A k \in unsent' : Sender[k] = b => delivery'[b].msg < k
    <2>1. CASE b = a
        BY <1>2, <1>3, <2>1
    <2>2. CASE b # a
        BY <1>1, <1>2, <1>6, <2>2 DEF CopyInv, SentInOrder
    <2> QED BY <2>1, <2>2
<1>7. SentInOrder'
    BY <1>5, <1>6 DEF SentInOrder
<1>8. Distinct(Held, AllPlaces)'
    BY <1>4 DEF CopyInv, Distinct
<1> QED BY <1>7, <1>8 DEF CopyInv

-----------------------------------------------------------------------------
(* The other steps move nothing on: at most they lose what a place held, and  *)
(* a reply nobody waits for stays one until it is gone.                       *)
Calm ==
    /\ \A p \in AllPlaces : Shrinks(Held[p], Held'[p])
    /\ UNCHANGED unsent
    /\ \A a \in Agents : delivery'[a].pc = "request" => delivery'[a] = delivery[a]
    /\ \A a \in Agents, h \in Slots :
         handler[a][h].client = Nobody =>
           handler'[a][h].client = Nobody \/ handler'[a][h].got = <<>>

LEMMA HandlerKeeps ==
    ASSUME NEW x \in HandlerState
    PROVE  /\ \A pc \in {"enter", "waiting"} : /\ [x EXCEPT !.pc = pc].got = x.got
                                               /\ [x EXCEPT !.pc = pc].client = x.client
           /\ [x EXCEPT !.client = Nobody].got = x.got
           /\ [x EXCEPT !.client = Nobody].client = Nobody
BY DEF HandlerState

LEMMA CalmWhenUntouched ==
    ASSUME Flow, UNCHANGED <<boxes, inbox, dispatched, unsent, handler>>,
           \A a \in Agents, t \in Threads : thread'[a][t].batch = thread[a][t].batch,
           \A a \in Agents : delivery'[a].pc = "request" => delivery'[a] = delivery[a]
    PROVE  Calm
BY Quiet DEF Calm

\* One handler changes and gives up its reply, if anything.
LEMMA CalmHandler ==
    ASSUME Flow, UNCHANGED <<boxes, inbox, dispatched, unsent, delivery>>,
           \A a \in Agents, t \in Threads : thread'[a][t].batch = thread[a][t].batch,
           NEW a \in Agents, NEW h \in Slots, NEW x, handler' = [handler EXCEPT ![a][h] = x],
           \/ x.got = <<>>
           \/ x.got = handler[a][h].got /\ x.client = handler[a][h].client
    PROVE  Calm
<1>1. \A b \in Agents, g \in Slots :
        handler'[b][g] = IF b = a /\ g = h THEN x ELSE handler[b][g]
    BY DEF Flow, Inv, HubTypes
<1>2. \A b \in Agents, g \in Slots :
        /\ handler'[b][g].got = handler[b][g].got \/ handler'[b][g].got = <<>>
        /\ handler[b][g].client = Nobody =>
             handler'[b][g].client = Nobody \/ handler'[b][g].got = <<>>
    BY <1>1
<1> QED BY <1>2, Quiet DEF Calm

LEMMA CalmWait ==
    ASSUME Flow, NEW a \in Agents, NEW h \in Slots, Wait(a, h)
    PROVE  Calm
<1> DEFINE x == [handler[a][h] EXCEPT !.pc = "waiting"]
<1>1. /\ UNCHANGED <<boxes, inbox, dispatched, unsent, delivery, thread>>
      /\ handler' = [handler EXCEPT ![a][h] = x]
    BY DEF Wait, hub, agent, Flow, Inv, HubTypes
<1>2. handler[a][h] \in HandlerState
    BY DEF Flow, Inv, HubTypes
<1>3. x.got = handler[a][h].got /\ x.client = handler[a][h].client
    BY <1>2, HandlerKeeps
<1> HIDE DEF x
<1> QED BY <1>1, <1>3, CalmHandler

LEMMA CalmAnswer ==
    ASSUME Flow, NEW a \in Agents, NEW h \in Slots, Answer(a, h),
           handler[a][h].client = Nobody
    PROVE  Calm
<1>1. /\ UNCHANGED <<boxes, inbox, dispatched, unsent, delivery, thread>>
      /\ handler' = [handler EXCEPT ![a][h] = IdleHandler]
    BY DEF Answer, Unread, agent
<1>2. IdleHandler.got = <<>>
    BY DEF IdleHandler
<1> QED BY <1>1, <1>2, CalmHandler

LEMMA CalmNotify ==
    ASSUME Flow, NEW a \in Agents, Notify(a)
    PROVE  Calm
<1> DEFINE r == Recipient[delivery[a].msg]
           x(h) == IF handler[r][h].pc = "waiting"
                   THEN [handler[r][h] EXCEPT !.pc = "enter"] ELSE handler[r][h]
<1>1. /\ UNCHANGED <<boxes, inbox, dispatched, unsent, thread>>
      /\ delivery' = [delivery EXCEPT ![a].pc = "notified"]
      /\ handler' = [handler EXCEPT ![r] = [h \in Slots |-> x(h)]]
    BY DEF Notify, Advance, hub, agent
<1>2. ASSUME r \in Agents, NEW h \in Slots
      PROVE  x(h).got = handler[r][h].got /\ x(h).client = handler[r][h].client
    <2>1. handler[r][h] \in HandlerState
        BY <1>2 DEF Flow, Inv, HubTypes
    <2> QED BY <2>1, HandlerKeeps
<1> HIDE DEF x
<1>3. \A b \in Agents, h \in Slots : /\ handler'[b][h].got = handler[b][h].got
                                     /\ handler'[b][h].client = handler[b][h].client
    BY <1>1, <1>2 DEF Flow, Inv, HubTypes
<1>4. \A b \in Agents : delivery'[b].pc = "request" => delivery'[b] = delivery[b]
    <2>1. delivery[a] \in DeliveryState /\ delivery[a].pc = "appended"
        BY DEF Notify, Flow, Inv, HubTypes
    <2>2. [delivery[a] EXCEPT !.pc = "notified"].pc = "notified"
        BY <2>1, DeliveryChanges
    <2> QED BY <1>1, <2>2 DEF Flow, Inv, HubTypes
<1> QED BY <1>1, <1>3, <1>4, Quiet DEF Calm

LEMMA CalmPoll ==
    ASSUME Flow, NEW a \in Agents, NEW t \in Threads, Poll(a, t)
    PROVE  Calm
<1>1. UNCHANGED <<boxes, inbox, dispatched, unsent, delivery>>
    BY DEF Poll, hub
<1>2. thread[a][t].pc # "storing"
    BY DEF Poll, AtTop
<1>3. CASE hubUp /\ a \in registered
    <2> DEFINE x == [pc |-> "enter", client |-> t, got |-> <<>>]
    <2>1. PICK h \in Slots : handler' = [handler EXCEPT ![a][h] = x]
        BY <1>3 DEF Poll
    <2>2. x.got = <<>>
        OBVIOUS
    <2>3. \A b \in Agents, u \in Threads : thread'[b][u].batch = thread[b][u].batch
        BY <1>2, <1>3, GotoFlow DEF Poll, Flow
    <2> HIDE DEF x
    <2> QED BY <1>1, <2>1, <2>2, <2>3, CalmHandler
<1>4. CASE ~(hubUp /\ a \in registered)
    <2>1. \A b \in Agents, u \in Threads : thread'[b][u].batch = thread[b][u].batch
        BY <1>2, <1>4, GotoFlow DEF Poll, Flow
    <2> QED BY <1>1, <1>4, <2>1, CalmWhenUntouched DEF Poll
<1> QED BY <1>3, <1>4

LEMMA CalmDropConnection ==
    ASSUME Flow, NEW a \in Agents, NEW t \in Threads, DropConnection(a, t)
    PROVE  Calm
<1> DEFINE x(h) == IF handler[a][h].client = t
                   THEN [handler[a][h] EXCEPT !.client = Nobody] ELSE handler[a][h]
<1>1. /\ UNCHANGED <<boxes, inbox, dispatched, unsent, delivery>>
      /\ handler' = [handler EXCEPT ![a] = [h \in Slots |-> x(h)]]
      /\ thread[a][t].pc # "storing" /\ Goto(a, t, "top")
    BY DEF DropConnection, hub
<1>2. \A b \in Agents, u \in Threads : thread'[b][u].batch = thread[b][u].batch
    BY <1>1, GotoFlow DEF Flow
<1>3. ASSUME NEW h \in Slots
      PROVE  /\ x(h).got = handler[a][h].got
             /\ handler[a][h].client = Nobody => x(h).client = Nobody
    <2>1. handler[a][h] \in HandlerState
        BY DEF Flow, Inv, HubTypes
    <2> QED BY <2>1, HandlerKeeps
<1> HIDE DEF x
<1>4. \A b \in Agents, h \in Slots :
        /\ handler'[b][h].got = handler[b][h].got
        /\ handler[b][h].client = Nobody => handler'[b][h].client = Nobody
    BY <1>1, <1>3 DEF Flow, Inv, HubTypes
<1> QED BY <1>1, <1>2, <1>4, Quiet DEF Calm

LEMMA CalmHubCrash ==
    ASSUME Flow, HubCrash
    PROVE  Calm
<1>1. /\ \A a \in Agents : boxes'[a] = <<>>
      /\ \A a \in Agents, h \in Slots : handler'[a][h] = IdleHandler
      /\ UNCHANGED <<inbox, dispatched, unsent>>
    BY DEF HubCrash
<1>2. \A a \in Agents, t \in Threads : thread'[a][t].batch = thread[a][t].batch
    BY HubCrashFlow
<1>3. \A a \in Agents : delivery'[a].pc = "request" => delivery'[a] = delivery[a]
    <2>1. ASSUME NEW a \in Agents, delivery[a].pc = "appended"
          PROVE  [delivery[a] EXCEPT !.pc = "refused"].pc = "refused"
        <3>1. delivery[a] \in DeliveryState
            BY DEF Flow, Inv, HubTypes
        <3> QED BY <2>1, <3>1, DeliveryChanges
    <2> QED BY <2>1 DEF HubCrash
<1>4. IdleHandler.got = <<>> /\ IdleHandler.client = Nobody
    BY DEF IdleHandler
<1> QED BY <1>1, <1>2, <1>3, <1>4, Quiet DEF Calm

\* Requests that end, and the loop of the poll thread.
LEMMA CalmRequest ==
    ASSUME Flow, NEW a \in Agents, DeliverReply(a) \/ LoseReply(a)
    PROVE  Calm
<1>1. UNCHANGED <<boxes, inbox, dispatched, unsent, handler, thread>>
    BY DEF DeliverReply, LoseReply, hub, agent
<1>2. \A b \in Agents : delivery'[b].pc = "request" => delivery'[b] = delivery[b]
    <2>1. CASE DeliverReply(a)
        BY <2>1 DEF DeliverReply, IdleDelivery, Flow, Inv, HubTypes
    <2>2. CASE LoseReply(a)
        <3>1. delivery[a] \in DeliveryState /\ delivery[a].pc = "notified"
            BY <2>2 DEF LoseReply, Flow, Inv, HubTypes
        <3>2. [delivery[a] EXCEPT !.pc = "refused"].pc = "refused"
            BY <3>1, DeliveryChanges
        <3> QED BY <2>2, <3>2 DEF LoseReply, Advance, Flow, Inv, HubTypes
    <2> QED BY <2>1, <2>2
<1> QED BY <1>1, <1>2, CalmWhenUntouched

LEMMA CalmLoop ==
    ASSUME Flow, NEW a \in Agents, NEW t \in Threads,
           Exit(a, t) \/ Register(a, t) \/ Connect(a, t)
    PROVE  Calm
<1>1. PICK pc \in {"off", "top", "registered", "poll", "polling"} : Goto(a, t, pc)
    BY DEF Exit, Register, Connect
<1>2. thread[a][t].pc # "storing" /\ UNCHANGED <<boxes, inbox, dispatched, unsent, handler, delivery>>
    BY DEF Exit, Register, Connect, AtTop, hub, agent
<1>3. \A b \in Agents, u \in Threads : thread'[b][u].batch = thread[b][u].batch
    BY <1>1, <1>2, GotoFlow DEF Flow
<1> QED BY <1>2, <1>3, CalmWhenUntouched

LEMMA CalmStart ==
    ASSUME Flow, NEW a \in Agents, Start(a)
    PROVE  Calm
<1>1. \A b \in Agents, u \in Threads : thread'[b][u].batch = thread[b][u].batch
    <2>1. CASE Admits(a)
        <3>1. PICK t \in Threads : thread[a][t].pc = "off" /\ Goto(a, t, "top")
            BY <2>1 DEF Start
        <3> QED BY <3>1, GotoFlow DEF Flow
    <2>2. CASE ~Admits(a)
        BY <2>2 DEF Start
    <2> QED BY <2>1, <2>2
<1> QED BY <1>1, CalmWhenUntouched DEF Start

(* Every step of the relay moves frames on, delivers, sends, or is calm.      *)
LEMMA StepKinds ==
    ASSUME Flow, [Next]_vars
    PROVE  \/ Calm
           \/ \E a \in Agents, h \in Slots : Check(a, h)
           \/ \E a \in Agents, h \in Slots : Answer(a, h) /\ handler[a][h].client # Nobody
           \/ \E a \in Agents, t \in Threads : Store(a, t)
           \/ \E a \in Agents : Dispatch(a) \/ Deliver(a)
           \/ \E m \in Messages : SendFrame(m)
<1>1. ASSUME NEW a \in Agents, Stop(a) \/ Age(a) PROVE Calm
    BY <1>1, CalmWhenUntouched DEF Stop, Age, hub, agent
<1>2. CASE HubStart
    BY <1>2, CalmWhenUntouched DEF HubStart, agent
<1>3. CASE UNCHANGED vars
    BY <1>3, CalmWhenUntouched DEF vars, hub, agent
<1>4. CASE Failure
    BY <1>1, <1>4, CalmRequest, CalmHubCrash, CalmDropConnection DEF Failure
<1>5. ASSUME NEW a \in Agents, NEW h \in Slots, HandlerStep(a, h)
      PROVE  Calm \/ Check(a, h) \/ (Answer(a, h) /\ handler[a][h].client # Nobody)
    BY <1>5, CalmWait, CalmAnswer DEF HandlerStep
<1>6. ASSUME NEW a \in Agents, NEW t \in Threads, ThreadStep(a, t)
      PROVE  Calm \/ Store(a, t)
    BY <1>6, CalmLoop, CalmPoll DEF ThreadStep
<1>7. ASSUME NEW a \in Agents, DeliveryStep(a)
      PROVE  Calm \/ Deliver(a)
    BY <1>7, CalmNotify, CalmRequest DEF DeliveryStep
<1> QED BY <1>2, <1>3, <1>4, <1>5, <1>6, <1>7, CalmStart DEF Next

-----------------------------------------------------------------------------
LEMMA CopyStep ==
    ASSUME CopyInv, [Next]_vars
    PROVE  CopyInv'
<1>0. Flow /\ Flow'
    BY FlowStep DEF CopyInv
<1>1. CASE Calm
    BY <1>0, <1>1, CopyElsewhere DEF Calm
<1>2. ASSUME NEW a \in Agents, NEW h \in Slots, Check(a, h) PROVE CopyInv'
    <2>1. /\ <<"mailbox", a>> \in AllPlaces /\ <<"drained", <<a, h>>>> \in AllPlaces
          /\ <<"mailbox", a>> # <<"drained", <<a, h>>>>
        BY HeldAt
    <2>2. UNCHANGED <<unsent, delivery>>
        BY <1>2 DEF Check
    <2> QED BY <1>0, <1>2, <2>1, <2>2, CheckMoves, CopyElsewhere
<1>3. ASSUME NEW a \in Agents, NEW h \in Slots, Answer(a, h), handler[a][h].client # Nobody
      PROVE  CopyInv'
    <2>1. PICK t : t = handler[a][h].client
        OBVIOUS
    <2>2. t \in Threads
        BY <1>0, <1>3, <2>1, AnswerFlow
    <2>3. /\ <<"drained", <<a, h>>>> \in AllPlaces /\ <<"batch", <<a, t>>>> \in AllPlaces
          /\ <<"drained", <<a, h>>>> # <<"batch", <<a, t>>>>
        BY <2>2, HeldAt
    <2>4. UNCHANGED <<unsent, delivery>>
        BY <1>3 DEF Answer
    <2> QED BY <1>0, <1>3, <2>1, <2>3, <2>4, AnswerMoves, CopyElsewhere
<1>4. ASSUME NEW a \in Agents, NEW t \in Threads, Store(a, t) PROVE CopyInv'
    <2>1. /\ <<"batch", <<a, t>>>> \in AllPlaces /\ <<"inbox", a>> \in AllPlaces
          /\ <<"batch", <<a, t>>>> # <<"inbox", a>>
        BY HeldAt
    <2>2. UNCHANGED <<unsent, delivery>>
        BY <1>4 DEF Store
    <2> QED BY <1>0, <1>4, <2>1, <2>2, StoreMoves, CopyElsewhere
<1>5. ASSUME NEW a \in Agents, Dispatch(a) PROVE CopyInv'
    <2>1. /\ <<"inbox", a>> \in AllPlaces /\ <<"dispatched", a>> \in AllPlaces
          /\ <<"inbox", a>> # <<"dispatched", a>>
        BY HeldAt
    <2>2. UNCHANGED <<unsent, delivery>>
        BY <1>5 DEF Dispatch
    <2> QED BY <1>0, <1>5, <2>1, <2>2, DispatchMoves, CopyElsewhere
<1> QED BY <1>0, <1>1, <1>2, <1>3, <1>4, <1>5, StepKinds, DeliverCopy, SendFrameCopy

\* Fresh transports on a fresh hub hold nothing.
LEMMA InitHolds ==
    ASSUME Init
    PROVE  Flow /\ \A p \in AllPlaces : Held[p] = <<>>
<1>1. AgentTypes /\ StoringABatch
    BY EmptySeq DEF Init, AgentTypes, StoringABatch, IdleThread, ThreadState
<1>2. Flow
    BY <1>1, InitInv DEF Flow
<1>3. ASSUME NEW p \in AllPlaces PROVE Held[p] = <<>>
    <2>1. PICK a \in Agents :
             \/ p \in {<<"mailbox", a>>, <<"inbox", a>>, <<"dispatched", a>>}
             \/ \E h \in Slots : p = <<"drained", <<a, h>>>>
             \/ \E t \in Threads : p = <<"batch", <<a, t>>>>
        BY PlaceCases
    <2>2. /\ boxes[a] = <<>> /\ inbox[a] = <<>> /\ dispatched[a] = <<>>
          /\ \A h \in Slots : handler[a][h].got = <<>>
          /\ \A t \in Threads : thread[a][t].batch = <<>>
        BY DEF Init, IdleHandler, IdleThread
    <2>3. ASSUME NEW h \in Slots, p = <<"drained", <<a, h>>>> PROVE Held[p] = <<>>
        BY <2>2, <2>3, HeldAt
    <2>4. ASSUME NEW t \in Threads, p = <<"batch", <<a, t>>>> PROVE Held[p] = <<>>
        BY <2>2, <2>4, HeldAt
    <2>5. ASSUME p = <<"mailbox", a>> PROVE Held[p] = <<>>
        BY <2>2, <2>5, HeldAt
    <2>6. ASSUME p = <<"inbox", a>> PROVE Held[p] = <<>>
        BY <2>2, <2>6, HeldAt
    <2>7. ASSUME p = <<"dispatched", a>> PROVE Held[p] = <<>>
        BY <2>2, <2>7, HeldAt
    <2> QED BY <2>1, <2>3, <2>4, <2>5, <2>6, <2>7
<1> QED BY <1>2, <1>3

LEMMA InitCopy == Init => CopyInv
<1> SUFFICES ASSUME Init PROVE CopyInv
    OBVIOUS
<1>1. Flow /\ \A p \in AllPlaces : DOMAIN Held[p] = {}
    BY InitHolds, EmptySeq
<1>2. \A a \in Agents : delivery[a].pc # "request"
    BY DEF Init, IdleDelivery
<1> QED BY <1>1, <1>2 DEF CopyInv, SentInOrder, Distinct

\* A set whose elements are all the same one has at most one element.
LEMMA AtMostOne ==
    ASSUME NEW S, \A x, y \in S : x = y
    PROVE  Cardinality(S) <= 1
<1>1. CASE S = {}
    BY <1>1, FS_EmptySet
<1>2. CASE S # {}
    <2>1. PICK x : S = {x}
        BY <1>2
    <2> QED BY <2>1, FS_Singleton
<1> QED BY <1>1, <1>2

LEMMA InAQueue ==
    ASSUME NEW s, NEW m \in ToSet(s)
    PROVE  \E i \in DOMAIN s : s[i] = m
BY DEF ToSet

LEMMA PlacesAreHeld ==
    ASSUME NEW m, NEW x \in Places(m)
    PROVE  x \in AllPlaces /\ \E i \in DOMAIN Held[x] : Held[x][i] = m
<1>1. ASSUME NEW a \in Agents, x = <<"mailbox", a>>, m \in ToSet(boxes[a])
      PROVE  x \in AllPlaces /\ \E i \in DOMAIN Held[x] : Held[x][i] = m
    <2>1. x \in AllPlaces /\ Held[x] = boxes[a]
        BY <1>1, HeldAt
    <2> QED BY <1>1, <2>1, InAQueue
<1>2. ASSUME NEW a \in Agents, x = <<"inbox", a>>, m \in ToSet(inbox[a])
      PROVE  x \in AllPlaces /\ \E i \in DOMAIN Held[x] : Held[x][i] = m
    <2>1. x \in AllPlaces /\ Held[x] = inbox[a]
        BY <1>2, HeldAt
    <2> QED BY <1>2, <2>1, InAQueue
<1>3. ASSUME NEW a \in Agents, x = <<"dispatched", a>>, m \in ToSet(dispatched[a])
      PROVE  x \in AllPlaces /\ \E i \in DOMAIN Held[x] : Held[x][i] = m
    <2>1. x \in AllPlaces /\ Held[x] = dispatched[a]
        BY <1>3, HeldAt
    <2> QED BY <1>3, <2>1, InAQueue
<1>4. ASSUME NEW at \in Agents \X Slots, x = <<"drained", at>>,
             m \in ToSet(handler[at[1]][at[2]].got)
      PROVE  x \in AllPlaces /\ \E i \in DOMAIN Held[x] : Held[x][i] = m
    <2>1. PICK a \in Agents, h \in Slots : at = <<a, h>>
        OBVIOUS
    <2>2. x = <<"drained", <<a, h>>>> /\ m \in ToSet(handler[a][h].got)
        BY <1>4, <2>1
    <2>3. x \in AllPlaces /\ Held[x] = handler[a][h].got
        BY <2>2, HeldAt
    <2> QED BY <2>2, <2>3, InAQueue
<1>5. ASSUME NEW at \in Agents \X Threads, x = <<"batch", at>>,
             m \in ToSet(thread[at[1]][at[2]].batch)
      PROVE  x \in AllPlaces /\ \E i \in DOMAIN Held[x] : Held[x][i] = m
    <2>1. PICK a \in Agents, t \in Threads : at = <<a, t>>
        OBVIOUS
    <2>2. x = <<"batch", <<a, t>>>> /\ m \in ToSet(thread[a][t].batch)
        BY <1>5, <2>1
    <2>3. x \in AllPlaces /\ Held[x] = thread[a][t].batch
        BY <2>2, HeldAt
    <2> QED BY <2>2, <2>3, InAQueue
<1>6. \/ \E a \in Agents : x = <<"mailbox", a>> /\ m \in ToSet(boxes[a])
      \/ \E a \in Agents : x = <<"inbox", a>> /\ m \in ToSet(inbox[a])
      \/ \E a \in Agents : x = <<"dispatched", a>> /\ m \in ToSet(dispatched[a])
      \/ \E at \in Agents \X Slots : x = <<"drained", at>> /\ m \in ToSet(handler[at[1]][at[2]].got)
      \/ \E at \in Agents \X Threads : x = <<"batch", at>> /\ m \in ToSet(thread[at[1]][at[2]].batch)
    BY DEF Places
<1> QED BY <1>1, <1>2, <1>3, <1>4, <1>5, <1>6

(* At most once (relay_server.py:112-173, relay_transport.py:128-220): a      *)
(* frame is in one place between the deliver request and the subscribers, and *)
(* they get it once, whatever the polls that were given up on, the revived    *)
(* poll threads and the hub's restarts do.                                    *)
THEOREM AtMostOnce == Spec => []OneCopy
<1>1. CopyInv => OneCopy
    <2> SUFFICES ASSUME CopyInv, NEW m \in Messages
                 PROVE  /\ Cardinality(Places(m)) <= 1
                        /\ \A a \in Agents : Cardinality(
                             {i \in DOMAIN dispatched[a] : dispatched[a][i] = m}) <= 1
        BY DEF OneCopy
    <2>1. \A x, y \in Places(m) : x = y
        BY PlacesAreHeld DEF CopyInv, Distinct
    <2>2. ASSUME NEW a \in Agents
          PROVE  \A i, j \in {l \in DOMAIN dispatched[a] : dispatched[a][l] = m} : i = j
        <3>1. <<"dispatched", a>> \in AllPlaces /\ Held[<<"dispatched", a>>] = dispatched[a]
            BY HeldAt
        <3> QED BY <3>1 DEF CopyInv, Distinct
    <2> QED BY <2>1, <2>2, AtMostOne
<1>2. CopyInv /\ [Next]_vars => CopyInv'
    BY CopyStep
<1> QED BY InitCopy, <1>1, <1>2, PTL DEF Spec

-----------------------------------------------------------------------------
(* In order.  On its way a frame passes the places of its recipient by rank,  *)
(* and the replies that have no reader are off the way.                       *)
Of(a) ==
    {<<"dispatched", a>>, <<"inbox", a>>, <<"mailbox", a>>}
      \cup {<<"batch", <<a, t>>>> : t \in Threads} \cup {<<"drained", <<a, h>>>> : h \in Slots}

Rank(p) == CASE p[1] = "dispatched" -> 1
             [] p[1] = "inbox" -> 2
             [] p[1] = "batch" -> 3
             [] p[1] = "drained" -> 4
             [] OTHER -> 5

Abandoned(p) == p[1] = "drained" /\ handler[p[2][1]][p[2][2]].client = Nobody

Way == [p \in AllPlaces |-> IF Abandoned(p) THEN <<>> ELSE Held[p]]

\* Of one sender, the frames in front have the lower numbers.
Ordered(C, S) ==
    \A p, q \in S : \A i \in DOMAIN C[p], j \in DOMAIN C[q] :
      /\ Rank(p) < Rank(q) \/ (p = q /\ i < j)
      /\ Sender[C[p][i]] = Sender[C[q][j]]
      => C[p][i] < C[q][j]

(* The loop of an agent that never had two poll threads                       *)
(* (relay_transport.py:92-126): one thread is alive, it waits for one reply,  *)
(* and whoever a reply is for is waiting for it.                              *)
OneThread ==
    \A a \in Agents \ doubled : \A t, u \in Threads :
      thread[a][t].pc # "off" /\ thread[a][u].pc # "off" => t = u
ClientPolls ==
    \A a \in Agents, h \in Slots :
      handler[a][h].client # Nobody => thread[a][handler[a][h].client].pc = "polling"
OneHandler ==
    \A a \in Agents : \A g, h \in Slots :
      handler[a][g].client = handler[a][h].client /\ handler[a][g].client # Nobody => g = h

OnePoll == OneThread /\ ClientPolls /\ OneHandler
OrderInv == CopyInv /\ OnePoll /\ \A a \in Agents \ doubled : Ordered(Way, Of(a))

LEMMA OrderedShrinks ==
    ASSUME NEW S, NEW C, NEW D, Ordered(C, S), \A p \in S : Shrinks(C[p], D[p]),
           \A p \in S : DOMAIN C[p] \subseteq Nat
    PROVE  Ordered(D, S)
<1> SUFFICES ASSUME NEW p \in S, NEW q \in S, NEW i \in DOMAIN D[p], NEW j \in DOMAIN D[q],
                    Rank(p) < Rank(q) \/ (p = q /\ i < j),
                    Sender[D[p][i]] = Sender[D[q][j]]
             PROVE  D[p][i] < D[q][j]
    BY DEF Ordered
<1>1. PICK e \in Nat : \A l \in DOMAIN D[p] : l \in Nat /\ l + e \in DOMAIN C[p] /\ D[p][l] = C[p][l + e]
    BY DEF Shrinks
<1>2. CASE p = q /\ i < j
    <2>1. i + e < j + e
        BY <1>1, <1>2
    <2> QED BY <1>1, <1>2, <2>1 DEF Ordered
<1>3. CASE Rank(p) < Rank(q)
    <2>1. PICK f \in Nat : \A l \in DOMAIN D[q] : l \in Nat /\ l + f \in DOMAIN C[q] /\ D[q][l] = C[q][l + f]
        BY DEF Shrinks
    <2> QED BY <1>1, <1>3, <2>1 DEF Ordered
<1> QED BY <1>2, <1>3

LEMMA OrderedMoves ==
    ASSUME NEW S, NEW C, NEW D, Ordered(C, S), NEW p1 \in S, NEW p2 \in S, p1 # p2,
           Moves(C, D, S, p1, p2), \A p \in S : Rank(p) \in Nat,
           \A p \in S : DOMAIN C[p] \subseteq Nat,
           Rank(p1) = Rank(p2) + 1,
           \A p \in S \ {p1, p2} : Rank(p) = Rank(p1) => DOMAIN C[p] = {}
    PROVE  Ordered(D, S)
<1>1. PICK k \in Nat, s \in Nat, n \in Nat, e \in Nat :
      /\ \A p \in S \ {p1, p2} : D[p] = C[p]
      /\ \A i \in DOMAIN D[p1] :
           i \in Nat \ {0} /\ i + k \in DOMAIN C[p1] /\ D[p1][i] = C[p1][i + k]
      /\ \A i \in DOMAIN D[p2] :
           /\ i \in Nat
           /\ \/ i <= n /\ i + e \in DOMAIN C[p2] /\ D[p2][i] = C[p2][i + e]
              \/ /\ i > n /\ i - n + s <= k
                 /\ i - n + s \in DOMAIN C[p1] /\ D[p2][i] = C[p1][i - n + s]
    BY DEF Moves, MovesBy
<1>2. SUFFICES ASSUME NEW p \in S, NEW q \in S, NEW i \in DOMAIN D[p], NEW j \in DOMAIN D[q],
                      Rank(p) < Rank(q) \/ (p = q /\ i < j),
                      Sender[D[p][i]] = Sender[D[q][j]]
               PROVE  D[p][i] < D[q][j]
    BY DEF Ordered
<1> DEFINE other(x) == x \notin {p1, p2}
<1>3. CASE other(p) /\ other(q)
    BY <1>1, <1>2, <1>3 DEF Ordered
<1>4. CASE p = p1 /\ q = p1
    <2>1. i + k < j + k /\ i + k \in DOMAIN C[p1] /\ j + k \in DOMAIN C[p1]
        BY <1>1, <1>2, <1>4
    <2> QED BY <1>1, <1>2, <1>4, <2>1 DEF Ordered
<1>5. ASSUME p = p1, q = p2 PROVE FALSE
    BY <1>2, <1>5
<1>6. CASE p = p2 /\ q = p1
    <2>1. Rank(p2) < Rank(p1)
        OBVIOUS
    <2>2. CASE i <= n /\ i + e \in DOMAIN C[p2] /\ D[p2][i] = C[p2][i + e]
        BY <1>1, <1>2, <1>6, <2>1, <2>2 DEF Ordered
    <2>3. CASE /\ i > n /\ i - n + s <= k
               /\ i - n + s \in DOMAIN C[p1] /\ D[p2][i] = C[p1][i - n + s]
        <3>1. i - n + s < j + k /\ j + k \in DOMAIN C[p1] /\ D[p1][j] = C[p1][j + k]
            BY <1>1, <1>6, <2>3
        <3> QED BY <1>2, <1>6, <2>3, <3>1 DEF Ordered
    <2> QED BY <1>1, <1>6, <2>2, <2>3
<1>7. CASE p = p2 /\ q = p2
    <2>1. Rank(p2) < Rank(p1) /\ i < j /\ i \in Nat /\ j \in Nat
        BY <1>1, <1>2, <1>7
    <2>2. CASE i <= n /\ i + e \in DOMAIN C[p2] /\ D[p2][i] = C[p2][i + e]
        <3>1. CASE j <= n /\ j + e \in DOMAIN C[p2] /\ D[p2][j] = C[p2][j + e]
            <4>1. i + e < j + e
                BY <2>1
            <4> QED BY <1>2, <1>7, <2>2, <3>1, <4>1 DEF Ordered
        <3>2. CASE j - n + s \in DOMAIN C[p1] /\ D[p2][j] = C[p1][j - n + s]
            BY <1>2, <1>7, <2>1, <2>2, <3>2 DEF Ordered
        <3> QED BY <1>1, <1>7, <3>1, <3>2
    <2>3. CASE i > n /\ i - n + s \in DOMAIN C[p1] /\ D[p2][i] = C[p1][i - n + s]
        <3>1. j > n /\ i - n + s < j - n + s
            BY <2>1, <2>3
        <3>2. j - n + s \in DOMAIN C[p1] /\ D[p2][j] = C[p1][j - n + s]
            BY <1>1, <1>7, <2>1, <3>1
        <3> QED BY <1>2, <1>7, <2>3, <3>1, <3>2 DEF Ordered
    <2> QED BY <1>1, <1>7, <2>2, <2>3
<1>8. CASE other(p) /\ q = p1
    BY <1>1, <1>2, <1>8 DEF Ordered
<1>9. CASE p = p1 /\ other(q)
    BY <1>1, <1>2, <1>9 DEF Ordered
<1>10. CASE other(p) /\ q = p2
    <2>1. Rank(p) < Rank(p2) /\ Rank(p) < Rank(p1) /\ D[p] = C[p]
        BY <1>1, <1>2, <1>10
    <2> QED BY <1>1, <1>2, <1>10, <2>1 DEF Ordered
<1>11. CASE p = p2 /\ other(q)
    <2>1. D[q] = C[q] /\ Rank(p2) < Rank(q) /\ Rank(p1) < Rank(q)
        <3>1. D[q] = C[q] /\ Rank(q) # Rank(p1)
            BY <1>1, <1>11
        <3> QED BY <1>2, <1>11, <3>1
    <2> QED BY <1>1, <1>2, <1>11, <2>1 DEF Ordered
<1> QED BY <1>3, <1>4, <1>5, <1>6, <1>7, <1>8, <1>9, <1>10, <1>11

LEMMA OrderedGains ==
    ASSUME NEW S, NEW C, NEW D, Ordered(C, S), NEW p2 \in S, NEW m,
           Gains(C, D, S, p2, m), \A p \in S : Rank(p) \in Nat,
           \A p \in S \ {p2} : Rank(p) < Rank(p2),
           \A p \in S : \A i \in DOMAIN C[p] : Sender[C[p][i]] = Sender[m] => C[p][i] < m
    PROVE  Ordered(D, S)
<1>1. PICK n \in Nat, e \in Nat :
      /\ \A p \in S \ {p2} : D[p] = C[p]
      /\ \A i \in DOMAIN D[p2] :
           /\ i \in Nat
           /\ \/ i <= n /\ i + e \in DOMAIN C[p2] /\ D[p2][i] = C[p2][i + e]
              \/ i = n + 1 /\ D[p2][i] = m
    BY DEF Gains
<1>2. SUFFICES ASSUME NEW p \in S, NEW q \in S, NEW i \in DOMAIN D[p], NEW j \in DOMAIN D[q],
                      Rank(p) < Rank(q) \/ (p = q /\ i < j),
                      Sender[D[p][i]] = Sender[D[q][j]]
               PROVE  D[p][i] < D[q][j]
    BY DEF Ordered
<1>3. CASE p # p2 /\ q # p2
    BY <1>1, <1>2, <1>3 DEF Ordered
<1>4. ASSUME p = p2, q # p2 PROVE FALSE
    BY <1>2, <1>4
<1>5. CASE p # p2 /\ q = p2
    BY <1>1, <1>2, <1>5 DEF Ordered
<1>6. CASE p = p2 /\ q = p2
    <2>1. i < j /\ i \in Nat /\ j \in Nat
        BY <1>1, <1>2, <1>6
    <2>2. i <= n /\ i + e \in DOMAIN C[p2] /\ D[p2][i] = C[p2][i + e]
        BY <1>1, <1>6, <2>1
    <2>3. CASE j <= n /\ j + e \in DOMAIN C[p2] /\ D[p2][j] = C[p2][j + e]
        <3>1. i + e < j + e
            BY <2>1
        <3> QED BY <1>2, <1>6, <2>2, <2>3, <3>1 DEF Ordered
    <2>4. CASE j = n + 1 /\ D[p2][j] = m
        BY <1>2, <1>6, <2>2, <2>4
    <2> QED BY <1>1, <1>6, <2>3, <2>4
<1> QED BY <1>3, <1>4, <1>5, <1>6

-----------------------------------------------------------------------------
(* The loop of the poll threads.                                              *)
LEMMA ClientTypes ==
    ASSUME Flow, NEW a \in Agents, NEW h \in Slots, handler[a][h].client # Nobody
    PROVE  handler[a][h].client \in Threads
<1>1. handler[a][h] \in HandlerState
    BY DEF Flow, Inv, HubTypes
<1> QED BY <1>1 DEF HandlerState

\* A step that asks for nothing: no poll begins, no thread starts.
LEMMA OnePollElsewhere ==
    ASSUME OnePoll, doubled \subseteq doubled',
           \A a \in Agents, t \in Threads : thread'[a][t].pc # "off" => thread[a][t].pc # "off",
           \A a \in Agents, h \in Slots :
             handler'[a][h].client # Nobody =>
               /\ handler'[a][h].client = handler[a][h].client
               /\ thread'[a][handler[a][h].client].pc = "polling"
    PROVE  OnePoll'
<1>1. OneThread'
    BY DEF OnePoll, OneThread
<1>2. ClientPolls'
    BY DEF ClientPolls
<1>3. OneHandler'
    BY DEF OnePoll, OneHandler
<1> QED BY <1>1, <1>2, <1>3 DEF OnePoll

\* A step that leaves the threads and whom the handlers serve alone.
LEMMA OnePollUntouched ==
    ASSUME OnePoll, UNCHANGED <<doubled, thread>>,
           \A a \in Agents, h \in Slots : handler'[a][h].client \in {handler[a][h].client, Nobody}
    PROVE  OnePoll'
<1>1. \A a \in Agents, h \in Slots :
        handler'[a][h].client # Nobody =>
          /\ handler'[a][h].client = handler[a][h].client
          /\ thread'[a][handler[a][h].client].pc = "polling"
    BY DEF OnePoll, ClientPolls
<1> QED BY <1>1, OnePollElsewhere

\* A thread that is not polling moves on without a poll.
LEMMA OnePollGoto ==
    ASSUME Flow, OnePoll, UNCHANGED <<doubled, handler>>, NEW a \in Agents, NEW t \in Threads,
           NEW pc \in {"off", "top", "registered", "poll"},
           thread[a][t].pc \notin {"storing", "polling", "off"}, Goto(a, t, pc)
    PROVE  OnePoll'
<1>1. \A b \in Agents, u \in Threads :
        thread'[b][u].pc = IF b = a /\ u = t THEN pc ELSE thread[b][u].pc
    BY GotoFlow DEF Flow
<1>2. ASSUME NEW b \in Agents, NEW h \in Slots, handler[b][h].client # Nobody
      PROVE  thread'[b][handler[b][h].client].pc = "polling"
    <2>1. handler[b][h].client \in Threads /\ thread[b][handler[b][h].client].pc = "polling"
        BY <1>2, ClientTypes DEF OnePoll, ClientPolls
    <2> QED BY <1>1, <2>1
<1> QED BY <1>1, <1>2, OnePollElsewhere

LEMMA OnePollAnswer ==
    ASSUME Flow, OnePoll, NEW a \in Agents, NEW h \in Slots, Answer(a, h)
    PROVE  OnePoll'
<1>1. UNCHANGED doubled /\ handler' = [handler EXCEPT ![a] = [handler[a] EXCEPT ![h] = IdleHandler]]
    BY DEF Answer, Flow, Inv, HubTypes
<1>2. \A b \in Agents, g \in Slots :
        handler'[b][g] = IF b = a /\ g = h THEN IdleHandler ELSE handler[b][g]
    BY <1>1 DEF Flow, Inv, HubTypes
<1>3. IdleHandler.client = Nobody
    BY DEF IdleHandler
<1>4. CASE handler[a][h].client = Nobody
    <2>1. UNCHANGED thread
        BY <1>4 DEF Answer
    <2> QED BY <1>1, <1>2, <1>3, <2>1, OnePollUntouched
<1>5. CASE handler[a][h].client # Nobody
    <2>1. PICK t : t = handler[a][h].client
        OBVIOUS
    <2>2. /\ t \in Threads
          /\ \A u \in Threads : u # t => thread'[a][u] = thread[a][u]
          /\ \A b \in Agents : b # a => thread'[b] = thread[b]
        BY <1>5, <2>1, AnswerFlow
    <2>3. thread[a][t].pc = "polling"
        BY <1>5, <2>1 DEF OnePoll, ClientPolls
    <2>4. \A b \in Agents, u \in Threads : thread'[b][u].pc # "off" => thread[b][u].pc # "off"
        BY <2>2, <2>3
    <2>5. ASSUME NEW b \in Agents, NEW g \in Slots, handler'[b][g].client # Nobody
          PROVE  /\ handler'[b][g].client = handler[b][g].client
                 /\ thread'[b][handler[b][g].client].pc = "polling"
        <3>1. ~(b = a /\ g = h) /\ handler'[b][g] = handler[b][g]
            BY <1>2, <1>3, <2>5
        <3>2. handler[b][g].client \in Threads /\ thread[b][handler[b][g].client].pc = "polling"
            BY <2>5, <3>1, ClientTypes DEF OnePoll, ClientPolls
        <3>3. b = a => handler[b][g].client # t
            BY <1>5, <2>1, <3>1 DEF OnePoll, OneHandler
        <3> QED BY <2>2, <3>1, <3>2, <3>3
    <2> QED BY <1>1, <2>4, <2>5, OnePollElsewhere
<1> QED BY <1>4, <1>5

LEMMA OnePollPoll ==
    ASSUME Flow, OnePoll, NEW a \in Agents, NEW t \in Threads, Poll(a, t)
    PROVE  OnePoll'
<1>1. thread[a][t].pc \in {"poll", "top"} /\ UNCHANGED doubled
    BY DEF Poll, AtTop, past
<1>2. CASE ~(hubUp /\ a \in registered)
    BY <1>1, <1>2, OnePollGoto DEF Poll
<1>3. CASE hubUp /\ a \in registered
    <2> DEFINE x == [pc |-> "enter", client |-> t, got |-> <<>>]
    <2>1. PICK h \in Slots : handler' = [handler EXCEPT ![a][h] = x]
        BY <1>3 DEF Poll
    <2>2. x.client = t
        OBVIOUS
    <2> HIDE DEF x
    <2>3. \A b \in Agents, g \in Slots :
            handler'[b][g] = IF b = a /\ g = h THEN x ELSE handler[b][g]
        BY <2>1 DEF Flow, Inv, HubTypes
    <2>4. \A b \in Agents, u \in Threads :
            thread'[b][u].pc = IF b = a /\ u = t THEN "polling" ELSE thread[b][u].pc
        BY <1>1, <1>3, GotoFlow DEF Poll, Flow
    <2>5. \A g \in Slots : handler[a][g].client # t \/ handler[a][g].client = Nobody
        BY <1>1 DEF OnePoll, ClientPolls
    <2>6. t # Nobody
        BY RelayAssumption
    <2>7. OneThread'
        BY <1>1, <2>4 DEF OnePoll, OneThread
    <2>8. ClientPolls'
        <3>1. ASSUME NEW b \in Agents, NEW g \in Slots, handler'[b][g].client # Nobody
              PROVE  thread'[b][handler'[b][g].client].pc = "polling"
            <4>1. CASE b = a /\ g = h
                BY <2>2, <2>3, <2>4, <4>1
            <4>2. CASE ~(b = a /\ g = h)
                <5>1. handler'[b][g] = handler[b][g]
                    BY <2>3, <4>2
                <5>2. handler[b][g].client \in Threads
                    BY <3>1, <5>1, ClientTypes
                <5>3. thread[b][handler[b][g].client].pc = "polling"
                    BY <3>1, <5>1 DEF OnePoll, ClientPolls
                <5> QED BY <2>4, <5>1, <5>2, <5>3
            <4> QED BY <4>1, <4>2
        <3> QED BY <3>1 DEF ClientPolls
    <2>9. OneHandler'
        <3>1. ASSUME NEW b \in Agents, NEW f \in Slots, NEW g \in Slots,
                     handler'[b][f].client = handler'[b][g].client, handler'[b][f].client # Nobody
              PROVE  f = g
            <4>1. CASE b = a /\ f = h
                BY <2>2, <2>3, <2>5, <2>6, <3>1, <4>1
            <4>2. CASE b = a /\ g = h
                BY <2>2, <2>3, <2>5, <2>6, <3>1, <4>2
            <4>3. CASE ~(b = a /\ f = h) /\ ~(b = a /\ g = h)
                BY <2>3, <3>1, <4>3 DEF OnePoll, OneHandler
            <4> QED BY <4>1, <4>2, <4>3
        <3> QED BY <3>1 DEF OneHandler
    <2> QED BY <2>7, <2>8, <2>9 DEF OnePoll
<1> QED BY <1>2, <1>3

LEMMA OnePollStart ==
    ASSUME Flow, OnePoll, NEW a \in Agents, Start(a)
    PROVE  OnePoll'
<1>1. UNCHANGED handler
    BY DEF Start
<1>2. CASE ~Admits(a)
    BY <1>1, <1>2, OnePollUntouched DEF Start
<1>3. CASE Admits(a)
    <2>1. PICK t \in Threads : thread[a][t].pc = "off" /\ Goto(a, t, "top")
        BY <1>3 DEF Start
    <2>2. \A b \in Agents, u \in Threads :
            thread'[b][u].pc = IF b = a /\ u = t THEN "top" ELSE thread[b][u].pc
        BY <2>1, GotoFlow DEF Flow
    <2>3. /\ doubled \subseteq doubled'
          /\ a \notin doubled' => \A u \in Threads : thread[a][u].pc = "off"
        BY <1>3 DEF Start
    <2>4. OneThread'
        BY <2>2, <2>3 DEF OnePoll, OneThread
    <2>5. ClientPolls'
        <3>1. ASSUME NEW b \in Agents, NEW g \in Slots, handler[b][g].client # Nobody
              PROVE  thread'[b][handler[b][g].client].pc = "polling"
            <4>1. handler[b][g].client \in Threads
                BY <3>1, ClientTypes
            <4>2. thread[b][handler[b][g].client].pc = "polling"
                BY <3>1 DEF OnePoll, ClientPolls
            <4> QED BY <2>1, <2>2, <4>1, <4>2
        <3> QED BY <1>1, <3>1 DEF ClientPolls
    <2>6. OneHandler'
        BY <1>1 DEF OnePoll, OneHandler
    <2> QED BY <2>4, <2>5, <2>6 DEF OnePoll
<1> QED BY <1>2, <1>3

LEMMA OnePollDropConnection ==
    ASSUME Flow, OnePoll, NEW a \in Agents, NEW t \in Threads, DropConnection(a, t)
    PROVE  OnePoll'
<1> DEFINE x(h) == IF handler[a][h].client = t
                   THEN [handler[a][h] EXCEPT !.client = Nobody] ELSE handler[a][h]
<1>1. /\ UNCHANGED doubled /\ thread[a][t].pc \in {"polling", "registered"} /\ Goto(a, t, "top")
      /\ handler' = [handler EXCEPT ![a] = [h \in Slots |-> x(h)]]
    BY DEF DropConnection
<1>2. \A b \in Agents, u \in Threads :
        thread'[b][u].pc = IF b = a /\ u = t THEN "top" ELSE thread[b][u].pc
    BY <1>1, GotoFlow DEF Flow
<1>3. ASSUME NEW h \in Slots
      PROVE  x(h).client = IF handler[a][h].client = t THEN Nobody ELSE handler[a][h].client
    <2>1. handler[a][h] \in HandlerState
        BY DEF Flow, Inv, HubTypes
    <2> QED BY <2>1, HandlerKeeps
<1> HIDE DEF x
<1>4. \A b \in Agents, h \in Slots :
        handler'[b][h].client = IF b = a /\ handler[b][h].client = t
                                THEN Nobody ELSE handler[b][h].client
    BY <1>1, <1>3 DEF Flow, Inv, HubTypes
<1>5. ASSUME NEW b \in Agents, NEW h \in Slots, handler'[b][h].client # Nobody
      PROVE  /\ handler'[b][h].client = handler[b][h].client
             /\ thread'[b][handler[b][h].client].pc = "polling"
    <2>1. handler'[b][h].client = handler[b][h].client /\ ~(b = a /\ handler[b][h].client = t)
        BY <1>4, <1>5
    <2>2. handler[b][h].client \in Threads /\ thread[b][handler[b][h].client].pc = "polling"
        BY <1>5, <2>1, ClientTypes DEF OnePoll, ClientPolls
    <2> QED BY <1>2, <2>1, <2>2
<1>6. \A b \in Agents, u \in Threads : thread'[b][u].pc # "off" => thread[b][u].pc # "off"
    BY <1>1, <1>2
<1> QED BY <1>1, <1>5, <1>6, OnePollElsewhere

LEMMA OnePollStore ==
    ASSUME Flow, OnePoll, NEW a \in Agents, NEW t \in Threads, Store(a, t)
    PROVE  OnePoll'
<1>1. UNCHANGED <<doubled, handler>> /\ thread[a][t].pc = "storing"
    BY DEF Store, hub
<1>2. \A b \in Agents, u \in Threads : ~(b = a /\ u = t) => thread'[b][u] = thread[b][u]
    BY StoreFlow
<1>3. \A b \in Agents, u \in Threads : thread'[b][u].pc # "off" => thread[b][u].pc # "off"
    BY <1>1, <1>2
<1>4. ASSUME NEW b \in Agents, NEW h \in Slots, handler[b][h].client # Nobody
      PROVE  thread'[b][handler[b][h].client].pc = "polling"
    <2>1. handler[b][h].client \in Threads /\ thread[b][handler[b][h].client].pc = "polling"
        BY <1>4, ClientTypes DEF OnePoll, ClientPolls
    <2> QED BY <1>1, <1>2, <2>1
<1> QED BY <1>1, <1>3, <1>4, OnePollElsewhere

LEMMA OnePollHubCrash ==
    ASSUME Flow, OnePoll, HubCrash
    PROVE  OnePoll'
<1>1. UNCHANGED doubled /\ \A a \in Agents, h \in Slots : handler'[a][h] = IdleHandler
    BY DEF HubCrash
<1>2. \A a \in Agents, t \in Threads : thread'[a][t].pc # "off" => thread[a][t].pc # "off"
    BY HubCrashFlow
<1>3. IdleHandler.client = Nobody
    BY DEF IdleHandler
<1> QED BY <1>1, <1>2, <1>3, OnePollElsewhere

LEMMA OnePollStep ==
    ASSUME Flow, OnePoll, [Next]_vars
    PROVE  OnePoll'
<1>1. ASSUME NEW a \in Agents, NEW h \in Slots, HandlerStep(a, h) PROVE OnePoll'
    <2>1. CASE Check(a, h)
        <3>1. UNCHANGED <<doubled, thread>>
            BY <2>1 DEF Check
        <3>2. \A b \in Agents, g \in Slots : handler'[b][g].client = handler[b][g].client
            BY <2>1, CheckMoves
        <3> QED BY <3>1, <3>2, OnePollUntouched
    <2>2. CASE Wait(a, h)
        <3>1. UNCHANGED <<doubled, thread>>
            BY <2>2 DEF Wait, past
        <3>2. \A b \in Agents, g \in Slots : handler'[b][g].client = handler[b][g].client
            <4> DEFINE x == [handler[a][h] EXCEPT !.pc = "waiting"]
            <4>1. handler' = [handler EXCEPT ![a][h] = x]
                BY <2>2 DEF Wait, Flow, Inv, HubTypes
            <4>2. handler[a][h] \in HandlerState
                BY DEF Flow, Inv, HubTypes
            <4>3. x.client = handler[a][h].client
                BY <4>2, HandlerKeeps
            <4> HIDE DEF x
            <4> QED BY <4>1, <4>3 DEF Flow, Inv, HubTypes
        <3> QED BY <3>1, <3>2, OnePollUntouched
    <2> QED BY <1>1, <2>1, <2>2, OnePollAnswer DEF HandlerStep
<1>2. ASSUME NEW a \in Agents, DeliveryStep(a) PROVE OnePoll'
    <2>1. CASE Notify(a)
        <3> DEFINE r == Recipient[delivery[a].msg]
                   x(h) == IF handler[r][h].pc = "waiting"
                           THEN [handler[r][h] EXCEPT !.pc = "enter"] ELSE handler[r][h]
        <3>1. UNCHANGED <<doubled, thread>> /\ handler' = [handler EXCEPT ![r] = [h \in Slots |-> x(h)]]
            BY <2>1 DEF Notify, past
        <3>2. ASSUME r \in Agents, NEW h \in Slots PROVE x(h).client = handler[r][h].client
            <4>1. handler[r][h] \in HandlerState
                BY <3>2 DEF Flow, Inv, HubTypes
            <4> QED BY <4>1, HandlerKeeps
        <3> HIDE DEF x
        <3>3. \A b \in Agents, h \in Slots : handler'[b][h].client = handler[b][h].client
            BY <3>1, <3>2 DEF Flow, Inv, HubTypes
        <3> QED BY <3>1, <3>3, OnePollUntouched
    <2>2. CASE Deliver(a) \/ DeliverReply(a)
        BY <2>2, OnePollUntouched DEF Deliver, DeliverReply, past
    <2> QED BY <1>2, <2>1, <2>2 DEF DeliveryStep
<1>3. ASSUME NEW a \in Agents, Dispatch(a) \/ Stop(a) \/ LoseReply(a) \/ Age(a) PROVE OnePoll'
    BY <1>3, OnePollUntouched DEF Dispatch, Stop, LoseReply, Age, past
<1>4. ASSUME NEW a \in Agents, NEW t \in Threads, ThreadStep(a, t) PROVE OnePoll'
    <2>1. CASE Exit(a, t) \/ Register(a, t) \/ Connect(a, t)
        <3>1. PICK pc \in {"off", "top", "registered", "poll"} : Goto(a, t, pc)
            BY <2>1 DEF Exit, Register, Connect
        <3>2. /\ thread[a][t].pc \notin {"storing", "polling", "off"}
              /\ UNCHANGED <<doubled, handler>>
            BY <2>1 DEF Exit, Register, Connect, AtTop, past
        <3> QED BY <3>1, <3>2, OnePollGoto
    <2> QED BY <1>4, <2>1, OnePollPoll, OnePollStore DEF ThreadStep
<1>5. ASSUME NEW m \in Messages, SendFrame(m) PROVE OnePoll'
    BY <1>5, OnePollUntouched DEF SendFrame, past
<1>6. CASE HubStart \/ UNCHANGED vars
    BY <1>6, OnePollUntouched DEF HubStart, past, vars
<1>7. CASE Failure
    BY <1>3, <1>7, OnePollHubCrash, OnePollDropConnection DEF Failure
<1> QED BY <1>1, <1>2, <1>3, <1>4, <1>5, <1>6, <1>7, OnePollStart DEF Next

-----------------------------------------------------------------------------
(* What is on the way.                                                        *)
LEMMA WayAt ==
    ASSUME NEW a \in Agents
    PROVE  /\ \A p \in {<<"mailbox", a>>, <<"inbox", a>>, <<"dispatched", a>>} :
                p \in Of(a) /\ Way[p] = Held[p] /\ Way'[p] = Held'[p]
           /\ \A t \in Threads : /\ <<"batch", <<a, t>>>> \in Of(a)
                                 /\ Way[<<"batch", <<a, t>>>>] = Held[<<"batch", <<a, t>>>>]
                                 /\ Way'[<<"batch", <<a, t>>>>] = Held'[<<"batch", <<a, t>>>>]
           /\ \A h \in Slots :
                /\ <<"drained", <<a, h>>>> \in Of(a)
                /\ Way[<<"drained", <<a, h>>>>] =
                     IF handler[a][h].client = Nobody THEN <<>> ELSE Held[<<"drained", <<a, h>>>>]
                /\ Way'[<<"drained", <<a, h>>>>] =
                     IF handler'[a][h].client = Nobody THEN <<>> ELSE Held'[<<"drained", <<a, h>>>>]
<1>1. ASSUME NEW p \in {<<"mailbox", a>>, <<"inbox", a>>, <<"dispatched", a>>}
      PROVE  p \in Of(a) /\ Way[p] = Held[p] /\ Way'[p] = Held'[p]
    <2>1. p \in AllPlaces
        BY HeldAt
    <2>2. p \in Of(a)
        BY DEF Of
    <2>3. p[1] # "drained"
        OBVIOUS
    <2> QED BY <2>1, <2>2, <2>3 DEF Way, Abandoned
<1>2. ASSUME NEW t \in Threads, NEW p, p = <<"batch", <<a, t>>>>
      PROVE  p \in Of(a) /\ Way[p] = Held[p] /\ Way'[p] = Held'[p]
    <2>1. p \in AllPlaces
        BY <1>2, HeldAt
    <2>2. p \in Of(a)
        BY <1>2 DEF Of
    <2>3. p[1] # "drained"
        BY <1>2
    <2> QED BY <2>1, <2>2, <2>3 DEF Way, Abandoned
<1>3. ASSUME NEW h \in Slots, NEW p, p = <<"drained", <<a, h>>>>
      PROVE  /\ p \in Of(a)
             /\ Way[p] = IF handler[a][h].client = Nobody THEN <<>> ELSE Held[p]
             /\ Way'[p] = IF handler'[a][h].client = Nobody THEN <<>> ELSE Held'[p]
    <2>1. p \in AllPlaces /\ p[1] = "drained" /\ p[2][1] = a /\ p[2][2] = h /\ p \in Of(a)
        BY <1>3, HeldAt DEF Of
    <2> QED BY <2>1 DEF Way, Abandoned
<1> QED BY <1>1, <1>2, <1>3

\* The places of an agent and their ranks.
LEMMA Ranks ==
    ASSUME NEW a \in Agents
    PROVE  /\ Of(a) \subseteq AllPlaces
           /\ \A p \in Of(a) : Rank(p) \in 1..5
           /\ \A p \in Of(a) : Rank(p) = 5 => p = <<"mailbox", a>>
           /\ \A p \in Of(a) : Rank(p) = 4 => \E h \in Slots : p = <<"drained", <<a, h>>>>
           /\ \A p \in Of(a) : Rank(p) = 3 => \E t \in Threads : p = <<"batch", <<a, t>>>>
           /\ \A p \in Of(a) : Rank(p) = 2 => p = <<"inbox", a>>
           /\ Rank(<<"dispatched", a>>) = 1 /\ Rank(<<"inbox", a>>) = 2
           /\ Rank(<<"mailbox", a>>) = 5
           /\ \A h \in Slots : Rank(<<"drained", <<a, h>>>>) = 4
           /\ \A t \in Threads : Rank(<<"batch", <<a, t>>>>) = 3
<1>1. /\ Rank(<<"dispatched", a>>) = 1 /\ Rank(<<"inbox", a>>) = 2
      /\ Rank(<<"mailbox", a>>) = 5
    BY DEF Rank
<1>2. \A h \in Slots : Rank(<<"drained", <<a, h>>>>) = 4
    BY DEF Rank
<1>3. \A t \in Threads : Rank(<<"batch", <<a, t>>>>) = 3
    BY DEF Rank
<1>4. Of(a) \subseteq AllPlaces
    BY HeldAt DEF Of
<1>5. ASSUME NEW p \in Of(a)
      PROVE  \/ p \in {<<"dispatched", a>>, <<"inbox", a>>, <<"mailbox", a>>}
             \/ \E t \in Threads : p = <<"batch", <<a, t>>>>
             \/ \E h \in Slots : p = <<"drained", <<a, h>>>>
    BY DEF Of
<1> QED BY <1>1, <1>2, <1>3, <1>4, <1>5

\* Every place is of one agent.
LEMMA OneOwner ==
    ASSUME NEW a \in Agents, NEW b \in Agents, a # b
    PROVE  Of(a) \cap Of(b) = {}
BY DEF Of

\* A step moves frames along the way of agent a and leaves the other ways alone.
LEMMA WayMoves ==
    ASSUME OrderInv, doubled \subseteq doubled', NEW a \in Agents, NEW p1 \in Of(a), NEW p2 \in Of(a), p1 # p2,
           Moves(Held, Held', AllPlaces, p1, p2),
           Way[p1] = Held[p1], Way'[p1] = Held'[p1], Way[p2] = Held[p2], Way'[p2] = Held'[p2],
           \A p \in AllPlaces \ {p1, p2} : Held'[p] = Held[p] => Way'[p] = Way[p],
           Rank(p1) = Rank(p2) + 1,
           a \notin doubled => \A p \in Of(a) \ {p1, p2} : Rank(p) = Rank(p1) => Way[p] = <<>>
    PROVE  \A b \in Agents \ doubled' : Ordered(Way', Of(b))
<1>1. PICK k \in Nat, s \in Nat, n \in Nat, e \in Nat :
           MovesBy(Held, Held', AllPlaces, p1, p2, k, s, n, e)
    BY DEF Moves
<1>2. \A p \in AllPlaces \ {p1, p2} : Way'[p] = Way[p]
    BY <1>1 DEF MovesBy
<1>3. \A b \in Agents : Of(b) \subseteq AllPlaces /\ \A p \in Of(b) : Rank(p) \in Nat
    <2>1. ASSUME NEW b \in Agents
          PROVE  Of(b) \subseteq AllPlaces /\ \A p \in Of(b) : Rank(p) \in 1..5
        BY Ranks
    <2> QED BY <2>1
<1>4. MovesBy(Way, Way', Of(a), p1, p2, k, s, n, e)
    BY <1>1, <1>2, <1>3 DEF MovesBy
<1>5. Moves(Way, Way', Of(a), p1, p2)
    BY <1>4 DEF Moves
<1>6. \A p \in AllPlaces : DOMAIN Way[p] \subseteq Nat
    <2>1. ASSUME NEW p \in AllPlaces PROVE DOMAIN Way[p] \subseteq Nat
        <3>1. Held[p] \in Seq(Messages)
            BY HeldType DEF OrderInv, CopyInv
        <3>2. DOMAIN Held[p] \subseteq Nat
            BY <3>1, LenProperties
        <3>3. Way[p] = Held[p] \/ Way[p] = <<>>
            BY DEF Way
        <3> QED BY <3>2, <3>3, EmptySeq
    <2> QED BY <2>1
<1>7. ASSUME NEW b \in Agents \ doubled', b # a PROVE Ordered(Way', Of(b))
    <2>1. \A p \in Of(b) : Way'[p] = Way[p]
        BY <1>2, <1>3, <1>7, OneOwner
    <2>2. Ordered(Way, Of(b))
        BY DEF OrderInv
    <2> QED BY <2>1, <2>2 DEF Ordered
<1>8. ASSUME a \notin doubled' PROVE Ordered(Way', Of(a))
    <2>1. Ordered(Way, Of(a)) /\ a \notin doubled
        BY <1>8 DEF OrderInv
    <2>2. \A p \in Of(a) \ {p1, p2} : Rank(p) = Rank(p1) => DOMAIN Way[p] = {}
        BY <2>1, EmptySeq
    <2>3. \A p \in Of(a) : DOMAIN Way[p] \subseteq Nat
        BY <1>3, <1>6
    <2> QED BY <1>3, <1>5, <2>1, <2>2, <2>3, OrderedMoves
<1> QED BY <1>7, <1>8

\* A step that at most takes frames off the ways.
LEMMA WayShrinks ==
    ASSUME OrderInv, doubled \subseteq doubled', \A p \in AllPlaces : Shrinks(Way[p], Way'[p])
    PROVE  \A b \in Agents \ doubled' : Ordered(Way', Of(b))
<1> SUFFICES ASSUME NEW b \in Agents \ doubled' PROVE Ordered(Way', Of(b))
    OBVIOUS
<1>1. Of(b) \subseteq AllPlaces
    BY Ranks
<1>2. ASSUME NEW p \in AllPlaces PROVE DOMAIN Way[p] \subseteq Nat
    <2>1. Held[p] \in Seq(Messages)
        BY HeldType DEF OrderInv, CopyInv
    <2>2. DOMAIN Held[p] \subseteq Nat
        BY <2>1, LenProperties
    <2>3. Way[p] = Held[p] \/ Way[p] = <<>>
        BY DEF Way
    <2> QED BY <2>2, <2>3, EmptySeq
<1>3. Ordered(Way, Of(b))
    BY DEF OrderInv
<1> QED BY <1>1, <1>2, <1>3, OrderedShrinks

LEMMA WayType ==
    ASSUME Flow, NEW p \in AllPlaces
    PROVE  Way[p] \in Seq(Messages)
<1>1. Held[p] \in Seq(Messages)
    BY HeldType
<1>2. Way[p] = Held[p] \/ Way[p] = <<>>
    BY DEF Way
<1> QED BY <1>1, <1>2, EmptySeq

LEMMA WayCalm ==
    ASSUME Flow, Calm
    PROVE  \A p \in AllPlaces : Shrinks(Way[p], Way'[p])
<1> SUFFICES ASSUME NEW p \in AllPlaces PROVE Shrinks(Way[p], Way'[p])
    OBVIOUS
<1>1. CASE Way'[p] = <<>>
    BY <1>1, WayType, SameShrinks
<1>2. CASE Way'[p] # <<>>
    <2>1. Way'[p] = Held'[p] /\ ~Abandoned(p)'
        BY <1>2 DEF Way
    <2>2. ~Abandoned(p)
        <3>1. SUFFICES ASSUME Abandoned(p) PROVE FALSE
            OBVIOUS
        <3>2. PICK a \in Agents :
                \/ p \in {<<"mailbox", a>>, <<"inbox", a>>, <<"dispatched", a>>}
                \/ \E h \in Slots : p = <<"drained", <<a, h>>>>
                \/ \E t \in Threads : p = <<"batch", <<a, t>>>>
            BY PlaceCases
        <3>3. PICK h \in Slots : p = <<"drained", <<a, h>>>>
            BY <3>1, <3>2 DEF Abandoned
        <3>4. handler[a][h].client = Nobody /\ handler'[a][h].client # Nobody
            BY <2>1, <3>1, <3>3 DEF Abandoned
        <3>5. handler'[a][h].got = <<>>
            BY <3>4 DEF Calm
        <3> QED BY <1>2, <2>1, <3>3, <3>5, HeldAt
    <2>3. Way[p] = Held[p]
        BY <2>2 DEF Way
    <2> QED BY <2>1, <2>3 DEF Calm
<1> QED BY <1>1, <1>2

\* Nobody else of an agent with one thread has frames that are on their way.
LEMMA OnlyReply ==
    ASSUME Flow, OnePoll, NEW a \in Agents \ doubled, NEW t \in Threads, thread[a][t].pc # "off"
    PROVE  /\ \A u \in Threads : u # t => Way[<<"batch", <<a, u>>>>] = <<>>
           /\ \A h \in Slots : handler[a][h].client # t => Way[<<"drained", <<a, h>>>>] = <<>>
<1>1. ASSUME NEW u \in Threads, u # t PROVE Way[<<"batch", <<a, u>>>>] = <<>>
    <2>1. thread[a][u].pc = "off"
        BY <1>1 DEF OnePoll, OneThread
    <2>2. thread[a][u].batch = <<>>
        BY <2>1 DEF Flow, StoringABatch
    <2>3. Held[<<"batch", <<a, u>>>>] = thread[a][u].batch
        BY HeldAt
    <2>4. Way[<<"batch", <<a, u>>>>] = Held[<<"batch", <<a, u>>>>]
        BY WayAt
    <2> QED BY <2>2, <2>3, <2>4
<1>2. ASSUME NEW h \in Slots, handler[a][h].client # t PROVE Way[<<"drained", <<a, h>>>>] = <<>>
    <2>1. handler[a][h].client = Nobody
        <3>1. SUFFICES ASSUME handler[a][h].client # Nobody PROVE FALSE
            OBVIOUS
        <3>2. handler[a][h].client \in Threads /\ thread[a][handler[a][h].client].pc = "polling"
            BY <3>1, ClientTypes DEF OnePoll, ClientPolls
        <3> QED BY <1>2, <3>2 DEF OnePoll, OneThread
    <2> QED BY <2>1, WayAt
<1> QED BY <1>1, <1>2

-----------------------------------------------------------------------------
\* A place whose handler, if it has one, serves the same client as before.
LEMMA WayKeeps ==
    ASSUME \A a \in Agents, h \in Slots : handler'[a][h].client = handler[a][h].client,
           NEW p \in AllPlaces, Held'[p] = Held[p]
    PROVE  Way'[p] = Way[p]
<1>1. Abandoned(p)' <=> Abandoned(p)
    <2>1. PICK a \in Agents :
             \/ p \in {<<"mailbox", a>>, <<"inbox", a>>, <<"dispatched", a>>}
             \/ \E h \in Slots : p = <<"drained", <<a, h>>>>
             \/ \E t \in Threads : p = <<"batch", <<a, t>>>>
        BY PlaceCases
    <2>2. ASSUME NEW h \in Slots, p = <<"drained", <<a, h>>>>
          PROVE  Abandoned(p)' <=> Abandoned(p)
        BY <2>2 DEF Abandoned
    <2>3. ASSUME p[1] # "drained" PROVE Abandoned(p)' <=> Abandoned(p)
        BY <2>3 DEF Abandoned
    <2> QED BY <2>1, <2>2, <2>3
<1> QED BY <1>1 DEF Way

LEMMA CheckOrder ==
    ASSUME OrderInv, NEW a \in Agents, NEW h \in Slots, Check(a, h)
    PROVE  \A b \in Agents \ doubled' : Ordered(Way', Of(b))
<1> DEFINE p1 == <<"mailbox", a>>
           p2 == <<"drained", <<a, h>>>>
<1>1. /\ Flow /\ Moves(Held, Held', AllPlaces, p1, p2)
      /\ \A b \in Agents, g \in Slots : handler'[b][g].client = handler[b][g].client
      /\ Shrinks(Held[p1], Held'[p1])
      /\ doubled' = doubled
    BY CheckMoves DEF OrderInv, CopyInv, Check
<1>2. /\ p1 \in Of(a) /\ p2 \in Of(a) /\ p1 # p2 /\ Rank(p1) = 5 /\ Rank(p2) = 4
      /\ Of(a) \subseteq AllPlaces
    BY WayAt, Ranks
<1>3. \A p \in AllPlaces \ {p1, p2} : Held'[p] = Held[p]
    BY <1>1 DEF Moves, MovesBy
<1>4. \A p \in AllPlaces \ {p1, p2} : Way'[p] = Way[p]
    BY <1>1, <1>3, WayKeeps
<1>5. Way[p1] = Held[p1] /\ Way'[p1] = Held'[p1]
    BY WayAt
<1>6. CASE handler[a][h].client # Nobody
    <2>1. Way[p2] = Held[p2] /\ Way'[p2] = Held'[p2]
        <3>1. handler'[a][h].client # Nobody
            BY <1>1, <1>6
        <3>2. /\ Way[p2] = IF handler[a][h].client = Nobody THEN <<>> ELSE Held[p2]
              /\ Way'[p2] = IF handler'[a][h].client = Nobody THEN <<>> ELSE Held'[p2]
            BY WayAt
        <3> QED BY <1>6, <3>1, <3>2
    <2>2. \A p \in Of(a) \ {p1, p2} : Rank(p) # Rank(p1)
        BY <1>2, Ranks
    <2> HIDE DEF p1, p2
    <2> QED BY <1>1, <1>2, <1>4, <1>5, <2>1, <2>2, WayMoves
<1>7. CASE handler[a][h].client = Nobody
    <2>1. Way'[p2] = <<>>
        BY <1>1, <1>7, WayAt
    <2>2. ASSUME NEW p \in AllPlaces PROVE Shrinks(Way[p], Way'[p])
        <3>1. CASE p = p1
            BY <1>1, <1>5, <3>1
        <3>2. CASE p # p1
            <4>1. Way'[p] = Way[p] \/ Way'[p] = <<>>
                BY <1>4, <2>1, <3>2
            <4> QED BY <1>1, <4>1, WayType, SameShrinks
        <3> QED BY <3>1, <3>2
    <2> QED BY <1>1, <2>2, WayShrinks
<1> QED BY <1>6, <1>7

LEMMA AnswerOrder ==
    ASSUME OrderInv, NEW a \in Agents, NEW h \in Slots, Answer(a, h),
           handler[a][h].client # Nobody
    PROVE  \A b \in Agents \ doubled' : Ordered(Way', Of(b))
<1>0. PICK t : t = handler[a][h].client
    OBVIOUS
<1> DEFINE p1 == <<"drained", <<a, h>>>>
           p2 == <<"batch", <<a, t>>>>
<1>1. /\ Flow /\ OnePoll /\ t \in Threads /\ Moves(Held, Held', AllPlaces, p1, p2)
      /\ doubled' = doubled
    BY <1>0, AnswerMoves, AnswerFlow DEF OrderInv, CopyInv, Answer
<1>2. /\ p1 \in Of(a) /\ p2 \in Of(a) /\ p1 # p2 /\ Rank(p1) = 4 /\ Rank(p2) = 3
      /\ Of(a) \subseteq AllPlaces
    BY <1>1, WayAt, Ranks
<1>3. /\ thread[a][t].pc = "polling"
      /\ \A g \in Slots : g # h => handler[a][g].client # t
    BY <1>0 DEF OrderInv, OnePoll, ClientPolls, OneHandler
<1>4. \A b \in Agents, g \in Slots : ~(b = a /\ g = h) => handler'[b][g] = handler[b][g]
    BY <1>1 DEF Answer, Flow, Inv, HubTypes
<1>5. handler'[a][h].got = <<>> /\ handler'[a][h].client = Nobody
    BY <1>1 DEF Answer, Flow, Inv, HubTypes, IdleHandler
<1>6. Way[p1] = Held[p1] /\ Way'[p1] = Held'[p1]
    <2>1. Held'[p1] = <<>>
        BY <1>5, HeldAt
    <2>2. Way'[p1] = <<>>
        BY <1>5, WayAt
    <2> QED BY <2>1, <2>2, WayAt
<1>7. Way[p2] = Held[p2] /\ Way'[p2] = Held'[p2]
    BY <1>1, WayAt
<1>8. ASSUME NEW p \in AllPlaces, p # p1, Held'[p] = Held[p] PROVE Way'[p] = Way[p]
    <2>1. PICK b \in Agents :
             \/ p \in {<<"mailbox", b>>, <<"inbox", b>>, <<"dispatched", b>>}
             \/ \E g \in Slots : p = <<"drained", <<b, g>>>>
             \/ \E u \in Threads : p = <<"batch", <<b, u>>>>
        BY PlaceCases
    <2>2. ASSUME NEW g \in Slots, p = <<"drained", <<b, g>>>>
          PROVE  Way'[p] = Way[p]
        <3>1. handler'[b][g] = handler[b][g]
            BY <1>4, <1>8, <2>2
        <3>2. /\ Way[p] = IF handler[b][g].client = Nobody THEN <<>> ELSE Held[p]
              /\ Way'[p] = IF handler'[b][g].client = Nobody THEN <<>> ELSE Held'[p]
            BY <2>2, WayAt
        <3> QED BY <1>8, <3>1, <3>2
    <2>3. ASSUME p[1] # "drained" PROVE Way'[p] = Way[p]
        BY <1>8, <2>3 DEF Way, Abandoned
    <2> QED BY <2>1, <2>2, <2>3
<1>9. ASSUME a \notin doubled, NEW p \in Of(a) \ {p1, p2}, Rank(p) = Rank(p1)
      PROVE  Way[p] = <<>>
    <2>1. PICK g \in Slots : p = <<"drained", <<a, g>>>>
        BY <1>2, <1>9, Ranks
    <2>2. handler[a][g].client # t
        BY <1>3, <1>9, <2>1
    <2> QED BY <1>1, <1>3, <1>9, <2>1, <2>2, OnlyReply
<1> HIDE DEF p1, p2
<1> QED BY <1>1, <1>2, <1>6, <1>7, <1>8, <1>9, WayMoves

LEMMA StoreOrder ==
    ASSUME OrderInv, NEW a \in Agents, NEW t \in Threads, Store(a, t)
    PROVE  \A b \in Agents \ doubled' : Ordered(Way', Of(b))
<1> DEFINE p1 == <<"batch", <<a, t>>>>
           p2 == <<"inbox", a>>
<1>1. /\ Flow /\ OnePoll /\ Moves(Held, Held', AllPlaces, p1, p2)
      /\ doubled' = doubled /\ handler' = handler /\ thread[a][t].pc = "storing"
    BY StoreMoves DEF OrderInv, CopyInv, Store, hub
<1>2. /\ p1 \in Of(a) /\ p2 \in Of(a) /\ p1 # p2 /\ Rank(p1) = 3 /\ Rank(p2) = 2
      /\ Of(a) \subseteq AllPlaces
    BY WayAt, Ranks
<1>3. /\ Way[p1] = Held[p1] /\ Way'[p1] = Held'[p1]
      /\ Way[p2] = Held[p2] /\ Way'[p2] = Held'[p2]
    BY WayAt
<1>4. \A p \in AllPlaces : Held'[p] = Held[p] => Way'[p] = Way[p]
    BY <1>1, WayKeeps
<1>5. ASSUME a \notin doubled, NEW p \in Of(a) \ {p1, p2}, Rank(p) = Rank(p1)
      PROVE  Way[p] = <<>>
    <2>1. PICK u \in Threads : p = <<"batch", <<a, u>>>>
        BY <1>2, <1>5, Ranks
    <2>2. u # t
        BY <1>5, <2>1
    <2> QED BY <1>1, <1>5, <2>1, <2>2, OnlyReply
<1> HIDE DEF p1, p2
<1> QED BY <1>1, <1>2, <1>3, <1>4, <1>5, WayMoves

LEMMA DispatchOrder ==
    ASSUME OrderInv, NEW a \in Agents, Dispatch(a)
    PROVE  \A b \in Agents \ doubled' : Ordered(Way', Of(b))
<1> DEFINE p1 == <<"inbox", a>>
           p2 == <<"dispatched", a>>
<1>1. /\ Flow /\ Moves(Held, Held', AllPlaces, p1, p2)
      /\ doubled' = doubled /\ handler' = handler
    BY DispatchMoves DEF OrderInv, CopyInv, Dispatch, hub, past
<1>2. /\ p1 \in Of(a) /\ p2 \in Of(a) /\ p1 # p2 /\ Rank(p1) = 2 /\ Rank(p2) = 1
      /\ Of(a) \subseteq AllPlaces
    BY WayAt, Ranks
<1>3. /\ Way[p1] = Held[p1] /\ Way'[p1] = Held'[p1]
      /\ Way[p2] = Held[p2] /\ Way'[p2] = Held'[p2]
    BY WayAt
<1>4. \A p \in AllPlaces : Held'[p] = Held[p] => Way'[p] = Way[p]
    BY <1>1, WayKeeps
<1>5. \A p \in Of(a) \ {p1, p2} : Rank(p) # Rank(p1)
    BY <1>2, Ranks
<1> HIDE DEF p1, p2
<1> QED BY <1>1, <1>2, <1>3, <1>4, <1>5, WayMoves

\* The frame a deliver request appends comes after all of its sender's.
LEMMA DeliverOrder ==
    ASSUME OrderInv, NEW a \in Agents, Deliver(a)
    PROVE  \A b \in Agents \ doubled' : Ordered(Way', Of(b))
<1>0. PICK m, r : m = delivery[a].msg /\ r = Recipient[m]
    OBVIOUS
<1> DEFINE p2 == <<"mailbox", r>>
<1>1. /\ Flow /\ delivery[a].pc = "request" /\ m \in Messages /\ r \in Agents
      /\ Gains(Held, Held', AllPlaces, p2, m)
      /\ doubled' = doubled /\ handler' = handler
    BY <1>0, DeliverGains, RelayAssumption DEF OrderInv, CopyInv, Deliver
<1>2. Sender[m] = a
    BY <1>0, <1>1 DEF OrderInv, CopyInv, SentInOrder
<1>3. PICK n \in Nat, e \in Nat :
      /\ \A p \in AllPlaces \ {p2} : Held'[p] = Held[p]
      /\ \A i \in DOMAIN Held'[p2] :
           /\ i \in Nat
           /\ \/ i <= n /\ i + e \in DOMAIN Held[p2] /\ Held'[p2][i] = Held[p2][i + e]
              \/ i = n + 1 /\ Held'[p2][i] = m
    BY <1>1 DEF Gains
<1>4. /\ p2 \in Of(r) /\ Rank(p2) = 5 /\ Of(r) \subseteq AllPlaces
      /\ Way[p2] = Held[p2] /\ Way'[p2] = Held'[p2]
    BY <1>1, WayAt, Ranks
<1>5. \A p \in AllPlaces \ {p2} : Way'[p] = Way[p]
    BY <1>1, <1>3, WayKeeps
<1>6. Gains(Way, Way', Of(r), p2, m)
    <2>1. \A i \in DOMAIN Way'[p2] :
            /\ i \in Nat
            /\ \/ i <= n /\ i + e \in DOMAIN Way[p2] /\ Way'[p2][i] = Way[p2][i + e]
               \/ i = n + 1 /\ Way'[p2][i] = m
        BY <1>3, <1>4
    <2>2. \A p \in Of(r) \ {p2} : Way'[p] = Way[p]
        BY <1>4, <1>5
    <2> HIDE DEF p2
    <2> QED BY <2>1, <2>2 DEF Gains
<1>7. ASSUME NEW p \in Of(r), NEW i \in DOMAIN Way[p], Sender[Way[p][i]] = Sender[m]
      PROVE  Way[p][i] < m
    <2>1. Way[p] = Held[p]
        <3>1. Way[p] = Held[p] \/ Way[p] = <<>>
            BY <1>4 DEF Way
        <3> QED BY <1>7, <3>1, EmptySeq
    <2>2. Behind(Way[p][i])
        BY <1>4, <1>7, <2>1, HeldBehind DEF OrderInv
    <2> QED BY <1>0, <1>1, <1>2, <1>7, <2>2 DEF Behind
<1>8. ASSUME NEW b \in Agents \ doubled', b = r PROVE Ordered(Way', Of(b))
    <2>1. Ordered(Way, Of(r))
        BY <1>1, <1>8 DEF OrderInv
    <2>2. /\ \A p \in Of(r) : Rank(p) \in 1..5
          /\ \A p \in Of(r) : Rank(p) = 5 => p = p2
        BY <1>1, Ranks
    <2>3. /\ \A p \in Of(r) : Rank(p) \in Nat
          /\ \A p \in Of(r) \ {p2} : Rank(p) < Rank(p2)
        BY <1>4, <2>2
    <2> HIDE DEF p2
    <2> QED BY <1>4, <1>6, <1>7, <1>8, <2>1, <2>3, OrderedGains
<1>9. ASSUME NEW b \in Agents \ doubled', b # r PROVE Ordered(Way', Of(b))
    <2>1. \A p \in Of(b) : Way'[p] = Way[p]
        <3>1. Of(b) \subseteq AllPlaces /\ p2 \notin Of(b)
            BY <1>1, <1>4, <1>9, Ranks, OneOwner
        <3> QED BY <1>5, <3>1
    <2>2. Ordered(Way, Of(b))
        BY <1>1 DEF OrderInv
    <2> QED BY <2>1, <2>2 DEF Ordered
<1> QED BY <1>8, <1>9

LEMMA DoubledGrows ==
    ASSUME [Next]_vars
    PROVE  doubled \subseteq doubled'
<1>1. ASSUME NEW a \in Agents, NEW h \in Slots, HandlerStep(a, h) PROVE doubled' = doubled
    BY <1>1 DEF HandlerStep, Check, Wait, Answer, past
<1>2. ASSUME NEW a \in Agents, DeliveryStep(a) \/ Dispatch(a) PROVE doubled' = doubled
    BY <1>2 DEF DeliveryStep, Deliver, Notify, DeliverReply, Dispatch, past
<1>3. ASSUME NEW a \in Agents, Start(a) PROVE doubled \subseteq doubled'
    BY <1>3 DEF Start
<1>4. ASSUME NEW a \in Agents, NEW t \in Threads, ThreadStep(a, t) PROVE doubled' = doubled
    BY <1>4 DEF ThreadStep, Exit, Register, Connect, Poll, Store, past
<1>5. ASSUME NEW m \in Messages, SendFrame(m) PROVE doubled' = doubled
    BY <1>5 DEF SendFrame, past
<1>6. CASE HubStart \/ UNCHANGED vars
    BY <1>6 DEF HubStart, past, vars
<1>7. CASE Failure
    BY <1>7 DEF Failure, HubCrash, Stop, LoseReply, Age, DropConnection
<1> QED BY <1>1, <1>2, <1>3, <1>4, <1>5, <1>6, <1>7 DEF Next

LEMMA OrderStep ==
    ASSUME OrderInv, [Next]_vars
    PROVE  OrderInv'
<1>1. Flow /\ CopyInv' /\ OnePoll' /\ doubled \subseteq doubled'
    BY CopyStep, OnePollStep, DoubledGrows DEF OrderInv, CopyInv
<1>2. ASSUME Calm
      PROVE  \A b \in Agents \ doubled' : Ordered(Way', Of(b))
    BY <1>1, <1>2, WayCalm, WayShrinks
<1>3. ASSUME NEW m \in Messages, SendFrame(m)
      PROVE  \A b \in Agents \ doubled' : Ordered(Way', Of(b))
    <2>1. UNCHANGED <<boxes, inbox, dispatched, handler, thread>>
        BY <1>3 DEF SendFrame, hub, agent
    <2>2. \A p \in AllPlaces : Held'[p] = Held[p]
        <3>1. PICK X : X = {}
            OBVIOUS
        <3>2. \A p \in AllPlaces \ X : Held'[p] = Held[p]
            BY <2>1, Unmoved
        <3> QED BY <3>1, <3>2
    <2>3. \A p \in AllPlaces : Way'[p] = Way[p]
        BY <2>1, <2>2, WayKeeps
    <2>4. \A p \in AllPlaces : Shrinks(Way[p], Way'[p])
        BY <1>1, <2>3, WayType, SameShrinks
    <2> QED BY <1>1, <2>4, WayShrinks
<1>4. \A b \in Agents \ doubled' : Ordered(Way', Of(b))
    BY <1>1, <1>2, <1>3, StepKinds, CheckOrder, AnswerOrder, StoreOrder, DispatchOrder, DeliverOrder
<1>5. \A b \in Agents \ doubled' : Ordered(Way, Of(b))'
    BY <1>4 DEF Ordered, Of, Rank
<1> QED BY <1>1, <1>5 DEF OrderInv

LEMMA InitOrder == Init => OrderInv
<1> SUFFICES ASSUME Init PROVE OrderInv
    OBVIOUS
<1>1. OnePoll
    BY DEF Init, OnePoll, OneThread, ClientPolls, OneHandler, IdleThread, IdleHandler
<1>2. ASSUME NEW a \in Agents PROVE Ordered(Way, Of(a))
    <2>1. ASSUME NEW p \in Of(a) PROVE DOMAIN Way[p] = {}
        <3>1. p \in AllPlaces /\ Held[p] = <<>>
            BY InitHolds, Ranks
        <3> QED BY <3>1, EmptySeq DEF Way
    <2> QED BY <2>1 DEF Ordered
<1> QED BY <1>1, <1>2, InitCopy DEF OrderInv

(* Order (relay_transport.py:128-220, relay_server.py:112-173): an agent that *)
(* never had two poll threads dispatches a sender's frames in the order they  *)
(* were sent, whatever was lost or expired in between.                        *)
THEOREM OrderOfASender == Spec => []InOrder
<1>1. OrderInv => InOrder
    <2> SUFFICES ASSUME OrderInv, NEW a \in Agents \ doubled,
                        NEW i \in DOMAIN dispatched[a], NEW j \in DOMAIN dispatched[a],
                        i < j, Sender[dispatched[a][i]] = Sender[dispatched[a][j]]
                 PROVE  dispatched[a][i] < dispatched[a][j]
        BY DEF InOrder
    <2>1. <<"dispatched", a>> \in Of(a) /\ Way[<<"dispatched", a>>] = dispatched[a]
        BY WayAt, HeldAt
    <2> QED BY <2>1 DEF OrderInv, Ordered
<1>2. OrderInv /\ [Next]_vars => OrderInv'
    BY OrderStep
<1> QED BY InitOrder, <1>1, <1>2, PTL DEF Spec
=============================================================================
