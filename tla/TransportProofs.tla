-------------------------- MODULE TransportProofs --------------------------
(* Proofs about the transports of an agent: TransportChain, for any            *)
(* transports, threads, messages, threshold and cooldown, and then RadioLink,  *)
(* for any frames, segments, drains, airtime and places.                      *)
EXTENDS AgentTransports, TLAPS, FiniteSetTheorems, SequenceTheorems, WellFoundedInduction

(* What makes NoHealthyTransportMissed inductive: the transports that served a
   walk all along are serving it now, and the walk still has them before it. *)
StillServing(w) ==
    /\ \A m \in w.msgs : w.healthy \subseteq Serving(w.op, m, cool, reach)
    /\ w.msgs = {} => w.healthy = {}
StillAhead(w) ==
    /\ w.healthy \subseteq w.first \cup w.on
    /\ \A t, u \in w.on : t = u
WalksKeepTheHealthy == \A th \in Threads : StillServing(walk[th]) /\ StillAhead(walk[th])

Inv == TypeOK /\ WalksKeepTheHealthy

-----------------------------------------------------------------------------
(* Types.                                                                   *)

LEMMA IdleType == Idle \in Walk
BY CooldownAssumption DEF Idle, Walk, Ops

LEMMA ServingType ==
    ASSUME NEW op, NEW m, NEW cools, NEW links
    PROVE  Serving(op, m, cools, links) \subseteq Transports /\ Candidates(op, m) \subseteq Transports
BY DEF Serving, Candidates

LEMMA ObservedType ==
    ASSUME NEW walks \in [Threads -> Walk], NEW cools, NEW links
    PROVE  Observed(walks, cools, links) \in [Threads -> Walk]
<1> SUFFICES ASSUME NEW th \in Threads
             PROVE  Observed(walks, cools, links)[th] \in Walk
    BY DEF Observed
<1>1. walks[th] \in Walk
    OBVIOUS
<1> QED BY <1>1 DEF Observed, Walk

LEMMA OpenedType ==
    ASSUME TypeOK, NEW w \in Walk, NEW t \in Transports
    PROVE  Opened(w, t) \in [Transports -> 0..Cooldown]
<1>1. w.age \in 0..Cooldown
    BY DEF Walk
<1>2. Cooldown - w.age \in 0..Cooldown
    BY <1>1, CooldownAssumption
<1> QED BY <1>2 DEF Opened, TypeOK

LEMMA CountedType ==
    ASSUME TypeOK, NEW t \in Transports
    PROVE  Counted(t) \in [Transports -> 0..Threshold]
BY ThresholdAssumption DEF Counted, TypeOK

LEMMA TypeStep == TypeOK /\ [Next]_vars => TypeOK'
<1> SUFFICES ASSUME TypeOK, [Next]_vars PROVE TypeOK'
    OBVIOUS
<1> USE DEF TypeOK
<1>1. CASE UNCHANGED vars
    BY <1>1 DEF vars
<1>2. ASSUME NEW t \in Transports, NEW m \in Messages, LinkUp(t, m)
      PROVE  TypeOK'
    BY <1>2 DEF LinkUp
<1>3. ASSUME NEW t \in Transports, NEW m \in Messages, LinkDown(t, m)
      PROVE  TypeOK'
    BY <1>3, ObservedType DEF LinkDown
<1>4. CASE Tick
  <2>1. cool' \in [Transports -> 0..Cooldown]
    BY <1>4, CooldownAssumption DEF Tick
  <2>2. ASSUME NEW th \in Threads PROVE walk'[th] \in Walk
    <3>1. walk[th] \in Walk
        OBVIOUS
    <3> QED BY <1>4, <3>1, CooldownAssumption DEF Tick, Walk
  <2>3. walk' \in [Threads -> Walk]
    BY <1>4, <2>2 DEF Tick
  <2> QED BY <1>4, <2>1, <2>3 DEF Tick
<1>5. ASSUME NEW th \in Threads, NEW op \in {"send", "send_raw"}, NEW m \in Messages,
             Begin(th, op, m)
      PROVE  TypeOK'
  <2>1. Serving(op, m, cool, reach) \subseteq Transports /\ Candidates(op, m) \subseteq Transports
    BY ServingType
  <2> DEFINE w == [Idle EXCEPT !.op = op, !.msgs = {m},
                               !.first = Candidates(op, m) \cap Closed,
                               !.rest = IF op = "send" THEN Candidates(op, m) \ Closed ELSE {},
                               !.healthy = Serving(op, m, cool, reach)]
  <2>2. w \in Walk
    <3>1. Idle \in Walk /\ op \in Ops /\ {m} \in SUBSET Messages
        BY IdleType DEF Ops
    <3>2. /\ Candidates(op, m) \cap Closed \subseteq Transports
          /\ Candidates(op, m) \ Closed \subseteq Transports
        BY <2>1
    <3> QED BY <2>1, <3>1, <3>2 DEF Walk
  <2> HIDE DEF w
  <2>3. walk' = [walk EXCEPT ![th] = w] /\ UNCHANGED <<reach, failures, cool>>
    BY <1>5 DEF Begin, w
  <2> QED BY <2>2, <2>3
<1>6. ASSUME NEW th \in Threads, Skip(th)
      PROVE  TypeOK'
  <2>1. PICK t \in Upcoming(walk[th]) : walk' = [walk EXCEPT ![th] = Without(@, t)]
    BY <1>6 DEF Skip
  <2>2. walk[th] \in Walk
    OBVIOUS
  <2>3. Without(walk[th], t) \in Walk
    BY <2>2 DEF Without, Walk
  <2> QED BY <1>6, <2>3, <2>1, <2>2 DEF Skip
<1>7. ASSUME NEW th \in Threads, Attempt(th)
      PROVE  TypeOK'
  <2>1. PICK t \in Upcoming(walk[th]) :
             walk' = [walk EXCEPT ![th] =
                       [Without(@, t) EXCEPT !.on = {t}]]
    BY <1>7 DEF Attempt
  <2>2. walk[th] \in Walk /\ t \in Transports
    BY <2>1 DEF Upcoming, Walk
  <2>3. [Without(walk[th], t) EXCEPT !.on = {t}] \in Walk
    BY <2>2 DEF Without, Walk
  <2> QED BY <1>7, <2>1, <2>3 DEF Attempt
<1>8. ASSUME NEW th \in Threads, Succeed(th)
      PROVE  TypeOK'
    BY <1>8, IdleType, ThresholdAssumption DEF Succeed, Walk
<1>9. ASSUME NEW th \in Threads, Fail(th)
      PROVE  TypeOK'
  <2>1. PICK t \in walk[th].on : failures' = Counted(t) /\ cool' = Opened(walk[th], t)
    BY <1>9 DEF Fail
  <2>2. walk[th] \in Walk /\ t \in Transports
    BY <2>1 DEF Walk
  <2>3. [walk EXCEPT ![th] = Finished(@)] \in [Threads -> Walk]
    BY <2>2 DEF Finished, Walk
  <2> QED BY <1>9, <2>1, <2>2, <2>3, CountedType, OpenedType, ObservedType DEF Fail
<1>10. ASSUME NEW th \in Threads, RaiseInSend(th) \/ GiveUp(th)
       PROVE  TypeOK'
    BY <1>10, IdleType DEF RaiseInSend, GiveUp
<1>11. ASSUME NEW th \in Threads, RaiseInSendRaw(th)
       PROVE  TypeOK'
  <2>1. PICK t \in walk[th].on : failures' = Counted(t)
    BY <1>11 DEF RaiseInSendRaw
  <2>2. walk[th] \in Walk /\ t \in Transports
    BY <2>1 DEF Walk
  <2>3. [Finished(walk[th]) EXCEPT !.healthy = walk[th].healthy \ walk[th].on] \in Walk
    BY <2>2 DEF Finished, Walk
  <2> QED BY <1>11, <2>1, <2>2, <2>3, CountedType DEF RaiseInSendRaw
<1>12. ASSUME NEW th \in Threads, Start(th) PROVE TypeOK'
    BY <1>5, <1>12, MessagesAssumption DEF Start
<1>13. ASSUME NEW th \in Threads, Step(th) PROVE TypeOK'
    BY <1>6, <1>7, <1>8, <1>9, <1>10, <1>11, <1>13 DEF Step
<1> QED BY <1>1, <1>2, <1>3, <1>4, <1>12, <1>13 DEF Next

-----------------------------------------------------------------------------
(* Walks.                                                                   *)

(* A walk that changes nothing of its own keeps its healthy transports through
   whatever the breakers and the links do, as long as it observes it.        *)
LEMMA ObservedKeeps ==
    ASSUME TypeOK, NEW walks \in [Threads -> Walk],
           NEW cools \in [Transports -> 0..Cooldown], NEW links,
           NEW th \in Threads, StillAhead(walks[th]),
           walks[th].msgs = {} => walks[th].healthy = {}
    PROVE  LET w == Observed(walks, cools, links)[th] IN
           /\ StillAhead(w)
           /\ \A m \in w.msgs : w.healthy \subseteq Serving(w.op, m, cools, links)
           /\ w.msgs = {} => w.healthy = {}
<1> DEFINE v == walks[th]
           w == Observed(walks, cools, links)[th]
<1>1. v \in Walk
    OBVIOUS
<1>2. /\ w.op = v.op /\ w.msgs = v.msgs /\ w.on = v.on
      /\ w.healthy = {t \in v.healthy : \A m \in v.msgs : t \in Serving(v.op, m, cools, links)}
      /\ w.first = IF v.op = "send_raw" THEN {t \in v.first : cools[t] <= cool[t]} ELSE v.first
    BY <1>1 DEF Observed, Walk
<1>3. \A m \in w.msgs : w.healthy \subseteq Serving(w.op, m, cools, links)
    BY <1>2
<1>4. ASSUME NEW t \in w.healthy PROVE t \in w.first \cup w.on
  <2>1. t \in v.healthy /\ t \in v.first \cup v.on /\ t \in Transports
    BY <1>1, <1>2 DEF StillAhead, Walk
  <2>2. CASE t \in v.on
    BY <1>2, <2>2
  <2>3. CASE v.op # "send_raw"
    BY <1>2, <2>1, <2>3
  <2>4. CASE t \in v.first /\ v.op = "send_raw"
    <3>1. PICK m \in v.msgs : t \in Serving(v.op, m, cools, links)
        BY <1>2, <2>1
    <3>2. cools[t] = 0
        BY <3>1 DEF Serving
    <3>3. cools[t] <= cool[t]
        BY <2>1, <3>2, CooldownAssumption DEF TypeOK
    <3> QED BY <1>2, <2>4, <3>3
  <2> QED BY <2>1, <2>2, <2>3, <2>4
<1> QED BY <1>2, <1>3, <1>4 DEF StillAhead

(* A walk is not disturbed when breakers close and links come up. *)
LEMMA QuietKeeps ==
    ASSUME NEW th \in Threads, StillServing(walk[th]), StillAhead(walk[th]),
           \A t \in Transports : cool[t] = 0 => cool'[t] = 0, reach \subseteq reach',
           walk'[th].op = walk[th].op, walk'[th].msgs = walk[th].msgs,
           walk'[th].first = walk[th].first, walk'[th].on = walk[th].on,
           walk'[th].healthy = walk[th].healthy
    PROVE  StillServing(walk[th])' /\ StillAhead(walk[th])'
<1>1. ASSUME NEW op, NEW m
      PROVE  Serving(op, m, cool, reach) \subseteq Serving(op, m, cool', reach')
    BY ServingType DEF Serving
<1> QED BY <1>1 DEF StillServing, StillAhead

(* Nor when they are not touched and the step is another thread's. *)
LEMMA OthersKeep ==
    ASSUME WalksKeepTheHealthy, TypeOK, UNCHANGED <<cool, reach>>,
           NEW mine \in Threads, NEW w, walk' = [walk EXCEPT ![mine] = w],
           NEW th \in Threads, th # mine
    PROVE  StillServing(walk[th])' /\ StillAhead(walk[th])'
<1>1. walk'[th] = walk[th]
    BY DEF TypeOK
<1> QED BY <1>1, QuietKeeps DEF WalksKeepTheHealthy

LEMMA WalksStep == Inv /\ [Next]_vars => WalksKeepTheHealthy'
<1> SUFFICES ASSUME Inv, [Next]_vars PROVE WalksKeepTheHealthy'
    OBVIOUS
<1>t. TypeOK /\ TypeOK' /\ WalksKeepTheHealthy
    BY TypeStep DEF Inv
<1> DEFINE Kept(th) == StillServing(walk[th])' /\ StillAhead(walk[th])'
<1>i. ASSUME NEW th \in Threads, walk'[th] = Idle PROVE Kept(th)
    BY <1>i DEF StillServing, StillAhead, Idle
<1>1. CASE UNCHANGED vars
    BY <1>1, <1>t, QuietKeeps DEF vars, WalksKeepTheHealthy
<1>2. ASSUME NEW t \in Transports, NEW m \in Messages, LinkUp(t, m)
      PROVE  WalksKeepTheHealthy'
    BY <1>2, <1>t, QuietKeeps DEF LinkUp, WalksKeepTheHealthy
<1>3. ASSUME NEW t \in Transports, NEW m \in Messages, LinkDown(t, m)
      PROVE  WalksKeepTheHealthy'
  <2>1. walk' = Observed(walk, cool, reach') /\ cool' = cool
    BY <1>3 DEF LinkDown
  <2>2. walk \in [Threads -> Walk] /\ cool \in [Transports -> 0..Cooldown]
    BY <1>t DEF TypeOK
  <2>3. ASSUME NEW th \in Threads PROVE Kept(th)
    <3>1. StillAhead(walk[th]) /\ (walk[th].msgs = {} => walk[th].healthy = {})
        BY <1>t DEF WalksKeepTheHealthy, StillServing
    <3>2. LET w == Observed(walk, cool, reach')[th] IN
            /\ StillAhead(w)
            /\ \A n \in w.msgs : w.healthy \subseteq Serving(w.op, n, cool, reach')
            /\ w.msgs = {} => w.healthy = {}
        BY <2>2, <3>1, <1>t, ObservedKeeps
    <3> QED BY <2>1, <3>2 DEF StillServing, StillAhead
  <2> QED BY <2>3 DEF WalksKeepTheHealthy
<1>4. CASE Tick
  <2> SUFFICES ASSUME NEW th \in Threads PROVE Kept(th)
    BY DEF WalksKeepTheHealthy
  <2>1. /\ walk'[th].op = walk[th].op /\ walk'[th].msgs = walk[th].msgs
        /\ walk'[th].first = walk[th].first /\ walk'[th].on = walk[th].on
        /\ walk'[th].healthy = walk[th].healthy
    <3>1. walk[th] \in Walk
        BY <1>t DEF TypeOK
    <3> QED BY <1>4, <3>1 DEF Tick, Walk
  <2>2. /\ \A t \in Transports : cool[t] = 0 => cool'[t] = 0
        /\ reach \subseteq reach'
    BY <1>4 DEF Tick
  <2> QED BY <2>1, <2>2, <1>t, QuietKeeps DEF WalksKeepTheHealthy
<1>5. ASSUME NEW mine \in Threads, NEW op \in {"send", "send_raw"}, NEW m \in Messages,
             Begin(mine, op, m)
      PROVE  WalksKeepTheHealthy'
  <2>1. Kept(mine)
    <3>1. /\ walk'[mine].op = op /\ walk'[mine].msgs = {m} /\ walk'[mine].on = {}
          /\ walk'[mine].first = Candidates(op, m) \cap Closed
          /\ walk'[mine].healthy = Serving(op, m, cool, reach)
        BY <1>5, <1>t DEF Begin, Idle, TypeOK
    <3>2. Serving(op, m, cool, reach) \subseteq Candidates(op, m) \cap Closed
        BY ServingType DEF Serving, Closed
    <3>3. UNCHANGED <<cool, reach>>
        BY <1>5 DEF Begin
    <3>4. StillAhead(walk[mine])'
        BY <3>1, <3>2 DEF StillAhead
    <3>5. StillServing(walk[mine])'
        BY <3>1, <3>3 DEF StillServing
    <3> QED BY <3>4, <3>5
  <2> QED BY <2>1, <1>5, <1>t, OthersKeep DEF Begin, WalksKeepTheHealthy
<1>6. ASSUME NEW mine \in Threads, Skip(mine)
      PROVE  WalksKeepTheHealthy'
  <2>1. PICK t \in Upcoming(walk[mine]), m \in walk[mine].msgs :
             /\ t \notin Closed \/ PassesOver(walk[mine].op, t, m)
             /\ walk' = [walk EXCEPT ![mine] = Without(@, t)]
    BY <1>6 DEF Skip
  <2>2. t \notin walk[mine].healthy
    BY <2>1, <1>t DEF WalksKeepTheHealthy, StillServing, Serving, Candidates, Closed
  <2>3. walk'[mine] = Without(walk[mine], t) /\ walk[mine] \in Walk
    BY <2>1, <1>t DEF TypeOK
  <2>4. /\ walk'[mine].op = walk[mine].op /\ walk'[mine].msgs = walk[mine].msgs
        /\ walk'[mine].first = walk[mine].first \ {t} /\ walk'[mine].on = walk[mine].on
        /\ walk'[mine].healthy = walk[mine].healthy
    BY <2>3 DEF Without, Walk
  <2>5. UNCHANGED <<cool, reach>>
    BY <1>6 DEF Skip
  <2>6. Kept(mine)
    BY <2>2, <2>4, <2>5, <1>t DEF WalksKeepTheHealthy, StillServing, StillAhead
  <2> QED BY <2>1, <2>5, <2>6, <1>t, OthersKeep DEF WalksKeepTheHealthy
<1>7. ASSUME NEW mine \in Threads, Attempt(mine)
      PROVE  WalksKeepTheHealthy'
  <2>1. PICK t \in Upcoming(walk[mine]) :
             walk' = [walk EXCEPT ![mine] =
                       [Without(@, t) EXCEPT !.on = {t}]]
    BY <1>7 DEF Attempt
  <2>2. walk[mine] \in Walk /\ walk[mine].on = {}
    BY <1>7, <1>t DEF TypeOK, Attempt
  <2>3. walk'[mine] = [Without(walk[mine], t) EXCEPT !.on = {t}]
    BY <2>1, <1>t DEF TypeOK
  <2>4. /\ walk'[mine].op = walk[mine].op /\ walk'[mine].msgs = walk[mine].msgs
        /\ walk'[mine].first = walk[mine].first \ {t} /\ walk'[mine].on = {t}
        /\ walk'[mine].healthy = walk[mine].healthy
    BY <2>2, <2>3 DEF Without, Walk
  <2>5. UNCHANGED <<cool, reach>>
    BY <1>7 DEF Attempt
  <2>6. Kept(mine)
    BY <2>2, <2>4, <2>5, <1>t DEF WalksKeepTheHealthy, StillServing, StillAhead
  <2> QED BY <2>1, <2>5, <2>6, <1>t, OthersKeep DEF WalksKeepTheHealthy
<1>8. ASSUME NEW mine \in Threads, Succeed(mine) \/ RaiseInSend(mine) \/ GiveUp(mine)
      PROVE  WalksKeepTheHealthy'
  <2>1. walk' = [walk EXCEPT ![mine] = Idle] /\ UNCHANGED <<cool, reach>>
    BY <1>8 DEF Succeed, RaiseInSend, GiveUp
  <2>2. Kept(mine)
    BY <2>1, <1>t, <1>i DEF TypeOK
  <2> QED BY <2>1, <2>2, <1>t, OthersKeep DEF WalksKeepTheHealthy
<1>9. ASSUME NEW mine \in Threads, Fail(mine)
      PROVE  WalksKeepTheHealthy'
  <2>1. PICK t \in walk[mine].on : ~Carries(mine, t) /\ cool' = Opened(walk[mine], t)
    BY <1>9 DEF Fail
  <2> DEFINE walks == [walk EXCEPT ![mine] = Finished(@)]
  <2>2. /\ walks \in [Threads -> Walk]
        /\ walks[mine] = Finished(walk[mine])
        /\ \A th \in Threads : th # mine => walks[th] = walk[th]
    <3>1. walk[mine] \in Walk
        BY <1>t DEF TypeOK
    <3>2. Finished(walk[mine]) \in Walk
        BY <3>1 DEF Finished, Walk
    <3> QED BY <3>2, <1>t DEF TypeOK
  <2>3. walk' = Observed(walks, cool', reach') /\ reach' = reach
    BY <1>9 DEF Fail
  <2>4. cool' \in [Transports -> 0..Cooldown]
    BY <1>t DEF TypeOK
  <2>5. PICK m \in walk[mine].msgs : <<t, m>> \notin reach
    BY <2>1 DEF Carries
  <2>6. t \notin walk[mine].healthy
    BY <2>5, <1>t DEF WalksKeepTheHealthy, StillServing, Serving
  <2> HIDE DEF walks
  <2>7. ASSUME NEW th \in Threads
        PROVE  StillAhead(walks[th]) /\ (walks[th].msgs = {} => walks[th].healthy = {})
    <3>1. CASE th # mine
        BY <2>2, <3>1, <1>t DEF WalksKeepTheHealthy, StillServing
    <3>2. CASE th = mine
      <4>1. walk[mine] \in Walk /\ walk[mine].on = {t}
        BY <1>t, <2>1 DEF TypeOK, WalksKeepTheHealthy, StillAhead
      <4>2. /\ walks[th].msgs = walk[mine].msgs /\ walks[th].on = {}
            /\ walks[th].first = walk[mine].first /\ walks[th].healthy = walk[mine].healthy
        BY <2>2, <3>2, <4>1 DEF Finished, Walk
      <4> QED BY <2>6, <4>1, <4>2, <1>t DEF WalksKeepTheHealthy, StillServing, StillAhead
    <3> QED BY <3>1, <3>2
  <2>8. ASSUME NEW th \in Threads PROVE Kept(th)
    BY <2>2, <2>3, <2>4, <2>7, <1>t, ObservedKeeps DEF StillServing, StillAhead
  <2> QED BY <2>8 DEF WalksKeepTheHealthy
<1>10. ASSUME NEW mine \in Threads, RaiseInSendRaw(mine)
       PROVE  WalksKeepTheHealthy'
  <2> DEFINE w == [Finished(walk[mine]) EXCEPT !.healthy = walk[mine].healthy \ walk[mine].on]
  <2>1. walk' = [walk EXCEPT ![mine] = w] /\ UNCHANGED <<cool, reach>> /\ walk[mine] \in Walk
    BY <1>10, <1>t DEF RaiseInSendRaw, TypeOK
  <2>2. walk'[mine] = w
    BY <2>1, <1>t DEF TypeOK
  <2>3. /\ walk'[mine].op = walk[mine].op /\ walk'[mine].msgs = walk[mine].msgs
        /\ walk'[mine].first = walk[mine].first /\ walk'[mine].on = {}
        /\ walk'[mine].healthy = walk[mine].healthy \ walk[mine].on
    <3>1. Finished(walk[mine]) \in Walk
        BY <2>1 DEF Finished, Walk
    <3>2. /\ Finished(walk[mine]).op = walk[mine].op
          /\ Finished(walk[mine]).msgs = walk[mine].msgs
          /\ Finished(walk[mine]).first = walk[mine].first /\ Finished(walk[mine]).on = {}
        BY <2>1 DEF Finished, Walk
    <3> QED BY <2>2, <3>1, <3>2 DEF Walk
  <2>4. Kept(mine)
    BY <2>1, <2>3, <1>t DEF WalksKeepTheHealthy, StillServing, StillAhead
  <2> HIDE DEF w
  <2> QED BY <2>1, <2>4, <1>t, OthersKeep DEF WalksKeepTheHealthy
<1>11. ASSUME NEW th \in Threads, Start(th) PROVE WalksKeepTheHealthy'
    BY <1>5, <1>11, MessagesAssumption DEF Start
<1>12. ASSUME NEW th \in Threads, Step(th) PROVE WalksKeepTheHealthy'
    BY <1>6, <1>7, <1>8, <1>9, <1>10, <1>12 DEF Step
<1> QED BY <1>1, <1>2, <1>3, <1>4, <1>11, <1>12 DEF Next

-----------------------------------------------------------------------------
LEMMA InitInv == Init => Inv
<1> SUFFICES ASSUME Init PROVE Inv
    OBVIOUS
<1>1. TypeOK
    BY IdleType, ThresholdAssumption, CooldownAssumption DEF Init, TypeOK
<1>2. WalksKeepTheHealthy
    BY DEF Init, WalksKeepTheHealthy, StillServing, StillAhead, Idle
<1> QED BY <1>1, <1>2 DEF Inv

\* Every variable keeps its type, the counters their bounds.
THEOREM TypeCorrect == Spec => []TypeOK
<1>1. Init => TypeOK
    BY InitInv DEF Inv
<1> QED BY <1>1, TypeStep, PTL DEF Spec

\* A walk that reports failure missed no transport that was eligible, closed
\* and reaching the recipient from its start to its end (transport_fallback.py:
\* 121-175, 184-220), for any number of threads, transports and messages.
THEOREM NoneMissed == Spec => []NoHealthyTransportMissed
<1>1. Inv /\ [Next]_vars => Inv'
    BY TypeStep, WalksStep DEF Inv
<1>2. Inv => NoHealthyTransportMissed
    BY DEF Inv, WalksKeepTheHealthy, StillAhead, NoHealthyTransportMissed, Exhausted, Upcoming
<1> QED BY InitInv, <1>1, <1>2, PTL DEF Spec

-----------------------------------------------------------------------------
(* The radio links, LoraTransport and BluetoothTransport.                    *)

\* Every frame is cut into some number of segments, at least one thread drains.
RadioConstants ==
    /\ Pieces \in [Radio!Kinds -> [Frames -> Nat]]
    /\ IsFiniteSet(Drainers) /\ Drainers # {}
    /\ Budget \in Nat

Stages == {"idle", "budget", "consume", "write", "pop"}
DrainState == [at : Stages, frame : Frames \cup {Radio!Idle.frame}, next : Nat]
DrainTypes ==
    /\ kind \in Radio!Kinds
    /\ drain \in [Drainers -> DrainState]
    /\ outbox \in Seq(Frames)
    /\ accepted \subseteq Frames
    /\ used \in Nat
    /\ overlapped \in BOOLEAN

(* Why AirtimeIsBounded is not inductive: a drain that has found room has    *)
(* not used it yet, so those are counted as if they had.                     *)
Spending == {d \in Drainers : drain[d].at = "consume"}
SpendingBounded ==
    /\ used + Cardinality(Spending) <= Budget + Cardinality(Drainers) - 1
    /\ Spending # {} => Budget > 0

(* Why LeavesOnlyWritten is not inductive: it does not say what a drain that *)
(* is about to pop has done.  One drain at a time works on the head of the   *)
(* outbox, and has written the segments before the next one.                 *)
AtHead(d) ==
    LET f == drain[d].frame
    IN  /\ outbox # <<>> /\ f = Head(outbox) /\ f \in Frames
        /\ \A i \in 1..Radio!Count(f) : i < drain[d].next => <<f, i>> \in written
        /\ drain[d].at = "pop" => drain[d].next > Radio!Count(f)
InTurns ==
    /\ \A d, e \in Drainers : Radio!Draining(d) /\ Radio!Draining(e) => d = e
    /\ \A d \in Drainers : Radio!Draining(d) => AtHead(d)
    /\ Radio!LeavesOnlyWritten

RadioInv == DrainTypes /\ SpendingBounded /\ (~overlapped => InTurns)

LEMMA CountIs == ASSUME RadioConstants, DrainTypes PROVE \A f \in Frames : Radio!Count(f) \in Nat
BY DEF RadioConstants, DrainTypes, Radio!Count

LEMMA IdleIs ==
    /\ Radio!Idle \in DrainState
    /\ Radio!Idle.at = "idle"
BY DEF Radio!Idle, Stages, DrainState

LEMMA OnwardIs ==
    ASSUME RadioConstants, DrainTypes, NEW f \in Frames \cup {Radio!Idle.frame}, NEW i \in Nat
    PROVE  LET o == Radio!Onward(f, i) IN
           /\ o \in DrainState
           /\ o.at \in {"pop", "budget", "write"} /\ o.frame = f /\ o.next = i
           /\ o.at = "pop" => i > Radio!Count(f)
BY DEF Radio!Onward, Stages, DrainState

-----------------------------------------------------------------------------
LEMMA RadioInitInv == ASSUME RadioConstants, Radio!Init PROVE RadioInv
<1>1. DrainTypes
    <2>1. drain \in [Drainers -> DrainState] /\ <<>> \in Seq(Frames)
        BY IdleIs, EmptySeq DEF Radio!Init
    <2> QED BY <2>1 DEF Radio!Init, DrainTypes
<1>2. Spending = {} /\ \A d \in Drainers : ~Radio!Draining(d)
    BY IdleIs DEF Radio!Init, Spending, Radio!Draining
<1>3. Cardinality(Drainers) \in Nat /\ Cardinality(Drainers) # 0 /\ Cardinality({}) = 0
    BY FS_CardinalityType, FS_EmptySet DEF RadioConstants
<1>4. SpendingBounded
    BY <1>2, <1>3 DEF Radio!Init, SpendingBounded, RadioConstants
<1>5. InTurns
    BY <1>2 DEF InTurns, Radio!LeavesOnlyWritten, Radio!Init
<1> QED BY <1>1, <1>4, <1>5 DEF RadioInv

-----------------------------------------------------------------------------
(* What a drain does, as far as the proof looks.                             *)
LEMMA DrainMoves ==
    ASSUME RadioConstants, RadioInv, NEW d \in Drainers, NEW o,
           o \in DrainState,
           drain' = [drain EXCEPT ![d] = o]
    PROVE  /\ drain' \in [Drainers -> DrainState]
           /\ drain'[d] = o /\ \A e \in Drainers \ {d} : drain'[e] = drain[e]
           /\ IsFiniteSet(Spending) /\ Cardinality(Spending) \in Nat
           /\ IsFiniteSet(Spending') /\ Cardinality(Spending') \in Nat
           /\ Cardinality(Spending') <= Cardinality(Drainers)
           /\ Cardinality(Drainers) \in Nat
           /\ o.at # "consume" => Spending' = Spending \ {d}
           /\ o.at # "consume" => Cardinality(Spending')
                = IF d \in Spending THEN Cardinality(Spending) - 1 ELSE Cardinality(Spending)
<1>1. /\ drain' \in [Drainers -> DrainState]
      /\ drain'[d] = o /\ \A e \in Drainers \ {d} : drain'[e] = drain[e]
    BY DEF RadioInv, DrainTypes
<1>2. Spending \in SUBSET Drainers /\ Spending' \in SUBSET Drainers /\ IsFiniteSet(Drainers)
    BY DEF Spending, RadioConstants
<1>3. /\ IsFiniteSet(Spending) /\ IsFiniteSet(Spending') /\ Cardinality(Drainers) \in Nat
      /\ Cardinality(Spending) \in Nat /\ Cardinality(Spending') \in Nat
      /\ Cardinality(Spending') <= Cardinality(Drainers)
    BY <1>2, FS_Subset, FS_CardinalityType
<1>4. ASSUME o.at # "consume" PROVE Spending' = Spending \ {d}
    BY <1>1, <1>4 DEF Spending
<1>5. ASSUME o.at # "consume"
      PROVE  Cardinality(Spending')
               = IF d \in Spending THEN Cardinality(Spending) - 1 ELSE Cardinality(Spending)
    BY <1>3, <1>4, <1>5, FS_RemoveElement
<1> QED BY <1>1, <1>3, <1>4, <1>5

\* Fewer drains are about to spend, and no airtime was used.
LEMMA LessSpending ==
    ASSUME RadioConstants, RadioInv, NEW d \in Drainers, NEW o,
           o \in DrainState,
           drain' = [drain EXCEPT ![d] = o], o.at # "consume", used' = used
    PROVE  SpendingBounded'
<1>1. /\ Cardinality(Spending) \in Nat /\ Cardinality(Spending') \in Nat
      /\ IsFiniteSet(Spending) /\ Cardinality(Drainers) \in Nat
      /\ Spending' \subseteq Spending
    BY DrainMoves
<1>1a. Cardinality(Spending') <= Cardinality(Spending)
    BY <1>1, FS_Subset
<1>2. Budget \in Nat /\ used \in Nat
    BY DEF RadioConstants, RadioInv, DrainTypes
<1> QED BY <1>1, <1>1a, <1>2 DEF RadioInv, SpendingBounded

\* The drain d goes on at the head of the outbox, which nobody else touches.
LEMMA TurnsGoOn ==
    ASSUME RadioConstants, RadioInv, InTurns, ~overlapped, NEW d \in Drainers, NEW o,
           o \in DrainState,
           drain' = [drain EXCEPT ![d] = o],
           \A e \in Drainers \ {d} : ~Radio!Draining(e),
           UNCHANGED <<kind, outbox, accepted>>, written \subseteq written',
           o.at # "idle" => AtHead(d)'
    PROVE  InTurns'
<1>1. drain'[d] = o /\ \A e \in Drainers \ {d} : drain'[e] = drain[e]
    BY DrainMoves
<1>2. \A e \in Drainers : Radio!Draining(e)' => e = d /\ o.at # "idle"
    BY <1>1 DEF Radio!Draining
<1>3. Radio!LeavesOnlyWritten'
    BY DEF InTurns, Radio!LeavesOnlyWritten, Radio!Segments, Radio!Count
<1> QED BY <1>2, <1>3 DEF InTurns

LEMMA Others ==
    ASSUME InTurns, NEW d \in Drainers, Radio!Draining(d)
    PROVE  AtHead(d) /\ \A e \in Drainers \ {d} : ~Radio!Draining(e)
BY DEF InTurns

-----------------------------------------------------------------------------
LEMMA ReadHeadInv ==
    ASSUME RadioConstants, RadioInv, NEW d \in Drainers, Radio!ReadHead(d)
    PROVE  RadioInv'
<1>1. PICK f \in Frames : f = Head(outbox) /\ outbox # <<>>
    BY HeadTailProperties DEF Radio!ReadHead, RadioInv, DrainTypes
<1>2. PICK o : o = Radio!Onward(f, 1)
    OBVIOUS
<1>3. /\ o \in DrainState
      /\ o.at \in {"pop", "budget", "write"} /\ o.frame = f /\ o.next = 1
      /\ o.at = "pop" => 1 > Radio!Count(f)
    BY <1>2, OnwardIs DEF RadioInv
<1>4. /\ drain' = [drain EXCEPT ![d] = o] /\ ~Radio!Draining(d)
      /\ UNCHANGED <<kind, outbox, accepted, written, used>>
      /\ overlapped' \in BOOLEAN
      /\ ~overlapped' => ~overlapped /\ \A e \in Drainers \ {d} : ~Radio!Draining(e)
    BY <1>1, <1>2 DEF Radio!ReadHead, RadioInv, DrainTypes
<1>5. DrainTypes'
    BY <1>3, <1>4, DrainMoves DEF RadioInv, DrainTypes
<1>6. SpendingBounded'
    BY <1>3, <1>4, LessSpending
<1>7. ASSUME ~overlapped' PROVE InTurns'
    <2>1. AtHead(d)'
        <3>1. drain'[d] = o
            BY <1>3, <1>4, DrainMoves
        <3>2. Radio!Count(f) \in Nat /\ Radio!Count(f)' = Radio!Count(f)
            BY <1>4, CountIs DEF RadioInv, Radio!Count
        <3>3. \A i \in 1..Radio!Count(f) : ~(i < 1)
            BY <3>2
        <3>4. outbox' # <<>> /\ Head(outbox') = f
            BY <1>1, <1>4
        <3>5. drain'[d].frame = f /\ drain'[d].next = 1 /\ drain'[d].at = o.at
            BY <1>3, <3>1
        <3>6. o.at = "pop" => 1 > Radio!Count(f)'
            BY <1>3, <3>2
        <3> QED BY <1>1, <3>2, <3>3, <3>4, <3>5, <3>6 DEF AtHead
    <2> QED BY <1>3, <1>4, <1>7, <2>1, TurnsGoOn DEF RadioInv
<1> QED BY <1>5, <1>6, <1>7 DEF RadioInv

\* A drain that gives up for now: no airtime left, or the port raised.
LEMMA GiveUpInv ==
    ASSUME RadioConstants, RadioInv, NEW d \in Drainers,
           Radio!OutOfAirtime(d) \/ Radio!WriteFails(d)
    PROVE  RadioInv'
<1>1. /\ drain' = [drain EXCEPT ![d] = Radio!Idle] /\ Radio!Draining(d)
      /\ UNCHANGED <<kind, outbox, accepted, written, used, overlapped>>
    BY DEF Radio!OutOfAirtime, Radio!WriteFails, Radio!Draining
<1>2. DrainTypes'
    BY <1>1, IdleIs, DrainMoves DEF RadioInv, DrainTypes
<1>3. SpendingBounded'
    BY <1>1, IdleIs, LessSpending
<1>4. ASSUME ~overlapped' PROVE InTurns'
    BY <1>1, <1>4, IdleIs, Others, TurnsGoOn DEF RadioInv
<1> QED BY <1>2, <1>3, <1>4 DEF RadioInv

(* The check lets a drain through while used < Budget: then at most all the  *)
(* drains are about to spend one segment each.                               *)
LEMMA HasAirtimeInv ==
    ASSUME RadioConstants, RadioInv, NEW d \in Drainers, Radio!HasAirtime(d)
    PROVE  RadioInv'
<1>1. PICK o : o = [drain[d] EXCEPT !.at = "consume"]
    OBVIOUS
<1>2. /\ o \in DrainState
      /\ o.at = "consume" /\ o.frame = drain[d].frame /\ o.next = drain[d].next
    BY <1>1 DEF RadioInv, DrainTypes, Stages, DrainState
<1>3. /\ drain' = [drain EXCEPT ![d] = o] /\ Radio!Draining(d) /\ used < Budget
      /\ UNCHANGED <<kind, outbox, accepted, written, used, overlapped>>
    BY <1>1 DEF Radio!HasAirtime, Radio!Draining
<1>4. DrainTypes'
    BY <1>2, <1>3, DrainMoves DEF RadioInv, DrainTypes
<1>5. SpendingBounded'
    <2>1. /\ Cardinality(Spending') \in Nat /\ Cardinality(Drainers) \in Nat
          /\ Cardinality(Spending') <= Cardinality(Drainers)
        BY <1>2, <1>3, DrainMoves
    <2>2. Budget \in Nat /\ used \in Nat
        BY DEF RadioConstants, RadioInv, DrainTypes
    <2> QED BY <1>3, <2>1, <2>2 DEF SpendingBounded
<1>6. ASSUME ~overlapped' PROVE InTurns'
    <2>1. AtHead(d) /\ \A e \in Drainers \ {d} : ~Radio!Draining(e)
        BY <1>3, <1>6, Others DEF RadioInv
    <2>2. AtHead(d)'
        <3>1. drain'[d] = o
            BY <1>2, <1>3, DrainMoves
        <3> QED BY <1>2, <1>3, <2>1, <3>1 DEF AtHead, Radio!Count
    <2> QED BY <1>2, <1>3, <1>6, <2>1, <2>2, TurnsGoOn DEF RadioInv
<1> QED BY <1>4, <1>5, <1>6 DEF RadioInv

LEMMA ConsumeInv ==
    ASSUME RadioConstants, RadioInv, NEW d \in Drainers, Radio!Consume(d)
    PROVE  RadioInv'
<1>1. PICK o : o = [drain[d] EXCEPT !.at = "write"]
    OBVIOUS
<1>2. /\ o \in DrainState
      /\ o.at = "write" /\ o.frame = drain[d].frame /\ o.next = drain[d].next
    BY <1>1 DEF RadioInv, DrainTypes, Stages, DrainState
<1>3. /\ drain' = [drain EXCEPT ![d] = o] /\ Radio!Draining(d) /\ used' = used + 1
      /\ UNCHANGED <<kind, outbox, accepted, written, overlapped>> /\ d \in Spending
    BY <1>1 DEF Radio!Consume, Radio!Draining, Spending
<1>4. DrainTypes'
    BY <1>2, <1>3, DrainMoves DEF RadioInv, DrainTypes
<1>5. SpendingBounded'
    <2>1. /\ Cardinality(Spending) \in Nat /\ Cardinality(Drainers) \in Nat
          /\ Cardinality(Spending') = Cardinality(Spending) - 1 /\ Spending' \subseteq Spending
        BY <1>2, <1>3, DrainMoves
    <2>2. Budget \in Nat /\ used \in Nat
        BY DEF RadioConstants, RadioInv, DrainTypes
    <2> QED BY <1>3, <2>1, <2>2 DEF SpendingBounded, RadioInv
<1>6. ASSUME ~overlapped' PROVE InTurns'
    <2>1. AtHead(d) /\ \A e \in Drainers \ {d} : ~Radio!Draining(e)
        BY <1>3, <1>6, Others DEF RadioInv
    <2>2. AtHead(d)'
        <3>1. drain'[d] = o
            BY <1>2, <1>3, DrainMoves
        <3> QED BY <1>2, <1>3, <2>1, <3>1 DEF AtHead, Radio!Count
    <2> QED BY <1>2, <1>3, <1>6, <2>1, <2>2, TurnsGoOn DEF RadioInv
<1> QED BY <1>4, <1>5, <1>6 DEF RadioInv

LEMMA WriteInv ==
    ASSUME RadioConstants, RadioInv, NEW d \in Drainers, Radio!Write(d)
    PROVE  RadioInv'
<1>1. PICK f \in Frames \cup {Radio!Idle.frame}, i \in Nat : f = drain[d].frame /\ i = drain[d].next
    BY DEF RadioInv, DrainTypes, DrainState
<1>2. PICK o : o = Radio!Onward(f, i + 1)
    OBVIOUS
<1>3. /\ o \in DrainState
      /\ o.at \in {"pop", "budget", "write"} /\ o.frame = f /\ o.next = i + 1
      /\ o.at = "pop" => i + 1 > Radio!Count(f)
    <2>1. DrainTypes /\ i + 1 \in Nat
        BY DEF RadioInv
    <2> QED BY <1>2, <2>1, OnwardIs
<1>4. /\ drain' = [drain EXCEPT ![d] = o] /\ Radio!Draining(d)
      /\ written' = written \cup {<<f, i>>}
      /\ UNCHANGED <<kind, outbox, accepted, used, overlapped>>
    BY <1>1, <1>2 DEF Radio!Write, Radio!Draining
<1>5. DrainTypes'
    BY <1>3, <1>4, DrainMoves DEF RadioInv, DrainTypes
<1>6. SpendingBounded'
    BY <1>3, <1>4, LessSpending
<1>7. ASSUME ~overlapped' PROVE InTurns'
    <2>1. AtHead(d) /\ \A e \in Drainers \ {d} : ~Radio!Draining(e)
        BY <1>4, <1>7, Others DEF RadioInv
    <2>2. AtHead(d)'
        <3>1. drain'[d] = o
            BY <1>3, <1>4, DrainMoves
        <3>2. drain'[d].frame = f /\ drain'[d].next = i + 1 /\ drain'[d].at = o.at
            BY <1>3, <3>1
        <3>3. /\ f \in Frames /\ f = Head(outbox) /\ outbox # <<>>
              /\ \A j \in 1..Radio!Count(f) : j < i => <<f, j>> \in written
            BY <1>1, <2>1 DEF AtHead
        <3>4. Radio!Count(f)' = Radio!Count(f) /\ Radio!Count(f) \in Nat
            BY <1>4, <3>3, CountIs DEF RadioInv, Radio!Count
        <3>5. \A j \in 1..Radio!Count(f) : j < i + 1 => <<f, j>> \in written'
            BY <1>4, <3>3, <3>4
        <3>6. o.at = "pop" => i + 1 > Radio!Count(f)'
            BY <1>3, <3>4
        <3> QED BY <1>4, <3>2, <3>3, <3>4, <3>5, <3>6 DEF AtHead
    <2> QED BY <1>3, <1>4, <1>7, <2>1, <2>2, TurnsGoOn DEF RadioInv
<1> QED BY <1>5, <1>6, <1>7 DEF RadioInv

LEMMA HeadOrTail ==
    ASSUME NEW s \in Seq(Frames), s # <<>>, NEW f \in Radio!ToSet(s)
    PROVE  f = Head(s) \/ f \in Radio!ToSet(Tail(s))
<1>1. PICK i \in 1..Len(s) : f = s[i]
    BY DEF Radio!ToSet
<1>2. CASE i = 1
    BY <1>1, <1>2
<1>3. CASE i # 1
    <2>1. /\ Tail(s) \in Seq(Frames) /\ Len(Tail(s)) = Len(s) - 1
          /\ \A j \in 1..Len(Tail(s)) : Tail(s)[j] = s[j + 1]
        BY HeadTailProperties
    <2>2. i - 1 \in 1..Len(Tail(s)) /\ Tail(s)[i - 1] = f
        BY <1>1, <1>3, <2>1
    <2>3. i - 1 \in DOMAIN Tail(s)
        BY <2>1, <2>2
    <2> QED BY <2>2, <2>3 DEF Radio!ToSet
<1> QED BY <1>2, <1>3

(* The head that is popped is the one this drain has written.                *)
LEMMA PopInv ==
    ASSUME RadioConstants, RadioInv, NEW d \in Drainers, Radio!Pop(d)
    PROVE  RadioInv'
<1>1. /\ drain' = [drain EXCEPT ![d] = Radio!Idle] /\ Radio!Draining(d) /\ drain[d].at = "pop"
      /\ UNCHANGED <<kind, accepted, written, used, overlapped>>
    BY DEF Radio!Pop, Radio!Draining
<1>2. outbox' \in Seq(Frames)
    BY EmptySeq, HeadTailProperties DEF Radio!Pop, RadioInv, DrainTypes
<1>3. DrainTypes'
    BY <1>1, <1>2, IdleIs, DrainMoves DEF RadioInv, DrainTypes
<1>4. SpendingBounded'
    BY <1>1, IdleIs, LessSpending
<1>5. ASSUME ~overlapped' PROVE InTurns'
    <2>1. PICK f \in Frames :
              /\ f = drain[d].frame /\ f = Head(outbox) /\ outbox # <<>>
              /\ \A i \in 1..Radio!Count(f) : i < drain[d].next => <<f, i>> \in written
              /\ drain[d].next > Radio!Count(f)
        BY <1>1, <1>5, Others DEF RadioInv, AtHead
    <2>2. Radio!Segments(f) \subseteq written
        <3>1. drain[d].next \in Nat /\ Radio!Count(f) \in Nat
            BY CountIs DEF RadioInv, DrainTypes, DrainState
        <3>2. \A i \in 1..Radio!Count(f) : i < drain[d].next
            BY <2>1, <3>1
        <3> QED BY <2>1, <3>2 DEF Radio!Segments
    <2>3. outbox' = Tail(outbox)
        BY <2>1 DEF Radio!Pop
    <2>4. Radio!LeavesOnlyWritten'
        <3>1. SUFFICES ASSUME NEW g \in accepted
                       PROVE  g \in Radio!ToSet(outbox') \/ Radio!Segments(g) \subseteq written
            BY <1>1 DEF Radio!LeavesOnlyWritten, Radio!Segments, Radio!Count, Radio!ToSet
        <3>2. g \in Radio!ToSet(outbox) \/ Radio!Segments(g) \subseteq written
            BY <1>1, <1>5 DEF RadioInv, InTurns, Radio!LeavesOnlyWritten
        <3>3. outbox \in Seq(Frames) /\ outbox # <<>>
            BY <2>1 DEF RadioInv, DrainTypes
        <3> QED BY <2>1, <2>2, <2>3, <3>2, <3>3, HeadOrTail
    <2>5. \A e \in Drainers : ~Radio!Draining(e)'
        <3>1. \A e \in Drainers \ {d} : ~Radio!Draining(e)
            BY <1>1, <1>5, Others DEF RadioInv
        <3>2. drain'[d].at = "idle" /\ \A e \in Drainers \ {d} : drain'[e] = drain[e]
            BY <1>1, IdleIs, DrainMoves
        <3> QED BY <3>1, <3>2 DEF Radio!Draining
    <2> QED BY <2>4, <2>5 DEF InTurns
<1> QED BY <1>3, <1>4, <1>5 DEF RadioInv

-----------------------------------------------------------------------------
LEMMA SendFrameInv ==
    ASSUME RadioConstants, RadioInv, NEW f \in Frames, Radio!SendFrame(f)
    PROVE  RadioInv'
<1>1. /\ outbox' = Append(outbox, f) /\ accepted' = accepted \cup {f}
      /\ UNCHANGED <<kind, drain, used, written, overlapped>>
      /\ outbox \in Seq(Frames)
    BY DEF Radio!SendFrame, RadioInv, DrainTypes
<1>2. /\ outbox' \in Seq(Frames) /\ outbox' # <<>>
      /\ outbox # <<>> => Head(outbox') = Head(outbox)
      /\ \A i \in 1..Len(outbox) : i \in 1..Len(outbox') /\ outbox'[i] = outbox[i]
      /\ Len(outbox') \in 1..Len(outbox') /\ outbox'[Len(outbox')] = f
    BY <1>1, AppendProperties
<1>3. DrainTypes'
    BY <1>1, <1>2 DEF RadioInv, DrainTypes
<1>4. SpendingBounded'
    BY <1>1 DEF RadioInv, SpendingBounded, Spending
<1>5. ASSUME ~overlapped' PROVE InTurns'
    <2>1. InTurns /\ ~overlapped
        BY <1>1, <1>5 DEF RadioInv
    <2>2. \A e \in Drainers : AtHead(e) => AtHead(e)'
        BY <1>1, <1>2 DEF AtHead, Radio!Count
    <2>3. Radio!ToSet(outbox) \cup {f} \subseteq Radio!ToSet(outbox')
        BY <1>1, <1>2 DEF Radio!ToSet
    <2>4. Radio!LeavesOnlyWritten'
        BY <1>1, <2>1, <2>3
        DEF InTurns, Radio!LeavesOnlyWritten, Radio!Segments, Radio!Count, Radio!ToSet
    <2> QED BY <1>1, <2>1, <2>2, <2>4 DEF InTurns, Radio!Draining
<1> QED BY <1>3, <1>4, <1>5 DEF RadioInv

LEMMA WindowEndsInv ==
    ASSUME RadioConstants, RadioInv, Radio!WindowEnds
    PROVE  RadioInv'
<1>1. used' = 0 /\ UNCHANGED <<kind, drain, outbox, accepted, written, overlapped>>
    BY DEF Radio!WindowEnds
<1>2. /\ Cardinality(Spending) \in Nat /\ Cardinality(Drainers) \in Nat \ {0}
      /\ Cardinality(Spending) <= Cardinality(Drainers)
      /\ Spending = {} => Cardinality(Spending) = 0
    <2>1. Spending \in SUBSET Drainers /\ IsFiniteSet(Drainers) /\ Drainers # {}
        BY DEF Spending, RadioConstants
    <2> QED BY <2>1, FS_Subset, FS_CardinalityType, FS_EmptySet
<1>3. SpendingBounded'
    <2>1. Spending' = Spending
        BY <1>1 DEF Spending
    <2> QED BY <1>1, <1>2, <2>1 DEF RadioInv, SpendingBounded, RadioConstants
<1> QED
    BY <1>1, <1>3
    DEF RadioInv, DrainTypes, InTurns, AtHead, Radio!Draining, Radio!LeavesOnlyWritten,
        Radio!Segments, Radio!Count

\* The air, the receiver and the faults say nothing of the sender.
LEMMA SenderStays ==
    ASSUME RadioInv,
           UNCHANGED <<kind, drain, used, outbox, accepted, written, overlapped>>
    PROVE  RadioInv'
BY DEF RadioInv, DrainTypes, SpendingBounded, Spending, InTurns, AtHead, Radio!Draining,
       Radio!LeavesOnlyWritten, Radio!Segments, Radio!Count

LEMMA RadioNextInv ==
    ASSUME RadioConstants, RadioInv, [Radio!Next]_(Radio!vars)
    PROVE  RadioInv'
<1>1. ASSUME NEW f \in Frames, Radio!SendFrame(f) PROVE RadioInv'
    BY <1>1, SendFrameInv
<1>2. ASSUME NEW f \in Frames, Radio!Expire(f) PROVE RadioInv'
    BY <1>2, SenderStays DEF Radio!Expire, Radio!sender
<1>3. ASSUME NEW d \in Drainers, Radio!Drain(d) \/ Radio!WriteFails(d) PROVE RadioInv'
    BY <1>3, ReadHeadInv, GiveUpInv, HasAirtimeInv, ConsumeInv, WriteInv, PopInv DEF Radio!Drain
<1>4. CASE Radio!Pump
    BY <1>4, SenderStays DEF Radio!Pump, Radio!HandWhole, Radio!AddSegment, Radio!sender
<1>5. CASE Radio!WindowEnds
    BY <1>5, WindowEndsInv
<1>6. CASE Radio!Stop \/ Radio!Lose
    BY <1>6, SenderStays DEF Radio!Stop, Radio!Lose, Radio!sender
<1>7. CASE UNCHANGED Radio!vars
    BY <1>7, SenderStays DEF Radio!vars, Radio!sender
<1> QED BY <1>1, <1>2, <1>3, <1>4, <1>5, <1>6, <1>7 DEF Radio!Next

LEMMA RadioStaysInv == ASSUME RadioConstants PROVE Radio!Spec => []RadioInv
<1>1. Radio!Init => RadioInv
    BY RadioInitInv
<1>2. RadioInv /\ [Radio!Next]_(Radio!vars) => RadioInv'
    BY RadioNextInv
<1> QED BY <1>1, <1>2, PTL DEF Radio!Spec

(* Any number of threads drain LoraTransport._outbox or BluetoothTransport's *)
(* without a lock around the whole of _drain_outbox.  While their drains     *)
(* have not overlapped, no frame leaves the outbox before its last segment   *)
(* was written: whatever fails, runs out of airtime or is closed meanwhile.  *)
THEOREM LeavesWhenWritten ==
    ASSUME RadioConstants PROVE Radio!Spec => []LeavesOnlyWritten
<1>1. RadioInv => LeavesOnlyWritten
    BY DEF LeavesOnlyWritten, RadioInv, InTurns, Radio!LeavesOnlyWritten
<1> QED BY <1>1, RadioStaysInv, PTL

(* The duty-cycle check and its update are two steps of a drain.  However    *)
(* many drains overlap, the window is exceeded by at most one segment for    *)
(* each of them but the first.                                               *)
THEOREM AirtimeStaysBounded ==
    ASSUME RadioConstants PROVE Radio!Spec => []AirtimeIsBounded
<1>1. RadioInv => AirtimeIsBounded
    <2>1. SUFFICES ASSUME RadioInv PROVE Radio!AirtimeIsBounded
        BY DEF AirtimeIsBounded
    <2>2. Spending \in SUBSET Drainers /\ IsFiniteSet(Drainers)
        BY DEF Spending, RadioConstants
    <2>3. Cardinality(Spending) \in Nat /\ Cardinality(Drainers) \in Nat
        BY <2>2, FS_Subset, FS_CardinalityType
    <2>4. used \in Nat /\ Budget \in Nat
          /\ used + Cardinality(Spending) <= Budget + Cardinality(Drainers) - 1
        BY <2>1 DEF RadioInv, SpendingBounded, DrainTypes, RadioConstants
    <2>5. Radio!Cardinality(Drainers) = Cardinality(Drainers)
        BY DEF Cardinality, Radio!Cardinality
    <2> QED BY <2>3, <2>4, <2>5 DEF Radio!AirtimeIsBounded
<1> QED BY <1>1, RadioStaysInv, PTL

-----------------------------------------------------------------------------
(* The assembler's order, without the frames that are gone: what the         *)
(* recursion in Without gives is shown with the least place where it fails.  *)
LEMMA LeastNumber ==
    ASSUME NEW T \in SUBSET Nat, T # {}
    PROVE  \E n \in T : \A m \in T : n <= m
<1> DEFINE R == OpToRel(<, Nat)
<1>1. IsWellFoundedOn(R, Nat)
    BY NatLessThanWellFounded
<1>2. \E n \in T : \A m \in T : ~(<<m, n>> \in R)
    <2> HIDE DEF R
    <2> QED BY <1>1, WFMin
<1>3. \A m, n \in Nat : <<m, n>> \in R <=> m < n
    BY DEF OpToRel
<1> HIDE DEF R
<1>4. PICK n \in T : \A m \in T : ~(<<m, n>> \in R)
    BY <1>2
<1>5. ASSUME NEW m \in T PROVE n <= m
    <2>1. ~(m < n) /\ m \in Nat /\ n \in Nat
        BY <1>3, <1>4
    <2> QED BY <2>1
<1> QED BY <1>5

\* What is left of the first i keys.
Rest(keys, left, f, i) ==
    IF i = 0 THEN <<>>
    ELSE IF keys[i] \in left THEN f[i - 1]
    ELSE Append(f[i - 1], keys[i])

LEMMA RestExists ==
    ASSUME NEW keys, Len(keys) \in Nat, NEW left
    PROVE  \E f : f = [i \in 0..Len(keys) |-> Rest(keys, left, f, i)]
<1> DEFINE Reached(n) == \E f : f = [i \in 0..n |-> Rest(keys, left, f, i)]
           T == {n \in 0..Len(keys) : ~Reached(n)}
<1>1. SUFFICES ASSUME T # {} PROVE FALSE
    OBVIOUS
<1>2. PICK n \in T : \A m \in T : n <= m
    <2>1. T \in SUBSET Nat
        OBVIOUS
    <2> HIDE DEF T
    <2> QED BY <1>1, <2>1, LeastNumber
<1>3. CASE n = 0
    <2>1. PICK f : f = [i \in 0..0 |-> <<>>]
        OBVIOUS
    <2>2. \A i \in 0..0 : Rest(keys, left, f, i) = <<>>
        BY DEF Rest
    <2>3. f = [i \in 0..0 |-> Rest(keys, left, f, i)]
        BY <2>1, <2>2
    <2> QED BY <1>2, <1>3, <2>3
<1>4. CASE n # 0
    <2>1. n - 1 \in 0..Len(keys) /\ ~(n <= n - 1)
        BY <1>2, <1>4
    <2>2. PICK f : f = [i \in 0..n - 1 |-> Rest(keys, left, f, i)]
        BY <1>2, <2>1
    <2>3. PICK g : g = [i \in 0..n |-> IF i = n THEN Rest(keys, left, f, n) ELSE f[i]]
        OBVIOUS
    <2>4. ASSUME NEW i \in 0..n - 1
          PROVE  g[i] = f[i] /\ f[i] = Rest(keys, left, f, i) /\ i \in 0..n
        <3>1. n \in Nat /\ i \in 0..n /\ i # n
            BY <1>2, <2>4
        <3>2. g[i] = f[i]
            BY <2>3, <3>1
        <3>3. f[i] = Rest(keys, left, f, i)
            <4> HIDE DEF T
            <4> QED BY <2>2, <2>4
        <3> QED BY <3>1, <3>2, <3>3
    <2>5. ASSUME NEW i \in 0..n PROVE g[i] = Rest(keys, left, g, i)
        <3>0. n \in Nat /\ i \in Nat
            BY <1>2, <2>5
        <3>1. g[i] = Rest(keys, left, f, i)
            <4>1. CASE i = n
                BY <2>3, <2>5, <4>1
            <4>2. CASE i # n
                <5>1. i \in 0..n - 1
                    BY <3>0, <2>5, <4>2
                <5> QED BY <5>1, <2>4
            <4> QED BY <4>1, <4>2
        <3>2. i # 0 => g[i - 1] = f[i - 1]
            <4>1. i # 0 => i - 1 \in 0..n - 1
                BY <3>0, <2>5
            <4> QED BY <4>1, <2>4
        <3> QED BY <3>1, <3>2 DEF Rest
    <2>6. g = [i \in 0..n |-> Rest(keys, left, g, i)]
        BY <2>3, <2>5
    <2> QED BY <1>2, <2>6
<1> QED BY <1>3, <1>4

LEMMA WithoutIs ==
    ASSUME NEW keys \in Seq(Frames), NEW left
    PROVE  /\ Radio!Without(keys, left) \in Seq(Frames)
           /\ Radio!ToSet(Radio!Without(keys, left)) \subseteq Radio!ToSet(keys) \ left
<1> DEFINE Removes(f) == f = [i \in 0..Len(keys) |-> Rest(keys, left, f, i)]
           kept == Radio!ToSet(keys) \ left
<1>1. Len(keys) \in Nat
    BY LenProperties
<1>2. \E f : Removes(f)
    BY <1>1, RestExists
<1>3. Radio!Without(keys, left) = (CHOOSE f : Removes(f))[Len(keys)]
    BY DEF Radio!Without, Rest
<1>4. PICK f : f = CHOOSE g : Removes(g)
    OBVIOUS
<1>5. \A i \in 0..Len(keys) : f[i] = Rest(keys, left, f, i)
    BY <1>2, <1>4
<1>6. \A i \in 1..Len(keys) : keys[i] \in Radio!ToSet(keys)
    BY DEF Radio!ToSet
<1>7. \A i \in 0..Len(keys) : f[i] \in Seq(kept)
    <2> DEFINE T == {i \in 0..Len(keys) : f[i] \notin Seq(kept)}
    <2>1. SUFFICES ASSUME T # {} PROVE FALSE
        OBVIOUS
    <2>2. PICK i \in T : \A j \in T : i <= j
        <3>1. T \in SUBSET Nat
            OBVIOUS
        <3> HIDE DEF T
        <3> QED BY <2>1, <3>1, LeastNumber
    <2>3. f[i] = Rest(keys, left, f, i)
        BY <1>5, <2>2
    <2>4. CASE i = 0
        <3>1. f[i] = <<>>
            BY <2>3, <2>4 DEF Rest
        <3> QED BY <2>2, <3>1, EmptySeq
    <2>5. CASE i # 0
        <3>1. i \in 1..Len(keys) /\ i - 1 \in 0..Len(keys) /\ ~(i <= i - 1)
            BY <1>1, <2>2, <2>5
        <3>2. f[i - 1] \in Seq(kept)
            BY <2>2, <3>1
        <3>3. CASE keys[i] \in left
            BY <2>2, <2>3, <2>5, <3>2, <3>3 DEF Rest
        <3>4. CASE keys[i] \notin left
            <4>1. keys[i] \in kept
                BY <1>6, <3>1, <3>4
            <4>2. f[i] = Append(f[i - 1], keys[i])
                BY <2>3, <2>5, <3>4 DEF Rest
            <4>3. Append(f[i - 1], keys[i]) \in Seq(kept)
                <5> HIDE DEF kept
                <5> QED BY <3>2, <4>1, AppendProperties
            <4> QED BY <2>2, <4>2, <4>3
        <3> QED BY <3>3, <3>4
    <2> QED BY <2>4, <2>5
<1>8. Radio!Without(keys, left) \in Seq(kept)
    BY <1>1, <1>3, <1>4, <1>7
<1>9. kept \subseteq Frames
    BY DEF Radio!ToSet
<1> QED
    <2>1. Radio!Without(keys, left) \in Seq(Frames)
        BY <1>8, <1>9
    <2>2. Radio!ToSet(Radio!Without(keys, left)) \subseteq kept
        BY <1>8, ElementOfSeq DEF Radio!ToSet
    <2> QED BY <2>1, <2>2

-----------------------------------------------------------------------------
(* Why NoGhostEntries is not inductive: a frame's entry comes back when one  *)
(* of its segments arrives after it was handed on.  There is none, because a *)
(* frame's last segment is written once, and nothing of it after.            *)
Last(f) == <<f, Radio!Count(f)>>
Through(f) == Last(f) \in written

\* A frame waits once, and one that is through is about to be popped.
WaitingFits ==
    /\ \A i, j \in 1..Len(outbox) : outbox[i] = outbox[j] => i = j
    /\ \A i \in 1..Len(outbox) : outbox[i] \in accepted
    /\ \A f \in Frames : Through(f) => f \in accepted
    /\ \A i \in 1..Len(outbox) :
          Through(outbox[i]) => i = 1 /\ \E d \in Drainers : drain[d].at = "pop"
    /\ \A d \in Drainers : drain[d].at \in {"budget", "consume", "write"} =>
          /\ ~Through(drain[d].frame)
          /\ drain[d].next \in 1..Radio!Count(drain[d].frame)

\* No segment of a frame is behind its last one on the air.
AirFits ==
    /\ air \in Seq(Frames \X Nat)
    /\ \A i \in 1..Len(air) : air[i] \in written /\ air[i][2] \in 1..Radio!Count(air[i][1])
    /\ \A i, j \in 1..Len(air) :
          i < j /\ air[i][1] = air[j][1] => air[i] # Last(air[i][1])

\* What the other end has the last segment of is through, and off the air.
Arrived(f) == f \in handed \/ Radio!Count(f) \in pending[f]
EntriesFit ==
    /\ order \in Seq(Frames)
    /\ pending \in [Frames -> SUBSET Nat]
    /\ handed \subseteq Frames
    /\ \A f \in Frames : Arrived(f) =>
          Through(f) /\ \A i \in 1..Len(air) : air[i][1] # f
    /\ \A f \in Radio!ToSet(order) : Radio!Count(f) > 1
    /\ Radio!NoGhostEntries

Apart == WaitingFits /\ AirFits /\ EntriesFit
GhostInv == ~overlapped => Apart

LEMMA GhostInitInv == ASSUME RadioConstants, Radio!Init PROVE GhostInv
<1>1. /\ Len(outbox) = 0 /\ Len(air) = 0 /\ written = {} /\ handed = {} /\ order = <<>>
      /\ outbox = <<>> /\ air = <<>>
      /\ pending = [f \in Frames |-> {}] /\ \A d \in Drainers : drain[d].at = "idle"
    BY IdleIs, EmptySeq DEF Radio!Init
<1>2. 1..Len(outbox) = {} /\ 1..Len(air) = {} /\ Radio!ToSet(order) = {}
    <2>1. Len(order) = 0 /\ 1..0 = {}
        BY <1>1
    <2> QED BY <1>1, <2>1 DEF Radio!ToSet
<1>3. WaitingFits
    BY <1>1, <1>2 DEF WaitingFits, Through
<1>4. AirFits
    BY <1>1, <1>2, EmptySeq DEF AirFits
<1>5. EntriesFit
    BY <1>1, <1>2, EmptySeq DEF EntriesFit, Arrived, Radio!NoGhostEntries
<1> QED BY <1>3, <1>4, <1>5 DEF GhostInv, Apart

-----------------------------------------------------------------------------
\* Steps that write nothing, take nothing off the queue and receive nothing.
LEMMA DrainTurn ==
    ASSUME RadioConstants, RadioInv, GhostInv, ~overlapped, NEW d \in Drainers, NEW o,
           o \in DrainState, drain' = [drain EXCEPT ![d] = o], drain[d].at # "pop",
           o.at \in {"budget", "consume", "write"} =>
               ~Through(o.frame) /\ o.next \in 1..Radio!Count(o.frame),
           UNCHANGED <<kind, outbox, accepted, written, air, order, pending, handed>>
    PROVE  Apart'
<1>1. drain'[d] = o /\ \A e \in Drainers \ {d} : drain'[e] = drain[e]
    BY DrainMoves
<1>2. \A f : Through(f)' = Through(f) /\ Radio!Count(f)' = Radio!Count(f) /\ Last(f)' = Last(f)
    BY DEF Through, Last, Radio!Count
<1>3. WaitingFits'
    <2>1. ASSUME NEW i \in 1..Len(outbox), Through(outbox[i])
          PROVE  i = 1 /\ \E e \in Drainers : drain'[e].at = "pop"
        <3>1. i = 1
            BY <2>1 DEF GhostInv, Apart, WaitingFits
        <3>2. PICK e \in Drainers : drain[e].at = "pop"
            BY <2>1 DEF GhostInv, Apart, WaitingFits
        <3> QED BY <1>1, <3>1, <3>2
    <2>2. ASSUME NEW e \in Drainers, drain'[e].at \in {"budget", "consume", "write"}
          PROVE  /\ ~Through(drain'[e].frame)
                 /\ drain'[e].next \in 1..Radio!Count(drain'[e].frame)
        BY <1>1, <2>2 DEF GhostInv, Apart, WaitingFits
    <2> QED BY <1>2, <2>1, <2>2 DEF GhostInv, Apart, WaitingFits
<1>4. AirFits'
    BY <1>2 DEF GhostInv, Apart, AirFits
<1>5. EntriesFit'
    <2>1. Radio!ToSet(order)' = Radio!ToSet(order)
        BY DEF Radio!ToSet
    <2>2. Radio!NoGhostEntries'
        BY <2>1 DEF GhostInv, Apart, EntriesFit, Radio!NoGhostEntries
    <2> QED BY <1>2, <2>1, <2>2 DEF GhostInv, Apart, EntriesFit, Arrived
<1> QED BY <1>3, <1>4, <1>5 DEF Apart

\* The drain that reads the head finds a frame that is not through.
LEMMA ReadHeadApart ==
    ASSUME RadioConstants, RadioInv, GhostInv, NEW d \in Drainers, Radio!ReadHead(d)
    PROVE  GhostInv'
<1>1. PICK f \in Frames : f = Head(outbox) /\ f = outbox[1] /\ outbox # <<>> /\ 1 \in 1..Len(outbox)
    <2>1. outbox \in Seq(Frames) /\ outbox # <<>>
        BY DEF Radio!ReadHead, RadioInv, DrainTypes
    <2>2. Len(outbox) \in Nat /\ Len(outbox) # 0
        BY <2>1, EmptySeq, LenProperties
    <2> QED BY <2>1, <2>2, HeadTailProperties
<1>2. PICK o : o = Radio!Onward(f, 1)
    OBVIOUS
<1>3. /\ o \in DrainState
      /\ o.at \in {"pop", "budget", "write"} /\ o.frame = f /\ o.next = 1
      /\ o.at = "pop" => 1 > Radio!Count(f)
    BY <1>2, OnwardIs DEF RadioInv
<1>4. /\ drain' = [drain EXCEPT ![d] = o] /\ ~Radio!Draining(d)
      /\ UNCHANGED <<kind, outbox, accepted, written, air, order, pending, handed>>
      /\ Radio!Count(f) > 0
      /\ ~overlapped' => ~overlapped /\ \A e \in Drainers \ {d} : ~Radio!Draining(e)
    BY <1>1, <1>2 DEF Radio!ReadHead, Radio!receiver
<1>5. SUFFICES ASSUME ~overlapped' PROVE Apart'
    BY DEF GhostInv
<1>6. \A e \in Drainers : drain[e].at = "idle"
    BY <1>4, <1>5 DEF Radio!Draining
<1>7. ~Through(f)
    BY <1>1, <1>4, <1>5, <1>6 DEF GhostInv, Apart, WaitingFits
<1>8. 1 \in 1..Radio!Count(f)
    BY <1>4, CountIs DEF RadioInv
<1> QED BY <1>3, <1>4, <1>5, <1>6, <1>7, <1>8, DrainTurn

LEMMA BudgetApart ==
    ASSUME RadioConstants, RadioInv, GhostInv, NEW d \in Drainers,
           \/ Radio!HasAirtime(d) \/ Radio!OutOfAirtime(d) \/ Radio!Consume(d)
           \/ Radio!WriteFails(d)
    PROVE  GhostInv'
<1>1. PICK o : /\ drain' = [drain EXCEPT ![d] = o]
               /\ \/ o = [drain[d] EXCEPT !.at = "consume"]
                  \/ o = [drain[d] EXCEPT !.at = "write"]
                  \/ o = Radio!Idle
    BY DEF Radio!HasAirtime, Radio!OutOfAirtime, Radio!Consume, Radio!WriteFails
<1>2. /\ drain[d].at \in {"budget", "consume", "write"}
      /\ UNCHANGED <<kind, outbox, accepted, written, air, order, pending, handed, overlapped>>
    BY DEF Radio!HasAirtime, Radio!OutOfAirtime, Radio!Consume, Radio!WriteFails,
           Radio!receiver
<1>3. drain[d] \in DrainState
    BY DEF RadioInv, DrainTypes
<1>4. /\ o \in DrainState
      /\ o.at # "idle" => o.frame = drain[d].frame /\ o.next = drain[d].next
    BY <1>1, <1>3, IdleIs DEF DrainState, Stages
<1>5. SUFFICES ASSUME ~overlapped PROVE Apart'
    BY <1>2 DEF GhostInv
<1>6. ~Through(drain[d].frame) /\ drain[d].next \in 1..Radio!Count(drain[d].frame)
    BY <1>2, <1>5 DEF GhostInv, Apart, WaitingFits
<1> QED BY <1>1, <1>2, <1>4, <1>5, <1>6, DrainTurn

LEMMA SendFrameApart ==
    ASSUME RadioConstants, RadioInv, GhostInv, NEW f \in Frames, Radio!SendFrame(f)
    PROVE  GhostInv'
<1>1. /\ outbox' = Append(outbox, f) /\ accepted' = accepted \cup {f} /\ f \notin accepted
      /\ UNCHANGED <<kind, drain, written, air, order, pending, handed, overlapped>>
      /\ outbox \in Seq(Frames)
    BY DEF Radio!SendFrame, Radio!receiver, RadioInv, DrainTypes
<1>2. PICK n \in Nat : n = Len(outbox)
    BY <1>1, LenProperties
<1>3. Len(outbox') = n + 1 /\ outbox'[n + 1] = f /\ \A i \in 1..n : outbox'[i] = outbox[i]
    BY <1>1, <1>2, AppendProperties
<1>4. SUFFICES ASSUME ~overlapped PROVE Apart'
    BY <1>1 DEF GhostInv
<1>5. WaitingFits /\ AirFits /\ EntriesFit
    BY <1>4 DEF GhostInv, Apart
<1>6. \A g : Through(g)' = Through(g) /\ Radio!Count(g)' = Radio!Count(g) /\ Last(g)' = Last(g)
    BY <1>1 DEF Through, Last, Radio!Count
<1>7. ~Through(f) /\ \A i \in 1..n : outbox[i] # f
    BY <1>1, <1>2, <1>5 DEF WaitingFits
<1>8. \A i \in 1..n + 1 : i \in 1..n \/ i = n + 1
    OBVIOUS
<1>9. WaitingFits'
    <2>1. ASSUME NEW i \in 1..n + 1, NEW j \in 1..n + 1, outbox'[i] = outbox'[j] PROVE i = j
        BY <1>2, <1>3, <1>5, <1>7, <1>8, <2>1 DEF WaitingFits
    <2>2. ASSUME NEW i \in 1..n + 1
          PROVE  /\ outbox'[i] \in accepted'
                 /\ Through(outbox'[i]) => i = 1 /\ \E d \in Drainers : drain[d].at = "pop"
        BY <1>1, <1>2, <1>3, <1>5, <1>7, <1>8 DEF WaitingFits
    <2> QED BY <1>1, <1>3, <1>5, <1>6, <2>1, <2>2 DEF WaitingFits
<1>10. AirFits'
    BY <1>1, <1>5, <1>6 DEF AirFits
<1>11. EntriesFit'
    <2>1. Radio!ToSet(order)' = Radio!ToSet(order)
        BY <1>1 DEF Radio!ToSet
    <2>2. Radio!NoGhostEntries'
        BY <1>1, <1>5, <2>1 DEF EntriesFit, Radio!NoGhostEntries
    <2> QED BY <1>1, <1>5, <1>6, <2>1, <2>2 DEF EntriesFit, Arrived
<1> QED BY <1>9, <1>10, <1>11 DEF Apart

\* A frame popped is the only one in the outbox that may be through.
LEMMA PopApart ==
    ASSUME RadioConstants, RadioInv, GhostInv, NEW d \in Drainers, Radio!Pop(d)
    PROVE  GhostInv'
<1>1. /\ drain' = [drain EXCEPT ![d] = Radio!Idle] /\ drain[d].at = "pop" /\ Radio!Draining(d)
      /\ UNCHANGED <<kind, accepted, written, air, order, pending, handed, overlapped>>
    BY DEF Radio!Pop, Radio!receiver, Radio!Draining
<1>2. SUFFICES ASSUME ~overlapped PROVE Apart'
    BY <1>1 DEF GhostInv
<1>3. WaitingFits /\ AirFits /\ EntriesFit
    BY <1>2 DEF GhostInv, Apart
<1>4. AtHead(d) /\ \A e \in Drainers \ {d} : ~Radio!Draining(e)
    BY <1>1, <1>2, Others DEF RadioInv
<1>5. /\ outbox \in Seq(Frames) /\ outbox # <<>> /\ outbox' = Tail(outbox)
    BY <1>4 DEF AtHead, RadioInv, DrainTypes, Radio!Pop
<1>6. /\ Len(outbox) \in Nat /\ Len(outbox') = Len(outbox) - 1
      /\ \A i \in 1..Len(outbox') : outbox'[i] = outbox[i + 1] /\ i + 1 \in 1..Len(outbox)
    BY <1>5, HeadTailProperties, LenProperties
<1>7. \A i \in 1..Len(outbox') : i \in Nat /\ i + 1 # 1
    BY <1>6
<1>8. \A g : Through(g)' = Through(g) /\ Radio!Count(g)' = Radio!Count(g) /\ Last(g)' = Last(g)
    BY <1>1 DEF Through, Last, Radio!Count
<1>9. \A e \in Drainers : drain'[e].at = "idle"
    BY <1>1, <1>4, IdleIs, DrainMoves DEF Radio!Draining
<1>10. WaitingFits'
    <2>1. ASSUME NEW i \in 1..Len(outbox'), NEW j \in 1..Len(outbox'), outbox'[i] = outbox'[j]
          PROVE  i = j
        <3>1. i + 1 = j + 1
            BY <1>3, <1>6, <2>1 DEF WaitingFits
        <3> QED BY <1>7, <3>1
    <2>2. ASSUME NEW i \in 1..Len(outbox') PROVE outbox'[i] \in accepted /\ ~Through(outbox'[i])
        BY <1>3, <1>6, <1>7 DEF WaitingFits
    <2> QED BY <1>1, <1>3, <1>8, <1>9, <2>1, <2>2 DEF WaitingFits
<1>11. AirFits'
    BY <1>1, <1>3, <1>8 DEF AirFits
<1>12. EntriesFit'
    <2>1. Radio!ToSet(order)' = Radio!ToSet(order)
        BY <1>1 DEF Radio!ToSet
    <2>2. Radio!NoGhostEntries'
        BY <1>1, <1>3, <2>1 DEF EntriesFit, Radio!NoGhostEntries
    <2> QED BY <1>1, <1>3, <1>8, <2>1, <2>2 DEF EntriesFit, Arrived
<1> QED BY <1>10, <1>11, <1>12 DEF Apart

(* A segment is written while its frame is not through: nothing of a frame   *)
(* comes behind its last segment.                                            *)
LEMMA WriteApart ==
    ASSUME RadioConstants, RadioInv, GhostInv, NEW d \in Drainers, Radio!Write(d)
    PROVE  GhostInv'
<1>1. SUFFICES ASSUME ~overlapped PROVE Apart'
    BY DEF GhostInv, Radio!Write
<1>2. drain[d].at = "write" /\ Radio!Draining(d)
    BY DEF Radio!Write, Radio!Draining
<1>3. WaitingFits /\ AirFits /\ EntriesFit
    BY <1>1 DEF GhostInv, Apart
<1>4. AtHead(d) /\ \A e \in Drainers \ {d} : ~Radio!Draining(e)
    BY <1>1, <1>2, Others DEF RadioInv
<1>5. PICK f \in Frames : f = drain[d].frame /\ f = Head(outbox) /\ outbox # <<>>
    BY <1>4 DEF AtHead
<1>6. PICK i \in 1..Radio!Count(f) : i = drain[d].next
    BY <1>2, <1>3, <1>5 DEF WaitingFits
<1>7. ~Through(f)
    BY <1>2, <1>3, <1>5 DEF WaitingFits
<1>8. PICK k \in Nat : k = Radio!Count(f)
    BY CountIs DEF RadioInv
<1>9. i \in Nat /\ i <= k
    BY <1>6, <1>8
<1>10. PICK o : o = Radio!Onward(f, i + 1)
    OBVIOUS
<1>11. /\ o \in DrainState
       /\ o.at \in {"pop", "budget", "write"} /\ o.frame = f /\ o.next = i + 1
       /\ o.at = "pop" <=> i + 1 > k
    <2>1. DrainTypes /\ i + 1 \in Nat
        BY <1>9 DEF RadioInv
    <2>2. o.at = "pop" <=> i + 1 > k
        BY <1>8, <1>10 DEF Radio!Onward
    <2> QED BY <1>10, <2>1, <2>2, OnwardIs
<1>12. /\ drain' = [drain EXCEPT ![d] = o]
       /\ written' = written \cup {<<f, i>>} /\ air' = Append(air, <<f, i>>)
       /\ UNCHANGED <<kind, outbox, accepted, order, pending, handed, overlapped>>
    BY <1>5, <1>6, <1>10 DEF Radio!Write, Radio!receiver
<1>13. drain'[d] = o /\ \A e \in Drainers \ {d} : drain'[e] = drain[e]
    BY <1>11, <1>12, DrainMoves
<1>14. \A g : Radio!Count(g)' = Radio!Count(g) /\ Last(g)' = Last(g)
    BY <1>12 DEF Last, Radio!Count
<1>15. \A g \in Frames : Through(g)' <=> Through(g) \/ (g = f /\ i = k)
    BY <1>8, <1>12, <1>14 DEF Through, Last
<1>16. outbox \in Seq(Frames) /\ f = outbox[1] /\ Len(outbox) \in Nat /\ 1 \in 1..Len(outbox)
    <2>1. outbox \in Seq(Frames)
        BY DEF RadioInv, DrainTypes
    <2>2. Len(outbox) \in Nat /\ Len(outbox) # 0
        BY <1>5, <2>1, EmptySeq, LenProperties
    <2> QED BY <1>5, <2>1, <2>2, HeadTailProperties
<1>17. WaitingFits'
    <2>1. ASSUME NEW j \in 1..Len(outbox), Through(outbox[j])'
          PROVE  j = 1 /\ \E e \in Drainers : drain'[e].at = "pop"
        <3>1. outbox[j] \in Frames
            BY <1>16, ElementOfSeq
        <3>2. CASE Through(outbox[j])
            <4>1. PICK e \in Drainers : drain[e].at = "pop"
                BY <1>3, <3>2 DEF WaitingFits
            <4> QED BY <1>2, <1>4, <4>1 DEF Radio!Draining
        <3>3. CASE outbox[j] = f /\ i = k
            <4>1. j = 1
                BY <1>3, <1>16, <3>3 DEF WaitingFits
            <4>2. o.at = "pop"
                BY <1>8, <1>11, <3>3
            <4> QED BY <1>13, <4>1, <4>2
        <3>4. Through(outbox[j]) \/ (outbox[j] = f /\ i = k)
            <4>1. outbox'[j] = outbox[j]
                BY <1>12
            <4>2. Last(outbox[j])' = Last(outbox[j])
                BY <1>12, <1>14, <4>1 DEF Last, Radio!Count
            <4>3. Last(outbox[j]) \in written \cup {<<f, i>>}
                BY <1>12, <2>1, <4>2 DEF Through
            <4> QED BY <1>8, <4>3 DEF Through, Last
        <3> QED BY <3>2, <3>3, <3>4
    <2>2. ASSUME NEW e \in Drainers, drain'[e].at \in {"budget", "consume", "write"}
          PROVE  /\ drain'[e].frame = f /\ drain'[e].next = i + 1
                 /\ i # k /\ i + 1 \in 1..k
        <3>1. e = d
            BY <1>4, <1>13, <2>2 DEF Radio!Draining
        <3>2. o.at # "pop"
            BY <1>13, <2>2, <3>1
        <3> QED BY <1>8, <1>9, <1>11, <1>13, <3>1, <3>2
    <2>3. ASSUME NEW e \in Drainers, drain'[e].at \in {"budget", "consume", "write"}
          PROVE  /\ ~Through(drain[e].frame)'
                 /\ drain'[e].next \in 1..Radio!Count(drain[e].frame)'
        <3>1. ~Through(f)' /\ Radio!Count(f)' = k
            BY <1>7, <1>8, <1>14, <1>15, <2>2, <2>3
        <3> QED BY <2>2, <2>3, <3>1 DEF Through, Last, Radio!Count
    <2>4. \A g \in Frames : Through(g)' => g \in accepted
        <3>1. f \in accepted
            BY <1>3, <1>16 DEF WaitingFits
        <3> QED BY <1>3, <1>15, <3>1 DEF WaitingFits
    <2> QED BY <1>3, <1>12, <2>1, <2>3, <2>4 DEF WaitingFits
<1>18. PICK n \in Nat : n = Len(air)
    BY <1>3, LenProperties DEF AirFits
<1>19. /\ Len(air') = n + 1 /\ air'[n + 1] = <<f, i>> /\ \A j \in 1..n : air'[j] = air[j]
       /\ air' \in Seq(Frames \X Nat)
    <2>1. air \in Seq(Frames \X Nat) /\ <<f, i>> \in Frames \X Nat
        BY <1>3, <1>9 DEF AirFits
    <2> QED BY <1>12, <1>18, <2>1, AppendProperties
<1>20. \A j \in 1..n + 1 : j \in 1..n \/ j = n + 1
    OBVIOUS
<1>21. AirFits'
    <2>1. ASSUME NEW j \in 1..n + 1
          PROVE  air'[j] \in written' /\ air'[j][2] \in 1..Radio!Count(air'[j][1])
        <3>1. CASE j \in 1..n
            BY <1>3, <1>12, <1>18, <1>19, <3>1 DEF AirFits
        <3>2. CASE j = n + 1
            BY <1>6, <1>12, <1>19, <3>2
        <3> QED BY <1>20, <3>1, <3>2
    <2>2. ASSUME NEW j \in 1..n + 1, NEW m \in 1..n + 1, j < m, air'[j][1] = air'[m][1]
          PROVE  air'[j] # Last(air'[j][1])
        <3>1. j \in 1..n
            BY <1>18, <2>2
        <3>2. CASE m \in 1..n
            BY <1>3, <1>18, <1>19, <2>2, <3>1, <3>2 DEF AirFits
        <3>3. CASE m = n + 1
            <4>1. air[j] \in written /\ air[j][1] = f
                BY <1>3, <1>18, <1>19, <2>2, <3>1, <3>3 DEF AirFits
            <4> QED BY <1>7, <1>19, <3>1, <4>1 DEF Through
        <3> QED BY <1>20, <3>2, <3>3
    <2> QED BY <1>12, <1>19, <2>1, <2>2 DEF AirFits, Last, Radio!Count
<1>22. EntriesFit'
    <2>1. ASSUME NEW g \in Frames, Arrived(g)
          PROVE  Through(g)' /\ \A j \in 1..n + 1 : air'[j][1] # g
        <3>1. Through(g) /\ \A j \in 1..n : air[j][1] # g
            BY <1>3, <1>18, <2>1 DEF EntriesFit
        <3>2. g # f
            BY <1>7, <3>1
        <3> QED BY <1>15, <1>19, <1>20, <3>1, <3>2
    <2>2. Radio!ToSet(order)' = Radio!ToSet(order) /\ \A g : Arrived(g)' = Arrived(g)
        BY <1>12, <1>14 DEF Radio!ToSet, Arrived
    <2>3. Radio!NoGhostEntries'
        BY <1>3, <1>12, <2>2 DEF EntriesFit, Radio!NoGhostEntries
    <2> QED BY <1>3, <1>12, <1>14, <1>19, <2>1, <2>2, <2>3 DEF EntriesFit
<1> QED BY <1>17, <1>21, <1>22 DEF Apart

-----------------------------------------------------------------------------
LEMMA WaitingStays ==
    ASSUME WaitingFits, UNCHANGED <<kind, drain, outbox, accepted, written>>
    PROVE  WaitingFits'
BY DEF WaitingFits, Through, Last, Radio!Count

\* The first segment leaves the air: lost, or read by the pump.
LEMMA TakenOff ==
    ASSUME AirFits, air # <<>>, air' = Tail(air), UNCHANGED <<kind, written>>
    PROVE  /\ AirFits'
           /\ Head(air)[1] \in Frames /\ Head(air)[2] \in Nat
           /\ Head(air) \in written /\ Head(air)[2] \in 1..Radio!Count(Head(air)[1])
           /\ \A g : (\A i \in 1..Len(air) : air[i][1] # g)
                        => \A i \in 1..Len(air') : air'[i][1] # g
           /\ Head(air) = Last(Head(air)[1])
                => \A i \in 1..Len(air') : air'[i][1] # Head(air)[1]
<1>1. /\ air' \in Seq(Frames \X Nat) /\ Len(air) \in Nat /\ Len(air) # 0
      /\ Len(air') = Len(air) - 1
      /\ \A i \in 1..Len(air') : air'[i] = air[i + 1]
    BY HeadTailProperties, EmptySeq, LenProperties DEF AirFits
<1>2. \A i \in 1..Len(air') : i + 1 \in 1..Len(air) /\ 1 < i + 1 /\ i \in Nat
    BY <1>1
<1>3. 1 \in 1..Len(air) /\ Head(air) = air[1] /\ air[1] \in Frames \X Nat
    BY <1>1, ElementOfSeq DEF AirFits
<1>4. AirFits'
    <2>1. ASSUME NEW i \in 1..Len(air')
          PROVE  air'[i] \in written /\ air'[i][2] \in 1..Radio!Count(air'[i][1])
        BY <1>1, <1>2 DEF AirFits
    <2>2. ASSUME NEW i \in 1..Len(air'), NEW j \in 1..Len(air'),
                 i < j, air'[i][1] = air'[j][1]
          PROVE  air'[i] # Last(air'[i][1])
        <3>1. i + 1 < j + 1 /\ air[i + 1][1] = air[j + 1][1]
            BY <1>1, <1>2, <2>2
        <3>2. air[i + 1] # Last(air[i + 1][1])
            BY <1>2, <3>1 DEF AirFits
        <3> QED BY <1>1, <3>2
    <2> QED BY <1>1, <2>1, <2>2 DEF AirFits, Last, Radio!Count
<1>5. Head(air) \in written /\ Head(air)[2] \in 1..Radio!Count(Head(air)[1])
    BY <1>3 DEF AirFits
<1>6. ASSUME Head(air) = Last(Head(air)[1]), NEW i \in 1..Len(air')
      PROVE  air'[i][1] # Head(air)[1]
    <2>1. SUFFICES ASSUME air[i + 1][1] = air[1][1] PROVE FALSE
        BY <1>1, <1>3
    <2>2. air[1] # Last(air[1][1])
        BY <1>2, <1>3, <2>1 DEF AirFits
    <2> QED BY <1>3, <1>6, <2>2
<1>7. \A g : (\A i \in 1..Len(air) : air[i][1] # g) => \A i \in 1..Len(air') : air'[i][1] # g
    BY <1>1, <1>2
<1> QED BY <1>3, <1>4, <1>5, <1>6, <1>7

LEMMA LoseApart ==
    ASSUME RadioInv, GhostInv, Radio!Lose
    PROVE  GhostInv'
<1>1. /\ air # <<>> /\ air' = Tail(air)
      /\ UNCHANGED <<kind, drain, outbox, accepted, written, order, pending, handed, overlapped>>
    BY DEF Radio!Lose, Radio!sender, Radio!receiver
<1>2. SUFFICES ASSUME ~overlapped PROVE Apart'
    BY <1>1 DEF GhostInv
<1>3. WaitingFits /\ AirFits /\ EntriesFit
    BY <1>2 DEF GhostInv, Apart
<1>4. EntriesFit'
    <2>1. Radio!ToSet(order)' = Radio!ToSet(order)
        BY <1>1 DEF Radio!ToSet
    <2>2. \A g : /\ Through(g)' = Through(g) /\ Arrived(g)' = Arrived(g)
                 /\ Radio!Count(g)' = Radio!Count(g)
        BY <1>1 DEF Through, Last, Arrived, Radio!Count
    <2>3. Radio!NoGhostEntries'
        BY <1>1, <1>3, <2>1 DEF EntriesFit, Radio!NoGhostEntries
    <2> QED BY <1>1, <1>3, <2>1, <2>2, <2>3, TakenOff DEF EntriesFit
<1> QED BY <1>1, <1>3, <1>4, WaitingStays, TakenOff DEF Apart

LEMMA HandWholeApart ==
    ASSUME RadioConstants, RadioInv, GhostInv, Radio!HandWhole
    PROVE  GhostInv'
<1>1. PICK f : /\ f = Head(air)[1] /\ Radio!Count(f) = 1 /\ handed' = handed \cup {f}
    BY DEF Radio!HandWhole
<1>2. /\ air # <<>> /\ air' = Tail(air)
      /\ UNCHANGED <<kind, drain, outbox, accepted, written, order, pending, overlapped>>
    BY DEF Radio!HandWhole, Radio!sender
<1>3. SUFFICES ASSUME ~overlapped PROVE Apart'
    BY <1>2 DEF GhostInv
<1>4. WaitingFits /\ AirFits /\ EntriesFit
    BY <1>3 DEF GhostInv, Apart
<1>5. f \in Frames /\ Head(air) \in written /\ Head(air)[2] = 1
    BY <1>1, <1>2, <1>4, TakenOff
<1>6. Head(air) = Last(f)
    <2>1. Head(air) \in Frames \X Nat
        BY <1>2, <1>4, HeadTailProperties DEF AirFits
    <2> QED BY <1>1, <1>5, <2>1 DEF Last
<1>7. Through(f) /\ \A i \in 1..Len(air') : air'[i][1] # f
    BY <1>1, <1>2, <1>4, <1>5, <1>6, TakenOff DEF Through
<1>8. EntriesFit'
    <2>1. Radio!ToSet(order)' = Radio!ToSet(order)
        BY <1>2 DEF Radio!ToSet
    <2>2. \A g : /\ Through(g)' = Through(g) /\ Radio!Count(g)' = Radio!Count(g)
                 /\ Arrived(g)' => Arrived(g) \/ g = f
        BY <1>1, <1>2 DEF Through, Last, Arrived, Radio!Count
    <2>3. Radio!NoGhostEntries'
        <3>1. f \notin Radio!ToSet(order)
            BY <1>1, <1>4 DEF EntriesFit
        <3>2. handed \cap Radio!ToSet(order) = {}
            BY <1>3, <1>4 DEF EntriesFit, Radio!NoGhostEntries
        <3> QED BY <1>1, <2>1, <3>1, <3>2 DEF Radio!NoGhostEntries
    <2>4. ASSUME NEW g \in Frames, Arrived(g)'
          PROVE  Through(g)' /\ \A i \in 1..Len(air') : air'[i][1] # g
        BY <1>2, <1>4, <1>7, <2>2, <2>4, TakenOff DEF EntriesFit
    <2> QED BY <1>1, <1>2, <1>4, <1>5, <2>1, <2>2, <2>3, <2>4 DEF EntriesFit
<1> QED BY <1>2, <1>4, <1>8, WaitingStays, TakenOff DEF Apart

LEMMA OrderWithIs ==
    ASSUME order \in Seq(Frames), NEW f \in Frames
    PROVE  /\ Radio!OrderWith(f) \in Seq(Frames)
           /\ Radio!ToSet(Radio!OrderWith(f)) \subseteq Radio!ToSet(order) \cup {f}
<1> DEFINE grown == IF f \in Radio!ToSet(order) THEN order ELSE Append(order, f)
<1>1. /\ Append(order, f) \in Seq(Frames) /\ Len(Append(order, f)) = Len(order) + 1
      /\ \A i \in 1..Len(order) : Append(order, f)[i] = order[i]
      /\ Append(order, f)[Len(order) + 1] = f /\ Len(order) \in Nat
    BY AppendProperties, LenProperties
<1>2. Radio!ToSet(Append(order, f)) \subseteq Radio!ToSet(order) \cup {f}
    <2>1. ASSUME NEW i \in 1..Len(order) + 1
          PROVE  Append(order, f)[i] \in Radio!ToSet(order) \cup {f}
        <3>1. CASE i = Len(order) + 1
            BY <1>1, <3>1
        <3>2. CASE i # Len(order) + 1
            <4>1. i \in 1..Len(order)
                BY <1>1, <2>1, <3>2
            <4> QED BY <1>1, <4>1 DEF Radio!ToSet
        <3> QED BY <3>1, <3>2
    <2>2. DOMAIN Append(order, f) = 1..Len(order) + 1
        BY <1>1
    <2> QED BY <2>1, <2>2 DEF Radio!ToSet
<1>3. grown \in Seq(Frames) /\ Radio!ToSet(grown) \subseteq Radio!ToSet(order) \cup {f}
    BY <1>1, <1>2
<1>4. Radio!OrderWith(f) = IF Len(grown) > MaxPending THEN Tail(grown) ELSE grown
    BY DEF Radio!OrderWith
<1>5. grown # <<>>
    <2>1. Radio!ToSet(<<>>) = {}
        BY DEF Radio!ToSet
    <2>2. f \in Radio!ToSet(order) => order # <<>>
        BY <2>1
    <2>3. Append(order, f) # <<>>
        BY <1>1
    <2> QED BY <2>2, <2>3
<1> HIDE DEF grown
<1>6. Tail(grown) \in Seq(Frames) /\ Radio!ToSet(Tail(grown)) \subseteq Radio!ToSet(grown)
    <2>1. /\ Tail(grown) \in Seq(Frames) /\ Len(Tail(grown)) = Len(grown) - 1
          /\ Len(grown) \in Nat
          /\ \A i \in 1..Len(Tail(grown)) : Tail(grown)[i] = grown[i + 1]
        BY <1>3, <1>5, HeadTailProperties, LenProperties
    <2>2. \A i \in 1..Len(Tail(grown)) : i + 1 \in 1..Len(grown)
        BY <2>1
    <2>3. DOMAIN Tail(grown) = 1..Len(Tail(grown)) /\ DOMAIN grown = 1..Len(grown)
        BY <1>3, <2>1
    <2> QED BY <2>1, <2>2, <2>3 DEF Radio!ToSet
<1> QED BY <1>3, <1>4, <1>6

(* A segment completes its frame only as the frame's last one on the air, so *)
(* no segment comes after it to make a new entry.                            *)
LEMMA AddSegmentApart ==
    ASSUME RadioConstants, RadioInv, GhostInv, Radio!AddSegment
    PROVE  GhostInv'
<1>1. /\ air # <<>> /\ air' = Tail(air)
      /\ UNCHANGED <<kind, drain, outbox, accepted, written, overlapped>>
    BY DEF Radio!AddSegment, Radio!sender
<1>2. SUFFICES ASSUME ~overlapped PROVE Apart'
    BY <1>1 DEF GhostInv
<1>3. WaitingFits /\ AirFits /\ EntriesFit
    BY <1>2 DEF GhostInv, Apart
<1>4. PICK f \in Frames, i \in Nat : f = Head(air)[1] /\ i = Head(air)[2]
    BY <1>1, <1>3, TakenOff
<1>5. PICK k \in Nat : k = Radio!Count(f)
    BY CountIs DEF RadioInv
<1>6. i \in 1..k /\ Head(air) = <<f, i>> /\ <<f, i>> \in written
    <2>1. Head(air) \in Frames \X Nat
        BY <1>1, <1>3, HeadTailProperties DEF AirFits
    <2> QED BY <1>1, <1>3, <1>4, <1>5, <2>1, TakenOff
<1>7. PICK held : held = Radio!HeldWith(f, i)
    OBVIOUS
<1>8. PICK gone : gone = IF held[f] = 1..k THEN {f} ELSE stale \cap Radio!ToSet(Radio!OrderWith(f))
    OBVIOUS
<1>9. /\ k > 1
      /\ order' = Radio!Without(Radio!OrderWith(f), gone)
      /\ pending' = [g \in Frames |-> IF g \in gone THEN {} ELSE held[g]]
      /\ handed' = IF held[f] = 1..k THEN handed \cup {f} ELSE handed
    BY <1>4, <1>5, <1>7, <1>8 DEF Radio!AddSegment
<1>10. \A g \in Frames : held[g] \in SUBSET Nat /\ held[g] \subseteq pending[g] \cup {j \in {i} : g = f}
    BY <1>3, <1>7 DEF Radio!HeldWith, EntriesFit
<1>11. Arrived(f) => FALSE
    <2>1. \E j \in 1..Len(air) : air[j][1] = f
        <3>1. Len(air) \in Nat /\ Len(air) # 0 /\ Head(air) = air[1]
            BY <1>1, <1>3, EmptySeq, LenProperties, HeadTailProperties DEF AirFits
        <3> QED BY <1>4, <3>1
    <2> QED BY <1>3, <2>1 DEF EntriesFit
\* Where the frame is whole now, or its last segment is held, this one is the last.
<1>12. k \in held[f] => i = k
    BY <1>5, <1>10, <1>11 DEF Arrived
<1>13. i = k => Through(f) /\ \A j \in 1..Len(air') : air'[j][1] # f
    <2> SUFFICES ASSUME i = k PROVE Through(f) /\ \A j \in 1..Len(air') : air'[j][1] # f
        OBVIOUS
    <2>1. Head(air) = Last(f)
        BY <1>5, <1>6 DEF Last
    <2> QED BY <1>1, <1>3, <1>4, <1>6, <2>1, TakenOff DEF Through
<1>14. held[f] = 1..k => k \in held[f]
    BY <1>9
<1>15. ASSUME NEW g \in Frames, Arrived(g)'
       PROVE  Arrived(g) \/ (g = f /\ i = k)
    <2>1. Radio!Count(g)' = Radio!Count(g)
        BY <1>1 DEF Radio!Count
    <2>2. g \in handed' \/ Radio!Count(g) \in pending'[g]
        BY <1>15, <2>1 DEF Arrived
    <2>3. CASE g \in handed'
        BY <1>9, <1>12, <1>14, <2>3 DEF Arrived
    <2>4. CASE Radio!Count(g) \in pending'[g]
        <3>1. Radio!Count(g) \in held[g]
            BY <1>9, <2>4
        <3>2. CASE g = f
            BY <1>5, <1>12, <3>1, <3>2
        <3>3. CASE g # f
            BY <1>10, <3>1, <3>3 DEF Arrived
        <3> QED BY <3>2, <3>3
    <2> QED BY <2>2, <2>3, <2>4
<1>16. ASSUME NEW g \in Frames, Arrived(g)'
       PROVE  Through(g)' /\ \A j \in 1..Len(air') : air'[j][1] # g
    <2>1. Through(g)' = Through(g)
        BY <1>1 DEF Through, Last, Radio!Count
    <2>2. CASE Arrived(g)
        BY <1>1, <1>3, <2>1, <2>2, TakenOff DEF EntriesFit
    <2>3. CASE g = f /\ i = k
        BY <1>13, <2>1, <2>3
    <2> QED BY <1>15, <1>16, <2>2, <2>3
<1>17. /\ order' \in Seq(Frames)
       /\ Radio!ToSet(order') \subseteq (Radio!ToSet(order) \cup {f}) \ gone
    <2>1. order \in Seq(Frames)
        BY <1>3 DEF EntriesFit
    <2> QED BY <1>9, <2>1, OrderWithIs, WithoutIs
<1>18. Radio!ToSet(order)' = Radio!ToSet(order')
    BY DEF Radio!ToSet
<1>19. \A g \in Radio!ToSet(order') : Radio!Count(g)' > 1
    <2>1. \A g : Radio!Count(g)' = Radio!Count(g)
        BY <1>1 DEF Radio!Count
    <2> QED BY <1>3, <1>5, <1>9, <1>17, <2>1 DEF EntriesFit
<1>20. Radio!NoGhostEntries'
    <2>1. handed \cap Radio!ToSet(order) = {} /\ f \notin handed
        BY <1>2, <1>3, <1>11 DEF EntriesFit, Radio!NoGhostEntries, Arrived
    <2>2. f \in handed' => f \in gone
        BY <1>8, <1>9, <2>1
    <2>3. handed' \cap Radio!ToSet(order') = {}
        BY <1>9, <1>17, <2>1, <2>2
    <2> QED BY <1>18, <2>3 DEF Radio!NoGhostEntries
<1>21. pending' \in [Frames -> SUBSET Nat] /\ handed' \subseteq Frames
    BY <1>3, <1>9, <1>10 DEF EntriesFit
<1>22. EntriesFit'
    BY <1>16, <1>17, <1>18, <1>19, <1>20, <1>21 DEF EntriesFit
<1> QED BY <1>1, <1>3, <1>22, WaitingStays, TakenOff DEF Apart

-----------------------------------------------------------------------------
LEMMA NothingMoves ==
    ASSUME GhostInv, UNCHANGED <<kind, drain, outbox, accepted, written, air, order,
                                 pending, handed, overlapped>>
    PROVE  GhostInv'
<1>1. SUFFICES ASSUME ~overlapped PROVE Apart'
    BY DEF GhostInv
<1>2. WaitingFits /\ AirFits /\ EntriesFit
    BY <1>1 DEF GhostInv, Apart
<1>3. AirFits'
    BY <1>2 DEF AirFits, Last, Radio!Count
<1>4. EntriesFit'
    <2>1. Radio!ToSet(order)' = Radio!ToSet(order)
        BY DEF Radio!ToSet
    <2>2. \A g : /\ Through(g)' = Through(g) /\ Arrived(g)' = Arrived(g)
                 /\ Radio!Count(g)' = Radio!Count(g)
        BY DEF Through, Last, Arrived, Radio!Count
    <2>3. Radio!NoGhostEntries'
        BY <1>2, <2>1 DEF EntriesFit, Radio!NoGhostEntries
    <2> QED BY <1>2, <2>1, <2>2, <2>3 DEF EntriesFit
<1> QED BY <1>2, <1>3, <1>4, WaitingStays DEF Apart

LEMMA GhostNextInv ==
    ASSUME RadioConstants, RadioInv, GhostInv, [Radio!Next]_(Radio!vars)
    PROVE  GhostInv'
<1>1. ASSUME NEW f \in Frames, Radio!SendFrame(f) PROVE GhostInv'
    BY <1>1, SendFrameApart
<1>2. ASSUME NEW f \in Frames, Radio!Expire(f) PROVE GhostInv'
    BY <1>2, NothingMoves DEF Radio!Expire, Radio!sender
<1>3. ASSUME NEW d \in Drainers, Radio!Drain(d) \/ Radio!WriteFails(d) PROVE GhostInv'
    BY <1>3, ReadHeadApart, BudgetApart, WriteApart, PopApart DEF Radio!Drain
<1>4. CASE Radio!Pump
    BY <1>4, HandWholeApart, AddSegmentApart DEF Radio!Pump
<1>5. CASE Radio!WindowEnds \/ Radio!Stop
    BY <1>5, NothingMoves DEF Radio!WindowEnds, Radio!Stop, Radio!receiver
<1>6. CASE Radio!Lose
    BY <1>6, LoseApart
<1>7. CASE UNCHANGED Radio!vars
    BY <1>7, NothingMoves DEF Radio!vars, Radio!sender, Radio!receiver
<1> QED BY <1>1, <1>2, <1>3, <1>4, <1>5, <1>6, <1>7 DEF Radio!Next

(* While the drains have taken turns, whatever is written again after a      *)
(* failed write or a window without airtime, lost, expired or evicted: the   *)
(* assembler never holds an entry of a frame that it has handed on           *)
(* (protocol.py:541-573 behind lora_transport.py:260-294).                   *)
THEOREM NoGhostStays ==
    ASSUME RadioConstants PROVE Radio!Spec => []NoGhostEntries
<1>1. RadioInv /\ GhostInv => NoGhostEntries
    BY DEF NoGhostEntries, GhostInv, Apart, EntriesFit, Radio!NoGhostEntries
<1>2. Radio!Init => RadioInv /\ GhostInv
    BY RadioInitInv, GhostInitInv
<1>3. RadioInv /\ GhostInv /\ [Radio!Next]_(Radio!vars) => (RadioInv /\ GhostInv)'
    BY RadioNextInv, GhostNextInv
<1> QED BY <1>1, <1>2, <1>3, PTL DEF Radio!Spec
=============================================================================
