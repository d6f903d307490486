--------------------------- MODULE TransportChain ---------------------------
(***************************************************************************)
(* TransportChain (transport_fallback.py): the ordered fallback chain over *)
(* an agent's transports and the circuit breaker of each of them.          *)
(*                                                                         *)
(* Several threads walk one chain at once: the application calls send, the *)
(* runtime loop sends heartbeats and replays the outbox with send_raw, a   *)
(* TCP reader thread of the host forwards mail with send_raw.  A walk is   *)
(* not atomic: send_frame may block (dialling, an HTTP request), so every  *)
(* attempt is a step that begins it and a step that records its result,    *)
(* and anything may come between.                                          *)
(*                                                                         *)
(* Time is counted in ticks: cool is the number of ticks a breaker stays   *)
(* open (open_until minus the clock).  The latency average only orders the *)
(* transports among the closed and among the open ones, so the walk takes  *)
(* either group in any order.  What a transport may be asked to carry is   *)
(* data: Accepts, Fits, Addressed are the checks the chain makes, Carriable*)
(* the ones the transport itself makes inside send_frame.                  *)
(***************************************************************************)
EXTENDS Naturals, FiniteSets

CONSTANTS
    Transports,   \* the chain's transports
    Threads,      \* threads that walk the chain
    Messages,     \* kinds of message: a recipient and a priority class
    RawMessages,  \* those handed to send_raw: forwarded or replayed frames
    Broadcasts,   \* the messages whose recipient is "*"
    Addressed,    \* transports with broadcast_supported = False
    Accepts,      \* <<transport, message>> when accepts_class(priority) holds
    Fits,         \* <<transport, message>> when the frame fits or is segmented
    Carriable,    \* <<transport, message>> that send_frame can carry at all
    Raising,      \* transports whose send_frame may raise
    Threshold,    \* breaker_threshold
    Cooldown      \* breaker_cooldown_s, in ticks

ASSUME ThresholdAssumption == Threshold \in Nat \ {0}
ASSUME CooldownAssumption == Cooldown \in Nat \ {0}
ASSUME MessagesAssumption == RawMessages \subseteq Messages /\ Broadcasts \subseteq Messages
ASSUME MediaAssumption ==
    /\ Addressed \subseteq Transports
    /\ Raising \subseteq Transports
    /\ Accepts \cup Fits \cup Carriable \subseteq Transports \X Messages

VARIABLES
    reach,     \* <<transport, message>> whose recipient the medium reaches now
    failures,  \* consecutive failures of each transport, counted up to Threshold
    cool,      \* ticks until the breaker closes by itself, 0 when it is closed
    walk       \* the walk each thread is in

vars == <<reach, failures, cool, walk>>

Ops == {"idle", "send", "send_raw"}
(* first, rest: the candidates still to try, those whose breaker was closed at
   the start before the others; send_raw never tries the others.  on: the
   transport an attempt is under way on.  age: ticks since send_raw read the clock, a walk of more than a
   cooldown counting as one of a cooldown.  healthy (history): the transports
   that were eligible, closed and reaching the recipient ever since the start. *)
Walk == [op : Ops, msgs : SUBSET Messages,
         first : SUBSET Transports, rest : SUBSET Transports,
         on : SUBSET Transports, age : 0..Cooldown,
         healthy : SUBSET Transports]
Idle == [op |-> "idle", msgs |-> {}, first |-> {}, rest |-> {}, on |-> {},
         age |-> 0, healthy |-> {}]

TypeOK ==
    /\ reach \subseteq Carriable
    /\ failures \in [Transports -> 0..Threshold]
    /\ cool \in [Transports -> 0..Cooldown]
    /\ walk \in [Threads -> Walk]

-----------------------------------------------------------------------------
(* Helpers.                                                                *)

Closed == {t \in Transports : cool[t] = 0}

\* A candidate send passes over without attempting it.
BrokenPassesOver(op, t, m) == op = "send" /\ <<t, m>> \notin Fits
PassesOver(op, t, m) ==
    /\ op = "send"
    /\ (m \in Broadcasts /\ t \in Addressed) \/ <<t, m>> \notin Fits

\* send filters by the priority class of its envelope; send_raw asks for class
\* 0, which every medium accepts.
Candidates(op, m) ==
    IF op = "send" THEN {t \in Transports : <<t, m>> \in Accepts} ELSE Transports

\* The transports that carry m when the walk comes to them.
Serving(op, m, open, links) ==
    {t \in Candidates(op, m) :
        open[t] = 0 /\ <<t, m>> \in links /\ ~PassesOver(op, t, m)}

\* What a change of the breakers or the links does to the walks under way:
\* healthy shrinks, and a send_raw passes over the breakers opened since it
\* read the clock.
Observed(walks, open, links) ==
    [th \in Threads |->
        LET w == walks[th] IN
        [w EXCEPT !.healthy = {t \in @ : \A m \in w.msgs : t \in Serving(w.op, m, open, links)},
                  !.first = IF w.op = "send_raw" THEN {t \in @ : open[t] <= cool[t]} ELSE @]]

Counted(t) == [failures EXCEPT ![t] = IF @ < Threshold THEN @ + 1 ELSE @]

\* The breakers after walk w failed on t: send opens t for a cooldown from now,
\* send_raw for a cooldown from the start of the walk.
Opened(w, t) ==
    IF failures[t] + 1 < Threshold THEN cool ELSE [cool EXCEPT ![t] = Cooldown - w.age]

-----------------------------------------------------------------------------
(* The world: a recipient comes within reach of a transport or leaves it,   *)
(* time passes.                                                             *)

LinkUp(t, m) ==
    /\ <<t, m>> \in Carriable \ reach
    /\ reach' = reach \cup {<<t, m>>}
    /\ UNCHANGED <<failures, cool, walk>>

LinkDown(t, m) ==
    /\ <<t, m>> \in reach
    /\ reach' = reach \ {<<t, m>>}
    /\ walk' = Observed(walk, cool, reach')
    /\ UNCHANGED <<failures, cool>>

Tick ==
    /\ cool' = [t \in Transports |-> IF cool[t] = 0 THEN 0 ELSE cool[t] - 1]
    /\ walk' = [th \in Threads |->
                  IF walk[th].op = "send_raw" /\ walk[th].age < Cooldown
                  THEN [walk[th] EXCEPT !.age = @ + 1] ELSE walk[th]]
    /\ UNCHANGED <<reach, failures>>

-----------------------------------------------------------------------------
(* A walk.                                                                 *)

Begin(th, op, m) ==
    /\ walk[th] = Idle
    /\ walk' = [walk EXCEPT ![th] =
                 [Idle EXCEPT !.op = op, !.msgs = {m},
                              !.first = Candidates(op, m) \cap Closed,
                              !.rest = IF op = "send" THEN Candidates(op, m) \ Closed ELSE {},
                              !.healthy = Serving(op, m, cool, reach)]]
    /\ UNCHANGED <<reach, failures, cool>>

\* The next candidate: any of the first group, then any of the rest.
Upcoming(w) == IF w.first # {} THEN w.first ELSE w.rest
Without(w, t) == [w EXCEPT !.first = @ \ {t}, !.rest = @ \ {t}]

Skip(th) ==
    /\ walk[th].on = {}
    /\ \E t \in Upcoming(walk[th]), m \in walk[th].msgs :
        /\ t \notin Closed \/ PassesOver(walk[th].op, t, m)
        /\ walk' = [walk EXCEPT ![th] = Without(@, t)]
    /\ UNCHANGED <<reach, failures, cool>>

BrokenAttempt(th) ==
    /\ walk[th].on = {}
    /\ \E t \in Upcoming(walk[th]), m \in walk[th].msgs :
        /\ t \in Closed
        /\ ~PassesOver(walk[th].op, t, m)
        /\ walk' = [walk EXCEPT ![th] =
                     [@ EXCEPT !.first = {}, !.rest = {}, !.on = {t}]]
    /\ UNCHANGED <<reach, failures, cool>>
Attempt(th) ==
    /\ walk[th].on = {}
    /\ \E t \in Upcoming(walk[th]), m \in walk[th].msgs :
        /\ t \in Closed
        /\ ~PassesOver(walk[th].op, t, m)
        /\ walk' = [walk EXCEPT ![th] =
                     [Without(@, t) EXCEPT !.on = {t}]]
    /\ UNCHANGED <<reach, failures, cool>>

Finished(w) == [w EXCEPT !.on = {}]

Carries(th, t) == \A m \in walk[th].msgs : <<t, m>> \in reach

\* A success resets the count, and the count only.
Succeed(th) ==
    /\ \E t \in walk[th].on :
        /\ Carries(th, t)
        /\ failures' = [failures EXCEPT ![t] = 0]
    /\ walk' = [walk EXCEPT ![th] = Idle]
    /\ UNCHANGED <<reach, cool>>

Fail(th) ==
    /\ \E t \in walk[th].on :
        /\ ~Carries(th, t)
        /\ failures' = Counted(t)
        /\ cool' = Opened(walk[th], t)
    /\ walk' = Observed([walk EXCEPT ![th] = Finished(@)], cool', reach)
    /\ UNCHANGED reach

\* send_frame raises: send_raw counts the failure and does not look at the
\* threshold, send ends with the exception and counts nothing.
RaiseInSend(th) ==
    /\ walk[th].op = "send"
    /\ walk[th].on \cap Raising # {}
    /\ walk' = [walk EXCEPT ![th] = Idle]
    /\ UNCHANGED <<reach, failures, cool>>
RaiseInSendRaw(th) ==
    /\ walk[th].op = "send_raw"
    /\ \E t \in walk[th].on \cap Raising : failures' = Counted(t)
    /\ walk' = [walk EXCEPT ![th] =
                 [Finished(@) EXCEPT !.healthy = walk[th].healthy \ walk[th].on]]
    /\ UNCHANGED <<reach, cool>>

\* No candidate is left: the walk reports failure.
Exhausted(w) == w.op # "idle" /\ w.on = {} /\ Upcoming(w) = {}
GiveUp(th) ==
    /\ Exhausted(walk[th])
    /\ walk' = [walk EXCEPT ![th] = Idle]
    /\ UNCHANGED <<reach, failures, cool>>

-----------------------------------------------------------------------------
Init ==
    /\ reach \in SUBSET Carriable
    /\ failures = [t \in Transports |-> 0]
    /\ cool = [t \in Transports |-> 0]
    /\ walk = [th \in Threads |-> Idle]

Start(th) ==
    \/ \E m \in Messages : Begin(th, "send", m)
    \/ \E m \in RawMessages : Begin(th, "send_raw", m)

Step(th) ==
    \/ Skip(th)
    \/ Attempt(th)
    \/ Succeed(th)
    \/ Fail(th)
    \/ RaiseInSend(th)
    \/ RaiseInSendRaw(th)
    \/ GiveUp(th)

Next ==
    \/ \E t \in Transports, m \in Messages : LinkUp(t, m) \/ LinkDown(t, m)
    \/ Tick
    \/ \E th \in Threads : Start(th) \/ Step(th)

Spec == Init /\ [][Next]_vars

\* Time passes, and a call of send_frame returns (every medium bounds it by a
\* timeout).  Nothing obliges a thread to start a walk.
FairSpec == Spec /\ WF_vars(Tick) /\ \A th \in Threads : WF_vars(Step(th))

-----------------------------------------------------------------------------
(* Properties.                                                             *)

\* "Walk the chain until one transport accepts the frame"
\* (transport_fallback.py:13): when a walk reports failure, no transport was
\* eligible for the message, closed and reaching its recipient all along,
\* whatever the other threads, the links and the clock did meanwhile.
NoHealthyTransportMissed ==
    \A th \in Threads : Exhausted(walk[th]) => walk[th].healthy = {}

\* "Addressing-mode ineligibility is not a transport failure: skipping keeps
\* the breaker closed for a healthy relay" (transport_fallback.py:128-129), and
\* constrained media never see the classes they refuse (:9-10): once everything
\* a transport can carry stays within its reach, its breaker closes for good.
HealthyTransportCloses ==
    \A t \in Transports :
        <>[](\A m \in Messages : <<t, m>> \in Carriable => <<t, m>> \in reach)
            => <>[](cool[t] = 0)

=============================================================================
