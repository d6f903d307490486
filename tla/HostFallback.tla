---------------------------- MODULE HostFallback ----------------------------
(***************************************************************************)
(* The safety latch of the fleet host: NetworkFallbackController           *)
(* (fallbacks.py) reacts to reports, makes the host's governor engage a    *)
(* mode (host.py _HostGovernor, _latch), then claims that mode itself.     *)
(*                                                                         *)
(* Reports come from several threads: one TCP reader thread per peer       *)
(* (_on_peer_connection_lost), the host loop (check_liveness), whoever     *)
(* else holds the controller; the operator's dashboard thread resumes.     *)
(* The controller's lock covers single assignments and the governor has    *)
(* none, so every call is a sequence of steps that interleave with the     *)
(* steps of the other calls.                                               *)
(***************************************************************************)
EXTENDS Naturals, FiniteSets

CONSTANTS
    Callers,     \* threads that report or resume
    Agents,      \* paired agents the host watches
    Kinds,       \* kinds of violation reported by the callers
    Storm,       \* conflict_storm_threshold
    MayRefuse    \* the governor may raise instead of engaging

CONSTANT Loop    \* the host loop thread, which runs check_liveness

ASSUME LoopAssumption == Loop \notin Callers
ASSUME StormAssumption == Storm \in Nat \ {0}
ASSUME KindsAssumption ==
    Kinds \subseteq {"network_transport_exhausted", "network_peer_lost",
                     "memory_sync_conflict_storm", "audit_chain_broken"}
ASSUME RefuseAssumption == MayRefuse \in BOOLEAN

VARIABLES
    latch,       \* the governor's mode: host._mode
    mode,        \* the mode the controller claims
    window,      \* conflicts in the last minute, counted up to Storm
    stale,       \* agents whose heartbeats are overdue
    reported,    \* agents reported within the report cooldown
    call,        \* the call each thread is in
    engaged,     \* history: modes the governor has engaged
    overlapped   \* history: whether a call began while another was in progress

vars == <<latch, mode, window, stale, reported, call, engaged, overlapped>>

Threads == Callers \cup {Loop}
Modes == {"normal", "paused", "safe_state", "halted"}
Steps == {"idle", "judge", "engage", "claim", "resume", "clear", "forget", "scan"}
(* step: what the call does next.  to: the mode it is latching.  todo: the
   agents check_liveness found stale and has still to look at.              *)
Call == [step : Steps, to : Modes, todo : SUBSET Agents]
Idle == [step |-> "idle", to |-> "normal", todo |-> {}]

TypeOK ==
    /\ latch \in Modes
    /\ mode \in Modes
    /\ window \in 0..Storm
    /\ stale \subseteq Agents
    /\ reported \subseteq Agents
    /\ call \in [Threads -> Call]
    /\ engaged \subseteq Modes
    /\ overlapped \in {"never", "once"}

-----------------------------------------------------------------------------
(* Helpers.                                                                *)

\* NETWORK_FALLBACK_SEVERITIES, and the mode each severity latches.
Severity(kind) ==
    CASE kind = "memory_sync_conflict_storm" -> "safe_state"
      [] kind = "audit_chain_broken" -> "halted"
      [] OTHER -> "paused"

Goto(th, step) == call' = [call EXCEPT ![th] = [@ EXCEPT !.step = step]]

\* A finished call; check_liveness goes on with the agents it has left.
Return(th) == call' = [call EXCEPT ![th] =
                        IF @.todo = {} THEN Idle
                        ELSE [Idle EXCEPT !.step = "scan", !.todo = call[th].todo]]

\* th begins a call.
Overlaps(th) ==
    overlapped' = IF \E other \in Threads \ {th} : call[other] # Idle
                  THEN "once" ELSE overlapped

\* Where a report of kind goes first.
Fire(kind, todo) ==
    [step |-> IF kind = "memory_sync_conflict_storm" THEN "judge" ELSE "engage",
     to |-> Severity(kind), todo |-> todo]

-----------------------------------------------------------------------------
(* report_violation and _fire                                              *)

\* A conflict enters the window under the lock; the others fire at once.
Report(th, kind) ==
    /\ call[th] = Idle
    /\ call' = [call EXCEPT ![th] = Fire(kind, {})]
    /\ window' = IF kind = "memory_sync_conflict_storm" /\ window < Storm
                 THEN window + 1 ELSE window
    /\ Overlaps(th)
    /\ UNCHANGED <<latch, mode, stale, reported, engaged>>

\* The length of the window is read without the lock.
Judge(th) ==
    /\ call[th].step = "judge"
    /\ IF window < Storm THEN Return(th) ELSE Goto(th, "engage")
    /\ UNCHANGED <<latch, mode, window, stale, reported, engaged, overlapped>>

\* The governor engages first.
BrokenEngage(th) ==
    /\ call[th].step = "engage"
    /\ latch' = IF mode = call[th].to THEN latch ELSE call[th].to
    /\ engaged' = engaged \cup {call[th].to}
    /\ Goto(th, "claim")
    /\ UNCHANGED <<mode, window, stale, reported, overlapped>>
Engage(th) ==
    /\ call[th].step = "engage"
    /\ latch' = call[th].to
    /\ engaged' = engaged \cup {call[th].to}
    /\ Goto(th, "claim")
    /\ UNCHANGED <<mode, window, stale, reported, overlapped>>

\* It raises: the report ends with the exception and claims nothing.
BrokenRefuse(th) ==
    /\ MayRefuse
    /\ call[th].step = "engage"
    /\ Goto(th, "claim")
    /\ UNCHANGED <<latch, mode, window, stale, reported, engaged, overlapped>>
Refuse(th) ==
    /\ MayRefuse
    /\ call[th].step = "engage"
    /\ call' = [call EXCEPT ![th] = Idle]
    /\ UNCHANGED <<latch, mode, window, stale, reported, engaged, overlapped>>

\* Then the controller claims the mode; for a halt it raises afterwards, which
\* ends the caller's handler like a return does.
Claim(th) ==
    /\ call[th].step = "claim"
    /\ mode' = call[th].to
    /\ Return(th)
    /\ UNCHANGED <<latch, window, stale, reported, engaged, overlapped>>

-----------------------------------------------------------------------------
(* ShugonetHost.resume: the halt check, then governor, controller, reports. *)

Resume(th) ==
    /\ call[th] = Idle
    /\ latch # "halted"
    /\ Goto(th, "resume")
    /\ Overlaps(th)
    /\ UNCHANGED <<latch, mode, window, stale, reported, engaged>>

ResumeGovernor(th) ==
    /\ call[th].step = "resume"
    /\ latch' = "normal"
    /\ engaged' = engaged \cup {"normal"}
    /\ Goto(th, "clear")
    /\ UNCHANGED <<mode, window, stale, reported, overlapped>>

BrokenResumeController(th) ==
    /\ call[th].step = "clear"
    /\ window' = 0
    /\ Goto(th, "forget")
    /\ UNCHANGED <<mode, latch, stale, reported, engaged, overlapped>>
ResumeController(th) ==
    /\ call[th].step = "clear"
    /\ window' = 0
    /\ mode' = "normal"
    /\ Goto(th, "forget")
    /\ UNCHANGED <<latch, stale, reported, engaged, overlapped>>

ForgetReports(th) ==
    /\ call[th].step = "forget"
    /\ reported' = {}
    /\ call' = [call EXCEPT ![th] = Idle]
    /\ UNCHANGED <<latch, mode, window, stale, engaged, overlapped>>

-----------------------------------------------------------------------------
(* check_liveness, once a second in the host loop.                          *)

Scan ==
    /\ call[Loop] = Idle
    /\ stale # {}
    /\ call' = [call EXCEPT ![Loop] = [Idle EXCEPT !.step = "scan", !.todo = stale]]
    /\ Overlaps(Loop)
    /\ UNCHANGED <<latch, mode, window, stale, reported, engaged>>

\* An agent reported less than a cooldown ago is passed over, any other is
\* reported, even if it came back since the scan began.
ScanAgent ==
    /\ call[Loop].step = "scan"
    /\ \E a \in call[Loop].todo :
        LET left == call[Loop].todo \ {a} IN
        /\ reported' = reported \cup {a}
        /\ call' = [call EXCEPT ![Loop] =
                     IF a \notin reported THEN Fire("network_peer_lost", left)
                     ELSE IF left = {} THEN Idle ELSE [@ EXCEPT !.todo = left]]
    /\ UNCHANGED <<latch, mode, window, stale, engaged, overlapped>>

-----------------------------------------------------------------------------
(* The world: heartbeats stop and come back, a minute or a cooldown passes.  *)

AgentLost(a) ==
    /\ a \notin stale
    /\ stale' = stale \cup {a}
    /\ UNCHANGED <<latch, mode, window, reported, call, engaged, overlapped>>

AgentBack(a) ==
    /\ a \in stale
    /\ stale' = stale \ {a}
    /\ UNCHANGED <<latch, mode, window, reported, call, engaged, overlapped>>

ConflictAges ==
    /\ window > 0
    /\ window' = window - 1
    /\ UNCHANGED <<latch, mode, stale, reported, call, engaged, overlapped>>

CooldownEnds(a) ==
    /\ a \in reported
    /\ reported' = reported \ {a}
    /\ UNCHANGED <<latch, mode, window, stale, call, engaged, overlapped>>

-----------------------------------------------------------------------------
Init ==
    /\ latch = "normal"
    /\ mode = "normal"
    /\ window = 0
    /\ stale = {}
    /\ reported = {}
    /\ call = [th \in Threads |-> Idle]
    /\ engaged = {"normal"}
    /\ overlapped = "never"

\* What a thread does once it is in a call.
Continue(th) ==
    \/ Judge(th)
    \/ Engage(th)
    \/ Refuse(th)
    \/ Claim(th)
    \/ ResumeGovernor(th)
    \/ ResumeController(th)
    \/ ForgetReports(th)

Begin(th) == Resume(th) \/ \E kind \in Kinds : Report(th, kind)

Next ==
    \/ \E th \in Callers : Begin(th)
    \/ \E th \in Threads : Continue(th)
    \/ Scan
    \/ ScanAgent
    \/ \E a \in Agents : AgentLost(a) \/ AgentBack(a) \/ CooldownEnds(a)
    \/ ConflictAges

Spec == Init /\ [][Next]_vars

\* Calls run to their end, the loop keeps scanning (daemon thread, one pass a
\* second), the report cooldown (10 s) passes, and a governor that refuses does
\* not refuse the loop forever.  Agents need not come back and nobody needs to
\* resume.
FairSpec ==
    /\ Spec
    /\ \A th \in Threads : WF_vars(Continue(th))
    /\ SF_vars(Engage(Loop))
    /\ WF_vars(Scan)
    /\ WF_vars(ScanAgent)
    /\ \A a \in Agents : WF_vars(CooldownEnds(a))

-----------------------------------------------------------------------------
(* Properties.                                                             *)

\* Notify before latch (fallbacks.py:14-16, "a governor that must engage state
\* first ... If the governor cannot engage, the controller does NOT claim it
\* latched"): whatever calls interleave, the controller claims only a mode the
\* governor has engaged.
ClaimWasEngaged == mode \in engaged

\* "the controller does NOT claim it latched" (fallbacks.py:14-16), and resume
\* ends the claim with the latch: as long as no two calls overlapped, the mode
\* claimed between calls is the very mode the governor is in, through refusals,
\* storms, halts and resumes.
ClaimAgreesWithLatch ==
    overlapped = "never" /\ (\A th \in Threads : call[th] = Idle) => mode = latch

\* A lost agent is not forgotten: as long as it stays silent the host keeps
\* leaving the normal mode, however often the operator resumes.
LostAgentIsLatched ==
    \A a \in Agents : <>[](a \in stale) => []<>(latch # "normal")

-----------------------------------------------------------------------------
(* What the repository says and the code does not do.                      *)

\* "halt: terminal until process restart" (fallbacks.py:10): nothing ends a
\* halt.
HaltIsTerminal == [][latch = "halted" => latch' = "halted"]_vars

=============================================================================
