------------------------- MODULE HostFallbackProofs -------------------------
(* Proofs about HostFallback, for any callers, agents, kinds of report and     *)
(* storm threshold, and whether or not the governor may refuse.                *)
EXTENDS HostFallback, TLAPS

(* What makes ClaimWasEngaged inductive: a call about to claim a mode has had
   it engaged, and normal, which resume claims, always was.                  *)
CallsAreEngaged ==
    /\ "normal" \in engaged
    /\ \A th \in Threads : call[th].step = "claim" => call[th].to \in engaged

Inv == TypeOK /\ CallsAreEngaged /\ ClaimWasEngaged

-----------------------------------------------------------------------------
LEMMA FireType ==
    ASSUME NEW kind, NEW todo \in SUBSET Agents
    PROVE  Fire(kind, todo) \in Call /\ Fire(kind, todo).step # "claim"
BY DEF Fire, Severity, Call, Steps, Modes

LEMMA IdleType == Idle \in Call
BY DEF Idle, Call, Steps, Modes

\* A call that jumps to another step keeps its mode, the other calls stay.
LEMMA GotoEffect ==
    ASSUME TypeOK, NEW th \in Threads, NEW step \in Steps, Goto(th, step)
    PROVE  /\ call' \in [Threads -> Call]
           /\ call'[th].step = step /\ call'[th].to = call[th].to
           /\ \A u \in Threads : u # th => call'[u] = call[u]
BY DEF TypeOK, Goto, Call

LEMMA ReturnEffect ==
    ASSUME TypeOK, NEW th \in Threads, Return(th)
    PROVE  /\ call' \in [Threads -> Call]
           /\ call'[th].step # "claim"
           /\ \A u \in Threads : u # th => call'[u] = call[u]
<1> DEFINE next == IF call[th].todo = {} THEN Idle
                   ELSE [Idle EXCEPT !.step = "scan", !.todo = call[th].todo]
<1>1. call[th] \in Call
    BY DEF TypeOK
<1>2. next \in Call /\ next.step # "claim"
    BY <1>1 DEF Idle, Call, Steps, Modes
<1>3. call' = [call EXCEPT ![th] = next]
    BY DEF Return
<1> HIDE DEF next
<1> QED BY <1>2, <1>3 DEF TypeOK

LEMMA SetCall ==
    ASSUME TypeOK, NEW th \in Threads, NEW c \in Call, c.step # "claim",
           call' = [call EXCEPT ![th] = c]
    PROVE  /\ call' \in [Threads -> Call]
           /\ call'[th].step # "claim"
           /\ \A u \in Threads : u # th => call'[u] = call[u]
BY DEF TypeOK

-----------------------------------------------------------------------------
(* A step that engages no mode and changes no claim, and in which no call     *)
(* becomes ready to claim.                                                    *)
LEMMA QuietStep ==
    ASSUME Inv, UNCHANGED <<latch, mode, engaged>>,
           window' \in 0..Storm, stale' \subseteq Agents, reported' \subseteq Agents,
           overlapped' \in {"never", "once"},
           call' \in [Threads -> Call],
           \A u \in Threads : call'[u] = call[u] \/ call'[u].step # "claim"
    PROVE  Inv'
BY DEF Inv, TypeOK, CallsAreEngaged, ClaimWasEngaged

LEMMA InvStep == Inv /\ [Next]_vars => Inv'
<1> SUFFICES ASSUME Inv, [Next]_vars PROVE Inv'
    OBVIOUS
<1>t. TypeOK /\ CallsAreEngaged /\ ClaimWasEngaged
    BY DEF Inv
<1>s. {"idle", "judge", "engage", "claim", "resume", "clear", "forget", "scan"} = Steps
    BY DEF Steps
<1>1. CASE UNCHANGED vars
    BY <1>1, <1>t DEF vars, Inv, TypeOK, CallsAreEngaged, ClaimWasEngaged
<1>2. ASSUME NEW th \in Callers, NEW kind \in Kinds, Report(th, kind) PROVE Inv'
  <2>1. th \in Threads /\ Fire(kind, {}) \in Call /\ Fire(kind, {}).step # "claim"
    BY FireType DEF Threads
  <2>2. window' \in 0..Storm
    BY <1>2, <1>t, StormAssumption DEF Report, TypeOK
  <2> QED BY <1>2, <1>t, <2>1, <2>2, SetCall, QuietStep DEF Report, Overlaps, TypeOK
<1>3. ASSUME NEW th \in Callers, Resume(th) PROVE Inv'
  <2>1. th \in Threads
    BY DEF Threads
  <2> QED BY <1>3, <1>t, <1>s, <2>1, GotoEffect, QuietStep DEF Resume, Overlaps, TypeOK
<1>4. ASSUME NEW th \in Threads, Judge(th) PROVE Inv'
  <2>1. CASE Return(th)
    BY <1>4, <2>1, <1>t, ReturnEffect, QuietStep DEF Judge, TypeOK
  <2>2. CASE Goto(th, "engage")
    BY <1>4, <2>2, <1>t, <1>s, GotoEffect, QuietStep DEF Judge, TypeOK
  <2> QED BY <1>4, <2>1, <2>2 DEF Judge
<1>5. ASSUME NEW th \in Threads, Engage(th) PROVE Inv'
  <2>1. /\ call' \in [Threads -> Call] /\ call'[th].to = call[th].to
        /\ \A u \in Threads : u # th => call'[u] = call[u]
    BY <1>5, <1>t, <1>s, GotoEffect DEF Engage
  <2>2. call[th].to \in Modes
    BY <1>t DEF TypeOK, Call
  <2> QED BY <1>5, <1>t, <2>1, <2>2
          DEF Engage, Inv, TypeOK, CallsAreEngaged, ClaimWasEngaged
<1>6. ASSUME NEW th \in Threads, Refuse(th) PROVE Inv'
  <2>1. Idle.step # "claim"
    BY DEF Idle
  <2> QED BY <1>6, <1>t, <2>1, IdleType, SetCall, QuietStep DEF Refuse, TypeOK
<1>7. ASSUME NEW th \in Threads, Claim(th) PROVE Inv'
  <2>1. /\ call' \in [Threads -> Call] /\ call'[th].step # "claim"
        /\ \A u \in Threads : u # th => call'[u] = call[u]
    BY <1>7, <1>t, ReturnEffect DEF Claim
  <2>2. call[th].to \in Modes /\ call[th].to \in engaged
    BY <1>7, <1>t DEF Claim, TypeOK, Call, CallsAreEngaged
  <2> QED BY <1>7, <1>t, <2>1, <2>2
          DEF Claim, Inv, TypeOK, CallsAreEngaged, ClaimWasEngaged
<1>8. ASSUME NEW th \in Threads, ResumeGovernor(th) PROVE Inv'
  <2>1. /\ call' \in [Threads -> Call] /\ call'[th].step = "clear"
        /\ \A u \in Threads : u # th => call'[u] = call[u]
    BY <1>8, <1>t, <1>s, GotoEffect DEF ResumeGovernor
  <2> QED BY <1>8, <1>t, <2>1
          DEF ResumeGovernor, Inv, TypeOK, CallsAreEngaged, ClaimWasEngaged, Modes
<1>9. ASSUME NEW th \in Threads, ResumeController(th) PROVE Inv'
  <2>1. /\ call' \in [Threads -> Call] /\ call'[th].step = "forget"
        /\ \A u \in Threads : u # th => call'[u] = call[u]
    BY <1>9, <1>t, <1>s, GotoEffect DEF ResumeController
  <2>2. window' \in 0..Storm
    BY <1>9, StormAssumption DEF ResumeController
  <2> QED BY <1>9, <1>t, <2>1, <2>2
          DEF ResumeController, Inv, TypeOK, CallsAreEngaged, ClaimWasEngaged, Modes
<1>10. ASSUME NEW th \in Threads, ForgetReports(th) PROVE Inv'
  <2>1. Idle.step # "claim"
    BY DEF Idle
  <2> QED BY <1>10, <1>t, <2>1, IdleType, SetCall, QuietStep DEF ForgetReports, TypeOK
<1>11. CASE Scan
  <2> DEFINE c == [Idle EXCEPT !.step = "scan", !.todo = stale]
  <2>1. Loop \in Threads /\ c \in Call /\ c.step # "claim"
    BY <1>t DEF Threads, TypeOK, Idle, Call, Steps, Modes
  <2>2. call' = [call EXCEPT ![Loop] = c]
    BY <1>11 DEF Scan
  <2> HIDE DEF c
  <2> QED BY <1>11, <1>t, <2>1, <2>2, SetCall, QuietStep DEF Scan, Overlaps, TypeOK
<1>12. CASE ScanAgent
  <2>1. PICK a \in call[Loop].todo :
          /\ reported' = reported \cup {a}
          /\ call' = [call EXCEPT ![Loop] =
               IF a \notin reported THEN Fire("network_peer_lost", call[Loop].todo \ {a})
               ELSE IF call[Loop].todo \ {a} = {} THEN Idle
               ELSE [@ EXCEPT !.todo = call[Loop].todo \ {a}]]
    BY <1>12 DEF ScanAgent
  <2> DEFINE c == IF a \notin reported THEN Fire("network_peer_lost", call[Loop].todo \ {a})
                  ELSE IF call[Loop].todo \ {a} = {} THEN Idle
                  ELSE [call[Loop] EXCEPT !.todo = call[Loop].todo \ {a}]
  <2>2. Loop \in Threads /\ call[Loop] \in Call /\ call[Loop].todo \subseteq Agents
    BY <1>t DEF Threads, TypeOK, Call
  <2>3. call[Loop].step = "scan"
    BY <1>12 DEF ScanAgent
  <2>4. [call[Loop] EXCEPT !.todo = call[Loop].todo \ {a}] \in Call
    BY <2>2 DEF Call
  <2>5. [call[Loop] EXCEPT !.todo = call[Loop].todo \ {a}].step # "claim"
    BY <2>2, <2>3 DEF Call
  <2>6. Idle.step # "claim"
    BY DEF Idle
  <2>7. c \in Call /\ c.step # "claim"
    BY <2>2, <2>4, <2>5, <2>6, IdleType, FireType
  <2>8. call' = [call EXCEPT ![Loop] = c]
    BY <2>1
  <2> HIDE DEF c
  <2>9. reported' \subseteq Agents
    BY <2>1, <2>2, <1>t DEF TypeOK
  <2> QED BY <1>12, <1>t, <2>2, <2>7, <2>8, <2>9, SetCall, QuietStep DEF ScanAgent, TypeOK
<1>13. ASSUME NEW a \in Agents, AgentLost(a) \/ AgentBack(a) \/ CooldownEnds(a) PROVE Inv'
    BY <1>13, <1>t, QuietStep DEF AgentLost, AgentBack, CooldownEnds, TypeOK
<1>14. CASE ConflictAges
  <2>1. window' \in 0..Storm
    BY <1>14, <1>t, StormAssumption DEF ConflictAges, TypeOK
  <2> QED BY <1>14, <1>t, <2>1, QuietStep DEF ConflictAges, TypeOK
<1> QED BY <1>1, <1>2, <1>3, <1>4, <1>5, <1>6, <1>7, <1>8, <1>9, <1>10,
           <1>11, <1>12, <1>13, <1>14 DEF Next, Continue, Begin

LEMMA InitInv == Init => Inv
BY IdleType, StormAssumption
   DEF Init, Inv, TypeOK, CallsAreEngaged, ClaimWasEngaged, Modes, Idle

\* Every variable keeps its type.
THEOREM TypeCorrect == Spec => []TypeOK
<1>1. Inv => TypeOK
    BY DEF Inv
<1> QED BY InitInv, InvStep, <1>1, PTL DEF Spec

\* Notify before latch: the controller never claims a mode its governor has not
\* engaged (fallbacks.py:94-122), whatever calls interleave and even if the
\* governor refuses.
THEOREM NotifyBeforeLatch == Spec => []ClaimWasEngaged
<1>1. Inv => ClaimWasEngaged
    BY DEF Inv
<1> QED BY InitInv, InvStep, <1>1, PTL DEF Spec

-----------------------------------------------------------------------------
(* As long as no two calls have overlapped, at most one thread is in a call,  *)
(* and claim and latch may differ only between the two steps of one call:     *)
(* a report has engaged what it is about to claim, a resume has engaged the   *)
(* normal mode.                                                               *)
AtMostOneCall ==
    \A th, u \in Threads : call[th] # Idle /\ call[u] # Idle => th = u

ClaimFollows ==
    /\ \A th \in Threads : call[th].step = "claim" => call[th].to = latch
    /\ \A th \in Threads : call[th].step = "clear" => latch = "normal"
    /\ (\A th \in Threads : call[th].step \notin {"claim", "clear"}) => mode = latch

SoloInv == overlapped = "never" => AtMostOneCall /\ ClaimFollows

\* What the other threads do while th is in a call: nothing.
LEMMA Alone ==
    ASSUME SoloInv, overlapped = "never", NEW th \in Threads, call[th] # Idle
    PROVE  /\ \A u \in Threads \ {th} : call[u] = Idle /\ call[u].step = "idle"
           /\ call[th].step = "claim" => call[th].to = latch
           /\ call[th].step = "clear" => latch = "normal"
           /\ call[th].step \notin {"claim", "clear"} => mode = latch
<1>1. \A u \in Threads \ {th} : call[u] = Idle
    BY DEF SoloInv, AtMostOneCall
<1>2. Idle.step = "idle"
    BY DEF Idle
<1> QED BY <1>1, <1>2 DEF SoloInv, ClaimFollows

\* A step of the thread that is in a call (or begins one while nobody else is)
\* keeps it alone; what is left to show is how it leaves claim and latch.
LEMMA AloneStep ==
    ASSUME NEW th \in Threads, overlapped = "never",
           \A u \in Threads \ {th} : call[u] = Idle /\ call'[u] = call[u],
           call'[th].step = "claim" => call'[th].to = latch',
           call'[th].step = "clear" => latch' = "normal",
           call'[th].step \notin {"claim", "clear"} => mode' = latch'
    PROVE  SoloInv'
<1>1. Idle.step = "idle"
    BY DEF Idle
<1>2. AtMostOneCall'
    BY DEF AtMostOneCall
<1>3. ClaimFollows'
    BY <1>1 DEF ClaimFollows
<1> QED BY <1>2, <1>3 DEF SoloInv

\* A call that begins ends "never" or finds every other thread idle, and mode
\* and latch in agreement.
LEMMA BeginAlone ==
    ASSUME SoloInv, NEW th \in Threads, call[th] = Idle, Overlaps(th), overlapped' = "never"
    PROVE  /\ overlapped = "never" /\ mode = latch
           /\ \A u \in Threads \ {th} : call[u] = Idle
<1>1. overlapped = "never" /\ \A u \in Threads \ {th} : call[u] = Idle
    BY DEF Overlaps
<1>2. \A u \in Threads : call[u].step = "idle"
    BY <1>1 DEF Idle
<1> QED BY <1>1, <1>2 DEF SoloInv, ClaimFollows

LEMMA SoloStep == Inv /\ SoloInv /\ [Next]_vars => SoloInv'
<1> SUFFICES ASSUME Inv, SoloInv, [Next]_vars, overlapped' = "never" PROVE SoloInv'
    BY DEF SoloInv
<1>t. TypeOK
    BY DEF Inv
<1>s. {"idle", "judge", "engage", "claim", "resume", "clear", "forget", "scan"} = Steps
    BY DEF Steps
<1>i. Idle.step = "idle"
    BY DEF Idle
<1>1. CASE UNCHANGED vars
    BY <1>1 DEF vars, SoloInv, AtMostOneCall, ClaimFollows
<1>2. ASSUME NEW th \in Callers, NEW kind \in Kinds, Report(th, kind) PROVE SoloInv'
  <2>1. th \in Threads /\ Fire(kind, {}) \in Call
    BY FireType DEF Threads
  <2>2. Fire(kind, {}).step \notin {"claim", "clear"}
    BY DEF Fire
  <2>3. call'[th] = Fire(kind, {}) /\ \A u \in Threads \ {th} : call'[u] = call[u]
    BY <1>2, <1>t, <2>1 DEF Report, TypeOK
  <2> QED BY <1>2, <2>1, <2>2, <2>3, BeginAlone, AloneStep DEF Report
<1>3. ASSUME NEW th \in Callers, Resume(th) PROVE SoloInv'
  <2>1. th \in Threads
    BY DEF Threads
  <2>2. call'[th].step = "resume" /\ \A u \in Threads \ {th} : call'[u] = call[u]
    BY <1>3, <1>t, <1>s, <2>1, GotoEffect DEF Resume
  <2> QED BY <1>3, <2>1, <2>2, BeginAlone, AloneStep DEF Resume
<1>4. ASSUME NEW th \in Threads, Judge(th) PROVE SoloInv'
  <2>1. call[th] # Idle /\ overlapped = "never"
    BY <1>4, <1>i DEF Judge
  <2>2. /\ call'[th].step \notin {"claim", "clear"}
        /\ \A u \in Threads \ {th} : call'[u] = call[u]
    <3>1. CASE Return(th)
      BY <1>t, <1>i, <3>1 DEF Return, TypeOK, Idle
    <3>2. CASE Goto(th, "engage")
      BY <1>t, <1>s, <3>2, GotoEffect
    <3> QED BY <1>4, <3>1, <3>2 DEF Judge
  <2> QED BY <1>4, <2>1, <2>2, Alone, AloneStep DEF Judge
<1>5. ASSUME NEW th \in Threads, Engage(th) PROVE SoloInv'
  <2>1. call[th] # Idle /\ overlapped = "never"
    BY <1>5, <1>i DEF Engage
  <2>2. /\ call'[th].step = "claim" /\ call'[th].to = call[th].to
        /\ \A u \in Threads \ {th} : call'[u] = call[u]
    BY <1>5, <1>t, <1>s, GotoEffect DEF Engage
  <2> QED BY <1>5, <2>1, <2>2, Alone, AloneStep DEF Engage
<1>6. ASSUME NEW th \in Threads, Refuse(th) PROVE SoloInv'
  <2>1. call[th] # Idle /\ overlapped = "never"
    BY <1>6, <1>i DEF Refuse
  <2>2. call'[th].step = "idle" /\ \A u \in Threads \ {th} : call'[u] = call[u]
    BY <1>6, <1>t, <1>i DEF Refuse, TypeOK
  <2>3. mode = latch
    BY <1>6, <2>1, Alone DEF Refuse
  <2> QED BY <1>6, <2>1, <2>2, <2>3, Alone, AloneStep DEF Refuse
<1>7. ASSUME NEW th \in Threads, Claim(th) PROVE SoloInv'
  <2>1. call[th] # Idle /\ overlapped = "never"
    BY <1>7, <1>i DEF Claim
  <2>2. /\ call'[th].step \notin {"claim", "clear"}
        /\ \A u \in Threads \ {th} : call'[u] = call[u]
    BY <1>7, <1>t, <1>i DEF Claim, Return, TypeOK, Idle
  <2>3. mode' = latch'
    BY <1>7, <2>1, Alone DEF Claim
  <2> QED BY <1>7, <2>1, <2>2, <2>3, Alone, AloneStep DEF Claim
<1>8. ASSUME NEW th \in Threads, ResumeGovernor(th) PROVE SoloInv'
  <2>1. call[th] # Idle /\ overlapped = "never"
    BY <1>8, <1>i DEF ResumeGovernor
  <2>2. call'[th].step = "clear" /\ \A u \in Threads \ {th} : call'[u] = call[u]
    BY <1>8, <1>t, <1>s, GotoEffect DEF ResumeGovernor
  <2> QED BY <1>8, <2>1, <2>2, Alone, AloneStep DEF ResumeGovernor
<1>9. ASSUME NEW th \in Threads, ResumeController(th) PROVE SoloInv'
  <2>1. call[th] # Idle /\ overlapped = "never"
    BY <1>9, <1>i DEF ResumeController
  <2>2. call'[th].step = "forget" /\ \A u \in Threads \ {th} : call'[u] = call[u]
    BY <1>9, <1>t, <1>s, GotoEffect DEF ResumeController
  <2>3. mode' = latch'
    BY <1>9, <2>1, Alone DEF ResumeController
  <2> QED BY <1>9, <2>1, <2>2, <2>3, Alone, AloneStep DEF ResumeController
<1>10. ASSUME NEW th \in Threads, ForgetReports(th) PROVE SoloInv'
  <2>1. call[th] # Idle /\ overlapped = "never"
    BY <1>10, <1>i DEF ForgetReports
  <2>2. call'[th].step = "idle" /\ \A u \in Threads \ {th} : call'[u] = call[u]
    BY <1>10, <1>t, <1>i DEF ForgetReports, TypeOK
  <2>3. mode = latch
    BY <1>10, <2>1, Alone DEF ForgetReports
  <2> QED BY <1>10, <2>1, <2>2, <2>3, Alone, AloneStep DEF ForgetReports
<1>11. CASE Scan
  <2>1. Loop \in Threads
    BY DEF Threads
  <2>2. call'[Loop].step = "scan" /\ \A u \in Threads \ {Loop} : call'[u] = call[u]
    BY <1>11, <1>t, <2>1 DEF Scan, TypeOK, Idle
  <2> QED BY <1>11, <2>1, <2>2, BeginAlone, AloneStep DEF Scan
<1>12. CASE ScanAgent
  <2>1. Loop \in Threads /\ call[Loop] # Idle /\ overlapped = "never"
    BY <1>12, <1>i DEF ScanAgent, Threads
  <2>2. PICK a \in call[Loop].todo :
          call' = [call EXCEPT ![Loop] =
               IF a \notin reported THEN Fire("network_peer_lost", call[Loop].todo \ {a})
               ELSE IF call[Loop].todo \ {a} = {} THEN Idle
               ELSE [@ EXCEPT !.todo = call[Loop].todo \ {a}]]
    BY <1>12 DEF ScanAgent
  <2>3. call[Loop] \in Call /\ call[Loop].step = "scan"
    BY <1>12, <1>t, <2>1 DEF ScanAgent, TypeOK
  <2>4. Fire("network_peer_lost", call[Loop].todo \ {a}).step \notin {"claim", "clear"}
    BY DEF Fire
  <2>5. [call[Loop] EXCEPT !.todo = call[Loop].todo \ {a}].step = "scan"
    BY <2>3 DEF Call
  <2>6. /\ call'[Loop].step \notin {"claim", "clear"}
        /\ \A u \in Threads \ {Loop} : call'[u] = call[u]
    BY <1>t, <1>i, <2>1, <2>2, <2>4, <2>5 DEF TypeOK
  <2>7. mode = latch
    BY <2>1, <2>3, Alone
  <2> QED BY <1>12, <2>1, <2>6, <2>7, Alone, AloneStep DEF ScanAgent
<1>13. ASSUME NEW a \in Agents, AgentLost(a) \/ AgentBack(a) \/ CooldownEnds(a) PROVE SoloInv'
    BY <1>13 DEF AgentLost, AgentBack, CooldownEnds, SoloInv, AtMostOneCall, ClaimFollows
<1>14. CASE ConflictAges
    BY <1>14 DEF ConflictAges, SoloInv, AtMostOneCall, ClaimFollows
<1> QED BY <1>1, <1>2, <1>3, <1>4, <1>5, <1>6, <1>7, <1>8, <1>9, <1>10,
           <1>11, <1>12, <1>13, <1>14 DEF Next, Continue, Begin

LEMMA InitSolo == Init => SoloInv
BY DEF Init, SoloInv, AtMostOneCall, ClaimFollows, Idle

\* As long as no two calls have overlapped, claim and latch agree between calls
\* (fallbacks.py:94-122, host.py:384-388), whatever is reported, refused or resumed.
THEOREM ClaimsAgree == Spec => []ClaimAgreesWithLatch
<1>1. SoloInv => ClaimAgreesWithLatch
    BY DEF SoloInv, ClaimFollows, ClaimAgreesWithLatch, Idle
<1> QED BY InitInv, InvStep, InitSolo, SoloStep, <1>1, PTL DEF Spec

=============================================================================
