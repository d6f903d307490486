--------------------------- MODULE AgentTransports ---------------------------
(* The transports of an agent: TransportChain, which walks them, and one of   *)
(* them looked into, the radio link of RadioLink.  What the chain sees of the *)
(* link is its send_frame (in Accepts, Fits and reach); the link meets the    *)
(* chain as a thread of its own that drains (in Drainers).                    *)
EXTENDS TransportChain

CONSTANTS Frames, Class, Pieces, Drainers, MaxQueue, MaxPending, Budget, MaxFaults, MaxAir

VARIABLES kind, open, outbox, drain, used, air, order, pending, stale, faults,
          accepted, written, handed, broken, overlapped

Radio == INSTANCE RadioLink

(* The link while the chain has nothing to walk for.                          *)
RadioSpec ==
    /\ Init /\ Radio!Init
    /\ [][Radio!Next /\ UNCHANGED vars]_<<vars, Radio!vars>>
    /\ Radio!Fairness

(* While its drains take turns, no frame leaves a radio's queue before its    *)
(* last segment was written (lora_transport.py:260-294, the same for          *)
(* Bluetooth).                                                                *)
LeavesOnlyWritten == Radio!LeavesOnlyWritten

(* A duty-cycle window carries at most one segment too many for each drain    *)
(* that overlaps with the first (lora_transport.py:276).                      *)
AirtimeIsBounded == Radio!AirtimeIsBounded

(* While its drains take turns, the assembler holds no entry of a frame that  *)
(* was handed on already (protocol.py:541-573).                               *)
NoGhostEntries == Radio!NoGhostEntries

(* An accepted frame that nothing blocks arrives at the other end.            *)
AcceptedArrives == Radio!AcceptedArrives
=============================================================================
