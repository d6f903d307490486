----------------------------- MODULE MCTcpLinks -----------------------------
(* An agent and its host: two frames to the host, sent by two threads.       *)
EXTENDS TcpLinks

CONSTANTS a, h, m1, m2, t1, t2

MCFrames == {m1, m2}
MCFrom == [m \in MCFrames |-> a]
MCTo == [m \in MCFrames |-> h]
MCBy == [m \in MCFrames |-> IF m = m1 THEN t1 ELSE t2]
MCKnown == [n \in {a, h} |-> IF n = a THEN {h} ELSE {}]
=============================================================================
