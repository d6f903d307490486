---------------------------- MODULE MCRadioLink -----------------------------
(* A radio link whose chain is empty, and three frames.  On LoRa the second   *)
(* needs more airtime than a window has and the third has a class that is     *)
(* refused; over BLE the third cannot be cut.                                 *)
EXTENDS AgentTransports

CONSTANTS short, long, task, loop, chain

MCFrames == {short, long, task}
MCClass == [f \in MCFrames |-> IF f = task THEN 2 ELSE 1]
MCPieces ==
    [lora   |-> [f \in MCFrames |-> IF f = short THEN 1 ELSE 2],
     ble    |-> [f \in MCFrames |-> IF f = task THEN 0 ELSE 2],
     rfcomm |-> [f \in MCFrames |-> 1]]
=============================================================================
