------------------------------ MODULE MCRelay ------------------------------
(* Two frames from agent a to agent b.                                    *)
EXTENDS Relay

MCMessages == 1..2
MCSender == [m \in MCMessages |-> "a"]
MCRecipient == [m \in MCMessages |-> "b"]
=============================================================================
