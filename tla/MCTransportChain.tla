--------------------------- MODULE MCTransportChain ---------------------------
(* Instance of TransportChain for TLC: an agent with a TCP link and the relay.  *)
EXTENDS TransportChain, TLC

CONSTANTS tcp, relay, task, fleet

\* A directed task (class 2), and one sent to the whole fleet ("*").
Everything == Transports \X Messages
AddressedMedia == {p \in Everything : p[1] # relay \/ p[2] # fleet}
=============================================================================
