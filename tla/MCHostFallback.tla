---------------------------- MODULE MCHostFallback ----------------------------
(* Instance of HostFallback for TLC.                                            *)
EXTENDS HostFallback, TLC

AllKinds == {"network_transport_exhausted", "network_peer_lost",
             "memory_sync_conflict_storm", "audit_chain_broken"}
=============================================================================
