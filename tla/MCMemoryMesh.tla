---------------------------- MODULE MCMemoryMesh ----------------------------
(* Instance of MemoryMesh for TLC.                                            *)
EXTENDS MemoryMesh, TLC

CONSTANTS a, b

OneFact == {<<a, 1>>}
TwoFacts == {<<a, 1>>, <<a, 2>>}
=============================================================================
