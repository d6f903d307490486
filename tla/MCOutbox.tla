------------------------------ MODULE MCOutbox ------------------------------
(* Instance of Outbox for TLC: ids and threads are interchangeable.          *)
EXTENDS Outbox, TLC

Symmetry == Permutations(Ids) \cup Permutations(Threads)
=============================================================================
