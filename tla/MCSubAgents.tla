---------------------------- MODULE MCSubAgents ----------------------------
(* TLC instances of SubAgents.  The threads are interchangeable. *)
EXTENDS SubAgents, TLC

Symmetry == Permutations(Threads)
=============================================================================
