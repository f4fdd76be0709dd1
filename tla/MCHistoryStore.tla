--------------------------- MODULE MCHistoryStore ---------------------------
(***************************************************************************)
(* TLC instance of HistoryStore: the processes are model values that may   *)
(* be exchanged.                                                           *)
(***************************************************************************)
EXTENDS HistoryStore, TLC

Symmetry == Permutations(Procs)
=============================================================================
