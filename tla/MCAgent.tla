------------------------------ MODULE MCAgent ------------------------------
(***************************************************************************)
(* TLC instances of Agent.  The threads are interchangeable.  HistoryView  *)
(* is for runs whose properties are about the database: what the actions   *)
(* of Agent read of messages is its length and which elements are UTF-8.   *)
(***************************************************************************)
EXTENDS Agent, TLC

Symmetry == Permutations(Threads)

HistoryView == <<[p \in 1 .. Len(messages) |-> messages[p].utf8],
                 db, th, up, boots, nextRun, outcome>>
=============================================================================
