------------------------------ MODULE Monitor -------------------------------
(***************************************************************************)
(* The tables of the Monitor (src/src/agent/monitor.cpp) as values, and    *)
(* what its methods make of them.  Each method holds the lock mutex_, so   *)
(* the modules that use a table call one operator in one step.             *)
(***************************************************************************)
EXTENDS Integers, Sequences

\* Mutant of UpdateAgentState: no return after the first hit.
UpdateEvery(table, id, state) ==
  [i \in 1 .. Len(table) |->
     IF table[i].id = id THEN [table[i] EXCEPT !.state = state] ELSE table[i]]

\* update_agent_state: the first agent of that id.
UpdateAgentState(table, id, state) ==
  LET hits == {i \in 1 .. Len(table) : table[i].id = id} IN
  IF hits = {} THEN table
  ELSE [table EXCEPT ![CHOOSE i \in hits : \A j \in hits : i <= j].state = state]

RegisterAgent(table, id) == Append(table, [id |-> id, state |-> "running"])

\* Mutant of RecordLast: the newest entry is erased.
RecordLastFull(queue, entry, limit) ==
  IF Len(queue) >= limit THEN queue ELSE Append(queue, entry)

\* record_tool_execution, record_internal_message: push_back, and beyond the
\* limit the oldest entry is erased.
RecordLast(queue, entry, limit) ==
  IF Len(queue) >= limit THEN Append(Tail(queue), entry) ELSE Append(queue, entry)

=============================================================================
