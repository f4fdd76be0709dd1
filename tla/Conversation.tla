---------------------------- MODULE Conversation ----------------------------
(***************************************************************************)
(* What Agent::run (src/src/agent/agent.cpp) promises, without threads,    *)
(* vectors and restarts: a log that only grows, and runs that each write   *)
(* to it a question, any number of calls with exactly their results behind *)
(* them, and an answer, in this order.  A run may give up between any two  *)
(* entries, a crash ends all of them, and nothing but the answer it wrote  *)
(* is what a run tells its caller.  Module Agent implements this.          *)
(***************************************************************************)
EXTENDS Integers, Sequences

CONSTANTS
  Runs,      \* the calls of run()
  MaxCalls,  \* the most tool calls in one answer of the LLM
  Lossy      \* may an entry fail to be stored?

VARIABLES
  log,   \* the stored history
  run    \* what each run is doing

vars == <<log, run>>

\* A question, an answer of the LLM that calls n tools, the result of one of
\* them, and the final answer.
Entry(r, kind, n) == [run |-> r, kind |-> kind, n |-> n]

\* owes: the results the run has to write before the LLM is asked again.
New      == [pc |-> "new", owes |-> 0]
Asking   == [pc |-> "asking", owes |-> 0]
Owing(n) == [pc |-> "working", owes |-> n]
Answered == [pc |-> "answered", owes |-> 0]
Left     == [pc |-> "left", owes |-> 0]

Init ==
  /\ log = << >>
  /\ run = [r \in Runs |-> New]

Write(r, kind, n) ==
  \/ log' = Append(log, Entry(r, kind, n))
  \/ Lossy /\ UNCHANGED log

Becomes(r, state) == run' = [run EXCEPT ![r] = state]

Begin(r) ==
  /\ run[r] = New
  /\ Becomes(r, Asking)
  /\ UNCHANGED log

Question(r) ==
  /\ run[r] = Asking
  /\ Write(r, "question", 0)
  /\ Becomes(r, Owing(0))

Call(r) ==
  /\ run[r] = Owing(0)
  /\ \E n \in 1 .. MaxCalls : Write(r, "call", n) /\ Becomes(r, Owing(n))

Result(r) ==
  /\ run[r].pc = "working"
  /\ run[r].owes > 0
  /\ Write(r, "result", 0)
  /\ Becomes(r, Owing(run[r].owes - 1))

Answer(r) ==
  /\ run[r] = Owing(0)
  /\ Write(r, "answer", 0)
  /\ Becomes(r, Answered)

\* Cancelled, or an exception.
GiveUp(r) ==
  /\ run[r].pc = "working"
  /\ Becomes(r, Left)
  /\ UNCHANGED log

\* The process dies.
Crash ==
  /\ run' = [r \in Runs |-> IF run[r].pc \in {"asking", "working"} THEN Left ELSE run[r]]
  /\ UNCHANGED log

Next ==
  \/ \E r \in Runs :
       Begin(r) \/ Question(r) \/ Call(r) \/ Result(r) \/ Answer(r) \/ GiveUp(r)
  \/ Crash

Spec == Init /\ [][Next]_vars

\* A run that began asks its question and comes to an end.
FairSpec ==
  /\ Spec
  /\ \A r \in Runs : WF_vars(Question(r)) /\ WF_vars(Answer(r) \/ GiveUp(r))

=============================================================================
