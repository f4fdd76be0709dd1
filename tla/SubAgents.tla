----------------------------- MODULE SubAgents -----------------------------
(***************************************************************************)
(* Sub-agents (Agent::spawn_sub_agent in src/src/agent/agent.cpp) and the  *)
(* agent table of the Monitor (src/src/agent/monitor.cpp).                 *)
(*                                                                         *)
(* A tool call "spawn_agent" runs a new Agent object to its end inside the *)
(* call, so each request thread has a stack of agents, the main agent at   *)
(* the bottom.  A sub-agent has half the iterations of its parent and its  *)
(* own counter of sub-agents; the main agent, and with it its counter, is  *)
(* shared by all threads without a lock.  The Monitor has a lock.          *)
(***************************************************************************)
EXTENDS Monitor, FiniteSets

CONSTANTS
  Threads,        \* the request threads that call run() of the main agent
  MaxRuns,        \* bound: client requests over the whole behaviour
  MaxIterations,  \* max_iterations_ of the main agent
  MaxCalls,       \* bound: tool calls in one answer of the LLM
  MaxAgents,      \* bound: agents the Monitor ever registers
  MaxMessages,    \* how many messages the Monitor keeps (100 in the code)
  MayThrow        \* may chat() or handle_tool_calls throw?

ASSUME SubAgentsAssumption ==
  /\ MaxRuns \in Nat
  /\ MaxIterations \in Nat
  /\ MaxCalls \in Nat \ {0}
  /\ MaxAgents \in Nat
  /\ MaxMessages \in Nat \ {0}
  /\ MayThrow \in BOOLEAN

VARIABLES
  stack,     \* the agents each thread is running, innermost last
  nextId,    \* next_sub_agent_id_ of the main agent
  agents,    \* agents_ of the Monitor
  internal,  \* internal_messages_ of the Monitor
  nextRun,   \* the next client request gets this number
  requests,  \* history: LLM requests made for the current client request
  lost       \* history: agents whose run() an exception ended

vars == <<stack, nextId, agents, internal, nextRun, requests, lost>>

\* agent_id_ is the path from the main agent: "main/sub-0/sub-2" is <<0, 2>>.
Main == << >>

\* The Agent object and the local variables of its run().
Frame == [id     : Seq(Nat),
          budget : 0 .. MaxIterations,  \* max_iterations_
          iter   : 0 .. MaxIterations,  \* iteration
          calls  : 0 .. MaxCalls,       \* tool_calls.size()
          k      : 0 .. MaxCalls,       \* the call being handled
          next   : Nat,                 \* next_sub_agent_id_ (of a sub-agent)
          read   : Nat,                 \* the value next_sub_agent_id_++ read
          pc     : {"loop", "reply", "tool", "spawn"}]

NewAgent(id, budget) ==
  [id |-> id, budget |-> budget, iter |-> 0, calls |-> 0, k |-> 0,
   next |-> 0, read |-> 0, pc |-> "loop"]

TypeOK ==
  /\ stack \in [Threads -> Seq(Frame)]
  /\ nextId \in Nat
  /\ agents \in Seq([id : Seq(Nat), state : {"running", "completed"}])
  /\ internal \in Seq([kind : {"task", "result"}, agent : Seq(Nat)])
  /\ nextRun \in 1 .. MaxRuns + 1
  /\ requests \in [Threads -> Nat]
  /\ lost \subseteq Seq(Nat)

Init ==
  /\ stack = [t \in Threads |-> << >>]
  /\ nextId = 0
  /\ agents = <<[id |-> Main, state |-> "running"]>>
  /\ internal = << >>
  /\ nextRun = 1
  /\ requests = [t \in Threads |-> 0]
  /\ lost = {}

-----------------------------------------------------------------------------
(* run() of the innermost agent of a thread *)

Depth(t) == Len(stack[t])
Top(t) == stack[t][Depth(t)]
At(t, pc) == Depth(t) > 0 /\ Top(t).pc = pc
SetTop(t, f) == stack' = [stack EXCEPT ![t][Depth(t)] = f]

\* record_internal_message: the task a sub-agent is given, or its result.
Told(kind, id) == RecordLast(internal, [kind |-> kind, agent |-> id], MaxMessages)

\* Mutant of Handled: the iteration is not counted.
HandledUncounted(f) ==
  IF f.k < f.calls THEN [f EXCEPT !.pc = "tool", !.k = @ + 1]
  ELSE [f EXCEPT !.pc = "loop", !.calls = 0, !.k = 0]

\* The current tool call has its result: on to the next call or iteration.
Handled(f) ==
  IF f.k < f.calls THEN [f EXCEPT !.pc = "tool", !.k = @ + 1]
  ELSE [f EXCEPT !.pc = "loop", !.iter = @ + 1, !.calls = 0, !.k = 0]

\* A client request reaches run() of the main agent.
Run(t) ==
  /\ Depth(t) = 0
  /\ nextRun <= MaxRuns
  /\ nextRun' = nextRun + 1
  /\ stack' = [stack EXCEPT ![t] = <<NewAgent(Main, MaxIterations)>>]
  /\ agents' = UpdateAgentState(agents, Main, "running")
  /\ requests' = [requests EXCEPT ![t] = 0]
  /\ UNCHANGED <<nextId, internal, lost>>

\* The most LLM requests an agent with b iterations can cost: it spawns a
\* sub-agent in every call of every iteration.
Work[b \in 0 .. MaxIterations] ==
  IF b = 0 THEN 0 ELSE b * (1 + MaxCalls * Work[b \div 2])

\* Mutant of Chat: iteration <= max_iterations_.
ChatOnceMore(t) ==
  /\ At(t, "loop")
  /\ Top(t).iter <= Top(t).budget
  /\ SetTop(t, [Top(t) EXCEPT !.pc = "reply"])
  /\ requests' = [requests EXCEPT ![t] = IF @ > Work[MaxIterations] THEN @ ELSE @ + 1]
  /\ UNCHANGED <<nextId, agents, internal, nextRun, lost>>

\* llm_.chat.  The count stops one above its bound.
Chat(t) ==
  /\ At(t, "loop")
  /\ Top(t).iter < Top(t).budget
  /\ SetTop(t, [Top(t) EXCEPT !.pc = "reply"])
  /\ requests' = [requests EXCEPT ![t] = IF @ > Work[MaxIterations] THEN @ ELSE @ + 1]
  /\ UNCHANGED <<nextId, agents, internal, nextRun, lost>>

\* The LLM asked for n tool calls.
ChatCallsTools(t) ==
  /\ At(t, "reply")
  /\ \E n \in 1 .. MaxCalls :
       SetTop(t, [Top(t) EXCEPT !.pc = "tool", !.calls = n, !.k = 1])
  /\ UNCHANGED <<nextId, agents, internal, nextRun, requests, lost>>

\* A call of a skill, of an unknown tool, or with arguments that do not parse.
RunSkill(t) ==
  /\ At(t, "tool")
  /\ SetTop(t, Handled(Top(t)))
  /\ UNCHANGED <<nextId, agents, internal, nextRun, requests, lost>>

\* A call of spawn_agent.  The counter of the main agent is read ...
SpawnRead(t) ==
  /\ At(t, "tool")
  /\ Len(agents) < MaxAgents
  /\ SetTop(t, [Top(t) EXCEPT !.pc = "spawn",
                  !.read = IF Depth(t) = 1 THEN nextId ELSE Top(t).next])
  /\ UNCHANGED <<nextId, agents, internal, nextRun, requests, lost>>

\* Mutant of SpawnWrite: the sub-agent keeps max_iterations_.
SpawnFullBudget(t) ==
  /\ At(t, "spawn")
  /\ LET f  == Top(t)
         id == Append(f.id, f.read)
         callers == IF Depth(t) = 1 THEN stack[t]
                    ELSE [stack[t] EXCEPT ![Depth(t)].next = f.read + 1]
     IN  /\ nextId' = IF Depth(t) = 1 THEN f.read + 1 ELSE nextId
         /\ agents' = UpdateAgentState(RegisterAgent(agents, id), id, "running")
         /\ internal' = Told("task", id)
         /\ stack' = [stack EXCEPT ![t] = Append(callers, NewAgent(id, f.budget))]
  /\ UNCHANGED <<nextRun, requests, lost>>

\* Mutant of SpawnWrite: next_sub_agent_id_ without ++.
SpawnSameId(t) ==
  /\ At(t, "spawn")
  /\ LET f  == Top(t)
         id == Append(f.id, f.read)
     IN  /\ agents' = UpdateAgentState(RegisterAgent(agents, id), id, "running")
         /\ internal' = Told("task", id)
         /\ stack' = [stack EXCEPT ![t] = Append(@, NewAgent(id, f.budget \div 2))]
  /\ UNCHANGED <<nextId, nextRun, requests, lost>>

\* ... and written back; the sub-agent is registered and its run() begins.
SpawnWrite(t) ==
  /\ At(t, "spawn")
  /\ LET f  == Top(t)
         id == Append(f.id, f.read)
         callers == IF Depth(t) = 1 THEN stack[t]
                    ELSE [stack[t] EXCEPT ![Depth(t)].next = f.read + 1]
     IN  /\ nextId' = IF Depth(t) = 1 THEN f.read + 1 ELSE nextId
         /\ agents' = UpdateAgentState(RegisterAgent(agents, id), id, "running")
         /\ internal' = Told("task", id)
         /\ stack' = [stack EXCEPT ![t] = Append(callers, NewAgent(id, f.budget \div 2))]
  /\ UNCHANGED <<nextRun, requests, lost>>

\* Mutant of Return: update_agent_state after an answer of the LLM only.
ReturnForgets(t) ==
  /\ \/ At(t, "reply")
     \/ At(t, "loop") /\ Top(t).iter >= Top(t).budget
  /\ IF Depth(t) = 1
     THEN stack' = [stack EXCEPT ![t] = << >>] /\ UNCHANGED <<agents, internal>>
     ELSE /\ stack' = [stack EXCEPT ![t] =
               SubSeq(@, 1, Depth(t) - 2) \o <<Handled(@[Depth(t) - 1])>>]
          /\ agents' = IF At(t, "reply")
                       THEN UpdateAgentState(agents, Top(t).id, "completed")
                       ELSE agents
          /\ internal' = Told("result", Top(t).id)
  /\ UNCHANGED <<nextId, nextRun, requests, lost>>

\* Mutant of Return: sub_id and agent_id_ are mixed up.
ReturnMarksCaller(t) ==
  /\ \/ At(t, "reply")
     \/ At(t, "loop") /\ Top(t).iter >= Top(t).budget
  /\ IF Depth(t) = 1
     THEN stack' = [stack EXCEPT ![t] = << >>] /\ UNCHANGED <<agents, internal>>
     ELSE /\ stack' = [stack EXCEPT ![t] =
               SubSeq(@, 1, Depth(t) - 2) \o <<Handled(@[Depth(t) - 1])>>]
          /\ agents' = UpdateAgentState(agents, stack[t][Depth(t) - 1].id, "completed")
          /\ internal' = Told("result", stack[t][Depth(t) - 1].id)
  /\ UNCHANGED <<nextId, nextRun, requests, lost>>

\* run() returns: the LLM answered with a text, the request failed, or the
\* iterations are used up.  What a sub-agent returns is the result of the call
\* of its parent, whatever it is.
Return(t) ==
  /\ \/ At(t, "reply")
     \/ At(t, "loop") /\ Top(t).iter >= Top(t).budget
  /\ IF Depth(t) = 1
     THEN stack' = [stack EXCEPT ![t] = << >>] /\ UNCHANGED <<agents, internal>>
     ELSE /\ stack' = [stack EXCEPT ![t] =
               SubSeq(@, 1, Depth(t) - 2) \o <<Handled(@[Depth(t) - 1])>>]
          /\ agents' = UpdateAgentState(agents, Top(t).id, "completed")
          /\ internal' = Told("result", Top(t).id)
  /\ UNCHANGED <<nextId, nextRun, requests, lost>>

\* An exception out of chat() or handle_tool_calls: no agent on the stack
\* catches it and none is reported to the Monitor.
Throw(t) ==
  /\ MayThrow
  /\ At(t, "reply") \/ At(t, "tool")
  /\ lost' = lost \cup {stack[t][d].id : d \in 2 .. Depth(t)}
  /\ stack' = [stack EXCEPT ![t] = << >>]
  /\ UNCHANGED <<nextId, agents, internal, nextRun, requests>>

ThreadStep(t) ==
  \/ Chat(t) \/ ChatCallsTools(t) \/ RunSkill(t)
  \/ SpawnRead(t) \/ SpawnWrite(t) \/ Return(t) \/ Throw(t)

\* Every request of the bounded behaviour was served.
Waiting ==
  /\ nextRun > MaxRuns
  /\ \A t \in Threads : Depth(t) = 0
  /\ UNCHANGED vars

Next == (\E t \in Threads : Run(t) \/ ThreadStep(t)) \/ Waiting

Spec == Init /\ [][Next]_vars

\* A thread that can take its next step takes it: see Agent!FairSpec.
FairSpec == Spec /\ \A t \in Threads : WF_vars(ThreadStep(t))

-----------------------------------------------------------------------------
(* Properties *)

\* The sub-agents in their run(): everything on a stack above the main agent.
Active == UNION {{stack[t][d].id : d \in 2 .. Depth(t)} : t \in Threads}

Registered(state) == {agents[i].id : i \in {j \in 2 .. Len(agents) : agents[j].state = state}}

\* What one client request can cost is bounded although every sub-agent may
\* spawn: halving max_iterations_ ends the recursion and bounds the number of
\* LLM requests below and beside each other.
WorkBounded == \A t \in Threads : requests[t] <= Work[MaxIterations]

\* A sub-agent in its run() is listed as running, also when the race on the
\* counter gave two of them the same id: update_agent_state changes the first
\* entry only, and the entries of the others stay as they were registered.
ActiveAreListed == Active \subseteq Registered("running")

\* One thread: no id is given twice, over all requests of the process and
\* after exceptions.
UniqueIds ==
  \A i, j \in 1 .. Len(agents) : agents[i].id = agents[j].id => i = j

\* "Active sub-agents (count, roles, goals)" (GOAL.md).  One thread: the table
\* tells the truth about every agent but those whose run() an exception ended;
\* those it lists as running for ever.
MonitorExact ==
  /\ Registered("running") = Active \cup lost
  /\ Registered("completed") \cap (Active \cup lost) = {}

IsAbove(a, b) == Len(a) < Len(b) /\ a = SubSeq(b, 1, Len(a))

\* "Internal message log" (GOAL.md).  One thread: the result of an
\* agent stands behind its task, with nothing in between but what the agents
\* below it were told and answered; only what is too old is missing, and an
\* exception leaves tasks without results but never a result without its task.
MessagesNest ==
  \A p \in 1 .. Len(internal) :
    internal[p].kind = "result" =>
      \E q \in 0 .. p - 1 :
        /\ IF q = 0 THEN Len(internal) = MaxMessages
           ELSE internal[q] = [internal[p] EXCEPT !.kind = "task"]
        /\ \A x \in q + 1 .. p - 1 : IsAbove(internal[p].agent, internal[x].agent)

\* Every client request is answered, whatever the LLM spawns.
RequestReturns == \A t \in Threads : Depth(t) > 0 ~> Depth(t) = 0

=============================================================================
