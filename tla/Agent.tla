------------------------------- MODULE Agent -------------------------------
(***************************************************************************)
(* The main agent of Floriani Agent (src/src/agent/agent.cpp): ONE Agent   *)
(* object, built in main.cpp, whose run() is called by every request       *)
(* thread of the HTTP server.  run() appends to the vector messages_ and   *)
(* to the SQLite table of the conversation; nothing locks the vector.      *)
(*                                                                         *)
(* The LLM backend, the skills and the sub-agents a tool call may spawn    *)
(* are the environment: an action offers every answer they can give.       *)
(* The process may be killed at any moment and started again on the same   *)
(* database.                                                               *)
(***************************************************************************)
EXTENDS Integers, Sequences

CONSTANTS
  Threads,        \* the request threads that call Agent::run
  MaxRuns,        \* bound: calls of run() over the whole behaviour
  MaxBoots,       \* bound: starts of the process
  MaxIterations,  \* max_iterations_
  MaxCalls,       \* bound: tool calls in one answer of the LLM
  HistoryLimit,   \* the window load_history asks for (20 in the code)
  SystemPrompt,   \* is system_prompt_ non-empty?
  LossyStore,     \* may an INSERT of add_message fail?
  AnyBytes,       \* may tool results hold bytes that are not UTF-8?
  Cancellable     \* do callers pass a cancel flag to run()?

ASSUME AgentAssumption ==
  /\ MaxRuns \in Nat
  /\ MaxBoots \in Nat \ {0}
  /\ MaxIterations \in Nat
  /\ MaxCalls \in Nat \ {0}
  /\ HistoryLimit \in Nat
  /\ SystemPrompt \in BOOLEAN
  /\ LossyStore \in BOOLEAN
  /\ AnyBytes \in BOOLEAN
  /\ Cancellable \in BOOLEAN

VARIABLES
  messages,  \* messages_, the context sent to the LLM
  db,        \* rows of the messages table for conversation_id_, by row id
  th,        \* local variables of the run() each thread executes
  up,        \* is the process running?
  boots,     \* how often it was started
  nextRun,   \* the next run() gets this number
  outcome    \* what each run() returned to its caller

vars == <<messages, db, th, up, boots, nextRun, outcome>>

Runs == 1 .. MaxRuns

(***************************************************************************)
(* A message carries the place in its run that produced it: run, iter (the *)
(* number of LLM answers received so far) and k (0, or the position of the *)
(* tool call it answers).  <<run, iter, k>> stands for tool_call_id: the   *)
(* code copies the id of the call into its result.  "calls" is the number  *)
(* of tool_calls, "utf8" says whether the content is valid UTF-8.          *)
(***************************************************************************)
Message == [role  : {"system", "user", "assistant", "tool"},
            run   : 0 .. MaxRuns,
            iter  : 0 .. MaxIterations + 1,
            k     : 0 .. MaxCalls,
            calls : 0 .. MaxCalls,
            utf8  : BOOLEAN]

Msg(role, r, i, k, n, u) ==
  [role |-> role, run |-> r, iter |-> i, k |-> k, calls |-> n, utf8 |-> u]

SystemMsg == Msg("system", 0, 0, 0, 0, TRUE)

Outcomes == {"none", "text", "failed", "exhausted", "cancelled", "thrown"}

Idle == [pc |-> "idle", run |-> 0, iter |-> 0, calls |-> 0, k |-> 0,
         pend |-> SystemMsg, slot |-> 0, result |-> "none", cancel |-> FALSE]

Thread == [pc     : {"idle", "push", "pushing", "persist", "loop", "reply",
                     "tool", "throwing"},
           run    : 0 .. MaxRuns,
           iter   : 0 .. MaxIterations,  \* iteration
           calls  : 0 .. MaxCalls,       \* result.tool_calls.size()
           k      : 0 .. MaxCalls,       \* the call being handled
           pend   : Message,             \* the message being appended
           slot   : Nat,                 \* end of the vector push_back read
           result : Outcomes,            \* what run() returns after that
           cancel : BOOLEAN]             \* *cancel

TypeOK ==
  /\ messages \in Seq(Message)
  /\ db \in Seq(Message)
  /\ th \in [Threads -> Thread]
  /\ up \in BOOLEAN
  /\ boots \in 0 .. MaxBoots
  /\ nextRun \in 1 .. MaxRuns + 1
  /\ outcome \in [Runs -> Outcomes]

-----------------------------------------------------------------------------
(* The process *)

\* Mutant of GetRecent: ORDER BY id ASC inside the LIMIT.
GetRecentOldest(n) == SubSeq(db, 1, IF Len(db) > n THEN n ELSE Len(db))

\* Mutant of GetRecent: without the outer ORDER BY id ASC.
GetRecentNewestFirst(n) ==
  [i \in 1 .. (IF Len(db) > n THEN n ELSE Len(db)) |-> db[Len(db) - i + 1]]

\* HistoryStore::get_recent: the last n rows, oldest first.
GetRecent(n) ==
  SubSeq(db, IF Len(db) > n THEN Len(db) - n + 1 ELSE 1, Len(db))

Init ==
  /\ messages = << >>
  /\ db = << >>
  /\ th = [t \in Threads |-> Idle]
  /\ up = FALSE
  /\ boots = 0
  /\ nextRun = 1
  /\ outcome = [r \in Runs |-> "none"]

\* The constructor, then set_history_store with its load_history.
Boot ==
  /\ ~up
  /\ boots < MaxBoots
  /\ up' = TRUE
  /\ boots' = boots + 1
  /\ messages' = (IF SystemPrompt THEN <<SystemMsg>> ELSE << >>)
                   \o GetRecent(HistoryLimit)
  /\ UNCHANGED <<db, th, nextRun, outcome>>

\* The process dies: killed, or std::terminate, or memory corrupted by the
\* unsynchronised use of messages_.  SQLite commits each INSERT on its own.
Crash ==
  /\ up
  /\ boots < MaxBoots
  /\ up' = FALSE
  /\ messages' = << >>
  /\ th' = [t \in Threads |-> Idle]
  /\ UNCHANGED <<db, boots, nextRun, outcome>>

-----------------------------------------------------------------------------
(* Agent::run *)

\* Thread t goes on to append m, and returns res from run() if m is final.
Appending(t, m, res) ==
  th' = [th EXCEPT ![t].pc = "push", ![t].pend = m, ![t].result = res]

Returning(t, res) ==
  /\ th' = [th EXCEPT ![t] = Idle]
  /\ outcome' = [outcome EXCEPT ![th[t].run] = res]

Final(t, i) == Msg("assistant", th[t].run, i, 0, 0, TRUE)

\* run(user_message): the user message is appended first.
Run(t) ==
  /\ up
  /\ th[t].pc = "idle"
  /\ nextRun <= MaxRuns
  /\ nextRun' = nextRun + 1
  /\ th' = [th EXCEPT ![t] =
              [Idle EXCEPT !.pc = "push", !.run = nextRun,
                           !.pend = Msg("user", nextRun, 0, 0, 0, TRUE)]]
  /\ UNCHANGED <<messages, db, up, boots, outcome>>

\* messages_.push_back reads the end of the vector ...
PushBegin(t) ==
  /\ th[t].pc = "push"
  /\ th' = [th EXCEPT ![t].pc = "pushing", ![t].slot = Len(messages)]
  /\ UNCHANGED <<messages, db, up, boots, nextRun, outcome>>

\* ... and stores the element and the new end.  If another thread pushed in
\* between, the stale end either was re-read or overwrites what that thread
\* stored (the third outcome of the race is Crash).
PushEnd(t) ==
  /\ th[t].pc = "pushing"
  /\ \/ messages' = Append(messages, th[t].pend)
     \/ /\ Len(messages) > th[t].slot
        /\ messages' = Append(SubSeq(messages, 1, th[t].slot), th[t].pend)
  /\ th' = [th EXCEPT ![t].pc = "persist"]
  /\ UNCHANGED <<db, up, boots, nextRun, outcome>>

\* Mutant of Continue: the first result ends the batch.
ContinueBreaks(s) ==
  CASE s.pend.role = "tool" ->
         [s EXCEPT !.pc = "loop", !.iter = @ + 1, !.calls = 0, !.k = 0]
    [] s.pend.role = "assistant" /\ s.pend.calls > 0 ->
         [s EXCEPT !.pc = "tool", !.k = 1]
    [] s.pend.role = "assistant" /\ s.pend.calls = 0 -> Idle
    [] OTHER -> [s EXCEPT !.pc = "loop"]

\* What run() does once the message it appended is persisted.
Continue(s) ==
  CASE s.pend.role = "tool" /\ s.k < s.calls ->
         [s EXCEPT !.pc = "tool", !.k = @ + 1]
    [] s.pend.role = "tool" /\ s.k >= s.calls ->
         [s EXCEPT !.pc = "loop", !.iter = @ + 1, !.calls = 0, !.k = 0]
    [] s.pend.role = "assistant" /\ s.pend.calls > 0 ->
         [s EXCEPT !.pc = "tool", !.k = 1]
    [] s.pend.role = "assistant" /\ s.pend.calls = 0 -> Idle
    [] OTHER -> [s EXCEPT !.pc = "loop"]

\* Mutant of AddMessage: the statement is stepped again, though it went through.
AddMessageTwice(m) ==
  \/ db' = db \o <<m, m>>
  \/ LossyStore /\ UNCHANGED db

\* HistoryStore::add_message: a failed INSERT is only logged.
AddMessage(m) ==
  \/ db' = Append(db, m)
  \/ LossyStore /\ UNCHANGED db

\* persist(msg) and, after a final message, the return from run().
Persist(t) ==
  /\ th[t].pc = "persist"
  /\ AddMessage(th[t].pend)
  /\ th' = [th EXCEPT ![t] = Continue(th[t])]
  /\ outcome' = IF Continue(th[t]).pc = "idle"
                THEN [outcome EXCEPT ![th[t].run] = th[t].result]
                ELSE outcome
  /\ UNCHANGED <<messages, up, boots, nextRun>>

\* Mutant of Exhausted: the marker is returned but not appended.
ExhaustedSilently(t) ==
  /\ th[t].pc = "loop"
  /\ th[t].iter >= MaxIterations
  /\ Returning(t, "exhausted")
  /\ UNCHANGED <<messages, db, up, boots, nextRun>>

\* The loop is over: "[max tool iterations reached]".
Exhausted(t) ==
  /\ th[t].pc = "loop"
  /\ th[t].iter >= MaxIterations
  /\ Appending(t, Final(t, MaxIterations + 1), "exhausted")
  /\ UNCHANGED <<messages, db, up, boots, nextRun, outcome>>

\* The cancel flag is read at the head of the loop: nothing is appended.
Cancelled(t) ==
  /\ th[t].pc = "loop"
  /\ th[t].iter < MaxIterations
  /\ th[t].cancel
  /\ Returning(t, "cancelled")
  /\ UNCHANGED <<messages, db, up, boots, nextRun>>

\* Mutant of Chat: iteration <= max_iterations_.
ChatOnceMore(t) ==
  /\ th[t].pc = "loop"
  /\ th[t].iter <= MaxIterations
  /\ ~th[t].cancel
  /\ th' = [th EXCEPT ![t].pc = "reply"]
  /\ UNCHANGED <<messages, db, up, boots, nextRun, outcome>>

\* llm_.chat serialises every message: dump() throws type_error on content
\* that is not UTF-8.
Chat(t) ==
  /\ th[t].pc = "loop"
  /\ th[t].iter < MaxIterations
  /\ ~th[t].cancel
  /\ th' = [th EXCEPT ![t].pc =
              IF \A p \in 1 .. Len(messages) : messages[p].utf8
              THEN "reply" ELSE "throwing"]
  /\ UNCHANGED <<messages, db, up, boots, nextRun, outcome>>

\* Mutant of ChatFails: a failed request is tried again, uncounted.
ChatRetries(t) ==
  /\ th[t].pc = "reply"
  /\ th' = [th EXCEPT ![t].pc = "loop"]
  /\ UNCHANGED <<messages, db, up, boots, nextRun, outcome>>

\* chat() returned with success = false.
ChatFails(t) ==
  /\ th[t].pc = "reply"
  /\ Appending(t, Final(t, th[t].iter + 1), "failed")
  /\ UNCHANGED <<messages, db, up, boots, nextRun, outcome>>

\* chat() returned a text.
ChatAnswers(t) ==
  /\ th[t].pc = "reply"
  /\ Appending(t, Final(t, th[t].iter + 1), "text")
  /\ UNCHANGED <<messages, db, up, boots, nextRun, outcome>>

\* chat() returned n tool calls.
ChatCallsTools(t) ==
  /\ th[t].pc = "reply"
  /\ \E n \in 1 .. MaxCalls :
       th' = [th EXCEPT ![t].pc = "push", ![t].calls = n,
                ![t].pend = Msg("assistant", th[t].run, th[t].iter + 1, 0, n, TRUE)]
  /\ UNCHANGED <<messages, db, up, boots, nextRun, outcome>>

\* process_sse_line catches parse_error only: a chunk of another shape throws.
ChatThrows(t) ==
  /\ th[t].pc = "reply"
  /\ th' = [th EXCEPT ![t].pc = "throwing"]
  /\ UNCHANGED <<messages, db, up, boots, nextRun, outcome>>

\* One pass of handle_tool_calls that ends in a tool message: arguments that
\* do not parse, an unknown tool, the skill's output or error, a sub-agent's
\* result.  Output and parse errors may hold bytes that are not UTF-8.
ToolResult(t) ==
  /\ th[t].pc = "tool"
  /\ \E u \in {TRUE, ~AnyBytes} :
       Appending(t, Msg("tool", th[t].run, th[t].iter + 1, th[t].k, 0, u), "none")
  /\ UNCHANGED <<messages, db, up, boots, nextRun, outcome>>

\* spawn_agent with arguments that are not an object of strings, or a
\* sub-agent whose own run() throws.
ToolThrows(t) ==
  /\ th[t].pc = "tool"
  /\ th' = [th EXCEPT ![t].pc = "throwing"]
  /\ UNCHANGED <<messages, db, up, boots, nextRun, outcome>>

\* The exception leaves run(); httplib answers a non-streaming request with
\* status 500.  (Under a streaming request it ends the process: Crash.)
Unwind(t) ==
  /\ th[t].pc = "throwing"
  /\ Returning(t, "thrown")
  /\ UNCHANGED <<messages, db, up, boots, nextRun>>

\* The caller sets its cancel flag.
SetCancel(t) ==
  /\ Cancellable
  /\ th[t].pc # "idle"
  /\ ~th[t].cancel
  /\ th' = [th EXCEPT ![t].cancel = TRUE]
  /\ UNCHANGED <<messages, db, up, boots, nextRun, outcome>>

-----------------------------------------------------------------------------
ThreadStep(t) ==
  \/ PushBegin(t) \/ PushEnd(t) \/ Persist(t)
  \/ Exhausted(t) \/ Cancelled(t) \/ Chat(t)
  \/ ChatFails(t) \/ ChatAnswers(t) \/ ChatCallsTools(t) \/ ChatThrows(t)
  \/ ToolResult(t) \/ ToolThrows(t) \/ Unwind(t)

\* Every request of the bounded behaviour was served; the server waits.
Waiting ==
  /\ up
  /\ nextRun > MaxRuns
  /\ \A t \in Threads : th[t].pc = "idle"
  /\ UNCHANGED vars

Next ==
  \/ Boot
  \/ Crash
  \/ \E t \in Threads : Run(t) \/ ThreadStep(t) \/ SetCancel(t)
  \/ Waiting

Spec == Init /\ [][Next]_vars

\* A thread that can take its next step takes it.  For the answers of the
\* LLM that is curl's 120 s timeout; for tools it is an assumption on the
\* commands, since popen() waits without a limit.
FairSpec == Spec /\ \A t \in Threads : WF_vars(ThreadStep(t))

-----------------------------------------------------------------------------
(* The history in the database, whatever the threads do *)

\* m comes before n in the program order of their run.
Before(m, n) == m.iter < n.iter \/ (m.iter = n.iter /\ m.k < n.k)

\* The rows of a run are in the order in which run() produced them and none is
\* there twice, although other threads write rows in between, run() goes on
\* after a failed INSERT, and a restart loads and continues the table.
ProgramOrder ==
  \A p, q \in 1 .. Len(db) :
    p < q /\ db[p].run = db[q].run => Before(db[p], db[q])

\* The answer of iteration i asked for n calls, all of them answered above row p.
BatchAnswered(p, r, i) ==
  \E c \in 1 .. p - 1 :
    /\ db[c].run = r /\ db[c].iter = i /\ db[c].k = 0
    /\ \A j \in 1 .. db[c].calls :
         \E q \in c + 1 .. p - 1 :
           db[q].run = r /\ db[q].iter = i /\ db[q].k = j

\* If no INSERT fails, a row is in the table only with all that led to it: a
\* tool result with the answer that asked for it and the results of the calls
\* before it, an answer of the LLM with the whole batch before it.  A crash
\* cuts the end of a run off, it never leaves a hole.
NoGaps ==
  ~LossyStore =>
    \A p \in 1 .. Len(db) :
      \/ db[p].role = "user"
      \/ /\ db[p].role = "tool"
         /\ \E q \in 1 .. p - 1 :
              /\ db[q].run = db[p].run
              /\ db[q].iter = db[p].iter
              /\ db[q].k = db[p].k - 1
              /\ db[q].k = 0 => db[q].calls >= 1
      \/ /\ db[p].role = "assistant"
         /\ BatchAnswered(p, db[p].run, db[p].iter - 1)

\* What run() returned to its caller is the last row of the run, so that the
\* next start of the process continues from what the client saw.
AnswerIsPersisted ==
  ~LossyStore =>
    \A r \in Runs : outcome[r] \in {"text", "failed", "exhausted"} =>
      \E p \in 1 .. Len(db) :
        /\ db[p].run = r /\ db[p].role = "assistant" /\ db[p].calls = 0
        /\ \A q \in p + 1 .. Len(db) : db[q].run # r

\* Has every call the runs in R made its result in the table?
Answered(R) ==
  \A p \in 1 .. Len(db) :
    db[p].run \in R =>
      \A j \in 1 .. db[p].calls :
        \E q \in p + 1 .. Len(db) :
          db[q].k = j /\ db[q].run = db[p].run /\ db[q].iter = db[p].iter

\* A run that returned to its caller, with whatever answer, left no tool call
\* of the LLM without a result in the history.
ReturnedRunsAnswered ==
  ~LossyStore =>
    Answered({r \in Runs : outcome[r] \in {"text", "failed", "exhausted", "cancelled"}})

\* "When the LLM emits a tool call, the agent executes the corresponding skill,
\* feeds the result back" (GOAL.md): a run that is over, and not by a crash,
\* answered its calls.  Not so when an exception ends it.
EveryCallAnswered == Answered({r \in Runs : outcome[r] # "none"})

-----------------------------------------------------------------------------
(* The context sent to the LLM *)

SysLen == IF SystemPrompt THEN 1 ELSE 0

\* Is m the result of call j of the answer a?
IsResultOf(m, a, j) ==
  m.role = "tool" /\ m.run = a.run /\ m.iter = a.iter /\ m.k = j

\* One thread: a tool result stands where the LLM's chat format wants it, k
\* places behind the answer that asked for it with the results of the earlier
\* calls in between; only the start of the window loaded from the database
\* may cut a batch.
ResultsFollowCalls ==
  ~LossyStore =>
    \A p \in 1 .. Len(messages) :
      LET q == p - messages[p].k IN
      messages[p].role = "tool" /\ q > SysLen =>
        /\ messages[q].role = "assistant"
        /\ messages[q].calls >= messages[p].k
        /\ \A j \in 1 .. messages[p].k :
             IsResultOf(messages[q + j], messages[q], j)

\* One thread: after the system prompt the context is exactly the end of the
\* stored history (with the message on its way there), so that a restart
\* loads what the process knew, down to the window.
MemoryMirrorsHistory ==
  up /\ ~LossyStore =>
    LET known   == SubSeq(messages, SysLen + 1, Len(messages))
        pending == {th[t].pend : t \in {u \in Threads : th[u].pc = "persist"}}
    IN  \E m \in {<< >>} \cup {<<x>> : x \in pending} :
          LET all == db \o m IN
          /\ m = << >> <=> pending = {}
          /\ Len(known) <= Len(all)
          /\ known = SubSeq(all, Len(all) - Len(known) + 1, Len(all))
          /\ Len(known) >= HistoryLimit \/ Len(known) = Len(all)

\* "feeds the result back into the LLM context, and continues the agentic
\* loop" (GOAL.md): at the head of the loop the context holds the whole batch
\* of the last answer.  Not so when two requests share messages_.
FeedsResultsBack ==
  \A t \in Threads :
    th[t].pc = "loop" /\ th[t].iter > 0 =>
      \E p \in 1 .. Len(messages) :
        /\ messages[p].role = "assistant"
        /\ messages[p].run = th[t].run /\ messages[p].iter = th[t].iter
        /\ \A j \in 1 .. messages[p].calls :
             \E q \in p + 1 .. Len(messages) :
               IsResultOf(messages[q], messages[p], j)

-----------------------------------------------------------------------------
(* The conversation the agent implements *)

\* The rows of the table as entries of the abstract log.
LogKind(m) ==
  CASE m.role = "user" -> "question"
    [] m.role = "tool" -> "result"
    [] m.role = "assistant" /\ m.calls > 0 -> "call"
    [] OTHER -> "answer"

AbstractLog ==
  [p \in 1 .. Len(db) |-> [run |-> db[p].run, kind |-> LogKind(db[p]), n |-> db[p].calls]]

\* The results a thread has to append before the next request to the LLM.
Owes(s) == IF s.k = 0 THEN 0 ELSE s.calls - s.k + 1

\* Is the user message on its way to the table?
AsksFirst(s) == s.pend.role = "user" /\ s.pc \in {"push", "pushing", "persist"}

\* Run r as the abstract run that a thread, or the outcome, shows.
AbstractRun(r) ==
  LET doing == {t \in Threads : th[t].run = r} IN
  CASE doing # {} ->
         LET s == th[CHOOSE t \in doing : TRUE] IN
         IF AsksFirst(s) THEN [pc |-> "asking", owes |-> 0]
         ELSE [pc |-> "working", owes |-> Owes(s)]
    [] doing = {} /\ r >= nextRun -> [pc |-> "new", owes |-> 0]
    [] doing = {} /\ r < nextRun /\ outcome[r] \in {"text", "failed", "exhausted"} ->
         [pc |-> "answered", owes |-> 0]
    [] OTHER -> [pc |-> "left", owes |-> 0]

Conv == INSTANCE Conversation
          WITH log <- AbstractLog,
               run <- [r \in Runs |-> AbstractRun(r)],
               Lossy <- LossyStore

\* Whatever is pushed, lost and loaded around it, the table together with what
\* run() returns is a conversation: every call is followed by its results and
\* only by them, nothing is stored for a run that is over, run() returns a
\* text only as the entry it has just stored, and every run ends.
ImplementsConversation == Conv!FairSpec

-----------------------------------------------------------------------------
\* Every call of run() comes to an end: the iterations are bounded whatever the
\* LLM answers, and no failure of the LLM or a tool keeps the loop running.
RunReturns == \A t \in Threads : th[t].pc # "idle" ~> th[t].pc = "idle"

=============================================================================
