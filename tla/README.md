# Floriani Agent in TLA+

Floriani Agent (`src/`) is a C++ server that sits between chat clients and a
local LLM: it keeps the conversation, lets the LLM call skills and spawn
sub-agents, runs each request through a configured pipeline, and answers in the
format of the OpenAI chat API. This directory holds a model of it in TLA+, the
TLC configurations that check the model on small instances, and proofs, checked
by TLAPS, of theorems about it for every instance.

Paths are relative to the repository (`src/src/agent/agent.cpp` is the file that
the program's own tree calls `src/agent/agent.cpp`).

## 1. The system

| Component | State | Operations | Hard behaviour |
|---|---|---|---|
| Agent (`agent.cpp`) | `messages_` (the context), `next_sub_agent_id_`, `conversation_id_` | `run`, `handle_tool_calls`, `spawn_sub_agent`, `persist`, `load_history`, `load_skills` | one object for all request threads, no lock; memory and database written in two steps; exceptions other than `json::parse_error` pass through `run` |
| History store (`history_store.cpp`) | SQLite tables `conversations`, `messages` | `create_conversation`, `get_or_create_conversation`, `add_message`, `get_recent`, `list_conversations` (unused) | ids from `steady_clock`; seconds as the order of conversations; results of INSERTs ignored or only logged; several servers on one database |
| Pipeline (`pipeline.cpp`, executors in `main.cpp`) | `stages_[i].executor`, resolved at the first request and kept; the `PipelineContext` of each request | `run`, `handle_failure`, `register_builtin` | lazy resolution by several threads; skip, abort, retry and fallback |
| HTTP server (`http_server.cpp`) | none of its own; one response per request | `POST /v1/chat/completions` with and without streaming, `GET /v1/monitor`, `GET /health` | the content provider of a stream runs after the handler, outside httplib's `catch`; tokens leave before the result is known |
| LLM client (`llm_client.cpp`) | per request: line buffer, text, tool calls by index | `chat`, `forward` (unused) | chunks cut lines anywhere; timeout of 120 s; `payload.dump()` throws on bytes that are not UTF-8 |
| Monitor (`monitor.cpp`) | agents, last 50 tool executions, last 100 internal messages, pipeline fields; a mutex | `register_agent`, `update_agent_state`, `record_*`, `to_json`; `remove_agent` and the pipeline setters are never called | entries that nobody updates again |
| Skill executor (`host_skill_executor.cpp`) | lists of commands, approval callback | `execute` (validate, approve, `popen`, read, `pclose`) | no timeout; one terminal for all approvals; quotes, pipes and the shell read one text by three sets of rules |
| Config (`config.cpp`) | the `Config` record | `load`, `ensure_dirs` | an exception half-way keeps what was read |
| main (`main.cpp`) | - | opens the history, builds everything, registers the executors | a start that fails late has already changed the database; a second server on the port stays up |

How they interact: httplib gives a request a thread of its pool. The handler
builds a `PipelineContext` and calls `Pipeline::run`; the stage `llm_agent_loop`
calls `Agent::run`, which calls `LlmClient::chat` (one blocking HTTP request,
tokens forwarded through `on_token`), `HostSkillExecutor::execute` (a child
process) and, for `spawn_agent`, `Agent::run` of a new object. Agent, Pipeline,
HistoryStore and Monitor exist once and are shared by all threads; only the
Monitor and SQLite lock.

What makes each part correct, in short: the stored history of a run is complete
and in order and ends with what the client was told; the context the LLM sees
has the form its chat format demands; a restart continues the right
conversation; sub-agents cost a bounded amount and the Monitor tells the truth
about them; no stage runs behind a failure that was not recovered; every client
gets one answer, and it says what happened. `PROJECT.json` lists each hazard at
its line with the properties that stand against it.

## 2. The modules

| Module | Models | Extends |
|---|---|---|
| `Agent` | `Agent::run` and all it does to `messages_` and to the table `messages`, for any number of request threads, crashes and restarts | `Conversation` by INSTANCE |
| `Conversation` | what `Agent::run` promises, without threads, vectors and restarts | - |
| `SubAgents` | the nesting of `run` through `spawn_sub_agent`, the shared counter, the Monitor's agents and messages | `Monitor` |
| `Monitor` | the tables of the Monitor as values, its methods as operators | - |
| `HistoryStore` | which conversation a process opens, continues and loads, over starts, boots and servers side by side | - |
| `Pipeline` | `Pipeline::run`, `handle_failure`, the built-in executors | - |
| `HttpServer` | what a client is sent, streaming or not; exceptions; clients that go away | `Pipeline`, `Config` |
| `Config` | `Config::load` as a function of the file | - |
| `SseStream` | one `LlmClient::chat`: chunks, lines, deltas, cancellation, the ends of a transfer | - |
| `HostSkillExecutor` | `execute` on the threads of the server's pool, the one terminal, the children | `CommandLine`, `Monitor` |
| `CommandLine` | the text operations of the executor: quoting, pipes, base command, validation | - |
| `FoldTheorems` | lemmas for the proofs: induction, folds, `FlattenSeq` | TLAPS |
| `AgentProofs` | theorems about `Agent`: types, order, refinement | `Agent`, TLAPS |
| `AgentHistory` | theorems about what `Agent` stores and sends | `AgentProofs` |
| `HistoryStoreProofs` | theorems about `HistoryStore` | `HistoryStore`, TLAPS |
| `HttpServerProofs` | theorems about `Pipeline`, `Config` and `HttpServer` | `HttpServer`, `FoldTheorems` |
| `SubAgentsProofs`, `SseStreamProofs`, `HostSkillExecutorProofs` | theorems about the modules of their names | these, `FoldTheorems` |
| `MCAgent`, `MCSubAgents`, `MCHistoryStore`, `MCHttpServer`, `MCSseStream`, `MCHostSkillExecutor` | instances for TLC | the modules of their names |

A definition whose comment begins with "Mutant of" is a plausible mistake in the
definition behind it. No specification uses it; it is there to show which property
would notice.

### Agent and Conversation

A thread's record `th[t]` holds the local variables of its `run`: `iter` is
`iteration`, `k` the tool call `handle_tool_calls` is at, `pend` the message
being appended. Appending is three steps, `PushBegin` and `PushEnd`
(`messages_.push_back`) and `Persist` (`persist`, `add_message`), because another
thread or a crash may come in between. Two unsynchronised `push_back`s are
undefined behaviour; the outcomes modelled are that both elements are stored,
that the second overwrites what the first stored, and that the process dies
(`Crash`). What follows a persisted message is the operator `Continue`: the next
call of the batch, the next iteration, or the return.

The LLM is `ChatFails`, `ChatAnswers`, `ChatCallsTools` and `ChatThrows`. `Chat`
itself throws if any content of the context is not UTF-8, as `payload.dump()`
does; tool results may hold such bytes (`AnyBytes`). An exception leaves `run`
without another message (`Unwind`). A message is
`[role, run, iter, k, calls, utf8]`: `<<run, iter, k>>` stands for `tool_call_id`,
so that the properties can say which call a result answers. `Boot` is the
constructor with `set_history_store`: the system prompt and the last
`HistoryLimit` rows.

In the server as it stands nobody sets the cancel flag (`ctx.cancel` is never
assigned); `run` takes one, so `Agent` offers it where `Cancellable` holds.

`Conversation` is what a caller may rely on: one log that only grows, and for each
call of `run` a question, calls with exactly their results, and an answer, in this
order, with a silent end possible between any two entries. `Agent!Conv` maps the table
`messages` to the log (the role and the number of calls of each row) and each run's
place in the code to its place in the conversation. Overlapping runs interleave
their entries in the log; neither the race on `messages_` nor a restart shows.

### SubAgents and Monitor

`stack[t]` is the stack of agents that thread `t` is running. The main agent's
counter is shared: `next_sub_agent_id_++` is a read (`SpawnRead`) and a write
(`SpawnWrite`). An id is a path of numbers. `Return` is the end of a `run` and, for
a sub-agent, `update_agent_state`, the entry in the message log, and the return to
the caller's tool call. `Throw` unwinds the whole stack, which no frame catches. The
sub-agents' own contexts are local to their thread and left out. Each method of the
Monitor holds its lock, so that a call is one application of an operator of
`Monitor` within a step.

### HistoryStore

Two clocks: `steady`, in milliseconds since the boot, makes ids; `wall`, in
seconds, makes `created_at`. `procs[p]` is a server on its way through `main`:
`Start` chooses by `--new-conversation`, `Select` is the SELECT of
`get_or_create_conversation`, `Create` the INSERT of `create_conversation`,
`LoadHistory` is `set_history_store`, `Listen` is `svr.listen`. Each is a step of its
own, because another server may come in between: httplib sets `SO_REUSEPORT` on the
listening socket (`httplib.h:2058`), so that a second server of the same user on the
same port stays up, on the same conversation or on one of its own. `Listen` may also
fail, with or without another server up, as when the port belongs to another
program; `main` then returns, and what it did to the tables stays. `Stop` kills a
process at any point, `Reboot` all of them.

`env` says what the surroundings may do: boot the machine again, make two
conversations within a second or within a millisecond, fail an INSERT. It is chosen
once and never changes; each property names the restrictions it needs. The wall
clock is assumed not to be set back. Of a row of `messages` only its conversation is
kept; what a process has loaded is a set of rows (`loaded`).

### Config, Pipeline and HttpServer

`Load(file)` folds over the keys and the stages of a file as `load` does, up to the
first that throws. `HttpServer` starts the pipeline with the stages it returns.

`req[r]` is the `run` of request `r` with its context; `resolved` is the set of
stages whose `executor` is set, shared by all requests. `Resolve` and `Assign`
are the first loop, `RunStage` the second, and one action stands for each policy
of `handle_failure`. A call of the agent is one step with any of the answers
`Agent` allows. `AssignRace` is the death of the process when one thread assigns a
`std::function` that another assigns or calls. `HttpServer` adds `client[r]`: the
status, the body and the tokens. `Work` is a step of the pipeline together with
the tokens that step streams; any `sink.write` may fail, and then all behind it, and
nobody looks (`Written`, `lost`). `Contain` and `Terminate` are the two fates of an
exception, and `Terminate` takes every other request with it.

### SseStream

A line of the body is two symbols and a newline, so that a chunk may end before,
within and behind a line. `Receive` is `chat_write_callback` with the next chunk,
`ProcessLine` one turn of its loop with `process_sse_line`, `EndChunk` its end. What a
line says is abstract: a piece of text, tool-call deltas by index, and whether a value
has a type that throws. `TransferDone`, `TransferFails`, `ReceiveCancelled` are the three
ends `curl_easy_perform` has for this code, `Collect` what `chat` makes of them.

### HostSkillExecutor and CommandLine

`Enqueue` and `Dequeue` are httplib's thread pool; a job is a request whose agent
executes one skill. `Validate`, the steps at the terminal, `Popen`, `Fgets`, `Pclose`,
`Record` follow `execute`.

The approval callback of `main.cpp` calls `std::getline(std::cin, input)`. `std::cin` is
synchronised with stdin and has no buffer of its own, so libstdc++'s `getline` looks at a
character with `getc` and `ungetc` (`Peek`, `Unget`) and takes it with another `getc`
(`Take`, or `Drop` for the newline); each is locked, the sequence is not. Two threads may look
at the same `y`, and what the second one takes may be a newline, or a letter of the next
answer, that nobody has looked at. `exec[j].hand` is a character between `getc` and `ungetc`, and
`exec[j].input` the line so far. `getline` fails once the state of `std::cin`, which all
threads share and nobody clears, is not good (`cin`); at the end of the input it is set
(`InputEnds`). The operator types one line for each prompt (`Answer`), and nothing says
which thread will read it. (While one thread waits in `getc`, glibc's lock on stdin
keeps the others out; that is an order of steps the model has as well.)

A piece is what one `fgets` reads, with the bytes `strlen` sees of it. `Pclose` makes the
result: the mark behind an output that was cut off (`Marker` bytes) and the trimmed newline
(`Returned`) included.
Commands are sequences of characters, and `ShellEscape`, `SplitPipeSegments`,
`ExtractBaseCommand`, `DetectShellInjection` and `IsBlocked` are the functions of those
names; `ShellWord`, what a POSIX shell reads, is the reference for the first.

## 3. The runs

| Run | Bounds | Shows |
|---|---|---|
| `agent_sequential` | 1 thread, 2 runs, 3 starts, 2 iterations, 2 calls, window 3 | `ResultsFollowCalls`, `MemoryMirrorsHistory`, `ImplementsConversation`, `RunReturns`, `TypeOK` |
| `agent_concurrent` | 2 threads, 2 runs, 2 starts, 1 iteration, 2 calls | `ProgramOrder`, `NoGaps`, `AnswerIsPersisted`, `ReturnedRunsAnswered` |
| `subagents_sequential` | 1 thread, 2 requests, 2 iterations, 2 calls, 13 agents, 4 messages | `UniqueIds`, `MonitorExact`, `MessagesNest`, `WorkBounded`, `RequestReturns`, `TypeOK` |
| `subagents_concurrent` | 2 threads, 3 requests, 2 iterations, 1 call, 5 agents | `ActiveAreListed` |
| `history_starts` | 2 processes, clocks to 3, 3 starts, 3 rows, window 2, all 12 surroundings | `NewIsFresh`, `MessagesReachable`, `ContinuesLatest`, `TypeOK` |
| `http` | 1 request under every list of 1 or 2 of 9 stages, some of 3, the default and unreadable files; 2 requests under three lists | `StagesInOrder`, `OkMeansEveryStage`, `FailureIsTold`, `StatusTellsTheResult`, `StreamCarriesAnswer`, `BadConfigRunsNothing`, `StagesAreWhole`, `ClientIsAnswered`, `HTypeOK` |
| `sse_stream` | every body of up to 3 lines of 9 kinds, the last one open or closed, every cut | `ChunkingIrrelevant`, `ResultIsWhole`, `CancelStopsForwarding`, `ChatEnds`, `TypeOK` |
| `skills` | every command of up to 3 of 10 characters; every output of up to 3 pieces against a limit of 3; 3 requests on 2 workers, 0, 1 or 2 of which never end; 3 requests with a prompt each, and 2 of which one never ends; the Monitor keeps 2 | `RunsWhatWasChecked`, `OperatorDecides`, `ResultTellsRun`, `MonitorShowsLast`, `OthersAreServed`, `TypeOK` |
| `agent_feeds_back`, `agent_unanswered`, `http_feedback`, `http_abort` | smallest that show it | each refutes one statement of the documentation (section 5) |

Why the bounds are enough. *Agent*: two runs are needed for rows of one run
between rows of another, three starts for a window that cuts a batch and is then
continued and loaded again, two calls for a batch with a first and a last result,
two iterations for an answer behind a batch. The window of 3 is smaller than a
run, as 20 is smaller than a long conversation. *SubAgents*: two iterations give
agents with 2, 1 and 0 iterations, so three levels; thirteen agents are all that
one request can create with these bounds; four messages are fewer than one request
records. *HistoryStore*: two servers that
are up, or create a conversation, at once, and a third start that continues what they left;
rows of two conversations against a window of two. *Pipeline*:
only `llm_agent_loop` can fail and a stage looks at nothing but its own policy, so
pairs show every way one stage follows another; the triples show that a failure
is forgotten once it is recovered. Two requests meet in the executors they resolve
and nowhere else, so the short lists are enough for two of them; `OneAtATime` keeps the
second out under the others. *SSE*: two lines are needed to mix two tool calls, a
third to come back to the first. *Skills*: a quote, what it encloses, and its end are
three characters; an output is cut off at, within or behind the limit; with two
workers one command that never ends leaves one, and two leave none (then `OthersAreServed`
promises nothing). Two workers show two prompts at once, and the third request the one whose
prompt comes when the first answers are half read.

Each constant that begins with `Max` is such a bound and guards the actions that
would pass it. `MCAgent!HistoryView` leaves out of the fingerprint what no action
reads of `messages` and the properties of that run do not mention; the threads are
interchangeable in the runs that name `Symmetry`.

Deadlock is checked in every run: where all requests of the bounded behaviour are
served, the server waits (`Waiting`, `Stopped`, `HServed`, `Over`, `Rest`).

Fairness. `RunReturns`, `RequestReturns` and `ClientIsAnswered` assume weak
fairness of each thread's next step: the operating system runs threads that can
run. For the LLM that is justified by curl's timeout of 120 s (`ChatEnds`, under weak
fairness of `Chat`, says that the callback does not loop). For skills it is an
assumption on the commands that `skills` does not make: there, a command may never
end, and `OthersAreServed` assumes only that free workers take jobs, that the steps of
`execute` that can happen do, and that the operator answers each prompt. It excepts runs in
which two prompts were open at once while the input is not at its end: then one thread may
take the newline the other has looked at, which waits for a character more although every
prompt was answered (found by TLC without the exception). A lock
that could starve a thread does not occur. In `HttpServer` a whole `Agent::run` is one
step, which is what `RunReturns` licenses.

## 4. The proofs

All theorems hold for every value of the constants, from the assumption named in the
module alone; five of them assume one thread besides, and say so.

**`AgentProofs`**, for any threads, runs, starts, iterations and calls, any window, with or
without failing INSERTs, cancellation, and bytes that are not UTF-8:

* `TypeCorrect`: `Spec => []TypeOK`.
* `RowsInProgramOrder`: `Spec => []ProgramOrder`. The rows of a run are in the order
  in which `run` produced them and none is there twice, whatever other threads,
  failing INSERTs and restarts do. (`agent_concurrent` checks it without failing
  INSERTs; the theorem covers both.)

Neither is inductive. For the types, `iter + 1` stays in range only where
`iter < MaxIterations`, which depends on where the thread is; `LocalOK` ties the
local variables to `pc` and says which message each place may be appending.
`ProgramOrder` says nothing of what comes next; the inductive invariant `IInv` adds
that no two threads execute one run (`RunsDistinct`), that no row belongs to a run
not yet started (`RowsStarted`), and that all stored rows of a run come before the
next row its thread will store (`AllBehind`, with `NextRow`). Then `Persist` appends
a row above all of its run, `Run` starts a run without rows, and the other
steps move `NextRow` forward or leave it.

In the same module `StoresConversation`, `Spec => Conv!Spec`, is the safety part of
`ImplementsConversation`: every step of the agent is a step of `Conversation` or a stutter
under the refinement mapping. `RInv` adds to `IInv` what the mapping needs: where a thread
may be with which message (`PlacesOK`), and that a run not started was told nothing
(`Untold`). Then `PersistRefines` shows that storing a row is the entry of its kind, and
`QuietMoves` that the other steps stutter or end a run. `agent_sequential` checks the
fairness half of `ImplementsConversation`, which is out of the prover's reach here.

**`AgentHistory`**, where no INSERT fails:

* `HistoryHasNoGaps`: `Spec => []NoGaps`. All that led to a row is above it.
* `AnswersArePersisted`: `Spec => []AnswerIsPersisted`. A returned answer is the last row of
  its run.
* `ReturnedRunsLeaveNoCall`: `Spec => []ReturnedRunsAnswered`.

All three look at rows and returned texts; what makes them inductive is what the table
holds for each run that is still going (`Held`): between batches the last iteration is
complete (`Complete`), within one the results so far are there (`Collected`), and nothing
else of the run is open (`OthersAnswered`). `PersistHeld` is the step that adds a row.

And under the hypothesis that there is one thread (`Threads = {t}`; with two, the race on
`messages_` loses messages, as `agent_feeds_back` shows):

* `ContextMirrorsHistory`: `Spec => []MemoryMirrorsHistory`. Behind the system prompt the
  context is the end of the table, or the table and one message more on its way there.
* `ContextFollowsCalls`: `Spec => []ResultsFollowCalls`. In the context each tool result has
  its place behind the call; only the window that was loaded may have lost the call.

The second is not proved about the context, which a restart cuts anywhere, but about the
rows: `RowsFollow` says that each result among them stands `k` places behind its answer, and
`Gathered` that the thread in a batch has the results so far right behind the answer.
`Mirrors` then carries this to the context (`MirrorFollows`), window and all; it is
inductive with what one thread makes simple, that a `push_back` goes to the end
(`SlotIsEnd`) and that a process that is down has neither context nor runs
(`DownIsEmpty`). `BootContext` is the step that needs the most: what `get_recent` returns
is again the end of the table.

**`SubAgentsProofs`**:

* `TypeCorrect`: `Spec => []TypeOK`.
* `CostIsBounded`: `Spec => []WorkBounded`. One client request costs at most
  `Work[MaxIterations]` requests to the LLM.
* `RunningAreListed`: `Spec => []ActiveAreListed`, for any number of threads that race on the
  counter.

`Work` is recursive, so that there is a function that satisfies its definition must be
proved first (`WorkExists`, `WorkDef`). The bound itself is
budgeting: `Affords` puts aside for each agent of a stack what it may still cost behind
the call it is in (`After`), and for the innermost what it may cost from now on (`Rest`);
what is put aside and what was spent never exceed `Work`. A request spends one, a new agent
gets what the call that spawns it had put aside, and an agent that returns gives its
rest back (`TurnAffords`, `PushAffords`, `PopAffords`). For the table, `ListInv` holds that
only the first entry of an id is ever changed (`TableOK`), that each agent in its `run`
has a running entry, and that two agents with one id have two entries, one of which
stays when the other agent ends.

In the same module, under the hypothesis that there is one thread (`OneThread`): two
that take `SpawnRead` before either takes `SpawnWrite` give two agents one id, and write
their messages between each other's, so that none of these holds.

* `IdsAreUnique`: `Spec => []UniqueIds`.
* `MonitorTellsTheTruth`: `Spec => []MonitorExact`.
* `ResultsMeetTasks`: `Spec => []MessagesNest`.

An id is new because it is above every number given so far below the same agent. `IdInv`
says so for the stack and the counters: all first numbers are below the counter of the main
agent, all numbers given below an agent of the stack are below its own counter (`Numbered`),
and a number that was read and not yet written back is still the counter (`Unwritten`),
which is what fails with a second thread. `NewId` and `PushNumbered` are the step that
matters. `ExactInv` then says of each entry behind the first that it is running exactly if
its agent is on the stack or was ended by an exception; it needs the unique ids, as
`update_agent_state` looks for the first entry of an id. `MessagesNest` says nothing of
agents that have given no result yet. `Nested` adds that each of them could give it now
(`Begun`): its task is in the log with only what agents below it said behind it, or the log
has lost the task and all that is left is from below. Every message comes from below all
agents on the stack but its own (`RecordNests`), and a log that drops its first message
only moves a task nearer to being lost (`BegunStays`).

**`HttpServerProofs`** begins with `Pipeline`, for any requests and configurations of any
length:

* `TypeCorrect`, `BadConfigIsRefused` (`BadConfigRunsNothing`), `StagesRunInOrder`
  (`StagesInOrder`), `OkIsEarned` (`OkMeansEveryStage`), `FailuresAreTold` (`FailureIsTold`).

The properties speak of finished requests or of pairs of calls. `PInv` says of each
request what the calls so far amount to at each place: `CallsOK` (their order),
`Resolving` (nothing ran yet), `Running` (all earlier stages are passed), `Handling` (the
last call failed and its stage is the current one), `Ended`; and `ResolvedKnown` that no
executor is assigned before it was found. `HttpServer` adds one step of the pipeline's
variables, the death of the process in `Terminate` (`DieInv`), so that the same holds of
`HSpec`, under which the run `http` checks it: `ServedInOrder`.

Then `HttpServer`, for any clients, files and writes that fail:

* `HTypeCorrect` (`HTypeOK`), `StatusIsTrue` (`StatusTellsTheResult`), `StreamIsWhole`
  (`StreamCarriesAnswer`), `StagesComeWhole` (`StagesAreWhole`).

`PInv` says nothing of what was answered. `CallsTell` adds, for each request, that
`ctx.response_text` is the last answer of the agent until `run` fails (executors that do
not call the agent leave it alone), and that every call so far was good, was made good by
the next, or may be skipped (`Fine`). A step of `run` makes no call (`Quiet`) or one
(`Noisy`) (`StepMoves`), and the preservation of `CallsTell` looks at these two alone.
`ClientOK` then relates the client to its request: a 200 was given to a request that had
ended well, and as long as no write failed a stream ends with `"final"` if the last answer
is a text. A failed attempt may stream before the last, but never behind it.

For `StagesComeWhole` the nested folds of `Config!Load` are taken apart for files of any
length. `KeysReadIs` says that reading the keys adds no stage, `StagesReadAre` that what is
read of the list is the whole list in its order or ends in an exception, and `LoadIsWhole`
that an exception leaves the default.

**`HistoryStoreProofs`**, for clocks, tables, numbers of starts and windows of any
size, in every kind of surroundings:

* `TypeCorrect`: `Spec => []TypeOK`, which holds that `get_recent` stays within its
  window whatever the table holds (`GetRecentBound`).
* `NewConversationIsFresh`: `Spec => []NewIsFresh`. A process started with
  `--new-conversation` has loaded nothing that was stored before it made its
  conversation, even after a failed INSERT and next to other servers that write.
* `EveryMessageReachable`: `Spec => []MessagesReachable`. Where INSERTs work, every
  message belongs to a conversation of the table.
* `LatestIsContinued`: `Spec => ContinuesLatest`, an action property. Where conversations
  are made in different seconds, a process that continues one takes the last row of
  `conversations`, however many other servers are up and however many starts were killed
  or failed to listen.

`NewIsFresh` looks only at what was loaded; that the next `LoadHistory` gets nothing old
depends on the tables. `FreshInv` adds that every id, of either table and of a process, lies
behind `steady_clock` as long as the machine does not boot again (`Behind`), so that an id
made now is in no row, and that the rows which were there when a process made its id belong to
others (`ProcFresh`). `MessagesReachable` looks only at rows already stored; `ReachInv`
adds that the id a process will store is in the table too, from `Create` on. Both then follow
action by action (`FreshStep`, `ReachStep`), with `CreateEffect` for what the INSERT does
to the table. For `ContinuesLatest`, `TimesRise` holds that the times of the table rise and are
all before now, so that the largest `created_at` is that of the last row (`LatestIsLast`).

**`SseStreamProofs`**, for bodies of any number of lines and deltas and every cut into
chunks:

* `TypeCorrect` (`TypeOK`), `ChunksDoNotMatter` (`ChunkingIrrelevant`), `AnswerIsWhole`
  (`ResultIsWhole`), `CancelIsHeard` (`CancelStopsForwarding`).

The code keeps a buffer and a map and changes them line by line; the properties compare
them with what the set of lines received means. `LinesRead(k)` is what relates the two: `k`
lines were processed, the buffer is what was received behind them (`Rest`), and text and
tool calls are what lines `1 .. k` mean. It holds in the middle of a chunk too, where the
properties are silent. One more line then makes of the meaning what `process_sse_line` makes
of the variables (`LineProcessed`): for the text `TextGrows`, and for the calls
`AddDeltasAre` (the fold over the deltas of a line, call by call), `CallGrows` and `CallStarts`
(the reference picks a call's deltas out of all lines). `LinesMean` draws the conclusion
where all complete lines were processed. That a set of numbers has one order, which the
reference needs for `std::map`, is `NthExists` and `NthIsOne`.

**`HostSkillExecutorProofs`**, for any requests, commands and outputs of any length,
workers, limits and answers of the operator:

* `QuotingIsUndone`: what a POSIX shell reads of `ShellEscape(text)` is `text`, for every
  text. `ReadEscaped` is its induction: behind any prefix the shell is within quotes and has
  read just that prefix.
* `ChecksWhatRuns` (`RunsWhatWasChecked`): so the child runs what was validated, and
  the segments that were validated are the whole of it.
* `OperatorIsObeyed` (`OperatorDecides`).
* `ResultsTell` (`ResultTellsRun`), `MonitorIsRight` (`MonitorShowsLast`), `TypeCorrect`
  (`TypeOK`).

`StageOk` says of each request what its local variables amount to at each place in
`execute`: in the reading loop, which pieces of the output were read and what was kept of
them (`ReadsRight`), behind it what the result tells (`Told`). The newline that is trimmed is
looked for in what was kept, and is the last byte the child wrote where nothing was cut off
or hidden by a NUL (`EndsAt`, `EndsAtLast`).

For `OperatorDecides` the steps of `getline` are too many and too small for a statement about
who reads what, and nothing of that kind is true. `Obeys` counts instead. `Enough`: each
answer is two characters, and every character typed is still there or in one thread's hand,
has been taken for a thread's line, or has ended it; so a command that was approved has used
up two of them (`Weight`), whatever they were, and no more commands go on than prompts were
answered. It holds until the input ends, when a line ends with one character. `NoYes`: as
long as no answer is a yes, no y is typed, in a hand or on a line. `OneAtATime`: until two
prompts are open at once, what is typed is the rest of the answer to the one that is open
(`Progress`, `Between`), which is read in order. `TerminalStep` says what the five steps of
`getline` do to the thread and the terminal, and `StepWeighs`, `StepWithoutYes` and `AsksAlone`
that they keep the three.

**`FoldTheorems`** holds what these proofs share. The library's induction theorems take an
operator, which the provers at hand cannot instantiate, and say nothing of the community
modules' folds. Induction is done over sets of numbers instead, from the least-number
principle, which follows from the well-foundedness of `<` (`LeastNumber`,
`InductionOnSets`, `InductionUpTo`); and a `FoldLeft` is unfolded as the function whose
existence and steps `FoldForExists`, `FoldForAppend` and `FoldForRuns` prove once for every
operation given as a function, and `FlattenAppend` for `FlattenSeq`.

All safety properties of the passing runs are proved. Five of them (`ResultsFollowCalls`,
`MemoryMirrorsHistory`, `UniqueIds`, `MonitorExact`, `MessagesNest`) are properties of one
thread, which their runs have and their theorems assume. The liveness properties
`RunReturns`, `RequestReturns`, `ClientIsAnswered`, `ChatEnds` and `OthersAreServed`, and the
fairness half of `ImplementsConversation`, are only model-checked: the prover does not
reason about fairness and `ENABLED` here. That `ShellWord` is what a real shell reads is an
assumption of the model, like all that section 6 leaves out.

## 5. Where documentation and code part

Checked, each by the run named:

* `agent_feeds_back`: GOAL.md says a tool's result is fed back into the context. With two
  requests on one `messages_`, a result can be overwritten before the LLM sees it
  (`agent.cpp:229`).
* `agent_unanswered`: nor is it when a `type_error` (arguments of another JSON type,
  `agent.cpp:195`) ends `run`: the tool call stays in the history without a result.
* `http_feedback`: `retry_with_feedback` is to tell the LLM of the error (GOAL.md:64).
  The message goes to `ctx.messages`, which no executor reads.
* `http_abort`: `abort` is to report the error to the client (GOAL.md:66). A
  streaming client gets `[DONE]` and nothing else.

Visible in the models, as the hypothesis of a property or the exception in it:
a comment (`agent.cpp:99`) says sub-agents cannot spawn, but they can (`agent.cpp:77`;
that this ends is `WorkBounded`);
ids repeat after a reboot (`history_store.cpp:20` speaks of a random suffix), and then
`--new-conversation` continues an old one, which README.md:62 excludes (`NewIsFresh`, with
`reboots`); a failed INSERT of a conversation is not noticed
(`MessagesReachable`, with `insertFails`); two conversations of one second are not ordered,
and "the most recent" of `history_store.h:23` may be the older (`ContinuesLatest`, with `apart`);
an exception leaves sub-agents `running` for ever
(`MonitorExact`), and so does an id given twice, of which `update_agent_state` changes
the first entry only (`ActiveAreListed`, which holds for that very reason); an
answer of the LLM that begins with `[` and contains "failed" is taken for an error
marker (`Success`, the answer `"bracketed"`); `"[max tool iterations reached]"` is
a success for the pipeline and is never streamed (`Streamed`); the text before tool
calls is streamed though GOAL.md:7 promises only the final text; an unknown policy
leaves the client another text than abort (`Other`); a skill that a signal killed, or whose
output was cut off, may be reported as a success (`ResultTellsRun`); with two prompts on
the terminal a yes may go to a command that was refused, though every command must be
approved (`host_skill_executor.h:33`; `mixed` in `OperatorDecides`), and a request may wait for
ever though its prompt was answered (`mixed` in `OthersAreServed`); after an error
in the file the message says that defaults are used, but the keys read so far stay
(`config.cpp:76`, `Completed`; only the stages are reset, `StagesAreWhole`); a last line
without a newline is dropped, and an aborted transfer counts as success (`ResultIsWhole`).

## 6. Not modelled

* `LlmClient::forward` with its callback, `list_conversations`, `remove_agent` and the
  setters of the Monitor's pipeline fields: nothing calls them. `llm_timeout_seconds` is
  read and never used; the timeout is the constant 120.
* `load_skills`, `ensure_dirs`, the command line, the JSON text of requests and of the
  column `tool_calls`, logging, `/health`: input and output without state that anything
  here depends on.
* `/v1/monitor` and `to_json`: reads under the lock. (`to_json` cuts strings at 500 bytes,
  perhaps inside a character, and `dump` then throws; httplib answers 500.
  `MonitorShowsLast` says for how long such an entry stays.)
* What two servers that are up on one conversation make of each other's messages: each has
  loaded the history once. `HistoryStore` has both servers and what they loaded, and no
  document says what should hold.
* `mock_client`: a program to try the server with.
* The vendored libraries (`json.hpp`, `httplib.h`: 35,000 of the 37,000 lines under `src/`),
  except for what the modelled code sees of them.

## 7. What is left

1. A composition of `HttpServer` and `Agent`: a retried stage appends the user message
   once more and may repeat tool calls, which `http` does not show because a call of the
   agent is one step there.
2. A property for content that is not UTF-8: `Agent` models how it makes every request
   fail until a restart whose window has passed it, and no property says how long.
3. A theorem that composes the components where they meet: that `Agent`, over the
   store of `HistoryStore` and the client of `SseStream`, still implements `Conversation`.
