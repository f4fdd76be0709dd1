------------------------------ MODULE Pipeline ------------------------------
(***************************************************************************)
(* Pipeline::run (src/src/agent/pipeline.cpp) with the three built-in      *)
(* stages that main.cpp registers.  ONE Pipeline object serves all request *)
(* threads: the executors in stages_ are resolved by the first requests,   *)
(* without a lock, and kept.                                               *)
(*                                                                         *)
(* Agent::run is the environment: it may give any answer Agent.tla allows. *)
(***************************************************************************)
EXTENDS Integers, Sequences, FiniteSets

CONSTANTS
  Requests,     \* the client requests, each in a thread of its own
  StageConfigs, \* what the configuration file may hold: sequences of stages
  MayThrow      \* may Agent::run throw?

\* fallback_stage names a built-in, or none; both it and executor may be misspelt.
Builtins == {"add_history", "llm_agent_loop", "response"}

Stage == [executor : Builtins \cup {"unknown"},
          policy   : {"skip", "abort", "retry_with_feedback", "fallback", "other"},
          fallback : Builtins \cup {"unknown", "none"}]

ASSUME PipelineAssumption ==
  /\ StageConfigs \subseteq Seq(Stage)
  /\ MayThrow \in BOOLEAN

VARIABLES
  stages,    \* the stages of the configuration
  resolved,  \* the positions whose executor is set
  req,       \* the run() of each request with its PipelineContext
  alive      \* the process

vars == <<stages, resolved, req, alive>>

\* What Agent::run returns: a text; a text that begins with "[" and contains
\* "failed" or "error", as LLM prose may; an empty text; the markers it makes
\* itself.  ("[cancelled]" is not among them: ctx.cancel is always nullptr.)
Answers == {"text", "bracketed", "empty", "failed", "exhausted"}

\* ctx.response_text: unset, an answer, or a message of handle_failure.
Responses == {"none", "stage error", "retry error"} \cup Answers

\* A call of an executor: for which stage, as its fallback or not, what it
\* reported and left in ctx.response_text, and how many of ctx.messages the
\* executor was told of.
Call == [stage : Nat, executor : Builtins, fallback : BOOLEAN,
         success : BOOLEAN, response : Responses, told : Nat]

Idle == [pc |-> "idle", i |-> 1, ok |-> FALSE, response |-> "none",
         feedback |-> 0, calls |-> << >>]

Request == [pc       : {"idle", "resolve", "assign", "run", "failed", "done",
                        "thrown", "dead"},
            i        : Nat \ {0},       \* the stage of the loop
            ok       : BOOLEAN,         \* what run() returned
            response : Responses,       \* ctx.response_text
            feedback : Nat,             \* ctx.messages.size()
            calls    : Seq(Call)]       \* history: the executors called

TypeOK ==
  /\ stages \in Seq(Stage)
  /\ resolved \subseteq 1 .. Len(stages)
  /\ req \in [Requests -> Request]
  /\ alive \in BOOLEAN

Init ==
  /\ stages \in StageConfigs
  /\ resolved = {}
  /\ req = [r \in Requests |-> Idle]
  /\ alive = TRUE

-----------------------------------------------------------------------------
(* The executors registered in main.cpp *)

\* Mutant of Success: any answer in brackets is a failure.
SuccessUnbracketed(answer) == answer \notin {"bracketed", "failed", "exhausted"}

\* The check of the answer in llm_agent_loop.
Success(answer) == answer \notin {"bracketed", "failed"}

\* What an executor may do: the success it reports and ctx.response_text.
Effects(executor, c) ==
  IF executor = "llm_agent_loop"
  THEN {[success |-> Success(a), response |-> a] : a \in Answers}
  ELSE {[success |-> TRUE, response |-> c.response]}

\* c after a call for stage i that had effect e.  Agent::run is given the user
\* message; ctx.messages is not among its arguments, so it is told of nothing.
Called(c, executor, isFallback, e) ==
  [c EXCEPT !.response = e.response,
            !.calls = Append(@, [stage |-> c.i, executor |-> executor,
                                 fallback |-> isFallback, success |-> e.success,
                                 response |-> e.response, told |-> 0])]

-----------------------------------------------------------------------------
(* Pipeline::run *)

Update(r, c) == req' = [req EXCEPT ![r] = c]

\* A request calls run().
Begin(r) ==
  /\ alive
  /\ req[r].pc = "idle"
  /\ Update(r, [req[r] EXCEPT !.pc = "resolve"])
  /\ UNCHANGED <<stages, resolved, alive>>

\* The first loop: an executor that is set is skipped, one that is not is
\* looked up, and a name that is not known ends run().
Resolve(r) ==
  LET c == req[r] IN
  /\ c.pc = "resolve"
  /\ c.i <= Len(stages)
  /\ Update(r, IF c.i \in resolved THEN [c EXCEPT !.i = @ + 1]
            ELSE IF stages[c.i].executor \in Builtins THEN [c EXCEPT !.pc = "assign"]
            ELSE [c EXCEPT !.pc = "done", !.ok = FALSE])
  /\ UNCHANGED <<stages, resolved, alive>>

\* Mutant of Assign: the position is counted on first.
AssignNext(r) ==
  LET c == req[r] IN
  /\ c.pc = "assign"
  /\ resolved' = resolved \cup {c.i + 1}
  /\ Update(r, [c EXCEPT !.pc = "resolve", !.i = @ + 1])
  /\ UNCHANGED <<stages, alive>>

\* The executor found is stored in the shared stage.
Assign(r) ==
  LET c == req[r] IN
  /\ c.pc = "assign"
  /\ resolved' = resolved \cup {c.i}
  /\ Update(r, [c EXCEPT !.pc = "resolve", !.i = @ + 1])
  /\ UNCHANGED <<stages, alive>>

\* Does another request assign or use the std::function of stage i?
Shared(r, i) ==
  \E s \in Requests \ {r} : req[s].pc \in {"assign", "run"} /\ req[s].i = i

\* The process dies, and every run() with it.
Die ==
  /\ alive' = FALSE
  /\ req' = [s \in Requests |->
               IF req[s].pc \in {"done", "thrown"} THEN req[s]
               ELSE [req[s] EXCEPT !.pc = "dead"]]
  /\ UNCHANGED <<stages, resolved>>

\* Undefined behaviour: the assignment meets another use of the same object.
\* Either nothing comes of it (Assign) or the process dies.
AssignRace(r) ==
  /\ req[r].pc = "assign"
  /\ Shared(r, req[r].i)
  /\ Die

\* Mutant of Resolved: an unknown executor ends the first loop, not run().
ResolvedPartly(r) ==
  LET c == req[r] IN
  /\ c.pc = "resolve"
  /\ c.i <= Len(stages) => stages[c.i].executor \notin Builtins
  /\ Update(r, [c EXCEPT !.pc = "run", !.i = 1])
  /\ UNCHANGED <<stages, resolved, alive>>

\* All executors are set: the second loop begins.
Resolved(r) ==
  LET c == req[r] IN
  /\ c.pc = "resolve"
  /\ c.i > Len(stages)
  /\ Update(r, [c EXCEPT !.pc = "run", !.i = 1])
  /\ UNCHANGED <<stages, resolved, alive>>

\* The executor of stage i is called.
RunStage(r) ==
  LET c == req[r] IN
  /\ c.pc = "run"
  /\ c.i <= Len(stages)
  /\ \E e \in Effects(stages[c.i].executor, c) :
       LET d == Called(c, stages[c.i].executor, FALSE, e) IN
       Update(r, IF e.success THEN [d EXCEPT !.i = @ + 1] ELSE [d EXCEPT !.pc = "failed"])
  /\ UNCHANGED <<stages, resolved, alive>>

\* The executor that is called next.
NextExecutor(c) ==
  CASE c.pc = "run" -> stages[c.i].executor
    [] c.pc = "failed" /\ stages[c.i].policy = "retry_with_feedback" ->
         stages[c.i].executor
    [] c.pc = "failed" /\ stages[c.i].policy = "fallback" -> stages[c.i].fallback
    [] OTHER -> "none"

\* An exception out of an executor leaves run().
Throw(r) ==
  LET c == req[r] IN
  /\ MayThrow
  /\ c.i <= Len(stages)
  /\ NextExecutor(c) = "llm_agent_loop"
  /\ Update(r, [c EXCEPT !.pc = "thrown"])
  /\ UNCHANGED <<stages, resolved, alive>>

Finish(r) ==
  LET c == req[r] IN
  /\ c.pc = "run"
  /\ c.i > Len(stages)
  /\ Update(r, [c EXCEPT !.pc = "done", !.ok = TRUE])
  /\ UNCHANGED <<stages, resolved, alive>>

-----------------------------------------------------------------------------
(* Pipeline::handle_failure, and what run() does with its result *)

Failed(r, policies) == req[r].pc = "failed" /\ stages[req[r].i].policy \in policies

Recovered(c) == [c EXCEPT !.pc = "run", !.i = @ + 1]

GivenUp(c, response) == [c EXCEPT !.pc = "done", !.ok = FALSE, !.response = response]

\* Mutant of Skip: the remaining stages are skipped too.
SkipAll(r) ==
  /\ Failed(r, {"skip"})
  /\ Update(r, [req[r] EXCEPT !.pc = "done", !.ok = TRUE])
  /\ UNCHANGED <<stages, resolved, alive>>

Skip(r) ==
  /\ Failed(r, {"skip"})
  /\ Update(r, Recovered(req[r]))
  /\ UNCHANGED <<stages, resolved, alive>>

Abort(r) ==
  /\ Failed(r, {"abort"})
  /\ Update(r, GivenUp(req[r], "stage error"))
  /\ UNCHANGED <<stages, resolved, alive>>

\* Mutant of Retry: the result of the second attempt is not looked at.
RetryBlindly(r) ==
  /\ Failed(r, {"retry_with_feedback"})
  /\ LET c == [req[r] EXCEPT !.feedback = @ + 1]
         executor == stages[c.i].executor
     IN  \E e \in Effects(executor, c) :
           Update(r, Recovered(Called(c, executor, FALSE, e)))
  /\ UNCHANGED <<stages, resolved, alive>>

\* Mutant of Retry: the failure of the first attempt is returned anyway.
RetryKeepsFailure(r) ==
  /\ Failed(r, {"retry_with_feedback"})
  /\ LET c == [req[r] EXCEPT !.feedback = @ + 1]
         executor == stages[c.i].executor
     IN  \E e \in Effects(executor, c) :
           LET d == Called(c, executor, FALSE, e) IN
           Update(r, GivenUp(d, IF e.success THEN d.response ELSE "retry error"))
  /\ UNCHANGED <<stages, resolved, alive>>

\* A system message with the error goes to ctx.messages; the same stage, and
\* no stage before it, runs a second time.
Retry(r) ==
  /\ Failed(r, {"retry_with_feedback"})
  /\ LET c == [req[r] EXCEPT !.feedback = @ + 1]
         executor == stages[c.i].executor
     IN  \E e \in Effects(executor, c) :
           LET d == Called(c, executor, FALSE, e) IN
           Update(r, IF e.success THEN Recovered(d) ELSE GivenUp(d, "retry error"))
  /\ UNCHANGED <<stages, resolved, alive>>

Fallback(r) ==
  /\ Failed(r, {"fallback"})
  /\ LET c == req[r]
         executor == stages[c.i].fallback
     IN  IF executor \in Builtins
         THEN \E e \in Effects(executor, c) :
                LET d == Called(c, executor, TRUE, e) IN
                Update(r, IF e.success THEN Recovered(d) ELSE GivenUp(d, d.response))
         ELSE Update(r, GivenUp(c, c.response))
  /\ UNCHANGED <<stages, resolved, alive>>

\* Any other policy.
Other(r) ==
  /\ Failed(r, {"other"})
  /\ Update(r, GivenUp(req[r], req[r].response))
  /\ UNCHANGED <<stages, resolved, alive>>

HandleFailure(r) == Skip(r) \/ Abort(r) \/ Retry(r) \/ Fallback(r) \/ Other(r)

Step(r) ==
  \/ Resolve(r) \/ Assign(r) \/ Resolved(r)
  \/ RunStage(r) \/ Finish(r) \/ HandleFailure(r)

\* All requests are over.
Served ==
  /\ \A r \in Requests : req[r].pc \in {"done", "thrown", "dead"}
  /\ UNCHANGED vars

Next ==
  \/ \E r \in Requests : Begin(r) \/ Step(r) \/ Throw(r) \/ AssignRace(r)
  \/ Served

Spec == Init /\ [][Next]_vars

-----------------------------------------------------------------------------
(* Properties *)

\* A configuration with a stage nobody can run is refused as a whole: no stage
\* before it runs either, not for the first request and not for a later one
\* that finds some executors resolved.
BadConfigRunsNothing ==
  (\E i \in 1 .. Len(stages) : stages[i].executor \notin Builtins) =>
    \A r \in Requests : req[r].calls = << >>

\* May the call d come after the call c in one run()?  The next stage follows
\* a success or a failure that its policy skips, the same stage a first
\* attempt that failed.
Follows(c, d) ==
  \/ /\ d.stage = c.stage + 1
     /\ c.success \/ stages[c.stage].policy = "skip"
     /\ ~d.fallback
  \/ /\ d.stage = c.stage
     /\ ~c.success /\ ~c.fallback
     /\ d.fallback <=> stages[c.stage].policy = "fallback"

\* No stage runs behind one that failed and was not recovered, whatever other
\* requests do to the shared stages; none is attempted a third time.
StagesInOrder ==
  \A r \in Requests :
    LET calls == req[r].calls IN
    /\ calls # << >> => calls[1].stage = 1 /\ ~calls[1].fallback
    /\ \A p \in 2 .. Len(calls) : Follows(calls[p - 1], calls[p])
    /\ \A p \in 3 .. Len(calls) : calls[p].stage # calls[p - 2].stage

\* run() returns true for a request only if every stage of the configuration
\* was called for it and the last attempt at it succeeded or may be skipped.
OkMeansEveryStage ==
  \A r \in Requests :
    LET calls == req[r].calls IN
    req[r].pc = "done" /\ req[r].ok =>
      \A i \in 1 .. Len(stages) :
        \E p \in 1 .. Len(calls) :
          /\ calls[p].stage = i
          /\ p = Len(calls) \/ calls[p + 1].stage # i
          /\ calls[p].success \/ stages[i].policy = "skip"

\* What run() leaves for the client when it returns false is a word about the
\* failure, never an answer an earlier stage produced; only a configuration
\* that cannot run leaves nothing.
FailureIsTold ==
  \A r \in Requests :
    req[r].pc = "done" /\ ~req[r].ok =>
      IF req[r].calls = << >> THEN req[r].response = "none"
      ELSE req[r].response \in {"stage error", "retry error", "failed", "bracketed"}

\* "Feed the error back as context and re-run" (comment in pipeline.cpp): the
\* agent is told of the error when the stage runs again.  Not so: the message
\* goes to ctx.messages, which no executor reads.
FeedbackReachesAgent ==
  \A r \in Requests :
    req[r].feedback > 0 =>
      \E p \in 1 .. Len(req[r].calls) : req[r].calls[p].told = req[r].feedback

=============================================================================
