----------------------------- MODULE HttpServer -----------------------------
(***************************************************************************)
(* POST /v1/chat/completions (src/src/inbound-server/http_server.cpp) over *)
(* the Pipeline: what a client is sent, with and without streaming.        *)
(*                                                                         *)
(* httplib (vendored) gives each request a thread and catches what the     *)
(* handler throws.  The content provider of a streaming answer runs after  *)
(* the handler, where nothing catches; the sink it writes to knows when    *)
(* the client is gone or takes nothing, but nobody asks it.                *)
(***************************************************************************)
EXTENDS Pipeline, Config

CONSTANT Files  \* what config.yaml may be

ASSUME HttpServerAssumption ==
  /\ Files \subseteq File(Stage)
  /\ StageConfigs = {Load(f).stages : f \in Files}

VARIABLES
  file,    \* config.yaml; it never changes
  client   \* what each request is, and what its client was sent

hvars == <<vars, file, client>>

\* A piece of the text the LLM streams, as the agent forwards it: of an answer
\* that ends in tool calls, of a request that fails on its way, or of the
\* answer run() returns.
Tokens == {"intermediate", "partial", "final"}

Unseen == [kind |-> "none", status |-> 0, body |-> "none", events |-> << >>,
           lost |-> FALSE, end |-> "none"]

Client == [kind   : {"none", "invalid", "mistyped", "plain", "stream"},
           status : {0, 200, 400, 500},
           body   : Responses \cup {"error", "Pipeline failed"},
           events : Seq(Tokens),    \* SSE events
           lost   : BOOLEAN,        \* a write to the sink failed: ok = false
           end    : {"none", "done", "broken"}]  \* the end of the stream

HTypeOK ==
  /\ TypeOK
  /\ file \in File(Stage)
  /\ client \in [Requests -> Client]

HInit ==
  /\ Init
  /\ file \in Files
  /\ stages = Load(file).stages
  /\ client = [r \in Requests |-> Unseen]

-----------------------------------------------------------------------------
(* The handler *)

Reply(r, status, body) ==
  client' = [client EXCEPT ![r].status = status, ![r].body = body]

\* No JSON, or no user message: 400.  JSON of another shape (a content that is
\* no string, a message that is no object): type_error, which httplib answers
\* with 500 and an empty body.
Refuse(r) ==
  /\ alive
  /\ client[r].kind = "none"
  /\ \/ client' = [client EXCEPT ![r].kind = "invalid", ![r].status = 400, ![r].body = "error"]
     \/ client' = [client EXCEPT ![r].kind = "mistyped", ![r].status = 500]
  /\ UNCHANGED <<vars, file>>

\* The pipeline begins.  The status line of a streaming answer is sent first.
Accept(r) ==
  /\ client[r].kind = "none"
  /\ Begin(r)
  /\ \/ client' = [client EXCEPT ![r].kind = "plain"]
     \/ client' = [client EXCEPT ![r].kind = "stream", ![r].status = 200]
  /\ UNCHANGED file

\* Mutant of Streamed: on_token is moved into the first request to the LLM.
StreamedOnce(answer) ==
  CASE answer \in {"text", "bracketed"} -> {<<"final">>, <<"intermediate">>}
    [] answer = "failed" -> {<< >>, <<"intermediate">>, <<"partial">>}
    [] OTHER -> {<< >>, <<"intermediate">>}

\* What on_token was called with in an Agent::run that returned answer.  The
\* markers of the agent are no tokens.
Streamed(answer) ==
  CASE answer \in {"text", "bracketed"} -> {<<"final">>, <<"intermediate", "final">>}
    [] answer = "failed" -> {<< >>, <<"intermediate">>, <<"partial">>,
                             <<"intermediate", "partial">>}
    [] OTHER -> {<< >>, <<"intermediate">>}

\* Does this step of run() call the agent?
AgentCalled(r) ==
  /\ Len(req'[r].calls) > Len(req[r].calls)
  /\ req'[r].calls[Len(req'[r].calls)].executor = "llm_agent_loop"

\* sink.write for each token.  Any write may fail, the client being gone or too
\* slow, and then each one behind it does.
Written(c, tokens) ==
  IF c.lost THEN {c}
  ELSE {[c EXCEPT !.events = @ \o SubSeq(tokens, 1, n), !.lost = n < Len(tokens)] :
          n \in 0 .. Len(tokens)}

\* Pipeline::run goes on; a streaming client gets the tokens.  What write
\* returns is not looked at: the agent works on.
Work(r) ==
  /\ Step(r)
  /\ IF client[r].kind = "stream" /\ AgentCalled(r)
     THEN \E tokens \in Streamed(req'[r].calls[Len(req'[r].calls)].response) :
            \E c \in Written(client[r], tokens) : client' = [client EXCEPT ![r] = c]
     ELSE UNCHANGED client
  /\ UNCHANGED file

\* Mutant of Respond: 200 whatever run() returned.
RespondOk(r) ==
  /\ alive
  /\ client[r].kind = "plain" /\ client[r].status = 0
  /\ req[r].pc = "done"
  /\ Reply(r, 200, req[r].response)
  /\ UNCHANGED <<vars, file>>

\* The answer to a request that does not stream.
Respond(r) ==
  /\ alive
  /\ client[r].kind = "plain" /\ client[r].status = 0
  /\ req[r].pc = "done"
  /\ IF req[r].ok THEN Reply(r, 200, req[r].response)
     ELSE Reply(r, 500, IF req[r].response \in {"none", "empty"} THEN "Pipeline failed"
                        ELSE req[r].response)
  /\ UNCHANGED <<vars, file>>

\* Mutant of EndStream: a failed pipeline leaves the provider before sink.done().
EndStreamIfOk(r) ==
  /\ alive
  /\ client[r].kind = "stream" /\ client[r].end = "none"
  /\ req[r].pc = "done" /\ req[r].ok
  /\ client' = [client EXCEPT ![r].end = "done"]
  /\ UNCHANGED <<vars, file>>

\* [DONE] and sink.done(), whatever run() returned.  The provider is not called
\* again: done() ends the loop around it, and so does a write that failed.
EndStream(r) ==
  /\ alive
  /\ client[r].kind = "stream" /\ client[r].end = "none"
  /\ req[r].pc = "done"
  /\ \E end \in IF client[r].lost THEN {"broken"} ELSE {"done", "broken"} :
       client' = [client EXCEPT ![r].end = end]
  /\ UNCHANGED <<vars, file>>

\* An exception out of the handler: httplib answers 500.
Contain(r) ==
  /\ alive
  /\ client[r].kind = "plain" /\ client[r].status = 0
  /\ req[r].pc = "thrown"
  /\ Reply(r, 500, "none")
  /\ UNCHANGED <<vars, file>>

\* An exception out of the content provider: std::terminate.
Terminate(r) ==
  /\ alive
  /\ client[r].kind = "stream"
  /\ req[r].pc = "thrown"
  /\ Die
  /\ UNCHANGED <<file, client>>

HStep(r) == Work(r) \/ Respond(r) \/ EndStream(r) \/ Contain(r) \/ Terminate(r)

Answered(r) ==
  client[r].status # 0 /\ (client[r].kind = "stream" => client[r].end # "none")

\* All who asked have their answers, or the process is dead.
HServed ==
  /\ alive => \A r \in Requests : client[r].kind # "none" => Answered(r)
  /\ UNCHANGED hvars

HNext ==
  \/ \E r \in Requests :
       \/ Refuse(r) \/ Accept(r) \/ HStep(r)
       \/ (Throw(r) \/ AssignRace(r)) /\ UNCHANGED <<file, client>>
  \/ HServed

HSpec == HInit /\ [][HNext]_hvars

\* A thread that can take its next step takes it.  One step stands for a whole
\* Agent::run, which returns: Agent!RunReturns.
HFairSpec == HSpec /\ \A r \in Requests : WF_hvars(HStep(r))

-----------------------------------------------------------------------------
(* Properties *)

AgentCalls(r) ==
  {p \in 1 .. Len(req[r].calls) : req[r].calls[p].executor = "llm_agent_loop"}

LastAnswer(r) ==
  IF AgentCalls(r) = {} THEN "none"
  ELSE req[r].calls[CHOOSE p \in AgentCalls(r) :
                      \A q \in AgentCalls(r) : q <= p].response

\* A client that does not stream gets 200 only with the last answer of the
\* agent, and only if each stage succeeded or its policy let the request go on
\* past the failure; it never gets 500 with an answer that was good.
StatusTellsTheResult ==
  \A r \in Requests :
    client[r].kind = "plain" =>
      /\ client[r].status = 200 =>
           /\ client[r].body = LastAnswer(r)
           /\ \A p \in 1 .. Len(req[r].calls) :
                \/ req[r].calls[p].success
                \/ stages[req[r].calls[p].stage].policy = "skip"
                \/ p < Len(req[r].calls) /\ req[r].calls[p + 1].success
      /\ client[r].status = 500 => client[r].body # "text"

\* The text of the answer reaches a streaming client although nothing but the
\* tokens carries it, and it is the end of what the client reads, also when an
\* attempt before it streamed a part.  A stream ends with [DONE] only if it
\* carries all of that, whatever writes failed on the way.
StreamCarriesAnswer ==
  \A r \in Requests :
    client[r].end = "done" /\ LastAnswer(r) = "text" =>
      /\ client[r].events # << >>
      /\ client[r].events[Len(client[r].events)] = "final"

\* The stages in use are all those of the file or all the default ones: never
\* the first part of a list that could not be read to its end.
StagesAreWhole ==
  \/ stages = DefaultStages
  \/ /\ \A i \in DOMAIN file.stages : file.stages[i].good
     /\ stages = [i \in DOMAIN file.stages |-> file.stages[i].stage]

\* Every accepted client gets an answer that ends, unless the process dies.
ClientIsAnswered ==
  \A r \in Requests : client[r].kind \in {"plain", "stream"} ~> Answered(r) \/ ~alive

\* "abort - stop the pipeline and report the error to the client" (GOAL.md).
\* Not so for a streaming client: its stream ends like one that went well.
AbortIsReported ==
  \A r \in Requests :
    Answered(r) /\ req[r].response = "stage error" => client[r].body = "stage error"

=============================================================================
