---------------------------- MODULE MCHttpServer ----------------------------
(***************************************************************************)
(* TLC instances of HttpServer.  Only llm_agent_loop can fail, so the      *)
(* policy matters for it alone, and the fallback for the policy of that    *)
(* name.                                                                   *)
(***************************************************************************)
EXTENDS HttpServer, TLC

MCStage(executor, policy, fallback) ==
  [executor |-> executor, policy |-> policy, fallback |-> fallback]

Abortable(executor) == MCStage(executor, "abort", "none")

Loops ==
  {MCStage("llm_agent_loop", p, "none") :
     p \in {"skip", "abort", "retry_with_feedback", "other"}}
  \cup {MCStage("llm_agent_loop", "fallback", f) :
          f \in {"add_history", "llm_agent_loop", "unknown"}}

Others == {Abortable(e) : e \in {"response", "unknown"}}

Skipping == MCStage("llm_agent_loop", "skip", "none")
Retrying == MCStage("llm_agent_loop", "retry_with_feedback", "none")

\* For two requests at once: a loop alone, or before a stage nobody can run.
ShortLists ==
  {<<Abortable("llm_agent_loop")>>, <<Retrying>>,
   <<Abortable("llm_agent_loop"), Abortable("unknown")>>}

\* The default pipeline, every pair of stages, and three loops of which each
\* may go on past a failure.
Lists ==
  ShortLists
  \cup {DefaultStages, <<Skipping, Retrying, Skipping>>}
  \cup UNION {[1 .. n -> Loops \cup Others] : n \in 1 .. 2}

\* Files that can be read; no file; no YAML; a bad key before good stages, and
\* a bad stage behind a good one.
NoKeys == [k \in {Keys[i] : i \in DOMAIN Keys} |-> "absent"]

AFile(keys, nodes) == [exists |-> TRUE, yaml |-> TRUE, keys |-> keys, stages |-> nodes]

Good(list) == [i \in DOMAIN list |-> [stage |-> list[i], good |-> TRUE]]

GoodFiles(lists) == {AFile(NoKeys, Good(list)) : list \in lists}

OtherFiles ==
  {[AFile(NoKeys, << >>) EXCEPT !.exists = FALSE],
   [AFile(NoKeys, << >>) EXCEPT !.yaml = FALSE],
   AFile([NoKeys EXCEPT !["endpoint"] = "good", !["port"] = "bad"], Good(<<Skipping>>)),
   AFile(NoKeys, <<[stage |-> Skipping, good |-> TRUE], [stage |-> Skipping, good |-> FALSE]>>)}

ShortFiles == GoodFiles(ShortLists)

AllFiles == GoodFiles(Lists) \cup OtherFiles

\* The other lists are for one request.
OneAtATime ==
  stages \notin ShortLists =>
    LET first == CHOOSE r \in Requests : TRUE
    IN  \A r \in Requests \ {first} : client'[r].kind = "none"
=============================================================================
