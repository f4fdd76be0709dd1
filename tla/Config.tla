------------------------------- MODULE Config -------------------------------
(***************************************************************************)
(* Config::load (src/src/core/config.cpp) as a function of config.yaml:    *)
(* the keys are read one after the other into the record that is returned, *)
(* and the first that cannot be converted throws.                          *)
(***************************************************************************)
EXTENDS Integers, Sequences, SequencesExt

\* In the order of load().
Keys == <<"endpoint", "timeout_seconds", "port", "system_prompt", "max_tool_iterations">>

(***************************************************************************)
(* A file: is it there, is it YAML, each key, and the list of stages; a    *)
(* stage without a name or executor, or with one that is no string, is     *)
(* "bad".                                                                  *)
(***************************************************************************)
File(Stage) == [exists : BOOLEAN,
                yaml   : BOOLEAN,
                keys   : [Range(Keys) -> {"absent", "good", "bad"}],
                stages : Seq([stage : Stage, good : BOOLEAN])]

BuiltinStage(name) == [executor |-> name, policy |-> "abort", fallback |-> "none"]

DefaultStages ==
  <<BuiltinStage("add_history"), BuiltinStage("llm_agent_loop"), BuiltinStage("response")>>

\* The record load() fills: the keys that come from the file, the stages, and
\* whether an exception is on its way.
Defaults == [set |-> {}, stages |-> << >>, thrown |-> FALSE]

ReadKey(cfg, file, key) ==
  CASE cfg.thrown \/ file.keys[key] = "absent" -> cfg
    [] ~cfg.thrown /\ file.keys[key] = "good" -> [cfg EXCEPT !.set = @ \cup {key}]
    [] ~cfg.thrown /\ file.keys[key] = "bad" -> [cfg EXCEPT !.thrown = TRUE]

ReadStage(cfg, node) ==
  CASE cfg.thrown -> cfg
    [] ~cfg.thrown /\ node.good -> [cfg EXCEPT !.stages = Append(@, node.stage)]
    [] ~cfg.thrown /\ ~node.good -> [cfg EXCEPT !.thrown = TRUE]

\* Mutant of Completed: the handler leaves the stages as they are.
CompletedUnreset(cfg) ==
  IF cfg.stages = << >> THEN [cfg EXCEPT !.stages = DefaultStages] ELSE cfg

\* The handler puts the default stages in place; without an exception they are
\* there only if the file names none.
Completed(cfg) ==
  IF cfg.thrown \/ cfg.stages = << >> THEN [cfg EXCEPT !.stages = DefaultStages] ELSE cfg

Load(file) ==
  LET start == [Defaults EXCEPT !.thrown = ~file.yaml]
      keyed == FoldLeft(LAMBDA cfg, key : ReadKey(cfg, file, key), start, Keys)
      read  == FoldLeft(ReadStage, keyed, file.stages)
  IN  Completed(IF file.exists THEN read ELSE Defaults)

=============================================================================
