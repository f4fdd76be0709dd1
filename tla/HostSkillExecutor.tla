------------------------- MODULE HostSkillExecutor --------------------------
(***************************************************************************)
(* HostSkillExecutor::execute (src/src/skills/host_skill_executor.cpp) on  *)
(* the request threads of the server: each job is a request that is handed *)
(* to httplib's ThreadPool and whose agent executes one skill.  A command  *)
(* is validated, approved on the one terminal of the server, run in a      *)
(* child process, read up to a limit, and recorded in the Monitor.         *)
(***************************************************************************)
EXTENDS CommandLine, Monitor

CONSTANTS
  Scenarios,  \* what the requests may be
  Workers,    \* threads of the pool
  Allowed,    \* allowed_commands_
  Blocked,    \* blocked_commands_
  MaxOutput,  \* max_output_bytes_; 0: no limit
  Marker,     \* bytes of the mark behind an output that was cut off
  MaxRecent   \* how many executions the Monitor keeps (50 in the code)

(***************************************************************************)
(* A job: the command the LLM asks for, whether it comes as the argument   *)
(* "command" or the whole of the arguments goes to the skill's stdin, and  *)
(* what the child would write and how it would end if all of its output    *)
(* were read.  One element of "writes" is what one fgets reads: "size"     *)
(* bytes, of which strlen sees those before the first NUL; the last one    *)
(* may be a newline.                                                       *)
(***************************************************************************)
Piece == [size : Nat \ {0}, seen : Nat, newline : BOOLEAN]

Ends == {"zero", "nonzero", "signal", "never"}

Job == [command : Seq(STRING), plain : BOOLEAN,
        writes : Seq(Piece), ends : Ends]

Scenario == [approve : BOOLEAN, jobs : Seq(Job)]

ASSUME HostSkillExecutorAssumption ==
  /\ Scenarios \subseteq Scenario
  /\ \A s \in Scenarios :
       \A j \in DOMAIN s.jobs :
         \A p \in Range(s.jobs[j].writes) : p.seen <= p.size
  /\ Workers \in Nat \ {0}
  /\ MaxOutput \in Nat
  /\ Marker \in Nat
  /\ MaxRecent \in Nat \ {0}

VARIABLES
  scenario,  \* it never changes
  arrived,   \* the requests accepted so far
  queue,     \* jobs_ of the ThreadPool
  exec,      \* the execute() of each job
  terminal,  \* what was typed and not yet read, has it ended, and the state of std::cin
  verdict,   \* each prompt, and what the operator typed for it
  mixed,     \* history: were two prompts open at once?
  recent,    \* recent_tool_executions_ of the Monitor
  recorded   \* history: all executions recorded

vars == <<scenario, arrived, queue, exec, terminal, verdict, mixed, recent, recorded>>

Jobs == DOMAIN scenario.jobs

Result == [success : BOOLEAN, code : {-1, 0, 1}, output : Nat, truncated : BOOLEAN]

\* Rejected, denied, or not started.
Failed == [success |-> FALSE, code |-> -1, output |-> 0, truncated |-> FALSE]

Keys == {"y", "n", "newline"}

\* Where a thread waits for an answer: in front of and within std::getline.
Asking == {"ask", "peek", "unget", "take", "drop"}

Exec == [pc     : Asking \cup {"out", "queued", "validate", "start", "read", "close",
                               "record", "done"},
         input  : Seq({"y", "n"}),         \* the line getline is reading
         hand   : Keys \cup {"none"},      \* what getc returned, until ungetc
         child  : Seq(Seq(STRING)),        \* the arguments of the child, if started
         piece  : Nat,                     \* fgets calls so far
         result : Result]

NotArrived == [pc |-> "out", input |-> << >>, hand |-> "none", child |-> << >>,
               piece |-> 0, result |-> Failed]

TypeOK ==
  /\ scenario \in Scenario
  /\ arrived \in 0 .. Len(scenario.jobs)
  /\ queue \in Seq(Jobs)
  /\ \A j \in Jobs :
       exec[j] \in Exec /\ exec[j].piece <= Len(scenario.jobs[j].writes)
  /\ terminal \in [typed : Seq(Keys), eof : BOOLEAN, cin : {"good", "eof", "fail"}]
  /\ verdict \in [Jobs -> {"none", "asked", "yes", "no"}]
  /\ mixed \in BOOLEAN
  /\ recent \in Seq(Jobs) /\ recorded \in Seq(Jobs)

Init ==
  /\ scenario \in Scenarios
  /\ arrived = 0
  /\ queue = << >>
  /\ exec = [j \in Jobs |-> NotArrived]
  /\ terminal = [typed |-> << >>, eof |-> FALSE, cin |-> "good"]
  /\ verdict = [j \in Jobs |-> "none"]
  /\ mixed = FALSE
  /\ recent = << >>
  /\ recorded = << >>

At(j, pc) == exec[j].pc = pc

Goto(j, pc) == exec' = [exec EXCEPT ![j].pc = pc]

Fail(j) == exec' = [exec EXCEPT ![j].pc = "record", ![j].result = Failed]

-----------------------------------------------------------------------------
(* The thread pool *)

\* The listening thread enqueues the next request; the pool has no limit.
Enqueue ==
  /\ arrived < Len(scenario.jobs)
  /\ arrived' = arrived + 1
  /\ queue' = Append(queue, arrived + 1)
  /\ Goto(arrived + 1, "queued")
  /\ UNCHANGED <<scenario, terminal, verdict, mixed, recent, recorded>>

Busy == {j \in Jobs : exec[j].pc \notin {"out", "queued", "done"}}

\* A worker that has nothing to do takes the first job.
Dequeue ==
  /\ queue # << >>
  /\ Cardinality(Busy) < Workers
  /\ queue' = Tail(queue)
  /\ Goto(Head(queue), "validate")
  /\ UNCHANGED <<scenario, arrived, terminal, verdict, mixed, recent, recorded>>

-----------------------------------------------------------------------------
(* execute *)

\* Only the argument "command" is validated.
Accepted(j) ==
  scenario.jobs[j].plain => IsValid(scenario.jobs[j].command, Allowed, Blocked)

\* Does this job show a prompt?
Prompts(j) == Accepted(j) /\ scenario.approve

Validate(j) ==
  /\ At(j, "validate")
  /\ IF ~Accepted(j) THEN Fail(j)
     ELSE Goto(j, IF scenario.approve THEN "ask" ELSE "start")
  /\ verdict' = IF Prompts(j) THEN [verdict EXCEPT ![j] = "asked"] ELSE verdict
  /\ mixed' = (mixed \/ (Prompts(j) /\ \E i \in Jobs : exec[i].pc \in Asking))
  /\ UNCHANGED <<scenario, arrived, queue, terminal, recent, recorded>>

\* Mutant of Approved: anything but a no is a yes.
ApprovedUnlessNo(input) == input = << >> \/ input[1] # "n"

\* The callback of main.cpp: the first character of the line.
Approved(input) == input # << >> /\ input[1] = "y"

\* Mutant of LineEnds: only a yes ends the question.
LineEndsInsists(j, rest, cin) ==
  /\ exec' = IF cin # "fail" /\ Approved(exec[j].input)
             THEN [exec EXCEPT ![j].pc = "start"]
             ELSE [exec EXCEPT ![j].pc = "ask", ![j].input = << >>]
  /\ terminal' = [terminal EXCEPT !.typed = rest, !.cin = cin]

\* getline returns, and so does the approval callback, which looks at the state
\* of std::cin: all threads share it, and nobody clears it.
LineEnds(j, rest, cin) ==
  /\ IF cin # "fail" /\ Approved(exec[j].input) THEN Goto(j, "start") ELSE Fail(j)
  /\ terminal' = [terminal EXCEPT !.typed = rest, !.cin = cin]

\* getline meets the end of the input: it fails if it has read nothing.
InputEnds(j) ==
  /\ terminal.typed = << >> /\ terminal.eof
  /\ LineEnds(j, << >>,
              IF exec[j].input = << >> \/ terminal.cin = "fail" THEN "fail" ELSE "eof")

\* std::getline reads nothing once std::cin is not good.
Ask(j) ==
  /\ At(j, "ask")
  /\ IF terminal.cin = "good" THEN Goto(j, "peek") /\ UNCHANGED terminal
     ELSE LineEnds(j, terminal.typed, "fail")
  /\ UNCHANGED <<scenario, arrived, queue, verdict, mixed, recent, recorded>>

\* std::cin is synchronised with stdin: to look at the next character is a getc
\* and an ungetc, to take it another getc, and threads may come in between.  A
\* getc waits until something is typed or the input ends.
Peek(j) ==
  /\ At(j, "peek")
  /\ \/ /\ terminal.typed # << >>
        /\ exec' = [exec EXCEPT ![j].pc = "unget", ![j].hand = Head(terminal.typed)]
        /\ terminal' = [terminal EXCEPT !.typed = Tail(@)]
     \/ InputEnds(j)
  /\ UNCHANGED <<scenario, arrived, queue, verdict, mixed, recent, recorded>>

\* A newline ends the line, another character becomes a part of it.
Unget(j) ==
  /\ At(j, "unget")
  /\ terminal' = [terminal EXCEPT !.typed = <<exec[j].hand>> \o @]
  /\ exec' = IF exec[j].hand = "newline"
             THEN [exec EXCEPT ![j].pc = "drop", ![j].hand = "none"]
             ELSE [exec EXCEPT ![j].pc = "take", ![j].hand = "none",
                               ![j].input = Append(@, exec[j].hand)]
  /\ UNCHANGED <<scenario, arrived, queue, verdict, mixed, recent, recorded>>

\* snextc takes the character, or whatever is there by now.
Take(j) ==
  /\ At(j, "take")
  /\ \/ /\ terminal.typed # << >>
        /\ Goto(j, "peek")
        /\ terminal' = [terminal EXCEPT !.typed = Tail(@)]
     \/ InputEnds(j)
  /\ UNCHANGED <<scenario, arrived, queue, verdict, mixed, recent, recorded>>

\* sbumpc takes the newline, or whatever is there by now.
Drop(j) ==
  /\ At(j, "drop")
  /\ \/ /\ terminal.typed # << >>
        /\ LineEnds(j, Tail(terminal.typed), terminal.cin)
     \/ /\ terminal.typed = << >> /\ terminal.eof
        /\ LineEnds(j, << >>, terminal.cin)
  /\ UNCHANGED <<scenario, arrived, queue, verdict, mixed, recent, recorded>>

\* The shell starts, or popen fails.  What the child is given is a word of the
\* shell; it was quoted.
Popen(j) ==
  /\ At(j, "start")
  /\ \/ exec' = [exec EXCEPT ![j].pc = "read",
                             ![j].child = <<ShellWord(ShellEscape(scenario.jobs[j].command))>>]
     \/ Fail(j)
  /\ UNCHANGED <<scenario, arrived, queue, terminal, verdict, mixed, recent, recorded>>

Writes(j) == scenario.jobs[j].writes

\* Mutant of Fits: the piece in the buffer is not counted.
FitsBefore(output, piece) == MaxOutput > 0 => output <= MaxOutput

\* output.size() + strlen(buffer.data()) is within the limit.
Fits(output, piece) == MaxOutput > 0 => output + piece.seen <= MaxOutput

\* fgets returns a piece: it is appended, or the output is cut off before it.
Fgets(j) ==
  /\ At(j, "read")
  /\ exec[j].piece < Len(Writes(j))
  /\ LET piece == Writes(j)[exec[j].piece + 1] IN
     IF Fits(exec[j].result.output, piece)
     THEN exec' = [exec EXCEPT ![j].piece = @ + 1, ![j].result.output = @ + piece.seen]
     ELSE exec' = [exec EXCEPT ![j].pc = "close", ![j].result.truncated = TRUE]
  /\ UNCHANGED <<scenario, arrived, queue, terminal, verdict, mixed, recent, recorded>>

\* fgets returns nullptr: the child has written all and closed its end.
FgetsEnd(j) ==
  /\ At(j, "read")
  /\ exec[j].piece = Len(Writes(j))
  /\ scenario.jobs[j].ends # "never"
  /\ Goto(j, "close")
  /\ UNCHANGED <<scenario, arrived, queue, terminal, verdict, mixed, recent, recorded>>

\* A child whose output is no longer read meets a closed pipe: SIGPIPE, or an
\* error of write where the signal is ignored (httplib has the server ignore it).
Statuses(j) ==
  IF exec[j].result.truncated THEN {"zero", "nonzero", "signal"}
  ELSE {scenario.jobs[j].ends}

\* Does the output end in a newline?  The last bytes of it are those of the last
\* piece that had any, and a newline behind a NUL is not seen.
EndsLine(j) ==
  \E i \in 1 .. exec[j].piece :
    /\ Writes(j)[i].newline /\ Writes(j)[i].seen = Writes(j)[i].size
    /\ \A k \in i + 1 .. exec[j].piece : Writes(j)[k].seen = 0

\* The output as it is returned: the mark ends in a bracket; without it, one
\* newline at the end goes.
Returned(j) ==
  LET output == exec[j].result.output
  IN  IF exec[j].result.truncated THEN output + Marker
      ELSE IF EndsLine(j) THEN output - 1 ELSE output

\* Mutant of Pclose: the status is taken for the exit code.
PcloseRaw(j) ==
  /\ At(j, "close")
  /\ scenario.jobs[j].ends # "never"
  /\ \E status \in Statuses(j) :
       LET code == CASE status = "zero" -> 0 [] status = "nonzero" -> 256
                     [] status = "signal" -> 9 IN
       exec' = [exec EXCEPT ![j].pc = "record",
                            ![j].result = [success |-> code = 0, code |-> code,
                                           output |-> Returned(j),
                                           truncated |-> exec[j].result.truncated]]
  /\ UNCHANGED <<scenario, arrived, queue, terminal, verdict, mixed, recent, recorded>>

\* pclose waits for the child.  WEXITSTATUS of a child that a signal killed is 0.
Pclose(j) ==
  /\ At(j, "close")
  /\ scenario.jobs[j].ends # "never"
  /\ \E status \in Statuses(j) :
       LET code == IF status = "nonzero" THEN 1 ELSE 0 IN
       exec' = [exec EXCEPT ![j].pc = "record",
                            ![j].result = [success |-> code = 0, code |-> code,
                                           output |-> Returned(j),
                                           truncated |-> exec[j].result.truncated]]
  /\ UNCHANGED <<scenario, arrived, queue, terminal, verdict, mixed, recent, recorded>>

\* handle_tool_calls records what execute returned; the request is over.
Record(j) ==
  /\ At(j, "record")
  /\ recent' = RecordLast(recent, j, MaxRecent)
  /\ recorded' = Append(recorded, j)
  /\ Goto(j, "done")
  /\ UNCHANGED <<scenario, arrived, queue, terminal, verdict, mixed>>

-----------------------------------------------------------------------------
(* The operator at the terminal *)

\* One line for each prompt on the screen; nothing tells the operator which
\* thread reads it.
Answer(j, v) ==
  /\ verdict[j] = "asked"
  /\ ~terminal.eof
  /\ verdict' = [verdict EXCEPT ![j] = v]
  /\ terminal' = [terminal EXCEPT !.typed =
                    @ \o <<IF v = "yes" THEN "y" ELSE "n", "newline">>]
  /\ UNCHANGED <<scenario, arrived, queue, exec, mixed, recent, recorded>>

\* The terminal is closed, or the server never had one.
CloseInput ==
  /\ scenario.approve
  /\ ~terminal.eof
  /\ terminal' = [terminal EXCEPT !.eof = TRUE]
  /\ UNCHANGED <<scenario, arrived, queue, exec, verdict, mixed, recent, recorded>>

Operator(j) == \E v \in {"yes", "no"} : Answer(j, v)

-----------------------------------------------------------------------------
Execute(j) ==
  \/ Validate(j)
  \/ Ask(j) \/ Peek(j) \/ Unget(j) \/ Take(j) \/ Drop(j)
  \/ Popen(j) \/ Fgets(j) \/ FgetsEnd(j) \/ Pclose(j) \/ Record(j)

\* Nothing happens any more: the rest waits for children that do not end.
Hangs(j) ==
  /\ scenario.jobs[j].ends = "never"
  /\ At(j, "close") \/ (At(j, "read") /\ exec[j].piece = Len(Writes(j)))

Rest ==
  /\ arrived = Len(scenario.jobs)
  /\ \A j \in Busy : Hangs(j)
  /\ queue # << >> => Cardinality(Busy) = Workers
  /\ UNCHANGED vars

Next ==
  \/ Enqueue \/ Dequeue \/ CloseInput
  \/ \E j \in Jobs : Execute(j) \/ Operator(j)
  \/ Rest

Spec == Init /\ [][Next]_vars

\* The workers run, and the operator answers each prompt.
FairSpec ==
  /\ Spec
  /\ WF_vars(Dequeue)
  /\ WF_vars(\E j \in Jobs : Execute(j))
  /\ WF_vars(\E j \in Jobs : Operator(j))

-----------------------------------------------------------------------------
(* Properties *)

\* What runs is the very text that was validated: quoting it for the shell
\* changes nothing; and cutting it at its pipes for the validation loses nothing
\* of it, and cuts at no bar within quotes.
RunsWhatWasChecked ==
  \A j \in Jobs :
    /\ exec[j].child \in {<< >>, <<scenario.jobs[j].command>>}
    /\ SegmentsRejoin(scenario.jobs[j].command)

Ran   == {j \in Jobs : exec[j].child # << >>}
Yeses == {j \in Jobs : verdict[j] = "yes"}

\* The prompts the operator has answered.
Answered == {j \in Jobs : verdict[j] \in {"yes", "no"}}

\* However the threads that wait read the terminal through each other: no command
\* runs if the operator never said yes; as long as the terminal is open, no more
\* commands run than prompts were answered; and as long as no two prompts were
\* open at once, a command runs only if the yes was for it ("every command must
\* be approved before execution", host_skill_executor.h; with two, a yes may go to
\* the other command).
OperatorDecides ==
  scenario.approve =>
    /\ Yeses = {} => Ran = {}
    /\ ~terminal.eof => Cardinality(Ran) <= Cardinality(Answered)
    /\ ~mixed => Ran \subseteq Yeses

Total(j) == FoldLeft(LAMBDA n, p : n + p.size, 0, Writes(j))

\* Is the last byte of all the child writes a newline?
LastIsNewline(j) == Writes(j) # << >> /\ Writes(j)[Len(Writes(j))].newline

\* The result tells what the child did.  An output marked as cut off was longer
\* than the limit, and what is returned of it is within the limit, without the
\* mark; any other is within the limit, and if it held no NUL it is all of the
\* output but a newline at its end.  Success means a child that was started and
\* has ended, with status 0 or killed by a signal.
ResultTellsRun ==
  \A j \in Jobs : exec[j].pc \in {"record", "done"} =>
    LET r == exec[j].result
        started == exec[j].child # << >>
    IN
    /\ r.success => started
    /\ started /\ r.truncated => Total(j) > MaxOutput /\ r.output <= MaxOutput + Marker
    /\ started /\ ~r.truncated /\ MaxOutput > 0 => r.output <= MaxOutput
    /\ r.success /\ ~r.truncated =>
         /\ scenario.jobs[j].ends \in {"zero", "signal"}
         /\ (\A p \in Range(Writes(j)) : p.seen = p.size) =>
              r.output = IF LastIsNewline(j) THEN Total(j) - 1 ELSE Total(j)

\* The Monitor shows the last executions in the order in which they ended, and
\* all of them until there are too many: an output that to_json cannot dump makes
\* GET /v1/monitor fail until that many others have ended, and no longer.
MonitorShowsLast ==
  LET n == IF Len(recorded) < MaxRecent THEN Len(recorded) ELSE MaxRecent
  IN  recent = SubSeq(recorded, Len(recorded) - n + 1, Len(recorded))

\* A command that never ends costs its worker and nothing else: as long as
\* there are fewer of them than workers, every other request gets its result, or
\* two prompts were open at once: then one thread may take what the other has
\* read, and wait for a character more until the input ends.
OthersAreServed ==
  <>[](\A j \in Jobs :
         \/ exec[j].pc \in {"out", "done"}
         \/ scenario.jobs[j].ends = "never"
         \/ Cardinality({i \in Jobs : scenario.jobs[i].ends = "never"}) >= Workers
         \/ mixed /\ ~terminal.eof)

=============================================================================
