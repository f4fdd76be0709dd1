---------------------------- MODULE CommandLine -----------------------------
(***************************************************************************)
(* What HostSkillExecutor (src/src/skills/host_skill_executor.cpp) does to *)
(* the text of a command: quoting it for the shell, cutting it at its      *)
(* pipes, finding the name of a program, and deciding whether it may run.  *)
(* A command is a sequence of characters; a character is a string (the     *)
(* backtick is named: the parser of TLA+ does not take it).                *)
(***************************************************************************)
EXTENDS Integers, Sequences, FiniteSets, SequencesExt

Quote == "'"
Backslash == "\\"

\* Mutant of ShellEscape: the closing quote is missing before the backslash.
ShellEscapeShort(input) ==
  <<Quote>>
    \o FlattenSeq([i \in DOMAIN input |->
                     IF input[i] = Quote THEN <<Backslash, Quote>>
                     ELSE <<input[i]>>])
    \o <<Quote>>

\* shell_escape: single quotes around the text; a single quote in it becomes
\* '\'' .
ShellEscape(input) ==
  <<Quote>>
    \o FlattenSeq([i \in DOMAIN input |->
                     IF input[i] = Quote THEN <<Quote, Backslash, Quote, Quote>>
                     ELSE <<input[i]>>])
    \o <<Quote>>

\* The one word a POSIX shell makes of text; "broken" if it sees more in it.
Special == {" ", ";", "&", "|", "<", ">", "$", "backtick", "(", ")", "\"", "="}

ShellWord(text) ==
  LET Read(s, c) ==
        CASE s.mode = "quoted" /\ c = Quote -> [s EXCEPT !.mode = "plain"]
          [] s.mode = "plain" /\ c = Quote -> [s EXCEPT !.mode = "quoted"]
          [] s.mode = "plain" /\ c = Backslash -> [s EXCEPT !.mode = "escaped"]
          [] s.mode = "plain" /\ c \in Special -> [s EXCEPT !.mode = "broken"]
          [] s.mode = "escaped" -> [mode |-> "plain", word |-> Append(s.word, c)]
          [] s.mode = "broken" -> s
          [] OTHER -> [s EXCEPT !.word = Append(@, c)]
      end == FoldLeft(Read, [mode |-> "plain", word |-> << >>], text)
  IN  IF end.mode = "plain" THEN end.word ELSE <<"broken">>

-----------------------------------------------------------------------------
(* split_pipe_segments *)

Scan == [single |-> FALSE, double |-> FALSE, escaped |-> FALSE,
         current |-> << >>, segments |-> << >>]

\* One character: a backslash keeps the next one from its meaning except within
\* single quotes; a bar outside quotes ends a segment.
SplitStep(s, c) ==
  LET kept == [s EXCEPT !.current = Append(@, c)] IN
  CASE s.escaped -> [kept EXCEPT !.escaped = FALSE]
    [] ~s.escaped /\ c = Backslash /\ ~s.single -> [kept EXCEPT !.escaped = TRUE]
    [] ~s.escaped /\ c = Quote /\ ~s.double -> [kept EXCEPT !.single = ~@]
    [] ~s.escaped /\ c = "\"" /\ ~s.single -> [kept EXCEPT !.double = ~@]
    [] ~s.escaped /\ c = "|" /\ ~s.single /\ ~s.double ->
         [s EXCEPT !.segments = Append(@, s.current), !.current = << >>]
    [] OTHER -> kept

SplitPipeSegments(command) ==
  LET end == FoldLeft(SplitStep, Scan, command)
  IN  IF end.current = << >> THEN end.segments ELSE Append(end.segments, end.current)

-----------------------------------------------------------------------------
(* extract_base_command *)

\* The words between blanks.
Words(command) ==
  LET Read(s, c) ==
        IF c = " " THEN [words |-> IF s.word = << >> THEN s.words ELSE Append(s.words, s.word),
                         word  |-> << >>]
        ELSE [s EXCEPT !.word = Append(@, c)]
      end == FoldLeft(Read, [words |-> << >>, word |-> << >>], command \o <<" ">>)
  IN  end.words

\* VAR=val in front of a command.
IsAssignment(word) == (\E i \in DOMAIN word : word[i] = "=") /\ word[1] # "-"

\* What follows the last slash.
BaseName(word) ==
  LET slashes == {i \in DOMAIN word : word[i] = "/"}
      last    == IF slashes = {} THEN 0 ELSE CHOOSE i \in slashes : \A j \in slashes : j <= i
  IN  SubSeq(word, last + 1, Len(word))

\* The base name of the first word that is no assignment; empty if none is left.
ExtractBaseCommand(command) ==
  LET words == Words(command)
      names == {i \in DOMAIN words : ~IsAssignment(words[i])}
  IN  IF names = {} THEN << >>
      ELSE BaseName(words[CHOOSE i \in names : \A j \in names : i <= j])

-----------------------------------------------------------------------------
(* validate_command *)

\* The quote that is open behind the first n characters, as detect_shell_injection
\* tracks it; it knows no backslash.
OpenQuote(command) ==
  LET open[n \in 0 .. Len(command)] ==
        IF n = 0 THEN "none"
        ELSE CASE command[n] = Quote /\ open[n - 1] # "\"" ->
                    IF open[n - 1] = "none" THEN Quote ELSE "none"
               [] command[n] = "\"" /\ open[n - 1] # Quote ->
                    IF open[n - 1] = "none" THEN "\"" ELSE "none"
               [] OTHER -> open[n - 1]
  IN  open

\* Does a metacharacter stand at position i?
Metacharacter(command, i) ==
  LET c    == command[i]
      next == IF i < Len(command) THEN command[i + 1] ELSE "none"
  IN  \/ c \in {";", "backtick"}
      \/ c \in {"&", "|"} /\ next = c
      \/ c = "$" /\ next \in {"(", Quote}
      \/ c = ">" /\ (i = 1 \/ command[i - 1] # Backslash)
      \/ c = "<" /\ next = "("

\* detect_shell_injection: one outside single quotes.
DetectShellInjection(command) ==
  \E i \in DOMAIN command :
    OpenQuote(command)[i - 1] # Quote /\ Metacharacter(command, i)

\* is_blocked: one of the patterns is a part of the command behind its leading
\* blanks.
IsBlocked(command, blocked) ==
  \E pattern \in blocked : \E i \in DOMAIN command :
    /\ \E j \in 1 .. i : command[j] # " "
    /\ i + Len(pattern) - 1 <= Len(command)
    /\ SubSeq(command, i, i + Len(pattern) - 1) = pattern

\* validate_command returns no error.
IsValid(command, allowed, blocked) ==
  /\ ~DetectShellInjection(command)
  /\ ~IsBlocked(command, blocked)
  /\ allowed # {} =>
       \A segment \in Range(SplitPipeSegments(command)) :
         ExtractBaseCommand(segment) \in allowed \ {<< >>}

-----------------------------------------------------------------------------
(* A property of split_pipe_segments, for one command *)

\* The segments, with bars between them, are the command again, but for a bar
\* at its end; each quote that is opened in a segment is closed in it, unless it
\* is the last; and no segment can be cut further.
Joined(segments) ==
  FoldLeft(LAMBDA text, s : text \o <<"|">> \o s, Head(segments), Tail(segments))

IsClosed(text) ==
  LET end == FoldLeft(SplitStep, Scan, text)
  IN  ~end.single /\ ~end.double /\ ~end.escaped

SegmentsRejoin(command) ==
  LET segments == SplitPipeSegments(command) IN
  /\ IF segments = << >> THEN command = << >>
     ELSE command \in {Joined(segments), Append(Joined(segments), "|")}
  /\ \A i \in DOMAIN segments :
       /\ i < Len(segments) => IsClosed(segments[i])
       /\ segments[i] # << >> => SplitPipeSegments(segments[i]) = <<segments[i]>>

=============================================================================
