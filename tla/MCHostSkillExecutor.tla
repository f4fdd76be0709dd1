------------------------ MODULE MCHostSkillExecutor -------------------------
(***************************************************************************)
(* TLC instances of HostSkillExecutor: one request with any command of up  *)
(* to three characters; one request with any short output; and three       *)
(* requests on two workers, with and without approval, of which none, one  *)
(* or two never end.  "l" is the one command that is allowed, and two      *)
(* bytes are what fgets reads at most.                                     *)
(***************************************************************************)
EXTENDS HostSkillExecutor

AJob(command, plain, writes, ends) ==
  [command |-> command, plain |-> plain, writes |-> writes, ends |-> ends]

Scene(approve, jobs) == [approve |-> approve, jobs |-> jobs]

APiece(size, seen, newline) == [size |-> size, seen |-> seen, newline |-> newline]

Characters == {"l", "r", " ", "/", "=", "|", ";", "'", "\"", "\\"}

Texts == UNION {[1 .. n -> Characters] : n \in 0 .. 3}

Pieces == {APiece(1, 1, TRUE), APiece(1, 1, FALSE), APiece(2, 2, TRUE),
           APiece(2, 2, FALSE), APiece(2, 0, TRUE), APiece(2, 1, FALSE)}

\* What fgets may return: a short piece without newline is the last one.
Outputs ==
  {w \in UNION {[1 .. n -> Pieces] : n \in 0 .. 3} :
     \A i \in DOMAIN w : ~w[i].newline /\ w[i].size < 2 => i = Len(w)}

Quiet(ends) == AJob(<<"l">>, TRUE, << >>, ends)

OneRequest ==
  {Scene(FALSE, <<AJob(c, TRUE, << >>, "zero")>>) : c \in Texts}
  \cup {Scene(FALSE, <<AJob(<<"r">>, FALSE, w, e)>>) :
          w \in Outputs, e \in {"zero", "nonzero", "signal"}}

Requests ==
  {Scene(FALSE, <<Quiet(e1), Quiet(e2), Quiet("zero")>>) :
     e1, e2 \in {"zero", "never"}}
  \cup {Scene(TRUE, <<Quiet("zero"), Quiet("zero"), Quiet("zero")>>),
        Scene(TRUE, <<Quiet("never"), Quiet("zero")>>)}

OneOrMore == OneRequest \cup Requests

OneAllowed == {<<"l">>}

OneBlocked == {<<"l", " ", "r">>}
=============================================================================
