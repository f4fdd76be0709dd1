---------------------------- MODULE MCSseStream -----------------------------
(***************************************************************************)
(* TLC instances of SseStream: every body of up to three lines of the      *)
(* kinds below.  Three lines are a call, another call and more of the      *)
(* first, which is the least that mixes two tool calls.                    *)
(***************************************************************************)
EXTENDS SseStream

ALine(text, deltas, odd) == [text |-> text, deltas |-> deltas, odd |-> odd]

Delta(index, named) == [index |-> index, named |-> named]

LineKinds ==
  {ALine(FALSE, << >>, FALSE),
   ALine(TRUE, << >>, FALSE),
   ALine(TRUE, <<Delta(1, TRUE)>>, TRUE)}
  \cup {ALine(FALSE, <<Delta(i, n)>>, FALSE) : i \in {0, 1}, n \in BOOLEAN}
  \cup {ALine(FALSE, <<Delta(1, TRUE), Delta(0, TRUE)>>, FALSE),
        ALine(TRUE, <<Delta(0, FALSE), Delta(0, FALSE)>>, FALSE)}

SmallBodies ==
  {[lines |-> << >>, open |-> FALSE]}
  \cup UNION {[lines : [1 .. n -> LineKinds], open : BOOLEAN] : n \in 1 .. 3}
=============================================================================
