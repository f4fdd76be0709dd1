----------------------------- MODULE SseStream ------------------------------
(***************************************************************************)
(* One LlmClient::chat (src/src/llm-link/llm_client.cpp): the body of the  *)
(* answer reaches chat_write_callback in chunks that libcurl cuts where it *)
(* likes; the callback cuts lines out of them and process_sse_line adds    *)
(* what a line says to the text and the tool calls.  The caller may cancel *)
(* at any moment, and the transfer may fail at any moment.                 *)
(*                                                                         *)
(* On the wire a line is two symbols and a newline.  A line of which only  *)
(* one symbol is left is no line the backend sent: without "data: ", or no *)
(* JSON.  A carriage return in front of the newline makes no difference:   *)
(* it is removed, and JSON would ignore it.                                *)
(***************************************************************************)
EXTENDS Integers, Sequences, FiniteSets, SequencesExt

CONSTANTS
  Bodies,      \* what the backend may send: [lines: sequence of lines, open: BOOLEAN]
  Cancellable  \* does the caller pass a cancel flag?

(***************************************************************************)
(* A line as process_sse_line sees it: "text", it holds a piece of         *)
(* content; "deltas", the indices of the tool calls it adds to, in order,  *)
(* each with "named" if id and name are there; "odd", a value has a type   *)
(* the code does not expect, behind the rest.  A line that is to be        *)
(* skipped (a comment, "[DONE]", malformed JSON, no choices) has nothing.  *)
(* The last line of a body is open if no newline follows it.               *)
(***************************************************************************)
Line == [text : BOOLEAN, deltas : Seq([index : Nat, named : BOOLEAN]), odd : BOOLEAN]

Body == [lines : Seq(Line), open : BOOLEAN]

ASSUME SseStreamAssumption ==
  /\ Bodies \subseteq Body
  /\ \A b \in Bodies : b.open => b.lines # << >>
  /\ Cancellable \in BOOLEAN

VARIABLES
  body,     \* what the backend sends
  sent,     \* how many symbols of it have reached the callback
  pc,       \* where chat() is
  buffer,   \* state.line_buffer; in "parse", what is left of it
  content,  \* state.content
  calls,    \* state.tool_calls_by_index
  told,     \* the tokens on_token was called with
  cancel,   \* *cancel
  late,     \* history: the symbols received when it was set
  result    \* what chat() returned

vars == <<body, sent, pc, buffer, content, calls, told, cancel, late, result>>

\* Tokens, ids and pieces of arguments are known by the line that holds them.
ToolCall == [id : Nat, arguments : Seq(Nat)]

NoCalls == [i \in {} |-> [id |-> 0, arguments |-> << >>]]

\* CompletionResult result; also what a failed chat() returns.
NoResult == [success |-> FALSE, content |-> << >>, tool_calls |-> << >>]

Result == [success : BOOLEAN, content : Seq(Nat), tool_calls : Seq(ToolCall)]

\* The symbols of the body are known by their positions: line i has 3i - 2, 3i - 1
\* and its newline 3i.
WireLength == 3 * Len(body.lines) - (IF body.open THEN 1 ELSE 0)

IsNewline(p) == p % 3 = 0

LineOf(p) == (p + 2) \div 3

Indices == UNION {{d.index : d \in Range(body.lines[i].deltas)} :
                    i \in 1 .. Len(body.lines)}

TypeOK ==
  /\ body \in Body
  /\ sent \in 0 .. WireLength
  /\ pc \in {"transfer", "parse", "collect", "returned", "thrown"}
  /\ buffer \in Seq(1 .. WireLength)
  /\ content \in Seq(1 .. Len(body.lines))
  /\ told \in Seq(1 .. Len(body.lines))
  /\ DOMAIN calls \subseteq Indices
  /\ \A i \in DOMAIN calls : calls[i] \in ToolCall
  /\ cancel \in BOOLEAN
  /\ late \in 0 .. WireLength
  /\ result \in Result

Init ==
  /\ body \in Bodies
  /\ sent = 0
  /\ pc = "transfer"
  /\ buffer = << >>
  /\ content = << >>
  /\ calls = NoCalls
  /\ told = << >>
  /\ cancel = FALSE
  /\ late = 0
  /\ result = NoResult

-----------------------------------------------------------------------------
(* chat_write_callback *)

\* Mutant of Received: the rest of the chunk before is forgotten.
ReceivedAfresh(chunk) == chunk

\* state->line_buffer.append(ptr, total)
Received(chunk) == buffer \o chunk

\* Mutant of Receive: the flag is read only once chat() has begun.
ReceiveAlways ==
  /\ pc = "transfer"
  /\ \E n \in sent + 1 .. WireLength :
       /\ buffer' = Received([p \in 1 .. n - sent |-> sent + p])
       /\ sent' = n
  /\ pc' = "parse"
  /\ UNCHANGED <<body, content, calls, told, cancel, late, result>>

\* libcurl calls back with the next chunk.
Receive ==
  /\ pc = "transfer"
  /\ ~cancel
  /\ \E n \in sent + 1 .. WireLength :
       /\ buffer' = Received([p \in 1 .. n - sent |-> sent + p])
       /\ sent' = n
  /\ pc' = "parse"
  /\ UNCHANGED <<body, content, calls, told, cancel, late, result>>

\* The flag is set when the next chunk comes: the callback returns 0, the
\* transfer ends with CURLE_WRITE_ERROR, and chat() takes what it has.
ReceiveCancelled ==
  /\ pc = "transfer"
  /\ cancel
  /\ sent < WireLength
  /\ pc' = "collect"
  /\ UNCHANGED <<body, sent, buffer, content, calls, told, cancel, late, result>>

Newlines == {p \in 1 .. Len(buffer) : IsNewline(buffer[p])}

FirstNewline == CHOOSE p \in Newlines : \A q \in Newlines : p <= q

\* The line the symbols are; 0 if they are none.
Parsed(symbols) ==
  IF Len(symbols) = 2 /\ symbols[1] % 3 = 1 /\ symbols[2] = symbols[1] + 1
  THEN LineOf(symbols[1]) ELSE 0

\* Mutant of AddDelta: tool calls are told apart by their ids.
AddDeltaNew(cs, d, i) ==
  LET j == IF d.named THEN Cardinality(DOMAIN cs) ELSE Cardinality(DOMAIN cs) - 1
      old == IF j \in DOMAIN cs THEN cs[j] ELSE [id |-> 0, arguments |-> << >>]
      new == [id        |-> IF d.named THEN i ELSE old.id,
              arguments |-> Append(old.arguments, i)]
  IN  [x \in DOMAIN cs \cup {j} |-> IF x = j THEN new ELSE cs[x]]

\* One element of delta["tool_calls"] of line i.
AddDelta(cs, d, i) ==
  LET old == IF d.index \in DOMAIN cs THEN cs[d.index]
             ELSE [id |-> 0, arguments |-> << >>]
      new == [id        |-> IF d.named THEN i ELSE old.id,
              arguments |-> Append(old.arguments, i)]
  IN  [x \in DOMAIN cs \cup {d.index} |-> IF x = d.index THEN new ELSE cs[x]]

\* process_sse_line, for a complete line in the buffer.  An exception that is
\* no parse_error leaves the callback, libcurl and chat().
ProcessLine ==
  /\ pc = "parse"
  /\ Newlines # {}
  /\ LET i == Parsed(SubSeq(buffer, 1, FirstNewline - 1)) IN
     IF i = 0 THEN UNCHANGED <<content, calls, told, pc>>
     ELSE LET line == body.lines[i] IN
          /\ content' = IF line.text THEN Append(content, i) ELSE content
          /\ told' = IF line.text THEN Append(told, i) ELSE told
          /\ calls' = FoldLeft(LAMBDA cs, d : AddDelta(cs, d, i), calls, line.deltas)
          /\ pc' = IF line.odd THEN "thrown" ELSE pc
  /\ buffer' = SubSeq(buffer, FirstNewline + 1, Len(buffer))
  /\ UNCHANGED <<body, sent, cancel, late, result>>

\* Mutant of EndChunk: the loop goes on until the buffer is empty.
EndChunkEmpty ==
  /\ pc = "parse"
  /\ Newlines = {}
  /\ pc' = IF buffer = << >> THEN "transfer" ELSE "parse"
  /\ UNCHANGED <<body, sent, buffer, content, calls, told, cancel, late, result>>

\* No newline is left: the rest is the line_buffer of the next chunk.
EndChunk ==
  /\ pc = "parse"
  /\ Newlines = {}
  /\ pc' = "transfer"
  /\ UNCHANGED <<body, sent, buffer, content, calls, told, cancel, late, result>>

-----------------------------------------------------------------------------
(* chat *)

\* CURLE_OK: the body is complete, whatever the HTTP status of the answer is.
TransferDone ==
  /\ pc = "transfer"
  /\ sent = WireLength
  /\ pc' = "collect"
  /\ UNCHANGED <<body, sent, buffer, content, calls, told, cancel, late, result>>

\* Mutant of TransferFails: every end of the transfer counts as success.
TransferFailsUnseen ==
  /\ pc = "transfer"
  /\ pc' = "collect"
  /\ UNCHANGED <<body, sent, buffer, content, calls, told, cancel, late, result>>

\* Any other code of libcurl: no connection, a reset, the timeout of 120 s.
TransferFails ==
  /\ pc = "transfer"
  /\ pc' = "returned"
  /\ UNCHANGED <<body, sent, buffer, content, calls, told, cancel, late, result>>

\* The numbers of a set in their order.
Ordered(numbers) ==
  [n \in 1 .. Cardinality(numbers) |->
     CHOOSE x \in numbers : Cardinality({y \in numbers : y < x}) = n - 1]

\* The indices that have a tool call, as the std::map iterates over them.
InOrder == Ordered(DOMAIN calls)

\* The result: the text and the tool calls.
Collect ==
  /\ pc = "collect"
  /\ result' = [success |-> TRUE, content |-> content,
                tool_calls |-> [n \in DOMAIN InOrder |-> calls[InOrder[n]]]]
  /\ pc' = "returned"
  /\ UNCHANGED <<body, sent, buffer, content, calls, told, cancel, late>>

\* The caller sets its flag.
SetCancel ==
  /\ Cancellable
  /\ ~cancel
  /\ cancel' = TRUE
  /\ late' = sent
  /\ UNCHANGED <<body, sent, pc, buffer, content, calls, told, result>>

Chat ==
  \/ Receive \/ ReceiveCancelled \/ ProcessLine \/ EndChunk
  \/ TransferDone \/ TransferFails \/ Collect

Over == pc \in {"returned", "thrown"} /\ UNCHANGED vars

Next == Chat \/ SetCancel \/ Over

Spec == Init /\ [][Next]_vars

\* The callback runs, and libcurl ends a transfer after 120 s at the latest.
FairSpec == Spec /\ WF_vars(Chat)

-----------------------------------------------------------------------------
(* Properties *)

\* The lines of the body whose newline is among the first n symbols.
Complete(n) == {LineOf(p) : p \in {q \in 1 .. n : IsNewline(q)}}

\* What the given lines mean together, without a word about chunks: the pieces
\* of text in order, and for each index the last id and all pieces of arguments
\* in order (a line may hold more than one).
Touches(i, x) ==
  Cardinality({m \in DOMAIN body.lines[i].deltas : body.lines[i].deltas[m].index = x})

TextOf(lines) == Ordered({i \in lines : body.lines[i].text})

CallOf(lines, x) ==
  LET mine  == {i \in lines : Touches(i, x) > 0}
      named == {i \in mine : \E d \in Range(body.lines[i].deltas) :
                               d.index = x /\ d.named}
  IN  [id        |-> IF named = {} THEN 0 ELSE Max(named),
       arguments |-> FlattenSeq([n \in 1 .. Cardinality(mine) |->
                                   [m \in 1 .. Touches(Ordered(mine)[n], x) |->
                                      Ordered(mine)[n]]])]

CallsOf(lines) ==
  LET touched == Ordered({x \in Indices : \E i \in lines : Touches(i, x) > 0})
  IN  [n \in DOMAIN touched |-> CallOf(lines, touched[n])]

\* Between two chunks, and when chat() returns, text and tool calls are what
\* the complete lines received so far say, wherever the chunks were cut and
\* however the deltas of several tool calls were mixed.
ChunkingIrrelevant ==
  pc \in {"transfer", "collect"} =>
    /\ content = TextOf(Complete(sent))
    /\ [n \in DOMAIN InOrder |-> calls[InOrder[n]]] = CallsOf(Complete(sent))

\* chat() returns success without having been cancelled only with all the lines
\* of the body, the text being what on_token was told; and a failure it returns
\* carries no half of an answer, whatever was streamed before.
ResultIsWhole ==
  pc = "returned" =>
    IF result.success
    THEN /\ result.content = told
         /\ ~cancel => /\ result.content = TextOf(Complete(WireLength))
                       /\ result.tool_calls = CallsOf(Complete(WireLength))
    ELSE result = NoResult

\* Once the caller has cancelled, nothing is forwarded but the lines of the
\* chunk that was in hand.
CancelStopsForwarding ==
  cancel => \A p \in 1 .. Len(told) : told[p] \in Complete(late)

\* chat() comes to an end: Agent!RunReturns relies on it.
ChatEnds == <>(pc \in {"returned", "thrown"})

=============================================================================
