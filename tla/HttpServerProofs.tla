-------------------------- MODULE HttpServerProofs ---------------------------
(***************************************************************************)
(* Proofs about HttpServer and the parts it is made of, for any number of  *)
(* clients and any configuration file.  Pipeline: whatever the requests do *)
(* to the stages they share, each runs the stages in order, none behind a  *)
(* failure that was not recovered, and reports what happened.  HttpServer: *)
(* a client that does not stream is told how run() ended, and a stream that *)
(* ends with [DONE] carries the answer, whichever writes fail.  Config: the *)
(* stages are all those of the file or all the default ones.               *)
(***************************************************************************)
EXTENDS HttpServer, SequenceTheorems, FoldTheorems

USE PipelineAssumption

Known(i) == stages[i].executor \in Builtins
AllKnown == \A i \in 1 .. Len(stages) : Known(i)

\* Only executors that exist were ever stored.
ResolvedKnown == \A i \in resolved : Known(i)

-----------------------------------------------------------------------------
(* What is true of the run() of one request, c *)

LastCall(c) == c.calls[Len(c.calls)]

\* The calls of c are in order, and there are none if a stage is unknown.
CallsOK(c) ==
  /\ c.calls # << >> => AllKnown /\ c.calls[1].stage = 1 /\ ~c.calls[1].fallback
  /\ \A p \in 2 .. Len(c.calls) : Follows(c.calls[p - 1], c.calls[p])
  /\ \A p \in 3 .. Len(c.calls) : c.calls[p].stage # c.calls[p - 2].stage

\* The last attempt of c at stage i succeeded or may be skipped.
Passed(c, i) ==
  \E p \in 1 .. Len(c.calls) :
    /\ c.calls[p].stage = i
    /\ p = Len(c.calls) \/ c.calls[p + 1].stage # i
    /\ c.calls[p].success \/ stages[i].policy = "skip"

\* The answers that Success refuses.
Markers == {"failed", "bracketed"}

\* The first loop: nothing was called, and what c has seen is known.
Resolving(c) ==
  /\ c.calls = << >>
  /\ c.response = "none"
  /\ \A j \in 1 .. Len(stages) : j < c.i => Known(j)
  /\ c.pc = "idle" => c.i = 1
  /\ c.pc = "assign" => c.i <= Len(stages) /\ Known(c.i)

\* The second loop, before the stage i.
Running(c) ==
  /\ AllKnown
  /\ c.i <= Len(stages) + 1
  /\ c.i = 1 => c.calls = << >>
  /\ c.i > 1 => /\ c.calls # << >>
                /\ LastCall(c).stage = c.i - 1
                /\ LastCall(c).success \/ stages[c.i - 1].policy = "skip"
  /\ \A i \in 1 .. Len(stages) : i < c.i => Passed(c, i)

\* In handle_failure after the first attempt at stage i.
Handling(c) ==
  /\ AllKnown
  /\ c.i <= Len(stages)
  /\ c.calls # << >>
  /\ LastCall(c).stage = c.i /\ ~LastCall(c).success /\ ~LastCall(c).fallback
  /\ Len(c.calls) > 1 => c.calls[Len(c.calls) - 1].stage # c.i
  /\ c.response \in Markers
  /\ \A i \in 1 .. Len(stages) : i < c.i => Passed(c, i)

\* run() has returned.
Ended(c) ==
  IF c.ok THEN \A i \in 1 .. Len(stages) : Passed(c, i)
  ELSE IF c.calls = << >> THEN c.response = "none"
  ELSE c.response \in {"stage error", "retry error"} \cup Markers

RequestOK(c) ==
  /\ CallsOK(c)
  /\ c.pc \in {"idle", "resolve", "assign"} => Resolving(c)
  /\ c.pc = "run" => Running(c)
  /\ c.pc = "failed" => Handling(c)
  /\ c.pc = "done" => Ended(c)

PInv ==
  /\ TypeOK
  /\ ResolvedKnown
  /\ \A r \in Requests : RequestOK(req[r])

-----------------------------------------------------------------------------
(* One call *)

\* An executor that fails is the agent with one of the markers.
LEMMA EffectsType ==
  ASSUME NEW x \in Builtins, NEW c \in Request, NEW e \in Effects(x, c)
  PROVE  /\ e.success \in BOOLEAN
         /\ e.response \in Responses
         /\ ~e.success => e.response \in Markers
<1>1. CASE x = "llm_agent_loop"
  <2>1. PICK a \in Answers : e = [success |-> Success(a), response |-> a]
    BY <1>1 DEF Effects
  <2>2. e.success = Success(a) /\ e.response = a
    BY <2>1
  <2> QED BY <2>2 DEF Success, Answers, Responses, Markers
<1>2. CASE x # "llm_agent_loop"
  <2>1. e = [success |-> TRUE, response |-> c.response]
    BY <1>2 DEF Effects
  <2> QED BY <2>1 DEF Request
<1> QED BY <1>1, <1>2

LEMMA CalledType ==
  ASSUME NEW c \in Request, NEW x \in Builtins, NEW fb \in BOOLEAN,
         NEW e, e.success \in BOOLEAN, e.response \in Responses
  PROVE  LET d == Called(c, x, fb, e) IN
         /\ d \in Request
         /\ d.pc = c.pc /\ d.i = c.i /\ d.ok = c.ok
         /\ d.response = e.response
         /\ d.calls # << >>
         /\ Len(d.calls) = Len(c.calls) + 1
         /\ LastCall(d).stage = c.i
         /\ LastCall(d).fallback = fb
         /\ LastCall(d).success = e.success
         /\ \A p \in 1 .. Len(c.calls) : d.calls[p] = c.calls[p]
<1> DEFINE new == [stage |-> c.i, executor |-> x, fallback |-> fb,
                   success |-> e.success, response |-> e.response, told |-> 0]
<1>1. new \in Call
  BY DEF Call, Request
<1>2. /\ Append(c.calls, new) \in Seq(Call)
      /\ Len(Append(c.calls, new)) = Len(c.calls) + 1
      /\ Append(c.calls, new)[Len(c.calls) + 1] = new
      /\ \A p \in 1 .. Len(c.calls) : Append(c.calls, new)[p] = c.calls[p]
      /\ Append(c.calls, new) # << >>
  <2>1. c.calls \in Seq(Call)
    BY DEF Request
  <2> QED BY <1>1, <2>1
<1>3. Called(c, x, fb, e) =
        [c EXCEPT !.response = e.response, !.calls = Append(c.calls, new)]
  BY DEF Called
<1> HIDE DEF new
<1>4. /\ Called(c, x, fb, e) \in Request
      /\ Called(c, x, fb, e).calls = Append(c.calls, new)
      /\ Called(c, x, fb, e).response = e.response
      /\ Called(c, x, fb, e).pc = c.pc
      /\ Called(c, x, fb, e).i = c.i
      /\ Called(c, x, fb, e).ok = c.ok
  BY <1>2, <1>3 DEF Request
<1>5. new.stage = c.i /\ new.fallback = fb /\ new.success = e.success
  BY DEF new
<1> QED BY <1>2, <1>4, <1>5 DEF LastCall

\* The calls stay in order when d has one more than c that may follow.
LEMMA CallsGrow ==
  ASSUME TypeOK, NEW c \in Request, NEW d \in Request, CallsOK(c), AllKnown,
         d.calls # << >>, Len(d.calls) = Len(c.calls) + 1,
         \A p \in 1 .. Len(c.calls) : d.calls[p] = c.calls[p],
         c.calls = << >> => LastCall(d).stage = 1 /\ ~LastCall(d).fallback,
         c.calls # << >> => Follows(LastCall(c), LastCall(d)),
         Len(c.calls) > 1 => LastCall(d).stage # c.calls[Len(c.calls) - 1].stage
  PROVE  CallsOK(d)
<1>0. c.calls \in Seq(Call) /\ d.calls \in Seq(Call) /\ Len(c.calls) \in Nat
  BY DEF Request
<1>1. d.calls # << >> => AllKnown /\ d.calls[1].stage = 1 /\ ~d.calls[1].fallback
  BY <1>0 DEF CallsOK, LastCall
<1>2. ASSUME NEW p \in 2 .. Len(d.calls)
      PROVE  Follows(d.calls[p - 1], d.calls[p])
  <2>1. CASE p = Len(d.calls)
    <3>1. p - 1 = Len(c.calls) /\ p - 1 \in 1 .. Len(c.calls)
      BY <1>0, <2>1
    <3>2. d.calls[p - 1] = LastCall(c) /\ d.calls[p] = LastCall(d) /\ c.calls # << >>
      BY <1>0, <2>1, <3>1 DEF LastCall
    <3> QED BY <3>2
  <2>2. CASE p # Len(d.calls)
    <3>1. p \in 2 .. Len(c.calls) /\ p - 1 \in 1 .. Len(c.calls)
      BY <1>0, <2>2
    <3>2. d.calls[p - 1] = c.calls[p - 1] /\ d.calls[p] = c.calls[p]
      BY <1>0, <3>1
    <3> QED BY <3>1, <3>2 DEF CallsOK
  <2> QED BY <2>1, <2>2
<1>3. ASSUME NEW p \in 3 .. Len(d.calls)
      PROVE  d.calls[p].stage # d.calls[p - 2].stage
  <2>1. p - 2 \in 1 .. Len(c.calls) /\ d.calls[p - 2] = c.calls[p - 2]
    BY <1>0
  <2>2. CASE p = Len(d.calls)
    <3>1. p - 2 = Len(c.calls) - 1 /\ Len(c.calls) > 1 /\ d.calls[p] = LastCall(d)
      BY <1>0, <2>2 DEF LastCall
    <3> QED BY <2>1, <3>1
  <2>3. CASE p # Len(d.calls)
    <3>1. p \in 3 .. Len(c.calls) /\ p \in 1 .. Len(c.calls)
      BY <1>0, <2>3
    <3> QED BY <2>1, <3>1 DEF CallsOK
  <2> QED BY <2>2, <2>3
<1> QED BY <1>1, <1>2, <1>3 DEF CallsOK

\* What was passed stays so when a call for a later stage is added.
LEMMA PassedStays ==
  ASSUME NEW c \in Request, NEW d \in Request, NEW i \in Nat, Passed(c, i),
         d.calls # << >>, Len(d.calls) = Len(c.calls) + 1,
         \A p \in 1 .. Len(c.calls) : d.calls[p] = c.calls[p],
         LastCall(d).stage # i
  PROVE  Passed(d, i)
<1>0. Len(c.calls) \in Nat
  BY DEF Request
<1>1. PICK p \in 1 .. Len(c.calls) :
        /\ c.calls[p].stage = i
        /\ p = Len(c.calls) \/ c.calls[p + 1].stage # i
        /\ c.calls[p].success \/ stages[i].policy = "skip"
  BY DEF Passed
<1>2. d.calls[p + 1].stage # i
  <2>1. CASE p = Len(c.calls)
    BY <1>0, <2>1 DEF LastCall
  <2>2. CASE p # Len(c.calls)
    <3>1. p + 1 \in 1 .. Len(c.calls)
      BY <1>0, <2>2
    <3> QED BY <1>1, <2>2, <3>1
  <2> QED BY <2>1, <2>2
<1>3. p \in 1 .. Len(d.calls) /\ d.calls[p] = c.calls[p]
  BY <1>0
<1> QED BY <1>1, <1>2, <1>3 DEF Passed

\* The last call passes its stage if it succeeded or may be skipped.
LEMMA LastPasses ==
  ASSUME NEW d \in Request, d.calls # << >>,
         LastCall(d).success \/ stages[LastCall(d).stage].policy = "skip"
  PROVE  Passed(d, LastCall(d).stage)
<1>1. Len(d.calls) \in 1 .. Len(d.calls)
  BY DEF Request
<1> QED BY <1>1 DEF Passed, LastCall

-----------------------------------------------------------------------------
(* The steps *)

\* RequestOK reads no variable but stages.
LEMMA StagesStay ==
  ASSUME NEW CONSTANT d, RequestOK(d), stages' = stages
  PROVE  RequestOK(d)'
<1>1. (AllKnown <=> AllKnown') /\ (CallsOK(d) <=> CallsOK(d)')
  BY DEF AllKnown, Known, CallsOK, Follows
<1>2. \A i : Passed(d, i) <=> Passed(d, i)'
  BY DEF Passed
<1>3. Resolving(d) => Resolving(d)'
  BY DEF Resolving, Known
<1>4. Running(d) => Running(d)'
  BY <1>1, <1>2 DEF Running, LastCall
<1>5. Handling(d) => Handling(d)'
  BY <1>1, <1>2 DEF Handling, LastCall, Markers
<1>6. Ended(d) => Ended(d)'
  BY <1>2 DEF Ended, Markers
<1> QED BY <1>1, <1>3, <1>4, <1>5, <1>6 DEF RequestOK

LEMMA MoveInv ==
  ASSUME PInv, NEW r \in Requests, NEW c \in Request, RequestOK(c), Update(r, c),
         UNCHANGED <<stages, alive>>, resolved' \subseteq 1 .. Len(stages),
         \A i \in resolved' : Known(i)
  PROVE  PInv'
<1>1. TypeOK'
  BY DEF PInv, TypeOK, Update
<1>2. ResolvedKnown'
  BY DEF ResolvedKnown, Known
<1>3. ASSUME NEW s \in Requests
      PROVE  RequestOK(req[s])'
  <2>1. PICK d : d = req'[s]
    OBVIOUS
  <2>2. RequestOK(d)
    BY <2>1 DEF PInv, TypeOK, Update
  <2>3. RequestOK(d)'
    BY <2>2, StagesStay
  <2> QED BY <2>1, <2>3
<1> QED BY <1>1, <1>2, <1>3 DEF PInv

\* A step of r that calls nothing, given that it keeps RequestOK.
LEMMA LocalInv ==
  ASSUME PInv, NEW r \in Requests, NEW c \in Request, RequestOK(c), Update(r, c),
         UNCHANGED <<stages, resolved, alive>>
  PROVE  PInv'
BY MoveInv DEF PInv, TypeOK, ResolvedKnown

LEMMA Now ==
  ASSUME PInv, NEW r \in Requests
  PROVE  /\ req[r] \in Request /\ RequestOK(req[r]) /\ TypeOK
         /\ stages \in Seq(Stage) /\ Len(stages) \in Nat
         /\ resolved \subseteq 1 .. Len(stages)
BY DEF PInv, TypeOK

\* CallsOK and Passed look only at the calls.
LEMMA SameCalls ==
  ASSUME NEW c, NEW d, d.calls = c.calls
  PROVE  /\ CallsOK(c) => CallsOK(d)
         /\ \A i : Passed(c, i) => Passed(d, i)
         /\ LastCall(d) = LastCall(c)
BY DEF CallsOK, Passed, LastCall

LEMMA BeginInv == ASSUME PInv, NEW r \in Requests, Begin(r) PROVE PInv'
<1> DEFINE c == req[r]
           d == [c EXCEPT !.pc = "resolve"]
<1>1. c \in Request /\ RequestOK(c) /\ c.pc = "idle"
  BY Now DEF Begin
<1>2. d \in Request /\ d.pc = "resolve" /\ d.i = c.i /\ d.calls = c.calls
      /\ d.response = c.response
  BY <1>1 DEF Request
<1>3. Update(r, d) /\ UNCHANGED <<stages, resolved, alive>>
  BY DEF Begin
<1> HIDE DEF c, d
<1>4. RequestOK(d)
  BY <1>1, <1>2, SameCalls DEF RequestOK, Resolving
<1> QED BY <1>2, <1>3, <1>4, LocalInv

LEMMA ResolveInv == ASSUME PInv, NEW r \in Requests, Resolve(r) PROVE PInv'
<1> DEFINE c == req[r]
<1>1. /\ c \in Request /\ RequestOK(c) /\ c.pc = "resolve"
      /\ c.i \in 1 .. Len(stages)
  BY Now DEF Resolve, Request
<1>2. UNCHANGED <<stages, resolved, alive>>
  BY DEF Resolve
<1>3. CASE c.i \in resolved
  <2> DEFINE d == [c EXCEPT !.i = @ + 1]
  <2>1. Update(r, d)
    BY <1>3 DEF Resolve
  <2>2. d \in Request /\ d.pc = "resolve" /\ d.i = c.i + 1 /\ d.calls = c.calls
        /\ d.response = c.response
    BY <1>1 DEF Request
  <2> HIDE DEF d
  <2>3. Known(c.i)
    BY <1>3 DEF PInv, ResolvedKnown
  <2>4. Resolving(d)
    BY <1>1, <2>2, <2>3 DEF RequestOK, Resolving
  <2>5. RequestOK(d)
    BY <1>1, <2>2, <2>4, SameCalls DEF RequestOK
  <2> QED BY <1>2, <2>1, <2>2, <2>5, LocalInv
<1>4. CASE c.i \notin resolved /\ stages[c.i].executor \in Builtins
  <2> DEFINE d == [c EXCEPT !.pc = "assign"]
  <2>1. Update(r, d)
    BY <1>4 DEF Resolve
  <2>2. d \in Request /\ d.pc = "assign" /\ d.i = c.i /\ d.calls = c.calls
        /\ d.response = c.response
    BY <1>1 DEF Request
  <2> HIDE DEF d
  <2>4. Resolving(d)
    BY <1>1, <1>4, <2>2 DEF RequestOK, Resolving, Known
  <2>5. RequestOK(d)
    BY <1>1, <2>2, <2>4, SameCalls DEF RequestOK
  <2> QED BY <1>2, <2>1, <2>2, <2>5, LocalInv
<1>5. CASE c.i \notin resolved /\ stages[c.i].executor \notin Builtins
  <2> DEFINE d == [c EXCEPT !.pc = "done", !.ok = FALSE]
  <2>1. Update(r, d)
    BY <1>5 DEF Resolve
  <2>2. d \in Request /\ d.pc = "done" /\ d.ok = FALSE /\ d.calls = c.calls
        /\ d.response = c.response
    BY <1>1 DEF Request
  <2> HIDE DEF d
  <2>4. Ended(d)
    BY <1>1, <2>2 DEF RequestOK, Resolving, Ended
  <2>5. RequestOK(d)
    BY <1>1, <2>2, <2>4, SameCalls DEF RequestOK
  <2> QED BY <1>2, <2>1, <2>2, <2>5, LocalInv
<1> QED BY <1>3, <1>4, <1>5

LEMMA AssignInv == ASSUME PInv, NEW r \in Requests, Assign(r) PROVE PInv'
<1> DEFINE c == req[r]
           e == [c EXCEPT !.pc = "resolve"]
           d == [e EXCEPT !.i = c.i + 1]
<1>1. c \in Request /\ RequestOK(c) /\ c.pc = "assign"
  BY Now DEF Assign
<1>2. /\ Update(r, d)
      /\ resolved' = resolved \cup {c.i}
      /\ UNCHANGED <<stages, alive>>
  BY DEF Assign
<1>3. c.i \in 1 .. Len(stages) /\ Known(c.i)
  BY <1>1, Now DEF RequestOK, Resolving, Request
<1>4. d \in Request /\ d.pc = "resolve" /\ d.i = c.i + 1 /\ d.calls = c.calls
      /\ d.response = c.response
  <2>1. /\ e \in Request /\ e.pc = "resolve"
        /\ e.calls = c.calls /\ e.response = c.response
    BY <1>1 DEF Request
  <2> HIDE DEF c, e
  <2>2. c.i + 1 \in Nat \ {0}
    BY <1>3
  <2> QED BY <2>1, <2>2 DEF Request
<1> HIDE DEF d
<1>5. Resolving(d)
  BY <1>1, <1>3, <1>4 DEF RequestOK, Resolving
<1>6. RequestOK(d)
  BY <1>1, <1>4, <1>5, SameCalls DEF RequestOK
<1>7. resolved' \subseteq 1 .. Len(stages) /\ \A i \in resolved' : Known(i)
  BY <1>2, <1>3, Now DEF PInv, ResolvedKnown
<1> QED BY <1>2, <1>4, <1>6, <1>7, MoveInv

\* A process that dies changes nothing but where the requests are.
LEMMA DieInv == ASSUME PInv, Die PROVE PInv'
<1>1. /\ alive' = FALSE
      /\ UNCHANGED <<stages, resolved>>
      /\ req' = [s \in Requests |->
                   IF req[s].pc \in {"done", "thrown"} THEN req[s]
                   ELSE [req[s] EXCEPT !.pc = "dead"]]
  BY DEF Die
<1>2. ASSUME NEW s \in Requests
      PROVE  req'[s] \in Request /\ RequestOK(req[s])'
  <2>1. req[s] \in Request /\ RequestOK(req[s])
    BY Now
  <2>2. PICK d : d = req'[s]
    OBVIOUS
  <2>3. \/ d = req[s]
        \/ d = [req[s] EXCEPT !.pc = "dead"]
    BY <1>1, <2>2
  <2>4. d \in Request /\ RequestOK(d)
    <3>1. CASE d = req[s]
      BY <2>1, <3>1
    <3>2. CASE d = [req[s] EXCEPT !.pc = "dead"]
      <4>1. d \in Request /\ d.pc = "dead" /\ d.calls = req[s].calls
        BY <2>1, <3>2 DEF Request
      <4> QED BY <2>1, <4>1, SameCalls DEF RequestOK
    <3> QED BY <2>3, <3>1, <3>2
  <2>5. RequestOK(d)'
    BY <1>1, <2>4, StagesStay
  <2> QED BY <2>2, <2>4, <2>5
<1>3. req' \in [Requests -> Request]
  BY <1>1, <1>2
<1>4. TypeOK'
  BY <1>1, <1>3 DEF PInv, TypeOK
<1>5. ResolvedKnown'
  BY <1>1 DEF PInv, ResolvedKnown, Known
<1> QED BY <1>2, <1>4, <1>5 DEF PInv

LEMMA ResolvedInv == ASSUME PInv, NEW r \in Requests, Resolved(r) PROVE PInv'
<1> DEFINE c == req[r]
           e == [c EXCEPT !.pc = "run"]
           d == [e EXCEPT !.i = 1]
<1>1. c \in Request /\ RequestOK(c) /\ c.pc = "resolve" /\ c.i > Len(stages)
  BY Now DEF Resolved
<1>2. Update(r, d) /\ UNCHANGED <<stages, resolved, alive>>
  BY DEF Resolved
<1>3. d \in Request /\ d.pc = "run" /\ d.i = 1 /\ d.calls = c.calls
  <2>1. e \in Request /\ e.pc = "run" /\ e.calls = c.calls
    BY <1>1 DEF Request
  <2> HIDE DEF e
  <2> QED BY <2>1 DEF Request
<1> HIDE DEF d
<1>4. AllKnown
  BY <1>1, Now DEF RequestOK, Resolving, AllKnown, Request
<1>5. Running(d)
  BY <1>1, <1>3, <1>4, Now DEF RequestOK, Resolving, Running
<1>6. RequestOK(d)
  BY <1>1, <1>3, <1>5, SameCalls DEF RequestOK
<1> QED BY <1>2, <1>3, <1>6, LocalInv

LEMMA ThrowInv == ASSUME PInv, NEW r \in Requests, Throw(r) PROVE PInv'
<1> DEFINE c == req[r]
           d == [c EXCEPT !.pc = "thrown"]
<1>1. c \in Request /\ RequestOK(c)
  BY Now
<1>2. Update(r, d) /\ UNCHANGED <<stages, resolved, alive>>
  BY DEF Throw
<1>3. d \in Request /\ d.pc = "thrown" /\ d.calls = c.calls
  BY <1>1 DEF Request
<1> HIDE DEF d
<1>4. RequestOK(d)
  BY <1>1, <1>3, SameCalls DEF RequestOK
<1> QED BY <1>2, <1>3, <1>4, LocalInv

LEMMA FinishInv == ASSUME PInv, NEW r \in Requests, Finish(r) PROVE PInv'
<1> DEFINE c == req[r]
           d == [c EXCEPT !.pc = "done", !.ok = TRUE]
<1>1. c \in Request /\ RequestOK(c) /\ c.pc = "run" /\ c.i > Len(stages)
  BY Now DEF Finish
<1>2. Update(r, d) /\ UNCHANGED <<stages, resolved, alive>>
  BY DEF Finish
<1>3. d \in Request /\ d.pc = "done" /\ d.ok = TRUE /\ d.calls = c.calls
  BY <1>1 DEF Request
<1> HIDE DEF d
<1>4. \A i \in 1 .. Len(stages) : Passed(d, i)
  BY <1>1, <1>3, Now, SameCalls DEF RequestOK, Running, Request
<1>5. RequestOK(d)
  BY <1>1, <1>3, <1>4, SameCalls DEF RequestOK, Ended
<1> QED BY <1>2, <1>3, <1>5, LocalInv

-----------------------------------------------------------------------------
(* The steps that call an executor, and the policies *)

\* The first call for a stage.
LEMMA FirstCall ==
  ASSUME TypeOK, NEW c \in Request, CallsOK(c), Running(c), c.i <= Len(stages),
         NEW x \in Builtins, NEW e, e.success \in BOOLEAN, e.response \in Responses,
         NEW fb \in BOOLEAN, ~fb, NEW d, d = Called(c, x, fb, e)
  PROVE  /\ CallsOK(d)
         /\ \A i \in 1 .. Len(stages) : i < c.i => Passed(d, i)
         /\ Len(d.calls) > 1 => d.calls[Len(d.calls) - 1].stage # c.i
<1>1. /\ d \in Request /\ d.calls # << >>
      /\ Len(d.calls) = Len(c.calls) + 1
      /\ LastCall(d).stage = c.i /\ LastCall(d).fallback = fb
      /\ \A p \in 1 .. Len(c.calls) : d.calls[p] = c.calls[p]
  BY CalledType
<1>2. c.calls \in Seq(Call) /\ Len(c.calls) \in Nat /\ c.i \in Nat \ {0}
  BY DEF Request
<1>3. CASE c.i = 1
  <2>1. c.calls = << >> /\ Len(c.calls) = 0
    BY <1>3 DEF Running
  <2>2. AllKnown /\ LastCall(d).stage = 1 /\ ~LastCall(d).fallback /\ ~(Len(c.calls) > 1)
    BY <1>1, <1>3, <2>1 DEF Running
  <2>3. CallsOK(d)
    BY <1>1, <2>1, <2>2, CallsGrow
  <2> QED BY <1>1, <1>3, <2>1, <2>3
<1>4. CASE c.i > 1
  <2>1. /\ c.calls # << >> /\ LastCall(c).stage = c.i - 1
        /\ LastCall(c).success \/ stages[c.i - 1].policy = "skip"
    BY <1>4 DEF Running
  <2>2. Len(c.calls) >= 1 /\ d.calls[Len(d.calls) - 1] = LastCall(c)
    BY <1>1, <1>2, <2>1 DEF LastCall
  <2>3. Follows(LastCall(c), LastCall(d))
    BY <1>1, <1>2, <2>1 DEF Follows
  <2>4. Len(c.calls) > 1 => LastCall(d).stage # c.calls[Len(c.calls) - 1].stage
    <3>1. SUFFICES ASSUME Len(c.calls) > 1
                   PROVE  LastCall(d).stage # c.calls[Len(c.calls) - 1].stage
      OBVIOUS
    <3> DEFINE b == c.calls[Len(c.calls) - 1]
    <3>2. Len(c.calls) \in 2 .. Len(c.calls) /\ Len(c.calls) - 1 \in 1 .. Len(c.calls)
      BY <1>2, <3>1
    <3>3. Follows(b, LastCall(c)) /\ b \in Call
      BY <1>2, <3>2 DEF CallsOK, LastCall
    <3>4. b.stage \in Nat
      BY <3>3 DEF Call
    <3> HIDE DEF b
    <3>5. b.stage = c.i - 1 \/ b.stage + 1 = c.i - 1
      BY <2>1, <3>3 DEF Follows
    <3>6. LastCall(d).stage # b.stage
      BY <1>1, <1>2, <3>4, <3>5
    <3> QED BY <3>6 DEF b
  <2>5. CallsOK(d)
    BY <1>1, <2>1, <2>3, <2>4, CallsGrow DEF Running
  <2>6. ASSUME NEW i \in 1 .. Len(stages), i < c.i
        PROVE  Passed(d, i)
    BY <1>1, <2>6, PassedStays DEF Running
  <2>7. d.calls[Len(d.calls) - 1].stage # c.i
    BY <1>2, <2>1, <2>2
  <2> QED BY <2>5, <2>6, <2>7
<1> QED BY <1>2, <1>3, <1>4

\* The second call for a stage, of its own executor or of its fallback.
LEMMA SecondCall ==
  ASSUME TypeOK, NEW c \in Request, CallsOK(c), Handling(c),
         NEW x \in Builtins, NEW fb \in BOOLEAN,
         fb <=> stages[c.i].policy = "fallback",
         NEW e, e.success \in BOOLEAN, e.response \in Responses,
         NEW d, d = Called(c, x, fb, e)
  PROVE  /\ CallsOK(d)
         /\ \A i \in 1 .. Len(stages) : i < c.i => Passed(d, i)
<1>1. /\ d \in Request /\ d.calls # << >>
      /\ Len(d.calls) = Len(c.calls) + 1
      /\ LastCall(d).stage = c.i /\ LastCall(d).fallback = fb
      /\ \A p \in 1 .. Len(c.calls) : d.calls[p] = c.calls[p]
  BY CalledType
<1>2. Follows(LastCall(c), LastCall(d))
  BY <1>1 DEF Handling, Follows
<1>3. CallsOK(d)
  BY <1>1, <1>2, CallsGrow DEF Handling
<1>4. ASSUME NEW i \in 1 .. Len(stages), i < c.i
      PROVE  Passed(d, i)
  BY <1>1, <1>4, PassedStays DEF Handling
<1> QED BY <1>3, <1>4

\* On to the next stage.
LEMMA RecoveredOK ==
  ASSUME TypeOK, NEW d \in Request, CallsOK(d), AllKnown, d.i <= Len(stages),
         d.calls # << >>, LastCall(d).stage = d.i,
         LastCall(d).success \/ stages[d.i].policy = "skip",
         \A i \in 1 .. Len(stages) : i < d.i => Passed(d, i),
         NEW f, f \in Request, f.pc = "run", f.i = d.i + 1, f.calls = d.calls
  PROVE  RequestOK(f)
<1>1. Passed(d, d.i)
  BY LastPasses
<1>2. d.i \in Nat \ {0}
  BY DEF Request
<1>3. ASSUME NEW i \in 1 .. Len(stages), i < f.i
      PROVE  Passed(f, i)
  BY <1>1, <1>2, <1>3, SameCalls
<1>4. Running(f)
  BY <1>2, <1>3, SameCalls DEF Running, TypeOK
<1> QED BY <1>4, SameCalls DEF RequestOK

\* What Recovered and GivenUp do to c.
LEMMA OutcomeType ==
  ASSUME NEW c \in Request, NEW resp \in Responses
  PROVE  /\ Recovered(c) \in Request /\ Recovered(c).pc = "run"
         /\ Recovered(c).i = c.i + 1 /\ Recovered(c).calls = c.calls
         /\ GivenUp(c, resp) \in Request /\ GivenUp(c, resp).pc = "done"
         /\ GivenUp(c, resp).ok = FALSE /\ GivenUp(c, resp).calls = c.calls
         /\ GivenUp(c, resp).response = resp
<1>1. /\ Recovered(c) \in Request /\ Recovered(c).pc = "run"
      /\ Recovered(c).i = c.i + 1 /\ Recovered(c).calls = c.calls
  <2> DEFINE e == [c EXCEPT !.pc = "run"]
             f == [e EXCEPT !.i = c.i + 1]
  <2>1. Recovered(c) = f
    BY DEF Recovered
  <2>2. e \in Request /\ e.pc = "run" /\ e.calls = c.calls
    BY DEF Request
  <2>3. c.i + 1 \in Nat \ {0}
    BY DEF Request
  <2> HIDE DEF e
  <2>4. f \in Request /\ f.pc = "run" /\ f.i = c.i + 1 /\ f.calls = c.calls
    BY <2>2, <2>3 DEF Request
  <2> QED BY <2>1, <2>4
<1>2. /\ GivenUp(c, resp) \in Request /\ GivenUp(c, resp).pc = "done"
      /\ GivenUp(c, resp).ok = FALSE /\ GivenUp(c, resp).calls = c.calls
      /\ GivenUp(c, resp).response = resp
  BY DEF GivenUp, Request
<1> QED BY <1>1, <1>2

LEMMA GivenUpOK ==
  ASSUME NEW d \in Request, CallsOK(d), d.calls # << >>, NEW f,
         f.pc = "done", f.ok = FALSE, f.calls = d.calls,
         f.response \in {"stage error", "retry error"} \cup Markers
  PROVE  RequestOK(f)
BY SameCalls DEF RequestOK, Ended

LEMMA RunStageInv == ASSUME PInv, NEW r \in Requests, RunStage(r) PROVE PInv'
<1> DEFINE c == req[r]
           x == stages[c.i].executor
<1>1. /\ c \in Request /\ CallsOK(c) /\ Running(c) /\ TypeOK
      /\ c.i \in 1 .. Len(stages) /\ c.i \in Nat \ {0}
  BY Now DEF RunStage, RequestOK, Request
<1>2. x \in Builtins
  BY <1>1 DEF Running, AllKnown, Known
<1>3. UNCHANGED <<stages, resolved, alive>>
  BY DEF RunStage
<1>4. PICK e \in Effects(x, c) :
        Update(r, IF e.success
                  THEN [Called(c, x, FALSE, e) EXCEPT !.i = @ + 1]
                  ELSE [Called(c, x, FALSE, e) EXCEPT !.pc = "failed"])
  BY DEF RunStage
<1>5. /\ e.success \in BOOLEAN /\ e.response \in Responses
      /\ ~e.success => e.response \in Markers
  BY <1>1, <1>2, <1>4, EffectsType
<1>6. PICK fb \in BOOLEAN : ~fb /\ fb = FALSE
  OBVIOUS
<1>7. PICK d : d = Called(c, x, fb, e)
  OBVIOUS
<1>8. /\ d \in Request /\ d.i = c.i /\ d.pc = "run" /\ d.response = e.response
      /\ d.calls # << >> /\ LastCall(d).stage = c.i /\ LastCall(d).fallback = fb
      /\ LastCall(d).success = e.success
  <2>1. c.pc = "run"
    BY DEF RunStage
  <2> HIDE DEF c, x
  <2> QED BY <1>1, <1>2, <1>5, <1>7, <2>1, CalledType
<1>9. /\ CallsOK(d)
      /\ \A i \in 1 .. Len(stages) : i < c.i => Passed(d, i)
      /\ Len(d.calls) > 1 => d.calls[Len(d.calls) - 1].stage # c.i
  <2> HIDE DEF c, x
  <2> QED BY <1>1, <1>2, <1>5, <1>6, <1>7, FirstCall
<1>10. AllKnown
  BY <1>1 DEF Running
<1> HIDE DEF c, x
<1>11. CASE e.success
  <2> DEFINE f == [d EXCEPT !.i = d.i + 1]
  <2>1. Update(r, f)
    BY <1>4, <1>6, <1>7, <1>11
  <2>2. d.i + 1 \in Nat \ {0}
    BY <1>1, <1>8
  <2>3. f \in Request /\ f.pc = "run" /\ f.i = d.i + 1 /\ f.calls = d.calls
    BY <1>8, <2>2 DEF Request
  <2> HIDE DEF f
  <2>4. d.i <= Len(stages)
    BY <1>1, <1>8
  <2>5. RequestOK(f)
    BY <1>1, <1>8, <1>9, <1>10, <1>11, <2>3, <2>4, RecoveredOK
  <2> QED BY <1>3, <2>1, <2>3, <2>5, LocalInv DEF c
<1>12. CASE ~e.success
  <2> DEFINE f == [d EXCEPT !.pc = "failed"]
  <2>1. Update(r, f)
    BY <1>4, <1>6, <1>7, <1>12
  <2>2. f \in Request /\ f.pc = "failed" /\ f.i = d.i /\ f.calls = d.calls
        /\ f.response = d.response
    BY <1>8 DEF Request
  <2> HIDE DEF f
  <2>3. Handling(f)
    <3>1. LastCall(f) = LastCall(d) /\ \A i : Passed(d, i) => Passed(f, i)
      BY <2>2, SameCalls
    <3>2. f.i <= Len(stages)
      BY <1>1, <1>8, <2>2
    <3>3. ~LastCall(f).success /\ ~LastCall(f).fallback
      BY <1>6, <1>8, <1>12, <3>1
    <3> QED BY <1>5, <1>8, <1>9, <1>10, <1>12, <2>2, <3>1, <3>2, <3>3 DEF Handling
  <2>4. RequestOK(f)
    BY <1>9, <2>2, <2>3, SameCalls DEF RequestOK
  <2> QED BY <1>3, <2>1, <2>2, <2>4, LocalInv DEF c
<1> QED BY <1>5, <1>11, <1>12

\* What is known of a request in handle_failure.
LEMMA FailedNow ==
  ASSUME PInv, NEW r \in Requests, NEW policies, Failed(r, policies)
  PROVE  /\ req[r] \in Request /\ CallsOK(req[r]) /\ Handling(req[r]) /\ TypeOK
         /\ req[r].calls # << >>
         /\ req[r].i \in 1 .. Len(stages)
         /\ stages[req[r].i].policy \in policies
BY Now DEF Failed, RequestOK, Handling, Request

LEMMA SkipInv == ASSUME PInv, NEW r \in Requests, Skip(r) PROVE PInv'
<1> DEFINE c == req[r]
           f == Recovered(c)
<1>1. /\ c \in Request /\ CallsOK(c) /\ Handling(c) /\ TypeOK /\ c.calls # << >>
      /\ c.i \in 1 .. Len(stages) /\ stages[c.i].policy = "skip"
  BY FailedNow DEF Skip
<1>2. Update(r, f) /\ UNCHANGED <<stages, resolved, alive>>
  BY DEF Skip
<1>3. /\ f \in Request /\ f.pc = "run" /\ f.i = c.i + 1 /\ f.calls = c.calls
  BY <1>1, OutcomeType DEF Request
<1> HIDE DEF c, f
<1>4. RequestOK(f)
  BY <1>1, <1>3, RecoveredOK DEF Handling
<1> QED BY <1>2, <1>3, <1>4, LocalInv DEF c

LEMMA AbortInv == ASSUME PInv, NEW r \in Requests, Abort(r) PROVE PInv'
<1> DEFINE c == req[r]
           f == GivenUp(c, "stage error")
<1>1. c \in Request /\ CallsOK(c) /\ c.calls # << >>
  BY FailedNow DEF Abort
<1>2. Update(r, f) /\ UNCHANGED <<stages, resolved, alive>>
  BY DEF Abort
<1>3. "stage error" \in Responses
  BY DEF Responses
<1>4. /\ f \in Request /\ f.pc = "done" /\ f.ok = FALSE /\ f.calls = c.calls
      /\ f.response = "stage error"
  BY <1>1, <1>3, OutcomeType
<1> HIDE DEF c, f
<1>5. RequestOK(f)
  BY <1>1, <1>4, GivenUpOK
<1> QED BY <1>2, <1>4, <1>5, LocalInv DEF c

LEMMA OtherInv == ASSUME PInv, NEW r \in Requests, Other(r) PROVE PInv'
<1> DEFINE c == req[r]
           f == GivenUp(c, c.response)
<1>1. /\ c \in Request /\ CallsOK(c) /\ c.calls # << >>
      /\ c.response \in Markers /\ c.response \in Responses
  BY FailedNow DEF Other, Handling, Request
<1>2. Update(r, f) /\ UNCHANGED <<stages, resolved, alive>>
  BY DEF Other
<1>4. /\ f \in Request /\ f.pc = "done" /\ f.ok = FALSE /\ f.calls = c.calls
      /\ f.response = c.response
  BY <1>1, OutcomeType
<1> HIDE DEF c, f
<1>5. RequestOK(f)
  BY <1>1, <1>4, GivenUpOK
<1> QED BY <1>2, <1>4, <1>5, LocalInv DEF c

\* However run() goes on from d, the request is in order.
Settled(d, e) ==
  /\ Recovered(d) \in Request
  /\ e.success => RequestOK(Recovered(d))
  /\ \A resp \in {"stage error", "retry error"} \cup Markers :
       GivenUp(d, resp) \in Request /\ RequestOK(GivenUp(d, resp))

\* The second call, and what becomes of the request then; Retry and Fallback
\* differ in the executor and in what they say when it fails.
LEMMA SecondOK ==
  ASSUME TypeOK, NEW c \in Request, CallsOK(c), Handling(c),
         NEW x \in Builtins, NEW fb \in BOOLEAN,
         fb <=> stages[c.i].policy = "fallback",
         NEW e, e.success \in BOOLEAN, e.response \in Responses,
         NEW d, d = Called(c, x, fb, e)
  PROVE  d.response = e.response /\ Settled(d, e)
<1>1. /\ d \in Request /\ d.i = c.i /\ d.response = e.response
      /\ d.calls # << >> /\ LastCall(d).stage = c.i /\ LastCall(d).success = e.success
  BY CalledType
<1>2. /\ CallsOK(d)
      /\ \A i \in 1 .. Len(stages) : i < c.i => Passed(d, i)
  BY SecondCall
<1>3. ASSUME NEW resp \in {"stage error", "retry error"} \cup Markers
      PROVE  GivenUp(d, resp) \in Request /\ RequestOK(GivenUp(d, resp))
  <2>1. resp \in Responses
    BY DEF Responses, Markers, Answers
  <2>2. /\ GivenUp(d, resp) \in Request /\ GivenUp(d, resp).pc = "done"
        /\ GivenUp(d, resp).ok = FALSE /\ GivenUp(d, resp).calls = d.calls
        /\ GivenUp(d, resp).response = resp
    <3>1. d \in Request
      BY <1>1
    <3> QED BY <2>1, <3>1, OutcomeType, Zenon
  <2> QED BY <1>1, <1>2, <2>2, GivenUpOK
<1>4. d.i <= Len(stages) /\ AllKnown
  BY <1>1 DEF Handling
<1> DEFINE f == Recovered(d)
<1>5. "failed" \in Responses
  BY DEF Responses, Answers
<1>6. f \in Request /\ f.pc = "run" /\ f.i = d.i + 1 /\ f.calls = d.calls
  BY <1>1, <1>5, OutcomeType
<1> HIDE DEF f
<1>7. ASSUME e.success
      PROVE  RequestOK(f)
  <2>1. \A i \in 1 .. Len(stages) : i < d.i => Passed(d, i)
    BY <1>1, <1>2
  <2> QED BY <1>1, <1>2, <1>4, <1>6, <1>7, <2>1, RecoveredOK
<1> QED BY <1>1, <1>3, <1>6, <1>7 DEF f, Settled

LEMMA RetryInv == ASSUME PInv, NEW r \in Requests, Retry(r) PROVE PInv'
<1> DEFINE b == req[r]
           c == [b EXCEPT !.feedback = b.feedback + 1]
           x == stages[b.i].executor
<1>1. /\ b \in Request /\ CallsOK(b) /\ Handling(b) /\ TypeOK
      /\ b.i \in 1 .. Len(stages) /\ stages[b.i].policy = "retry_with_feedback"
  <2>1. Failed(r, {"retry_with_feedback"})
    BY DEF Retry
  <2> QED BY <2>1, FailedNow
<1>2. b.feedback + 1 \in Nat
  BY <1>1 DEF Request
<1>3. /\ c \in Request /\ c.i = b.i /\ c.calls = b.calls /\ c.response = b.response
  <2> HIDE DEF b
  <2> QED BY <1>1, <1>2 DEF Request
<1>4. x \in Builtins
  BY <1>1 DEF Handling, AllKnown, Known
<1>5. UNCHANGED <<stages, resolved, alive>>
  BY DEF Retry
<1>6. PICK e \in Effects(x, c) :
        Update(r, IF e.success THEN Recovered(Called(c, x, FALSE, e))
                  ELSE GivenUp(Called(c, x, FALSE, e), "retry error"))
  BY <1>3 DEF Retry
<1> HIDE DEF b, c, x
<1>7. CallsOK(c) /\ Handling(c)
  BY <1>1, <1>3, SameCalls DEF Handling
<1>8. PICK fb \in BOOLEAN : ~fb /\ fb = FALSE
  OBVIOUS
<1>9. PICK d : d = Called(c, x, fb, e)
  OBVIOUS
<1>10. fb <=> stages[c.i].policy = "fallback"
  BY <1>1, <1>3, <1>8
<1>11. e.success \in BOOLEAN /\ e.response \in Responses
  BY <1>3, <1>4, <1>6, EffectsType
<1>12. Settled(d, e)
  BY <1>1, <1>3, <1>4, <1>7, <1>9, <1>10, <1>11, SecondOK
<1>13. Update(r, IF e.success THEN Recovered(d) ELSE GivenUp(d, "retry error"))
  BY <1>6, <1>8, <1>9
<1>14. CASE e.success
  BY <1>5, <1>12, <1>13, <1>14, LocalInv DEF Settled
<1>15. CASE ~e.success
  <2>1. Update(r, GivenUp(d, "retry error"))
    BY <1>13, <1>15
  <2> QED BY <1>5, <1>12, <2>1, LocalInv DEF Settled
<1> QED BY <1>11, <1>14, <1>15

LEMMA FallbackInv == ASSUME PInv, NEW r \in Requests, Fallback(r) PROVE PInv'
<1> DEFINE c == req[r]
           x == stages[c.i].fallback
<1>1. /\ c \in Request /\ CallsOK(c) /\ Handling(c) /\ TypeOK /\ c.calls # << >>
      /\ c.i \in 1 .. Len(stages) /\ stages[c.i].policy = "fallback"
  BY FailedNow DEF Fallback
<1>2. UNCHANGED <<stages, resolved, alive>>
  BY DEF Fallback
<1>3. CASE x \in Builtins
  <2>1. PICK e \in Effects(x, c) :
          Update(r, IF e.success THEN Recovered(Called(c, x, TRUE, e))
                    ELSE GivenUp(Called(c, x, TRUE, e), Called(c, x, TRUE, e).response))
    BY <1>3 DEF Fallback
  <2> HIDE DEF c, x
  <2>2. PICK fb \in BOOLEAN : fb /\ fb = TRUE
    OBVIOUS
  <2>3. PICK d : d = Called(c, x, fb, e)
    OBVIOUS
  <2>4. fb <=> stages[c.i].policy = "fallback"
    BY <1>1, <2>2
  <2>5. /\ e.success \in BOOLEAN /\ e.response \in Responses
        /\ ~e.success => e.response \in Markers
    BY <1>1, <1>3, <2>1, EffectsType
  <2>6. d.response = e.response /\ Settled(d, e)
    <3>1. e.success \in BOOLEAN /\ e.response \in Responses
      BY <2>5
    <3>2. c \in Request /\ CallsOK(c) /\ Handling(c) /\ TypeOK
      BY <1>1
    <3> QED BY <1>3, <2>3, <2>4, <3>1, <3>2, SecondOK
  <2>7. Update(r, IF e.success THEN Recovered(d) ELSE GivenUp(d, d.response))
    BY <2>1, <2>2, <2>3
  <2>8. CASE e.success
    BY <1>2, <2>6, <2>7, <2>8, LocalInv DEF Settled
  <2>9. CASE ~e.success
    <3>1. Update(r, GivenUp(d, d.response))
      BY <2>7, <2>9
    <3>2. d.response \in Markers
      BY <2>5, <2>6, <2>9
    <3> QED BY <1>2, <2>6, <3>1, <3>2, LocalInv DEF Settled
  <2> QED BY <2>5, <2>8, <2>9
<1>4. CASE x \notin Builtins
  <2> DEFINE f == GivenUp(c, c.response)
  <2>1. Update(r, f)
    BY <1>4 DEF Fallback
  <2>2. c.response \in Markers /\ c.response \in Responses
    BY <1>1 DEF Handling, Request
  <2>3. /\ f \in Request /\ f.pc = "done" /\ f.ok = FALSE /\ f.calls = c.calls
        /\ f.response = c.response
    BY <1>1, <2>2, OutcomeType
  <2> HIDE DEF c, f
  <2>4. RequestOK(f)
    BY <1>1, <2>2, <2>3, GivenUpOK
  <2> QED BY <1>2, <2>1, <2>3, <2>4, LocalInv
<1> QED BY <1>3, <1>4

-----------------------------------------------------------------------------
(* The theorems *)

LEMMA InitPInv == Init => PInv
<1> SUFFICES ASSUME Init PROVE PInv
  OBVIOUS
<1>1. /\ stages \in StageConfigs /\ resolved = {} /\ alive = TRUE
      /\ req = [r \in Requests |-> Idle]
  BY DEF Init
<1>2. /\ Idle \in Request /\ Idle.pc = "idle" /\ Idle.i = 1
      /\ Idle.response = "none" /\ Idle.calls = << >>
  BY DEF Idle, Request, Responses
<1>3. TypeOK /\ ResolvedKnown
  BY <1>1, <1>2 DEF TypeOK, ResolvedKnown
<1>4. ASSUME NEW r \in Requests
      PROVE  RequestOK(req[r])
  <2>1. req[r] = Idle /\ Len(stages) \in Nat
    BY <1>1, <1>3 DEF TypeOK
  <2>2. CallsOK(Idle)
    BY <1>2 DEF CallsOK
  <2>3. Resolving(Idle)
    BY <1>2, <2>1 DEF Resolving
  <2> QED BY <1>2, <2>1, <2>2, <2>3 DEF RequestOK
<1> QED BY <1>3, <1>4 DEF PInv

\* A step that changes nothing keeps PInv.
LEMMA StutterPInv == ASSUME PInv, UNCHANGED vars PROVE PInv'
<1>1. UNCHANGED <<stages, resolved, req, alive>>
  BY DEF vars
<1>2. ASSUME NEW r \in Requests
      PROVE  RequestOK(req[r])'
  <2>1. PICK d : d = req[r]
    OBVIOUS
  <2>2. RequestOK(d) /\ d = req'[r]
    BY <1>1, <2>1 DEF PInv
  <2> QED BY <1>1, <2>2, StagesStay
<1> QED BY <1>1, <1>2 DEF PInv, TypeOK, ResolvedKnown, Known

LEMMA NextPInv == PInv /\ [Next]_vars => PInv'
<1> SUFFICES ASSUME PInv, [Next]_vars PROVE PInv'
  OBVIOUS
<1>1. CASE UNCHANGED vars
  BY <1>1, StutterPInv
<1>2. ASSUME NEW r \in Requests, Begin(r) \/ Step(r) \/ Throw(r) \/ AssignRace(r)
      PROVE  PInv'
  <2>1. CASE HandleFailure(r)
    BY <2>1, SkipInv, AbortInv, RetryInv, FallbackInv, OtherInv DEF HandleFailure
  <2>2. CASE Begin(r) \/ Throw(r) \/ AssignRace(r)
    BY <2>2, BeginInv, ThrowInv, DieInv DEF AssignRace
  <2>3. CASE Resolve(r) \/ Assign(r) \/ Resolved(r) \/ RunStage(r) \/ Finish(r)
    BY <2>3, ResolveInv, AssignInv, ResolvedInv, RunStageInv, FinishInv
  <2> QED BY <1>2, <2>1, <2>2, <2>3 DEF Step
<1> QED BY <1>1, <1>2 DEF Next, Served

LEMMA AlwaysPInv == Spec => []PInv
BY InitPInv, NextPInv, PTL DEF Spec

\* The variables keep their types: no request leaves the stages of the
\* configuration, and no executor is stored for a stage that is not there.
THEOREM TypeCorrect == Spec => []TypeOK
<1>1. PInv => TypeOK
  BY DEF PInv
<1> QED BY <1>1, AlwaysPInv, PTL

\* A configuration with an executor that nobody registered runs nothing, for
\* any number of requests that resolve the shared stages at once.
THEOREM BadConfigIsRefused == Spec => []BadConfigRunsNothing
<1>1. PInv => BadConfigRunsNothing
  BY DEF PInv, RequestOK, CallsOK, AllKnown, Known, BadConfigRunsNothing
<1> QED BY <1>1, AlwaysPInv, PTL

\* Each request runs the stages in the order of the configuration, whatever
\* fails, is skipped, retried or replaced, and whatever the others do.
THEOREM StagesRunInOrder == Spec => []StagesInOrder
<1>1. PInv => StagesInOrder
  BY DEF PInv, RequestOK, CallsOK, StagesInOrder
<1> QED BY <1>1, AlwaysPInv, PTL

\* A request that run() calls a success had every stage succeed or be skipped.
THEOREM OkIsEarned == Spec => []OkMeansEveryStage
<1>1. PInv => OkMeansEveryStage
  BY DEF PInv, RequestOK, Ended, Passed, OkMeansEveryStage
<1> QED BY <1>1, AlwaysPInv, PTL

\* A request that run() calls a failure says so to the client, unless the
\* configuration was refused: no answer of an earlier stage is left standing.
THEOREM FailuresAreTold == Spec => []FailureIsTold
<1>1. PInv => FailureIsTold
  BY DEF PInv, RequestOK, Ended, Markers, FailureIsTold
<1> QED BY <1>1, AlwaysPInv, PTL

-----------------------------------------------------------------------------
(* HttpServer *)

USE HttpServerAssumption

-----------------------------------------------------------------------------
(* What the calls of one request, c, amount to *)

Agents(c) == {p \in 1 .. Len(c.calls) : c.calls[p].executor = "llm_agent_loop"}

\* The last answer of the agent: LastAnswer for a request that is at hand.
AnswerOf(c) ==
  IF Agents(c) = {} THEN "none"
  ELSE c.calls[CHOOSE p \in Agents(c) : \A q \in Agents(c) : q <= p].response

\* d has made one call more than c.
Calls(c, d, n) ==
  /\ n \in Call
  /\ d.calls = Append(c.calls, n)
  /\ n.executor # "llm_agent_loop" => n.response = c.response

\* A call that succeeded, may be skipped, or was made good by the next.
Fine(c, p) ==
  \/ c.calls[p].success
  \/ stages[c.calls[p].stage].policy = "skip"
  \/ p < Len(c.calls) /\ c.calls[p + 1].success

\* run() has not failed.
Standing(c) ==
  \/ c.pc \in {"idle", "resolve", "assign", "run", "failed"}
  \/ c.pc = "done" /\ c.ok

\* There is a last call of the agent, if there is one.
HasLast(c) == Agents(c) # {} => \E p \in Agents(c) : \A q \in Agents(c) : q <= p

CallsTell(c) ==
  /\ HasLast(c)
  /\ Standing(c) => c.response = AnswerOf(c)
  /\ c.pc = "run" \/ (c.pc = "done" /\ c.ok) =>
       \A p \in 1 .. Len(c.calls) : Fine(c, p)
  /\ c.pc = "failed" => \A p \in 1 .. Len(c.calls) - 1 : Fine(c, p)

LEMMA AnswerAppended ==
  ASSUME NEW c \in Request, NEW d \in Request, NEW n, Calls(c, d, n), HasLast(c)
  PROVE  /\ AnswerOf(d) = IF n.executor = "llm_agent_loop" THEN n.response ELSE AnswerOf(c)
         /\ HasLast(d)
<1>1. /\ c.calls \in Seq(Call) /\ Len(c.calls) \in Nat
      /\ Len(d.calls) = Len(c.calls) + 1
      /\ d.calls[Len(c.calls) + 1] = n
      /\ \A p \in 1 .. Len(c.calls) : d.calls[p] = c.calls[p]
  BY DEF Calls, Request
<1>2. CASE n.executor = "llm_agent_loop"
  <2>1. Len(d.calls) \in Agents(d) /\ \A q \in Agents(d) : q <= Len(d.calls)
    BY <1>1, <1>2 DEF Agents
  <2>2. \A p \in Agents(d) : (\A q \in Agents(d) : q <= p) => p = Len(d.calls)
    BY <1>1, <2>1 DEF Agents
  <2>3. (CHOOSE p \in Agents(d) : \A q \in Agents(d) : q <= p) = Len(d.calls)
    BY <2>1, <2>2
  <2>4. AnswerOf(d) = d.calls[Len(d.calls)].response
    BY <2>1, <2>3 DEF AnswerOf
  <2>5. d.calls[Len(d.calls)] = n
    BY <1>1
  <2>6. HasLast(d)
    BY <2>1 DEF HasLast
  <2> QED BY <1>2, <2>4, <2>5, <2>6
<1>3. CASE n.executor # "llm_agent_loop"
  <2>1. Agents(d) = Agents(c)
    BY <1>1, <1>3 DEF Agents
  <2>2. CASE Agents(c) = {}
    BY <1>3, <2>1, <2>2 DEF AnswerOf, HasLast
  <2>3. CASE Agents(c) # {}
    <3> DEFINE m == CHOOSE p \in Agents(c) : \A q \in Agents(c) : q <= p
    <3>1. m \in Agents(c)
      BY <2>3 DEF HasLast
    <3>2. m \in 1 .. Len(c.calls)
      BY <3>1 DEF Agents
    <3>3. AnswerOf(d) = d.calls[m].response /\ AnswerOf(c) = c.calls[m].response
      BY <2>1, <2>3 DEF AnswerOf
    <3> QED BY <1>1, <1>3, <2>1, <3>2, <3>3 DEF HasLast
  <2> QED BY <2>2, <2>3
<1> QED BY <1>2, <1>3

\* AnswerOf and Fine look only at the calls.
LEMMA SameTell ==
  ASSUME NEW c, NEW d, d.calls = c.calls
  PROVE  /\ AnswerOf(d) = AnswerOf(c)
         /\ HasLast(c) => HasLast(d)
         /\ \A p : Fine(c, p) => Fine(d, p)
<1>1. Agents(d) = Agents(c)
  BY DEF Agents
<1> QED BY <1>1 DEF AnswerOf, HasLast, Fine

-----------------------------------------------------------------------------
(* The steps of run() *)

\* How a step takes a request from c to d, without a call or with one.
Quiet(c, d) ==
  /\ d.calls = c.calls
  /\ \/ d.pc = "done" /\ ~d.ok
     \/ /\ d.response = c.response
        /\ Standing(c)
        /\ \/ d.pc \in {"resolve", "assign"}
           \/ c.pc = "resolve" /\ d.pc = "run"
           \/ c.pc = "run" /\ d.pc = "done"
           \/ c.pc = "failed" /\ stages[c.i].policy = "skip" /\ d.pc = "run"

Noisy(c, d) ==
  \E n : /\ Calls(c, d, n)
         /\ \/ d.pc = "done" /\ ~d.ok
            \/ /\ d.response = n.response
               /\ \/ c.pc = "run" /\ d.pc = IF n.success THEN "run" ELSE "failed"
                  \/ c.pc = "failed" /\ n.success /\ d.pc = "run"

LEMMA CallIsMade ==
  ASSUME NEW c \in Request, NEW x \in Builtins, NEW fb \in BOOLEAN, NEW e \in Effects(x, c),
         NEW d, d = Called(c, x, fb, e)
  PROVE  \E n : /\ Calls(c, d, n) /\ n.success = e.success
                /\ d.response = n.response /\ d \in Request /\ d.pc = c.pc
<1> DEFINE new == [stage |-> c.i, executor |-> x, fallback |-> fb,
                   success |-> e.success, response |-> e.response, told |-> 0]
<1>1. e.success \in BOOLEAN /\ e.response \in Responses
  BY EffectsType
<1>2. new \in Call
  BY <1>1 DEF Call, Request
<1>3. x # "llm_agent_loop" => e.response = c.response
  BY DEF Effects
<1>4. /\ new.executor = x /\ new.success = e.success /\ new.response = e.response
  OBVIOUS
<1>5. d = [c EXCEPT !.response = e.response, !.calls = Append(c.calls, new)]
  BY DEF Called
<1> HIDE DEF new
<1>6. d.calls = Append(c.calls, new) /\ d.response = e.response
  BY <1>5 DEF Request
<1>7. d \in Request /\ d.pc = c.pc
  BY <1>1, CalledType
<1> QED BY <1>2, <1>3, <1>4, <1>6, <1>7 DEF Calls

LEMMA RunStageMoves ==
  ASSUME PInv, NEW r \in Requests, RunStage(r)
  PROVE  Noisy(req[r], req'[r])
<1> DEFINE c == req[r]
           x == stages[c.i].executor
<1>1. /\ c \in Request /\ Running(c) /\ c.pc = "run" /\ c.i \in 1 .. Len(stages)
  BY Now DEF RunStage, RequestOK, Request
<1>2. x \in Builtins
  BY <1>1 DEF Running, AllKnown, Known
<1>3. PICK e \in Effects(x, c) :
        Update(r, IF e.success
                  THEN [Called(c, x, FALSE, e) EXCEPT !.i = @ + 1]
                  ELSE [Called(c, x, FALSE, e) EXCEPT !.pc = "failed"])
  BY DEF RunStage
<1>4. PICK fb \in BOOLEAN : fb = FALSE
  OBVIOUS
<1>5. PICK d : d = Called(c, x, fb, e)
  OBVIOUS
<1>6. req'[r] = IF e.success THEN [d EXCEPT !.i = @ + 1] ELSE [d EXCEPT !.pc = "failed"]
  BY <1>3, <1>4, <1>5 DEF Update, PInv, TypeOK
<1> HIDE DEF c, x
<1>7. PICK n : /\ Calls(c, d, n) /\ n.success = e.success
               /\ d.response = n.response /\ d \in Request /\ d.pc = c.pc
  BY <1>1, <1>2, <1>5, CallIsMade
<1>8. PICK f : f = req'[r]
  OBVIOUS
<1>9. /\ f.calls = d.calls /\ f.response = d.response
      /\ f.pc = IF n.success THEN "run" ELSE "failed"
  BY <1>1, <1>6, <1>7, <1>8 DEF Request
<1>10. Calls(c, f, n)
  BY <1>7, <1>9 DEF Calls
<1> QED BY <1>1, <1>7, <1>8, <1>9, <1>10 DEF Noisy, c

LEMMA OutcomeFields ==
  ASSUME NEW d \in Request, NEW resp
  PROVE  /\ Recovered(d).calls = d.calls /\ Recovered(d).response = d.response
         /\ Recovered(d).pc = "run"
         /\ GivenUp(d, resp).calls = d.calls
         /\ GivenUp(d, resp).pc = "done" /\ GivenUp(d, resp).ok = FALSE
BY DEF Recovered, GivenUp, Request

\* The second call and its outcome, for Retry and for Fallback.
LEMMA SecondMoves ==
  ASSUME NEW c \in Request, c.pc = "failed", NEW x \in Builtins, NEW fb \in BOOLEAN,
         NEW e \in Effects(x, c), NEW d, d = Called(c, x, fb, e), NEW resp,
         NEW f, f = IF e.success THEN Recovered(d) ELSE GivenUp(d, resp)
  PROVE  Noisy(c, f)
<1>1. PICK n : /\ Calls(c, d, n) /\ n.success = e.success
               /\ d.response = n.response /\ d \in Request
  BY CallIsMade
<1>2. f.calls = d.calls
  BY <1>1, OutcomeFields
<1>3. Calls(c, f, n)
  BY <1>1, <1>2 DEF Calls
<1>4. CASE e.success
  BY <1>1, <1>3, <1>4, OutcomeFields DEF Noisy
<1>5. CASE ~e.success
  BY <1>1, <1>3, <1>5, OutcomeFields DEF Noisy
<1> QED BY <1>4, <1>5

LEMMA RetryMoves ==
  ASSUME PInv, NEW r \in Requests, Retry(r)
  PROVE  Noisy(req[r], req'[r])
<1> DEFINE b == req[r]
           c == [b EXCEPT !.feedback = b.feedback + 1]
           x == stages[b.i].executor
<1>1. /\ b \in Request /\ Handling(b) /\ b.i \in 1 .. Len(stages) /\ b.pc = "failed"
  BY FailedNow DEF Retry, Failed
<1>2. b.feedback + 1 \in Nat
  BY <1>1 DEF Request
<1>3. /\ c \in Request /\ c.i = b.i /\ c.calls = b.calls /\ c.response = b.response
      /\ c.pc = "failed"
  <2> HIDE DEF b
  <2> QED BY <1>1, <1>2 DEF Request
<1>4. x \in Builtins
  BY <1>1 DEF Handling, AllKnown, Known
<1>5. PICK e \in Effects(x, c) :
        Update(r, IF e.success THEN Recovered(Called(c, x, FALSE, e))
                  ELSE GivenUp(Called(c, x, FALSE, e), "retry error"))
  BY <1>3 DEF Retry
<1>6. PICK fb \in BOOLEAN : fb = FALSE
  OBVIOUS
<1>7. PICK d : d = Called(c, x, fb, e)
  OBVIOUS
<1>8. PICK f : f = req'[r]
  OBVIOUS
<1>9. f = IF e.success THEN Recovered(d) ELSE GivenUp(d, "retry error")
  BY <1>5, <1>6, <1>7, <1>8 DEF Update, PInv, TypeOK
<1> HIDE DEF c, x
<1>10. Noisy(c, f)
  BY <1>3, <1>4, <1>7, <1>9, SecondMoves
<1>11. Noisy(b, f)
  BY <1>1, <1>3, <1>10 DEF Noisy, Calls
<1> QED BY <1>8, <1>11

LEMMA FallbackMoves ==
  ASSUME PInv, NEW r \in Requests, Fallback(r)
  PROVE  Quiet(req[r], req'[r]) \/ Noisy(req[r], req'[r])
<1> DEFINE c == req[r]
           x == stages[c.i].fallback
<1>1. c \in Request /\ c.pc = "failed"
  BY Now DEF Fallback, Failed
<1>2. PICK f : f = req'[r]
  OBVIOUS
<1>3. CASE x \in Builtins
  <2>1. PICK e \in Effects(x, c) :
          Update(r, IF e.success THEN Recovered(Called(c, x, TRUE, e))
                    ELSE GivenUp(Called(c, x, TRUE, e), Called(c, x, TRUE, e).response))
    BY <1>3 DEF Fallback
  <2>2. PICK fb \in BOOLEAN : fb = TRUE
    OBVIOUS
  <2>3. PICK d : d = Called(c, x, fb, e)
    OBVIOUS
  <2>4. f = IF e.success THEN Recovered(d) ELSE GivenUp(d, d.response)
    BY <1>2, <2>1, <2>2, <2>3 DEF Update, PInv, TypeOK
  <2> HIDE DEF c, x
  <2>5. PICK resp : resp = d.response
    OBVIOUS
  <2>6. Noisy(c, f)
    BY <1>1, <1>3, <2>3, <2>4, <2>5, SecondMoves
  <2> QED BY <1>2, <2>6 DEF c
<1>4. CASE x \notin Builtins
  <2>1. f = GivenUp(c, c.response)
    BY <1>2, <1>4 DEF Fallback, Update, PInv, TypeOK
  <2> HIDE DEF c
  <2>2. Quiet(c, f)
    BY <1>1, <2>1, OutcomeFields DEF Quiet
  <2> QED BY <1>2, <2>2 DEF c
<1> QED BY <1>3, <1>4

\* Every step of run() is one of these.
LEMMA StepMoves ==
  ASSUME PInv, NEW r \in Requests, Step(r)
  PROVE  Quiet(req[r], req'[r]) \/ Noisy(req[r], req'[r])
<1> DEFINE c == req[r]
<1>0. c \in Request /\ req \in [Requests -> Request]
  BY Now DEF PInv, TypeOK
<1>1. PICK f : f = req'[r]
  OBVIOUS
<1>2. CASE Resolve(r)
  <2>1. /\ c.pc = "resolve"
        /\ \/ f = [c EXCEPT !.i = @ + 1]
           \/ f = [c EXCEPT !.pc = "assign"]
           \/ f = [c EXCEPT !.pc = "done", !.ok = FALSE]
    BY <1>0, <1>1, <1>2 DEF Resolve, Update
  <2> HIDE DEF c
  <2>2. Quiet(c, f)
    BY <1>0, <2>1 DEF Quiet, Standing, Request
  <2> QED BY <1>1, <2>2 DEF c
<1>3. CASE Assign(r)
  <2>1. c.pc = "assign" /\ f = [c EXCEPT !.pc = "resolve", !.i = @ + 1]
    BY <1>0, <1>1, <1>3 DEF Assign, Update
  <2> HIDE DEF c
  <2>2. Quiet(c, f)
    BY <1>0, <2>1 DEF Quiet, Standing, Request
  <2> QED BY <1>1, <2>2 DEF c
<1>4. CASE Resolved(r)
  <2>1. c.pc = "resolve" /\ f = [c EXCEPT !.pc = "run", !.i = 1]
    BY <1>0, <1>1, <1>4 DEF Resolved, Update
  <2> HIDE DEF c
  <2>2. Quiet(c, f)
    BY <1>0, <2>1 DEF Quiet, Standing, Request
  <2> QED BY <1>1, <2>2 DEF c
<1>5. CASE Finish(r)
  <2>1. c.pc = "run" /\ f = [c EXCEPT !.pc = "done", !.ok = TRUE]
    BY <1>0, <1>1, <1>5 DEF Finish, Update
  <2> HIDE DEF c
  <2>2. Quiet(c, f)
    BY <1>0, <2>1 DEF Quiet, Standing, Request
  <2> QED BY <1>1, <2>2 DEF c
<1>6. CASE Skip(r)
  <2>1. /\ c.pc = "failed" /\ stages[c.i].policy = "skip" /\ f = Recovered(c)
    BY <1>0, <1>1, <1>6 DEF Skip, Failed, Update
  <2> HIDE DEF c
  <2>2. Quiet(c, f)
    BY <1>0, <2>1, OutcomeFields DEF Quiet, Standing
  <2> QED BY <1>1, <2>2 DEF c
<1>7. CASE Abort(r) \/ Other(r)
  <2>1. PICK resp : f = GivenUp(c, resp)
    BY <1>0, <1>1, <1>7 DEF Abort, Other, Update
  <2> HIDE DEF c
  <2>2. Quiet(c, f)
    BY <1>0, <2>1, OutcomeFields DEF Quiet
  <2> QED BY <1>1, <2>2 DEF c
<1>8. CASE RunStage(r) \/ Retry(r) \/ Fallback(r)
  BY <1>8, RunStageMoves, RetryMoves, FallbackMoves
<1> QED BY <1>2, <1>3, <1>4, <1>5, <1>6, <1>7, <1>8 DEF Step, HandleFailure

LEMMA QuietTells ==
  ASSUME NEW c \in Request, NEW d \in Request, RequestOK(c), CallsTell(c), Quiet(c, d)
  PROVE  CallsTell(d)
<1>1. d.calls = c.calls
  BY DEF Quiet
<1>2. /\ AnswerOf(d) = AnswerOf(c) /\ HasLast(d)
      /\ \A p : Fine(c, p) => Fine(d, p)
  BY <1>1, SameTell DEF CallsTell
<1>3. CASE d.pc = "done" /\ ~d.ok
  BY <1>2, <1>3 DEF CallsTell, Standing
<1>4. CASE d.response = c.response /\ Standing(c) /\ d.pc \in {"resolve", "assign"}
  BY <1>2, <1>4 DEF CallsTell, Standing
<1>5. CASE d.response = c.response /\ c.pc = "resolve" /\ d.pc = "run"
  <2>1. Len(d.calls) = 0
    BY <1>1, <1>5 DEF RequestOK, Resolving
  <2> QED BY <1>2, <1>5, <2>1 DEF CallsTell, Standing
<1>6. CASE d.response = c.response /\ c.pc = "run" /\ d.pc = "done"
  BY <1>1, <1>2, <1>6 DEF CallsTell, Standing
<1>7. CASE /\ d.response = c.response /\ c.pc = "failed"
           /\ stages[c.i].policy = "skip" /\ d.pc = "run"
  <2>1. LastCall(c).stage = c.i /\ Len(c.calls) \in Nat
    BY <1>7 DEF RequestOK, Handling, Request
  <2>2. Fine(c, Len(c.calls))
    BY <1>7, <2>1 DEF Fine, LastCall
  <2>3. \A p \in 1 .. Len(d.calls) : Fine(d, p)
    BY <1>1, <1>2, <1>7, <2>1, <2>2 DEF CallsTell
  <2> QED BY <1>2, <1>7, <2>3 DEF CallsTell, Standing
<1> QED BY <1>3, <1>4, <1>5, <1>6, <1>7 DEF Quiet

LEMMA NoisyTells ==
  ASSUME NEW c \in Request, NEW d \in Request, CallsTell(c), Noisy(c, d)
  PROVE  CallsTell(d)
<1>1. PICK n : /\ Calls(c, d, n)
               /\ \/ d.pc = "done" /\ ~d.ok
                  \/ /\ d.response = n.response
                     /\ \/ c.pc = "run" /\ d.pc = IF n.success THEN "run" ELSE "failed"
                        \/ c.pc = "failed" /\ n.success /\ d.pc = "run"
  BY DEF Noisy
<1>2. /\ AnswerOf(d) = IF n.executor = "llm_agent_loop" THEN n.response ELSE AnswerOf(c)
      /\ HasLast(d)
  BY <1>1, AnswerAppended DEF CallsTell
<1>3. CASE d.pc = "done" /\ ~d.ok
  BY <1>2, <1>3 DEF CallsTell, Standing
<1>4. /\ c.calls \in Seq(Call) /\ Len(c.calls) \in Nat
      /\ Len(d.calls) = Len(c.calls) + 1
      /\ d.calls[Len(c.calls) + 1] = n
      /\ \A p \in 1 .. Len(c.calls) : d.calls[p] = c.calls[p]
  BY <1>1 DEF Calls, Request
<1>5. ASSUME NEW p \in 1 .. Len(c.calls), Fine(c, p)
      PROVE  Fine(d, p)
  <2>1. p \in Nat /\ p < Len(d.calls)
    BY <1>4
  <2>2. d.calls[p] = c.calls[p]
    BY <1>4
  <2>3. p < Len(c.calls) => d.calls[p + 1] = c.calls[p + 1]
    BY <1>4, <2>1
  <2> QED BY <1>5, <2>1, <2>2, <2>3 DEF Fine
<1>6. n.success => Fine(d, Len(d.calls)) /\ Fine(d, Len(c.calls))
  BY <1>4 DEF Fine
<1>7. ASSUME d.response = n.response, c.pc \in {"run", "failed"}
      PROVE  d.response = AnswerOf(d)
  <2>1. c.response = AnswerOf(c)
    BY <1>7 DEF CallsTell, Standing
  <2> QED BY <1>1, <1>2, <1>7, <2>1 DEF Calls
<1>8. CASE d.response = n.response /\ c.pc = "run" /\ d.pc = IF n.success THEN "run" ELSE "failed"
  <2>1. \A p \in 1 .. Len(c.calls) : Fine(d, p)
    BY <1>5, <1>8 DEF CallsTell
  <2>2. d.response = AnswerOf(d)
    BY <1>7, <1>8
  <2>3. CASE n.success
    BY <1>2, <1>4, <1>6, <1>8, <2>1, <2>2, <2>3 DEF CallsTell
  <2>4. CASE ~n.success
    BY <1>2, <1>4, <1>8, <2>1, <2>2, <2>4 DEF CallsTell
  <2> QED BY <2>3, <2>4
<1>9. CASE d.response = n.response /\ c.pc = "failed" /\ n.success /\ d.pc = "run"
  <2>1. \A p \in 1 .. Len(c.calls) - 1 : Fine(d, p)
    BY <1>4, <1>5, <1>9 DEF CallsTell
  <2>2. \A p \in 1 .. Len(d.calls) : Fine(d, p)
    BY <1>4, <1>6, <1>9, <2>1
  <2>3. d.response = AnswerOf(d)
    BY <1>7, <1>9
  <2> QED BY <1>2, <1>9, <2>2, <2>3 DEF CallsTell
<1> QED BY <1>1, <1>3, <1>8, <1>9

-----------------------------------------------------------------------------
(* The clients *)

Kinds == {"none", "invalid", "mistyped", "plain", "stream"}
Codes == {0, 200, 400, 500}
Bodies == Responses \cup {"error", "Pipeline failed"}
Ends == {"none", "done", "broken"}

LEMMA ClientType ==
  Client = [kind : Kinds, status : Codes, body : Bodies, events : Seq(Tokens),
            lost : BOOLEAN, end : Ends]
BY DEF Client, Kinds, Codes, Bodies, Ends

EndsFinal(events) == events # << >> /\ events[Len(events)] = "final"

\* An answer to the request c: never 200 for a failure.
Told(code, text, c) ==
  /\ code = 200 => c.pc = "done" /\ c.ok /\ text = c.response
  /\ code = 500 => text # "text"

\* What client k has been sent for the request c.
ClientOK(k, c) ==
  /\ k.kind = "none" => k.status = 0
  /\ k.kind # "stream" => k.end = "none"
  /\ k.kind = "plain" => Told(k.status, k.body, c)
  /\ k.kind = "stream" =>
       /\ ~k.lost /\ AnswerOf(c) = "text" => EndsFinal(k.events)
       /\ k.end = "done" => ~k.lost /\ c.pc = "done"

HInv ==
  /\ PInv
  /\ file \in File(Stage)
  /\ client \in [Requests -> Client]
  /\ \A r \in Requests : CallsTell(req[r]) /\ ClientOK(client[r], req[r])

LEMMA TellsStay ==
  ASSUME NEW CONSTANT d, CallsTell(d), stages' = stages
  PROVE  CallsTell(d)'
<1>1. \A p : Fine(d, p) <=> Fine(d, p)'
  BY DEF Fine
<1> QED BY <1>1 DEF CallsTell, Standing, HasLast, AnswerOf, Agents

LEMMA ClientStays ==
  ASSUME NEW k, NEW c, NEW d, ClientOK(k, c), AnswerOf(d) = AnswerOf(c),
         c.pc = "done" => d = c
  PROVE  ClientOK(k, d)
BY DEF ClientOK, Told

\* A step that changes the client and the request of r at most.
LEMMA HMove ==
  ASSUME HInv, PInv', UNCHANGED <<file, stages>>, NEW r \in Requests,
         NEW k \in Client, client' = [client EXCEPT ![r] = k],
         \A s \in Requests \ {r} : req'[s] = req[s],
         NEW d, d = req'[r], CallsTell(d), ClientOK(k, d)
  PROVE  HInv'
<1>1. client' \in [Requests -> Client] /\ file' \in File(Stage)
  BY DEF HInv
<1>2. ASSUME NEW s \in Requests
      PROVE  CallsTell(req[s])' /\ ClientOK(client[s], req[s])'
  <2>1. PICK e : e = req'[s]
    OBVIOUS
  <2>2. PICK h : h = client'[s]
    OBVIOUS
  <2>3. CallsTell(e) /\ ClientOK(h, e)
    BY <2>1, <2>2 DEF HInv
  <2>4. CallsTell(e)'
    BY <2>3, TellsStay
  <2>5. ClientOK(h, e)'
    BY <2>3 DEF ClientOK, Told, EndsFinal, AnswerOf, Agents
  <2> QED BY <2>1, <2>2, <2>4, <2>5
<1> QED BY <1>1, <1>2 DEF HInv

\* The server takes a step on its own.
LEMMA ServerMove ==
  ASSUME HInv, UNCHANGED <<vars, file>>, NEW r \in Requests,
         NEW k \in Client, client' = [client EXCEPT ![r] = k], ClientOK(k, req[r])
  PROVE  HInv'
<1>1. PInv' /\ UNCHANGED <<stages, req>>
  BY StutterPInv DEF HInv, vars
<1>2. PICK d : d = req'[r]
  OBVIOUS
<1>3. CallsTell(d) /\ ClientOK(k, d)
  BY <1>1, <1>2 DEF HInv
<1> QED BY <1>1, <1>2, <1>3, HMove

\* Some requests are over without a result, and no client hears of it yet.
LEMMA Lost ==
  ASSUME HInv, PInv', UNCHANGED <<file, stages, client>>,
         \A s \in Requests :
           \/ req'[s] = req[s]
           \/ /\ req[s].pc # "done"
              /\ req'[s].pc \in {"dead", "thrown"} /\ req'[s].calls = req[s].calls
  PROVE  HInv'
<1>1. ASSUME NEW s \in Requests
      PROVE  CallsTell(req[s])' /\ ClientOK(client[s], req[s])'
  <2>1. PICK c : c = req[s]
    OBVIOUS
  <2>2. PICK e : e = req'[s]
    OBVIOUS
  <2>3. PICK h : h = client[s]
    OBVIOUS
  <2>4. CallsTell(c) /\ ClientOK(h, c)
    BY <2>1, <2>3 DEF HInv
  <2>5. \/ e = c
        \/ c.pc # "done" /\ e.pc \in {"dead", "thrown"} /\ e.calls = c.calls
    BY <2>1, <2>2
  <2>6. CallsTell(e) /\ ClientOK(h, e)
    <3>1. CASE e = c
      BY <2>4, <3>1
    <3>2. CASE c.pc # "done" /\ e.pc \in {"dead", "thrown"} /\ e.calls = c.calls
      <4>1. AnswerOf(e) = AnswerOf(c) /\ HasLast(e)
        BY <2>4, <3>2, SameTell DEF CallsTell
      <4>2. CallsTell(e)
        BY <3>2, <4>1 DEF CallsTell, Standing
      <4> QED BY <2>4, <3>2, <4>1, <4>2, ClientStays
    <3> QED BY <2>5, <3>1, <3>2
  <2>7. CallsTell(e)'
    BY <2>6, TellsStay
  <2>8. ClientOK(h, e)'
    BY <2>6 DEF ClientOK, Told, EndsFinal, AnswerOf, Agents
  <2> QED BY <2>2, <2>3, <2>7, <2>8
<1> QED BY <1>1 DEF HInv

LEMMA DieHInv == ASSUME HInv, Die, UNCHANGED <<file, client>> PROVE HInv'
<1>1. PInv' /\ stages' = stages
  BY DieInv DEF HInv, Die
<1>2. ASSUME NEW s \in Requests
      PROVE  \/ req'[s] = req[s]
             \/ /\ req[s].pc # "done"
                /\ req'[s].pc \in {"dead", "thrown"} /\ req'[s].calls = req[s].calls
  <2>1. req[s] \in Request
    BY Now DEF HInv
  <2>2. PICK c : c = req[s]
    OBVIOUS
  <2>3. req'[s] = c \/ (c.pc # "done" /\ req'[s] = [c EXCEPT !.pc = "dead"])
    BY <2>2 DEF Die
  <2> QED BY <2>1, <2>2, <2>3 DEF Request
<1> QED BY <1>1, <1>2, Lost

LEMMA ThrowHInv ==
  ASSUME HInv, NEW r \in Requests, Throw(r), UNCHANGED <<file, client>>
  PROVE  HInv'
<1>1. PInv' /\ stages' = stages
  BY ThrowInv DEF HInv, Throw
<1>2. req[r] \in Request /\ req \in [Requests -> Request]
  BY Now DEF HInv, PInv, TypeOK
<1>3. PICK c : c = req[r]
  OBVIOUS
<1>4. req' = [req EXCEPT ![r] = [c EXCEPT !.pc = "thrown"]]
  BY <1>3 DEF Throw, Update
<1>5. c.pc # "done"
  BY <1>3 DEF Throw, NextExecutor
<1>6. ASSUME NEW s \in Requests
      PROVE  \/ req'[s] = req[s]
             \/ /\ req[s].pc # "done"
                /\ req'[s].pc \in {"dead", "thrown"} /\ req'[s].calls = req[s].calls
  <2>1. CASE s = r
    <3>1. req'[s] = [c EXCEPT !.pc = "thrown"]
      BY <1>2, <1>4, <2>1
    <3> QED BY <1>2, <1>3, <1>5, <2>1, <3>1 DEF Request
  <2>2. CASE s # r
    BY <1>2, <1>4, <2>2
  <2> QED BY <2>1, <2>2
<1> QED BY <1>1, <1>6, Lost

\* What is known of one client and its request.
LEMMA HNow ==
  ASSUME HInv, NEW r \in Requests
  PROVE  /\ client[r] \in Client /\ ClientOK(client[r], req[r]) /\ CallsTell(req[r])
         /\ req[r] \in Request /\ RequestOK(req[r]) /\ PInv
BY Now DEF HInv

LEMMA RefuseInv == ASSUME HInv, NEW r \in Requests, Refuse(r) PROVE HInv'
<1>1. PICK h : h = client[r]
  OBVIOUS
<1>2. h \in Client /\ ClientOK(h, req[r]) /\ h.kind = "none"
  BY <1>1, HNow DEF Refuse
<1>3. h.end = "none"
  BY <1>2 DEF ClientOK
<1>4. client \in [Requests -> Client] /\ UNCHANGED <<vars, file>>
  BY DEF HInv, Refuse
<1>5. ASSUME NEW k \in Client, client' = [client EXCEPT ![r] = k],
             k.kind \in {"invalid", "mistyped"}, k.end = h.end
      PROVE  HInv'
  <2>1. ClientOK(k, req[r])
    BY <1>3, <1>5 DEF ClientOK
  <2> QED BY <1>4, <1>5, <2>1, ServerMove
<1>6. PICK invalid, mistyped, bad, failed, text :
        /\ invalid = "invalid" /\ mistyped = "mistyped"
        /\ bad = 400 /\ failed = 500 /\ text = "error"
  OBVIOUS
<1>7. /\ invalid \in Kinds /\ mistyped \in Kinds
      /\ bad \in Codes /\ failed \in Codes /\ text \in Bodies
  BY <1>6 DEF Kinds, Codes, Bodies
<1>8. CASE client' = [client EXCEPT ![r].kind = invalid, ![r].status = bad, ![r].body = text]
  <2>1. PICK k : k = [h EXCEPT !.kind = invalid, !.status = bad, !.body = text]
    OBVIOUS
  <2>2. client' = [client EXCEPT ![r] = [h EXCEPT !.kind = invalid, !.status = bad, !.body = text]]
    BY <1>1, <1>4, <1>8
  <2>3. k \in Client /\ k.kind = invalid /\ k.end = h.end
    BY <1>2, <1>7, <2>1, ClientType
  <2> QED BY <1>5, <1>6, <2>1, <2>2, <2>3
<1>9. CASE client' = [client EXCEPT ![r].kind = mistyped, ![r].status = failed]
  <2>1. PICK k : k = [h EXCEPT !.kind = mistyped, !.status = failed]
    OBVIOUS
  <2>2. client' = [client EXCEPT ![r] = [h EXCEPT !.kind = mistyped, !.status = failed]]
    BY <1>1, <1>4, <1>9
  <2>3. k \in Client /\ k.kind = mistyped /\ k.end = h.end
    BY <1>2, <1>7, <2>1, ClientType
  <2> QED BY <1>5, <1>6, <2>1, <2>2, <2>3
<1> QED BY <1>6, <1>8, <1>9 DEF Refuse

\* A client that does not stream is answered.
LEMMA ReplyInv ==
  ASSUME HInv, NEW r \in Requests, UNCHANGED <<vars, file>>,
         NEW c, c = req[r], NEW h, h = client[r], h.kind = "plain",
         NEW code \in Codes, NEW text \in Bodies,
         client' = [client EXCEPT ![r].status = code, ![r].body = text],
         Told(code, text, c)
  PROVE  HInv'
<1>1. h \in Client /\ ClientOK(h, c)
  BY HNow
<1>2. client \in [Requests -> Client]
  BY DEF HInv
<1>3. PICK k : k = [h EXCEPT !.status = code, !.body = text]
  OBVIOUS
<1>4. client' = [client EXCEPT ![r] = [h EXCEPT !.status = code, !.body = text]]
  BY <1>2
<1>5. /\ k \in Client /\ k.kind = "plain" /\ k.end = h.end
      /\ k.status = code /\ k.body = text
  BY <1>1, <1>3, ClientType
<1>6. h.end = "none"
  BY <1>1 DEF ClientOK
<1>7. ClientOK(k, c)
  BY <1>5, <1>6 DEF ClientOK
<1> QED BY <1>3, <1>4, <1>5, <1>7, ServerMove

LEMMA RespondInv == ASSUME HInv, NEW r \in Requests, Respond(r) PROVE HInv'
<1>1. PICK h : h = client[r]
  OBVIOUS
<1>2. PICK c : c = req[r]
  OBVIOUS
<1>3. h.kind = "plain" /\ UNCHANGED <<vars, file>>
  BY <1>1 DEF Respond
<1>4. c \in Request /\ RequestOK(c) /\ c.pc = "done"
  BY <1>2, HNow DEF Respond
<1>5. c.response \in Bodies /\ 200 \in Codes /\ 500 \in Codes /\ "Pipeline failed" \in Bodies
  <2>1. c.response \in Bodies
    BY <1>4 DEF Request, Bodies
  <2>2. 200 \in Codes /\ 500 \in Codes /\ "Pipeline failed" \in Bodies
    BY DEF Codes, Bodies
  <2> QED BY <2>1, <2>2
<1>6. CASE c.ok
  <2>1. PICK code : code = 200
    OBVIOUS
  <2>2. PICK text : text = c.response
    OBVIOUS
  <2>3. client' = [client EXCEPT ![r].status = code, ![r].body = text]
    BY <1>2, <1>6, <2>1, <2>2 DEF Respond, Reply
  <2>4. code \in Codes /\ text \in Bodies
    BY <1>5, <2>1, <2>2
  <2>5. Told(code, text, c)
    BY <1>4, <1>6, <2>1, <2>2 DEF Told
  <2> QED BY <1>1, <1>2, <1>3, <2>3, <2>4, <2>5, ReplyInv
<1>7. CASE ~c.ok
  <2>1. PICK code : code = 500
    OBVIOUS
  <2>2. PICK text : text = IF c.response \in {"none", "empty"}
                           THEN "Pipeline failed" ELSE c.response
    OBVIOUS
  <2>3. client' = [client EXCEPT ![r].status = code, ![r].body = text]
    <3>1. ~req[r].ok
      BY <1>2, <1>7
    <3>2. client' = [client EXCEPT ![r].status = 500,
                                   ![r].body = IF req[r].response \in {"none", "empty"}
                                               THEN "Pipeline failed" ELSE req[r].response]
      BY <3>1, Zenon DEF Respond, Reply
    <3> QED BY <1>2, <2>1, <2>2, <3>2, Zenon
  <2>4. code \in Codes /\ text \in Bodies
    BY <1>5, <2>1, <2>2
  <2>5. c.response # "text"
    BY <1>4, <1>7 DEF RequestOK, Ended, Markers
  <2>6. text # "text"
    BY <2>2, <2>5
  <2>7. code # 200
    BY <2>1
  <2>8. Told(code, text, c)
    BY <2>6, <2>7 DEF Told
  <2> QED BY <1>1, <1>2, <1>3, <2>3, <2>4, <2>8, ReplyInv
<1> QED BY <1>6, <1>7

LEMMA ContainInv == ASSUME HInv, NEW r \in Requests, Contain(r) PROVE HInv'
<1>1. PICK h : h = client[r]
  OBVIOUS
<1>2. PICK c : c = req[r]
  OBVIOUS
<1>3. h.kind = "plain" /\ UNCHANGED <<vars, file>>
  BY <1>1 DEF Contain
<1>4. PICK code : code = 500
  OBVIOUS
<1>5. PICK text : text = "none"
  OBVIOUS
<1>6. client' = [client EXCEPT ![r].status = code, ![r].body = text]
  BY <1>4, <1>5 DEF Contain, Reply
<1>7. code \in Codes /\ text \in Bodies /\ Told(code, text, c)
  BY <1>4, <1>5 DEF Codes, Bodies, Responses, Told
<1> QED BY <1>1, <1>2, <1>3, <1>6, <1>7, ReplyInv

LEMMA EndStreamInv == ASSUME HInv, NEW r \in Requests, EndStream(r) PROVE HInv'
<1>1. PICK c : c = client[r]
  OBVIOUS
<1>2. /\ c \in Client /\ ClientOK(c, req[r]) /\ c.kind = "stream"
      /\ req[r].pc = "done" /\ UNCHANGED <<vars, file>>
  BY <1>1, HNow DEF EndStream
<1>3. PICK end \in IF c.lost THEN {"broken"} ELSE {"done", "broken"} :
        client' = [client EXCEPT ![r].end = end]
  BY <1>1 DEF EndStream
<1>4. PICK k : k = [c EXCEPT !.end = end]
  OBVIOUS
<1>5. client' = [client EXCEPT ![r] = k]
  BY <1>1, <1>3, <1>4 DEF HInv
<1>6. end \in Ends /\ (end = "done" => ~c.lost)
  BY <1>3 DEF Ends
<1>7. /\ k \in Client /\ k.kind = "stream" /\ k.end = end /\ k.lost = c.lost
      /\ k.events = c.events
  BY <1>2, <1>4, <1>6, ClientType
<1>8. ClientOK(k, req[r])
  BY <1>2, <1>6, <1>7 DEF ClientOK
<1> QED BY <1>2, <1>5, <1>7, <1>8, ServerMove

LEMMA AcceptInv == ASSUME HInv, NEW r \in Requests, Accept(r) PROVE HInv'
<1>1. PICK h : h = client[r]
  OBVIOUS
<1>2. PICK c : c = req[r]
  OBVIOUS
<1>3. /\ h \in Client /\ ClientOK(h, c) /\ h.kind = "none" /\ CallsTell(c)
      /\ c \in Request /\ RequestOK(c) /\ c.pc = "idle" /\ PInv
  BY <1>1, <1>2, HNow DEF Accept, Begin
<1>4. PInv' /\ UNCHANGED <<file, stages>>
  BY <1>3, BeginInv DEF Accept, Begin
<1>5. PICK d : d = [c EXCEPT !.pc = "resolve"]
  OBVIOUS
<1>6. req' = [req EXCEPT ![r] = d]
  BY <1>2, <1>5 DEF Accept, Begin, Update
<1>7. d = req'[r] /\ \A s \in Requests \ {r} : req'[s] = req[s]
  BY <1>3, <1>6 DEF PInv, TypeOK
<1>8. /\ d.pc = "resolve" /\ d.calls = c.calls /\ d.response = c.response
  BY <1>3, <1>5 DEF Request
<1>9. AnswerOf(d) = AnswerOf(c) /\ HasLast(d)
  BY <1>3, <1>8, SameTell DEF CallsTell
<1>10. CallsTell(d)
  BY <1>3, <1>8, <1>9 DEF CallsTell, Standing
<1>11. AnswerOf(d) = "none"
  BY <1>3, <1>9 DEF RequestOK, Resolving, CallsTell, Standing
<1>12. h.end = "none" /\ h.status = 0 /\ client \in [Requests -> Client]
  BY <1>3 DEF ClientOK, HInv
<1>13. PICK plain, stream, code : plain = "plain" /\ stream = "stream" /\ code = 200
  OBVIOUS
<1>14. plain \in Kinds /\ stream \in Kinds /\ code \in Codes
  BY <1>13 DEF Kinds, Codes
<1>15. CASE client' = [client EXCEPT ![r].kind = plain]
  <2>1. PICK k : k = [h EXCEPT !.kind = plain]
    OBVIOUS
  <2>2. client' = [client EXCEPT ![r] = [h EXCEPT !.kind = plain]]
    BY <1>1, <1>12, <1>15
  <2>3. k \in Client /\ k.kind = plain /\ k.end = h.end /\ k.status = h.status
    BY <1>3, <1>14, <2>1, ClientType
  <2>4. k.status # 200 /\ k.status # 500
    BY <1>12, <2>3
  <2>5. ClientOK(k, d)
    BY <1>12, <1>13, <2>3, <2>4 DEF ClientOK, Told
  <2> QED BY <1>4, <1>7, <1>10, <2>1, <2>2, <2>3, <2>5, HMove
<1>16. CASE client' = [client EXCEPT ![r].kind = stream, ![r].status = code]
  <2>1. PICK k : k = [h EXCEPT !.kind = stream, !.status = code]
    OBVIOUS
  <2>2. client' = [client EXCEPT ![r] = [h EXCEPT !.kind = stream, !.status = code]]
    BY <1>1, <1>12, <1>16
  <2>3. k \in Client /\ k.kind = stream /\ k.end = h.end
    BY <1>3, <1>14, <2>1, ClientType
  <2>4. ClientOK(k, d)
    BY <1>11, <1>12, <1>13, <2>3 DEF ClientOK
  <2> QED BY <1>4, <1>7, <1>10, <2>1, <2>2, <2>3, <2>4, HMove
<1> QED BY <1>13, <1>15, <1>16 DEF Accept

-----------------------------------------------------------------------------
(* The tokens *)

\* An answer that is a text is what was streamed last.
LEMMA StreamedEnds ==
  ASSUME NEW answer, NEW tokens \in Streamed(answer)
  PROVE  /\ tokens \in Seq(Tokens)
         /\ answer = "text" => EndsFinal(tokens)
<1>1. \A a, b \in Tokens : << >> \in Seq(Tokens) /\ <<a>> \in Seq(Tokens) /\ <<a, b>> \in Seq(Tokens)
  OBVIOUS
<1>2. "intermediate" \in Tokens /\ "partial" \in Tokens /\ "final" \in Tokens
  BY DEF Tokens
<1>3. CASE answer \in {"text", "bracketed"}
  <2>1. Streamed(answer) = {<<"final">>, <<"intermediate", "final">>}
    BY <1>3 DEF Streamed
  <2>2. tokens = <<"final">> \/ tokens = <<"intermediate", "final">>
    BY <2>1
  <2>3. tokens \in Seq(Tokens)
    BY <1>1, <1>2, <2>2
  <2>4. tokens # << >> /\ tokens[Len(tokens)] = "final"
    <3>1. CASE tokens = <<"final">>
      BY <3>1
    <3>2. CASE tokens = <<"intermediate", "final">>
      <4>1. Len(tokens) = 2 /\ tokens[2] = "final"
        BY <3>2
      <4> QED BY <4>1
    <3> QED BY <2>2, <3>1, <3>2
  <2> QED BY <2>3, <2>4 DEF EndsFinal
<1>4. CASE answer = "failed"
  <2>1. tokens \in {<< >>, <<"intermediate">>, <<"partial">>, <<"intermediate", "partial">>}
    BY <1>4 DEF Streamed
  <2> QED BY <1>1, <1>2, <1>4, <2>1
<1>5. CASE answer \notin {"text", "bracketed", "failed"}
  <2>1. tokens \in {<< >>, <<"intermediate">>}
    BY <1>5 DEF Streamed
  <2> QED BY <1>1, <1>2, <1>5, <2>1
<1> QED BY <1>3, <1>4, <1>5

\* Unless a write was lost, the client has all tokens.
LEMMA WrittenAll ==
  ASSUME NEW c \in Client, NEW tokens \in Seq(Tokens), NEW k \in Written(c, tokens)
  PROVE  /\ k \in Client /\ k.kind = c.kind /\ k.status = c.status /\ k.body = c.body
         /\ k.end = c.end
         /\ ~k.lost => ~c.lost /\ k.events = c.events \o tokens
<1>1. CASE c.lost
  BY <1>1 DEF Written
<1>2. CASE ~c.lost
  <2>1. PICK n \in 0 .. Len(tokens) :
          k = [c EXCEPT !.events = @ \o SubSeq(tokens, 1, n), !.lost = n < Len(tokens)]
    BY <1>2 DEF Written
  <2>2. PICK new : new = c.events \o SubSeq(tokens, 1, n)
    OBVIOUS
  <2>3. SubSeq(tokens, 1, n) \in Seq(Tokens) /\ c.events \in Seq(Tokens)
    <3>1. \A i \in 1 .. n : tokens[i] \in Tokens
      OBVIOUS
    <3>2. SubSeq(tokens, 1, n) \in Seq(Tokens)
      BY <3>1, SubSeqProperties
    <3> QED BY <3>2, ClientType
  <2>4. new \in Seq(Tokens)
    BY <2>2, <2>3
  <2>5. (n < Len(tokens)) \in BOOLEAN
    OBVIOUS
  <2>6. k = [c EXCEPT !.events = new, !.lost = n < Len(tokens)]
    BY <2>1, <2>2
  <2>7. /\ k \in Client /\ k.kind = c.kind /\ k.status = c.status /\ k.body = c.body
        /\ k.end = c.end /\ k.events = new /\ k.lost = (n < Len(tokens))
    BY <2>4, <2>5, <2>6, ClientType
  <2>8. n = Len(tokens) => SubSeq(tokens, 1, n) = tokens
    BY SubSeqFull
  <2>9. ASSUME ~k.lost
        PROVE  k.events = c.events \o tokens
    <3>1. ~(n < Len(tokens))
      BY <2>7, <2>9
    <3>2. n = Len(tokens)
      BY <3>1
    <3> QED BY <2>2, <2>7, <2>8, <3>2
  <2> QED BY <1>2, <2>7, <2>9
<1> QED BY <1>1, <1>2

LEMMA ConcatEnds ==
  ASSUME NEW s \in Seq(Tokens), NEW t \in Seq(Tokens), EndsFinal(t)
  PROVE  EndsFinal(s \o t)
<1>1. Len(t) \in Nat \ {0} /\ Len(s) \in Nat
  BY DEF EndsFinal
<1>2. Len(s \o t) = Len(s) + Len(t) /\ (s \o t)[Len(s) + Len(t)] = t[Len(t)]
  BY <1>1
<1> QED BY <1>1, <1>2 DEF EndsFinal

-----------------------------------------------------------------------------
(* run() goes on *)

LEMMA StepLocal ==
  ASSUME PInv, NEW r \in Requests, Step(r)
  PROVE  /\ PInv' /\ stages' = stages
         /\ \A s \in Requests \ {r} : req'[s] = req[s]
         /\ req'[r] \in Request
         /\ req[r].pc # "done"
<1>1. PInv'
  BY NextPInv DEF Next
<1>2. \E d : Update(r, d) /\ stages' = stages
  BY DEF Step, Resolve, Assign, Resolved, RunStage, Finish, HandleFailure,
         Skip, Abort, Retry, Fallback, Other
<1>3. req[r].pc # "done"
  BY DEF Step, Resolve, Assign, Resolved, RunStage, Finish, HandleFailure,
         Skip, Abort, Retry, Fallback, Other, Failed
<1>4. req'[r] \in Request
  BY <1>1 DEF PInv, TypeOK
<1>5. \A s \in Requests \ {r} : req'[s] = req[s]
  BY <1>2 DEF Update, PInv, TypeOK
<1> QED BY <1>1, <1>2, <1>3, <1>4, <1>5

LEMMA WorkInv == ASSUME HInv, NEW r \in Requests, Work(r) PROVE HInv'
<1>1. PICK h : h = client[r]
  OBVIOUS
<1>2. PICK c : c = req[r]
  OBVIOUS
<1>3. PICK d : d = req'[r]
  OBVIOUS
<1>4. /\ h \in Client /\ ClientOK(h, c) /\ CallsTell(c)
      /\ c \in Request /\ RequestOK(c) /\ PInv
  BY <1>1, <1>2, HNow
<1>5. /\ PInv' /\ UNCHANGED <<file, stages>>
      /\ \A s \in Requests \ {r} : req'[s] = req[s]
      /\ d \in Request /\ c.pc # "done"
  BY <1>2, <1>3, <1>4, StepLocal DEF Work
<1>6. Quiet(c, d) \/ Noisy(c, d)
  BY <1>2, <1>3, <1>4, StepMoves DEF Work
<1>7. CallsTell(d)
  BY <1>4, <1>5, <1>6, QuietTells, NoisyTells
<1>8. Len(c.calls) \in Nat /\ c.calls \in Seq(Call)
  BY <1>4 DEF Request
<1>9. CASE client[r].kind = "stream" /\ AgentCalled(r)
  <2>1. /\ Len(d.calls) > Len(c.calls)
        /\ d.calls[Len(d.calls)].executor = "llm_agent_loop"
    BY <1>2, <1>3, <1>9 DEF AgentCalled
  <2>2. PICK n : Calls(c, d, n)
    BY <1>6, <1>8, <2>1 DEF Quiet, Noisy
  <2>3. d.calls[Len(d.calls)] = n
    BY <1>8, <2>2 DEF Calls
  <2>4. AnswerOf(d) = n.response
    BY <1>4, <1>5, <2>1, <2>2, <2>3, AnswerAppended DEF CallsTell
  <2>5. PICK tokens \in Streamed(n.response) :
          \E k \in Written(h, tokens) : client' = [client EXCEPT ![r] = k]
    BY <1>1, <1>3, <1>9, <2>3 DEF Work
  <2>6. PICK k \in Written(h, tokens) : client' = [client EXCEPT ![r] = k]
    BY <2>5
  <2>7. /\ tokens \in Seq(Tokens)
        /\ n.response = "text" => EndsFinal(tokens)
    BY StreamedEnds
  <2>8. /\ k \in Client /\ k.kind = "stream" /\ k.end = h.end
        /\ ~k.lost => ~h.lost /\ k.events = h.events \o tokens
    BY <1>1, <1>4, <1>9, <2>7, WrittenAll
  <2>9. h.events \in Seq(Tokens) /\ h.kind = "stream"
    BY <1>1, <1>4, <1>9, ClientType
  <2>10. ~k.lost /\ AnswerOf(d) = "text" => EndsFinal(k.events)
    BY <2>4, <2>7, <2>8, <2>9, ConcatEnds
  <2>11. k.end # "done"
    BY <1>4, <1>5, <2>8, <2>9 DEF ClientOK
  <2>12. ClientOK(k, d)
    BY <2>8, <2>10, <2>11 DEF ClientOK
  <2> QED BY <1>3, <1>5, <1>7, <2>6, <2>8, <2>12, HMove
<1>10. CASE ~(client[r].kind = "stream" /\ AgentCalled(r))
  <2>1. client' = [client EXCEPT ![r] = h]
    BY <1>1, <1>10 DEF Work, HInv
  <2>2. h.kind = "stream" => AnswerOf(d) = AnswerOf(c)
    <3>1. SUFFICES ASSUME h.kind = "stream" PROVE AnswerOf(d) = AnswerOf(c)
      OBVIOUS
    <3>2. ~(/\ Len(d.calls) > Len(c.calls)
            /\ d.calls[Len(d.calls)].executor = "llm_agent_loop")
      BY <1>1, <1>2, <1>3, <1>10, <3>1 DEF AgentCalled
    <3>3. CASE Quiet(c, d)
      BY <3>3, SameTell DEF Quiet
    <3>4. CASE Noisy(c, d)
      <4>1. PICK n : Calls(c, d, n)
        BY <3>4 DEF Noisy
      <4>2. d.calls[Len(d.calls)] = n /\ Len(d.calls) > Len(c.calls)
        BY <1>8, <4>1 DEF Calls
      <4> QED BY <1>4, <1>5, <3>2, <4>1, <4>2, AnswerAppended DEF CallsTell
    <3> QED BY <1>6, <3>3, <3>4
  <2>3. ClientOK(h, d)
    BY <1>4, <1>5, <2>2 DEF ClientOK, Told
  <2> QED BY <1>3, <1>4, <1>5, <1>7, <2>1, <2>3, HMove
<1> QED BY <1>9, <1>10

-----------------------------------------------------------------------------
(* The theorems *)

LEMMA InitHInv == HInit => HInv
<1> SUFFICES ASSUME HInit PROVE HInv
  OBVIOUS
<1>1. PInv /\ file \in File(Stage)
  BY InitPInv DEF HInit
<1>2. Unseen \in Client
  <2>1. /\ "none" \in Kinds /\ 0 \in Codes /\ "none" \in Bodies /\ "none" \in Ends
        /\ << >> \in Seq(Tokens)
    BY DEF Kinds, Codes, Bodies, Ends, Responses
  <2> QED BY <2>1, ClientType DEF Unseen
<1>3. ASSUME NEW r \in Requests
      PROVE  CallsTell(req[r]) /\ ClientOK(client[r], req[r])
  <2>1. /\ req[r] = Idle /\ client[r] = Unseen
        /\ Idle.calls = << >> /\ Idle.pc = "idle" /\ Idle.response = "none"
    BY DEF HInit, Init, Idle
  <2>2. Agents(Idle) = {}
    BY <2>1 DEF Agents
  <2>3. CallsTell(Idle)
    BY <2>1, <2>2 DEF CallsTell, HasLast, AnswerOf, Standing
  <2>4. Unseen.kind = "none" /\ Unseen.status = 0 /\ Unseen.end = "none"
    BY DEF Unseen
  <2>5. ClientOK(Unseen, Idle)
    BY <2>4 DEF ClientOK
  <2> QED BY <2>1, <2>3, <2>5
<1>4. client \in [Requests -> Client]
  BY <1>2 DEF HInit
<1> QED BY <1>1, <1>3, <1>4 DEF HInv

LEMMA StutterHInv == ASSUME HInv, UNCHANGED hvars PROVE HInv'
<1>1. UNCHANGED <<vars, file, client>> /\ UNCHANGED <<stages, req>>
  BY DEF hvars, vars
<1>2. PInv'
  BY <1>1, StutterPInv DEF HInv
<1> QED BY <1>1, <1>2, Lost

LEMMA NextHInv == HInv /\ [HNext]_hvars => HInv'
<1> SUFFICES ASSUME HInv, [HNext]_hvars PROVE HInv'
  OBVIOUS
<1>1. CASE UNCHANGED hvars
  BY <1>1, StutterHInv
<1>2. ASSUME NEW r \in Requests,
             \/ Refuse(r) \/ Accept(r) \/ HStep(r)
             \/ (Throw(r) \/ AssignRace(r)) /\ UNCHANGED <<file, client>>
      PROVE  HInv'
  <2>1. CASE Refuse(r) \/ Accept(r)
    BY <2>1, RefuseInv, AcceptInv
  <2>2. CASE HStep(r)
    <3>1. CASE Terminate(r)
      BY <3>1, DieHInv DEF Terminate
    <3> QED BY <2>2, <3>1, WorkInv, RespondInv, EndStreamInv, ContainInv DEF HStep
  <2>3. CASE (Throw(r) \/ AssignRace(r)) /\ UNCHANGED <<file, client>>
    BY <2>3, ThrowHInv, DieHInv DEF AssignRace
  <2> QED BY <1>2, <2>1, <2>2, <2>3
<1> QED BY <1>1, <1>2 DEF HNext, HServed

LEMMA AlwaysHInv == HSpec => []HInv
BY InitHInv, NextHInv, PTL DEF HSpec

\* The variables keep their types: all that is written to a client is a status,
\* a body and tokens the handler can produce, whatever fails.
THEOREM HTypeCorrect == HSpec => []HTypeOK
<1>1. HInv => HTypeOK
  BY DEF HInv, PInv, HTypeOK
<1> QED BY <1>1, AlwaysHInv, PTL

\* What Pipeline promises alone it keeps with the server around it, where a
\* process may die with all its requests (http_server.cpp:46-128): the stages
\* run in order and only where all are known, success is earned, failure is told.
THEOREM ServedInOrder ==
  HSpec => [](/\ BadConfigRunsNothing
              /\ StagesInOrder
              /\ OkMeansEveryStage
              /\ FailureIsTold)
<1>1. PInv => BadConfigRunsNothing
  BY DEF PInv, RequestOK, CallsOK, AllKnown, Known, BadConfigRunsNothing
<1>2. PInv => StagesInOrder
  BY DEF PInv, RequestOK, CallsOK, StagesInOrder
<1>3. PInv => OkMeansEveryStage
  BY DEF PInv, RequestOK, Ended, Passed, OkMeansEveryStage
<1>4. PInv => FailureIsTold
  BY DEF PInv, RequestOK, Ended, Markers, FailureIsTold
<1>5. HInv => PInv
  BY DEF HInv
<1> QED BY <1>1, <1>2, <1>3, <1>4, <1>5, AlwaysHInv, PTL

\* A client that does not stream gets 200 exactly with the last answer of the
\* agent and only where every failure was made good or may be skipped; a 500
\* never holds an answer that was good.
THEOREM StatusIsTrue == HSpec => []StatusTellsTheResult
<1>1. HInv => StatusTellsTheResult
  <2> SUFFICES ASSUME HInv, NEW r \in Requests, client[r].kind = "plain"
               PROVE  /\ client[r].status = 200 =>
                           /\ client[r].body = LastAnswer(r)
                           /\ \A p \in 1 .. Len(req[r].calls) : Fine(req[r], p)
                      /\ client[r].status = 500 => client[r].body # "text"
    BY DEF StatusTellsTheResult, Fine
  <2>1. ClientOK(client[r], req[r]) /\ CallsTell(req[r])
    BY HNow
  <2>2. LastAnswer(r) = AnswerOf(req[r])
    BY DEF LastAnswer, AgentCalls, AnswerOf, Agents
  <2> QED BY <2>1, <2>2 DEF ClientOK, Told, CallsTell, Standing
<1> QED BY <1>1, AlwaysHInv, PTL

\* A stream that ends with [DONE] ends, before it, with the text of the last
\* answer, whatever was streamed by earlier attempts and whichever writes fail.
THEOREM StreamIsWhole == HSpec => []StreamCarriesAnswer
<1>1. HInv => StreamCarriesAnswer
  <2> SUFFICES ASSUME HInv, NEW r \in Requests, client[r].end = "done",
                      LastAnswer(r) = "text"
               PROVE  EndsFinal(client[r].events)
    BY DEF StreamCarriesAnswer, EndsFinal
  <2>1. ClientOK(client[r], req[r])
    BY HNow
  <2>2. LastAnswer(r) = AnswerOf(req[r])
    BY DEF LastAnswer, AgentCalls, AnswerOf, Agents
  <2> QED BY <2>1, <2>2 DEF ClientOK
<1> QED BY <1>1, AlwaysHInv, PTL

-----------------------------------------------------------------------------
(* Config::load *)

Node == [stage : Stage, good : BOOLEAN]

Loading == [set : SUBSET Range(Keys), stages : Seq(Stage), thrown : BOOLEAN]

KeysOnly == [set : SUBSET Range(Keys), stages : {<< >>}, thrown : BOOLEAN]

KeysRead(cfg, f) == FoldLeft(LAMBDA c, key : ReadKey(c, f, key), cfg, Keys)

StagesRead(cfg, nodes) == FoldLeft(ReadStage, cfg, nodes)

\* Reading the keys leaves the stages alone.
LEMMA KeysReadIs ==
  ASSUME NEW f \in File(Stage), NEW cfg \in KeysOnly
  PROVE  KeysRead(cfg, f) \in KeysOnly
<1> DEFINE K == Range(Keys)
           H == [x \in K |-> [c \in KeysOnly |-> ReadKey(c, f, x)]]
<1>1. Keys \in Seq(K)
  BY DEF Keys, Range
<1>2. H \in [K -> [KeysOnly -> KeysOnly]]
  <2>1. ASSUME NEW x \in K, NEW c \in KeysOnly
        PROVE  ReadKey(c, f, x) \in KeysOnly
    <3>1. /\ c.set \in SUBSET K /\ c.stages = << >> /\ c.thrown \in BOOLEAN
          /\ c = [set |-> c.set, stages |-> c.stages, thrown |-> c.thrown]
      BY DEF KeysOnly
    <3>2. f.keys[x] \in {"absent", "good", "bad"}
      BY DEF File
    <3>3. CASE c.thrown \/ f.keys[x] = "absent"
      <4>1. ReadKey(c, f, x) = c
        BY <3>3, Zenon DEF ReadKey
      <4> QED BY <4>1
    <3>4. CASE ~c.thrown /\ f.keys[x] = "good"
      <4>1. ReadKey(c, f, x) = [c EXCEPT !.set = @ \cup {x}]
        BY <3>4 DEF ReadKey
      <4> QED BY <3>1, <4>1 DEF KeysOnly
    <3>5. CASE ~c.thrown /\ f.keys[x] = "bad"
      <4>1. ReadKey(c, f, x) = [c EXCEPT !.thrown = TRUE]
        BY <3>5 DEF ReadKey
      <4> QED BY <3>1, <4>1 DEF KeysOnly
    <3> QED BY <3>2, <3>3, <3>4, <3>5
  <2> QED BY <2>1
<1> DEFINE Eq(h) ==
      h = [s \in SUBSET (DOMAIN Keys) |->
             IF s = {} THEN cfg ELSE ReadKey(h[s \ {Max(s)}], f, Keys[Max(s)])]
<1>3. PICK e \in [SUBSET (DOMAIN Keys) -> KeysOnly] : FoldOver(KeysOnly, e, Keys, cfg, H)
  <2> HIDE DEF H, K
  <2> QED BY <1>1, <1>2, FoldForExists
<1>4. ASSUME NEW s \in SUBSET (DOMAIN Keys), s # {}
      PROVE  Max(s) \in DOMAIN Keys /\ Keys[Max(s)] \in K
  <2>1. Max(s) \in DOMAIN Keys
    BY <1>3, <1>4 DEF FoldOver
  <2> HIDE DEF K
  <2> QED BY <1>1, <2>1
<1>5. Eq(e)
  <2>1. ASSUME NEW s \in SUBSET (DOMAIN Keys), s # {}
        PROVE  e[s] = ReadKey(e[s \ {Max(s)}], f, Keys[Max(s)])
    <3>1. e[s \ {Max(s)}] \in KeysOnly /\ e[s] = H[Keys[Max(s)]][e[s \ {Max(s)}]]
      BY <1>3, <2>1 DEF FoldOver
    <3>2. Keys[Max(s)] \in K
      BY <1>4, <2>1
    <3> HIDE DEF K
    <3> QED BY <3>1, <3>2
  <2>2. e[{}] = cfg
    BY <1>3 DEF FoldOver
  <2> QED BY <2>1, <2>2
<1>6. Eq(CHOOSE h : Eq(h))
  <2> HIDE DEF Eq
  <2> QED BY <1>5, Zenon
<1>7. KeysRead(cfg, f) = (CHOOSE h : Eq(h))[DOMAIN Keys]
  BY DEF KeysRead, FoldLeft, MapThenFoldSet
<1> DEFINE g == CHOOSE h : Eq(h)
<1>8. FoldsFor(KeysOnly, g, Keys, cfg, H)
  <2> HIDE DEF g
  <2>1. Eq(g)
    BY <1>6 DEF g
  <2>2. g[{}] = cfg
    BY <2>1
  <2>3. ASSUME NEW s \in SUBSET (DOMAIN Keys), s # {}, g[s \ {Max(s)}] \in KeysOnly
        PROVE  g[s] = H[Keys[Max(s)]][g[s \ {Max(s)}]]
    <3>1. g[s] = ReadKey(g[s \ {Max(s)}], f, Keys[Max(s)])
      BY <2>1, <2>3
    <3>2. Keys[Max(s)] \in K
      BY <1>4, <2>3
    <3> HIDE DEF K
    <3> QED BY <3>1, <3>2, <2>3
  <2> HIDE DEF H
  <2> QED BY <2>2, <2>3 DEF FoldsFor
<1> HIDE DEF H, g, K
<1>9. g[DOMAIN Keys] \in KeysOnly
  <2>1. PICK acc \in [0 .. Len(Keys) -> KeysOnly] : RunsOver(acc, g, Keys, cfg, H)
    BY <1>1, <1>2, <1>8, FoldForRuns
  <2>2. Len(Keys) \in 0 .. Len(Keys)
    BY <1>1
  <2> QED BY <2>1, <2>2 DEF RunsOver
<1> QED BY <1>7, <1>9 DEF g
\* What is read of the first m nodes: all their stages, or an exception.
ReadTo(c, nodes, m) ==
  c.thrown \/ /\ \A i \in 1 .. m : nodes[i].good
              /\ c.stages = [i \in 1 .. m |-> nodes[i].stage]

LEMMA ReadStageMoves ==
  ASSUME NEW c \in Loading, NEW x \in Node
  PROVE  /\ ReadStage(c, x) \in Loading
         /\ c.thrown => ReadStage(c, x).thrown
         /\ ~c.thrown => /\ ~x.good => ReadStage(c, x).thrown
                         /\ x.good => ReadStage(c, x).stages = Append(c.stages, x.stage)
<1>1. /\ c.set \in SUBSET Range(Keys) /\ c.stages \in Seq(Stage) /\ c.thrown \in BOOLEAN
      /\ c = [set |-> c.set, stages |-> c.stages, thrown |-> c.thrown]
  BY DEF Loading
<1>2. x.stage \in Stage /\ x.good \in BOOLEAN
  BY DEF Node
<1>3. CASE c.thrown
  <2>1. ReadStage(c, x) = c
    BY <1>3, Zenon DEF ReadStage
  <2> QED BY <1>3, <2>1
<1>4. CASE ~c.thrown /\ x.good
  <2>1. ReadStage(c, x) = [c EXCEPT !.stages = Append(@, x.stage)]
    BY <1>4 DEF ReadStage
  <2>2. Append(c.stages, x.stage) \in Seq(Stage)
    BY <1>1, <1>2, AppendProperties
  <2> QED BY <1>1, <1>4, <2>1, <2>2 DEF Loading
<1>5. CASE ~c.thrown /\ ~x.good
  <2>1. ReadStage(c, x) = [c EXCEPT !.thrown = TRUE]
    BY <1>5 DEF ReadStage
  <2> QED BY <1>1, <1>5, <2>1 DEF Loading
<1> QED BY <1>1, <1>2, <1>3, <1>4, <1>5

LEMMA StagesReadAre ==
  ASSUME NEW cfg \in KeysOnly, NEW nodes \in Seq(Node)
  PROVE  /\ StagesRead(cfg, nodes) \in Loading
         /\ ReadTo(StagesRead(cfg, nodes), nodes, Len(nodes))
<1> DEFINE H == [x \in Node |-> [c \in Loading |-> ReadStage(c, x)]]
           n == Len(nodes)
<1>1. cfg \in Loading /\ cfg.stages = << >>
  <2>1. /\ cfg.set \in SUBSET Range(Keys) /\ cfg.stages = << >> /\ cfg.thrown \in BOOLEAN
        /\ cfg = [set |-> cfg.set, stages |-> cfg.stages, thrown |-> cfg.thrown]
    BY DEF KeysOnly
  <2>2. cfg.stages \in Seq(Stage)
    BY <2>1
  <2> QED BY <2>1, <2>2 DEF Loading
<1>2. H \in [Node -> [Loading -> Loading]]
  BY ReadStageMoves
<1> DEFINE Eq(h) ==
      h = [s \in SUBSET (DOMAIN nodes) |->
             IF s = {} THEN cfg ELSE ReadStage(h[s \ {Max(s)}], nodes[Max(s)])]
<1>3. PICK e \in [SUBSET (DOMAIN nodes) -> Loading] : FoldOver(Loading, e, nodes, cfg, H)
  <2> HIDE DEF H
  <2> QED BY <1>1, <1>2, FoldForExists
<1>4. ASSUME NEW s \in SUBSET (DOMAIN nodes), s # {}
      PROVE  nodes[Max(s)] \in Node
  <2>1. Max(s) \in DOMAIN nodes
    BY <1>3, <1>4 DEF FoldOver
  <2> QED BY <2>1
<1>5. Eq(e)
  <2>1. ASSUME NEW s \in SUBSET (DOMAIN nodes), s # {}
        PROVE  e[s] = ReadStage(e[s \ {Max(s)}], nodes[Max(s)])
    <3>1. e[s \ {Max(s)}] \in Loading /\ e[s] = H[nodes[Max(s)]][e[s \ {Max(s)}]]
      BY <1>3, <2>1 DEF FoldOver
    <3>2. nodes[Max(s)] \in Node
      BY <1>4, <2>1
    <3> QED BY <3>1, <3>2
  <2>2. e[{}] = cfg
    BY <1>3 DEF FoldOver
  <2> QED BY <2>1, <2>2
<1>6. Eq(CHOOSE h : Eq(h))
  <2> HIDE DEF Eq
  <2> QED BY <1>5, Zenon
<1>7. StagesRead(cfg, nodes) = (CHOOSE h : Eq(h))[DOMAIN nodes]
  BY DEF StagesRead, FoldLeft, MapThenFoldSet
<1> DEFINE g == CHOOSE h : Eq(h)
<1>8. FoldsFor(Loading, g, nodes, cfg, H)
  <2> HIDE DEF g
  <2>1. Eq(g)
    BY <1>6 DEF g
  <2>2. g[{}] = cfg
    BY <2>1
  <2>3. ASSUME NEW s \in SUBSET (DOMAIN nodes), s # {}, g[s \ {Max(s)}] \in Loading
        PROVE  g[s] = H[nodes[Max(s)]][g[s \ {Max(s)}]]
    <3>1. g[s] = ReadStage(g[s \ {Max(s)}], nodes[Max(s)])
      BY <2>1, <2>3
    <3>2. nodes[Max(s)] \in Node
      BY <1>4, <2>3
    <3> QED BY <3>1, <3>2, <2>3
  <2> HIDE DEF H
  <2> QED BY <2>2, <2>3 DEF FoldsFor
<1> HIDE DEF g
<1>9. PICK acc \in [0 .. n -> Loading] :
        /\ acc[0] = cfg
        /\ \A m \in 1 .. n : acc[m] = H[nodes[m]][acc[m - 1]]
        /\ acc[n] = g[DOMAIN nodes]
  <2> HIDE DEF H
  <2>1. \E acc \in [0 .. Len(nodes) -> Loading] : RunsOver(acc, g, nodes, cfg, H)
    BY <1>1, <1>2, <1>8, FoldForRuns
  <2> QED BY <2>1 DEF RunsOver
<1>10. n \in Nat /\ DOMAIN nodes = 1 .. n /\ \A m \in 1 .. n : nodes[m] \in Node
  OBVIOUS
<1> HIDE DEF n
<1>11. ASSUME NEW m \in 0 .. n - 1
       PROVE  /\ acc[m + 1] = ReadStage(acc[m], nodes[m + 1])
              /\ acc[m] \in Loading /\ m + 1 \in 1 .. n /\ nodes[m + 1] \in Node
              /\ m \in Nat
  <2>1. m + 1 \in 1 .. n /\ (m + 1) - 1 = m /\ m \in 0 .. n /\ m \in Nat
    BY <1>10
  <2>2. acc[m + 1] = H[nodes[m + 1]][acc[(m + 1) - 1]]
    BY <1>9, <2>1
  <2>3. acc[m] \in Loading /\ nodes[m + 1] \in Node
    BY <1>10, <2>1
  <2> QED BY <2>1, <2>2, <2>3
<1> HIDE DEF H
<1> DEFINE S == {m \in 0 .. n : ReadTo(acc[m], nodes, m)}
<1>12. 0 \in S
  <2>1. [i \in 1 .. 0 |-> nodes[i].stage] = << >>
    OBVIOUS
  <2>2. ReadTo(acc[0], nodes, 0)
    BY <1>1, <1>9, <2>1 DEF ReadTo
  <2> QED BY <1>10, <2>2
<1>13. ASSUME NEW m \in 0 .. n - 1, m \in S
       PROVE  m + 1 \in S
  <2> DEFINE c == acc[m]
             d == acc[m + 1]
             x == nodes[m + 1]
  <2>1. d = ReadStage(c, x) /\ c \in Loading /\ x \in Node /\ m + 1 \in 1 .. n /\ m \in Nat
    BY <1>11
  <2>2. ReadTo(c, nodes, m)
    BY <1>13
  <2> HIDE DEF c, d
  <2>3. /\ c.thrown => d.thrown
        /\ ~c.thrown => /\ ~x.good => d.thrown
                        /\ x.good => d.stages = Append(c.stages, x.stage)
    <3> HIDE DEF x
    <3> QED BY <2>1, ReadStageMoves
  <2>4. ReadTo(d, nodes, m + 1)
    <3>1. CASE d.thrown
      BY <3>1 DEF ReadTo
    <3>2. CASE ~d.thrown
      <4>1. ~c.thrown /\ x.good /\ d.stages = Append(c.stages, x.stage)
        BY <2>3, <3>2
      <4>2. /\ \A i \in 1 .. m : nodes[i].good
            /\ c.stages = [i \in 1 .. m |-> nodes[i].stage]
        BY <2>2, <4>1 DEF ReadTo
      <4>3. \A i \in 1 .. m + 1 : i \in 1 .. m \/ i = m + 1
        BY <2>1
      <4>4. \A i \in 1 .. m + 1 : nodes[i].good
        BY <4>1, <4>2, <4>3
      <4>5. Append(c.stages, x.stage) = [i \in 1 .. m + 1 |-> nodes[i].stage]
        <5>1. \A i \in 1 .. m : nodes[i].stage \in Stage /\ i \in 1 .. n
          <6>1. \A i \in 1 .. m : i \in 1 .. n
            BY <1>10, <2>1
          <6> QED BY <1>10, <6>1 DEF Node
        <5>2. c.stages \in Seq(Stage) /\ Len(c.stages) = m
          BY <2>1, <4>2, <5>1
        <5>3. Append(c.stages, x.stage) = [i \in 1 .. m + 1 |->
                                             IF i = m + 1 THEN x.stage ELSE c.stages[i]]
          BY <2>1, <5>2
        <5>4. \A i \in 1 .. m + 1 :
                (IF i = m + 1 THEN x.stage ELSE c.stages[i]) = nodes[i].stage
          BY <4>2, <4>3
        <5> QED BY <5>3, <5>4
      <4> QED BY <4>1, <4>4, <4>5 DEF ReadTo
    <3> QED BY <3>1, <3>2
  <2>5. m + 1 \in 0 .. n
    BY <2>1
  <2> QED BY <2>4, <2>5 DEF d
<1> HIDE DEF S
<1>14. n \in S
  <2>1. \A m \in 0 .. n : m \in S
    BY <1>10, <1>12, <1>13, InductionUpTo
  <2>2. n \in 0 .. n
    BY <1>10
  <2> QED BY <2>1, <2>2
<1>15. StagesRead(cfg, nodes) = acc[n] /\ n \in 0 .. n
  BY <1>7, <1>9, <1>10 DEF g
<1> QED BY <1>14, <1>15 DEF S, n

\* Config::load returns all stages of the file or all default ones.
Whole(list, f) ==
  \/ list = DefaultStages
  \/ /\ \A i \in DOMAIN f.stages : f.stages[i].good
     /\ list = [i \in DOMAIN f.stages |-> f.stages[i].stage]

LEMMA LoadIsWhole ==
  ASSUME NEW f \in File(Stage)
  PROVE  Whole(Load(f).stages, f)
<1> DEFINE start == [Defaults EXCEPT !.thrown = ~f.yaml]
           read == StagesRead(KeysRead(start, f), f.stages)
           cfg == IF f.exists THEN read ELSE Defaults
<1>1. f.exists \in BOOLEAN /\ f.yaml \in BOOLEAN /\ f.stages \in Seq(Node)
  BY DEF File, Node
<1>2. start \in KeysOnly
  <2>1. Defaults \in KeysOnly
    BY DEF Defaults, KeysOnly
  <2>2. \A c \in KeysOnly, b \in BOOLEAN : [c EXCEPT !.thrown = b] \in KeysOnly
    BY DEF KeysOnly
  <2>3. (~f.yaml) \in BOOLEAN
    OBVIOUS
  <2> QED BY <2>1, <2>2, <2>3
<1>3. Load(f) = Completed(cfg)
  BY DEF Load, StagesRead, KeysRead
<1> HIDE DEF start
<1>4. read \in Loading /\ ReadTo(read, f.stages, Len(f.stages))
  <2>1. KeysRead(start, f) \in KeysOnly
    BY <1>2, KeysReadIs
  <2> QED BY <1>1, <2>1, StagesReadAre
<1>5. Defaults \in Loading /\ Defaults.stages = << >>
  BY DEF Loading, Defaults
<1> HIDE DEF read
<1>6. cfg \in Loading /\ (f.exists => cfg = read) /\ (~f.exists => cfg = Defaults)
  BY <1>1, <1>4, <1>5
<1> HIDE DEF cfg
<1>7. CASE cfg.thrown \/ cfg.stages = << >>
  <2>1. Completed(cfg) = [cfg EXCEPT !.stages = DefaultStages]
    BY <1>7 DEF Completed
  <2>2. Completed(cfg).stages = DefaultStages
    BY <1>6, <2>1 DEF Loading
  <2> QED BY <1>3, <2>2 DEF Whole
<1>8. CASE ~cfg.thrown /\ cfg.stages # << >>
  <2>1. Completed(cfg) = cfg
    BY <1>8 DEF Completed
  <2>2. cfg = read
    BY <1>1, <1>5, <1>6, <1>8
  <2>3. /\ \A i \in 1 .. Len(f.stages) : f.stages[i].good
        /\ cfg.stages = [i \in 1 .. Len(f.stages) |-> f.stages[i].stage]
    BY <1>4, <1>8, <2>2 DEF ReadTo
  <2>4. DOMAIN f.stages = 1 .. Len(f.stages)
    BY <1>1
  <2> QED BY <1>3, <2>1, <2>3, <2>4 DEF Whole
<1> QED BY <1>7, <1>8

\* Nothing but Config::load ever decides about the stages.
FileDecides == file \in Files /\ stages = Load(file).stages

LEMMA FileStays ==
  ASSUME FileDecides, [HNext]_hvars
  PROVE  FileDecides'
<1>1. UNCHANGED <<file, stages>>
  <2>1. CASE UNCHANGED hvars
    BY <2>1 DEF hvars, vars
  <2>2. ASSUME NEW r \in Requests,
               \/ Refuse(r) \/ Accept(r) \/ HStep(r)
               \/ (Throw(r) \/ AssignRace(r)) /\ UNCHANGED <<file, client>>
        PROVE  UNCHANGED <<file, stages>>
    <3>1. CASE Refuse(r) \/ Accept(r) \/ Respond(r) \/ EndStream(r) \/ Contain(r)
      BY <3>1 DEF Refuse, Accept, Begin, Respond, EndStream, Contain, vars
    <3>2. CASE Terminate(r) \/ ((Throw(r) \/ AssignRace(r)) /\ UNCHANGED <<file, client>>)
      BY <3>2 DEF Terminate, Die, Throw, AssignRace
    <3>3. CASE Work(r)
      <4>1. file' = file /\ Step(r)
        BY <3>3 DEF Work
      <4>2. stages' = stages
        BY <4>1 DEF Step, Resolve, Assign, Resolved, RunStage, Finish, HandleFailure,
                    Skip, Abort, Retry, Fallback, Other
      <4> QED BY <4>1, <4>2
    <3> QED BY <2>2, <3>1, <3>2, <3>3 DEF HStep
  <2> QED BY <2>1, <2>2 DEF HNext, HServed
<1>2. Load(file)' = Load(file)
  BY <1>1
<1> QED BY <1>1, <1>2 DEF FileDecides

\* The stages in use are all those of the configuration file or all the default ones:
\* whatever key or stage of it cannot be converted, never the first part of a list.
THEOREM StagesComeWhole == HSpec => []StagesAreWhole
<1>1. HInit => FileDecides
  BY DEF HInit, FileDecides
<1>2. FileDecides => StagesAreWhole
  <2> SUFFICES ASSUME FileDecides
               PROVE  StagesAreWhole
    OBVIOUS
  <2>1. file \in File(Stage) /\ stages = Load(file).stages
    BY HttpServerAssumption DEF FileDecides
  <2>2. Whole(stages, file)
    BY <2>1, LoadIsWhole
  <2> QED BY <2>2 DEF Whole, StagesAreWhole
<1> QED BY <1>1, <1>2, FileStays, PTL DEF HSpec

=============================================================================
