----------------------------- MODULE AgentProofs -----------------------------
(***************************************************************************)
(* Proofs about Agent, for any number of threads, runs, restarts,          *)
(* iterations and tool calls, with and without failing INSERTs: the type   *)
(* invariant; that the rows of a run are stored in program order; and that *)
(* Agent implements Conversation.  The fairness of Conversation is left to *)
(* TLC.                                                                    *)
(***************************************************************************)
EXTENDS Agent, SequenceTheorems, TLAPS

Appends == {"push", "pushing", "persist"}

\* The message a thread is about to append is one its place in run() produces.
PendOK(s) ==
  /\ s.pend.run = s.run
  /\ \/ s.pend.role = "user" /\ s.pend.iter = 0 /\ s.pend.k = 0 /\ s.iter = 0
     \/ /\ s.pend.role = "assistant" /\ s.pend.calls = 0
        /\ s.pend.iter = s.iter + 1 /\ s.pend.k = 0
     \/ /\ s.pend.role = "assistant" /\ s.pend.calls > 0 /\ s.calls = s.pend.calls
        /\ s.pend.iter = s.iter + 1 /\ s.pend.k = 0
        /\ s.iter < MaxIterations
     \/ /\ s.pend.role = "tool" /\ s.pend.iter = s.iter + 1 /\ s.pend.k = s.k
        /\ s.iter < MaxIterations /\ s.k \in 1 .. s.calls

\* The local variables of run() agree with the place it has reached.
LocalOK(s, next) ==
  /\ s.pc # "idle" => s.run \in 1 .. next - 1
  /\ s.pc \in Appends => PendOK(s)
  /\ s.pc \in {"reply", "tool"} => s.iter < MaxIterations
  /\ s.pc = "tool" => s.k \in 1 .. s.calls

ThreadsOK == \A t \in Threads : LocalOK(th[t], nextRun)

TInv == TypeOK /\ ThreadsOK

\* No two threads execute the same run.
RunsDistinct ==
  \A t, u \in Threads :
    t # u /\ th[t].pc # "idle" /\ th[u].pc # "idle" => th[t].run # th[u].run

\* Every row belongs to a run that was started.
RowsStarted == \A p \in 1 .. Len(db) : db[p].run < nextRun

\* The place of the next row of the run that s executes.
NextRow(s) ==
  IF s.pc \in Appends THEN [iter |-> s.pend.iter, k |-> s.pend.k]
  ELSE [iter |-> s.iter + 1, k |-> IF s.pc = "tool" THEN s.k ELSE 0]

\* All rows of the run of s come before its next row.
Behind(s, rows) ==
  s.pc \notin {"idle", "throwing"} =>
    \A p \in 1 .. Len(rows) : rows[p].run = s.run => Before(rows[p], NextRow(s))

AllBehind == \A t \in Threads : Behind(th[t], db)

IInv == TInv /\ RunsDistinct /\ RowsStarted /\ AllBehind /\ ProgramOrder

-----------------------------------------------------------------------------
(* Types *)

USE AgentAssumption

\* Msg makes a message.
LEMMA MsgType ==
  ASSUME NEW role \in {"system", "user", "assistant", "tool"},
         NEW r \in 0 .. MaxRuns, NEW i \in 0 .. MaxIterations + 1,
         NEW k \in 0 .. MaxCalls, NEW n \in 0 .. MaxCalls, NEW u \in BOOLEAN
  PROVE  Msg(role, r, i, k, n, u) \in Message
BY DEF Msg, Message

\* The values of a thread outside run().
LEMMA IdleType == Idle \in Thread /\ SystemMsg \in Message
BY DEF Idle, Thread, SystemMsg, Msg, Message, Outcomes

\* Assigning a value of its type to a field.
LEMMA Assign ==
  ASSUME NEW s \in Thread
  PROVE  /\ \A x \in {"idle", "push", "pushing", "persist", "loop", "reply",
                      "tool", "throwing"} : [s EXCEPT !.pc = x] \in Thread
         /\ \A x \in 0 .. MaxRuns : [s EXCEPT !.run = x] \in Thread
         /\ \A x \in 0 .. MaxIterations : [s EXCEPT !.iter = x] \in Thread
         /\ \A x \in 0 .. MaxCalls : /\ [s EXCEPT !.calls = x] \in Thread
                                    /\ [s EXCEPT !.k = x] \in Thread
         /\ \A x \in Message : [s EXCEPT !.pend = x] \in Thread
         /\ \A x \in Nat : [s EXCEPT !.slot = x] \in Thread
         /\ \A x \in Outcomes : [s EXCEPT !.result = x] \in Thread
         /\ \A x \in BOOLEAN : [s EXCEPT !.cancel = x] \in Thread
BY DEF Thread

\* get_recent returns messages.
LEMMA GetRecentType ==
  ASSUME db \in Seq(Message), NEW n \in Nat
  PROVE  GetRecent(n) \in Seq(Message)
<1> DEFINE from == IF Len(db) > n THEN Len(db) - n + 1 ELSE 1
<1>1. from \in Int /\ from >= 1 /\ Len(db) \in Int
  OBVIOUS
<1>2. \A i \in from .. Len(db) : db[i] \in Message
  BY <1>1
<1>3. SubSeq(db, from, Len(db)) \in Seq(Message)
  BY <1>1, <1>2, SubSeqProperties
<1> QED
  BY <1>3 DEF GetRecent

\* The initial states are well typed.
LEMMA InitTInv == Init => TInv
<1> SUFFICES ASSUME Init PROVE TInv
  OBVIOUS
<1>1. TypeOK
  <2>1. outcome \in [Runs -> Outcomes]
    BY DEF Init, Outcomes
  <2>2. th \in [Threads -> Thread]
    BY IdleType DEF Init
  <2>3. messages \in Seq(Message) /\ db \in Seq(Message)
    BY DEF Init
  <2>4. up \in BOOLEAN
    BY DEF Init
  <2>5. boots \in 0 .. MaxBoots /\ nextRun \in 1 .. MaxRuns + 1
    BY DEF Init
  <2> QED
    BY <2>1, <2>2, <2>3, <2>4, <2>5 DEF TypeOK
<1>2. ThreadsOK
  BY DEF Init, ThreadsOK, LocalOK, Idle, Appends
<1> QED
  BY <1>1, <1>2 DEF TInv

\* A step that changes one thread, to a record of the right type that agrees
\* with its place.
LEMMA OneThread ==
  ASSUME TInv, NEW t \in Threads, NEW s \in Thread,
         th' = [th EXCEPT ![t] = s],
         LocalOK(s, nextRun'),
         nextRun' \in Int, nextRun' >= nextRun
  PROVE  th' \in [Threads -> Thread] /\ ThreadsOK'
<1>1. th' \in [Threads -> Thread]
  BY DEF TInv, TypeOK
<1>2. ASSUME NEW u \in Threads PROVE LocalOK(th'[u], nextRun')
  <2>1. CASE u = t
    BY <2>1 DEF TInv, TypeOK
  <2>2. CASE u # t
    <3>1. th'[u] = th[u] /\ th[u] \in Thread
      BY <2>2 DEF TInv, TypeOK
    <3>2. LocalOK(th[u], nextRun)
      BY DEF TInv, ThreadsOK
    <3>3. nextRun \in Int /\ th[u].run \in Int
      BY <3>1 DEF Thread, TInv, TypeOK
    <3> QED
      BY <3>1, <3>2, <3>3 DEF LocalOK
  <2> QED
    BY <2>1, <2>2
<1> QED
  BY <1>1, <1>2 DEF ThreadsOK

\* A start of the process, with what it loads.
LEMMA BootTInv == TInv /\ Boot => TInv'
<1> SUFFICES ASSUME TInv, Boot PROVE TInv'
  OBVIOUS
<1>1. messages' \in Seq(Message)
  <2>1. GetRecent(HistoryLimit) \in Seq(Message)
    BY GetRecentType DEF TInv, TypeOK
  <2>2. <<SystemMsg>> \in Seq(Message) /\ << >> \in Seq(Message)
    BY IdleType
  <2> QED
    BY <2>1, <2>2, ConcatProperties DEF Boot
<1>2. boots' \in 0 .. MaxBoots
  BY DEF Boot, TInv, TypeOK
<1>3. up' \in BOOLEAN
  BY DEF Boot
<1>4. ThreadsOK'
  BY DEF Boot, TInv, ThreadsOK, LocalOK
<1> QED
  BY <1>1, <1>2, <1>3, <1>4 DEF Boot, TInv, TypeOK

\* A crash: every thread is outside run() again.
LEMMA CrashTInv == TInv /\ Crash => TInv'
<1> SUFFICES ASSUME TInv, Crash PROVE TInv'
  OBVIOUS
<1>1. th' \in [Threads -> Thread]
  BY IdleType DEF Crash
<1>2. ThreadsOK'
  BY DEF Crash, ThreadsOK, LocalOK, Idle, Appends
<1>3. up' \in BOOLEAN
  BY DEF Crash
<1>4. messages' \in Seq(Message)
  BY DEF Crash
<1> QED
  BY <1>1, <1>2, <1>3, <1>4 DEF Crash, TInv, TypeOK

\* The start of a run().
LEMMA RunTInv == \A t \in Threads : TInv /\ Run(t) => TInv'
<1> SUFFICES ASSUME NEW t \in Threads, TInv, Run(t) PROVE TInv'
  OBVIOUS
<1> DEFINE m == Msg("user", nextRun, 0, 0, 0, TRUE)
           s == [Idle EXCEPT !.pc = "push", !.run = nextRun, !.pend = m]
<1>1. nextRun \in 1 .. MaxRuns /\ nextRun' = nextRun + 1
  BY DEF Run, TInv, TypeOK
<1>0. nextRun \in 0 .. MaxRuns /\ nextRun' \in Int /\ nextRun' >= nextRun
  BY <1>1
<1>2. m \in Message
  BY <1>1 DEF Msg, Message
<1>3. s \in Thread
  <2>1. [Idle EXCEPT !.pc = "push"] \in Thread
    BY IdleType, Assign
  <2>2. [[Idle EXCEPT !.pc = "push"] EXCEPT !.run = nextRun] \in Thread
    BY <1>0, <2>1, Assign
  <2> QED
    BY <1>2, <2>2, Assign
<1>4. LocalOK(s, nextRun')
  BY <1>1 DEF LocalOK, PendOK, Idle, Msg, Appends
<1>5. th' = [th EXCEPT ![t] = s]
  BY DEF Run
<1> HIDE DEF s
<1>6. th' \in [Threads -> Thread] /\ ThreadsOK'
  BY <1>0, <1>3, <1>4, <1>5, OneThread
<1> QED
  BY <1>1, <1>6 DEF Run, TInv, TypeOK

-----------------------------------------------------------------------------
(* Steps of one thread *)

\* The steps of run() that do not write the database.
LocalStep(t) ==
  \/ PushBegin(t) \/ PushEnd(t)
  \/ Exhausted(t) \/ Cancelled(t) \/ Chat(t)
  \/ ChatFails(t) \/ ChatAnswers(t) \/ ChatCallsTools(t) \/ ChatThrows(t)
  \/ ToolResult(t) \/ ToolThrows(t) \/ Unwind(t) \/ SetCancel(t)

\* From o to s the thread stays in its run, and its next row moves no way back.
Advances(o, s) ==
  /\ s.pc # "idle" => o.pc # "idle" /\ s.run = o.run
  /\ s.pc \notin {"idle", "throwing"} =>
       o.pc # "throwing" /\ ~Before(NextRow(s), NextRow(o))

\* What a local step does to its own thread.
Moves(t, s) ==
  /\ th' = [th EXCEPT ![t] = s]
  /\ LocalOK(s, nextRun)
  /\ Advances(th[t], s)

\* What the type invariant says of one thread.
LEMMA ThreadFacts ==
  ASSUME TInv, NEW t \in Threads
  PROVE  /\ th[t] \in Thread /\ LocalOK(th[t], nextRun)
         /\ th[t].run \in 0 .. MaxRuns /\ th[t].iter \in 0 .. MaxIterations
         /\ th[t].calls \in 0 .. MaxCalls /\ th[t].k \in 0 .. MaxCalls
         /\ th[t].pend \in Message /\ nextRun \in 1 .. MaxRuns + 1
BY DEF TInv, TypeOK, ThreadsOK, Thread

\* A thread that leaves run().
LEMMA IdleMoves ==
  ASSUME NEW t \in Threads, th' = [th EXCEPT ![t] = Idle]
  PROVE  Idle \in Thread /\ Moves(t, Idle)
BY IdleType DEF Moves, LocalOK, Advances, Idle, Appends

\* Only pc, slot or cancel is assigned.
LEMMA PushBeginMoves ==
  ASSUME TInv, NEW t \in Threads, PushBegin(t)
  PROVE  \E s \in Thread : Moves(t, s)
<1> DEFINE o == th[t]
           s == [o EXCEPT !.pc = "pushing", !.slot = Len(messages)]
<1>1. o \in Thread /\ LocalOK(o, nextRun) /\ o.pc = "push"
  BY ThreadFacts DEF PushBegin
<1>2. s \in Thread
  <2>1. [o EXCEPT !.pc = "pushing"] \in Thread
    BY <1>1, Assign
  <2>2. Len(messages) \in Nat
    BY DEF TInv, TypeOK
  <2> QED
    BY <2>1, <2>2, Assign
<1>3. th' = [th EXCEPT ![t] = s]
  BY DEF PushBegin, TInv, TypeOK
<1>4. /\ s.pc = "pushing" /\ s.run = o.run /\ s.iter = o.iter /\ s.k = o.k
      /\ s.calls = o.calls /\ s.pend = o.pend
  BY <1>1 DEF Thread
<1> HIDE DEF s, o
<1>5. LocalOK(s, nextRun)
  BY <1>1, <1>4 DEF LocalOK, PendOK, Appends
<1>6. Advances(o, s)
  BY <1>1, <1>4 DEF Advances, NextRow, Before, Appends, Thread, Message
<1> QED
  BY <1>2, <1>3, <1>5, <1>6 DEF Moves, o

-----------------------------------------------------------------------------
\* Only pc is assigned: the thread goes from one place to a later one.
LEMMA JumpMoves ==
  ASSUME TInv, NEW t \in Threads,
         NEW x \in {"persist", "reply", "throwing"},
         th' = [th EXCEPT ![t].pc = x],
         x = "persist" => th[t].pc = "pushing",
         x = "reply" => th[t].pc = "loop" /\ th[t].iter < MaxIterations,
         th[t].pc # "idle"
  PROVE  \E s \in Thread : Moves(t, s)
<1> DEFINE o == th[t]
           s == [o EXCEPT !.pc = x]
<1>1. o \in Thread /\ LocalOK(o, nextRun)
  BY ThreadFacts
<1>2. s \in Thread
  BY <1>1, Assign
<1>3. th' = [th EXCEPT ![t] = s]
  BY DEF TInv, TypeOK
<1>4. /\ s.pc = x /\ s.run = o.run /\ s.iter = o.iter /\ s.k = o.k
      /\ s.calls = o.calls /\ s.pend = o.pend
  BY <1>1 DEF Thread
<1>5. /\ x = "persist" => o.pc = "pushing"
      /\ x = "reply" => o.pc = "loop" /\ o.iter < MaxIterations
      /\ o.pc # "idle"
  OBVIOUS
<1> HIDE DEF s, o
<1>6. LocalOK(s, nextRun)
  BY <1>1, <1>4, <1>5 DEF LocalOK, PendOK, Appends
<1>7. Advances(o, s)
  BY <1>1, <1>4, <1>5 DEF Advances, NextRow, Before, Appends, Thread, Message
<1> QED
  BY <1>2, <1>3, <1>6, <1>7 DEF Moves, o

\* The thread goes on to append m.
LEMMA AppendMoves ==
  ASSUME TInv, NEW t \in Threads, NEW m \in Message, NEW res \in Outcomes,
         NEW n \in 0 .. MaxCalls,
         th[t].pc \in {"loop", "reply", "tool"},
         th' = [th EXCEPT ![t] = [th[t] EXCEPT !.pc = "push", !.calls = n,
                                               !.pend = m, !.result = res]],
         m.run = th[t].run, m.iter = th[t].iter + 1,
         \/ m.role = "assistant" /\ m.calls = 0 /\ m.k = 0 /\ th[t].pc # "tool"
         \/ /\ m.role = "assistant" /\ m.calls > 0 /\ m.calls = n
            /\ m.k = 0 /\ th[t].pc = "reply"
         \/ m.role = "tool" /\ m.k = th[t].k /\ th[t].calls = n /\ th[t].pc = "tool"
  PROVE  \E s \in Thread : Moves(t, s)
<1> DEFINE o == th[t]
           s == [o EXCEPT !.pc = "push", !.calls = n, !.pend = m, !.result = res]
<1>1. o \in Thread /\ LocalOK(o, nextRun)
  BY ThreadFacts
<1>2. s \in Thread
  <2>1. [o EXCEPT !.pc = "push"] \in Thread
    BY <1>1, Assign
  <2>2. [[o EXCEPT !.pc = "push"] EXCEPT !.calls = n] \in Thread
    BY <2>1, Assign
  <2>3. [[[o EXCEPT !.pc = "push"] EXCEPT !.calls = n] EXCEPT !.pend = m] \in Thread
    BY <2>2, Assign
  <2> QED
    BY <2>3, Assign
<1>3. th' = [th EXCEPT ![t] = s]
  OBVIOUS
<1>4. /\ s.pc = "push" /\ s.run = o.run /\ s.iter = o.iter /\ s.k = o.k
      /\ s.calls = n /\ s.pend = m
  BY <1>1 DEF Thread
<1>5. /\ o.pc \in {"loop", "reply", "tool"}
      /\ m.run = o.run /\ m.iter = o.iter + 1
      /\ \/ m.role = "assistant" /\ m.calls = 0 /\ m.k = 0 /\ o.pc # "tool"
         \/ /\ m.role = "assistant" /\ m.calls > 0 /\ m.calls = n
            /\ m.k = 0 /\ o.pc = "reply"
         \/ m.role = "tool" /\ m.k = o.k /\ o.calls = n /\ o.pc = "tool"
  OBVIOUS
<1> HIDE DEF s, o
<1>6. LocalOK(s, nextRun)
  BY <1>1, <1>4, <1>5 DEF LocalOK, PendOK, Appends
<1>7. Advances(o, s)
  BY <1>1, <1>4, <1>5 DEF Advances, NextRow, Before, Appends, Thread, Message
<1> QED
  BY <1>2, <1>3, <1>6, <1>7 DEF Moves, o

\* Assigning a field the value it has changes nothing.
LEMMA SameField ==
  ASSUME NEW o \in Thread
  PROVE  [o EXCEPT !.calls = o.calls] = o /\ [o EXCEPT !.result = o.result] = o
BY DEF Thread

\* A thread that goes on to append m.
LEMMA AppendingMoves ==
  ASSUME TInv, NEW t \in Threads, NEW m \in Message, NEW res \in Outcomes,
         th[t].pc \in {"loop", "reply", "tool"},
         Appending(t, m, res),
         m.run = th[t].run, m.iter = th[t].iter + 1,
         \/ m.role = "assistant" /\ m.calls = 0 /\ m.k = 0 /\ th[t].pc # "tool"
         \/ m.role = "tool" /\ m.k = th[t].k /\ th[t].pc = "tool"
  PROVE  \E s \in Thread : Moves(t, s)
<1> DEFINE o == th[t]
           q == [o EXCEPT !.pc = "push"]
<1>1. o \in Thread /\ o.calls \in 0 .. MaxCalls
  BY ThreadFacts
<1>2. q \in Thread /\ q.calls = o.calls
  BY <1>1 DEF Thread
<1>3. th' = [th EXCEPT ![t] = [[q EXCEPT !.pend = m] EXCEPT !.result = res]]
  BY DEF Appending, TInv, TypeOK
<1>4. q = [q EXCEPT !.calls = o.calls]
  BY <1>2, SameField
<1>5. th' = [th EXCEPT ![t] = [o EXCEPT !.pc = "push", !.calls = o.calls,
                                        !.pend = m, !.result = res]]
  BY <1>3, <1>4
<1> QED
  BY <1>1, <1>5, AppendMoves

\* A thread that goes on to append its last message.
LEMMA FinalMoves ==
  ASSUME TInv, NEW t \in Threads, NEW res \in Outcomes,
         th[t].pc \in {"loop", "reply"},
         NEW i \in Int, i = th[t].iter + 1,
         Appending(t, Final(t, i), res)
  PROVE  \E s \in Thread : Moves(t, s)
<1> DEFINE m == Final(t, i)
<1>1. th[t].run \in 0 .. MaxRuns /\ i \in 0 .. MaxIterations + 1
  BY ThreadFacts
<1>2. /\ m \in Message /\ m.run = th[t].run /\ m.iter = th[t].iter + 1
      /\ m.role = "assistant" /\ m.calls = 0 /\ m.k = 0
  BY <1>1 DEF Final, Msg, Message
<1> HIDE DEF m
<1>3. th[t].pc \in {"loop", "reply", "tool"} /\ th[t].pc # "tool"
  OBVIOUS
<1>4. Appending(t, m, res)
  BY DEF m
<1> QED
  BY <1>2, <1>3, <1>4, AppendingMoves

\* The LLM asked for tools.
LEMMA ChatCallsToolsMoves ==
  ASSUME TInv, NEW t \in Threads, ChatCallsTools(t)
  PROVE  \E s \in Thread : Moves(t, s)
<1> DEFINE o == th[t]
<1>1. PICK n \in 1 .. MaxCalls :
        th' = [th EXCEPT ![t].pc = "push", ![t].calls = n,
                 ![t].pend = Msg("assistant", o.run, o.iter + 1, 0, n, TRUE)]
  BY DEF ChatCallsTools
<1> DEFINE m == Msg("assistant", o.run, o.iter + 1, 0, n, TRUE)
           q == [o EXCEPT !.pc = "push", !.calls = n, !.pend = m]
<1>2. o \in Thread /\ o.pc = "reply" /\ o.run \in 0 .. MaxRuns
      /\ o.iter \in 0 .. MaxIterations /\ n \in 0 .. MaxCalls
      /\ o.result \in Outcomes
  BY ThreadFacts DEF ChatCallsTools, Thread
<1>3. /\ m \in Message /\ m.run = o.run /\ m.iter = o.iter + 1
      /\ m.role = "assistant" /\ m.calls = n /\ m.calls > 0 /\ m.k = 0
  BY <1>2 DEF Msg, Message
<1>4. th' = [th EXCEPT ![t] = q]
  BY <1>1 DEF TInv, TypeOK
<1> HIDE DEF m
<1>5. q \in Thread /\ q.result = o.result
  <2>1. [o EXCEPT !.pc = "push"] \in Thread
    BY <1>2, Assign
  <2>2. [[o EXCEPT !.pc = "push"] EXCEPT !.calls = n] \in Thread
    BY <1>2, <2>1, Assign
  <2>3. q \in Thread
    BY <1>3, <2>2, Assign
  <2> QED
    BY <1>2, <2>3 DEF Thread
<1>6. q = [q EXCEPT !.result = o.result]
  BY <1>5, SameField
<1>7. th' = [th EXCEPT ![t] = [th[t] EXCEPT !.pc = "push", !.calls = n,
                                 !.pend = m, !.result = o.result]]
  BY <1>4, <1>6
<1> QED
  BY <1>2, <1>3, <1>7, AppendMoves

\* The caller cancels.
LEMMA SetCancelMoves ==
  ASSUME TInv, NEW t \in Threads, SetCancel(t)
  PROVE  \E s \in Thread : Moves(t, s)
<1> DEFINE o == th[t]
           s == [o EXCEPT !.cancel = TRUE]
<1>1. o \in Thread /\ LocalOK(o, nextRun) /\ o.pc # "idle"
  BY ThreadFacts DEF SetCancel
<1>2. s \in Thread
  BY <1>1, Assign
<1>3. th' = [th EXCEPT ![t] = s]
  BY DEF SetCancel, TInv, TypeOK
<1>4. /\ s.pc = o.pc /\ s.run = o.run /\ s.iter = o.iter /\ s.k = o.k
      /\ s.calls = o.calls /\ s.pend = o.pend
  BY <1>1 DEF Thread
<1> HIDE DEF s, o
<1>5. LocalOK(s, nextRun)
  BY <1>1, <1>4 DEF LocalOK, PendOK
<1>6. Advances(o, s)
  BY <1>1, <1>4 DEF Advances, NextRow, Before, Thread, Message
<1> QED
  BY <1>2, <1>3, <1>5, <1>6 DEF Moves, o

\* Each step of run() that does not write the database moves its own thread.
LEMMA LocalMoves ==
  ASSUME TInv, NEW t \in Threads, LocalStep(t)
  PROVE  \E s \in Thread : Moves(t, s)
<1>1. CASE PushBegin(t)
  BY <1>1, PushBeginMoves
<1>2. CASE PushEnd(t)
  BY <1>2, JumpMoves DEF PushEnd
<1>3. CASE Exhausted(t)
  <2>1. th[t].iter \in 0 .. MaxIterations
    BY ThreadFacts
  <2>2. MaxIterations + 1 \in Int /\ MaxIterations + 1 = th[t].iter + 1
    BY <1>3, <2>1 DEF Exhausted
  <2> QED
    BY <1>3, <2>2, FinalMoves DEF Exhausted, Outcomes
<1>4. CASE Cancelled(t) \/ Unwind(t)
  BY <1>4, IdleMoves DEF Cancelled, Unwind, Returning
<1>5. CASE Chat(t)
  <2>1. CASE \A p \in 1 .. Len(messages) : messages[p].utf8
    BY <1>5, <2>1, JumpMoves DEF Chat
  <2>2. CASE ~\A p \in 1 .. Len(messages) : messages[p].utf8
    BY <1>5, <2>2, JumpMoves DEF Chat
  <2> QED
    BY <2>1, <2>2
<1>6. CASE ChatFails(t) \/ ChatAnswers(t)
  <2>1. th[t].iter + 1 \in Int
    BY ThreadFacts
  <2> QED
    BY <1>6, <2>1, FinalMoves DEF ChatFails, ChatAnswers, Outcomes
<1>7. CASE ChatCallsTools(t)
  BY <1>7, ChatCallsToolsMoves
<1>8. CASE ChatThrows(t) \/ ToolThrows(t)
  BY <1>8, JumpMoves DEF ChatThrows, ToolThrows
<1>9. CASE ToolResult(t)
  <2>1. PICK u \in BOOLEAN :
          Appending(t, Msg("tool", th[t].run, th[t].iter + 1, th[t].k, 0, u), "none")
    BY <1>9 DEF ToolResult
  <2> DEFINE m == Msg("tool", th[t].run, th[t].iter + 1, th[t].k, 0, u)
  <2>2. /\ m \in Message /\ m.run = th[t].run /\ m.iter = th[t].iter + 1
        /\ m.role = "tool" /\ m.k = th[t].k
    <3>1. /\ th[t].run \in 0 .. MaxRuns /\ th[t].k \in 0 .. MaxCalls
          /\ th[t].iter + 1 \in 0 .. MaxIterations + 1
      BY ThreadFacts
    <3> QED
      BY <3>1 DEF Msg, Message
  <2> HIDE DEF m
  <2>3. th[t].pc = "tool" /\ "none" \in Outcomes
    BY <1>9 DEF ToolResult, Outcomes
  <2>4. Appending(t, m, "none")
    BY <2>1 DEF m
  <2> QED
    BY <2>2, <2>3, <2>4, AppendingMoves
<1>10. CASE SetCancel(t)
  BY <1>10, SetCancelMoves
<1> QED
  BY <1>1, <1>2, <1>3, <1>4, <1>5, <1>6, <1>7, <1>8, <1>9, <1>10 DEF LocalStep

\* A local step keeps everything but messages and outcome.
LEMMA LocalFrame ==
  ASSUME TInv, NEW t \in Threads, LocalStep(t)
  PROVE  /\ messages' \in Seq(Message)
         /\ UNCHANGED <<db, up, boots, nextRun>>
         /\ outcome' \in [Runs -> Outcomes]
<1>1. UNCHANGED <<db, up, boots, nextRun>>
  BY DEF LocalStep, PushBegin, PushEnd, Exhausted, Cancelled, Chat, ChatFails,
         ChatAnswers, ChatCallsTools, ChatThrows, ToolResult, ToolThrows,
         Unwind, SetCancel
<1>2. messages' \in Seq(Message)
  <2>1. CASE PushEnd(t)
    <3> DEFINE m == th[t].pend
    <3>1. m \in Message
      BY ThreadFacts
    <3>2. CASE messages' = Append(messages, m)
      BY <3>1, <3>2, AppendProperties DEF TInv, TypeOK
    <3>3. CASE /\ Len(messages) > th[t].slot
               /\ messages' = Append(SubSeq(messages, 1, th[t].slot), m)
      <4>1. th[t].slot \in Int /\ Len(messages) \in Int
        BY ThreadFacts DEF Thread, TInv, TypeOK
      <4>2. \A i \in 1 .. th[t].slot : messages[i] \in Message
        BY <3>3, <4>1 DEF TInv, TypeOK
      <4>3. SubSeq(messages, 1, th[t].slot) \in Seq(Message)
        BY <4>1, <4>2, SubSeqProperties
      <4> QED
        BY <3>1, <3>3, <4>3, AppendProperties
    <3> QED
      BY <2>1, <3>2, <3>3 DEF PushEnd
  <2>2. CASE ~PushEnd(t)
    <3>1. messages' = messages
      BY <2>2 DEF LocalStep, PushBegin, Exhausted, Cancelled, Chat, ChatFails,
         ChatAnswers, ChatCallsTools, ChatThrows, ToolResult, ToolThrows,
         Unwind, SetCancel
    <3> QED
      BY <3>1 DEF TInv, TypeOK
  <2> QED
    BY <2>1, <2>2
<1>3. outcome' \in [Runs -> Outcomes]
  <2>1. CASE Cancelled(t) \/ Unwind(t)
    <3>1. \E res \in Outcomes : outcome' = [outcome EXCEPT ![th[t].run] = res]
      BY <2>1 DEF Cancelled, Unwind, Returning, Outcomes
    <3> QED
      BY <3>1 DEF TInv, TypeOK
  <2>2. CASE ~(Cancelled(t) \/ Unwind(t))
    <3>1. outcome' = outcome
      BY <2>2 DEF LocalStep, PushBegin, PushEnd, Exhausted, Chat, ChatFails,
         ChatAnswers, ChatCallsTools, ChatThrows, ToolResult, ToolThrows,
         SetCancel
    <3> QED
      BY <3>1 DEF TInv, TypeOK
  <2> QED
    BY <2>1, <2>2
<1> QED
  BY <1>1, <1>2, <1>3

\* Persist takes the thread past the row it writes.
LEMMA PersistMoves ==
  ASSUME TInv, NEW t \in Threads, Persist(t)
  PROVE  LET o == th[t]
             s == Continue(o)
         IN  /\ s \in Thread
             /\ th' = [th EXCEPT ![t] = s]
             /\ LocalOK(s, nextRun)
             /\ o.pc = "persist" /\ o.pend \in Message /\ o.pend.run = o.run
             /\ s.pc # "idle" => s.run = o.run /\ Before(o.pend, NextRow(s))
<1> DEFINE o == th[t]
           s == Continue(o)
<1>1. o \in Thread /\ LocalOK(o, nextRun) /\ o.pc = "persist" /\ PendOK(o)
  BY ThreadFacts DEF Persist, LocalOK, Appends
<1>2. th' = [th EXCEPT ![t] = s]
  BY DEF Persist
<1> HIDE DEF o
<1>3. o.pend \in Message /\ o.pend.run = o.run
  BY <1>1 DEF Thread, PendOK
<1> SUFFICES /\ s \in Thread
             /\ LocalOK(s, nextRun)
             /\ s.pc # "idle" => s.run = o.run /\ Before(o.pend, NextRow(s))
  BY <1>1, <1>2, <1>3 DEF o
<1>4. CASE o.pend.role = "tool" /\ o.k < o.calls
  <2>0. ~(o.k >= o.calls)
    BY <1>1, <1>4 DEF Thread
  <2>1. s = [o EXCEPT !.pc = "tool", !.k = @ + 1]
    BY <1>4, <2>0 DEF Continue
  <2>2. o.k + 1 \in 0 .. MaxCalls /\ o.k + 1 \in 1 .. o.calls
    BY <1>1, <1>4 DEF Thread
  <2>3. [o EXCEPT !.pc = "tool"] \in Thread /\ [o EXCEPT !.pc = "tool"].k = o.k
    BY <1>1 DEF Thread
  <2>4. s \in Thread
    BY <2>1, <2>2, <2>3, Assign
  <2>5. /\ s.pc = "tool" /\ s.run = o.run /\ s.iter = o.iter /\ s.k = o.k + 1
        /\ s.calls = o.calls
    BY <1>1, <2>1 DEF Thread
  <2>6. o.iter < MaxIterations /\ o.pend.iter = o.iter + 1 /\ o.pend.k = o.k
    BY <1>1, <1>4 DEF PendOK
  <2>7. LocalOK(s, nextRun)
    BY <1>1, <2>2, <2>5, <2>6 DEF LocalOK, Appends
  <2>8. Before(o.pend, NextRow(s))
    BY <1>1, <1>3, <2>5, <2>6 DEF Before, NextRow, Appends, Thread, Message
  <2> QED
    BY <2>4, <2>5, <2>7, <2>8
<1>5. CASE o.pend.role = "tool" /\ o.k >= o.calls
  <2>0. ~(o.k < o.calls)
    BY <1>1, <1>5 DEF Thread
  <2>1. s = [o EXCEPT !.pc = "loop", !.iter = @ + 1, !.calls = 0, !.k = 0]
    BY <1>5, <2>0 DEF Continue
  <2>2. o.iter < MaxIterations /\ o.pend.iter = o.iter + 1 /\ o.pend.k = o.k
    BY <1>1, <1>5 DEF PendOK
  <2>3. o.iter + 1 \in 0 .. MaxIterations /\ 0 \in 0 .. MaxCalls
    BY <1>1, <2>2 DEF Thread
  <2>4. s \in Thread
    <3> DEFINE a == [o EXCEPT !.pc = "loop"]
               b == [a EXCEPT !.iter = @ + 1]
               c == [b EXCEPT !.calls = 0]
    <3>1. a \in Thread /\ a.iter = o.iter
      BY <1>1 DEF Thread
    <3>2. b \in Thread
      BY <2>3, <3>1, Assign
    <3>3. c \in Thread
      BY <2>3, <3>2, Assign
    <3>4. s = [c EXCEPT !.k = 0]
      BY <2>1
    <3> HIDE DEF a, b, c, s
    <3> QED
      BY <2>3, <3>3, <3>4, Assign
  <2>5. s.pc = "loop" /\ s.run = o.run /\ s.iter = o.iter + 1
    BY <1>1, <2>1 DEF Thread
  <2>6. LocalOK(s, nextRun)
    BY <1>1, <2>5 DEF LocalOK, Appends
  <2>7. Before(o.pend, NextRow(s))
    BY <1>1, <1>3, <2>2, <2>5 DEF Before, NextRow, Appends, Thread, Message
  <2> QED
    BY <2>4, <2>5, <2>6, <2>7
<1>6. CASE o.pend.role = "assistant" /\ o.pend.calls > 0
  <2>1. s = [o EXCEPT !.pc = "tool", !.k = 1]
    BY <1>6 DEF Continue
  <2>2. /\ o.calls = o.pend.calls /\ o.calls >= 1 /\ o.pend.iter = o.iter + 1
        /\ o.pend.k = 0 /\ o.iter < MaxIterations
    BY <1>1, <1>3, <1>6 DEF PendOK, Message
  <2>3. 1 \in 0 .. MaxCalls /\ 1 \in 1 .. o.calls
    BY <1>1, <2>2 DEF Thread
  <2>4. [o EXCEPT !.pc = "tool"] \in Thread
    BY <1>1, Assign
  <2>5. s \in Thread
    BY <2>1, <2>3, <2>4, Assign
  <2>6. s.pc = "tool" /\ s.run = o.run /\ s.iter = o.iter /\ s.k = 1 /\ s.calls = o.calls
    BY <1>1, <2>1 DEF Thread
  <2>7. LocalOK(s, nextRun)
    BY <1>1, <2>2, <2>3, <2>6 DEF LocalOK, Appends
  <2>8. Before(o.pend, NextRow(s))
    BY <1>1, <1>3, <2>2, <2>6 DEF Before, NextRow, Appends, Thread, Message
  <2> QED
    BY <2>5, <2>6, <2>7, <2>8
<1>7. CASE o.pend.role = "assistant" /\ o.pend.calls = 0
  <2>1. s = Idle
    BY <1>7 DEF Continue
  <2> QED
    BY <2>1, IdleType DEF Idle, LocalOK, Appends
<1>8. CASE o.pend.role \notin {"tool", "assistant"}
  <2>1. s = [o EXCEPT !.pc = "loop"]
    BY <1>8 DEF Continue
  <2>2. s \in Thread
    BY <1>1, <2>1, Assign
  <2>3. s.pc = "loop" /\ s.run = o.run /\ s.iter = o.iter
    BY <1>1, <2>1 DEF Thread
  <2>4. o.pend.iter = 0 /\ o.iter = 0
    BY <1>1, <1>8 DEF PendOK
  <2>5. LocalOK(s, nextRun)
    BY <1>1, <2>3 DEF LocalOK, Appends
  <2>6. Before(o.pend, NextRow(s))
    BY <2>3, <2>4 DEF Before, NextRow, Appends
  <2> QED
    BY <2>2, <2>3, <2>5, <2>6
<1>9. /\ o.k < o.calls \/ o.k >= o.calls
      /\ o.pend.calls > 0 \/ o.pend.calls = 0
  BY <1>1, <1>3 DEF Thread, Message
<1> QED
  BY <1>4, <1>5, <1>6, <1>7, <1>8, <1>9

-----------------------------------------------------------------------------
(* Type correctness *)

\* The steps that leave the database alone preserve the type invariant ...
LEMMA LocalTInv ==
  ASSUME TInv, NEW t \in Threads, LocalStep(t)
  PROVE  TInv'
<1>1. PICK s \in Thread : Moves(t, s)
  BY LocalMoves
<1>2. /\ messages' \in Seq(Message)
      /\ UNCHANGED <<db, up, boots, nextRun>>
      /\ outcome' \in [Runs -> Outcomes]
  BY LocalFrame
<1>3. nextRun' \in Int /\ nextRun' >= nextRun /\ LocalOK(s, nextRun')
  BY <1>1, <1>2, ThreadFacts DEF Moves
<1>4. th' = [th EXCEPT ![t] = s]
  BY <1>1 DEF Moves
<1>5. th' \in [Threads -> Thread] /\ ThreadsOK'
  BY <1>3, <1>4, OneThread
<1> QED
  BY <1>2, <1>5 DEF TInv, TypeOK

\* ... and so does the one that stores a row.
LEMMA PersistTInv ==
  ASSUME TInv, NEW t \in Threads, Persist(t)
  PROVE  TInv'
<1> DEFINE o == th[t]
           s == Continue(o)
<1>1. /\ s \in Thread /\ th' = [th EXCEPT ![t] = s] /\ LocalOK(s, nextRun)
      /\ o.pend \in Message
  BY PersistMoves
<1>2. nextRun' = nextRun /\ UNCHANGED <<messages, up, boots>>
  BY DEF Persist
<1>3. nextRun' \in Int /\ nextRun' >= nextRun /\ LocalOK(s, nextRun')
  BY <1>1, <1>2, ThreadFacts
<1>4. th' \in [Threads -> Thread] /\ ThreadsOK'
  <2> HIDE DEF s
  <2> QED
    BY <1>1, <1>3, OneThread
<1>5. db' \in Seq(Message)
  <2>1. db' = Append(db, o.pend) \/ db' = db
    BY DEF Persist, AddMessage
  <2>2. db \in Seq(Message) /\ o.pend \in Message
    BY <1>1 DEF TInv, TypeOK
  <2> HIDE DEF o, s
  <2>3. Append(db, o.pend) \in Seq(Message)
    BY <2>2, AppendProperties
  <2> QED
    BY <2>1, <2>2, <2>3
<1>6. outcome' \in [Runs -> Outcomes]
  <2>1. o.result \in Outcomes
    BY ThreadFacts DEF Thread
  <2>2. outcome' = outcome \/ outcome' = [outcome EXCEPT ![o.run] = o.result]
    BY DEF Persist
  <2> QED
    BY <2>1, <2>2 DEF TInv, TypeOK
<1> QED
  BY <1>2, <1>4, <1>5, <1>6 DEF TInv, TypeOK

\* TInv is inductive.
LEMMA NextTInv == TInv /\ [Next]_vars => TInv'
<1> SUFFICES ASSUME TInv, [Next]_vars PROVE TInv'
  OBVIOUS
<1>1. CASE Boot
  BY <1>1, BootTInv
<1>2. CASE Crash
  BY <1>2, CrashTInv
<1>3. ASSUME NEW t \in Threads, Run(t) PROVE TInv'
  BY <1>3, RunTInv
<1>4. ASSUME NEW t \in Threads, Persist(t) PROVE TInv'
  BY <1>4, PersistTInv
<1>5. ASSUME NEW t \in Threads, LocalStep(t) PROVE TInv'
  BY <1>5, LocalTInv
<1>6. CASE UNCHANGED vars
  BY <1>6 DEF vars, TInv, TypeOK, ThreadsOK
<1> QED
  BY <1>1, <1>2, <1>3, <1>4, <1>5, <1>6 DEF Next, ThreadStep, LocalStep, Waiting

\* In every reachable state, for any number of request threads, the variables
\* of Agent have their types: no run() iterates past max_iterations_ or answers
\* a call that was not asked.
THEOREM TypeCorrect == Spec => []TypeOK
<1>1. Spec => []TInv
  BY InitTInv, NextTInv, PTL DEF Spec
<1>2. TInv => TypeOK
  BY DEF TInv
<1> QED
  BY <1>1, <1>2, PTL

-----------------------------------------------------------------------------
(* Program order *)

\* The initial states satisfy the inductive invariant.
LEMMA InitIInv == Init => IInv
<1> SUFFICES ASSUME Init PROVE IInv
  OBVIOUS
<1>1. Len(db) = 0 /\ \A t \in Threads : th[t].pc = "idle"
  BY DEF Init, Idle
<1> QED
  BY <1>1, InitTInv DEF IInv, RunsDistinct, RowsStarted, AllBehind, Behind, ProgramOrder

\* NextRow is a place in a run.
LEMMA NextRowType ==
  ASSUME NEW s \in Thread
  PROVE  NextRow(s).iter \in Int /\ NextRow(s).k \in Int
BY DEF NextRow, Thread, Message

\* A thread that did not move still has its rows behind it.
LEMMA LocalIInv ==
  ASSUME IInv, NEW t \in Threads, LocalStep(t)
  PROVE  IInv'
<1>0. TInv /\ TInv'
  BY LocalTInv DEF IInv
<1>1. PICK s \in Thread : Moves(t, s)
  BY <1>0, LocalMoves
<1>2. db' = db /\ nextRun' = nextRun
  BY <1>0, LocalFrame
<1>3. th \in [Threads -> Thread] /\ th'[t] = s /\ \A u \in Threads \ {t} : th'[u] = th[u]
  BY <1>0, <1>1 DEF Moves, TInv, TypeOK
<1>4. s.pc # "idle" => th[t].pc # "idle" /\ s.run = th[t].run
  BY <1>1 DEF Moves, Advances
<1>5. RunsDistinct'
  BY <1>3, <1>4 DEF IInv, RunsDistinct
<1>6. RowsStarted' /\ ProgramOrder'
  BY <1>2 DEF IInv, RowsStarted, ProgramOrder
<1>7. ASSUME NEW u \in Threads PROVE Behind(th'[u], db')
  <2>1. Behind(th[u], db)
    BY DEF IInv, AllBehind
  <2>2. CASE u # t
    BY <1>2, <1>3, <2>1, <2>2
  <2>3. CASE u = t
    <3> SUFFICES ASSUME s.pc \notin {"idle", "throwing"},
                        NEW p \in 1 .. Len(db), db[p].run = s.run
                 PROVE  Before(db[p], NextRow(s))
      BY <1>2, <1>3, <2>3 DEF Behind
    <3>1. /\ th[t].pc \notin {"idle", "throwing"} /\ s.run = th[t].run
          /\ ~Before(NextRow(s), NextRow(th[t]))
      BY <1>1 DEF Moves, Advances
    <3>2. Before(db[p], NextRow(th[t]))
      BY <2>1, <2>3, <3>1 DEF Behind
    <3>3. db[p] \in Message /\ th[t] \in Thread
      BY <1>0, <1>3 DEF TInv, TypeOK
    <3>4. /\ db[p].iter \in Int /\ db[p].k \in Int
          /\ NextRow(s).iter \in Int /\ NextRow(s).k \in Int
          /\ NextRow(th[t]).iter \in Int /\ NextRow(th[t]).k \in Int
      BY <3>3, NextRowType DEF Message
    <3> QED
      BY <3>1, <3>2, <3>4 DEF Before
  <2> QED
    BY <2>2, <2>3
<1> QED
  BY <1>0, <1>5, <1>6, <1>7 DEF IInv, AllBehind

\* The row that Persist writes comes after the rows of its run and before
\* everything the run has still to write.
LEMMA PersistIInv ==
  ASSUME IInv, NEW t \in Threads, Persist(t)
  PROVE  IInv'
<1> DEFINE o == th[t]
           s == Continue(o)
<1>0. TInv /\ TInv'
  BY PersistTInv DEF IInv
<1>1. /\ s \in Thread /\ th' = [th EXCEPT ![t] = s]
      /\ o.pc = "persist" /\ o.pend \in Message /\ o.pend.run = o.run
      /\ s.pc # "idle" => s.run = o.run /\ Before(o.pend, NextRow(s))
  BY <1>0, PersistMoves
<1>2. nextRun' = nextRun /\ (db' = Append(db, o.pend) \/ db' = db)
  BY DEF Persist, AddMessage
<1>3. /\ th \in [Threads -> Thread] /\ th'[t] = s
      /\ \A u \in Threads \ {t} : th'[u] = th[u]
      /\ db \in Seq(Message) /\ o \in Thread
  BY <1>0, <1>1 DEF TInv, TypeOK
<1>4. o.run < nextRun
  <2>1. LocalOK(o, nextRun) /\ o.run \in Int /\ nextRun \in Int
    BY <1>0, ThreadFacts
  <2> QED
    BY <1>1, <2>1 DEF LocalOK
<1>5. \A p \in 1 .. Len(db) : db[p].run = o.run => Before(db[p], o.pend)
  <2>1. Behind(o, db)
    BY DEF IInv, AllBehind
  <2> QED
    BY <1>1, <2>1 DEF Behind, NextRow, Appends, Before
<1> HIDE DEF s, o
<1>6. RunsDistinct'
  BY <1>1, <1>3 DEF IInv, RunsDistinct, o
<1>7. CASE db' = db
  <2>1. RowsStarted' /\ ProgramOrder'
    BY <1>2, <1>7 DEF IInv, RowsStarted, ProgramOrder
  <2>2. ASSUME NEW u \in Threads PROVE Behind(th'[u], db')
    <3>1. CASE u # t
      BY <1>3, <1>7, <3>1 DEF IInv, AllBehind
    <3>2. CASE u = t
      <4> SUFFICES ASSUME s.pc # "idle", NEW p \in 1 .. Len(db), db[p].run = s.run
                   PROVE  Before(db[p], NextRow(s))
        BY <1>3, <1>7, <3>2 DEF Behind
      <4>1. Before(db[p], o.pend) /\ Before(o.pend, NextRow(s))
        BY <1>1, <1>5
      <4>2. db[p] \in Message
        BY <1>3
      <4>3. /\ db[p].iter \in Int /\ db[p].k \in Int
            /\ o.pend.iter \in Int /\ o.pend.k \in Int
        BY <1>1, <4>2 DEF Message
      <4>4. NextRow(s).iter \in Int /\ NextRow(s).k \in Int
        BY <1>1, NextRowType
      <4> QED
        BY <4>1, <4>3, <4>4 DEF Before
    <3> QED
      BY <3>1, <3>2
  <2> QED
    BY <1>0, <1>6, <2>1, <2>2 DEF IInv, AllBehind
<1>8. CASE db' = Append(db, o.pend)
  <2>1. /\ Len(db') = Len(db) + 1 /\ Len(db) \in Nat
        /\ \A p \in 1 .. Len(db) : db'[p] = db[p]
        /\ db'[Len(db) + 1] = o.pend
    BY <1>1, <1>3, <1>8, AppendProperties
  <2>2. RowsStarted'
    BY <1>1, <1>2, <1>4, <2>1 DEF IInv, RowsStarted
  <2>3. ProgramOrder'
    <3> SUFFICES ASSUME NEW p \in 1 .. Len(db'), NEW q \in 1 .. Len(db'),
                        p < q, db'[p].run = db'[q].run
                 PROVE  Before(db'[p], db'[q])
      BY DEF ProgramOrder, Before
    <3>1. p \in 1 .. Len(db) /\ db'[p] = db[p]
      BY <2>1
    <3>2. CASE q = Len(db) + 1
      BY <1>1, <1>5, <2>1, <3>1, <3>2
    <3>3. CASE q # Len(db) + 1
      <4>1. q \in 1 .. Len(db) /\ db'[q] = db[q]
        BY <2>1, <3>3
      <4> QED
        BY <3>1, <4>1 DEF IInv, ProgramOrder
    <3> QED
      BY <3>2, <3>3
  <2>4. ASSUME NEW u \in Threads PROVE Behind(th'[u], db')
    <3> SUFFICES ASSUME th'[u].pc \notin {"idle", "throwing"},
                        NEW p \in 1 .. Len(db'), db'[p].run = th'[u].run
                 PROVE  Before(db'[p], NextRow(th'[u]))
      BY DEF Behind
    <3>1. CASE u # t
      <4>1. th'[u] = th[u] /\ th[u].run # o.run
        BY <1>1, <1>3, <3>1 DEF IInv, RunsDistinct, o
      <4>2. p \in 1 .. Len(db) /\ db'[p] = db[p]
        BY <1>1, <2>1, <4>1
      <4> QED
        BY <4>1, <4>2 DEF IInv, AllBehind, Behind
    <3>2. CASE u = t
      <4>1. s.run = o.run /\ Before(o.pend, NextRow(s)) /\ th'[u] = s
        BY <1>1, <1>3, <3>2
      <4>2. CASE p = Len(db) + 1
        BY <2>1, <4>1, <4>2
      <4>3. CASE p # Len(db) + 1
        <5>1. p \in 1 .. Len(db) /\ db'[p] = db[p] /\ Before(db[p], o.pend)
          BY <1>5, <2>1, <4>1, <4>3
        <5>2. db[p] \in Message
          BY <1>3, <5>1
        <5>3. /\ db[p].iter \in Int /\ db[p].k \in Int
              /\ o.pend.iter \in Int /\ o.pend.k \in Int
          BY <1>1, <5>2, SMTT(30) DEF Message
        <5>4. NextRow(s).iter \in Int /\ NextRow(s).k \in Int
          BY <1>1, NextRowType
        <5> QED
          BY <4>1, <5>1, <5>3, <5>4 DEF Before
      <4> QED
        BY <4>2, <4>3
    <3> QED
      BY <3>1, <3>2
  <2> QED
    BY <1>0, <1>6, <2>2, <2>3, <2>4 DEF IInv, AllBehind
<1> QED
  BY <1>2, <1>7, <1>8

\* A new run has no row yet, and its number is used by no other thread.
LEMMA RunIInv ==
  ASSUME IInv, NEW t \in Threads, Run(t)
  PROVE  IInv'
<1> DEFINE s == th'[t]
<1>0. TInv /\ TInv'
  BY RunTInv DEF IInv
<1>1. /\ db' = db /\ nextRun' = nextRun + 1 /\ nextRun \in Int
      /\ \A u \in Threads \ {t} : th'[u] = th[u]
      /\ s.run = nextRun
  BY <1>0 DEF Run, TInv, TypeOK, Idle
<1>2. \A u \in Threads : th[u].pc # "idle" => th[u].run < nextRun
  <2> SUFFICES ASSUME NEW u \in Threads, th[u].pc # "idle" PROVE th[u].run < nextRun
    OBVIOUS
  <2>1. LocalOK(th[u], nextRun) /\ th[u].run \in Int
    BY <1>0, ThreadFacts
  <2> QED
    BY <1>1, <2>1 DEF LocalOK
<1> HIDE DEF s
<1>3. RunsDistinct'
  BY <1>1, <1>2 DEF IInv, RunsDistinct, s
<1>4. \A p \in 1 .. Len(db) : db[p].run \in Int /\ db[p].run < nextRun
  <2> SUFFICES ASSUME NEW p \in 1 .. Len(db)
               PROVE  db[p].run \in Int /\ db[p].run < nextRun
    OBVIOUS
  <2>1. db[p] \in Message
    BY <1>0 DEF TInv, TypeOK
  <2>2. db[p].run \in Int
    BY <2>1 DEF Message
  <2> QED
    BY <2>2 DEF IInv, RowsStarted
<1>5. RowsStarted'
  BY <1>1, <1>4 DEF RowsStarted
<1>6. ProgramOrder'
  BY <1>1 DEF IInv, ProgramOrder
<1>7. ASSUME NEW u \in Threads PROVE Behind(th'[u], db')
  <2>1. CASE u # t
    BY <1>1, <2>1 DEF IInv, AllBehind
  <2>2. CASE u = t
    BY <1>1, <1>4, <2>2 DEF Behind, s
  <2> QED
    BY <2>1, <2>2
<1> QED
  BY <1>0, <1>3, <1>5, <1>6, <1>7 DEF IInv, AllBehind

\* IInv is inductive.
LEMMA NextIInv == IInv /\ [Next]_vars => IInv'
<1> SUFFICES ASSUME IInv, [Next]_vars PROVE IInv'
  OBVIOUS
<1>0. TInv'
  BY NextTInv DEF IInv
<1>1. CASE Boot
  BY <1>0, <1>1 DEF Boot, IInv, RunsDistinct, RowsStarted, AllBehind, Behind, ProgramOrder
<1>2. CASE Crash
  <2>1. db' = db /\ nextRun' = nextRun /\ \A t \in Threads : th'[t].pc = "idle"
    BY <1>2 DEF Crash, Idle
  <2> QED
    BY <1>0, <2>1 DEF IInv, RunsDistinct, RowsStarted, AllBehind, Behind, ProgramOrder
<1>3. ASSUME NEW t \in Threads, Run(t) PROVE IInv'
  BY <1>3, RunIInv
<1>4. ASSUME NEW t \in Threads, Persist(t) PROVE IInv'
  BY <1>4, PersistIInv
<1>5. ASSUME NEW t \in Threads, LocalStep(t) PROVE IInv'
  BY <1>5, LocalIInv
<1>6. CASE UNCHANGED vars
  BY <1>0, <1>6 DEF vars, IInv, RunsDistinct, RowsStarted, AllBehind, Behind, ProgramOrder
<1> QED
  BY <1>1, <1>2, <1>3, <1>4, <1>5, <1>6 DEF Next, ThreadStep, LocalStep, Waiting

\* For any number of threads, runs and restarts, with failing INSERTs and
\* exceptions: the rows of a run are stored once and in program order.
THEOREM RowsInProgramOrder == Spec => []ProgramOrder
<1>1. Spec => []IInv
  BY InitIInv, NextIInv, PTL DEF Spec
<1>2. IInv => ProgramOrder
  BY DEF IInv
<1> QED
  BY <1>1, <1>2, PTL

-----------------------------------------------------------------------------
(* The refinement of Conversation *)

Finals == {"text", "failed", "exhausted"}

\* What the local variables of run() have to do with each other, beyond LocalOK.
PlaceOK(s) ==
  /\ s.pc = "idle" => s.run = 0
  /\ s.pc \in {"loop", "reply"} => s.k = 0
  /\ s.pc \in Appends =>
       /\ s.pend.role = "tool" \/ s.k = 0
       /\ s.pend.role = "assistant" \/ s.pend.calls = 0
       /\ s.pend.role = "assistant" /\ s.pend.calls = 0 => s.result \in Finals

PlacesOK == \A t \in Threads : PlaceOK(th[t])

\* A run that is not over has told its caller nothing.
Untold ==
  \A r \in Runs :
    r >= nextRun \/ (\E t \in Threads : th[t].run = r) => outcome[r] \notin Finals

RInv == IInv /\ PlacesOK /\ Untold

\* The abstract run that the local variables s of a thread show.
View(s) == IF AsksFirst(s) THEN Conv!Asking ELSE Conv!Owing(Owes(s))

\* AbstractRun as a function of the three variables it looks at.
RunIn(f, n, o, r) ==
  LET doing == {t \in Threads : f[t].run = r} IN
  CASE doing # {} -> View(f[CHOOSE t \in doing : TRUE])
    [] doing = {} /\ r >= n -> Conv!New
    [] doing = {} /\ r < n /\ o[r] \in Finals -> Conv!Answered
    [] OTHER -> Conv!Left

AbstractRuns == [r \in Runs |-> AbstractRun(r)]

-----------------------------------------------------------------------------
(* The mapping *)


\* RunIn is AbstractRun.
LEMMA RunInIs ==
  ASSUME NEW r
  PROVE  /\ AbstractRun(r) = RunIn(th, nextRun, outcome, r)
         /\ AbstractRun(r)' = RunIn(th', nextRun', outcome', r)
BY DEF AbstractRun, RunIn, View, Finals, Conv!Asking, Conv!Owing, Conv!New,
       Conv!Answered, Conv!Left

\* A run that one thread executes is what this thread shows.
LEMMA Doing ==
  ASSUME NEW f, NEW n, NEW o, NEW t \in Threads,
         \A u \in Threads : f[u].run = f[t].run => u = t
  PROVE  RunIn(f, n, o, f[t].run) = View(f[t])
<1> DEFINE doing == {u \in Threads : f[u].run = f[t].run}
<1>1. doing = {t}
  OBVIOUS
<1>2. (CHOOSE u \in doing : TRUE) = t
  BY <1>1
<1> HIDE DEF doing
<1>3. doing # {}
  BY <1>1
<1> QED
  BY <1>2, <1>3 DEF RunIn, doing

\* A run that no thread executes has not begun, was answered or was left.
LEMMA NotDoing ==
  ASSUME NEW f, NEW n \in Int, NEW o, NEW r \in Int,
         \A u \in Threads : f[u].run # r
  PROVE  RunIn(f, n, o, r) = IF r >= n THEN Conv!New
                             ELSE IF o[r] \in Finals THEN Conv!Answered ELSE Conv!Left
<1> DEFINE doing == {u \in Threads : f[u].run = r}
<1>1. doing = {}
  OBVIOUS
<1>2. r < n <=> ~(r >= n)
  OBVIOUS
<1> HIDE DEF doing
<1>3. RunIn(f, n, o, r) =
        CASE doing # {} -> View(f[CHOOSE t \in doing : TRUE])
          [] doing = {} /\ r >= n -> Conv!New
          [] doing = {} /\ r < n /\ o[r] \in Finals -> Conv!Answered
          [] OTHER -> Conv!Left
  BY DEF RunIn, doing
<1> QED
  BY <1>1, <1>2, <1>3

\* A run shows the same as long as its thread does, or its outcome.
LEMMA Elsewhere ==
  ASSUME NEW f, NEW g, NEW n, NEW m, NEW o, NEW p, NEW r,
         \A u \in Threads : f[u].run = r <=> g[u].run = r,
         \A u \in Threads : f[u].run = r => View(f[u]) = View(g[u]),
         r >= n <=> r >= m, r < n <=> r < m, o[r] = p[r]
  PROVE  RunIn(f, n, o, r) = RunIn(g, m, p, r)
<1> DEFINE doing == {u \in Threads : f[u].run = r}
           c == CHOOSE u \in doing : TRUE
<1>1. doing = {u \in Threads : g[u].run = r}
  OBVIOUS
<1>2. doing # {} => c \in Threads /\ f[c].run = r
  OBVIOUS
<1>3. doing # {} => View(f[c]) = View(g[c])
  BY <1>2
<1>4. RunIn(f, n, o, r) =
        CASE doing # {} -> View(f[c])
          [] doing = {} /\ r >= n -> Conv!New
          [] doing = {} /\ r < n /\ o[r] \in Finals -> Conv!Answered
          [] OTHER -> Conv!Left
  BY DEF RunIn
<1>5. RunIn(g, m, p, r) =
        CASE doing # {} -> View(g[c])
          [] doing = {} /\ r >= m -> Conv!New
          [] doing = {} /\ r < m /\ p[r] \in Finals -> Conv!Answered
          [] OTHER -> Conv!Left
  BY <1>1 DEF RunIn
<1> HIDE DEF doing, c
<1> QED
  BY <1>3, <1>4, <1>5

\* A thread that is in run() is the only one with its run.
LEMMA OneThreadPerRun ==
  ASSUME RInv, NEW t \in Threads, th[t].pc # "idle"
  PROVE  /\ th[t].run \in Runs /\ th[t].run < nextRun
         /\ \A u \in Threads : th[u].run = th[t].run => u = t
<1>1. TInv /\ RunsDistinct /\ PlacesOK
  BY DEF RInv, IInv
<1>2. th[t].run \in 1 .. nextRun - 1 /\ nextRun \in 1 .. MaxRuns + 1
  BY <1>1, ThreadFacts DEF LocalOK
<1>3. \A u \in Threads : th[u].pc = "idle" => th[u].run = 0
  BY <1>1 DEF PlacesOK, PlaceOK
<1>4. th[t].run \in Runs /\ th[t].run < nextRun
  BY <1>2 DEF Runs
<1>5. ASSUME NEW u \in Threads, th[u].run = th[t].run PROVE u = t
  <2>1. th[u].pc # "idle"
    BY <1>2, <1>3, <1>5
  <2> QED
    BY <1>1, <1>5, <2>1 DEF RunsDistinct
<1> QED
  BY <1>4, <1>5

-----------------------------------------------------------------------------
(* Steps the abstract log does not see *)

\* The steps of run() that neither write a row nor return.
QuietStep(t) ==
  \/ PushBegin(t) \/ PushEnd(t)
  \/ Exhausted(t) \/ Chat(t)
  \/ ChatFails(t) \/ ChatAnswers(t) \/ ChatCallsTools(t) \/ ChatThrows(t)
  \/ ToolResult(t) \/ ToolThrows(t) \/ SetCancel(t)

\* Does s handle the tool calls of an answer?
InBatch(s) == s.pc = "tool" \/ (s.pc \in Appends /\ s.pend.role = "tool")

\* From o to s the thread stays where it is in its run, or throws.
SamePhase(o, s) ==
  /\ s.run = o.run /\ s.iter = o.iter /\ s.k = o.k
  /\ s.pc # "throwing" =>
       /\ o.pc # "throwing"
       /\ AsksFirst(s) <=> AsksFirst(o)
       /\ InBatch(s) <=> InBatch(o)
       /\ InBatch(o) => s.calls = o.calls

\* A quiet step keeps what its thread shows.
QuietMove(t) ==
  /\ \A u \in Threads \ {t} : th'[u] = th[u]
  /\ th[t].pc # "idle" /\ th'[t].pc # "idle" /\ SamePhase(th[t], th'[t])
  /\ PlaceOK(th'[t]) /\ View(th'[t]) = View(th[t])

\* Only pc, slot or cancel is assigned.
LEMMA QuietPlace ==
  ASSUME NEW o, NEW s, PlaceOK(o), o.pc # "idle",
         s.run = o.run, s.iter = o.iter, s.calls = o.calls, s.k = o.k, s.pend = o.pend,
         s.result = o.result,
         \/ s.pc = o.pc
         \/ o.pc = "push" /\ s.pc = "pushing"
         \/ o.pc = "pushing" /\ s.pc = "persist"
         \/ o.pc = "loop" /\ s.pc \in {"reply", "throwing"}
         \/ o.pc \in {"reply", "tool"} /\ s.pc = "throwing"
  PROVE  PlaceOK(s) /\ View(s) = View(o) /\ s.pc # "idle" /\ SamePhase(o, s)
<1>1. PlaceOK(s)
  BY DEF PlaceOK, Appends
<1>2. AsksFirst(s) <=> AsksFirst(o)
  BY DEF AsksFirst
<1>3. Owes(s) = Owes(o)
  BY DEF Owes
<1>4. s.pc # "idle" /\ SamePhase(o, s)
  BY <1>2 DEF SamePhase, InBatch, Appends
<1> QED
  BY <1>1, <1>2, <1>3, <1>4 DEF View

\* The thread goes on to append a message that is not its user's.
LEMMA AppendPlace ==
  ASSUME NEW o, NEW s, PlaceOK(o),
         o.pc \in {"loop", "reply", "tool"}, s.pc = "push",
         s.run = o.run, s.iter = o.iter, s.k = o.k,
         s.calls = o.calls \/ o.pc = "reply",
         \/ s.pend.role = "tool" /\ s.pend.calls = 0 /\ o.pc = "tool"
         \/ s.pend.role = "assistant" /\ s.pend.calls = 0 /\ s.result \in Finals /\ o.pc # "tool"
         \/ s.pend.role = "assistant" /\ s.pend.calls \in Nat \ {0} /\ o.pc = "reply"
  PROVE  PlaceOK(s) /\ View(s) = View(o) /\ s.pc # "idle" /\ SamePhase(o, s)
<1>1. PlaceOK(s)
  BY DEF PlaceOK, Appends
<1>2. ~AsksFirst(s) /\ ~AsksFirst(o)
  BY DEF AsksFirst
<1>3. Owes(s) = Owes(o)
  BY DEF Owes, PlaceOK
<1>4. s.pc # "idle" /\ SamePhase(o, s)
  BY <1>2 DEF SamePhase, InBatch, Appends
<1> QED
  BY <1>1, <1>2, <1>3, <1>4 DEF View

\* Each quiet step is a quiet move.
LEMMA QuietMoves ==
  ASSUME TInv, NEW t \in Threads, PlaceOK(th[t]), QuietStep(t)
  PROVE  QuietMove(t) /\ UNCHANGED <<db, nextRun, outcome>>
<1>0. UNCHANGED <<db, nextRun, outcome>>
  BY DEF QuietStep, PushBegin, PushEnd, Exhausted, Chat, ChatFails, ChatAnswers,
         ChatCallsTools, ChatThrows, ToolResult, ToolThrows, SetCancel, Appending
<1> DEFINE o == th[t]
           s == th'[t]
<1>1. o \in Thread /\ th \in [Threads -> Thread]
  BY ThreadFacts DEF TInv, TypeOK
<1>2. CASE \/ PushBegin(t) \/ PushEnd(t) \/ Chat(t) \/ ChatThrows(t)
           \/ ToolThrows(t) \/ SetCancel(t)
  <2>1. \A u \in Threads \ {t} : th'[u] = th[u]
    BY <1>1, <1>2 DEF PushBegin, PushEnd, Chat, ChatThrows, ToolThrows, SetCancel
  <2>2. /\ s.run = o.run /\ s.iter = o.iter /\ s.calls = o.calls /\ s.k = o.k /\ s.pend = o.pend
        /\ s.result = o.result
    BY <1>1, <1>2 DEF PushBegin, PushEnd, Chat, ChatThrows, ToolThrows, SetCancel, Thread
  <2>3. /\ o.pc # "idle"
        /\ \/ s.pc = o.pc
           \/ o.pc = "push" /\ s.pc = "pushing"
           \/ o.pc = "pushing" /\ s.pc = "persist"
           \/ o.pc = "loop" /\ s.pc \in {"reply", "throwing"}
           \/ o.pc \in {"reply", "tool"} /\ s.pc = "throwing"
    BY <1>1, <1>2 DEF PushBegin, PushEnd, Chat, ChatThrows, ToolThrows, SetCancel, Thread
  <2> HIDE DEF o, s
  <2>4. PlaceOK(s) /\ View(s) = View(o) /\ s.pc # "idle" /\ SamePhase(o, s)
    BY <2>2, <2>3, QuietPlace DEF o
  <2> QED
    BY <1>0, <2>1, <2>2, <2>3, <2>4 DEF QuietMove, o, s
<1>3. ASSUME NEW m, NEW r, Appending(t, m, r), o.pc \in {"loop", "reply", "tool"},
             \/ m.role = "tool" /\ m.calls = 0 /\ o.pc = "tool"
             \/ m.role = "assistant" /\ m.calls = 0 /\ r \in Finals /\ o.pc # "tool"
      PROVE  QuietMove(t)
  <2>1. s = [o EXCEPT !.pc = "push", !.pend = m, !.result = r]
    BY <1>1, <1>3 DEF Appending
  <2>2. \A u \in Threads \ {t} : th'[u] = th[u]
    BY <1>1, <1>3 DEF Appending
  <2> HIDE DEF s, o
  <2>3. /\ s.pc = "push" /\ s.run = o.run /\ s.iter = o.iter /\ s.k = o.k /\ s.calls = o.calls
        /\ s.pend = m /\ s.result = r
    BY <1>1, <2>1 DEF Thread
  <2>4. PlaceOK(s) /\ View(s) = View(o) /\ s.pc # "idle" /\ SamePhase(o, s)
    BY <1>3, <2>3, AppendPlace DEF o
  <2> QED
    BY <1>3, <2>2, <2>3, <2>4 DEF QuietMove, o, s
<1>4. CASE Exhausted(t) \/ ChatFails(t) \/ ChatAnswers(t)
  <2>1. \A i : Final(t, i).role = "assistant" /\ Final(t, i).calls = 0
    BY DEF Final, Msg
  <2>2. \E i, r : Appending(t, Final(t, i), r) /\ r \in Finals /\ o.pc \in {"loop", "reply"}
    BY <1>4 DEF Exhausted, ChatFails, ChatAnswers, Finals
  <2>3. PICK i, r : Appending(t, Final(t, i), r) /\ r \in Finals /\ o.pc \in {"loop", "reply"}
    BY <2>2
  <2>4. o.pc \in {"loop", "reply", "tool"} /\ o.pc # "tool"
    BY <2>3
  <2> HIDE DEF o
  <2>5. QuietMove(t)
    BY <1>3, <2>1, <2>3, <2>4
  <2> QED
    BY <1>0, <2>5
<1>5. CASE ToolResult(t)
  <2>1. PICK u \in {TRUE, ~AnyBytes} :
          Appending(t, Msg("tool", o.run, o.iter + 1, o.k, 0, u), "none")
    BY <1>5 DEF ToolResult
  <2> DEFINE m == Msg("tool", o.run, o.iter + 1, o.k, 0, u)
  <2>2. m.role = "tool" /\ m.calls = 0
    BY DEF Msg
  <2>3. o.pc = "tool"
    BY <1>5 DEF ToolResult
  <2>4. Appending(t, m, "none")
    BY <2>1
  <2> HIDE DEF m, o
  <2>5. QuietMove(t)
    BY <1>3, <2>2, <2>3, <2>4
  <2> QED
    BY <1>0, <2>5
<1>6. CASE ChatCallsTools(t)
  <2>1. PICK n \in 1 .. MaxCalls :
          th' = [th EXCEPT ![t].pc = "push", ![t].calls = n,
                   ![t].pend = Msg("assistant", o.run, o.iter + 1, 0, n, TRUE)]
    BY <1>6 DEF ChatCallsTools
  <2> DEFINE m == Msg("assistant", o.run, o.iter + 1, 0, n, TRUE)
  <2>2. m.role = "assistant" /\ m.calls = n /\ n \in Nat \ {0}
    BY DEF Msg
  <2>3. o.pc = "reply"
    BY <1>6 DEF ChatCallsTools
  <2>4. s = [o EXCEPT !.pc = "push", !.calls = n, !.pend = m]
    BY <1>1, <2>1
  <2>5. \A u \in Threads \ {t} : th'[u] = th[u]
    BY <1>1, <2>1
  <2> HIDE DEF m, o, s
  <2>6. /\ s.pc = "push" /\ s.run = o.run /\ s.iter = o.iter /\ s.k = o.k /\ s.pend = m
    BY <1>1, <2>4 DEF Thread
  <2>7. PlaceOK(s) /\ View(s) = View(o) /\ s.pc # "idle" /\ SamePhase(o, s)
    BY <2>2, <2>3, <2>6, AppendPlace DEF o
  <2> QED
    BY <1>0, <2>3, <2>5, <2>6, <2>7 DEF QuietMove, o, s
<1> QED
  BY <1>0, <1>2, <1>4, <1>5, <1>6 DEF QuietStep

-----------------------------------------------------------------------------
(* What one step does to the abstract runs *)

\* What RInv says of nextRun, the outcomes and the runs the threads execute.
LEMMA RFacts ==
  ASSUME RInv
  PROVE  /\ nextRun \in Int /\ nextRun >= 1
         /\ outcome \in [Runs -> Outcomes]
         /\ TInv /\ PlacesOK /\ Untold
         /\ \A t \in Threads : th[t].pc = "idle" => th[t].run = 0
         /\ \A t \in Threads : th[t].run \in 0 .. nextRun - 1
<1>1. TInv /\ PlacesOK /\ Untold /\ nextRun \in 1 .. MaxRuns + 1
  BY DEF RInv, IInv, TInv, TypeOK
<1>2. \A t \in Threads : th[t].pc = "idle" => th[t].run = 0
  BY <1>1 DEF PlacesOK, PlaceOK
<1>3. ASSUME NEW t \in Threads PROVE th[t].run \in 0 .. nextRun - 1
  BY <1>1, <1>2, ThreadFacts DEF LocalOK
<1> QED
  BY <1>1, <1>2, <1>3 DEF TInv, TypeOK

\* A thread goes on in its run: this run shows what the thread shows.
LEMMA Stays ==
  ASSUME RInv, NEW t \in Threads, th[t].pc # "idle",
         \A u \in Threads \ {t} : th'[u] = th[u],
         th'[t].run = th[t].run, PlaceOK(th'[t]),
         UNCHANGED <<nextRun, outcome>>
  PROVE  /\ PlacesOK' /\ Untold' /\ th[t].run \in Runs
         /\ AbstractRuns[th[t].run] = View(th[t])
         /\ AbstractRuns' = [AbstractRuns EXCEPT ![th[t].run] = View(th'[t])]
<1> DEFINE r == th[t].run
<1>1. r \in Runs /\ r < nextRun /\ \A u \in Threads : th[u].run = r => u = t
  BY OneThreadPerRun
<1>2. PlacesOK'
  BY RFacts DEF PlacesOK
<1>3. \A u \in Threads : \A q : th'[u].run = q <=> th[u].run = q
  OBVIOUS
<1>4. Untold'
  BY <1>3, RFacts DEF Untold
<1>5. AbstractRun(r) = View(th[t])
  BY <1>1, Doing, RunInIs
<1>6. AbstractRun(r)' = View(th'[t])
  <2>1. RunIn(th', nextRun', outcome', th'[t].run) = View(th'[t])
    BY <1>1, <1>3, Doing
  <2> QED
    BY <2>1, RunInIs
<1>7. ASSUME NEW q \in Runs, q # r PROVE AbstractRun(q)' = AbstractRun(q)
  <2>1. \A u \in Threads : th[u].run = q => View(th[u]) = View(th'[u])
    BY <1>7
  <2>2. RunIn(th, nextRun, outcome, q) = RunIn(th', nextRun', outcome', q)
    BY <1>3, <2>1, Elsewhere
  <2> QED
    BY <2>2, RunInIs
<1> HIDE DEF r
<1>8. AbstractRuns' = [q \in Runs |-> AbstractRun(q)']
  BY DEF AbstractRuns
<1> QED
  BY <1>1, <1>2, <1>4, <1>5, <1>6, <1>7, <1>8 DEF AbstractRuns, r

\* A thread leaves its run: the run shows whether it told its caller a text.
LEMMA Leaves ==
  ASSUME RInv, NEW t \in Threads, th[t].pc # "idle",
         \A u \in Threads \ {t} : th'[u] = th[u], th'[t] = Idle, NEW x,
         outcome'[th[t].run] = x,
         \A q \in Runs \ {th[t].run} : outcome'[q] = outcome[q],
         nextRun' = nextRun
  PROVE  /\ PlacesOK' /\ Untold' /\ th[t].run \in Runs
         /\ AbstractRuns[th[t].run] = View(th[t])
         /\ AbstractRuns' = [AbstractRuns EXCEPT ![th[t].run] =
                               IF x \in Finals THEN Conv!Answered ELSE Conv!Left]
<1> DEFINE v == IF x \in Finals THEN Conv!Answered ELSE Conv!Left
<1>0. PICK r : r = th[t].run
  OBVIOUS
<1>1. r \in Runs /\ r < nextRun /\ \A u \in Threads : th[u].run = r => u = t
  BY <1>0, OneThreadPerRun
<1>2. /\ th'[t] = Idle /\ \A u \in Threads \ {t} : th'[u] = th[u]
      /\ nextRun \in Int /\ r \in Int
      /\ outcome'[r] = x /\ \A q \in Runs \ {r} : outcome'[q] = outcome[q]
  BY <1>0, <1>1, RFacts DEF Runs
<1>3. PlacesOK'
  <2>1. PlaceOK(Idle)
    BY DEF PlaceOK, Idle, Appends
  <2> QED
    BY <1>2, <2>1, RFacts DEF PlacesOK
<1>4. Idle.run = 0 /\ \A q \in Runs : q # 0
  BY DEF Idle, Runs
<1>5. \A u \in Threads : th'[u].run # r
  BY <1>1, <1>2, <1>4
<1>6. Untold'
  <2> SUFFICES ASSUME NEW q \in Runs,
                      q >= nextRun \/ \E u \in Threads : th'[u].run = q
               PROVE  outcome'[q] \notin Finals
    BY DEF Untold
  <2>1. q # r
    BY <1>1, <1>2, <1>5
  <2>2. \A u \in Threads : th'[u].run = q => th[u].run = q
    BY <1>2, <1>4
  <2>3. q >= nextRun \/ \E u \in Threads : th[u].run = q
    BY <2>2
  <2>4. outcome[q] \notin Finals
    <3>1. Untold
      BY <1>0, RFacts
    <3> QED
      BY <2>3, <3>1 DEF Untold
  <2>5. outcome'[q] = outcome[q]
    BY <1>2, <2>1, Zenon
  <2> QED
    BY <2>4, <2>5
<1>7. AbstractRun(r) = View(th[t])
  BY <1>0, <1>1, Doing, RunInIs
<1>8. AbstractRun(r)' = v
  <2>1. RunIn(th', nextRun', outcome', r) =
          IF r >= nextRun' THEN Conv!New
          ELSE IF outcome'[r] \in Finals THEN Conv!Answered ELSE Conv!Left
    <3>1. nextRun' \in Int /\ r \in Int
      BY <1>2
    <3> QED
      BY <1>5, <3>1, NotDoing
  <2>2. ~(r >= nextRun') /\ outcome'[r] = x
    BY <1>1, <1>2
  <2> QED
    BY <2>1, <2>2, RunInIs
<1>9. ASSUME NEW q \in Runs, q # r PROVE AbstractRun(q)' = AbstractRun(q)
  <2>1. \A u \in Threads : th[u].run = q <=> th'[u].run = q
    BY <1>0, <1>2, <1>4, <1>9
  <2>2. \A u \in Threads : th[u].run = q => View(th[u]) = View(th'[u])
    BY <1>0, <1>2, <1>4, <1>9
  <2>3. RunIn(th, nextRun, outcome, q) = RunIn(th', nextRun', outcome', q)
    <3>1. outcome[q] = outcome'[q] /\ nextRun' = nextRun
      BY <1>2, <1>9
    <3> QED
      BY <2>1, <2>2, <3>1, Elsewhere
  <2> QED
    BY <2>3, RunInIs
<1> HIDE DEF v
<1>10. AbstractRuns' = [q \in Runs |-> AbstractRun(q)']
  BY DEF AbstractRuns
<1>11. AbstractRuns' = [AbstractRuns EXCEPT ![r] = v]
  BY <1>1, <1>8, <1>9, <1>10 DEF AbstractRuns
<1> QED
  BY <1>0, <1>1, <1>3, <1>6, <1>7, <1>11 DEF AbstractRuns, v

-----------------------------------------------------------------------------
(* The step that stores a row *)

\* add_message writes the entry that m is, or loses it.
LEMMA WritesEntry ==
  ASSUME TInv, NEW m \in Message, AddMessage(m)
  PROVE  Conv!Write(m.run, LogKind(m), m.calls)
<1> DEFINE e == Conv!Entry(m.run, LogKind(m), m.calls)
<1>0. db \in Seq(Message)
  BY DEF TInv, TypeOK
<1>1. ASSUME db' = Append(db, m) PROVE AbstractLog' = Append(AbstractLog, e)
  <2> DEFINE Row(x) == [run |-> x.run, kind |-> LogKind(x), n |-> x.calls]
             log == [p \in 1 .. Len(db) |-> Row(db[p])]
  <2>1. /\ Len(db') = Len(db) + 1 /\ Len(db) \in Nat
        /\ \A p \in 1 .. Len(db) : db'[p] = db[p]
        /\ db'[Len(db) + 1] = m
    BY <1>0, <1>1, AppendProperties
  <2>2. AbstractLog = log /\ AbstractLog' = [p \in 1 .. Len(db') |-> Row(db'[p])]
    BY DEF AbstractLog, LogKind
  <2>3. e = Row(m)
    BY DEF Conv!Entry
  <2> HIDE DEF Row, e
  <2>4. log \in Seq({Row(db[p]) : p \in 1 .. Len(db)}) /\ Len(log) = Len(db)
    BY <2>1
  <2>5. Append(log, e) = [p \in 1 .. Len(db) + 1 |->
                            IF p = Len(db) + 1 THEN e ELSE Row(db[p])]
    BY <2>1, <2>4
  <2>6. [p \in 1 .. Len(db') |-> Row(db'[p])]
          = [p \in 1 .. Len(db) + 1 |-> IF p = Len(db) + 1 THEN e ELSE Row(db[p])]
    BY <2>1, <2>3
  <2> QED
    BY <2>2, <2>5, <2>6
<1>2. ASSUME db' = db PROVE AbstractLog' = AbstractLog
  BY <1>2 DEF AbstractLog, LogKind
<1> QED
  BY <1>1, <1>2 DEF AddMessage, Conv!Write, Conv!Entry

\* Where run() goes once the message of o is stored.
LEMMA ContinuesAs ==
  ASSUME NEW o \in Thread, o.pc = "persist", PendOK(o), PlaceOK(o), NEW s, s = Continue(o)
  PROVE  \/ /\ o.pend.role = "user" /\ o.pend.calls = 0
            /\ View(o) = Conv!Asking /\ View(s) = Conv!Owing(0)
            /\ s.pc # "idle" /\ s.run = o.run /\ PlaceOK(s)
         \/ /\ o.pend.role = "tool" /\ o.pend.calls = 0
            /\ Owes(o) > 0
            /\ View(o) = Conv!Owing(Owes(o)) /\ View(s) = Conv!Owing(Owes(o) - 1)
            /\ s.pc # "idle" /\ s.run = o.run /\ PlaceOK(s)
         \/ /\ o.pend.role = "assistant" /\ o.pend.calls \in 1 .. MaxCalls
            /\ View(o) = Conv!Owing(0) /\ View(s) = Conv!Owing(o.pend.calls)
            /\ s.pc # "idle" /\ s.run = o.run /\ PlaceOK(s)
         \/ /\ o.pend.role = "assistant" /\ o.pend.calls = 0
            /\ View(o) = Conv!Owing(0) /\ s = Idle /\ o.result \in Finals
<1>1. /\ o.pend.calls \in 0 .. MaxCalls /\ o.k \in 0 .. MaxCalls
      /\ o.calls \in 0 .. MaxCalls /\ o.iter \in 0 .. MaxIterations
  BY DEF Thread, Message
<1>2. CASE o.pend.role = "user"
  <2>1. s = [o EXCEPT !.pc = "loop"]
    BY <1>2 DEF Continue
  <2>2. o.k = 0 /\ o.pend.calls = 0
    BY <1>2 DEF PlaceOK, Appends
  <2>3. s.pc = "loop" /\ s.k = 0 /\ s.run = o.run
    BY <2>1, <2>2 DEF Thread
  <2>4. PlaceOK(s)
    BY <2>3 DEF PlaceOK, Appends
  <2>5. View(o) = Conv!Asking
    BY <1>2 DEF View, AsksFirst
  <2>6. View(s) = Conv!Owing(0)
    BY <2>3 DEF View, AsksFirst, Owes
  <2> QED
    BY <1>2, <2>2, <2>3, <2>4, <2>5, <2>6
<1>3. CASE o.pend.role = "tool"
  <2>1. o.k \in 1 .. o.calls /\ o.pend.calls = 0
    BY <1>3 DEF PlaceOK, PendOK, Appends
  <2>2. Owes(o) = o.calls - o.k + 1 /\ Owes(o) > 0
    BY <1>1, <2>1 DEF Owes
  <2>3. View(o) = Conv!Owing(Owes(o))
    BY <1>3 DEF View, AsksFirst
  <2>4. CASE o.k < o.calls
    <3>0. ~(o.k >= o.calls)
      BY <1>1, <2>4
    <3>1. s = [o EXCEPT !.pc = "tool", !.k = @ + 1]
      BY <1>3, <2>4, <3>0 DEF Continue
    <3>2. s.pc = "tool" /\ s.k = o.k + 1 /\ s.calls = o.calls /\ s.run = o.run
      BY <3>1 DEF Thread
    <3>3. PlaceOK(s)
      BY <3>2 DEF PlaceOK, Appends
    <3>4. Owes(s) = Owes(o) - 1
      BY <1>1, <2>1, <2>2, <3>2 DEF Owes
    <3>5. View(s) = Conv!Owing(Owes(o) - 1)
      BY <3>2, <3>4 DEF View, AsksFirst
    <3> QED
      BY <1>3, <2>1, <2>2, <2>3, <3>2, <3>3, <3>5
  <2>5. CASE o.k >= o.calls
    <3>0. ~(o.k < o.calls) /\ o.k = o.calls
      BY <1>1, <2>1, <2>5
    <3>1. s = [o EXCEPT !.pc = "loop", !.iter = @ + 1, !.calls = 0, !.k = 0]
      BY <1>3, <2>5, <3>0 DEF Continue
    <3>2. s.pc = "loop" /\ s.k = 0 /\ s.run = o.run
      BY <3>1 DEF Thread
    <3>3. PlaceOK(s)
      BY <3>2 DEF PlaceOK, Appends
    <3>4. Owes(s) = 0 /\ Owes(o) - 1 = 0
      BY <1>1, <2>2, <3>0, <3>2 DEF Owes
    <3>5. View(s) = Conv!Owing(Owes(o) - 1)
      BY <3>2, <3>4 DEF View, AsksFirst
    <3> QED
      BY <1>3, <2>1, <2>2, <2>3, <3>2, <3>3, <3>5
  <2> QED
    BY <1>1, <2>4, <2>5
<1>4. CASE o.pend.role = "assistant"
  <2>1. o.k = 0
    BY <1>4 DEF PlaceOK, Appends
  <2>2. View(o) = Conv!Owing(0)
    BY <1>4, <2>1 DEF View, AsksFirst, Owes
  <2>3. CASE o.pend.calls > 0
    <3>1. s = [o EXCEPT !.pc = "tool", !.k = 1]
      BY <1>4, <2>3 DEF Continue
    <3>2. s.pc = "tool" /\ s.k = 1 /\ s.calls = o.calls /\ s.run = o.run
      BY <3>1 DEF Thread
    <3>3. PlaceOK(s)
      BY <3>2 DEF PlaceOK, Appends
    <3>4. o.calls = o.pend.calls
      BY <1>4, <2>3 DEF PendOK
    <3>5. Owes(s) = o.pend.calls
      BY <1>1, <3>2, <3>4 DEF Owes
    <3>6. View(s) = Conv!Owing(o.pend.calls)
      BY <3>2, <3>5 DEF View, AsksFirst
    <3> QED
      BY <1>1, <1>4, <2>2, <2>3, <3>2, <3>3, <3>6
  <2>4. CASE o.pend.calls = 0
    <3>1. s = Idle
      BY <1>4, <2>4 DEF Continue
    <3>2. o.result \in Finals
      BY <1>4, <2>4 DEF PlaceOK, Appends
    <3> QED
      BY <1>4, <2>2, <2>4, <3>1, <3>2
  <2> QED
    BY <1>1, <2>3, <2>4
<1> QED
  BY <1>2, <1>3, <1>4 DEF PendOK

\* Persist writes the next entry of its run and takes the run past it.
LEMMA PersistRefines ==
  ASSUME RInv, NEW t \in Threads, Persist(t)
  PROVE  PlacesOK' /\ Untold' /\ Conv!Next
<1>0. TInv /\ PlaceOK(th[t])
  BY RFacts DEF PlacesOK
<1>1. PICK o \in Thread : o = th[t]
  BY <1>0, ThreadFacts
<1>2. PICK s \in Thread : s = Continue(o)
  BY <1>0, <1>1, PersistMoves
<1>3. /\ o.pc = "persist" /\ o.pend \in Message /\ PendOK(o)
      /\ th' = [th EXCEPT ![t] = s]
      /\ LocalOK(o, nextRun)
  BY <1>0, <1>1, <1>2, ThreadFacts DEF Persist, LocalOK, Appends, Thread
<1>4. /\ th'[t] = s /\ \A u \in Threads \ {t} : th'[u] = th[u]
      /\ nextRun' = nextRun /\ o.pend.run = o.run
      /\ AddMessage(o.pend)
      /\ outcome' = IF s.pc = "idle" THEN [outcome EXCEPT ![o.run] = o.result]
                    ELSE outcome
  BY <1>0, <1>1, <1>2, <1>3 DEF Persist, PendOK, TInv, TypeOK
<1>5. Conv!Write(o.run, LogKind(o.pend), o.pend.calls)
  BY <1>0, <1>3, <1>4, WritesEntry
<1>6. /\ s.pc # "idle" /\ s.run = o.run /\ PlaceOK(s) =>
           /\ PlacesOK' /\ Untold' /\ o.run \in Runs
           /\ AbstractRuns[o.run] = View(o)
           /\ AbstractRuns' = [AbstractRuns EXCEPT ![o.run] = View(s)]
  <2> SUFFICES ASSUME s.pc # "idle", s.run = o.run, PlaceOK(s)
               PROVE  /\ PlacesOK' /\ Untold' /\ th[t].run \in Runs
                      /\ AbstractRuns[th[t].run] = View(th[t])
                      /\ AbstractRuns' = [AbstractRuns EXCEPT ![th[t].run] = View(th'[t])]
    BY <1>1, <1>4
  <2>1. th[t].pc # "idle" /\ th'[t].run = th[t].run /\ PlaceOK(th'[t])
    BY <1>1, <1>3, <1>4
  <2>2. UNCHANGED <<nextRun, outcome>>
    BY <1>4
  <2> QED
    BY <1>4, <2>1, <2>2, Stays
<1>7. CASE /\ o.pend.role = "user" /\ o.pend.calls = 0
           /\ View(o) = Conv!Asking /\ View(s) = Conv!Owing(0)
           /\ s.pc # "idle" /\ s.run = o.run /\ PlaceOK(s)
  <2>1. LogKind(o.pend) = "question"
    BY <1>7 DEF LogKind
  <2>2. Conv!Question(o.run)
    BY <1>5, <1>6, <1>7, <2>1 DEF Conv!Question, Conv!Becomes, AbstractRuns
  <2> QED
    BY <1>6, <1>7, <2>2 DEF Conv!Next
<1>8. CASE /\ o.pend.role = "tool" /\ o.pend.calls = 0
           /\ Owes(o) > 0
           /\ View(o) = Conv!Owing(Owes(o)) /\ View(s) = Conv!Owing(Owes(o) - 1)
           /\ s.pc # "idle" /\ s.run = o.run /\ PlaceOK(s)
  <2>1. LogKind(o.pend) = "result"
    BY <1>8 DEF LogKind
  <2>2. AbstractRuns[o.run].pc = "working" /\ AbstractRuns[o.run].owes = Owes(o)
    BY <1>6, <1>8 DEF Conv!Owing
  <2>3. Conv!Result(o.run)
    BY <1>5, <1>6, <1>8, <2>1, <2>2 DEF Conv!Result, Conv!Becomes, AbstractRuns
  <2> QED
    BY <1>6, <1>8, <2>3 DEF Conv!Next
<1>9. CASE /\ o.pend.role = "assistant" /\ o.pend.calls \in 1 .. MaxCalls
           /\ View(o) = Conv!Owing(0) /\ View(s) = Conv!Owing(o.pend.calls)
           /\ s.pc # "idle" /\ s.run = o.run /\ PlaceOK(s)
  <2>1. LogKind(o.pend) = "call"
    BY <1>9 DEF LogKind
  <2>2. Conv!Call(o.run)
    BY <1>5, <1>6, <1>9, <2>1 DEF Conv!Call, Conv!Becomes, AbstractRuns
  <2> QED
    BY <1>6, <1>9, <2>2 DEF Conv!Next
<1>10. CASE /\ o.pend.role = "assistant" /\ o.pend.calls = 0
            /\ View(o) = Conv!Owing(0) /\ s = Idle /\ o.result \in Finals
  <2>1. LogKind(o.pend) = "answer"
    BY <1>10 DEF LogKind
  <2>2. /\ PlacesOK' /\ Untold' /\ o.run \in Runs
        /\ AbstractRuns[o.run] = View(o)
        /\ AbstractRuns' = [AbstractRuns EXCEPT ![o.run] = Conv!Answered]
    <3>1. outcome' = [outcome EXCEPT ![o.run] = o.result]
      BY <1>4, <1>10 DEF Idle
    <3>2. th[t].pc # "idle" /\ th[t].run \in Runs
      BY <1>0, <1>1, <1>3, OneThreadPerRun
    <3>3. /\ outcome'[th[t].run] = o.result
          /\ \A q \in Runs \ {th[t].run} : outcome'[q] = outcome[q]
      BY <1>1, <3>1, <3>2, RFacts
    <3>4. /\ PlacesOK' /\ Untold' /\ th[t].run \in Runs
          /\ AbstractRuns[th[t].run] = View(th[t])
          /\ AbstractRuns' = [AbstractRuns EXCEPT ![th[t].run] =
                       IF o.result \in Finals THEN Conv!Answered ELSE Conv!Left]
      BY <1>4, <1>10, <3>2, <3>3, Leaves
    <3> QED
      BY <1>1, <1>10, <3>4
  <2>3. Conv!Answer(o.run)
    BY <1>5, <1>10, <2>1, <2>2 DEF Conv!Answer, Conv!Becomes, AbstractRuns
  <2> QED
    BY <2>2, <2>3 DEF Conv!Next
<1>11. PlaceOK(o)
  BY <1>0, <1>1
<1> QED
  BY <1>2, <1>3, <1>7, <1>8, <1>9, <1>10, <1>11, ContinuesAs

-----------------------------------------------------------------------------
(* The other steps *)

\* A new run asks its question first.
LEMMA RunRefines ==
  ASSUME RInv, NEW t \in Threads, Run(t)
  PROVE  PlacesOK' /\ Untold' /\ Conv!Next
<1>0. PICK r : r = nextRun
  OBVIOUS
<1>1. /\ r \in Runs /\ r \in Int /\ nextRun' = r + 1 /\ outcome' = outcome
      /\ th[t].run = 0 /\ \A u \in Threads : th[u].run \in 0 .. r - 1
  BY <1>0, RFacts DEF Run, Runs
<1>2. /\ th'[t].pc = "push" /\ th'[t].run = r /\ th'[t].k = 0
      /\ th'[t].pend.role = "user" /\ th'[t].pend.calls = 0
      /\ \A u \in Threads \ {t} : th'[u] = th[u]
  BY <1>0, RFacts DEF Run, TInv, TypeOK, Idle, Msg
<1>3. PlacesOK'
  <2>1. PlaceOK(th'[t])
    BY <1>2 DEF PlaceOK, Appends
  <2> QED
    BY <1>2, <2>1, RFacts DEF PlacesOK
<1>4. Untold'
  <2> SUFFICES ASSUME NEW q \in Runs,
                      q >= nextRun' \/ \E u \in Threads : th'[u].run = q
               PROVE  outcome'[q] \notin Finals
    BY DEF Untold
  <2>1. q >= r \/ \E u \in Threads : th[u].run = q
    BY <1>1, <1>2 DEF Runs
  <2> QED
    BY <1>0, <1>1, <2>1, RFacts DEF Untold
<1>5. AbstractRun(r) = Conv!New
  <2>1. \A u \in Threads : th[u].run # r
    BY <1>1
  <2>2. RunIn(th, nextRun, outcome, r) = Conv!New
    <3>1. nextRun \in Int /\ r >= nextRun
      BY <1>0, <1>1
    <3> QED
      BY <1>1, <2>1, <3>1, NotDoing
  <2> QED
    BY <2>2, RunInIs
<1>6. AbstractRun(r)' = Conv!Asking
  <2>1. \A u \in Threads : th'[u].run = th'[t].run => u = t
    BY <1>1, <1>2
  <2>2. RunIn(th', nextRun', outcome', th'[t].run) = View(th'[t])
    BY <2>1, Doing
  <2>3. View(th'[t]) = Conv!Asking
    BY <1>2 DEF View, AsksFirst
  <2> QED
    BY <1>2, <2>2, <2>3, RunInIs
<1>7. ASSUME NEW q \in Runs, q # r PROVE AbstractRun(q)' = AbstractRun(q)
  <2>0. q \in Int /\ q # 0
    BY DEF Runs
  <2>1. \A u \in Threads : th[u].run = q <=> th'[u].run = q
    BY <1>1, <1>2, <1>7, <2>0
  <2>2. \A u \in Threads : th[u].run = q => View(th[u]) = View(th'[u])
    BY <1>1, <1>2, <2>0
  <2>3. (q >= nextRun <=> q >= nextRun') /\ (q < nextRun <=> q < nextRun')
    BY <1>0, <1>1, <1>7, <2>0
  <2>4. RunIn(th, nextRun, outcome, q) = RunIn(th', nextRun', outcome', q)
    BY <1>1, <2>1, <2>2, <2>3, Elsewhere
  <2> QED
    BY <2>4, RunInIs
<1>8. AbstractRuns' = [q \in Runs |-> AbstractRun(q)']
  BY DEF AbstractRuns
<1>9. AbstractRuns' = [AbstractRuns EXCEPT ![r] = Conv!Asking]
  BY <1>1, <1>6, <1>7, <1>8 DEF AbstractRuns
<1>10. AbstractRuns[r] = Conv!New
  BY <1>1, <1>5 DEF AbstractRuns
<1>11. AbstractLog' = AbstractLog
  BY DEF Run, AbstractLog, LogKind
<1>12. Conv!Begin(r)
  BY <1>9, <1>10, <1>11 DEF Conv!Begin, Conv!Becomes, AbstractRuns
<1> QED
  BY <1>1, <1>3, <1>4, <1>12 DEF Conv!Next

\* A run that ends without its answer gives up.
LEMMA LeaveRefines ==
  ASSUME RInv, NEW t \in Threads, Cancelled(t) \/ Unwind(t)
  PROVE  PlacesOK' /\ Untold' /\ Conv!Next
<1>1. PICK r : r = th[t].run
  OBVIOUS
<1>2. PICK x : /\ x \notin Finals
               /\ outcome' = [outcome EXCEPT ![th[t].run] = x]
               /\ th' = [th EXCEPT ![t] = Idle]
  BY DEF Cancelled, Unwind, Returning, Finals
<1>3. th[t].pc \in {"loop", "throwing"} /\ UNCHANGED <<nextRun, db>>
  BY DEF Cancelled, Unwind
<1>4. r \in Runs
  BY <1>1, <1>3, OneThreadPerRun
<1>5. /\ th'[t] = Idle /\ \A u \in Threads \ {t} : th'[u] = th[u]
      /\ outcome'[th[t].run] = x
      /\ \A q \in Runs \ {th[t].run} : outcome'[q] = outcome[q]
  BY <1>1, <1>2, <1>4, RFacts DEF TInv, TypeOK
<1>6. /\ PlacesOK' /\ Untold'
      /\ AbstractRuns[th[t].run] = View(th[t])
      /\ AbstractRuns' = [AbstractRuns EXCEPT ![th[t].run] =
                            IF x \in Finals THEN Conv!Answered ELSE Conv!Left]
  <2>1. th[t].pc # "idle" /\ nextRun' = nextRun
    BY <1>3
  <2> QED
    BY <1>5, <2>1, Leaves
<1>7. AbstractRuns' = [AbstractRuns EXCEPT ![r] = Conv!Left]
  BY <1>1, <1>2, <1>6
<1>8. AbstractRuns[r].pc = "working"
  <2>1. ~AsksFirst(th[t])
    BY <1>3 DEF AsksFirst
  <2> QED
    BY <1>1, <1>6, <2>1 DEF View, Conv!Owing
<1>9. AbstractLog' = AbstractLog
  BY <1>3 DEF AbstractLog, LogKind
<1>10. Conv!GiveUp(r)
  BY <1>7, <1>8, <1>9 DEF Conv!GiveUp, Conv!Becomes, AbstractRuns
<1> QED
  BY <1>4, <1>6, <1>10 DEF Conv!Next

\* A crash ends every run that is not over.
LEMMA CrashRefines ==
  ASSUME RInv, Crash
  PROVE  PlacesOK' /\ Untold' /\ Conv!Next
<1>1. /\ \A u \in Threads : th'[u] = Idle
      /\ UNCHANGED <<db, nextRun, outcome>>
  BY DEF Crash
<1>2. Idle.run = 0 /\ \A q \in Runs : q \in Int /\ q # 0
  BY DEF Idle, Runs
<1>3. PlacesOK'
  <2>1. PlaceOK(Idle)
    BY DEF PlaceOK, Idle, Appends
  <2> QED
    BY <1>1, <2>1 DEF PlacesOK
<1>4. Untold'
  <2>1. \A q \in Runs, u \in Threads : th'[u].run # q
    BY <1>1, <1>2
  <2> QED
    BY <1>1, <2>1, RFacts DEF Untold
<1>5. ASSUME NEW q \in Runs
      PROVE  AbstractRun(q)' = IF AbstractRun(q).pc \in {"asking", "working"}
                               THEN Conv!Left ELSE AbstractRun(q)
  <2> DEFINE v == IF q >= nextRun THEN Conv!New
                  ELSE IF outcome[q] \in Finals THEN Conv!Answered ELSE Conv!Left
  <2>0. q \in Int /\ nextRun \in Int
    BY <1>2, RFacts
  <2>1. AbstractRun(q)' = v
    <3>1. \A u \in Threads : th'[u].run # q
      BY <1>1, <1>2
    <3>2. nextRun' \in Int
      BY <1>1, <2>0
    <3>3. RunIn(th', nextRun', outcome', q) =
            IF q >= nextRun' THEN Conv!New
            ELSE IF outcome'[q] \in Finals THEN Conv!Answered ELSE Conv!Left
      BY <2>0, <3>1, <3>2, NotDoing
    <3> QED
      BY <1>1, <3>3, RunInIs
  <2>2. CASE \A u \in Threads : th[u].run # q
    <3>1. RunIn(th, nextRun, outcome, q) = v
      BY <2>0, <2>2, NotDoing
    <3>2. v.pc \notin {"asking", "working"}
      BY DEF Conv!New, Conv!Answered, Conv!Left
    <3> QED
      BY <2>1, <3>1, <3>2, RunInIs
  <2>3. CASE \E u \in Threads : th[u].run = q
    <3>1. PICK u \in Threads : th[u].run = q
      BY <2>3
    <3>2. th[u].pc # "idle"
      BY <1>2, <3>1, RFacts
    <3>3. q < nextRun /\ \A w \in Threads : th[w].run = th[u].run => w = u
      BY <3>1, <3>2, OneThreadPerRun
    <3>4. RunIn(th, nextRun, outcome, th[u].run) = View(th[u])
      BY <3>3, Doing
    <3>5. View(th[u]).pc \in {"asking", "working"}
      BY DEF View, Conv!Asking, Conv!Owing
    <3>6. v = Conv!Left
      BY <2>0, <2>3, <3>3, RFacts DEF Untold
    <3> QED
      BY <2>1, <3>1, <3>4, <3>5, <3>6, RunInIs
  <2> QED
    BY <2>2, <2>3
<1>6. AbstractLog' = AbstractLog
  BY <1>1 DEF AbstractLog, LogKind
<1>7. AbstractRuns' = [q \in Runs |-> AbstractRun(q)']
  BY DEF AbstractRuns
<1>8. AbstractRuns' = [q \in Runs |-> IF AbstractRuns[q].pc \in {"asking", "working"}
                                     THEN Conv!Left ELSE AbstractRuns[q]]
  BY <1>5, <1>7 DEF AbstractRuns
<1>9. Conv!Crash
  BY <1>6, <1>8 DEF Conv!Crash, AbstractRuns
<1> QED
  BY <1>3, <1>4, <1>9 DEF Conv!Next

\* The abstract log does not see a quiet step.
LEMMA QuietRefines ==
  ASSUME RInv, NEW t \in Threads, QuietStep(t)
  PROVE  PlacesOK' /\ Untold' /\ UNCHANGED Conv!vars
<1>1. QuietMove(t) /\ UNCHANGED <<db, nextRun, outcome>>
  BY QuietMoves, RFacts DEF PlacesOK
<1>2. /\ PlacesOK' /\ Untold' /\ th[t].run \in Runs
      /\ AbstractRuns[th[t].run] = View(th[t])
      /\ AbstractRuns' = [AbstractRuns EXCEPT ![th[t].run] = View(th'[t])]
  BY <1>1, Stays DEF QuietMove, SamePhase
<1>3. View(th'[t]) = View(th[t])
  BY <1>1 DEF QuietMove
<1>4. AbstractRuns' = AbstractRuns
  BY <1>2, <1>3 DEF AbstractRuns
<1>5. AbstractLog' = AbstractLog
  BY <1>1 DEF AbstractLog, LogKind
<1> QED
  BY <1>2, <1>4, <1>5 DEF Conv!vars, AbstractRuns

\* Nor one that changes neither a thread nor the table.
LEMMA StutterRefines ==
  ASSUME RInv, UNCHANGED <<th, db, nextRun, outcome>>
  PROVE  PlacesOK' /\ Untold' /\ UNCHANGED Conv!vars
<1>1. PlacesOK' /\ Untold'
  BY RFacts DEF PlacesOK, Untold
<1>2. AbstractLog' = AbstractLog
  BY DEF AbstractLog, LogKind
<1>3. ASSUME NEW r \in Runs PROVE AbstractRun(r)' = AbstractRun(r)
  BY RunInIs
<1> QED
  BY <1>1, <1>2, <1>3 DEF Conv!vars

\* Every step of Agent is a step of Conversation or a stutter.
LEMMA StepRefines == RInv /\ [Next]_vars => RInv' /\ [Conv!Next]_(Conv!vars)
<1> SUFFICES ASSUME RInv, [Next]_vars
             PROVE  RInv' /\ [Conv!Next]_(Conv!vars)
  OBVIOUS
<1>0. IInv'
  BY NextIInv DEF RInv
<1> SUFFICES PlacesOK' /\ Untold' /\ [Conv!Next]_(Conv!vars)
  BY <1>0 DEF RInv
<1>1. CASE Boot \/ Waiting \/ UNCHANGED vars
  <2>1. UNCHANGED <<th, db, nextRun, outcome>>
    BY <1>1 DEF Boot, Waiting, vars
  <2> QED
    BY <2>1, StutterRefines
<1>2. CASE Crash
  BY <1>2, CrashRefines
<1>3. ASSUME NEW t \in Threads, Run(t)
      PROVE  PlacesOK' /\ Untold' /\ Conv!Next
  BY <1>3, RunRefines
<1>4. ASSUME NEW t \in Threads, Persist(t)
      PROVE  PlacesOK' /\ Untold' /\ Conv!Next
  BY <1>4, PersistRefines
<1>5. ASSUME NEW t \in Threads, Cancelled(t) \/ Unwind(t)
      PROVE  PlacesOK' /\ Untold' /\ Conv!Next
  BY <1>5, LeaveRefines
<1>6. ASSUME NEW t \in Threads, QuietStep(t)
      PROVE  PlacesOK' /\ Untold' /\ UNCHANGED Conv!vars
  BY <1>6, QuietRefines
<1> QED
  BY <1>1, <1>2, <1>3, <1>4, <1>5, <1>6 DEF Next, ThreadStep, QuietStep

\* The initial states of Agent are initial states of Conversation.
LEMMA InitRefines == Init => RInv /\ Conv!Init
<1> SUFFICES ASSUME Init PROVE RInv /\ Conv!Init
  OBVIOUS
<1>1. /\ \A t \in Threads : th[t] = Idle
      /\ db = << >> /\ nextRun = 1 /\ outcome = [r \in Runs |-> "none"]
  BY DEF Init
<1>2. PlacesOK
  <2>1. PlaceOK(Idle)
    BY DEF PlaceOK, Idle, Appends
  <2> QED
    BY <1>1, <2>1 DEF PlacesOK
<1>3. Untold
  BY <1>1 DEF Untold, Finals
<1>4. ASSUME NEW r \in Runs PROVE AbstractRun(r) = Conv!New
  <2>1. r \in Int /\ r >= nextRun /\ nextRun \in Int /\ \A t \in Threads : th[t].run # r
    BY <1>1 DEF Runs, Idle
  <2>2. RunIn(th, nextRun, outcome, r) = Conv!New
    BY <2>1, NotDoing
  <2> QED
    BY <2>2, RunInIs
<1>5. AbstractLog = << >>
  BY <1>1 DEF AbstractLog
<1> QED
  BY <1>2, <1>3, <1>4, <1>5, InitIInv DEF RInv, Conv!Init

\* The rows of the table and what run() returns are a conversation, with any
\* number of request threads, runs and restarts and whatever the LLM answers:
\* each call is written with its results behind it and nothing else of its run
\* in between, nothing is written for a run that is over, and run() returns a
\* text only after writing the entry that holds it.  With LossyStore a write
\* may leave no row; it still takes the run on.
THEOREM StoresConversation == Spec => Conv!Spec
<1>1. Init => RInv /\ Conv!Init
  BY InitRefines
<1>2. RInv /\ [Next]_vars => RInv' /\ [Conv!Next]_(Conv!vars)
  BY StepRefines
<1> QED
  BY <1>1, <1>2, PTL DEF Spec, Conv!Spec

=============================================================================
