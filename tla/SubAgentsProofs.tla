--------------------------- MODULE SubAgentsProofs ---------------------------
(***************************************************************************)
(* Proofs about SubAgents, for any numbers of requests, iterations, calls  *)
(* and agents.  With any number of threads: what a client request can cost *)
(* is bounded although every agent may spawn others; and whatever the race *)
(* on the counter of ids does, the Monitor lists every agent that runs.    *)
(* With one thread: over all requests of the process, and after exceptions, *)
(* no id is given twice, and the Monitor's table of agents tells the truth. *)
(***************************************************************************)
EXTENDS SubAgents, SequenceTheorems, FoldTheorems

USE SubAgentsAssumption

-----------------------------------------------------------------------------
(* The bound *)

\* What Work is for b, if it is f for the numbers below.
WorkStep(f, b) == IF b = 0 THEN 0 ELSE b * (1 + MaxCalls * f[b \div 2])

IsWork(f, n) ==
  /\ f \in [0 .. n -> Nat]
  /\ \A b \in 0 .. n : f[b] = WorkStep(f, b)

\* The recursion ends: there is a function that the definition of Work names.
LEMMA WorkExists ==
  ASSUME NEW n \in Nat
  PROVE  \E f : IsWork(f, n)
<1> DEFINE S == {m \in Nat : \E f : IsWork(f, m)}
<1>1. 0 \in S
  <2>1. IsWork([b \in 0 .. 0 |-> 0], 0)
    BY DEF IsWork, WorkStep
  <2> QED BY <2>1
<1>2. ASSUME NEW m \in S
      PROVE  m + 1 \in S
  <2>1. PICK f : IsWork(f, m)
    OBVIOUS
  <2> DEFINE last == WorkStep(f, m + 1)
             g == [b \in 0 .. m + 1 |-> IF b = m + 1 THEN last ELSE f[b]]
  <2>2. (m + 1) \div 2 \in 0 .. m
    OBVIOUS
  <2>3. last \in Nat
    <3>1. f[(m + 1) \div 2] \in Nat
      BY <2>1, <2>2 DEF IsWork
    <3>2. MaxCalls * f[(m + 1) \div 2] \in Nat
      BY <3>1, OneMore
    <3>3. 1 + MaxCalls * f[(m + 1) \div 2] \in Nat
      BY <3>2
    <3> QED BY <3>3, OneMore DEF WorkStep
  <2>4. g \in [0 .. m + 1 -> Nat]
    <3> HIDE DEF last
    <3> QED BY <2>1, <2>3 DEF IsWork
  <2>5. ASSUME NEW b \in 0 .. m + 1
        PROVE  g[b] = WorkStep(g, b)
    <3>1. b # 0 => b \div 2 \in 0 .. m
      OBVIOUS
    <3>2. b # 0 => g[b \div 2] = f[b \div 2]
      BY <3>1
    <3>3. WorkStep(g, b) = WorkStep(f, b)
      BY <3>2 DEF WorkStep
    <3>4. b # m + 1 => f[b] = WorkStep(f, b)
      BY <2>1 DEF IsWork
    <3> QED BY <3>3, <3>4
  <2>6. IsWork(g, m + 1)
    BY <2>4, <2>5 DEF IsWork
  <2> QED BY <2>6
<1> HIDE DEF S
<1>3. S \in SUBSET Nat
  BY DEF S
<1>4. n \in S
  BY <1>1, <1>2, <1>3, InductionOnSets
<1> QED BY <1>4 DEF S

LEMMA WorkDef ==
  /\ Work \in [0 .. MaxIterations -> Nat]
  /\ \A b \in 0 .. MaxIterations :
       Work[b] = IF b = 0 THEN 0 ELSE b * (1 + MaxCalls * Work[b \div 2])
<1>1. PICK f : IsWork(f, MaxIterations)
  BY WorkExists
<1>2. f = [b \in 0 .. MaxIterations |->
             IF b = 0 THEN 0 ELSE b * (1 + MaxCalls * f[b \div 2])]
  BY <1>1 DEF IsWork, WorkStep
<1>3. Work = [b \in 0 .. MaxIterations |->
                IF b = 0 THEN 0 ELSE b * (1 + MaxCalls * Work[b \div 2])]
  BY <1>2 DEF Work
<1> DEFINE S == {m \in Nat : \A b \in 0 .. MaxIterations : b <= m => Work[b] \in Nat}
<1>4. 0 \in S
  BY <1>3
<1>5. ASSUME NEW m \in S
      PROVE  m + 1 \in S
  <2>1. ASSUME NEW b \in 0 .. MaxIterations, b = m + 1
        PROVE  Work[b] \in Nat
    <3>1. b \div 2 \in 0 .. MaxIterations /\ b \div 2 <= m
      BY <2>1
    <3>2. Work[b \div 2] \in Nat
      BY <3>1
    <3>3. MaxCalls * Work[b \div 2] \in Nat
      BY <3>2, OneMore
    <3>4. 1 + MaxCalls * Work[b \div 2] \in Nat
      BY <3>3
    <3>5. b * (1 + MaxCalls * Work[b \div 2]) \in Nat
      BY <3>4, OneMore
    <3>6. Work[b] = IF b = 0 THEN 0 ELSE b * (1 + MaxCalls * Work[b \div 2])
      BY <1>3
    <3> QED BY <3>5, <3>6
  <2> QED BY <2>1
<1> HIDE DEF S
<1>6. S \in SUBSET Nat
  BY DEF S
<1>7. \A m \in Nat : m \in S
  BY <1>4, <1>5, <1>6, InductionOnSets
<1>8. \A b \in 0 .. MaxIterations : Work[b] \in Nat
  BY <1>7 DEF S
<1>9. DOMAIN Work = 0 .. MaxIterations
  BY <1>3
<1> QED BY <1>3, <1>8, <1>9

-----------------------------------------------------------------------------
(* What a step does to the stack of its thread: s becomes r *)

\* The innermost frame becomes f.
Turn(s, r, f) ==
  /\ Len(s) > 0
  /\ r \in Seq(Frame) /\ Len(r) = Len(s)
  /\ r[Len(s)] = f
  /\ \A d \in 1 .. Len(s) - 1 : r[d] = s[d]

\* It becomes f, and g is put on top of it.
Push(s, r, f, g) ==
  /\ Len(s) > 0
  /\ r \in Seq(Frame) /\ Len(r) = Len(s) + 1
  /\ r[Len(s)] = f /\ r[Len(s) + 1] = g
  /\ \A d \in 1 .. Len(s) - 1 : r[d] = s[d]

\* It is removed, and the frame below it becomes f.
Pop(s, r, f) ==
  /\ Len(s) > 1
  /\ r \in Seq(Frame) /\ Len(r) = Len(s) - 1
  /\ r[Len(s) - 1] = f
  /\ \A d \in 1 .. Len(s) - 2 : r[d] = s[d]

LEMMA TurnShape ==
  ASSUME NEW s \in Seq(Frame), Len(s) > 0, NEW f \in Frame
  PROVE  Turn(s, [s EXCEPT ![Len(s)] = f], f)
BY DEF Turn

LEMMA PushShape ==
  ASSUME NEW s \in Seq(Frame), Len(s) > 0, NEW f \in Frame, NEW g \in Frame
  PROVE  Push(s, Append([s EXCEPT ![Len(s)] = f], g), f, g)
<1> DEFINE q == [s EXCEPT ![Len(s)] = f]
<1>1. /\ q \in Seq(Frame) /\ Len(q) = Len(s) /\ q[Len(s)] = f
      /\ \A d \in 1 .. Len(s) - 1 : q[d] = s[d]
  BY TurnShape DEF Turn
<1> HIDE DEF q
<1>2. /\ Append(q, g) \in Seq(Frame) /\ Len(Append(q, g)) = Len(s) + 1
      /\ Append(q, g)[Len(s) + 1] = g
      /\ \A d \in 1 .. Len(s) : Append(q, g)[d] = q[d]
  BY <1>1
<1>3. Push(s, Append(q, g), f, g)
  BY <1>1, <1>2 DEF Push
<1> QED BY <1>3 DEF q

LEMMA PopShape ==
  ASSUME NEW s \in Seq(Frame), Len(s) > 1, NEW f \in Frame
  PROVE  Pop(s, SubSeq(s, 1, Len(s) - 2) \o <<f>>, f)
<1> DEFINE q == SubSeq(s, 1, Len(s) - 2)
<1>1. /\ q \in Seq(Frame) /\ Len(q) = Len(s) - 2
      /\ \A d \in 1 .. Len(s) - 2 : q[d] = s[d]
  <2>1. PICK n \in Nat : n = Len(s) - 2
    OBVIOUS
  <2>2. \A i \in 1 .. n : s[i] \in Frame
    BY <2>1
  <2>3. /\ SubSeq(s, 1, n) \in Seq(Frame)
        /\ Len(SubSeq(s, 1, n)) = IF 1 <= n THEN n - 1 + 1 ELSE 0
        /\ \A d \in 1 .. n - 1 + 1 : SubSeq(s, 1, n)[d] = s[1 + d - 1]
    BY <2>2, SubSeqProperties
  <2> QED BY <2>1, <2>3
<1> HIDE DEF q
<1>2. /\ q \o <<f>> \in Seq(Frame) /\ Len(q \o <<f>>) = Len(s) - 1
      /\ (q \o <<f>>)[Len(s) - 1] = f
      /\ \A d \in 1 .. Len(s) - 2 : (q \o <<f>>)[d] = q[d]
  BY <1>1
<1>3. Pop(s, q \o <<f>>, f)
  BY <1>1, <1>2 DEF Pop
<1> QED BY <1>3 DEF q

-----------------------------------------------------------------------------
(* The frames *)

FrameOK(f) ==
  /\ f.iter <= f.budget
  /\ f.pc \in {"reply", "tool", "spawn"} => f.iter < f.budget
  /\ f.pc \in {"tool", "spawn"} => f.k >= 1 /\ f.k <= f.calls

\* Each agent but the innermost is in a call of spawn_agent; its sub-agent has
\* half of its iterations, and an id that is longer by one number.
StackOK(s) ==
  /\ \A d \in 1 .. Len(s) : FrameOK(s[d]) /\ Len(s[d].id) = d - 1
  /\ \A d \in 2 .. Len(s) : s[d - 1].pc = "spawn" /\ s[d].budget = s[d - 1].budget \div 2
  /\ Len(s) > 0 => s[1].budget = MaxIterations

\* The same agent.
Same(f, g) == f.id = g.id /\ f.budget = g.budget

LEMMA TurnOK ==
  ASSUME NEW s \in Seq(Frame), NEW r, NEW f, StackOK(s), Turn(s, r, f),
         FrameOK(f), Same(f, s[Len(s)])
  PROVE  StackOK(r)
<1>1. \A d \in 1 .. Len(r) : d # Len(s) => d \in 1 .. Len(s) - 1 /\ r[d] = s[d]
  BY DEF Turn
<1>2. ASSUME NEW d \in 1 .. Len(r)
      PROVE  FrameOK(r[d]) /\ Len(r[d].id) = d - 1
  BY <1>1 DEF StackOK, Turn, Same
<1>3. ASSUME NEW d \in 2 .. Len(r)
      PROVE  r[d - 1].pc = "spawn" /\ r[d].budget = r[d - 1].budget \div 2
  <2>1. d - 1 \in 1 .. Len(s) - 1 /\ d \in 1 .. Len(s) /\ d \in 2 .. Len(s)
    BY DEF Turn
  <2>2. r[d - 1] = s[d - 1] /\ r[d].budget = s[d].budget
    BY <1>1, <2>1 DEF Turn, Same
  <2> QED BY <2>1, <2>2 DEF StackOK
<1>4. Len(r) > 0 => r[1].budget = MaxIterations
  <2>1. CASE Len(s) = 1
    <3>1. r[1] = f /\ s[1].budget = MaxIterations
      BY <2>1 DEF StackOK, Turn
    <3> QED BY <2>1, <3>1 DEF Same
  <2>2. CASE Len(s) > 1
    <3>1. 1 \in 1 .. Len(s) - 1
      BY <2>2
    <3> QED BY <3>1 DEF StackOK, Turn
  <2> QED BY <2>1, <2>2 DEF Turn
<1> QED BY <1>2, <1>3, <1>4 DEF StackOK

LEMMA PushOK ==
  ASSUME NEW s \in Seq(Frame), NEW r, NEW f, NEW g, StackOK(s), Push(s, r, f, g),
         FrameOK(f), Same(f, s[Len(s)]), f.pc = "spawn",
         FrameOK(g), Len(g.id) = Len(s), g.budget = f.budget \div 2
  PROVE  StackOK(r)
<1>1. \A d \in 1 .. Len(s) - 1 : r[d] = s[d]
  BY DEF Push
<1>2. ASSUME NEW d \in 1 .. Len(r)
      PROVE  FrameOK(r[d]) /\ Len(r[d].id) = d - 1
  <2>1. CASE d \in 1 .. Len(s) - 1
    <3>1. d \in 1 .. Len(s) /\ r[d] = s[d]
      BY <1>1, <2>1
    <3>2. FrameOK(s[d]) /\ Len(s[d].id) = d - 1
      BY <3>1 DEF StackOK
    <3> QED BY <3>1, <3>2
  <2>2. CASE d = Len(s)
    <3>1. d \in 1 .. Len(s) /\ r[d] = f /\ f.id = s[d].id
      BY <2>2 DEF Push, Same
    <3>2. Len(s[d].id) = d - 1
      BY <3>1 DEF StackOK
    <3> QED BY <3>1, <3>2
  <2>3. CASE d = Len(s) + 1
    BY <2>3 DEF Push
  <2> QED BY <2>1, <2>2, <2>3 DEF Push
<1>3. ASSUME NEW d \in 2 .. Len(r)
      PROVE  r[d - 1].pc = "spawn" /\ r[d].budget = r[d - 1].budget \div 2
  <2>1. CASE d = Len(s) + 1
    <3>1. r[d - 1] = f /\ r[d] = g
      BY <2>1 DEF Push
    <3> QED BY <3>1
  <2>2. CASE d # Len(s) + 1
    <3>1. d - 1 \in 1 .. Len(s) - 1 /\ d \in 2 .. Len(s)
      BY <2>2 DEF Push
    <3>2. r[d - 1] = s[d - 1] /\ r[d].budget = s[d].budget
      BY <1>1, <3>1 DEF Push, Same
    <3> QED BY <3>1, <3>2 DEF StackOK
  <2> QED BY <2>1, <2>2
<1>4. r[1].budget = MaxIterations
  BY <1>1 DEF StackOK, Push, Same
<1> QED BY <1>2, <1>3, <1>4 DEF StackOK

LEMMA PopOK ==
  ASSUME NEW s \in Seq(Frame), NEW r, NEW f, StackOK(s), Pop(s, r, f),
         FrameOK(f), Same(f, s[Len(s) - 1])
  PROVE  StackOK(r)
<1>1. \A d \in 1 .. Len(s) - 2 : r[d] = s[d]
  BY DEF Pop
<1>2. ASSUME NEW d \in 1 .. Len(r)
      PROVE  FrameOK(r[d]) /\ Len(r[d].id) = d - 1
  <2>1. CASE d \in 1 .. Len(s) - 2
    <3>1. d \in 1 .. Len(s)
      BY <2>1
    <3> QED BY <1>1, <2>1, <3>1 DEF StackOK
  <2>2. CASE d = Len(s) - 1
    <3>1. d \in 1 .. Len(s) /\ r[d] = f
      BY <2>2 DEF Pop
    <3> QED BY <2>2, <3>1 DEF StackOK, Same
  <2> QED BY <2>1, <2>2 DEF Pop
<1>3. ASSUME NEW d \in 2 .. Len(r)
      PROVE  r[d - 1].pc = "spawn" /\ r[d].budget = r[d - 1].budget \div 2
  <2>1. d - 1 \in 1 .. Len(s) - 2 /\ d \in 2 .. Len(s)
    BY DEF Pop
  <2>2. r[d - 1] = s[d - 1] /\ r[d].budget = s[d].budget
    <3>1. CASE d = Len(s) - 1
      BY <1>1, <2>1, <3>1 DEF Pop, Same
    <3>2. CASE d # Len(s) - 1
      <4>1. d \in 1 .. Len(s) - 2
        BY <3>2 DEF Pop
      <4> QED BY <1>1, <2>1, <4>1
    <3> QED BY <3>1, <3>2
  <2> QED BY <2>1, <2>2 DEF StackOK
<1>4. r[1].budget = MaxIterations
  <2>1. CASE Len(s) = 2
    <3>1. r[1] = f /\ s[1].budget = MaxIterations
      BY <2>1 DEF StackOK, Pop
    <3> QED BY <2>1, <3>1 DEF Same
  <2>2. CASE Len(s) > 2
    <3>1. 1 \in 1 .. Len(s) - 2
      BY <2>2
    <3> QED BY <1>1, <3>1 DEF StackOK
  <2> QED BY <2>1, <2>2 DEF Pop
<1> QED BY <1>2, <1>3, <1>4 DEF StackOK

-----------------------------------------------------------------------------
(* What the frames may still cost *)

\* One iteration of an agent with b iterations, and of its calls one.
OneCall(b) == Work[b \div 2]
OneIteration(b) == 1 + MaxCalls * OneCall(b)

\* The iterations behind the one f is in.
Later(f) == (f.budget - f.iter - 1) * OneIteration(f.budget)

\* The calls behind the first n of this iteration, and the later iterations.
CallsAfter(f, n) == (MaxCalls - n) * OneCall(f.budget) + Later(f)

\* All f may cost from now on if it is the innermost; and behind the call it is
\* in, if it is not.
Rest(f) ==
  CASE f.pc = "loop" -> (f.budget - f.iter) * OneIteration(f.budget)
    [] f.pc = "reply" -> CallsAfter(f, 0)
    [] f.pc \in {"tool", "spawn"} -> CallsAfter(f, f.k - 1)

After(f) == CallsAfter(f, f.k)

\* g[d] bounds what the lowest d frames may still cost, and n is what was spent.
Affords(s, n, g) ==
  /\ g \in [0 .. Len(s) -> Nat]
  /\ \A d \in 1 .. Len(s) - 1 : g[d - 1] + After(s[d]) <= g[d]
  /\ Len(s) > 0 => g[Len(s) - 1] + Rest(s[Len(s)]) <= g[Len(s)]
  /\ n + g[Len(s)] <= Work[MaxIterations]

Affordable(s, n) == n \in Nat /\ \E g : Affords(s, n, g)

LEMMA HalfType ==
  ASSUME NEW b \in 0 .. MaxIterations
  PROVE  /\ b \div 2 \in 0 .. MaxIterations
         /\ OneCall(b) \in Nat
         /\ OneIteration(b) \in Nat
<1>1. b \div 2 \in 0 .. MaxIterations
  OBVIOUS
<1>2. OneCall(b) \in Nat
  BY <1>1, WorkDef DEF OneCall
<1>3. MaxCalls * OneCall(b) \in Nat
  BY <1>2, OneMore
<1> QED BY <1>1, <1>2, <1>3 DEF OneIteration

LEMMA LaterType ==
  ASSUME NEW f \in Frame, f.iter < f.budget
  PROVE  Later(f) \in Nat
<1>1. f.budget \in 0 .. MaxIterations /\ f.iter \in 0 .. MaxIterations
  BY DEF Frame
<1>2. OneIteration(f.budget) \in Nat
  BY <1>1, HalfType
<1>3. f.budget - f.iter - 1 \in Nat
  BY <1>1
<1> QED BY <1>2, <1>3, OneMore DEF Later

LEMMA CallsAfterType ==
  ASSUME NEW f \in Frame, f.iter < f.budget, NEW n \in 0 .. MaxCalls
  PROVE  CallsAfter(f, n) \in Nat
<1>1. MaxCalls - n \in Nat /\ OneCall(f.budget) \in Nat
  BY HalfType DEF Frame
<1>2. (MaxCalls - n) * OneCall(f.budget) \in Nat
  BY <1>1, OneMore
<1> QED BY <1>2, LaterType DEF CallsAfter

LEMMA CallsAfterStep ==
  ASSUME NEW f \in Frame, f.iter < f.budget, NEW n \in 1 .. MaxCalls
  PROVE  CallsAfter(f, n - 1) = CallsAfter(f, n) + OneCall(f.budget)
<1>1. MaxCalls - n \in Nat /\ OneCall(f.budget) \in Nat /\ Later(f) \in Nat
  <2>1. f.budget \in 0 .. MaxIterations
    BY DEF Frame
  <2>2. OneCall(f.budget) \in Nat
    BY <2>1, HalfType
  <2>3. MaxCalls - n \in Nat
    OBVIOUS
  <2> QED BY <2>2, <2>3, LaterType
<1>2. PICK m \in Nat : m = MaxCalls - n
  BY <1>1
<1>3. MaxCalls - (n - 1) = m + 1
  BY <1>2
<1>4. (m + 1) * OneCall(f.budget) = m * OneCall(f.budget) + OneCall(f.budget)
      /\ m * OneCall(f.budget) \in Nat
  BY <1>1, OneMore
<1> QED BY <1>1, <1>2, <1>3, <1>4 DEF CallsAfter

LEMMA FrameCosts ==
  ASSUME NEW f \in Frame, FrameOK(f)
  PROVE  /\ Rest(f) \in Nat
         /\ f.pc = "spawn" => After(f) \in Nat
<1>1. CASE f.pc = "loop"
  <2>1. f.budget - f.iter \in Nat /\ OneIteration(f.budget) \in Nat
    BY HalfType DEF Frame, FrameOK
  <2>2. Rest(f) = (f.budget - f.iter) * OneIteration(f.budget)
    BY <1>1 DEF Rest
  <2> QED BY <1>1, <2>1, <2>2, OneMore
<1>2. CASE f.pc = "reply"
  <2>1. f.iter < f.budget /\ 0 \in 0 .. MaxCalls
    BY <1>2 DEF FrameOK
  <2>2. Rest(f) = CallsAfter(f, 0)
    BY <1>2 DEF Rest
  <2> QED BY <1>2, <2>1, <2>2, CallsAfterType
<1>3. CASE f.pc \in {"tool", "spawn"}
  <2>1. f.iter < f.budget /\ f.k - 1 \in 0 .. MaxCalls /\ f.k \in 0 .. MaxCalls
    BY <1>3 DEF FrameOK, Frame
  <2>2. Rest(f) = CallsAfter(f, f.k - 1)
    BY <1>3 DEF Rest
  <2> QED BY <2>1, <2>2, CallsAfterType DEF After
<1> QED BY <1>1, <1>2, <1>3 DEF Frame

\* A new agent may cost what Work says.
LEMMA NewAgentCost ==
  ASSUME NEW id \in Seq(Nat), NEW b \in 0 .. MaxIterations
  PROVE  /\ NewAgent(id, b) \in Frame
         /\ FrameOK(NewAgent(id, b))
         /\ Rest(NewAgent(id, b)) = Work[b]
<1> DEFINE f == NewAgent(id, b)
<1>1. /\ f \in Frame /\ f.pc = "loop" /\ f.iter = 0 /\ f.budget = b
  BY DEF NewAgent, Frame
<1> HIDE DEF f
<1>2. FrameOK(f)
  BY <1>1 DEF FrameOK
<1>3. Rest(f) = b * OneIteration(b)
  BY <1>1 DEF Rest
<1>4. b = 0 => b * OneIteration(b) = 0
  BY HalfType, OneMore
<1>5. Work[b] = b * OneIteration(b)
  BY <1>4, WorkDef DEF OneIteration, OneCall
<1> QED BY <1>1, <1>2, <1>3, <1>5 DEF f

LEMMA TurnAffords ==
  ASSUME NEW s \in Seq(Frame), NEW r, NEW f \in Frame, NEW n, Affordable(s, n),
         Turn(s, r, f), FrameOK(f), FrameOK(s[Len(s)]),
         NEW c \in Nat, Rest(f) + c <= Rest(s[Len(s)])
  PROVE  Affordable(r, n + c)
<1>1. PICK g : Affords(s, n, g)
  BY DEF Affordable
<1>2. PICK l \in Nat : l = Len(s) /\ l > 0 /\ Len(r) = l
  BY DEF Turn
<1>3. /\ Rest(f) \in Nat /\ Rest(s[l]) \in Nat /\ n \in Nat
      /\ g[l - 1] \in Nat /\ g[l] \in Nat
  <2>1. s[l] \in Frame /\ FrameOK(s[l]) /\ l - 1 \in 0 .. l /\ l \in 0 .. l
    BY <1>2
  <2>2. g \in [0 .. l -> Nat] /\ n \in Nat
    BY <1>1, <1>2 DEF Affords, Affordable
  <2> QED BY <2>1, <2>2, FrameCosts
<1>4. g[l - 1] + Rest(s[l]) <= g[l] /\ n + g[l] <= Work[MaxIterations]
  BY <1>1, <1>2 DEF Affords
<1> DEFINE h == [g EXCEPT ![l] = g[l] - c]
<1>5. /\ h \in [0 .. l -> Nat] /\ h[l] = g[l] - c
      /\ \A d \in 0 .. l - 1 : h[d] = g[d]
  <2>1. g \in [0 .. l -> Nat]
    BY <1>1, <1>2 DEF Affords
  <2>2. PICK a \in Nat : a = g[l] - c
    <3>1. PICK x, y, z, v \in Nat :
            x = g[l - 1] /\ y = Rest(s[l]) /\ z = g[l] /\ v = Rest(f)
      BY <1>3
    <3>2. x + y <= z /\ v + c <= y
      BY <1>2, <1>4, <3>1
    <3>3. z - c \in Nat
      BY <3>2
    <3> QED BY <3>1, <3>3
  <2>3. h = [g EXCEPT ![l] = a]
    BY <2>2
  <2> QED BY <1>2, <2>1, <2>2, <2>3
<1> HIDE DEF h
<1>6. ASSUME NEW d \in 1 .. l - 1
      PROVE  h[d - 1] + After(r[d]) <= h[d]
  <2>1. r[d] = s[d] /\ d \in 0 .. l - 1 /\ d - 1 \in 0 .. l - 1
    BY <1>2 DEF Turn
  <2>2. g[d - 1] + After(s[d]) <= g[d]
    BY <1>1, <1>2 DEF Affords
  <2> QED BY <1>5, <2>1, <2>2
<1>7. h[l - 1] + Rest(r[l]) <= h[l]
  <2>1. r[l] = f /\ h[l - 1] = g[l - 1]
    <3>1. l - 1 \in 0 .. l - 1
      BY <1>2
    <3> QED BY <1>2, <1>5, <3>1 DEF Turn
  <2>2. PICK x, y, z, v \in Nat :
          x = g[l - 1] /\ y = Rest(s[l]) /\ z = g[l] /\ v = Rest(f)
    BY <1>3
  <2>3. x + y <= z /\ v + c <= y
    BY <1>2, <1>4, <2>2
  <2>4. x + v <= z - c
    BY <2>3
  <2> QED BY <1>5, <2>1, <2>2, <2>4
<1>8. n + c + h[l] <= Work[MaxIterations]
  <2>1. PICK w, z \in Nat : w = Work[MaxIterations] /\ z = g[l]
    BY <1>3, WorkDef
  <2>2. n + z <= w /\ h[l] = z - c /\ n \in Nat
    BY <1>3, <1>4, <1>5, <2>1
  <2>3. n + c + (z - c) <= w
    BY <2>2
  <2> QED BY <2>1, <2>2, <2>3
<1>9. Affords(r, n + c, h)
  BY <1>2, <1>5, <1>6, <1>7, <1>8 DEF Affords
<1> QED BY <1>3, <1>9 DEF Affordable

LEMMA PushAffords ==
  ASSUME NEW s \in Seq(Frame), NEW r, NEW f \in Frame, NEW f2 \in Frame, NEW n,
         Affordable(s, n), Push(s, r, f, f2), FrameOK(f), f.pc = "spawn", FrameOK(f2),
         FrameOK(s[Len(s)]), After(f) + Rest(f2) <= Rest(s[Len(s)])
  PROVE  Affordable(r, n)
<1>1. PICK g : Affords(s, n, g)
  BY DEF Affordable
<1>2. PICK l \in Nat : l = Len(s) /\ l > 0 /\ Len(r) = l + 1
  BY DEF Push
<1>3. /\ After(f) \in Nat /\ Rest(f2) \in Nat /\ Rest(s[l]) \in Nat /\ n \in Nat
      /\ g[l - 1] \in Nat /\ g[l] \in Nat
  <2>1. s[l] \in Frame /\ FrameOK(s[l]) /\ l - 1 \in 0 .. l /\ l \in 0 .. l
    BY <1>2
  <2>2. g \in [0 .. l -> Nat] /\ n \in Nat
    BY <1>1, <1>2 DEF Affords, Affordable
  <2> QED BY <2>1, <2>2, FrameCosts
<1>4. g[l - 1] + Rest(s[l]) <= g[l] /\ n + g[l] <= Work[MaxIterations]
  BY <1>1, <1>2 DEF Affords
<1> DEFINE h == [d \in 0 .. l + 1 |->
                   IF d < l THEN g[d] ELSE IF d = l THEN g[l - 1] + After(f) ELSE g[l]]
<1>5. /\ h \in [0 .. l + 1 -> Nat] /\ h[l + 1] = g[l]
      /\ h[l] = g[l - 1] + After(f)
      /\ \A d \in 0 .. l - 1 : h[d] = g[d]
  <2>1. g \in [0 .. l -> Nat]
    BY <1>1, <1>2 DEF Affords
  <2>2. PICK a \in Nat, b \in Nat : a = g[l - 1] + After(f) /\ b = g[l]
    BY <1>3
  <2>3. h = [d \in 0 .. l + 1 |-> IF d < l THEN g[d] ELSE IF d = l THEN a ELSE b]
    BY <2>2
  <2> HIDE DEF h
  <2>4. h \in [0 .. l + 1 -> Nat]
    <3>1. \A d \in 0 .. l + 1 : d < l => g[d] \in Nat
      BY <2>1
    <3> QED BY <2>3, <3>1
  <2> QED BY <1>2, <2>2, <2>3, <2>4
<1> HIDE DEF h
<1>6. ASSUME NEW d \in 1 .. l
      PROVE  h[d - 1] + After(r[d]) <= h[d]
  <2>1. CASE d = l
    <3>1. r[d] = f /\ h[d - 1] = g[l - 1]
      BY <1>2, <1>5, <2>1 DEF Push
    <3> QED BY <1>3, <1>5, <2>1, <3>1
  <2>2. CASE d # l
    <3>1. r[d] = s[d] /\ d \in 0 .. l - 1 /\ d - 1 \in 0 .. l - 1 /\ d \in 1 .. l - 1
      BY <1>2, <2>2 DEF Push
    <3>2. g[d - 1] + After(s[d]) <= g[d]
      BY <1>1, <1>2, <3>1 DEF Affords
    <3> QED BY <1>5, <3>1, <3>2
  <2> QED BY <2>1, <2>2
<1>7. h[l] + Rest(r[l + 1]) <= h[l + 1]
  <2>1. r[l + 1] = f2
    BY <1>2 DEF Push
  <2>2. After(f) + Rest(f2) <= Rest(s[l])
    BY <1>2
  <2>3. PICK a, b, c, x, y \in Nat :
          a = After(f) /\ b = Rest(f2) /\ c = Rest(s[l]) /\ x = g[l - 1] /\ y = g[l]
    BY <1>3
  <2>4. a + b <= c /\ x + c <= y
    BY <1>4, <2>2, <2>3
  <2>5. x + a + b <= y
    BY <2>4
  <2> QED BY <1>5, <2>1, <2>3, <2>5
<1>8. n + h[l + 1] <= Work[MaxIterations]
  BY <1>4, <1>5
<1>9. Affords(r, n, h)
  <2>1. Len(r) - 1 = l /\ Len(r) = l + 1
    BY <1>2
  <2> QED BY <1>5, <1>6, <1>7, <1>8, <2>1 DEF Affords
<1> QED BY <1>3, <1>9 DEF Affordable

LEMMA PopAffords ==
  ASSUME NEW s \in Seq(Frame), NEW r, NEW f \in Frame, NEW n, Affordable(s, n),
         Pop(s, r, f), FrameOK(f), StackOK(s), Rest(f) <= After(s[Len(s) - 1])
  PROVE  Affordable(r, n)
<1>1. PICK g : Affords(s, n, g)
  BY DEF Affordable
<1>2. PICK l \in Nat : l = Len(s) /\ l > 1 /\ Len(r) = l - 1
  BY DEF Pop
<1>3. /\ l \in 1 .. Len(s) /\ l - 1 \in 1 .. Len(s) /\ l \in 2 .. Len(s)
      /\ s[l] \in Frame /\ s[l - 1] \in Frame
      /\ FrameOK(s[l]) /\ FrameOK(s[l - 1]) /\ s[l - 1].pc = "spawn"
  BY <1>2 DEF StackOK
<1>4. /\ Rest(f) \in Nat /\ After(s[l - 1]) \in Nat /\ Rest(s[l]) \in Nat /\ n \in Nat
      /\ g[l - 2] \in Nat /\ g[l - 1] \in Nat /\ g[l] \in Nat
  <2>1. f \in Frame
    BY <1>2 DEF Pop
  <2>2. l - 2 \in 0 .. l /\ l - 1 \in 0 .. l /\ l \in 0 .. l
    BY <1>2
  <2>3. g \in [0 .. l -> Nat] /\ n \in Nat
    BY <1>1, <1>2 DEF Affords, Affordable
  <2> QED BY <1>3, <2>1, <2>2, <2>3, FrameCosts
<1>5. /\ g[l - 1] + Rest(s[l]) <= g[l]
      /\ n + g[l] <= Work[MaxIterations]
      /\ g[l - 2] + After(s[l - 1]) <= g[l - 1]
  <2>1. l - 1 \in 1 .. Len(s) - 1 /\ (l - 1) - 1 = l - 2
    BY <1>2
  <2> QED BY <1>1, <1>2, <2>1 DEF Affords
<1> DEFINE h == [d \in 0 .. l - 1 |-> g[d]]
<1>6. h \in [0 .. l - 1 -> Nat]
  BY <1>1, <1>2 DEF Affords
<1>7. ASSUME NEW d \in 1 .. l - 2
      PROVE  h[d - 1] + After(r[d]) <= h[d]
  <2>1. r[d] = s[d] /\ d \in 1 .. Len(s) - 1 /\ d - 1 \in 0 .. l - 1 /\ d \in 0 .. l - 1
    BY <1>2 DEF Pop
  <2>2. g[d - 1] + After(s[d]) <= g[d]
    BY <1>1, <2>1 DEF Affords
  <2> QED BY <2>1, <2>2
<1>8. h[l - 2] + Rest(r[l - 1]) <= h[l - 1]
  <2>1. r[l - 1] = f /\ h[l - 2] = g[l - 2] /\ h[l - 1] = g[l - 1]
    BY <1>2 DEF Pop
  <2>2. Rest(f) <= After(s[l - 1])
    BY <1>2
  <2>3. PICK a, b, x, y \in Nat :
          a = Rest(f) /\ b = After(s[l - 1]) /\ x = g[l - 2] /\ y = g[l - 1]
    BY <1>4
  <2>4. a <= b /\ x + b <= y
    BY <1>5, <2>2, <2>3
  <2>5. x + a <= y
    BY <2>4
  <2> QED BY <2>1, <2>3, <2>5
<1>9. n + h[l - 1] <= Work[MaxIterations]
  <2>1. h[l - 1] = g[l - 1]
    BY <1>2
  <2>2. PICK w \in Nat : w = Work[MaxIterations]
    BY WorkDef
  <2>3. PICK x, y, z \in Nat : x = g[l - 1] /\ y = Rest(s[l]) /\ z = g[l]
    BY <1>4
  <2>4. x + y <= z /\ n + z <= w /\ n \in Nat
    BY <1>4, <1>5, <2>2, <2>3
  <2>5. n + x <= w
    BY <2>4
  <2> QED BY <2>1, <2>2, <2>3, <2>5
<1> HIDE DEF h
<1>10. Affords(r, n, h)
  <2>1. Len(r) - 1 = l - 2 /\ Len(r) = l - 1
    BY <1>2
  <2> QED BY <1>6, <1>7, <1>8, <1>9, <2>1 DEF Affords
<1> QED BY <1>4, <1>10 DEF Affordable

-----------------------------------------------------------------------------
(* What each step makes of the innermost frame *)

LEMMA ChatFrame ==
  ASSUME NEW f \in Frame, FrameOK(f), f.pc = "loop", f.iter < f.budget,
         NEW e, e = [f EXCEPT !.pc = "reply"]
  PROVE  e \in Frame /\ FrameOK(e) /\ Same(e, f) /\ Rest(e) + 1 <= Rest(f)
<1>1. /\ e \in Frame /\ e.pc = "reply" /\ Same(e, f)
      /\ e.iter = f.iter /\ e.budget = f.budget
  BY DEF Frame, Same
<1>2. FrameOK(e)
  BY <1>1 DEF FrameOK
<1>3. PICK b, i \in Nat : b = f.budget /\ i = f.iter /\ i < b /\ b \in 0 .. MaxIterations
  BY DEF Frame
<1>4. PICK w \in Nat : w = MaxCalls * OneCall(b)
  <2>1. OneCall(b) \in Nat
    BY <1>3, HalfType
  <2> QED BY <2>1, OneMore
<1>5. PICK m \in Nat : m = b - i - 1
  BY <1>3
<1>6. Rest(e) = w + m * (1 + w)
  <2>1. Rest(e) = CallsAfter(e, 0)
    BY <1>1 DEF Rest
  <2>2. CallsAfter(e, 0) = (MaxCalls - 0) * OneCall(b) + m * (1 + w)
    BY <1>1, <1>3, <1>4, <1>5 DEF CallsAfter, Later, OneIteration
  <2>3. MaxCalls - 0 = MaxCalls
    OBVIOUS
  <2> QED BY <1>4, <2>1, <2>2, <2>3
<1>7. Rest(f) = (m + 1) * (1 + w)
  <2>1. Rest(f) = (b - i) * (1 + w)
    BY <1>3, <1>4 DEF Rest, OneIteration
  <2>2. b - i = m + 1
    BY <1>3, <1>5
  <2> QED BY <2>1, <2>2
<1>8. (m + 1) * (1 + w) = m * (1 + w) + (1 + w) /\ m * (1 + w) \in Nat
  BY OneMore
<1>9. Rest(e) + 1 <= Rest(f)
  BY <1>6, <1>7, <1>8
<1> QED BY <1>1, <1>2, <1>9

LEMMA ToolsFrame ==
  ASSUME NEW f \in Frame, FrameOK(f), f.pc = "reply", NEW n \in 1 .. MaxCalls,
         NEW e, e = [f EXCEPT !.pc = "tool", !.calls = n, !.k = 1]
  PROVE  e \in Frame /\ FrameOK(e) /\ Same(e, f) /\ Rest(e) <= Rest(f)
<1>1. /\ e \in Frame /\ e.pc = "tool" /\ e.calls = n /\ e.k = 1 /\ Same(e, f)
      /\ e.iter = f.iter /\ e.budget = f.budget
  <2>1. PICK c : c = [f EXCEPT !.calls = n, !.k = 1]
    OBVIOUS
  <2> n \in 0 .. MaxCalls /\ 1 \in 0 .. MaxCalls
    OBVIOUS
  <2>2. /\ c \in Frame /\ c.calls = n /\ c.k = 1
        /\ c.iter = f.iter /\ c.budget = f.budget /\ c.id = f.id
    BY <2>1 DEF Frame
  <2>3. e = [c EXCEPT !.pc = "tool"]
    BY <2>1 DEF Frame
  <2> QED BY <2>2, <2>3 DEF Frame, Same
<1>2. FrameOK(e) /\ f.iter < f.budget
  BY <1>1 DEF FrameOK
<1>3. Rest(e) = CallsAfter(e, 0) /\ Rest(f) = CallsAfter(f, 0)
  BY <1>1 DEF Rest
<1>4. CallsAfter(e, 0) = CallsAfter(f, 0)
  BY <1>1 DEF CallsAfter, Later
<1>5. Rest(f) \in Nat
  BY FrameCosts
<1> QED BY <1>1, <1>2, <1>3, <1>4, <1>5

LEMMA SpawnReadFrame ==
  ASSUME NEW f \in Frame, FrameOK(f), f.pc = "tool", NEW n \in Nat,
         NEW e, e = [f EXCEPT !.pc = "spawn", !.read = n]
  PROVE  e \in Frame /\ FrameOK(e) /\ Same(e, f) /\ Rest(e) <= Rest(f)
<1>1. /\ e \in Frame /\ e.pc = "spawn" /\ e.calls = f.calls /\ e.k = f.k
      /\ e.iter = f.iter /\ e.budget = f.budget /\ Same(e, f)
  BY DEF Frame, Same
<1>2. FrameOK(e)
  BY <1>1 DEF FrameOK
<1>3. Rest(e) = CallsAfter(e, f.k - 1) /\ Rest(f) = CallsAfter(f, f.k - 1)
  BY <1>1 DEF Rest
<1>4. CallsAfter(e, f.k - 1) = CallsAfter(f, f.k - 1)
  BY <1>1 DEF CallsAfter, Later
<1>5. Rest(f) \in Nat
  BY FrameCosts
<1> QED BY <1>1, <1>2, <1>3, <1>4, <1>5

Counted(e, f) == e = f \/ \E n : e = [f EXCEPT !.next = n]

\* A sub-agent may cost what is put aside for the call that spawns it.
LEMMA SpawnFrame ==
  ASSUME NEW f \in Frame, FrameOK(f), f.pc = "spawn",
         NEW e \in Frame, Counted(e, f),
         NEW id \in Seq(Nat), NEW g, g = NewAgent(id, f.budget \div 2)
  PROVE  /\ FrameOK(e) /\ Same(e, f) /\ e.pc = "spawn"
         /\ g \in Frame /\ FrameOK(g) /\ g.id = id /\ g.budget = e.budget \div 2
         /\ After(e) + Rest(g) <= Rest(f)
<1>1. /\ e.pc = "spawn" /\ e.calls = f.calls /\ e.k = f.k /\ e.id = f.id
      /\ e.iter = f.iter /\ e.budget = f.budget
  BY DEF Frame, Counted
<1>2. FrameOK(e) /\ Same(e, f)
  BY <1>1 DEF FrameOK, Same
<1>3. f.budget \in 0 .. MaxIterations /\ f.iter < f.budget /\ f.k \in 1 .. MaxCalls
  BY DEF Frame, FrameOK
<1>4. f.budget \div 2 \in 0 .. MaxIterations
  BY <1>3, HalfType
<1>5. g \in Frame /\ FrameOK(g) /\ Rest(g) = OneCall(f.budget)
  BY <1>4, NewAgentCost DEF OneCall
<1>6. g.id = id /\ g.budget = e.budget \div 2
  BY <1>1 DEF NewAgent
<1>7. After(e) = CallsAfter(f, f.k)
  BY <1>1 DEF After, CallsAfter, Later
<1>8. Rest(f) = CallsAfter(f, f.k - 1)
  BY DEF Rest
<1>9. CallsAfter(f, f.k - 1) = CallsAfter(f, f.k) + OneCall(f.budget)
  BY <1>3, CallsAfterStep
<1>10. Rest(f) \in Nat
  BY FrameCosts
<1>11. After(e) + Rest(g) <= Rest(f)
  BY <1>5, <1>7, <1>8, <1>9, <1>10
<1> QED BY <1>1, <1>2, <1>5, <1>6, <1>11

LEMMA HandledFrame ==
  ASSUME NEW f \in Frame, FrameOK(f), f.pc \in {"tool", "spawn"},
         NEW e, e = Handled(f)
  PROVE  /\ e \in Frame /\ FrameOK(e) /\ Same(e, f)
         /\ Rest(e) <= After(f) /\ After(f) <= Rest(f)
<1>1. f.iter < f.budget /\ f.k \in 1 .. MaxCalls /\ f.k <= f.calls
  BY DEF Frame, FrameOK
<1>2. After(f) = CallsAfter(f, f.k) /\ After(f) \in Nat
  BY <1>1, CallsAfterType DEF After
<1>3. After(f) <= Rest(f)
  <2>1. Rest(f) = CallsAfter(f, f.k) + OneCall(f.budget)
    BY <1>1, CallsAfterStep DEF Rest
  <2>2. OneCall(f.budget) \in Nat
    BY HalfType DEF Frame
  <2> QED BY <1>2, <2>1, <2>2
<1>4. CASE f.k < f.calls
  <2>1. e = [f EXCEPT !.pc = "tool", !.k = f.k + 1]
    BY <1>4 DEF Handled
  <2>2. f.k + 1 \in 1 .. MaxCalls
    BY <1>4 DEF Frame
  <2>3. /\ e \in Frame /\ e.pc = "tool" /\ e.calls = f.calls /\ e.k = f.k + 1
        /\ e.iter = f.iter /\ e.budget = f.budget /\ e.id = f.id
    <3> DEFINE m == f.k + 1
    <3>1. m \in 0 .. MaxCalls /\ m = f.k + 1
      BY <2>2
    <3> HIDE DEF m
    <3>2. PICK c : c = [f EXCEPT !.k = m]
      OBVIOUS
    <3>3. /\ c \in Frame /\ c.calls = f.calls /\ c.k = m
          /\ c.iter = f.iter /\ c.budget = f.budget /\ c.id = f.id
      BY <3>1, <3>2 DEF Frame
    <3>4. e = [c EXCEPT !.pc = "tool"]
      BY <2>1, <3>1, <3>2 DEF Frame
    <3> QED BY <3>1, <3>3, <3>4 DEF Frame
  <2>4. FrameOK(e) /\ Same(e, f)
    <3>1. f.k + 1 >= 1 /\ f.k + 1 <= f.calls
      BY <1>1, <1>4 DEF Frame
    <3> QED BY <1>1, <2>3, <3>1 DEF FrameOK, Same
  <2>5. Rest(e) = CallsAfter(e, f.k)
    <3>1. Rest(e) = CallsAfter(e, e.k - 1)
      BY <2>3 DEF Rest
    <3>2. e.k - 1 = f.k
      BY <1>1, <2>3
    <3> QED BY <3>1, <3>2
  <2>6. CallsAfter(e, f.k) = CallsAfter(f, f.k)
    BY <2>3 DEF CallsAfter, Later
  <2> QED BY <1>2, <1>3, <2>3, <2>4, <2>5, <2>6
<1>5. CASE ~(f.k < f.calls)
  <2>1. e = [f EXCEPT !.pc = "loop", !.iter = f.iter + 1, !.calls = 0, !.k = 0]
    BY <1>5 DEF Handled
  <2>2. f.iter + 1 \in 0 .. MaxIterations /\ 0 \in 0 .. MaxCalls
    BY <1>1 DEF Frame
  <2>3. /\ e \in Frame /\ e.pc = "loop" /\ e.iter = f.iter + 1
        /\ e.budget = f.budget /\ e.id = f.id
    BY <2>1, <2>2 DEF Frame
  <2>4. FrameOK(e) /\ Same(e, f)
    <3>1. f.iter + 1 <= f.budget
      BY <1>1 DEF Frame
    <3> QED BY <2>3, <3>1 DEF FrameOK, Same
  <2>5. Rest(e) = Later(f)
    <3>1. Rest(e) = (f.budget - (f.iter + 1)) * OneIteration(f.budget)
      BY <2>3 DEF Rest
    <3>2. f.budget - (f.iter + 1) = f.budget - f.iter - 1
      BY DEF Frame
    <3> QED BY <3>1, <3>2 DEF Later
  <2>6. (MaxCalls - f.k) * OneCall(f.budget) \in Nat
    <3>1. MaxCalls - f.k \in Nat
      BY <1>1
    <3>2. OneCall(f.budget) \in Nat
      BY HalfType DEF Frame
    <3> QED BY <3>1, <3>2, OneMore
  <2>7. Rest(e) <= After(f)
    <3>1. Later(f) \in Nat
      BY <1>1, LaterType
    <3>2. After(f) = (MaxCalls - f.k) * OneCall(f.budget) + Later(f)
      BY <1>2 DEF CallsAfter
    <3> QED BY <2>5, <2>6, <3>1, <3>2
  <2> QED BY <1>3, <2>3, <2>4, <2>7
<1> QED BY <1>4, <1>5

LEMMA HandledCounter ==
  ASSUME NEW f \in Frame, NEW e, e = Handled(f)
  PROVE  e.next = f.next /\ e.pc # "spawn"
<1>1. CASE f.k < f.calls
  BY <1>1 DEF Handled, Frame
<1>2. CASE ~(f.k < f.calls)
  BY <1>2 DEF Handled, Frame
<1> QED BY <1>1, <1>2

-----------------------------------------------------------------------------
(* What each action does to the stacks *)

Stacks == stack \in [Threads -> Seq(Frame)]

BaseInv == TypeOK /\ \A t \in Threads : StackOK(stack[t])

KeepsOthers(t) == Stacks' /\ \A u \in Threads \ {t} : stack'[u] = stack[u]

\* What next_sub_agent_id_ is for the innermost agent of the thread.
Counter(t) == IF Depth(t) = 1 THEN nextId ELSE Top(t).next

\* The thread takes a step of its innermost agent that costs c requests ...
Turned(t, c) ==
  /\ \E f \in Frame :
       /\ Turn(stack[t], stack'[t], f) /\ FrameOK(f) /\ Same(f, Top(t))
       /\ Rest(f) + c <= Rest(Top(t))
       /\ f.next = Top(t).next /\ (f.pc = "spawn" => f.read = Counter(t))
  /\ KeepsOthers(t)

\* ... or begins a sub-agent, ends one, or has no agent any more.
Pushed(t) ==
  /\ \E f \in Frame, g \in Frame :
       /\ Push(stack[t], stack'[t], f, g) /\ FrameOK(f) /\ Same(f, Top(t)) /\ f.pc = "spawn"
       /\ FrameOK(g) /\ g.id = Append(Top(t).id, Top(t).read) /\ g.budget = f.budget \div 2
       /\ After(f) + Rest(g) <= Rest(Top(t))
       /\ Depth(t) # 1 => f.next = Top(t).read + 1
       /\ g.pc = "loop"
  /\ KeepsOthers(t)

Popped(t) ==
  /\ \E f \in Frame :
       /\ Pop(stack[t], stack'[t], f) /\ FrameOK(f) /\ Same(f, stack[t][Depth(t) - 1])
       /\ Rest(f) <= After(stack[t][Depth(t) - 1])
       /\ f.next = stack[t][Depth(t) - 1].next /\ f.pc # "spawn"
  /\ KeepsOthers(t)

Emptied(t) == stack'[t] = << >> /\ KeepsOthers(t)

LEMMA Moved ==
  ASSUME Stacks, NEW t \in Threads, NEW r \in Seq(Frame), stack' = [stack EXCEPT ![t] = r]
  PROVE  stack'[t] = r /\ KeepsOthers(t)
BY DEF Stacks, KeepsOthers

LEMMA TopType ==
  ASSUME BaseInv, NEW t \in Threads, Depth(t) > 0
  PROVE  /\ Top(t) = stack[t][Len(stack[t])] /\ stack[t] \in Seq(Frame) /\ Len(stack[t]) > 0
         /\ Top(t) \in Frame /\ FrameOK(Top(t)) /\ Stacks
<1>1. stack \in [Threads -> Seq(Frame)] /\ StackOK(stack[t])
  BY DEF BaseInv, TypeOK
<1>2. stack[t] \in Seq(Frame) /\ Len(stack[t]) > 0 /\ Top(t) = stack[t][Len(stack[t])]
  BY <1>1 DEF Depth, Top
<1>3. Len(stack[t]) \in 1 .. Len(stack[t])
  BY <1>2
<1> QED BY <1>1, <1>2, <1>3 DEF StackOK, Stacks

LEMMA TopMoves ==
  ASSUME BaseInv, NEW t \in Threads, Depth(t) > 0, NEW f \in Frame, SetTop(t, f)
  PROVE  Turn(stack[t], stack'[t], f) /\ KeepsOthers(t)
<1> DEFINE r == [stack[t] EXCEPT ![Len(stack[t])] = f]
<1>1. stack[t] \in Seq(Frame) /\ Len(stack[t]) > 0 /\ Stacks
  BY TopType
<1>2. Turn(stack[t], r, f)
  BY <1>1, TurnShape
<1>3. stack' = [stack EXCEPT ![t] = r]
  BY DEF SetTop, Depth
<1> HIDE DEF r
<1>4. r \in Seq(Frame)
  BY <1>2 DEF Turn
<1> QED BY <1>1, <1>2, <1>3, <1>4, Moved

LEMMA ChatStep ==
  ASSUME BaseInv, NEW t \in Threads, Chat(t)
  PROVE  Turned(t, 1)
<1>1. Depth(t) > 0 /\ Top(t).pc = "loop" /\ Top(t).iter < Top(t).budget
  BY DEF Chat, At
<1>2. Top(t) \in Frame /\ FrameOK(Top(t))
  BY <1>1, TopType
<1>3. PICK f : f = [Top(t) EXCEPT !.pc = "reply"]
  OBVIOUS
<1>4. f \in Frame /\ FrameOK(f) /\ Same(f, Top(t)) /\ Rest(f) + 1 <= Rest(Top(t))
  BY <1>1, <1>2, <1>3, ChatFrame
<1>5. SetTop(t, f)
  BY <1>3 DEF Chat
<1>6. Turn(stack[t], stack'[t], f) /\ KeepsOthers(t)
  BY <1>1, <1>4, <1>5, TopMoves
<1>7. f.next = Top(t).next /\ f.pc # "spawn"
  BY <1>2, <1>3 DEF Frame
<1> QED BY <1>4, <1>6, <1>7 DEF Turned

\* A step that costs nothing.
LEMMA FreeTurn ==
  ASSUME BaseInv, NEW t \in Threads, Depth(t) > 0, NEW f \in Frame, FrameOK(f),
         Same(f, Top(t)), Rest(f) <= Rest(Top(t)), SetTop(t, f),
         f.next = Top(t).next, f.pc = "spawn" => f.read = Counter(t)
  PROVE  Turned(t, 0)
<1>1. Turn(stack[t], stack'[t], f) /\ KeepsOthers(t)
  BY TopMoves
<1>2. Rest(f) \in Nat
  BY FrameCosts
<1>3. Rest(f) + 0 <= Rest(Top(t))
  BY <1>2
<1> QED BY <1>1, <1>3 DEF Turned

LEMMA FreeStep ==
  ASSUME BaseInv, NEW t \in Threads, ChatCallsTools(t) \/ RunSkill(t) \/ SpawnRead(t)
  PROVE  Turned(t, 0)
<1>1. Depth(t) > 0
  BY DEF ChatCallsTools, RunSkill, SpawnRead, At
<1>2. Top(t) \in Frame /\ FrameOK(Top(t))
  BY <1>1, TopType
<1>3. CASE ChatCallsTools(t)
  <2>1. PICK n \in 1 .. MaxCalls :
          SetTop(t, [Top(t) EXCEPT !.pc = "tool", !.calls = n, !.k = 1])
    BY <1>3 DEF ChatCallsTools
  <2>2. PICK f : f = [Top(t) EXCEPT !.pc = "tool", !.calls = n, !.k = 1]
    OBVIOUS
  <2>3. Top(t).pc = "reply" /\ SetTop(t, f)
    BY <1>3, <2>1, <2>2 DEF ChatCallsTools, At
  <2>4. f \in Frame /\ FrameOK(f) /\ Same(f, Top(t)) /\ Rest(f) <= Rest(Top(t))
    BY <1>2, <2>2, <2>3, ToolsFrame
  <2>5. f.next = Top(t).next /\ f.pc # "spawn"
    <3>1. f.next = Top(t).next
      BY <1>2, <2>2 DEF Frame
    <3>2. f.pc = "tool"
      BY <1>2, <2>2 DEF Frame
    <3> QED BY <3>1, <3>2
  <2> QED BY <1>1, <2>3, <2>4, <2>5, FreeTurn
<1>4. CASE RunSkill(t)
  <2>1. PICK f : f = Handled(Top(t))
    OBVIOUS
  <2>2. Top(t).pc = "tool" /\ SetTop(t, f)
    BY <1>4, <2>1 DEF RunSkill, At
  <2>3. f \in Frame /\ FrameOK(f) /\ Same(f, Top(t))
        /\ Rest(f) <= After(Top(t)) /\ After(Top(t)) <= Rest(Top(t))
    BY <1>2, <2>1, <2>2, HandledFrame
  <2>4. Rest(f) <= Rest(Top(t))
    <3>1. Rest(f) \in Nat /\ Rest(Top(t)) \in Nat /\ After(Top(t)) \in Nat
      <4>1. PICK g : g = [Top(t) EXCEPT !.pc = "spawn", !.read = 0]
        OBVIOUS
      <4>2. g \in Frame /\ FrameOK(g)
        BY <1>2, <2>2, <4>1, SpawnReadFrame
      <4>3. g.pc = "spawn" /\ After(g) = After(Top(t))
        BY <1>2, <4>1 DEF After, CallsAfter, Later, Frame
      <4> QED BY <1>2, <2>3, <4>2, <4>3, FrameCosts
    <3> QED BY <2>3, <3>1
  <2>5. f.next = Top(t).next /\ f.pc # "spawn"
    BY <1>2, <2>1, HandledCounter
  <2> QED BY <1>1, <2>2, <2>3, <2>4, <2>5, FreeTurn
<1>5. CASE SpawnRead(t)
  <2>1. PICK n : n = IF Depth(t) = 1 THEN nextId ELSE Top(t).next
    OBVIOUS
  <2>2. n \in Nat
    BY <1>2, <2>1 DEF BaseInv, TypeOK, Frame
  <2>3. PICK f : f = [Top(t) EXCEPT !.pc = "spawn", !.read = n]
    OBVIOUS
  <2>4. Top(t).pc = "tool" /\ SetTop(t, f)
    BY <1>5, <2>1, <2>3 DEF SpawnRead, At
  <2>5. f \in Frame /\ FrameOK(f) /\ Same(f, Top(t)) /\ Rest(f) <= Rest(Top(t))
    BY <1>2, <2>2, <2>3, <2>4, SpawnReadFrame
  <2>6. f.next = Top(t).next /\ f.read = Counter(t)
    BY <1>2, <2>1, <2>3 DEF Frame, Counter
  <2> QED BY <1>1, <2>4, <2>5, <2>6, FreeTurn
<1> QED BY <1>3, <1>4, <1>5

LEMMA SpawnStep ==
  ASSUME BaseInv, NEW t \in Threads, SpawnWrite(t)
  PROVE  Pushed(t)
<1>1. Depth(t) > 0 /\ Top(t).pc = "spawn"
  BY DEF SpawnWrite, At
<1>2. /\ Top(t) \in Frame /\ FrameOK(Top(t)) /\ Stacks
      /\ stack[t] \in Seq(Frame) /\ Len(stack[t]) > 0 /\ Top(t) = stack[t][Len(stack[t])]
  BY <1>1, TopType
<1>3. PICK f \in Frame : f = Top(t) /\ FrameOK(f) /\ f.pc = "spawn"
  BY <1>1, <1>2
<1>4. f.read \in Nat /\ f.read + 1 \in Nat /\ f.id \in Seq(Nat)
  BY <1>3 DEF Frame
<1>5. PICK id \in Seq(Nat) : id = Append(f.id, f.read)
  BY <1>4, AppendProperties
<1>6. PICK e : e = IF Depth(t) = 1 THEN f ELSE [f EXCEPT !.next = f.read + 1]
  OBVIOUS
<1>7. e \in Frame /\ Counted(e, f)
  BY <1>3, <1>4, <1>6 DEF Frame, Counted
<1>8. PICK g : g = NewAgent(id, f.budget \div 2)
  OBVIOUS
<1>9. /\ FrameOK(e) /\ Same(e, f) /\ e.pc = "spawn"
      /\ g \in Frame /\ FrameOK(g) /\ g.id = id /\ g.budget = e.budget \div 2
      /\ After(e) + Rest(g) <= Rest(f)
  BY <1>3, <1>7, <1>8, SpawnFrame
<1> DEFINE q == [stack[t] EXCEPT ![Len(stack[t])] = e]
           r == Append(q, g)
<1>10. stack' = [stack EXCEPT ![t] = r]
  <2>1. IF Depth(t) = 1 THEN stack[t] = q
        ELSE [stack[t] EXCEPT ![Depth(t)].next = f.read + 1] = q
    BY <1>2, <1>3, <1>6 DEF Depth
  <2> QED BY <1>3, <1>5, <1>8, <2>1 DEF SpawnWrite
<1>11. Push(stack[t], r, e, g)
  BY <1>2, <1>7, <1>9, PushShape
<1> HIDE DEF r
<1>12. r \in Seq(Frame)
  BY <1>11 DEF Push
<1>13. stack'[t] = r /\ KeepsOthers(t)
  BY <1>2, <1>10, <1>12, Moved
<1>14. Depth(t) # 1 => e.next = f.read + 1
  BY <1>3, <1>4, <1>6 DEF Frame
<1>15. g.pc = "loop"
  BY <1>8 DEF NewAgent
<1> QED BY <1>3, <1>5, <1>7, <1>9, <1>11, <1>13, <1>14, <1>15 DEF Pushed

LEMMA ReturnStep ==
  ASSUME BaseInv, NEW t \in Threads, Return(t)
  PROVE  /\ Depth(t) > 0
         /\ Depth(t) = 1 => Emptied(t)
         /\ Depth(t) # 1 => Popped(t)
<1>1. Depth(t) > 0
  BY DEF Return, At
<1>2. Stacks /\ stack[t] \in Seq(Frame) /\ StackOK(stack[t])
  BY <1>1, TopType DEF BaseInv
<1>3. CASE Depth(t) = 1
  <2>1. stack' = [stack EXCEPT ![t] = << >>] /\ << >> \in Seq(Frame)
    BY <1>3 DEF Return
  <2> QED BY <1>1, <1>2, <1>3, <2>1, Moved DEF Emptied
<1>4. CASE Depth(t) # 1
  <2>1. PICK s \in Seq(Frame) : s = stack[t] /\ Depth(t) = Len(s) /\ Len(s) > 1
    <3>1. PICK s \in Seq(Frame) : s = stack[t]
      BY <1>2
    <3>2. Depth(t) = Len(s) /\ Len(s) \in Nat
      BY <3>1 DEF Depth
    <3>3. Len(s) > 1
      BY <1>1, <1>4, <3>2
    <3> QED BY <3>1, <3>2, <3>3
  <2>2. PICK c : c = s[Len(s) - 1]
    OBVIOUS
  <2>3. c \in Frame /\ FrameOK(c) /\ c.pc = "spawn"
    <3>1. Len(s) - 1 \in 1 .. Len(s) /\ Len(s) \in 2 .. Len(s)
      BY <2>1
    <3> QED BY <1>2, <2>1, <2>2, <3>1 DEF StackOK
  <2>4. PICK f : f = Handled(c)
    OBVIOUS
  <2>5. f \in Frame /\ FrameOK(f) /\ Same(f, c) /\ Rest(f) <= After(c)
    BY <2>3, <2>4, HandledFrame
  <2>6. PICK r : r = SubSeq(s, 1, Len(s) - 2) \o <<f>>
    OBVIOUS
  <2>7. Pop(s, r, f)
    BY <2>1, <2>5, <2>6, PopShape
  <2>8. stack' = [stack EXCEPT ![t] = r]
    BY <1>4, <2>1, <2>2, <2>4, <2>6 DEF Return
  <2>9. r \in Seq(Frame)
    BY <2>7 DEF Pop
  <2>10. stack'[t] = r /\ KeepsOthers(t)
    BY <1>2, <2>8, <2>9, Moved
  <2>11. f.next = c.next /\ f.pc # "spawn"
    BY <2>3, <2>4, HandledCounter
  <2> QED BY <1>1, <1>4, <2>1, <2>2, <2>5, <2>7, <2>10, <2>11 DEF Popped
<1> QED BY <1>1, <1>3, <1>4

LEMMA ThrowStep ==
  ASSUME BaseInv, NEW t \in Threads, Throw(t)
  PROVE  Emptied(t)
<1>1. Stacks /\ << >> \in Seq(Frame) /\ stack' = [stack EXCEPT ![t] = << >>]
  BY DEF BaseInv, TypeOK, Stacks, Throw
<1> QED BY <1>1, Moved DEF Emptied

LEMMA RunStep ==
  ASSUME BaseInv, NEW t \in Threads, Run(t)
  PROVE  stack'[t] = <<NewAgent(Main, MaxIterations)>> /\ KeepsOthers(t)
<1>1. NewAgent(Main, MaxIterations) \in Frame
  <2>1. Main \in Seq(Nat) /\ MaxIterations \in 0 .. MaxIterations
    BY DEF Main
  <2> QED BY <2>1, NewAgentCost
<1>2. PICK a \in Frame : a = NewAgent(Main, MaxIterations)
  BY <1>1
<1>3. Stacks /\ <<a>> \in Seq(Frame) /\ stack' = [stack EXCEPT ![t] = <<a>>]
  BY <1>2 DEF BaseInv, TypeOK, Stacks, Run
<1> QED BY <1>2, <1>3, Moved

\* Any of these keeps the stacks as they must be.
Works(t) == Turned(t, 0) \/ Turned(t, 1) \/ Pushed(t) \/ Popped(t) \/ Emptied(t)

LEMMA EmptyOK == StackOK(<< >>)
BY DEF StackOK

LEMMA StacksStay ==
  ASSUME BaseInv, NEW t \in Threads, Works(t)
  PROVE  Stacks' /\ \A u \in Threads : StackOK(stack'[u])
<1>1. KeepsOthers(t)
  BY DEF Works, Turned, Pushed, Popped, Emptied
<1>2. StackOK(stack[t]) /\ stack[t] \in Seq(Frame)
  BY DEF BaseInv, TypeOK
<1>3. PICK s \in Seq(Frame) : s = stack[t] /\ StackOK(s)
  BY <1>2
<1>4. PICK r : r = stack'[t]
  OBVIOUS
<1>5. Len(s) > 0 => Top(t) = s[Len(s)]
  BY <1>3 DEF Top, Depth
<1>6. ASSUME NEW c \in {0, 1}, Turned(t, c)
      PROVE  StackOK(r)
  <2>1. PICK f \in Frame : Turn(s, r, f) /\ FrameOK(f) /\ Same(f, Top(t))
    BY <1>3, <1>4, <1>6 DEF Turned
  <2>2. Same(f, s[Len(s)])
    BY <1>5, <2>1 DEF Turn
  <2> QED BY <1>3, <2>1, <2>2, TurnOK
<1>7. ASSUME Pushed(t)
      PROVE  StackOK(r)
  <2>1. PICK f \in Frame, g \in Frame :
          /\ Push(s, r, f, g) /\ FrameOK(f) /\ Same(f, Top(t)) /\ f.pc = "spawn"
          /\ FrameOK(g) /\ g.id = Append(Top(t).id, Top(t).read) /\ g.budget = f.budget \div 2
    BY <1>3, <1>4, <1>7 DEF Pushed
  <2>2. Same(f, s[Len(s)]) /\ Len(s) > 0
    BY <1>5, <2>1 DEF Push
  <2>3. Len(g.id) = Len(s)
    <3>1. Len(s) \in 1 .. Len(s) /\ Len(s) \in Nat
      BY <2>2
    <3>2. PICK l \in Nat : l = Len(s)
      BY <3>1
    <3>3. s[l] \in Frame /\ Len(s[l].id) = l - 1 /\ Top(t) = s[l]
      BY <1>3, <1>5, <2>2, <3>1, <3>2 DEF StackOK
    <3>4. s[l].id \in Seq(Nat) /\ s[l].read \in Nat
      BY <3>3 DEF Frame
    <3> QED BY <2>1, <3>2, <3>3, <3>4
  <2> QED BY <1>3, <2>1, <2>2, <2>3, PushOK
<1>8. ASSUME Popped(t)
      PROVE  StackOK(r)
  <2>1. PICK f \in Frame : /\ Pop(s, r, f) /\ FrameOK(f)
                           /\ Same(f, stack[t][Depth(t) - 1])
    BY <1>3, <1>4, <1>8 DEF Popped
  <2>2. Same(f, s[Len(s) - 1])
    BY <1>3, <2>1 DEF Depth
  <2> QED BY <1>3, <2>1, <2>2, PopOK
<1>9. ASSUME Emptied(t)
      PROVE  StackOK(r)
  BY <1>4, <1>9, EmptyOK DEF Emptied
<1>10. StackOK(r)
  BY <1>6, <1>7, <1>8, <1>9 DEF Works
<1>11. ASSUME NEW u \in Threads
       PROVE  StackOK(stack'[u])
  <2>1. CASE u = t
    BY <1>4, <1>10, <2>1
  <2>2. CASE u # t
    <3>1. stack'[u] = stack[u]
      BY <1>1, <2>2 DEF KeepsOthers
    <3>2. StackOK(stack[u])
      BY DEF BaseInv
    <3> QED BY <3>1, <3>2
  <2> QED BY <2>1, <2>2
<1> QED BY <1>1, <1>11 DEF KeepsOthers

LEMMA RunStacks ==
  ASSUME BaseInv, NEW t \in Threads, Run(t)
  PROVE  Stacks' /\ \A u \in Threads : StackOK(stack'[u])
<1>1. PICK a : a = NewAgent(Main, MaxIterations)
  OBVIOUS
<1>2. a \in Frame /\ FrameOK(a)
  <2>1. Main \in Seq(Nat) /\ MaxIterations \in 0 .. MaxIterations
    BY DEF Main
  <2> QED BY <1>1, <2>1, NewAgentCost
<1>3. a.budget = MaxIterations /\ Len(a.id) = 0
  BY <1>1 DEF NewAgent, Main
<1>4. PICK r \in Seq(Frame) : r = <<a>> /\ Len(r) = 1 /\ r[1] = a
  <2>1. <<a>> \in Seq(Frame) /\ Len(<<a>>) = 1 /\ <<a>>[1] = a
    BY <1>2
  <2> QED BY <2>1
<1>5. StackOK(r)
  BY <1>2, <1>3, <1>4 DEF StackOK
<1>6. stack'[t] = r /\ KeepsOthers(t)
  BY <1>1, <1>4, RunStep
<1>7. ASSUME NEW u \in Threads
      PROVE  StackOK(stack'[u])
  <2>1. u # t => stack'[u] = stack[u] /\ StackOK(stack[u])
    BY <1>6 DEF KeepsOthers, BaseInv
  <2> QED BY <1>5, <1>6, <2>1
<1> QED BY <1>6, <1>7 DEF KeepsOthers

-----------------------------------------------------------------------------
(* The tables of the Monitor *)

Entry == [id : Seq(Nat), state : {"running", "completed"}]
Message == [kind : {"task", "result"}, agent : Seq(Nat)]

\* update_agent_state changes nothing but the state of the first entry of the
\* agent.
LEMMA UpdateEffect ==
  ASSUME NEW T \in Seq(Entry), NEW id, NEW state \in {"running", "completed"},
         NEW T2, T2 = UpdateAgentState(T, id, state)
  PROVE  /\ T2 \in Seq(Entry) /\ Len(T2) = Len(T)
         /\ \A i \in 1 .. Len(T) : T2[i].id = T[i].id
         /\ \A i \in 1 .. Len(T) :
              IF T[i].id = id /\ \A j \in 1 .. i - 1 : T[j].id # id
              THEN T2[i].state = state ELSE T2[i] = T[i]
<1> DEFINE hits == {i \in 1 .. Len(T) : T[i].id = id}
<1>1. CASE hits = {}
  <2>1. T2 = T
    BY <1>1 DEF UpdateAgentState
  <2>2. \A i \in 1 .. Len(T) : T[i].id # id
    BY <1>1
  <2> QED BY <2>1, <2>2
<1>2. CASE hits # {}
  <2> DEFINE m == CHOOSE i \in hits : \A j \in hits : i <= j
  <2>1. m \in hits /\ \A j \in hits : m <= j
    <3>1. hits \in SUBSET Nat
      OBVIOUS
    <3> HIDE DEF hits
    <3>2. \E i \in hits : \A j \in hits : i <= j
      BY <1>2, <3>1, LeastNumber
    <3> QED BY <3>2
  <2>2. T2 = [T EXCEPT ![m].state = state]
    BY <1>2 DEF UpdateAgentState
  <2> HIDE DEF m
  <2>3. m \in 1 .. Len(T) /\ T[m].id = id /\ \A j \in 1 .. Len(T) : T[j].id = id => m <= j
    BY <2>1
  <2>4. PICK e \in Entry : e = [T[m] EXCEPT !.state = state]
    <3>1. PICK x \in Entry : x = T[m]
      BY <2>3
    <3>2. [x EXCEPT !.state = state] \in Entry
      BY DEF Entry
    <3> QED BY <3>1, <3>2
  <2>5. e.id = id /\ e.state = state
    BY <2>3, <2>4 DEF Entry
  <2>6. T2 = [T EXCEPT ![m] = e]
    BY <2>2, <2>4
  <2>7. T2 \in Seq(Entry) /\ Len(T2) = Len(T)
    BY <2>3, <2>6
  <2>8. T2[m] = e /\ \A i \in 1 .. Len(T) : i # m => T2[i] = T[i]
    BY <2>3, <2>6
  <2>9. \A j \in 1 .. m - 1 : T[j].id # id
    BY <2>3
  <2>10. ASSUME NEW i \in 1 .. Len(T)
         PROVE  IF T[i].id = id /\ \A j \in 1 .. i - 1 : T[j].id # id
                THEN T2[i].state = state ELSE T2[i] = T[i]
    <3>1. CASE i = m
      BY <2>3, <2>5, <2>8, <2>9, <3>1
    <3>2. CASE i # m
      <4>1. T[i].id = id => m \in 1 .. i - 1
        BY <2>3, <3>2
      <4> QED BY <2>3, <2>8, <3>2, <4>1
    <3> QED BY <3>1, <3>2
  <2>11. \A i \in 1 .. Len(T) : T2[i].id = T[i].id
    BY <2>3, <2>5, <2>8
  <2> QED BY <2>7, <2>10, <2>11
<1> QED BY <1>1, <1>2

LEMMA RegisterType ==
  ASSUME NEW T \in Seq(Entry), NEW id \in Seq(Nat), NEW T2, T2 = RegisterAgent(T, id)
  PROVE  /\ T2 \in Seq(Entry) /\ Len(T2) = Len(T) + 1
         /\ \A i \in 1 .. Len(T) : T2[i] = T[i]
         /\ T2[Len(T2)] = [id |-> id, state |-> "running"]
<1>1. PICK e \in Entry : e = [id |-> id, state |-> "running"]
  BY DEF Entry
<1>2. T2 = Append(T, e)
  BY <1>1 DEF RegisterAgent
<1> QED BY <1>1, <1>2

LEMMA RecordType ==
  ASSUME NEW Q \in Seq(Message), NEW kind \in {"task", "result"}, NEW id \in Seq(Nat)
  PROVE  RecordLast(Q, [kind |-> kind, agent |-> id], MaxMessages) \in Seq(Message)
<1>1. PICK e \in Message : e = [kind |-> kind, agent |-> id]
  BY DEF Message
<1>2. CASE Len(Q) >= MaxMessages
  <2>1. Q # << >>
    BY <1>2
  <2>2. Tail(Q) \in Seq(Message)
    BY <2>1
  <2>3. RecordLast(Q, e, MaxMessages) = Append(Tail(Q), e)
    BY <1>2 DEF RecordLast
  <2>4. Append(Tail(Q), e) \in Seq(Message)
    BY <2>2
  <2> QED BY <1>1, <2>3, <2>4
<1>3. CASE ~(Len(Q) >= MaxMessages)
  BY <1>1, <1>3 DEF RecordLast
<1> QED BY <1>2, <1>3

-----------------------------------------------------------------------------
(* Types *)

\* The variables beside the stacks.
RestOK ==
  /\ nextId \in Nat
  /\ agents \in Seq(Entry)
  /\ internal \in Seq(Message)
  /\ nextRun \in 1 .. MaxRuns + 1
  /\ requests \in [Threads -> Nat]
  /\ lost \subseteq Seq(Nat)

LEMMA MainType == Main \in Seq(Nat) /\ Len(Main) = 0
BY DEF Main

LEMMA TypeParts == TypeOK <=> Stacks /\ RestOK
BY DEF TypeOK, Stacks, RestOK, Entry, Message

LEMMA InitBase == Init => BaseInv
<1> SUFFICES ASSUME Init PROVE BaseInv
  OBVIOUS
<1>1. agents \in Seq(Entry)
  <2>1. PICK e \in Entry : e = [id |-> Main, state |-> "running"]
    BY MainType DEF Entry
  <2>2. agents = <<e>> /\ <<e>> \in Seq(Entry)
    BY <2>1 DEF Init
  <2> QED BY <2>2
<1>2. RestOK
  BY <1>1 DEF RestOK, Init
<1>3. Stacks /\ \A t \in Threads : StackOK(stack[t])
  BY EmptyOK DEF Init, Stacks
<1> QED BY <1>2, <1>3, TypeParts DEF BaseInv

\* What the steps do to the other variables.
LEMMA RestStays ==
  ASSUME BaseInv, NEW t \in Threads, Run(t) \/ ThreadStep(t)
  PROVE  RestOK'
<1> USE DEF RestOK
<1>1. RestOK
  BY TypeParts DEF BaseInv
<1>2. ASSUME NEW id \in Seq(Nat), NEW state \in {"running", "completed"}
      PROVE  UpdateAgentState(agents, id, state) \in Seq(Entry)
  BY <1>1, UpdateEffect
<1>3. ASSUME NEW id \in Seq(Nat), NEW kind \in {"task", "result"}
      PROVE  Told(kind, id) \in Seq(Message)
  BY <1>1, RecordType DEF Told
<1>4. CASE Run(t)
  <2>1. nextRun' \in 1 .. MaxRuns + 1
    BY <1>1, <1>4 DEF Run
  <2>2. agents' \in Seq(Entry)
    BY <1>2, <1>4, MainType DEF Run
  <2>3. requests' \in [Threads -> Nat]
    BY <1>1, <1>4 DEF Run
  <2> QED BY <1>1, <1>4, <2>1, <2>2, <2>3 DEF Run
<1>5. CASE Chat(t)
  <2>1. requests' \in [Threads -> Nat]
    <3>1. PICK n \in Nat : n = IF requests[t] > Work[MaxIterations] THEN requests[t]
                               ELSE requests[t] + 1
      BY <1>1
    <3>2. requests' = [requests EXCEPT ![t] = n]
      BY <1>5, <3>1 DEF Chat
    <3> QED BY <1>1, <3>2
  <2> QED BY <1>1, <1>5, <2>1 DEF Chat
<1>6. CASE ChatCallsTools(t) \/ RunSkill(t) \/ SpawnRead(t)
  BY <1>1, <1>6 DEF ChatCallsTools, RunSkill, SpawnRead
<1>7. CASE SpawnWrite(t)
  <2>1. Depth(t) > 0
    BY <1>7 DEF SpawnWrite, At
  <2>2. Top(t).id \in Seq(Nat) /\ Top(t).read \in Nat
    BY <2>1, TopType DEF Frame
  <2>3. PICK id \in Seq(Nat) : id = Append(Top(t).id, Top(t).read)
    BY <2>2, AppendProperties
  <2>4. RegisterAgent(agents, id) \in Seq(Entry)
    BY <1>1, RegisterType
  <2>5. agents' \in Seq(Entry)
    BY <1>7, <2>3, <2>4, UpdateEffect DEF SpawnWrite
  <2>6. internal' \in Seq(Message)
    BY <1>3, <1>7, <2>3 DEF SpawnWrite
  <2>7. nextId' \in Nat
    BY <1>1, <1>7, <2>2 DEF SpawnWrite
  <2> QED BY <1>1, <1>7, <2>5, <2>6, <2>7 DEF SpawnWrite
<1>8. CASE Return(t)
  <2>1. Depth(t) > 0
    BY <1>8 DEF Return, At
  <2>2. Top(t).id \in Seq(Nat)
    BY <2>1, TopType DEF Frame
  <2>3. agents' \in Seq(Entry) /\ internal' \in Seq(Message)
    BY <1>1, <1>2, <1>3, <1>8, <2>2 DEF Return
  <2> QED BY <1>1, <1>8, <2>3 DEF Return
<1>9. CASE Throw(t)
  <2>1. \A d \in 2 .. Depth(t) : stack[t][d].id \in Seq(Nat)
    <3>1. PICK s \in Seq(Frame) : s = stack[t]
      BY DEF BaseInv, TypeOK
    <3>2. ASSUME NEW d \in 2 .. Len(s)
          PROVE  s[d].id \in Seq(Nat)
      <4>1. s[d] \in Frame
        OBVIOUS
      <4> QED BY <4>1 DEF Frame
    <3> QED BY <3>1, <3>2 DEF Depth
  <2> QED BY <1>1, <1>9, <2>1 DEF Throw
<1> QED BY <1>4, <1>5, <1>6, <1>7, <1>8, <1>9 DEF ThreadStep

LEMMA StepWorks ==
  ASSUME BaseInv, NEW t \in Threads, ThreadStep(t)
  PROVE  Works(t)
<1>1. CASE Return(t)
  BY <1>1, ReturnStep DEF Works
<1>2. CASE Throw(t)
  BY <1>2, ThrowStep DEF Works
<1> QED BY <1>1, <1>2, ChatStep, FreeStep, SpawnStep DEF ThreadStep, Works

LEMMA KeepsBase ==
  ASSUME BaseInv, [Next]_vars
  PROVE  BaseInv'
<1>1. ASSUME NEW t \in Threads, Run(t) \/ ThreadStep(t)
      PROVE  BaseInv'
  <2>1. Stacks' /\ \A u \in Threads : StackOK(stack'[u])
    BY <1>1, RunStacks, StepWorks, StacksStay
  <2>2. RestOK'
    BY <1>1, RestStays
  <2>3. TypeOK'
    BY <2>1, <2>2, TypeParts DEF TypeOK, Stacks, RestOK, Entry, Message
  <2> QED BY <2>1, <2>3 DEF BaseInv
<1>2. CASE Waiting \/ UNCHANGED vars
  BY <1>2 DEF Waiting, vars, BaseInv, TypeOK
<1> QED BY <1>1, <1>2 DEF Next

\* The types, for agent.cpp:78-94, 189-196 and monitor.cpp:11-52: in particular
\* the iterations and the calls of no agent go past its own bounds.
THEOREM TypeCorrect == Spec => []TypeOK
<1>1. BaseInv => TypeOK
  BY DEF BaseInv
<1> QED BY InitBase, KeepsBase, <1>1, PTL DEF Spec

-----------------------------------------------------------------------------
(* What a client request costs *)

CostInv == \A t \in Threads : Affordable(stack[t], requests[t])

LEMMA AffordableBound ==
  ASSUME NEW s \in Seq(Frame), NEW n, Affordable(s, n)
  PROVE  n \in Nat /\ n <= Work[MaxIterations]
<1>1. PICK g : Affords(s, n, g)
  BY DEF Affordable
<1>2. n \in Nat /\ g[Len(s)] \in Nat
  BY <1>1 DEF Affordable, Affords
<1>3. PICK w \in Nat : w = Work[MaxIterations]
  BY WorkDef
<1>4. PICK x \in Nat : x = g[Len(s)]
  BY <1>2
<1>5. n + x <= w
  BY <1>1, <1>3, <1>4 DEF Affords
<1>6. n <= w
  BY <1>2, <1>3, <1>4, <1>5
<1> QED BY <1>2, <1>3, <1>6

LEMMA EmptyAffords ==
  ASSUME NEW n \in Nat, n <= Work[MaxIterations]
  PROVE  Affordable(<< >>, n)
<1> DEFINE g == [d \in 0 .. 0 |-> 0]
<1>1. g \in [0 .. 0 -> Nat] /\ g[0] = 0
  OBVIOUS
<1> HIDE DEF g
<1>2. n + g[0] <= Work[MaxIterations]
  BY <1>1
<1>3. Len(<< >>) = 0
  OBVIOUS
<1>4. Affords(<< >>, n, g)
  BY <1>1, <1>2, <1>3 DEF Affords
<1> QED BY <1>4 DEF Affordable

LEMMA NewAffords ==
  ASSUME NEW a, a = NewAgent(Main, MaxIterations)
  PROVE  Affordable(<<a>>, 0)
<1>1. PICK w \in Nat : w = Work[MaxIterations]
  BY WorkDef
<1>2. Rest(a) = w
  <2>1. Main \in Seq(Nat) /\ MaxIterations \in 0 .. MaxIterations
    BY DEF Main
  <2> QED BY <1>1, <2>1, NewAgentCost
<1> DEFINE g == [d \in 0 .. 1 |-> IF d = 0 THEN 0 ELSE w]
<1>3. g \in [0 .. 1 -> Nat] /\ g[0] = 0 /\ g[1] = w
  OBVIOUS
<1> HIDE DEF g
<1>4. Len(<<a>>) = 1 /\ <<a>>[1] = a /\ 1 - 1 = 0
  OBVIOUS
<1>5. 0 + g[1] <= Work[MaxIterations] /\ g[0] + Rest(a) <= g[1]
  BY <1>1, <1>2, <1>3
<1>6. Affords(<<a>>, 0, g)
  BY <1>3, <1>4, <1>5 DEF Affords
<1> QED BY <1>6 DEF Affordable

LEMMA KeepsCost ==
  ASSUME BaseInv, CostInv, [Next]_vars
  PROVE  CostInv'
<1>1. ASSUME NEW t \in Threads, Run(t) \/ ThreadStep(t)
      PROVE  CostInv'
  <2>1. stack[t] \in Seq(Frame) /\ StackOK(stack[t]) /\ Affordable(stack[t], requests[t])
    BY DEF BaseInv, TypeOK, CostInv
  <2>2. PICK s \in Seq(Frame), n \in Nat : s = stack[t] /\ n = requests[t]
    BY <2>1 DEF BaseInv, TypeOK
  <2>3. PICK r, m : r = stack'[t] /\ m = requests'[t]
    OBVIOUS
  <2>4. /\ StackOK(s) /\ Affordable(s, n) /\ n \in Nat /\ n <= Work[MaxIterations]
        /\ requests \in [Threads -> Nat] /\ Depth(t) = Len(s)
    BY <2>1, <2>2, AffordableBound DEF BaseInv, TypeOK, Depth
  <2>5. KeepsOthers(t) /\ \A u \in Threads \ {t} : requests'[u] = requests[u]
    <3>1. KeepsOthers(t)
      BY <1>1, RunStep, StepWorks DEF Works, Turned, Pushed, Popped, Emptied
    <3>2. \A u \in Threads \ {t} : requests'[u] = requests[u]
      BY <1>1, <2>4 DEF Run, ThreadStep, Chat, ChatCallsTools, RunSkill, SpawnRead, SpawnWrite,
                        Return, Throw
    <3> QED BY <3>1, <3>2
  <2>6. Depth(t) > 0 => /\ Top(t) = s[Len(s)]
                        /\ FrameOK(s[Len(s)])
    BY <2>2, TopType
  <2>7. ASSUME Turned(t, 0), m = n
        PROVE  Affordable(r, m)
    <3>1. PICK f \in Frame :
            Turn(s, r, f) /\ FrameOK(f) /\ Rest(f) + 0 <= Rest(Top(t))
      BY <2>2, <2>3, <2>7 DEF Turned
    <3>2. Rest(f) + 0 <= Rest(s[Len(s)]) /\ FrameOK(s[Len(s)])
      BY <2>4, <2>6, <3>1 DEF Turn
    <3>3. Turn(s, r, f) /\ FrameOK(f) /\ Affordable(s, n)
      BY <2>4, <3>1
    <3>4. Affordable(r, n + 0)
      BY <3>2, <3>3, TurnAffords
    <3>5. n + 0 = m
      BY <2>4, <2>7
    <3> QED BY <3>4, <3>5
  <2>8. ASSUME Chat(t)
        PROVE  Affordable(r, m)
    <3>1. PICK f \in Frame :
            Turn(s, r, f) /\ FrameOK(f) /\ Rest(f) + 1 <= Rest(Top(t))
      BY <2>2, <2>3, <2>8, ChatStep DEF Turned
    <3>2. Rest(f) + 1 <= Rest(s[Len(s)]) /\ FrameOK(s[Len(s)])
      BY <2>4, <2>6, <3>1 DEF Turn
    <3>3. Turn(s, r, f) /\ FrameOK(f) /\ Affordable(s, n)
      BY <2>4, <3>1
    <3>4. Affordable(r, n + 1)
      BY <3>2, <3>3, TurnAffords
    <3>5. m = n + 1
      <4>1. ~(n > Work[MaxIterations])
        BY <2>4, WorkDef
      <4> QED BY <2>2, <2>3, <2>4, <2>8, <4>1 DEF Chat
    <3> QED BY <3>4, <3>5
  <2>9. ASSUME Pushed(t), m = n
        PROVE  Affordable(r, m)
    <3>1. PICK f \in Frame, g \in Frame :
            /\ Push(s, r, f, g) /\ FrameOK(f) /\ f.pc = "spawn" /\ FrameOK(g)
            /\ After(f) + Rest(g) <= Rest(Top(t))
      BY <2>2, <2>3, <2>9 DEF Pushed
    <3>2. After(f) + Rest(g) <= Rest(s[Len(s)]) /\ FrameOK(s[Len(s)])
      BY <2>4, <2>6, <3>1 DEF Push
    <3> QED BY <2>4, <2>9, <3>1, <3>2, PushAffords
  <2>10. ASSUME Popped(t), m = n
         PROVE  Affordable(r, m)
    <3>1. PICK f \in Frame : /\ Pop(s, r, f) /\ FrameOK(f)
                             /\ Rest(f) <= After(stack[t][Depth(t) - 1])
      BY <2>2, <2>3, <2>10 DEF Popped
    <3>2. Rest(f) <= After(s[Len(s) - 1])
      BY <2>2, <2>4, <3>1
    <3> QED BY <2>4, <2>10, <3>1, <3>2, PopAffords
  <2>11. ASSUME Emptied(t), m = n
         PROVE  Affordable(r, m)
    BY <2>3, <2>4, <2>11, EmptyAffords DEF Emptied
  <2>12. ASSUME Run(t)
         PROVE  Affordable(r, m)
    <3>1. PICK a : a = NewAgent(Main, MaxIterations)
      OBVIOUS
    <3>2. r = <<a>> /\ m = 0
      BY <2>3, <2>4, <2>12, <3>1, RunStep DEF Run
    <3> QED BY <3>1, <3>2, NewAffords
  <2>13. ASSUME ThreadStep(t), ~Chat(t)
         PROVE  m = n /\ (Turned(t, 0) \/ Pushed(t) \/ Popped(t) \/ Emptied(t))
    <3>1. m = n
      BY <2>2, <2>3, <2>13 DEF ThreadStep, ChatCallsTools, RunSkill, SpawnRead, SpawnWrite,
                               Return, Throw
    <3>2. Turned(t, 0) \/ Pushed(t) \/ Popped(t) \/ Emptied(t)
      <4>1. CASE Return(t)
        BY <4>1, ReturnStep
      <4>2. CASE Throw(t)
        BY <4>2, ThrowStep
      <4> QED BY <2>13, <4>1, <4>2, FreeStep, SpawnStep DEF ThreadStep
    <3> QED BY <3>1, <3>2
  <2>14. Affordable(r, m)
    BY <1>1, <2>7, <2>8, <2>9, <2>10, <2>11, <2>12, <2>13
  <2>15. ASSUME NEW u \in Threads
         PROVE  Affordable(stack'[u], requests'[u])
    <3>1. CASE u = t
      BY <2>3, <2>14, <3>1
    <3>2. CASE u # t
      <4>1. stack'[u] = stack[u] /\ requests'[u] = requests[u]
        BY <2>5, <3>2 DEF KeepsOthers
      <4>2. Affordable(stack[u], requests[u])
        BY DEF CostInv
      <4> QED BY <4>1, <4>2
    <3> QED BY <3>1, <3>2
  <2> QED BY <2>15 DEF CostInv
<1>2. CASE Waiting \/ UNCHANGED vars
  BY <1>2 DEF Waiting, vars, CostInv
<1> QED BY <1>1, <1>2 DEF Next

\* What one client request can cost is bounded (agent.cpp:189-196): for every
\* limit of iterations, whatever the LLM answers and however the threads
\* interleave, the requests to the LLM below one run() are at most Work.
THEOREM CostIsBounded == Spec => []WorkBounded
<1>1. Init => CostInv
  <2>1. ASSUME Init PROVE CostInv
    <3>1. 0 \in Nat /\ 0 <= Work[MaxIterations]
      BY WorkDef
    <3>2. Affordable(<< >>, 0)
      BY <3>1, EmptyAffords
    <3> QED BY <2>1, <3>2 DEF CostInv, Init
  <2> QED BY <2>1
<1>2. BaseInv /\ CostInv => WorkBounded
  <2>1. ASSUME BaseInv, CostInv, NEW t \in Threads
        PROVE  requests[t] <= Work[MaxIterations]
    <3>1. stack[t] \in Seq(Frame) /\ Affordable(stack[t], requests[t])
      BY <2>1 DEF BaseInv, TypeOK, CostInv
    <3> QED BY <3>1, AffordableBound
  <2> QED BY <2>1 DEF WorkBounded
<1> QED BY InitBase, KeepsBase, KeepsCost, <1>1, <1>2, PTL DEF Spec

-----------------------------------------------------------------------------
(* The table of agents *)

\* Main is the first agent; update_agent_state changes first entries only, so
\* the others are as they were registered.
TableOK(T) ==
  /\ Len(T) > 0 /\ T[1].id = Main
  /\ \A i, j \in 1 .. Len(T) : i < j /\ T[i].id = T[j].id => T[j].state = "running"

Listed(T, id) == \E i \in 1 .. Len(T) : T[i].id = id /\ T[i].state = "running"

Twice(T, id) == \E i, j \in 1 .. Len(T) : i < j /\ T[i].id = id /\ T[j].id = id

LEMMA UpdateTable ==
  ASSUME NEW T \in Seq(Entry), TableOK(T), NEW id, NEW state \in {"running", "completed"},
         NEW T2, T2 = UpdateAgentState(T, id, state)
  PROVE  /\ T2 \in Seq(Entry) /\ TableOK(T2)
         /\ \A x : Twice(T, x) => Twice(T2, x) /\ Listed(T2, x)
         /\ \A x : Listed(T, x) /\ (x # id \/ state = "running") => Listed(T2, x)
<1>1. /\ T2 \in Seq(Entry) /\ Len(T2) = Len(T)
      /\ \A i \in 1 .. Len(T) : T2[i].id = T[i].id
      /\ \A i \in 1 .. Len(T) :
           IF T[i].id = id /\ \A j \in 1 .. i - 1 : T[j].id # id
           THEN T2[i].state = state ELSE T2[i] = T[i]
  BY UpdateEffect
<1>2. ASSUME NEW i \in 1 .. Len(T), NEW j \in 1 .. Len(T), i < j, T[i].id = T[j].id
      PROVE  T2[j].state = "running"
  <2>1. T[j].state = "running"
    BY <1>2 DEF TableOK
  <2>2. i \in 1 .. j - 1
    BY <1>2
  <2>3. T[j].id = id => ~(\A h \in 1 .. j - 1 : T[h].id # id)
    BY <1>2, <2>2
  <2>4. T2[j] = T[j]
    BY <1>1, <2>3
  <2> QED BY <2>1, <2>4
<1>3. TableOK(T2)
  <2>1. 1 \in 1 .. Len(T)
    BY DEF TableOK
  <2> QED BY <1>1, <1>2, <2>1 DEF TableOK
<1>4. ASSUME NEW x, Twice(T, x)
      PROVE  Twice(T2, x) /\ Listed(T2, x)
  <2>1. PICK i \in 1 .. Len(T), j \in 1 .. Len(T) : i < j /\ T[i].id = x /\ T[j].id = x
    BY <1>4 DEF Twice
  <2>2. T2[j].state = "running" /\ T2[i].id = x /\ T2[j].id = x
    BY <1>1, <1>2, <2>1
  <2> QED BY <1>1, <2>1, <2>2 DEF Twice, Listed
<1>5. ASSUME NEW x, Listed(T, x), x # id \/ state = "running"
      PROVE  Listed(T2, x)
  <2>1. PICK i \in 1 .. Len(T) : T[i].id = x /\ T[i].state = "running"
    BY <1>5 DEF Listed
  <2>2. T2[i].id = x /\ T2[i].state = "running"
    BY <1>1, <1>5, <2>1
  <2> QED BY <1>1, <2>2 DEF Listed
<1> QED BY <1>1, <1>3, <1>4, <1>5

LEMMA RegisterTable ==
  ASSUME NEW T \in Seq(Entry), TableOK(T), NEW id \in Seq(Nat),
         NEW T2, T2 = RegisterAgent(T, id)
  PROVE  /\ T2 \in Seq(Entry) /\ TableOK(T2) /\ Listed(T2, id)
         /\ Listed(T, id) => Twice(T2, id)
         /\ \A x : Twice(T, x) => Twice(T2, x)
         /\ \A x : Listed(T, x) => Listed(T2, x)
<1>1. PICK n \in Nat : n = Len(T)
  OBVIOUS
<1>2. /\ T2 \in Seq(Entry) /\ Len(T2) = n + 1
      /\ \A i \in 1 .. n : T2[i] = T[i]
      /\ T2[n + 1] = [id |-> id, state |-> "running"]
  BY <1>1, RegisterType
<1>3. T2[n + 1].id = id /\ T2[n + 1].state = "running" /\ n + 1 \in 1 .. n + 1
  BY <1>2
<1>4. \A i \in 1 .. n : i \in 1 .. n + 1 /\ i < n + 1
  OBVIOUS
<1>5. TableOK(T2)
  <2>1. Len(T2) > 0 /\ T2[1].id = Main
    BY <1>1, <1>2 DEF TableOK
  <2>2. ASSUME NEW i \in 1 .. n + 1, NEW j \in 1 .. n + 1, i < j, T2[i].id = T2[j].id
        PROVE  T2[j].state = "running"
    <3>1. CASE j = n + 1
      BY <1>3, <3>1
    <3>2. CASE j # n + 1
      <4>1. i \in 1 .. n /\ j \in 1 .. n
        BY <2>2, <3>2
      <4> QED BY <1>1, <1>2, <2>2, <4>1 DEF TableOK
    <3> QED BY <3>1, <3>2
  <2> QED BY <1>2, <2>1, <2>2 DEF TableOK
<1>6. Listed(T2, id)
  BY <1>2, <1>3 DEF Listed
<1>7. ASSUME Listed(T, id)
      PROVE  Twice(T2, id)
  <2>1. PICK i \in 1 .. n : T[i].id = id
    BY <1>1, <1>7 DEF Listed
  <2> QED BY <1>2, <1>3, <1>4, <2>1 DEF Twice
<1>8. ASSUME NEW x, Twice(T, x)
      PROVE  Twice(T2, x)
  <2>1. PICK i \in 1 .. n, j \in 1 .. n : i < j /\ T[i].id = x /\ T[j].id = x
    BY <1>1, <1>8 DEF Twice
  <2> QED BY <1>2, <1>4, <2>1 DEF Twice
<1>9. ASSUME NEW x, Listed(T, x)
      PROVE  Listed(T2, x)
  <2>1. PICK i \in 1 .. n : T[i].id = x /\ T[i].state = "running"
    BY <1>1, <1>9 DEF Listed
  <2> QED BY <1>2, <1>4, <2>1 DEF Listed
<1> QED BY <1>2, <1>5, <1>6, <1>7, <1>8, <1>9

\* Every agent in its run() has a running entry; where the race on the counter
\* gave two of them one id, there are two entries of that id, and one stays
\* running when the other agent ends.
ListInv ==
  /\ TableOK(agents)
  /\ \A t \in Threads, d \in Nat :
       d \in 2 .. Depth(t) => Listed(agents, stack[t][d].id)
  /\ \A t \in Threads, u \in Threads, d \in Nat :
       /\ t # u /\ d \in 2 .. Depth(t) /\ d \in 2 .. Depth(u)
       /\ stack[t][d].id = stack[u][d].id
       => Twice(agents, stack[t][d].id)

\* The ids on the stack of the thread stay as far as it stays.
Shrinks(t) ==
  /\ Stacks' /\ Depth(t)' \in Nat
  /\ \A d \in 2 .. Depth(t)' : d <= Depth(t) /\ stack'[t][d].id = stack[t][d].id
  /\ \A u \in Threads \ {t} : stack'[u] = stack[u]

LEMMA TurnedShrinks ==
  ASSUME BaseInv, NEW t \in Threads, NEW c, Turned(t, c) \/ Popped(t) \/ Emptied(t)
  PROVE  Shrinks(t)
<1>1. PICK s \in Seq(Frame) : s = stack[t]
  BY DEF BaseInv, TypeOK
<1>2. PICK r \in Seq(Frame) : r = stack'[t]
  <2>1. Stacks'
    BY DEF Turned, Popped, Emptied, KeepsOthers
  <2> QED BY <2>1 DEF Stacks
<1>3. Depth(t) = Len(s) /\ Depth(t)' = Len(r) /\ KeepsOthers(t)
  BY <1>1, <1>2 DEF Depth, Turned, Popped, Emptied
<1>4. \A d \in 2 .. Len(r) : d <= Len(s) /\ r[d].id = s[d].id
  <2>1. CASE Turned(t, c)
    <3>1. PICK f : Turn(s, r, f) /\ Same(f, Top(t))
      BY <1>1, <1>2, <2>1 DEF Turned
    <3>2. f.id = s[Len(s)].id
      BY <1>1, <3>1 DEF Same, Top, Depth
    <3> QED BY <3>1, <3>2 DEF Turn
  <2>2. CASE Popped(t)
    <3>1. PICK f : Pop(s, r, f) /\ Same(f, s[Len(s) - 1])
      BY <1>1, <1>2, <1>3, <2>2 DEF Popped
    <3>2. f.id = s[Len(s) - 1].id
      BY <3>1 DEF Same
    <3> QED BY <3>1, <3>2 DEF Pop
  <2>3. CASE Emptied(t)
    BY <1>2, <2>3 DEF Emptied
  <2> QED BY <2>1, <2>2, <2>3
<1> QED BY <1>1, <1>2, <1>3, <1>4 DEF Shrinks, KeepsOthers

LEMMA RunShrinks ==
  ASSUME BaseInv, NEW t \in Threads, Run(t)
  PROVE  Shrinks(t)
<1>1. PICK a : a = NewAgent(Main, MaxIterations)
  OBVIOUS
<1>2. stack'[t] = <<a>> /\ KeepsOthers(t)
  BY <1>1, RunStep
<1>3. Depth(t)' = 1
  BY <1>2 DEF Depth
<1> QED BY <1>2, <1>3 DEF Shrinks, KeepsOthers

\* Fewer agents in the same table, or in one where nothing was lost.
LEMMA ShrinkKeepsList ==
  ASSUME BaseInv, ListInv, NEW t \in Threads, Shrinks(t), TableOK(agents'),
         \A x : Twice(agents, x) => Twice(agents', x),
         \A x : Listed(agents, x) => Listed(agents', x)
  PROVE  ListInv'
<1>1. ASSUME NEW u \in Threads, NEW d \in Nat, d \in 2 .. Depth(u)'
      PROVE  d \in 2 .. Depth(u) /\ stack'[u][d].id = stack[u][d].id
  <2>1. CASE u = t
    <3>1. stack[t] \in Seq(Frame)
      BY DEF BaseInv, TypeOK
    <3>2. Depth(t) \in Nat
      BY <3>1 DEF Depth
    <3> QED BY <1>1, <2>1, <3>2 DEF Shrinks
  <2>2. CASE u # t
    <3>1. stack'[u] = stack[u]
      BY <2>2 DEF Shrinks
    <3> QED BY <1>1, <3>1 DEF Depth
  <2> QED BY <2>1, <2>2
<1>2. ASSUME NEW u \in Threads, NEW d \in Nat, d \in 2 .. Depth(u)'
      PROVE  Listed(agents', stack'[u][d].id)
  <2>1. d \in 2 .. Depth(u) /\ stack'[u][d].id = stack[u][d].id
    BY <1>1, <1>2
  <2>2. Listed(agents, stack[u][d].id)
    BY <2>1 DEF ListInv
  <2> QED BY <2>1, <2>2
<1>3. ASSUME NEW u \in Threads, NEW v \in Threads, NEW d \in Nat, u # v,
             d \in 2 .. Depth(u)', d \in 2 .. Depth(v)',
             stack'[u][d].id = stack'[v][d].id
      PROVE  Twice(agents', stack'[u][d].id)
  <2>1. d \in 2 .. Depth(u) /\ stack'[u][d].id = stack[u][d].id
    BY <1>1, <1>3
  <2>2. d \in 2 .. Depth(v) /\ stack'[v][d].id = stack[v][d].id
    BY <1>1, <1>3
  <2>3. Twice(agents, stack[u][d].id)
    BY <1>3, <2>1, <2>2 DEF ListInv
  <2> QED BY <2>1, <2>3
<1> QED BY <1>2, <1>3 DEF ListInv

\* The ids of the agents of a thread are as long as they are deep.
LEMMA IdLength ==
  ASSUME BaseInv, NEW t \in Threads, NEW d \in Nat, d \in 1 .. Depth(t)
  PROVE  stack[t][d].id \in Seq(Nat) /\ Len(stack[t][d].id) = d - 1
<1>1. PICK s \in Seq(Frame) : s = stack[t] /\ StackOK(s)
  BY DEF BaseInv, TypeOK
<1>2. d \in 1 .. Len(s) /\ s[d] \in Frame
  BY <1>1 DEF Depth
<1> QED BY <1>1, <1>2 DEF StackOK, Frame

LEMMA SpawnKeepsList ==
  ASSUME BaseInv, ListInv, NEW t \in Threads, SpawnWrite(t)
  PROVE  ListInv'
<1>1. PICK s \in Seq(Frame) : s = stack[t] /\ Depth(t) = Len(s) /\ Len(s) > 0
  BY DEF BaseInv, TypeOK, Depth, SpawnWrite, At
<1>2. Top(t).id \in Seq(Nat) /\ Top(t).read \in Nat
  BY <1>1, TopType DEF Frame
<1>3. PICK id \in Seq(Nat) : id = Append(Top(t).id, Top(t).read)
  BY <1>2, AppendProperties
<1>4. PICK r \in Seq(Frame), f \in Frame, g \in Frame :
        /\ r = stack'[t] /\ Push(s, r, f, g) /\ Same(f, Top(t)) /\ g.id = id
  <2>1. PICK f \in Frame, g \in Frame :
          Push(s, stack'[t], f, g) /\ Same(f, Top(t)) /\ g.id = id
    BY <1>1, <1>3, SpawnStep DEF Pushed
  <2>2. stack'[t] \in Seq(Frame)
    BY <2>1 DEF Push
  <2> QED BY <2>1, <2>2
<1>5. KeepsOthers(t)
  BY SpawnStep DEF Pushed
<1>6. PICK T \in Seq(Entry) : T = agents /\ TableOK(T)
  BY DEF BaseInv, TypeOK, Entry, ListInv
<1>7. PICK T1 : T1 = RegisterAgent(T, id)
  OBVIOUS
<1>8. /\ T1 \in Seq(Entry) /\ TableOK(T1) /\ Listed(T1, id)
      /\ Listed(T, id) => Twice(T1, id)
      /\ \A x : Twice(T, x) => Twice(T1, x)
      /\ \A x : Listed(T, x) => Listed(T1, x)
  BY <1>6, <1>7, RegisterTable
<1>9. PICK T2 : T2 = UpdateAgentState(T1, id, "running")
  OBVIOUS
<1>10. /\ TableOK(T2)
       /\ \A x : Twice(T1, x) => Twice(T2, x)
       /\ \A x : Listed(T1, x) => Listed(T2, x)
  BY <1>8, <1>9, UpdateTable
<1>11. agents' = T2
  BY <1>3, <1>6, <1>7, <1>9 DEF SpawnWrite
\* An agent is an old one, or the one that begins.
<1>12. ASSUME NEW u \in Threads, NEW d \in Nat, d \in 2 .. Depth(u)'
       PROVE  \/ d \in 2 .. Depth(u) /\ stack'[u][d].id = stack[u][d].id
              \/ u = t /\ d = Len(s) + 1 /\ stack'[u][d].id = id
  <2>1. CASE u # t
    BY <1>5, <1>12, <2>1 DEF KeepsOthers, Depth
  <2>2. CASE u = t
    <3>1. d \in 2 .. Len(s) + 1
      BY <1>4, <1>12, <2>2 DEF Push, Depth
    <3>2. CASE d = Len(s) + 1
      BY <1>4, <2>2, <3>2 DEF Push
    <3>3. CASE d = Len(s)
      <4>1. r[d] = f /\ f.id = s[d].id
        BY <1>1, <1>4, <3>3 DEF Push, Same, Top
      <4> QED BY <1>1, <1>4, <2>2, <3>1, <3>3, <4>1
    <3>4. CASE d < Len(s)
      <4>1. d \in 1 .. Len(s) - 1 /\ d \in 2 .. Len(s)
        BY <3>1, <3>4
      <4> QED BY <1>1, <1>4, <2>2, <4>1 DEF Push
    <3> QED BY <3>1, <3>2, <3>3, <3>4
  <2> QED BY <2>1, <2>2
<1>13. ASSUME NEW u \in Threads, NEW d \in Nat, d \in 2 .. Depth(u)'
       PROVE  Listed(agents', stack'[u][d].id)
  <2>1. CASE d \in 2 .. Depth(u) /\ stack'[u][d].id = stack[u][d].id
    <3>1. Listed(T, stack[u][d].id)
      BY <1>6, <2>1 DEF ListInv
    <3> QED BY <1>8, <1>10, <1>11, <2>1, <3>1
  <2>2. CASE stack'[u][d].id = id
    BY <1>8, <1>10, <1>11, <2>2
  <2> QED BY <1>12, <1>13, <2>1, <2>2
\* The new agent has the id of an old one only if that one is listed.
<1>14. ASSUME NEW u \in Threads, NEW v \in Threads, NEW d \in Nat, u # v,
              d \in 2 .. Depth(u)', d \in 2 .. Depth(v)',
              stack'[u][d].id = stack'[v][d].id
       PROVE  Twice(agents', stack'[u][d].id)
  <2>1. ASSUME NEW w \in Threads, d \in 2 .. Depth(w), stack[w][d].id = id
        PROVE  Twice(agents', id)
    <3>1. Listed(T, id)
      BY <1>6, <2>1 DEF ListInv
    <3> QED BY <1>8, <1>10, <1>11, <3>1
  <2>2. \/ d \in 2 .. Depth(u) /\ stack'[u][d].id = stack[u][d].id
        \/ u = t /\ stack'[u][d].id = id
    BY <1>12, <1>14
  <2>3. \/ d \in 2 .. Depth(v) /\ stack'[v][d].id = stack[v][d].id
        \/ v = t /\ stack'[v][d].id = id
    BY <1>12, <1>14
  <2>4. CASE u = t /\ stack'[u][d].id = id
    <3>1. d \in 2 .. Depth(v) /\ stack[v][d].id = id
      BY <1>14, <2>3, <2>4
    <3> QED BY <2>1, <2>4, <3>1
  <2>5. CASE v = t /\ stack'[v][d].id = id
    <3>1. d \in 2 .. Depth(u) /\ stack[u][d].id = id
      BY <1>14, <2>2, <2>5
    <3> QED BY <1>14, <2>1, <2>5, <3>1
  <2>6. CASE /\ d \in 2 .. Depth(u) /\ stack'[u][d].id = stack[u][d].id
             /\ d \in 2 .. Depth(v) /\ stack'[v][d].id = stack[v][d].id
    <3>1. Twice(T, stack[u][d].id)
      BY <1>6, <1>14, <2>6 DEF ListInv
    <3> QED BY <1>8, <1>10, <1>11, <2>6, <3>1
  <2> QED BY <2>2, <2>3, <2>4, <2>5, <2>6
<1> QED BY <1>10, <1>11, <1>13, <1>14 DEF ListInv

LEMMA ReturnKeepsList ==
  ASSUME BaseInv, ListInv, NEW t \in Threads, Return(t)
  PROVE  ListInv'
<1>1. Depth(t) > 0 /\ TableOK(agents)
  BY ReturnStep DEF ListInv
<1>2. CASE Depth(t) = 1
  <2>1. Shrinks(t) /\ agents' = agents
    BY <1>2, ReturnStep, TurnedShrinks DEF Return
  <2> QED BY <1>1, <2>1, ShrinkKeepsList
<1>3. CASE Depth(t) # 1
  <2>1. PICK T \in Seq(Entry) : T = agents /\ TableOK(T)
    BY DEF BaseInv, TypeOK, Entry, ListInv
  <2>2. PICK id : id = Top(t).id
    OBVIOUS
  <2>3. PICK T2 : T2 = UpdateAgentState(T, id, "completed")
    OBVIOUS
  <2>4. agents' = T2
    BY <1>3, <2>1, <2>2, <2>3 DEF Return
  <2>5. /\ TableOK(T2)
        /\ \A x : Twice(T, x) => Twice(T2, x) /\ Listed(T2, x)
        /\ \A x : Listed(T, x) /\ x # id => Listed(T2, x)
    BY <2>1, <2>3, UpdateTable
  <2>6. Popped(t)
    BY <1>3, ReturnStep
  <2>7. PICK s \in Seq(Frame), l \in Nat : s = stack[t] /\ l = Len(s) /\ Depth(t) = l
    BY DEF BaseInv, TypeOK, Depth
  <2>8. l > 1 /\ Depth(t)' = l - 1 /\ stack[t][l].id = id
    BY <2>2, <2>6, <2>7 DEF Popped, Pop, Depth, Top
  <2>9. ASSUME NEW u \in Threads, NEW d \in Nat, d \in 2 .. Depth(u)'
        PROVE  /\ d \in 2 .. Depth(u) /\ stack'[u][d].id = stack[u][d].id
               /\ u = t => d # l
    <3>1. CASE u = t
      <4>1. Shrinks(t)
        BY <2>6, TurnedShrinks
      <4>2. d <= Depth(t) /\ stack'[t][d].id = stack[t][d].id
        BY <2>9, <3>1, <4>1 DEF Shrinks
      <4> QED BY <2>7, <2>8, <2>9, <3>1, <4>2
    <3>2. CASE u # t
      BY <2>6, <2>9, <3>2 DEF Popped, KeepsOthers, Depth
    <3> QED BY <3>1, <3>2
  <2>10. ASSUME NEW u \in Threads, NEW v \in Threads, NEW d \in Nat, u # v,
                d \in 2 .. Depth(u)', d \in 2 .. Depth(v)',
                stack'[u][d].id = stack'[v][d].id
         PROVE  Twice(agents', stack'[u][d].id)
    <3>1. /\ d \in 2 .. Depth(u) /\ stack'[u][d].id = stack[u][d].id
          /\ d \in 2 .. Depth(v) /\ stack'[v][d].id = stack[v][d].id
      BY <2>9, <2>10
    <3>2. Twice(T, stack[u][d].id)
      BY <2>1, <2>10, <3>1 DEF ListInv
    <3> QED BY <2>4, <2>5, <3>1, <3>2
  <2>11. ASSUME NEW u \in Threads, NEW d \in Nat, d \in 2 .. Depth(u)'
         PROVE  Listed(agents', stack'[u][d].id)
    <3>1. d \in 2 .. Depth(u) /\ stack'[u][d].id = stack[u][d].id /\ (u = t => d # l)
      BY <2>9, <2>11
    <3>2. Listed(T, stack[u][d].id)
      BY <2>1, <3>1 DEF ListInv
    <3>3. CASE stack[u][d].id = id
      <4>1. d = l
        <5>1. Len(stack[u][d].id) = d - 1
          <6>1. d \in 1 .. Depth(u)
            BY <3>1
          <6> QED BY <6>1, IdLength
        <5>2. Len(stack[t][l].id) = l - 1
          <6>1. l \in 1 .. Depth(t)
            BY <2>7, <2>8
          <6> QED BY <6>1, IdLength
        <5> QED BY <2>8, <3>3, <5>1, <5>2
      <4>2. u # t /\ l \in 2 .. Depth(t) /\ l \in 2 .. Depth(u)
        BY <2>7, <2>8, <3>1, <4>1
      <4>3. Twice(T, stack[u][d].id)
        BY <2>1, <2>8, <3>3, <4>1, <4>2 DEF ListInv
      <4> QED BY <2>4, <2>5, <3>1, <4>3
    <3>4. CASE stack[u][d].id # id
      BY <2>4, <2>5, <3>1, <3>2, <3>4
    <3> QED BY <3>3, <3>4
  <2> QED BY <2>4, <2>5, <2>10, <2>11 DEF ListInv
<1> QED BY <1>2, <1>3

LEMMA KeepsList ==
  ASSUME BaseInv, ListInv, [Next]_vars
  PROVE  ListInv'
<1>1. TableOK(agents)
  BY DEF ListInv
<1>2. ASSUME NEW t \in Threads, Run(t)
      PROVE  ListInv'
  <2>1. PICK T \in Seq(Entry) : T = agents
    BY DEF BaseInv, TypeOK, Entry
  <2>2. PICK T2 : T2 = UpdateAgentState(T, Main, "running")
    OBVIOUS
  <2>3. /\ TableOK(T2)
        /\ \A x : Twice(T, x) => Twice(T2, x)
        /\ \A x : Listed(T, x) => Listed(T2, x)
    BY <1>1, <2>1, <2>2, UpdateTable
  <2>4. agents' = T2
    BY <1>2, <2>1, <2>2 DEF Run
  <2>5. Shrinks(t)
    BY <1>2, RunShrinks
  <2> QED BY <2>1, <2>3, <2>4, <2>5, ShrinkKeepsList
<1>3. ASSUME NEW t \in Threads,
             Chat(t) \/ ChatCallsTools(t) \/ RunSkill(t) \/ SpawnRead(t) \/ Throw(t)
      PROVE  ListInv'
  <2>1. agents' = agents
    BY <1>3 DEF Chat, ChatCallsTools, RunSkill, SpawnRead, Throw
  <2>2. \E c : Turned(t, c) \/ Emptied(t)
    BY <1>3, ChatStep, FreeStep, ThrowStep
  <2>3. Shrinks(t)
    BY <2>2, TurnedShrinks
  <2> QED BY <1>1, <2>1, <2>3, ShrinkKeepsList
<1>4. CASE Waiting \/ UNCHANGED vars
  BY <1>4 DEF Waiting, vars, ListInv, Depth
<1> QED BY <1>2, <1>3, <1>4, SpawnKeepsList, ReturnKeepsList DEF Next, ThreadStep

LEMMA InitList == Init => ListInv
<1> SUFFICES ASSUME Init PROVE ListInv
  OBVIOUS
<1>1. \A t \in Threads : Depth(t) = 0
  BY DEF Init, Depth
<1>2. TableOK(agents)
  BY DEF Init, TableOK
<1> QED BY <1>1, <1>2 DEF ListInv

\* For any number of threads and requests, also where the unlocked counter of
\* the main agent (agent.cpp:77) gives one id to several agents: a sub-agent
\* in its run() is in the list of the running ones (monitor.cpp:20-29).
THEOREM RunningAreListed == Spec => []ActiveAreListed
<1>1. BaseInv /\ ListInv => ActiveAreListed
  <2>1. ASSUME BaseInv, ListInv, NEW t \in Threads, NEW d \in 2 .. Depth(t)
        PROVE  stack[t][d].id \in Registered("running")
    <3>1. d \in Nat /\ d \in 1 .. Depth(t)
      OBVIOUS
    <3>2. PICK i \in 1 .. Len(agents) :
            agents[i].id = stack[t][d].id /\ agents[i].state = "running"
      BY <2>1, <3>1 DEF ListInv, Listed
    <3>3. i # 1
      <4>1. Len(stack[t][d].id) = d - 1
        BY <2>1, <3>1, IdLength
      <4>2. Len(agents[1].id) = 0
        BY <2>1, MainType DEF ListInv, TableOK
      <4> QED BY <3>2, <4>1, <4>2
    <3> QED BY <3>2, <3>3 DEF Registered
  <2> QED BY <2>1 DEF ActiveAreListed, Active
<1> QED BY InitBase, InitList, KeepsBase, KeepsList, <1>1, PTL DEF Spec

-----------------------------------------------------------------------------
(* One thread: the table of agents *)

OneThread == \A t, u \in Threads : t = u

\* x is the id of an agent below the one of id p.
Below(x, p) == Len(x) > Len(p) /\ \A i \in 1 .. Len(p) : x[i] = p[i]

-----------------------------------------------------------------------------
(* Ids *)

Ids(T) == {T[i].id : i \in 1 .. Len(T)}

\* The numbers given so far are below the counters: n of the main agent, and
\* next of each agent on the stack s; all agents on it are in the table T, one
\* below the other; and the number read last is the counter.
Numbered(s, n, T) ==
  /\ \A x \in Ids(T) : x \in Seq(Nat) /\ (Len(x) > 0 => x[1] < n)
  /\ \A d \in 1 .. Len(s) : s[d].id \in Ids(T)
  /\ \A d \in 2 .. Len(s), x \in Ids(T) : Below(x, s[d].id) => x[d] < s[d].next
  /\ \A d, e \in 1 .. Len(s) : e < d => Below(s[d].id, s[e].id)

\* The id of the agent that f begins.
NextId(f) == Append(f.id, f.read)

\* What its begin makes of the counter n of the main agent.
NextNumber(s, n) == IF Len(s) = 1 THEN s[Len(s)].read + 1 ELSE n

Unwritten(s, n) ==
  Len(s) > 0 /\ s[Len(s)].pc = "spawn" =>
    s[Len(s)].read = IF Len(s) = 1 THEN n ELSE s[Len(s)].next

\* The stack becomes shorter, or its innermost agent takes a step.
LEMMA ShorterNumbered ==
  ASSUME NEW s \in Seq(Frame), NEW n, NEW T, Numbered(s, n, T),
         NEW r \in Seq(Frame), Len(r) <= Len(s),
         \A d \in 1 .. Len(r) : r[d].id = s[d].id /\ r[d].next = s[d].next
  PROVE  Numbered(r, n, T)
<1>1. \A d \in 1 .. Len(r) : d \in 1 .. Len(s)
  OBVIOUS
<1>2. \A d \in 2 .. Len(r) : d \in 2 .. Len(s) /\ d \in 1 .. Len(r)
  OBVIOUS
<1>3. \A d \in 1 .. Len(r) : r[d].id \in Ids(T)
  BY <1>1 DEF Numbered
<1>4. \A d \in 2 .. Len(r), x \in Ids(T) : Below(x, r[d].id) => x[d] < r[d].next
  BY <1>2 DEF Numbered
<1>5. \A d, e \in 1 .. Len(r) : e < d => Below(r[d].id, r[e].id)
  BY <1>1 DEF Numbered
<1> QED BY <1>3, <1>4, <1>5 DEF Numbered

LEMMA EmptyNumbered ==
  ASSUME NEW s \in Seq(Frame), NEW n, NEW T, Numbered(s, n, T)
  PROVE  Numbered(<< >>, n, T) /\ Unwritten(<< >>, n)
BY DEF Numbered, Unwritten

LEMMA NewNumbered ==
  ASSUME NEW s \in Seq(Frame), NEW n, NEW T, Numbered(s, n, T),
         NEW a, a.id \in Ids(T), a.pc = "loop"
  PROVE  Numbered(<<a>>, n, T) /\ Unwritten(<<a>>, n)
<1>1. Len(<<a>>) = 1 /\ <<a>>[1] = a
  OBVIOUS
<1>2. Numbered(<<a>>, n, T)
  BY <1>1 DEF Numbered
<1>3. Unwritten(<<a>>, n)
  BY <1>1 DEF Unwritten
<1> QED BY <1>2, <1>3

\* The id a new agent gets: no agent has it, or is below it; and it is below the
\* agents on the stack.
LEMMA NewId ==
  ASSUME NEW s \in Seq(Frame), NEW n \in Nat, NEW T, Numbered(s, n, T), Unwritten(s, n),
         Len(s) > 0, s[Len(s)].pc = "spawn", StackOK(s),
         NEW id, id = NextId(s[Len(s)])
  PROVE  /\ id \in Seq(Nat) /\ Len(id) = Len(s)
         /\ id[Len(s)] = s[Len(s)].read
         /\ \A i \in 1 .. Len(s) - 1 : id[i] = s[Len(s)].id[i]
         /\ id \notin Ids(T)
         /\ \A x \in Ids(T) : ~Below(x, id)
         /\ \A d \in 1 .. Len(s) : Below(id, s[d].id)
<1>1. PICK l \in Nat : l = Len(s) /\ l > 0
  OBVIOUS
<1>2. PICK f \in Frame : f = s[l]
  BY <1>1
<1>3. f.id \in Seq(Nat) /\ f.read \in Nat /\ Len(f.id) = l - 1
  <2>1. l \in 1 .. Len(s)
    BY <1>1
  <2> QED BY <1>2, <2>1 DEF StackOK, Frame
<1>4. /\ id \in Seq(Nat) /\ Len(id) = l /\ id[l] = f.read
      /\ \A i \in 1 .. l - 1 : id[i] = f.id[i]
  <2>1. id = Append(f.id, f.read)
    BY <1>1, <1>2 DEF NextId
  <2>2. Append(f.id, f.read) \in Seq(Nat)
    BY <1>3, AppendProperties
  <2>3. Len(Append(f.id, f.read)) = Len(f.id) + 1
    BY <1>3
  <2>4. Append(f.id, f.read)[Len(f.id) + 1] = f.read
        /\ \A i \in 1 .. Len(f.id) : Append(f.id, f.read)[i] = f.id[i]
    BY <1>3
  <2> QED BY <1>3, <2>1, <2>2, <2>3, <2>4
\* No x has the number read behind the id of the agent.
<1>5. ASSUME NEW x \in Ids(T), Len(x) >= l, \A i \in 1 .. l : x[i] = id[i]
      PROVE  FALSE
  <2>1. x \in Seq(Nat) /\ (Len(x) > 0 => x[1] < n)
    BY DEF Numbered
  <2>2. Below(x, f.id)
    <3>1. Len(x) \in Nat
      BY <2>1
    <3>2. Len(x) > Len(f.id)
      BY <1>3, <1>5, <3>1
    <3>3. ASSUME NEW i \in 1 .. Len(f.id)
          PROVE  x[i] = f.id[i]
      <4>1. i \in 1 .. l - 1 /\ i \in 1 .. l
        BY <1>3
      <4> QED BY <1>4, <1>5, <4>1
    <3> QED BY <3>2, <3>3 DEF Below
  <2>3. x[l] = f.read
    <3>1. l \in 1 .. l
      BY <1>1
    <3> QED BY <1>4, <1>5, <3>1
  <2>4. CASE l = 1
    <3>1. f.read = n
      BY <1>1, <1>2, <2>4 DEF Unwritten
    <3>2. x[1] < n
      <4>1. Len(x) > 0
        BY <1>5, <2>1, <2>4
      <4> QED BY <2>1, <4>1
    <3> QED BY <2>3, <2>4, <3>1, <3>2
  <2>5. CASE l # 1
    <3>1. f.read = f.next /\ f.next \in Nat
      <4>1. f.read = f.next
        BY <1>1, <1>2, <2>5 DEF Unwritten
      <4> QED BY <4>1, <1>3
    <3>2. l \in 2 .. Len(s)
      BY <1>1, <2>5
    <3>3. x[l] < f.next
      BY <1>2, <2>2, <3>2 DEF Numbered
    <3> QED BY <2>3, <3>1, <3>3
  <2> QED BY <2>4, <2>5
<1>6. id \notin Ids(T)
  <2>1. ASSUME id \in Ids(T) PROVE FALSE
    <3>1. Len(id) >= l /\ \A i \in 1 .. l : id[i] = id[i]
      BY <1>4
    <3> QED BY <1>5, <2>1, <3>1
  <2> QED BY <2>1
<1>7. ASSUME NEW x \in Ids(T), Below(x, id)
      PROVE  FALSE
  <2>1. x \in Seq(Nat)
    BY DEF Numbered
  <2>2. Len(x) >= l /\ \A i \in 1 .. l : x[i] = id[i]
    BY <1>4, <1>7, <2>1 DEF Below
  <2> QED BY <1>5, <2>2
<1>8. ASSUME NEW d \in 1 .. l
      PROVE  Below(id, s[d].id)
  <2>1. Len(s[d].id) = d - 1
    BY <1>1 DEF StackOK
  <2>2. \A i \in 1 .. d - 1 : f.id[i] = s[d].id[i]
    <3>1. CASE d = l
      BY <1>2, <3>1
    <3>2. CASE d # l
      <4>1. d < l /\ l \in 1 .. Len(s) /\ d \in 1 .. Len(s)
        BY <1>1, <3>2
      <4>2. Below(s[l].id, s[d].id)
        BY <4>1 DEF Numbered
      <4> QED BY <1>2, <2>1, <4>2 DEF Below
    <3> QED BY <3>1, <3>2
  <2>3. \A i \in 1 .. d - 1 : i \in 1 .. l - 1
    OBVIOUS
  <2>4. Len(id) > d - 1
    BY <1>4
  <2> QED BY <1>4, <2>1, <2>2, <2>3, <2>4 DEF Below
<1> QED BY <1>1, <1>2, <1>4, <1>6, <1>7, <1>8

\* A sub-agent begins.
LEMMA PushNumbered ==
  ASSUME NEW s \in Seq(Frame), NEW n \in Nat, NEW T, Numbered(s, n, T), Unwritten(s, n),
         Len(s) > 0, s[Len(s)].pc = "spawn", StackOK(s),
         NEW id, id = NextId(s[Len(s)]),
         NEW r, NEW f, NEW g, Push(s, r, f, g), f.id = s[Len(s)].id, g.id = id,
         g.pc = "loop", Len(s) # 1 => f.next = s[Len(s)].read + 1,
         NEW m, m = NextNumber(s, n),
         NEW T2, Ids(T2) = Ids(T) \cup {id}
  PROVE  Numbered(r, m, T2) /\ Unwritten(r, m)
<1>1. PICK l \in Nat : l = Len(s) /\ l > 0
  OBVIOUS
<1>2. PICK h \in Frame : h = s[l]
  BY <1>1
<1>3. /\ id \in Seq(Nat) /\ Len(id) = l
      /\ id[l] = h.read
      /\ \A i \in 1 .. l - 1 : id[i] = h.id[i]
      /\ id \notin Ids(T)
      /\ \A x \in Ids(T) : ~Below(x, id)
      /\ \A d \in 1 .. l : Below(id, s[d].id)
  <2>1. /\ id \in Seq(Nat) /\ Len(id) = Len(s)
        /\ id[Len(s)] = s[Len(s)].read
        /\ \A i \in 1 .. Len(s) - 1 : id[i] = s[Len(s)].id[i]
        /\ id \notin Ids(T)
        /\ \A x \in Ids(T) : ~Below(x, id)
        /\ \A d \in 1 .. Len(s) : Below(id, s[d].id)
    BY NewId
  <2> QED BY <1>1, <1>2, <2>1
<1>4. h.read \in Nat /\ h.id \in Seq(Nat) /\ Len(h.id) = l - 1 /\ h.id \in Ids(T)
  <2>1. l \in 1 .. Len(s)
    BY <1>1
  <2> QED BY <1>2, <2>1 DEF StackOK, Frame, Numbered
<1>5. /\ Len(r) = l + 1 /\ r[l] = f /\ r[l + 1] = g /\ f.id = h.id
      /\ \A d \in 1 .. l - 1 : r[d] = s[d]
  BY <1>1, <1>2 DEF Push
<1>0. m = IF l = 1 THEN h.read + 1 ELSE n
  BY <1>1, <1>2 DEF NextNumber
\* What the counters were stays below them.
<1>6. ASSUME NEW x \in Ids(T)
      PROVE  x \in Seq(Nat) /\ (Len(x) > 0 => x[1] < n /\ x[1] < m)
  <2>1. x \in Seq(Nat) /\ (Len(x) > 0 => x[1] < n)
    BY DEF Numbered
  <2>2. Len(x) > 0 => x[1] \in Nat
    <3>1. Len(x) \in Nat
      BY <2>1
    <3>2. Len(x) > 0 => 1 \in 1 .. Len(x)
      BY <3>1
    <3> QED BY <2>1, <3>2
  <2>3. l = 1 => h.read = n
    BY <1>1, <1>2 DEF Unwritten
  <2> QED BY <1>0, <1>4, <2>1, <2>2, <2>3
<1>7. id \in Seq(Nat) /\ (Len(id) > 0 => id[1] < m)
  <2>1. CASE l = 1
    BY <1>0, <1>3, <1>4, <2>1
  <2>2. CASE l # 1
    <3>1. 1 \in 1 .. l - 1 /\ Len(h.id) > 0
      BY <1>1, <1>4, <2>2
    <3>2. id[1] = h.id[1] /\ h.id[1] < m
      BY <1>3, <1>4, <1>6, <3>1
    <3> QED BY <1>3, <3>2
  <2> QED BY <2>1, <2>2
<1>8. \A x \in Ids(T2) : x \in Seq(Nat) /\ (Len(x) > 0 => x[1] < m)
  BY <1>6, <1>7
<1>9. ASSUME NEW d \in 1 .. l + 1
      PROVE  r[d].id = IF d = l + 1 THEN id ELSE s[d].id
  <2>1. CASE d = l + 1
    BY <1>5, <2>1
  <2>2. CASE d = l
    BY <1>2, <1>5, <2>2
  <2>3. CASE d \in 1 .. l - 1
    BY <1>5, <2>3
  <2> QED BY <2>1, <2>2, <2>3
<1>10. ASSUME NEW d \in 1 .. l + 1
       PROVE  r[d].id \in Ids(T2)
  <2>1. CASE d = l + 1
    BY <1>9, <2>1
  <2>2. CASE d # l + 1
    <3>1. d \in 1 .. Len(s)
      BY <1>1, <2>2
    <3>2. s[d].id \in Ids(T)
      BY <3>1 DEF Numbered
    <3> QED BY <1>9, <2>2, <3>2
  <2> QED BY <2>1, <2>2
<1>11. ASSUME NEW d \in 2 .. l + 1, NEW x \in Ids(T2), Below(x, r[d].id)
       PROVE  x[d] < r[d].next
  <2>0. d \in 1 .. l + 1
    OBVIOUS
  <2>1. CASE d = l + 1
    <3>1. Below(x, id)
      BY <1>9, <1>11, <2>0, <2>1
    <3>2. ~Below(id, id)
      BY <1>3 DEF Below
    <3>3. x = id \/ x \in Ids(T)
      OBVIOUS
    <3> QED BY <1>3, <3>1, <3>2, <3>3
  <2>2. CASE d = l
    <3>1. l \in 2 .. Len(s) /\ l # 1
      BY <1>1, <2>2
    <3>2. f.next = h.read + 1 /\ r[d] = f
      BY <1>1, <1>2, <1>5, <2>2, <3>1
    <3>3. CASE x = id
      BY <1>3, <1>4, <2>2, <3>2, <3>3
    <3>4. CASE x \in Ids(T)
      <4>1. Below(x, s[l].id)
        BY <1>5, <1>2, <1>11, <2>2
      <4>2. x[l] < h.next
        BY <1>2, <3>1, <3>4, <4>1 DEF Numbered
      <4>3. h.next = h.read
        BY <1>1, <1>2, <3>1 DEF Unwritten
      <4>4. x[l] \in Nat
        <5>1. x \in Seq(Nat)
          BY <1>6, <3>4
        <5>2. Len(x) > l - 1
          BY <1>2, <1>4, <4>1 DEF Below
        <5>3. l \in 1 .. Len(x)
          BY <1>1, <5>1, <5>2
        <5> QED BY <5>1, <5>3
      <4> QED BY <1>4, <2>2, <3>2, <4>2, <4>3, <4>4
    <3> QED BY <3>3, <3>4
  <2>3. CASE d \in 1 .. l - 1
    <3>1. r[d] = s[d] /\ d \in 2 .. Len(s) /\ d \in 1 .. Len(s)
      <4>1. d \in 2 .. Len(s) /\ d \in 1 .. Len(s)
        BY <1>1, <2>3
      <4> QED BY <1>5, <2>3, <4>1
    <3>2. CASE x \in Ids(T)
      BY <1>11, <3>1, <3>2 DEF Numbered
    <3>3. CASE x = id
      <4>1. id[d] = h.id[d]
        BY <1>3, <2>3
      <4>2. Below(h.id, s[d].id)
        <5>1. l \in 1 .. Len(s) /\ d < l
          BY <1>1, <2>3
        <5> QED BY <1>2, <3>1, <5>1 DEF Numbered
      <4>3. h.id[d] < s[d].next
        BY <1>4, <3>1, <4>2 DEF Numbered
      <4> QED BY <3>1, <3>3, <4>1, <4>3
    <3> QED BY <3>2, <3>3
  <2> QED BY <2>0, <2>1, <2>2, <2>3
<1>12. ASSUME NEW d \in 1 .. l + 1, NEW e \in 1 .. l + 1, e < d
       PROVE  Below(r[d].id, r[e].id)
  <2>1. e \in 1 .. l /\ e \in 1 .. Len(s) /\ r[e].id = s[e].id
    BY <1>1, <1>9, <1>12
  <2>2. CASE d = l + 1
    BY <1>3, <1>9, <2>1, <2>2
  <2>3. CASE d # l + 1
    <3>1. d \in 1 .. Len(s) /\ r[d].id = s[d].id
      BY <1>1, <1>9, <2>3
    <3> QED BY <1>12, <2>1, <3>1 DEF Numbered
  <2> QED BY <2>2, <2>3
<1>13. Numbered(r, m, T2)
  BY <1>5, <1>8, <1>10, <1>11, <1>12 DEF Numbered
<1>14. Unwritten(r, m)
  BY <1>5 DEF Unwritten
<1> QED BY <1>13, <1>14

-----------------------------------------------------------------------------
(* No id twice *)

Distinct(T) == \A i, j \in 1 .. Len(T) : T[i].id = T[j].id => i = j

SameIds(T, T2) == Len(T2) = Len(T) /\ \A i \in 1 .. Len(T) : T2[i].id = T[i].id

IdInv ==
  /\ UniqueIds
  /\ \A t \in Threads : Numbered(stack[t], nextId, agents) /\ Unwritten(stack[t], nextId)

LEMMA SameIdsKeep ==
  ASSUME NEW T \in Seq(Entry), NEW T2 \in Seq(Entry), SameIds(T, T2), Distinct(T)
  PROVE  Ids(T2) = Ids(T) /\ Distinct(T2)
<1>1. Ids(T2) = Ids(T)
  BY DEF SameIds, Ids
<1>2. Distinct(T2)
  BY DEF SameIds, Distinct
<1> QED BY <1>1, <1>2

LEMMA SameNumbered ==
  ASSUME NEW s, NEW n, NEW T, NEW T2, Ids(T2) = Ids(T), Numbered(s, n, T)
  PROVE  Numbered(s, n, T2)
BY DEF Numbered

LEMMA UpdateIds ==
  ASSUME NEW T \in Seq(Entry), NEW id, NEW state \in {"running", "completed"},
         NEW T2, T2 = UpdateAgentState(T, id, state)
  PROVE  T2 \in Seq(Entry) /\ SameIds(T, T2)
BY UpdateEffect DEF SameIds

\* T2 is T with a new entry of the agent id, which is running.
Grown(T, T2, id) ==
  /\ T2 \in Seq(Entry) /\ Len(T2) = Len(T) + 1
  /\ \A i \in 1 .. Len(T) : T2[i] = T[i]
  /\ T2[Len(T) + 1].id = id /\ T2[Len(T) + 1].state = "running"

LEMMA RegisterGrows ==
  ASSUME NEW T \in Seq(Entry), NEW id \in Seq(Nat), NEW T1, T1 = RegisterAgent(T, id)
  PROVE  Grown(T, T1, id)
<1>1. /\ T1 \in Seq(Entry) /\ Len(T1) = Len(T) + 1
      /\ \A i \in 1 .. Len(T) : T1[i] = T[i]
      /\ T1[Len(T1)] = [id |-> id, state |-> "running"]
  BY RegisterType
<1> QED BY <1>1 DEF Grown

\* What update_agent_state makes of the table with the new entry: the same.
LEMMA SpawnTable ==
  ASSUME NEW T \in Seq(Entry), NEW id, id \notin Ids(T), Distinct(T),
         NEW T1 \in Seq(Entry), Grown(T, T1, id),
         NEW T2, T2 = UpdateAgentState(T1, id, "running")
  PROVE  Grown(T, T2, id) /\ Ids(T2) = Ids(T) \cup {id} /\ Distinct(T2)
<1>1. PICK n \in Nat : n = Len(T)
  OBVIOUS
<1>2. PICK state \in {"running", "completed"} :
        state = "running" /\ T2 = UpdateAgentState(T1, id, state)
  OBVIOUS
<1>3. /\ Len(T1) = n + 1
      /\ \A i \in 1 .. n : T1[i] = T[i]
      /\ T1[n + 1].id = id /\ T1[n + 1].state = "running"
  BY <1>1 DEF Grown
<1>4. /\ T2 \in Seq(Entry) /\ Len(T2) = n + 1
      /\ \A i \in 1 .. n + 1 : T2[i].id = T1[i].id
      /\ \A i \in 1 .. n + 1 :
           IF T1[i].id = id /\ \A j \in 1 .. i - 1 : T1[j].id # id
           THEN T2[i].state = "running" ELSE T2[i] = T1[i]
  <2>1. /\ T2 \in Seq(Entry) /\ Len(T2) = Len(T1)
        /\ \A i \in 1 .. Len(T1) : T2[i].id = T1[i].id
        /\ \A i \in 1 .. Len(T1) :
             IF T1[i].id = id /\ \A j \in 1 .. i - 1 : T1[j].id # id
             THEN T2[i].state = state ELSE T2[i] = T1[i]
    BY <1>2, UpdateEffect
  <2> QED BY <1>2, <1>3, <2>1
<1>5. \A i \in 1 .. n : T[i].id # id
  BY <1>1 DEF Ids
<1>6. ASSUME NEW i \in 1 .. n
      PROVE  T2[i] = T[i]
  <2>1. i \in 1 .. n + 1 /\ T1[i] = T[i] /\ T1[i].id # id
    BY <1>3, <1>5
  <2> QED BY <1>4, <2>1
<1>7. T2[n + 1].id = id /\ T2[n + 1].state = "running"
  <2>1. n + 1 \in 1 .. n + 1
    OBVIOUS
  <2> QED BY <1>3, <1>4, <2>1
<1>8. \A i \in 1 .. n + 1 : i \in 1 .. n \/ i = n + 1
  OBVIOUS
<1>9. \A i \in 1 .. n : i \in 1 .. n + 1
  OBVIOUS
<1>10. Ids(T2) = Ids(T) \cup {id}
  <2>1. n + 1 \in 1 .. n + 1
    OBVIOUS
  <2>2. ASSUME NEW x \in Ids(T2)
        PROVE  x \in Ids(T) \cup {id}
    <3>1. PICK i \in 1 .. n + 1 : x = T2[i].id
      BY <1>4 DEF Ids
    <3>2. CASE i = n + 1
      BY <1>7, <3>1, <3>2
    <3>3. CASE i \in 1 .. n
      BY <1>1, <1>6, <3>1, <3>3 DEF Ids
    <3> QED BY <1>8, <3>2, <3>3
  <2>3. Ids(T) \subseteq Ids(T2)
    BY <1>1, <1>4, <1>6, <1>9 DEF Ids
  <2>4. id \in Ids(T2)
    BY <1>4, <1>7, <2>1 DEF Ids
  <2> QED BY <2>2, <2>3, <2>4
<1>11. ASSUME NEW i \in 1 .. n + 1, NEW j \in 1 .. n + 1, T2[i].id = T2[j].id
       PROVE  i = j
  <2>1. CASE i \in 1 .. n /\ j \in 1 .. n
    BY <1>1, <1>6, <1>11, <2>1 DEF Distinct
  <2>2. CASE i = n + 1 /\ j \in 1 .. n
    BY <1>5, <1>6, <1>7, <1>11, <2>2
  <2>3. CASE i \in 1 .. n /\ j = n + 1
    BY <1>5, <1>6, <1>7, <1>11, <2>3
  <2>4. CASE i = n + 1 /\ j = n + 1
    BY <2>4
  <2> QED BY <1>8, <2>1, <2>2, <2>3, <2>4
<1>12. Distinct(T2)
  BY <1>4, <1>11 DEF Distinct
<1>13. Grown(T, T2, id)
  BY <1>1, <1>4, <1>6, <1>7 DEF Grown
<1> QED BY <1>10, <1>12, <1>13

\* A step of the innermost agent, or the end of one or of all.
LEMMA ShrinkNumbered ==
  ASSUME BaseInv, NEW t \in Threads, NEW T,
         Numbered(stack[t], nextId, T), Unwritten(stack[t], nextId),
         NEW c, Turned(t, c) \/ Popped(t) \/ Emptied(t)
  PROVE  Numbered(stack'[t], nextId, T) /\ Unwritten(stack'[t], nextId)
<1>1. PICK s \in Seq(Frame) : s = stack[t] /\ Depth(t) = Len(s)
  BY DEF BaseInv, TypeOK, Depth
<1>2. PICK r \in Seq(Frame) : r = stack'[t]
  <2>1. Stacks'
    BY DEF Turned, Popped, Emptied, KeepsOthers
  <2> QED BY <2>1 DEF Stacks
<1>3. PICK n : n = nextId
  OBVIOUS
<1>4. Numbered(s, n, T) /\ Unwritten(s, n)
  BY <1>1, <1>3
<1>5. CASE Turned(t, c)
  <2>1. PICK f : /\ Turn(s, r, f) /\ Same(f, Top(t)) /\ f.next = Top(t).next
                 /\ f.pc = "spawn" => f.read = Counter(t)
    BY <1>1, <1>2, <1>5 DEF Turned
  <2>2. f.id = s[Len(s)].id /\ f.next = s[Len(s)].next
    BY <1>1, <2>1 DEF Same, Top
  <2>3. Len(r) = Len(s) /\ Len(s) > 0 /\ r[Len(s)] = f
    BY <2>1 DEF Turn
  <2>4. ASSUME NEW d \in 1 .. Len(r)
        PROVE  r[d].id = s[d].id /\ r[d].next = s[d].next
    <3>1. CASE d = Len(s)
      BY <2>2, <2>3, <3>1
    <3>2. CASE d # Len(s)
      <4>1. d \in 1 .. Len(s) - 1
        BY <2>3, <3>2
      <4> QED BY <2>1, <4>1 DEF Turn
    <3> QED BY <3>1, <3>2
  <2>5. Len(r) <= Len(s)
    BY <2>3
  <2>6. Numbered(r, n, T)
    BY <1>4, <2>4, <2>5, ShorterNumbered
  <2>7. Counter(t) = IF Len(s) = 1 THEN n ELSE f.next
    BY <1>1, <1>3, <2>1 DEF Counter
  <2>8. Unwritten(r, n)
    BY <2>1, <2>3, <2>7 DEF Unwritten
  <2> QED BY <1>2, <1>3, <2>6, <2>8
<1>6. CASE Popped(t)
  <2>1. PICK f : /\ Pop(s, r, f) /\ Same(f, s[Len(s) - 1])
                 /\ f.next = s[Len(s) - 1].next /\ f.pc # "spawn"
    BY <1>1, <1>2, <1>6 DEF Popped
  <2>2. Len(r) = Len(s) - 1 /\ Len(s) > 1 /\ r[Len(s) - 1] = f
    BY <2>1 DEF Pop
  <2>3. ASSUME NEW d \in 1 .. Len(r)
        PROVE  r[d].id = s[d].id /\ r[d].next = s[d].next
    <3>1. CASE d = Len(s) - 1
      BY <2>1, <2>2, <3>1 DEF Same
    <3>2. CASE d # Len(s) - 1
      <4>1. d \in 1 .. Len(s) - 2
        BY <2>2, <3>2
      <4> QED BY <2>1, <4>1 DEF Pop
    <3> QED BY <3>1, <3>2
  <2>4. Len(r) <= Len(s)
    BY <2>2
  <2>5. Numbered(r, n, T)
    BY <1>4, <2>3, <2>4, ShorterNumbered
  <2>6. Unwritten(r, n)
    <3>1. r[Len(r)].pc # "spawn"
      BY <2>1, <2>2
    <3> QED BY <3>1 DEF Unwritten
  <2> QED BY <1>2, <1>3, <2>5, <2>6
<1>7. CASE Emptied(t)
  BY <1>2, <1>3, <1>4, <1>7, EmptyNumbered DEF Emptied
<1> QED BY <1>5, <1>6, <1>7

LEMMA KeepsIds ==
  ASSUME OneThread, BaseInv, ListInv, IdInv, NEW t \in Threads, Run(t) \/ ThreadStep(t)
  PROVE  IdInv'
<1>0. PICK T : T = agents
  OBVIOUS
<1>1. PICK s \in Seq(Frame), n \in Nat :
        /\ s = stack[t] /\ n = nextId /\ T = agents /\ T \in Seq(Entry) /\ Depth(t) = Len(s)
        /\ StackOK(s) /\ Numbered(s, n, T) /\ Unwritten(s, n) /\ Distinct(T)
  BY <1>0 DEF BaseInv, TypeOK, Entry, Depth, IdInv, UniqueIds, Distinct
<1>2. PICK r, m, T2 : r = stack'[t] /\ m = nextId' /\ T2 = agents'
  OBVIOUS
<1>3. SUFFICES Numbered(r, m, T2) /\ Unwritten(r, m) /\ Distinct(T2)
  BY <1>2 DEF IdInv, UniqueIds, Distinct, OneThread
<1>4. ASSUME T2 \in Seq(Entry), SameIds(T, T2), m = n,
             NEW c, Turned(t, c) \/ Popped(t) \/ Emptied(t)
      PROVE  Numbered(r, m, T2) /\ Unwritten(r, m) /\ Distinct(T2)
  <2>1. Ids(T2) = Ids(T) /\ Distinct(T2)
    BY <1>1, <1>4, SameIdsKeep
  <2>2. Numbered(r, m, T) /\ Unwritten(r, m)
    BY <1>1, <1>2, <1>4, ShrinkNumbered
  <2> QED BY <2>1, <2>2, SameNumbered
<1>5. SameIds(T, T)
  BY DEF SameIds
<1>6. CASE Chat(t) \/ ChatCallsTools(t) \/ RunSkill(t) \/ SpawnRead(t) \/ Throw(t)
  <2>1. T2 = T /\ m = n
    BY <1>1, <1>2, <1>6 DEF Chat, ChatCallsTools, RunSkill, SpawnRead, Throw
  <2>2. PICK c : Turned(t, c) \/ Emptied(t)
    BY <1>6, ChatStep, FreeStep, ThrowStep
  <2>3. T2 \in Seq(Entry) /\ SameIds(T, T2)
    BY <1>1, <1>5, <2>1
  <2> QED BY <1>4, <2>1, <2>2, <2>3
<1>7. CASE Return(t)
  <2>1. m = n
    BY <1>1, <1>2, <1>7 DEF Return
  <2>2. Popped(t) \/ Emptied(t)
    BY <1>7, ReturnStep
  <2>3. T2 = T \/ T2 = UpdateAgentState(T, Top(t).id, "completed")
    BY <1>1, <1>2, <1>7 DEF Return
  <2>4. T2 \in Seq(Entry) /\ SameIds(T, T2)
    BY <1>1, <1>5, <2>3, UpdateIds
  <2> QED BY <1>4, <2>1, <2>2, <2>4
<1>8. CASE Run(t)
  <2>1. m = n /\ T2 = UpdateAgentState(T, Main, "running")
    BY <1>1, <1>2, <1>8 DEF Run
  <2>2. T2 \in Seq(Entry) /\ SameIds(T, T2)
    BY <1>1, <2>1, UpdateIds
  <2>3. Ids(T2) = Ids(T) /\ Distinct(T2)
    BY <1>1, <2>2, SameIdsKeep
  <2>4. PICK a : a = NewAgent(Main, MaxIterations)
    OBVIOUS
  <2>5. r = <<a>> /\ a.id = Main /\ a.pc = "loop"
    <3>1. r = <<a>>
      BY <1>2, <1>8, <2>4, RunStep
    <3>2. a.id = Main /\ a.pc = "loop"
      BY <2>4 DEF NewAgent
    <3> QED BY <3>1, <3>2
  <2>6. a.id \in Ids(T)
    <3>1. Len(T) > 0 /\ T[1].id = Main
      BY <1>1 DEF ListInv, TableOK
    <3>2. 1 \in 1 .. Len(T)
      BY <3>1
    <3> QED BY <2>5, <3>1, <3>2 DEF Ids
  <2>7. Numbered(r, n, T) /\ Unwritten(r, n)
    BY <1>1, <2>5, <2>6, NewNumbered
  <2> QED BY <2>1, <2>3, <2>7, SameNumbered
<1>9. CASE SpawnWrite(t)
  <2>1. Len(s) > 0 /\ Top(t) = s[Len(s)] /\ s[Len(s)].pc = "spawn"
    BY <1>1, <1>9 DEF SpawnWrite, At, Top
  <2>2. PICK id : id = NextId(s[Len(s)])
    OBVIOUS
  <2>3. id \in Seq(Nat) /\ id \notin Ids(T)
    <3>1. /\ StackOK(s) /\ Numbered(s, n, T) /\ Unwritten(s, n)
          /\ Len(s) > 0 /\ s[Len(s)].pc = "spawn"
      BY <1>1, <2>1
    <3> QED BY <2>2, <3>1, NewId
  <2>3a. PICK T1 \in Seq(Entry) : T1 = RegisterAgent(T, id) /\ Grown(T, T1, id)
    <3>1. RegisterAgent(T, id) \in Seq(Entry)
      BY <1>1, <2>3, RegisterType
    <3> QED BY <1>1, <2>3, <3>1, RegisterGrows
  <2>4. /\ T2 = UpdateAgentState(T1, id, "running")
        /\ m = IF Len(s) = 1 THEN s[Len(s)].read + 1 ELSE n
    BY <1>1, <1>2, <1>9, <2>3a, <2>1, <2>2 DEF SpawnWrite, NextId
  <2>5. Ids(T2) = Ids(T) \cup {id} /\ Distinct(T2)
    BY <1>1, <2>3a, <2>3, <2>4, SpawnTable
  <2>6. PICK f, g :
          /\ Push(s, r, f, g) /\ f.id = s[Len(s)].id /\ g.id = id /\ g.pc = "loop"
          /\ Len(s) # 1 => f.next = s[Len(s)].read + 1
    <3>1. PICK f, g :
            /\ Push(s, r, f, g) /\ Same(f, Top(t))
            /\ g.id = Append(Top(t).id, Top(t).read) /\ g.pc = "loop"
            /\ Depth(t) # 1 => f.next = Top(t).read + 1
      BY <1>1, <1>2, <1>9, SpawnStep DEF Pushed
    <3>2. f.id = s[Len(s)].id
      BY <2>1, <3>1 DEF Same
    <3>3. Len(s) # 1 => f.next = s[Len(s)].read + 1
      BY <1>1, <2>1, <3>1
    <3>4. g.id = id
      BY <2>1, <2>2, <3>1 DEF NextId
    <3>5. Push(s, r, f, g) /\ g.pc = "loop"
      BY <3>1
    <3> QED BY <3>2, <3>3, <3>4, <3>5
  <2>7. Numbered(r, m, T2) /\ Unwritten(r, m)
    <3>1. /\ StackOK(s) /\ Numbered(s, n, T) /\ Unwritten(s, n)
          /\ Len(s) > 0 /\ s[Len(s)].pc = "spawn"
      BY <1>1, <2>1
    <3>2. m = NextNumber(s, n)
      BY <2>4 DEF NextNumber
    <3>3. Ids(T2) = Ids(T) \cup {id}
      BY <2>5
    <3> QED BY <2>2, <2>6, <3>1, <3>2, <3>3, PushNumbered
  <2> QED BY <2>5, <2>7
<1> QED BY <1>6, <1>7, <1>8, <1>9 DEF ThreadStep

LEMMA InitIds == Init => IdInv
<1> SUFFICES ASSUME Init PROVE IdInv
  OBVIOUS
<1>1. PICK e : e = [id |-> Main, state |-> "running"]
  OBVIOUS
<1>2. agents = <<e>> /\ Len(agents) = 1 /\ agents[1] = e /\ e.id = Main
  BY <1>1 DEF Init
<1>3. UniqueIds
  BY <1>2 DEF UniqueIds
<1>4. ASSUME NEW x \in Ids(agents)
      PROVE  x \in Seq(Nat) /\ ~(Len(x) > 0)
  <2>1. x = Main
    BY <1>2 DEF Ids
  <2> QED BY <2>1, MainType
<1>5. Len(<< >>) = 0
  OBVIOUS
<1>6. Numbered(<< >>, nextId, agents) /\ Unwritten(<< >>, nextId)
  BY <1>4, <1>5 DEF Numbered, Unwritten
<1> QED BY <1>3, <1>6 DEF IdInv, Init

LEMMA KeepsIdsNext == OneThread /\ BaseInv /\ ListInv /\ IdInv /\ [Next]_vars => IdInv'
<1>1. ASSUME IdInv, Waiting \/ UNCHANGED vars
      PROVE  IdInv'
  BY <1>1 DEF Waiting, vars, IdInv, UniqueIds
<1> QED BY <1>1, KeepsIds DEF Next

\* With one thread, no id is given twice (agent.cpp:77), over all requests of the
\* process and after exceptions.
THEOREM IdsAreUnique ==
  ASSUME OneThread
  PROVE  Spec => []UniqueIds
<1>1. IdInv => UniqueIds
  BY DEF IdInv
<1> QED BY InitBase, KeepsBase, InitList, KeepsList, InitIds, KeepsIdsNext, <1>1, PTL DEF Spec

-----------------------------------------------------------------------------
(* The table tells the truth *)

\* A are the agents in their run(), L those that an exception ended: the entries
\* of the table T that are running, behind the one of the main agent.
Exact(T, A, L) ==
  /\ \A i \in 2 .. Len(T) : T[i].state = "running" <=> T[i].id \in A \cup L
  /\ \A x \in A \cup L : \E i \in 2 .. Len(T) : T[i].id = x
  /\ A \cap L = {}

SubIds(s) == {s[d].id : d \in 2 .. Len(s)}

ExactInv == Exact(agents, Active, lost)

LEMMA OneStack ==
  ASSUME OneThread, NEW t \in Threads
  PROVE  Active = SubIds(stack[t]) /\ Active' = SubIds(stack'[t])
BY DEF OneThread, Active, SubIds, Depth

LEMMA TurnedIds ==
  ASSUME BaseInv, NEW t \in Threads, NEW c, Turned(t, c)
  PROVE  SubIds(stack'[t]) = SubIds(stack[t])
<1>1. PICK s \in Seq(Frame) : s = stack[t] /\ Depth(t) = Len(s)
  BY DEF BaseInv, TypeOK, Depth
<1>2. PICK r : r = stack'[t]
  OBVIOUS
<1>3. PICK f : Turn(s, r, f) /\ Same(f, Top(t))
  BY <1>1, <1>2 DEF Turned
<1>4. f.id = s[Len(s)].id /\ Len(r) = Len(s) /\ Len(s) > 0 /\ r[Len(s)] = f
  BY <1>1, <1>3 DEF Same, Top, Turn
<1>5. ASSUME NEW d \in 2 .. Len(s)
      PROVE  r[d].id = s[d].id
  <2>1. CASE d = Len(s)
    BY <1>4, <2>1
  <2>2. CASE d # Len(s)
    <3>1. d \in 1 .. Len(s) - 1
      BY <2>2
    <3> QED BY <1>3, <3>1 DEF Turn
  <2> QED BY <2>1, <2>2
<1>6. SubIds(r) = SubIds(s)
  BY <1>4, <1>5 DEF SubIds
<1> QED BY <1>1, <1>2, <1>6

LEMMA PushedIds ==
  ASSUME NEW s \in Seq(Frame), NEW r, NEW f, NEW g, Push(s, r, f, g), f.id = s[Len(s)].id
  PROVE  SubIds(r) = SubIds(s) \cup {g.id}
<1>1. PICK l \in Nat : l = Len(s) /\ l > 0
  BY DEF Push
<1>2. /\ Len(r) = l + 1 /\ r[l + 1] = g
      /\ \A d \in 2 .. l : r[d].id = s[d].id
  <2>1. Len(r) = l + 1 /\ r[l + 1] = g /\ r[l] = f /\ \A d \in 1 .. l - 1 : r[d] = s[d]
    BY <1>1 DEF Push
  <2>2. ASSUME NEW d \in 2 .. l
        PROVE  r[d].id = s[d].id
    <3>1. CASE d = l
      BY <1>1, <2>1, <3>1
    <3>2. CASE d # l
      <4>1. d \in 1 .. l - 1
        BY <3>2
      <4> QED BY <2>1, <4>1
    <3> QED BY <3>1, <3>2
  <2> QED BY <2>1, <2>2
<1>3. 2 .. l + 1 = (2 .. l) \cup {l + 1}
  BY <1>1
<1> QED BY <1>1, <1>2, <1>3 DEF SubIds

LEMMA PoppedIds ==
  ASSUME NEW s \in Seq(Frame), StackOK(s), NEW r, NEW f, Pop(s, r, f), Same(f, s[Len(s) - 1])
  PROVE  /\ s[Len(s)].id \in SubIds(s)
         /\ SubIds(r) = SubIds(s) \ {s[Len(s)].id}
<1>1. PICK l \in Nat : l = Len(s) /\ l > 1
  BY DEF Pop
<1>2. /\ Len(r) = l - 1
      /\ \A d \in 2 .. l - 1 : r[d].id = s[d].id
  <2>1. Len(r) = l - 1 /\ r[l - 1] = f /\ \A d \in 1 .. l - 2 : r[d] = s[d]
    BY <1>1 DEF Pop
  <2>2. ASSUME NEW d \in 2 .. l - 1
        PROVE  r[d].id = s[d].id
    <3>1. CASE d = l - 1
      BY <1>1, <2>1, <3>1 DEF Same
    <3>2. CASE d # l - 1
      <4>1. d \in 1 .. l - 2
        BY <3>2
      <4> QED BY <2>1, <4>1
    <3> QED BY <3>1, <3>2
  <2> QED BY <2>1, <2>2
<1>3. l \in 2 .. l /\ 2 .. l = (2 .. l - 1) \cup {l}
  BY <1>1
<1>4. \A d \in 2 .. l - 1 : s[d].id # s[l].id
  <2>1. \A d \in 2 .. l : Len(s[d].id) = d - 1
    BY <1>1 DEF StackOK
  <2>2. ASSUME NEW d \in 2 .. l - 1
        PROVE  s[d].id # s[l].id
    <3>1. d \in 2 .. l
      OBVIOUS
    <3>2. Len(s[d].id) = d - 1 /\ Len(s[l].id) = l - 1
      BY <1>3, <2>1, <3>1
    <3> QED BY <1>1, <3>2
  <2> QED BY <2>2
<1>5. SubIds(s) = {s[d].id : d \in 2 .. l - 1} \cup {s[l].id}
  BY <1>1, <1>3 DEF SubIds
<1>6. SubIds(r) = {s[d].id : d \in 2 .. l - 1}
  BY <1>2 DEF SubIds
<1>7. s[l].id \notin SubIds(r)
  BY <1>4, <1>6
<1> QED BY <1>1, <1>5, <1>6, <1>7

\* What the methods of the Monitor make of a table that is exact.
LEMMA MainExact ==
  ASSUME NEW T \in Seq(Entry), TableOK(T), NEW A, NEW L, Exact(T, A, L),
         NEW T2, T2 = UpdateAgentState(T, Main, "running")
  PROVE  Exact(T2, A, L)
<1>1. PICK state \in {"running", "completed"} : T2 = UpdateAgentState(T, Main, state)
  OBVIOUS
<1>2. /\ Len(T2) = Len(T)
      /\ \A i \in 1 .. Len(T) :
           IF T[i].id = Main /\ \A j \in 1 .. i - 1 : T[j].id # Main
           THEN T2[i].state = state ELSE T2[i] = T[i]
  BY <1>1, UpdateEffect
<1>3. ASSUME NEW i \in 2 .. Len(T)
      PROVE  T2[i] = T[i]
  <2>1. i \in 1 .. Len(T) /\ 1 \in 1 .. i - 1 /\ T[1].id = Main
    BY DEF TableOK
  <2> QED BY <1>2, <2>1
<1> QED BY <1>2, <1>3 DEF Exact

LEMMA RegisterExact ==
  ASSUME NEW T \in Seq(Entry), TableOK(T), Distinct(T), NEW A, NEW L, Exact(T, A, L),
         NEW id, id \notin Ids(T),
         NEW T1 \in Seq(Entry), Grown(T, T1, id),
         NEW T2, T2 = UpdateAgentState(T1, id, "running")
  PROVE  Exact(T2, A \cup {id}, L)
<1>1. PICK n \in Nat : n = Len(T) /\ n > 0
  BY DEF TableOK
<1>2. /\ Len(T2) = n + 1
      /\ \A i \in 1 .. n : T2[i] = T[i]
      /\ T2[n + 1].id = id /\ T2[n + 1].state = "running"
  <2>1. Grown(T, T2, id)
    BY SpawnTable
  <2> QED BY <1>1, <2>1 DEF Grown
<1>3. \A i \in 2 .. n : T[i].id # id /\ T2[i] = T[i]
  <2>1. \A i \in 2 .. n : i \in 1 .. n
    OBVIOUS
  <2> QED BY <1>1, <1>2, <2>1 DEF Ids
<1>4. n + 1 \in 2 .. n + 1 /\ \A i \in 2 .. n : i \in 2 .. n + 1
  BY <1>1
<1>5. id \notin L
  BY <1>1, <1>3 DEF Exact
<1>6. ASSUME NEW i \in 2 .. n + 1
      PROVE  T2[i].state = "running" <=> T2[i].id \in (A \cup {id}) \cup L
  <2>1. CASE i = n + 1
    BY <1>2, <2>1
  <2>2. CASE i # n + 1
    <3>1. i \in 2 .. n
      BY <2>2
    <3>2. T[i].state = "running" <=> T[i].id \in A \cup L
      BY <1>1, <3>1 DEF Exact
    <3> QED BY <1>3, <3>1, <3>2
  <2> QED BY <2>1, <2>2
<1>7. ASSUME NEW x \in (A \cup {id}) \cup L
      PROVE  \E i \in 2 .. n + 1 : T2[i].id = x
  <2>1. CASE x = id
    BY <1>2, <1>4, <2>1
  <2>2. CASE x \in A \cup L
    <3>1. PICK i \in 2 .. n : T[i].id = x
      BY <1>1, <2>2 DEF Exact
    <3> QED BY <1>3, <1>4, <3>1
  <2> QED BY <2>1, <2>2
<1>8. (A \cup {id}) \cap L = {}
  BY <1>5 DEF Exact
<1> QED BY <1>2, <1>6, <1>7, <1>8 DEF Exact

LEMMA CompletedExact ==
  ASSUME NEW T \in Seq(Entry), Distinct(T), NEW A, NEW L, Exact(T, A, L), NEW id \in A,
         NEW T2, T2 = UpdateAgentState(T, id, "completed")
  PROVE  Exact(T2, A \ {id}, L)
<1>1. PICK n \in Nat : n = Len(T)
  OBVIOUS
<1>2. PICK state \in {"running", "completed"} : state = "completed"
  OBVIOUS
<1>3. T2 = UpdateAgentState(T, id, state)
  BY <1>2
<1>4. /\ Len(T2) = Len(T)
      /\ \A i \in 1 .. Len(T) : T2[i].id = T[i].id
      /\ \A i \in 1 .. Len(T) :
           IF T[i].id = id /\ \A j \in 1 .. i - 1 : T[j].id # id
           THEN T2[i].state = state ELSE T2[i] = T[i]
  BY <1>3, UpdateEffect
<1>5. \A i \in 2 .. n : i \in 1 .. n /\ \A j \in 1 .. i - 1 : j \in 1 .. n /\ j # i
  OBVIOUS
<1>6. ASSUME NEW i \in 2 .. n
      PROVE  /\ T2[i].id = T[i].id
             /\ T[i].id = id => T2[i].state = "completed"
             /\ T[i].id # id => T2[i].state = T[i].state
  <2>1. i \in 1 .. Len(T) /\ T2[i].id = T[i].id
    BY <1>1, <1>4, <1>5
  <2>2. CASE T[i].id = id
    <3>1. \A j \in 1 .. i - 1 : T[j].id # id
      BY <1>1, <1>5, <2>1, <2>2 DEF Distinct
    <3> QED BY <1>2, <1>4, <2>1, <2>2, <3>1
  <2>3. CASE T[i].id # id
    BY <1>4, <2>1, <2>3
  <2> QED BY <2>1, <2>2, <2>3
<1>7. id \notin L
  BY DEF Exact
<1>8. ASSUME NEW i \in 2 .. n
      PROVE  T2[i].state = "running" <=> T2[i].id \in (A \ {id}) \cup L
  <2>1. T[i].state = "running" <=> T[i].id \in A \cup L
    BY <1>1 DEF Exact
  <2>2. CASE T[i].id = id
    BY <1>6, <1>7, <2>2
  <2>3. CASE T[i].id # id
    BY <1>6, <2>1, <2>3
  <2> QED BY <2>2, <2>3
<1>9. ASSUME NEW x \in (A \ {id}) \cup L
      PROVE  \E i \in 2 .. n : T2[i].id = x
  <2>1. PICK i \in 2 .. n : T[i].id = x
    BY <1>1 DEF Exact
  <2> QED BY <1>6, <2>1
<1>10. (A \ {id}) \cap L = {}
  BY DEF Exact
<1> QED BY <1>1, <1>4, <1>8, <1>9, <1>10 DEF Exact

LEMMA KeepsExact ==
  ASSUME OneThread, BaseInv, ListInv, IdInv, ExactInv,
         NEW t \in Threads, Run(t) \/ ThreadStep(t)
  PROVE  ExactInv'
<1>0. PICK T : T = agents
  OBVIOUS
<1>1. PICK s \in Seq(Frame) : /\ s = stack[t] /\ T = agents /\ T \in Seq(Entry)
                              /\ Depth(t) = Len(s) /\ StackOK(s)
                              /\ TableOK(T) /\ Distinct(T)
  BY <1>0 DEF BaseInv, TypeOK, Entry, Depth, ListInv, IdInv, UniqueIds, Distinct
<1>2. PICK r, T2, L : r = stack'[t] /\ T2 = agents' /\ L = lost
  OBVIOUS
<1>3. Active = SubIds(s) /\ Active' = SubIds(r)
  BY <1>1, <1>2, OneStack
<1>4. PICK A : A = SubIds(s) /\ Exact(T, A, L)
  BY <1>1, <1>2, <1>3 DEF ExactInv
<1>5. SUFFICES Exact(T2, SubIds(r), lost')
  BY <1>2, <1>3 DEF ExactInv
<1>6. CASE Chat(t) \/ ChatCallsTools(t) \/ RunSkill(t) \/ SpawnRead(t)
  <2>1. T2 = T /\ lost' = L
    BY <1>1, <1>2, <1>6 DEF Chat, ChatCallsTools, RunSkill, SpawnRead
  <2>2. PICK c : Turned(t, c)
    BY <1>6, ChatStep, FreeStep
  <2>3. SubIds(r) = A
    BY <1>1, <1>2, <1>4, <2>2, TurnedIds
  <2> QED BY <1>4, <2>1, <2>3
<1>7. CASE Throw(t)
  <2>1. T2 = T /\ lost' = L \cup A
    BY <1>1, <1>2, <1>4, <1>7 DEF Throw, SubIds
  <2>2. SubIds(r) = {}
    BY <1>2, <1>7, ThrowStep DEF Emptied, SubIds
  <2> QED BY <1>4, <2>1, <2>2 DEF Exact
<1>8. CASE Run(t)
  <2>1. T2 = UpdateAgentState(T, Main, "running") /\ lost' = L
    BY <1>1, <1>2, <1>8 DEF Run
  <2>2. A = {}
    BY <1>1, <1>4, <1>8 DEF Run, SubIds
  <2>3. SubIds(r) = {}
    <3>1. PICK a : a = NewAgent(Main, MaxIterations)
      OBVIOUS
    <3>2. r = <<a>>
      BY <1>2, <1>8, <3>1, RunStep
    <3> QED BY <3>2 DEF SubIds
  <2>4. Exact(T2, A, L)
    BY <1>1, <1>4, <2>1, MainExact
  <2> QED BY <2>1, <2>2, <2>3, <2>4
<1>9. CASE SpawnWrite(t)
  <2>1. Len(s) > 0 /\ Top(t) = s[Len(s)] /\ s[Len(s)].pc = "spawn"
    BY <1>1, <1>9 DEF SpawnWrite, At, Top
  <2>2. PICK id : id = NextId(s[Len(s)])
    OBVIOUS
  <2>3. id \in Seq(Nat) /\ id \notin Ids(T)
    <3>1. PICK n \in Nat : n = nextId
      BY DEF BaseInv, TypeOK
    <3>2. /\ StackOK(s) /\ Numbered(s, n, T) /\ Unwritten(s, n)
          /\ Len(s) > 0 /\ s[Len(s)].pc = "spawn"
      BY <1>1, <2>1, <3>1 DEF IdInv
    <3> QED BY <2>2, <3>2, NewId
  <2>3a. PICK T1 \in Seq(Entry) : T1 = RegisterAgent(T, id) /\ Grown(T, T1, id)
    <3>1. RegisterAgent(T, id) \in Seq(Entry)
      BY <1>1, <2>3, RegisterType
    <3> QED BY <1>1, <2>3, <3>1, RegisterGrows
  <2>4. T2 = UpdateAgentState(T1, id, "running") /\ lost' = L
    BY <1>1, <1>2, <1>9, <2>3a, <2>1, <2>2 DEF SpawnWrite, NextId
  <2>5. PICK f, g : Push(s, r, f, g) /\ f.id = s[Len(s)].id /\ g.id = id
    <3>1. PICK f, g : /\ Push(s, r, f, g) /\ Same(f, Top(t))
                      /\ g.id = Append(Top(t).id, Top(t).read)
      BY <1>1, <1>2, <1>9, SpawnStep DEF Pushed
    <3> QED BY <2>1, <2>2, <3>1 DEF Same, NextId
  <2>6. SubIds(r) = A \cup {id}
    BY <1>4, <2>5, PushedIds
  <2>7. Exact(T2, A \cup {id}, L)
    BY <1>1, <1>4, <2>3a, <2>3, <2>4, RegisterExact
  <2> QED BY <2>4, <2>6, <2>7
<1>10. CASE Return(t)
  <2>1. Depth(t) > 0 /\ lost' = L
    BY <1>2, <1>10, ReturnStep DEF Return
  <2>2. CASE Depth(t) = 1
    <3>1. T2 = T /\ Emptied(t)
      BY <1>1, <1>2, <1>10, <2>2, ReturnStep DEF Return
    <3>2. SubIds(r) = {} /\ A = {}
      BY <1>1, <1>2, <1>4, <2>2, <3>1 DEF Emptied, SubIds
    <3> QED BY <1>4, <2>1, <3>1, <3>2
  <2>3. CASE Depth(t) # 1
    <3>1. PICK id : id = s[Len(s)].id /\ Top(t).id = id
      BY <1>1 DEF Top
    <3>2. T2 = UpdateAgentState(T, id, "completed")
      BY <1>1, <1>2, <1>10, <2>3, <3>1 DEF Return
    <3>3. PICK f : Pop(s, r, f) /\ Same(f, s[Len(s) - 1])
      BY <1>1, <1>2, <1>10, <2>3, ReturnStep DEF Popped
    <3>4. id \in A /\ SubIds(r) = A \ {id}
      BY <1>1, <1>4, <3>1, <3>3, PoppedIds
    <3>5. Exact(T2, A \ {id}, L)
      BY <1>1, <1>4, <3>2, <3>4, CompletedExact
    <3> QED BY <2>1, <3>4, <3>5
  <2> QED BY <2>2, <2>3
<1> QED BY <1>6, <1>7, <1>8, <1>9, <1>10 DEF ThreadStep

LEMMA InitExact == Init => ExactInv
<1> SUFFICES ASSUME Init PROVE ExactInv
  OBVIOUS
<1>1. Active = {}
  <2>1. \A t \in Threads : Depth(t) = 0
    BY DEF Init, Depth
  <2>2. ASSUME NEW x \in Active
        PROVE  FALSE
    <3>1. PICK t \in Threads : \E d \in 2 .. Depth(t) : TRUE
      BY DEF Active
    <3> QED BY <2>1, <3>1
  <2> QED BY <2>2
<1>2. Len(agents) = 1 /\ lost = {}
  BY DEF Init
<1> QED BY <1>1, <1>2 DEF ExactInv, Exact

LEMMA KeepsExactNext ==
  OneThread /\ BaseInv /\ ListInv /\ IdInv /\ ExactInv /\ [Next]_vars => ExactInv'
<1>1. ASSUME ExactInv, Waiting \/ UNCHANGED vars
      PROVE  ExactInv'
  <2>1. UNCHANGED vars
    BY <1>1 DEF Waiting
  <2>2. agents' = agents /\ lost' = lost /\ Active' = Active
    BY <2>1 DEF vars, Active, Depth
  <2> QED BY <1>1, <2>2 DEF ExactInv
<1> QED BY <1>1, KeepsExact DEF Next

LEMMA ExactMonitor == ExactInv => MonitorExact
<1> SUFFICES ASSUME ExactInv PROVE MonitorExact
  OBVIOUS
<1>1. PICK T, A, L : T = agents /\ A = Active /\ L = lost /\ Exact(T, A, L)
  BY DEF ExactInv
<1>2. ASSUME NEW x \in A \cup L
      PROVE  x \in Registered("running")
  <2>1. PICK i \in 2 .. Len(T) : T[i].id = x
    BY <1>1 DEF Exact
  <2>2. T[i].state = "running"
    BY <1>1, <2>1 DEF Exact
  <2> QED BY <1>1, <2>1, <2>2 DEF Registered
<1>3. ASSUME NEW x \in Registered("running")
      PROVE  x \in A \cup L
  <2>1. PICK i \in 2 .. Len(T) : T[i].id = x /\ T[i].state = "running"
    BY <1>1 DEF Registered
  <2> QED BY <1>1, <2>1 DEF Exact
<1>4. ASSUME NEW x \in Registered("completed")
      PROVE  x \notin A \cup L
  <2>1. \A i \in 2 .. Len(T) : T[i].state = "completed" => T[i].id \notin A \cup L
    BY <1>1 DEF Exact
  <2>2. PICK i \in 2 .. Len(T) : T[i].id = x /\ T[i].state = "completed"
    <3>1. x \in {T[h].id : h \in {j \in 2 .. Len(T) : T[j].state = "completed"}}
      BY <1>1 DEF Registered
    <3> QED BY <3>1
  <2>3. T[i].id \notin A \cup L
    BY <2>1, <2>2
  <2> QED BY <2>2, <2>3
<1>5. Registered("running") = A \cup L
  BY <1>2, <1>3
<1>6. Registered("completed") \cap (A \cup L) = {}
  BY <1>4
<1> QED BY <1>1, <1>5, <1>6 DEF MonitorExact

\* With one thread, the table of the Monitor (monitor.cpp:11-29) tells the truth
\* of every agent (agent.cpp:78-94): those in their run() are listed as running,
\* with those that an exception ended, and no other.
THEOREM MonitorTellsTheTruth ==
  ASSUME OneThread
  PROVE  Spec => []MonitorExact
<1> QED BY InitBase, KeepsBase, InitList, KeepsList, InitIds, KeepsIdsNext,
           InitExact, KeepsExactNext, ExactMonitor, PTL DEF Spec


-----------------------------------------------------------------------------
(* One thread: the log of messages *)

\* Of the first n messages of the log Q, the last that is not about an agent
\* below id is the task of id; or it was so long ago that the log has lost it.
Begun(Q, n, id) ==
  \E q \in 0 .. n :
    /\ IF q = 0 THEN Len(Q) = MaxMessages ELSE Q[q].kind = "task" /\ Q[q].agent = id
    /\ \A x \in q + 1 .. n : Below(Q[x].agent, id)

\* The results of a log stand behind their tasks, and the agents of A may still
\* give theirs.
Nested(Q, A) ==
  /\ Len(Q) <= MaxMessages
  /\ \A p \in 1 .. Len(Q) : Q[p].kind = "result" => Begun(Q, p - 1, Q[p].agent)
  /\ \A id \in A : Begun(Q, Len(Q), id)

NestInv == Nested(internal, Active)

\* R is Q without its first c messages, and with e behind it.
Recorded(Q, R, e, c) ==
  /\ c \in {0, 1} /\ c <= Len(Q)
  /\ Len(R) = Len(Q) - c + 1
  /\ R[Len(R)] = e
  /\ \A i \in 1 .. Len(Q) - c : R[i] = Q[i + c]
  /\ IF c = 1 THEN Len(R) = MaxMessages ELSE Len(Q) < MaxMessages

LEMMA RecordIs ==
  ASSUME NEW Q \in Seq(Message), Len(Q) <= MaxMessages, NEW e \in Message,
         NEW R, R = RecordLast(Q, e, MaxMessages)
  PROVE  /\ R \in Seq(Message) /\ Len(R) <= MaxMessages
         /\ \E c : Recorded(Q, R, e, c)
<1>0. PICK n \in Nat, m \in Nat : n = Len(Q) /\ m = MaxMessages /\ m > 0 /\ n <= m
  BY SubAgentsAssumption
<1>1. CASE n >= m
  <2>1. PICK u \in Seq(Message) :
          /\ u = Tail(Q) /\ Len(u) = n - 1 /\ \A i \in 1 .. n - 1 : u[i] = Q[i + 1]
    <3>1. Q # << >>
      BY <1>0, <1>1
    <3>2. /\ Tail(Q) \in Seq(Message) /\ Len(Tail(Q)) = n - 1
          /\ \A i \in 1 .. n - 1 : Tail(Q)[i] = Q[i + 1]
      BY <1>0, <3>1
    <3> QED BY <3>2
  <2>2. R = Append(u, e)
    BY <1>0, <1>1, <2>1 DEF RecordLast
  <2>3. /\ R \in Seq(Message) /\ Len(R) = n /\ R[n] = e
        /\ \A i \in 1 .. n - 1 : R[i] = u[i]
    BY <1>0, <2>1, <2>2
  <2>4. Recorded(Q, R, e, 1)
    BY <1>0, <1>1, <2>1, <2>3 DEF Recorded
  <2> QED BY <1>0, <2>3, <2>4
<1>2. CASE ~(n >= m)
  <2>1. R = Append(Q, e)
    BY <1>0, <1>2 DEF RecordLast
  <2>2. /\ R \in Seq(Message) /\ Len(R) = n + 1 /\ R[n + 1] = e
        /\ \A i \in 1 .. n : R[i] = Q[i]
    BY <1>0, <2>1
  <2>3. Recorded(Q, R, e, 0)
    BY <1>0, <1>2, <2>2 DEF Recorded
  <2> QED BY <1>0, <1>2, <2>2, <2>3
<1> QED BY <1>1, <1>2

\* What had begun has begun, wherever its task is now.
LEMMA BegunStays ==
  ASSUME NEW Q \in Seq(Message), NEW R \in Seq(Message), NEW e, NEW c,
         Recorded(Q, R, e, c), NEW n \in 0 .. Len(Q), n >= c, NEW id, Begun(Q, n, id)
  PROVE  Begun(R, n - c, id)
<1>1. PICK l \in Nat : l = Len(Q)
  OBVIOUS
<1>2. c \in Nat /\ c <= 1 /\ n \in Nat /\ n <= l
  BY <1>1 DEF Recorded
<1>3. PICK q \in 0 .. n :
        /\ IF q = 0 THEN Len(Q) = MaxMessages ELSE Q[q].kind = "task" /\ Q[q].agent = id
        /\ \A x \in q + 1 .. n : Below(Q[x].agent, id)
  BY DEF Begun
<1>4. \A i \in 1 .. l - c : R[i] = Q[i + c]
  BY <1>1 DEF Recorded
<1>5. CASE q > c
  <2>1. q - c \in 0 .. n - c /\ q - c # 0 /\ q - c \in 1 .. l - c /\ (q - c) + c = q /\ q # 0
    BY <1>2, <1>5
  <2>2. R[q - c] = Q[q]
    BY <1>4, <2>1
  <2>3. ASSUME NEW x \in (q - c) + 1 .. n - c
        PROVE  Below(R[x].agent, id)
    <3>1. x \in 1 .. l - c /\ x + c \in q + 1 .. n
      BY <1>2, <1>5
    <3> QED BY <1>3, <1>4, <3>1
  <2> QED BY <1>3, <2>1, <2>2, <2>3 DEF Begun
<1>6. CASE q <= c
  <2>1. Len(R) = MaxMessages
    <3>1. CASE c = 1
      BY <3>1 DEF Recorded
    <3>2. CASE c # 1
      <4>1. q = 0 /\ Len(Q) < MaxMessages
        BY <1>2, <1>6, <3>2 DEF Recorded
      <4>2. Len(Q) = MaxMessages
        BY <1>3, <4>1
      <4> QED BY <1>1, <4>1, <4>2, SubAgentsAssumption
    <3> QED BY <3>1, <3>2
  <2>2. ASSUME NEW x \in 0 + 1 .. n - c
        PROVE  Below(R[x].agent, id)
    <3>1. x \in 1 .. l - c /\ x + c \in q + 1 .. n
      BY <1>2, <1>6
    <3> QED BY <1>3, <1>4, <3>1
  <2>3. 0 \in 0 .. n - c
    BY <1>2
  <2> QED BY <2>1, <2>2, <2>3 DEF Begun
<1> QED BY <1>2, <1>5, <1>6

\* A message of an agent below hides no task.
LEMMA BegunMore ==
  ASSUME NEW R \in Seq(Message), Len(R) > 0, NEW id, Begun(R, Len(R) - 1, id),
         Below(R[Len(R)].agent, id)
  PROVE  Begun(R, Len(R), id)
<1>1. PICK l \in Nat : l = Len(R) /\ l > 0
  OBVIOUS
<1>2. PICK q \in 0 .. l - 1 :
        /\ IF q = 0 THEN Len(R) = MaxMessages ELSE R[q].kind = "task" /\ R[q].agent = id
        /\ \A x \in q + 1 .. l - 1 : Below(R[x].agent, id)
  BY <1>1 DEF Begun
<1>3. q \in 0 .. l
  BY <1>1
<1>4. ASSUME NEW x \in q + 1 .. l
      PROVE  Below(R[x].agent, id)
  <2>1. x = l \/ x \in q + 1 .. l - 1
    BY <1>1
  <2> QED BY <1>1, <1>2, <2>1
<1> QED BY <1>1, <1>2, <1>3, <1>4 DEF Begun

\* What a message e makes of a log that is nested: B are the agents that may
\* still give their results behind it.
LEMMA RecordNests ==
  ASSUME NEW Q \in Seq(Message), NEW A, Nested(Q, A), NEW e \in Message,
         NEW R, R = RecordLast(Q, e, MaxMessages), NEW B,
         e.kind = "result" => e.agent \in A,
         \A id \in B : \/ id \in A /\ Below(e.agent, id)
                       \/ e.kind = "task" /\ e.agent = id
  PROVE  Nested(R, B)
<1>1. Len(Q) <= MaxMessages
  BY DEF Nested
<1>2. R \in Seq(Message) /\ Len(R) <= MaxMessages
  BY <1>1, RecordIs
<1>3. PICK c : Recorded(Q, R, e, c)
  BY <1>1, RecordIs
<1>4. PICK l \in Nat : l = Len(Q)
  OBVIOUS
<1>5. /\ c \in Nat /\ c <= 1 /\ c <= l /\ Len(R) = l - c + 1
      /\ R[Len(R)] = e /\ \A i \in 1 .. l - c : R[i] = Q[i + c]
  BY <1>3, <1>4 DEF Recorded
<1>6. ASSUME NEW id \in A
      PROVE  Begun(R, Len(R) - 1, id)
  <2>1. Begun(Q, l, id) /\ l \in 0 .. Len(Q) /\ l >= c
    BY <1>4, <1>5 DEF Nested
  <2>2. Begun(R, l - c, id)
    BY <1>2, <1>3, <2>1, BegunStays
  <2>3. l - c = Len(R) - 1
    BY <1>5
  <2> QED BY <2>2, <2>3
<1>7. ASSUME NEW p \in 1 .. Len(R), R[p].kind = "result"
      PROVE  Begun(R, p - 1, R[p].agent)
  <2>1. CASE p = Len(R)
    <3>1. e.agent \in A /\ R[p] = e
      BY <1>5, <1>7, <2>1
    <3> QED BY <1>6, <2>1, <3>1
  <2>2. CASE p # Len(R)
    <3>1. p \in 1 .. l - c /\ p + c \in 1 .. l /\ R[p] = Q[p + c]
      BY <1>4, <1>5, <2>2
    <3>2. PICK n \in 0 .. l : n = p + c - 1
      BY <1>5, <3>1
    <3>3. n >= c /\ n - c = p - 1 /\ n = (p + c) - 1
      BY <1>5, <3>1, <3>2
    <3>4. Begun(Q, (p + c) - 1, Q[p + c].agent)
      BY <1>4, <1>7, <3>1 DEF Nested
    <3>5. Begun(R, n - c, R[p].agent)
      BY <1>2, <1>3, <1>4, <3>1, <3>3, <3>4, BegunStays
    <3> QED BY <3>3, <3>5
  <2> QED BY <2>1, <2>2
<1>8. ASSUME NEW id \in B
      PROVE  Begun(R, Len(R), id)
  <2>0. Len(R) \in Nat /\ Len(R) > 0
    BY <1>5
  <2>1. CASE id \in A /\ Below(e.agent, id)
    BY <1>2, <1>5, <1>6, <2>0, <2>1, BegunMore
  <2>2. CASE e.kind = "task" /\ e.agent = id
    <3>1. Len(R) \in 0 .. Len(R) /\ Len(R) # 0
      BY <2>0
    <3>2. R[Len(R)].kind = "task" /\ R[Len(R)].agent = id
      BY <1>5, <2>2
    <3>3. \A x \in Len(R) + 1 .. Len(R) : Below(R[x].agent, id)
      BY <2>0
    <3> QED BY <3>1, <3>2, <3>3 DEF Begun
  <2> QED BY <2>1, <2>2
<1> QED BY <1>2, <1>7, <1>8 DEF Nested

\* Fewer agents may give theirs.
LEMMA FewerNested ==
  ASSUME NEW Q, NEW A, Nested(Q, A), NEW B, B \subseteq A
  PROVE  Nested(Q, B)
BY DEF Nested

\* A sub-agent gets its task, or gives its result, below all that go on.
LEMMA KeepsNested ==
  ASSUME OneThread, BaseInv, ListInv, IdInv, NestInv,
         NEW t \in Threads, Run(t) \/ ThreadStep(t)
  PROVE  NestInv'
<1>0. PICK T : T = agents
  OBVIOUS
<1>1. PICK s \in Seq(Frame), n \in Nat :
        /\ s = stack[t] /\ n = nextId /\ T = agents /\ Depth(t) = Len(s)
        /\ StackOK(s) /\ Numbered(s, n, T) /\ Unwritten(s, n)
  BY <1>0 DEF BaseInv, TypeOK, Depth, IdInv
<1>2. PICK Q \in Seq(Message) : Q = internal
  BY DEF BaseInv, TypeOK, Message
<1>3. PICK r, R : r = stack'[t] /\ R = internal'
  OBVIOUS
<1>4. Active = SubIds(s) /\ Active' = SubIds(r)
  BY <1>1, <1>3, OneStack
<1>5. PICK A : A = SubIds(s) /\ Nested(Q, A)
  BY <1>2, <1>4 DEF NestInv
<1>6. SUFFICES Nested(R, SubIds(r))
  BY <1>3, <1>4 DEF NestInv
<1>7. CASE Chat(t) \/ ChatCallsTools(t) \/ RunSkill(t) \/ SpawnRead(t)
  <2>1. R = Q
    BY <1>2, <1>3, <1>7 DEF Chat, ChatCallsTools, RunSkill, SpawnRead
  <2>2. PICK c : Turned(t, c)
    BY <1>7, ChatStep, FreeStep
  <2>3. SubIds(r) = A
    BY <1>1, <1>3, <1>5, <2>2, TurnedIds
  <2> QED BY <1>5, <2>1, <2>3
<1>8. CASE Throw(t)
  <2>1. R = Q
    BY <1>2, <1>3, <1>8 DEF Throw
  <2>2. SubIds(r) = {}
    BY <1>3, <1>8, ThrowStep DEF Emptied, SubIds
  <2> QED BY <1>5, <2>1, <2>2, FewerNested
<1>9. CASE Run(t)
  <2>1. R = Q
    BY <1>2, <1>3, <1>9 DEF Run
  <2>2. SubIds(r) = {}
    <3>1. PICK a : a = NewAgent(Main, MaxIterations)
      OBVIOUS
    <3>2. r = <<a>>
      BY <1>3, <1>9, <3>1, RunStep
    <3> QED BY <3>2 DEF SubIds
  <2> QED BY <1>5, <2>1, <2>2, FewerNested
<1>10. CASE SpawnWrite(t)
  <2>1. Len(s) > 0 /\ Top(t) = s[Len(s)] /\ s[Len(s)].pc = "spawn"
    BY <1>1, <1>10 DEF SpawnWrite, At, Top
  <2>2. PICK id : id = NextId(s[Len(s)])
    OBVIOUS
  <2>3. id \in Seq(Nat) /\ \A d \in 1 .. Len(s) : Below(id, s[d].id)
    <3>1. /\ StackOK(s) /\ Numbered(s, n, T) /\ Unwritten(s, n)
          /\ Len(s) > 0 /\ s[Len(s)].pc = "spawn"
      BY <1>1, <2>1
    <3> QED BY <2>2, <3>1, NewId
  <2>4. PICK f, g : Push(s, r, f, g) /\ f.id = s[Len(s)].id /\ g.id = id
    <3>1. PICK f, g : /\ Push(s, r, f, g) /\ Same(f, Top(t))
                      /\ g.id = Append(Top(t).id, Top(t).read)
      BY <1>1, <1>3, <1>10, SpawnStep DEF Pushed
    <3> QED BY <2>1, <2>2, <3>1 DEF Same, NextId
  <2>5. SubIds(r) = A \cup {id}
    BY <1>5, <2>4, PushedIds
  <2>6. PICK e \in Message : e = [kind |-> "task", agent |-> id]
    BY <2>3 DEF Message
  <2>7. R = RecordLast(Q, e, MaxMessages)
    BY <1>2, <1>3, <1>10, <2>1, <2>2, <2>6 DEF SpawnWrite, Told, NextId
  <2>8. e.kind = "task" /\ e.agent = id
    BY <2>6
  <2>9. \A x \in A : Below(e.agent, x)
    BY <1>5, <2>3, <2>8 DEF SubIds
  <2> QED BY <1>5, <2>5, <2>7, <2>8, <2>9, RecordNests
<1>11. CASE Return(t)
  <2>1. Depth(t) > 0
    BY <1>11, ReturnStep
  <2>2. CASE Depth(t) = 1
    <3>1. R = Q /\ Emptied(t)
      BY <1>2, <1>3, <1>11, <2>2, ReturnStep DEF Return
    <3>2. SubIds(r) = {}
      BY <1>3, <3>1 DEF Emptied, SubIds
    <3> QED BY <1>5, <3>1, <3>2, FewerNested
  <2>3. CASE Depth(t) # 1
    <3>1. PICK id : id = s[Len(s)].id /\ Top(t).id = id
      BY <1>1 DEF Top
    <3>2. PICK f : Pop(s, r, f) /\ Same(f, s[Len(s) - 1])
      BY <1>1, <1>3, <1>11, <2>3, ReturnStep DEF Popped
    <3>3. id \in A /\ SubIds(r) = A \ {id}
      BY <1>1, <1>5, <3>1, <3>2, PoppedIds
    <3>4. PICK l \in Nat : l = Len(s) /\ l > 1
      BY <3>2 DEF Pop
    <3>5. id \in Seq(Nat)
      <4>1. s[l] \in Frame
        BY <3>4
      <4> QED BY <3>1, <3>4, <4>1 DEF Frame
    <3>6. PICK e \in Message : e = [kind |-> "result", agent |-> id]
      BY <3>5 DEF Message
    <3>7. R = RecordLast(Q, e, MaxMessages)
      BY <1>2, <1>3, <1>11, <2>3, <3>1, <3>6 DEF Return, Told
    <3>8. e.agent = id
      BY <3>6
    <3>9. ASSUME NEW x \in SubIds(r)
          PROVE  x \in A /\ Below(id, x)
      <4>1. PICK d \in 2 .. l : x = s[d].id
        BY <1>5, <3>3, <3>4 DEF SubIds
      <4>2. d # l
        BY <3>1, <3>3, <3>4, <4>1
      <4>3. d \in 1 .. Len(s) /\ l \in 1 .. Len(s) /\ d < l
        BY <3>4, <4>2
      <4> QED BY <1>1, <3>1, <3>3, <3>4, <4>1, <4>3 DEF Numbered
    <3> QED BY <1>5, <3>3, <3>7, <3>8, <3>9, RecordNests
  <2> QED BY <2>2, <2>3
<1> QED BY <1>7, <1>8, <1>9, <1>10, <1>11 DEF ThreadStep

LEMMA InitNested == Init => NestInv
<1> SUFFICES ASSUME Init PROVE NestInv
  OBVIOUS
<1>1. Len(internal) = 0 /\ 0 <= MaxMessages
  BY SubAgentsAssumption DEF Init
<1>2. Active = {}
  <2>1. \A t \in Threads : Depth(t) = 0
    BY DEF Init, Depth
  <2>2. ASSUME NEW x \in Active
        PROVE  FALSE
    <3>1. PICK t \in Threads : \E d \in 2 .. Depth(t) : TRUE
      BY DEF Active
    <3> QED BY <2>1, <3>1
  <2> QED BY <2>2
<1> QED BY <1>1, <1>2 DEF NestInv, Nested

LEMMA KeepsNestedNext ==
  OneThread /\ BaseInv /\ ListInv /\ IdInv /\ NestInv /\ [Next]_vars => NestInv'
<1>1. ASSUME NestInv, Waiting \/ UNCHANGED vars
      PROVE  NestInv'
  <2>1. UNCHANGED vars
    BY <1>1 DEF Waiting
  <2>2. internal' = internal /\ Active' = Active
    BY <2>1 DEF vars, Active, Depth
  <2> QED BY <1>1, <2>2 DEF NestInv
<1> QED BY <1>1, KeepsNested DEF Next

\* The two ways to say that an id is below another.
LEMMA BelowIsAbove ==
  ASSUME NEW x \in Seq(Nat), NEW p \in Seq(Nat), Below(x, p)
  PROVE  IsAbove(p, x)
<1>1. PICK n \in Nat : n = Len(p)
  OBVIOUS
<1>2. Len(x) > n /\ \A i \in 1 .. n : x[i] = p[i]
  BY <1>1 DEF Below
<1>3. PICK u \in Seq(Nat) : u = SubSeq(x, 1, n) /\ Len(u) = n /\ \A i \in 1 .. n : u[i] = x[i]
  <2>1. \A i \in 1 .. n : x[i] \in Nat
    BY <1>1, <1>2
  <2>2. /\ SubSeq(x, 1, n) \in Seq(Nat)
        /\ Len(SubSeq(x, 1, n)) = IF 1 <= n THEN n - 1 + 1 ELSE 0
        /\ \A i \in 1 .. n - 1 + 1 : SubSeq(x, 1, n)[i] = x[1 + i - 1]
    BY <2>1, SubSeqProperties
  <2>3. Len(SubSeq(x, 1, n)) = n /\ \A i \in 1 .. n : SubSeq(x, 1, n)[i] = x[i]
    BY <1>1, <2>2
  <2> QED BY <2>2, <2>3
<1>4. u = p
  <2>1. Len(u) = Len(p) /\ \A i \in 1 .. Len(p) : u[i] = p[i]
    BY <1>1, <1>2, <1>3
  <2> QED BY <2>1, SeqEqual
<1> QED BY <1>1, <1>2, <1>3, <1>4 DEF IsAbove

LEMMA NestedNests == BaseInv /\ NestInv => MessagesNest
<1> SUFFICES ASSUME BaseInv, NestInv, NEW p \in 1 .. Len(internal),
                    internal[p].kind = "result"
             PROVE  \E q \in 0 .. p - 1 :
                      /\ IF q = 0 THEN Len(internal) = MaxMessages
                         ELSE internal[q] = [internal[p] EXCEPT !.kind = "task"]
                      /\ \A x \in q + 1 .. p - 1 :
                           IsAbove(internal[p].agent, internal[x].agent)
  BY DEF MessagesNest
<1>1. PICK Q \in Seq(Message) : Q = internal /\ p \in 1 .. Len(Q)
  BY DEF BaseInv, TypeOK, Message
<1>2. \A i \in 1 .. Len(Q) : Q[i] \in Message
  BY <1>1
<1>3. PICK q \in 0 .. p - 1 :
        /\ IF q = 0 THEN Len(Q) = MaxMessages
           ELSE Q[q].kind = "task" /\ Q[q].agent = Q[p].agent
        /\ \A x \in q + 1 .. p - 1 : Below(Q[x].agent, Q[p].agent)
  BY <1>1 DEF NestInv, Nested, Begun
<1>4. ASSUME q # 0
      PROVE  Q[q] = [Q[p] EXCEPT !.kind = "task"]
  <2>1. q \in 1 .. Len(Q)
    BY <1>1, <1>4
  <2>2. Q[q] \in Message /\ Q[p] \in Message
    BY <1>1, <1>2, <2>1
  <2>3. Q[q].kind = "task" /\ Q[q].agent = Q[p].agent
    BY <1>3, <1>4
  <2> QED BY <2>2, <2>3 DEF Message
<1>5. ASSUME NEW x \in q + 1 .. p - 1
      PROVE  IsAbove(Q[p].agent, Q[x].agent)
  <2>1. x \in 1 .. Len(Q)
    BY <1>1
  <2>2. Q[x].agent \in Seq(Nat) /\ Q[p].agent \in Seq(Nat)
    BY <1>1, <1>2, <2>1 DEF Message
  <2> QED BY <1>3, <2>2, BelowIsAbove
<1> QED BY <1>1, <1>3, <1>4, <1>5

\* With one thread, the log of messages (monitor.cpp:43-54) is nested as the runs
\* are (agent.cpp:93-109): a result stands behind its task, with nothing in between
\* but what agents below were told and answered, unless its task was dropped.
THEOREM ResultsMeetTasks ==
  ASSUME OneThread
  PROVE  Spec => []MessagesNest
<1> QED BY InitBase, KeepsBase, InitList, KeepsList, InitIds, KeepsIdsNext,
           InitNested, KeepsNestedNext, NestedNests, PTL DEF Spec

=============================================================================
