---------------------------- MODULE AgentHistory -----------------------------
(***************************************************************************)
(* Proofs about what Agent keeps, for any number of runs, restarts,        *)
(* iterations and tool calls.  In the table, with any number of threads and *)
(* where no INSERT fails: no holes, no call without its result behind a run *)
(* that returned, and the text that was returned.  In messages_, with one  *)
(* thread and also where INSERTs fail: a tool result never stands without  *)
(* the call it answers, and the context is the end of the history.         *)
(***************************************************************************)
EXTENDS AgentProofs

Returns == Finals \cup {"cancelled"}

\* Has the table the results of all calls of row p?
RowAnswered(p) ==
  \A j \in 1 .. db[p].calls :
    \E q \in p + 1 .. Len(db) :
      db[q].k = j /\ db[q].run = db[p].run /\ db[q].iter = db[p].iter

\* All that led to row p is above it.
NoGapAt(p) ==
  \/ db[p].role = "user"
  \/ /\ db[p].role = "tool"
     /\ \E q \in 1 .. p - 1 :
          /\ db[q].run = db[p].run
          /\ db[q].iter = db[p].iter
          /\ db[q].k = db[p].k - 1
          /\ db[q].k = 0 => db[q].calls >= 1
  \/ /\ db[p].role = "assistant"
     /\ BatchAnswered(p, db[p].run, db[p].iter - 1)

\* Only answers of the LLM call tools.
CallsInAnswers == \A p \in 1 .. Len(db) : db[p].calls > 0 => db[p].k = 0

Active(s) == s.pc \notin {"idle", "throwing"}

\* The last iteration of s is in the table with all results.
Complete(s) == BatchAnswered(Len(db) + 1, s.run, s.iter)

\* The answer that s handles is in the table with the results s has so far.
Collected(s) ==
  \E c \in 1 .. Len(db) :
    /\ db[c].run = s.run /\ db[c].iter = s.iter + 1 /\ db[c].k = 0
    /\ db[c].calls = s.calls
    /\ \A j \in 1 .. s.k - 1 :
         \E q \in c + 1 .. Len(db) :
           db[q].run = s.run /\ db[q].iter = s.iter + 1 /\ db[q].k = j

\* The rows of the run of s are answered, but for the batch in hand.
OthersAnswered(s) ==
  \A p \in 1 .. Len(db) :
    db[p].run = s.run =>
      RowAnswered(p) \/ (InBatch(s) /\ db[p].iter = s.iter + 1)

\* What the table holds for the run of s.
Held(s) ==
  Active(s) =>
    /\ ~AsksFirst(s) /\ ~InBatch(s) => Complete(s)
    /\ InBatch(s) => Collected(s)
    /\ OthersAnswered(s)

\* A run that is not over has returned nothing.
Unreturned ==
  \A r \in Runs :
    r >= nextRun \/ (\E t \in Threads : th[t].run = r) => outcome[r] \notin Returns

HeldByAll ==
  ~LossyStore =>
    /\ \A t \in Threads : Held(th[t])
    /\ \A p \in 1 .. Len(db) : NoGapAt(p)

HInv ==
  /\ RInv /\ Unreturned /\ CallsInAnswers /\ HeldByAll
  /\ AnswerIsPersisted /\ ReturnedRunsAnswered

-----------------------------------------------------------------------------
(* A row is added *)

USE AgentAssumption

\* m becomes row n + 1.
Grows(n, m) ==
  /\ n \in Nat /\ Len(db) = n /\ Len(db') = n + 1
  /\ \A p \in 1 .. n : db'[p] = db[p]
  /\ db'[n + 1] = m

\* That is what AddMessage does where no INSERT fails.
LEMMA AddGrows ==
  ASSUME TInv, NEW m \in Message, AddMessage(m), ~LossyStore
  PROVE  Grows(Len(db), m)
<1>1. db \in Seq(Message) /\ db' = Append(db, m)
  BY DEF AddMessage, TInv, TypeOK
<1> QED
  BY <1>1, AppendProperties DEF Grows

\* The answer of row c with its results completes the iteration.
LEMMA BatchIn ==
  ASSUME NEW p, NEW r, NEW i, NEW c \in 1 .. p - 1,
         db'[c].run = r /\ db'[c].iter = i /\ db'[c].k = 0,
         \A j \in 1 .. db'[c].calls :
           \E q \in c + 1 .. p - 1 :
             db'[q].run = r /\ db'[q].iter = i /\ db'[q].k = j
  PROVE  BatchAnswered(p, r, i)'
BY DEF BatchAnswered

\* What was complete above p is complete above everything below p.
LEMMA BatchKept ==
  ASSUME NEW n, NEW m, Grows(n, m), NEW p \in 1 .. n + 1, NEW p2 \in p .. n + 2,
         NEW r, NEW i, BatchAnswered(p, r, i)
  PROVE  BatchAnswered(p2, r, i)'
<1>1. PICK c \in 1 .. p - 1 :
        /\ db[c].run = r /\ db[c].iter = i /\ db[c].k = 0
        /\ \A j \in 1 .. db[c].calls :
             \E q \in c + 1 .. p - 1 :
               db[q].run = r /\ db[q].iter = i /\ db[q].k = j
  BY DEF BatchAnswered
<1>2. n \in Nat /\ \A q \in 1 .. n : db'[q] = db[q]
  BY DEF Grows
<1>3. c \in 1 .. p2 - 1 /\ c \in 1 .. n /\ db'[c] = db[c]
  BY <1>2
<1>4. ASSUME NEW j \in 1 .. db'[c].calls
      PROVE  \E q \in c + 1 .. p2 - 1 :
               db'[q].run = r /\ db'[q].iter = i /\ db'[q].k = j
  <2>1. PICK q \in c + 1 .. p - 1 : db[q].run = r /\ db[q].iter = i /\ db[q].k = j
    BY <1>1, <1>3, <1>4
  <2>2. q \in 1 .. n /\ q \in c + 1 .. p2 - 1
    BY <1>2, <1>3
  <2> QED
    BY <1>2, <2>1, <2>2
<1> QED
  BY <1>1, <1>3, <1>4 DEF BatchAnswered

\* A row that was answered still is.
LEMMA RowKept ==
  ASSUME NEW n, NEW m, Grows(n, m), NEW p \in 1 .. n, RowAnswered(p)
  PROVE  RowAnswered(p)'
<1>1. n \in Nat /\ Len(db) = n /\ Len(db') = n + 1 /\ \A q \in 1 .. n : db'[q] = db[q]
  BY DEF Grows
<1>2. ASSUME NEW j \in 1 .. db'[p].calls
      PROVE  \E q \in p + 1 .. Len(db') :
               db'[q].k = j /\ db'[q].run = db'[p].run /\ db'[q].iter = db'[p].iter
  <2>1. PICK q \in p + 1 .. n : db[q].k = j /\ db[q].run = db[p].run /\ db[q].iter = db[p].iter
    BY <1>1, <1>2 DEF RowAnswered
  <2>2. q \in 1 .. n /\ q \in p + 1 .. Len(db')
    BY <1>1
  <2> QED
    BY <1>1, <2>1, <2>2
<1> QED
  BY <1>2 DEF RowAnswered

\* What led to a row still is above it.
LEMMA NoGapKept ==
  ASSUME NEW n, NEW m, Grows(n, m), NEW p \in 1 .. n, NoGapAt(p)
  PROVE  NoGapAt(p)'
<1>1. n \in Nat /\ \A q \in 1 .. n : db'[q] = db[q]
  BY DEF Grows
<1>2. CASE db[p].role = "tool"
  <2>1. PICK q \in 1 .. p - 1 :
          /\ db[q].run = db[p].run
          /\ db[q].iter = db[p].iter
          /\ db[q].k = db[p].k - 1
          /\ db[q].k = 0 => db[q].calls >= 1
    BY <1>2 DEF NoGapAt
  <2>2. q \in 1 .. n
    BY <1>1
  <2> QED
    BY <1>1, <1>2, <2>1, <2>2 DEF NoGapAt
<1>3. CASE db[p].role = "assistant"
  <2>1. BatchAnswered(p, db[p].run, db[p].iter - 1)
    BY <1>3 DEF NoGapAt
  <2>2. \A r, i : BatchAnswered(p, r, i) => BatchAnswered(p, r, i)'
    <3>1. p \in 1 .. n + 1 /\ p \in p .. n + 2
      BY <1>1
    <3> QED
      BY <3>1, BatchKept
  <2>3. PICK r, i : r = db[p].run /\ i = db[p].iter - 1
    OBVIOUS
  <2>4. BatchAnswered(p, r, i)' /\ r = db'[p].run /\ i = db'[p].iter - 1
    BY <1>1, <2>1, <2>2, <2>3
  <2>5. BatchAnswered(p, db[p].run, db[p].iter - 1)'
    BY <2>4
  <2> QED
    BY <1>1, <1>3, <2>5 DEF NoGapAt
<1> QED
  BY <1>1, <1>2, <1>3 DEF NoGapAt

\* The table holds for another run what it held.
LEMMA HeldKept ==
  ASSUME NEW n, NEW m, Grows(n, m), NEW s, Held(s), Active(s) => m.run # s.run
  PROVE  Held(s)'
<1> SUFFICES ASSUME Active(s) PROVE Held(s)'
  BY DEF Held, Active
<1>1. /\ n \in Nat /\ Len(db) = n /\ Len(db') = n + 1
      /\ \A q \in 1 .. n : db'[q] = db[q]
      /\ db'[n + 1] = m /\ m.run # s.run
  BY DEF Grows
<1>2. ASSUME Complete(s) PROVE Complete(s)'
  <2>1. BatchAnswered(n + 1, s.run, s.iter)
    BY <1>1, <1>2 DEF Complete
  <2>2. BatchAnswered(n + 2, s.run, s.iter)'
    <3>1. n + 1 \in 1 .. n + 1 /\ n + 2 \in n + 1 .. n + 2
      BY <1>1
    <3> QED
      BY <2>1, <3>1, BatchKept
  <2>3. Len(db') + 1 = n + 2
    BY <1>1
  <2> QED
    BY <2>2, <2>3 DEF Complete, BatchAnswered
<1>3. ASSUME Collected(s) PROVE Collected(s)'
  <2>1. PICK c \in 1 .. n :
          /\ db[c].run = s.run /\ db[c].iter = s.iter + 1 /\ db[c].k = 0
          /\ db[c].calls = s.calls
          /\ \A j \in 1 .. s.k - 1 :
               \E q \in c + 1 .. n :
                 db[q].run = s.run /\ db[q].iter = s.iter + 1 /\ db[q].k = j
    BY <1>1, <1>3 DEF Collected
  <2>2. c \in 1 .. Len(db') /\ db'[c] = db[c]
    BY <1>1
  <2>3. ASSUME NEW j \in 1 .. s.k - 1
        PROVE  \E q \in c + 1 .. Len(db') :
                 db'[q].run = s.run /\ db'[q].iter = s.iter + 1 /\ db'[q].k = j
    <3>1. PICK q \in c + 1 .. n :
            db[q].run = s.run /\ db[q].iter = s.iter + 1 /\ db[q].k = j
      BY <2>1
    <3>2. q \in 1 .. n /\ q \in c + 1 .. Len(db')
      BY <1>1
    <3> QED
      BY <1>1, <3>1, <3>2
  <2> QED
    BY <2>1, <2>2, <2>3 DEF Collected
<1>4. OthersAnswered(s)'
  <2> SUFFICES ASSUME NEW p \in 1 .. Len(db'), db'[p].run = s.run
               PROVE  RowAnswered(p)' \/ (InBatch(s) /\ db'[p].iter = s.iter + 1)
    BY DEF OthersAnswered, InBatch
  <2>1. p \in 1 .. n /\ db'[p] = db[p]
    BY <1>1
  <2>2. RowAnswered(p) \/ (InBatch(s) /\ db[p].iter = s.iter + 1)
    BY <1>1, <2>1 DEF Held, OthersAnswered
  <2> QED
    BY <2>1, <2>2, RowKept
<1> QED
  BY <1>2, <1>3, <1>4 DEF Held, Active, AsksFirst, InBatch

-----------------------------------------------------------------------------
(* The row that Persist adds *)

\* Two rows of one place are one row.
LEMMA OneRow ==
  ASSUME TInv, ProgramOrder, NEW p \in 1 .. Len(db), NEW q \in 1 .. Len(db),
         db[p].run = db[q].run, db[p].iter = db[q].iter, db[p].k = db[q].k
  PROVE  p = q
<1>1. db[p] \in Message /\ db[q] \in Message
  BY DEF TInv, TypeOK
<1>2. db[p].iter \in Int /\ db[p].k \in Int /\ db[q].iter \in Int /\ db[q].k \in Int
  BY <1>1 DEF Message
<1>3. ~(p < q) /\ ~(q < p)
  BY <1>2 DEF ProgramOrder, Before
<1> QED
  BY <1>3

\* The rows above are still answered, but for the batch that o handled.
LEMMA OthersKept ==
  ASSUME NEW n, NEW m, Grows(n, m), NEW o, OthersAnswered(o)
  PROVE  \A p \in 1 .. n : db'[p].run = o.run =>
           RowAnswered(p)' \/ (InBatch(o) /\ db'[p].iter = o.iter + 1)
<1> SUFFICES ASSUME NEW p \in 1 .. n, db'[p].run = o.run
             PROVE  RowAnswered(p)' \/ (InBatch(o) /\ db'[p].iter = o.iter + 1)
  OBVIOUS
<1>1. db'[p] = db[p] /\ p \in 1 .. Len(db)
  BY DEF Grows
<1>2. RowAnswered(p) \/ (InBatch(o) /\ db[p].iter = o.iter + 1)
  BY <1>1 DEF OthersAnswered
<1> QED
  BY <1>1, <1>2, RowKept

\* The question of a run.
LEMMA QuestionHeld ==
  ASSUME NEW n, NEW o \in Thread, NEW s, Grows(n, o.pend), Held(o), o.pc = "persist",
         o.pend.role = "user", o.pend.run = o.run, o.pend.iter = 0, o.pend.k = 0,
         o.pend.calls = 0, s.pc = "loop", s.run = o.run, s.iter = 0
  PROVE  NoGapAt(n + 1)' /\ Held(s)'
<1>1. n \in Nat /\ Len(db') = n + 1 /\ db'[n + 1] = o.pend
  BY DEF Grows
<1>2. Active(o) /\ AsksFirst(o) /\ ~InBatch(o) /\ OthersAnswered(o)
  BY DEF Held, Active, AsksFirst, InBatch
<1>3. \A j : j \notin 1 .. db'[n + 1].calls
  BY <1>1
<1>4. BatchAnswered(n + 2, s.run, s.iter)'
  <2>1. n + 1 \in 1 .. n + 2 - 1
    BY <1>1
  <2> QED
    BY <1>1, <1>3, <2>1 DEF BatchAnswered
<1>5. Complete(s)'
  <2>1. Len(db') + 1 = n + 2
    BY <1>1
  <2> QED
    BY <1>4, <2>1 DEF Complete, BatchAnswered
<1>6. RowAnswered(n + 1)'
  BY <1>3 DEF RowAnswered
<1>7. OthersAnswered(s)'
  <2> SUFFICES ASSUME NEW p \in 1 .. n + 1, db'[p].run = s.run PROVE RowAnswered(p)'
    BY <1>1 DEF OthersAnswered
  <2>1. p \in 1 .. n \/ p = n + 1
    BY <1>1
  <2> QED
    BY <1>2, <1>6, <2>1, OthersKept
<1>8. NoGapAt(n + 1)'
  BY <1>1 DEF NoGapAt
<1> QED
  BY <1>5, <1>7, <1>8 DEF Held, InBatch, Appends

\* An answer of the LLM, with or without calls.
LEMMA AnswerHeld ==
  ASSUME NEW n, NEW o \in Thread, Grows(n, o.pend), Held(o), o.pc = "persist",
         o.pend.role = "assistant", o.pend.run = o.run, o.pend.iter = o.iter + 1
  PROVE  /\ NoGapAt(n + 1)'
         /\ \A p \in 1 .. n : db'[p].run = o.run => RowAnswered(p)'
<1>1. n \in Nat /\ Len(db) = n /\ db'[n + 1] = o.pend /\ o.iter \in Int
  BY DEF Grows, Thread
<1>2. Active(o) /\ ~AsksFirst(o) /\ ~InBatch(o)
  BY DEF Active, AsksFirst, InBatch
<1>3. Complete(o) /\ OthersAnswered(o)
  BY <1>2 DEF Held
<1>4. BatchAnswered(n + 1, o.run, o.iter)
  BY <1>1, <1>3 DEF Complete
<1>5. BatchAnswered(n + 1, o.run, o.iter)'
  <2>1. n + 1 \in 1 .. n + 1 /\ n + 1 \in n + 1 .. n + 2
    BY <1>1
  <2> QED
    BY <1>4, <2>1, BatchKept
<1>6. NoGapAt(n + 1)'
  <2>1. db'[n + 1].iter - 1 = o.iter
    BY <1>1
  <2> QED
    BY <1>1, <1>5, <2>1 DEF NoGapAt, BatchAnswered
<1> QED
  BY <1>2, <1>3, <1>6, OthersKept

\* An answer with calls begins a batch.
LEMMA CallHeld ==
  ASSUME NEW n, NEW o \in Thread, NEW s, Grows(n, o.pend), Held(o), o.pc = "persist",
         o.pend.role = "assistant", o.pend.run = o.run, o.pend.iter = o.iter + 1,
         o.pend.k = 0, s.pc = "tool", s.run = o.run, s.iter = o.iter, s.k = 1,
         s.calls = o.pend.calls
  PROVE  Held(s)'
<1>1. n \in Nat /\ Len(db') = n + 1 /\ db'[n + 1] = o.pend
  BY DEF Grows
<1>2. InBatch(s)
  BY DEF InBatch
<1>3. Collected(s)'
  <2>1. n + 1 \in 1 .. Len(db') /\ \A j : j \notin 1 .. s.k - 1
    BY <1>1
  <2> QED
    BY <1>1, <2>1 DEF Collected
<1>4. OthersAnswered(s)'
  <2> SUFFICES ASSUME NEW p \in 1 .. n + 1, db'[p].run = s.run
               PROVE  RowAnswered(p)' \/ db'[p].iter = s.iter + 1
    BY <1>1, <1>2 DEF OthersAnswered, InBatch
  <2>1. p \in 1 .. n \/ p = n + 1
    BY <1>1
  <2> QED
    BY <1>1, <2>1, AnswerHeld
<1> QED
  BY <1>2, <1>3, <1>4 DEF Held, InBatch

\* The result of call k: the batch goes on, or the iteration is complete.
LEMMA ResultHeld ==
  ASSUME TInv, ProgramOrder, CallsInAnswers,
         NEW n, NEW o \in Thread, NEW s, Grows(n, o.pend), Held(o), o.pc = "persist",
         o.pend.role = "tool", o.pend.run = o.run, o.pend.iter = o.iter + 1,
         o.pend.k = o.k, o.pend.calls = 0, o.k \in 1 .. o.calls, s.run = o.run,
         \/ /\ o.k < o.calls /\ s.pc = "tool" /\ s.iter = o.iter
            /\ s.k = o.k + 1 /\ s.calls = o.calls
         \/ o.k = o.calls /\ s.pc = "loop" /\ s.iter = o.iter + 1
  PROVE  NoGapAt(n + 1)' /\ Held(s)'
<1>1. /\ n \in Nat /\ Len(db) = n /\ Len(db') = n + 1 /\ db'[n + 1] = o.pend
      /\ \A q \in 1 .. n : db'[q] = db[q]
      /\ o.iter \in Int /\ o.k \in Int /\ o.calls \in Int
  BY DEF Grows, Thread
<1>2. Active(o) /\ ~AsksFirst(o) /\ InBatch(o)
  BY DEF Active, AsksFirst, InBatch, Appends
<1>3. OthersAnswered(o) /\ Collected(o)
  BY <1>2 DEF Held
<1>4. PICK a \in 1 .. n :
        /\ db[a].run = o.run /\ db[a].iter = o.iter + 1 /\ db[a].k = 0
        /\ db[a].calls = o.calls
        /\ \A j \in 1 .. o.k - 1 :
             \E q \in a + 1 .. n :
               db[q].run = o.run /\ db[q].iter = o.iter + 1 /\ db[q].k = j
  BY <1>1, <1>3 DEF Collected
<1>5. /\ db'[a] = db[a] /\ a \in 1 .. n + 1
  BY <1>1
\* The results so far, with the new one.
<1>6. ASSUME NEW j \in 1 .. o.k
      PROVE  \E q \in a + 1 .. n + 1 :
               db'[q].run = o.run /\ db'[q].iter = o.iter + 1 /\ db'[q].k = j
  <2>1. CASE j = o.k
    <3>1. n + 1 \in a + 1 .. n + 1
      BY <1>1
    <3> QED
      BY <1>1, <2>1, <3>1
  <2>2. CASE j # o.k
    <3>1. j \in 1 .. o.k - 1
      BY <1>1, <2>2
    <3>2. PICK q \in a + 1 .. n :
            db[q].run = o.run /\ db[q].iter = o.iter + 1 /\ db[q].k = j
      BY <1>4, <3>1
    <3>3. q \in 1 .. n /\ q \in a + 1 .. n + 1
      BY <1>1
    <3> QED
      BY <1>1, <3>2, <3>3
  <2> QED
    BY <2>1, <2>2
<1>7. NoGapAt(n + 1)'
  <2> SUFFICES \E q \in 1 .. n : /\ db'[q].run = o.run
                                 /\ db'[q].iter = o.iter + 1
                                 /\ db'[q].k = o.k - 1
                                 /\ db'[q].k = 0 => db'[q].calls >= 1
    BY <1>1 DEF NoGapAt
  <2>1. CASE o.k = 1
    BY <1>1, <1>4, <1>5, <2>1
  <2>2. CASE o.k # 1
    <3>1. o.k - 1 \in 1 .. o.k - 1
      BY <1>1, <2>2
    <3>2. PICK q \in a + 1 .. n :
            db[q].run = o.run /\ db[q].iter = o.iter + 1 /\ db[q].k = o.k - 1
      BY <1>4, <3>1
    <3>3. q \in 1 .. n /\ db'[q] = db[q] /\ o.k - 1 # 0
      BY <1>1, <3>1
    <3> QED
      BY <3>2, <3>3
  <2> QED
    BY <2>1, <2>2
<1>8. \A p \in 1 .. n : db'[p].run = o.run =>
        RowAnswered(p)' \/ db'[p].iter = o.iter + 1
  BY <1>3, OthersKept
<1>9. RowAnswered(n + 1)'
  <2>1. \A j : j \notin 1 .. db'[n + 1].calls
    BY <1>1
  <2> QED
    BY <2>1 DEF RowAnswered
<1>10. CASE /\ o.k < o.calls /\ s.pc = "tool" /\ s.iter = o.iter
            /\ s.k = o.k + 1 /\ s.calls = o.calls
  <2>1. InBatch(s) /\ s.k - 1 = o.k
    BY <1>1, <1>10 DEF InBatch
  <2>2. Collected(s)'
    <3>1. /\ db'[a].run = s.run /\ db'[a].iter = s.iter + 1 /\ db'[a].k = 0
          /\ db'[a].calls = s.calls
      BY <1>4, <1>5, <1>10
    <3>2. \A j \in 1 .. s.k - 1 :
            \E q \in a + 1 .. Len(db') :
              db'[q].run = s.run /\ db'[q].iter = s.iter + 1 /\ db'[q].k = j
      BY <1>1, <1>6, <1>10, <2>1
    <3>3. a \in 1 .. Len(db')
      BY <1>1, <1>5
    <3> QED
      BY <3>1, <3>2, <3>3 DEF Collected
  <2>3. OthersAnswered(s)'
    <3> SUFFICES ASSUME NEW p \in 1 .. n + 1, db'[p].run = s.run
                 PROVE  RowAnswered(p)' \/ db'[p].iter = s.iter + 1
      BY <1>1, <2>1 DEF OthersAnswered, InBatch
    <3>1. p \in 1 .. n \/ p = n + 1
      BY <1>1
    <3> QED
      BY <1>8, <1>9, <1>10, <3>1
  <2> QED
    BY <1>7, <2>1, <2>2, <2>3 DEF Held, InBatch
<1>11. CASE o.k = o.calls /\ s.pc = "loop" /\ s.iter = o.iter + 1
  <2>1. BatchAnswered(n + 2, s.run, s.iter)'
    <3>1. PICK p, r, i : p = n + 2 /\ r = s.run /\ i = s.iter
      OBVIOUS
    <3>2. p - 1 = n + 1 /\ a \in 1 .. p - 1
      BY <1>1, <1>5, <3>1
    <3>3. db'[a].run = r /\ db'[a].iter = i /\ db'[a].k = 0 /\ db'[a].calls = o.k
      BY <1>4, <1>5, <1>11, <3>1
    <3>4. \A j \in 1 .. db'[a].calls :
            \E q \in a + 1 .. p - 1 :
              db'[q].run = r /\ db'[q].iter = i /\ db'[q].k = j
      BY <1>6, <1>11, <3>1, <3>2, <3>3
    <3>5. BatchAnswered(p, r, i)'
      BY <3>2, <3>3, <3>4, BatchIn
    <3> QED
      BY <3>1, <3>5
  <2>2. Complete(s)'
    <3>1. Len(db') + 1 = n + 2
      BY <1>1
    <3> QED
      BY <2>1, <3>1, SMTT(30) DEF Complete, BatchAnswered
  <2>3. OthersAnswered(s)'
    <3> SUFFICES ASSUME NEW p \in 1 .. n + 1, db'[p].run = o.run PROVE RowAnswered(p)'
      BY <1>1 DEF OthersAnswered
    <3>1. p \in 1 .. n \/ p = n + 1
      BY <1>1
    <3>2. CASE p \in 1 .. n /\ db'[p].iter = o.iter + 1
      <4>1. db'[p] = db[p] /\ p \in 1 .. Len(db) /\ a \in 1 .. Len(db) /\ db[p] \in Message
        BY <1>1, <3>2 DEF TInv, TypeOK
      <4>2. CASE db[p].calls = 0
        <5>1. \A j : j \notin 1 .. db'[p].calls
          BY <4>1, <4>2
        <5> QED
          BY <5>1 DEF RowAnswered
      <4>3. CASE db[p].calls # 0
        <5>1. db[p].k = 0
          BY <4>1, <4>3 DEF CallsInAnswers, Message
        <5>2. p = a
          BY <1>4, <3>2, <4>1, <5>1, OneRow, SMTT(30)
        <5> QED
          BY <1>1, <1>4, <1>5, <1>6, <1>11, <5>2 DEF RowAnswered
      <4> QED
        BY <4>2, <4>3
    <3> QED
      BY <1>8, <1>9, <3>1, <3>2
  <2> QED
    BY <1>7, <1>11, <2>2, <2>3 DEF Held, InBatch, Appends
<1> QED
  BY <1>10, <1>11

\* What Persist adds leads on from what was there.
LEMMA PersistHeld ==
  ASSUME TInv, ProgramOrder, CallsInAnswers,
         NEW n, NEW o \in Thread, NEW s, s = Continue(o), o.pc = "persist",
         PendOK(o), PlaceOK(o), Grows(n, o.pend), Held(o)
  PROVE  /\ NoGapAt(n + 1)' /\ CallsInAnswers' /\ Held(s)'
         /\ s.pc = "idle" => \A p \in 1 .. n + 1 : db'[p].run = o.run => RowAnswered(p)'
<1>1. /\ n \in Nat /\ Len(db) = n /\ Len(db') = n + 1 /\ db'[n + 1] = o.pend
      /\ \A q \in 1 .. n : db'[q] = db[q]
      /\ o.pend \in Message /\ o.pend.calls \in Nat
      /\ o.iter \in Int /\ o.k \in Int /\ o.calls \in Int
      /\ o.pend.run = o.run
  BY SMTT(30) DEF Grows, Thread, Message, PendOK
<1>2. CallsInAnswers'
  <2> SUFFICES ASSUME NEW p \in 1 .. n + 1, db'[p].calls > 0 PROVE db'[p].k = 0
    BY <1>1 DEF CallsInAnswers
  <2>1. CASE p \in 1 .. n
    BY <1>1, <2>1 DEF CallsInAnswers
  <2>2. CASE p = n + 1
    <3>1. o.pend.role = "assistant"
      BY <1>1, <2>2 DEF PlaceOK, Appends
    <3> QED
      BY <1>1, <2>2, <3>1 DEF PendOK
  <2> QED
    BY <1>1, <2>1, <2>2
<1>3. CASE o.pend.role = "user"
  <2>1. s = [o EXCEPT !.pc = "loop"]
    BY <1>3 DEF Continue
  <2>2. s.pc = "loop" /\ s.run = o.run /\ s.iter = o.iter
    BY <2>1 DEF Thread
  <2>3. o.pend.iter = 0 /\ o.pend.k = 0 /\ o.iter = 0 /\ o.pend.calls = 0
    BY <1>3 DEF PendOK, PlaceOK, Appends
  <2> QED
    BY <1>1, <1>2, <1>3, <2>2, <2>3, QuestionHeld
<1>4. CASE o.pend.role = "tool"
  <2>1. o.k \in 1 .. o.calls /\ o.pend.k = o.k /\ o.pend.iter = o.iter + 1
    BY <1>4 DEF PendOK
  <2>2. o.pend.calls = 0
    BY <1>4 DEF PlaceOK, Appends
  <2>3. CASE o.k < o.calls
    <3>0. ~(o.k >= o.calls)
      BY <1>1, <2>3
    <3>1. s = [o EXCEPT !.pc = "tool", !.k = @ + 1]
      BY <1>4, <2>3, <3>0 DEF Continue
    <3>2. /\ s.pc = "tool" /\ s.run = o.run /\ s.iter = o.iter /\ s.k = o.k + 1
          /\ s.calls = o.calls
      BY <3>1 DEF Thread
    <3> QED
      BY <1>1, <1>2, <1>4, <2>1, <2>2, <2>3, <3>2, ResultHeld
  <2>4. CASE o.k >= o.calls
    <3>0. ~(o.k < o.calls) /\ o.k = o.calls
      BY <1>1, <2>1, <2>4
    <3>1. s = [o EXCEPT !.pc = "loop", !.iter = @ + 1, !.calls = 0, !.k = 0]
      BY <1>4, <2>4, <3>0 DEF Continue
    <3>2. s.pc = "loop" /\ s.run = o.run /\ s.iter = o.iter + 1
      BY <3>1 DEF Thread
    <3> QED
      BY <1>1, <1>2, <1>4, <2>1, <2>2, <3>0, <3>2, ResultHeld
  <2> QED
    BY <1>1, <2>3, <2>4
<1>5. CASE o.pend.role = "assistant"
  <2>1. o.pend.iter = o.iter + 1 /\ o.pend.k = 0
    BY <1>5 DEF PendOK
  <2>2. /\ NoGapAt(n + 1)'
        /\ \A p \in 1 .. n : db'[p].run = o.run => RowAnswered(p)'
    BY <1>1, <1>5, <2>1, AnswerHeld
  <2>3. CASE o.pend.calls > 0
    <3>1. s = [o EXCEPT !.pc = "tool", !.k = 1]
      BY <1>5, <2>3 DEF Continue
    <3>2. /\ s.pc = "tool" /\ s.run = o.run /\ s.iter = o.iter /\ s.k = 1
          /\ s.calls = o.calls
      BY <3>1 DEF Thread
    <3>3. o.calls = o.pend.calls
      BY <1>1, <1>5, <2>3 DEF PendOK
    <3> QED
      BY <1>1, <1>2, <1>5, <2>1, <2>2, <3>2, <3>3, CallHeld
  <2>4. CASE o.pend.calls = 0
    <3>1. s = Idle
      BY <1>5, <2>4 DEF Continue
    <3>2. Held(s)'
      BY <3>1 DEF Held, Active, Idle
    <3>3. RowAnswered(n + 1)'
      <4>1. \A j : j \notin 1 .. db'[n + 1].calls
        BY <1>1, <2>4
      <4> QED
        BY <4>1 DEF RowAnswered
    <3>4. \A p \in 1 .. n + 1 : p \in 1 .. n \/ p = n + 1
      BY <1>1
    <3> QED
      BY <1>2, <2>2, <3>2, <3>3, <3>4
  <2> QED
    BY <1>1, <2>3, <2>4
<1> QED
  BY <1>3, <1>4, <1>5 DEF PendOK

-----------------------------------------------------------------------------
(* The other steps *)

\* Where the table does not change, what it holds does not.
LEMMA SameTable ==
  ASSUME db' = db
  PROVE  /\ \A s : Held(s) => Held(s)'
         /\ \A p : (NoGapAt(p) => NoGapAt(p)') /\ (RowAnswered(p) => RowAnswered(p)')
         /\ CallsInAnswers => CallsInAnswers'
BY DEF Held, Complete, Collected, OthersAnswered, RowAnswered, NoGapAt, BatchAnswered,
       CallsInAnswers, Active, AsksFirst, InBatch

\* ReturnedRunsAnswered by rows.
LEMMA ReturnedRows ==
  /\ ReturnedRunsAnswered <=>
       (~LossyStore => \A p \in 1 .. Len(db) :
          db[p].run \in Runs /\ outcome[db[p].run] \in Returns => RowAnswered(p))
  /\ ReturnedRunsAnswered' <=>
       (~LossyStore => \A p \in 1 .. Len(db') :
          db'[p].run \in Runs /\ outcome'[db'[p].run] \in Returns => RowAnswered(p)')
<1>1. Returns = {"text", "failed", "exhausted", "cancelled"}
  BY DEF Returns, Finals
<1> QED
  BY <1>1 DEF ReturnedRunsAnswered, Answered, RowAnswered

\* A run that returns a text, or any other run, with the table as it was.
LEMMA SameTableTold ==
  ASSUME HInv, db' = db, NEW x, x \notin Finals, NEW r,
         x = "cancelled" => Active(r) /\ ~InBatch(r) /\ Held(r),
         \A q \in Runs : outcome'[q] = outcome[q] \/ (q = r.run /\ outcome'[q] = x)
  PROVE  AnswerIsPersisted' /\ ReturnedRunsAnswered' /\ CallsInAnswers'
<1>0. Runs' = Runs
  BY DEF Runs
<1>1. CallsInAnswers'
  BY SameTable DEF HInv
<1>2. AnswerIsPersisted'
  <2>1. \A q \in Runs : outcome'[q] \in Finals => outcome[q] \in Finals
    OBVIOUS
  <2> QED
    BY <2>1 DEF HInv, AnswerIsPersisted, Finals
<1>3. ReturnedRunsAnswered'
  <2> SUFFICES ASSUME ~LossyStore, NEW p \in 1 .. Len(db), db[p].run \in Runs,
                      outcome'[db[p].run] \in Returns
               PROVE  RowAnswered(p)'
    BY ReturnedRows DEF Returns
  <2>1. RowAnswered(p)
    <3>1. CASE outcome'[db[p].run] = outcome[db[p].run]
      BY <3>1, ReturnedRows DEF HInv
    <3>2. CASE db[p].run = r.run /\ x = "cancelled"
      BY <3>2 DEF Held, OthersAnswered
    <3> QED
      BY <3>1, <3>2 DEF Returns
  <2> QED
    BY <2>1, SameTable
<1> QED
  BY <1>1, <1>2, <1>3

\* The steps that neither write nor return.
LEMMA QuietHistory ==
  ASSUME HInv, NEW t \in Threads, QuietStep(t)
  PROVE  Unreturned' /\ HeldByAll' /\ AnswerIsPersisted' /\ ReturnedRunsAnswered'
         /\ CallsInAnswers'
<1>1. QuietMove(t) /\ UNCHANGED <<db, nextRun, outcome>>
  BY QuietMoves, RFacts DEF HInv, PlacesOK
<1>2. /\ \A u \in Threads \ {t} : th'[u] = th[u]
      /\ th[t].pc # "idle" /\ th'[t].pc # "idle" /\ SamePhase(th[t], th'[t])
  BY <1>1 DEF QuietMove
<1>3. Unreturned'
  <2>1. \A u \in Threads : th'[u].run = th[u].run
    BY <1>2 DEF SamePhase
  <2> QED
    BY <1>1, <2>1 DEF HInv, Unreturned
<1>4. HeldByAll'
  <2> SUFFICES ASSUME ~LossyStore
               PROVE  /\ \A u \in Threads : Held(th[u])'
                      /\ \A p \in 1 .. Len(db) : NoGapAt(p)'
    BY <1>1 DEF HeldByAll
  <2>1. \A p \in 1 .. Len(db) : NoGapAt(p)'
    BY <1>1, SameTable DEF HInv, HeldByAll
  <2>2. ASSUME NEW u \in Threads, NEW s, s = th'[u] PROVE Held(s)'
    <3>1. Held(th[u])
      BY DEF HInv, HeldByAll
    <3>2. Held(s)
      <4>1. CASE u # t
        BY <1>2, <2>2, <3>1, <4>1
      <4>2. CASE u = t
        BY <1>2, <2>2, <3>1, <4>2
           DEF Held, Active, SamePhase, Complete, Collected, OthersAnswered
      <4> QED
        BY <4>1, <4>2
    <3> QED
      BY <1>1, <3>2, SameTable
  <2> QED
    BY <2>1, <2>2
<1>5. AnswerIsPersisted' /\ ReturnedRunsAnswered' /\ CallsInAnswers'
  BY <1>1, SameTableTold DEF Finals
<1> QED
  BY <1>3, <1>4, <1>5

\* A table that is the same for threads that are the same, or outside run().
LEMMA SameHeld ==
  ASSUME HInv, db' = db,
         \A u \in Threads : th'[u] = th[u] \/ ~Active(th'[u])
                            \/ (Held(th'[u]) /\ ~LossyStore)
  PROVE  HeldByAll'
<1> SUFFICES ASSUME ~LossyStore
             PROVE  /\ \A u \in Threads : Held(th[u])'
                    /\ \A p \in 1 .. Len(db) : NoGapAt(p)'
  BY DEF HeldByAll
<1>1. \A p \in 1 .. Len(db) : NoGapAt(p)'
  BY SameTable DEF HInv, HeldByAll
<1>2. ASSUME NEW u \in Threads, NEW s, s = th'[u] PROVE Held(s)'
  <2>1. Held(s)
    BY <1>2 DEF HInv, HeldByAll, Held
  <2> QED
    BY <2>1, SameTable
<1> QED
  BY <1>1, <1>2

\* A new run has no rows.
LEMMA RunHistory ==
  ASSUME HInv, NEW t \in Threads, Run(t)
  PROVE  Unreturned' /\ HeldByAll' /\ AnswerIsPersisted' /\ ReturnedRunsAnswered'
         /\ CallsInAnswers'
<1>0. PICK r : r = nextRun
  OBVIOUS
<1>1. /\ r \in Runs /\ r \in Int /\ nextRun' = r + 1 /\ outcome' = outcome /\ db' = db
      /\ \A u \in Threads : th[u].run \in 0 .. r - 1
  BY <1>0, RFacts DEF HInv, Run, Runs
<1>2. /\ th'[t].pc = "push" /\ th'[t].run = r /\ th'[t].pend.role = "user"
      /\ \A u \in Threads \ {t} : th'[u] = th[u]
  BY <1>0, RFacts DEF HInv, Run, TInv, TypeOK, Idle, Msg
<1>3. Unreturned'
  <2> SUFFICES ASSUME NEW q \in Runs,
                      q >= nextRun' \/ \E u \in Threads : th'[u].run = q
               PROVE  outcome'[q] \notin Returns
    BY DEF Unreturned
  <2>1. q >= r \/ \E u \in Threads : th[u].run = q
    BY <1>1, <1>2 DEF Runs
  <2> QED
    BY <1>0, <1>1, <2>1 DEF HInv, Unreturned
<1>4. Held(th'[t])
  <2>1. AsksFirst(th'[t]) /\ ~InBatch(th'[t])
    BY <1>2 DEF AsksFirst, InBatch, Appends
  <2>2. \A p \in 1 .. Len(db) : db[p].run # r
    <3> SUFFICES ASSUME NEW p \in 1 .. Len(db) PROVE db[p].run # r
      OBVIOUS
    <3>1. db[p].run < nextRun
      BY DEF HInv, RInv, IInv, RowsStarted
    <3> QED
      BY <1>0, <1>1, <3>1
  <2> QED
    BY <1>2, <2>1, <2>2 DEF Held, OthersAnswered
<1>5. HeldByAll'
  <2>1. \A u \in Threads : th'[u] = th[u] \/ Held(th'[u])
    BY <1>2, <1>4
  <2> QED
    BY <1>1, <2>1, SameHeld DEF HeldByAll
<1>6. AnswerIsPersisted' /\ ReturnedRunsAnswered' /\ CallsInAnswers'
  <2>1. "none" \notin Finals /\ db' = db /\ \A q \in Runs : outcome'[q] = outcome[q]
    BY <1>1 DEF Finals
  <2> QED
    BY <2>1, SameTableTold
<1> QED
  BY <1>3, <1>5, <1>6

\* A run that ends without an answer.
LEMMA LeaveHistory ==
  ASSUME HInv, NEW t \in Threads, Cancelled(t) \/ Unwind(t)
  PROVE  Unreturned' /\ HeldByAll' /\ AnswerIsPersisted' /\ ReturnedRunsAnswered'
         /\ CallsInAnswers'
<1>1. PICK o : o = th[t]
  OBVIOUS
<1>2. PICK x : /\ x \notin Finals
               /\ x = "cancelled" => o.pc = "loop"
               /\ outcome' = [outcome EXCEPT ![o.run] = x]
               /\ th' = [th EXCEPT ![t] = Idle]
  BY <1>1 DEF Cancelled, Unwind, Returning, Finals
<1>3. th[t].pc # "idle" /\ UNCHANGED <<nextRun, db>>
  BY DEF Cancelled, Unwind
<1>4. /\ o.run \in Runs /\ o.run < nextRun
      /\ \A u \in Threads : th[u].run = o.run => u = t
  BY <1>1, <1>3, OneThreadPerRun DEF HInv
<1>5. /\ th'[t] = Idle /\ \A u \in Threads \ {t} : th'[u] = th[u]
      /\ \A q \in Runs : q # o.run => outcome'[q] = outcome[q]
      /\ outcome'[o.run] = x
  BY <1>2, <1>4, RFacts DEF HInv, TInv, TypeOK
<1>6. Idle.run = 0 /\ ~Active(Idle) /\ \A q \in Runs : q # 0 /\ q \in Int
  BY DEF Idle, Runs, Active
<1>7. Unreturned'
  <2> SUFFICES ASSUME NEW q \in Runs,
                      q >= nextRun' \/ \E u \in Threads : th'[u].run = q
               PROVE  outcome'[q] \notin Returns
    BY DEF Unreturned
  <2>1. \A u \in Threads : th'[u].run = q => th[u].run = q /\ u # t
    BY <1>5, <1>6
  <2>2. q # o.run
    <3>1. CASE q >= nextRun'
      BY <1>3, <1>4, <1>6, <3>1, RFacts DEF HInv
    <3>2. CASE \E u \in Threads : th'[u].run = q
      BY <1>4, <2>1, <3>2
    <3> QED
      BY <3>1, <3>2
  <2>3. q >= nextRun \/ \E u \in Threads : th[u].run = q
    BY <1>3, <2>1
  <2> QED
    BY <1>5, <2>2, <2>3 DEF HInv, Unreturned
<1>8. HeldByAll'
  <2>1. \A u \in Threads : th'[u] = th[u] \/ ~Active(th'[u])
    BY <1>5, <1>6
  <2>2. db' = db
    BY <1>3
  <2> QED
    BY <2>1, <2>2, SameHeld
<1>9. AnswerIsPersisted' /\ ReturnedRunsAnswered' /\ CallsInAnswers'
  <2>1. CASE LossyStore
    BY <1>3, <2>1, SameTable, ReturnedRows DEF HInv, AnswerIsPersisted
  <2>2. CASE ~LossyStore
    <3>1. Held(o)
      BY <1>1, <2>2 DEF HInv, HeldByAll
    <3>2. x = "cancelled" => Active(o) /\ ~InBatch(o)
      BY <1>2 DEF Active, InBatch, Appends
    <3>3. \A q \in Runs : outcome'[q] = outcome[q] \/ (q = o.run /\ outcome'[q] = x)
      BY <1>5
    <3>4. db' = db
      BY <1>3
    <3>5. PICK y : y = x
      OBVIOUS
    <3> QED
      BY <1>2, <3>1, <3>2, <3>3, <3>4, SameTableTold
  <2> QED
    BY <2>1, <2>2
<1> QED
  BY <1>7, <1>8, <1>9

\* A crash, and the steps that change no run.
LEMMA CrashHistory ==
  ASSUME HInv, Crash \/ UNCHANGED <<th, db, nextRun, outcome>>
  PROVE  Unreturned' /\ HeldByAll' /\ AnswerIsPersisted' /\ ReturnedRunsAnswered'
         /\ CallsInAnswers'
<1>1. UNCHANGED <<db, nextRun, outcome>>
  BY DEF Crash
<1>2. \A u \in Threads : th'[u] = th[u] \/ th'[u] = Idle
  BY DEF Crash
<1>3. Idle.run = 0 /\ ~Active(Idle) /\ \A q \in Runs : q # 0
  BY DEF Idle, Runs, Active
<1>4. Unreturned'
  BY <1>1, <1>2, <1>3 DEF HInv, Unreturned
<1>5. HeldByAll'
  BY <1>1, <1>2, <1>3, SameHeld
<1>6. AnswerIsPersisted' /\ ReturnedRunsAnswered' /\ CallsInAnswers'
  BY <1>1, SameTableTold DEF Finals
<1> QED
  BY <1>4, <1>5, <1>6

\* The table with the new row, and what its run has returned.
LEMMA PersistHistory ==
  ASSUME HInv, NEW t \in Threads, Persist(t)
  PROVE  Unreturned' /\ HeldByAll' /\ AnswerIsPersisted' /\ ReturnedRunsAnswered'
         /\ CallsInAnswers'
<1>0. TInv /\ PlaceOK(th[t]) /\ ProgramOrder
  BY RFacts DEF HInv, RInv, IInv, PlacesOK
<1>1. PICK o \in Thread : o = th[t]
  BY <1>0, ThreadFacts
<1>2. PICK s \in Thread : s = Continue(o)
  BY <1>0, <1>1, PersistMoves
<1>3. /\ o.pc = "persist" /\ o.pend \in Message /\ PendOK(o) /\ PlaceOK(o)
      /\ th' = [th EXCEPT ![t] = s]
      /\ s.pc # "idle" => s.run = o.run
  BY <1>0, <1>1, <1>2, PersistMoves, ThreadFacts DEF Persist, LocalOK, Appends, Thread
<1>4. /\ th'[t] = s /\ \A u \in Threads \ {t} : th'[u] = th[u]
      /\ nextRun' = nextRun /\ o.pend.run = o.run
      /\ AddMessage(o.pend)
      /\ outcome' = IF s.pc = "idle" THEN [outcome EXCEPT ![o.run] = o.result]
                    ELSE outcome
  BY <1>0, <1>1, <1>2, <1>3 DEF Persist, PendOK, TInv, TypeOK
<1>5. /\ o.run \in Runs /\ o.run < nextRun /\ o.run \in Int
      /\ \A u \in Threads : th[u].run = o.run => u = t
  BY <1>1, <1>3, OneThreadPerRun DEF HInv, Runs
<1>6. /\ \A q \in Runs : q # o.run => outcome'[q] = outcome[q]
      /\ s.pc # "idle" => outcome' = outcome
      /\ outcome[o.run] \notin Returns
  BY <1>1, <1>4, <1>5 DEF HInv, Unreturned
<1>7. s.pc = "idle" => s = Idle /\ o.pend.role = "assistant" /\ o.pend.calls = 0
  BY <1>2, <1>3, ContinuesAs
<1>8. Unreturned'
  <2> SUFFICES ASSUME NEW q \in Runs,
                      q >= nextRun' \/ \E u \in Threads : th'[u].run = q
               PROVE  outcome'[q] \notin Returns
    BY DEF Unreturned
  <2>1. CASE s.pc # "idle"
    <3>1. \A u \in Threads : th'[u].run = th[u].run
      BY <1>1, <1>3, <1>4, <2>1
    <3> QED
      BY <1>4, <1>6, <2>1, <3>1 DEF HInv, Unreturned
  <2>2. CASE s.pc = "idle"
    <3>1. Idle.run = 0 /\ q # 0 /\ q \in Int /\ nextRun \in Int
      BY RFacts DEF HInv, Idle, Runs
    <3>2. \A u \in Threads : th'[u].run = q => th[u].run = q /\ u # t
      BY <1>4, <1>7, <2>2, <3>1
    <3>3. q # o.run
      BY <1>4, <1>5, <3>1, <3>2
    <3> QED
      BY <1>4, <1>6, <3>2, <3>3 DEF HInv, Unreturned
  <2> QED
    BY <2>1, <2>2
<1>9. CASE LossyStore
  <2>1. HeldByAll' /\ AnswerIsPersisted' /\ ReturnedRunsAnswered'
    BY <1>9, ReturnedRows DEF HeldByAll, AnswerIsPersisted
  <2>2. CallsInAnswers'
    <3>1. CASE db' = db
      BY <3>1, SameTable DEF HInv
    <3>2. CASE db' = Append(db, o.pend)
      <4>1. /\ Len(db') = Len(db) + 1 /\ Len(db) \in Nat
            /\ \A p \in 1 .. Len(db) : db'[p] = db[p]
            /\ db'[Len(db) + 1] = o.pend
        BY <1>0, <1>3, <3>2, AppendProperties DEF TInv, TypeOK
      <4>2. o.pend.calls > 0 => o.pend.k = 0
        BY <1>3 DEF PlaceOK, PendOK, Appends
      <4> QED
        BY <4>1, <4>2 DEF HInv, CallsInAnswers
    <3> QED
      BY <1>4, <3>1, <3>2 DEF AddMessage
  <2> QED
    BY <1>8, <2>1, <2>2
<1>10. CASE ~LossyStore
  <2>0. PICK n : n = Len(db)
    OBVIOUS
  <2>1. Grows(n, o.pend)
    BY <1>0, <1>3, <1>4, <1>10, <2>0, AddGrows
  <2>2. /\ n \in Nat /\ Len(db) = n /\ Len(db') = n + 1
        /\ \A p \in 1 .. n : db'[p] = db[p]
        /\ db'[n + 1] = o.pend
        /\ \A p \in 1 .. n + 1 : p \in 1 .. n \/ p = n + 1
    BY <2>1 DEF Grows
  <2>3. Held(o)
    BY <1>1, <1>10 DEF HInv, HeldByAll
  <2>4. /\ NoGapAt(n + 1)' /\ CallsInAnswers' /\ Held(s)'
        /\ s.pc = "idle" => \A p \in 1 .. n + 1 : db'[p].run = o.run => RowAnswered(p)'
    BY <1>0, <1>2, <1>3, <2>1, <2>3, PersistHeld DEF HInv
  <2>5. HeldByAll'
    <3>1. ASSUME NEW p \in 1 .. Len(db') PROVE NoGapAt(p)'
      <4>1. CASE p = n + 1
        BY <2>4, <4>1
      <4>2. CASE p \in 1 .. n
        <5>1. NoGapAt(p)
          BY <1>10, <2>2, <4>2 DEF HInv, HeldByAll
        <5> QED
          BY <2>1, <4>2, <5>1, NoGapKept
      <4> QED
        BY <2>2, <4>1, <4>2
    <3>2. ASSUME NEW u \in Threads, NEW v, v = th'[u] PROVE Held(v)'
      <4>1. CASE u = t
        BY <1>4, <2>4, <3>2, <4>1
      <4>2. CASE u # t
        <5>1. Held(v) /\ v.run # o.run
          BY <1>4, <1>5, <1>10, <3>2, <4>2 DEF HInv, HeldByAll
        <5> QED
          BY <1>4, <2>1, <5>1, HeldKept
      <4> QED
        BY <4>1, <4>2
    <3> QED
      BY <3>1, <3>2 DEF HeldByAll
  <2>6. AnswerIsPersisted'
    <3> SUFFICES ASSUME NEW r \in Runs, outcome'[r] \in Finals
                 PROVE  \E p \in 1 .. n + 1 :
                          /\ db'[p].run = r /\ db'[p].role = "assistant" /\ db'[p].calls = 0
                          /\ \A q \in p + 1 .. n + 1 : db'[q].run # r
      BY <2>2 DEF AnswerIsPersisted, Finals, Runs
    <3>1. CASE r = o.run
      <4>1. s.pc = "idle"
        BY <1>6, <3>1 DEF Returns
      <4>2. n + 1 \in 1 .. n + 1 /\ \A q : q \notin n + 1 + 1 .. n + 1
        BY <2>2
      <4> QED
        BY <1>4, <1>7, <2>2, <3>1, <4>1, <4>2
    <3>2. CASE r # o.run
      <4>1. outcome[r] \in Finals
        BY <1>6, <3>2
      <4>2. PICK p \in 1 .. n :
              /\ db[p].run = r /\ db[p].role = "assistant" /\ db[p].calls = 0
              /\ \A q \in p + 1 .. n : db[q].run # r
        BY <1>10, <2>2, <4>1 DEF HInv, AnswerIsPersisted, Finals
      <4>3. p \in 1 .. n + 1 /\ db'[p] = db[p]
        BY <2>2
      <4>4. ASSUME NEW q \in p + 1 .. n + 1 PROVE db'[q].run # r
        <5>1. (q \in p + 1 .. n /\ q \in 1 .. n) \/ q = n + 1
          BY <2>2
        <5> QED
          BY <1>4, <2>2, <3>2, <4>2, <5>1
      <4> QED
        BY <4>2, <4>3, <4>4
    <3> QED
      BY <3>1, <3>2
  <2>7. ReturnedRunsAnswered'
    <3> SUFFICES ASSUME NEW p \in 1 .. n + 1, db'[p].run \in Runs,
                        outcome'[db'[p].run] \in Returns
                 PROVE  RowAnswered(p)'
      BY <2>2, ReturnedRows
    <3>1. CASE db'[p].run = o.run
      <4>1. s.pc = "idle"
        BY <1>6, <3>1
      <4> QED
        BY <2>4, <3>1, <4>1
    <3>2. CASE db'[p].run # o.run
      <4>1. p \in 1 .. n /\ outcome[db[p].run] \in Returns /\ db[p].run \in Runs
        BY <1>4, <1>6, <2>2, <3>2
      <4>2. RowAnswered(p)
        BY <1>10, <2>2, <4>1, ReturnedRows DEF HInv
      <4> QED
        BY <2>1, <4>1, <4>2, RowKept
    <3> QED
      BY <3>1, <3>2
  <2> QED
    BY <1>8, <2>4, <2>5, <2>6, <2>7
<1> QED
  BY <1>9, <1>10

-----------------------------------------------------------------------------
(* The theorems *)

\* HInv holds in the initial states.
LEMMA InitHInv == Init => HInv
<1> SUFFICES ASSUME Init PROVE HInv
  OBVIOUS
<1>1. /\ \A t \in Threads : th[t] = Idle
      /\ Len(db) = 0 /\ outcome = [r \in Runs |-> "none"]
  BY DEF Init
<1>2. ~Active(Idle) /\ "none" \notin Returns /\ "none" \notin Finals
  BY DEF Active, Idle, Returns, Finals
<1>3. HeldByAll
  BY <1>1, <1>2 DEF HeldByAll, Held
<1>4. Unreturned /\ CallsInAnswers
  BY <1>1, <1>2 DEF Unreturned, CallsInAnswers
<1>5. AnswerIsPersisted /\ ReturnedRunsAnswered
  BY <1>1, <1>2, ReturnedRows DEF AnswerIsPersisted, Finals
<1> QED
  BY <1>3, <1>4, <1>5, InitRefines DEF HInv

\* HInv is inductive.
LEMMA NextHInv == HInv /\ [Next]_vars => HInv'
<1> SUFFICES ASSUME HInv, [Next]_vars PROVE HInv'
  OBVIOUS
<1> DEFINE Goal == /\ Unreturned' /\ HeldByAll' /\ AnswerIsPersisted'
                   /\ ReturnedRunsAnswered' /\ CallsInAnswers'
<1>0. RInv'
  BY StepRefines DEF HInv
<1>1. CASE Crash \/ Boot \/ Waiting \/ UNCHANGED vars
  <2>1. Crash \/ UNCHANGED <<th, db, nextRun, outcome>>
    BY <1>1 DEF Boot, Waiting, vars
  <2>2. Goal
    BY <2>1, CrashHistory
  <2> QED
    BY <1>0, <2>2 DEF HInv
<1>2. ASSUME NEW t \in Threads, Run(t) PROVE Goal
  BY <1>2, RunHistory
<1>3. ASSUME NEW t \in Threads, Persist(t) PROVE Goal
  BY <1>3, PersistHistory
<1>4. ASSUME NEW t \in Threads, Cancelled(t) \/ Unwind(t) PROVE Goal
  BY <1>4, LeaveHistory
<1>5. ASSUME NEW t \in Threads, QuietStep(t) PROVE Goal
  BY <1>5, QuietHistory
<1> HIDE DEF Goal
<1>6. Crash \/ Boot \/ Waiting \/ UNCHANGED vars \/ Goal
  BY <1>2, <1>3, <1>4, <1>5 DEF Next, ThreadStep, QuietStep
<1> QED
  BY <1>0, <1>1, <1>6 DEF HInv, Goal

\* HInv holds always.
LEMMA AlwaysHInv == Spec => []HInv
BY InitHInv, NextHInv, PTL DEF Spec

\* NoGaps by rows.
LEMMA HeldNoGaps == HInv => NoGaps
BY DEF HInv, HeldByAll, NoGapAt, NoGaps

\* Where no INSERT fails, a tool result is in the table only below the answer
\* that asked for it and the results of the earlier calls, and an answer of
\* the LLM only below the whole batch before it, whatever the other threads
\* write in between and wherever the process was killed.
THEOREM HistoryHasNoGaps == Spec => []NoGaps
BY AlwaysHInv, HeldNoGaps, PTL

\* Where no INSERT fails, the text a run returned is its last row, so that the
\* next start continues from what the client saw.
THEOREM AnswersArePersisted == Spec => []AnswerIsPersisted
<1>1. HInv => AnswerIsPersisted
  BY DEF HInv
<1> QED
  BY <1>1, AlwaysHInv, PTL

\* Where no INSERT fails, a run that returned, even cancelled, has left no
\* tool call of the LLM without a result in the table.
THEOREM ReturnedRunsLeaveNoCall == Spec => []ReturnedRunsAnswered
<1>1. HInv => ReturnedRunsAnswered
  BY DEF HInv
<1> QED
  BY <1>1, AlwaysHInv, PTL

-----------------------------------------------------------------------------
(* The context of one thread *)

\* The row p of rows that is a tool result stands k places behind the answer
\* that asked for it, with the results of the earlier calls in between.
FollowsIn(rows, p) ==
  LET q == p - rows[p].k IN
  /\ q >= 1
  /\ rows[q].role = "assistant"
  /\ rows[q].calls >= rows[p].k
  /\ \A j \in 1 .. rows[p].k : IsResultOf(rows[q + j], rows[q], j)

RowsFollow(rows) == \A p \in 1 .. Len(rows) : rows[p].role = "tool" => FollowsIn(rows, p)

\* The answer whose calls s handles, and the results so far, end the rows.
Gathered(s, rows) ==
  InBatch(s) =>
    LET q == Len(rows) - s.k + 1 IN
    /\ q >= 1
    /\ rows[q].role = "assistant" /\ rows[q].run = s.run
    /\ rows[q].iter = s.iter + 1 /\ rows[q].calls = s.calls
    /\ \A j \in 1 .. s.k - 1 : IsResultOf(rows[q + j], rows[q], j)

\* The rows, with the one that s is about to write.
Written(s, rows) == IF s.pc = "persist" THEN Append(rows, s.pend) ELSE rows

\* Behind the system prompt the context ms is the end of rows, down to the window.
Mirrors(ms, rows) ==
  LET n == Len(ms) - SysLen IN
  /\ 0 <= n /\ n <= Len(rows)
  /\ n >= HistoryLimit \/ n = Len(rows)
  /\ \A i \in 1 .. n : ms[SysLen + i] = rows[Len(rows) - n + i]

\* A process that is down has no thread in run() and no context.
DownIsEmpty == ~up => messages = << >> /\ \A t \in Threads : th[t].pc = "idle"

\* The end that push_back read is the end of the vector.
SlotIsEnd == \A t \in Threads : th[t].pc = "pushing" => th[t].slot = Len(messages)

ContextKept ==
  ~LossyStore =>
    /\ RowsFollow(db)
    /\ \A t \in Threads : Gathered(th[t], db)
    /\ up => \A t \in Threads : Mirrors(messages, Written(th[t], db))

CInv == RInv /\ DownIsEmpty /\ SlotIsEnd /\ ContextKept

-----------------------------------------------------------------------------

\* What Append does, index by index.
LEMMA AppendAt ==
  ASSUME NEW rows \in Seq(Message), NEW m \in Message
  PROVE  /\ Append(rows, m) \in Seq(Message) /\ Len(Append(rows, m)) = Len(rows) + 1
         /\ \A i \in 1 .. Len(rows) : Append(rows, m)[i] = rows[i]
         /\ Append(rows, m)[Len(rows) + 1] = m
         /\ Len(rows) \in Nat
BY AppendProperties

\* A row that follows its answer still does where a row is added.
LEMMA FollowsKept ==
  ASSUME NEW rows \in Seq(Message), NEW m \in Message, NEW p \in 1 .. Len(rows),
         FollowsIn(rows, p)
  PROVE  FollowsIn(Append(rows, m), p)
<1> DEFINE all == Append(rows, m)
           q == p - rows[p].k
<1>1. /\ \A i \in 1 .. Len(rows) : all[i] = rows[i]
      /\ Len(rows) \in Nat
  BY AppendAt
<1>0. rows[p].k \in Nat
  <2>1. rows[p] \in Message
    OBVIOUS
  <2>2. \A x \in Message : x.k \in Nat
    BY DEF Message
  <2> QED
    BY <2>1, <2>2
<1>2. /\ q \in 1 .. Len(rows) /\ rows[q].role = "assistant" /\ rows[q].calls >= rows[p].k
      /\ \A j \in 1 .. rows[p].k : IsResultOf(rows[q + j], rows[q], j)
  BY <1>0, <1>1 DEF FollowsIn
<1>3. all[p] = rows[p] /\ all[q] = rows[q]
  BY <1>1, <1>2
<1>4. \A j \in 1 .. rows[p].k : q + j \in 1 .. Len(rows)
  BY <1>0, <1>1, <1>2
<1>5. \A j \in 1 .. rows[p].k : all[q + j] = rows[q + j]
  BY <1>1, <1>4
<1> HIDE DEF all
<1> QED
  BY <1>2, <1>3, <1>5 DEF FollowsIn, all

\* The row that a thread adds follows its answer, and what the thread has
\* gathered then is what it goes on with.
LEMMA WrittenFollows ==
  ASSUME NEW rows \in Seq(Message), RowsFollow(rows),
         NEW o \in Thread, o.pc = "persist", PendOK(o), Gathered(o, rows)
  PROVE  RowsFollow(Append(rows, o.pend))
<1> DEFINE m == o.pend
           n == Len(rows)
<1>1. m \in Message /\ n \in Nat
  BY DEF Thread
<1> DEFINE all == Append(rows, m)
<1>2. /\ Len(all) = n + 1 /\ all[n + 1] = m
      /\ \A i \in 1 .. n : all[i] = rows[i]
  BY <1>1, AppendAt
<1>3. ASSUME NEW p \in 1 .. n, all[p].role = "tool" PROVE FollowsIn(all, p)
  BY <1>1, <1>2, <1>3, FollowsKept DEF RowsFollow
<1>4. ASSUME m.role = "tool" PROVE FollowsIn(all, n + 1)
  <2>1. /\ m.run = o.run /\ m.iter = o.iter + 1 /\ m.k = o.k /\ o.k \in 1 .. o.calls
        /\ o.calls \in Nat /\ InBatch(o)
    BY <1>4 DEF PendOK, InBatch, Appends, Thread
  <2> DEFINE q == n - o.k + 1
  <2>2. /\ q \in 1 .. n /\ rows[q].role = "assistant" /\ rows[q].run = o.run
        /\ rows[q].iter = o.iter + 1 /\ rows[q].calls = o.calls
        /\ \A j \in 1 .. o.k - 1 : IsResultOf(rows[q + j], rows[q], j)
    BY <1>1, <2>1 DEF Gathered
  <2>3. ASSUME NEW j \in 1 .. o.k PROVE IsResultOf(all[q + j], all[q], j)
    <3>1. CASE j \in 1 .. o.k - 1
      <4>1. q + j \in 1 .. n
        BY <1>1, <2>1, <2>2, <3>1
      <4> QED
        BY <1>2, <2>2, <3>1, <4>1
    <3>2. CASE j = o.k
      <4>1. q + j = n + 1
        BY <1>1, <2>1, <3>2
      <4> QED
        BY <1>2, <1>4, <2>1, <2>2, <3>2, <4>1 DEF IsResultOf
    <3>3. o.k \in Nat /\ (j \in 1 .. o.k - 1 \/ j = o.k)
      BY <2>1
    <3> QED
      BY <3>1, <3>2, <3>3
  <2>4. (n + 1) - all[n + 1].k = q
    BY <1>1, <1>2, <2>1
  <2> HIDE DEF all, q
  <2>5. /\ q >= 1 /\ all[q].role = "assistant" /\ all[q].calls >= all[n + 1].k
        /\ all[n + 1].k = o.k
    BY <1>2, <2>1, <2>2
  <2> QED
    BY <2>3, <2>4, <2>5 DEF FollowsIn
<1> HIDE DEF all, n, m
<1> QED
  BY <1>1, <1>2, <1>3, <1>4 DEF RowsFollow, all, m

\* ... and what the thread has gathered then is what it goes on with.
LEMMA WrittenGathered ==
  ASSUME NEW rows \in Seq(Message),
         NEW o \in Thread, o.pc = "persist", PendOK(o), Gathered(o, rows)
  PROVE  Gathered(Continue(o), Append(rows, o.pend)) /\ Continue(o).pc # "persist"
<1> DEFINE m == o.pend
           n == Len(rows)
           s == Continue(o)
           all == Append(rows, m)
<1>1. m \in Message /\ n \in Nat /\ o.k \in Nat /\ o.calls \in Nat /\ m.calls \in Nat
  BY DEF Thread, Message
<1>2. /\ Len(all) = n + 1 /\ all[n + 1] = m
      /\ \A i \in 1 .. n : all[i] = rows[i]
  BY <1>1, AppendAt
<1>3. CASE m.role = "tool" /\ o.k < o.calls
  <2>0. ~(o.k >= o.calls)
    BY <1>1, <1>3
  <2>1. s = [o EXCEPT !.pc = "tool", !.k = @ + 1]
    BY <1>3, <2>0 DEF Continue
  <2>2. /\ s.pc = "tool" /\ s.run = o.run /\ s.iter = o.iter /\ s.k = o.k + 1
        /\ s.calls = o.calls
    BY <2>1 DEF Thread
  <2>3. /\ m.run = o.run /\ m.iter = o.iter + 1 /\ m.k = o.k /\ o.k \in 1 .. o.calls
        /\ InBatch(o)
    BY <1>3 DEF PendOK, InBatch, Appends
  <2> DEFINE q == n - o.k + 1
  <2>4. /\ q \in 1 .. n /\ rows[q].role = "assistant" /\ rows[q].run = o.run
        /\ rows[q].iter = o.iter + 1 /\ rows[q].calls = o.calls
        /\ \A j \in 1 .. o.k - 1 : IsResultOf(rows[q + j], rows[q], j)
    BY <1>1, <2>3 DEF Gathered
  <2>5. ASSUME NEW j \in 1 .. o.k PROVE IsResultOf(all[q + j], all[q], j)
    <3>1. CASE j \in 1 .. o.k - 1
      <4>1. q + j \in 1 .. n
        BY <1>1, <2>3, <2>4, <3>1
      <4> QED
        BY <1>2, <2>4, <3>1, <4>1
    <3>2. CASE j = o.k
      <4>1. q + j = n + 1
        BY <1>1, <2>3, <3>2
      <4> QED
        BY <1>2, <1>3, <2>3, <2>4, <3>2, <4>1 DEF IsResultOf
    <3>3. j \in 1 .. o.k - 1 \/ j = o.k
      BY <1>1
    <3> QED
      BY <3>1, <3>2, <3>3
  <2>6. Len(all) - s.k + 1 = q /\ s.k - 1 = o.k
    <3>1. PICK l : l = Len(all)
      OBVIOUS
    <3>2. l = n + 1 /\ s.k = o.k + 1
      BY <1>2, <2>2, <3>1
    <3> HIDE DEF all, s, n
    <3>3. \A x, y \in Nat : (x + 1) - (y + 1) + 1 = x - y + 1 /\ (y + 1) - 1 = y
      OBVIOUS
    <3>4. (n + 1) - (o.k + 1) + 1 = n - o.k + 1 /\ (o.k + 1) - 1 = o.k
      BY <1>1, <3>3
    <3> QED
      BY <3>1, <3>2, <3>4
  <2>7. all[q] = rows[q]
    BY <1>2, <2>4
  <2>8. q >= 1
    BY <2>4
  <2> HIDE DEF all, q, s, n, m
  <2>9. Gathered(s, all)
    BY <2>2, <2>4, <2>5, <2>6, <2>7, <2>8 DEF Gathered
  <2> QED
    BY <2>2, <2>9 DEF all, s, m
<1>4. CASE m.role = "tool" /\ o.k >= o.calls
  <2>0. ~(o.k < o.calls)
    BY <1>1, <1>4
  <2>1. s = [o EXCEPT !.pc = "loop", !.iter = @ + 1, !.calls = 0, !.k = 0]
    BY <1>4, <2>0 DEF Continue
  <2>2. s.pc = "loop"
    BY <2>1 DEF Thread
  <2> HIDE DEF s
  <2> QED
    BY <2>2 DEF Gathered, InBatch, Appends, s
<1>5. CASE m.role = "assistant" /\ m.calls > 0
  <2>1. s = [o EXCEPT !.pc = "tool", !.k = 1]
    BY <1>5 DEF Continue
  <2>2. s.pc = "tool" /\ s.run = o.run /\ s.iter = o.iter /\ s.k = 1 /\ s.calls = o.calls
    BY <2>1 DEF Thread
  <2>3. o.calls = m.calls /\ m.run = o.run /\ m.iter = o.iter + 1
    BY <1>1, <1>5 DEF PendOK
  <2>4. Len(all) - s.k + 1 = n + 1 /\ s.k - 1 = 0
    BY <1>1, <1>2, <2>2
  <2>5. \A j : j \notin 1 .. 0
    OBVIOUS
  <2> HIDE DEF all, s, n, m
  <2>6. /\ n + 1 >= 1 /\ all[n + 1].role = "assistant" /\ all[n + 1].run = s.run
        /\ all[n + 1].iter = s.iter + 1 /\ all[n + 1].calls = s.calls
    BY <1>1, <1>2, <1>5, <2>2, <2>3
  <2>7. Gathered(s, all)
    BY <2>4, <2>5, <2>6 DEF Gathered
  <2> QED
    BY <2>2, <2>7 DEF all, s, m
<1>6. CASE m.role = "assistant" /\ m.calls = 0
  <2>1. s = Idle
    BY <1>6 DEF Continue
  <2> QED
    BY <2>1 DEF Gathered, InBatch, Appends, Idle
<1>7. CASE m.role \notin {"tool", "assistant"}
  <2>1. s = [o EXCEPT !.pc = "loop"]
    BY <1>7 DEF Continue
  <2>2. s.pc = "loop"
    BY <2>1 DEF Thread
  <2> HIDE DEF s
  <2> QED
    BY <2>2 DEF Gathered, InBatch, Appends, s
<1>8. /\ o.k < o.calls \/ o.k >= o.calls
      /\ m.calls > 0 \/ m.calls = 0
  BY <1>1
<1> QED
  BY <1>3, <1>4, <1>5, <1>6, <1>7, <1>8

\* The same message at both ends.
LEMMA MirrorsAppend ==
  ASSUME NEW ms \in Seq(Message), NEW rows \in Seq(Message), NEW m \in Message,
         Mirrors(ms, rows)
  PROVE  Mirrors(Append(ms, m), Append(rows, m))
<1> DEFINE a == Append(ms, m)
           b == Append(rows, m)
           n == Len(ms) - SysLen
<1>1. /\ Len(a) = Len(ms) + 1 /\ a[Len(ms) + 1] = m /\ Len(ms) \in Nat
      /\ \A i \in 1 .. Len(ms) : a[i] = ms[i]
  BY AppendAt
<1>2. /\ Len(b) = Len(rows) + 1 /\ b[Len(rows) + 1] = m /\ Len(rows) \in Nat
      /\ \A i \in 1 .. Len(rows) : b[i] = rows[i]
  BY AppendAt
<1>3. SysLen \in Nat
  BY DEF SysLen
<1>4. /\ n \in Nat /\ n <= Len(rows)
      /\ n >= HistoryLimit \/ n = Len(rows)
      /\ \A i \in 1 .. n : ms[SysLen + i] = rows[Len(rows) - n + i]
  BY <1>1, <1>2, <1>3 DEF Mirrors
<1>5. /\ Len(a) - SysLen = n + 1 /\ n + 1 <= Len(b) /\ n <= Len(rows)
      /\ n + 1 >= HistoryLimit \/ n + 1 = Len(b)
  BY <1>1, <1>2, <1>3, <1>4 DEF Mirrors
<1>6. ASSUME NEW i \in 1 .. n + 1
      PROVE  a[SysLen + i] = b[Len(b) - (n + 1) + i]
  <2>1. CASE i \in 1 .. n
    <3>1. /\ SysLen + i \in 1 .. Len(ms) /\ Len(rows) - n + i \in 1 .. Len(rows)
          /\ Len(b) - (n + 1) + i = Len(rows) - n + i
      BY <1>1, <1>2, <1>3, <1>4, <1>5, <2>1
    <3>2. a[SysLen + i] = ms[SysLen + i] /\ b[Len(rows) - n + i] = rows[Len(rows) - n + i]
      BY <1>1, <1>2, <3>1
    <3> QED
      BY <1>4, <2>1, <3>1, <3>2
  <2>2. CASE i = n + 1
    <3>1. SysLen + i = Len(ms) + 1 /\ Len(b) - (n + 1) + i = Len(rows) + 1
      BY <1>1, <1>2, <1>3, <1>4, <2>2
    <3> QED
      BY <1>1, <1>2, <3>1
  <2>3. n \in Nat
    BY <1>4
  <2> HIDE DEF n
  <2>4. i \in 1 .. n \/ i = n + 1
    BY <2>3
  <2> QED
    BY <2>1, <2>2, <2>4
<1> HIDE DEF a, b, n
<1>7. n + 1 \in Nat /\ 0 <= n + 1
  BY <1>4
<1>8. Mirrors(a, b)
  BY <1>5, <1>6, <1>7 DEF Mirrors
<1> QED
  BY <1>8 DEF a, b

-----------------------------------------------------------------------------
(* The steps *)

\* What CInv says, for use.
LEMMA CFacts ==
  ASSUME CInv
  PROVE  TInv /\ PlacesOK /\ messages \in Seq(Message) /\ db \in Seq(Message)
         /\ th \in [Threads -> Thread] /\ DownIsEmpty /\ SlotIsEnd /\ ContextKept
BY DEF CInv, RInv, IInv, TInv, TypeOK

\* The threads that handle no answer have gathered nothing.
LEMMA IdleGathered == \A rows : Gathered(Idle, rows)
BY DEF Gathered, InBatch, Idle, Appends

\* A local step leaves what is gathered.
LEMMA LocalGathered ==
  ASSUME CInv, NEW t \in Threads, LocalStep(t), Gathered(th[t], db)
  PROVE  Gathered(th'[t], db) /\ UNCHANGED <<db, up>>
<1>1. UNCHANGED <<db, up>>
  BY CFacts, LocalFrame
<1>2. CASE QuietStep(t)
  <2>1. SamePhase(th[t], th'[t])
    BY <1>2, CFacts, QuietMoves DEF PlacesOK, QuietMove
  <2> QED
    BY <1>1, <2>1 DEF SamePhase, Gathered, InBatch, Appends
<1>3. CASE Cancelled(t) \/ Unwind(t)
  <2>1. th'[t] = Idle
    BY <1>3, CFacts DEF Cancelled, Unwind, Returning
  <2> QED
    BY <1>1, <2>1, IdleGathered
<1> QED
  BY <1>2, <1>3 DEF LocalStep, QuietStep

\* Which steps begin and end a push.
LEMMA LocalPc ==
  ASSUME CInv, NEW t \in Threads, LocalStep(t), ~PushEnd(t), ~SetCancel(t)
  PROVE  /\ th[t].pc # "persist" /\ th'[t].pc # "persist"
         /\ PushBegin(t) \/ th'[t].pc # "pushing"
<1>1. th \in [Threads -> Thread] /\ th[t] \in Thread
  BY CFacts
<1>2. CASE PushBegin(t)
  BY <1>1, <1>2 DEF PushBegin, Thread
<1>3. CASE Exhausted(t) \/ ChatFails(t) \/ ChatAnswers(t) \/ ToolResult(t)
  <2>1. \A m, r : Appending(t, m, r) => th'[t].pc = "push"
    BY <1>1 DEF Appending, Thread
  <2> QED
    BY <1>3, <2>1 DEF Exhausted, ChatFails, ChatAnswers, ToolResult
<1>4. CASE Cancelled(t) \/ Unwind(t)
  BY <1>1, <1>4 DEF Cancelled, Unwind, Returning, Idle
<1>5. CASE Chat(t)
  BY <1>1, <1>5 DEF Chat, Thread
<1>6. CASE ChatThrows(t) \/ ToolThrows(t)
  BY <1>1, <1>6 DEF ChatThrows, ToolThrows, Thread
<1>7. CASE ChatCallsTools(t)
  <2>1. PICK n, m : th' = [th EXCEPT ![t].pc = "push", ![t].calls = n, ![t].pend = m]
    BY <1>7 DEF ChatCallsTools
  <2>2. th'[t].pc = "push"
    BY <1>1, <2>1 DEF Thread
  <2> QED
    BY <1>7, <2>2 DEF ChatCallsTools
<1> QED
  BY <1>2, <1>3, <1>4, <1>5, <1>6, <1>7 DEF LocalStep

\* A local step of the only thread, but for PushEnd.
LEMMA LocalContext ==
  ASSUME CInv, NEW t \in Threads, Threads = {t}, LocalStep(t), ~PushEnd(t)
  PROVE  DownIsEmpty' /\ SlotIsEnd' /\ ContextKept'
<1>1. messages' = messages /\ UNCHANGED <<db, up>>
  BY CFacts, LocalFrame
     DEF LocalStep, PushBegin, Exhausted, Cancelled, Chat, ChatFails, ChatAnswers,
         ChatCallsTools, ChatThrows, ToolResult, ToolThrows, Unwind, SetCancel
<1>2. th[t].pc # "idle"
  BY DEF LocalStep, PushBegin, Exhausted, Cancelled, Chat, ChatFails, ChatAnswers,
         ChatCallsTools, ChatThrows, ToolResult, ToolThrows, Unwind, SetCancel
<1>3. up /\ DownIsEmpty'
  BY <1>1, <1>2, CFacts DEF DownIsEmpty
<1>4. Written(th'[t], db) = Written(th[t], db)
  <2>1. CASE SetCancel(t)
    <3>1. th'[t].pc = th[t].pc /\ th'[t].pend = th[t].pend
      BY <2>1, CFacts DEF SetCancel, Thread
    <3> QED
      BY <3>1 DEF Written
  <2>2. CASE ~SetCancel(t)
    <3>1. th[t].pc # "persist" /\ th'[t].pc # "persist"
      BY <2>2, LocalPc
    <3> QED
      BY <3>1 DEF Written
  <2> QED
    BY <2>1, <2>2
<1>5. SlotIsEnd'
  <2>1. CASE PushBegin(t)
    BY <1>1, <2>1, CFacts DEF PushBegin, SlotIsEnd, Thread
  <2>2. CASE SetCancel(t)
    <3>1. th'[t].pc = th[t].pc /\ th'[t].slot = th[t].slot
      BY <2>2, CFacts DEF SetCancel, Thread
    <3> QED
      BY <1>1, <3>1, CFacts DEF SlotIsEnd
  <2>3. CASE ~PushBegin(t) /\ ~SetCancel(t)
    <3>1. th'[t].pc # "pushing"
      BY <2>3, LocalPc
    <3> QED
      BY <3>1 DEF SlotIsEnd
  <2> QED
    BY <2>1, <2>2, <2>3
<1>6. ContextKept'
  <2> SUFFICES ASSUME ~LossyStore
               PROVE  /\ RowsFollow(db) /\ Gathered(th'[t], db)
                      /\ Mirrors(messages, Written(th'[t], db))
    BY <1>1 DEF ContextKept
  <2>1. /\ RowsFollow(db) /\ Gathered(th[t], db)
        /\ Mirrors(messages, Written(th[t], db))
    BY <1>3, CFacts DEF ContextKept
  <2>2. Gathered(th'[t], db)
    BY <2>1, LocalGathered
  <2> QED
    BY <1>4, <2>1, <2>2
<1> QED
  BY <1>3, <1>5, <1>6

\* push_back of the only thread appends, and the row is on its way.
LEMMA PushEndContext ==
  ASSUME CInv, NEW t \in Threads, Threads = {t}, PushEnd(t)
  PROVE  DownIsEmpty' /\ SlotIsEnd' /\ ContextKept'
<1> DEFINE m == th[t].pend
<1>0. LocalStep(t) /\ m \in Message
  BY CFacts, ThreadFacts DEF LocalStep
<1>1. messages' = Append(messages, m) /\ UNCHANGED <<db, up>>
  <2>1. th[t].slot = Len(messages) /\ Len(messages) \in Nat
    BY CFacts DEF PushEnd, SlotIsEnd
  <2> QED
    BY <2>1 DEF PushEnd
<1>2. th'[t].pc = "persist" /\ th'[t].pend = m /\ th[t].pc = "pushing"
  BY CFacts DEF PushEnd, Thread
<1>3. up /\ DownIsEmpty'
  BY <1>1, <1>2, CFacts DEF DownIsEmpty
<1>4. SlotIsEnd'
  BY <1>2 DEF SlotIsEnd
<1>5. ContextKept'
  <2> SUFFICES ASSUME ~LossyStore
               PROVE  /\ RowsFollow(db) /\ Gathered(th'[t], db)
                      /\ Mirrors(messages', Written(th'[t], db))
    BY <1>1 DEF ContextKept
  <2>1. RowsFollow(db) /\ Gathered(th[t], db) /\ Mirrors(messages, db)
    BY <1>2, <1>3, CFacts DEF ContextKept, Written
  <2>2. Gathered(th'[t], db)
    BY <1>0, <2>1, LocalGathered
  <2>3. Written(th'[t], db) = Append(db, m)
    BY <1>2 DEF Written
  <2> HIDE DEF m
  <2> QED
    BY <1>0, <1>1, <2>1, <2>2, <2>3, MirrorsAppend, CFacts
<1> QED
  BY <1>3, <1>4, <1>5

\* The row is stored.
LEMMA PersistContext ==
  ASSUME CInv, NEW t \in Threads, Threads = {t}, Persist(t)
  PROVE  DownIsEmpty' /\ SlotIsEnd' /\ ContextKept'
<1> DEFINE o == th[t]
<1>1. /\ o \in Thread /\ o.pc = "persist" /\ PendOK(o) /\ o.pend \in Message
      /\ th'[t] = Continue(o) /\ UNCHANGED <<messages, up>>
  BY CFacts, ThreadFacts DEF Persist, LocalOK, Appends
<1>2. up /\ DownIsEmpty'
  BY <1>1, CFacts DEF DownIsEmpty
<1>3. Continue(o).pc # "pushing"
  <2>1. o.pend.calls \in Nat /\ o.k \in Nat /\ o.calls \in Nat
    BY <1>1 DEF Thread, Message
  <2> HIDE DEF o
  <2> QED
    BY <1>1, <2>1 DEF Continue, Idle, Thread
<1>4. SlotIsEnd'
  BY <1>1, <1>3 DEF SlotIsEnd
<1>5. ContextKept'
  <2> SUFFICES ASSUME ~LossyStore
               PROVE  /\ RowsFollow(db') /\ Gathered(th'[t], db')
                      /\ Mirrors(messages, Written(th'[t], db'))
    BY <1>1 DEF ContextKept
  <2>1. db' = Append(db, o.pend)
    BY DEF Persist, AddMessage
  <2>2. RowsFollow(db) /\ Gathered(o, db) /\ Mirrors(messages, Append(db, o.pend))
    BY <1>1, <1>2, CFacts DEF ContextKept, Written
  <2> HIDE DEF o
  <2>3. RowsFollow(db') /\ Gathered(Continue(o), db') /\ Continue(o).pc # "persist"
    BY <1>1, <2>1, <2>2, CFacts, WrittenFollows, WrittenGathered
  <2> QED
    BY <1>1, <2>1, <2>2, <2>3 DEF Written
<1> QED
  BY <1>2, <1>4, <1>5

\* The process loads the end of the table.
LEMMA BootContext ==
  ASSUME CInv, Boot
  PROVE  DownIsEmpty' /\ SlotIsEnd' /\ ContextKept'
<1>1. /\ \A t \in Threads : th[t].pc = "idle"
      /\ up' /\ UNCHANGED <<db, th>>
  BY CFacts DEF Boot, DownIsEmpty
<1>2. DownIsEmpty' /\ SlotIsEnd'
  BY <1>1 DEF DownIsEmpty, SlotIsEnd
<1>3. Mirrors(messages', db)
  <2> DEFINE lo == IF Len(db) > HistoryLimit THEN Len(db) - HistoryLimit + 1 ELSE 1
             g == GetRecent(HistoryLimit)
             sys == IF SystemPrompt THEN <<SystemMsg>> ELSE << >>
  <2>1. db \in Seq(Message) /\ Len(db) \in Nat
    BY CFacts
  <2>2. /\ lo \in Int /\ 1 <= lo /\ lo <= Len(db) + 1
        /\ lo = 1 \/ lo = Len(db) - HistoryLimit + 1
    BY <2>1
  <2>10. g = SubSeq(db, lo, Len(db))
    BY DEF GetRecent
  <2> HIDE DEF lo
  <2>3. /\ g \in Seq(Message) /\ Len(g) = Len(db) - lo + 1
        /\ \A i \in 1 .. Len(g) : g[i] = db[lo + i - 1]
    <3>1. \A i \in lo .. Len(db) : db[i] \in Message
      BY <2>1, <2>2
    <3> HIDE DEF g
    <3>2. SubSeq(db, lo, Len(db)) \in Seq(Message)
      BY <2>1, <2>2, <3>1, SubSeqProperties
    <3>3. Len(SubSeq(db, lo, Len(db))) = Len(db) - lo + 1
      BY <2>1, <2>2, <3>1, SubSeqProperties
    <3>4. \A i \in 1 .. Len(db) - lo + 1 : SubSeq(db, lo, Len(db))[i] = db[lo + i - 1]
      BY <2>1, <2>2, <3>1, SubSeqProperties
    <3> QED
      BY <2>10, <3>2, <3>3, <3>4
  <2>4. sys \in Seq(Message) /\ Len(sys) = SysLen
    BY IdleType DEF SysLen
  <2>5. messages' = sys \o g
    BY DEF Boot
  <2> HIDE DEF g, sys
  <2>6. /\ Len(messages') = SysLen + Len(g) /\ SysLen \in Nat
        /\ \A i \in 1 .. Len(g) : messages'[SysLen + i] = g[i]
    <3>1. SysLen \in Nat
      BY DEF SysLen
    <3>2. Len(sys \o g) = SysLen + Len(g)
      BY <2>3, <2>4, ConcatProperties
    <3>3. ASSUME NEW i \in 1 .. Len(g) PROVE (sys \o g)[SysLen + i] = g[i]
      <4>1. Len(sys) = SysLen /\ Len(g) \in Nat
        BY <2>3, <2>4
      <4>2. PICK x \in Int : x = SysLen + i
        BY <3>1
      <4>3. x \in 1 .. SysLen + Len(g) /\ x > SysLen /\ x - SysLen = i
        BY <3>1, <4>1, <4>2
      <4>4. (sys \o g)[x] = g[x - SysLen]
        BY <2>3, <2>4, <4>1, <4>3, ConcatProperties
      <4> QED
        BY <4>2, <4>3, <4>4
    <3> QED
      BY <2>5, <3>1, <3>2, <3>3
  <2>7. Len(messages') - SysLen = Len(g) /\ Len(g) \in Nat
    BY <2>3, <2>6
  <2>8. Len(g) <= Len(db) /\ (Len(g) >= HistoryLimit \/ Len(g) = Len(db))
    BY <2>1, <2>2, <2>3
  <2>9. ASSUME NEW i \in 1 .. Len(g)
        PROVE  messages'[SysLen + i] = db[Len(db) - Len(g) + i]
    <3>1. lo + i - 1 = Len(db) - Len(g) + i
      BY <2>1, <2>2, <2>3
    <3> QED
      BY <2>3, <2>6, <3>1
  <2>11. PICK ms : ms = messages'
    OBVIOUS
  <2>12. PICK n \in Nat : n = Len(g)
    BY <2>7
  <2>13. /\ Len(ms) - SysLen = n /\ 0 <= n /\ n <= Len(db)
         /\ n >= HistoryLimit \/ n = Len(db)
         /\ \A i \in 1 .. n : ms[SysLen + i] = db[Len(db) - n + i]
    BY <2>7, <2>8, <2>9, <2>11, <2>12
  <2>14. Mirrors(ms, db)
    BY <2>13 DEF Mirrors
  <2> QED
    BY <2>11, <2>14
<1>4. ContextKept'
  <2>1. \A t \in Threads : Written(th[t], db) = db
    BY <1>1 DEF Written
  <2> QED
    BY <1>1, <1>3, <2>1, CFacts DEF ContextKept
<1> QED
  BY <1>2, <1>4

\* A crash empties the context.
LEMMA CrashContext ==
  ASSUME CInv, Crash
  PROVE  DownIsEmpty' /\ SlotIsEnd' /\ ContextKept'
<1>1. /\ \A t \in Threads : th'[t] = Idle
      /\ ~up' /\ messages' = << >> /\ db' = db
  BY DEF Crash
<1>2. Idle.pc = "idle"
  BY DEF Idle
<1>3. DownIsEmpty' /\ SlotIsEnd'
  BY <1>1, <1>2 DEF DownIsEmpty, SlotIsEnd
<1>4. ContextKept'
  BY <1>1, IdleGathered, CFacts DEF ContextKept
<1> QED
  BY <1>3, <1>4

\* The start of a run of the only thread.
LEMMA RunContext ==
  ASSUME CInv, NEW t \in Threads, Threads = {t}, Run(t)
  PROVE  DownIsEmpty' /\ SlotIsEnd' /\ ContextKept'
<1>1. /\ th'[t].pc = "push" /\ th'[t].pend.role = "user" /\ th[t].pc = "idle"
      /\ up /\ UNCHANGED <<messages, db, up>>
  BY CFacts DEF Run, Idle, Msg
<1>2. Gathered(th'[t], db)
  BY <1>1 DEF Gathered, InBatch
<1>3. Written(th'[t], db) = db /\ Written(th[t], db) = db
  BY <1>1 DEF Written
<1> QED
  BY <1>1, <1>2, <1>3, CFacts DEF DownIsEmpty, SlotIsEnd, ContextKept

\* CInv is inductive.
LEMMA NextCInv ==
  ASSUME NEW t, Threads = {t}
  PROVE  CInv /\ [Next]_vars => CInv'
<1> SUFFICES ASSUME CInv, [Next]_vars PROVE CInv'
  OBVIOUS
<1> DEFINE Goal == DownIsEmpty' /\ SlotIsEnd' /\ ContextKept'
<1>0. RInv' /\ t \in Threads
  BY StepRefines DEF CInv
<1>1. ASSUME Boot PROVE Goal
  BY <1>1, BootContext
<1>2. ASSUME Crash PROVE Goal
  BY <1>2, CrashContext
<1>3. ASSUME Run(t) PROVE Goal
  BY <1>0, <1>3, RunContext
<1>4. ASSUME Persist(t) PROVE Goal
  BY <1>0, <1>4, PersistContext
<1>5. ASSUME PushEnd(t) PROVE Goal
  BY <1>0, <1>5, PushEndContext
<1>6. ASSUME LocalStep(t) /\ ~PushEnd(t) PROVE Goal
  BY <1>0, <1>6, LocalContext
<1>7. ASSUME UNCHANGED vars PROVE Goal
  BY <1>7 DEF vars, CInv, DownIsEmpty, SlotIsEnd, ContextKept
<1>8. Goal
  <2> HIDE DEF Goal
  <2>1. Boot \/ Crash \/ Run(t) \/ Persist(t) \/ LocalStep(t) \/ UNCHANGED vars
    BY DEF Next, ThreadStep, LocalStep, Waiting
  <2>2. Boot \/ Crash \/ Run(t) \/ Persist(t) \/ PushEnd(t)
        \/ (LocalStep(t) /\ ~PushEnd(t)) \/ UNCHANGED vars
    BY <2>1
  <2> QED
    BY <1>1, <1>2, <1>3, <1>4, <1>5, <1>6, <1>7, <2>2
<1> QED
  BY <1>0, <1>8 DEF CInv

\* The first state satisfies it.
LEMMA InitCInv == Init => CInv
<1> SUFFICES ASSUME Init PROVE CInv
  OBVIOUS
<1>1. RInv
  BY InitRefines
<1>2. /\ \A t \in Threads : th[t] = Idle
      /\ ~up /\ messages = << >> /\ db = << >>
  BY DEF Init
<1>3. RowsFollow(<< >>) /\ Idle.pc = "idle"
  BY DEF RowsFollow, Idle
<1>4. DownIsEmpty /\ SlotIsEnd
  BY <1>2, <1>3 DEF DownIsEmpty, SlotIsEnd
<1>5. ContextKept
  BY <1>2, <1>3, IdleGathered DEF ContextKept
<1> QED
  BY <1>1, <1>4, <1>5 DEF CInv

\* CInv holds always, of one thread.
LEMMA AlwaysCInv ==
  ASSUME NEW t, Threads = {t}
  PROVE  Spec => []CInv
BY InitCInv, NextCInv, PTL DEF Spec

-----------------------------------------------------------------------------
(* What CInv means *)

\* The table with the row on its way there is such that results follow calls.
LEMMA AllFollow ==
  ASSUME CInv, ~LossyStore, NEW t \in Threads
  PROVE  LET all == Written(th[t], db)
         IN  all \in Seq(Message) /\ RowsFollow(all) /\ Gathered(th[t], db)
<1>1. RowsFollow(db) /\ Gathered(th[t], db) /\ th[t] \in Thread
  BY CFacts DEF ContextKept
<1>2. CASE th[t].pc = "persist"
  <2>1. PendOK(th[t]) /\ th[t].pend \in Message
    BY <1>2, CFacts, ThreadFacts DEF LocalOK, Appends
  <2>2. Append(db, th[t].pend) \in Seq(Message)
    BY <2>1, CFacts, AppendAt
  <2> QED
    BY <1>1, <1>2, <2>1, <2>2, CFacts, WrittenFollows DEF Written
<1>3. CASE th[t].pc # "persist"
  BY <1>1, <1>3, CFacts DEF Written
<1> QED
  BY <1>2, <1>3

\* A context that mirrors rows in which results follow calls is such a context.
LEMMA MirrorFollows ==
  ASSUME NEW ms \in Seq(Message), NEW rows \in Seq(Message), Mirrors(ms, rows),
         RowsFollow(rows), NEW p \in 1 .. Len(ms), ms[p].role = "tool",
         p - ms[p].k > SysLen
  PROVE  LET q == p - ms[p].k IN
         /\ ms[q].role = "assistant" /\ ms[q].calls >= ms[p].k
         /\ \A j \in 1 .. ms[p].k : IsResultOf(ms[q + j], ms[q], j)
<1> DEFINE n == Len(ms) - SysLen
           d == Len(rows) - n - SysLen
           q == p - ms[p].k
<1>1. Len(ms) \in Nat /\ Len(rows) \in Nat /\ SysLen \in Nat
  BY DEF SysLen
<1>2. ms[p].k \in Nat
  <2>1. \A x \in Message : x.k \in Nat
    BY DEF Message
  <2>2. ms[p] \in Message
    OBVIOUS
  <2> QED
    BY <2>1, <2>2
<1>3. n \in Nat /\ n <= Len(rows) /\ d \in Int /\ d >= -SysLen /\ q \in Int /\ q > SysLen
  BY <1>1, <1>2 DEF Mirrors
<1>4. ASSUME NEW i \in SysLen + 1 .. Len(ms)
      PROVE  ms[i] = rows[d + i] /\ d + i \in 1 .. Len(rows)
  <2>1. i - SysLen \in 1 .. n /\ SysLen + (i - SysLen) = i
        /\ Len(rows) - n + (i - SysLen) = d + i /\ d + i \in 1 .. Len(rows)
    BY <1>1, <1>3
  <2> QED
    BY <2>1 DEF Mirrors
<1>5. p \in SysLen + 1 .. Len(ms) /\ q \in SysLen + 1 .. Len(ms)
      /\ \A j \in 1 .. ms[p].k : q + j \in SysLen + 1 .. Len(ms)
  <2>1. PICK k \in Nat : k = ms[p].k
    BY <1>2
  <2>2. p - k > SysLen /\ q = p - k
    BY <2>1
  <2>3. \A j \in 1 .. k : q + j > SysLen /\ q + j <= p
    BY <1>1, <2>2
  <2>4. p <= Len(ms) /\ p > SysLen /\ q <= p /\ q > SysLen
    BY <1>1, <2>2
  <2> HIDE DEF q
  <2>5. \A i \in Int : i > SysLen /\ i <= p => i \in SysLen + 1 .. Len(ms)
    BY <1>1
  <2>6. p \in Int /\ q \in Int /\ \A j \in 1 .. k : q + j \in Int
    BY <1>3
  <2>7. p \in SysLen + 1 .. Len(ms) /\ q \in SysLen + 1 .. Len(ms)
    BY <2>4, <2>5, <2>6
  <2>8. \A j \in 1 .. k : q + j \in SysLen + 1 .. Len(ms)
    BY <2>3, <2>5, <2>6
  <2> QED
    BY <2>1, <2>7, <2>8
<1>6. rows[d + p] = ms[p] /\ d + p \in 1 .. Len(rows) /\ rows[d + q] = ms[q]
      /\ \A j \in 1 .. ms[p].k : rows[d + (q + j)] = ms[q + j]
  BY <1>4, <1>5
<1>7. FollowsIn(rows, d + p)
  BY <1>6 DEF RowsFollow
<1>8. d + p - ms[p].k = d + q /\ \A j \in 1 .. ms[p].k : d + (q + j) = (d + q) + j
  BY <1>2, <1>3
<1> HIDE DEF d, q, n
<1>9. /\ ms[q].role = "assistant" /\ ms[q].calls >= ms[p].k
      /\ \A j \in 1 .. ms[p].k : IsResultOf(ms[q + j], ms[q], j)
  <2>1. rows[d + p].k = ms[p].k
    BY <1>6
  <2>2. /\ rows[d + q].role = "assistant" /\ rows[d + q].calls >= ms[p].k
        /\ \A j \in 1 .. ms[p].k : IsResultOf(rows[(d + q) + j], rows[d + q], j)
    <3>1. PICK a : a = d + p
      OBVIOUS
    <3>2. PICK c : c = d + q
      OBVIOUS
    <3>3. FollowsIn(rows, a) /\ a - rows[a].k = c /\ rows[a].k = ms[p].k
      BY <1>2, <1>3, <1>7, <1>8, <2>1, <3>1, <3>2
    <3>4. /\ rows[c].role = "assistant" /\ rows[c].calls >= ms[p].k
          /\ \A j \in 1 .. ms[p].k : IsResultOf(rows[c + j], rows[c], j)
      BY <3>3 DEF FollowsIn
    <3> QED
      BY <3>2, <3>4
  <2> QED
    BY <1>6, <1>8, <2>2
<1> QED
  BY <1>9 DEF q

\* The part of the context behind the system prompt.
LEMMA MirrorKnown ==
  ASSUME NEW ms \in Seq(Message), NEW rows \in Seq(Message), Mirrors(ms, rows)
  PROVE  LET known == SubSeq(ms, SysLen + 1, Len(ms)) IN
         /\ Len(known) <= Len(rows)
         /\ known = SubSeq(rows, Len(rows) - Len(known) + 1, Len(rows))
         /\ Len(known) >= HistoryLimit \/ Len(known) = Len(rows)
<1> DEFINE known == SubSeq(ms, SysLen + 1, Len(ms))
           n == Len(ms) - SysLen
           lo == Len(rows) - n + 1
           end == SubSeq(rows, lo, Len(rows))
<1>1. Len(ms) \in Nat /\ Len(rows) \in Nat /\ SysLen \in Nat
  BY DEF SysLen
<1>2. /\ n \in Nat /\ n <= Len(rows) /\ lo \in Int /\ lo >= 1
      /\ n >= HistoryLimit \/ n = Len(rows)
      /\ \A i \in 1 .. n : ms[SysLen + i] = rows[Len(rows) - n + i]
  BY <1>1 DEF Mirrors
<1>3. /\ known \in Seq(Message) /\ Len(known) = n
      /\ \A i \in 1 .. n : known[i] = ms[SysLen + i]
  <2>1. \A i \in SysLen + 1 .. Len(ms) : ms[i] \in Message
    BY <1>1
  <2>2. SysLen + 1 \in Int /\ SysLen + 1 <= Len(ms) + 1 /\ Len(ms) - (SysLen + 1) + 1 = n
    BY <1>1, <1>2
  <2>3. \A i \in 1 .. n : (SysLen + 1) + i - 1 = SysLen + i
    BY <1>1, <1>2
  <2>4. PICK first \in Int : first = SysLen + 1
    BY <2>2
  <2> HIDE DEF n
  <2>5. known = SubSeq(ms, first, Len(ms))
    BY <2>4
  <2> HIDE DEF known
  <2>6. known \in Seq(Message) /\ Len(known) = n
    BY <1>1, <2>1, <2>2, <2>4, <2>5, SubSeqProperties
  <2>7. \A i \in 1 .. n : known[i] = ms[first + i - 1]
    BY <1>1, <2>1, <2>2, <2>4, <2>5, SubSeqProperties
  <2> QED
    BY <2>3, <2>4, <2>6, <2>7
<1>4. /\ end \in Seq(Message) /\ Len(end) = n
      /\ \A i \in 1 .. n : end[i] = rows[Len(rows) - n + i]
  <2>1. \A i \in lo .. Len(rows) : rows[i] \in Message
    BY <1>1, <1>2
  <2>2. lo <= Len(rows) + 1 /\ Len(rows) - lo + 1 = n
    BY <1>1, <1>2
  <2>3. \A i \in 1 .. n : lo + i - 1 = Len(rows) - n + i
    BY <1>1, <1>2
  <2> HIDE DEF lo, n
  <2> QED
    BY <1>1, <1>2, <2>1, <2>2, <2>3, SubSeqProperties
<1>5. known = end
  <2>1. \A i \in 1 .. n : known[i] = end[i]
    BY <1>2, <1>3, <1>4
  <2> HIDE DEF known, end, n
  <2> QED
    BY <1>3, <1>4, <2>1, SeqEqual
<1> HIDE DEF known, end, n
<1>6. known = SubSeq(rows, Len(rows) - Len(known) + 1, Len(rows))
  BY <1>3, <1>5 DEF end
<1>7. Len(known) <= Len(rows) /\ (Len(known) >= HistoryLimit \/ Len(known) = Len(rows))
  BY <1>2, <1>3
<1> QED
  BY <1>6, <1>7 DEF known

\* With one request thread and no failing INSERT, every tool result in the
\* context sent to the LLM stands behind the answer that asked for it with the
\* results of the earlier calls in between, however many iterations, crashes
\* and restarts led there; only the start of the loaded window may cut a batch.
THEOREM ContextFollowsCalls ==
  ASSUME NEW t, Threads = {t}
  PROVE  Spec => []ResultsFollowCalls
<1>1. CInv => ResultsFollowCalls
  <2> SUFFICES ASSUME CInv, ~LossyStore, NEW p \in 1 .. Len(messages),
                      messages[p].role = "tool", p - messages[p].k > SysLen
               PROVE  LET q == p - messages[p].k IN
                      /\ messages[q].role = "assistant"
                      /\ messages[q].calls >= messages[p].k
                      /\ \A j \in 1 .. messages[p].k :
                           IsResultOf(messages[q + j], messages[q], j)
    BY DEF ResultsFollowCalls
  <2>1. up
    BY CFacts DEF DownIsEmpty
  <2>2. t \in Threads
    OBVIOUS
  <2> DEFINE all == Written(th[t], db)
  <2>3. all \in Seq(Message) /\ RowsFollow(all)
    BY <2>2, AllFollow
  <2>4. Mirrors(messages, all) /\ messages \in Seq(Message)
    BY <2>1, CFacts DEF ContextKept
  <2> HIDE DEF all
  <2> QED
    BY <2>3, <2>4, MirrorFollows
<1> QED
  BY <1>1, AlwaysCInv, PTL

\* With one request thread and no failing INSERT, the context behind the system
\* prompt is the end of the stored history with the message on its way there,
\* and all of it, or at least the window that a restart loads.
THEOREM ContextMirrorsHistory ==
  ASSUME NEW t, Threads = {t}
  PROVE  Spec => []MemoryMirrorsHistory
<1>1. CInv => MemoryMirrorsHistory
  <2> SUFFICES ASSUME CInv, up, ~LossyStore PROVE MemoryMirrorsHistory
    BY DEF MemoryMirrorsHistory
  <2> DEFINE pending == {th[u].pend : u \in {v \in Threads : th[v].pc = "persist"}}
             all == Written(th[t], db)
             m == IF th[t].pc = "persist" THEN <<th[t].pend>> ELSE << >>
  <2>1. m \in {<< >>} \cup {<<x>> : x \in pending} /\ (m = << >> <=> pending = {})
    OBVIOUS
  <2>2. all \in Seq(Message) /\ Mirrors(messages, all) /\ messages \in Seq(Message)
    BY AllFollow, CFacts DEF ContextKept
  <2>3. all = db \o m
    <3>1. th[t].pend \in Message /\ db \in Seq(Message)
      BY CFacts, ThreadFacts
    <3> QED
      BY <3>1, AppendIsConcat DEF Written
  <2> HIDE DEF all, m, pending
  <2>4. LET known == SubSeq(messages, SysLen + 1, Len(messages)) IN
        /\ Len(known) <= Len(all)
        /\ known = SubSeq(all, Len(all) - Len(known) + 1, Len(all))
        /\ Len(known) >= HistoryLimit \/ Len(known) = Len(all)
    BY <2>2, MirrorKnown
  <2> QED
    BY <2>1, <2>3, <2>4 DEF MemoryMirrorsHistory, pending
<1> QED
  BY <1>1, AlwaysCInv, PTL

=============================================================================
