------------------------- MODULE HistoryStoreProofs -------------------------
(***************************************************************************)
(* Proofs about HistoryStore, for clocks, tables and windows of any size   *)
(* and any number of processes alive at once: the type invariant, that a   *)
(* new conversation is empty, that every message stays reachable, and      *)
(* which conversation is continued.                                        *)
(***************************************************************************)
EXTENDS HistoryStore, FiniteSetTheorems, SequenceTheorems, TLAPS

USE HistoryStoreAssumption

-----------------------------------------------------------------------------
(* The tables *)

\* What the rows of the tables are made of.
LEMMA RowTypes ==
  ASSUME TypeOK
  PROVE  /\ \A i \in 1 .. Len(convs) : convs[i].id \in Clock
         /\ \A i \in 1 .. Len(rows) : rows[i] \in Clock
         /\ Clock \subseteq Nat
         /\ Len(rows) \in Nat /\ Len(convs) \in Nat
<1>1. \A i \in 1 .. Len(convs) : convs[i] \in [id : Clock, created : Clock]
  BY ElementOfSeq DEF TypeOK
<1>2. \A i \in 1 .. Len(rows) : rows[i] \in Clock
  BY ElementOfSeq DEF TypeOK
<1>3. Len(rows) \in Nat /\ Len(convs) \in Nat
  BY DEF TypeOK
<1> QED
  BY <1>1, <1>2, <1>3 DEF Clock

\* get_recent returns at most Limit rows, all of the conversation: a row is told
\* from the others by how many come after it.
LEMMA GetRecentBound ==
  ASSUME TypeOK, NEW conv
  PROVE  /\ GetRecent(conv) \subseteq RowsOf(conv)
         /\ RowsOf(conv) \subseteq 1 .. Len(rows)
         /\ Cardinality(GetRecent(conv)) <= Limit
<1> DEFINE own == RowsOf(conv)
           From(i) == {k \in own : k >= i}
           recent == GetRecent(conv)
           rank == [i \in recent |-> Cardinality(From(i))]
<1>1. own \subseteq 1 .. Len(rows) /\ recent \subseteq own
  BY DEF RowsOf, GetRecent
<1>2. IsFiniteSet(own)
  <2>1. IsFiniteSet(1 .. Len(rows))
    BY RowTypes, FS_Interval
  <2> QED
    BY <1>1, <2>1, FS_Subset
<1>3. ASSUME NEW i \in own
      PROVE  /\ IsFiniteSet(From(i)) /\ Cardinality(From(i)) \in Nat \ {0}
             /\ i \in From(i)
  <2>1. IsFiniteSet(From(i))
    <3>1. From(i) \in SUBSET own
      OBVIOUS
    <3> QED
      BY <1>2, <3>1, FS_Subset
  <2>2. i \in From(i)
    BY <1>1
  <2> QED
    BY <2>1, <2>2, FS_CardinalityType, FS_EmptySet
<1>4. \A i \in recent : Cardinality(From(i)) <= Limit
  BY DEF GetRecent
<1>5. ASSUME NEW i \in recent, NEW j \in recent, i < j
      PROVE  Cardinality(From(i)) # Cardinality(From(j))
  <2>1. i \in Int /\ j \in Int /\ i \in own /\ j \in own /\ \A k \in own : k \in Int
    BY <1>1
  <2>2. From(j) \in SUBSET From(i) /\ i \notin From(j)
    <3>1. \A k \in own : k >= j => k >= i
      BY <1>5, <2>1
    <3>2. ~(i >= j)
      BY <1>5, <2>1
    <3> HIDE DEF own
    <3> QED
      BY <3>1, <3>2
  <2>3. i \in From(i) /\ IsFiniteSet(From(i))
    BY <1>3, <2>1
  <2> HIDE DEF From
  <2> QED
    BY <2>2, <2>3, FS_Subset
<1>6. rank \in Injection(recent, 1 .. Limit)
  <2>1. \A i \in recent : i \in Int /\ i \in own
    BY <1>1
  <2>2. \A i \in recent : rank[i] \in 1 .. Limit
    <3> SUFFICES ASSUME NEW i \in recent
                 PROVE  Cardinality(From(i)) \in 1 .. Limit
      OBVIOUS
    <3>1. Cardinality(From(i)) \in Nat \ {0} /\ Cardinality(From(i)) <= Limit
      BY <1>3, <1>4, <2>1
    <3> HIDE DEF From
    <3> QED
      BY <3>1
  <2>3. \A i, j \in recent : i # j => rank[i] # rank[j]
    <3> SUFFICES ASSUME NEW i \in recent, NEW j \in recent, i # j
                 PROVE  Cardinality(From(i)) # Cardinality(From(j))
      OBVIOUS
    <3>1. i < j \/ j < i
      BY <2>1
    <3> QED
      BY <1>5, <3>1
  <2>4. rank \in [recent -> 1 .. Limit]
    BY <2>2
  <2> HIDE DEF rank
  <2> QED
    BY <2>3, <2>4 DEF Injection, IsInjective
<1>7. Cardinality(recent) <= Limit
  <2>1. IsFiniteSet(1 .. Limit) /\ Cardinality(1 .. Limit) = Limit
    BY FS_Interval
  <2> HIDE DEF rank, recent
  <2> QED
    BY <1>6, <2>1, FS_Injection
<1> QED
  BY <1>1, <1>7

\* The SELECT returns conversations of the table.
LEMMA MostRecentType ==
  ASSUME TypeOK
  PROVE  MostRecent \subseteq Ids /\ Ids \subseteq Clock
<1>1. MostRecent \subseteq Ids
  BY DEF MostRecent, Ids
<1>2. Ids \subseteq Clock
  BY RowTypes DEF Ids
<1> QED
  BY <1>1, <1>2

\* create_conversation adds one row at most, and it has the id just made.
LEMMA CreateEffect ==
  ASSUME TypeOK, CreateConversation
  PROVE  /\ convs' \in Seq([id : Clock, created : Clock])
         /\ \A i \in 1 .. Len(convs') :
              \/ convs'[i].id = steady
              \/ i \in 1 .. Len(convs) /\ convs'[i] = convs[i]
         /\ Ids \subseteq Ids'
         /\ ~env.insertFails => steady \in Ids'
<1>1. CASE UNCHANGED convs /\ (GenerateId \in Ids \/ env.insertFails)
  BY <1>1 DEF TypeOK, GenerateId, Ids
<1>2. CASE convs' = Append(convs, [id |-> GenerateId, created |-> wall])
  <2> DEFINE row == [id |-> GenerateId, created |-> wall]
  <2>1. row \in [id : Clock, created : Clock] /\ row.id = steady
    BY DEF TypeOK, GenerateId
  <2> HIDE DEF row
  <2>2. convs' = Append(convs, row)
    BY <1>2 DEF row
  <2>3. /\ convs' \in Seq([id : Clock, created : Clock])
        /\ Len(convs') = Len(convs) + 1
        /\ Len(convs) \in Nat
        /\ \A i \in 1 .. Len(convs) : convs'[i] = convs[i]
        /\ convs'[Len(convs) + 1] = row
    BY <2>1, <2>2 DEF TypeOK
  <2>4. \A i \in 1 .. Len(convs') : i \in 1 .. Len(convs) \/ i = Len(convs) + 1
    BY <2>3
  <2>5. Ids \subseteq Ids'
    BY <2>3 DEF Ids
  <2>6. steady \in Ids'
    BY <2>1, <2>3 DEF Ids
  <2> QED
    BY <2>1, <2>3, <2>4, <2>5, <2>6
<1> QED
  BY <1>1, <1>2 DEF CreateConversation

-----------------------------------------------------------------------------
(* Types *)

\* Every state of the history has the type TypeOK states: ids and times of the
\* clocks, at most Limit messages loaded.
THEOREM TypeCorrect == Spec => []TypeOK
<1>1. Init => TypeOK
  <2>1. Down \in Proc /\ Cardinality(Down.loaded) = 0
    BY FS_EmptySet DEF Down, Proc, Clock
  <2> QED
    BY <2>1 DEF Init, TypeOK, Clock
<1>2. TypeOK /\ [Next]_vars => TypeOK'
  <2> SUFFICES ASSUME TypeOK, [Next]_vars
               PROVE  TypeOK'
    OBVIOUS
  <2>1. Down \in Proc /\ Cardinality(Down.loaded) <= Limit
    BY FS_EmptySet DEF Down, Proc, Clock
  <2> DEFINE Rest == /\ convs \in Seq([id : Clock, created : Clock])
                     /\ rows \in Seq(Clock) /\ Len(rows) <= MaxRows
                     /\ steady \in Clock /\ wall \in Clock
                     /\ starts \in 0 .. MaxStarts
                     /\ env \in Environment
             Fits(proc) == proc \in Proc /\ Cardinality(proc.loaded) <= Limit
  <2>2. ASSUME NEW p \in Procs, Rest', Fits(procs'[p]),
               procs' = [procs EXCEPT ![p] = procs'[p]]
        PROVE  TypeOK'
    <3>1. procs' \in [Procs -> Proc]
      BY <2>2 DEF TypeOK
    <3>2. \A q \in Procs : Cardinality(procs'[q].loaded) <= Limit
      BY <2>2 DEF TypeOK
    <3> QED
      BY <2>2, <3>1, <3>2 DEF TypeOK
  <2>3. ASSUME NEW p \in Procs, Step(p)
        PROVE  TypeOK'
    <3>0. Fits(procs[p]) /\ procs \in [Procs -> Proc] /\ Rest
      BY DEF TypeOK
    <3>1. CASE \E new \in BOOLEAN : Start(p, new)
      <4>1. PICK new \in BOOLEAN : Start(p, new)
        BY <3>1
      <4>2. Fits(procs'[p]) /\ procs' = [procs EXCEPT ![p] = procs'[p]]
        BY <3>0, <4>1 DEF Start, Proc
      <4>3. Rest'
        BY <3>0, <4>1 DEF Start
      <4> QED
        BY <2>2, <4>2, <4>3
    <3>2. CASE Select(p)
      <4>1. Fits(procs'[p]) /\ procs' = [procs EXCEPT ![p] = procs'[p]]
        <5>1. CASE procs' = [procs EXCEPT ![p].pc = "create"]
          BY <3>0, <5>1 DEF Proc
        <5>2. ASSUME NEW conv \in MostRecent,
                     procs' = [procs EXCEPT ![p].pc = "load", ![p].conv = conv,
                                            ![p].found = Len(rows)]
              PROVE  Fits(procs'[p]) /\ procs' = [procs EXCEPT ![p] = procs'[p]]
          <6>1. conv \in Clock /\ Len(rows) \in Nat
            BY MostRecentType, RowTypes
          <6> QED
            BY <3>0, <5>2, <6>1 DEF Proc
        <5> QED
          BY <3>2, <5>1, <5>2 DEF Select
      <4>2. Rest'
        BY <3>0, <3>2 DEF Select
      <4> QED
        BY <2>2, <4>1, <4>2
    <3>3. CASE Create(p)
      <4>1. Fits(procs'[p]) /\ procs' = [procs EXCEPT ![p] = procs'[p]]
        BY <3>0, <3>3, RowTypes DEF Create, Proc, GenerateId
      <4>2. convs' \in Seq([id : Clock, created : Clock])
        BY <3>3, CreateEffect DEF Create
      <4>3. steady' \in Clock /\ wall' \in Clock
        BY <3>0, <3>3 DEF Create, Clock
      <4>4. Rest'
        BY <3>0, <3>3, <4>2, <4>3 DEF Create
      <4> QED
        BY <2>2, <4>1, <4>4
    <3>4. CASE LoadHistory(p)
      <4> DEFINE recent == GetRecent(procs[p].conv)
      <4>1. recent \subseteq 1 .. MaxRows /\ Cardinality(recent) <= Limit
        <5>1. 1 .. Len(rows) \subseteq 1 .. MaxRows
          BY <3>0, RowTypes
        <5> QED
          BY <5>1, GetRecentBound
      <4>2. procs' = [procs EXCEPT ![p].pc = "listen", ![p].loaded = recent]
        BY <3>4 DEF LoadHistory
      <4> HIDE DEF recent
      <4>3. Fits(procs'[p]) /\ procs' = [procs EXCEPT ![p] = procs'[p]]
        BY <3>0, <4>1, <4>2 DEF Proc
      <4>4. Rest'
        BY <3>0, <3>4 DEF LoadHistory
      <4> QED
        BY <2>2, <4>3, <4>4
    <3>5. CASE Listen(p)
      <4>1. Fits(procs'[p]) /\ procs' = [procs EXCEPT ![p] = procs'[p]]
        <5>1. CASE procs' = [procs EXCEPT ![p].pc = "up"]
          BY <3>0, <5>1 DEF Proc
        <5>2. CASE procs' = [procs EXCEPT ![p] = Down]
          BY <2>1, <3>0, <5>2
        <5> QED
          BY <3>5, <5>1, <5>2 DEF Listen
      <4>2. Rest'
        BY <3>0, <3>5 DEF Listen
      <4> QED
        BY <2>2, <4>1, <4>2
    <3>6. CASE AddMessage(p)
      <4>1. procs' = procs /\ procs[p].conv \in Clock
        BY <3>0, <3>6 DEF AddMessage, Proc
      <4>2. rows' \in Seq(Clock) /\ Len(rows') <= MaxRows
        BY <3>0, <3>6, <4>1 DEF AddMessage
      <4>3. Rest'
        BY <3>0, <3>6, <4>2 DEF AddMessage
      <4> QED
        BY <4>1, <4>3 DEF TypeOK
    <3>7. CASE Stop(p)
      <4>1. Fits(procs'[p]) /\ procs' = [procs EXCEPT ![p] = procs'[p]]
        BY <2>1, <3>0, <3>7 DEF Stop
      <4>2. Rest'
        BY <3>0, <3>7 DEF Stop
      <4> QED
        BY <2>2, <4>1, <4>2
    <3> QED
      BY <2>3, <3>1, <3>2, <3>3, <3>4, <3>5, <3>6, <3>7 DEF Step
  <2>4. CASE Tick
    BY <2>4 DEF Tick, TypeOK, Clock
  <2>5. CASE Reboot
    <3>1. procs' \in [Procs -> Proc] /\ \A p \in Procs : Cardinality(procs'[p].loaded) <= Limit
      BY <2>1, <2>5 DEF Reboot
    <3>2. Rest'
      BY <2>5 DEF Reboot, TypeOK, Clock
    <3> QED
      BY <3>1, <3>2 DEF TypeOK
  <2>6. CASE UNCHANGED vars
    BY <2>6 DEF vars, TypeOK
  <2> QED
    BY <2>3, <2>4, <2>5, <2>6 DEF Next, Stopped
<1> QED
  BY <1>1, <1>2, PTL DEF Spec

-----------------------------------------------------------------------------
(* A new conversation *)

\* What process p has from its conversation: an id that lies behind the clock;
\* and if it made the conversation itself, the rows there were then belong to
\* others.
ProcFresh(p) ==
  /\ procs[p].pc \in {"down", "select", "create"} =>
       procs[p].loaded = {} /\ procs[p].found = 0
  /\ procs[p].pc \in {"load", "listen", "up"} => procs[p].conv < steady
  /\ procs[p].pc = "select" => ~procs[p].new
  /\ procs[p].found <= Len(rows)
  /\ procs[p].new =>
       /\ \A i \in 1 .. procs[p].found : rows[i] # procs[p].conv
       /\ \A i \in procs[p].loaded : i > procs[p].found

\* As long as the machine does not boot again, whatever was made from
\* steady_clock lies behind it.
Behind ==
  /\ \A i \in 1 .. Len(convs) : convs[i].id < steady
  /\ \A i \in 1 .. Len(rows) : rows[i] < steady
  /\ \A p \in Procs : ProcFresh(p)

FreshInv == TypeOK /\ (~env.reboots /\ env.apart # "any" => Behind)

\* What a process without a step of its own keeps: rows are only added, and the
\* clock goes on.
LEMMA FreshKept ==
  ASSUME TypeOK, TypeOK', NEW p \in Procs, ProcFresh(p), procs'[p] = procs[p],
         steady <= steady', Len(rows) <= Len(rows'),
         \A i \in 1 .. Len(rows) : rows'[i] = rows[i]
  PROVE  ProcFresh(p)'
<1>1. /\ procs[p].conv \in Nat /\ procs[p].found \in Nat
      /\ steady \in Nat /\ steady' \in Nat
  BY DEF TypeOK, Proc, Clock
<1>2. Len(rows) \in Nat /\ Len(rows') \in Nat
  BY DEF TypeOK
<1>3. \A i \in 1 .. procs[p].found : i \in 1 .. Len(rows)
  BY <1>1, <1>2 DEF ProcFresh
<1> QED
  BY <1>1, <1>2, <1>3 DEF ProcFresh

\* A step of process p that leaves the tables and the clock alone.
LEMMA FreshOf ==
  ASSUME TypeOK, TypeOK', Behind, NEW p \in Procs, ProcFresh(p)',
         UNCHANGED <<convs, rows, steady>>,
         \A q \in Procs \ {p} : procs'[q] = procs[q]
  PROVE  Behind'
<1>1. ASSUME NEW q \in Procs \ {p}
      PROVE  ProcFresh(q)'
  <2>1. ProcFresh(q) /\ steady <= steady' /\ Len(rows) <= Len(rows')
    BY RowTypes DEF Behind, TypeOK, Clock
  <2> QED
    BY <2>1, FreshKept
<1>2. /\ \A i \in 1 .. Len(convs') : convs'[i].id < steady'
      /\ \A i \in 1 .. Len(rows') : rows'[i] < steady'
  BY DEF Behind
<1> QED
  BY <1>1, <1>2 DEF Behind

\* A step of a machine that does not boot keeps what was made behind the clock.
LEMMA FreshStep ==
  ASSUME TypeOK, TypeOK', Behind, NEW p \in Procs, Step(p), env.apart # "any"
  PROVE  Behind'
<1>0. /\ procs \in [Procs -> Proc] /\ procs[p] \in Proc /\ ProcFresh(p)
      /\ steady \in Nat /\ Len(rows) \in Nat
      /\ \A i \in 1 .. Len(rows) : rows[i] \in Nat /\ rows[i] < steady
  BY RowTypes DEF TypeOK, Behind, Clock
<1>1. CASE \E new \in BOOLEAN : Start(p, new)
  <2>1. PICK new \in BOOLEAN : Start(p, new)
    BY <1>1
  <2>2. ProcFresh(p)'
    BY <1>0, <2>1 DEF Start, At, ProcFresh, Proc
  <2>3. UNCHANGED <<convs, rows, steady>> /\ \A q \in Procs \ {p} : procs'[q] = procs[q]
    BY <1>0, <2>1 DEF Start
  <2> QED
    BY <2>2, <2>3, FreshOf
<1>2. CASE Select(p)
  <2>1. UNCHANGED <<convs, rows, steady>> /\ \A q \in Procs \ {p} : procs'[q] = procs[q]
    BY <1>0, <1>2 DEF Select
  <2>2. ~procs[p].new /\ procs[p].loaded = {} /\ procs[p].found = 0
    BY <1>0, <1>2 DEF Select, At, ProcFresh
  <2>3. ProcFresh(p)'
    <3>1. CASE procs' = [procs EXCEPT ![p].pc = "create"]
      BY <1>0, <2>1, <2>2, <3>1 DEF ProcFresh, Proc
    <3>2. ASSUME NEW conv \in MostRecent,
                 procs' = [procs EXCEPT ![p].pc = "load", ![p].conv = conv,
                                        ![p].found = Len(rows)]
          PROVE  ProcFresh(p)'
      <4>1. conv < steady
        BY MostRecentType DEF Ids, Behind
      <4>2. /\ procs'[p].pc = "load" /\ procs'[p].conv = conv
            /\ procs'[p].found = Len(rows) /\ ~procs'[p].new
        BY <1>0, <2>2, <3>2 DEF Proc
      <4> QED
        BY <1>0, <2>1, <4>1, <4>2 DEF ProcFresh
    <3> QED
      BY <1>2, <3>1, <3>2 DEF Select
  <2> QED
    BY <2>1, <2>3, FreshOf
<1>3. CASE Create(p)
  <2>1. /\ procs' = [procs EXCEPT ![p].pc = "load", ![p].conv = steady,
                                  ![p].found = Len(rows)]
        /\ steady' = steady + 1 /\ rows' = rows
    BY <1>3 DEF Create, GenerateId
  <2>2. ProcFresh(p)'
    <3>1. /\ procs'[p].pc = "load" /\ procs'[p].conv = steady
          /\ procs'[p].found = Len(rows) /\ procs'[p].loaded = procs[p].loaded
      BY <1>0, <2>1 DEF Proc
    <3>2. procs[p].loaded = {}
      BY <1>0, <1>3 DEF Create, At, ProcFresh
    <3> QED
      BY <1>0, <2>1, <3>1, <3>2 DEF ProcFresh
  <2>3. ASSUME NEW q \in Procs \ {p}
        PROVE  ProcFresh(q)'
    <3>1. procs'[q] = procs[q]
      BY <1>0, <2>1
    <3>2. ProcFresh(q) /\ steady <= steady' /\ Len(rows) <= Len(rows')
      BY <1>0, <2>1 DEF Behind
    <3> QED
      BY <2>1, <3>1, <3>2, FreshKept
  <2>4. \A i \in 1 .. Len(convs') : convs'[i].id < steady'
    <3>1. \A i \in 1 .. Len(convs') :
            \/ convs'[i].id = steady
            \/ i \in 1 .. Len(convs) /\ convs'[i] = convs[i]
      BY <1>3, CreateEffect DEF Create
    <3>2. \A i \in 1 .. Len(convs) : convs[i].id \in Nat /\ convs[i].id < steady
      BY RowTypes DEF Behind
    <3> QED
      BY <1>0, <2>1, <3>1, <3>2
  <2>5. \A i \in 1 .. Len(rows') : rows'[i] < steady'
    BY <1>0, <2>1
  <2> QED
    BY <2>2, <2>3, <2>4, <2>5 DEF Behind
<1>4. CASE LoadHistory(p)
  <2> DEFINE recent == GetRecent(procs[p].conv)
  <2>1. /\ procs' = [procs EXCEPT ![p].pc = "listen", ![p].loaded = recent]
        /\ UNCHANGED <<convs, rows, steady>>
    BY <1>4 DEF LoadHistory
  <2>2. \A i \in recent : i \in 1 .. Len(rows) /\ rows[i] = procs[p].conv
    BY GetRecentBound DEF RowsOf
  <2> HIDE DEF recent
  <2>3. /\ procs'[p].pc = "listen" /\ procs'[p].loaded = recent
        /\ procs'[p].conv = procs[p].conv /\ procs'[p].found = procs[p].found
        /\ procs'[p].new = procs[p].new
        /\ \A q \in Procs \ {p} : procs'[q] = procs[q]
    BY <1>0, <2>1 DEF Proc
  <2>4. procs[p].new => \A i \in recent : i > procs[p].found
    <3>1. procs[p].found \in Nat
      BY <1>0 DEF Proc
    <3> QED
      BY <1>0, <2>2, <3>1 DEF ProcFresh
  <2>5. procs[p].conv < steady
    BY <1>0, <1>4 DEF LoadHistory, At, ProcFresh
  <2>6. ProcFresh(p)'
    BY <1>0, <2>1, <2>3, <2>4, <2>5 DEF ProcFresh
  <2> QED
    BY <2>1, <2>3, <2>6, FreshOf
<1>5. CASE Listen(p)
  <2>1. UNCHANGED <<convs, rows, steady>> /\ \A q \in Procs \ {p} : procs'[q] = procs[q]
    BY <1>0, <1>5 DEF Listen
  <2>2. ProcFresh(p)'
    <3>1. CASE procs' = [procs EXCEPT ![p].pc = "up"]
      BY <1>0, <1>5, <2>1, <3>1 DEF Listen, At, ProcFresh, Proc
    <3>2. CASE procs' = [procs EXCEPT ![p] = Down]
      BY <1>0, <2>1, <3>2 DEF ProcFresh, Down
    <3> QED
      BY <1>5, <3>1, <3>2 DEF Listen
  <2> QED
    BY <2>1, <2>2, FreshOf
<1>6. CASE AddMessage(p)
  <2>1. /\ rows' = Append(rows, procs[p].conv) /\ rows \in Seq(Clock)
        /\ procs[p].conv \in Clock /\ procs[p].conv < steady
        /\ UNCHANGED <<convs, steady, procs>>
    BY <1>0, <1>6 DEF AddMessage, TypeOK, Proc, At, ProcFresh
  <2>2. Len(rows) <= Len(rows') /\ \A i \in 1 .. Len(rows) : rows'[i] = rows[i]
    BY <2>1
  <2>3. \A i \in 1 .. Len(rows') : rows'[i] < steady
    <3>1. \A i \in 1 .. Len(rows') :
            \/ i \in 1 .. Len(rows) /\ rows'[i] = rows[i]
            \/ rows'[i] = procs[p].conv
      BY <2>1
    <3> QED
      BY <1>0, <2>1, <3>1
  <2>4. ASSUME NEW q \in Procs
        PROVE  ProcFresh(q)'
    <3>1. ProcFresh(q) /\ steady <= steady' /\ procs'[q] = procs[q]
      BY <1>0, <2>1 DEF Behind
    <3> QED
      BY <2>2, <3>1, FreshKept
  <2> QED
    BY <2>1, <2>3, <2>4 DEF Behind
<1>7. CASE Stop(p)
  <2>1. UNCHANGED <<convs, rows, steady>> /\ \A q \in Procs \ {p} : procs'[q] = procs[q]
    BY <1>0, <1>7 DEF Stop
  <2>2. ProcFresh(p)'
    BY <1>0, <1>7, <2>1 DEF Stop, ProcFresh, Down
  <2> QED
    BY <2>1, <2>2, FreshOf
<1> QED
  BY <1>1, <1>2, <1>3, <1>4, <1>5, <1>6, <1>7 DEF Step

\* On a machine that does not boot again, where conversations are made a
\* millisecond apart, a process started with --new-conversation has loaded no
\* message from before it made its conversation, whatever INSERT failed and
\* however many servers run (generate_id, get_recent).
THEOREM NewConversationIsFresh == Spec => []NewIsFresh
<1>1. Init /\ TypeOK => FreshInv
  BY DEF Init, Down, FreshInv, Behind, ProcFresh
<1>2. FreshInv /\ TypeOK' /\ [Next]_vars => FreshInv'
  <2> SUFFICES ASSUME FreshInv, TypeOK', [Next]_vars
               PROVE  FreshInv'
    OBVIOUS
  <2>0. env' = env
    BY DEF Next, Step, Start, Select, Create, LoadHistory, Listen, AddMessage, Stop,
           Tick, Reboot, Stopped, vars
  <2> SUFFICES ASSUME ~env.reboots, env.apart # "any"
               PROVE  Behind'
    BY <2>0 DEF FreshInv
  <2>1. TypeOK /\ Behind
    BY DEF FreshInv
  <2>2. ASSUME NEW p \in Procs, Step(p)
        PROVE  Behind'
    BY <2>1, <2>2, FreshStep
  <2>3. CASE Tick
    <3>1. /\ UNCHANGED <<convs, rows, procs>> /\ steady' = steady + 1
          /\ steady \in Nat /\ Len(rows) \in Nat
      BY <2>1, <2>3, RowTypes DEF Tick, TypeOK, Clock
    <3>2. /\ \A i \in 1 .. Len(convs) : convs[i].id \in Nat
          /\ \A i \in 1 .. Len(rows) : rows[i] \in Nat
      BY <2>1, RowTypes
    <3>3. ASSUME NEW p \in Procs
          PROVE  ProcFresh(p)'
      <4>1. ProcFresh(p) /\ steady <= steady' /\ Len(rows) <= Len(rows')
        BY <2>1, <3>1 DEF Behind
      <4> QED
        BY <2>1, <3>1, <4>1, FreshKept
    <3> QED
      BY <2>1, <3>1, <3>2, <3>3 DEF Behind
  <2>4. CASE Reboot
    BY <2>4 DEF Reboot
  <2>5. CASE UNCHANGED vars
    BY <2>1, <2>5 DEF vars, Behind, ProcFresh
  <2> QED
    BY <2>2, <2>3, <2>4, <2>5 DEF Next, Stopped
<1>3. FreshInv => NewIsFresh
  BY DEF FreshInv, Behind, ProcFresh, NewIsFresh, LoadFresh
<1> QED
  BY <1>1, <1>2, <1>3, TypeCorrect, PTL DEF Spec

-----------------------------------------------------------------------------
(* Reachable messages *)

\* The messages, and the conversations of the processes, are in the table.
InTable ==
  /\ \A p \in Procs : procs[p].pc \in {"load", "listen", "up"} => procs[p].conv \in Ids
  /\ \A i \in 1 .. Len(rows) : rows[i] \in Ids

ReachInv == TypeOK /\ (~env.insertFails => InTable)

\* A step keeps them there.
LEMMA ReachStep ==
  ASSUME TypeOK, InTable, NEW p \in Procs, Step(p), ~env.insertFails
  PROVE  InTable'
<1>0. procs \in [Procs -> Proc] /\ procs[p] \in Proc
  BY DEF TypeOK
<1> DEFINE Placed(q) == procs[q].pc \in {"load", "listen", "up"} => procs[q].conv \in Ids
<1>1. ASSUME UNCHANGED <<convs, rows>>, Placed(p)',
             \A q \in Procs \ {p} : procs'[q] = procs[q]
      PROVE  InTable'
  <2>1. Ids' = Ids
    BY <1>1 DEF Ids
  <2> QED
    BY <1>1, <2>1 DEF InTable
<1>2. CASE \E new \in BOOLEAN : Start(p, new)
  <2>1. PICK new \in BOOLEAN : Start(p, new)
    BY <1>2
  <2>2. Placed(p)' /\ \A q \in Procs \ {p} : procs'[q] = procs[q]
    BY <1>0, <2>1 DEF Start, Proc
  <2> QED
    BY <1>1, <2>1, <2>2 DEF Start
<1>3. CASE Select(p)
  <2>1. UNCHANGED <<convs, rows>> /\ \A q \in Procs \ {p} : procs'[q] = procs[q]
    BY <1>0, <1>3 DEF Select
  <2>2. Placed(p)'
    <3>1. CASE procs' = [procs EXCEPT ![p].pc = "create"]
      BY <1>0, <3>1 DEF Proc
    <3>2. ASSUME NEW conv \in MostRecent,
                 procs' = [procs EXCEPT ![p].pc = "load", ![p].conv = conv,
                                        ![p].found = Len(rows)]
          PROVE  Placed(p)'
      <4>1. conv \in Ids /\ Ids' = Ids
        BY <2>1, MostRecentType DEF Ids
      <4>2. procs'[p].conv = conv
        BY <1>0, <3>2 DEF Proc
      <4> QED
        BY <4>1, <4>2
    <3> QED
      BY <1>3, <3>1, <3>2 DEF Select
  <2> QED
    BY <1>1, <2>1, <2>2
<1>4. CASE Create(p)
  <2>1. Ids \subseteq Ids' /\ steady \in Ids'
    BY <1>4, CreateEffect DEF Create
  <2>2. /\ procs'[p].conv = steady /\ rows' = rows
        /\ \A q \in Procs \ {p} : procs'[q] = procs[q]
    BY <1>0, <1>4 DEF Create, GenerateId, Proc
  <2> QED
    BY <2>1, <2>2 DEF InTable
<1>5. CASE LoadHistory(p)
  <2>1. /\ procs'[p].conv = procs[p].conv /\ procs[p].conv \in Ids
        /\ UNCHANGED <<convs, rows>> /\ \A q \in Procs \ {p} : procs'[q] = procs[q]
    BY <1>0, <1>5 DEF LoadHistory, At, Proc, InTable
  <2>2. Ids' = Ids
    BY <2>1 DEF Ids
  <2> QED
    BY <1>1, <2>1, <2>2
<1>6. CASE Listen(p)
  <2>1. /\ UNCHANGED <<convs, rows>> /\ \A q \in Procs \ {p} : procs'[q] = procs[q]
        /\ procs[p].conv \in Ids
    BY <1>0, <1>6 DEF Listen, At, InTable
  <2>2. Placed(p)'
    <3>1. CASE procs' = [procs EXCEPT ![p].pc = "up"]
      <4>1. procs'[p].conv = procs[p].conv /\ Ids' = Ids
        BY <1>0, <2>1, <3>1 DEF Proc, Ids
      <4> QED
        BY <2>1, <4>1
    <3>2. CASE procs' = [procs EXCEPT ![p] = Down]
      BY <1>0, <3>2 DEF Down
    <3> QED
      BY <1>6, <3>1, <3>2 DEF Listen
  <2> QED
    BY <1>1, <2>1, <2>2
<1>7. CASE AddMessage(p)
  <2>1. /\ rows' = Append(rows, procs[p].conv) /\ rows \in Seq(Clock)
        /\ procs' = procs /\ procs[p].conv \in Ids /\ Ids' = Ids
    BY <1>7 DEF AddMessage, TypeOK, At, InTable, Ids
  <2>2. \A i \in 1 .. Len(rows') :
          \/ i \in 1 .. Len(rows) /\ rows'[i] = rows[i]
          \/ rows'[i] = procs[p].conv
    <3>1. procs[p].conv \in Clock
      BY <1>0 DEF Proc
    <3> QED
      BY <2>1, <3>1
  <2> QED
    BY <2>1, <2>2 DEF InTable
<1>8. CASE Stop(p)
  <2>1. Placed(p)' /\ \A q \in Procs \ {p} : procs'[q] = procs[q]
    BY <1>0, <1>8 DEF Stop, Down
  <2> QED
    BY <1>1, <1>8, <2>1 DEF Stop
<1> QED
  BY <1>2, <1>3, <1>4, <1>5, <1>6, <1>7, <1>8 DEF Step

\* Where INSERTs work, every message stored belongs to a conversation of the
\* table, although create_conversation looks at nothing sqlite3_step returns,
\* steady_clock may make an id twice, and several servers write.
THEOREM EveryMessageReachable == Spec => []MessagesReachable
<1>1. Init /\ TypeOK => ReachInv
  BY DEF Init, Down, ReachInv, InTable
<1>2. ReachInv /\ TypeOK' /\ [Next]_vars => ReachInv'
  <2> SUFFICES ASSUME ReachInv, TypeOK', [Next]_vars
               PROVE  ReachInv'
    OBVIOUS
  <2>0. env' = env
    BY DEF Next, Step, Start, Select, Create, LoadHistory, Listen, AddMessage, Stop,
           Tick, Reboot, Stopped, vars
  <2> SUFFICES ASSUME ~env.insertFails
               PROVE  InTable'
    BY <2>0 DEF ReachInv
  <2>1. TypeOK /\ InTable
    BY DEF ReachInv
  <2>2. ASSUME NEW p \in Procs, Step(p)
        PROVE  InTable'
    BY <2>1, <2>2, ReachStep
  <2>3. CASE Tick
    BY <2>1, <2>3 DEF Tick, InTable, Ids
  <2>4. CASE Reboot
    BY <2>1, <2>4 DEF Reboot, Down, InTable, Ids
  <2>5. CASE UNCHANGED vars
    BY <2>1, <2>5 DEF vars, InTable, Ids
  <2> QED
    BY <2>2, <2>3, <2>4, <2>5 DEF Next, Stopped
<1>3. ReachInv => MessagesReachable
  BY DEF ReachInv, InTable, MessagesReachable
<1> QED
  BY <1>1, <1>2, <1>3, TypeCorrect, PTL DEF Spec

-----------------------------------------------------------------------------
(* The latest conversation *)

\* Where no two conversations are made in one second, those of the table were
\* created in the order in which they stand there, all of them before now.
TimesRise ==
  /\ \A i, j \in 1 .. Len(convs) : i < j => convs[i].created < convs[j].created
  /\ \A i \in 1 .. Len(convs) : convs[i].created < wall

OrderInv == TypeOK /\ (env.apart = "second" => TimesRise)

\* The times of the table and of the clock are numbers.
LEMMA TimeTypes ==
  ASSUME TypeOK
  PROVE  /\ \A i \in 1 .. Len(convs) : convs[i].created \in Nat
         /\ wall \in Nat /\ Len(convs) \in Nat
<1>1. \A i \in 1 .. Len(convs) : convs[i] \in [id : Clock, created : Clock]
  BY ElementOfSeq DEF TypeOK
<1>2. Len(convs) \in Nat
  BY DEF TypeOK
<1> QED
  BY <1>1, <1>2 DEF TypeOK, Clock

\* A step that adds no conversation keeps the order, as the wall clock is not
\* set back.
LEMMA TimesKept ==
  ASSUME TypeOK, TimesRise, convs' = convs, wall' \in Nat, wall <= wall'
  PROVE  TimesRise'
<1>1. \A i \in 1 .. Len(convs) : convs[i].created < wall'
  BY TimeTypes DEF TimesRise
<1> QED
  BY <1>1 DEF TimesRise

\* create_conversation adds the conversation of this second, and the next is
\* made in a later one.
LEMMA CreateTimes ==
  ASSUME TypeOK, TimesRise, env.apart = "second", NEW p \in Procs, Create(p)
  PROVE  TimesRise'
<1>1. wall' = wall + 1
  BY DEF Create
<1>2. wall' \in Nat /\ wall <= wall'
  BY <1>1, TimeTypes
<1>3. CASE convs' = convs
  BY <1>2, <1>3, TimesKept
<1>4. CASE convs' = Append(convs, [id |-> GenerateId, created |-> wall])
  <2> DEFINE row == [id |-> GenerateId, created |-> wall]
  <2>1. row.created = wall /\ row \in [id : Clock, created : Clock]
    BY DEF TypeOK, GenerateId
  <2> HIDE DEF row
  <2>2. convs' = Append(convs, row) /\ convs \in Seq([id : Clock, created : Clock])
    BY <1>4 DEF row, TypeOK
  <2>3. /\ Len(convs') = Len(convs) + 1
        /\ \A i \in 1 .. Len(convs) : convs'[i] = convs[i]
        /\ convs'[Len(convs) + 1] = row
    BY <2>1, <2>2
  <2>4. \A i \in 1 .. Len(convs') : i \in 1 .. Len(convs) \/ i = Len(convs) + 1
    BY <2>3, TimeTypes
  <2>5. \A i \in 1 .. Len(convs') : convs'[i].created < wall'
    BY <1>1, <2>1, <2>3, <2>4, TimeTypes DEF TimesRise
  <2>6. ASSUME NEW i \in 1 .. Len(convs'), NEW j \in 1 .. Len(convs'), i < j
        PROVE  convs'[i].created < convs'[j].created
    <3>1. i \in 1 .. Len(convs)
      BY <2>3, <2>6, TimeTypes
    <3>2. CASE j \in 1 .. Len(convs)
      BY <2>3, <2>6, <3>1, <3>2 DEF TimesRise
    <3>3. CASE j = Len(convs) + 1
      BY <2>1, <2>3, <3>1, <3>3 DEF TimesRise
    <3> QED
      BY <2>4, <3>2, <3>3
  <2> QED
    BY <2>5, <2>6 DEF TimesRise
<1> QED
  BY <1>3, <1>4 DEF Create, CreateConversation

\* Every step keeps the order.
LEMMA OrderStep ==
  ASSUME OrderInv, TypeOK', Next
  PROVE  OrderInv'
<1>0. env' = env
  BY DEF Next, Step, Start, Select, Create, LoadHistory, Listen, AddMessage, Stop,
         Tick, Reboot, Stopped, vars
<1> SUFFICES ASSUME env.apart = "second"
             PROVE  TimesRise'
  BY <1>0 DEF OrderInv
<1>1. TypeOK /\ TimesRise
  BY DEF OrderInv
<1>2. ASSUME NEW p \in Procs, Create(p)
      PROVE  TimesRise'
  BY <1>1, <1>2, CreateTimes
<1>3. ASSUME convs' = convs, wall' = wall \/ wall' = wall + 1
      PROVE  TimesRise'
  <2>1. wall' \in Nat /\ wall <= wall'
    BY <1>1, <1>3, TimeTypes
  <2> QED
    BY <1>1, <1>3, <2>1, TimesKept
<1>4. ASSUME NEW p \in Procs, Step(p), ~Create(p)
      PROVE  TimesRise'
  <2>1. convs' = convs /\ wall' = wall
    BY <1>4 DEF Step, Start, Select, LoadHistory, Listen, AddMessage, Stop
  <2> QED
    BY <1>3, <2>1
<1>5. CASE Tick
  <2>1. wall' = wall \/ wall' = wall + 1
    BY <1>5 DEF Tick
  <2> QED
    BY <1>3, <1>5, <2>1 DEF Tick
<1>6. CASE Reboot
  BY <1>3, <1>6 DEF Reboot
<1>7. CASE Stopped
  BY <1>3, <1>7 DEF Stopped, vars
<1> QED
  BY <1>2, <1>4, <1>5, <1>6, <1>7 DEF Next

\* Of conversations in order the SELECT returns the last.
LEMMA LatestIsLast ==
  ASSUME TypeOK, TimesRise, convs # << >>
  PROVE  MostRecent = {convs[Len(convs)].id}
<1> DEFINE n == Len(convs)
           latest == {j \in 1 .. n : \A k \in 1 .. n : convs[k].created <= convs[j].created}
<1>1. n \in 1 .. n /\ n \in Nat
  <2>1. n # 0
    BY EmptySeq DEF TypeOK
  <2> QED
    BY <2>1, TimeTypes
<1>2. ASSUME NEW k \in 1 .. n
      PROVE  convs[k].created <= convs[n].created
  <2>1. CASE k = n
    BY <1>1, <2>1, TimeTypes
  <2>2. CASE k < n
    BY <1>1, <2>2, TimeTypes DEF TimesRise
  <2> QED
    BY <1>1, <2>1, <2>2
<1>3. ASSUME NEW j \in latest
      PROVE  j = n
  <2>1. convs[n].created <= convs[j].created
    BY <1>1
  <2>2. j < n => convs[j].created < convs[n].created
    BY <1>1 DEF TimesRise
  <2>3. convs[j].created \in Nat /\ convs[n].created \in Nat
    BY <1>1, TimeTypes
  <2> QED
    BY <1>1, <2>1, <2>2, <2>3
<1>4. latest = {n}
  BY <1>1, <1>2, <1>3
<1> HIDE DEF latest
<1>5. MostRecent = {convs[i].id : i \in latest}
  BY DEF MostRecent, latest
<1> QED
  BY <1>4, <1>5

\* Without --new-conversation a process continues the conversation whose INSERT
\* was the last, for tables of any length and any number of servers and of starts
\* that failed at any point, as long as no two conversations are made in one
\* second.
THEOREM LatestIsContinued == Spec => ContinuesLatest
<1>1. Init /\ TypeOK => OrderInv
  BY DEF Init, OrderInv, TimesRise
<1>2. OrderInv /\ TypeOK' /\ [Next]_vars => OrderInv'
  <2> SUFFICES ASSUME OrderInv, TypeOK', [Next]_vars
               PROVE  OrderInv'
    OBVIOUS
  <2>1. CASE Next
    BY <2>1, OrderStep
  <2>2. CASE UNCHANGED vars
    BY <2>2 DEF vars, OrderInv, TimesRise
  <2> QED
    BY <2>1, <2>2
<1>3. OrderInv /\ [Next]_vars => [env.apart = "second" => TakesLast]_vars
  <2> SUFFICES ASSUME OrderInv, Next, env.apart = "second", NEW p \in Procs,
                      procs[p].pc = "select", procs'[p].pc = "load"
               PROVE  procs'[p].conv = convs[Len(convs)].id
    BY DEF TakesLast, At
  <2>0. TypeOK /\ TimesRise /\ procs \in [Procs -> Proc] /\ procs[p] \in Proc
    BY DEF OrderInv, TypeOK
  <2>1. Select(p)
    <3>1. ASSUME NEW q \in Procs \ {p}, Step(q)
          PROVE  procs'[p] = procs[p]
      BY <2>0, <3>1 DEF Step, Start, Select, Create, LoadHistory, Listen, AddMessage, Stop
    <3>2. Step(p)
      BY <2>0, <3>1 DEF Next, Tick, Reboot, Stopped, vars, Down
    <3> QED
      BY <2>0, <3>2 DEF Step, Start, At, Create, LoadHistory, Listen, AddMessage, Stop, Down
  <2>2. PICK conv \in MostRecent :
          procs' = [procs EXCEPT ![p].pc = "load", ![p].conv = conv, ![p].found = Len(rows)]
    <3>1. procs' # [procs EXCEPT ![p].pc = "create"]
      BY <2>0 DEF Proc
    <3> QED
      BY <2>1, <3>1 DEF Select
  <2>3. procs'[p].conv = conv
    BY <2>0, <2>2 DEF Proc
  <2>4. convs # << >>
    <3>1. convs = << >> => MostRecent = {}
      BY DEF MostRecent
    <3> QED
      BY <2>2, <3>1
  <2>5. MostRecent = {convs[Len(convs)].id}
    BY <2>0, <2>4, LatestIsLast
  <2> QED
    BY <2>2, <2>3, <2>5
<1> QED
  BY <1>1, <1>2, <1>3, TypeCorrect, PTL DEF Spec, ContinuesLatest

=============================================================================
