--------------------------- MODULE SseStreamProofs ---------------------------
(***************************************************************************)
(* Proofs about SseStream, for any body that a backend may send.           *)
(***************************************************************************)
EXTENDS SseStream, FoldTheorems

-----------------------------------------------------------------------------
(* The numbers of a set in their order *)

Under(S, x) == {y \in S : y < x}

LEMMA UnderFinite ==
  ASSUME NEW S, IsFiniteSet(S), NEW x
  PROVE  /\ IsFiniteSet(Under(S, x)) /\ Cardinality(Under(S, x)) \in Nat
         /\ Cardinality(Under(S, x)) <= Cardinality(S)
         /\ Cardinality(S) \in Nat
<1>1. Under(S, x) \in SUBSET S
  BY DEF Under
<1> QED BY <1>1, FS_Subset, FS_CardinalityType

LEMMA NthIsOne ==
  ASSUME NEW S \in SUBSET Nat, IsFiniteSet(S), NEW x \in S, NEW y \in S,
         Cardinality(Under(S, x)) = Cardinality(Under(S, y))
  PROVE  x = y
<1>1. ASSUME NEW a \in S, NEW b \in S, a < b
      PROVE  Cardinality(Under(S, a)) # Cardinality(Under(S, b))
  <2>1. a \notin Under(S, a) /\ Under(S, a) \cup {a} \in SUBSET Under(S, b)
    <3>1. a \in Nat /\ b \in Nat /\ ~(a < a) /\ \A z \in S : z \in Nat /\ (z < a => z < b)
      BY <1>1
    <3> QED BY <1>1, <3>1 DEF Under
  <2>2. Cardinality(Under(S, a) \cup {a}) = Cardinality(Under(S, a)) + 1
    BY <2>1, UnderFinite, FS_AddElement
  <2>3. Cardinality(Under(S, a) \cup {a}) <= Cardinality(Under(S, b))
    BY <2>1, UnderFinite, FS_Subset
  <2>4. Cardinality(Under(S, a)) \in Nat /\ Cardinality(Under(S, b)) \in Nat
    BY UnderFinite
  <2> QED BY <2>2, <2>3, <2>4
<1>2. x \in Nat /\ y \in Nat
  OBVIOUS
<1>3. ~(x < y) /\ ~(y < x)
  BY <1>1
<1> QED BY <1>2, <1>3

LEMMA NthExists ==
  ASSUME NEW S \in SUBSET Nat, IsFiniteSet(S), NEW n \in 1 .. Cardinality(S)
  PROVE  \E x \in S : Cardinality(Under(S, x)) = n - 1
<1> DEFINE Has(T) == \A i \in 1 .. Cardinality(T) :
                       \E x \in T : Cardinality(Under(T, x)) = i - 1
           M == {m \in Nat : \A T \in SUBSET Nat :
                               IsFiniteSet(T) /\ Cardinality(T) = m => Has(T)}
<1>1. 0 \in M
  OBVIOUS
<1>2. ASSUME NEW m \in M
      PROVE  m + 1 \in M
  <2> SUFFICES ASSUME NEW T \in SUBSET Nat, IsFiniteSet(T), Cardinality(T) = m + 1,
                      NEW i \in 1 .. m + 1
               PROVE  \E x \in T : Cardinality(Under(T, x)) = i - 1
    OBVIOUS
  <2>1. T # {}
    BY FS_EmptySet
  <2>2. PICK least \in T : \A y \in T : least <= y
    BY <2>1, LeastNumber
  <2> DEFINE R == T \ {least}
  <2>3. R \in SUBSET Nat /\ IsFiniteSet(R) /\ Cardinality(R) = m
    <3>1. Cardinality(R) = Cardinality(T) - 1 /\ IsFiniteSet(R)
      BY <2>2, FS_RemoveElement
    <3>2. m \in Nat
      OBVIOUS
    <3> QED BY <3>1, <3>2
  <2>4. CASE i = 1
    <3>1. Under(T, least) = {}
      <4>1. \A y \in T : y \in Nat /\ ~(y < least)
        BY <2>2
      <4> QED BY <4>1 DEF Under
    <3>2. Cardinality(Under(T, least)) = i - 1
      BY <2>4, <3>1, FS_EmptySet
    <3> QED BY <2>2, <3>2
  <2>5. CASE i # 1
    <3>1. i - 1 \in 1 .. m
      BY <2>5
    <3>2. Has(R)
      BY <2>3
    <3> HIDE DEF R
    <3>3. PICK x \in R : Cardinality(Under(R, x)) = (i - 1) - 1
      BY <2>3, <3>1, <3>2
    <3>4. Under(T, x) = Under(R, x) \cup {least} /\ least \notin Under(R, x) /\ x \in T
      BY <2>2, <3>3 DEF R, Under
    <3>5. Cardinality(Under(T, x)) = Cardinality(Under(R, x)) + 1
      BY <2>3, <3>4, UnderFinite, FS_AddElement
    <3>6. Cardinality(Under(T, x)) = i - 1
      BY <3>3, <3>5
    <3> QED BY <3>4, <3>6
  <2> QED BY <2>4, <2>5
<1> HIDE DEF M
<1>3. \A m \in Nat : m \in M
  BY <1>1, <1>2, InductionOnSets DEF M
<1>4. Cardinality(S) \in Nat
  BY FS_CardinalityType
<1> QED BY <1>3, <1>4 DEF M

LEMMA OrderedNth ==
  ASSUME NEW S \in SUBSET Nat, IsFiniteSet(S)
  PROVE  /\ Ordered(S) \in Seq(S) /\ Len(Ordered(S)) = Cardinality(S)
         /\ Cardinality(S) \in Nat
         /\ \A n \in 1 .. Cardinality(S) :
              Ordered(S)[n] \in S /\ Cardinality(Under(S, Ordered(S)[n])) = n - 1
<1>1. Cardinality(S) \in Nat
  BY FS_CardinalityType
<1>2. ASSUME NEW n \in 1 .. Cardinality(S)
      PROVE  Ordered(S)[n] \in S /\ Cardinality(Under(S, Ordered(S)[n])) = n - 1
  <2>1. \E x \in S : Cardinality({y \in S : y < x}) = n - 1
    BY NthExists DEF Under
  <2>2. Ordered(S)[n] = CHOOSE x \in S : Cardinality({y \in S : y < x}) = n - 1
    BY DEF Ordered
  <2> QED BY <2>1, <2>2 DEF Under
<1>3. Ordered(S) = [n \in 1 .. Cardinality(S) |-> Ordered(S)[n]]
  <2> DEFINE e(n) == CHOOSE x \in S : Cardinality({y \in S : y < x}) = n - 1
  <2>1. Ordered(S) = [n \in 1 .. Cardinality(S) |-> e(n)]
    BY DEF Ordered
  <2> HIDE DEF e
  <2> QED BY <2>1
<1>4. Ordered(S) \in [1 .. Cardinality(S) -> S]
  BY <1>2, <1>3
<1>5. Ordered(S) \in Seq(S) /\ Len(Ordered(S)) = Cardinality(S)
  BY <1>1, <1>4
<1> QED BY <1>1, <1>2, <1>5

LEMMA OrderedAppend ==
  ASSUME NEW S \in SUBSET Nat, IsFiniteSet(S), NEW x \in Nat, \A y \in S : y < x
  PROVE  Ordered(S \cup {x}) = Append(Ordered(S), x)
<1> DEFINE T == S \cup {x}
           c == Cardinality(S)
           a == Append(Ordered(S), x)
<1>1. x \notin S
  OBVIOUS
<1>2. T \in SUBSET Nat /\ IsFiniteSet(T) /\ Cardinality(T) = c + 1
  BY <1>1, FS_AddElement
<1>3. /\ Ordered(S) \in Seq(S) /\ Len(Ordered(S)) = c /\ c \in Nat
      /\ \A n \in 1 .. c :
           Ordered(S)[n] \in S /\ Cardinality(Under(S, Ordered(S)[n])) = n - 1
  BY OrderedNth
<1>4. /\ Ordered(T) \in Seq(T) /\ Len(Ordered(T)) = c + 1
      /\ \A n \in 1 .. c + 1 :
           Ordered(T)[n] \in T /\ Cardinality(Under(T, Ordered(T)[n])) = n - 1
  <2> HIDE DEF T, c
  <2> QED BY <1>2, OrderedNth
<1>5. /\ a \in Seq(T) /\ Len(a) = c + 1 /\ a[c + 1] = x
      /\ \A n \in 1 .. c : a[n] = Ordered(S)[n]
  <2>1. S \subseteq T /\ x \in T
    OBVIOUS
  <2> HIDE DEF T, c
  <2>2. Ordered(S) \in Seq(T)
    BY <1>3, <2>1, SeqOfMore
  <2> QED BY <1>3, <2>1, <2>2, AppendProperties
<1> HIDE DEF c, a
<1>6. ASSUME NEW n \in 1 .. c + 1
      PROVE  Ordered(T)[n] = a[n]
  <2>1. a[n] \in T /\ Cardinality(Under(T, a[n])) = n - 1
    <3>1. CASE n = c + 1
      <4>1. Under(T, x) = S
        <5>1. ~(x < x)
          OBVIOUS
        <5> QED BY <5>1 DEF Under
      <4> QED BY <1>3, <1>5, <3>1, <4>1 DEF c
    <3>2. CASE n # c + 1
      <4>1. n \in 1 .. c /\ a[n] = Ordered(S)[n] /\ a[n] \in S
        BY <1>3, <1>5, <3>2
      <4>2. Under(T, a[n]) = Under(S, a[n])
        <5>1. PICK y \in S : y = a[n]
          BY <4>1
        <5>2. y \in Nat /\ ~(x < y)
          OBVIOUS
        <5> QED BY <5>1, <5>2 DEF Under
      <4> QED BY <1>3, <4>1, <4>2
    <3> QED BY <3>1, <3>2
  <2> HIDE DEF T
  <2>2. /\ Ordered(T)[n] \in T
        /\ Cardinality(Under(T, Ordered(T)[n])) = Cardinality(Under(T, a[n]))
    BY <1>4, <2>1
  <2> QED BY <1>2, <2>1, <2>2, NthIsOne
<1> HIDE DEF T
<1>7. Ordered(T) = a
  BY <1>4, <1>5, <1>6, SeqEqual
<1> QED BY <1>7 DEF T, a

LEMMA OrderedEmpty == Ordered({}) = << >>
<1>1. Cardinality({}) = 0
  BY FS_EmptySet
<1> QED BY <1>1 DEF Ordered

-----------------------------------------------------------------------------
(* The deltas of one line *)

Delta == [index : Nat, named : BOOLEAN]

\* What tool_calls_by_index may be.
Table == UNION {[D -> ToolCall] : D \in SUBSET Nat}

AddDeltas(cs, deltas, i) == FoldLeft(LAMBDA c, d : AddDelta(c, d, i), cs, deltas)

\* The call of an index, also if there is none yet.
CallIn(cs, x) == IF x \in DOMAIN cs THEN cs[x] ELSE [id |-> 0, arguments |-> << >>]

LEMMA TableFacts ==
  ASSUME NEW cs \in Table
  PROVE  /\ DOMAIN cs \in SUBSET Nat /\ cs \in [DOMAIN cs -> ToolCall]
         /\ \A x : CallIn(cs, x) \in ToolCall
<1>1. PICK D \in SUBSET Nat : cs \in [D -> ToolCall]
  BY DEF Table
<1>2. [id |-> 0, arguments |-> << >>] \in ToolCall
  BY DEF ToolCall
<1> QED BY <1>1, <1>2 DEF CallIn

\* What one delta does to the table.
LEMMA AddDeltaIs ==
  ASSUME NEW cs \in Table, NEW d \in Delta, NEW i \in Nat
  PROVE  /\ AddDelta(cs, d, i) \in Table
         /\ DOMAIN AddDelta(cs, d, i) = DOMAIN cs \cup {d.index}
         /\ \A x : x # d.index => CallIn(AddDelta(cs, d, i), x) = CallIn(cs, x)
         /\ CallIn(AddDelta(cs, d, i), d.index) =
              [id        |-> IF d.named THEN i ELSE CallIn(cs, d.index).id,
               arguments |-> Append(CallIn(cs, d.index).arguments, i)]
<1> DEFINE D == DOMAIN cs \cup {d.index}
           old == CallIn(cs, d.index)
           new == [id        |-> IF d.named THEN i ELSE old.id,
                   arguments |-> Append(old.arguments, i)]
           t == AddDelta(cs, d, i)
<1>1. d.index \in Nat /\ d.named \in BOOLEAN
  BY DEF Delta
<1>2. DOMAIN cs \in SUBSET Nat /\ cs \in [DOMAIN cs -> ToolCall] /\ old \in ToolCall
  BY TableFacts
<1>3. t = [x \in D |-> IF x = d.index THEN new ELSE cs[x]]
  BY Zenon DEF AddDelta, CallIn
<1>4. new \in ToolCall
  <2> HIDE DEF old
  <2>1. old.id \in Nat /\ old.arguments \in Seq(Nat)
    BY <1>2 DEF ToolCall
  <2>2. Append(old.arguments, i) \in Seq(Nat)
    BY <2>1, AppendProperties
  <2> QED BY <2>1, <2>2 DEF ToolCall
<1> HIDE DEF old, new, t
<1>5. D \in SUBSET Nat /\ t \in [D -> ToolCall]
  BY <1>1, <1>2, <1>3, <1>4
<1>6. t \in Table
  BY <1>5 DEF Table
<1>7. /\ DOMAIN t = D
      /\ \A x : x # d.index => CallIn(t, x) = CallIn(cs, x)
      /\ CallIn(t, d.index) = new
  BY <1>3 DEF CallIn
<1> QED BY <1>6, <1>7 DEF t, new, old

LEMMA AddDeltasAppend ==
  ASSUME NEW cs \in Table, NEW i \in Nat, NEW deltas \in Seq(Delta), NEW d \in Delta
  PROVE  /\ AddDeltas(cs, << >>, i) = cs
         /\ AddDeltas(cs, deltas, i) \in Table
         /\ AddDeltas(cs, Append(deltas, d), i) = AddDelta(AddDeltas(cs, deltas, i), d, i)
<1> DEFINE H == [x \in Delta |-> [c \in Table |-> AddDelta(c, x, i)]]
<1>1. H \in [Delta -> [Table -> Table]]
  BY AddDeltaIs
<1>2. ASSUME NEW seq \in Seq(Delta)
      PROVE  \E f : /\ FoldsFor(Table, f, seq, cs, H)
                    /\ AddDeltas(cs, seq, i) = f[DOMAIN seq]
  <2> DEFINE Eq(h) ==
        h = [s \in SUBSET (DOMAIN seq) |->
               IF s = {} THEN cs ELSE AddDelta(h[s \ {Max(s)}], seq[Max(s)], i)]
  <2>1. PICK f \in [SUBSET (DOMAIN seq) -> Table] : FoldOver(Table, f, seq, cs, H)
    <3> HIDE DEF H
    <3> QED BY <1>1, FoldForExists
  <2>2. Eq(f)
    <3>1. ASSUME NEW s \in SUBSET (DOMAIN seq), s # {}
          PROVE  f[s] = AddDelta(f[s \ {Max(s)}], seq[Max(s)], i)
      <4>1. /\ Max(s) \in DOMAIN seq /\ f[s \ {Max(s)}] \in Table
            /\ f[s] = H[seq[Max(s)]][f[s \ {Max(s)}]]
        BY <2>1, <3>1 DEF FoldOver
      <4>2. seq[Max(s)] \in Delta
        BY <4>1
      <4> QED BY <4>1, <4>2
    <3>2. f[{}] = cs
      BY <2>1 DEF FoldOver
    <3> QED BY <3>1, <3>2
  <2>3. Eq(CHOOSE h : Eq(h))
    <3> HIDE DEF Eq
    <3> QED BY <2>2, Zenon
  <2>4. AddDeltas(cs, seq, i) = (CHOOSE h : Eq(h))[DOMAIN seq]
    BY DEF AddDeltas, FoldLeft, MapThenFoldSet
  <2> DEFINE g == CHOOSE h : Eq(h)
  <2>5. FoldsFor(Table, g, seq, cs, H)
    <3> HIDE DEF g
    <3>1. Eq(g)
      BY <2>3 DEF g
    <3>2. g[{}] = cs
      BY <3>1
    <3>3. ASSUME NEW s \in SUBSET (DOMAIN seq), s # {}, g[s \ {Max(s)}] \in Table
          PROVE  g[s] = H[seq[Max(s)]][g[s \ {Max(s)}]]
      <4>1. g[s] = AddDelta(g[s \ {Max(s)}], seq[Max(s)], i)
        BY <3>1, <3>3
      <4>2. seq[Max(s)] \in Delta
        <5>1. Max(s) \in DOMAIN seq
          BY <2>1, <3>3 DEF FoldOver
        <5> QED BY <5>1
      <4> QED BY <4>1, <4>2, <3>3
    <3> QED BY <3>2, <3>3 DEF FoldsFor
  <2> QED BY <2>4, <2>5
<1> HIDE DEF H
<1>3. AddDeltas(cs, << >>, i) = cs
  <2>1. << >> \in Seq(Delta)
    OBVIOUS
  <2> QED BY <1>2, <2>1, FoldForEmpty
<1>4. PICK f : /\ FoldsFor(Table, f, deltas, cs, H)
               /\ AddDeltas(cs, deltas, i) = f[DOMAIN deltas]
  BY <1>2
<1>5. PICK g : /\ FoldsFor(Table, g, Append(deltas, d), cs, H)
               /\ AddDeltas(cs, Append(deltas, d), i) = g[DOMAIN Append(deltas, d)]
  <2>1. Append(deltas, d) \in Seq(Delta)
    BY AppendProperties
  <2> QED BY <1>2, <2>1
<1>6. StepsTo(Table, f, g, deltas, d, H)
  BY <1>1, <1>4, <1>5, FoldForAppend
<1> QED BY <1>3, <1>4, <1>5, <1>6 DEF H, StepsTo

-----------------------------------------------------------------------------
(* All deltas of one line *)

Indexed(p) == {p[m].index : m \in DOMAIN p}

Names(p, x) == \E m \in DOMAIN p : p[m].index = x /\ p[m].named

Matching(p, x) == {m \in DOMAIN p : p[m].index = x}

Repeat(c, i) == [m \in 1 .. c |-> i]

LEMMA DeltasEmpty ==
  /\ Indexed(<< >>) = {}
  /\ \A x : ~Names(<< >>, x) /\ Cardinality(Matching(<< >>, x)) = 0
<1>1. \A x : Matching(<< >>, x) = {}
  BY DEF Matching
<1> QED BY <1>1, FS_EmptySet DEF Indexed, Names

LEMMA DeltasFinite ==
  ASSUME NEW p \in Seq(Delta), NEW x
  PROVE  /\ IsFiniteSet(Matching(p, x)) /\ Cardinality(Matching(p, x)) \in Nat
         /\ IsFiniteSet(Indexed(p)) /\ Indexed(p) \in SUBSET Nat
<1>1. IsFiniteSet(DOMAIN p)
  <2>1. DOMAIN p = 1 .. Len(p) /\ Len(p) \in Nat
    OBVIOUS
  <2> QED BY <2>1, FS_Interval
<1>2. Matching(p, x) \in SUBSET (DOMAIN p)
  BY DEF Matching
<1>3. ASSUME NEW m \in DOMAIN p
      PROVE  p[m].index \in Nat
  <2>1. p[m] \in Delta
    OBVIOUS
  <2> QED BY <2>1 DEF Delta
<1>4. Indexed(p) \in SUBSET Nat
  BY <1>3 DEF Indexed
<1>5. IsFiniteSet(Indexed(p))
  <2> DEFINE f == [m \in DOMAIN p |-> p[m].index]
  <2>1. f \in [DOMAIN p -> Indexed(p)]
    BY DEF Indexed
  <2>2. \A y \in Indexed(p) : \E m \in DOMAIN p : f[m] = y
    BY DEF Indexed
  <2> HIDE DEF f
  <2>3. f \in Surjection(DOMAIN p, Indexed(p))
    BY <2>1, <2>2 DEF Surjection
  <2> QED BY <1>1, <2>3, FS_Surjection
<1> QED BY <1>1, <1>2, <1>4, <1>5, FS_Subset, FS_CardinalityType

LEMMA DeltasAppend ==
  ASSUME NEW p \in Seq(Delta), NEW d \in Delta, NEW x
  PROVE  /\ Indexed(Append(p, d)) = Indexed(p) \cup {d.index}
         /\ Names(Append(p, d), x) <=> (Names(p, x) \/ (d.index = x /\ d.named))
         /\ Cardinality(Matching(Append(p, d), x)) =
              Cardinality(Matching(p, x)) + (IF d.index = x THEN 1 ELSE 0)
<1> DEFINE q == Append(p, d)
           n == Len(p)
<1>1. /\ DOMAIN q = DOMAIN p \cup {n + 1} /\ n + 1 \notin DOMAIN p
      /\ q[n + 1] = d /\ \A m \in DOMAIN p : q[m] = p[m]
  OBVIOUS
<1> HIDE DEF q, n
<1>2. Indexed(q) = Indexed(p) \cup {d.index}
  BY <1>1 DEF Indexed
<1>3. Names(q, x) <=> (Names(p, x) \/ (d.index = x /\ d.named))
  BY <1>1, Zenon DEF Names
<1>4. CASE d.index = x
  <2>1. Matching(q, x) = Matching(p, x) \cup {n + 1} /\ n + 1 \notin Matching(p, x)
    BY <1>1, <1>4 DEF Matching
  <2>2. Cardinality(Matching(q, x)) = Cardinality(Matching(p, x)) + 1
    BY <2>1, DeltasFinite, FS_AddElement
  <2> QED BY <1>2, <1>3, <1>4, <2>2 DEF q
<1>5. CASE d.index # x
  <2>1. Matching(q, x) = Matching(p, x)
    BY <1>1, <1>5 DEF Matching
  <2>2. Cardinality(Matching(q, x)) = Cardinality(Matching(p, x)) + 0
    BY <2>1, DeltasFinite
  <2> QED BY <1>2, <1>3, <1>5, <2>2 DEF q
<1> QED BY <1>4, <1>5

LEMMA RepeatMore ==
  ASSUME NEW X, NEW i \in X, NEW c \in Nat
  PROVE  /\ Repeat(c, i) \in Seq(X)
         /\ \A s \in Seq(X) : s \o Repeat(0, i) = s
BY DEF Repeat

LEMMA RepeatAfter ==
  ASSUME NEW X, NEW i \in X, NEW c \in Nat, NEW s \in Seq(X)
  PROVE  s \o Repeat(c + 1, i) = Append(s \o Repeat(c, i), i)
BY DEF Repeat

\* What the deltas p of line i make of a table: t.
IsAfter(cs, p, i, t) ==
  /\ t \in Table
  /\ DOMAIN t = DOMAIN cs \cup Indexed(p)
  /\ \A x : /\ CallIn(t, x).id = IF Names(p, x) THEN i ELSE CallIn(cs, x).id
            /\ CallIn(t, x).arguments =
                 CallIn(cs, x).arguments \o Repeat(Cardinality(Matching(p, x)), i)

LEMMA AddDeltasAre ==
  ASSUME NEW cs \in Table, NEW p \in Seq(Delta), NEW i \in Nat
  PROVE  IsAfter(cs, p, i, AddDeltas(cs, p, i))
<1> DEFINE T(m) == AddDeltas(cs, SubSeq(p, 1, m), i)
           S == {m \in 0 .. Len(p) : IsAfter(cs, SubSeq(p, 1, m), i, T(m))}
<1>0. \A x : CallIn(cs, x).id \in Nat /\ CallIn(cs, x).arguments \in Seq(Nat)
  BY TableFacts DEF ToolCall
<1>1. 0 \in S
  <2>1. SubSeq(p, 1, 0) = << >>
    BY WholePrefix
  <2>2. << >> \in Seq(Delta) /\ \E d : d \in Delta
    <3>1. [index |-> 0, named |-> TRUE] \in Delta
      BY DEF Delta
    <3> QED BY <3>1
  <2>3. T(0) = cs
    BY <2>1, <2>2, AddDeltasAppend
  <2>4. \A x : CallIn(cs, x).arguments \o Repeat(0, i) = CallIn(cs, x).arguments
    BY <1>0, RepeatMore
  <2>5. IsAfter(cs, << >>, i, cs)
    BY <2>4, DeltasEmpty DEF IsAfter
  <2>6. 0 \in 0 .. Len(p)
    OBVIOUS
  <2> QED BY <2>1, <2>3, <2>5, <2>6
<1>2. ASSUME NEW m \in 0 .. Len(p) - 1, m \in S
      PROVE  m + 1 \in S
  <2> DEFINE r == SubSeq(p, 1, m)
             d == p[m + 1]
             t == T(m)
             u == T(m + 1)
  <2>1. /\ r \in Seq(Delta) /\ d \in Delta
        /\ SubSeq(p, 1, m + 1) = Append(r, d) /\ m + 1 \in 0 .. Len(p)
    BY PrefixAppend
  <2>2. IsAfter(cs, r, i, t)
    BY <1>2
  <2> HIDE DEF r, d
  <2>3. AddDeltas(cs, Append(r, d), i) = AddDelta(AddDeltas(cs, r, i), d, i)
    BY <2>1, AddDeltasAppend
  <2>9. u = AddDelta(t, d, i)
    BY <2>1, <2>3 DEF r
  <2> HIDE DEF t, u
  <2>4. t \in Table
    BY <2>2 DEF IsAfter
  <2>5. /\ u \in Table /\ DOMAIN u = DOMAIN t \cup {d.index}
        /\ \A x : x # d.index => CallIn(u, x) = CallIn(t, x)
        /\ CallIn(u, d.index) =
              [id        |-> IF d.named THEN i ELSE CallIn(t, d.index).id,
               arguments |-> Append(CallIn(t, d.index).arguments, i)]
    <3>1. \A s \in Table, e \in Delta :
            /\ AddDelta(s, e, i) \in Table
            /\ DOMAIN AddDelta(s, e, i) = DOMAIN s \cup {e.index}
            /\ \A x : x # e.index => CallIn(AddDelta(s, e, i), x) = CallIn(s, x)
            /\ CallIn(AddDelta(s, e, i), e.index) =
                 [id        |-> IF e.named THEN i ELSE CallIn(s, e.index).id,
                  arguments |-> Append(CallIn(s, e.index).arguments, i)]
      BY AddDeltaIs
    <3> QED BY <2>1, <2>9, <2>4, <3>1
  <2>6. DOMAIN u = DOMAIN cs \cup Indexed(Append(r, d))
    BY <2>1, <2>2, <2>5, DeltasAppend DEF IsAfter
  <2>7. ASSUME NEW x
        PROVE  /\ CallIn(u, x).id =
                    IF Names(Append(r, d), x) THEN i ELSE CallIn(cs, x).id
               /\ CallIn(u, x).arguments =
                    CallIn(cs, x).arguments \o
                      Repeat(Cardinality(Matching(Append(r, d), x)), i)
    <3> DEFINE c == Cardinality(Matching(r, x))
               a == CallIn(cs, x).arguments
    <3>1. /\ CallIn(t, x).id = IF Names(r, x) THEN i ELSE CallIn(cs, x).id
          /\ CallIn(t, x).arguments = a \o Repeat(c, i)
      BY <2>2 DEF IsAfter
    <3>2. c \in Nat /\ a \in Seq(Nat)
      BY <1>0, <2>1, DeltasFinite
    <3>3. /\ Names(Append(r, d), x) <=> (Names(r, x) \/ (d.index = x /\ d.named))
          /\ Cardinality(Matching(Append(r, d), x)) =
               c + (IF d.index = x THEN 1 ELSE 0)
      BY <2>1, DeltasAppend
    <3> HIDE DEF c, a
    <3>4. CASE x = d.index
      <4>1. a \o Repeat(c + 1, i) = Append(a \o Repeat(c, i), i)
        BY <3>2, RepeatAfter
      <4>2. CallIn(u, x).id = IF d.named THEN i ELSE CallIn(t, x).id
        BY <2>5, <3>4
      <4>3. CallIn(u, x).arguments = Append(CallIn(t, x).arguments, i)
        BY <2>5, <3>4
      <4>4. d.named \in BOOLEAN /\ Cardinality(Matching(Append(r, d), x)) = c + 1
        BY <2>1, <3>3, <3>4 DEF Delta
      <4>5. CallIn(u, x).id = IF Names(Append(r, d), x) THEN i ELSE CallIn(cs, x).id
        BY <3>1, <3>3, <3>4, <4>2, <4>4, Zenon
      <4> QED BY <3>1, <4>1, <4>3, <4>4, <4>5 DEF a
    <3>5. CASE x # d.index
      <4>1. CallIn(u, x) = CallIn(t, x)
        BY <2>5, <3>5
      <4>2. Cardinality(Matching(Append(r, d), x)) = c
        BY <3>2, <3>3, <3>5
      <4>3. Names(Append(r, d), x) <=> Names(r, x)
        BY <3>3, <3>5, Zenon
      <4> QED BY <3>1, <4>1, <4>2, <4>3 DEF a
    <3> QED BY <3>4, <3>5
  <2>8. IsAfter(cs, Append(r, d), i, u)
    BY <2>5, <2>6, <2>7 DEF IsAfter
  <2> QED BY <2>1, <2>8 DEF r, d, u
<1> HIDE DEF S
<1>3. \A m \in 0 .. Len(p) : m \in S
  <2>1. Len(p) \in Nat
    OBVIOUS
  <2> QED BY <1>1, <1>2, <2>1, InductionUpTo
<1>4. Len(p) \in S
  BY <1>3
<1>5. SubSeq(p, 1, Len(p)) = p
  BY WholePrefix
<1> QED BY <1>4, <1>5 DEF S

-----------------------------------------------------------------------------
(* What one more line adds to what the lines mean *)

Deltas(i) == body.lines[i].deltas

Touched(k) == {x \in Indices : \E i \in 1 .. k : Touches(i, x) > 0}

LEMMA LineFacts ==
  ASSUME body \in Body
  PROVE  /\ Len(body.lines) \in Nat
         /\ \A i \in 1 .. Len(body.lines) :
              /\ i \in Nat /\ body.lines[i] \in Line /\ Deltas(i) \in Seq(Delta)
              /\ body.lines[i].text \in BOOLEAN /\ body.lines[i].odd \in BOOLEAN
              /\ Deltas(i) = body.lines[i].deltas
<1>1. body.lines \in Seq(Line)
  BY DEF Body
<1>2. ASSUME NEW i \in 1 .. Len(body.lines)
      PROVE  body.lines[i] \in Line
  BY <1>1
<1>3. ASSUME NEW l \in Line
      PROVE  l.deltas \in Seq(Delta) /\ l.text \in BOOLEAN /\ l.odd \in BOOLEAN
  BY DEF Line, Delta
<1>4. Len(body.lines) \in Nat /\ \A i \in 1 .. Len(body.lines) : i \in Nat
  BY <1>1
<1> QED BY <1>2, <1>3, <1>4 DEF Deltas

LEMMA TouchesAre ==
  ASSUME body \in Body, NEW i \in 1 .. Len(body.lines), NEW x
  PROVE  /\ Touches(i, x) = Cardinality(Matching(Deltas(i), x)) /\ Touches(i, x) \in Nat
         /\ Touches(i, x) > 0 <=> x \in Indexed(Deltas(i))
         /\ Names(Deltas(i), x) => Touches(i, x) > 0
         /\ (\E d \in Range(Deltas(i)) : d.index = x /\ d.named) <=> Names(Deltas(i), x)
<1> DEFINE p == Deltas(i)
<1>1. p \in Seq(Delta)
  BY LineFacts
<1>2. Touches(i, x) = Cardinality(Matching(p, x))
  BY DEF Touches, Matching, Deltas
<1> HIDE DEF p
<1>3. /\ IsFiniteSet(Matching(p, x)) /\ Cardinality(Matching(p, x)) \in Nat
  BY <1>1, DeltasFinite
<1>4. Cardinality(Matching(p, x)) = 0 <=> Matching(p, x) = {}
  BY <1>3, FS_EmptySet
<1>5. Matching(p, x) # {} <=> x \in Indexed(p)
  BY DEF Matching, Indexed
<1>6. Names(p, x) => x \in Indexed(p)
  BY DEF Names, Indexed
<1>7. (\E d \in Range(p) : d.index = x /\ d.named) <=> Names(p, x)
  BY Zenon DEF Names, Range
<1>8. Touches(i, x) > 0 <=> x \in Indexed(p)
  BY <1>2, <1>3, <1>4, <1>5
<1> QED BY <1>2, <1>3, <1>6, <1>7, <1>8 DEF p

LEMMA IndicesAreNumbers == body \in Body => Indices \in SUBSET Nat
<1> SUFFICES ASSUME body \in Body, NEW x \in Indices
             PROVE  x \in Nat
  OBVIOUS
<1>1. PICK i \in 1 .. Len(body.lines) : x \in {d.index : d \in Range(body.lines[i].deltas)}
  BY DEF Indices
<1>2. PICK m \in DOMAIN Deltas(i) : x = Deltas(i)[m].index
  BY <1>1 DEF Deltas, Range
<1>3. Deltas(i) \in Seq(Delta)
  BY LineFacts
<1>4. Deltas(i)[m] \in Delta
  BY <1>3
<1> QED BY <1>2, <1>4 DEF Delta

LEMMA TouchedGrows ==
  ASSUME body \in Body
  PROVE  /\ Touched(0) = {}
         /\ \A k \in 0 .. Len(body.lines) - 1 :
              Touched(k + 1) = Touched(k) \cup Indexed(Deltas(k + 1))
<1>1. Touched(0) = {}
  BY DEF Touched
<1>2. ASSUME NEW k \in 0 .. Len(body.lines) - 1
      PROVE  Touched(k + 1) = Touched(k) \cup Indexed(Deltas(k + 1))
  <2>1. /\ k + 1 \in 1 .. Len(body.lines)
        /\ 1 .. k + 1 = (1 .. k) \cup {k + 1}
    BY LineFacts
  <2>2. \A x : Touches(k + 1, x) > 0 <=> x \in Indexed(Deltas(k + 1))
    BY <2>1, TouchesAre
  <2>3. Indexed(Deltas(k + 1)) \subseteq Indices
    <3> SUFFICES ASSUME NEW x \in Indexed(Deltas(k + 1))
                 PROVE  x \in Indices
      OBVIOUS
    <3>1. PICK m \in DOMAIN Deltas(k + 1) : x = Deltas(k + 1)[m].index
      BY DEF Indexed
    <3>2. \E d \in Range(body.lines[k + 1].deltas) : x = d.index
      BY <3>1 DEF Deltas, Range
    <3> DEFINE I(i) == {d.index : d \in Range(body.lines[i].deltas)}
    <3>3. x \in I(k + 1)
      BY <3>2
    <3>4. Indices = UNION {I(i) : i \in 1 .. Len(body.lines)}
      BY DEF Indices
    <3> HIDE DEF I
    <3> QED BY <2>1, <3>3, <3>4
  <2>4. ASSUME NEW x
        PROVE  x \in Touched(k + 1) <=> x \in Touched(k) \cup Indexed(Deltas(k + 1))
    <3>1. (\E i \in 1 .. k + 1 : Touches(i, x) > 0)
             <=> ((\E i \in 1 .. k : Touches(i, x) > 0) \/ Touches(k + 1, x) > 0)
      <4> HIDE DEF Touches
      <4> QED BY <2>1, Zenon
    <3> QED BY <2>2, <2>3, <3>1, Zenon DEF Touched
  <2> QED BY <2>4
<1> QED BY <1>1, <1>2

LEMMA TextGrows ==
  ASSUME body \in Body
  PROVE  /\ TextOf(1 .. 0) = << >>
         /\ \A k \in 0 .. Len(body.lines) : TextOf(1 .. k) \in Seq(1 .. k)
         /\ \A k \in 0 .. Len(body.lines) - 1 :
              TextOf(1 .. k + 1) = IF body.lines[k + 1].text
                                   THEN Append(TextOf(1 .. k), k + 1) ELSE TextOf(1 .. k)
<1> DEFINE S(k) == {i \in 1 .. k : body.lines[i].text}
<1>1. ASSUME NEW k \in 0 .. Len(body.lines)
      PROVE  S(k) \in SUBSET Nat /\ IsFiniteSet(S(k)) /\ S(k) \subseteq 1 .. k /\ k \in Nat
  <2>1. S(k) \in SUBSET (1 .. k) /\ k \in Nat
    OBVIOUS
  <2>2. IsFiniteSet(1 .. k)
    BY <2>1, FS_Interval
  <2> QED BY <2>1, <2>2, FS_Subset
<1>2. ASSUME NEW k \in 0 .. Len(body.lines)
      PROVE  TextOf(1 .. k) = Ordered(S(k)) /\ TextOf(1 .. k) \in Seq(1 .. k)
  <2>1. TextOf(1 .. k) = Ordered(S(k))
    BY DEF TextOf
  <2> HIDE DEF S
  <2>2. Ordered(S(k)) \in Seq(S(k))
    BY <1>1, OrderedNth
  <2> QED BY <1>1, <2>1, <2>2, SeqOfMore
<1>3. S(0) = {} /\ 0 \in 0 .. Len(body.lines)
  BY LineFacts
<1>4. ASSUME NEW k \in 0 .. Len(body.lines) - 1
      PROVE  TextOf(1 .. k + 1) = IF body.lines[k + 1].text
                                  THEN Append(TextOf(1 .. k), k + 1) ELSE TextOf(1 .. k)
  <2>1. /\ k \in 0 .. Len(body.lines) /\ k + 1 \in 0 .. Len(body.lines) /\ k + 1 \in Nat
        /\ k + 1 \in 1 .. Len(body.lines) /\ k \in Nat
        /\ 1 .. k + 1 = (1 .. k) \cup {k + 1}
    BY LineFacts
  <2>2. TextOf(1 .. k) = Ordered(S(k)) /\ TextOf(1 .. k + 1) = Ordered(S(k + 1))
    BY <1>2, <2>1
  <2>3. CASE body.lines[k + 1].text
    <3>1. S(k + 1) = S(k) \cup {k + 1}
      BY <2>1, <2>3
    <3>2. S(k) \in SUBSET Nat /\ IsFiniteSet(S(k)) /\ S(k) \subseteq 1 .. k
      BY <1>1, <2>1
    <3> HIDE DEF S
    <3>3. \A y \in S(k) : y < k + 1
      BY <2>1, <3>2
    <3>4. Ordered(S(k) \cup {k + 1}) = Append(Ordered(S(k)), k + 1)
      BY <2>1, <3>2, <3>3, OrderedAppend
    <3> QED BY <2>2, <2>3, <3>1, <3>4
  <2>4. CASE ~body.lines[k + 1].text
    <3>1. S(k + 1) = S(k)
      BY <2>1, <2>4
    <3> QED BY <2>2, <2>4, <3>1
  <2> QED BY <2>3, <2>4
<1> HIDE DEF S
<1>5. TextOf(1 .. 0) = << >>
  BY <1>2, <1>3, OrderedEmpty
<1> QED BY <1>2, <1>4, <1>5

\* The lines among the first k that add to the call x, those of them that name it,
\* and the pieces of arguments each of them brings.
Mine(k, x) == {i \in 1 .. k : Touches(i, x) > 0}

Naming(k, x) == {i \in Mine(k, x) : Names(Deltas(i), x)}

PiecesOf(mine, x) ==
  [n \in 1 .. Cardinality(mine) |->
     [m \in 1 .. Touches(Ordered(mine)[n], x) |-> Ordered(mine)[n]]]

LEMMA CallOfIs ==
  ASSUME body \in Body, NEW k \in 0 .. Len(body.lines), NEW x
  PROVE  /\ Mine(k, x) \in SUBSET (1 .. k) /\ IsFiniteSet(Mine(k, x))
         /\ Mine(k, x) \in SUBSET Nat
         /\ Naming(k, x) \in SUBSET (1 .. k)
         /\ k \in Nat
         /\ CallOf(1 .. k, x) =
              [id        |-> IF Naming(k, x) = {} THEN 0 ELSE Max(Naming(k, x)),
               arguments |-> FlattenSeq(PiecesOf(Mine(k, x), x))]
<1>1. Mine(k, x) \in SUBSET (1 .. k) /\ Naming(k, x) \in SUBSET (1 .. k) /\ k \in Nat
  BY DEF Mine, Naming
<1>2. IsFiniteSet(1 .. k)
  BY <1>1, FS_Interval
<1>3. IsFiniteSet(Mine(k, x))
  BY <1>1, <1>2, FS_Subset
<1>4. {i \in Mine(k, x) : \E d \in Range(body.lines[i].deltas) : d.index = x /\ d.named}
        = Naming(k, x)
  <2>1. \A i \in Mine(k, x) : i \in 1 .. Len(body.lines)
    BY <1>1, LineFacts
  <2>2. \A i \in Mine(k, x) :
          (\E d \in Range(body.lines[i].deltas) : d.index = x /\ d.named)
             <=> Names(Deltas(i), x)
    <3>1. ASSUME NEW i \in Mine(k, x)
          PROVE  (\E d \in Range(Deltas(i)) : d.index = x /\ d.named)
                    <=> Names(Deltas(i), x)
      BY <2>1, TouchesAre
    <3> QED BY <3>1 DEF Deltas
  <2> QED BY <2>2, Zenon DEF Naming
<1>5. CallOf(1 .. k, x) =
        [id        |-> IF Naming(k, x) = {} THEN 0 ELSE Max(Naming(k, x)),
         arguments |-> FlattenSeq(PiecesOf(Mine(k, x), x))]
  BY <1>4, Zenon DEF CallOf, Mine, PiecesOf
<1>6. Mine(k, x) \in SUBSET Nat
  BY <1>1
<1> QED BY <1>1, <1>3, <1>5, <1>6

LEMMA PiecesAre ==
  ASSUME body \in Body, NEW k \in 0 .. Len(body.lines), NEW x
  PROVE  /\ PiecesOf(Mine(k, x), x) \in Seq(Seq(Nat))
         /\ Len(PiecesOf(Mine(k, x), x)) = Cardinality(Mine(k, x))
<1> DEFINE S == Mine(k, x)
           c == Cardinality(S)
           o == Ordered(S)
<1>1. S \in SUBSET (1 .. k) /\ IsFiniteSet(S) /\ S \in SUBSET Nat /\ k \in Nat
  BY CallOfIs
<1> HIDE DEF S
<1>2. c \in Nat /\ o \in Seq(S) /\ \A n \in 1 .. c : o[n] \in S
  BY <1>1, OrderedNth
<1> HIDE DEF c, o
<1>3. ASSUME NEW n \in 1 .. c
      PROVE  [m \in 1 .. Touches(o[n], x) |-> o[n]] \in Seq(Nat)
  <2>1. PICK i \in 1 .. Len(body.lines) : i = o[n]
    <3>1. o[n] \in S /\ 1 .. k \subseteq 1 .. Len(body.lines)
      BY <1>2, LineFacts
    <3> QED BY <1>1, <3>1
  <2>2. Touches(i, x) \in Nat /\ i \in Nat
    BY TouchesAre
  <2>3. Repeat(Touches(i, x), i) \in Seq(Nat)
    BY <2>2, RepeatMore
  <2> QED BY <2>1, <2>3 DEF Repeat
<1>4. PiecesOf(S, x) = [n \in 1 .. c |-> [m \in 1 .. Touches(o[n], x) |-> o[n]]]
  BY DEF PiecesOf, c, o
<1>5. PiecesOf(S, x) \in Seq(Seq(Nat)) /\ Len(PiecesOf(S, x)) = c
  BY <1>2, <1>3, <1>4
<1> QED BY <1>5 DEF S, c

\* The call x of the first k lines, and of one line more.
LEMMA CallGrows ==
  ASSUME body \in Body, NEW k \in 0 .. Len(body.lines) - 1, NEW x
  PROVE  LET p == Deltas(k + 1) IN
         /\ CallOf(1 .. k + 1, x).id =
              IF Names(p, x) THEN k + 1 ELSE CallOf(1 .. k, x).id
         /\ CallOf(1 .. k + 1, x).arguments =
              CallOf(1 .. k, x).arguments
                \o Repeat(Cardinality(Matching(p, x)), k + 1)
<1> DEFINE i == k + 1
           p == Deltas(i)
           S == Mine(k, x)
           T == Mine(i, x)
           a == PiecesOf(S, x)
           b == PiecesOf(T, x)
           r == Repeat(Touches(i, x), i)
<1>1. /\ k \in 0 .. Len(body.lines) /\ i \in 0 .. Len(body.lines) /\ k \in Nat
      /\ i \in 1 .. Len(body.lines) /\ i \in Nat
      /\ 1 .. i = (1 .. k) \cup {i} /\ \A y \in 1 .. k : y < i
  BY LineFacts
<1>2. /\ S \in SUBSET (1 .. k) /\ IsFiniteSet(S) /\ S \in SUBSET Nat
      /\ Naming(k, x) \in SUBSET (1 .. k)
      /\ CallOf(1 .. k, x).id = IF Naming(k, x) = {} THEN 0 ELSE Max(Naming(k, x))
      /\ CallOf(1 .. k, x).arguments = FlattenSeq(a)
  <2> HIDE DEF i
  <2> DEFINE u == IF Naming(k, x) = {} THEN 0 ELSE Max(Naming(k, x))
             v == FlattenSeq(PiecesOf(Mine(k, x), x))
  <2>1. CallOf(1 .. k, x) = [id |-> u, arguments |-> v]
    BY <1>1, CallOfIs
  <2>2. CallOf(1 .. k, x).id = u /\ CallOf(1 .. k, x).arguments = v
    <3> HIDE DEF u, v
    <3> QED BY <2>1
  <2> QED BY <1>1, <2>2, CallOfIs
<1>3. /\ T \in SUBSET (1 .. i) /\ IsFiniteSet(T) /\ T \in SUBSET Nat
      /\ Naming(i, x) \in SUBSET (1 .. i)
      /\ CallOf(1 .. i, x).id = IF Naming(i, x) = {} THEN 0 ELSE Max(Naming(i, x))
      /\ CallOf(1 .. i, x).arguments = FlattenSeq(b)
  <2> HIDE DEF i
  <2> DEFINE u == IF Naming(i, x) = {} THEN 0 ELSE Max(Naming(i, x))
             v == FlattenSeq(PiecesOf(Mine(i, x), x))
  <2>1. CallOf(1 .. i, x) = [id |-> u, arguments |-> v]
    BY <1>1, CallOfIs
  <2>2. CallOf(1 .. i, x).id = u /\ CallOf(1 .. i, x).arguments = v
    <3> HIDE DEF u, v
    <3> QED BY <2>1
  <2> QED BY <1>1, <2>2, CallOfIs
<1>4. /\ a \in Seq(Seq(Nat)) /\ Len(a) = Cardinality(S)
      /\ b \in Seq(Seq(Nat)) /\ Len(b) = Cardinality(T)
  <2> HIDE DEF i
  <2> QED BY <1>1, PiecesAre
<1>5. /\ Touches(i, x) = Cardinality(Matching(p, x)) /\ Touches(i, x) \in Nat
      /\ Names(p, x) => Touches(i, x) > 0
  <2> HIDE DEF i
  <2> QED BY <1>1, TouchesAre
<1>6. r \in Seq(Nat)
  <2> HIDE DEF i
  <2> QED BY <1>1, <1>5, RepeatMore
<1>7. CallOf(1 .. i, x).id = IF Names(p, x) THEN i ELSE CallOf(1 .. k, x).id
  <2>1. CASE Names(p, x)
    <3>1. i \in Naming(i, x)
      <4>1. i \in 1 .. i
        BY <1>1
      <4> QED BY <1>5, <2>1, <4>1 DEF Naming, Mine
    <3> HIDE DEF i
    <3>2. Max(Naming(i, x)) \in Naming(i, x) /\ i <= Max(Naming(i, x))
      BY <1>1, <1>3, <3>1, MaxOfNumbers
    <3>3. Max(Naming(i, x)) = i
      BY <1>1, <1>3, <3>2
    <3> QED BY <1>3, <2>1, <3>1, <3>3
  <2>2. CASE ~Names(p, x)
    <3>1. Naming(i, x) = Naming(k, x)
      <4> HIDE DEF i
      <4>1. \A y : y \in Naming(i, x) <=> y \in Naming(k, x)
        BY <1>1, <2>2, Zenon DEF Naming, Mine
      <4> QED BY <4>1
    <3> QED BY <1>2, <1>3, <2>2, <3>1
  <2> QED BY <2>1, <2>2
<1>8. CallOf(1 .. i, x).arguments = CallOf(1 .. k, x).arguments \o r
  <2>1. CASE Touches(i, x) = 0
    <3>1. T = S
      <4> HIDE DEF i
      <4>1. ~(Touches(i, x) > 0)
        BY <2>1
      <4>2. \A y : y \in Mine(i, x) <=> y \in Mine(k, x)
        BY <1>1, <4>1, Zenon DEF Mine
      <4> QED BY <4>2
    <3> HIDE DEF i
    <3>2. FlattenSeq(a) \in Seq(Nat)
      <4> HIDE DEF a
      <4> QED BY <1>4, FlattenAppend
    <3>3. FlattenSeq(a) \o r = FlattenSeq(a)
      <4> HIDE DEF a
      <4> QED BY <1>1, <2>1, <3>2, RepeatMore
    <3> QED BY <1>2, <1>3, <3>1, <3>3
  <2>2. CASE Touches(i, x) # 0
    <3>1. T = S \cup {i}
      <4> HIDE DEF i
      <4>1. Touches(i, x) > 0
        BY <1>5, <2>2
      <4>2. \A y : y \in Mine(i, x) <=> (y \in Mine(k, x) \/ y = i)
        BY <1>1, <4>1, Zenon DEF Mine
      <4> QED BY <4>2
    <3> DEFINE c == Cardinality(S)
    <3>2. /\ Ordered(T) = Append(Ordered(S), i)
          /\ Cardinality(T) = c + 1 /\ c \in Nat
      <4> HIDE DEF i, S, T, c
      <4>1. \A y \in S : y < i
        BY <1>1, <1>2
      <4>2. i \notin S
        BY <1>1, <4>1
      <4>3. Cardinality(S \cup {i}) = Cardinality(S) + 1 /\ Cardinality(S) \in Nat
        BY <1>2, <4>2, FS_AddElement, FS_CardinalityType
      <4> QED BY <1>1, <1>2, <3>1, <4>1, <4>3, OrderedAppend DEF c
    <3>3. /\ \A n \in 1 .. c : Ordered(T)[n] = Ordered(S)[n]
          /\ Ordered(T)[c + 1] = i
      <4> HIDE DEF i, S, T
      <4>1. Ordered(S) \in Seq(S) /\ Len(Ordered(S)) = c
        BY <1>2, OrderedNth
      <4>2. Ordered(S) \in Seq(Nat)
        BY <1>2, <4>1, SeqOfMore
      <4> QED BY <1>1, <3>2, <4>1, <4>2, AppendProperties
    <3>4. \A n \in 1 .. c : b[n] = a[n]
      <4> HIDE DEF i, S, T, c
      <4>1. \A n \in 1 .. c : n \in 1 .. c + 1
        BY <3>2
      <4> QED BY <3>2, <3>3, <4>1 DEF PiecesOf, c
    <3>5. b[c + 1] = r
      <4> HIDE DEF i, S, T, c
      <4>1. c + 1 \in 1 .. c + 1
        BY <3>2
      <4> QED BY <3>2, <3>3, <4>1 DEF PiecesOf, Repeat
    <3>6. b = Append(a, r)
      <4> HIDE DEF a, b, r, S, T
      <4>1. /\ Append(a, r) \in Seq(Seq(Nat)) /\ Len(Append(a, r)) = c + 1
            /\ Append(a, r)[c + 1] = r /\ \A n \in 1 .. c : Append(a, r)[n] = a[n]
        BY <1>4, <1>6, AppendProperties DEF c
      <4>2. Len(b) = c + 1 /\ b \in Seq(Seq(Nat))
        BY <1>4, <3>2
      <4> HIDE DEF c
      <4>3. \A n \in 1 .. c + 1 : b[n] = Append(a, r)[n]
        BY <3>2, <3>4, <3>5, <4>1
      <4> QED BY <4>1, <4>2, <4>3, SeqEqual
    <3>7. FlattenSeq(Append(a, r)) = FlattenSeq(a) \o r
      <4> HIDE DEF a, r
      <4> QED BY <1>4, <1>6, FlattenAppend
    <3> QED BY <1>2, <1>3, <3>6, <3>7
  <2> QED BY <2>1, <2>2
<1> QED BY <1>5, <1>7, <1>8 DEF r

LEMMA CallStarts ==
  ASSUME body \in Body, NEW x
  PROVE  /\ CallOf(1 .. 0, x) = [id |-> 0, arguments |-> << >>]
<1>1. Mine(0, x) = {} /\ Naming(0, x) = {}
  BY DEF Mine, Naming
<1>2. 0 \in 0 .. Len(body.lines)
  BY LineFacts
<1>3. PiecesOf({}, x) = << >>
  <2>1. Cardinality({}) = 0
    BY FS_EmptySet
  <2> QED BY <2>1 DEF PiecesOf
<1> QED BY <1>1, <1>2, <1>3, CallOfIs, FlattenEmpty

-----------------------------------------------------------------------------
(* The inductive invariant *)

\* What is left of the first n symbols when k lines of them have been read.
Rest(k, n) == [p \in 1 .. n - 3 * k |-> 3 * k + p]

\* k lines have been read, and the state is what they say.
LinesRead(k) ==
  /\ 3 * k <= sent
  /\ pc \in {"transfer", "collect"} \/ result.success => sent < 3 * k + 3
  /\ buffer = Rest(k, sent)
  /\ content = TextOf(1 .. k)
  /\ told = content
  /\ DOMAIN calls = Touched(k)
  /\ \A x \in Indices : CallIn(calls, x) = CallOf(1 .. k, x)

\* What chat() has returned is what it has collected.
Collected ==
  /\ result = [success |-> TRUE, content |-> content,
               tool_calls |-> [n \in DOMAIN InOrder |-> calls[InOrder[n]]]]
  /\ ~cancel => sent = WireLength

IInv ==
  /\ body \in Bodies
  /\ sent \in 0 .. WireLength
  /\ pc \in {"transfer", "parse", "collect", "returned", "thrown"}
  /\ calls \in [DOMAIN calls -> ToolCall]
  /\ IsFiniteSet(DOMAIN calls)
  /\ cancel \in BOOLEAN
  /\ late \in 0 .. WireLength
  /\ cancel => late = sent
  /\ pc # "returned" => result = NoResult
  /\ pc = "collect" /\ ~cancel => sent = WireLength
  /\ pc = "returned" => result = NoResult \/ Collected
  /\ \E k \in 0 .. Len(body.lines) : LinesRead(k)

-----------------------------------------------------------------------------
(* Symbols and lines *)

LEMMA WireFacts ==
  ASSUME body \in Bodies
  PROVE  /\ body \in Body /\ Len(body.lines) \in Nat /\ body.open \in BOOLEAN
         /\ WireLength \in Nat
         /\ WireLength <= 3 * Len(body.lines) /\ 3 * Len(body.lines) - 1 <= WireLength
<1>1. body \in Body /\ (body.open => body.lines # << >>)
  BY SseStreamAssumption
<1>2. body.lines \in Seq(Line) /\ body.open \in BOOLEAN
  BY <1>1 DEF Body
<1>3. Len(body.lines) \in Nat /\ (body.open => Len(body.lines) # 0)
  BY <1>1, <1>2
<1>4. CASE body.open
  <2>1. WireLength = 3 * Len(body.lines) - 1
    BY <1>4 DEF WireLength
  <2> QED BY <1>1, <1>2, <1>3, <1>4, <2>1
<1>5. CASE ~body.open
  <2>1. WireLength = 3 * Len(body.lines) - 0
    BY <1>5 DEF WireLength
  <2> QED BY <1>1, <1>2, <1>3, <2>1
<1> QED BY <1>4, <1>5

LEMMA Divided ==
  ASSUME NEW k \in Nat
  PROVE  /\ IsNewline(3 * k + 3) /\ ~IsNewline(3 * k + 1) /\ ~IsNewline(3 * k + 2)
         /\ LineOf(3 * k + 1) = k + 1 /\ LineOf(3 * k + 3) = k + 1
         /\ (3 * k + 1) % 3 = 1
BY DEF IsNewline, LineOf

LEMMA NewlineIs ==
  ASSUME NEW p \in Nat, p # 0, IsNewline(p)
  PROVE  \E j \in Nat : p = 3 * j + 3 /\ LineOf(p) = j + 1
<1>1. \E j \in Nat : p = 3 * j + 3
  <2> DEFINE j == (p \div 3) - 1
  <2>1. j \in Nat /\ p = 3 * j + 3
    BY DEF IsNewline
  <2> QED BY <2>1
<1> QED BY <1>1, Divided

\* The lines whose newline has come.
LEMMA CompleteIs ==
  ASSUME NEW n \in Nat, NEW k \in Nat, 3 * k <= n, n < 3 * k + 3
  PROVE  Complete(n) = 1 .. k
<1>1. ASSUME NEW i \in Complete(n)
      PROVE  i \in 1 .. k
  <2>1. PICK q \in 1 .. n : IsNewline(q) /\ i = LineOf(q)
    BY DEF Complete
  <2>2. PICK j \in Nat : q = 3 * j + 3 /\ LineOf(q) = j + 1
    BY <2>1, NewlineIs
  <2> QED BY <2>1, <2>2
<1>2. ASSUME NEW i \in 1 .. k
      PROVE  i \in Complete(n)
  <2>1. PICK j \in Nat : i = j + 1
    <3>1. i - 1 \in Nat /\ i = (i - 1) + 1
      OBVIOUS
    <3> QED BY <3>1
  <2>2. 3 * j + 3 \in 1 .. n
    BY <2>1
  <2>3. IsNewline(3 * j + 3) /\ LineOf(3 * j + 3) = i
    BY <2>1, Divided
  <2> QED BY <2>2, <2>3 DEF Complete
<1> QED BY <1>1, <1>2

\* The buffer holds a complete line if it holds three symbols.
LEMMA RestFacts ==
  ASSUME NEW k \in Nat, NEW n \in Nat, 3 * k <= n
  PROVE  /\ Rest(k, n) \in Seq(3 * k + 1 .. n) /\ Len(Rest(k, n)) = n - 3 * k
         /\ \A p \in 1 .. n - 3 * k : Rest(k, n)[p] = 3 * k + p
         /\ \A m \in Nat : n <= m =>
              Rest(k, n) \o [p \in 1 .. m - n |-> n + p] = Rest(k, m)
         /\ 3 * k + 3 <= n =>
              /\ SubSeq(Rest(k, n), 4, Len(Rest(k, n))) = Rest(k + 1, n)
              /\ SubSeq(Rest(k, n), 1, 2) = <<3 * k + 1, 3 * k + 2>>
<1>1. /\ Rest(k, n) \in Seq(3 * k + 1 .. n) /\ Len(Rest(k, n)) = n - 3 * k
      /\ \A p \in 1 .. n - 3 * k : Rest(k, n)[p] = 3 * k + p
  BY DEF Rest
<1>2. ASSUME NEW m \in Nat, n <= m
      PROVE  Rest(k, n) \o [p \in 1 .. m - n |-> n + p] = Rest(k, m)
  BY <1>2 DEF Rest
<1>3. ASSUME 3 * k + 3 <= n
      PROVE  /\ SubSeq(Rest(k, n), 4, Len(Rest(k, n))) = Rest(k + 1, n)
             /\ SubSeq(Rest(k, n), 1, 2) = <<3 * k + 1, 3 * k + 2>>
  <2>1. 3 * (k + 1) = 3 * k + 3 /\ n - 3 * (k + 1) = (n - 3 * k) - 3
    OBVIOUS
  <2>2. PICK a \in Nat : a = 3 * k
    OBVIOUS
  <2>3. PICK s : s = Rest(k, n)
    OBVIOUS
  <2>4. s \in Seq(a + 1 .. n) /\ Len(s) = n - a /\ \A p \in 1 .. n - a : s[p] = a + p
    BY <1>1, <2>2, <2>3
  <2>5. SubSeq(s, 1, 2) = <<a + 1, a + 2>>
    <3>1. 3 <= Len(s)
      BY <1>3, <2>2, <2>4
    <3>2. SubSeq(s, 1, 2) = <<s[1], s[2]>>
      <4>1. PICK u : u = SubSeq(s, 1, 2)
        OBVIOUS
      <4>2. u \in Seq(a + 1 .. n) /\ Len(u) = 2 /\ u[1] = s[1] /\ u[2] = s[2]
        BY <2>4, <3>1, <4>1
      <4>3. u = <<u[1], u[2]>>
        BY <4>2
      <4> QED BY <4>1, <4>2, <4>3
    <3>3. 1 \in 1 .. n - a /\ 2 \in 1 .. n - a
      BY <1>3, <2>2
    <3> QED BY <2>4, <3>2, <3>3
  <2>6. Rest(k + 1, n) = [p \in 1 .. (n - a) - 3 |-> (a + 3) + p]
    BY <2>1, <2>2 DEF Rest
  <2>7. SubSeq(s, 4, Len(s)) = [p \in 1 .. (n - a) - 3 |-> (a + 3) + p]
    BY <1>3, <2>2, <2>4
  <2> QED BY <2>2, <2>3, <2>5, <2>6, <2>7
<1> QED BY <1>1, <1>2, <1>3

LEMMA NewlinesAre ==
  ASSUME NEW k \in Nat, sent \in Nat, 3 * k <= sent, buffer = Rest(k, sent)
  PROVE  /\ Newlines = {} <=> sent < 3 * k + 3
         /\ Newlines # {} =>
              /\ FirstNewline = 3
              /\ Parsed(SubSeq(buffer, 1, FirstNewline - 1)) = k + 1
              /\ SubSeq(buffer, FirstNewline + 1, Len(buffer)) = Rest(k + 1, sent)
<1>1. /\ Len(buffer) = sent - 3 * k
      /\ \A p \in 1 .. sent - 3 * k : buffer[p] = 3 * k + p
      /\ 3 * k + 3 <= sent =>
           /\ SubSeq(buffer, 4, Len(buffer)) = Rest(k + 1, sent)
           /\ SubSeq(buffer, 1, 2) = <<3 * k + 1, 3 * k + 2>>
  BY RestFacts
<1>2. /\ IsNewline(3 * k + 3) /\ ~IsNewline(3 * k + 1) /\ ~IsNewline(3 * k + 2)
      /\ LineOf(3 * k + 1) = k + 1 /\ (3 * k + 1) % 3 = 1
  BY Divided
<1>3. CASE sent < 3 * k + 3
  <2>1. ASSUME NEW p \in Newlines
        PROVE  FALSE
    <3>1. p \in 1 .. sent - 3 * k /\ IsNewline(3 * k + p)
      BY <1>1 DEF Newlines
    <3>2. p = 1 \/ p = 2
      BY <1>3, <3>1
    <3> QED BY <1>2, <3>1, <3>2
  <2> QED BY <1>3, <2>1
<1>4. CASE 3 * k + 3 <= sent
  <2>1. 3 \in Newlines
    <3>1. 3 \in 1 .. sent - 3 * k
      BY <1>4
    <3> QED BY <1>1, <1>2, <3>1 DEF Newlines
  <2>2. ASSUME NEW p \in Newlines
        PROVE  p \in Nat /\ 3 <= p
    <3>1. p \in 1 .. sent - 3 * k /\ IsNewline(3 * k + p)
      BY <1>1 DEF Newlines
    <3>2. p # 1 /\ p # 2
      BY <1>2, <3>1
    <3> QED BY <3>1, <3>2
  <2>3. FirstNewline = 3
    <3> DEFINE F(p) == p \in Newlines /\ \A q \in Newlines : p <= q
    <3>1. F(3)
      BY <2>1, <2>2
    <3>2. \A p : F(p) => p = 3
      BY <2>1, <2>2
    <3>3. FirstNewline = CHOOSE p \in Newlines : \A q \in Newlines : p <= q
      BY DEF FirstNewline
    <3> QED BY <3>1, <3>2, <3>3
  <2>4. Parsed(<<3 * k + 1, 3 * k + 2>>) = k + 1
    <3>1. 3 * k + 2 = (3 * k + 1) + 1
      OBVIOUS
    <3>2. PICK s : s = <<3 * k + 1, 3 * k + 2>>
      OBVIOUS
    <3>3. Len(s) = 2 /\ s[1] = 3 * k + 1 /\ s[2] = 3 * k + 2
      BY <3>2
    <3>4. Parsed(s) = LineOf(s[1])
      BY <1>2, <3>1, <3>3 DEF Parsed
    <3> QED BY <1>2, <3>2, <3>3, <3>4
  <2>5. FirstNewline - 1 = 2 /\ FirstNewline + 1 = 4
    BY <2>3
  <2>6. ~(sent < 3 * k + 3)
    BY <1>4
  <2>7. Newlines # {}
    BY <2>1
  <2> QED BY <1>1, <1>4, <2>3, <2>4, <2>5, <2>6, <2>7, Zenon
<1>5. 3 * k \in Nat
  OBVIOUS
<1> QED BY <1>3, <1>4, <1>5

-----------------------------------------------------------------------------
(* The steps *)

\* What a body means does not change with the state.
LEMMA SameBody ==
  ASSUME body' = body, NEW k
  PROVE  /\ Len(body.lines)' = Len(body.lines) /\ WireLength' = WireLength
         /\ TextOf(1 .. k)' = TextOf(1 .. k)
         /\ Indices' = Indices /\ Touched(k)' = Touched(k)
         /\ \A x : CallOf(1 .. k, x)' = CallOf(1 .. k, x)
<1>1. Len(body.lines)' = Len(body.lines) /\ WireLength' = WireLength
  BY DEF WireLength
<1>2. TextOf(1 .. k)' = TextOf(1 .. k)
  BY DEF TextOf
<1>3. Indices' = Indices
  BY DEF Indices
<1>4. \A i, x : Touches(i, x)' = Touches(i, x)
  BY DEF Touches
<1>5. Touched(k)' = Touched(k)
  BY <1>3, <1>4 DEF Touched
<1>6. \A x : CallOf(1 .. k, x)' = CallOf(1 .. k, x)
  BY DEF CallOf, Touches
<1> QED BY <1>1, <1>2, <1>3, <1>5, <1>6

LEMMA LinesKept ==
  ASSUME UNCHANGED <<body, sent, buffer, content, told, calls>>, NEW k, LinesRead(k),
         pc' \in {"transfer", "collect"} \/ result'.success => sent < 3 * k + 3
  PROVE  LinesRead(k)'
<1>1. /\ 3 * k <= sent /\ buffer = Rest(k, sent) /\ content = TextOf(1 .. k)
      /\ told = content /\ DOMAIN calls = Touched(k)
      /\ \A x \in Indices : CallIn(calls, x) = CallOf(1 .. k, x)
  BY DEF LinesRead
<1>2. /\ TextOf(1 .. k)' = TextOf(1 .. k)
      /\ Indices' = Indices /\ Touched(k)' = Touched(k)
      /\ \A x : CallOf(1 .. k, x)' = CallOf(1 .. k, x)
  BY SameBody
<1>3. 3 * k <= sent' /\ buffer' = Rest(k, sent') /\ content' = TextOf(1 .. k)'
      /\ told' = content' /\ DOMAIN calls' = Touched(k)'
  BY <1>1, <1>2
<1>4. \A x \in Indices' : CallIn(calls', x) = CallOf(1 .. k, x)'
  BY <1>1, <1>2
<1> QED BY <1>3, <1>4 DEF LinesRead

LEMMA InitInv == Init => IInv
<1> SUFFICES ASSUME Init
             PROVE  IInv
  OBVIOUS
<1>1. /\ body \in Bodies /\ sent = 0 /\ pc = "transfer" /\ buffer = << >>
      /\ content = << >> /\ calls = NoCalls /\ told = << >> /\ cancel = FALSE
      /\ late = 0 /\ result = NoResult
  BY DEF Init
<1>2. body \in Body /\ Len(body.lines) \in Nat /\ WireLength \in Nat
  BY <1>1, WireFacts
<1>3. calls \in [DOMAIN calls -> ToolCall] /\ DOMAIN calls = {} /\ IsFiniteSet(DOMAIN calls)
  BY <1>1, FS_EmptySet DEF NoCalls
<1>4. LinesRead(0)
  <2>1. buffer = Rest(0, sent)
    BY <1>1 DEF Rest
  <2>2. content = TextOf(1 .. 0) /\ DOMAIN calls = Touched(0)
    BY <1>1, <1>2, <1>3, TextGrows, TouchedGrows
  <2>3. \A x : CallIn(calls, x) = CallOf(1 .. 0, x)
    BY <1>2, <1>3, CallStarts DEF CallIn
  <2> QED BY <1>1, <2>1, <2>2, <2>3 DEF LinesRead
<1>5. 0 \in 0 .. Len(body.lines) /\ 0 \in 0 .. WireLength
  BY <1>2
<1> QED BY <1>1, <1>3, <1>4, <1>5 DEF IInv

\* What process_sse_line does with the next line.
LEMMA LineProcessed ==
  ASSUME IInv, ProcessLine, NEW k \in 0 .. Len(body.lines), LinesRead(k)
  PROVE  /\ k + 1 \in 1 .. Len(body.lines)
         /\ LinesRead(k + 1)'
         /\ calls' \in [DOMAIN calls' -> ToolCall] /\ IsFiniteSet(DOMAIN calls')
         /\ pc' \in {"parse", "thrown"}
<1> DEFINE line == body.lines[k + 1]
           p == Deltas(k + 1)
<1>1. /\ body \in Bodies /\ sent \in 0 .. WireLength /\ pc = "parse" /\ result = NoResult
      /\ calls \in [DOMAIN calls -> ToolCall] /\ IsFiniteSet(DOMAIN calls)
      /\ Newlines # {}
      /\ UNCHANGED <<body, sent, cancel, late, result>>
      /\ buffer' = SubSeq(buffer, FirstNewline + 1, Len(buffer))
  BY DEF IInv, ProcessLine
<1>2. /\ body \in Body /\ Len(body.lines) \in Nat /\ WireLength \in Nat
      /\ WireLength <= 3 * Len(body.lines)
  BY <1>1, WireFacts
<1>3. /\ 3 * k <= sent /\ buffer = Rest(k, sent) /\ content = TextOf(1 .. k)
      /\ told = content /\ DOMAIN calls = Touched(k)
      /\ \A x \in Indices : CallIn(calls, x) = CallOf(1 .. k, x)
  BY DEF LinesRead
<1>4. k \in Nat /\ sent \in Nat
  BY <1>1, <1>2
<1>5. ~(sent < 3 * k + 3) /\ Parsed(SubSeq(buffer, 1, FirstNewline - 1)) = k + 1
      /\ buffer' = Rest(k + 1, sent)
  BY <1>1, <1>3, <1>4, NewlinesAre
<1>6. k + 1 \in 1 .. Len(body.lines) /\ k \in 0 .. Len(body.lines) - 1 /\ k + 1 # 0
  BY <1>1, <1>2, <1>4, <1>5
<1>7. p \in Seq(Delta) /\ p = line.deltas
  BY <1>2, <1>6, LineFacts
<1>8. /\ content' = IF line.text THEN Append(content, k + 1) ELSE content
      /\ told' = IF line.text THEN Append(told, k + 1) ELSE told
      /\ calls' = AddDeltas(calls, line.deltas, k + 1)
      /\ pc' = IF line.odd THEN "thrown" ELSE pc
  <2> DEFINE i == Parsed(SubSeq(buffer, 1, FirstNewline - 1))
  <2>1. IF i = 0 THEN UNCHANGED <<content, calls, told, pc>>
        ELSE /\ content' = IF body.lines[i].text THEN Append(content, i) ELSE content
             /\ told' = IF body.lines[i].text THEN Append(told, i) ELSE told
             /\ calls' = AddDeltas(calls, body.lines[i].deltas, i)
             /\ pc' = IF body.lines[i].odd THEN "thrown" ELSE pc
    BY Zenon DEF ProcessLine, AddDeltas
  <2> HIDE DEF i
  <2>2. i = k + 1 /\ i # 0
    BY <1>5, <1>6 DEF i
  <2> QED BY <2>1, <2>2, Zenon
<1> HIDE DEF line, p
<1>9. pc' \in {"parse", "thrown"}
  BY <1>1, <1>8
<1>10. calls \in Table
  <2>1. DOMAIN calls \in SUBSET Nat
    BY <1>2, <1>3, IndicesAreNumbers DEF Touched
  <2> QED BY <1>1, <2>1 DEF Table
<1>11. IsAfter(calls, p, k + 1, calls')
  <2>1. k + 1 \in Nat
    BY <1>4
  <2> QED BY <1>7, <1>8, <1>10, <2>1, AddDeltasAre
<1>12. calls' \in [DOMAIN calls' -> ToolCall] /\ \A x : CallIn(calls', x) \in ToolCall
  <2>1. calls' \in Table
    BY <1>11 DEF IsAfter
  <2> QED BY <2>1, TableFacts
<1>13. IsFiniteSet(DOMAIN calls') /\ DOMAIN calls' = Touched(k + 1)
  <2>1. DOMAIN calls' = DOMAIN calls \cup Indexed(p)
    BY <1>11 DEF IsAfter
  <2>2. IsFiniteSet(Indexed(p))
    BY <1>7, DeltasFinite
  <2>3. Touched(k + 1) = Touched(k) \cup Indexed(p)
    BY <1>2, <1>6, TouchedGrows DEF p
  <2>4. IsFiniteSet(DOMAIN calls \cup Indexed(p))
    BY <1>1, <2>2, FS_Union
  <2> QED BY <1>3, <2>1, <2>3, <2>4
<1>14. \A x \in Indices : CallIn(calls', x) = CallOf(1 .. k + 1, x)
  <2> SUFFICES ASSUME NEW x \in Indices
               PROVE  CallIn(calls', x) = CallOf(1 .. k + 1, x)
    OBVIOUS
  <2> DEFINE c == CallIn(calls, x)
             d == CallIn(calls', x)
             e == CallOf(1 .. k + 1, x)
  <2>1. c = CallOf(1 .. k, x)
    BY <1>3
  <2>2. /\ d.id = IF Names(p, x) THEN k + 1 ELSE c.id
        /\ d.arguments = c.arguments \o Repeat(Cardinality(Matching(p, x)), k + 1)
    BY <1>11 DEF IsAfter
  <2>3. /\ e.id = IF Names(p, x) THEN k + 1 ELSE c.id
        /\ e.arguments = c.arguments \o Repeat(Cardinality(Matching(p, x)), k + 1)
    <3> HIDE DEF c, e
    <3>1. /\ CallOf(1 .. k + 1, x).id =
                IF Names(Deltas(k + 1), x) THEN k + 1 ELSE CallOf(1 .. k, x).id
          /\ CallOf(1 .. k + 1, x).arguments =
                CallOf(1 .. k, x).arguments
                  \o Repeat(Cardinality(Matching(Deltas(k + 1), x)), k + 1)
      BY <1>2, <1>6, CallGrows
    <3> QED BY <2>1, <3>1 DEF e, p
  <2>4. d = [id |-> d.id, arguments |-> d.arguments]
    <3>1. d \in ToolCall
      BY <1>12
    <3> HIDE DEF d
    <3> QED BY <3>1 DEF ToolCall
  <2>5. e = [id |-> e.id, arguments |-> e.arguments]
    <3>1. \E u, v : e = [id |-> u, arguments |-> v]
      <4>1. k + 1 \in 0 .. Len(body.lines)
        BY <1>6
      <4> QED BY <1>2, <4>1, CallOfIs
    <3> HIDE DEF e
    <3> QED BY <3>1
  <2> HIDE DEF c, d, e
  <2>6. d.id = e.id /\ d.arguments = e.arguments
    BY <2>2, <2>3
  <2>7. d = e
    BY <2>4, <2>5, <2>6
  <2> QED BY <2>7 DEF d, e
<1>15. content' = TextOf(1 .. k + 1) /\ told' = content'
  <2>1. TextOf(1 .. k + 1) = IF line.text THEN Append(TextOf(1 .. k), k + 1)
                                            ELSE TextOf(1 .. k)
    BY <1>2, <1>6, TextGrows DEF line
  <2> QED BY <1>3, <1>8, <2>1
<1>16. LinesRead(k + 1)'
  <2>1. /\ TextOf(1 .. k + 1)' = TextOf(1 .. k + 1)
        /\ Indices' = Indices /\ Touched(k + 1)' = Touched(k + 1)
        /\ \A x : CallOf(1 .. k + 1, x)' = CallOf(1 .. k + 1, x)
    BY <1>1, SameBody
  <2>2. 3 * (k + 1) <= sent'
    BY <1>1, <1>4, <1>5
  <2>3. ~(pc' \in {"transfer", "collect"} \/ result'.success)
    BY <1>1, <1>9 DEF NoResult
  <2>4. /\ buffer' = Rest(k + 1, sent') /\ content' = TextOf(1 .. k + 1)'
        /\ told' = content' /\ DOMAIN calls' = Touched(k + 1)'
    BY <1>1, <1>5, <1>13, <1>15, <2>1
  <2>5. \A x \in Indices' : CallIn(calls', x) = CallOf(1 .. k + 1, x)'
    BY <1>14, <2>1
  <2> QED BY <2>2, <2>3, <2>4, <2>5 DEF LinesRead
<1> QED BY <1>6, <1>9, <1>12, <1>13, <1>16

LEMMA StepInv == IInv /\ [Next]_vars => IInv'
<1> SUFFICES ASSUME IInv, [Next]_vars
             PROVE  IInv'
  OBVIOUS
<1>1. /\ body \in Bodies /\ sent \in 0 .. WireLength
      /\ pc \in {"transfer", "parse", "collect", "returned", "thrown"}
      /\ calls \in [DOMAIN calls -> ToolCall] /\ IsFiniteSet(DOMAIN calls)
      /\ cancel \in BOOLEAN /\ late \in 0 .. WireLength
      /\ cancel => late = sent
      /\ pc # "returned" => result = NoResult
      /\ pc = "collect" /\ ~cancel => sent = WireLength
      /\ pc = "returned" => result = NoResult \/ Collected
  BY DEF IInv
<1>2. PICK k \in 0 .. Len(body.lines) : LinesRead(k)
  BY DEF IInv
<1>3. /\ body \in Body /\ Len(body.lines) \in Nat /\ WireLength \in Nat
  BY <1>1, WireFacts
<1>4. /\ 3 * k <= sent /\ buffer = Rest(k, sent)
      /\ pc \in {"transfer", "collect"} \/ result.success => sent < 3 * k + 3
      /\ k \in Nat /\ sent \in Nat
  BY <1>1, <1>2, <1>3 DEF LinesRead
<1>5. body' = body
  BY DEF Next, Chat, Receive, ReceiveCancelled, ProcessLine, EndChunk, TransferDone,
         TransferFails, Collect, SetCancel, Over, vars
<1>6. WireLength' = WireLength /\ Len(body.lines)' = Len(body.lines)
  BY <1>5, SameBody
<1>7. CASE Receive
  <2>1. /\ pc = "transfer" /\ ~cancel /\ pc' = "parse"
        /\ UNCHANGED <<content, calls, told, cancel, late, result>>
    BY <1>7 DEF Receive
  <2>2. PICK n \in sent + 1 .. WireLength :
          /\ buffer' = Received([p \in 1 .. n - sent |-> sent + p])
          /\ sent' = n
    BY <1>7 DEF Receive
  <2>3. n \in Nat /\ sent <= n /\ n \in 0 .. WireLength
    BY <1>3, <1>4, <2>2
  <2>4. buffer' = Rest(k, n)
    BY <1>4, <2>2, <2>3, RestFacts DEF Received
  <2>5. LinesRead(k)'
    <3>1. /\ TextOf(1 .. k)' = TextOf(1 .. k)
          /\ Indices' = Indices /\ Touched(k)' = Touched(k)
          /\ \A x : CallOf(1 .. k, x)' = CallOf(1 .. k, x)
      BY <1>5, SameBody
    <3>2. /\ content = TextOf(1 .. k) /\ told = content /\ DOMAIN calls = Touched(k)
          /\ \A x \in Indices : CallIn(calls, x) = CallOf(1 .. k, x)
      BY <1>2 DEF LinesRead
    <3>3. 3 * k <= sent'
      BY <1>4, <2>2, <2>3
    <3>4. ~(pc' \in {"transfer", "collect"} \/ result'.success)
      BY <1>1, <2>1 DEF NoResult
    <3>5. /\ content' = TextOf(1 .. k)' /\ told' = content'
          /\ DOMAIN calls' = Touched(k)' /\ buffer' = Rest(k, sent')
      BY <2>1, <2>2, <2>4, <3>1, <3>2
    <3>6. \A x \in Indices' : CallIn(calls', x) = CallOf(1 .. k, x)'
      BY <2>1, <3>1, <3>2
    <3> QED BY <3>3, <3>4, <3>5, <3>6 DEF LinesRead
  <2>6. sent' \in 0 .. WireLength'
    BY <1>6, <2>2, <2>3
  <2> QED BY <1>1, <1>2, <1>5, <1>6, <2>1, <2>5, <2>6 DEF IInv
<1>8. CASE ProcessLine
  <2>1. /\ k + 1 \in 1 .. Len(body.lines) /\ LinesRead(k + 1)'
        /\ calls' \in [DOMAIN calls' -> ToolCall] /\ IsFiniteSet(DOMAIN calls')
        /\ pc' \in {"parse", "thrown"}
    BY <1>2, <1>8, LineProcessed
  <2>2. UNCHANGED <<sent, cancel, late, result>> /\ pc = "parse"
    BY <1>8 DEF ProcessLine
  <2>3. k + 1 \in 0 .. Len(body.lines)'
    BY <1>6, <2>1
  <2> QED BY <1>1, <1>5, <1>6, <2>1, <2>2, <2>3 DEF IInv
<1>9. CASE EndChunk
  <2>1. /\ pc = "parse" /\ Newlines = {} /\ pc' = "transfer"
        /\ UNCHANGED <<body, sent, buffer, content, calls, told, cancel, late, result>>
    BY <1>9 DEF EndChunk
  <2>2. sent < 3 * k + 3
    BY <1>4, <2>1, NewlinesAre
  <2>3. LinesRead(k)'
    BY <1>2, <2>1, <2>2, LinesKept
  <2> QED BY <1>1, <1>2, <1>6, <2>1, <2>3 DEF IInv
<1>10. CASE ReceiveCancelled \/ TransferDone
  <2>1. /\ pc = "transfer" /\ pc' = "collect" /\ (cancel \/ sent = WireLength)
        /\ UNCHANGED <<body, sent, buffer, content, calls, told, cancel, late, result>>
    BY <1>10 DEF ReceiveCancelled, TransferDone
  <2>2. LinesRead(k)'
    BY <1>2, <1>4, <2>1, LinesKept
  <2> QED BY <1>1, <1>2, <1>6, <2>1, <2>2 DEF IInv
<1>11. CASE TransferFails
  <2>1. /\ pc = "transfer" /\ pc' = "returned"
        /\ UNCHANGED <<body, sent, buffer, content, calls, told, cancel, late, result>>
    BY <1>11 DEF TransferFails
  <2>2. LinesRead(k)'
    BY <1>2, <1>4, <2>1, LinesKept
  <2>3. result' = NoResult'
    BY <1>1, <2>1 DEF NoResult
  <2> QED BY <1>1, <1>2, <1>6, <2>1, <2>2, <2>3 DEF IInv
<1>12. CASE Collect
  <2>1. /\ pc = "collect" /\ pc' = "returned"
        /\ result' = [success |-> TRUE, content |-> content,
                      tool_calls |-> [n \in DOMAIN InOrder |-> calls[InOrder[n]]]]
        /\ UNCHANGED <<body, sent, buffer, content, calls, told, cancel, late>>
    BY <1>12 DEF Collect
  <2>2. LinesRead(k)'
    BY <1>2, <1>4, <2>1, LinesKept
  <2>3. InOrder' = InOrder
    BY <2>1 DEF InOrder
  <2>4. Collected'
    BY <1>1, <1>6, <2>1, <2>3 DEF Collected
  <2> QED BY <1>1, <1>2, <1>6, <2>1, <2>2, <2>4 DEF IInv
<1>13. CASE SetCancel
  <2>1. /\ cancel' = TRUE /\ late' = sent
        /\ UNCHANGED <<body, sent, pc, buffer, content, calls, told, result>>
    BY <1>13 DEF SetCancel
  <2>2. LinesRead(k)'
    BY <1>2, <1>4, <2>1, LinesKept
  <2>3. InOrder' = InOrder
    BY <2>1 DEF InOrder
  <2>4. pc' = "returned" => result' = NoResult' \/ Collected'
    BY <1>1, <2>1, <2>3 DEF Collected, NoResult
  <2>5. pc' # "returned" => result' = NoResult'
    BY <1>1, <2>1 DEF NoResult
  <2> QED BY <1>1, <1>2, <1>6, <2>1, <2>2, <2>4, <2>5 DEF IInv
<1>14. CASE UNCHANGED vars
  <2>1. /\ UNCHANGED <<body, sent, pc, buffer, content, calls, told, cancel, late, result>>
    BY <1>14 DEF vars
  <2>2. LinesRead(k)'
    BY <1>2, <1>4, <2>1, LinesKept
  <2>3. InOrder' = InOrder
    BY <2>1 DEF InOrder
  <2>4. pc' = "returned" => result' = NoResult' \/ Collected'
    BY <1>1, <1>6, <2>1, <2>3 DEF Collected, NoResult
  <2>5. pc' # "returned" => result' = NoResult'
    BY <1>1, <2>1 DEF NoResult
  <2> QED BY <1>1, <1>2, <1>6, <2>1, <2>2, <2>4, <2>5 DEF IInv
<1> QED BY <1>7, <1>8, <1>9, <1>10, <1>11, <1>12, <1>13, <1>14 DEF Next, Chat, Over

LEMMA Invariance == Spec => []IInv
BY InitInv, StepInv, PTL DEF Spec

-----------------------------------------------------------------------------
(* What it comes to *)

\* The text and the tool calls of k lines, as chat() collects them.
LEMMA LinesMean ==
  ASSUME IInv, NEW k \in 0 .. Len(body.lines), LinesRead(k), sent < 3 * k + 3
  PROVE  /\ content = TextOf(Complete(sent))
         /\ [n \in DOMAIN InOrder |-> calls[InOrder[n]]] = CallsOf(Complete(sent))
<1>1. body \in Bodies /\ sent \in 0 .. WireLength
  BY DEF IInv
<1>2. body \in Body /\ WireLength \in Nat /\ Len(body.lines) \in Nat
  BY <1>1, WireFacts
<1>3. /\ 3 * k <= sent /\ content = TextOf(1 .. k) /\ DOMAIN calls = Touched(k)
      /\ \A x \in Indices : CallIn(calls, x) = CallOf(1 .. k, x)
  BY DEF LinesRead
<1>4. Complete(sent) = 1 .. k
  <2>1. k \in Nat /\ sent \in Nat
    BY <1>1, <1>2
  <2> QED BY <1>3, <2>1, CompleteIs
<1>5. InOrder = Ordered(Touched(k))
  BY <1>3 DEF InOrder
<1>6. \A n \in DOMAIN InOrder : InOrder[n] \in Touched(k)
  <2>1. Touched(k) \in SUBSET Nat /\ IsFiniteSet(Touched(k))
    BY <1>2, <1>3, IndicesAreNumbers DEF Touched, IInv
  <2>2. Ordered(Touched(k)) \in Seq(Touched(k))
    BY <2>1, OrderedNth
  <2> QED BY <1>5, <2>2
<1>7. \A x \in Touched(k) : calls[x] = CallOf(1 .. k, x)
  BY <1>3 DEF CallIn, Touched
<1>8. CallsOf(1 .. k) = [n \in DOMAIN InOrder |-> CallOf(1 .. k, InOrder[n])]
  BY <1>5 DEF CallsOf, Touched
<1>9. [n \in DOMAIN InOrder |-> calls[InOrder[n]]]
        = [n \in DOMAIN InOrder |-> CallOf(1 .. k, InOrder[n])]
  BY <1>6, <1>7
<1> QED BY <1>3, <1>4, <1>8, <1>9

LEMMA TypeHolds == IInv => TypeOK
<1> SUFFICES ASSUME IInv
             PROVE  TypeOK
  OBVIOUS
<1>1. /\ body \in Bodies /\ sent \in 0 .. WireLength
      /\ pc \in {"transfer", "parse", "collect", "returned", "thrown"}
      /\ calls \in [DOMAIN calls -> ToolCall] /\ IsFiniteSet(DOMAIN calls)
      /\ cancel \in BOOLEAN /\ late \in 0 .. WireLength
      /\ pc # "returned" => result = NoResult
      /\ pc = "returned" => result = NoResult \/ Collected
  BY DEF IInv
<1>2. /\ body \in Body /\ Len(body.lines) \in Nat /\ WireLength \in Nat
  BY <1>1, WireFacts
<1>3. PICK k \in 0 .. Len(body.lines) : LinesRead(k)
  BY DEF IInv
<1>4. /\ 3 * k <= sent /\ buffer = Rest(k, sent) /\ content = TextOf(1 .. k)
      /\ told = content /\ DOMAIN calls = Touched(k)
  BY <1>3 DEF LinesRead
<1>5. buffer \in Seq(1 .. WireLength)
  <2>1. k \in Nat /\ sent \in Nat /\ 3 * k + 1 .. sent \subseteq 1 .. WireLength
    BY <1>1, <1>2
  <2>2. Rest(k, sent) \in Seq(3 * k + 1 .. sent)
    BY <1>4, <2>1, RestFacts
  <2> QED BY <1>4, <2>1, <2>2, SeqOfMore
<1>6. content \in Seq(1 .. Len(body.lines)) /\ content \in Seq(Nat)
  <2>1. content \in Seq(1 .. k)
    BY <1>2, <1>4, TextGrows
  <2>2. 1 .. k \subseteq 1 .. Len(body.lines) /\ 1 .. k \subseteq Nat
    BY <1>2
  <2> QED BY <2>1, <2>2, SeqOfMore
<1>7. DOMAIN calls \subseteq Indices
  BY <1>4 DEF Touched
<1>8. result \in Result
  <2>1. CASE result = NoResult
    BY <2>1 DEF NoResult, Result
  <2>2. CASE Collected
    <3>1. /\ InOrder \in Seq(DOMAIN calls)
      <4>1. DOMAIN calls \in SUBSET Nat
        BY <1>2, <1>7, IndicesAreNumbers
      <4> QED BY <1>1, <4>1, OrderedNth DEF InOrder
    <3>2. [n \in DOMAIN InOrder |-> calls[InOrder[n]]] \in Seq(ToolCall)
      <4>1. \A n \in DOMAIN InOrder : calls[InOrder[n]] \in ToolCall
        BY <1>1, <3>1
      <4>2. DOMAIN InOrder = 1 .. Len(InOrder) /\ Len(InOrder) \in Nat
        BY <3>1
      <4> QED BY <4>1, <4>2
    <3> QED BY <1>6, <2>2, <3>2 DEF Collected, Result
  <2> QED BY <1>1, <2>1, <2>2
<1> QED BY <1>1, <1>2, <1>4, <1>5, <1>6, <1>7, <1>8 DEF TypeOK

\* The state of chat() has the types of its declarations: the buffer holds symbols of
\* this body, text and tool calls come from lines of it, and an index of the table is
\* one the body names.
THEOREM TypeCorrect == Spec => []TypeOK
BY Invariance, TypeHolds, PTL

\* Between two chunks, and when chat() collects, text and tool calls are what the
\* complete lines received so far say: for every body, every number and order of
\* deltas, and every way of cutting it into chunks.
THEOREM ChunksDoNotMatter == Spec => []ChunkingIrrelevant
<1>1. IInv => ChunkingIrrelevant
  <2> SUFFICES ASSUME IInv, pc \in {"transfer", "collect"}
               PROVE  /\ content = TextOf(Complete(sent))
                      /\ [n \in DOMAIN InOrder |-> calls[InOrder[n]]]
                           = CallsOf(Complete(sent))
    BY DEF ChunkingIrrelevant
  <2>1. PICK k \in 0 .. Len(body.lines) : LinesRead(k)
    BY DEF IInv
  <2>2. sent < 3 * k + 3
    BY <2>1 DEF LinesRead
  <2> QED BY <2>1, <2>2, LinesMean
<1> QED BY <1>1, Invariance, PTL

\* A chat() that returns success without having been cancelled returns what all lines
\* of the body say, and one that fails returns no part of an answer.
THEOREM AnswerIsWhole == Spec => []ResultIsWhole
<1>1. IInv => ResultIsWhole
  <2> SUFFICES ASSUME IInv, pc = "returned"
               PROVE  IF result.success
                      THEN /\ result.content = told
                           /\ ~cancel => /\ result.content = TextOf(Complete(WireLength))
                                         /\ result.tool_calls =
                                              CallsOf(Complete(WireLength))
                      ELSE result = NoResult
    BY DEF ResultIsWhole
  <2>1. result = NoResult \/ Collected
    BY DEF IInv
  <2>2. CASE result = NoResult
    BY <2>2 DEF NoResult
  <2>3. CASE Collected
    <3>1. /\ result.success = TRUE /\ result.content = content
          /\ result.tool_calls = [n \in DOMAIN InOrder |-> calls[InOrder[n]]]
          /\ ~cancel => sent = WireLength
      BY <2>3 DEF Collected
    <3>2. PICK k \in 0 .. Len(body.lines) : LinesRead(k)
      BY DEF IInv
    <3>3. sent < 3 * k + 3 /\ told = content
      BY <3>1, <3>2 DEF LinesRead
    <3>4. /\ content = TextOf(Complete(sent))
          /\ [n \in DOMAIN InOrder |-> calls[InOrder[n]]] = CallsOf(Complete(sent))
      BY <3>2, <3>3, LinesMean
    <3> QED BY <3>1, <3>3, <3>4, Zenon
  <2> QED BY <2>1, <2>2, <2>3
<1> QED BY <1>1, Invariance, PTL

\* After the caller has cancelled, on_token has been called with nothing but lines
\* that were complete in the chunk then in hand.
THEOREM CancelIsHeard == Spec => []CancelStopsForwarding
<1>1. IInv => CancelStopsForwarding
  <2> SUFFICES ASSUME IInv, cancel, NEW p \in 1 .. Len(told)
               PROVE  told[p] \in Complete(late)
    BY DEF CancelStopsForwarding
  <2>1. PICK k \in 0 .. Len(body.lines) : LinesRead(k)
    BY DEF IInv
  <2>2. body \in Bodies /\ sent \in 0 .. WireLength /\ late = sent
    BY DEF IInv
  <2>3. body \in Body /\ WireLength \in Nat
    BY <2>2, WireFacts
  <2>4. /\ 3 * k <= sent /\ told = TextOf(1 .. k) /\ k \in Nat /\ sent \in Nat
    BY <2>1, <2>2, <2>3 DEF LinesRead
  <2>5. told[p] \in 1 .. k
    <3>1. told \in Seq(1 .. k)
      BY <2>3, <2>4, TextGrows
    <3> QED BY <3>1
  <2>6. PICK j \in Nat : told[p] = j + 1
    <3>1. told[p] - 1 \in Nat /\ told[p] = (told[p] - 1) + 1
      BY <2>5
    <3> QED BY <3>1
  <2>7. 3 * j + 3 \in 1 .. sent
    BY <2>4, <2>5, <2>6
  <2>8. IsNewline(3 * j + 3) /\ LineOf(3 * j + 3) = told[p]
    BY <2>6, Divided
  <2> QED BY <2>2, <2>7, <2>8 DEF Complete
<1> QED BY <1>1, Invariance, PTL

=============================================================================
