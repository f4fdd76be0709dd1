---------------------------- MODULE FoldTheorems -----------------------------
(***************************************************************************)
(* What the proofs about the other modules need to know of induction, of   *)
(* the folds of the community modules and of FlattenSeq, for all values.   *)
(***************************************************************************)
EXTENDS Integers, Sequences, FiniteSets, SequencesExt, TLAPS,
        WellFoundedInduction, SequenceTheorems, FiniteSetTheorems

-----------------------------------------------------------------------------
(* Induction, for sets of numbers *)

LEMMA LessThanWellFounded == IsWellFoundedOn({p \in Nat \X Nat : p[1] < p[2]}, Nat)
BY NatLessThanWellFounded DEF OpToRel

LEMMA LeastNumber ==
  ASSUME NEW S \in SUBSET Nat, S # {}
  PROVE  \E m \in S : \A k \in S : m <= k
<1> DEFINE R == {p \in Nat \X Nat : p[1] < p[2]}
<1>1. IsWellFoundedOn(R, Nat)
  BY LessThanWellFounded
<1> HIDE DEF R
<1>2. PICK m \in S : \A k \in S : ~(<<k, m>> \in R)
  BY <1>1, WFMin
<1>3. \A k \in S : ~(k < m)
  BY <1>2 DEF R
<1> QED BY <1>3

LEMMA InductionOnSets ==
  ASSUME NEW S \in SUBSET Nat, 0 \in S, \A n \in S : n + 1 \in S
  PROVE  \A n \in Nat : n \in S
<1>1. SUFFICES ASSUME Nat \ S # {} PROVE FALSE
  OBVIOUS
<1>2. PICK m \in Nat \ S : \A k \in Nat \ S : m <= k
  BY <1>1, LeastNumber
<1>3. m # 0 /\ m - 1 \in Nat /\ m - 1 \in S
  BY <1>2
<1> QED BY <1>2, <1>3

\* The same up to a bound.
LEMMA InductionUpTo ==
  ASSUME NEW n \in Nat, NEW S, 0 \in S,
         \A m \in 0 .. n - 1 : m \in S => m + 1 \in S
  PROVE  \A m \in 0 .. n : m \in S
<1> DEFINE U == {m \in Nat : m > n \/ m \in S}
<1>1. 0 \in U
  OBVIOUS
<1>2. ASSUME NEW m \in U
      PROVE  m + 1 \in U
  <2>1. CASE m >= n
    BY <2>1
  <2>2. CASE m < n
    <3>1. m \in 0 .. n - 1 /\ m \in S
      BY <2>2
    <3> QED BY <3>1
  <2> QED BY <2>1, <2>2
<1>3. U \in SUBSET Nat
  OBVIOUS
<1> HIDE DEF U
<1>4. \A m \in Nat : m \in U
  BY <1>1, <1>2, <1>3, InductionOnSets
<1> QED BY <1>4 DEF U

LEMMA OneMore ==
  ASSUME NEW x \in Nat, NEW y \in Nat
  PROVE  /\ x * y \in Nat
         /\ (x + 1) * y = x * y + y
OBVIOUS

-----------------------------------------------------------------------------
(* FoldLeft *)

LEMMA MaxOfNumbers ==
  ASSUME NEW n \in Nat, NEW s \in SUBSET (1 .. n), s # {}
  PROVE  /\ Max(s) \in s
         /\ \A x \in s : x <= Max(s)
<1> DEFINE D == {n - x : x \in s}
<1>1. D \in SUBSET Nat /\ D # {}
  OBVIOUS
<1> HIDE DEF D
<1>2. PICK d \in D : \A k \in D : d <= k
  BY <1>1, LeastNumber
<1>3. PICK x \in s : d = n - x
  BY <1>2 DEF D
<1>4. \A y \in s : x >= y
  <2> SUFFICES ASSUME NEW y \in s PROVE x >= y
    OBVIOUS
  <2>1. n - y \in D
    BY DEF D
  <2>2. d <= n - y
    BY <1>2, <2>1
  <2> QED BY <1>3, <2>2
<1>5. \E m \in s : \A y \in s : m >= y
  BY <1>4
<1>7. Max(s) \in s /\ \A y \in s : Max(s) >= y
  BY <1>5, Zenon DEF Max
<1> QED BY <1>7

LEMMA MaxOfInterval ==
  ASSUME NEW n \in Nat, NEW m \in 1 .. n
  PROVE  /\ 1 .. m \in SUBSET (1 .. n) /\ 1 .. m # {}
         /\ Max(1 .. m) = m
         /\ (1 .. m) \ {Max(1 .. m)} = 1 .. m - 1
<1>1. PICK s \in SUBSET (1 .. n) : s = 1 .. m /\ m \in s
  OBVIOUS
<1>2. Max(s) \in s /\ m <= Max(s)
  BY <1>1, MaxOfNumbers
<1>3. Max(s) = m
  BY <1>1, <1>2
<1> QED BY <1>1, <1>3

\* A fold over the sets of numbers up to n, the largest number last, exists:
\* G says what one number does to a value of A.
FoldsSets(f, n, base, G) ==
  \A s \in SUBSET (1 .. n) :
    f[s] = IF s = {} THEN base ELSE G[Max(s)][f[s \ {Max(s)}]]

LEMMA FoldExists ==
  ASSUME NEW A, NEW n \in Nat, NEW base \in A, NEW G \in [1 .. n -> [A -> A]]
  PROVE  \E f \in [SUBSET (1 .. n) -> A] : FoldsSets(f, n, base, G)
<1> DEFINE Has(m) == \E f \in [SUBSET (1 .. m) -> A] : FoldsSets(f, m, base, G)
           S == {m \in Nat : Has(m)}
<1>1. 0 \in S
  <2> DEFINE f == [s \in SUBSET (1 .. 0) |-> base]
  <2>1. \A s \in SUBSET (1 .. 0) : s = {}
    OBVIOUS
  <2>2. f \in [SUBSET (1 .. 0) -> A] /\ FoldsSets(f, 0, base, G)
    BY <2>1 DEF FoldsSets
  <2> QED BY <2>2
<1>2. \A m \in 0 .. n - 1 : m \in S => m + 1 \in S
  <2> SUFFICES ASSUME NEW m \in 0 .. n - 1, m \in S
               PROVE  m + 1 \in S
    BY Zenon
  <2>0. m \in Nat /\ m + 1 \in Nat /\ m + 1 \in 1 .. n
    OBVIOUS
  <2>1. PICK f \in [SUBSET (1 .. m) -> A] : FoldsSets(f, m, base, G)
    OBVIOUS
  <2> DEFINE g == [s \in SUBSET (1 .. m + 1) |->
                     IF m + 1 \in s THEN G[m + 1][f[s \ {m + 1}]] ELSE f[s]]
  <2>2. ASSUME NEW s \in SUBSET (1 .. m + 1), m + 1 \in s
        PROVE  /\ s \ {m + 1} \in SUBSET (1 .. m)
               /\ Max(s) = m + 1
    <3>1. Max(s) \in s /\ m + 1 <= Max(s)
      BY <2>0, <2>2, MaxOfNumbers
    <3>2. Max(s) \in 1 .. m + 1
      BY <3>1
    <3>3. Max(s) = m + 1
      BY <2>0, <3>1, <3>2
    <3>4. s \ {m + 1} \in SUBSET (1 .. m)
      BY <2>0
    <3> QED BY <3>3, <3>4
  <2>3. ASSUME NEW s \in SUBSET (1 .. m + 1), m + 1 \notin s
        PROVE  s \in SUBSET (1 .. m)
    BY <2>3
  <2>4. g \in [SUBSET (1 .. m + 1) -> A]
    <3> SUFFICES ASSUME NEW s \in SUBSET (1 .. m + 1)
                 PROVE  (IF m + 1 \in s THEN G[m + 1][f[s \ {m + 1}]] ELSE f[s]) \in A
      BY Zenon
    <3>1. CASE m + 1 \in s
      <4>1. f[s \ {m + 1}] \in A
        BY <3>1, <2>2
      <4>3. G[m + 1] \in [A -> A]
        BY <2>0
      <4>4. G[m + 1][f[s \ {m + 1}]] \in A
        BY <4>1, <4>3
      <4> QED BY <3>1, <4>4
    <3>2. CASE m + 1 \notin s
      BY <3>2, <2>3
    <3> QED BY <3>1, <3>2
  <2>5. ASSUME NEW s \in SUBSET (1 .. m + 1)
        PROVE  g[s] = IF s = {} THEN base ELSE G[Max(s)][g[s \ {Max(s)}]]
    <3>1. CASE m + 1 \in s
      <4>1. Max(s) = m + 1
        BY <3>1, <2>2
      <4>2. s \ {m + 1} \in SUBSET (1 .. m + 1) /\ m + 1 \notin s \ {m + 1}
        OBVIOUS
      <4>3. g[s \ {m + 1}] = f[s \ {m + 1}]
        BY <4>2
      <4>4. g[s] = G[m + 1][f[s \ {m + 1}]]
        BY <3>1
      <4> QED BY <3>1, <4>1, <4>3, <4>4
    <3>2. CASE m + 1 \notin s
      <4>1. s \in SUBSET (1 .. m)
        BY <3>2, <2>3
      <4>2. g[s] = f[s]
        BY <3>2
      <4>3. g[s \ {Max(s)}] = f[s \ {Max(s)}]
        <5>1. s \ {Max(s)} \in SUBSET (1 .. m + 1) /\ m + 1 \notin s \ {Max(s)}
          BY <3>2
        <5> QED BY <5>1, Zenon
      <4>4. f[s] = IF s = {} THEN base ELSE G[Max(s)][f[s \ {Max(s)}]]
        BY <4>1, <2>1 DEF FoldsSets
      <4> QED BY <4>2, <4>3, <4>4
    <3> QED BY <3>1, <3>2
  <2>6. FoldsSets(g, m + 1, base, G)
    BY <2>5 DEF FoldsSets
  <2> QED BY <2>0, <2>4, <2>6
<1> HIDE DEF S
<1>3. \A m \in 0 .. n : m \in S
  BY <1>1, <1>2, InductionUpTo, Zenon
<1>4. n \in S
  BY <1>3
<1> QED BY <1>4 DEF S

\* What is to be known of f: within A it does what G says.
FoldsWithin(A, f, n, base, G) ==
  /\ f[{}] = base
  /\ \A s \in SUBSET (1 .. n) :
       s # {} /\ f[s \ {Max(s)}] \in A => f[s] = G[Max(s)][f[s \ {Max(s)}]]

\* The values on the way.
RunsBy(acc, n, base, G) ==
  /\ acc[0] = base
  /\ \A m \in 1 .. n : acc[m] = G[m][acc[m - 1]]

\* Going through a fold number by number.
LEMMA FoldRuns ==
  ASSUME NEW A, NEW n \in Nat, NEW base \in A, NEW G \in [1 .. n -> [A -> A]],
         NEW f, FoldsWithin(A, f, n, base, G)
  PROVE  \E acc \in [0 .. n -> A] : RunsBy(acc, n, base, G) /\ acc[n] = f[1 .. n]
<1> DEFINE acc == [m \in 0 .. n |-> f[1 .. m]]
           S == {m \in Nat : f[1 .. m] \in A}
<1>1. 1 .. 0 = {}
  OBVIOUS
<1>2. ASSUME NEW m \in 1 .. n, f[1 .. m - 1] \in A
      PROVE  f[1 .. m] = G[m][f[1 .. m - 1]]
  <2>1. Max(1 .. m) = m /\ (1 .. m) \ {Max(1 .. m)} = 1 .. m - 1
    BY MaxOfInterval
  <2>2. 1 .. m \in SUBSET (1 .. n) /\ 1 .. m # {}
    BY MaxOfInterval
  <2>3. f[1 .. m] = G[Max(1 .. m)][f[(1 .. m) \ {Max(1 .. m)}]]
    BY <1>2, <2>1, <2>2, Zenon DEF FoldsWithin
  <2> QED BY <2>1, <2>3
<1>3. 0 \in S
  BY <1>1 DEF FoldsWithin
<1>4. \A m \in 0 .. n - 1 : m \in S => m + 1 \in S
  <2> SUFFICES ASSUME NEW m \in 0 .. n - 1, m \in S
               PROVE  m + 1 \in S
    BY Zenon
  <2>1. PICK k \in 1 .. n : k = m + 1 /\ k - 1 = m /\ k \in Nat
    OBVIOUS
  <2>2. f[1 .. k - 1] \in A
    BY <2>1
  <2>3. f[1 .. k] = G[k][f[1 .. k - 1]]
    BY <1>2, <2>2
  <2>4. G[k] \in [A -> A]
    OBVIOUS
  <2>5. G[k][f[1 .. k - 1]] \in A
    BY <2>2, <2>4
  <2> QED BY <2>1, <2>3, <2>5
<1> HIDE DEF S
<1>5. \A m \in 0 .. n : m \in S
  BY <1>3, <1>4, InductionUpTo
<1>6. \A m \in 0 .. n : f[1 .. m] \in A
  BY <1>5 DEF S
<1>7. acc \in [0 .. n -> A]
  BY <1>6
<1>8. acc[0] = base /\ acc[n] = f[1 .. n]
  BY <1>1 DEF FoldsWithin
<1>9. ASSUME NEW m \in 1 .. n
      PROVE  acc[m] = G[m][acc[m - 1]]
  <2>1. m \in 0 .. n /\ m - 1 \in 0 .. n
    OBVIOUS
  <2>2. f[1 .. m] = G[m][f[1 .. m - 1]]
    BY <1>2, <1>6, <2>1
  <2> QED BY <2>1, <2>2
<1> HIDE DEF acc
<1> QED BY <1>7, <1>8, <1>9 DEF RunsBy

LEMMA RunExists ==
  ASSUME NEW A, NEW n \in Nat, NEW base \in A, NEW G \in [1 .. n -> [A -> A]]
  PROVE  \E acc \in [0 .. n -> A] : RunsBy(acc, n, base, G)
<1>1. PICK f \in [SUBSET (1 .. n) -> A] : FoldsSets(f, n, base, G)
  BY FoldExists
<1>2. FoldsWithin(A, f, n, base, G)
  BY <1>1 DEF FoldsSets, FoldsWithin
<1> QED BY <1>2, FoldRuns

(***************************************************************************)
(* A fold over a sequence: H says what each element does to a value of A.  *)
(* The operators of a module that fold with FoldLeft are shown to be such  *)
(* folds one by one; an operator cannot be the parameter of a lemma here.  *)
(***************************************************************************)
FoldsFor(A, f, seq, base, H) ==
  /\ f[{}] = base
  /\ \A s \in SUBSET (DOMAIN seq) :
       s # {} /\ f[s \ {Max(s)}] \in A
         => f[s] = H[seq[Max(s)]][f[s \ {Max(s)}]]

FoldOver(A, f, seq, base, H) ==
  \A s \in SUBSET (DOMAIN seq) :
    /\ s # {} => Max(s) \in DOMAIN seq /\ f[s \ {Max(s)}] \in A
    /\ f[s] = IF s = {} THEN base ELSE H[seq[Max(s)]][f[s \ {Max(s)}]]

\* There is one.
LEMMA FoldForExists ==
  ASSUME NEW A, NEW X, NEW base \in A, NEW H \in [X -> [A -> A]], NEW seq \in Seq(X)
  PROVE  \E f \in [SUBSET (DOMAIN seq) -> A] : FoldOver(A, f, seq, base, H)
<1> DEFINE n == Len(seq)
           G == [m \in 1 .. n |-> H[seq[m]]]
<1>1. n \in Nat /\ DOMAIN seq = 1 .. n /\ \A m \in 1 .. n : seq[m] \in X
  OBVIOUS
<1> HIDE DEF n
<1>2. G \in [1 .. n -> [A -> A]]
  BY <1>1
<1>3. PICK f \in [SUBSET (1 .. n) -> A] : FoldsSets(f, n, base, G)
  <2> HIDE DEF G
  <2> QED BY <1>1, <1>2, FoldExists
<1>4. ASSUME NEW s \in SUBSET (1 .. n)
      PROVE  /\ s # {} => Max(s) \in 1 .. n /\ f[s \ {Max(s)}] \in A
             /\ f[s] = IF s = {} THEN base ELSE H[seq[Max(s)]][f[s \ {Max(s)}]]
  <2>1. s # {} => Max(s) \in 1 .. n
    BY <1>1, MaxOfNumbers
  <2>2. f[s] = IF s = {} THEN base ELSE G[Max(s)][f[s \ {Max(s)}]]
    BY <1>3 DEF FoldsSets
  <2>3. s # {} => G[Max(s)] = H[seq[Max(s)]]
    BY <2>1
  <2>4. f[s \ {Max(s)}] \in A
    OBVIOUS
  <2> HIDE DEF G
  <2> QED BY <2>1, <2>2, <2>3, <2>4
<1> QED BY <1>1, <1>4 DEF FoldOver

LEMMA FoldForEmpty ==
  ASSUME NEW A, NEW f, NEW base, NEW H, FoldsFor(A, f, << >>, base, H)
  PROVE  f[DOMAIN << >>] = base
BY DEF FoldsFor

RunsOver(acc, f, seq, base, H) ==
  /\ acc[0] = base
  /\ \A m \in 1 .. Len(seq) : acc[m] = H[seq[m]][acc[m - 1]]
  /\ acc[Len(seq)] = f[DOMAIN seq]

\* Going through it element by element.
LEMMA FoldForRuns ==
  ASSUME NEW A, NEW X, NEW base \in A, NEW H \in [X -> [A -> A]], NEW seq \in Seq(X),
         NEW f, FoldsFor(A, f, seq, base, H)
  PROVE  \E acc \in [0 .. Len(seq) -> A] : RunsOver(acc, f, seq, base, H)
<1> DEFINE n == Len(seq)
           G == [m \in 1 .. n |-> H[seq[m]]]
<1>1. n \in Nat /\ DOMAIN seq = 1 .. n /\ \A m \in 1 .. n : seq[m] \in X
  OBVIOUS
<1> HIDE DEF n
<1>2. G \in [1 .. n -> [A -> A]]
  BY <1>1
<1>3. FoldsWithin(A, f, n, base, G)
  <2>1. f[{}] = base
    BY DEF FoldsFor
  <2>2. ASSUME NEW s \in SUBSET (1 .. n), s # {}, f[s \ {Max(s)}] \in A
        PROVE  f[s] = G[Max(s)][f[s \ {Max(s)}]]
    <3>1. f[s] = H[seq[Max(s)]][f[s \ {Max(s)}]]
      BY <1>1, <2>2 DEF FoldsFor
    <3>2. Max(s) \in 1 .. n
      BY <1>1, <2>2, MaxOfNumbers
    <3> QED BY <3>1, <3>2
  <2> HIDE DEF G
  <2> QED BY <2>1, <2>2 DEF FoldsWithin
<1>4. PICK acc \in [0 .. n -> A] : RunsBy(acc, n, base, G) /\ acc[n] = f[1 .. n]
  <2> HIDE DEF G
  <2> QED BY <1>1, <1>2, <1>3, FoldRuns
<1>5. acc[0] = base /\ \A m \in 1 .. n : acc[m] = H[seq[m]][acc[m - 1]]
  <2>1. acc[0] = base /\ \A m \in 1 .. n : acc[m] = G[m][acc[m - 1]]
    BY <1>4 DEF RunsBy
  <2> QED BY <2>1
<1>6. acc[n] = f[DOMAIN seq]
  BY <1>1, <1>4
<1> HIDE DEF G
<1> QED BY <1>5, <1>6 DEF n, RunsOver

StepsTo(A, f, g, seq, x, H) ==
  /\ f[DOMAIN seq] \in A
  /\ g[DOMAIN Append(seq, x)] = H[x][f[DOMAIN seq]]

\* What one more element does to it.
LEMMA FoldForAppend ==
  ASSUME NEW A, NEW X, NEW base \in A, NEW H \in [X -> [A -> A]],
         NEW seq \in Seq(X), NEW x \in X, NEW f, NEW g,
         FoldsFor(A, f, seq, base, H),
         FoldsFor(A, g, Append(seq, x), base, H)
  PROVE  StepsTo(A, f, g, seq, x, H)
<1> DEFINE n == Len(seq)
           seqx == Append(seq, x)
           G == [m \in 1 .. n |-> H[seq[m]]]
           Gx == [m \in 1 .. n + 1 |-> H[seqx[m]]]
<1>1. /\ n \in Nat /\ DOMAIN seq = 1 .. n
      /\ \A m \in 1 .. n : seq[m] \in X
      /\ n + 1 \in Nat /\ n + 1 \in 1 .. n + 1
  OBVIOUS
<1>2. /\ DOMAIN seqx = 1 .. n + 1
      /\ \A m \in 1 .. n + 1 : seqx[m] \in X
      /\ \A m \in 1 .. n : seqx[m] = seq[m]
      /\ seqx[n + 1] = x
  OBVIOUS
<1>3. FoldsFor(A, g, seqx, base, H)
  OBVIOUS
<1> HIDE DEF n, seqx
<1>4. G \in [1 .. n -> [A -> A]] /\ Gx \in [1 .. n + 1 -> [A -> A]]
  BY <1>1, <1>2
<1>5. FoldsWithin(A, f, n, base, G)
  <2> SUFFICES ASSUME NEW s \in SUBSET (1 .. n), s # {}, f[s \ {Max(s)}] \in A
               PROVE  f[s] = G[Max(s)][f[s \ {Max(s)}]]
    BY DEF FoldsWithin, FoldsFor
  <2>1. f[s] = H[seq[Max(s)]][f[s \ {Max(s)}]]
    BY <1>1 DEF FoldsFor
  <2>2. G[Max(s)] = H[seq[Max(s)]]
    BY <1>1, MaxOfNumbers
  <2> QED BY <2>1, <2>2
<1>6. FoldsWithin(A, g, n + 1, base, Gx)
  <2> SUFFICES ASSUME NEW s \in SUBSET (1 .. n + 1), s # {}, g[s \ {Max(s)}] \in A
               PROVE  g[s] = Gx[Max(s)][g[s \ {Max(s)}]]
    BY <1>3 DEF FoldsWithin, FoldsFor
  <2>1. g[s] = H[seqx[Max(s)]][g[s \ {Max(s)}]]
    BY <1>2, <1>3 DEF FoldsFor
  <2>2. Gx[Max(s)] = H[seqx[Max(s)]]
    BY <1>1, MaxOfNumbers
  <2> QED BY <2>1, <2>2
<1>7. \A m \in 1 .. n : Gx[m] = G[m]
  BY <1>1, <1>2
<1>8. Gx[n + 1] = H[x]
  BY <1>1, <1>2
<1> HIDE DEF G, Gx
<1>9. PICK a \in [0 .. n -> A] : RunsBy(a, n, base, G) /\ a[n] = f[1 .. n]
  BY <1>1, <1>4, <1>5, FoldRuns
<1>10. PICK b \in [0 .. n + 1 -> A] :
         RunsBy(b, n + 1, base, Gx) /\ b[n + 1] = g[1 .. n + 1]
  <2>1. PICK k \in Nat : k = n + 1
    BY <1>1
  <2>2. Gx \in [1 .. k -> [A -> A]] /\ FoldsWithin(A, g, k, base, Gx)
    BY <1>4, <1>6, <2>1
  <2>3. \E b \in [0 .. k -> A] : RunsBy(b, k, base, Gx) /\ b[k] = g[1 .. k]
    BY <2>2, FoldRuns
  <2> QED BY <2>1, <2>3
<1> DEFINE S == {m \in 0 .. n : a[m] = b[m]}
<1>11. 0 \in S
  BY <1>1, <1>9, <1>10 DEF RunsBy
<1>12. \A m \in 0 .. n - 1 : m \in S => m + 1 \in S
  <2> SUFFICES ASSUME NEW m \in 0 .. n - 1, m \in S
               PROVE  m + 1 \in S
    BY Zenon
  <2>1. PICK k \in 1 .. n : k = m + 1 /\ k - 1 = m /\ k \in 1 .. n + 1 /\ k \in 0 .. n
    BY <1>1
  <2>2. a[k] = G[k][a[k - 1]]
    BY <1>9, <2>1 DEF RunsBy
  <2>3. b[k] = Gx[k][b[k - 1]]
    BY <1>10, <2>1 DEF RunsBy
  <2> QED BY <2>1, <2>2, <2>3, <1>7
<1> HIDE DEF S
<1>13. \A m \in 0 .. n : m \in S
  BY <1>1, <1>11, <1>12, InductionUpTo, Zenon
<1>14. a[n] = b[n] /\ a[n] \in A
  BY <1>1, <1>13 DEF S
<1>15. b[n + 1] = Gx[n + 1][b[n]]
  <2>1. b[n + 1] = Gx[n + 1][b[n + 1 - 1]]
    BY <1>1, <1>10 DEF RunsBy
  <2>2. n + 1 - 1 = n
    BY <1>1
  <2> QED BY <2>1, <2>2
<1>16. DOMAIN Append(seq, x) = 1 .. n + 1
  BY <1>2 DEF seqx
<1> QED BY <1>1, <1>8, <1>9, <1>10, <1>14, <1>15, <1>16 DEF StepsTo

\* A sequence grows by its last element.
LEMMA PrefixAppend ==
  ASSUME NEW X, NEW seq \in Seq(X), NEW m \in 0 .. Len(seq) - 1
  PROVE  /\ SubSeq(seq, 1, m) \in Seq(X)
         /\ m + 1 \in DOMAIN seq /\ seq[m + 1] \in X
         /\ SubSeq(seq, 1, m + 1) = Append(SubSeq(seq, 1, m), seq[m + 1])
OBVIOUS

LEMMA SeqOfMore ==
  ASSUME NEW X, NEW Y, X \subseteq Y, NEW seq \in Seq(X)
  PROVE  seq \in Seq(Y)
OBVIOUS

LEMMA WholePrefix ==
  ASSUME NEW X, NEW seq \in Seq(X)
  PROVE  SubSeq(seq, 1, 0) = << >> /\ SubSeq(seq, 1, Len(seq)) = seq
OBVIOUS

-----------------------------------------------------------------------------
(* FlattenSeq *)

\* FlattenSeq puts one sequence after the other.
LEMMA FlattenRuns ==
  ASSUME NEW A, NEW seqs \in Seq(Seq(A))
  PROVE  \E acc \in [0 .. Len(seqs) -> Seq(A)] :
           /\ acc[0] = << >>
           /\ \A m \in 1 .. Len(seqs) : acc[m] = acc[m - 1] \o seqs[m]
           /\ FlattenSeq(seqs) = acc[Len(seqs)]
<1> DEFINE n == Len(seqs)
           G == [m \in 1 .. n |-> [a \in Seq(A) |-> a \o seqs[m]]]
<1>1. n \in Nat /\ \A m \in 1 .. n : seqs[m] \in Seq(A)
  OBVIOUS
<1>2. << >> \in Seq(A)
  OBVIOUS
<1>3. G \in [1 .. n -> [Seq(A) -> Seq(A)]]
  BY <1>1, ConcatProperties
<1> HIDE DEF n
<1>5. PICK acc \in [0 .. n -> Seq(A)] :
        acc[0] = << >> /\ \A m \in 1 .. n : acc[m] = G[m][acc[m - 1]]
  <2> HIDE DEF G
  <2>1. \E acc \in [0 .. n -> Seq(A)] : RunsBy(acc, n, << >>, G)
    BY <1>1, <1>2, <1>3, RunExists
  <2> QED BY <2>1 DEF RunsBy
<1>6. \A x \in Seq(A) : << >> \o x = x
  BY ConcatEmptySeq
<1>7. \A m \in 1 .. n : acc[m] = acc[m - 1] \o seqs[m]
  <2> SUFFICES ASSUME NEW m \in 1 .. n
               PROVE  acc[m] = acc[m - 1] \o seqs[m]
    OBVIOUS
  <2>1. m - 1 \in 0 .. n
    BY <1>1
  <2>2. acc[m - 1] \in Seq(A)
    BY <2>1
  <2> QED BY <1>5, <2>2
<1> HIDE DEF G
<1>8. CASE n = 0
  <2>1. FlattenSeq(seqs) = seqs /\ seqs = << >>
    BY <1>8 DEF FlattenSeq, n
  <2> QED BY <1>5, <1>7, <1>8, <2>1 DEF n
<1>9. CASE n # 0
  <2> DEFINE Eq(h) == h = [i \in 1 .. n |->
                             IF i = 1 THEN seqs[i] ELSE h[i - 1] \o seqs[i]]
             flat == CHOOSE h : Eq(h)
             g == [i \in 1 .. n |-> acc[i]]
             S == {m \in Nat : m >= 1 => flat[m] = acc[m]}
  <2>1. Eq(g)
    <3> SUFFICES ASSUME NEW i \in 1 .. n
                 PROVE  acc[i] = IF i = 1 THEN seqs[i] ELSE g[i - 1] \o seqs[i]
      OBVIOUS
    <3>1. i # 1 => g[i - 1] = acc[i - 1]
      BY <1>1
    <3>2. i = 1 => acc[i - 1] \o seqs[i] = seqs[i]
      <4> SUFFICES ASSUME i = 1 PROVE acc[i - 1] \o seqs[i] = seqs[i]
        OBVIOUS
      <4>1. i - 1 = 0
        OBVIOUS
      <4>2. acc[i - 1] = << >>
        BY <4>1, <1>5
      <4>3. seqs[i] \in Seq(A)
        BY <1>1
      <4> QED BY <4>2, <4>3, <1>6
    <3> QED BY <1>7, <3>1, <3>2
  <2>2. Eq(flat)
    <3> HIDE DEF g
    <3> QED BY <2>1, Zenon
  <2>3. FlattenSeq(seqs) = flat[n]
    BY <1>9 DEF FlattenSeq, n
  <2> HIDE DEF flat
  <2>4. ASSUME NEW i \in 1 .. n
        PROVE  flat[i] = IF i = 1 THEN seqs[i] ELSE flat[i - 1] \o seqs[i]
    BY <2>2
  <2>5. 0 \in S
    OBVIOUS
  <2>6. \A m \in 0 .. n - 1 : m \in S => m + 1 \in S
    <3> SUFFICES ASSUME NEW m \in 0 .. n - 1, m \in S
                 PROVE  m + 1 \in S
      BY Zenon
    <3>1. PICK k \in 1 .. n : k = m + 1 /\ k - 1 = m /\ k \in Nat
      BY <1>1
    <3>2. flat[k] = acc[k]
      <4>1. CASE k = 1
        <5>1. flat[k] = seqs[k] /\ acc[k] = acc[0] \o seqs[k]
          <6>1. k - 1 = 0 /\ acc[k] = acc[k - 1] \o seqs[k]
            <7>1. acc[k] = acc[k - 1] \o seqs[k]
              BY <1>7
            <7> QED BY <4>1, <7>1
          <6>2. flat[k] = seqs[k]
            BY <4>1, <2>4
          <6> QED BY <6>1, <6>2
        <5>2. acc[0] = << >>
          BY <1>5
        <5>3. seqs[k] \in Seq(A)
          BY <1>1
        <5> QED BY <5>1, <5>2, <5>3, <1>6
      <4>2. CASE k # 1
        <5>1. flat[k - 1] = acc[k - 1]
          BY <4>2, <3>1
        <5> QED BY <4>2, <5>1, <1>7, <2>4
      <4> QED BY <4>1, <4>2
    <3> QED BY <3>1, <3>2
  <2> HIDE DEF S
  <2>7. \A m \in 0 .. n : m \in S
    BY <1>1, <2>5, <2>6, InductionUpTo, Zenon
  <2>8. flat[n] = acc[n]
    BY <1>1, <1>9, <2>7 DEF S
  <2> QED BY <1>5, <1>7, <2>3, <2>8 DEF n
<1> QED BY <1>8, <1>9

\* One more sequence goes to the end.
LEMMA FlattenAppend ==
  ASSUME NEW A, NEW seqs \in Seq(Seq(A)), NEW seq \in Seq(A)
  PROVE  /\ FlattenSeq(seqs) \in Seq(A)
         /\ FlattenSeq(Append(seqs, seq)) = FlattenSeq(seqs) \o seq
<1> DEFINE n == Len(seqs)
           more == Append(seqs, seq)
<1>1. n \in Nat /\ n + 1 \in 1 .. n + 1 /\ n \in 0 .. n
  OBVIOUS
<1>2. /\ more \in Seq(Seq(A)) /\ Len(more) = n + 1
      /\ \A m \in 1 .. n : more[m] = seqs[m]
      /\ more[n + 1] = seq
  OBVIOUS
<1> HIDE DEF n, more
<1>3. PICK a \in [0 .. n -> Seq(A)] :
        /\ a[0] = << >>
        /\ \A m \in 1 .. n : a[m] = a[m - 1] \o seqs[m]
        /\ FlattenSeq(seqs) = a[n]
  BY FlattenRuns DEF n
<1>4. PICK b \in [0 .. n + 1 -> Seq(A)] :
        /\ b[0] = << >>
        /\ \A m \in 1 .. n + 1 : b[m] = b[m - 1] \o more[m]
        /\ FlattenSeq(more) = b[n + 1]
  <2>1. \E b \in [0 .. Len(more) -> Seq(A)] :
          /\ b[0] = << >>
          /\ \A m \in 1 .. Len(more) : b[m] = b[m - 1] \o more[m]
          /\ FlattenSeq(more) = b[Len(more)]
    BY <1>2, FlattenRuns
  <2> QED BY <2>1, <1>2
<1> DEFINE S == {m \in 0 .. n : a[m] = b[m]}
<1>5. 0 \in S
  BY <1>1, <1>3, <1>4
<1>6. \A m \in 0 .. n - 1 : m \in S => m + 1 \in S
  <2> SUFFICES ASSUME NEW m \in 0 .. n - 1, m \in S
               PROVE  m + 1 \in S
    BY Zenon
  <2>1. PICK k \in 1 .. n : k = m + 1 /\ k - 1 = m /\ k \in 1 .. n + 1 /\ k \in 0 .. n
    BY <1>1
  <2>2. a[k] = a[k - 1] \o seqs[k]
    BY <1>3
  <2>3. b[k] = b[k - 1] \o more[k]
    BY <1>4, <2>1
  <2> QED BY <2>1, <2>2, <2>3, <1>2
<1> HIDE DEF S
<1>7. \A m \in 0 .. n : m \in S
  BY <1>1, <1>5, <1>6, InductionUpTo, Zenon
<1>8. a[n] = b[n] /\ a[n] \in Seq(A)
  BY <1>1, <1>7 DEF S
<1>9. b[n + 1] = b[n] \o more[n + 1]
  <2>1. PICK k \in 1 .. n + 1 : k = n + 1 /\ k - 1 = n
    BY <1>1
  <2>2. b[k] = b[k - 1] \o more[k]
    BY <1>4
  <2> QED BY <2>1, <2>2
<1>10. FlattenSeq(more) = FlattenSeq(seqs) \o seq
  BY <1>2, <1>3, <1>4, <1>8, <1>9
<1> QED BY <1>3, <1>8, <1>10 DEF more

LEMMA FlattenEmpty == FlattenSeq(<< >>) = << >>
BY DEF FlattenSeq

=============================================================================
