----------------------------- MODULE FoldLemmas ------------------------------
(***************************************************************************)
(* What FoldLeft of SequencesExt computes, for every sequence: the sums    *)
(* over the list of USB modules (UsbModules) and the value of a printed    *)
(* number (PrintNumber) are such folds.  FoldLeft stands on                *)
(* MapThenFoldSet, which chooses a recursive function of the sets of       *)
(* indices; that there is one is shown here, from the well-foundedness of  *)
(* the finite sets, and with it the equations of the fold.                 *)
(***************************************************************************)
EXTENDS Integers, SequencesExt, FiniteSetTheorems, SequenceTheorems, TLAPS

\* A set of numbers has a least one,
LEMMA LeastNumber == ASSUME NEW T \in SUBSET Nat, T # {} PROVE \E n \in T : \A m \in T : n <= m
<1>1. PICK t \in T : TRUE
  OBVIOUS
<1> DEFINE Below(m) == 0..m
           F == {B \in SUBSET (0..t) : \E m \in T : B = Below(m)}
<1>2. Below(t) \in F
  BY <1>1
<1>3. F \subseteq FiniteSubsetsOf(Nat)
  <2>1. IsFiniteSet(0..t)
    BY <1>1, FS_Interval
  <2>2. \A B \in F : IsFiniteSet(B)
    BY <2>1, FS_Subset
  <2>. QED
    BY <1>1, <2>2 DEF FiniteSubsetsOf
<1>4. \E x \in F : \A y \in F : ~ (<<y, x>> \in StrictSubsetOrdering(Nat))
  <2> HIDE DEF F
  <2>1. IsWellFoundedOn(StrictSubsetOrdering(Nat), FiniteSubsetsOf(Nat))
    BY FS_StrictSubsetOrderingWellFounded
  <2>. QED
    BY <1>2, <1>3, <2>1, WFMin
<1>5. PICK x \in F : \A y \in F : ~ (<<y, x>> \in StrictSubsetOrdering(Nat))
  BY <1>4
<1>6. PICK n \in T : x = Below(n) /\ n <= t
  <2>1. PICK n \in T : x = Below(n)
    BY <1>5
  <2>2. n \in Nat /\ t \in Nat /\ n \in 0..t
    BY <1>1, <1>5, <2>1
  <2>. QED
    BY <2>1, <2>2
<1>7. ASSUME NEW m \in T, ~ (n <= m) PROVE FALSE
  <2>1. m \in Nat /\ n \in Nat /\ t \in Nat /\ m < n
    BY <1>1, <1>6, <1>7
  <2>2. Below(m) \subseteq Below(n) /\ Below(m) # Below(n) /\ Below(m) \subseteq 0..t
    BY <2>1, <1>6
  <2>3. Below(m) \in F /\ Below(m) \in SUBSET Nat /\ Below(n) \in SUBSET Nat
    BY <2>1, <2>2
  <2>4. <<Below(m), x>> \in StrictSubsetOrdering(Nat)
    BY <1>6, <2>2, <2>3 DEF StrictSubsetOrdering
  <2>. QED
    BY <1>5, <2>3, <2>4
<1>. QED
  BY <1>7

\* and one with 0 and each successor of its numbers has them all.
LEMMA ByInduction == ASSUME NEW T \in SUBSET Nat, 0 \in T, \A n \in T : n + 1 \in T PROVE T = Nat
<1> SUFFICES ASSUME Nat \ T # {} PROVE FALSE
  OBVIOUS
<1>1. PICK n \in Nat \ T : \A m \in Nat \ T : n <= m
  BY LeastNumber
<1>2. n # 0 /\ n - 1 \in Nat /\ n - 1 \in T
  BY <1>1
<1>. QED
  BY <1>1, <1>2

\* MapThenFoldSet takes the indices of a sequence from the last: that is the largest.
LEMMA MaxOfFirst == ASSUME NEW k \in Nat, NEW s \in SUBSET (1..k + 1), k + 1 \in s
  PROVE Max(s) = k + 1 /\ s \ {Max(s)} \in SUBSET (1..k)
<1>1. \A y \in s : k + 1 >= y
  OBVIOUS
<1>2. Max(s) \in s /\ \A y \in s : Max(s) >= y
  BY <1>1 DEF Max
<1>3. Max(s) \in 1..k + 1 /\ Max(s) >= k + 1
  BY <1>2
<1>4. Max(s) = k + 1
  BY <1>3
<1>5. s \ {k + 1} \in SUBSET (1..k)
  OBVIOUS
<1>. QED
  BY <1>4, <1>5

\* Operations on A with an element of E.
Operations(A, E) == [A -> [E -> A]]

\* h goes over the sets of the first n indices of x, as the function that MapThenFoldSet chooses.
FoldGoes(h, A, G, base, x, n) ==
  /\ h[{}] = base
  /\ \A s \in SUBSET (1..n) : s # {} /\ h[s \ {Max(s)}] \in A
         => h[s] = G[h[s \ {Max(s)}]][x[Max(s)]]

\* f does, with a value of A for each of them.
IsFoldFunction(f, A, G, base, x, n) ==
  /\ f \in [SUBSET (1..n) -> A] /\ f[{}] = base
  /\ \A s \in SUBSET (1..n) : s # {} => f[s] = G[f[s \ {Max(s)}]][x[Max(s)]]

\* p are the values of the fold of x after each of its elements.
FoldValues(p, A, G, base, x) ==
  /\ p \in [0..Len(x) -> A] /\ p[0] = base
  /\ \A i \in Nat : i + 1 <= Len(x) => p[i + 1] = G[p[i]][x[i + 1]]

\* v is the value of the fold of x: the operation, from base, over its elements in their order.
IsFold(v, A, G, base, x) == \E p : FoldValues(p, A, G, base, x) /\ v = p[Len(x)]

\* The function for one index more,
LEMMA FoldLonger ==
  ASSUME NEW A, NEW E, NEW G \in Operations(A, E), NEW base, NEW n \in Nat, NEW x,
         x[n + 1] \in E, NEW f, IsFoldFunction(f, A, G, base, x, n)
  PROVE  \E g : IsFoldFunction(g, A, G, base, x, n + 1)
<1> DEFINE Old(s) == s \in SUBSET (1..n)
           V(s) == IF Old(s) THEN f[s] ELSE G[f[s \ {n + 1}]][x[n + 1]]
           g == [s \in SUBSET (1..n + 1) |-> V(s)]
<1>1. f \in [SUBSET (1..n) -> A] /\ G \in [A -> [E -> A]]
  BY DEF IsFoldFunction, Operations
<1>2. \A s \in SUBSET (1..n + 1) : Old(s) \/ (n + 1 \in s /\ Old(s \ {n + 1}))
  OBVIOUS
<1>3. ASSUME NEW s \in SUBSET (1..n + 1) PROVE V(s) \in A
  <2>1. CASE Old(s)
    BY <1>1, <2>1
  <2>2. CASE ~Old(s)
    <3>1. f[s \ {n + 1}] \in A
      BY <1>1, <1>2, <2>2
    <3>2. G[f[s \ {n + 1}]][x[n + 1]] \in A
      BY <1>1, <3>1
    <3>. QED
      BY <2>2, <3>2
  <2>. QED
    BY <2>1, <2>2
<1>4. g \in [SUBSET (1..n + 1) -> A]
  <2> HIDE DEF V
  <2>. QED
    BY <1>3
<1>5. \A s \in SUBSET (1..n) : s \in SUBSET (1..n + 1) /\ g[s] = f[s]
  OBVIOUS
<1>6. g[{}] = base
  BY <1>5 DEF IsFoldFunction
<1>7. ASSUME NEW s \in SUBSET (1..n + 1), s # {}
      PROVE  g[s] = G[g[s \ {Max(s)}]][x[Max(s)]]
  <2>1. CASE Old(s)
    <3>1. s \ {Max(s)} \in SUBSET (1..n)
      BY <2>1
    <3>2. g[s] = f[s] /\ g[s \ {Max(s)}] = f[s \ {Max(s)}]
      BY <1>5, <2>1, <3>1
    <3>3. f[s] = G[f[s \ {Max(s)}]][x[Max(s)]]
      BY <1>7, <2>1 DEF IsFoldFunction
    <3> HIDE DEF g
    <3>. QED
      BY <3>2, <3>3
  <2>2. CASE ~Old(s)
    <3>1. n + 1 \in s /\ Old(s \ {n + 1})
      BY <1>2, <2>2
    <3>2. Max(s) = n + 1
      BY <3>1, MaxOfFirst
    <3>3. g[s] = G[f[s \ {n + 1}]][x[n + 1]] /\ g[s \ {n + 1}] = f[s \ {n + 1}]
      BY <1>5, <2>2, <3>1
    <3> HIDE DEF g
    <3>. QED
      BY <3>2, <3>3
  <2>. QED
    BY <2>1, <2>2
<1>8. IsFoldFunction(g, A, G, base, x, n + 1)
  <2> HIDE DEF g
  <2>. QED
    BY <1>4, <1>6, <1>7 DEF IsFoldFunction
<1>. QED
  BY <1>8

\* so there is one for every sequence.
LEMMA FoldExists ==
  ASSUME NEW A, NEW E, NEW G \in Operations(A, E), NEW base \in A, NEW x \in Seq(E)
  PROVE  \E f : IsFoldFunction(f, A, G, base, x, Len(x))
<1> DEFINE N == Len(x)
           P(n) == n <= N => \E f : IsFoldFunction(f, A, G, base, x, n)
           T == {n \in Nat : P(n)}
<1>0. N \in Nat /\ \A i \in 1..N : x[i] \in E
  OBVIOUS
<1>1. P(0)
  <2> DEFINE f == [s \in SUBSET (1..0) |-> base]
  <2>1. SUBSET (1..0) = {{}}
    OBVIOUS
  <2>2. f \in [SUBSET (1..0) -> A] /\ f[{}] = base
    BY <2>1
  <2>3. IsFoldFunction(f, A, G, base, x, 0)
    BY <2>1, <2>2 DEF IsFoldFunction
  <2>. QED
    BY <2>3
<1>2. ASSUME NEW n \in Nat, P(n) PROVE P(n + 1)
  <2> SUFFICES ASSUME n + 1 <= N PROVE \E f : IsFoldFunction(f, A, G, base, x, n + 1)
    OBVIOUS
  <2>1. n <= N /\ n + 1 \in 1..N
    BY <1>0
  <2>2. x[n + 1] \in E /\ \E f : IsFoldFunction(f, A, G, base, x, n)
    BY <1>0, <1>2, <2>1
  <2>. QED
    BY <2>2, FoldLonger
<1> HIDE DEF P
<1>3. T \in SUBSET Nat /\ 0 \in T /\ \A n \in T : n + 1 \in T
  BY <1>1, <1>2
<1>5. T = Nat
  <2> HIDE DEF T
  <2>. QED
    BY <1>3, ByInduction
<1>6. P(N)
  <2>1. N \in T
    BY <1>0, <1>5
  <2>. QED
    BY <2>1
<1>. QED
  BY <1>0, <1>6 DEF P

\* Whatever goes over the indices computes the fold.
LEMMA FoldSteps ==
  ASSUME NEW A, NEW E, NEW G \in Operations(A, E), NEW base \in A, NEW x \in Seq(E), NEW h,
         FoldGoes(h, A, G, base, x, Len(x))
  PROVE  IsFold(h[1..Len(x)], A, G, base, x)
<1> DEFINE N == Len(x)
           p == [i \in 0..N |-> h[1..i]]
           In(n) == n <= N => h[1..n] \in A
           T == {n \in Nat : In(n)}
<1>0. N \in Nat /\ x \in [1..N -> E] /\ G \in [A -> [E -> A]]
  BY DEF Operations
<1>1. h[1..0] = base
  <2>1. 1..0 = {}
    OBVIOUS
  <2>. QED
    BY <2>1 DEF FoldGoes
<1>2. ASSUME NEW n \in Nat, n + 1 <= N, h[1..n] \in A
      PROVE  h[1..n + 1] \in A /\ h[1..n + 1] = G[h[1..n]][x[n + 1]]
  <2>1. x[n + 1] \in E
    <3>1. n + 1 \in 1..N
      BY <1>0, <1>2
    <3>. QED
      BY <1>0, <3>1
  <2> DEFINE s == 1..n + 1
  <2>2. s \in SUBSET (1..N) /\ s \in SUBSET (1..n + 1) /\ n + 1 \in s /\ s # {}
            /\ s \ {n + 1} = 1..n
    <3>1. \A i \in s : i \in 1..N
      BY <1>0, <1>2
    <3>2. n + 1 \in s /\ s \ {n + 1} = 1..n
      OBVIOUS
    <3>. QED
      BY <3>1, <3>2
  <2> HIDE DEF s
  <2>3. Max(s) = n + 1
    BY <2>2, MaxOfFirst
  <2>4. h[s] = G[h[1..n]][x[n + 1]]
    BY <1>2, <2>2, <2>3 DEF FoldGoes
  <2>. QED
    BY <1>0, <1>2, <2>1, <2>4 DEF s
<1>3. T = Nat
  <2>1. In(0)
    BY <1>1
  <2>2. ASSUME NEW n \in Nat, In(n) PROVE In(n + 1)
    <3>1. n + 1 <= N => n <= N
      BY <1>0
    <3> HIDE DEF N
    <3>. QED
      BY <1>2, <2>2, <3>1
  <2> HIDE DEF In
  <2>3. T \in SUBSET Nat /\ 0 \in T /\ \A n \in T : n + 1 \in T
    BY <2>1, <2>2
  <2> HIDE DEF T
  <2>. QED
    BY <2>3, ByInduction
<1>4. ASSUME NEW n \in Nat, n <= N PROVE h[1..n] \in A
  BY <1>3, <1>4
<1>5. p \in [0..N -> A] /\ p[0] = base /\ p[N] = h[1..N]
  BY <1>0, <1>1, <1>4
<1>6. ASSUME NEW i \in Nat, i + 1 <= N PROVE p[i + 1] = G[p[i]][x[i + 1]]
  <2>1. i \in 0..N /\ i + 1 \in 0..N /\ i <= N
    BY <1>0, <1>6
  <2>2. p[i] = h[1..i] /\ p[i + 1] = h[1..i + 1]
    BY <2>1
  <2>. QED
    BY <1>2, <1>4, <1>6, <2>1, <2>2
<1>7. FoldValues(p, A, G, base, x)
  <2> HIDE DEF p
  <2>. QED
    BY <1>5, <1>6 DEF FoldValues
<1>. QED
  BY <1>5, <1>7 DEF IsFold

\* x and y have k elements in common.
Common(x, y, k) == k <= Len(x) /\ k <= Len(y) /\ \A i \in 1..k : x[i] = y[i]

\* The values do not depend on what comes after.
LEMMA FoldValuesAgree ==
  ASSUME NEW A, NEW E, NEW G, NEW base, NEW x \in Seq(E), NEW y \in Seq(E), NEW p, NEW q,
         FoldValues(p, A, G, base, x), FoldValues(q, A, G, base, y), NEW k \in Nat,
         Common(x, y, k)
  PROVE  p[k] = q[k]
<1> USE DEF Common
<1> DEFINE Same(n) == n <= k => p[n] = q[n]
           T == {n \in Nat : Same(n)}
<1>1. Same(0)
  BY DEF FoldValues
<1>2. ASSUME NEW n \in Nat, Same(n) PROVE Same(n + 1)
  <2> SUFFICES ASSUME n + 1 <= k PROVE p[n + 1] = q[n + 1]
    OBVIOUS
  <2>1. Len(x) \in Nat /\ Len(y) \in Nat
    BY LenProperties
  <2>2. n + 1 \in 1..k /\ n + 1 <= Len(x) /\ n + 1 <= Len(y) /\ p[n] = q[n]
    BY <1>2, <2>1
  <2>3. p[n + 1] = G[p[n]][x[n + 1]] /\ q[n + 1] = G[q[n]][y[n + 1]]
    BY <2>2 DEF FoldValues
  <2>. QED
    BY <2>2, <2>3
<1>3. T = Nat
  <2> HIDE DEF Same
  <2>1. T \in SUBSET Nat /\ 0 \in T /\ \A n \in T : n + 1 \in T
    BY <1>1, <1>2
  <2> HIDE DEF T
  <2>. QED
    BY <2>1, ByInduction
<1>4. k \in T
  BY <1>3
<1>. QED
  BY <1>4

\* The fold is a value of the operation,
LEMMA FoldTyped ==
  ASSUME NEW A, NEW E, NEW G, NEW base, NEW x \in Seq(E), NEW v, IsFold(v, A, G, base, x)
  PROVE  v \in A
<1>1. PICK p : FoldValues(p, A, G, base, x) /\ v = p[Len(x)]
  BY DEF IsFold
<1>2. Len(x) \in 0..Len(x)
  <2>1. Len(x) \in Nat
    BY LenProperties
  <2>. QED
    BY <2>1
<1>. QED
  BY <1>1, <1>2 DEF FoldValues

\* that of the empty sequence is where it starts,
LEMMA FoldOfNone ==
  ASSUME NEW A, NEW G, NEW base, NEW v, IsFold(v, A, G, base, <<>>)
  PROVE  v = base
<1>1. Len(<<>>) = 0
  OBVIOUS
<1>. QED
  BY <1>1 DEF IsFold, FoldValues

\* and one element more is one operation more.
LEMMA FoldOfAppend ==
  ASSUME NEW A, NEW E, NEW G, NEW base, NEW x \in Seq(E), NEW e \in E, NEW v, NEW w,
         IsFold(v, A, G, base, x), IsFold(w, A, G, base, Append(x, e))
  PROVE  w = G[v][e]
<1> DEFINE y == Append(x, e)
<1>1. PICK p : FoldValues(p, A, G, base, x) /\ v = p[Len(x)]
  BY DEF IsFold
<1>2. PICK q : FoldValues(q, A, G, base, y) /\ w = q[Len(y)]
  BY DEF IsFold
<1>3. /\ y \in Seq(E) /\ Len(x) \in Nat /\ Len(y) = Len(x) + 1 /\ y[Len(x) + 1] = e
      /\ \A i \in 1..Len(x) : y[i] = x[i]
  OBVIOUS
<1> HIDE DEF y
<1> DEFINE n == Len(x)
<1>4. n \in Nat /\ n <= Len(x) /\ n <= Len(y) /\ \A i \in 1..n : x[i] = y[i]
  BY <1>3
<1> HIDE DEF n
<1>8. Common(x, y, n)
  BY <1>4 DEF Common
<1>5. p[n] = q[n]
  BY <1>1, <1>2, <1>3, <1>4, <1>8, FoldValuesAgree
<1>6. n + 1 <= Len(y) /\ Len(y) = n + 1 /\ y[n + 1] = e /\ v = p[n]
  BY <1>1, <1>3 DEF n
<1>7. q[n + 1] = G[q[n]][y[n + 1]]
  BY <1>2, <1>4, <1>6 DEF FoldValues
<1>. QED
  BY <1>2, <1>5, <1>6, <1>7

\* The fold of a concatenation goes on where that of its first part ends.
LEMMA FoldOfConcat ==
  ASSUME NEW A, NEW E, NEW G, NEW base, NEW x \in Seq(E), NEW y \in Seq(E), NEW u, NEW v, NEW w,
         IsFold(v, A, G, base, x), IsFold(w, A, G, v, y), IsFold(u, A, G, base, x \o y)
  PROVE  u = w
<1> DEFINE z == x \o y
           m == Len(x)
           n == Len(y)
<1>1. PICK p : FoldValues(p, A, G, base, x) /\ v = p[m]
  BY DEF IsFold
<1>2. PICK q : FoldValues(q, A, G, v, y) /\ w = q[n]
  BY DEF IsFold
<1>3. PICK r : FoldValues(r, A, G, base, z) /\ u = r[Len(z)]
  BY DEF IsFold
<1>4. /\ z \in Seq(E) /\ m \in Nat /\ n \in Nat /\ Len(z) = m + n
      /\ \A i \in 1..m : z[i] = x[i]
      /\ \A i \in 1..n : z[m + i] = y[i]
  <2>1. /\ z \in Seq(E) /\ Len(z) = m + n /\ m \in Nat /\ n \in Nat
        /\ \A i \in 1..m + n : z[i] = IF i <= m THEN x[i] ELSE y[i - m]
    BY ConcatProperties, LenProperties
  <2> HIDE DEF z, m, n
  <2>2. \A i \in 1..m : i \in 1..m + n /\ i <= m
    BY <2>1
  <2>3. \A i \in 1..n : m + i \in 1..m + n /\ ~ (m + i <= m) /\ m + i - m = i
    BY <2>1
  <2>4. ASSUME NEW i \in 1..n PROVE z[m + i] = y[i]
    BY <2>1, <2>3
  <2>. QED
    BY <2>1, <2>2, <2>4
<1>5. m <= Len(x) /\ m <= Len(z)
  BY <1>4
<1>6. r[m] = v
  <2>1. \A i \in 1..m : x[i] = z[i]
    BY <1>4
  <2>2. p[m] = r[m]
    <3> HIDE DEF z, m
    <3>1. Common(x, z, m)
      BY <1>5, <2>1 DEF Common
    <3>. QED
      BY <1>1, <1>3, <1>4, <3>1, FoldValuesAgree
  <2>. QED
    BY <1>1, <2>2
<1> HIDE DEF z, m, n
<1> DEFINE Same(i) == i <= n => r[m + i] = q[i]
           T == {i \in Nat : Same(i)}
<1>7. Same(0)
  <2>1. m + 0 = m
    BY <1>4
  <2>. QED
    BY <1>2, <1>6, <2>1 DEF FoldValues
<1>8. ASSUME NEW i \in Nat, Same(i) PROVE Same(i + 1)
  <2> SUFFICES ASSUME i + 1 <= n PROVE r[m + (i + 1)] = q[i + 1]
    OBVIOUS
  <2>1. i + 1 \in 1..n /\ m + i \in Nat /\ m + (i + 1) = (m + i) + 1 /\ (m + i) + 1 <= Len(z)
    BY <1>4
  <2>2. r[m + i] = q[i]
    BY <1>4, <1>8
  <2>3. r[(m + i) + 1] = G[r[m + i]][z[(m + i) + 1]]
    BY <1>3, <2>1 DEF FoldValues
  <2>4. q[i + 1] = G[q[i]][y[i + 1]]
    BY <1>2 DEF FoldValues, n
  <2>5. z[m + (i + 1)] = y[i + 1]
    BY <1>4, <2>1
  <2>. QED
    BY <2>1, <2>2, <2>3, <2>4, <2>5
<1>9. n \in T
  <2> HIDE DEF Same
  <2>1. T \in SUBSET Nat /\ 0 \in T /\ \A i \in T : i + 1 \in T
    BY <1>7, <1>8
  <2>2. T = Nat
    <3> HIDE DEF T
    <3>. QED
      BY <2>1, ByInduction
  <2>. QED
    BY <1>4, <2>2
<1>. QED
  BY <1>2, <1>3, <1>4, <1>9

\* There is only one value.
LEMMA FoldIsOne ==
  ASSUME NEW A, NEW E, NEW G, NEW base, NEW x \in Seq(E), NEW v, NEW w,
         IsFold(v, A, G, base, x), IsFold(w, A, G, base, x)
  PROVE  v = w
<1>1. PICK p : FoldValues(p, A, G, base, x) /\ v = p[Len(x)]
  BY DEF IsFold
<1>2. PICK q : FoldValues(q, A, G, base, x) /\ w = q[Len(x)]
  BY DEF IsFold
<1>3. Len(x) \in Nat
  OBVIOUS
<1>4. Common(x, x, Len(x))
  BY <1>3 DEF Common
<1>. QED
  BY <1>1, <1>2, <1>3, <1>4, FoldValuesAgree

\* One element in front is one operation before the others.
LEMMA FoldOfCons ==
  ASSUME NEW A, NEW E, NEW G, NEW base \in A, NEW x \in Seq(E), NEW e \in E, NEW w,
         IsFold(w, A, G, G[base][e], x)
  PROVE  IsFold(w, A, G, base, <<e>> \o x)
<1> DEFINE y == <<e>> \o x
           N == Len(x)
<1>1. PICK p : FoldValues(p, A, G, G[base][e], x) /\ w = p[N]
  BY DEF IsFold
<1>2. /\ y \in Seq(E) /\ N \in Nat /\ Len(y) = N + 1 /\ y[1] = e
      /\ \A i \in 1..N : y[i + 1] = x[i]
  <2>1. N \in Nat /\ <<e>> \in Seq(E) /\ Len(<<e>>) = 1 /\ <<e>>[1] = e
    OBVIOUS
  <2>2. y \in Seq(E) /\ Len(y) = N + 1
    BY <2>1
  <2>3. y[1] = e
    BY <2>1
  <2>4. ASSUME NEW i \in 1..N PROVE y[i + 1] = x[i]
    BY <2>1
  <2>. QED
    BY <2>1, <2>2, <2>3, <2>4
<1> HIDE DEF y, N
<1> DEFINE q == [i \in 0..N + 1 |-> IF i = 0 THEN base ELSE p[i - 1]]
<1>3. p \in [0..N -> A] /\ p[0] = G[base][e]
  BY <1>1 DEF FoldValues, N
<1>4. q \in [0..N + 1 -> A] /\ q[0] = base /\ q[N + 1] = p[N] /\ \A i \in 0..N : q[i + 1] = p[i]
  <2>1. \A i \in 0..N + 1 : i # 0 => i - 1 \in 0..N
    BY <1>2
  <2>2. 0 \in 0..N + 1
    BY <1>2
  <2>3. \A i \in 0..N : i + 1 \in 0..N + 1 /\ i + 1 # 0 /\ i + 1 - 1 = i
    BY <1>2
  <2>4. q[0] = base
    BY <2>2
  <2>6. \A i \in 0..N : q[i + 1] = p[i]
    BY <2>3
  <2>7. ASSUME NEW i \in 0..N + 1 PROVE (IF i = 0 THEN base ELSE p[i - 1]) \in A
    BY <1>3, <2>1
  <2>8. q \in [0..N + 1 -> A]
    BY <2>7
  <2> HIDE DEF q
  <2>9. N \in 0..N
    BY <1>2
  <2>10. q[N + 1] = p[N]
    BY <2>6, <2>9
  <2>. QED
    BY <2>4, <2>6, <2>8, <2>10
<1> HIDE DEF q
<1>5. ASSUME NEW i \in Nat, i + 1 <= N + 1 PROVE q[i + 1] = G[q[i]][y[i + 1]]
  <2>1. CASE i = 0
    <3>1. 0 \in 0..N /\ 0 + 1 = 1
      BY <1>2
    <3>2. q[0 + 1] = p[0] /\ q[0] = base /\ y[0 + 1] = e
      BY <1>2, <1>4, <3>1
    <3>. QED
      BY <1>3, <2>1, <3>2
  <2>2. CASE i # 0
    <3>1. i - 1 \in Nat /\ i - 1 + 1 = i /\ i <= Len(x) /\ i \in 1..N /\ i \in 0..N
              /\ i - 1 \in 0..N
      BY <1>2, <1>5, <2>2 DEF N
    <3>2. p[i - 1 + 1] = G[p[i - 1]][x[i - 1 + 1]]
      BY <1>1, <3>1 DEF FoldValues
    <3>3. q[i + 1] = p[i] /\ q[i] = p[i - 1] /\ y[i + 1] = x[i]
      <4>1. q[i - 1 + 1] = p[i - 1]
        BY <1>4, <3>1
      <4>. QED
        BY <1>2, <1>4, <3>1, <4>1
    <3>. QED
      BY <3>1, <3>2, <3>3
  <2>. QED
    BY <2>1, <2>2
<1>6. FoldValues(q, A, G, base, y)
  BY <1>2, <1>4, <1>5 DEF FoldValues
<1>. QED
  BY <1>1, <1>2, <1>4, <1>6 DEF IsFold, y

\* The value at the start is the fold of nothing.
LEMMA FoldOfEmpty ==
  ASSUME NEW A, NEW G, NEW base \in A
  PROVE  IsFold(base, A, G, base, <<>>)
<1> DEFINE p == [i \in 0..0 |-> base]
<1>1. p \in [0..0 -> A] /\ p[0] = base /\ Len(<<>>) = 0
  OBVIOUS
<1> HIDE DEF p
<1>2. FoldValues(p, A, G, base, <<>>)
  BY <1>1 DEF FoldValues
<1>. QED
  BY <1>1, <1>2 DEF IsFold

-----------------------------------------------------------------------------
(* The sum of a sequence. *)

\* The operation of a sum of weights.
Plus(E, W) == [n \in Nat |-> [m \in E |-> n + W[m]]]

\* The largest index is one of them.
LEMMA MaxIn == ASSUME NEW n \in Nat, NEW s \in SUBSET (1..n), s # {} PROVE Max(s) \in s
<1> DEFINE T == {k \in Nat : \E i \in s : k = n - i}
<1>1. T \in SUBSET Nat /\ T # {}
  <2>1. PICK i \in s : TRUE
    OBVIOUS
  <2>2. n - i \in T
    BY <2>1
  <2>3. \A k \in T : k \in Nat
    OBVIOUS
  <2>. QED
    BY <2>2, <2>3
<1>2. PICK k \in T : \A m \in T : k <= m
  <2> HIDE DEF T
  <2>. QED
    BY <1>1, LeastNumber
<1>3. PICK i \in s : k = n - i
  OBVIOUS
<1>4. \A j \in s : n - j \in T
  OBVIOUS
<1>5. \A j \in s : i >= j
  BY <1>2, <1>3, <1>4
<1>. QED
  BY <1>5 DEF Max

\* The sum of the weights W of the elements of x.
SumOver(W, x) == FoldLeft(LAMBDA n, m : n + W[m], 0, x)

\* FoldLeft computes it.
LEMMA SumValues ==
  ASSUME NEW E, NEW W \in [E -> Nat], NEW x \in Seq(E)
  PROVE  IsFold(SumOver(W, x), Nat, Plus(E, W), 0, x)
<1> DEFINE G == Plus(E, W)
           Eq(f) == f = [s \in SUBSET (DOMAIN x) |-> IF s = {} THEN 0
               ELSE f[s \ {Max(s)}] + W[x[Max(s)]]]
           h == CHOOSE f : Eq(f)
<1>0. Len(x) \in Nat /\ x \in [1..Len(x) -> E] /\ DOMAIN x = 1..Len(x)
  OBVIOUS
<1>1. SumOver(W, x) = h[DOMAIN x]
  BY DEF SumOver, FoldLeft, MapThenFoldSet
<1>2. G \in Operations(Nat, E) /\ \A n \in Nat, e \in E : G[n][e] = n + W[e]
  BY DEF Plus, Operations
<1> HIDE DEF G
<1>a. \A s \in SUBSET (DOMAIN x) : s # {} => x[Max(s)] \in E
  BY <1>0, MaxIn
<1>3. \E f : Eq(f)
  <2>1. PICK f : IsFoldFunction(f, Nat, G, 0, x, Len(x))
    BY <1>2, 0 \in Nat, FoldExists
  <2>2. /\ f \in [SUBSET (DOMAIN x) -> Nat] /\ f[{}] = 0
        /\ \A s \in SUBSET (DOMAIN x) : s # {} => f[s] = G[f[s \ {Max(s)}]][x[Max(s)]]
    BY <1>0, <2>1 DEF IsFoldFunction
  <2>3. ASSUME NEW s \in SUBSET (DOMAIN x)
        PROVE  f[s] = IF s = {} THEN 0 ELSE f[s \ {Max(s)}] + W[x[Max(s)]]
    <3>1. f[s \ {Max(s)}] \in Nat
      BY <2>2
    <3>. QED
      BY <1>2, <1>a, <2>2, <3>1
  <2>4. Eq(f)
    BY <2>2, <2>3
  <2>. QED
    BY <2>4
<1>4. Eq(h)
  BY <1>3
<1> HIDE DEF h
<1>5. FoldGoes(h, Nat, G, 0, x, Len(x))
  <2>1. h[{}] = 0
    BY <1>4
  <2>2. ASSUME NEW s \in SUBSET (DOMAIN x), s # {}, h[s \ {Max(s)}] \in Nat
        PROVE  h[s] = G[h[s \ {Max(s)}]][x[Max(s)]]
    <3>1. h[s] = h[s \ {Max(s)}] + W[x[Max(s)]]
      BY <1>4, <2>2
    <3>. QED
      BY <1>2, <1>a, <2>2, <3>1
  <2>. QED
    BY <1>0, <2>1, <2>2 DEF FoldGoes
<1>6. IsFold(h[1..Len(x)], Nat, G, 0, x)
  BY <1>2, <1>5, 0 \in Nat, FoldSteps
<1>. QED
  BY <1>0, <1>1, <1>6 DEF G

\* The sum over the empty list,
LEMMA SumNone == ASSUME NEW E, NEW W \in [E -> Nat] PROVE SumOver(W, <<>>) = 0
<1>1. <<>> \in Seq(E)
  OBVIOUS
<1>. QED
  BY <1>1, SumValues, FoldOfNone

\* and over a longer one.
LEMMA SumAppend ==
  ASSUME NEW E, NEW W \in [E -> Nat], NEW x \in Seq(E), NEW e \in E
  PROVE  /\ SumOver(W, x) \in Nat /\ SumOver(W, Append(x, e)) = SumOver(W, x) + W[e]
<1> DEFINE G == Plus(E, W)
           v == SumOver(W, x)
           w == SumOver(W, Append(x, e))
<1>1. Append(x, e) \in Seq(E)
  OBVIOUS
<1>2. IsFold(v, Nat, G, 0, x) /\ IsFold(w, Nat, G, 0, Append(x, e))
  BY <1>1, SumValues
<1> HIDE DEF G, v, w
<1>3. v \in Nat /\ w = G[v][e]
  BY <1>2, FoldOfAppend, FoldTyped
<1>4. \A n \in Nat : G[n][e] = n + W[e]
  BY DEF G, Plus
<1>. QED
  BY <1>3, <1>4 DEF v, w
=============================================================================
