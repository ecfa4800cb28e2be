------------------------------ MODULE Recursion ------------------------------
(***************************************************************************)
(* Facts the proofs about recursive functions rest on, without operators   *)
(* as parameters: a step of a recursion is a function.                     *)
(***************************************************************************)
EXTENDS Integers, Sequences, SequencesExt, FiniteSetsExt,
        SequenceTheorems, WellFoundedInduction, TLAPS

\* Induction, on a set.
LEMMA SetInduction ==
    ASSUME NEW S, 0 \in S, \A n \in Nat : n \in S => n + 1 \in S
    PROVE  Nat \subseteq S
  <1> DEFINE T == Nat \ S
             R == OpToRel(<, Nat)
  <1> SUFFICES ASSUME T # {} PROVE FALSE
    OBVIOUS
  <1>1. IsWellFoundedOn(R, Nat)
    BY NatLessThanWellFounded
  <1>2. T \subseteq Nat
    OBVIOUS
  <1>3. \A x, y \in Nat : y < x => << y, x >> \in R
    BY DEF OpToRel
  <1> HIDE DEF R, T
  <1>4. PICK x \in T : \A y \in T : << y, x >> \notin R
    BY <1>1, <1>2, WFMin
  <1>5. x \in Nat /\ x # 0
    BY <1>2, <1>4 DEF T
  <1>6. x - 1 \in Nat /\ x - 1 < x /\ (x - 1) + 1 = x
    BY <1>5
  <1>7. x - 1 \notin T
    BY <1>3, <1>4, <1>5, <1>6
  <1> QED  BY <1>4, <1>6, <1>7 DEF T

\* A set of places of a sequence has a first and a last one.
LEMMA Extremes ==
    ASSUME NEW n \in Nat, NEW S, S \subseteq 1 .. n, S # {}
    PROVE  /\ Min(S) \in S /\ \A y \in S : Min(S) <= y
           /\ Max(S) \in S /\ \A y \in S : Max(S) >= y
  <1>a. PICK x : x \in S
    OBVIOUS
  <1>0. x \in S /\ x \in Nat /\ x <= n
    BY <1>a
  <1>1. \E m \in S : \A y \in S : m <= y
    <2> SUFFICES ASSUME \A m \in S : \E y \in S : ~ (m <= y) PROVE FALSE
      OBVIOUS
    <2>1. PICK T : T = {k \in Nat : \A y \in S : k <= y}
      OBVIOUS
    <2>2. 0 \in T
      BY <2>1
    <2>3. ASSUME NEW k \in Nat, k \in T PROVE k + 1 \in T
      <3>1. k \notin S
        BY <2>1, <2>3
      <3> QED  BY <2>1, <2>3, <3>1
    <2>4. x + 1 \in T
      BY <1>0, <2>2, <2>3, SetInduction
    <2> QED  BY <1>0, <2>1, <2>4
  <1>2. \E m \in S : \A y \in S : m >= y
    <2> SUFFICES ASSUME \A m \in S : \E y \in S : ~ (m >= y) PROVE FALSE
      OBVIOUS
    <2>1. PICK T : T = {k \in Nat : \A y \in S : y <= n - k}
      OBVIOUS
    <2>2. 0 \in T
      BY <2>1
    <2>3. ASSUME NEW k \in Nat, k \in T PROVE k + 1 \in T
      <3>1. n - k \notin S
        BY <2>1, <2>3
      <3> QED  BY <2>1, <2>3, <3>1
    <2>4. n + 1 \in T
      BY <2>2, <2>3, SetInduction
    <2> QED  BY <1>0, <2>1, <2>4
  <1>3. Min(S) \in S /\ \A y \in S : Min(S) <= y
    BY <1>1, Zenon DEF Min
  <1>4. Max(S) \in S /\ \A y \in S : Max(S) >= y
    BY <1>2, Zenon DEF Max
  <1> QED  BY <1>3, <1>4

\* What holds at each rank when it holds at the lower ones holds everywhere.
LEMMA RankInduction ==
    ASSUME NEW D, NEW rank \in [D -> Nat], NEW S,
           \A i \in D : (\A j \in D : rank[j] < rank[i] => j \in S) => i \in S
    PROVE  D \subseteq S
  <1> DEFINE N == {n \in Nat : \A i \in D : rank[i] < n => i \in S}
  <1>1. 0 \in N
    OBVIOUS
  <1>2. ASSUME NEW n \in Nat, n \in N PROVE n + 1 \in N
    <2> SUFFICES ASSUME NEW i \in D, rank[i] < n + 1 PROVE i \in S
      OBVIOUS
    <2>1. \A j \in D : rank[j] < rank[i] => rank[j] < n
      OBVIOUS
    <2> QED  BY <1>2, <2>1
  <1>3. Nat \subseteq N
    <2> HIDE DEF N
    <2> QED  BY <1>1, <1>2, SetInduction
  <1>4. ASSUME NEW i \in D PROVE i \in S
    <2>1. rank[i] + 1 \in N /\ rank[i] < rank[i] + 1
      BY <1>3
    <2> QED  BY <2>1
  <1> QED  BY <1>4

\* The value of a recursive function f at i is step[i][f], which depends on the
\* values of f at lower ranks only.
Solves(f, D, step) == \A i \in D : f[i] = step[i][f]

FromLower(D, F, rank, step) ==
    \A i \in D : \A g, h \in F :
        (\A j \in D : rank[j] < rank[i] => g[j] = h[j]) => step[i][g] = step[i][h]

\* Such a function exists when there are finitely many ranks.
LEMMA RecursionExists ==
    ASSUME NEW D, NEW V, NEW v0 \in V, NEW N \in Nat,
           NEW rank \in [D -> Nat], \A i \in D : rank[i] <= N,
           NEW step \in [D -> [[D -> V] -> V]],
           FromLower(D, [D -> V], rank, step)
    PROVE  \E f \in [D -> V] : Solves(f, D, step)
  <1> DEFINE Good(n, g) == \A i \in D : rank[i] < n => g[i] = step[i][g]
             S == {n \in Nat : \E g \in [D -> V] : Good(n, g)}
  <1>0. \A i \in D : rank[i] \in Nat /\ rank[i] <= N
    OBVIOUS
  <1>1. 0 \in S
    <2>1. [i \in D |-> v0] \in [D -> V]
      OBVIOUS
    <2>2. Good(0, [i \in D |-> v0])
      BY <1>0
    <2> QED  BY <2>1, <2>2
  <1>2. ASSUME NEW n \in Nat, n \in S PROVE n + 1 \in S
    <2>1. PICK g \in [D -> V] : Good(n, g)
      BY <1>2
    <2>2. PICK h : h = [i \in D |-> IF rank[i] < n + 1 THEN step[i][g] ELSE g[i]]
      OBVIOUS
    <2>3. \A i \in D : step[i][g] \in V
      OBVIOUS
    <2>4. h \in [D -> V]
      BY <2>2, <2>3
    <2>5. \A i \in D : /\ rank[i] < n => h[i] = g[i]
                       /\ rank[i] < n + 1 => h[i] = step[i][g]
      BY <1>0, <2>1, <2>2
    <2>6. ASSUME NEW i \in D, rank[i] < n + 1 PROVE h[i] = step[i][h]
      <3>1. ASSUME NEW j \in D, rank[j] < rank[i] PROVE g[j] = h[j]
        <4>1. rank[j] < n
          BY <1>0, <2>6, <3>1
        <4> QED  BY <2>5, <4>1
      <3>2. step[i][g] = step[i][h]
        BY <2>4, <3>1 DEF FromLower
      <3> QED  BY <2>5, <2>6, <3>2
    <2>7. Good(n + 1, h)
      BY <2>6
    <2> QED  BY <2>4, <2>7
  <1>3. N + 1 \in S
    <2> HIDE DEF S
    <2> QED  BY <1>1, <1>2, SetInduction
  <1>4. PICK f \in [D -> V] : Good(N + 1, f)
    BY <1>3
  <1>5. \A i \in D : rank[i] < N + 1
    BY <1>0
  <1> QED  BY <1>4, <1>5 DEF Solves

\* A value computed place after place.
Computed(f, V, v, n, step) ==
    /\ f \in [0 .. n -> V]
    /\ f[0] = v
    /\ \A k \in 1 .. n : f[k] = step[k][f[k - 1]]

LEMMA PlaceAfterPlace ==
    ASSUME NEW V, NEW v \in V, NEW n \in Nat, NEW step \in [1 .. n -> [V -> V]]
    PROVE  \E f : Computed(f, V, v, n, step)
  <1> DEFINE T == {m \in Nat : m <= n => \E f : Computed(f, V, v, m, step)}
  <1>1. 0 \in T
    <2>1. [k \in 0 .. 0 |-> v] \in [0 .. 0 -> V] /\ [k \in 0 .. 0 |-> v][0] = v
      OBVIOUS
    <2>2. 1 .. 0 = {}
      OBVIOUS
    <2>3. Computed([k \in 0 .. 0 |-> v], V, v, 0, step)
      BY <2>1, <2>2 DEF Computed
    <2> QED  BY <2>3
  <1>2. ASSUME NEW m \in Nat, m \in T PROVE m + 1 \in T
    <2> SUFFICES ASSUME m + 1 <= n PROVE \E f : Computed(f, V, v, m + 1, step)
      OBVIOUS
    <2>1. PICK f : Computed(f, V, v, m, step)
      BY <1>2
    <2>2. PICK w : w = step[m + 1][f[m]]
      OBVIOUS
    <2>3. w \in V
      <3>1. m + 1 \in 1 .. n /\ m \in 0 .. m
        OBVIOUS
      <3> QED  BY <2>1, <2>2, <3>1 DEF Computed
    <2>4. PICK g : g = [k \in 0 .. m + 1 |-> IF k = m + 1 THEN w ELSE f[k]]
      OBVIOUS
    <2>5. /\ \A k \in 0 .. m + 1 : k = m + 1 \/ (k \in 0 .. m /\ k # m + 1)
          /\ \A k \in 0 .. m : k \in 0 .. m + 1 /\ k # m + 1
          /\ m + 1 \in 0 .. m + 1 /\ 0 \in 0 .. m
          /\ \A k \in 1 .. m + 1 : k - 1 \in 0 .. m /\ (k = m + 1 \/ k \in 1 .. m)
          /\ \A k \in 1 .. m : k \in 0 .. m
          /\ m + 1 - 1 = m
      OBVIOUS
    <2>6. g[m + 1] = w /\ \A k \in 0 .. m : g[k] = f[k]
      BY <2>4, <2>5
    <2>7. g \in [0 .. m + 1 -> V]
      BY <2>1, <2>3, <2>4, <2>5 DEF Computed
    <2>8. \A k \in 1 .. m : g[k] = step[k][g[k - 1]]
      BY <2>1, <2>5, <2>6 DEF Computed
    <2>9. g[m + 1] = step[m + 1][g[m]]
      BY <2>2, <2>5, <2>6
    <2>10. \A k \in 1 .. m + 1 : g[k] = step[k][g[k - 1]]
      BY <2>5, <2>8, <2>9
    <2>11. g[0] = v
      BY <2>1, <2>5, <2>6 DEF Computed
    <2> QED  BY <2>7, <2>10, <2>11 DEF Computed
  <1>3. n \in T
    <2> HIDE DEF T
    <2> QED  BY <1>1, <1>2, SetInduction
  <1> QED  BY <1>3

\* ... and so is one that never ends.
LEMMA StepAfterStep ==
    ASSUME NEW V, NEW v \in V, NEW step \in [V -> V]
    PROVE  \E f \in [Nat -> V] : f[0] = v /\ \A n \in Nat : f[n + 1] = step[f[n]]
  <1> DEFINE Run(f, n) == Computed(f, V, v, n, [k \in 1 .. n |-> step])
  <1>1. ASSUME NEW n \in Nat PROVE \E f : Run(f, n)
    <2>1. [k \in 1 .. n |-> step] \in [1 .. n -> [V -> V]]
      OBVIOUS
    <2> QED  BY <2>1, PlaceAfterPlace
  <1>2. ASSUME NEW n \in Nat, NEW f, Run(f, n)
        PROVE  /\ f \in [0 .. n -> V] /\ f[0] = v
               /\ \A k \in 1 .. n : f[k] = step[f[k - 1]]
    BY <1>2 DEF Computed
  <1> HIDE DEF Run
  <1>3. ASSUME NEW n \in Nat, NEW m \in Nat, n <= m, NEW f, Run(f, n), NEW g, Run(g, m)
        PROVE  \A k \in Nat : k <= n => f[k] = g[k]
    <2> DEFINE T == {k \in Nat : k <= n => f[k] = g[k]}
    <2>1. /\ f[0] = v /\ \A k \in 1 .. n : f[k] = step[f[k - 1]]
          /\ g[0] = v /\ \A k \in 1 .. m : g[k] = step[g[k - 1]]
      BY <1>2, <1>3
    <2>2. 0 \in T
      BY <2>1
    <2>3. ASSUME NEW k \in Nat, k \in T PROVE k + 1 \in T
      <3> SUFFICES ASSUME k + 1 <= n PROVE f[k + 1] = g[k + 1]
        OBVIOUS
      <3>1. k + 1 \in 1 .. n /\ k + 1 \in 1 .. m /\ (k + 1) - 1 = k /\ k <= n
        BY <1>3
      <3>2. f[k] = g[k]
        BY <2>3, <3>1
      <3> QED  BY <2>1, <3>1, <3>2
    <2>4. Nat \subseteq T
      <3> HIDE DEF T
      <3> QED  BY <2>2, <2>3, SetInduction
    <2> QED  BY <2>4
  <1>4. PICK run : run = [n \in Nat |-> CHOOSE f : Run(f, n)]
    OBVIOUS
  <1>5. \A n \in Nat : Run(run[n], n)
    BY <1>1, <1>4
  <1>6. PICK h : h = [n \in Nat |-> run[n][n]]
    OBVIOUS
  <1>7. ASSUME NEW n \in Nat PROVE h[n] \in V
    BY <1>2, <1>5, <1>6
  <1>8. h[0] = v
    BY <1>2, <1>5, <1>6
  <1>9. ASSUME NEW n \in Nat PROVE h[n + 1] = step[h[n]]
    <2>1. n + 1 \in Nat /\ n <= n + 1 /\ n <= n /\ n + 1 \in 1 .. n + 1 /\ (n + 1) - 1 = n
      OBVIOUS
    <2>2. Run(run[n], n) /\ Run(run[n + 1], n + 1)
      BY <1>5, <2>1
    <2>3. run[n][n] = run[n + 1][n]
      BY <1>3, <2>1, <2>2
    <2>4. run[n + 1][n + 1] = step[run[n + 1][n]]
      BY <1>2, <2>1, <2>2
    <2> QED  BY <1>6, <2>1, <2>3, <2>4
  <1>10. h \in [Nat -> V]
    BY <1>6, <1>7
  <1> QED  BY <1>8, <1>9, <1>10

\* FlattenSeq() is a sequence of the elements of its arguments.
LEMMA FlattenEquation ==
    ASSUME NEW A, NEW seqs \in Seq(Seq(A)), Len(seqs) # 0
    PROVE  \E f \in [1 .. Len(seqs) -> Seq(A)] :
              /\ FlattenSeq(seqs) = f[Len(seqs)]
              /\ \A i \in 1 .. Len(seqs) : f[i] = IF i = 1 THEN seqs[i] ELSE f[i - 1] \o seqs[i]
  <1> DEFINE D == 1 .. Len(seqs)
             E(f) == [i \in D |-> IF i = 1 THEN seqs[i] ELSE f[i - 1] \o seqs[i]]
             V == Seq(A)
             value(i, f) == IF i = 1 THEN seqs[i] ELSE f[i - 1] \o seqs[i]
             step == [i \in D |-> [f \in [D -> V] |-> value(i, f)]]
             rank == [i \in D |-> i]
             flatten == CHOOSE f : f = E(f)
  <1>0. PICK n \in Nat : n = Len(seqs)
    BY LenProperties
  <1>1. \A i \in D : i \in 1 .. n /\ (i # 1 => i - 1 \in D) /\ seqs[i] \in V
    BY <1>0, ElementOfSeq
  <1>2. \A i \in D, f \in [D -> V] : value(i, f) \in V
    <2>1. \A x, y \in V : x \o y \in V
      BY ConcatProperties
    <2> QED  BY <1>1, <2>1
  <1>3. /\ << >> \in V
        /\ rank \in [D -> Nat] /\ \A i \in D : rank[i] <= n
        /\ step \in [D -> [[D -> V] -> V]]
    BY <1>0, <1>1, <1>2, EmptySeq
  <1>4. \A i \in D : \A g, h \in [D -> V] :
            (\A j \in D : rank[j] < rank[i] => g[j] = h[j]) => value(i, g) = value(i, h)
    BY <1>0, <1>1
  <1>5. \A i \in D, g \in [D -> V] : step[i][g] = value(i, g)
    OBVIOUS
  <1>6. FromLower(D, [D -> V], rank, step)
    <2> SUFFICES ASSUME NEW i \in D, NEW g \in [D -> V], NEW h \in [D -> V],
                        \A j \in D : rank[j] < rank[i] => g[j] = h[j]
                 PROVE  step[i][g] = step[i][h]
      BY DEF FromLower
    <2>1. value(i, g) = value(i, h)
      BY <1>4
    <2> HIDE DEF step, value
    <2> QED  BY <1>5, <2>1
  <1>7. \E f \in [D -> V] : Solves(f, D, step)
    <2> HIDE DEF step, rank, D, V
    <2> QED  BY <1>0, <1>3, <1>6, RecursionExists
  <1>8. PICK g \in [D -> V] : \A i \in D : g[i] = value(i, g)
    <2> HIDE DEF step, value, D, V
    <2> QED  BY <1>5, <1>7 DEF Solves
  <1>9. g = E(g)
    BY <1>8
  <1>10. flatten = E(flatten)
    <2> HIDE DEF E
    <2> QED  BY <1>9
  <1>11. \A i \in D : flatten[i] = value(i, flatten)
    <2> HIDE DEF flatten
    <2> QED  BY <1>10
  <1>12. \A i \in D : flatten[i] \in V
    <2> DEFINE S == {i \in D : flatten[i] \in V}
               R == [i \in D |-> i]
    <2> HIDE DEF flatten
    <2>1. ASSUME NEW i \in D, \A j \in D : R[j] < R[i] => j \in S PROVE i \in S
      <3>1. CASE i = 1
        BY <1>1, <1>11, <3>1
      <3>2. CASE i # 1
        <4>1. i - 1 \in S
          BY <1>0, <1>1, <2>1, <3>2
        <4>2. flatten[i - 1] \in V /\ flatten[i] = flatten[i - 1] \o seqs[i] /\ seqs[i] \in V
          BY <1>1, <1>11, <3>2, <4>1
        <4>3. flatten[i] \in V
          BY <4>2, ConcatProperties
        <4> QED  BY <4>3
      <3> QED  BY <3>1, <3>2
    <2>2. R \in [D -> Nat]
      BY <1>0
    <2>3. D \subseteq S
      <3> HIDE DEF S, R, D
      <3> QED  BY <2>1, <2>2, RankInduction
    <2> QED  BY <2>3
  <1>13. flatten \in [D -> V]
    <2> HIDE DEF flatten, V
    <2> QED  BY <1>10, <1>12
  <1>14. FlattenSeq(seqs) = flatten[Len(seqs)]
    BY Zenon DEF FlattenSeq
  <1> QED  BY <1>11, <1>13, <1>14

LEMMA FlattenTyped ==
    ASSUME NEW A, NEW seqs \in Seq(Seq(A))
    PROVE  FlattenSeq(seqs) \in Seq(A)
  <1>1. CASE Len(seqs) = 0
    <2>1. FlattenSeq(seqs) = seqs /\ seqs = << >>
      BY <1>1, EmptySeq DEF FlattenSeq
    <2> QED  BY <2>1, EmptySeq
  <1>2. CASE Len(seqs) # 0
    <2>1. Len(seqs) \in 1 .. Len(seqs)
      BY <1>2, LenProperties
    <2> QED  BY <1>2, <2>1, FlattenEquation
  <1> QED  BY <1>1, <1>2

LEMMA FlattenTwo ==
    ASSUME NEW A, NEW s \in Seq(A), NEW t \in Seq(A)
    PROVE  FlattenSeq(<< s, t >>) = s \o t
  <1>1. PICK p : p = << s, t >>
    OBVIOUS
  <1>2. /\ p \in Seq(Seq(A)) /\ Len(p) = 2 /\ Len(p) # 0
        /\ p[1] = s /\ p[2] = t
    BY <1>1
  <1>3. PICK f \in [1 .. Len(p) -> Seq(A)] :
              /\ FlattenSeq(p) = f[Len(p)]
              /\ \A i \in 1 .. Len(p) : f[i] = IF i = 1 THEN p[i] ELSE f[i - 1] \o p[i]
    BY <1>2, FlattenEquation
  <1>4. f[1] = s
    BY <1>2, <1>3
  <1>5. f[2] = f[1] \o t
    BY <1>2, <1>3
  <1> QED  BY <1>1, <1>2, <1>3, <1>4, <1>5

\* A function on 1..n is a sequence.
LEMMA FunctionIsSeq ==
    ASSUME NEW n \in Nat, NEW S, NEW s \in [1..n -> S]
    PROVE  s \in Seq(S) /\ Len(s) = n /\ DOMAIN s = 1..n
<1>1. s \in Seq(S) BY SeqDef
<1>2. DOMAIN s = 1..n OBVIOUS
<1>3. Len(s) \in Nat /\ DOMAIN s = 1..Len(s) BY <1>1, LenProperties
<1> QED BY <1>1, <1>2, <1>3

\* FlattenEquation, for a length known by another name, and one part more.
Joins(f, seqs, n, A) ==
    /\ f \in [1..n -> Seq(A)]
    /\ \A i \in 1..n : f[i] = IF i = 1 THEN seqs[i] ELSE f[i - 1] \o seqs[i]

LEMMA FlattenRuns ==
    ASSUME NEW A, NEW n \in Nat, n # 0, NEW seqs \in Seq(Seq(A)), Len(seqs) = n
    PROVE  \E f : Joins(f, seqs, n, A) /\ FlattenSeq(seqs) = f[n]
<1>1. PICK f \in [1..Len(seqs) -> Seq(A)] :
          /\ FlattenSeq(seqs) = f[Len(seqs)]
          /\ \A i \in 1..Len(seqs) : f[i] = IF i = 1 THEN seqs[i] ELSE f[i - 1] \o seqs[i]
  BY FlattenEquation
<1>2. f \in [1..n -> Seq(A)] /\ FlattenSeq(seqs) = f[n] BY <1>1
<1>3. \A i \in 1..n : f[i] = IF i = 1 THEN seqs[i] ELSE f[i - 1] \o seqs[i] BY <1>1
<1> QED BY <1>2, <1>3 DEF Joins

LEMMA FlattenOne ==
    ASSUME NEW A, NEW n \in Nat, NEW s \in Seq(Seq(A)), NEW t \in Seq(Seq(A)),
           Len(s) = n, Len(t) = n + 1, \A i \in 1..n : t[i] = s[i]
    PROVE  FlattenSeq(t) = FlattenSeq(s) \o t[n + 1]
<1>1. t[n + 1] \in Seq(A) BY ElementOfSeq
<1>2. PICK g : Joins(g, t, n + 1, A) /\ FlattenSeq(t) = g[n + 1]
  <2>1. n + 1 \in Nat /\ n + 1 # 0 OBVIOUS
  <2> QED BY <2>1, FlattenRuns
<1> USE DEF Joins
<1>3. CASE n = 0
  <2>1. s = <<>> /\ FlattenSeq(s) = <<>> BY <1>3, EmptySeq DEF FlattenSeq
  <2>2. FlattenSeq(t) = t[n + 1] BY <1>2, <1>3
  <2> QED BY <1>1, <2>1, <2>2, ConcatEmptySeq
<1>4. CASE n # 0
  <2>1. PICK f : Joins(f, s, n, A) /\ FlattenSeq(s) = f[n]
    <3> HIDE DEF Joins
    <3> QED BY <1>4, FlattenRuns
  <2> DEFINE S == {i \in Nat : i + 1 <= n => f[i + 1] = g[i + 1]}
  <2>2. 0 \in S
    <3>1. 1 \in 1..n /\ 1 \in 1..(n + 1) BY <1>4
    <3>2. f[1] = s[1] BY <2>1, <3>1
    <3>3. g[1] = t[1] BY <1>2, <3>1
    <3> QED BY <3>1, <3>2, <3>3
  <2>3. ASSUME NEW i \in Nat, i \in S PROVE i + 1 \in S
    <3> SUFFICES ASSUME i + 2 <= n PROVE f[i + 2] = g[i + 2] OBVIOUS
    <3>1. f[i + 1] = g[i + 1] BY <2>3
    <3>2. i + 2 \in 1..n /\ i + 2 \in 1..(n + 1) /\ i + 2 # 1 /\ (i + 2) - 1 = i + 1 OBVIOUS
    <3>3. f[i + 2] = f[i + 1] \o s[i + 2] BY <2>1, <3>2
    <3>4. g[i + 2] = g[i + 1] \o t[i + 2] BY <1>2, <3>2
    <3> QED BY <3>1, <3>2, <3>3, <3>4
  <2>4. n - 1 \in S
    <3>1. n - 1 \in Nat BY <1>4
    <3> HIDE DEF S
    <3> QED BY <2>2, <2>3, <3>1, SetInduction
  <2>5. f[n] = g[n] BY <1>4, <2>4
  <2>6. g[n + 1] = g[n] \o t[n + 1]
    <3>1. n + 1 \in 1..(n + 1) /\ n + 1 # 1 /\ (n + 1) - 1 = n BY <1>4
    <3> QED BY <1>2, <3>1
  <2> QED BY <1>2, <2>1, <2>5, <2>6
<1> QED BY <1>3, <1>4

(* The places of the elements of two sequences in their concatenation.     *)
Joined(u, s, t, A) ==
    /\ u \in Seq(A) /\ Len(u) = Len(s) + Len(t)
    /\ Len(s) \in Nat /\ Len(t) \in Nat
    /\ \A i \in 1..Len(s) : i \in 1..Len(u) /\ u[i] = s[i]
    /\ \A j \in 1..Len(t) : Len(s) + j \in 1..Len(u) /\ u[Len(s) + j] = t[j]

LEMMA ConcatPlaces ==
    ASSUME NEW A, NEW s \in Seq(A), NEW t \in Seq(A)
    PROVE  Joined(s \o t, s, t, A)
<1>1. PICK m \in Nat, n \in Nat : m = Len(s) /\ n = Len(t) BY LenProperties
<1>2. PICK u : u = s \o t OBVIOUS
<1>3. /\ u \in Seq(A) /\ Len(u) = m + n
      /\ \A i \in 1..(m + n) : u[i] = IF i <= m THEN s[i] ELSE t[i - m]
  BY <1>1, <1>2, ConcatProperties
<1>4. \A i \in 1..m : i \in 1..(m + n) /\ u[i] = s[i] BY <1>3
<1>5. \A j \in 1..n : m + j \in 1..(m + n) /\ u[m + j] = t[j] BY <1>3
<1> QED BY <1>1, <1>2, <1>3, <1>4, <1>5 DEF Joined
=============================================================================
