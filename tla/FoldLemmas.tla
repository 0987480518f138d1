----------------------------- MODULE FoldLemmas -----------------------------
(***************************************************************************)
(* What a fold over a sequence computes.  FoldLeft and the other folds are *)
(* recursive functions over the subsets of an interval; these lemmas say   *)
(* that there is such a function.  The step of the fold is a function      *)
(* here, since a lemma cannot be about every operator.                     *)
(***************************************************************************)
EXTENDS Integers, Sequences, SequencesExt, FiniteSets, WellFoundedInduction, TLAPS

\* Induction, for a set of numbers.
LEMMA NatSetInduction ==
  ASSUME NEW T \in SUBSET Nat, 0 \in T, \A n \in T : n + 1 \in T
  PROVE  T = Nat
  <1> SUFFICES ASSUME Nat \ T # {} PROVE FALSE
    OBVIOUS
  <1> DEFINE R == OpToRel(<, Nat)
  <1>1. IsWellFoundedOn(R, Nat)
    BY NatLessThanWellFounded
  <1>2. \A x, y \in Nat : <<x, y>> \in R <=> x < y
    BY DEF OpToRel
  <1> HIDE DEF R
  <1>3. PICK x \in Nat \ T : \A y \in Nat \ T : ~ (<<y, x>> \in R)
    BY <1>1, WFMin
  <1>4. x # 0 /\ x - 1 \in Nat /\ x - 1 < x
    BY <1>3
  <1>5. x - 1 \in T
    BY <1>2, <1>3, <1>4
  <1> QED BY <1>4, <1>5

\* Induction up to a number.
LEMMA UpTo ==
  ASSUME NEW n \in Nat, NEW T, 0 \in T, \A k \in 1 .. n : k - 1 \in T => k \in T
  PROVE  \A k \in 0 .. n : k \in T
  <1> DEFINE U == {k \in Nat : k <= n => k \in T}
  <1>1. 0 \in U
    OBVIOUS
  <1>2. ASSUME NEW k \in U
        PROVE  k + 1 \in U
    <2> SUFFICES ASSUME k + 1 <= n PROVE k + 1 \in T
      OBVIOUS
    <2>1. k + 1 \in 1 .. n /\ (k + 1) - 1 = k /\ k \in T
      OBVIOUS
    <2> QED BY <2>1
  <1>3. U = Nat
    <2> HIDE DEF U
    <2>1. U \in SUBSET Nat
      BY DEF U
    <2> QED BY <1>1, <1>2, <2>1, NatSetInduction
  <1> QED BY <1>3

\* What holds at first, and after a step if before it, holds throughout.
LEMMA Throughout ==
  ASSUME NEW n \in Nat, NEW f, NEW S, f[0] \in S,
         \A k \in 1 .. n : f[k - 1] \in S => f[k] \in S
  PROVE  \A k \in 0 .. n : f[k] \in S
  <1> DEFINE T == {k \in 0 .. n : f[k] \in S}
  <1>1. 0 \in T /\ \A k \in 1 .. n : k - 1 \in T => k \in T
    OBVIOUS
  <1>2. \A k \in 0 .. n : k \in T
    <2> HIDE DEF T
    <2> QED BY <1>1, UpTo
  <1> QED BY <1>2

\* f repeats a step that depends on how often it has been taken.
Iterates(f, V, b, n, step) ==
  /\ f \in [0 .. n -> V]
  /\ f[0] = b
  /\ \A k \in 1 .. n : f[k] = step[k][f[k - 1]]

\* There is such a function.
LEMMA Iteration ==
  ASSUME NEW V, NEW b \in V, NEW n \in Nat, NEW step \in [1 .. n -> [V -> V]]
  PROVE  \E f : Iterates(f, V, b, n, step)
  <1> DEFINE Has(m) == \E f : Iterates(f, V, b, m, step)
             T == {m \in Nat : m <= n => Has(m)}
  <1>1. 0 \in T
    <2>1. Iterates([k \in 0 .. 0 |-> b], V, b, 0, step)
      BY DEF Iterates
    <2> QED BY <2>1
  <1>2. ASSUME NEW m \in Nat, m + 1 <= n, Has(m)
        PROVE  Has(m + 1)
    <2>1. PICK f : Iterates(f, V, b, m, step)
      BY <1>2
    <2> DEFINE v == step[m + 1][f[m]]
               g == [k \in 0 .. m + 1 |-> IF k = m + 1 THEN v ELSE f[k]]
    <2>2. f \in [0 .. m -> V] /\ v \in V
      BY <1>2, <2>1 DEF Iterates
    <2>3. g \in [0 .. m + 1 -> V] /\ g[0] = b /\ g[m + 1] = v /\ \A k \in 0 .. m : g[k] = f[k]
      BY <2>1, <2>2 DEF Iterates
    <2> HIDE DEF g
    <2>4. ASSUME NEW k \in 1 .. m + 1
          PROVE  g[k] = step[k][g[k - 1]]
      <3>1. CASE k = m + 1
        BY <2>3, <3>1
      <3>2. CASE k \in 1 .. m
        <4>1. k - 1 \in 0 .. m /\ k \in 0 .. m
          BY <3>2
        <4> QED BY <2>1, <2>3, <3>2, <4>1 DEF Iterates
      <3> QED BY <3>1, <3>2
    <2>5. Iterates(g, V, b, m + 1, step)
      BY <2>3, <2>4 DEF Iterates
    <2> QED BY <2>5
  <1> HIDE DEF Has
  <1>3. \A m \in T : m + 1 \in T
    BY <1>2
  <1>4. T = Nat
    <2> HIDE DEF T
    <2>1. T \in SUBSET Nat
      BY DEF T
    <2> QED BY <1>1, <1>3, <2>1, NatSetInduction
  <1>5. Has(n)
    BY <1>4
  <1> QED BY <1>5 DEF Has

\* A nonempty set of numbers has a smallest one.
LEMMA MinFacts ==
  ASSUME NEW S \in SUBSET Nat, S # {}
  PROVE  Min(S) \in S /\ \A x \in S : Min(S) <= x
  <1> DEFINE R == OpToRel(<, Nat)
  <1>1. IsWellFoundedOn(R, Nat)
    BY NatLessThanWellFounded
  <1>2. \A x, y \in Nat : <<x, y>> \in R <=> x < y
    BY DEF OpToRel
  <1> HIDE DEF R
  <1>3. PICK x \in S : \A y \in S : ~ (<<y, x>> \in R)
    <2>1. S \subseteq Nat /\ S # {}
      OBVIOUS
    <2> QED BY <1>1, <2>1, WFMin
  <1>4. x \in Nat /\ \A y \in S : y \in Nat /\ x <= y
    <2>1. \A y \in S : y \in Nat
      OBVIOUS
    <2>2. \A y \in S : ~(y < x)
      BY <1>2, <1>3, <2>1
    <2> QED BY <1>3, <2>1, <2>2
  <1> QED BY <1>3, <1>4 DEF Min

\* A nonempty set of numbers up to n has a largest one.
LEMMA MaxFacts ==
  ASSUME NEW n \in Nat, NEW s \in SUBSET (1 .. n), s # {}
  PROVE  Max(s) \in s /\ \A y \in s : y <= Max(s)
  <1> DEFINE Top(t) == \E x \in t : \A y \in t : x >= y
             T == {m \in Nat : \A t \in SUBSET (1 .. m) : t # {} => Top(t)}
  <1>1. 0 \in T
    <2>1. \A t \in SUBSET (1 .. 0) : t = {}
      OBVIOUS
    <2> HIDE DEF Top
    <2> QED BY <2>1
  <1>2. ASSUME NEW m \in T
        PROVE  m + 1 \in T
    <2> SUFFICES ASSUME NEW t \in SUBSET (1 .. m + 1), t # {} PROVE Top(t)
      OBVIOUS
    <2>1. CASE m + 1 \in t
      BY <2>1
    <2>2. CASE m + 1 \notin t
      <3>1. t \in SUBSET (1 .. m)
        BY <2>2
      <3> QED BY <3>1
    <2> QED BY <2>1, <2>2
  <1>3. T = Nat
    <2> HIDE DEF T
    <2>1. T \in SUBSET Nat
      BY DEF T
    <2> QED BY <1>1, <1>2, <2>1, NatSetInduction
  <1>4. Top(s)
    BY <1>3
  <1>5. Max(s) \in s /\ \A y \in s : Max(s) >= y
    BY <1>4 DEF Max
  <1> QED BY <1>5

\* The function behind a fold over 1 .. n.
FoldOver(it, b, n, step) ==
  it = [s \in SUBSET (1 .. n) |->
          IF s = {} THEN b ELSE step[Max(s)][it[s \ {Max(s)}]]]

\* There is one.
LEMMA FoldExists ==
  ASSUME NEW V, NEW b \in V, NEW n \in Nat, NEW step \in [1 .. n -> [V -> V]]
  PROVE  \E it \in [SUBSET (1 .. n) -> V] : FoldOver(it, b, n, step)
  <1> DEFINE Has(m) == \E it \in [SUBSET (1 .. m) -> V] : FoldOver(it, b, m, step)
             T == {m \in Nat : m <= n => Has(m)}
  <1>1. 0 \in T
    <2> DEFINE it == [s \in SUBSET (1 .. 0) |-> b]
    <2>1. it \in [SUBSET (1 .. 0) -> V]
      OBVIOUS
    <2>2. \A s \in SUBSET (1 .. 0) : s = {}
      OBVIOUS
    <2>3. FoldOver(it, b, 0, step)
      BY <2>2 DEF FoldOver
    <2> QED BY <2>1, <2>3
  <1>2. ASSUME NEW m \in Nat, m + 1 <= n, Has(m)
        PROVE  Has(m + 1)
    <2>1. PICK it \in [SUBSET (1 .. m) -> V] : FoldOver(it, b, m, step)
      BY <1>2
    <2> DEFINE D == SUBSET (1 .. m + 1)
               new == [s \in D |-> IF m + 1 \in s THEN step[m + 1][it[s \ {m + 1}]] ELSE it[s]]
    <2>2. ASSUME NEW s \in D, m + 1 \in s
          PROVE  /\ Max(s) = m + 1 /\ s \ {m + 1} \in SUBSET (1 .. m)
                 /\ new[s] = step[m + 1][it[s \ {m + 1}]] /\ new[s] \in V
                 /\ new[s \ {m + 1}] = it[s \ {m + 1}]
      <3>1. Max(s) \in s /\ m + 1 <= Max(s)
        <4>1. m + 1 \in Nat /\ s # {}
          BY <2>2
        <4> QED BY <2>2, <4>1, MaxFacts
      <3>2. Max(s) = m + 1 /\ s \ {m + 1} \in SUBSET (1 .. m) /\ s \ {m + 1} \in D
        <4>1. \A i \in s : i \in 1 .. m + 1
          OBVIOUS
        <4>2. Max(s) = m + 1
          <5>1. Max(s) \in 1 .. m + 1
            BY <3>1, <4>1
          <5> QED BY <3>1, <5>1
        <4>3. \A i \in s \ {m + 1} : i \in 1 .. m
          BY <4>1
        <4> QED BY <4>2, <4>3
      <3>3. it[s \ {m + 1}] \in V /\ m + 1 \in 1 .. n
        BY <1>2, <3>2
      <3>4. step[m + 1][it[s \ {m + 1}]] \in V
        BY <3>3
      <3> QED BY <2>2, <3>2, <3>4
    <2>3. ASSUME NEW s \in D, m + 1 \notin s
          PROVE  /\ s \in SUBSET (1 .. m) /\ new[s] = it[s] /\ new[s] \in V
                 /\ new[s] = IF s = {} THEN b ELSE step[Max(s)][new[s \ {Max(s)}]]
      <3>1. s \in SUBSET (1 .. m) /\ new[s] = it[s]
        BY <2>3
      <3>2. it[s] = IF s = {} THEN b ELSE step[Max(s)][it[s \ {Max(s)}]]
        BY <2>1, <3>1 DEF FoldOver
      <3>3. s \ {Max(s)} \in D /\ new[s \ {Max(s)}] = it[s \ {Max(s)}]
        BY <2>3
      <3> HIDE DEF new
      <3> QED BY <3>1, <3>2, <3>3
    <2>4. new \in [D -> V]
      <3>1. \A s \in D : new[s] \in V
        BY <2>2, <2>3
      <3>2. DOMAIN new = D /\ new = [s \in D |-> new[s]]
        OBVIOUS
      <3> HIDE DEF new
      <3> QED BY <3>1, <3>2
    <2>5. \A s \in D : new[s] = IF s = {} THEN b ELSE step[Max(s)][new[s \ {Max(s)}]]
      <3> SUFFICES ASSUME NEW s \in D
                   PROVE  new[s] = IF s = {} THEN b ELSE step[Max(s)][new[s \ {Max(s)}]]
        OBVIOUS
      <3> HIDE DEF new, D
      <3> QED BY <2>2, <2>3
    <2>6. FoldOver(new, b, m + 1, step)
      <3> HIDE DEF new
      <3> QED BY <2>4, <2>5 DEF FoldOver
    <2> HIDE DEF new
    <2> QED BY <2>4, <2>6
  <1>3. \A m \in T : m + 1 \in T
    <2> HIDE DEF Has
    <2> QED BY <1>2
  <1>4. T = Nat
    <2> HIDE DEF T
    <2>1. T \in SUBSET Nat
      BY DEF T
    <2> QED BY <1>1, <1>3, <2>1, NatSetInduction
  <1>5. Has(n)
    <2> HIDE DEF Has
    <2> QED BY <1>4
  <1> QED BY <1>5

\* The prefixes of an interval: a fold comes to the last one first.
LEMMA PrefixFacts ==
  ASSUME NEW n \in Nat, NEW k \in 1 .. n
  PROVE  /\ 1 .. k \in SUBSET (1 .. n) /\ 1 .. k # {}
         /\ Max(1 .. k) = k /\ (1 .. k) \ {k} = 1 .. (k - 1)
  <1>1. k \in Nat /\ 1 .. k # {} /\ 1 .. k \in SUBSET (1 .. k) /\ k \in 1 .. k
    OBVIOUS
  <1>2. Max(1 .. k) \in 1 .. k /\ k <= Max(1 .. k)
    BY <1>1, MaxFacts
  <1>3. Max(1 .. k) = k /\ (1 .. k) \ {k} = 1 .. (k - 1)
    BY <1>2
  <1>4. \A i \in 1 .. k : i \in 1 .. n
    OBVIOUS
  <1> QED BY <1>1, <1>3, <1>4

\* Two sequences, one after the other.
LEMMA ConcatFacts ==
  ASSUME NEW S, NEW a \in Seq(S), NEW b \in Seq(S)
  PROVE  /\ a \o b \in Seq(S) /\ Len(a \o b) = Len(a) + Len(b)
         /\ \A i \in 1 .. Len(a) : (a \o b)[i] = a[i]
         /\ \A i \in 1 .. Len(b) : (a \o b)[Len(a) + i] = b[i]
  OBVIOUS

\* FlattenSeq appends one sequence after the other.
LEMMA FlattenSteps ==
  ASSUME NEW S, NEW seqs \in Seq(Seq(S))
  PROVE  \E g \in [0 .. Len(seqs) -> Seq(S)] :
           /\ g[0] = <<>>
           /\ \A k \in 1 .. Len(seqs) : g[k] = g[k - 1] \o seqs[k]
           /\ FlattenSeq(seqs) = g[Len(seqs)]
  <1> DEFINE n == Len(seqs)
             V == Seq(S)
             step == [k \in 1 .. n |-> [s \in V |-> s \o seqs[k]]]
             Is(f) == f = [i \in 1 .. Len(seqs) |->
                             IF i = 1 THEN seqs[i] ELSE f[i - 1] \o seqs[i]]
             c == CHOOSE f : Is(f)
             g == [k \in 0 .. n |-> IF k = 0 THEN <<>> ELSE c[k]]
  <1>1. n \in Nat /\ \A k \in 1 .. n : seqs[k] \in V
    OBVIOUS
  <1>2. step \in [1 .. n -> [V -> V]] /\ <<>> \in V
    BY <1>1
  <1>3. PICK h : Iterates(h, V, <<>>, n, step)
    <2> HIDE DEF step, V, n
    <2> QED BY <1>1, <1>2, Iteration
  <1>4. Is([k \in 1 .. n |-> h[k]])
    <2>1. h \in [0 .. n -> V] /\ h[0] = <<>>
      BY <1>3 DEF Iterates
    <2>2. ASSUME NEW k \in 1 .. n
          PROVE  h[k] = h[k - 1] \o seqs[k]
      <3>1. h[k] = step[k][h[k - 1]]
        <4> HIDE DEF step, V
        <4> QED BY <1>3 DEF Iterates
      <3>2. h[k - 1] \in V
        BY <1>1, <2>1
      <3> QED BY <3>1, <3>2
    <2>3. 1 \in 1 .. n => h[1] = seqs[1]
      <3> SUFFICES ASSUME 1 \in 1 .. n PROVE h[1] = seqs[1]
        OBVIOUS
      <3>1. 1 - 1 = 0 /\ seqs[1] \in V
        BY <1>1
      <3>2. h[1] = <<>> \o seqs[1]
        BY <2>1, <2>2, <3>1
      <3> QED BY <3>1, <3>2
    <2> DEFINE f == [k \in 1 .. n |-> h[k]]
    <2>4. \A k \in 1 .. n : f[k] = IF k = 1 THEN seqs[k] ELSE f[k - 1] \o seqs[k]
      <3> TAKE k \in 1 .. n
      <3>1. CASE k = 1
        BY <2>3, <3>1
      <3>2. CASE k # 1
        <4>1. k - 1 \in 1 .. n
          BY <1>1, <3>2
        <4>2. f[k] = h[k] /\ f[k - 1] = h[k - 1]
          BY <4>1
        <4> HIDE DEF f
        <4> QED BY <2>2, <3>2, <4>2
      <3> QED BY <3>1, <3>2
    <2>5. f = [k \in 1 .. n |-> f[k]]
      OBVIOUS
    <2> HIDE DEF f
    <2>6. f = [k \in 1 .. n |-> IF k = 1 THEN seqs[k] ELSE f[k - 1] \o seqs[k]]
      BY <2>4, <2>5
    <2> QED BY <2>6 DEF f
  <1>5. Is(c)
    BY <1>4
  <1>6. n # 0 => FlattenSeq(seqs) = c[n]
    BY Zenon DEF FlattenSeq
  <1>7. n = 0 => FlattenSeq(seqs) = <<>>
    <2>1. n = 0 => FlattenSeq(seqs) = seqs /\ seqs = <<>>
      BY DEF FlattenSeq
    <2> QED BY <2>1
  <1> HIDE DEF c
  <1>8. \A k \in 1 .. n : c[k] = IF k = 1 THEN seqs[k] ELSE c[k - 1] \o seqs[k]
    BY <1>5
  <1>9. g[0] = <<>> /\ \A k \in 1 .. n : g[k] = g[k - 1] \o seqs[k]
    <2>1. g[0] = <<>>
      BY <1>1
    <2>2. ASSUME NEW k \in 1 .. n
          PROVE  g[k] = g[k - 1] \o seqs[k]
      <3>1. CASE k = 1
        <4>1. g[k] = seqs[1] /\ g[k - 1] = <<>>
          BY <1>1, <1>8, <3>1
        <4> HIDE DEF g
        <4> QED BY <1>1, <3>1, <4>1
      <3>2. CASE k # 1
        <4>1. g[k] = c[k] /\ g[k - 1] = c[k - 1]
          BY <1>1, <3>2
        <4> HIDE DEF g
        <4> QED BY <1>8, <3>2, <4>1
      <3> QED BY <3>1, <3>2
    <2> QED BY <2>1, <2>2
  <1>10. FlattenSeq(seqs) = g[n]
    BY <1>1, <1>6, <1>7
  <1> HIDE DEF g
  <1>11. \A k \in 0 .. n : g[k] \in V
    <2>1. ASSUME NEW k \in 1 .. n, g[k - 1] \in V
          PROVE  g[k] \in V
      <3>1. g[k] = g[k - 1] \o seqs[k] /\ seqs[k] \in V
        BY <1>1, <1>9
      <3> QED BY <2>1, <3>1
    <2>2. g[0] \in V
      BY <1>2, <1>9
    <2> HIDE DEF V, n
    <2> QED BY <1>1, <2>1, <2>2, Throughout
  <1>12. g \in [0 .. n -> V]
    BY <1>11 DEF g
  <1> QED BY <1>9, <1>10, <1>12
=============================================================================
