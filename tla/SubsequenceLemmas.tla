------------------------- MODULE SubsequenceLemmas --------------------------
(***************************************************************************)
(* What a list comprehension collects, for sequences of every length: the  *)
(* elements that are wanted, each as often as it occurs, in their order.   *)
(* The library states induction over an operator, so it is stated here     *)
(* over a set, from the fact that an injection of a finite set into itself *)
(* is onto.                                                                *)
(***************************************************************************)
EXTENDS Subsequences, FiniteSetTheorems, FunctionTheorems, TLAPS

\* Induction over the natural numbers, for a set in place of a predicate.
LEMMA NatSetInduction ==
    ASSUME NEW S, 0 \in S, \A n \in Nat : n \in S => n + 1 \in S
    PROVE  Nat \subseteq S
<1> SUFFICES ASSUME NEW n \in Nat, n \notin S PROVE FALSE
  OBVIOUS
<1> DEFINE A == {m \in 0 .. n : \A k \in 0 .. m : k \in S}
           succ == [m \in A |-> m + 1]
<1>1. 0 \in A
  OBVIOUS
<1>2. ASSUME NEW m \in A PROVE m + 1 \in A
  <2>1. m \in 0 .. n /\ m # n /\ m + 1 \in S /\ m + 1 \in 0 .. n
    OBVIOUS
  <2>2. ASSUME NEW k \in 0 .. m + 1 PROVE k \in S
    <3>1. k = m + 1 \/ k \in 0 .. m
      BY <2>1
    <3>2. QED
      BY <3>1, <2>1
  <2>3. QED
    BY <2>1, <2>2
<1>3. IsFiniteSet(A)
  <2>1. IsFiniteSet(0 .. n) /\ A \subseteq 0 .. n
    BY FS_Interval
  <2>2. QED
    BY <2>1, FS_Subset
<1>4. succ \in Injection(A, A)
  <2>1. succ \in [A -> A]
    BY <1>2
  <2>2. \A a, b \in A : succ[a] = succ[b] => a = b
    BY <1>2
  <2>3. QED
    BY <2>1, <2>2 DEF Injection, IsInjective
<1>5. succ \in Surjection(A, A)
  BY <1>3, <1>4, FS_Injection
<1>6. PICK m \in A : succ[m] = 0
  BY <1>1, <1>5 DEF Surjection
<1>7. QED
  BY <1>6
-----------------------------------------------------------------------------
\* The loop of a list comprehension.

\* One iteration: what is collected after the first n elements of q.
Collect(c, q, I, n) ==
    IF n = 0 THEN <<>>
    ELSE IF n \in I THEN Append(c[n - 1], q[n]) ELSE c[n - 1]

\* c is what the first n iterations collect.
CollectsTo(n, c, q, I) == c = [m \in 0 .. n |-> Collect(c, q, I, m)]

\* Every number of iterations can be run, and what they collect is a sequence.
LEMMA CollectionExists ==
    ASSUME NEW W, NEW q \in Seq(W), NEW I
    PROVE  \E c \in [0 .. Len(q) -> Seq(W)] : CollectsTo(Len(q), c, q, I)
<1> DEFINE L == Len(q)
           Run(n) == \E c \in [0 .. n -> Seq(W)] : CollectsTo(n, c, q, I)
           S == {n \in Nat : n <= L => Run(n)}
<1>0. L \in Nat OBVIOUS
<1>1. 0 \in S
  <2> DEFINE c == [m \in 0 .. 0 |-> <<>>]
  <2>1. <<>> \in Seq(W) OBVIOUS
  <2>2. c \in [0 .. 0 -> Seq(W)] BY <2>1
  <2>3. c = [m \in 0 .. 0 |-> Collect(c, q, I, m)] BY DEF Collect
  <2> QED BY <2>2, <2>3 DEF CollectsTo
<1>2. ASSUME NEW n \in Nat, n \in S PROVE n + 1 \in S
  <2> SUFFICES ASSUME n + 1 <= L PROVE Run(n + 1)
    OBVIOUS
  <2>1. PICK c \in [0 .. n -> Seq(W)] : c = [m \in 0 .. n |-> Collect(c, q, I, m)]
    BY <1>0, <1>2 DEF CollectsTo
  <2> DEFINE next == IF n + 1 \in I THEN Append(c[n], q[n + 1]) ELSE c[n]
             d == [m \in 0 .. n + 1 |-> IF m = n + 1 THEN next ELSE c[m]]
  <2>2. next \in Seq(W)
    <3>1. c[n] \in Seq(W) /\ q[n + 1] \in W BY <1>0
    <3> QED BY <3>1
  <2>3. d \in [0 .. n + 1 -> Seq(W)] BY <2>2
  <2>4. ASSUME NEW m \in 0 .. n + 1 PROVE d[m] = Collect(d, q, I, m)
    <3>1. CASE m = n + 1
      <4>1. d[m] = next /\ d[m - 1] = c[n] /\ m # 0 BY <3>1
      <4> QED BY <3>1, <4>1 DEF Collect
    <3>2. CASE m # n + 1
      <4>1. m \in 0 .. n /\ d[m] = c[m]
        <5>1. m \in 0 .. n BY <3>2
        <5> QED BY <3>2, <5>1
      <4>3. c[m] = Collect(c, q, I, m) BY ONLY <2>1, <4>1
      <4>2. m # 0 => d[m - 1] = c[m - 1] BY <4>1
      <4> QED BY <4>1, <4>2, <4>3 DEF Collect
    <3> QED BY <3>1, <3>2
  <2>5. d = [m \in 0 .. n + 1 |-> Collect(d, q, I, m)] BY <2>4
  <2> QED BY <2>3, <2>5 DEF CollectsTo
<1>3. Nat \subseteq S
  <2> HIDE DEF S
  <2> QED BY <1>1, <1>2, NatSetInduction
<1> QED BY <1>0, <1>3

\* Collected is the loop, iteration by iteration.
LEMMA CollectedSteps ==
    ASSUME NEW W, NEW q \in Seq(W), NEW I
    PROVE  LET c == Collected(q, I)
           IN  /\ c[0] = <<>>
               /\ \A n \in 1 .. Len(q) :
                     c[n] = IF n \in I THEN Append(c[n - 1], q[n]) ELSE c[n - 1]
<1> DEFINE c == Collected(q, I)
<1>1. c = CHOOSE f : CollectsTo(Len(q), f, q, I)
  BY DEF Collected, Collect, CollectsTo
<1>2. CollectsTo(Len(q), c, q, I) BY <1>1, CollectionExists
<1>3. Len(q) \in Nat OBVIOUS
<1> HIDE DEF c
<1>4. \A n \in 0 .. Len(q) : c[n] = Collect(c, q, I, n)
  BY <1>2 DEF CollectsTo
<1>5. c[0] = <<>> BY <1>3, <1>4 DEF Collect
<1>6. ASSUME NEW n \in 1 .. Len(q)
      PROVE  c[n] = IF n \in I THEN Append(c[n - 1], q[n]) ELSE c[n - 1]
  BY <1>4 DEF Collect
<1> QED BY <1>5, <1>6 DEF c
-----------------------------------------------------------------------------
\* What has been collected.

\* h lists the positions of I among the first n of q, from left to right, and
\* r the elements there.
Enumerates(h, r, q, I, n) ==
    /\ h \in [1 .. Len(r) -> 1 .. n]
    /\ \A k \in 1 .. Len(r) : h[k] \in I /\ r[k] = q[h[k]]
    /\ \A j, k \in 1 .. Len(r) : j < k => h[j] < h[k]
    /\ \A i \in 1 .. n : i \in I => \E k \in 1 .. Len(r) : h[k] = i

\* An element more is enumerated by a place more.
LEMMA EnumeratesNext ==
    ASSUME NEW W, NEW q \in Seq(W), NEW I, NEW r \in Seq(W), NEW h,
           NEW n \in Nat, n + 1 <= Len(q), Enumerates(h, r, q, I, n)
    PROVE  LET s == IF n + 1 \in I THEN Append(r, q[n + 1]) ELSE r
           IN  s \in Seq(W) /\ \E g : Enumerates(g, s, q, I, n + 1)
<1> DEFINE s == IF n + 1 \in I THEN Append(r, q[n + 1]) ELSE r
           l == Len(r)
<1>0. l \in Nat /\ Len(q) \in Nat /\ q[n + 1] \in W OBVIOUS
<1>1. CASE n + 1 \in I
  <2> DEFINE g == [k \in 1 .. l + 1 |-> IF k = l + 1 THEN n + 1 ELSE h[k]]
  <2>1. s = Append(r, q[n + 1]) BY <1>1
  <2>2. /\ s \in Seq(W) /\ Len(s) = l + 1
        /\ \A k \in 1 .. l : s[k] = r[k]
        /\ s[l + 1] = q[n + 1]
    BY <1>0, <2>1
  <2>3. /\ h \in [1 .. l -> 1 .. n]
        /\ \A k \in 1 .. l : h[k] \in I /\ r[k] = q[h[k]]
        /\ \A j, k \in 1 .. l : j < k => h[j] < h[k]
        /\ \A i \in 1 .. n : i \in I => \E k \in 1 .. l : h[k] = i
    BY DEF Enumerates
  <2> HIDE DEF s, l
  <2>4. /\ g[l + 1] = n + 1 /\ \A k \in 1 .. l : g[k] = h[k]
        /\ \A k \in 1 .. l : h[k] \in 1 .. n
    BY <1>0, <2>3
  <2>5. g \in [1 .. l + 1 -> 1 .. n + 1]
    <3>1. ASSUME NEW k \in 1 .. l + 1 PROVE g[k] \in 1 .. n + 1
      <4>1. k = l + 1 \/ k \in 1 .. l BY <1>0
      <4> HIDE DEF g
      <4> QED BY <2>4, <4>1
    <3> QED BY <3>1
  <2>6. ASSUME NEW k \in 1 .. l + 1 PROVE g[k] \in I /\ s[k] = q[g[k]]
    <3>1. k = l + 1 \/ k \in 1 .. l BY <1>0
    <3> HIDE DEF g
    <3> QED BY <1>1, <2>2, <2>3, <2>4, <3>1
  <2>7. ASSUME NEW j \in 1 .. l + 1, NEW k \in 1 .. l + 1, j < k PROVE g[j] < g[k]
    <3>1. j \in 1 .. l /\ (k = l + 1 \/ k \in 1 .. l) BY <1>0, <2>7
    <3> HIDE DEF g
    <3> QED BY <2>3, <2>4, <2>7, <3>1
  <2>8. ASSUME NEW i \in 1 .. n + 1, i \in I PROVE \E k \in 1 .. l + 1 : g[k] = i
    <3>1. i = n + 1 \/ i \in 1 .. n OBVIOUS
    <3>2. l + 1 \in 1 .. l + 1 /\ 1 .. l \subseteq 1 .. l + 1 BY <1>0
    <3> HIDE DEF g
    <3> QED BY <2>3, <2>4, <2>8, <3>1, <3>2
  <2>9. Enumerates(g, s, q, I, n + 1)
    BY <2>2, <2>5, <2>6, <2>7, <2>8 DEF Enumerates
  <2> QED BY <2>2, <2>9 DEF s
<1>2. CASE n + 1 \notin I
  <2>1. s = r BY <1>2
  <2>2. h \in [1 .. Len(r) -> 1 .. n + 1]
    <3>1. h \in [1 .. Len(r) -> 1 .. n] BY DEF Enumerates
    <3> QED BY <3>1
  <2>3. ASSUME NEW i \in 1 .. n + 1, i \in I PROVE \E k \in 1 .. Len(r) : h[k] = i
    <3>1. i \in 1 .. n BY <1>2, <2>3
    <3> QED BY <2>3, <3>1 DEF Enumerates
  <2>4. Enumerates(h, r, q, I, n + 1) BY <2>2, <2>3 DEF Enumerates
  <2> QED BY <2>1, <2>4
<1> QED BY <1>1, <1>2

\* The loop enumerates the positions it was asked for.
LEMMA SubsequenceEnumerated ==
    ASSUME NEW W, NEW q \in Seq(W), NEW I
    PROVE  /\ Subsequence(q, I) \in Seq(W)
           /\ \E h : Enumerates(h, Subsequence(q, I), q, I, Len(q))
<1> DEFINE c == Collected(q, I)
           Good(n) == c[n] \in Seq(W) /\ \E h : Enumerates(h, c[n], q, I, n)
           S == {n \in Nat : n <= Len(q) => Good(n)}
<1>0. Len(q) \in Nat OBVIOUS
<1>1. c[0] = <<>> /\ \A n \in 1 .. Len(q) :
                        c[n] = IF n \in I THEN Append(c[n - 1], q[n]) ELSE c[n - 1]
  BY CollectedSteps
<1> HIDE DEF c
<1>2. 0 \in S
  <2> DEFINE h == [k \in 1 .. 0 |-> 0]
  <2>1. <<>> \in Seq(W) /\ Len(<<>>) = 0 OBVIOUS
  <2>2. h \in [1 .. Len(<<>>) -> 1 .. 0] BY <2>1
  <2>3. Enumerates(h, <<>>, q, I, 0) BY <2>1, <2>2 DEF Enumerates
  <2> QED BY <1>1, <2>1, <2>3
<1>3. ASSUME NEW n \in Nat, n \in S PROVE n + 1 \in S
  <2> SUFFICES ASSUME n + 1 <= Len(q) PROVE Good(n + 1)
    OBVIOUS
  <2>1. c[n] \in Seq(W) BY <1>0, <1>3
  <2>2. PICK h : Enumerates(h, c[n], q, I, n) BY <1>0, <1>3
  <2>3. n + 1 \in 1 .. Len(q) /\ (n + 1) - 1 = n BY <1>0
  <2>4. c[n + 1] = IF n + 1 \in I THEN Append(c[n], q[n + 1]) ELSE c[n]
    BY <1>1, <2>3
  <2> QED BY <2>1, <2>2, <2>4, EnumeratesNext
<1>4. Nat \subseteq S
  <2> HIDE DEF S
  <2> QED BY <1>2, <1>3, NatSetInduction
<1>5. Good(Len(q)) BY <1>0, <1>4
<1> QED BY <1>5 DEF Subsequence, c

\* It collects the elements that were asked for and no others.
LEMMA SubsequenceElements ==
    ASSUME NEW W, NEW q \in Seq(W), NEW I \in SUBSET (1 .. Len(q)), NEW x
    PROVE  x \in Elements(Subsequence(q, I)) <=> \E i \in I : x = q[i]
<1> DEFINE r == Subsequence(q, I)
<1>1. PICK h : Enumerates(h, r, q, I, Len(q)) BY SubsequenceEnumerated
<1> HIDE DEF r
<1>2. ASSUME NEW k \in 1 .. Len(r) PROVE \E i \in I : r[k] = q[i]
  BY <1>1 DEF Enumerates
<1>3. ASSUME NEW i \in I PROVE \E k \in 1 .. Len(r) : r[k] = q[i]
  <2>1. PICK k \in 1 .. Len(r) : h[k] = i BY <1>1 DEF Enumerates
  <2> QED BY <1>1, <2>1 DEF Enumerates
<1>4. x \in Elements(r) <=> \E i \in I : x = q[i]
  <2>1. x \in Elements(r) <=> \E k \in 1 .. Len(r) : x = r[k] BY DEF Elements
  <2> QED BY <1>2, <1>3, <2>1
<1> QED BY <1>4 DEF r

\* An element is collected as often as it was asked for.
Distinct(q) == \A i, j \in 1 .. Len(q) : q[i] = q[j] => i = j

LEMMA SubsequenceDistinct ==
    ASSUME NEW W, NEW q \in Seq(W), NEW I \in SUBSET (1 .. Len(q))
    PROVE  Distinct(Subsequence(q, I)) <=> \A i, j \in I : q[i] = q[j] => i = j
<1> DEFINE r == Subsequence(q, I)
<1>1. PICK h : Enumerates(h, r, q, I, Len(q)) BY SubsequenceEnumerated
<1>0. r \in Seq(W) BY SubsequenceEnumerated
<1> HIDE DEF r
<1>2. Len(r) \in Nat BY <1>0
<1>3. ASSUME Distinct(r), NEW i \in I, NEW j \in I, q[i] = q[j] PROVE i = j
  <2>1. PICK k \in 1 .. Len(r) : h[k] = i BY <1>1 DEF Enumerates
  <2>2. PICK l \in 1 .. Len(r) : h[l] = j BY <1>1 DEF Enumerates
  <2>3. r[k] = r[l] BY <1>1, <1>3, <2>1, <2>2 DEF Enumerates
  <2> QED BY <1>3, <2>1, <2>2, <2>3 DEF Distinct
<1>4. ASSUME \A i, j \in I : q[i] = q[j] => i = j,
             NEW k \in 1 .. Len(r), NEW l \in 1 .. Len(r), r[k] = r[l]
      PROVE  k = l
  <2>1. h[k] = h[l] BY <1>1, <1>4 DEF Enumerates
  <2>2. h[k] \in 1 .. Len(q) /\ h[l] \in 1 .. Len(q) BY <1>1 DEF Enumerates
  <2>3. ~(k < l) /\ ~(l < k) BY <1>1, <2>1, <2>2 DEF Enumerates
  <2> QED BY <1>2, <2>3
<1> QED BY <1>3, <1>4 DEF Distinct, r

\* A sequence without repetitions is as long as the set of its elements.
LEMMA DistinctLength ==
    ASSUME NEW W, NEW q \in Seq(W), Distinct(q)
    PROVE  IsFiniteSet(Elements(q)) /\ Cardinality(Elements(q)) = Len(q)
<1>1. Len(q) \in Nat /\ q \in [1 .. Len(q) -> W] OBVIOUS
<1>2. IsFiniteSet(1 .. Len(q)) /\ Cardinality(1 .. Len(q)) = Len(q)
  BY <1>1, FS_Interval
<1> DEFINE f == [i \in 1 .. Len(q) |-> q[i]]
<1>3. f \in Bijection(1 .. Len(q), Elements(q))
  <2>1. f \in [1 .. Len(q) -> Elements(q)] BY DEF Elements
  <2>2. \A i, j \in 1 .. Len(q) : f[i] = f[j] => i = j BY DEF Distinct
  <2>3. \A x \in Elements(q) : \E i \in 1 .. Len(q) : f[i] = x BY DEF Elements
  <2> HIDE DEF f
  <2> QED BY <2>1, <2>2, <2>3 DEF Bijection, Injection, Surjection, IsInjective
<1>4. ExistsBijection(1 .. Len(q), Elements(q)) BY <1>3 DEF ExistsBijection
<1> QED BY <1>2, <1>4, FS_Bijection
-----------------------------------------------------------------------------
\* What is left out.

\* There is one way to run the loop.
LEMMA CollectedUnique ==
    ASSUME NEW W, NEW q \in Seq(W), NEW I, NEW c,
           c[0] = <<>>,
           \A n \in 1 .. Len(q) :
              c[n] = IF n \in I THEN Append(c[n - 1], q[n]) ELSE c[n - 1]
    PROVE  \A n \in 0 .. Len(q) : Collected(q, I)[n] = c[n]
<1> DEFINE e == Collected(q, I)
           S == {n \in Nat : n <= Len(q) => e[n] = c[n]}
<1>0. Len(q) \in Nat OBVIOUS
<1>1. e[0] = <<>> /\ \A n \in 1 .. Len(q) :
                        e[n] = IF n \in I THEN Append(e[n - 1], q[n]) ELSE e[n - 1]
  BY CollectedSteps
<1> HIDE DEF e
<1>2. 0 \in S BY <1>1
<1>3. ASSUME NEW n \in Nat, n \in S PROVE n + 1 \in S
  <2> SUFFICES ASSUME n + 1 <= Len(q) PROVE e[n + 1] = c[n + 1]
    OBVIOUS
  <2>1. n + 1 \in 1 .. Len(q) /\ (n + 1) - 1 = n BY <1>0
  <2>2. e[n] = c[n] BY <1>0, <1>3
  <2>3. e[n + 1] = IF n + 1 \in I THEN Append(e[n], q[n + 1]) ELSE e[n]
    BY <1>1, <2>1
  <2>4. c[n + 1] = IF n + 1 \in I THEN Append(c[n], q[n + 1]) ELSE c[n]
    BY <2>1
  <2> QED BY <2>2, <2>3, <2>4
<1>4. Nat \subseteq S
  <2> HIDE DEF S
  <2> QED BY <1>2, <1>3, NatSetInduction
<1> QED BY <1>0, <1>4 DEF e

\* Positions outside of the sequence are of no account.
LEMMA SubsequenceSame ==
    ASSUME NEW W, NEW q \in Seq(W), NEW I, NEW J,
           \A n \in 1 .. Len(q) : n \in I <=> n \in J
    PROVE  Subsequence(q, I) = Subsequence(q, J)
<1> DEFINE c == Collected(q, J)
<1>0. Len(q) \in Nat OBVIOUS
<1>1. c[0] = <<>> /\ \A n \in 1 .. Len(q) :
                        c[n] = IF n \in J THEN Append(c[n - 1], q[n]) ELSE c[n - 1]
  BY CollectedSteps
<1> HIDE DEF c
<1>2. \A n \in 0 .. Len(q) : Collected(q, I)[n] = c[n]
  BY <1>1, CollectedUnique
<1> QED BY <1>0, <1>2 DEF Subsequence, c

\* An element more is collected at the end or not at all.
LEMMA SubsequenceAppend ==
    ASSUME NEW W, NEW q \in Seq(W), NEW x \in W, NEW I
    PROVE  Subsequence(Append(q, x), I)
              = IF Len(q) + 1 \in I THEN Append(Subsequence(q, I), x)
                ELSE Subsequence(q, I)
<1> DEFINE p == Append(q, x)
           c == Collected(p, I)
<1>0. /\ p \in Seq(W) /\ Len(q) \in Nat /\ Len(p) = Len(q) + 1
      /\ p[Len(q) + 1] = x /\ \A n \in 1 .. Len(q) : p[n] = q[n]
  OBVIOUS
<1> HIDE DEF p
<1>1. c[0] = <<>> /\ \A n \in 1 .. Len(p) :
                        c[n] = IF n \in I THEN Append(c[n - 1], p[n]) ELSE c[n - 1]
  BY <1>0, CollectedSteps
<1> HIDE DEF c
<1>2. ASSUME NEW n \in 1 .. Len(q)
      PROVE  c[n] = IF n \in I THEN Append(c[n - 1], q[n]) ELSE c[n - 1]
  <2>1. n \in 1 .. Len(p) /\ p[n] = q[n] BY <1>0
  <2> QED BY <1>1, <2>1
<1>3. \A n \in 0 .. Len(q) : Collected(q, I)[n] = c[n]
  BY <1>1, <1>2, CollectedUnique
<1>4. c[Len(q)] = Subsequence(q, I) BY <1>0, <1>3 DEF Subsequence
<1>5. c[Len(q) + 1] = IF Len(q) + 1 \in I THEN Append(c[Len(q)], x) ELSE c[Len(q)]
  <2>1. Len(q) + 1 \in 1 .. Len(p) /\ (Len(q) + 1) - 1 = Len(q) BY <1>0
  <2> QED BY <1>0, <1>1, <2>1
<1>6. Subsequence(p, I) = c[Len(q) + 1] BY <1>0 DEF Subsequence, c
<1> QED BY <1>4, <1>5, <1>6 DEF p

\* All of a sequence, and nothing of it.
LEMMA SubsequenceAll ==
    ASSUME NEW W, NEW q \in Seq(W)
    PROVE  Subsequence(q, 1 .. Len(q)) = q
<1> DEFINE c == [n \in 0 .. Len(q) |-> SubSeq(q, 1, n)]
           I == 1 .. Len(q)
<1>0. Len(q) \in Nat OBVIOUS
<1>1. c[0] = <<>> BY <1>0
<1>2. ASSUME NEW n \in 1 .. Len(q)
      PROVE  c[n] = IF n \in I THEN Append(c[n - 1], q[n]) ELSE c[n - 1]
  <2>1. n \in 0 .. Len(q) /\ n - 1 \in 0 .. Len(q) BY <1>0
  <2>2. c[n] = SubSeq(q, 1, n) /\ c[n - 1] = SubSeq(q, 1, n - 1) BY <2>1
  <2>3. SubSeq(q, 1, n) = Append(SubSeq(q, 1, n - 1), q[n]) BY <1>0, <2>1
  <2> QED BY <2>2, <2>3
<1>3. c[Len(q)] = q BY <1>0
<1> HIDE DEF c, I
<1>4. \A n \in 0 .. Len(q) : Collected(q, I)[n] = c[n]
  BY <1>1, <1>2, CollectedUnique
<1> QED BY <1>0, <1>3, <1>4 DEF Subsequence, I

LEMMA SubsequenceNone ==
    ASSUME NEW W, NEW q \in Seq(W)
    PROVE  Subsequence(q, {}) = <<>>
<1> DEFINE c == [n \in 0 .. Len(q) |-> <<>>]
<1>0. Len(q) \in Nat OBVIOUS
<1>1. \A n \in 1 .. Len(q) : c[n] = c[n - 1] BY <1>0
<1>2. c[0] = <<>> /\ c[Len(q)] = <<>> BY <1>0
<1> HIDE DEF c
<1>4. \A n \in 0 .. Len(q) : Collected(q, {})[n] = c[n]
  BY <1>1, <1>2, CollectedUnique
<1> QED BY <1>0, <1>2, <1>4 DEF Subsequence

\* AllBut, of sequences that grow: nothing has been left out; more may be left
\* out than is; an element is added to both, or to the longer only; everything
\* is left out.
LEMMA PositionsFinite ==
    ASSUME NEW l \in Nat
    PROVE  IsFiniteSet(1 .. l) /\ Cardinality(1 .. l) = l
BY FS_Interval

LEMMA MissedFinite ==
    ASSUME NEW W, NEW q \in Seq(W), NEW M \in SUBSET (1 .. Len(q))
    PROVE  IsFiniteSet(M) /\ Cardinality(M) \in Nat /\ Cardinality(M) <= Len(q)
<1>1. Len(q) \in Nat OBVIOUS
<1>2. IsFiniteSet(1 .. Len(q)) /\ Cardinality(1 .. Len(q)) = Len(q)
  BY <1>1, PositionsFinite
<1> QED BY <1>1, <1>2, FS_Subset, FS_CardinalityType

LEMMA AllButNone ==
    ASSUME NEW W, NEW q \in Seq(W), NEW r
    PROVE  AllBut(0, q, r) <=> r = q
<1>1. ASSUME AllBut(0, q, r) PROVE r = q
  <2>1. PICK M \in SUBSET (1 .. Len(q)) :
           Cardinality(M) <= 0 /\ r = Subsequence(q, (1 .. Len(q)) \ M)
    BY <1>1 DEF AllBut
  <2>2. IsFiniteSet(M) /\ Cardinality(M) = 0 BY <2>1, MissedFinite
  <2>3. M = {} BY <2>2, FS_EmptySet
  <2> QED BY <2>1, <2>3, SubsequenceAll
<1>2. ASSUME r = q PROVE AllBut(0, q, r)
  <2>1. {} \in SUBSET (1 .. Len(q)) /\ Cardinality({}) = 0
        /\ (1 .. Len(q)) \ {} = 1 .. Len(q)
    BY FS_EmptySet
  <2>2. r = Subsequence(q, (1 .. Len(q)) \ {}) BY <1>2, <2>1, SubsequenceAll
  <2>3. \E M \in SUBSET (1 .. Len(q)) :
           Cardinality(M) <= 0 /\ r = Subsequence(q, (1 .. Len(q)) \ M)
    <3> WITNESS {} \in SUBSET (1 .. Len(q))
    <3> QED BY <2>1, <2>2
  <2> QED BY <2>3 DEF AllBut
<1> QED BY <1>1, <1>2

LEMMA AllButMore ==
    ASSUME NEW W, NEW q \in Seq(W), NEW r, NEW n \in Nat, NEW m \in Nat, n <= m,
           AllBut(n, q, r)
    PROVE  AllBut(m, q, r)
<1>1. PICK M \in SUBSET (1 .. Len(q)) :
         Cardinality(M) <= n /\ r = Subsequence(q, (1 .. Len(q)) \ M)
  BY DEF AllBut
<1>2. Cardinality(M) \in Nat BY MissedFinite
<1>3. Cardinality(M) <= m BY <1>1, <1>2
<1> QED BY <1>1, <1>3 DEF AllBut

LEMMA AllButBoth ==
    ASSUME NEW W, NEW q \in Seq(W), NEW x \in W, NEW r, NEW n \in Nat,
           AllBut(n, q, r)
    PROVE  AllBut(n, Append(q, x), Append(r, x))
<1> DEFINE p == Append(q, x)
<1>0. p \in Seq(W) /\ Len(q) \in Nat /\ Len(p) = Len(q) + 1 OBVIOUS
<1>1. PICK M \in SUBSET (1 .. Len(q)) :
         Cardinality(M) <= n /\ r = Subsequence(q, (1 .. Len(q)) \ M)
  BY DEF AllBut
<1> DEFINE I == (1 .. Len(p)) \ M
<1>2. Len(q) + 1 \in I /\ M \in SUBSET (1 .. Len(p)) BY <1>0
<1>3. \A k \in 1 .. Len(q) : k \in I <=> k \in (1 .. Len(q)) \ M BY <1>0
<1>4. Subsequence(p, I) = Append(Subsequence(q, I), x)
  <2> HIDE DEF I
  <2> QED BY <1>2, SubsequenceAppend
<1>5. Subsequence(q, I) = r
  <2> HIDE DEF I
  <2> QED BY <1>1, <1>3, SubsequenceSame
<1> QED BY <1>1, <1>2, <1>4, <1>5 DEF AllBut

LEMMA AllButOne ==
    ASSUME NEW W, NEW q \in Seq(W), NEW x \in W, NEW r, NEW n \in Nat,
           AllBut(n, q, r)
    PROVE  AllBut(n + 1, Append(q, x), r)
<1> DEFINE p == Append(q, x)
<1>0. p \in Seq(W) /\ Len(q) \in Nat /\ Len(p) = Len(q) + 1 OBVIOUS
<1>1. PICK M \in SUBSET (1 .. Len(q)) :
         Cardinality(M) <= n /\ r = Subsequence(q, (1 .. Len(q)) \ M)
  BY DEF AllBut
<1> DEFINE L == M \union {Len(q) + 1}
           I == (1 .. Len(p)) \ L
<1>2. Len(q) + 1 \notin I /\ L \in SUBSET (1 .. Len(p))
  <2>1. 1 .. Len(q) \subseteq 1 .. Len(p) /\ Len(q) + 1 \in 1 .. Len(p) BY <1>0
  <2> QED BY <2>1
<1>3. \A k \in 1 .. Len(q) : k \in I <=> k \in (1 .. Len(q)) \ M BY <1>0
<1>4. Subsequence(p, I) = Subsequence(q, I)
  <2> HIDE DEF I
  <2> QED BY <1>2, SubsequenceAppend
<1>5. Subsequence(q, I) = r
  <2> HIDE DEF I
  <2> QED BY <1>1, <1>3, SubsequenceSame
<1>6. Cardinality(L) <= n + 1
  <2>1. IsFiniteSet(M) /\ Cardinality(M) \in Nat BY MissedFinite
  <2>2. Len(q) + 1 \notin M BY <1>0
  <2>3. Cardinality(L) = Cardinality(M) + 1 BY <2>1, <2>2, FS_AddElement
  <2> QED BY <1>1, <2>1, <2>3
<1> QED BY <1>2, <1>4, <1>5, <1>6 DEF AllBut

LEMMA AllButEverything ==
    ASSUME NEW W, NEW q \in Seq(W), NEW n \in Nat, Len(q) <= n
    PROVE  AllBut(n, q, <<>>)
<1> DEFINE M == 1 .. Len(q)
<1>1. M \in SUBSET (1 .. Len(q)) /\ (1 .. Len(q)) \ M = {} OBVIOUS
<1>2. Len(q) \in Nat OBVIOUS
<1>3. Cardinality(M) <= n
  <2>1. Cardinality(1 .. Len(q)) = Len(q) BY <1>2, PositionsFinite
  <2> QED BY <2>1
<1>4. Subsequence(q, {}) = <<>> BY SubsequenceNone
<1> QED BY <1>1, <1>3, <1>4 DEF AllBut

\* However much has been left out, it is no more than there is.
LEMMA AllButAny ==
    ASSUME NEW W, NEW q \in Seq(W), NEW r, NEW n \in Nat, AllBut(n, q, r)
    PROVE  AllBut(Len(q), q, r)
<1>1. PICK M \in SUBSET (1 .. Len(q)) : r = Subsequence(q, (1 .. Len(q)) \ M)
  BY DEF AllBut
<1> QED BY <1>1, MissedFinite DEF AllBut
=============================================================================
