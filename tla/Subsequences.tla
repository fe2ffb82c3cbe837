---------------------------- MODULE Subsequences ----------------------------
(***************************************************************************)
(* A list comprehension with a condition, [x for x in q if Test(x)].  It   *)
(* is SelectSeq, by way of the positions that are kept, and as a recursive *)
(* function, so that it can be reasoned about (SubsequenceLemmas).         *)
(***************************************************************************)
EXTENDS Integers, Sequences, FiniteSets

\* Element n is what the loop has collected after n elements of q.
Collected(q, I) ==
    LET c[n \in 0 .. Len(q)] ==
            IF n = 0 THEN <<>>
            ELSE IF n \in I THEN Append(c[n - 1], q[n]) ELSE c[n - 1]
    IN  c

\* The elements of q at the positions I, in their order.
Subsequence(q, I) == Collected(q, I)[Len(q)]

Select(q, Test(_)) == Subsequence(q, {i \in 1 .. Len(q) : Test(q[i])})

\* r is q with at most n of its elements left out.
AllBut(n, q, r) ==
    \E missed \in SUBSET (1 .. Len(q)) :
       Cardinality(missed) <= n /\ r = Subsequence(q, (1 .. Len(q)) \ missed)

Elements(q) == {q[i] : i \in 1 .. Len(q)}
=============================================================================
