--------------------------- MODULE MCXbarHarness ----------------------------
(***************************************************************************)
(* Instances of XbarHarness for TLC: a packet of two beats and one of one  *)
(* for the same sink, and what a bad crossbar could make of them.          *)
(***************************************************************************)
EXTENDS XbarHarness

CONSTANTS s1, s2, A, B

beat(s, d, m, last) == [src |-> s, dst |-> d, marker |-> m, last |-> last]

b1 == beat(s1, A, 1, FALSE)
b2 == beat(s1, A, 2, TRUE)
c1 == beat(s2, A, 3, TRUE)
e1 == beat(s2, B, 4, TRUE)
r1 == beat(s1, B, 5, TRUE)
g1 == beat(s1, A, 6, TRUE)
forced == [b1 EXCEPT !.last = TRUE]     \* altered on the way
stray  == [c1 EXCEPT !.src = None]      \* from a source there is not

MCWords == {b1, b2, c1, e1, r1, g1, forced, stray}

two(q1, q2) == [s \in Sources |-> IF s = s1 THEN q1 ELSE q2]

MCQueue == [t \in TestNames |->
    CASE t = "blocked"             -> two(<<b1, b2>>, <<e1>>)
      [] t = "recovered"           -> two(<<r1>>, <<>>)
      [] t = "chaos"               -> two(<<b2>>, <<c1>>)
      [] t = "greedy"              -> two(<<b2, g1>>, <<c1>>)
      [] OTHER                     -> two(<<b1, b2>>, <<c1>>)]

onto(atA, atB) == [d \in Sinks |-> IF d = A THEN atA ELSE atB]

MCOffers == [t \in TestNames |->
    CASE t = "traffic"   -> onto({b1, b2, c1, forced}, {c1})
      [] t = "blocked"   -> onto({b1, b2}, {e1})
      [] t = "recovered" -> onto({b2, r1, stray}, {b2, r1})
      [] t = "chaos"     -> onto({b2, c1}, {})
      [] t = "greedy"    -> onto({b2, g1, c1}, {})
      [] OTHER           -> onto({b1, b2, c1}, {})]

\* What a crossbar that was not reset puts out when rst_n is released.
MCStale == [t \in TestNames |->
    CASE t = "recovered" -> onto({b2, r1, stray}, {b2, r1})
      [] t = "chaos"     -> onto({c1}, {})
      [] OTHER           -> onto({}, {})]
=============================================================================
