------------------------ MODULE LaneArithmetic_proofs -----------------------
(***************************************************************************)
(* What the recursive accumulator of sum_c computes, for every number of   *)
(* slots, lanes and lane values, by induction over a set of numbers        *)
(* (SubsequenceLemmas).                                                    *)
(***************************************************************************)
EXTENDS LaneArithmetic, SubsequenceLemmas

\* One iteration of the loop over the slots.
Step(acc, mask, data, l, p) ==
    IF p = 0
    THEN 0
    ELSE IF p - 1 \in mask
         THEN (acc[p - 1] + data[p - 1][l]) % LANE_MOD
         ELSE acc[p - 1]

\* acc is what the first n iterations of the loop compute for lane l.
IsRunTo(n, acc, mask, data, l) ==
    acc = [p \in 0 .. n |-> Step(acc, mask, data, l, p)]

IsRun(acc, mask, data, l) == IsRunTo(N_PORTS, acc, mask, data, l)

\* The loop has a run of every length, and its values stay in a lane.
LEMMA AccumulatorExists ==
    ASSUME NEW mask, NEW data \in Operands, NEW l \in Lanes
    PROVE  \A n \in 0 .. N_PORTS :
              \E acc \in [0 .. n -> Lane] : IsRunTo(n, acc, mask, data, l)
<1> DEFINE Run(n) == \E acc \in [0 .. n -> Lane] : IsRunTo(n, acc, mask, data, l)
           S == {n \in Nat : n <= N_PORTS => Run(n)}
<1>1. 0 \in S
  <2> DEFINE acc == [p \in 0 .. 0 |-> 0]
  <2>1. acc \in [0 .. 0 -> Lane]
    BY LaneAssumption DEF Lane
  <2>2. acc = [p \in 0 .. 0 |-> Step(acc, mask, data, l, p)]
    BY DEF Step
  <2>3. QED
    BY <2>1, <2>2 DEF IsRunTo
<1>2. ASSUME NEW n \in Nat, n \in S PROVE n + 1 \in S
  <2> SUFFICES ASSUME n + 1 <= N_PORTS PROVE Run(n + 1)
    OBVIOUS
  <2>1. PICK acc \in [0 .. n -> Lane] :
               acc = [p \in 0 .. n |-> Step(acc, mask, data, l, p)]
    BY <1>2, LaneAssumption DEF IsRunTo
  <2> DEFINE next == IF n \in mask THEN (acc[n] + data[n][l]) % LANE_MOD
                                   ELSE acc[n]
             acc2 == [p \in 0 .. n + 1 |-> IF p = n + 1 THEN next ELSE acc[p]]
  <2>2. next \in Lane
    <3>1. n \in Slots /\ acc[n] \in Lane /\ data[n][l] \in Lane
      BY LaneAssumption DEF Slots, Operands, Beat
    <3>2. acc[n] + data[n][l] \in Nat
      BY <3>1, LaneAssumption DEF Lane
    <3>3. (acc[n] + data[n][l]) % LANE_MOD \in Lane
      BY <3>2, LaneAssumption DEF Lane
    <3>4. QED
      BY <3>1, <3>3
  <2>3. acc2 \in [0 .. n + 1 -> Lane]
    BY <2>2
  <2>4. ASSUME NEW p \in 0 .. n + 1
        PROVE  acc2[p] = Step(acc2, mask, data, l, p)
    <3>1. CASE p = n + 1
      <4>1. acc2[p - 1] = acc[n] /\ p - 1 = n /\ p # 0
        BY <3>1
      <4>2. QED
        BY <3>1, <4>1 DEF Step
    <3>2. CASE p # n + 1
      <4>1. p \in 0 .. n /\ acc2[p] = acc[p] /\ acc[p] = Step(acc, mask, data, l, p)
        BY <3>2, <2>1
      <4>2. p # 0 => acc2[p - 1] = acc[p - 1]
        BY <4>1
      <4>3. QED
        BY <4>1, <4>2 DEF Step
    <3>3. QED
      BY <3>1, <3>2
  <2>5. acc2 = [p \in 0 .. n + 1 |-> Step(acc2, mask, data, l, p)]
    BY <2>4
  <2>6. QED
    BY <2>3, <2>5 DEF IsRunTo
<1>3. Nat \subseteq S
  <2> HIDE DEF S
  <2>1. QED
    BY <1>1, <1>2, NatSetInduction
<1>4. QED
  BY <1>3, LaneAssumption

\* The loop has only one run: two of them agree after every iteration.
LEMMA AccumulatorUnique ==
    ASSUME NEW mask, NEW data \in Operands, NEW l \in Lanes,
           NEW f, IsRun(f, mask, data, l),
           NEW g, IsRun(g, mask, data, l)
    PROVE  f = g
<1>f. \A p \in 0 .. N_PORTS : f[p] = Step(f, mask, data, l, p)
  BY DEF IsRun, IsRunTo
<1>g. \A p \in 0 .. N_PORTS : g[p] = Step(g, mask, data, l, p)
  BY DEF IsRun, IsRunTo
<1> DEFINE S == {n \in Nat : n <= N_PORTS => f[n] = g[n]}
<1>1. 0 \in S
  BY <1>f, <1>g, LaneAssumption DEF Step
<1>2. ASSUME NEW n \in Nat, n \in S PROVE n + 1 \in S
  <2> SUFFICES ASSUME n + 1 <= N_PORTS PROVE f[n + 1] = g[n + 1]
    OBVIOUS
  <2>1. f[n] = g[n]
    BY <1>2, LaneAssumption
  <2>2. /\ f[n + 1] = Step(f, mask, data, l, n + 1)
        /\ g[n + 1] = Step(g, mask, data, l, n + 1)
    BY <1>f, <1>g, LaneAssumption
  <2>3. (n + 1) - 1 = n /\ n + 1 # 0
    OBVIOUS
  <2>4. QED
    BY <2>1, <2>2, <2>3 DEF Step
<1>3. Nat \subseteq S
  <2> HIDE DEF S
  <2>1. QED
    BY <1>1, <1>2, NatSetInduction
<1>4. \A p \in 0 .. N_PORTS : f[p] = g[p]
  BY <1>3, LaneAssumption
<1>5. /\ f = [p \in 0 .. N_PORTS |-> f[p]]
      /\ g = [p \in 0 .. N_PORTS |-> g[p]]
  BY DEF IsRun, IsRunTo
<1>6. QED
  BY <1>4, <1>5

\* acc starts at zero, adds the slots of the mask one after the other and holds
\* a lane value after every iteration.
AddsInTurn(acc, mask, data, l) ==
    /\ acc \in [0 .. N_PORTS -> Lane]
    /\ acc[0] = 0
    /\ \A p \in Slots :
          acc[p + 1] = IF p \in mask THEN (acc[p] + data[p][l]) % LANE_MOD
                                     ELSE acc[p]

\* The accumulator of one lane is the run of the loop.
LEMMA AccumulatorRun ==
    ASSUME NEW mask, NEW data \in Operands, NEW l \in Lanes
    PROVE  AddsInTurn(Accumulator(mask, data, l), mask, data, l)
<1> DEFINE acc == Accumulator(mask, data, l)
<1>1. acc = CHOOSE h : IsRun(h, mask, data, l)
  BY DEF Accumulator, Step, IsRun, IsRunTo
<1>2. PICK run \in [0 .. N_PORTS -> Lane] : IsRun(run, mask, data, l)
  <2>1. N_PORTS \in 0 .. N_PORTS
    BY LaneAssumption
  <2>2. QED
    BY <2>1, AccumulatorExists DEF IsRun
<1> HIDE DEF acc
<1>3. IsRun(acc, mask, data, l)
  BY <1>1, <1>2
<1>r. \A p \in 0 .. N_PORTS : acc[p] = Step(acc, mask, data, l, p)
  BY <1>3 DEF IsRun, IsRunTo
<1>4. acc = run
  BY <1>2, <1>3, AccumulatorUnique
<1>5. acc \in [0 .. N_PORTS -> Lane]
  BY <1>2, <1>4
<1>6. acc[0] = 0
  BY <1>r, LaneAssumption DEF Step
<1>7. ASSUME NEW p \in Slots
      PROVE  acc[p + 1] = IF p \in mask
                          THEN (acc[p] + data[p][l]) % LANE_MOD
                          ELSE acc[p]
  <2>1. p + 1 \in 0 .. N_PORTS /\ p + 1 # 0 /\ (p + 1) - 1 = p
    BY LaneAssumption DEF Slots
  <2>2. QED
    BY <1>r, <2>1 DEF Step
<1>8. QED
  <2>1. AddsInTurn(acc, mask, data, l)
    BY <1>5, <1>6, <1>7 DEF AddsInTurn
  <2>2. QED
    BY <2>1 DEF acc

\* sum_c is a beat: every lane of it is a lane value, the carries being
\* discarded lane by lane.
THEOREM SumIsBeat ==
    \A mask : \A data \in Operands : sum_c(mask, data) \in Beat
<1> SUFFICES ASSUME NEW mask, NEW data \in Operands
             PROVE  sum_c(mask, data) \in Beat
  OBVIOUS
<1>1. ASSUME NEW l \in Lanes PROVE Accumulator(mask, data, l)[N_PORTS] \in Lane
  <2>1. Accumulator(mask, data, l) \in [0 .. N_PORTS -> Lane]
    BY AccumulatorRun DEF AddsInTurn
  <2>2. N_PORTS \in 0 .. N_PORTS
    BY LaneAssumption
  <2>3. QED
    BY <2>1, <2>2
<1>2. QED
  BY <1>1 DEF sum_c, Beat
-----------------------------------------------------------------------------
\* Addition modulo M of numbers below M.

LEMMA ModSmall ==
    ASSUME NEW M \in Nat \ {0}, NEW u \in Nat, u < M
    PROVE  u % M = u
  OBVIOUS

LEMMA ModBig ==
    ASSUME NEW M \in Nat \ {0}, NEW u \in Nat, M <= u, u < 2 * M
    PROVE  u % M = u - M
  OBVIOUS

LEMMA Wrap ==
    ASSUME NEW M \in Nat \ {0}, NEW a \in 0 .. M - 1, NEW b \in 0 .. M - 1
    PROVE  /\ (a + b) % M = IF a + b < M THEN a + b ELSE a + b - M
           /\ (a + b) % M \in 0 .. M - 1
<1> DEFINE u == a + b
<1>0. u \in Nat /\ u < 2 * M
  OBVIOUS
<1> HIDE DEF u
<1>1. u % M = IF u < M THEN u ELSE u - M
  <2>1. CASE u < M
    <3>1. u % M = u
      BY <1>0, <2>1, ModSmall
    <3>2. QED
      BY <2>1, <3>1
  <2>2. CASE M <= u
    <3>1. u % M = u - M
      BY <1>0, <2>2, ModBig
    <3>2. QED
      BY <1>0, <2>2, <3>1
  <2>3. QED
    BY <1>0, <2>1, <2>2
<1>2. QED
  BY <1>1 DEF u

\* The order of two additions does not matter.
LEMMA SwapAdditions ==
    ASSUME NEW M \in Nat \ {0},
           NEW a \in 0 .. M - 1, NEW b \in 0 .. M - 1, NEW c \in 0 .. M - 1
    PROVE  (((a + b) % M) + c) % M = (((a + c) % M) + b) % M
<1> DEFINE x == (a + b) % M
           y == (a + c) % M
<1>1. x = (IF a + b < M THEN a + b ELSE a + b - M) /\ x \in 0 .. M - 1
  BY Wrap
<1>2. y = (IF a + c < M THEN a + c ELSE a + c - M) /\ y \in 0 .. M - 1
  BY Wrap
<1> HIDE DEF x, y
<1>3. (x + c) % M = (IF x + c < M THEN x + c ELSE x + c - M)
  BY <1>1, Wrap
<1>4. (y + b) % M = (IF y + b < M THEN y + b ELSE y + b - M)
  BY <1>2, Wrap
<1>5. (x + c) % M = (y + b) % M
  BY <1>1, <1>2, <1>3, <1>4
<1>6. QED
  BY <1>5 DEF x, y
-----------------------------------------------------------------------------
\* One more bit in the mask: its slot is added to the sum, wherever the loop
\* over the slots meets it.
LEMMA AddMember ==
    ASSUME NEW mask, NEW data \in Operands, NEW m \in Slots, m \notin mask
    PROVE  sum_c(mask \union {m}, data)
             = [l \in Lanes |-> (sum_c(mask, data)[l] + data[m][l]) % LANE_MOD]
<1> SUFFICES ASSUME NEW l \in Lanes
             PROVE  Accumulator(mask \union {m}, data, l)[N_PORTS]
                      = (Accumulator(mask, data, l)[N_PORTS] + data[m][l]) % LANE_MOD
  BY DEF sum_c
<1> DEFINE wide == mask \union {m}
           new  == Accumulator(wide, data, l)
           old  == Accumulator(mask, data, l)
           d    == data[m][l]
<1>1. AddsInTurn(new, wide, data, l) /\ AddsInTurn(old, mask, data, l)
  <2> HIDE DEF wide
  <2>1. QED
    BY AccumulatorRun
<1>2. /\ d \in Lane /\ \A p \in Slots : data[p][l] \in Lane
      /\ LANE_MOD \in Nat \ {0} /\ N_PORTS \in Nat \ {0}
      /\ m \in Nat /\ m < N_PORTS
  BY LaneAssumption DEF Operands, Beat, Slots
<1> HIDE DEF new, old, d
\* Before slot m the two runs agree; after it they differ by its value.
<1> DEFINE S == {q \in Nat : q <= N_PORTS =>
                     new[q] = IF q <= m THEN old[q] ELSE (old[q] + d) % LANE_MOD}
<1>3. 0 \in S
  BY <1>1, <1>2 DEF AddsInTurn
<1>4. ASSUME NEW q \in Nat, q \in S PROVE q + 1 \in S
  <2> SUFFICES ASSUME q + 1 <= N_PORTS
               PROVE  new[q + 1] = IF q + 1 <= m THEN old[q + 1]
                                   ELSE (old[q + 1] + d) % LANE_MOD
    OBVIOUS
  <2>1. /\ q \in Slots /\ q \in 0 .. N_PORTS
        /\ new[q] = IF q <= m THEN old[q] ELSE (old[q] + d) % LANE_MOD
    BY <1>2, <1>4 DEF Slots
  <2>2. /\ new[q + 1] = IF q \in wide THEN (new[q] + data[q][l]) % LANE_MOD ELSE new[q]
        /\ old[q + 1] = IF q \in mask THEN (old[q] + data[q][l]) % LANE_MOD ELSE old[q]
        /\ old[q] \in Lane /\ data[q][l] \in Lane
    BY <1>1, <1>2, <2>1 DEF AddsInTurn
  <2>3. CASE q < m
    <3>1. new[q] = old[q] /\ (q \in wide <=> q \in mask) /\ q + 1 <= m
      BY <1>2, <2>1, <2>3
    <3>2. QED
      BY <2>2, <3>1
  <2>4. CASE q = m
    <3>1. /\ new[q] = old[q] /\ q \in wide /\ q \notin mask /\ ~(q + 1 <= m)
          /\ data[q][l] = d
      BY <1>2, <2>1, <2>4 DEF d
    <3>2. QED
      BY <2>2, <3>1
  <2>5. CASE q > m
    <3>1. /\ new[q] = (old[q] + d) % LANE_MOD /\ (q \in wide <=> q \in mask)
          /\ ~(q + 1 <= m)
      BY <1>2, <2>1, <2>5
    <3>2. CASE q \in mask
      <4>1. (((old[q] + d) % LANE_MOD) + data[q][l]) % LANE_MOD
              = (((old[q] + data[q][l]) % LANE_MOD) + d) % LANE_MOD
        BY <1>2, <2>2, SwapAdditions DEF Lane
      <4>2. QED
        BY <2>2, <3>1, <3>2, <4>1
    <3>3. CASE q \notin mask
      BY <2>2, <3>1, <3>3
    <3>4. QED
      BY <3>2, <3>3
  <2>6. QED
    BY <1>2, <2>3, <2>4, <2>5
<1>5. Nat \subseteq S
  <2> HIDE DEF S
  <2>1. QED
    BY <1>3, <1>4, NatSetInduction
<1>6. new[N_PORTS] = (old[N_PORTS] + d) % LANE_MOD
  <2>1. N_PORTS \in S /\ ~(N_PORTS <= m)
    BY <1>2, <1>5
  <2>2. QED
    BY <1>2, <2>1
<1>7. QED
  BY <1>6 DEF new, old, d

\* The same, for one lane of the sum.
LEMMA AddMemberLane ==
    \A mask : \A data \in Operands : \A m \in Slots : m \notin mask =>
        \A l \in Lanes : sum_c(mask \union {m}, data)[l]
                           = (sum_c(mask, data)[l] + data[m][l]) % LANE_MOD
<1> SUFFICES ASSUME NEW mask, NEW data \in Operands, NEW m \in Slots,
                    m \notin mask, NEW l \in Lanes
             PROVE  sum_c(mask \union {m}, data)[l]
                      = (sum_c(mask, data)[l] + data[m][l]) % LANE_MOD
  OBVIOUS
<1>1. sum_c(mask \union {m}, data)
        = [k \in Lanes |-> (sum_c(mask, data)[k] + data[m][k]) % LANE_MOD]
  BY AddMember
<1>2. QED
  BY <1>1

\* An all-zero mask produces zero (the comment above sum_c).
LEMMA SumOfNone == \A data \in Operands : sum_c({}, data) = ZeroBeat
<1> SUFFICES ASSUME NEW data \in Operands, NEW l \in Lanes
             PROVE  Accumulator({}, data, l)[N_PORTS] = 0
  BY DEF sum_c, ZeroBeat
<1> DEFINE acc == Accumulator({}, data, l)
           S   == {q \in Nat : q <= N_PORTS => acc[q] = 0}
<1>1. acc[0] = 0 /\ \A p \in Slots : acc[p + 1] = acc[p]
  <2> DEFINE none == {}
  <2>1. AddsInTurn(Accumulator(none, data, l), none, data, l)
    <3> HIDE DEF none
    <3>1. QED
      BY AccumulatorRun
  <2>2. AddsInTurn(acc, {}, data, l)
    BY <2>1
  <2> HIDE DEF acc
  <2>3. QED
    BY <2>2 DEF AddsInTurn
<1> HIDE DEF acc
<1>2. 0 \in S
  BY <1>1
<1>3. ASSUME NEW q \in Nat, q \in S PROVE q + 1 \in S
  <2> SUFFICES ASSUME q + 1 <= N_PORTS PROVE acc[q + 1] = 0
    OBVIOUS
  <2>1. q \in Slots /\ acc[q] = 0
    BY <1>3, LaneAssumption DEF Slots
  <2>2. QED
    BY <1>1, <2>1
<1>4. Nat \subseteq S
  <2> HIDE DEF S
  <2>1. QED
    BY <1>2, <1>3, NatSetInduction
<1>5. QED
  BY <1>4, LaneAssumption DEF acc

\* A single-bit mask is a pass-through (the comment above sum_c): the beat on
\* that slot comes out as it went in.
THEOREM SingleBitPassesThrough ==
    \A data \in Operands : \A m \in Slots : sum_c({m}, data) = data[m]
<1> SUFFICES ASSUME NEW data \in Operands, NEW m \in Slots
             PROVE  sum_c({m}, data) = data[m]
  OBVIOUS
<1>1. {} \union {m} = {m} /\ m \notin {}
  OBVIOUS
<1>2. sum_c({m}, data)
        = [l \in Lanes |-> (sum_c({}, data)[l] + data[m][l]) % LANE_MOD]
  <2> DEFINE none == {}
  <2>1. sum_c(none \union {m}, data)
          = [l \in Lanes |-> (sum_c(none, data)[l] + data[m][l]) % LANE_MOD]
    <3>1. m \notin none
      OBVIOUS
    <3> HIDE DEF none
    <3>2. QED
      BY <3>1, AddMember
  <2>2. QED
    BY <1>1, <2>1
<1>3. sum_c({}, data) = ZeroBeat
  BY SumOfNone
<1>4. data[m] \in [Lanes -> Lane]
  BY DEF Operands, Beat
<1>5. ASSUME NEW l \in Lanes
      PROVE  (sum_c({}, data)[l] + data[m][l]) % LANE_MOD = data[m][l]
  <2>1. /\ sum_c({}, data)[l] = 0 /\ data[m][l] \in Lane
        /\ LANE_MOD \in Nat \ {0}
    BY <1>3, <1>4, LaneAssumption DEF ZeroBeat
  <2>2. data[m][l] \in Nat /\ data[m][l] < LANE_MOD /\ 0 + data[m][l] = data[m][l]
    BY <2>1 DEF Lane
  <2>3. data[m][l] % LANE_MOD = data[m][l]
    BY <2>1, <2>2, ModSmall
  <2>4. QED
    BY <2>1, <2>2, <2>3
<1>6. QED
  BY <1>2, <1>4, <1>5
=============================================================================
