------------------------- MODULE XbarHarness_proofs --------------------------
(***************************************************************************)
(* What XbarHarness records is true, for every crossbar, number of ports   *)
(* and traffic: its types, and the three properties that relate the        *)
(* harness's record to what the observer sees on the wires (IInv); and     *)
(* what its tests conclude from the record is the contract (JInv).         *)
(***************************************************************************)
EXTENDS XbarHarness, SubsequenceLemmas

\* A source that holds a beat, or is about to, is within its queue; during
\* and after a reset no source has begun.
Placed ==
    /\ \A s \in Sources : phase[s] \in {"gap", "offer"} => pos[s] \in 1 .. Len(queue(s))
    /\ \A s \in Sources : phase[s] = "align" => pos[s] >= 1
    /\ stage \in {"reset", "release"} =>
          /\ pos = [s \in Sources |-> 1]
          /\ phase = [s \in Sources |-> "done"]

\* The beat a source offers is on the bus, and none otherwise.
OnBus ==
    \A s \in Sources : bus[s] = IF Offering(s) THEN queue(s)[pos[s]] ELSE None

\* What is recorded of a source is its queue up to the beat it is at.
InOrder ==
    \A s \in Sources :
       /\ Len(sent[s]) = pos[s] - 1 /\ Len(sent[s]) <= Len(queue(s))
       /\ \A i \in 1 .. Len(sent[s]) : sent[s][i] = queue(s)[i]

\* A beat left out of the record was taken unseen, or belongs to a source that
\* was halted and will not go on.
LeftOut(s) == Times(1, stage = "halting" /\ phase[s] = "done")
                 + Times(1, "unread" \in disturbed)

Recorded == \A s \in Sources : AllBut(LeftOut(s), taken[s], sent[s])

\* Before the monitors run, an edge delivers one beat to a sink at most.
Unwatched ==
    stage \in {"reset", "release"} =>
       \A d \in Sinks :
          /\ seen[d] = <<>>
          /\ Len(delivered[d]) + (IF stage = "release" THEN left ELSE 1) <= 1
          /\ delivered[d] # <<>> => "slipped" \in disturbed

\* m_ready moves under the monitors in one cycle, on the way to the drain.
SettlesOnce == "midcycle" \in disturbed => stage = "drain"

Unseen(d) == IF blind_cycles THEN Len(delivered[d])
             ELSE Times(2, "slipped" \in disturbed) + Times(1, "midcycle" \in disturbed)

IInv ==
    /\ TypeOK /\ Placed /\ OnBus /\ InOrder /\ Recorded
    /\ Unwatched /\ SettlesOnce /\ SeenIsDelivered /\ AccusedIffBroken
-----------------------------------------------------------------------------
\* Lemmas about the operators.

LEMMA QueueType ==
    ASSUME test \in TestNames
    PROVE  \A s \in Sources : queue(s) \in Seq(Words) /\ Len(queue(s)) \in Nat
<1>1. Queue \in [TestNames -> [Sources -> Seq(Words)]] BY XbarAssumption
<1>2. ASSUME NEW s \in Sources PROVE queue(s) \in Seq(Words)
  BY <1>1 DEF queue
<1>3. ASSUME NEW s \in Sources PROVE Len(queue(s)) \in Nat
  <2>1. queue(s) \in Seq(Words) BY <1>2
  <2> QED BY <2>1
<1> QED BY <1>2, <1>3

\* A source that goes on is within its queue.  One that is halted with a beat
\* on offer returns, one that has returned stays away, and one that waits with
\* the same beat has not offered it.
LEMMA ResumeCases ==
    ASSUME NEW s \in Sources, NEW s_ready, NEW pausing, TypeOK, Placed
    PROVE  LET r == Resume(s, s_ready, pausing)
               p == NextPos(s, s_ready)
           IN  /\ r \in Phases /\ p \in Nat
               /\ r \in {"gap", "offer"} => p \in 1 .. Len(queue(s))
               /\ r = "align" => p >= 1
               /\ Offering(s) /\ halt => r = "done"
               /\ phase[s] = "done" => r = "done"
               /\ r \in {"gap", "align"} /\ p = pos[s] => ~Offering(s)
<1> DEFINE L == Len(queue(s))
           p == NextPos(s, s_ready)
<1>1. /\ phase[s] \in Phases /\ pos[s] \in Nat /\ L \in Nat
      /\ phase[s] \in {"gap", "offer"} => pos[s] \in 1 .. L
  BY QueueType DEF TypeOK, Placed
<1>2. CASE Accepted(s, s_ready)
  <2>1. p = pos[s] + 1 BY <1>2 DEF NextPos
  <2>2. Offering(s) /\ ~halt BY <1>2 DEF Accepted
  <2>3. p \in Nat /\ p >= 1 /\ p # pos[s] BY <1>1, <2>1
  <2>4. Resume(s, s_ready, pausing) \in
           {"align", IF p > L THEN "done" ELSE IF s \in pausing THEN "gap" ELSE "offer"}
    BY <1>2, <2>2 DEF Resume, Present
  <2> HIDE DEF p, L
  <2> QED BY <1>1, <2>2, <2>3, <2>4 DEF Offering, Phases, L, p
<1>3. CASE ~Accepted(s, s_ready) /\ phase[s] = "align"
  <2>1. p = pos[s] BY <1>3 DEF NextPos
  <2>2. pos[s] >= 1 BY <1>3 DEF Placed
  <2> QED BY <1>1, <1>3, <2>1, <2>2 DEF Resume, Present, Offering, Phases
<1>4. CASE ~Accepted(s, s_ready) /\ phase[s] # "align"
  <2>1. p = pos[s] BY <1>4 DEF NextPos
  <2> QED BY <1>1, <1>4, <2>1 DEF Resume, Offering, Phases
<1> QED BY <1>2, <1>3, <1>4

LEMMA OutputsType ==
    ASSUME NEW words, NEW out \in Outputs(words)
    PROVE  out \in [Sinks -> Words \union {None}]
BY DEF Outputs

\* A record stays one of beats.
LEMMA RecordType ==
    ASSUME NEW log \in [Sinks -> Seq(Words)], NEW out \in [Sinks -> Words \union {None}],
           NEW m_ready
    PROVE  Record(log, out, m_ready) \in [Sinks -> Seq(Words)]
<1>1. ASSUME NEW d \in Sinks, out[d] # None
      PROVE  Append(log[d], out[d]) \in Seq(Words)
  <2>1. out[d] \in Words BY <1>1
  <2>2. log[d] \in Seq(Words) OBVIOUS
  <2> QED BY <2>1, <2>2
<1> QED BY <1>1 DEF Record

LEMMA UntakenType ==
    ASSUME NEW out \in [Sinks -> Words \union {None}], NEW m_ready
    PROVE  Untaken(out, m_ready) \in [Sinks -> Words \union {None}]
BY DEF Untaken

\* The dictionary of protocol() holds what waits and nothing else.
LEMMA HeldIsUntaken ==
    ASSUME NEW out \in [Sinks -> Words \union {None}], NEW m_ready, protocol(out, m_ready)
    PROVE  held' = Untaken(out, m_ready)
<1> DEFINE offered   == {d \in Sinks : out[d] # None}
           corrected == [d \in Sinks |-> IF held[d] # None THEN out[d] ELSE None]
<1>1. held' = [d \in Sinks |->
                  IF d \in offered \ m_ready /\ corrected[d] = None THEN out[d]
                  ELSE IF d \in offered \intersect m_ready THEN None
                  ELSE corrected[d]]
  BY DEF protocol
<1>2. ASSUME NEW d \in Sinks
      PROVE  held'[d] = IF d \in m_ready THEN None ELSE out[d]
  <2>1. corrected[d] = IF held[d] # None THEN out[d] ELSE None OBVIOUS
  <2>2. d \in offered <=> out[d] # None OBVIOUS
  <2> HIDE DEF offered, corrected
  <2> QED BY <1>1, <2>1, <2>2
<1> HIDE DEF offered, corrected
<1> QED BY <1>1, <1>2 DEF Untaken
-----------------------------------------------------------------------------
\* The beats the sources have not been relieved of are those they offer.
LEMMA ClockSources ==
    ASSUME NEW s_ready, NEW sampled, NEW out, NEW m_ready,
           TypeOK, Placed, OnBus, InOrder, Recorded,
           source(sampled), Observe(s_ready, out, m_ready),
           s_ready \subseteq {s \in Sources : bus[s] # None},
           sampled \in {s_ready, {}},
           sampled # s_ready => "unread" \notin disturbed /\ "unread" \in disturbed',
           disturbed \subseteq disturbed',
           test' = test,
           halt => stage' = "halting"
    PROVE  /\ phase' \in [Sources -> Phases] /\ pos' \in [Sources -> Nat]
           /\ bus' \in [Sources -> Words \union {None}]
           /\ sent' \in [Sources -> Seq(Words)] /\ taken' \in [Sources -> Seq(Words)]
           /\ \A s \in Sources : phase'[s] \in {"gap", "offer"}
                                    => pos'[s] \in 1 .. Len(queue(s))
           /\ \A s \in Sources : phase'[s] = "align" => pos'[s] >= 1
           /\ OnBus' /\ InOrder' /\ Recorded'
<1>1. PICK pausing : phase' = [s \in Sources |-> Resume(s, sampled, pausing)]
  BY DEF source
<1>2. /\ pos' = [s \in Sources |-> NextPos(s, sampled)]
      /\ sent' = [s \in Sources |-> IF Accepted(s, sampled)
                                    THEN Append(sent[s], queue(s)[pos[s]]) ELSE sent[s]]
      /\ taken' = [s \in Sources |-> IF s \in s_ready
                                     THEN Append(taken[s], bus[s]) ELSE taken[s]]
      /\ bus' = [s \in Sources |-> IF phase'[s] = "offer" THEN queue(s)[pos'[s]]
                                   ELSE IF pos'[s] # pos[s] \/ phase'[s] = "done" THEN None
                                   ELSE bus[s]]
  BY DEF source, Observe, drive
<1>3. ASSUME NEW s \in Sources
      PROVE  /\ phase'[s] \in Phases /\ pos'[s] \in Nat
             /\ phase'[s] \in {"gap", "offer"} => pos'[s] \in 1 .. Len(queue(s))
             /\ phase'[s] = "align" => pos'[s] >= 1
             /\ Offering(s) /\ halt => phase'[s] = "done"
             /\ phase[s] = "done" => phase'[s] = "done"
             /\ phase'[s] \in {"gap", "align"} /\ pos'[s] = pos[s] => ~Offering(s)
  <2>1. phase'[s] = Resume(s, sampled, pausing) /\ pos'[s] = NextPos(s, sampled)
    BY <1>1, <1>2
  <2> QED BY <2>1, ResumeCases
<1>4. ASSUME NEW s \in Sources
      PROVE  /\ sent[s] \in Seq(Words) /\ taken[s] \in Seq(Words) /\ pos[s] \in Nat
             /\ queue(s) \in Seq(Words) /\ Len(queue(s)) \in Nat
             /\ queue(s)' = queue(s)
  BY QueueType DEF TypeOK, queue
<1>5. ASSUME NEW s \in Sources, Offering(s)
      PROVE  /\ pos[s] \in 1 .. Len(queue(s)) /\ queue(s)[pos[s]] \in Words
             /\ bus[s] = queue(s)[pos[s]]
  <2>1. pos[s] \in 1 .. Len(queue(s)) BY <1>5 DEF Placed, Offering
  <2> QED BY <1>4, <1>5, <2>1 DEF OnBus
<1>6. ASSUME NEW s \in Sources, s \in s_ready PROVE Offering(s)
  BY <1>6 DEF OnBus
<1>7. ASSUME NEW s \in Sources
      PROVE  /\ bus'[s] \in Words \union {None}
             /\ bus'[s] = IF phase'[s] = "offer" THEN queue(s)[pos'[s]] ELSE None
  <2>1. CASE phase'[s] = "offer"
    <3>1. pos'[s] \in 1 .. Len(queue(s)) BY <1>3, <2>1
    <3>2. queue(s)[pos'[s]] \in Words BY <1>4, <3>1
    <3> QED BY <1>2, <2>1, <3>2
  <2>2. CASE phase'[s] # "offer" /\ (pos'[s] # pos[s] \/ phase'[s] = "done")
    BY <1>2, <2>2
  <2>3. CASE phase'[s] # "offer" /\ pos'[s] = pos[s] /\ phase'[s] # "done"
    <3>1. phase'[s] \in {"gap", "align"} BY <1>3, <2>3 DEF Phases
    <3>2. bus[s] = None BY <1>3, <2>3, <3>1 DEF OnBus
    <3> QED BY <1>2, <2>3, <3>2
  <2> QED BY <2>1, <2>2, <2>3
<1>8. ASSUME NEW s \in Sources
      PROVE  /\ sent'[s] \in Seq(Words)
             /\ Len(sent'[s]) = pos'[s] - 1 /\ Len(sent'[s]) <= Len(queue(s))
             /\ \A i \in 1 .. Len(sent'[s]) : sent'[s][i] = queue(s)[i]
  <2>1. CASE Accepted(s, sampled)
    <3>1. Offering(s) BY <2>1 DEF Accepted
    <3>2. sent'[s] = Append(sent[s], queue(s)[pos[s]]) /\ pos'[s] = pos[s] + 1
      BY <1>2, <2>1 DEF NextPos
    <3>3. Len(sent[s]) = pos[s] - 1 /\ \A i \in 1 .. Len(sent[s]) : sent[s][i] = queue(s)[i]
      BY DEF InOrder
    <3> QED BY <1>4, <1>5, <3>1, <3>2, <3>3
  <2>2. CASE ~Accepted(s, sampled)
    BY <1>2, <1>4, <2>2 DEF NextPos, InOrder
  <2> QED BY <2>1, <2>2
<1>9. ASSUME NEW s \in Sources
      PROVE  taken'[s] \in Seq(Words) /\ AllBut(LeftOut(s)', taken'[s], sent'[s])
  <2> DEFINE b == queue(s)[pos[s]]
             u == Times(1, "unread" \in disturbed)
             v == Times(1, "unread" \in disturbed')
             h == Times(1, stage' = "halting" /\ phase'[s] = "done")
  <2>1. /\ u \in Nat /\ v \in Nat /\ u <= v /\ h \in Nat
        /\ LeftOut(s)' = h + v /\ LeftOut(s) \in Nat
        /\ sampled # s_ready => u = 0 /\ v = 1
        /\ stage' = "halting" /\ phase'[s] = "done" => h = 1
    BY DEF Times, LeftOut
  <2>2. AllBut(LeftOut(s), taken[s], sent[s]) BY DEF Recorded
  <2>3. Offering(s) => LeftOut(s) = u BY DEF LeftOut, Offering, Times
  <2>4. /\ sent'[s] = IF Accepted(s, sampled) THEN Append(sent[s], b) ELSE sent[s]
        /\ taken'[s] = IF s \in s_ready THEN Append(taken[s], b) ELSE taken[s]
    BY <1>2, <1>5, <1>6
  <2>5. Offering(s) => b \in Words BY <1>5
  <2>6. h + v \in Nat /\ u <= h + v BY <2>1
  <2> HIDE DEF b, u, v, h
  <2>7. CASE s \in s_ready /\ Accepted(s, sampled)
    <3>1. AllBut(u, Append(taken[s], b), Append(sent[s], b))
      BY <1>4, <1>6, <2>1, <2>2, <2>3, <2>5, <2>7, AllButBoth
    <3>2. Append(taken[s], b) \in Seq(Words) BY <1>4, <1>6, <2>5, <2>7
    <3>3. AllBut(h + v, Append(taken[s], b), Append(sent[s], b))
      BY <2>1, <2>6, <3>1, <3>2, AllButMore
    <3> QED BY <2>1, <2>4, <2>7, <3>2, <3>3
  <2>8. CASE s \in s_ready /\ ~Accepted(s, sampled)
    <3>1. Offering(s) BY <1>6, <2>8
    <3>2. u + 1 <= h + v
      <4>1. CASE halt
        <5>1. h = 1 BY <1>3, <2>1, <3>1, <4>1
        <5> QED BY <2>1, <5>1
      <4>2. CASE ~halt
        <5>1. s \notin sampled BY <2>8, <3>1, <4>2 DEF Accepted
        <5>2. sampled # s_ready BY <2>8, <5>1
        <5> QED BY <2>1, <5>2
      <4> QED BY <4>1, <4>2
    <3>3. Append(taken[s], b) \in Seq(Words) BY <1>4, <2>5, <3>1
    <3>4. AllBut(u + 1, Append(taken[s], b), sent[s])
      BY <1>4, <2>1, <2>2, <2>3, <2>5, <3>1, AllButOne
    <3>5. u + 1 \in Nat BY <2>1
    <3>6. AllBut(h + v, Append(taken[s], b), sent[s])
      BY <2>6, <3>2, <3>3, <3>4, <3>5, AllButMore
    <3> QED BY <2>1, <2>4, <2>8, <3>3, <3>6
  <2>9. CASE s \notin s_ready
    <3>1. ~Accepted(s, sampled) BY <2>9 DEF Accepted
    <3>2. LeftOut(s) <= h + v
      <4>1. CASE stage = "halting" /\ phase[s] = "done"
        <5>1. h = 1 BY <1>3, <2>1, <4>1 DEF halt
        <5>2. LeftOut(s) = 1 + u BY <4>1 DEF LeftOut, Times, u
        <5> QED BY <2>1, <5>1, <5>2
      <4>2. CASE ~(stage = "halting" /\ phase[s] = "done")
        <5>1. LeftOut(s) = u BY <2>1, <4>2 DEF LeftOut, Times, u
        <5> QED BY <2>6, <5>1
      <4> QED BY <4>1, <4>2
    <3>3. AllBut(h + v, taken[s], sent[s])
      BY <1>4, <2>1, <2>2, <2>6, <3>2, AllButMore
    <3> QED BY <1>4, <2>1, <2>4, <2>9, <3>1, <3>3
  <2> QED BY <2>7, <2>8, <2>9
<1>10. phase' \in [Sources -> Phases] /\ pos' \in [Sources -> Nat]
  BY <1>1, <1>2, <1>3
<1>11. sent' \in [Sources -> Seq(Words)] /\ taken' \in [Sources -> Seq(Words)]
  BY <1>2, <1>8, <1>9
<1>12. bus' \in [Sources -> Words \union {None}] BY <1>2, <1>7
<1>13. OnBus' BY <1>4, <1>7 DEF OnBus, Offering
<1>14. InOrder' BY <1>4, <1>8 DEF InOrder
<1>15. Recorded' BY <1>9 DEF Recorded
<1> QED BY <1>3, <1>10, <1>11, <1>12, <1>13, <1>14, <1>15

\* Of what a sink is given the monitors miss what is left out of their record
\* in a cycle they cannot read, and what they take to be held back.
LEMMA SeenStep ==
    ASSUME NEW d \in Sinks, NEW out \in [Sinks -> Words \union {None}],
           NEW m_ready, NEW m,
           TypeOK, SeenIsDelivered,
           delivered' = Record(delivered, out, m),
           blind_cycles \in BOOLEAN, blind_cycles' \in BOOLEAN,
           disturbed \subseteq disturbed',
           \/ /\ seen' = Record(seen, out, m_ready) /\ blind_cycles' = blind_cycles
              /\ \/ m_ready = m
                 \/ /\ m_ready \subseteq m
                    /\ "midcycle" \in disturbed' /\ "midcycle" \notin disturbed
           \/ seen' = seen /\ blind_cycles' = TRUE
    PROVE  AllBut(Unseen(d)', delivered'[d], seen'[d])
<1> DEFINE q == delivered[d]
           r == seen[d]
           n == Unseen(d)
           x == out[d]
<1>1. q \in Seq(Words) /\ r \in Seq(Words) /\ Len(q) \in Nat
  <2>1. q \in Seq(Words) /\ r \in Seq(Words) BY DEF TypeOK
  <2> HIDE DEF q, r
  <2> QED BY <2>1
<1>2. n \in Nat /\ AllBut(n, q, r)
  BY <1>1 DEF SeenIsDelivered, Unseen, Times
<1>3. delivered'[d] = IF x # None /\ d \in m THEN Append(q, x) ELSE q
  BY DEF Record
<1>4. x # None => x \in Words OBVIOUS
<1>5. delivered'[d] \in Seq(Words) /\ Len(delivered'[d]) \in Nat
  <2>1. delivered'[d] \in Seq(Words) BY <1>1, <1>3, <1>4
  <2> HIDE DEF q, x
  <2> QED BY <2>1
<1>6. blind_cycles' => Unseen(d)' = Len(delivered'[d]) BY DEF Unseen
<1>7. ~blind_cycles' =>
         /\ ~blind_cycles => Unseen(d)' \in Nat /\ n <= Unseen(d)'
         /\ ~blind_cycles /\ "midcycle" \in disturbed' /\ "midcycle" \notin disturbed
               => n + 1 <= Unseen(d)'
  BY DEF Unseen, Times
<1>8. ASSUME NEW k \in Nat, AllBut(k, delivered'[d], seen'[d]),
             ~blind_cycles' => Unseen(d)' \in Nat /\ k <= Unseen(d)'
      PROVE  AllBut(Unseen(d)', delivered'[d], seen'[d])
  <2>1. CASE blind_cycles' BY <1>5, <1>6, <1>8, <2>1, AllButAny
  <2>2. CASE ~blind_cycles' BY <1>5, <1>8, <2>2, AllButMore
  <2> QED BY <2>1, <2>2
<1>9. n + 1 \in Nat BY <1>2
<1>10. AllBut(n, Append(q, x), Append(r, x)) \/ x = None
  <2> HIDE DEF q, r, n, x
  <2> QED BY <1>1, <1>2, <1>4, AllButBoth
<1>11. AllBut(n + 1, Append(q, x), r) \/ x = None
  <2> HIDE DEF q, r, n, x
  <2> QED BY <1>1, <1>2, <1>4, AllButOne
<1>12. CASE /\ seen' = Record(seen, out, m_ready) /\ blind_cycles' = blind_cycles
            /\ \/ m_ready = m
               \/ /\ m_ready \subseteq m
                  /\ "midcycle" \in disturbed' /\ "midcycle" \notin disturbed
  <2>1. seen'[d] = IF x # None /\ d \in m_ready THEN Append(r, x) ELSE r
    BY <1>12 DEF Record
  <2> HIDE DEF q, r, n, x
  <2>2. CASE d \in m_ready <=> d \in m
    <3>1. AllBut(n, delivered'[d], seen'[d]) BY <1>2, <1>3, <1>10, <2>1, <2>2
    <3> QED BY <1>2, <1>7, <1>8, <1>12, <3>1
  <2>3. CASE ~(d \in m_ready <=> d \in m)
    <3>1. /\ d \in m /\ d \notin m_ready
          /\ "midcycle" \in disturbed' /\ "midcycle" \notin disturbed
      BY <1>12, <2>3
    <3>2. CASE x = None
      <4>1. AllBut(n, delivered'[d], seen'[d]) BY <1>2, <1>3, <2>1, <3>2
      <4> QED BY <1>2, <1>7, <1>8, <1>12, <4>1
    <3>3. CASE x # None
      <4>1. AllBut(n + 1, delivered'[d], seen'[d]) BY <1>3, <1>11, <2>1, <3>1, <3>3
      <4> QED BY <1>7, <1>8, <1>9, <1>12, <3>1, <4>1
    <3> QED BY <3>2, <3>3
  <2> QED BY <2>2, <2>3
<1>13. CASE seen' = seen /\ blind_cycles' = TRUE
  <2>1. seen'[d] = r BY <1>13
  <2> HIDE DEF q, r, n, x
  <2>2. AllBut(n, delivered'[d], seen'[d]) \/ AllBut(n + 1, delivered'[d], seen'[d])
    BY <1>2, <1>3, <1>11, <2>1
  <2> QED BY <1>2, <1>8, <1>9, <1>13, <2>2
<1> QED BY <1>12, <1>13

\* What the monitors see is what happens, unless they do not look or look at
\* another m_ready.
LEMMA ClockSinks ==
    ASSUME NEW s_ready, NEW out \in [Sinks -> Words \union {None}],
           NEW m_ready \in SUBSET Sinks,
           TypeOK, SettlesOnce, SeenIsDelivered, AccusedIffBroken,
           Watch(out, m_ready), Observe(s_ready, out, AtEdge(m_ready)),
           disturbed \subseteq disturbed',
           m_ready # AtEdge(m_ready) => "midcycle" \in disturbed'
    PROVE  /\ seen' \in [Sinks -> Seq(Words)] /\ delivered' \in [Sinks -> Seq(Words)]
           /\ held' \in [Sinks -> Words \union {None}]
           /\ waiting' \in [Sinks -> Words \union {None}]
           /\ protocol_errors' \in BOOLEAN /\ broken' \in BOOLEAN
           /\ outranked' \in BOOLEAN /\ offered_while_blocked' \in BOOLEAN /\ blind_cycles' \in BOOLEAN
           /\ SeenIsDelivered' /\ AccusedIffBroken'
<1> DEFINE m == AtEdge(m_ready)
           wrong(h) == \E d \in Sinks : h[d] # None /\ out[d] # h[d]
<1>1. /\ delivered' = Record(delivered, out, m) /\ waiting' = Untaken(out, m)
      /\ broken' = (broken \/ wrong(waiting))
  BY DEF Observe
<1>2. /\ delivered' \in [Sinks -> Seq(Words)]
      /\ waiting' \in [Sinks -> Words \union {None}]
      /\ broken' \in BOOLEAN /\ outranked' \in BOOLEAN
  <2>0. outranked \in BOOLEAN /\ outranked' \in BOOLEAN
    BY DEF TypeOK, Observe
  <2>1. delivered \in [Sinks -> Seq(Words)] /\ broken \in BOOLEAN BY DEF TypeOK
  <2> HIDE DEF m
  <2> QED BY <1>1, <2>0, <2>1, RecordType, UntakenType
<1>3. m_ready = m \/ /\ m_ready \subseteq m
                     /\ "midcycle" \in disturbed' /\ "midcycle" \notin disturbed
  BY DEF AtEdge, SettlesOnce
<1>4. CASE sinks(out, m_ready) /\ protocol(out, m_ready) /\ UNCHANGED blind_cycles
  <2>1. /\ seen' = Record(seen, out, m_ready)
        /\ protocol_errors' = (protocol_errors \/ wrong(held))
        /\ blind_cycles' = blind_cycles
    BY <1>4 DEF sinks, protocol
  <2>2. offered_while_blocked' \in BOOLEAN BY <1>4 DEF protocol, TypeOK
  <2>3. seen \in [Sinks -> Seq(Words)] /\ blind_cycles \in BOOLEAN
        /\ protocol_errors \in BOOLEAN
    BY DEF TypeOK
  <2>4. held' = Untaken(out, m_ready) BY <1>4, HeldIsUntaken
  <2>5. seen' \in [Sinks -> Seq(Words)] /\ held' \in [Sinks -> Words \union {None}]
    BY <2>1, <2>3, <2>4, RecordType, UntakenType
  <2>6. protocol_errors' \in BOOLEAN /\ blind_cycles' \in BOOLEAN BY <2>1, <2>3
  <2>7. SeenIsDelivered'
    <3> HIDE DEF m, wrong
    <3>1. \A d \in Sinks : AllBut(Unseen(d)', delivered'[d], seen'[d])
      BY <1>1, <1>3, <2>1, <2>3, <2>6, SeenStep
    <3> QED BY <3>1 DEF SeenIsDelivered, Unseen
  <2>8. AccusedIffBroken'
    <3>1. CASE blind_cycles \/ "midcycle" \in disturbed'
      BY <2>1, <3>1 DEF AccusedIffBroken
    <3>2. CASE ~blind_cycles /\ "midcycle" \notin disturbed'
      <4> HIDE DEF m, wrong
      <4>1. protocol_errors = broken /\ held = waiting
        BY <3>2 DEF AccusedIffBroken
      <4> QED BY <1>1, <1>3, <2>1, <2>4, <3>2, <4>1 DEF AccusedIffBroken
    <3> QED BY <3>1, <3>2
  <2> QED BY <1>2, <2>2, <2>5, <2>6, <2>7, <2>8
<1>5. CASE blind_cycles' = TRUE /\ UNCHANGED <<seen, held, protocol_errors, offered_while_blocked>>
  <2>1. SeenIsDelivered'
    <3>0. blind_cycles \in BOOLEAN /\ blind_cycles' \in BOOLEAN BY <1>5 DEF TypeOK
    <3> HIDE DEF m, wrong
    <3>1. \A d \in Sinks : AllBut(Unseen(d)', delivered'[d], seen'[d])
      BY <1>1, <1>5, <3>0, SeenStep
    <3> QED BY <3>1 DEF SeenIsDelivered, Unseen
  <2> QED BY <1>2, <1>5, <2>1 DEF TypeOK, AccusedIffBroken
<1> QED BY <1>4, <1>5 DEF Watch

\* The parts of the invariant a monitored cycle disturbs.
LEMMA ClockStep ==
    ASSUME IInv, Clock, halt => stage' = "halting",
           stage \in {"settle", "drain"} => stage' = "drain",
           stage' \in Stages \ {"reset", "release"}, test' = test,
           left' \in Nat, verdict' \in {"none", "pass", "fail", "stopped"}
    PROVE  IInv'
<1>0. PICK s_ready \in SUBSET {s \in Sources : bus[s] # None},
           m_ready \in Driven, out \in Outputs(Offers[test]) :
         \E sampled \in {s_ready, {}} :
            /\ sampled # s_ready => test \in Unreadable /\ "unread" \notin disturbed
            /\ Observe(s_ready, out, AtEdge(m_ready))
            /\ WithinMaxSeen
            /\ Watch(out, m_ready)
            /\ source(sampled)
            /\ disturbed' = disturbed
                 \union {x \in {"unread"} : sampled # s_ready}
                 \union {x \in {"midcycle"} : m_ready # AtEdge(m_ready)}
                 \union {x \in {"raced"} : stage = "drain" /\ left = 0 /\ taken' # taken}
  BY DEF Clock
<1>1. PICK sampled \in {s_ready, {}} :
         /\ sampled # s_ready => test \in Unreadable /\ "unread" \notin disturbed
         /\ Observe(s_ready, out, AtEdge(m_ready))
         /\ WithinMaxSeen
         /\ Watch(out, m_ready)
         /\ source(sampled)
         /\ disturbed' = disturbed
              \union {x \in {"unread"} : sampled # s_ready}
              \union {x \in {"midcycle"} : m_ready # AtEdge(m_ready)}
              \union {x \in {"raced"} : stage = "drain" /\ left = 0 /\ taken' # taken}
  BY <1>0
<1>2. /\ TypeOK /\ Placed /\ OnBus /\ InOrder /\ Recorded
      /\ SettlesOnce /\ SeenIsDelivered /\ AccusedIffBroken
  BY DEF IInv
<1>3. /\ disturbed \subseteq disturbed'
      /\ m_ready # AtEdge(m_ready) => "midcycle" \in disturbed'
      /\ sampled # s_ready => "unread" \in disturbed'
      /\ disturbed' \subseteq {"unread", "midcycle", "raced", "slipped"}
      /\ "midcycle" \in disturbed' => "midcycle" \in disturbed \/ m_ready # AtEdge(m_ready)
  BY <1>1, <1>2 DEF TypeOK
<1>4. /\ phase' \in [Sources -> Phases] /\ pos' \in [Sources -> Nat]
      /\ bus' \in [Sources -> Words \union {None}]
      /\ sent' \in [Sources -> Seq(Words)] /\ taken' \in [Sources -> Seq(Words)]
      /\ \A s \in Sources : phase'[s] \in {"gap", "offer"}
                               => pos'[s] \in 1 .. Len(queue(s))
      /\ \A s \in Sources : phase'[s] = "align" => pos'[s] >= 1
      /\ OnBus' /\ InOrder' /\ Recorded'
  <2> DEFINE m == AtEdge(m_ready)
  <2>1. /\ Observe(s_ready, out, m) /\ source(sampled)
        /\ s_ready \subseteq {s \in Sources : bus[s] # None}
        /\ sampled \in {s_ready, {}}
        /\ sampled # s_ready => "unread" \notin disturbed /\ "unread" \in disturbed'
    BY <1>1, <1>3
  <2> HIDE DEF m
  <2> QED BY <1>2, <1>3, <2>1, ClockSources
<1>5. m_ready \in SUBSET Sinks BY DEF Driven
<1>6. /\ seen' \in [Sinks -> Seq(Words)] /\ delivered' \in [Sinks -> Seq(Words)]
      /\ held' \in [Sinks -> Words \union {None}]
      /\ waiting' \in [Sinks -> Words \union {None}]
      /\ protocol_errors' \in BOOLEAN /\ broken' \in BOOLEAN
      /\ outranked' \in BOOLEAN /\ offered_while_blocked' \in BOOLEAN /\ blind_cycles' \in BOOLEAN
      /\ SeenIsDelivered' /\ AccusedIffBroken'
  <2>1. out \in [Sinks -> Words \union {None}] BY OutputsType
  <2> QED BY <1>1, <1>2, <1>3, <1>5, <2>1, ClockSinks
<1>7. TypeOK' BY <1>2, <1>3, <1>4, <1>6 DEF TypeOK
<1>8. Placed'
  <2>1. \A s \in Sources : queue(s)' = queue(s) BY DEF queue
  <2> QED BY <1>4, <2>1 DEF Placed
<1>9. Unwatched' BY DEF Unwatched
<1>10. SettlesOnce'
  <2>1. m_ready # AtEdge(m_ready) => stage = "settle" BY DEF AtEdge
  <2> QED BY <1>2, <1>3, <2>1 DEF SettlesOnce
<1> QED BY <1>4, <1>6, <1>7, <1>8, <1>9, <1>10 DEF IInv

\* A source that starts has a beat to offer, or is done, or waits for an edge.
LEMMA StartType ==
    ASSUME NEW s \in Sources, test \in TestNames, NEW x \in Start(s)
    PROVE  x \in Phases /\ (x \in {"gap", "offer"} => 1 \in 1 .. Len(queue(s)))
<1>1. queue(s) \in Seq(Words) BY QueueType
<1>2. queue(s) # <<>> => Len(queue(s)) \in Nat /\ 1 <= Len(queue(s))
  BY <1>1
<1>3. x \in {"align", "done", "offer", "gap"} BY DEF Start
<1>4. queue(s) = <<>> => x \in {"align", "done"} BY DEF Start
<1> QED BY <1>2, <1>3, <1>4 DEF Phases
-----------------------------------------------------------------------------
\* The invariant.

\* Where nothing has been sent or seen the records are true, whatever else.
LEMMA NothingYet ==
    ASSUME test \in TestNames,
           phase = [s \in Sources |-> "done"], bus = NothingSent,
           pos = [s \in Sources |-> 1], stage \in {"reset", "release"},
           stage = "release" => left = 1,
           sent = NoBeats, taken = NoBeats,
           seen = NothingSeen, delivered = NothingSeen,
           held = waiting, protocol_errors = broken, disturbed = {}
    PROVE  /\ Placed /\ OnBus /\ InOrder /\ Recorded
           /\ Unwatched /\ SettlesOnce /\ SeenIsDelivered /\ AccusedIffBroken
<1>0. <<>> \in Seq(Words) /\ Len(<<>>) = 0 OBVIOUS
<1>1. Placed BY DEF Placed
<1>2. OnBus BY DEF OnBus, Offering, NothingSent
<1>3. InOrder
  <2>1. \A s \in Sources : sent[s] = <<>> /\ pos[s] = 1 /\ Len(queue(s)) \in Nat
    BY QueueType DEF NoBeats
  <2> QED BY <1>0, <2>1 DEF InOrder
<1>4. Recorded
  <2>1. ASSUME NEW s \in Sources PROVE AllBut(LeftOut(s), taken[s], sent[s])
    <3>1. LeftOut(s) = 0 BY DEF LeftOut, Times
    <3>2. taken[s] = <<>> /\ sent[s] = <<>> BY DEF NoBeats
    <3> QED BY <1>0, <3>1, <3>2, AllButNone
  <2> QED BY <2>1 DEF Recorded
<1>5. \A d \in Sinks : delivered[d] = <<>> /\ seen[d] = <<>> BY DEF NothingSeen
<1>6. SeenIsDelivered
  <2>1. ASSUME NEW d \in Sinks PROVE AllBut(Unseen(d), delivered[d], seen[d])
    <3>1. Unseen(d) = 0 BY <1>0, <1>5 DEF Unseen, Times
    <3> QED BY <1>0, <1>5, <3>1, AllButNone
  <2> QED BY <2>1 DEF SeenIsDelivered, Unseen
<1>7. Unwatched BY <1>0, <1>5 DEF Unwatched
<1>8. SettlesOnce /\ AccusedIffBroken BY DEF SettlesOnce, AccusedIffBroken
<1> QED BY <1>1, <1>2, <1>3, <1>4, <1>6, <1>7, <1>8

THEOREM InitIInv == Init => IInv
<1> SUFFICES ASSUME Init PROVE IInv OBVIOUS
<1>1. test \in TestNames BY XbarAssumption DEF Init
<1>2. <<>> \in Seq(Words) OBVIOUS
<1>3. /\ phase = [s \in Sources |-> "done"] /\ bus = NothingSent
      /\ pos = [s \in Sources |-> 1] /\ stage = "release" /\ left = 1
      /\ sent = NoBeats /\ taken = NoBeats
      /\ seen = NothingSeen /\ delivered = NothingSeen
      /\ held = Quiet /\ waiting = Quiet /\ disturbed = {}
      /\ protocol_errors = FALSE /\ broken = FALSE /\ outranked = TRUE
      /\ offered_while_blocked = FALSE /\ blind_cycles = FALSE /\ verdict = "none"
  BY DEF Init
<1>4. TypeOK
  BY <1>1, <1>2, <1>3
     DEF TypeOK, Stages, Phases, NothingSent, NoBeats, NothingSeen, Quiet
<1> QED BY <1>1, <1>3, <1>4, NothingYet DEF IInv

\* At an edge no monitor sees, a sink is given a beat at most, and what is
\* delivered is all that the record lacks.
LEMMA ReleaseStep == IInv /\ Release => IInv'
<1> SUFFICES ASSUME IInv, Release PROVE IInv' OBVIOUS
<1>1. PICK out \in Outputs(Stale[test]) :
         /\ delivered' = Record(delivered, out, Sinks)
         /\ disturbed' = disturbed \union {x \in {"slipped"} : out # Quiet}
  BY DEF Release
<1>2. stage = "release" /\ verdict' = verdict /\ test' = test
  BY DEF Release, Stay, Goto
<1>3. UNCHANGED <<pos, sent, monitors, taken, waiting, broken, outranked>>
  BY DEF Release
<1>4. /\ TypeOK /\ Placed /\ OnBus /\ InOrder /\ Recorded
      /\ Unwatched /\ SettlesOnce /\ SeenIsDelivered /\ AccusedIffBroken
  BY DEF IInv
<1>5. out \in [Sinks -> Words \union {None}] BY OutputsType
<1>6. delivered' \in [Sinks -> Seq(Words)]
      /\ disturbed' \subseteq {"unread", "midcycle", "raced", "slipped"}
  BY <1>1, <1>4, <1>5, RecordType DEF TypeOK
<1>7. /\ pos = [s \in Sources |-> 1] /\ phase = [s \in Sources |-> "done"]
      /\ \A s \in Sources : bus[s] = None
  BY <1>2, <1>4 DEF Placed, OnBus, Offering
<1>8. /\ left' \in Nat
      /\ \/ /\ left > 0 /\ stage' = "release" /\ left' = left - 1
            /\ phase' = phase /\ bus' = bus
         \/ /\ stage' \in {"traffic", "busy"}
            /\ phase' \in [Sources -> Phases]
            /\ \A s \in Sources : phase'[s] \in Start(s)
            /\ drive
  <2>1. left \in Nat BY <1>4 DEF TypeOK
  <2>2. CASE left > 0
    BY <1>2, <2>1, <2>2 DEF Release, Stay
  <2>3. CASE ~(left > 0)
    BY <2>3, XbarAssumption DEF Release, Goto
  <2> QED BY <2>2, <2>3
<1>9. ASSUME NEW s \in Sources
      PROVE  /\ phase'[s] \in {"gap", "offer"} => pos'[s] \in 1 .. Len(queue(s))
             /\ phase'[s] = "align" => pos'[s] >= 1
             /\ phase'[s] \in Phases
  <2>1. pos'[s] = 1 /\ test \in TestNames BY <1>3, <1>4, <1>7 DEF TypeOK
  <2>2. CASE phase' = phase BY <1>7, <2>1, <2>2 DEF Phases
  <2>3. CASE phase'[s] \in Start(s) BY <2>1, <2>3, StartType
  <2> QED BY <1>8, <2>2, <2>3
<1>10. ASSUME NEW s \in Sources
      PROVE  /\ bus'[s] \in Words \union {None}
             /\ bus'[s] = IF phase'[s] = "offer" THEN queue(s)[pos'[s]] ELSE None
  <2>1. CASE phase' = phase /\ bus' = bus BY <1>7, <2>1
  <2>2. CASE drive
    <3>1. bus'[s] = IF phase'[s] = "offer" THEN queue(s)[pos'[s]] ELSE None
      BY <1>3, <1>7, <2>2 DEF drive
    <3>2. phase'[s] = "offer" => queue(s)[pos'[s]] \in Words
      <4>1. queue(s) \in Seq(Words) BY <1>4, QueueType DEF TypeOK
      <4> QED BY <1>9, <4>1
    <3> QED BY <3>1, <3>2
  <2> QED BY <1>8, <2>1, <2>2
<1>11. bus' \in [Sources -> Words \union {None}]
  <2>1. DOMAIN bus' = Sources BY <1>4, <1>8 DEF TypeOK, drive
  <2>2. bus' = [s \in Sources |-> bus'[s]] BY <1>4, <1>8 DEF TypeOK, drive
  <2> QED BY <1>10, <2>2
<1>12. TypeOK'
  <2>1. stage' \in Stages /\ phase' \in [Sources -> Phases]
    BY <1>4, <1>8 DEF TypeOK, Stages
  <2> QED BY <1>2, <1>3, <1>4, <1>6, <1>8, <1>11, <2>1 DEF TypeOK, monitors
<1>13. \A s \in Sources : queue(s)' = queue(s) BY <1>2 DEF queue
<1>14. Placed'
  <2>1. stage' \in {"reset", "release"} => phase' = phase BY <1>8
  <2> QED BY <1>3, <1>7, <1>9, <1>13, <2>1 DEF Placed
<1>15. OnBus' BY <1>10, <1>13 DEF OnBus, Offering
<1>16. InOrder' BY <1>3, <1>4, <1>13 DEF InOrder
<1>17. Recorded'
  <2>1. ASSUME NEW s \in Sources PROVE AllBut(LeftOut(s)', taken'[s], sent'[s])
    <3>1. LeftOut(s)' = LeftOut(s)
      BY <1>1, <1>2, <1>8 DEF LeftOut, Times
    <3> QED BY <1>3, <1>4, <3>1 DEF Recorded
  <2> QED BY <2>1 DEF Recorded
<1>18. ASSUME NEW d \in Sinks
      PROVE  /\ seen'[d] = <<>> /\ delivered'[d] \in Seq(Words)
             /\ Len(delivered'[d]) \in Nat /\ Len(delivered'[d]) <= 2
             /\ delivered'[d] # <<>> => "slipped" \in disturbed'
             /\ left > 0 => Len(delivered'[d]) + (left - 1) <= 1
  <2>1. /\ seen[d] = <<>> /\ Len(delivered[d]) + left <= 1
        /\ delivered[d] # <<>> => "slipped" \in disturbed
    BY <1>2, <1>4 DEF Unwatched
  <2>2. delivered[d] \in Seq(Words) /\ left \in Nat BY <1>4 DEF TypeOK
  <2>3. Len(delivered[d]) \in Nat BY <2>2
  <2>4. delivered'[d] = IF out[d] # None THEN Append(delivered[d], out[d])
                        ELSE delivered[d]
    BY <1>1 DEF Record
  <2>5. CASE out[d] # None
    <3>1. out[d] \in Words BY <1>5, <2>5
    <3>2. out # Quiet BY <2>5 DEF Quiet
    <3>3. "slipped" \in disturbed' BY <1>1, <3>2
    <3>4. delivered'[d] = Append(delivered[d], out[d]) BY <2>4, <2>5
    <3>5. /\ delivered'[d] \in Seq(Words)
          /\ Len(delivered'[d]) = Len(delivered[d]) + 1
      BY <2>2, <3>1, <3>4
    <3> QED BY <1>3, <2>1, <2>2, <2>3, <3>3, <3>5 DEF monitors
  <2>6. CASE out[d] = None
    <3>1. delivered'[d] = delivered[d] BY <2>4, <2>6
    <3> QED BY <1>1, <1>3, <2>1, <2>2, <2>3, <3>1 DEF monitors
  <2> QED BY <2>5, <2>6
<1>19. Unwatched' BY <1>8, <1>18 DEF Unwatched
<1>20. SeenIsDelivered'
  <2>1. ASSUME NEW d \in Sinks PROVE AllBut(Unseen(d)', delivered'[d], seen'[d])
    <3>1. delivered'[d] = <<>> => Len(delivered'[d]) = 0 OBVIOUS
    <3>2. Unseen(d)' \in Nat /\ Len(delivered'[d]) <= Unseen(d)'
      BY <1>18, <3>1 DEF Unseen, Times
    <3> QED BY <1>18, <3>2, AllButEverything
  <2> QED BY <2>1 DEF SeenIsDelivered, Unseen
<1>21. SettlesOnce'
  <2>1. "midcycle" \notin disturbed BY <1>2, <1>4 DEF SettlesOnce
  <2> QED BY <1>1, <2>1 DEF SettlesOnce
<1>22. AccusedIffBroken'
  BY <1>1, <1>3, <1>4 DEF AccusedIffBroken, monitors
<1> QED BY <1>12, <1>14, <1>15, <1>16, <1>17, <1>19, <1>20, <1>21, <1>22 DEF IInv

\* A step that leaves the sources, the monitors and the observer alone.
LEMMA QuietStep ==
    ASSUME IInv, UNCHANGED <<sources, monitors, observer>>, test' = test,
           \/ stage' = stage
           \/ stage = "reset" /\ stage' = "release" /\ left' = 1,
           stage' = "release" /\ stage' = stage => left' = left,
           stage' \in Stages, left' \in Nat,
           verdict' \in {"none", "pass", "fail", "stopped"}
    PROVE  IInv'
<1>1. /\ UNCHANGED <<phase, pos, bus, sent>>
      /\ UNCHANGED <<seen, held, protocol_errors, offered_while_blocked, blind_cycles>>
      /\ UNCHANGED <<taken, delivered, waiting, broken, outranked, disturbed>>
  BY DEF sources, monitors, observer
<1>2. \A s \in Sources : queue(s)' = queue(s) BY DEF queue
<1>3. TypeOK' BY <1>1 DEF IInv, TypeOK
<1>4. Placed' /\ OnBus' /\ InOrder'
  BY <1>1, <1>2 DEF IInv, Placed, OnBus, Offering, InOrder
<1>5. Recorded'
  <2>1. \A s \in Sources : LeftOut(s)' = LeftOut(s) BY <1>1 DEF LeftOut, Times
  <2> QED BY <1>1, <2>1 DEF IInv, Recorded
<1>6. Unwatched' BY <1>1 DEF IInv, Unwatched
<1>7. SettlesOnce' BY <1>1 DEF IInv, SettlesOnce
<1>8. SeenIsDelivered' /\ AccusedIffBroken'
  BY <1>1 DEF IInv, SeenIsDelivered, AccusedIffBroken, Times
<1> QED BY <1>3, <1>4, <1>5, <1>6, <1>7, <1>8 DEF IInv

THEOREM NextIInv == IInv /\ [Next]_vars => IInv'
<1> SUFFICES ASSUME IInv, [Next]_vars PROVE IInv' OBVIOUS
<1> USE DEF Stages
<1>0. TypeOK BY DEF IInv
<1>1. CASE Traffic
  <2>1. Clock /\ ~halt /\ test' = test /\ verdict' = verdict /\ stage = "traffic"
    BY <1>1 DEF Traffic, halt, Stay, Goto
  <2>2. stage' \in {"traffic", "settle", "wait", "drain"} /\ left' \in Nat
    BY <1>0, <1>1, XbarAssumption DEF Traffic, Stay, Goto, TypeOK
  <2> QED BY <1>0, <2>1, <2>2, ClockStep DEF TypeOK
<1>2. CASE Settle
  BY <1>0, <1>2, XbarAssumption, ClockStep DEF Settle, Goto, halt, TypeOK
<1>3. CASE Wait
  <2>1. Clock /\ ~halt /\ test' = test /\ stage = "wait"
    BY <1>3 DEF Wait, halt, Stay, Goto, Ends
  <2>2. stage' \in {"wait", "drain"} /\ left' \in Nat /\ verdict' \in {verdict, "stopped"}
    BY <1>0, <1>3, XbarAssumption DEF Wait, Stay, Goto, Ends, TypeOK
  <2> QED BY <1>0, <2>1, <2>2, ClockStep DEF TypeOK
<1>4. CASE Drain
  <2>1. Clock /\ ~halt /\ test' = test BY <1>4 DEF Drain, halt, Stay, Ends
  <2>2. stage' = "drain" /\ left' \in Nat /\ verdict' \in {verdict, "pass", "fail"}
    <3>1. CASE left > 0 BY <1>0, <1>4, <3>1 DEF Drain, Stay, TypeOK
    <3>2. CASE ~(left > 0)
      <4>1. PICK late \in SUBSET Sources :
              LET snt == [s \in Sources |-> IF s \in late THEN sent[s] ELSE sent'[s]]
              IN  Ends(IF Passes(snt, seen') THEN "pass" ELSE "fail")
        BY <1>4, <3>2 DEF Drain
      <4>2. Ends("pass") \/ Ends("fail") BY <4>1
      <4> QED BY <1>0, <1>4, <4>2 DEF Drain, Ends, TypeOK
    <3> QED BY <3>1, <3>2
  <2> QED BY <1>0, <2>1, <2>2, ClockStep DEF TypeOK
<1>5. CASE Busy
  <2>1. Clock /\ test' = test /\ verdict' = verdict /\ stage = "busy"
    BY <1>5 DEF Busy, Stay, Goto
  <2>2. stage' \in {"busy", "halting"} /\ left' \in Nat /\ (halt => stage' = "halting")
    BY <1>0, <1>5, XbarAssumption DEF Busy, Stay, Goto, TypeOK, halt
  <2> QED BY <1>0, <2>1, <2>2, ClockStep DEF TypeOK
<1>6. CASE Halting
  <2>1. CASE left > 0
    BY <1>0, <1>6, <2>1, ClockStep DEF Halting, Stay, TypeOK
  <2>2. CASE ~(left > 0)
    <3>1. /\ test' = "recovered" /\ stage' = "reset" /\ left' \in Nat
          /\ phase' = [s \in Sources |-> "done"] /\ bus' = NothingSent
          /\ pos' = [s \in Sources |-> 1]
          /\ Harness /\ verdict' = verdict
      BY <1>6, <2>2, XbarAssumption DEF Halting
    <3>2. <<>> \in Seq(Words) OBVIOUS
    <3>3. TypeOK'
      BY <1>0, <3>1, <3>2
         DEF Harness, TypeOK, TestNames, Phases, NoBeats, NothingSent, NothingSeen, Quiet
    <3>4. /\ Placed' /\ OnBus' /\ InOrder' /\ Recorded'
          /\ Unwatched' /\ SettlesOnce' /\ SeenIsDelivered' /\ AccusedIffBroken'
      <4>1. /\ (sent = NoBeats)' /\ (taken = NoBeats)'
            /\ (seen = NothingSeen)' /\ (delivered = NothingSeen)'
            /\ (held = waiting)' /\ (protocol_errors = broken)' /\ (disturbed = {})'
            /\ (phase = [s \in Sources |-> "done"])' /\ (bus = NothingSent)'
            /\ (pos = [s \in Sources |-> 1])' /\ (test \in TestNames)'
            /\ (stage \in {"reset", "release"})' /\ (stage = "release" => left = 1)'
        BY <3>1 DEF Harness, TestNames, NoBeats, NothingSent, NothingSeen
      <4> QED BY <4>1, NothingYet, PTL
    <3> QED BY <3>3, <3>4 DEF IInv
  <2> QED BY <2>1, <2>2
<1>7. CASE ResetCycle
  <2>1. UNCHANGED <<sources, monitors, observer>> /\ test' = test /\ stage = "reset"
    BY <1>7 DEF ResetCycle, Stay, Goto, Ends
  <2>2. /\ \/ stage' = "reset" /\ left' \in Nat
           \/ stage' = "release" /\ left' = 1
        /\ verdict' \in {verdict, "stopped"}
    <3>1. left \in Nat BY <1>0 DEF TypeOK
    <3>2. left > 0 => left - 1 \in Nat BY <3>1
    <3>3. \/ IF left > 0 THEN Stay(left - 1) ELSE Goto("release", 1)
          \/ Ends("stopped")
      BY <1>7 DEF ResetCycle
    <3>4. CASE left > 0 BY <2>1, <3>1, <3>2, <3>3, <3>4 DEF Stay, Ends
    <3>5. CASE ~(left > 0) BY <2>1, <3>1, <3>3, <3>5 DEF Goto, Ends
    <3> QED BY <3>4, <3>5
  <2> QED BY <1>0, <2>1, <2>2, QuietStep DEF TypeOK
<1>8. CASE Release BY <1>8, ReleaseStep
<1>9. CASE GivesUp
  <2>1. /\ UNCHANGED <<sources, monitors, observer>>
        /\ UNCHANGED <<test, stage, left>> /\ verdict' = "stopped"
    BY <1>9 DEF GivesUp, Ends
  <2> QED BY <1>0, <2>1, QuietStep DEF TypeOK
<1>10. CASE UNCHANGED vars
  <2>1. /\ UNCHANGED <<sources, monitors, observer>>
        /\ UNCHANGED <<test, stage, left, verdict>>
    BY <1>10 DEF vars, main
  <2> QED BY <1>0, <2>1, QuietStep DEF TypeOK
<1> QED BY <1>1, <1>2, <1>3, <1>4, <1>5, <1>6, <1>7, <1>8, <1>9, <1>10 DEF Next, Script

THEOREM IInvHolds == Spec => []IInv
<1> QED BY InitIInv, NextIInv, PTL DEF Spec

\* Every variable keeps its type.
THEOREM TypesHold == Spec => []TypeOK
<1>1. IInv => TypeOK BY DEF IInv
<1> QED BY <1>1, IInvHolds, PTL

\* What is recorded as sent is the beginning of what there was to send, and
\* the crossbar took these beats, in this order, and no others but one of a
\* source that was halted and one taken while s_ready could not be read:
\* source()'s discipline of sampling s_ready before the edge and dropping
\* valid after it, for every crossbar.
THEOREM SentHolds == Spec => []SentIsTaken
<1>1. IInv => SentIsTaken
  <2> SUFFICES ASSUME IInv, NEW s \in Sources
               PROVE  AllBut(Times(1, stage = "halting") + Times(1, "unread" \in disturbed),
                             taken[s], sent[s])
    BY DEF IInv, InOrder, SentIsTaken
  <2> DEFINE n == Times(1, stage = "halting") + Times(1, "unread" \in disturbed)
  <2>1. taken[s] \in Seq(Words) /\ AllBut(LeftOut(s), taken[s], sent[s])
    BY DEF IInv, TypeOK, Recorded
  <2>2. n \in Nat /\ LeftOut(s) \in Nat /\ LeftOut(s) <= n BY DEF LeftOut, Times
  <2> HIDE DEF n
  <2>3. AllBut(n, taken[s], sent[s]) BY <2>1, <2>2, AllButMore
  <2> QED BY <2>3 DEF n
<1> QED BY <1>1, IInvHolds, PTL

\* sinks() records nothing that was not delivered, nothing out of its place,
\* and lacks of a sink at most the two beats of the edges before it runs and
\* one of the cycle in which m_ready moves, unless there are cycles in which
\* it cannot read the bus.
THEOREM SeenHolds == Spec => []SeenIsDelivered
<1>1. IInv => SeenIsDelivered BY DEF IInv
<1> QED BY <1>1, IInvHolds, PTL

\* protocol() accuses those crossbars that break the channel rules and no
\* others, in the same cycles.
THEOREM AccusationsHold == Spec => []AccusedIffBroken
<1>1. IInv => AccusedIffBroken BY DEF IInv
<1> QED BY <1>1, IInvHolds, PTL
-----------------------------------------------------------------------------
\* The checks and the contract, of whatever was taken and delivered.  T is
\* what was taken from each source and D what was delivered at each sink.

\* Each source was relieved of some of its beats, from the first on.
Relieved(T) ==
    /\ T \in [Sources -> Seq(Words)]
    /\ \A s \in Sources : /\ Len(T[s]) <= Len(queue(s))
                          /\ \A i \in 1 .. Len(T[s]) : T[s][i] = queue(s)[i]

\* Every beat that was taken arrived where it was meant to, once, and nothing
\* else did.
Conserved(T, D) ==
    /\ \A d \in Sinks : Distinct(D[d])
    /\ \A d \in Sinks : \A x :
          x \in Elements(D[d]) <=> x \in Everything(T) /\ x.dst = d

\* The beats of s among those at d, and the beats for d among those of s.
Arrived(D, d, s) == Subsequence(D[d], {i \in 1 .. Len(D[d]) : D[d][i].src = s})
Meant(T, s, d)   == Subsequence(T[s], {i \in 1 .. Len(T[s]) : T[s][i].dst = d})

Contiguous(q) ==
    \A i, j \in 1 .. Len(q) :
       /\ i < j /\ ~q[i].last
       /\ \A k \in i .. j - 1 : q[k].src = q[i].src => ~q[k].last
       => q[j].src = q[i].src

Owed(T, D) ==
    /\ \A d \in Sinks : \A g \in Elements(D[d]) : g.src \in Sources
    /\ \A s \in Sources, d \in Sinks : Arrived(D, d, s) = Meant(T, s, d)
    /\ \A d \in Sinks : Contiguous(D[d])
    /\ test = "blocked" =>
          \A s \in Sources : \A b \in Elements(queue(s)) :
             b.dst = Blocked => b \in Elements(T[s])

\* What check_all and the test's own assertions ask of the records.
Checked(snt, sn) ==
    /\ test = "blocked" => ArrivedInFull(sn, Blocked)
    /\ check_conservation(snt, sn)
    /\ check_flow_order(snt, sn)
    /\ check_packets_not_interleaved(sn)
    /\ test = "recovered" =>
          /\ \A s \in Sources : \A b \in Elements(queue(s)) : ArrivedInFull(sn, b.dst)
          /\ Everything(sn) \intersect Everything(Queue["reset"]) = {}

\* A beat is in one queue, at one place, and known by its marker.
LEMMA QueueBeats ==
    ASSUME test \in TestNames
    PROVE  /\ \A s \in Sources : \A b \in Elements(queue(s)) :
                 b.src = s /\ b.dst \in Sinks /\ b \in Words
           /\ \A s, r \in Sources : \A b \in Elements(queue(s)), c \in Elements(queue(r)) :
                 b.marker = c.marker => b = c
           /\ \A s \in Sources : Distinct(queue(s))
<1>1. \A s \in Sources : queue(s) = Queue[test][s] BY DEF queue
<1>2. \A s \in Sources : \A b \in Elements(queue(s)) : b.src = s /\ b.dst \in Sinks
  BY <1>1, XbarAssumption
<1>3. ASSUME NEW s \in Sources PROVE \A b \in Elements(queue(s)) : b \in Words
  <2>1. queue(s) \in Seq(Words) BY QueueType
  <2> QED BY <2>1 DEF Elements
<1>4. \A s \in Sources : \A i \in 1 .. Len(queue(s)) :
         \A r \in Sources : \A j \in 1 .. Len(queue(r)) :
            queue(s)[i].marker = queue(r)[j].marker => s = r /\ i = j
  BY <1>1, XbarAssumption
<1>5. \A s, r \in Sources : \A b \in Elements(queue(s)), c \in Elements(queue(r)) :
         b.marker = c.marker => b = c
  BY <1>4 DEF Elements
<1>6. \A s \in Sources : Distinct(queue(s)) BY <1>4 DEF Distinct
<1> QED BY <1>2, <1>3, <1>5, <1>6

\* So are the beats that were taken.
LEMMA TakenBeats ==
    ASSUME NEW T, test \in TestNames, Relieved(T)
    PROVE  /\ \A x : x \in Everything(T) <=> \E s \in Sources : x \in Elements(T[s])
           /\ \A s \in Sources : \A b \in Elements(T[s]) :
                 b \in Elements(queue(s)) /\ b.src = s /\ b.dst \in Sinks
           /\ \A b, c \in Everything(T) : b.marker = c.marker => b = c
           /\ \A s \in Sources : \A b \in Everything(T) : b.src = s => b \in Elements(T[s])
           /\ \A s \in Sources : Distinct(T[s])
<1>1. \A x : x \in Everything(T) <=> \E s \in Sources : x \in Elements(T[s])
  BY DEF Everything, Relieved
<1>2. ASSUME NEW s \in Sources, NEW b \in Elements(T[s]) PROVE b \in Elements(queue(s))
  <2>1. PICK i \in 1 .. Len(T[s]) : b = T[s][i] BY DEF Elements
  <2>2. T[s] \in Seq(Words) /\ queue(s) \in Seq(Words) BY QueueType DEF Relieved
  <2>3. Len(T[s]) \in Nat /\ Len(queue(s)) \in Nat BY <2>2
  <2>4. i \in 1 .. Len(queue(s)) /\ b = queue(s)[i] BY <2>1, <2>3 DEF Relieved
  <2> QED BY <2>4 DEF Elements
<1>3. \A s \in Sources : \A b \in Elements(T[s]) :
         b \in Elements(queue(s)) /\ b.src = s /\ b.dst \in Sinks
  BY <1>2, QueueBeats
<1>4. \A b, c \in Everything(T) : b.marker = c.marker => b = c
  BY <1>1, <1>3, QueueBeats
<1>5. \A s \in Sources : \A b \in Everything(T) : b.src = s => b \in Elements(T[s])
  BY <1>1, <1>3
<1>6. ASSUME NEW s \in Sources PROVE Distinct(T[s])
  <2>1. T[s] \in Seq(Words) /\ queue(s) \in Seq(Words) BY QueueType DEF Relieved
  <2>2. Len(T[s]) \in Nat /\ Len(queue(s)) \in Nat BY <2>1
  <2>3. Distinct(queue(s)) BY QueueBeats
  <2> QED BY <2>2, <2>3 DEF Relieved, Distinct
<1> QED BY <1>1, <1>3, <1>4, <1>5, <1>6

LEMMA LogBeats ==
    ASSUME NEW D \in [Sinks -> Seq(Words)]
    PROVE  /\ \A d \in Sinks : D[d] \in Seq(Words) /\ Len(D[d]) \in Nat
           /\ \A x : x \in Everything(D) <=> \E d \in Sinks : x \in Elements(D[d])
<1>1. ASSUME NEW d \in Sinks PROVE D[d] \in Seq(Words) /\ Len(D[d]) \in Nat
  <2>1. D[d] \in Seq(Words) OBVIOUS
  <2> QED BY <2>1
<1> QED BY <1>1 DEF Everything

\* check_conservation, with its dictionary of markers, is conservation.
LEMMA ConservationChecked ==
    ASSUME NEW T, NEW D \in [Sinks -> Seq(Words)], test \in TestNames, Relieved(T)
    PROVE  check_conservation(T, D) <=> Conserved(T, D)
<1>1. ASSUME check_conservation(T, D) PROVE Conserved(T, D)
  <2>1. \A d, e \in Sinks : \A i \in 1 .. Len(D[d]), j \in 1 .. Len(D[e]) :
           D[d][i].marker = D[e][j].marker => d = e /\ i = j
    BY <1>1 DEF check_conservation
  <2>2. \A b \in Everything(T) : \E g \in Everything(D) : g.marker = b.marker
    BY <1>1 DEF check_conservation
  <2>3. \A d \in Sinks : \A g \in Elements(D[d]) : g \in Everything(T) /\ g.dst = d
    BY <1>1 DEF check_conservation
  <2>4. \A d \in Sinks : Distinct(D[d]) BY <2>1 DEF Distinct
  <2>5. ASSUME NEW x \in Everything(T) PROVE \A d \in Sinks : x.dst = d => x \in Elements(D[d])
    <3>1. PICK e \in Sinks : \E g \in Elements(D[e]) : g.marker = x.marker
      BY <2>2, LogBeats
    <3>2. PICK g \in Elements(D[e]) : g.marker = x.marker BY <3>1
    <3>3. g = x BY <2>3, <3>2, TakenBeats
    <3> QED BY <2>3, <3>2, <3>3
  <2> QED BY <2>3, <2>4, <2>5 DEF Conserved
<1>2. ASSUME Conserved(T, D) PROVE check_conservation(T, D)
  <2>1. \A d \in Sinks : \A g \in Elements(D[d]) : g \in Everything(T) /\ g.dst = d
    BY <1>2 DEF Conserved
  <2>2. ASSUME NEW d \in Sinks, NEW e \in Sinks,
               NEW i \in 1 .. Len(D[d]), NEW j \in 1 .. Len(D[e]),
               D[d][i].marker = D[e][j].marker
        PROVE  d = e /\ i = j
    <3>1. D[d][i] \in Elements(D[d]) /\ D[e][j] \in Elements(D[e]) BY DEF Elements
    <3>2. D[d][i] = D[e][j] BY <2>1, <2>2, <3>1, TakenBeats
    <3>3. d = e BY <2>1, <3>1, <3>2
    <3> QED BY <1>2, <3>2, <3>3 DEF Conserved, Distinct
  <2>3. ASSUME NEW b \in Everything(T) PROVE \E g \in Everything(D) : g.marker = b.marker
    <3>1. b.dst \in Sinks BY TakenBeats
    <3>2. b \in Elements(D[b.dst]) BY <1>2, <3>1 DEF Conserved
    <3> QED BY <3>1, <3>2, LogBeats
  <2>4. \A d \in Sinks : \A g \in Elements(D[d]) :
           \E b \in Everything(T) : b.marker = g.marker /\ b.dst = d /\ b = g
    BY <2>1
  <2> QED BY <2>2, <2>3, <2>4 DEF check_conservation
<1> QED BY <1>1, <1>2

\* What a list comprehension over a log, or over what was taken, collects.
LEMMA FlowBeats ==
    ASSUME NEW T, NEW D \in [Sinks -> Seq(Words)], Relieved(T),
           NEW s \in Sources, NEW d \in Sinks
    PROVE  /\ Arrived(D, d, s) \in Seq(Words) /\ Meant(T, s, d) \in Seq(Words)
           /\ \A x : x \in Elements(Arrived(D, d, s)) <=> x \in Elements(D[d]) /\ x.src = s
           /\ \A x : x \in Elements(Meant(T, s, d)) <=> x \in Elements(T[s]) /\ x.dst = d
<1> DEFINE I == {i \in 1 .. Len(D[d]) : D[d][i].src = s}
           J == {i \in 1 .. Len(T[s]) : T[s][i].dst = d}
<1>1. D[d] \in Seq(Words) /\ T[s] \in Seq(Words) BY DEF Relieved
<1>2. Arrived(D, d, s) = Subsequence(D[d], I) /\ Meant(T, s, d) = Subsequence(T[s], J)
  BY DEF Arrived, Meant
<1>3. I \in SUBSET (1 .. Len(D[d])) /\ J \in SUBSET (1 .. Len(T[s])) OBVIOUS
<1>4. ASSUME NEW x
      PROVE  /\ x \in Elements(D[d]) /\ x.src = s <=> \E i \in I : x = D[d][i]
             /\ x \in Elements(T[s]) /\ x.dst = d <=> \E i \in J : x = T[s][i]
  BY DEF Elements
<1> HIDE DEF I, J
<1>5. Arrived(D, d, s) \in Seq(Words) /\ Meant(T, s, d) \in Seq(Words)
  BY <1>1, <1>2, SubsequenceEnumerated
<1>6. ASSUME NEW x
      PROVE  x \in Elements(Arrived(D, d, s)) <=> \E i \in I : x = D[d][i]
  <2>1. x \in Elements(Subsequence(D[d], I)) <=> \E i \in I : x = D[d][i]
    BY <1>1, <1>3, SubsequenceElements
  <2> QED BY <1>2, <2>1
<1>7. ASSUME NEW x
      PROVE  x \in Elements(Meant(T, s, d)) <=> \E i \in J : x = T[s][i]
  <2> DEFINE t == T[s]
  <2>1. t \in Seq(Words) /\ J \in SUBSET (1 .. Len(t)) BY <1>1, <1>3
  <2> HIDE DEF t
  <2>2. x \in Elements(Subsequence(t, J)) <=> \E i \in J : x = t[i]
    BY <2>1, SubsequenceElements
  <2> QED BY <1>2, <2>2 DEF t
<1> QED BY <1>4, <1>5, <1>6, <1>7

\* check_flow_order compares markers where the contract compares beats, and
\* nothing where nothing arrived.
LEMMA FlowChecked ==
    ASSUME NEW T, NEW D \in [Sinks -> Seq(Words)], test \in TestNames, Relieved(T),
           Conserved(T, D)
    PROVE  check_flow_order(T, D)
              <=> \A s \in Sources, d \in Sinks : Arrived(D, d, s) = Meant(T, s, d)
<1> DEFINE markers(q) == [i \in 1 .. Len(q) |-> q[i].marker]
           A(d, s) == Arrived(D, d, s)
           M(d, s) == Meant(T, s, d)
<1>1. check_flow_order(T, D) <=>
         \A d \in Sinks, s \in Sources : markers(A(d, s)) # <<>>
                                            => markers(A(d, s)) = markers(M(d, s))
  <2>1. ASSUME NEW d \in Sinks, NEW s \in Sources
        PROVE  {i \in 1 .. Len(D[d]) : \E b \in Elements(T[s]) : b.marker = D[d][i].marker}
                  = {i \in 1 .. Len(D[d]) : D[d][i].src = s}
    <3>1. ASSUME NEW i \in 1 .. Len(D[d])
          PROVE  (\E b \in Elements(T[s]) : b.marker = D[d][i].marker) <=> D[d][i].src = s
      <4>1. D[d][i] \in Everything(T) BY DEF Conserved, Elements
      <4>2. D[d][i].src = s => D[d][i] \in Elements(T[s]) BY <4>1, TakenBeats
      <4>3. \A b \in Elements(T[s]) : b.marker = D[d][i].marker => D[d][i].src = s
        BY <4>1, TakenBeats
      <4> QED BY <4>2, <4>3
    <3> QED BY <3>1
  <2> DEFINE got(d, s)      == Subsequence(D[d], {i \in 1 .. Len(D[d]) :
                                \E b \in Elements(T[s]) : b.marker = D[d][i].marker})
             expected(d, s) == Subsequence(T[s], {i \in 1 .. Len(T[s]) : T[s][i].dst = d})
  <2>2. check_flow_order(T, D) <=>
           \A d \in Sinks, s \in Sources :
              markers(got(d, s)) # <<>> => markers(got(d, s)) = markers(expected(d, s))
    BY DEF check_flow_order, Select
  <2>3. ASSUME NEW d \in Sinks, NEW s \in Sources
        PROVE  got(d, s) = A(d, s) /\ expected(d, s) = M(d, s)
    BY <2>1 DEF Arrived, Meant
  <2> HIDE DEF got, expected, A, M, markers
  <2> QED BY <2>2, <2>3
<1>2. ASSUME NEW s \in Sources, NEW d \in Sinks,
             markers(A(d, s)) # <<>> => markers(A(d, s)) = markers(M(d, s))
      PROVE  A(d, s) = M(d, s)
  <2> DEFINE a == A(d, s)
             m == M(d, s)
  <2>1. a \in Seq(Words) /\ m \in Seq(Words) BY FlowBeats
  <2>2. /\ \A x : x \in Elements(a) <=> x \in Elements(D[d]) /\ x.src = s
        /\ \A x : x \in Elements(m) <=> x \in Elements(T[s]) /\ x.dst = d
    BY FlowBeats
  <2>3. \A x \in Elements(m) : x \in Elements(a)
    BY <2>2, TakenBeats DEF Conserved
  <2>4. \A x \in Elements(a), y \in Elements(m) : x.marker = y.marker => x = y
    BY <2>2, TakenBeats DEF Conserved
  <2>5. markers(a) # <<>> => markers(a) = markers(m) BY <1>2
  <2> HIDE DEF a, m
  <2>6. Len(a) \in Nat /\ Len(m) \in Nat BY <2>1
  <2>7. CASE Len(a) = 0
    <3>1. Elements(a) = {} BY <2>7 DEF Elements
    <3>2. \A k \in 1 .. Len(m) : m[k] \in Elements(m) BY DEF Elements
    <3>4. Len(m) = 0
      <4>1. 1 \notin 1 .. Len(m) BY <2>3, <3>1, <3>2
      <4> QED BY <2>6, <4>1
    <3> QED BY <2>1, <2>7, <3>4 DEF a, m
  <2>8. CASE Len(a) # 0
    <3>1. 1 \in DOMAIN markers(a) BY <2>6, <2>8
    <3>2. markers(a) # <<>> BY <3>1
    <3>3. markers(a) = markers(m) BY <2>5, <3>2
    <3>4. 1 .. Len(a) = 1 .. Len(m) BY <3>3
    <3>5. Len(a) = Len(m) BY <2>6, <2>8, <3>4
    <3>6. ASSUME NEW i \in 1 .. Len(a) PROVE a[i] = m[i]
      <4>1. markers(a)[i] = markers(m)[i] /\ i \in 1 .. Len(m) BY <3>3, <3>5
      <4>2. a[i].marker = m[i].marker BY <4>1
      <4>3. a[i] \in Elements(a) /\ m[i] \in Elements(m) BY <4>1 DEF Elements
      <4> QED BY <2>4, <4>2, <4>3
    <3>7. a = m BY <2>1, <3>5, <3>6
    <3> QED BY <3>7 DEF a, m
  <2> QED BY <2>7, <2>8
<1>3. ASSUME \A s \in Sources, d \in Sinks : A(d, s) = M(d, s)
      PROVE  \A d \in Sinks, s \in Sources : markers(A(d, s)) = markers(M(d, s))
  BY <1>3
<1> HIDE DEF A, M, markers
<1>4. check_flow_order(T, D) <=> \A s \in Sources, d \in Sinks : A(d, s) = M(d, s)
  BY <1>1, <1>2, <1>3
<1> QED BY <1>4 DEF A, M

\* A crossbar that keeps the contract conserves.
LEMMA OwedConserved ==
    ASSUME NEW T, NEW D \in [Sinks -> Seq(Words)], test \in TestNames, Relieved(T),
           Owed(T, D)
    PROVE  Conserved(T, D)
<1>1. ASSUME NEW d \in Sinks, NEW x \in Elements(D[d])
      PROVE  x \in Everything(T) /\ x.dst = d /\ x.src \in Sources
  <2>1. x.src \in Sources BY DEF Owed
  <2>2. x \in Elements(Arrived(D, d, x.src)) BY <2>1, FlowBeats
  <2>3. x \in Elements(Meant(T, x.src, d)) BY <2>1, <2>2 DEF Owed
  <2>4. x \in Elements(T[x.src]) /\ x.dst = d BY <2>1, <2>3, FlowBeats
  <2> QED BY <2>1, <2>4, TakenBeats
<1>2. ASSUME NEW d \in Sinks, NEW x \in Everything(T), x.dst = d
      PROVE  x \in Elements(D[d])
  <2>1. PICK s \in Sources : x \in Elements(T[s]) BY TakenBeats
  <2>2. x \in Elements(Meant(T, s, d)) BY <1>2, <2>1, FlowBeats
  <2>3. x \in Elements(Arrived(D, d, s)) BY <2>2 DEF Owed
  <2> QED BY <2>3, FlowBeats
<1>3. ASSUME NEW d \in Sinks,
             NEW i \in 1 .. Len(D[d]), NEW j \in 1 .. Len(D[d]), D[d][i] = D[d][j]
      PROVE  i = j
  <2> DEFINE s == D[d][i].src
             I == {k \in 1 .. Len(D[d]) : D[d][k].src = s}
             J == {k \in 1 .. Len(T[s]) : T[s][k].dst = d}
  <2>1. D[d][i] \in Elements(D[d]) BY DEF Elements
  <2>2. s \in Sources BY <1>1, <2>1
  <2>3. D[d] \in Seq(Words) /\ T[s] \in Seq(Words) BY <2>2 DEF Relieved
  <2>4. i \in I /\ j \in I BY <1>3
  <2>5. I \in SUBSET (1 .. Len(D[d])) /\ J \in SUBSET (1 .. Len(T[s])) OBVIOUS
  <2>6. Distinct(T[s]) BY <2>2, TakenBeats
  <2>7. \A k, l \in J : T[s][k] = T[s][l] => k = l BY <2>5, <2>6 DEF Distinct
  <2>8. Subsequence(D[d], I) = Subsequence(T[s], J)
    BY <2>2 DEF Owed, Arrived, Meant
  <2> HIDE DEF s, I, J
  <2>9. Distinct(Subsequence(T[s], J)) BY <2>3, <2>5, <2>7, SubsequenceDistinct
  <2>10. Distinct(Subsequence(D[d], I)) BY <2>8, <2>9
  <2>11. \A k, l \in I : D[d][k] = D[d][l] => k = l
    BY <2>3, <2>5, <2>10, SubsequenceDistinct
  <2> QED BY <1>3, <2>4, <2>11
<1> QED BY <1>1, <1>2, <1>3 DEF Conserved, Distinct

\* check_packets_not_interleaved compares neighbours, which is enough.
LEMMA NeighboursSuffice ==
    ASSUME NEW q \in Seq(Words)
    PROVE  (\A i \in 2 .. Len(q) : q[i - 1].last \/ q[i].src = q[i - 1].src)
              <=> Contiguous(q)
<1>0. Len(q) \in Nat OBVIOUS
<1>1. ASSUME \A i \in 2 .. Len(q) : q[i - 1].last \/ q[i].src = q[i - 1].src
      PROVE  Contiguous(q)
  <2> SUFFICES ASSUME NEW i \in 1 .. Len(q), NEW j \in 1 .. Len(q), i < j,
                      \A k \in i .. j - 1 : q[k].src = q[i].src => ~q[k].last
               PROVE  q[j].src = q[i].src
    BY DEF Contiguous
  <2> DEFINE S == {n \in Nat : i + n <= j => q[i + n].src = q[i].src}
  <2>1. 0 \in S OBVIOUS
  <2>2. ASSUME NEW n \in Nat, n \in S PROVE n + 1 \in S
    <3> SUFFICES ASSUME i + (n + 1) <= j PROVE q[i + (n + 1)].src = q[i].src
      OBVIOUS
    <3>1. q[i + n].src = q[i].src BY <2>2
    <3>2. i + n \in i .. j - 1 OBVIOUS
    <3>3. ~q[i + n].last BY <3>1, <3>2
    <3>4. i + (n + 1) \in 2 .. Len(q) /\ i + (n + 1) - 1 = i + n BY <1>0
    <3> QED BY <1>1, <3>1, <3>3, <3>4
  <2>3. Nat \subseteq S
    <3> HIDE DEF S
    <3> QED BY <2>1, <2>2, NatSetInduction
  <2>4. j - i \in Nat /\ i + (j - i) = j OBVIOUS
  <2> QED BY <2>3, <2>4
<1>2. ASSUME Contiguous(q), NEW i \in 2 .. Len(q), ~q[i - 1].last
      PROVE  q[i].src = q[i - 1].src
  <2>1. i - 1 \in 1 .. Len(q) /\ i \in 1 .. Len(q) /\ i - 1 < i BY <1>0
  <2>2. \A k \in i - 1 .. i - 1 : ~q[k].last BY <1>2
  <2> QED BY <1>2, <2>1, <2>2 DEF Contiguous
<1> QED BY <1>1, <1>2

\* The queues of a test hold finitely many beats.
LEMMA QueueFinite ==
    ASSUME test \in TestNames
    PROVE  /\ \A x : x \in Everything(Queue[test])
                        <=> \E s \in Sources : x \in Elements(queue(s))
           /\ IsFiniteSet(Everything(Queue[test]))
<1> DEFINE E == {Elements(queue(s)) : s \in Sources}
           f == [s \in Sources |-> Elements(queue(s))]
<1>1. \A s \in Sources : queue(s) = Queue[test][s] BY DEF queue
<1>2. DOMAIN Queue[test] = Sources BY XbarAssumption
<1>3. Everything(Queue[test]) = UNION E BY <1>1, <1>2 DEF Everything
<1>4. ASSUME NEW s \in Sources PROVE IsFiniteSet(Elements(queue(s)))
  <2>1. queue(s) \in Seq(Words) /\ Distinct(queue(s)) BY QueueType, QueueBeats
  <2> QED BY <2>1, DistinctLength
<1>5. IsFiniteSet(E)
  <2>1. f \in Surjection(Sources, E) BY DEF Surjection
  <2>2. IsFiniteSet(Sources) BY XbarAssumption
  <2> HIDE DEF f, E
  <2> QED BY <2>1, <2>2, FS_Surjection
<1>6. IsFiniteSet(UNION E) BY <1>4, <1>5, FS_UNION
<1> QED BY <1>3, <1>6

\* As many beats have arrived as there are for a sink just if those are the
\* beats that were taken: of a crossbar that conserves.
LEMMA FullCount ==
    ASSUME NEW T, NEW D \in [Sinks -> Seq(Words)], test \in TestNames, Relieved(T),
           Conserved(T, D), NEW d \in Sinks
    PROVE  ArrivedInFull(D, d)
              <=> \A s \in Sources : \A b \in Elements(queue(s)) :
                     b.dst = d => b \in Elements(T[s])
<1> DEFINE E == Elements(D[d])
           Q == {b \in Everything(Queue[test]) : b.dst = d}
<1>1. D[d] \in Seq(Words) /\ Distinct(D[d]) BY DEF Conserved
<1>2. IsFiniteSet(E) /\ Cardinality(E) = Len(D[d]) BY <1>1, DistinctLength
<1>3. IsFiniteSet(Q)
  <2>1. Q \in SUBSET Everything(Queue[test]) OBVIOUS
  <2> HIDE DEF Q
  <2> QED BY <2>1, QueueFinite, FS_Subset
<1>4. E \in SUBSET Q BY QueueFinite, TakenBeats DEF Conserved
<1>5. E = Q <=> \A s \in Sources : \A b \in Elements(queue(s)) :
                   b.dst = d => b \in Elements(T[s])
  <2>1. ASSUME E = Q, NEW s \in Sources, NEW b \in Elements(queue(s)), b.dst = d
        PROVE  b \in Elements(T[s])
    <3>1. b \in E BY <2>1, QueueFinite
    <3>2. b \in Everything(T) /\ b.src = s BY <3>1, QueueBeats DEF Conserved
    <3> QED BY <3>2, TakenBeats
  <2>2. ASSUME \A s \in Sources : \A b \in Elements(queue(s)) :
                  b.dst = d => b \in Elements(T[s]),
               NEW x \in Q
        PROVE  x \in E
    <3>1. PICK s \in Sources : x \in Elements(queue(s)) BY QueueFinite
    <3>2. x \in Elements(T[s]) /\ x.dst = d BY <2>2, <3>1
    <3> QED BY <3>2, TakenBeats DEF Conserved
  <2> QED BY <1>4, <2>1, <2>2
<1>6. ArrivedInFull(D, d) <=> Len(D[d]) = Cardinality(Q) BY DEF ArrivedInFull
<1> HIDE DEF E, Q
<1>7. E = Q <=> Cardinality(E) = Cardinality(Q) BY <1>3, <1>4, FS_Subset
<1> QED BY <1>2, <1>5, <1>6, <1>7

\* A test's checks are the contract, of records that are true.
LEMMA ChecksAreContract ==
    ASSUME NEW T, NEW D \in [Sinks -> Seq(Words)], test \in TestNames, Relieved(T),
           test = "recovered" => \A s \in Sources : T[s] = queue(s)
    PROVE  Checked(T, D) <=> Owed(T, D)
<1>1. Checked(T, D) => Conserved(T, D) BY ConservationChecked DEF Checked
<1>2. Owed(T, D) => Conserved(T, D) BY OwedConserved
<1> SUFFICES ASSUME Conserved(T, D) PROVE Checked(T, D) <=> Owed(T, D)
  BY <1>1, <1>2
<1>3. check_conservation(T, D) BY ConservationChecked
<1>4. check_flow_order(T, D)
         <=> \A s \in Sources, d \in Sinks : Arrived(D, d, s) = Meant(T, s, d)
  BY FlowChecked
<1>5. check_packets_not_interleaved(D) <=> \A d \in Sinks : Contiguous(D[d])
  <2>1. \A d \in Sinks : D[d] \in Seq(Words) OBVIOUS
  <2> QED BY <2>1, NeighboursSuffice DEF check_packets_not_interleaved
<1>6. \A d \in Sinks : \A g \in Elements(D[d]) : g.src \in Sources
  BY TakenBeats DEF Conserved
<1>7. Blocked \in Sinks BY XbarAssumption
<1>8. ArrivedInFull(D, Blocked)
         <=> \A s \in Sources : \A b \in Elements(queue(s)) :
                b.dst = Blocked => b \in Elements(T[s])
  BY <1>7, FullCount
<1>9. ASSUME test = "recovered"
      PROVE  /\ \A s \in Sources : \A b \in Elements(queue(s)) : ArrivedInFull(D, b.dst)
             /\ Everything(D) \intersect Everything(Queue["reset"]) = {}
  <2>1. \A s \in Sources : T[s] = queue(s) BY <1>9
  <2>2. \A d \in Sinks : ArrivedInFull(D, d) BY <2>1, FullCount
  <2>3. ASSUME NEW x \in Everything(D) PROVE x \in Everything(Queue["recovered"])
    <3>1. x \in Everything(T) BY LogBeats DEF Conserved
    <3> QED BY <1>9, <2>1, <3>1, TakenBeats, QueueFinite
  <2>4. Everything(Queue["recovered"]) \intersect Everything(Queue["reset"]) = {}
    BY XbarAssumption
  <2> QED BY <2>2, <2>3, <2>4, QueueBeats
<1> QED BY <1>3, <1>4, <1>5, <1>6, <1>8, <1>9 DEF Checked, Owed
-----------------------------------------------------------------------------
\* The verdict.

Judging == {"traffic", "settle", "wait", "drain"}

\* A source is done when its queue is, unless it was halted, and those that
\* are waited for are done when the script goes on.
Through ==
    stage \in Judging =>
       \A s \in Sources : phase[s] = "done" => pos[s] = Len(queue(s)) + 1

Finished ==
    stage \in Judging \ {"traffic"} => \A s \in Awaited : phase[s] = "done"

JInv == IInv /\ Through /\ Finished /\ VerdictIsContract

\* A source that is not halted is done after its last beat.
LEMMA ResumeThrough ==
    ASSUME NEW s \in Sources, NEW s_ready, NEW pausing, TypeOK, ~halt,
           Resume(s, s_ready, pausing) = "done"
    PROVE  \/ phase[s] = "done" /\ NextPos(s, s_ready) = pos[s]
           \/ NextPos(s, s_ready) > Len(queue(s))
<1>1. phase[s] \in Phases /\ test \in TestNames BY DEF TypeOK
<1>2. CASE phase[s] = "align" \/ (Accepted(s, s_ready) /\ ~CalledAnew(s))
  BY <1>1, <1>2 DEF Resume, Present, Accepted, Offering
<1>3. CASE Accepted(s, s_ready) /\ CalledAnew(s)
  BY <1>3 DEF Resume
<1>4. CASE phase[s] # "align" /\ ~Accepted(s, s_ready)
  <2>1. NextPos(s, s_ready) = pos[s] BY <1>4 DEF NextPos
  <2>2. phase[s] = "done" BY <1>4 DEF Resume, Offering
  <2> QED BY <2>1, <2>2
<1> QED BY <1>2, <1>3, <1>4

\* What a cycle does to the sources.
LEMMA ClockPhases ==
    ASSUME JInv, Clock, test' = test, InOrder'
    PROVE  /\ ~halt => \A s \in Sources :
                 phase'[s] = "done" => \/ phase[s] = "done" /\ pos'[s] = pos[s]
                                       \/ pos'[s] = Len(queue(s)) + 1
           /\ \A s \in Sources : phase[s] = "done" => phase'[s] = "done"
<1>1. PICK sampled : source(sampled)
  BY DEF Clock
<1>2. PICK pausing : phase' = [s \in Sources |-> Resume(s, sampled, pausing)]
  BY <1>1 DEF source
<1>3. pos' = [s \in Sources |-> NextPos(s, sampled)]
  BY <1>1 DEF source
<1>4. TypeOK /\ Placed BY DEF JInv, IInv
<1>5. ASSUME NEW s \in Sources
      PROVE  Len(queue(s)) \in Nat /\ queue(s)' = queue(s)
  BY <1>4, QueueType DEF TypeOK, queue
<1>6. ASSUME ~halt, NEW s \in Sources, phase'[s] = "done"
      PROVE  \/ phase[s] = "done" /\ pos'[s] = pos[s]
             \/ pos'[s] = Len(queue(s)) + 1
  <2>1. Resume(s, sampled, pausing) = "done" /\ pos'[s] = NextPos(s, sampled)
    BY <1>2, <1>3, <1>6
  <2>2. \/ phase[s] = "done" /\ pos'[s] = pos[s]
        \/ pos'[s] > Len(queue(s))
    BY <1>4, <1>6, <2>1, ResumeThrough
  <2>3. pos'[s] \in Nat BY <1>4, <2>1, ResumeCases
  <2>4. pos'[s] - 1 <= Len(queue(s)) BY <1>5 DEF InOrder
  <2> QED BY <1>5, <2>2, <2>3, <2>4
<1>7. ASSUME NEW s \in Sources, phase[s] = "done" PROVE phase'[s] = "done"
  BY <1>2, <1>4, <1>7, ResumeCases
<1> QED BY <1>6, <1>7

\* A cycle of a script that goes forward keeps what the verdict rests on.
LEMMA ClockJudging ==
    ASSUME JInv, IInv', Clock, test' = test, stage \in Judging, stage' \in Judging,
           stage = "traffic" /\ stage' # "traffic"
              => \A s \in Awaited : phase'[s] = "done",
           stage # "traffic" => stage' # "traffic"
    PROVE  Through' /\ Finished'
<1>1. ~halt /\ InOrder' BY DEF halt, Judging, IInv
<1>2. /\ \A s \in Sources :
            phase'[s] = "done" => \/ phase[s] = "done" /\ pos'[s] = pos[s]
                                  \/ pos'[s] = Len(queue(s)) + 1
      /\ \A s \in Sources : phase[s] = "done" => phase'[s] = "done"
  BY <1>1, ClockPhases
<1>3. \A s \in Sources : queue(s)' = queue(s) BY DEF queue
<1>4. Through' BY <1>2, <1>3 DEF JInv, Through
<1>5. Awaited' = Awaited BY DEF Awaited, queue
<1>6. Finished'
  <2>1. Awaited \subseteq Sources BY DEF Awaited
  <2> QED BY <1>2, <1>5, <2>1 DEF JInv, Finished
<1> QED BY <1>4, <1>6

\* At the end of a test the records are what happened, so that the checks,
\* being the contract, judge the crossbar and not the harness.
LEMMA DrainJudges ==
    ASSUME JInv, Drain, IInv', Through', Finished'
    PROVE  VerdictIsContract'
<1> SUFFICES ASSUME test' # "greedy", disturbed' = {}, verdict' \in {"pass", "fail"}
             PROVE  verdict' = "pass" <=> Contract' /\ ~broken' /\ ~blind_cycles'
  BY DEF VerdictIsContract
<1>1. /\ Clock /\ test' = test /\ stage = "drain" /\ stage' = "drain"
      /\ verdict = "none"
  BY DEF Drain, Stay, Ends, Clock
<1>2. left = 0
  <2>1. ~(left > 0) BY <1>1 DEF Drain, Stay
  <2>2. left \in Nat BY DEF JInv, IInv, TypeOK
  <2> QED BY <2>1, <2>2
<1>3. PICK late \in SUBSET Sources :
         LET snt == [s \in Sources |-> IF s \in late THEN sent[s] ELSE sent'[s]]
         IN  Ends(IF Passes(snt, seen') THEN "pass" ELSE "fail")
  BY <1>2 DEF Drain
<1> DEFINE snt == [s \in Sources |-> IF s \in late THEN sent[s] ELSE sent'[s]]
<1>4. verdict' = IF Passes(snt, seen') THEN "pass" ELSE "fail"
  BY <1>3 DEF Ends
<1>5. taken' = taken BY <1>1, <1>2 DEF Clock
<1>6. /\ sent \in [Sources -> Seq(Words)] /\ taken \in [Sources -> Seq(Words)]
      /\ sent' \in [Sources -> Seq(Words)] /\ taken' \in [Sources -> Seq(Words)]
      /\ delivered' \in [Sinks -> Seq(Words)]
      /\ broken' \in BOOLEAN /\ protocol_errors' \in BOOLEAN /\ blind_cycles' \in BOOLEAN
  BY DEF JInv, IInv, TypeOK
<1>7. ASSUME NEW s \in Sources PROVE taken[s] = sent[s] /\ taken'[s] = sent'[s]
  <2>1. disturbed = {} BY <1>1 DEF Clock
  <2>2. LeftOut(s) = 0 /\ LeftOut(s)' = 0 BY <1>1, <2>1 DEF LeftOut, Times
  <2>3. AllBut(0, taken[s], sent[s]) /\ AllBut(0, taken'[s], sent'[s])
    BY <2>2 DEF JInv, IInv, Recorded
  <2>4. taken[s] \in Seq(Words) /\ taken'[s] \in Seq(Words) BY <1>6
  <2> QED BY <2>3, <2>4, AllButNone
<1>8. sent' = taken' /\ snt = taken' BY <1>5, <1>6, <1>7
<1>9. verdict' = "pass"
         <=> Checked(taken', seen') /\ ~protocol_errors' /\ ~blind_cycles'
  <2> HIDE DEF snt
  <2>1. verdict' = "pass" <=> Passes(taken', seen') BY <1>4, <1>8
  <2> QED BY <1>1, <2>1 DEF Passes, check_all, Checked
<1>10. test \in TestNames BY DEF JInv, IInv, TypeOK
<1>11. \A s \in Sources : queue(s)' = queue(s) BY <1>1 DEF queue
<1>12. Relieved(taken') BY <1>6, <1>8, <1>11 DEF IInv, InOrder, Relieved
<1>13. ASSUME test = "recovered", NEW s \in Sources PROVE taken'[s] = queue(s)
  <2>1. s \in Awaited' BY <1>1, <1>13 DEF Awaited
  <2>2. phase'[s] = "done" BY <1>1, <2>1 DEF Finished, Judging
  <2>3. pos'[s] = Len(queue(s)) + 1 BY <1>1, <1>11, <2>2 DEF Through, Judging
  <2>4. queue(s) \in Seq(Words) /\ Len(queue(s)) \in Nat BY <1>10, QueueType
  <2>5. Len(sent'[s]) = Len(queue(s)) BY <1>11, <2>3, <2>4 DEF IInv, InOrder
  <2>6. sent'[s] \in Seq(Words) /\ \A i \in 1 .. Len(sent'[s]) : sent'[s][i] = queue(s)[i]
    BY <1>6, <1>11 DEF IInv, InOrder
  <2>7. sent'[s] = queue(s) BY <2>4, <2>5, <2>6
  <2> QED BY <1>8, <2>7
<1>14. Checked(taken', delivered') <=> Owed(taken', delivered')
  BY <1>6, <1>10, <1>12, <1>13, ChecksAreContract
<1>15. Contract' <=> Owed(taken', delivered')
  BY <1>1 DEF Contract, Owed, Select, Arrived, Meant, Contiguous, queue
<1>16. ASSUME ~blind_cycles' PROVE seen' = delivered' /\ protocol_errors' = broken'
  <2>1. ASSUME NEW d \in Sinks PROVE seen'[d] = delivered'[d]
    <3>1. Unseen(d)' = 0 BY <1>16 DEF Unseen, Times
    <3>2. AllBut(0, delivered'[d], seen'[d])
      BY <3>1 DEF IInv, SeenIsDelivered, Unseen
    <3>3. delivered'[d] \in Seq(Words) BY <1>6
    <3> QED BY <3>2, <3>3, AllButNone
  <2>2. seen' \in [Sinks -> Seq(Words)] BY DEF IInv, TypeOK
  <2>3. seen' = delivered' BY <1>6, <2>1, <2>2
  <2>4. protocol_errors' = broken' BY <1>16 DEF IInv, AccusedIffBroken
  <2> QED BY <2>3, <2>4
<1> QED BY <1>6, <1>9, <1>14, <1>15, <1>16
-----------------------------------------------------------------------------
\* The invariant of the verdict.

THEOREM InitJInv == Init => JInv
<1> SUFFICES ASSUME Init PROVE JInv OBVIOUS
<1>1. stage = "release" /\ verdict = "none" BY DEF Init
<1>2. Through /\ Finished BY <1>1 DEF Through, Finished, Judging
<1>3. VerdictIsContract BY <1>1 DEF VerdictIsContract
<1> QED BY <1>2, <1>3, InitIInv DEF JInv

THEOREM NextJInv == JInv /\ [Next]_vars => JInv'
<1> SUFFICES ASSUME JInv, [Next]_vars PROVE JInv' OBVIOUS
<1>0. IInv /\ Through /\ Finished /\ TypeOK /\ Placed
  BY DEF JInv, IInv
<1>a. IInv' BY <1>0, NextIInv
<1>1. ASSUME verdict' \in {"none", "stopped"} PROVE VerdictIsContract'
  BY <1>1 DEF VerdictIsContract
<1>2. CASE Traffic
  <2>1. /\ Clock /\ test' = test /\ verdict' = "none" /\ stage = "traffic"
        /\ stage' \in Judging
        /\ stage' # "traffic" => \A s \in Awaited : phase'[s] = "done"
    BY <1>2 DEF Traffic, Clock, Stay, Goto, Judging
  <2>2. stage \in Judging BY <2>1 DEF Judging
  <2>3. Through' /\ Finished' BY <1>a, <2>1, <2>2, ClockJudging
  <2> QED BY <1>a, <1>1, <2>1, <2>3 DEF JInv
<1>3. CASE Settle
  <2>1. /\ Clock /\ test' = test /\ verdict' = "none" /\ stage = "settle"
        /\ stage' = "drain"
    BY <1>3 DEF Settle, Clock, Goto
  <2>2. Through' /\ Finished' BY <1>a, <2>1, ClockJudging DEF Judging
  <2> QED BY <1>a, <1>1, <2>1, <2>2 DEF JInv
<1>4. CASE Wait
  <2>1. /\ Clock /\ test' = test /\ verdict' \in {"none", "stopped"}
        /\ stage = "wait" /\ stage' \in {"wait", "drain"}
    BY <1>4 DEF Wait, Clock, Stay, Goto, Ends
  <2>2. Through' /\ Finished' BY <1>a, <2>1, ClockJudging DEF Judging
  <2> QED BY <1>a, <1>1, <2>1, <2>2 DEF JInv
<1>5. CASE Drain
  <2>1. Clock /\ test' = test /\ stage = "drain" /\ stage' = "drain"
    BY <1>5 DEF Drain, Stay, Ends
  <2>2. Through' /\ Finished' BY <1>a, <2>1, ClockJudging DEF Judging
  <2>3. VerdictIsContract' BY <1>a, <1>5, <2>2, DrainJudges
  <2> QED BY <1>a, <2>2, <2>3 DEF JInv
<1>6. CASE Busy \/ Halting \/ ResetCycle
  <2>1. /\ verdict' \in {"none", "stopped"}
        /\ stage' \in {"busy", "halting", "reset", "release"}
    BY <1>6 DEF Busy, Halting, ResetCycle, Clock, Stay, Goto, Ends
  <2>2. Through' /\ Finished' BY <2>1 DEF Through, Finished, Judging
  <2> QED BY <1>a, <1>1, <2>1, <2>2 DEF JInv
<1>7. CASE Release
  <2>1. /\ UNCHANGED pos /\ test' = test /\ stage = "release" /\ verdict' = "none"
        /\ pos = [s \in Sources |-> 1]
    BY <1>0, <1>7 DEF Release, Stay, Goto, Placed
  <2>2. \/ stage' \in {"release", "busy"}
        \/ stage' = "traffic" /\ \A s \in Sources : phase'[s] \in Start(s)
    BY <1>7, <2>1 DEF Release, Stay, Goto
  <2>3. ASSUME NEW s \in Sources, stage' \in Judging, phase'[s] = "done"
        PROVE  pos'[s] = Len(queue(s)') + 1
    <3>1. "done" \in Start(s) BY <2>2, <2>3 DEF Judging
    <3>2. queue(s) = <<>> BY <3>1 DEF Start
    <3>3. queue(s)' = <<>> /\ pos'[s] = 1 BY <2>1, <3>2 DEF queue
    <3> QED BY <3>3
  <2>4. Through' BY <2>3 DEF Through
  <2>5. Finished' BY <2>2 DEF Finished, Judging
  <2> QED BY <1>a, <1>1, <2>1, <2>4, <2>5 DEF JInv
<1>8. CASE GivesUp
  <2>1. UNCHANGED <<phase, pos, test, stage>> /\ verdict' = "stopped"
    BY <1>8 DEF GivesUp, Ends, sources
  <2>2. Through' /\ Finished'
    BY <1>0, <2>1 DEF Through, Finished, Awaited, queue
  <2> QED BY <1>a, <1>1, <2>1, <2>2 DEF JInv
<1>9. CASE UNCHANGED vars
  <2>1. UNCHANGED <<phase, pos, test, stage>> BY <1>9 DEF vars, sources, main
  <2>2. Through' /\ Finished'
    BY <1>0, <2>1 DEF Through, Finished, Awaited, queue
  <2>3. UNCHANGED <<test, verdict, taken, delivered, broken, disturbed, blind_cycles>>
    BY <1>9 DEF vars, main, observer, monitors
  <2>4. Contract' <=> Contract BY <2>3 DEF Contract, Select, queue
  <2>5. VerdictIsContract' BY <2>3, <2>4 DEF JInv, VerdictIsContract
  <2> QED BY <1>a, <2>2, <2>5 DEF JInv
<1> QED BY <1>2, <1>3, <1>4, <1>5, <1>6, <1>7, <1>8, <1>9 DEF Next, Script

\* check_all and the tests' own assertions pass a crossbar that kept the
\* contract before the monitors' eyes and fail every other, whatever the
\* crossbar does, however many ports it has and whatever is sent: the markers
\* lose no fault, and accuse no crossbar wrongly.
THEOREM VerdictHolds == Spec => []VerdictIsContract
<1>1. JInv => VerdictIsContract BY DEF JInv
<1> QED BY <1>1, InitJInv, NextJInv, PTL DEF Spec
=============================================================================
