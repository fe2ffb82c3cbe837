------------------------- MODULE Collectives_proofs -------------------------
(***************************************************************************)
(* For any number of endpoints and members, any member order and any lane  *)
(* width: the reference model sums what the engine sums, stays within a    *)
(* lane while it does, and writes the outputs the collective promises.     *)
(***************************************************************************)
EXTENDS Collectives, LaneArithmetic_proofs, SequenceTheorems

\* What has been settled when control is where it is.
Control ==
    /\ pc = "call" => n = 0 /\ acc = ZeroBeat
    /\ pc \in {"reducing", "returned"} => WellFormed /\ Missing = {}
    /\ pc = "reducing" => kind # "BCAST"
    /\ pc = "returned" =>
          IF kind = "BCAST"
          THEN out = Written(Member, in_bufs[root])
          ELSE n = Len(members) /\ out = Written(Receivers, acc)

\* A tuple of any length is a sequence.
LEMMA TupleIsSeq ==
    ASSUME NEW S, NEW k \in Nat, NEW s \in [1 .. k -> S]
    PROVE  s \in Seq(S) /\ Len(s) = k /\ \A i \in 1 .. k : s[i] \in S
  OBVIOUS

\* A sequence in Seq(Slots) has slots for members.
LEMMA MembersAreSlots ==
    ASSUME members \in Seq(Slots)
    PROVE  /\ Len(members) \in Nat
           /\ \A i \in 1 .. Len(members) : members[i] \in Slots
           /\ Member \subseteq Slots
  BY DEF Member

\* Some endpoints' buffers are beats, and so is what the engine is given.
LEMMA BuffersAreBeats ==
    ASSUME in_bufs \in Buffers
    PROVE  /\ DOMAIN in_bufs \subseteq Slots
           /\ \A e \in DOMAIN in_bufs : in_bufs[e] \in Beat
           /\ Ports \in Operands
<1>1. PICK E \in SUBSET Slots : in_bufs \in [E -> Beat]
  BY DEF Buffers
<1>2. DOMAIN in_bufs = E /\ \A e \in E : in_bufs[e] \in Beat
  BY <1>1
<1>3. ZeroBeat \in Beat
  BY LaneAssumption DEF ZeroBeat, Beat, Lane
<1>4. Ports \in Operands
  BY <1>2, <1>3 DEF Ports, Operands
<1>5. QED
  BY <1>2, <1>4

\* The outputs written to some endpoints are outputs.
LEMMA WrittenIsOutput ==
    ASSUME in_bufs \in Buffers, NEW receivers, NEW beat \in Beat
    PROVE  Written(receivers, beat) \in Outputs
<1>1. DOMAIN in_bufs \in SUBSET Slots
  BY BuffersAreBeats
<1>2. Written(receivers, beat)
        \in [DOMAIN in_bufs -> Beat \union {Unchanged}]
  BY DEF Written
<1>3. QED
  BY <1>1, <1>2 DEF Outputs

\* Adding a buffer lane by lane gives a beat.
LEMMA AddIsBeat ==
    ASSUME acc \in Beat, NEW buf \in Beat
    PROVE  Add(buf) \in Beat
<1>1. ASSUME NEW l \in Lanes PROVE (acc[l] + buf[l]) % LANE_MOD \in Lane
  <2>1. acc[l] \in Lane /\ buf[l] \in Lane /\ LANE_MOD \in Nat \ {0}
    BY LaneAssumption DEF Beat
  <2>2. QED
    BY <2>1, Wrap DEF Lane
<1>2. QED
  BY <1>1 DEF Add, Beat

\* The buffer the next iteration adds is there, and a beat.
LEMMA NextBuffer ==
    ASSUME TypeOK, Control, pc = "reducing", n < Len(members)
    PROVE  /\ n + 1 \in 1 .. Len(members)
           /\ members[n + 1] \in Slots
           /\ members[n + 1] \in DOMAIN in_bufs
           /\ in_bufs[members[n + 1]] \in Beat
<1>1. n + 1 \in 1 .. Len(members) /\ members[n + 1] \in Slots
  BY MembersAreSlots DEF TypeOK
<1>2. members[n + 1] \in DOMAIN in_bufs
  BY <1>1 DEF Control, Missing, Member
<1>3. QED
  BY <1>1, <1>2, BuffersAreBeats DEF TypeOK
-----------------------------------------------------------------------------
LEMMA InitTyped == Init => TypeOK /\ Control
<1> SUFFICES ASSUME Init PROVE TypeOK /\ Control
  OBVIOUS
<1>1. members \in Seq(Slots) /\ Len(members) \in Nat
  <2>1. PICK k \in 0 .. MaxMembers : members \in [1 .. k -> Slots]
    BY DEF Init
  <2>2. k \in Nat
    BY <2>1, CollectivesAssumption
  <2>3. QED
    BY <2>1, <2>2, TupleIsSeq
<1>2. ZeroBeat \in Beat
  BY LaneAssumption DEF ZeroBeat, Beat, Lane
<1>3. out \in Outputs
  <2>1. out \in [{} -> Beat \union {Unchanged}]
    BY DEF Init
  <2>2. QED
    BY <2>1 DEF Outputs
<1>4. TypeOK
  BY <1>1, <1>2, <1>3 DEF Init, TypeOK
<1>5. Control
  BY DEF Init, Control
<1>6. QED
  BY <1>4, <1>5

LEMMA StepTyped == TypeOK /\ Control /\ [Next]_vars => TypeOK' /\ Control'
<1> SUFFICES ASSUME TypeOK, Control, [Next]_vars
             PROVE  TypeOK' /\ Control'
  OBVIOUS
<1> USE DEF collective
<1>1. CASE Reject
  BY <1>1 DEF Reject, TypeOK, Control, Outputs, Buffers
<1>2. CASE Broadcast
  <2>1. in_bufs[root] \in Beat
    BY <1>2, BuffersAreBeats DEF Broadcast, WellFormed, Missing, TypeOK
  <2>2. Written(Member, in_bufs[root]) \in Outputs
    BY <2>1, WrittenIsOutput DEF TypeOK
  <2>3. TypeOK'
    BY <1>2, <2>2 DEF Broadcast, TypeOK, Outputs, Buffers
  <2>4. Control'
    BY <1>2 DEF Broadcast, Control, WellFormed, Missing, Member, Written
  <2>5. QED
    BY <2>3, <2>4
<1>3. CASE Reduce
  BY <1>3 DEF Reduce, TypeOK, Control, WellFormed, Missing, Member, Outputs, Buffers
<1>4. CASE AddBuffer
  <2>1. Add(in_bufs[members[n + 1]]) \in Beat
    BY <1>4, NextBuffer, AddIsBeat DEF AddBuffer, TypeOK
  <2>2. n + 1 \in Nat /\ n + 1 <= Len(members)
    BY <1>4, NextBuffer, MembersAreSlots DEF AddBuffer, TypeOK
  <2>3. TypeOK'
    BY <1>4, <2>1, <2>2 DEF AddBuffer, TypeOK, Outputs, Buffers
  <2>4. Control'
    BY <1>4 DEF AddBuffer, Control, WellFormed, Missing, Member
  <2>5. QED
    BY <2>3, <2>4
<1>5. CASE Return
  <2>1. Written(Receivers, acc) \in Outputs
    BY WrittenIsOutput DEF TypeOK
  <2>2. TypeOK'
    BY <1>5, <2>1 DEF Return, TypeOK, Outputs, Buffers
  <2>3. Control'
    BY <1>5 DEF Return, Control, WellFormed, Missing, Member, Written, Receivers
  <2>4. QED
    BY <2>2, <2>3
<1>6. CASE UNCHANGED vars
  BY <1>6 DEF vars, TypeOK, Control, WellFormed, Missing, Member, Written,
              Receivers, Outputs, Buffers
<1>7. QED
  BY <1>1, <1>2, <1>3, <1>4, <1>5, <1>6 DEF Next

\* Every variable keeps its type, the accumulator a lane per lane included
\* (reduce_lanes masks every carry), for any number of endpoints.
THEOREM TypeCorrect == Spec => []TypeOK
<1>1. QED
  BY InitTyped, StepTyped, PTL DEF Spec
-----------------------------------------------------------------------------
\* Before the loop nothing is in the sum.
LEMMA EmptyPrefix ==
    ASSUME TypeOK
    PROVE  sum_c({members[i] : i \in 1 .. 0}, Ports) = ZeroBeat
<1>1. {members[i] : i \in 1 .. 0} = {}
  OBVIOUS
<1>2. Ports \in Operands
  BY BuffersAreBeats DEF TypeOK
<1>3. QED
  BY <1>1, <1>2, SumOfNone

\* One iteration adds the next member to both sums.
LEMMA NextPrefix ==
    ASSUME TypeOK, Control, pc = "reducing", n < Len(members),
           acc = sum_c({members[i] : i \in 1 .. n}, Ports)
    PROVE  Add(in_bufs[members[n + 1]])
             = sum_c({members[i] : i \in 1 .. n + 1}, Ports)
<1> DEFINE done == {members[i] : i \in 1 .. n}
           m    == members[n + 1]
<1>1. /\ n + 1 \in 1 .. Len(members)
      /\ m \in Slots /\ m \in DOMAIN in_bufs /\ n \in Nat
  BY NextBuffer DEF TypeOK
<1>2. m \notin done
  <2>1. \A i \in 1 .. n : i \in 1 .. Len(members) /\ i # n + 1
    BY <1>1, MembersAreSlots DEF TypeOK
  <2>2. QED
    BY <1>1, <2>1 DEF Control, WellFormed
<1>3. {members[i] : i \in 1 .. n + 1} = done \union {m}
  <2>1. 1 .. n + 1 = 1 .. n \union {n + 1}
    BY <1>1
  <2>2. QED
    BY <2>1
<1>4. Ports \in Operands /\ Ports[m] = in_bufs[m]
  BY <1>1, BuffersAreBeats DEF TypeOK, Ports
<1>5. acc = sum_c(done, Ports)
  OBVIOUS
<1> HIDE DEF done, m
<1>6. ASSUME NEW l \in Lanes
      PROVE  sum_c(done \union {m}, Ports)[l]
               = (sum_c(done, Ports)[l] + Ports[m][l]) % LANE_MOD
  <2>1. m \in Slots /\ m \notin done /\ Ports \in Operands
    BY <1>1, <1>2, <1>4
  <2>2. QED
    BY <2>1, AddMemberLane, Zenon
<1>7. sum_c(done \union {m}, Ports)
        = [l \in Lanes |-> sum_c(done \union {m}, Ports)[l]]
  BY DEF sum_c
<1>8. Add(in_bufs[m])
        = [l \in Lanes |-> (sum_c(done, Ports)[l] + Ports[m][l]) % LANE_MOD]
  BY <1>4, <1>5 DEF Add
<1>9. Add(in_bufs[m]) = sum_c(done \union {m}, Ports)
  BY <1>6, <1>7, <1>8
<1>10. QED
  BY <1>3, <1>9 DEF m

LEMMA StepSums ==
    TypeOK /\ Control /\ PartialSumIsEngineSum /\ [Next]_vars
        => PartialSumIsEngineSum'
<1> SUFFICES ASSUME TypeOK, Control, PartialSumIsEngineSum, [Next]_vars
             PROVE  PartialSumIsEngineSum'
  OBVIOUS
<1> USE DEF collective
\* The call has not begun to add: the sum over no member is zero.
<1>0. ASSUME pc = "call", UNCHANGED <<collective, in_bufs, n, acc>>
      PROVE  PartialSumIsEngineSum'
  <2>1. n = 0 /\ acc = ZeroBeat
    BY <1>0 DEF Control
  <2>2. acc = sum_c({members[i] : i \in 1 .. n}, Ports)
    BY <2>1, EmptyPrefix
  <2>3. QED
    BY <1>0, <2>2 DEF PartialSumIsEngineSum, Ports
<1>1. CASE Reject
  BY <1>1, <1>0 DEF Reject
<1>2. CASE Broadcast
  BY <1>2, <1>0 DEF Broadcast
<1>3. CASE Reduce
  BY <1>3, <1>0 DEF Reduce
<1>4. CASE AddBuffer
  <2>1. acc' = sum_c({members[i] : i \in 1 .. n + 1}, Ports)
    BY <1>4, NextPrefix DEF AddBuffer, PartialSumIsEngineSum
  <2>2. n' = n + 1 /\ members' = members /\ Ports' = Ports
    BY <1>4 DEF AddBuffer, Ports
  <2>3. QED
    BY <2>1, <2>2 DEF PartialSumIsEngineSum
<1>5. CASE Return
  <2>1. acc = sum_c({members[i] : i \in 1 .. n}, Ports)
    BY <1>5 DEF Return, PartialSumIsEngineSum
  <2>2. acc' = acc /\ n' = n /\ members' = members /\ Ports' = Ports
    BY <1>5 DEF Return, Ports
  <2>3. QED
    BY <2>1, <2>2 DEF PartialSumIsEngineSum
<1>6. CASE UNCHANGED vars
  BY <1>6 DEF vars, PartialSumIsEngineSum, Ports
<1>7. QED
  BY <1>1, <1>2, <1>3, <1>4, <1>5, <1>6 DEF Next

\* The reference and the engine agree after every buffer, whatever the order
\* of the members (reduce_lanes against sum_c).
THEOREM ReferenceIsEngine == Spec => []PartialSumIsEngineSum
<1>1. Init => PartialSumIsEngineSum
  BY DEF Init, PartialSumIsEngineSum
<1>2. QED
  BY <1>1, InitTyped, StepTyped, StepSums, PTL DEF Spec

LEMMA ReturnedAsPromised ==
    TypeOK /\ Control /\ PartialSumIsEngineSum => OutputsAsPromised
<1> SUFFICES ASSUME TypeOK, Control, PartialSumIsEngineSum, pc = "returned"
             PROVE  /\ Member \subseteq DOMAIN out
                    /\ \A e \in DOMAIN out :
                          out[e] = IF Receives(e) THEN Promise ELSE Unchanged
  BY DEF OutputsAsPromised
<1>1. Member \subseteq DOMAIN in_bufs /\ root \in Member
  BY DEF Control, Missing, WellFormed
<1>2. CASE kind = "BCAST"
  <2>1. out = Written(Member, in_bufs[root])
    BY <1>2 DEF Control
  <2>2. \A e : Receives(e) <=> e \in Member
    BY <1>2 DEF Receives
  <2>3. Promise = in_bufs[root]
    BY <1>2 DEF Promise
  <2>4. QED
    BY <1>1, <2>1, <2>2, <2>3 DEF Written
<1>3. CASE kind # "BCAST"
  <2>1. n = Len(members) /\ out = Written(Receivers, acc)
    BY <1>3 DEF Control
  <2>2. \A e : Receives(e) <=> e \in Receivers
    BY <1>1 DEF Receives, Receivers
  <2>3. Promise = acc
    <3>1. acc = sum_c({members[i] : i \in 1 .. n}, Ports)
      BY DEF PartialSumIsEngineSum
    <3>2. Member = {members[i] : i \in 1 .. n}
      BY <2>1 DEF Member
    <3>3. QED
      BY <1>3, <3>1, <3>2 DEF Promise
  <2>4. QED
    BY <1>1, <2>1, <2>2, <2>3 DEF Written
<1>4. QED
  BY <1>2, <1>3

\* Every endpoint is left with what its collective promises it.
THEOREM PromiseKept == Spec => []OutputsAsPromised
<1>1. Spec => [](TypeOK /\ Control /\ PartialSumIsEngineSum)
  <2>1. Init => TypeOK /\ Control /\ PartialSumIsEngineSum
    BY InitTyped DEF Init, PartialSumIsEngineSum
  <2>2. QED
    BY <2>1, StepTyped, StepSums, PTL DEF Spec
<1>2. QED
  BY <1>1, ReturnedAsPromised, PTL
=============================================================================
