----------------------- MODULE ReductionEngine_proofs -----------------------
(***************************************************************************)
(* The reduction engine keeps its promises for every number of slots,      *)
(* lanes and stages.  The inductive invariant says where each pending set  *)
(* is: a set which has seen a edges of progress is in stage a - 1, every   *)
(* valid stage holds a pending set, and older sets are strictly further    *)
(* along.                                                                  *)
(***************************************************************************)
EXTENDS ReductionEngine, LaneArithmetic_proofs, SequenceTheorems

\* Under reset nothing is recorded and nothing is offered, and once reset has
\* taken effect the pipeline is empty.
ResetInv ==
    /\ ~rst_n => sent = <<>> /\ got = <<>> /\ ~op_valid
    /\ ~rst_n /\ cleared => \A s \in Stages : ~vld_q[s]

\* The bound on the client is respected by the offer it is making.
OfferInv == op_valid => Len(sent) < MaxSets

\* Where the pending sets are.
PendingInPipeline ==
    rst_n => \A n \in Pending :
                /\ age[n] \in 1 .. RED_LATENCY
                /\ vld_q[age[n] - 1]
                /\ [data |-> data_q[age[n] - 1], id |-> id_q[age[n] - 1]]
                       = Expected(sent[n])

\* Nothing else is in the pipeline.
PipelineIsPending ==
    rst_n => \A s \in Stages : vld_q[s] => \E n \in Pending : age[n] = s + 1

\* Older sets are further along, and a set is at least as far along as there
\* are sets behind it.
OlderIsFurther ==
    rst_n => /\ \A m, n \in Pending : m < n => age[m] > age[n]
             /\ \A n \in Pending : age[n] > Len(sent) - n

IInv ==
    /\ TypeOK
    /\ InOrderExactlyOnce
    /\ ResetInv
    /\ OfferInv
    /\ PendingInPipeline
    /\ PipelineIsPending
    /\ OlderIsFurther
-----------------------------------------------------------------------------
LEMMA StagesFacts ==
    /\ RED_LATENCY \in Nat \ {0}
    /\ Last \in Stages
    /\ 0 \in Stages
    /\ \A s \in Stages : s \in Nat /\ s < RED_LATENCY /\ s <= Last
    /\ \A s \in Stages : s # 0 => s - 1 \in Stages
    /\ \A s \in Stages : s # Last => s + 1 \in Stages
    /\ \A a \in 1 .. RED_LATENCY : a - 1 \in Stages
  BY EngineAssumption DEF Stages, Last

LEMMA OfferFacts ==
    \A o \in Offers : /\ o.mask \in SUBSET Slots
                      /\ o.data \in Operands
                      /\ o.id \in Ids
                      /\ sum_c(o.mask, o.data) \in Beat
                      /\ Expected(o) \in Result
<1> SUFFICES ASSUME NEW o \in Offers
             PROVE  /\ o.mask \in SUBSET Slots
                    /\ o.data \in Operands
                    /\ o.id \in Ids
                    /\ sum_c(o.mask, o.data) \in Beat
                    /\ Expected(o) \in Result
  OBVIOUS
<1>1. o \in [mask : SUBSET Slots, data : Operands, id : Ids]
  BY EngineAssumption
<1>2. sum_c(o.mask, o.data) \in Beat
  BY <1>1, SumIsBeat
<1>3. QED
  BY <1>1, <1>2 DEF Expected, Result

LEMMA ZeroBeatType == ZeroBeat \in Beat
  BY LaneAssumption DEF ZeroBeat, Beat, Lane

\* A sequence given by its elements.
LEMMA SeqOfNats ==
    ASSUME NEW k \in Nat, NEW f \in [1 .. k -> Nat]
    PROVE  f \in Seq(Nat) /\ Len(f) = k
  OBVIOUS

LEMMA InitIInv == Init => IInv
<1> SUFFICES ASSUME Init PROVE IInv
  OBVIOUS
<1>1. TypeOK
  <2>1. sent \in Seq(Offers) /\ got \in Seq(Result) /\ age \in Seq(Nat)
    BY EmptySeq DEF Init
  <2>2. Len(age) = Len(sent) /\ Len(sent) <= MaxSets
    BY EngineAssumption DEF Init
  <2>3. QED
    BY <2>1, <2>2, Zenon DEF Init, TypeOK
<1>2. QED
  BY <1>1 DEF Init, IInv, InOrderExactlyOnce, ResetInv, OfferInv,
              PendingInPipeline, PipelineIsPending, OlderIsFurther, Pending
-----------------------------------------------------------------------------
\* The oldest pending set is the one on the output.
LEMMA OutputIsOldest ==
    ASSUME IInv, rst_n, res_valid
    PROVE  /\ Len(got) + 1 \in Pending
           /\ age[Len(got) + 1] = RED_LATENCY
           /\ [data |-> res_data, id |-> res_id] = Expected(sent[Len(got) + 1])
<1>1. PICK n \in Pending : age[n] = Last + 1
  BY StagesFacts DEF IInv, PipelineIsPending, res_valid
<1>2. Len(got) \in Nat /\ Len(sent) \in Nat
  BY DEF IInv, TypeOK
<1>3. Len(got) + 1 \in Pending
  BY <1>1, <1>2 DEF Pending
<1>4. age[n] = RED_LATENCY /\ age[n] - 1 = Last
  BY <1>1, StagesFacts DEF Last
<1>5. n = Len(got) + 1
  <2> SUFFICES ASSUME n # Len(got) + 1 PROVE FALSE
    OBVIOUS
  <2>1. Len(got) + 1 < n
    BY <1>1, <1>2 DEF Pending
  <2>2. age[Len(got) + 1] > age[n]
    BY <1>1, <1>3, <2>1 DEF IInv, OlderIsFurther
  <2>3. age[Len(got) + 1] \in 1 .. RED_LATENCY
    BY <1>3 DEF IInv, PendingInPipeline
  <2>4. QED
    BY <1>4, <2>2, <2>3, StagesFacts
<1>6. [data |-> data_q[age[n] - 1], id |-> id_q[age[n] - 1]] = Expected(sent[n])
  BY <1>1 DEF IInv, PendingInPipeline
<1>7. QED
  BY <1>3, <1>4, <1>5, <1>6 DEF res_data, res_id

\* The record after an edge.
LEMMA ObserveFacts ==
    ASSUME IInv, rst_n, ObserveChannels
    PROVE  /\ sent' \in Seq(Offers)
           /\ Len(sent') = Len(sent) + (IF Accepting THEN 1 ELSE 0)
           /\ \A n \in 1 .. Len(sent) : sent'[n] = sent[n]
           /\ Accepting => sent'[Len(sent) + 1] = op
           /\ got' \in Seq(Result)
           /\ Len(got') = Len(got) + (IF Delivering THEN 1 ELSE 0)
           /\ \A n \in 1 .. Len(got) : got'[n] = got[n]
           /\ Delivering => got'[Len(got) + 1] = [data |-> res_data, id |-> res_id]
           /\ age' \in Seq(Nat)
           /\ Len(age') = Len(sent')
           /\ \A n \in 1 .. Len(sent') :
                 age'[n] = IF n > Len(sent) THEN 1
                           ELSE IF n > Len(got') /\ ~stall THEN age[n] + 1
                           ELSE age[n]
<1>t. TypeOK
  BY DEF IInv
<1>1. /\ sent' \in Seq(Offers)
      /\ Len(sent') = Len(sent) + (IF Accepting THEN 1 ELSE 0)
      /\ \A n \in 1 .. Len(sent) : sent'[n] = sent[n]
      /\ Accepting => sent'[Len(sent) + 1] = op
  <2>1. CASE Accepting
    BY <1>t, <2>1 DEF ObserveChannels, TypeOK
  <2>2. CASE ~Accepting
    BY <1>t, <2>2 DEF ObserveChannels, TypeOK
  <2>3. QED
    BY <2>1, <2>2
<1>2. /\ got' \in Seq(Result)
      /\ Len(got') = Len(got) + (IF Delivering THEN 1 ELSE 0)
      /\ \A n \in 1 .. Len(got) : got'[n] = got[n]
      /\ Delivering => got'[Len(got) + 1] = [data |-> res_data, id |-> res_id]
  <2>1. CASE Delivering
    <3>1. [data |-> res_data, id |-> res_id] \in Result
      BY <1>t, StagesFacts DEF TypeOK, Result, res_data, res_id
    <3>2. QED
      BY <1>t, <2>1, <3>1 DEF ObserveChannels, TypeOK
  <2>2. CASE ~Delivering
    BY <1>t, <2>2 DEF ObserveChannels, TypeOK
  <2>3. QED
    BY <2>1, <2>2
<1>3. /\ age' \in Seq(Nat)
      /\ Len(age') = Len(sent')
      /\ \A n \in 1 .. Len(sent') :
            age'[n] = IF n > Len(sent) THEN 1
                      ELSE IF n > Len(got') /\ ~stall THEN age[n] + 1
                      ELSE age[n]
  <2> DEFINE f == [n \in 1 .. Len(sent') |->
                      IF n > Len(sent) THEN 1
                      ELSE IF n > Len(got') /\ ~stall THEN age[n] + 1
                      ELSE age[n]]
  <2>1. age' = f
    BY DEF ObserveChannels
  <2>2. Len(sent') \in Nat
    BY <1>1
  <2>3. ASSUME NEW n \in 1 .. Len(sent'), n <= Len(sent) PROVE age[n] \in Nat
    BY <1>t, <1>1, <2>3 DEF TypeOK
  <2>4. f \in [1 .. Len(sent') -> Nat]
    BY <1>t, <2>2, <2>3 DEF TypeOK
  <2>5. f \in Seq(Nat) /\ Len(f) = Len(sent')
    BY <2>2, <2>4, SeqOfNats
  <2>6. QED
    BY <2>1, <2>5
<1>4. QED
  BY <1>1, <1>2, <1>3

\* Client and consumer drive well-typed wires, and no offer beyond the bound.
LEMMA DrivesFacts ==
    ASSUME IInv, Tick
    PROVE  /\ op_valid' \in BOOLEAN /\ op' \in Offers /\ res_ready' \in BOOLEAN
           /\ Len(sent') <= MaxSets
           /\ OfferInv'
<1>1. ObserveChannels /\ ClientDrives /\ ConsumerDrives /\ rst_n
  BY DEF Tick
<1>2. /\ Len(sent') = Len(sent) + (IF Accepting THEN 1 ELSE 0)
      /\ Len(sent) \in Nat /\ MaxSets \in Nat
  BY <1>1, ObserveFacts, EngineAssumption DEF IInv, TypeOK
<1>3. Len(sent) <= MaxSets /\ (op_valid => Len(sent) < MaxSets)
  BY DEF IInv, TypeOK, OfferInv
<1>4. Len(sent') <= MaxSets
  BY <1>2, <1>3 DEF Accepting
<1>5. CASE op_valid /\ ~op_ready
  <2>1. op_valid' = op_valid /\ op' = op
    BY <1>1, <1>5 DEF ClientDrives
  <2>2. ~Accepting
    BY <1>5 DEF Accepting
  <2>3. QED
    BY <1>1, <1>2, <1>3, <1>4, <2>1, <2>2 DEF IInv, TypeOK, OfferInv, ConsumerDrives
<1>6. CASE ~(op_valid /\ ~op_ready)
  <2>1. CASE op_valid' = FALSE /\ op' = op
    BY <1>1, <1>4, <2>1 DEF IInv, TypeOK, OfferInv, ConsumerDrives
  <2>2. CASE Len(sent') < MaxSets /\ op_valid' = TRUE /\ op' \in Offers
    BY <1>1, <1>4, <2>2 DEF OfferInv, ConsumerDrives
  <2>3. QED
    BY <1>1, <1>6, <2>1, <2>2 DEF ClientDrives
<1>7. QED
  BY <1>5, <1>6

\* The pipeline registers keep their types.
LEMMA RegisterTypes ==
    ASSUME IInv, ClockRegisters
    PROVE  /\ vld_q' \in [Stages -> BOOLEAN]
           /\ data_q' \in [Stages -> Beat]
           /\ id_q' \in [Stages -> Ids]
<1>1. CASE stall /\ UNCHANGED registers
  BY <1>1 DEF IInv, TypeOK, registers
<1>2. CASE Shift
  <2>1. sum_c(op.mask, op.data) \in Beat /\ op.id \in Ids /\ op_valid \in BOOLEAN
    BY OfferFacts DEF IInv, TypeOK
  <2>2. QED
    BY <1>2, <2>1, StagesFacts DEF IInv, TypeOK, Shift
<1>3. QED
  BY <1>1, <1>2 DEF ClockRegisters

\* The results handed over stay in order across an edge.
LEMMA TickInOrder ==
    ASSUME IInv, Tick PROVE InOrderExactlyOnce'
<1>1. ObserveChannels /\ rst_n
  BY DEF Tick
<1>2. /\ Len(sent) \in Nat /\ Len(got) \in Nat /\ Len(got) <= Len(sent)
      /\ \A n \in 1 .. Len(got) : got[n] = Expected(sent[n])
  BY DEF IInv, TypeOK, InOrderExactlyOnce
<1>3. CASE Delivering
  <2>1. /\ Len(got) + 1 \in Pending
        /\ [data |-> res_data, id |-> res_id] = Expected(sent[Len(got) + 1])
    BY <1>1, <1>3, OutputIsOldest DEF Delivering
  <2>2. Len(got') = Len(got) + 1 /\ Len(got') <= Len(sent')
    BY <1>1, <1>2, <1>3, <2>1, ObserveFacts DEF Pending
  <2>3. ASSUME NEW n \in 1 .. Len(got') PROVE got'[n] = Expected(sent'[n])
    <3>1. sent'[n] = sent[n]
      BY <1>1, <1>2, <2>1, <2>2, ObserveFacts DEF Pending
    <3>2. CASE n = Len(got) + 1
      BY <1>1, <1>3, <2>1, <3>1, <3>2, ObserveFacts
    <3>3. CASE n # Len(got) + 1
      <4>1. n \in 1 .. Len(got)
        BY <1>2, <2>2, <3>3
      <4>2. got'[n] = got[n]
        BY <1>1, <4>1, ObserveFacts
      <4>3. QED
        BY <1>2, <3>1, <4>1, <4>2
    <3>4. QED
      BY <3>2, <3>3
  <2>4. QED
    BY <2>2, <2>3 DEF InOrderExactlyOnce, Expected
<1>4. CASE ~Delivering
  <2>1. Len(got') = Len(got) /\ Len(got') <= Len(sent')
    BY <1>1, <1>2, <1>4, ObserveFacts
  <2>2. ASSUME NEW n \in 1 .. Len(got') PROVE got'[n] = Expected(sent'[n])
    <3>1. n \in 1 .. Len(got) /\ n \in 1 .. Len(sent)
      BY <1>2, <2>1
    <3>2. got'[n] = got[n] /\ sent'[n] = sent[n]
      BY <1>1, <3>1, ObserveFacts
    <3>3. QED
      BY <1>2, <3>1, <3>2
  <2>3. QED
    BY <2>1, <2>2 DEF InOrderExactlyOnce, Expected
<1>5. QED
  BY <1>3, <1>4

\* Where the pending sets are after an edge at which the output waits.
LEMMA StalledTick ==
    ASSUME IInv, Tick, stall
    PROVE  PendingInPipeline' /\ PipelineIsPending' /\ OlderIsFurther'
<1>1. ~Accepting /\ ~Delivering
  BY DEF stall, Accepting, Delivering, op_ready
<1>2. rst_n /\ rst_n' /\ ObserveChannels
  BY DEF Tick
<1>3. UNCHANGED <<vld_q, data_q, id_q, sent, got>>
  BY <1>1 DEF Tick, ClockRegisters, ObserveChannels, registers
<1>4. Pending' = Pending
  BY <1>3 DEF Pending
<1>5. ASSUME NEW n \in Pending PROVE age'[n] = age[n]
  <2>1. n \in 1 .. Len(sent') /\ n <= Len(sent)
    BY <1>3 DEF Pending, IInv, TypeOK
  <2>2. QED
    BY <1>2, <2>1, ObserveFacts
<1>6. PendingInPipeline'
  BY <1>2, <1>3, <1>4, <1>5 DEF IInv, PendingInPipeline, Expected
<1>7. PipelineIsPending'
  BY <1>2, <1>3, <1>4, <1>5 DEF IInv, PipelineIsPending
<1>8. OlderIsFurther'
  BY <1>2, <1>3, <1>4, <1>5 DEF IInv, OlderIsFurther
<1>9. QED
  BY <1>6, <1>7, <1>8

\* Where the pending sets are after an edge at which the pipeline moves.
LEMMA MovingTick ==
    ASSUME IInv, Tick, ~stall
    PROVE  PendingInPipeline' /\ PipelineIsPending' /\ OlderIsFurther'
<1>1. rst_n /\ rst_n' /\ ObserveChannels /\ Shift
  BY DEF Tick, ClockRegisters
<1>2. /\ Len(sent) \in Nat /\ Len(got) \in Nat /\ Len(got) <= Len(sent)
      /\ op \in Offers
  BY DEF IInv, TypeOK, InOrderExactlyOnce
<1>3. Accepting <=> op_valid
  BY DEF Accepting, op_ready
<1>4. Delivering <=> res_valid
  BY DEF Delivering, stall
<1>5. /\ Len(sent') = Len(sent) + (IF op_valid THEN 1 ELSE 0)
      /\ Len(got') = Len(got) + (IF res_valid THEN 1 ELSE 0)
  BY <1>1, <1>3, <1>4, ObserveFacts
\* The sets still pending after the edge, other than the one just taken, are
\* short of the output stage, and move one stage on.
<1>6. ASSUME NEW n \in Pending', n <= Len(sent)
      PROVE  /\ n \in Pending
             /\ age[n] \in 1 .. Last
             /\ age'[n] = age[n] + 1
             /\ sent'[n] = sent[n]
  <2>1. n \in Pending /\ n > Len(got') /\ n \in 1 .. Len(sent')
    BY <1>2, <1>5, <1>6 DEF Pending
  <2>2. age'[n] = age[n] + 1 /\ sent'[n] = sent[n]
    BY <1>1, <1>2, <1>6, <2>1, ObserveFacts
  <2>3. age[n] \in 1 .. RED_LATENCY
    BY <1>1, <2>1 DEF IInv, PendingInPipeline
  <2>4. age[n] # RED_LATENCY
    <3>1. CASE res_valid
      <4>1. Len(got) + 1 \in Pending /\ age[Len(got) + 1] = RED_LATENCY
        BY <1>1, <3>1, OutputIsOldest
      <4>2. Len(got) + 1 < n
        BY <1>2, <1>5, <2>1, <3>1
      <4>3. age[Len(got) + 1] > age[n]
        BY <1>1, <2>1, <4>1, <4>2 DEF IInv, OlderIsFurther
      <4>4. QED
        BY <2>3, <4>1, <4>3, StagesFacts
    <3>2. CASE ~res_valid
      <4>1. vld_q[age[n] - 1]
        BY <1>1, <2>1 DEF IInv, PendingInPipeline
      <4>2. QED
        BY <3>2, <4>1 DEF res_valid, Last
    <3>3. QED
      BY <3>1, <3>2
  <2>5. QED
    BY <2>1, <2>2, <2>3, <2>4, StagesFacts DEF Last
<1>7. ASSUME NEW n \in Pending', n > Len(sent)
      PROVE  op_valid /\ n = Len(sent) + 1 /\ age'[n] = 1 /\ sent'[n] = op
  <2>1. op_valid /\ n = Len(sent) + 1 /\ n \in 1 .. Len(sent')
    BY <1>2, <1>5, <1>7 DEF Pending
  <2>2. QED
    BY <1>1, <1>3, <1>7, <2>1, ObserveFacts
<1>8. PendingInPipeline'
  <2>1. ASSUME NEW n \in Pending'
        PROVE  /\ age'[n] \in 1 .. RED_LATENCY
               /\ vld_q'[age'[n] - 1]
               /\ [data |-> data_q'[age'[n] - 1], id |-> id_q'[age'[n] - 1]]
                      = Expected(sent'[n])
    <3>1. CASE n <= Len(sent)
      <4>1. n \in Pending /\ age[n] \in 1 .. Last /\ age'[n] = age[n] + 1 /\ sent'[n] = sent[n]
        BY <1>6, <3>1
      <4>2. /\ vld_q[age[n] - 1]
            /\ [data |-> data_q[age[n] - 1], id |-> id_q[age[n] - 1]] = Expected(sent[n])
        BY <1>1, <4>1 DEF IInv, PendingInPipeline
      <4>3. age[n] \in Stages /\ age[n] # 0 /\ age'[n] - 1 = age[n] /\ age'[n] \in 1 .. RED_LATENCY
        BY <4>1, StagesFacts DEF Stages, Last
      <4>4. QED
        BY <1>1, <4>1, <4>2, <4>3 DEF Shift
    <3>2. CASE n > Len(sent)
      <4>1. op_valid /\ age'[n] = 1 /\ sent'[n] = op
        BY <1>7, <3>2
      <4>2. age'[n] - 1 = 0 /\ 0 \in Stages /\ age'[n] \in 1 .. RED_LATENCY
        BY <4>1, StagesFacts
      <4>3. QED
        BY <1>1, <4>1, <4>2 DEF Shift, Expected
    <3>3. QED
      BY <1>2, <1>5, <3>1, <3>2 DEF Pending
  <2>2. QED
    BY <2>1 DEF PendingInPipeline, Expected
<1>9. PipelineIsPending'
  <2>1. ASSUME NEW s \in Stages, vld_q'[s]
        PROVE  \E n \in Pending' : age'[n] = s + 1
    <3>1. CASE s = 0
      <4>1. op_valid
        BY <1>1, <2>1, <3>1 DEF Shift
      <4>2. Len(sent) + 1 \in Pending'
        BY <1>2, <1>5, <4>1, OutputIsOldest, <1>1 DEF Pending
      <4>3. age'[Len(sent) + 1] = 1
        BY <1>2, <1>7, <4>2
      <4>4. QED
        BY <3>1, <4>2, <4>3
    <3>2. CASE s # 0
      <4>1. vld_q[s - 1] /\ s - 1 \in Stages
        BY <1>1, <2>1, <3>2, StagesFacts DEF Shift
      <4>2. PICK n \in Pending : age[n] = (s - 1) + 1
        BY <1>1, <4>1 DEF IInv, PipelineIsPending
      <4>3. age[n] = s /\ s < RED_LATENCY
        BY <4>2, StagesFacts
      <4>4. res_valid => n # Len(got) + 1
        <5>1. res_valid => age[Len(got) + 1] = RED_LATENCY
          BY <1>1, OutputIsOldest
        <5>2. QED
          BY <4>3, <5>1, StagesFacts
      <4>5. n \in Pending' /\ n <= Len(sent)
        BY <1>2, <1>5, <4>2, <4>4 DEF Pending
      <4>6. QED
        BY <1>6, <4>3, <4>5
    <3>3. QED
      BY <3>1, <3>2
  <2>2. QED
    BY <2>1 DEF PipelineIsPending
<1>10. OlderIsFurther'
  <2>1. ASSUME NEW m \in Pending', NEW n \in Pending', m < n
        PROVE  age'[m] > age'[n]
    <3>1. m <= Len(sent)
      BY <1>2, <1>5, <2>1 DEF Pending
    <3>2. m \in Pending /\ age'[m] = age[m] + 1 /\ age[m] \in 1 .. Last
      BY <1>6, <3>1
    <3>3. CASE n <= Len(sent)
      <4>1. n \in Pending /\ age'[n] = age[n] + 1 /\ age[n] \in 1 .. Last
        BY <1>6, <3>3
      <4>2. age[m] > age[n]
        BY <1>1, <2>1, <3>2, <4>1 DEF IInv, OlderIsFurther
      <4>3. QED
        BY <3>2, <4>1, <4>2
    <3>4. CASE n > Len(sent)
      BY <1>7, <3>2, <3>4
    <3>5. QED
      BY <1>2, <1>5, <3>3, <3>4 DEF Pending
  <2>2. ASSUME NEW n \in Pending' PROVE age'[n] > Len(sent') - n
    <3>1. CASE n <= Len(sent)
      <4>1. n \in Pending /\ age'[n] = age[n] + 1 /\ age[n] \in 1 .. Last
        BY <1>6, <3>1
      <4>2. age[n] > Len(sent) - n
        BY <1>1, <4>1 DEF IInv, OlderIsFurther
      <4>3. n \in Nat
        BY <1>2, <4>1 DEF Pending
      <4>4. QED
        BY <1>2, <1>5, <4>1, <4>2, <4>3
    <3>2. CASE n > Len(sent)
      BY <1>2, <1>5, <1>7, <3>2
    <3>3. QED
      BY <1>2, <1>5, <3>1, <3>2 DEF Pending
  <2>3. QED
    BY <2>1, <2>2 DEF OlderIsFurther
<1>11. QED
  BY <1>8, <1>9, <1>10

LEMMA TickIInv == ASSUME IInv, Tick PROVE IInv'
<1>1. rst_n /\ rst_n' = rst_n /\ cleared' = cleared /\ ObserveChannels /\ ClockRegisters
  BY DEF Tick
<1>2. TypeOK'
  <2>1. /\ sent' \in Seq(Offers) /\ got' \in Seq(Result) /\ age' \in Seq(Nat)
        /\ Len(age') = Len(sent')
    BY <1>1, ObserveFacts
  <2>2. /\ vld_q' \in [Stages -> BOOLEAN] /\ data_q' \in [Stages -> Beat]
        /\ id_q' \in [Stages -> Ids]
    BY <1>1, RegisterTypes
  <2>3. /\ op_valid' \in BOOLEAN /\ op' \in Offers /\ res_ready' \in BOOLEAN
        /\ Len(sent') <= MaxSets
    BY DrivesFacts
  <2>4. rst_n' \in BOOLEAN /\ cleared' \in BOOLEAN
    BY <1>1 DEF IInv, TypeOK
  <2>5. QED
    BY <2>1, <2>2, <2>3, <2>4 DEF TypeOK
<1>3. InOrderExactlyOnce'
  BY TickInOrder
<1>4. ResetInv'
  BY <1>1 DEF ResetInv
<1>5. OfferInv'
  BY DrivesFacts
<1>6. PendingInPipeline' /\ PipelineIsPending' /\ OlderIsFurther'
  BY StalledTick, MovingTick
<1>7. QED
  BY <1>2, <1>3, <1>4, <1>5, <1>6 DEF IInv

\* The registers under reset.
LEMMA ClearFacts ==
    ASSUME ClearRegisters
    PROVE  /\ vld_q' \in [Stages -> BOOLEAN] /\ data_q' \in [Stages -> Beat]
           /\ id_q' \in [Stages -> Ids]
           /\ \A s \in Stages : ~vld_q'[s]
  BY ZeroBeatType, EngineAssumption DEF ClearRegisters

LEMMA ResetIInv ==
    ASSUME IInv, TickInReset \/ AssertReset PROVE IInv'
<1>1. /\ ~rst_n' /\ rst_n' = FALSE /\ cleared' = TRUE /\ op' = op /\ res_ready' \in BOOLEAN
      /\ ClearRegisters
  BY DEF TickInReset, AssertReset, ConsumerDrives, IInv, TypeOK
<1>2. op_valid' = FALSE /\ sent' = <<>> /\ got' = <<>> /\ age' \in Seq(Nat) /\ Len(age') = 0
  <2>1. CASE AssertReset
    BY <2>1 DEF AssertReset
  <2>2. CASE TickInReset
    <3>1. sent = <<>> /\ got = <<>> /\ op_valid = FALSE
      BY <2>2 DEF TickInReset, IInv, ResetInv, TypeOK
    <3>2. QED
      BY <2>2, <3>1 DEF TickInReset, IInv, TypeOK, record
  <2>3. QED
    BY <2>1, <2>2
<1>3. TypeOK'
  <2>1. sent' \in Seq(Offers) /\ got' \in Seq(Result) /\ Len(age') = Len(sent') /\ Len(sent') <= MaxSets
    BY <1>2, EmptySeq, EngineAssumption
  <2>2. op' \in Offers
    BY <1>1 DEF IInv, TypeOK
  <2>3. QED
    BY <1>1, <1>2, <2>1, <2>2, ClearFacts DEF TypeOK
<1>4. InOrderExactlyOnce'
  BY <1>2 DEF InOrderExactlyOnce
<1>5. ResetInv'
  BY <1>1, <1>2, ClearFacts DEF ResetInv
<1>6. OfferInv' /\ PendingInPipeline' /\ PipelineIsPending' /\ OlderIsFurther'
  BY <1>1, <1>2 DEF OfferInv, PendingInPipeline, PipelineIsPending, OlderIsFurther
<1>7. QED
  BY <1>3, <1>4, <1>5, <1>6 DEF IInv

LEMMA ReleaseIInv == ASSUME IInv, ReleaseReset PROVE IInv'
<1>1. /\ ~rst_n /\ cleared /\ rst_n' = TRUE
      /\ UNCHANGED <<cleared, op_valid, op, res_ready, vld_q, data_q, id_q, sent, got, age>>
  BY DEF ReleaseReset, wires, registers, record
<1>2. sent = <<>> /\ got = <<>> /\ ~op_valid /\ \A s \in Stages : ~vld_q[s]
  BY <1>1 DEF IInv, ResetInv
<1>3. TypeOK'
  BY <1>1 DEF IInv, TypeOK
<1>4. InOrderExactlyOnce' /\ ResetInv' /\ OfferInv'
  BY <1>1, <1>2 DEF IInv, InOrderExactlyOnce, ResetInv, OfferInv, Expected
<1>5. Pending' = {}
  BY <1>1, <1>2 DEF Pending
<1>6. PendingInPipeline' /\ PipelineIsPending' /\ OlderIsFurther'
  BY <1>1, <1>2, <1>5 DEF PendingInPipeline, PipelineIsPending, OlderIsFurther
<1>7. QED
  BY <1>3, <1>4, <1>6 DEF IInv

LEMMA StutterIInv == ASSUME IInv, UNCHANGED vars PROVE IInv'
  BY DEF IInv, vars, wires, registers, record, TypeOK, InOrderExactlyOnce, ResetInv,
         OfferInv, PendingInPipeline, PipelineIsPending, OlderIsFurther, Pending, Expected

LEMMA NextIInv == IInv /\ [Next]_vars => IInv'
  BY TickIInv, ResetIInv, ReleaseIInv, StutterIInv DEF Next

LEMMA IInvAlways == Spec => []IInv
<1>1. QED
  BY InitIInv, NextIInv, PTL DEF Spec
-----------------------------------------------------------------------------
\* Every reachable state is well typed and within the client's bound.
THEOREM TypeCorrect == Spec => []TypeOK
<1>1. IInv => TypeOK
  BY DEF IInv
<1>2. QED
  BY <1>1, IInvAlways, PTL

\* For every number of stages and whatever the backpressure and the resets,
\* results are handed over in the order in which the sets were taken, once
\* each, with the data and identifier of that set.
THEOREM ResultsInOrder == Spec => []InOrderExactlyOnce
<1>1. IInv => InOrderExactlyOnce
  BY DEF IInv
<1>2. QED
  BY <1>1, IInvAlways, PTL

\* For every number of stages, a result is on the output exactly when its set
\* has seen RED_LATENCY edges of forward progress.
THEOREM LatencyExact == Spec => []LatencyIsForwardProgress
<1>1. IInv => LatencyIsForwardProgress
  <2> SUFFICES ASSUME IInv, rst_n
               PROVE  /\ \A n \in Pending : age[n] <= RED_LATENCY
                      /\ res_valid <=> \E n \in Pending : age[n] = RED_LATENCY
    BY DEF LatencyIsForwardProgress
  <2>1. \A n \in Pending : age[n] \in 1 .. RED_LATENCY /\ vld_q[age[n] - 1]
    BY DEF IInv, PendingInPipeline
  <2>2. res_valid => \E n \in Pending : age[n] = RED_LATENCY
    BY OutputIsOldest
  <2>3. ASSUME NEW n \in Pending, age[n] = RED_LATENCY PROVE res_valid
    BY <2>1, <2>3 DEF res_valid, Last
  <2>4. QED
    BY <2>1, <2>2, <2>3, StagesFacts
<1>2. QED
  BY <1>1, IInvAlways, PTL

\* An offered result is held, unchanged, until it is accepted or reset.
THEOREM ResultHeld == Spec => ResultHeldUntilAccepted
<1>1. IInv /\ [Next]_vars
        => (rst_n /\ rst_n' /\ res_valid /\ ~res_ready
              => res_valid' /\ res_data' = res_data /\ res_id' = res_id)
  <2> SUFFICES ASSUME IInv, [Next]_vars, rst_n, rst_n', res_valid, ~res_ready
               PROVE  res_valid' /\ res_data' = res_data /\ res_id' = res_id
    OBVIOUS
  <2>1. UNCHANGED registers
    <3>1. CASE Tick
      BY <3>1 DEF Tick, ClockRegisters, stall
    <3>2. CASE UNCHANGED vars
      BY <3>2 DEF vars
    <3>3. QED
      BY <3>1, <3>2 DEF Next, TickInReset, AssertReset, ReleaseReset
  <2>2. QED
    BY <2>1 DEF registers, res_valid, res_data, res_id
<1>2. QED
  BY <1>1, IInvAlways, PTL DEF Spec, ResultHeldUntilAccepted
-----------------------------------------------------------------------------
\* An edge is a step of the queue: it takes a set, hands one back, does both
\* or does neither, and never takes one more than the stages can hold.
LEMMA TickIsFifoStep ==
    ASSUME IInv, Tick
    PROVE  Fifo!FifoNext \/ UNCHANGED <<sent, got>>
<1>1. rst_n /\ ObserveChannels
  BY DEF Tick
<1>2. Len(sent) \in Nat /\ Len(got) \in Nat /\ op \in Offers
  BY DEF IInv, TypeOK
<1>3. Delivering =>
         /\ Len(sent) - Len(got) > 0
         /\ got' = Append(got, [o \in Offers |-> Expected(o)][sent[Len(got) + 1]])
  <2> SUFFICES ASSUME Delivering
               PROVE  /\ Len(sent) - Len(got) > 0
                      /\ got' = Append(got, [o \in Offers |-> Expected(o)][sent[Len(got) + 1]])
    OBVIOUS
  <2>1. /\ Len(got) + 1 \in Pending
        /\ [data |-> res_data, id |-> res_id] = Expected(sent[Len(got) + 1])
    BY <1>1, OutputIsOldest DEF Delivering
  <2>2. sent[Len(got) + 1] \in Offers /\ Len(sent) - Len(got) > 0
    BY <1>2, <2>1 DEF Pending, IInv, TypeOK
  <2>3. QED
    BY <1>1, <2>1, <2>2 DEF ObserveChannels
<1>4. Accepting /\ ~Delivering => Len(sent) - Len(got) < RED_LATENCY
  <2> SUFFICES ASSUME Accepting, ~Delivering, Len(sent) > Len(got)
               PROVE  Len(sent) - Len(got) < RED_LATENCY
    BY <1>2, StagesFacts
  <2>1. ~res_valid
    BY DEF Accepting, Delivering, op_ready, stall
  <2> DEFINE n == Len(got) + 1
  <2>2. n \in Pending
    BY <1>2 DEF Pending
  <2>3. age[n] \in 1 .. RED_LATENCY /\ vld_q[age[n] - 1] /\ age[n] > Len(sent) - n
    BY <1>1, <2>2 DEF IInv, PendingInPipeline, OlderIsFurther
  <2>4. age[n] # RED_LATENCY
    BY <2>1, <2>3 DEF res_valid, Last
  <2>5. QED
    BY <1>2, <2>3, <2>4, StagesFacts
<1>5. CASE Accepting /\ Delivering
  <2>1. Fifo!TakeAndHandBack(op)
    BY <1>1, <1>3, <1>5 DEF ObserveChannels, Fifo!TakeAndHandBack, Fifo!Outstanding
  <2>2. QED
    BY <1>2, <2>1 DEF Fifo!FifoNext
<1>6. CASE Accepting /\ ~Delivering
  <2>1. Fifo!Take(op)
    BY <1>1, <1>4, <1>6 DEF ObserveChannels, Fifo!Take, Fifo!Outstanding
  <2>2. QED
    BY <1>2, <2>1 DEF Fifo!FifoNext
<1>7. CASE ~Accepting /\ Delivering
  <2>1. Fifo!HandBack
    BY <1>1, <1>3, <1>7 DEF ObserveChannels, Fifo!HandBack, Fifo!Outstanding
  <2>2. QED
    BY <2>1 DEF Fifo!FifoNext
<1>8. CASE ~Accepting /\ ~Delivering
  BY <1>1, <1>8 DEF ObserveChannels
<1>9. QED
  BY <1>5, <1>6, <1>7, <1>8

\* The engine implements the bounded queue, for every number of stages.
THEOREM EngineImplementsFifo == Spec => ImplementsFifo
<1>1. Init => Fifo!FifoInit
  BY DEF Init, Fifo!FifoInit
<1>2. IInv /\ [Next]_vars => [Fifo!FifoNext]_(Fifo!fifoVars)
  <2> SUFFICES ASSUME IInv, [Next]_vars
               PROVE  Fifo!FifoNext \/ UNCHANGED <<sent, got>>
    BY DEF Fifo!fifoVars
  <2>1. CASE Tick
    BY <2>1, TickIsFifoStep
  <2>2. CASE AssertReset
    BY <2>2 DEF AssertReset, Fifo!FifoNext, Fifo!Abandon
  <2>3. CASE TickInReset \/ ReleaseReset \/ UNCHANGED vars
    BY <2>3 DEF TickInReset, ReleaseReset, vars, record
  <2>4. QED
    BY <2>1, <2>2, <2>3 DEF Next
<1>3. QED
  BY <1>1, <1>2, IInvAlways, PTL DEF Spec, ImplementsFifo, Fifo!FifoSpec
=============================================================================
