-------------------------- MODULE ReductionEngine ---------------------------
(***************************************************************************)
(* rtl/reduction_engine.sv between the client that presents operand sets   *)
(* and the consumer that accepts results.                                  *)
(*                                                                         *)
(* A step is a rising clock edge: the registers take their next values     *)
(* from the wires as they stood before the edge, and then, as the          *)
(* testbench does after the falling edge, client and consumer drive the    *)
(* wires for the next one.  Reset is asynchronous and may fall at any      *)
(* time.  Before the first reset the registers hold whatever the power-up  *)
(* left in them.                                                           *)
(*                                                                         *)
(* sent, got and age are not in the design: they are what an observer of   *)
(* the two channels writes down, the operand sets taken and the results    *)
(* handed over since the last reset, and for each set the number of edges  *)
(* at which the pipeline has moved since (and including) the one that took *)
(* it.                                                                     *)
(***************************************************************************)
EXTENDS LaneArithmetic, Sequences

CONSTANTS RED_LATENCY, \* pipeline stages
          Ids,         \* values of op_id
          Offers,      \* operand sets the client may present
          MaxSets      \* bound: sets the client presents between two resets

ASSUME EngineAssumption ==
    /\ RED_LATENCY \in Nat \ {0}
    /\ MaxSets \in Nat
    /\ 0 \in Ids
    /\ Offers # {}
    /\ Offers \subseteq [mask : SUBSET Slots, data : Operands, id : Ids]

Stages == 0 .. RED_LATENCY - 1
Last   == RED_LATENCY - 1
Result == [data : Beat, id : Ids]

VARIABLES
    rst_n,      \* the reset wire, active low
    cleared,    \* reset has taken effect since power-up
    op_valid,   \* client: an operand set is presented
    op,         \* client: its mask, data and id
    res_ready,  \* consumer: a result will be accepted
    vld_q, data_q, id_q,    \* the pipeline registers
    sent, got, age          \* the observer's record

wires     == <<op_valid, op, res_ready>>
registers == <<vld_q, data_q, id_q>>
record    == <<sent, got, age>>
vars      == <<rst_n, cleared, wires, registers, record>>
-----------------------------------------------------------------------------
res_valid == vld_q[Last]
res_data  == data_q[Last]
res_id    == id_q[Last]

\* Mutated: the result channel is not looked at, so nothing ever stalls.
stall_NeverStalls == FALSE
\* Mutated: the pipeline is gated while nothing is offered and no result is out.
stall_GatedWhenIdle == IF res_valid THEN ~res_ready ELSE ~op_valid
\* Mutated: a set in the first stage holds the pipeline until a result is out.
stall_HeldByFirst == IF res_valid THEN ~res_ready ELSE vld_q[0]

stall     == res_valid /\ ~res_ready
op_ready  == ~stall

Accepting  == op_valid /\ op_ready
Delivering == res_valid /\ res_ready

\* Sets taken and not yet handed back, oldest first.
Pending == Len(got) + 1 .. Len(sent)

\* The result an operand set must produce.
Expected(o) == [data |-> sum_c(o.mask, o.data), id |-> o.id]
-----------------------------------------------------------------------------
\* Mutated: the output stage is forgotten by the reset.
ClearRegisters_KeepsLast ==
    /\ vld_q'  = [s \in Stages |-> s = Last /\ vld_q[s]]
    /\ UNCHANGED <<data_q, id_q>>

ClearRegisters ==
    /\ vld_q'  = [s \in Stages |-> FALSE]
    /\ data_q' = [s \in Stages |-> ZeroBeat]
    /\ id_q'   = [s \in Stages |-> 0]

\* Mutated: the identifier is taken one stage later than the data.
Shift_IdLags ==
    /\ vld_q'  = [s \in Stages |-> IF s = 0 THEN op_valid ELSE vld_q[s - 1]]
    /\ data_q' = [s \in Stages |-> IF s = 0 THEN sum_c(op.mask, op.data)
                                            ELSE data_q[s - 1]]
    /\ id_q'   = [s \in Stages |-> IF s = Last THEN op.id ELSE id_q[s]]

\* Mutated: bubbles are squeezed out, a set entering an empty pipeline at its
\* last stage.
Shift_SkipsBubbles ==
    LET empty == \A s \in Stages : s # Last => ~vld_q[s]
        entry == IF empty THEN Last ELSE 0
    IN  /\ vld_q'  = [s \in Stages |-> IF s = entry THEN op_valid
                                       ELSE s # 0 /\ vld_q[s - 1]]
        /\ data_q' = [s \in Stages |-> IF s = entry THEN sum_c(op.mask, op.data)
                                       ELSE IF s = 0 THEN data_q[0] ELSE data_q[s - 1]]
        /\ id_q'   = [s \in Stages |-> IF s = entry THEN op.id
                                       ELSE IF s = 0 THEN id_q[0] ELSE id_q[s - 1]]

\* Mutated: the loop over the stages runs one too far.
Shift_OneTooFar ==
    LET Written == Stages \union {RED_LATENCY}
    IN  /\ vld_q'  = [s \in Written |-> IF s = 0 THEN op_valid ELSE vld_q[s - 1]]
        /\ data_q' = [s \in Written |-> IF s = 0 THEN sum_c(op.mask, op.data)
                                                 ELSE data_q[s - 1]]
        /\ id_q'   = [s \in Written |-> IF s = 0 THEN op.id ELSE id_q[s - 1]]

\* Every stage takes its predecessor; the first takes the wires, whether or
\* not they are valid.
Shift ==
    /\ vld_q'  = [s \in Stages |-> IF s = 0 THEN op_valid ELSE vld_q[s - 1]]
    /\ data_q' = [s \in Stages |-> IF s = 0 THEN sum_c(op.mask, op.data)
                                            ELSE data_q[s - 1]]
    /\ id_q'   = [s \in Stages |-> IF s = 0 THEN op.id ELSE id_q[s - 1]]

\* A stall freezes the whole pipeline, bubbles included.
ClockRegisters ==
    \/ stall /\ UNCHANGED registers
    \/ ~stall /\ Shift

ObserveChannels ==
    /\ sent' = IF Accepting THEN Append(sent, op) ELSE sent
    /\ got'  = IF Delivering
               THEN Append(got, [data |-> res_data, id |-> res_id])
               ELSE got
    /\ age'  = [n \in 1 .. Len(sent') |->
                   IF n > Len(sent) THEN 1
                   ELSE IF n > Len(got') /\ ~stall THEN age[n] + 1
                   ELSE age[n]]

\* The client keeps an offer, unchanged, until it is taken; after that it may
\* present another set or none.
ClientDrives ==
    IF op_valid /\ ~op_ready
    THEN UNCHANGED <<op_valid, op>>
    ELSE \/ op_valid' = FALSE /\ UNCHANGED op
         \/ /\ Len(sent') < MaxSets
            /\ op_valid' = TRUE
            /\ op' \in Offers

\* The consumer's readiness is its own affair.
ConsumerDrives == res_ready' \in BOOLEAN

Tick ==
    /\ rst_n
    /\ ClockRegisters
    /\ ObserveChannels
    /\ ClientDrives
    /\ ConsumerDrives
    /\ UNCHANGED <<rst_n, cleared>>

\* An edge with reset held: nothing is offered, and the registers are zero
\* after it whatever they were.
TickInReset ==
    /\ ~rst_n
    /\ ClearRegisters
    /\ cleared' = TRUE
    /\ ConsumerDrives
    /\ UNCHANGED <<rst_n, op_valid, op, record>>

AssertReset ==
    /\ rst_n
    /\ rst_n' = FALSE
    /\ cleared' = TRUE
    /\ ClearRegisters
    /\ op_valid' = FALSE
    /\ sent' = <<>> /\ got' = <<>> /\ age' = <<>>
    /\ ConsumerDrives
    /\ UNCHANGED op

ReleaseReset ==
    /\ ~rst_n
    /\ cleared
    /\ rst_n' = TRUE
    /\ UNCHANGED <<cleared, wires, registers, record>>

Init ==
    /\ rst_n = FALSE
    /\ cleared = FALSE
    /\ op_valid = FALSE
    /\ op \in Offers
    /\ res_ready \in BOOLEAN
    /\ vld_q \in [Stages -> BOOLEAN]
    /\ data_q \in [Stages -> Beat]
    /\ id_q \in [Stages -> Ids]
    /\ sent = <<>> /\ got = <<>> /\ age = <<>>

Next == Tick \/ TickInReset \/ AssertReset \/ ReleaseReset

Spec == Init /\ [][Next]_vars

\* The clock runs, the reset is released, and the consumer is ready again
\* and again.
Fairness ==
    /\ WF_vars(Tick /\ res_ready')
    /\ WF_vars(TickInReset)
    /\ WF_vars(ReleaseReset)

LiveSpec == Spec /\ Fairness
-----------------------------------------------------------------------------
\* Types, and the bound on what the client presents (not a claim about the
\* design).
TypeOK ==
    /\ rst_n \in BOOLEAN
    /\ cleared \in BOOLEAN
    /\ op_valid \in BOOLEAN
    /\ op \in Offers
    /\ res_ready \in BOOLEAN
    /\ vld_q \in [Stages -> BOOLEAN]
    /\ data_q \in [Stages -> Beat]
    /\ id_q \in [Stages -> Ids]
    /\ sent \in Seq(Offers)
    /\ got \in Seq(Result)
    /\ age \in Seq(Nat)
    /\ Len(age) = Len(sent)
    /\ Len(sent) <= MaxSets

\* Whatever the handshakes on the two channels, the results handed over since
\* the last reset are the results of the operand sets taken, in that order,
\* each with its own identifier, none twice and none skipped (docs/modules.md
\* 3.1; the check at the end of back_to_back_operands_stream, for every
\* pattern of backpressure and reset).
InOrderExactlyOnce ==
    /\ Len(got) <= Len(sent)
    /\ \A n \in 1 .. Len(got) : got[n] = Expected(sent[n])

\* A result is on the output exactly when the oldest pending set has seen
\* RED_LATENCY edges of forward progress, never earlier and never later (the
\* comment at the head of the pipeline).  Nothing is on the output that no
\* pending set put there.
LatencyIsForwardProgress ==
    rst_n =>
        /\ \A n \in Pending : age[n] <= RED_LATENCY
        /\ res_valid <=> \E n \in Pending : age[n] = RED_LATENCY

\* Rules 2 and 3 of the channel convention (docs/modules.md 2.3), on the
\* result channel: an offered result stays offered, and does not change, until
\* it is accepted or the engine is reset.
ResultHeldUntilAccepted ==
    [][rst_n /\ rst_n' /\ res_valid /\ ~res_ready
         => res_valid' /\ res_data' = res_data /\ res_id' = res_id]_vars

\* The engine is the bounded queue of ReductionFifo, its logs the record kept
\* here: no stage holds a set the queue does not, resets included.
Fifo == INSTANCE ReductionFifo WITH
            ResultOf <- [o \in Offers |-> Expected(o)],
            Depth    <- RED_LATENCY
ImplementsFifo == Fifo!FifoSpec

\* Every set taken is eventually answered, whether or not the client presents
\* another one behind it, unless a reset abandons it.
EverySetAnswered ==
    \A n \in 1 .. MaxSets :
        (rst_n /\ Len(sent) >= n) ~> (~rst_n \/ Len(got) >= n)

\* A set the client keeps presenting is eventually taken.
EveryOfferTaken == (rst_n /\ op_valid) ~> (~rst_n \/ Accepting)
=============================================================================
