--------------------------- MODULE LaneArithmetic ---------------------------
(***************************************************************************)
(* The combinational half of rtl/reduction_engine.sv: sum_c, the lane-wise *)
(* wrapping sum of the operand slots whose mask bit is set.                *)
(*                                                                         *)
(* An operand vector is a function from slots to beats and a beat is a     *)
(* function from lanes to lane values; the flat bit vector of the port is  *)
(* the same data laid end to end.  LANE_MOD is 2^RED_LANE_W, the number of *)
(* values a lane can hold, so that "% LANE_MOD" is the carry the code      *)
(* discards.                                                               *)
(***************************************************************************)
EXTENDS Integers

CONSTANTS N_PORTS,     \* operand slots
          RED_LANES,   \* lanes in a beat: DATA_W / RED_LANE_W
          LANE_MOD     \* 2^RED_LANE_W

ASSUME LaneAssumption ==
    /\ N_PORTS \in Nat \ {0}
    /\ RED_LANES \in Nat \ {0}
    /\ LANE_MOD \in Nat \ {0}

Slots    == 0 .. N_PORTS - 1
Lanes    == 0 .. RED_LANES - 1
Lane     == 0 .. LANE_MOD - 1
Beat     == [Lanes -> Lane]
Operands == [Slots -> Beat]

ZeroBeat == [l \in Lanes |-> 0]

\* Lane l of the accumulator: element p is its value after p iterations of
\* the loop over the slots.
Accumulator(mask, data, l) ==
    LET acc[p \in 0 .. N_PORTS] ==
            IF p = 0
            THEN 0
            ELSE IF p - 1 \in mask
                 THEN (acc[p - 1] + data[p - 1][l]) % LANE_MOD
                 ELSE acc[p - 1]
    IN  acc

sum_c(mask, data) == [l \in Lanes |-> Accumulator(mask, data, l)[N_PORTS]]
=============================================================================
