------------------------- MODULE MCReductionEngine --------------------------
(***************************************************************************)
(* Instances of ReductionEngine for TLC.  Two operand slots and one lane   *)
(* of two values, so that the two-slot set wraps; identifiers 0 and 1.     *)
(* Set a (both slots) and set b (slot 0 alone) have different results,     *)
(* and c has b's result under another identifier, so that a result out of  *)
(* place, and an identifier out of place, both show.                       *)
(***************************************************************************)
EXTENDS ReductionEngine

MCIds == {0, 1}

beat(v) == [l \in Lanes |-> v]
operands(v, w) == [p \in Slots |-> IF p = 0 THEN beat(v) ELSE beat(w)]

MCOffers ==
    { [mask |-> {0, 1}, data |-> operands(1, 1), id |-> 0],
      [mask |-> {0},    data |-> operands(1, 1), id |-> 0],
      [mask |-> {1},    data |-> operands(0, 1), id |-> 1] }
=============================================================================
