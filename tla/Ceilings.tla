------------------------------ MODULE Ceilings ------------------------------
(***************************************************************************)
(* What an evaluation answers (nodes.py, Evaluation), and what a           *)
(* wall-clock ceiling can make of that.  The tests are run first and then  *)
(* synthesis, which is not begun unless they pass: an evaluation that a    *)
(* ceiling cuts short fails where it was, and never later.                 *)
(***************************************************************************)

\* The tests fail, synthesis fails, neither does.
Verdicts == {"tests", "synthesis", "usable"}

\* What may be answered where found is what there is to find.
CutShort(found) ==
    CASE found = "usable"    -> Verdicts
      [] found = "synthesis" -> {"tests", "synthesis"}
      [] OTHER               -> {"tests"}
=============================================================================
