----------------------------- MODULE Evaluation -----------------------------
(***************************************************************************)
(* What the loop takes an evaluation for (loop.py, evaluate): asked about  *)
(* the file as it is, at a parameter point, it answers what there is to    *)
(* find, unless a ceiling cuts it short.  No call shows in the answer of a *)
(* later one.                                                              *)
(*                                                                         *)
(* What is not promised: an answer at all, after a ceiling, and a true one *)
(* to a call that did not have the build directory to itself.              *)
(***************************************************************************)
EXTENDS Ceilings

CONSTANTS Designs, Points,
          Found         \* what there is to find of a design at a point

VARIABLES design,
          asked,        \* the point of the last call
          answer,       \* a verdict; "busy", "raised", or "none" to be had
          alone,        \* the build directory was this call's only
          late          \* a ceiling was hit in this call

evalVars == <<design, asked, answer, alone, late>>
-----------------------------------------------------------------------------
EvalInit ==
    /\ design \in Designs /\ asked \in Points
    /\ answer = "none" /\ alone = TRUE /\ late = FALSE

Write ==
    /\ answer # "busy"
    /\ design' \in Designs
    /\ answer' = "none"
    /\ UNCHANGED <<asked, alone, late>>

Ask ==
    /\ answer # "busy"
    /\ asked' \in Points
    /\ answer' = "busy" /\ alone' = TRUE /\ late' = FALSE
    /\ UNCHANGED design

Disturb ==
    /\ answer = "busy"
    /\ alone' = FALSE
    /\ UNCHANGED <<design, asked, answer, late>>

Answer(v) ==
    /\ answer = "busy"
    /\ answer' = v
    /\ late' \in BOOLEAN
    /\ alone => IF late' THEN v \in CutShort(Found[design][asked])
                ELSE v = Found[design][asked]
    /\ UNCHANGED <<design, asked, alone>>

Raise ==
    /\ answer = "busy"
    /\ answer' = "raised" /\ late' = TRUE
    /\ UNCHANGED <<design, asked, alone>>

EvalNext == Write \/ Ask \/ Disturb \/ (\E v \in Verdicts : Answer(v)) \/ Raise

EvalSpec == EvalInit /\ [][EvalNext]_evalVars
=============================================================================
