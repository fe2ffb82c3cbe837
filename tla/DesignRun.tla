----------------------------- MODULE DesignRun ------------------------------
(***************************************************************************)
(* What the user of loop.py may rely on.  A run looks for a design that    *)
(* works, or works better, on a branch of its own, and leaves there what   *)
(* was there before or a design that works; the user's own branch is never *)
(* touched, and is checked out again unless something went wrong.          *)
(*                                                                         *)
(* What it does not promise is said as well: after a ceiling was hit the   *)
(* design it leaves need not be the best it found, and a run that found    *)
(* nothing for a file the user's branch does not have breaks off.          *)
(***************************************************************************)
EXTENDS Integers

CONSTANTS Contents,   \* what the file may hold
          Works,      \* the contents that work at every parameter point
          Passes,     \* those that work at the point that is measured
          Score,      \* of each content; lower is better
          Absent, None

VARIABLES goal,       \* "implement" or "optimize"
          state,
          main,       \* the file on the user's branch
          head,       \* the branch checked out
          bar,        \* the score to beat; None before there is one
          result,     \* what the run leaves on its branch; None until then
          doubt       \* a ceiling was hit

runVars == <<goal, state, main, head, bar, result, doubt>>
-----------------------------------------------------------------------------
RunInit ==
    /\ goal \in {"implement", "optimize"}
    /\ state = "idle" /\ head = "origin"
    /\ main \in Contents
    /\ bar = None /\ result = None /\ doubt = FALSE

Goes(from, to) == state = from /\ state' = to /\ UNCHANGED <<goal, main>>

TurnAway == Goes("idle", "refused") /\ UNCHANGED <<head, bar, result, doubt>>

Begin ==
    /\ Goes("idle", "running")
    /\ head' = "agent"
    /\ UNCHANGED <<bar, result, doubt>>

\* To optimize is to beat what is there, which must pass.
TakeBaseline ==
    /\ Goes("running", "running")
    /\ goal = "optimize" /\ bar = None
    /\ main \in Passes
    /\ bar' = Score[main]
    /\ UNCHANGED <<head, result, doubt>>

\* To implement is to find one design, to optimize to find better and better.
Accept(d) ==
    /\ Goes("running", "running")
    /\ d \in Works
    /\ \/ goal = "implement" /\ bar = None
       \/ goal = "optimize" /\ bar # None /\ Score[d] < bar
    /\ bar' = Score[d]
    /\ UNCHANGED <<head, result, doubt>>

Doubt ==
    /\ Goes("running", "running")
    /\ doubt' = TRUE
    /\ UNCHANGED <<head, bar, result>>

\* A ceiling may be what makes the run fail.
Fail ==
    /\ Goes("running", "failing")
    /\ doubt' \in {doubt, TRUE}
    /\ UNCHANGED <<head, bar, result>>

Best(d) == IF bar = None THEN d = main ELSE d \in Passes /\ Score[d] = bar

Finish ==
    /\ Goes("running", "finished")
    /\ result' \in Works \union {main}
    /\ ~doubt => Best(result')
    /\ UNCHANGED <<head, bar, doubt>>

Return ==
    /\ Goes("finished", "returned")
    /\ head' = "origin"
    /\ UNCHANGED <<bar, result, doubt>>

\* The result is there, and the user's branch not checked out.
Leave == Goes("finished", "left") /\ UNCHANGED <<head, bar, result, doubt>>

\* On the way out of a failure, or for want of anything to go back to.
Break ==
    /\ \/ Goes("failing", "broken")
       \/ /\ Goes("running", "broken")
          /\ main = Absent
          /\ bar = None \/ doubt
    /\ UNCHANGED <<head, bar, result, doubt>>

RunNext ==
    \/ TurnAway \/ Begin \/ TakeBaseline
    \/ \E d \in Contents : Accept(d)
    \/ Doubt \/ Fail \/ Finish \/ Return \/ Leave \/ Break

RunSpec == RunInit /\ [][RunNext]_runVars
=============================================================================
