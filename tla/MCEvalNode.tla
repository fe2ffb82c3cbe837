----------------------------- MODULE MCEvalNode -----------------------------
(***************************************************************************)
(* An instance of EvalNode for TLC: a design for each way to pass or not.  *)
(***************************************************************************)
EXTENDS EvalNode

CONSTANTS good, narrow, skips, stub, p1, p2

summary(t, p, f) == [total |-> t, passed |-> p, failed |-> f]

allPass == summary(2, 2, 0)
oneFails == summary(2, 1, 1)
oneSkipped == summary(2, 1, 0)
noTests == summary(0, 0, 0)

MCSummaries == {allPass, oneFails, oneSkipped, noTests}

at(atP1, atP2) == [p \in Points |-> IF p = p1 THEN atP1 ELSE atP2]

MCReports == [d \in Designs |->
    CASE d = good   -> at(allPass, allPass)
      [] d = narrow -> at(allPass, oneFails)
      [] d = skips  -> at(oneSkipped, noTests)
      [] d = stub   -> at(None, None)]

\* narrow passes the tests and does not synthesize at p2.
MCSynthesizes == [d \in Designs |-> at(d # stub, d = good)]
=============================================================================
