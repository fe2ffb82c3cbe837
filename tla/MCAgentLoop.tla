---------------------------- MODULE MCAgentLoop -----------------------------
(***************************************************************************)
(* Instances of AgentLoop for TLC: one design for every outcome of an      *)
(* evaluation that can tell two runs apart.                                *)
(***************************************************************************)
EXTENDS AgentLoop

\* The designs, named for what evaluation finds: good is usable everywhere,
\* better too and cheaper, narrow only at the primary point, and cheapest of
\* all; stub does not pass the tests.
CONSTANTS good, better, narrow, stub, truncated

MCDesigns   == {good, better, narrow, stub}
MCMalformed == {truncated}

at(primary, others) == [p \in Points |-> IF p = 0 THEN primary ELSE others]

MCFinds ==
    [d \in Contents |->
        CASE d \in {good, better} -> at("usable", "usable")
          [] d = narrow           -> at("usable", "synthesis")
          [] OTHER                -> at("tests", "tests")]

MCCost == [d \in Contents |-> CASE d = good   -> 3
                                [] d = better -> 2
                                [] d = narrow -> 1
                                [] OTHER      -> 0]

\* HEAD may hold a working design, a stub, or nothing under that name yet;
\* targets.py has targets with a skeleton and one without.
MCBases     == {good, stub, Absent}
MCSkeletons == {stub, NoSkeleton}
=============================================================================
