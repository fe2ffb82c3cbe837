------------------------------ MODULE EvalNode ------------------------------
(***************************************************************************)
(* examples/agent_loop/nodes.py, EvalNode: one call after another of       *)
(* run_tests and, where the tests pass, run_synth, on a working copy that  *)
(* is edited between them and a build directory that outlives them.        *)
(*                                                                         *)
(* The commands are external: make (cocotb's rules under verif/*/Makefile  *)
(* rebuild a binary that is absent or older than a source; parameters are  *)
(* no prerequisite), sv2v and yosys.  Each may fail or never return.  A    *)
(* ceiling kills the command that was started and not what that started:   *)
(* such an orphan may yet leave its own build in the directory, or, of a   *)
(* clean, remove what is there.                                            *)
(*                                                                         *)
(* ran and amiss are an observer's: the binary that was simulated, and     *)
(* what went wrong during the call.                                        *)
(***************************************************************************)
EXTENDS Integers, FiniteSets, Ceilings

CONSTANTS Designs, Points,
          Reports,       \* the summary a right build prints; None: no build
          Synthesizes,   \* whether sv2v and yosys accept a design at a point
          Summaries, None,
          MaxOrphans     \* bound: orphans at a time

ASSUME EvalAssumption ==
    /\ Summaries \subseteq [total : Nat, passed : Nat, failed : Nat]
    /\ None \notin Summaries
    /\ Reports \in [Designs -> [Points -> Summaries \union {None}]]
    /\ Synthesizes \in [Designs -> [Points -> BOOLEAN]]
    /\ None \notin [design : Designs, point : Points, by : {"make", "orphan"}]
    /\ None \notin [passed : BOOLEAN, tests_run : Nat, tests_failed : Nat]
    /\ MaxOrphans \in Nat

VARIABLES
    design, newer,   \* the RTL in workdir; whether it is newer than the build
    build,           \* what sim_build holds: a binary, or None
    orphans,         \* what orphans may yet leave there
    stage, asked,    \* the call: where it is, and its parameter point
    test, synth,     \* what it has answered
    ran, amiss       \* observer

files == <<design, newer, build, orphans>>
call  == <<stage, asked, test, synth>>
vars  == <<files, call, ran, amiss>>

Stages == {"idle", "clean", "make", "simulate", "sv2v", "yosys",
           "answered", "raised"}

Binaries == [design : Designs, point : Points, by : {"make", "orphan"}]

Built == [design |-> design, point |-> asked, by |-> "make"]

usable == test # None /\ test.passed /\ synth = TRUE

\* TestResult, as run_tests makes it of a log with a summary, or without one.
TestResults == [passed : BOOLEAN, tests_run : Nat, tests_failed : Nat]

\* Mutant: no failure is taken for success.
TestResult_NoneFailed(s) ==
    IF s = None THEN [passed |-> FALSE, tests_run |-> 0, tests_failed |-> 0]
    ELSE [passed |-> s.failed = 0, tests_run |-> s.total, tests_failed |-> s.failed]

\* Mutant: the word FAIL is counted in the log, where the table has it too.
TestResult_CountsWords(s) ==
    IF s = None THEN [passed |-> FALSE, tests_run |-> 0, tests_failed |-> 0]
    ELSE [passed |-> FALSE, tests_run |-> s.total, tests_failed |-> s.failed + 1]

\* Mutant: without a summary there are no counts, rather than counts of 0.
TestResult_NoCounts(s) ==
    IF s = None THEN [passed |-> FALSE, tests_run |-> None, tests_failed |-> None]
    ELSE [passed       |-> s.failed = 0 /\ s.passed = s.total /\ s.total > 0,
          tests_run    |-> s.total,
          tests_failed |-> s.failed]

TestResult(s) ==
    IF s = None THEN [passed |-> FALSE, tests_run |-> 0, tests_failed |-> 0]
    ELSE [passed       |-> s.failed = 0 /\ s.passed = s.total /\ s.total > 0,
          tests_run    |-> s.total,
          tests_failed |-> s.failed]

Init ==
    /\ design \in Designs
    /\ build \in Binaries \union {None}
    /\ newer \in {TRUE} \union {x \in {FALSE} : build # None => build.design = design}
    /\ orphans = {}
    /\ stage = "idle"
    /\ asked \in Points
    /\ test = None /\ synth = FALSE
    /\ ran = None /\ amiss = {}
-----------------------------------------------------------------------------
\* Between calls.

\* write_rtl, git checkout: the file is written, so it is newer than any build.
Edit ==
    /\ stage \in {"idle", "answered", "raised"}
    /\ design' \in Designs
    /\ newer' = TRUE
    /\ stage' = "idle"
    /\ UNCHANGED <<build, orphans, asked, test, synth, ran, amiss>>

\* An exception ends the run of the loop; another may be started.
run_tests ==
    /\ stage \in {"idle", "answered", "raised"}
    /\ asked' \in Points
    /\ stage' = "clean"
    /\ test' = None /\ synth' = FALSE /\ ran' = None /\ amiss' = {}
    /\ UNCHANGED files

\* Something an earlier ceiling left running comes to its end.
Orphan ==
    \E left \in orphans :
       /\ build' = left
       /\ orphans' = orphans \ {left}
       /\ newer' = (newer /\ left = None)
       /\ amiss' = amiss \union
                     {x \in {"orphan"} : stage \in {"clean", "make", "simulate"}}
       /\ UNCHANGED <<design, call, ran>>

Leaves(left) ==
    \/ UNCHANGED orphans
    \/ /\ Cardinality(orphans) < MaxOrphans
       /\ orphans' = orphans \union {left}
-----------------------------------------------------------------------------
\* run_tests.

Answers(result) ==
    /\ test' = result
    /\ stage' = IF result.passed THEN "sv2v" ELSE "answered"

MakeClean ==
    /\ stage = "clean"
    /\ stage' = "make"
    /\ build' = None
    /\ UNCHANGED <<design, newer, orphans, asked, test, synth, ran, amiss>>

\* make clean fails, and nobody looks at its return code.
MakeCleanFails ==
    /\ stage = "clean"
    /\ stage' = "make"
    /\ build' \in {build, None}
    /\ amiss' = amiss \union {"clean"}
    /\ UNCHANGED <<design, newer, orphans, asked, test, synth, ran>>

\* make clean meets its ceiling: "the build will say".
MakeCleanCeiling ==
    /\ stage = "clean"
    /\ stage' = "make"
    /\ build' \in {build, None}
    /\ Leaves(None)
    /\ amiss' = amiss \union {"clean"}
    /\ UNCHANGED <<design, newer, asked, test, synth, ran>>

\* Mutant: make takes a binary that is there for up to date.
Outdated_Absent == build = None

Outdated == build = None \/ newer

Make ==
    /\ stage = "make"
    /\ \/ /\ ~Outdated
          /\ stage' = "simulate"
          /\ UNCHANGED <<newer, build, test>>
       \/ /\ Outdated /\ Reports[design][asked] # None
          /\ build' = Built /\ newer' = FALSE
          /\ stage' = "simulate"
          /\ UNCHANGED test
       \/ /\ Outdated /\ Reports[design][asked] = None
          /\ Answers(TestResult(None))
          /\ UNCHANGED <<newer, build>>
    /\ UNCHANGED <<design, orphans, asked, synth, ran, amiss>>

\* The testbench takes its parameters from the environment, not from the
\* binary: of a binary of another point it may report anything.
Prints ==
    IF build = None THEN {None}
    ELSE IF build.point = asked THEN {Reports[build.design][asked]}
    ELSE Summaries \union {None}

Simulate ==
    /\ stage = "simulate"
    /\ ran' = build
    /\ \E summary \in Prints : Answers(TestResult(summary))
    /\ UNCHANGED <<files, asked, synth, amiss>>

\* make meets its ceiling.  What it printed until then is bytes, though text
\* was asked for, and does not concatenate with a string: run_tests answers
\* only where nothing was printed, and raises otherwise.
MakeCeiling ==
    /\ stage \in {"make", "simulate"}
    /\ IF stage = "make" THEN Leaves([Built EXCEPT !.by = "orphan"])
       ELSE UNCHANGED orphans
    /\ amiss' = amiss \union {"ceiling"}
    /\ \E printed \in BOOLEAN :
          IF printed THEN stage' = "raised" /\ UNCHANGED test
          ELSE Answers(TestResult(None))
    /\ UNCHANGED <<design, newer, build, asked, synth, ran>>
-----------------------------------------------------------------------------
\* run_synth, in a directory of its own.

Sv2v ==
    /\ stage = "sv2v"
    /\ stage' \in IF Synthesizes[design][asked] THEN {"yosys"}
                  ELSE {"yosys", "answered"}
    /\ UNCHANGED <<files, asked, test, synth, ran, amiss>>

Yosys ==
    /\ stage = "yosys"
    /\ stage' = "answered"
    /\ synth' = Synthesizes[design][asked]
    /\ UNCHANGED <<files, asked, test, ran, amiss>>

\* Mutant: yosys is given all the time it wants.
SynthCeiling_Sv2vOnly ==
    /\ stage = "sv2v"
    /\ stage' = "answered"
    /\ amiss' = amiss \union {"ceiling"}
    /\ UNCHANGED <<files, asked, test, synth, ran>>

SynthCeiling ==
    /\ stage \in {"sv2v", "yosys"}
    /\ stage' = "answered"
    /\ amiss' = amiss \union {"ceiling"}
    /\ UNCHANGED <<files, asked, test, synth, ran>>

Ceiling == MakeCleanCeiling \/ MakeCeiling \/ SynthCeiling

Command == MakeClean \/ MakeCleanFails \/ Make \/ Simulate \/ Sv2v \/ Yosys

Next == Edit \/ run_tests \/ Orphan \/ Command \/ Ceiling

Spec == Init /\ [][Next]_vars

\* A command may never return.  Its ceiling comes.
LiveSpec == Spec /\ WF_vars(Ceiling)
-----------------------------------------------------------------------------
\* Properties.

TypeOK ==
    /\ design \in Designs /\ newer \in BOOLEAN
    /\ build \in Binaries \union {None}
    /\ orphans \subseteq Binaries \union {None}
    /\ stage \in Stages /\ asked \in Points
    /\ test \in TestResults \union {None} /\ synth \in BOOLEAN
    /\ ran \in Binaries \union {None}
    /\ amiss \subseteq {"clean", "orphan", "ceiling"}

\* The binary that is simulated is of the RTL in the working copy, even when
\* the clean before it did nothing: only what an orphan left can be of an
\* earlier design.
SimulatesTheDesign ==
    ran # None /\ ran.by = "make" /\ stage \notin {"idle", "raised"}
        => ran.design = design

\* The design passes every test there is at the point asked for.
PassesAll(d, p) ==
    /\ Reports[d][p] # None /\ Reports[d][p].total > 0
    /\ Reports[d][p].passed = Reports[d][p].total /\ Reports[d][p].failed = 0

\* And it synthesizes there.
Good(d, p) == PassesAll(d, p) /\ Synthesizes[d][p]

\* A design is called usable only if it is: a skipped test, a suite without
\* tests, a build that died, a ceiling or the build of an earlier call never
\* makes it so, unless the clean of this call did not work or an orphan wrote
\* while it ran.
UsableIsGood ==
    stage = "answered" /\ usable /\ amiss \intersect {"clean", "orphan"} = {}
        => Good(design, asked)

\* A design that is good is turned down only by a ceiling, or for a build
\* directory somebody else has written to.
GoodIsUsable ==
    stage = "answered" /\ Good(design, asked) /\ amiss = {} => usable

\* What run_tests's comments (27-30, 118) say of the ceilings: they are there
\* so that the loop receives a failure it can report.
CeilingsAreAnswered == stage # "raised"

\* What there is to find of a design at a point.
Finds == [d \in Designs |-> [p \in Points |->
    IF ~PassesAll(d, p) THEN "tests"
    ELSE IF ~Synthesizes[d][p] THEN "synthesis" ELSE "usable"]]

Answered ==
    CASE stage = "idle"     -> "none"
      [] stage = "raised"   -> "raised"
      [] stage = "answered" -> IF ~test.passed THEN "tests"
                               ELSE IF ~usable THEN "synthesis" ELSE "usable"
      [] OTHER              -> "busy"

Loop == INSTANCE Evaluation WITH
            Found  <- Finds,
            answer <- Answered,
            alone  <- amiss \intersect {"clean", "orphan"} = {},
            late   <- "ceiling" \in amiss

\* To the loop a call is what Evaluation says, and AgentLoop takes for one
\* step: what run_tests and run_synth answer is there to be found of the design
\* in the file, at the point asked for, or, if a ceiling was hit, is an earlier
\* failure than that.
ImplementsEvaluation == Loop!EvalSpec

\* Every call ends, though any command may hang.
CallsEnd == (stage = "clean") ~> (stage \in {"answered", "raised"})
=============================================================================
