--------------------------- MODULE EvalNode_proofs ---------------------------
(***************************************************************************)
(* The answers of EvalNode are true, and its calls are what Evaluation     *)
(* promises the loop, for every set of designs, points and reports and any *)
(* number of orphans.                                                      *)
(***************************************************************************)
EXTENDS EvalNode, TLAPS

\* Nothing came between this call and its own build.
Clear == amiss \intersect {"clean", "orphan"} = {}

\* A binary make built and no edit followed is of the design that is there;
\* what a call simulates is up to date, and its own where nothing came between.
BuildInv ==
    /\ \A left \in orphans : left # None => left.by = "orphan"
    /\ build # None /\ build.by = "make" /\ ~newer => build.design = design
    /\ stage = "make" /\ Clear => build = None
    /\ stage = "simulate" => build = None \/ ~newer
    /\ stage = "simulate" /\ Clear => build = Built

\* Synthesis follows a pass, and a pass is of the design at the point asked.
AnswerInv ==
    /\ stage \in {"sv2v", "yosys"} =>
          test # None /\ test.passed /\ (Clear => PassesAll(design, asked))
    /\ stage \in Stages \ {"idle", "answered", "raised"} => synth = FALSE
    /\ stage = "answered" /\ synth = TRUE =>
          Synthesizes[design][asked] /\ (Clear => PassesAll(design, asked))

IInv == TypeOK /\ BuildInv /\ AnswerInv /\ SimulatesTheDesign /\ GoodIsUsable
-----------------------------------------------------------------------------
LEMMA PointData ==
    ASSUME NEW d \in Designs, NEW p \in Points
    PROVE  /\ Reports[d][p] \in Summaries \union {None}
           /\ Synthesizes[d][p] \in BOOLEAN
BY EvalAssumption

\* A result says passed of a summary in which every test passed, and of no
\* other.
LEMMA ResultType ==
    ASSUME NEW s \in Summaries \union {None}
    PROVE  /\ TestResult(s) \in TestResults
           /\ TestResult(s).passed
                <=> s # None /\ s.total > 0 /\ s.passed = s.total /\ s.failed = 0
<1>1. CASE s = None BY <1>1 DEF TestResult, TestResults
<1>2. CASE s # None
  <2>1. s \in [total : Nat, passed : Nat, failed : Nat] BY <1>2, EvalAssumption
  <2>2. TestResult(s) = [passed |-> s.failed = 0 /\ s.passed = s.total /\ s.total > 0,
                         tests_run |-> s.total, tests_failed |-> s.failed]
    BY <1>2 DEF TestResult
  <2> DEFINE ok == s.failed = 0 /\ s.passed = s.total /\ s.total > 0
  <2>3. TestResult(s).passed <=> ok
    <3>1. TestResult(s).passed = ok BY <2>2
    <3> QED BY <3>1
  <2>4. ok \in BOOLEAN /\ s.total \in Nat /\ s.failed \in Nat
    <3>1. s.total \in Nat /\ s.failed \in Nat BY <2>1
    <3> QED BY <3>1
  <2>5. TestResult(s) \in TestResults
    <3> HIDE DEF ok
    <3> QED BY <2>2, <2>4 DEF TestResults, ok
  <2> QED BY <1>2, <2>3, <2>5
<1> QED BY <1>1, <1>2

-----------------------------------------------------------------------------
LEMMA InitIInv == Init => IInv
<1> SUFFICES ASSUME Init PROVE IInv OBVIOUS
<1>1. TypeOK
  BY EvalAssumption DEF Init, TypeOK, Stages
<1>2. BuildInv /\ AnswerInv /\ SimulatesTheDesign /\ GoodIsUsable
  BY DEF Init, BuildInv, AnswerInv, SimulatesTheDesign, GoodIsUsable, Stages
<1> QED BY <1>1, <1>2 DEF IInv

\* Where a build of the design at the point asked fails, there is no pass.
LEMMA GoodPasses ==
    ASSUME NEW d \in Designs, NEW p \in Points
    PROVE  /\ Good(d, p) <=> PassesAll(d, p) /\ Synthesizes[d][p]
           /\ PassesAll(d, p) <=> TestResult(Reports[d][p]).passed
<1>1. Reports[d][p] \in Summaries \union {None} BY PointData
<1>2. PassesAll(d, p) <=> TestResult(Reports[d][p]).passed
  BY <1>1, ResultType DEF PassesAll
<1> QED BY <1>2 DEF Good, PassesAll

\* An answer to a call that ends or goes on to synthesis, for whatever
\* summary: what the invariant asks of it.
LEMMA AnswersStep ==
    ASSUME TypeOK, AnswerInv, NEW summary \in Summaries \union {None},
           Answers(TestResult(summary)),
           UNCHANGED <<design, asked, synth>>,
           stage \in {"make", "simulate"}, amiss \subseteq amiss',
           amiss' = {} => summary = Reports[design][asked],
           Clear' => summary \in {None, Reports[design][asked]}
    PROVE  AnswerInv' /\ GoodIsUsable' /\ test' \in TestResults \union {None}
           /\ stage' \in {"sv2v", "answered"}
<1> DEFINE r == TestResult(summary)
<1>1. /\ r \in TestResults
      /\ r.passed <=> /\ summary # None /\ summary.total > 0
                      /\ summary.passed = summary.total /\ summary.failed = 0
  BY ResultType
<1>2. test' = r /\ stage' = IF r.passed THEN "sv2v" ELSE "answered"
  BY DEF Answers
<1>3. r # None BY <1>1, EvalAssumption DEF TestResults
<1>4. r.passed /\ Clear' => PassesAll(design, asked)
  BY <1>1 DEF PassesAll
<1>5. design' = design /\ asked' = asked /\ synth' = FALSE
  BY DEF AnswerInv, Stages
<1> HIDE DEF r
<1>6. AnswerInv'
  <2>1. PassesAll(design, asked)' <=> PassesAll(design, asked)
    BY <1>5 DEF PassesAll
  <2> QED BY <1>2, <1>3, <1>4, <1>5, <2>1 DEF AnswerInv
<1>7. GoodIsUsable'
  <2>1. SUFFICES ASSUME stage' = "answered", Good(design, asked)', amiss' = {}
                 PROVE  FALSE
    BY DEF GoodIsUsable
  <2>2. Good(design, asked) BY <1>5, <2>1 DEF Good
  <2>3. r.passed BY <2>1, <2>2, GoodPasses DEF r, TypeOK
  <2> QED BY <1>2, <2>1, <2>3
<1> QED BY <1>1, <1>2, <1>6, <1>7

\* One step per action.
LEMMA NextIInv == IInv /\ [Next]_vars => IInv'
<1> SUFFICES ASSUME IInv, [Next]_vars PROVE IInv' OBVIOUS
<1>0. TypeOK /\ BuildInv /\ AnswerInv /\ SimulatesTheDesign /\ GoodIsUsable
  BY DEF IInv
<1>1. CASE Edit
  <2>1. TypeOK' BY <1>0, <1>1 DEF Edit, TypeOK, Stages
  <2>2. BuildInv' /\ AnswerInv' /\ SimulatesTheDesign' /\ GoodIsUsable'
    BY <1>0, <1>1 DEF Edit, BuildInv, AnswerInv, SimulatesTheDesign, GoodIsUsable, Stages
  <2> QED BY <2>1, <2>2 DEF IInv
<1>2. CASE run_tests
  <2>1. TypeOK' BY <1>0, <1>2 DEF run_tests, TypeOK, Stages, files
  <2>2. BuildInv' /\ AnswerInv' /\ SimulatesTheDesign' /\ GoodIsUsable'
    BY <1>0, <1>2 DEF run_tests, files, BuildInv, AnswerInv, SimulatesTheDesign,
                      GoodIsUsable, Stages
  <2> QED BY <2>1, <2>2 DEF IInv
<1>3. CASE Orphan
  <2>1. PICK left \in orphans :
          /\ build' = left /\ orphans' = orphans \ {left}
          /\ newer' = (newer /\ left = None)
          /\ amiss' = amiss \union
                        {x \in {"orphan"} : stage \in {"clean", "make", "simulate"}}
          /\ UNCHANGED <<design, call, ran>>
    BY <1>3 DEF Orphan
  <2>2. left \in Binaries \union {None} BY <1>0 DEF TypeOK
  <2>3. UNCHANGED <<design, stage, asked, test, synth, ran>> BY <2>1 DEF call
  <2>4. TypeOK' BY <1>0, <2>1, <2>2, <2>3 DEF TypeOK
  <2>5. /\ Clear' => Clear
        /\ stage \in {"clean", "make", "simulate"} => ~Clear'
        /\ stage \notin {"clean", "make", "simulate"} => amiss' = amiss
    BY <2>1 DEF Clear
  <2>6. BuildInv'
    <3>1. build' # None => build'.by = "orphan"
      BY <1>0, <2>1 DEF BuildInv
    <3>2. build' = None \/ ~newer' BY <2>1
    <3>3. \A x \in orphans' : x # None => x.by = "orphan"
      BY <1>0, <2>1 DEF BuildInv
    <3> QED BY <2>3, <2>5, <3>1, <3>2, <3>3 DEF BuildInv
  <2>7. AnswerInv'
    BY <1>0, <2>3, <2>5 DEF AnswerInv, PassesAll
  <2>8. SimulatesTheDesign' /\ GoodIsUsable'
    BY <1>0, <2>3, <2>5 DEF SimulatesTheDesign, GoodIsUsable, Good, usable
  <2> QED BY <2>4, <2>6, <2>7, <2>8 DEF IInv
<1>4. CASE MakeClean
  <2>1. TypeOK' BY <1>0, <1>4 DEF MakeClean, TypeOK, Stages
  <2>2. BuildInv' /\ AnswerInv' /\ SimulatesTheDesign' /\ GoodIsUsable'
    BY <1>0, <1>4 DEF MakeClean, BuildInv, AnswerInv, SimulatesTheDesign,
                      GoodIsUsable, Stages
  <2> QED BY <2>1, <2>2 DEF IInv
<1>5. CASE MakeCleanFails \/ MakeCleanCeiling
  <2>1. /\ stage = "clean" /\ stage' = "make" /\ build' \in {build, None}
        /\ amiss' = amiss \union {"clean"}
        /\ UNCHANGED <<design, newer, asked, test, synth, ran>>
        /\ orphans' \subseteq orphans \union {None}
    BY <1>5 DEF MakeCleanFails, MakeCleanCeiling, Leaves
  <2>2. TypeOK' BY <1>0, <2>1 DEF TypeOK, Stages
  <2>3. BuildInv' /\ AnswerInv' /\ SimulatesTheDesign' /\ GoodIsUsable'
    BY <1>0, <2>1 DEF BuildInv, AnswerInv, SimulatesTheDesign,
                      GoodIsUsable, Stages, Clear
  <2> QED BY <2>2, <2>3 DEF IInv
<1>6. CASE Make
  <2>1. stage = "make" /\ UNCHANGED <<design, orphans, asked, synth, ran, amiss>>
    BY <1>6 DEF Make
  <2>2. CASE ~Outdated /\ stage' = "simulate" /\ UNCHANGED <<newer, build, test>>
    <3>1. TypeOK' BY <1>0, <2>1, <2>2 DEF TypeOK, Stages
    <3>2. BuildInv' /\ AnswerInv' /\ SimulatesTheDesign' /\ GoodIsUsable'
      BY <1>0, <2>1, <2>2 DEF BuildInv, AnswerInv, SimulatesTheDesign,
                      GoodIsUsable, Stages, Clear, Outdated
    <3> QED BY <3>1, <3>2 DEF IInv
  <2>3. CASE build' = Built /\ newer' = FALSE /\ stage' = "simulate" /\ UNCHANGED test
    <3>1. Built \in Binaries BY <1>0 DEF TypeOK, Built, Binaries
    <3>2. TypeOK' BY <1>0, <2>1, <2>3, <3>1 DEF TypeOK, Stages
    <3>3. build'.design = design' /\ Built' = Built /\ build' = Built
      BY <2>1, <2>3 DEF Built
    <3>4. BuildInv' BY <1>0, <2>1, <2>3, <3>3 DEF BuildInv
    <3>5. AnswerInv' /\ SimulatesTheDesign' /\ GoodIsUsable'
      BY <1>0, <2>1, <2>3 DEF AnswerInv, SimulatesTheDesign, GoodIsUsable, Stages
    <3> QED BY <3>2, <3>4, <3>5 DEF IInv
  <2>4. CASE /\ Reports[design][asked] = None /\ Answers(TestResult(None))
             /\ UNCHANGED <<newer, build>>
    <3>1. /\ AnswerInv' /\ GoodIsUsable' /\ test' \in TestResults \union {None}
          /\ stage' \in {"sv2v", "answered"}
      BY <1>0, <2>1, <2>4, AnswersStep
    <3>2. TypeOK' BY <1>0, <2>1, <2>4, <3>1 DEF TypeOK, Stages
    <3>3. BuildInv' /\ SimulatesTheDesign'
      BY <1>0, <2>1, <2>4, <3>1 DEF BuildInv, SimulatesTheDesign
    <3> QED BY <3>1, <3>2, <3>3 DEF IInv
  <2> QED BY <1>6, <2>2, <2>3, <2>4 DEF Make
<1>7. CASE Simulate
  <2>1. PICK summary \in Prints : Answers(TestResult(summary))
    BY <1>7 DEF Simulate
  <2>2. stage = "simulate" /\ ran' = build /\ UNCHANGED <<files, asked, synth, amiss>>
    BY <1>7 DEF Simulate
  <2>3. summary \in Summaries \union {None}
    BY <1>0, <2>1, PointData DEF Prints, TypeOK, Binaries
  <2>4. Clear => summary = Reports[design][asked]
    BY <1>0, <2>1, <2>2, EvalAssumption DEF Prints, BuildInv, Built, TypeOK, Binaries
  <2>5. amiss = {} => Clear BY DEF Clear
  <2>6. /\ AnswerInv' /\ GoodIsUsable' /\ test' \in TestResults \union {None}
        /\ stage' \in {"sv2v", "answered"}
    BY <1>0, <2>1, <2>2, <2>3, <2>4, <2>5, AnswersStep DEF files, Clear
  <2>7. TypeOK' BY <1>0, <2>2, <2>6 DEF TypeOK, Stages, files
  <2>8. BuildInv' BY <1>0, <2>2, <2>6 DEF BuildInv, files
  <2>9. SimulatesTheDesign'
    BY <1>0, <2>2 DEF SimulatesTheDesign, BuildInv, files
  <2> QED BY <2>6, <2>7, <2>8, <2>9 DEF IInv
<1>8. CASE MakeCeiling
  <2>1. /\ stage \in {"make", "simulate"}
        /\ amiss' = amiss \union {"ceiling"}
        /\ UNCHANGED <<design, newer, build, asked, synth, ran>>
    BY <1>8 DEF MakeCeiling
  <2> DEFINE left == [Built EXCEPT !.by = "orphan"]
  <2>2. left \in Binaries /\ left.by = "orphan"
    BY <1>0 DEF TypeOK, Built, Binaries
  <2>3. /\ orphans' \subseteq Binaries \union {None}
        /\ \A x \in orphans' : x # None => x.by = "orphan"
    <3>1. orphans' = orphans \/ orphans' = orphans \union {left}
      BY <1>8 DEF MakeCeiling, Leaves
    <3> HIDE DEF left
    <3> QED BY <1>0, <2>2, <3>1 DEF TypeOK, BuildInv
  <2>4. PICK printed \in BOOLEAN :
          IF printed THEN stage' = "raised" /\ UNCHANGED test
          ELSE Answers(TestResult(None))
    BY <1>8 DEF MakeCeiling
  <2>5. CASE stage' = "raised" /\ UNCHANGED test
    <3>1. TypeOK' BY <1>0, <2>1, <2>3, <2>5 DEF TypeOK, Stages
    <3>2. BuildInv' /\ AnswerInv' /\ SimulatesTheDesign' /\ GoodIsUsable'
      BY <1>0, <2>1, <2>3, <2>5 DEF BuildInv, AnswerInv, SimulatesTheDesign,
                                    GoodIsUsable, Stages
    <3> QED BY <3>1, <3>2 DEF IInv
  <2>6. CASE Answers(TestResult(None))
    <3>1. amiss \subseteq amiss' /\ amiss' # {} BY <2>1
    <3>2. /\ AnswerInv' /\ GoodIsUsable' /\ test' \in TestResults \union {None}
          /\ stage' \in {"sv2v", "answered"}
      BY <1>0, <2>1, <2>6, <3>1, AnswersStep
    <3>3. TypeOK' BY <1>0, <2>1, <2>3, <3>2 DEF TypeOK, Stages
    <3>4. BuildInv' /\ SimulatesTheDesign'
      BY <1>0, <2>1, <2>3, <3>2 DEF BuildInv, SimulatesTheDesign
    <3> QED BY <3>2, <3>3, <3>4 DEF IInv
  <2> QED BY <2>4, <2>5, <2>6
<1>9. CASE Sv2v
  <2>1. TypeOK' BY <1>0, <1>9 DEF Sv2v, TypeOK, Stages, files
  <2>2. BuildInv' /\ AnswerInv' /\ SimulatesTheDesign'
    BY <1>0, <1>9 DEF Sv2v, files, BuildInv, AnswerInv, SimulatesTheDesign, Stages,
                      Clear, PassesAll
  <2>3. GoodIsUsable' BY <1>9 DEF Sv2v, files, GoodIsUsable, Good, PassesAll
  <2> QED BY <2>1, <2>2, <2>3 DEF IInv
<1>10. CASE Yosys
  <2>1. stage = "yosys" /\ stage' = "answered" /\ synth' = Synthesizes[design][asked]
        /\ UNCHANGED <<files, asked, test, ran, amiss>>
    BY <1>10 DEF Yosys
  <2>2. TypeOK' BY <1>0, <2>1, PointData DEF TypeOK, Stages, files
  <2>3. BuildInv' /\ SimulatesTheDesign'
    BY <1>0, <2>1 DEF files, BuildInv, SimulatesTheDesign
  <2>4. AnswerInv'
    BY <1>0, <2>1 DEF files, AnswerInv, Clear, PassesAll, Stages
  <2>5. GoodIsUsable'
    BY <1>0, <2>1 DEF files, GoodIsUsable, usable, AnswerInv, Good, TypeOK
  <2> QED BY <2>2, <2>3, <2>4, <2>5 DEF IInv
<1>11. CASE SynthCeiling
  <2>1. TypeOK' BY <1>0, <1>11 DEF SynthCeiling, TypeOK, Stages, files
  <2>2. BuildInv' /\ AnswerInv' /\ SimulatesTheDesign' /\ GoodIsUsable'
    BY <1>0, <1>11 DEF SynthCeiling, files, BuildInv, AnswerInv, SimulatesTheDesign,
                      GoodIsUsable, Stages, Clear
  <2> QED BY <2>1, <2>2 DEF IInv
<1>12. CASE UNCHANGED vars
  BY <1>0, <1>12 DEF IInv, vars, files, call, TypeOK, BuildInv, AnswerInv,
     SimulatesTheDesign, GoodIsUsable, Clear, PassesAll, Built, Good, usable
<1> QED BY <1>1, <1>2, <1>3, <1>4, <1>5, <1>6, <1>7, <1>8, <1>9, <1>10, <1>11, <1>12
        DEF Next, Command, Ceiling

THEOREM IInvHolds == Spec => []IInv
<1> QED BY InitIInv, NextIInv, PTL DEF Spec

\* Every variable keeps its type.
THEOREM TypesHold == Spec => []TypeOK
<1>1. IInv => TypeOK BY DEF IInv
<1> QED BY <1>1, IInvHolds, PTL

\* An edit is always rebuilt, whether or not the clean before it worked.
THEOREM EditsAreRebuilt == Spec => []SimulatesTheDesign
<1>1. IInv => SimulatesTheDesign BY DEF IInv
<1> QED BY <1>1, IInvHolds, PTL

\* run_tests and run_synth never flatter a design in a directory of its own.
THEOREM NeverFlatters == Spec => []UsableIsGood
<1>1. IInv => UsableIsGood
  <2>1. SUFFICES ASSUME IInv, stage = "answered", usable, Clear
                 PROVE  Good(design, asked)
    BY DEF UsableIsGood, Clear
  <2>2. Synthesizes[design][asked] /\ PassesAll(design, asked)
    BY <2>1 DEF IInv, AnswerInv, usable
  <2>3. design \in Designs /\ asked \in Points BY <2>1 DEF IInv, TypeOK
  <2> QED BY <2>2, <2>3, GoodPasses
<1> QED BY <1>1, IInvHolds, PTL

\* They never turn a good design down without a ceiling or a directory that
\* was not theirs alone.
THEOREM NeverUnjust == Spec => []GoodIsUsable
<1>1. IInv => GoodIsUsable BY DEF IInv
<1> QED BY <1>1, IInvHolds, PTL
-----------------------------------------------------------------------------
\* What the loop sees of an evaluation.
Late == "ceiling" \in amiss
seen == <<design, asked, Answered, Clear, Late>>

BusyStages == {"clean", "make", "simulate", "sv2v", "yosys"}

LEMMA AnsweredIs ==
    /\ stage = "idle" => Answered = "none"
    /\ stage = "raised" => Answered = "raised"
    /\ stage \in BusyStages => Answered = "busy"
    /\ stage = "answered" => Answered = IF ~test.passed THEN "tests"
                                        ELSE IF ~usable THEN "synthesis" ELSE "usable"
  BY DEF Answered, BusyStages

\* There is a failure of the tests to be found where not every one passes, of
\* synthesis where they do.
LEMMA FindsIs ==
    ASSUME NEW d \in Designs, NEW p \in Points
    PROVE  /\ Finds[d][p] \in Verdicts
           /\ Finds[d][p] = "tests" <=> ~PassesAll(d, p)
           /\ Finds[d][p] = "usable" <=> PassesAll(d, p) /\ Synthesizes[d][p]
  BY DEF Finds, Verdicts

\* An answer is any verdict there is to find, and an earlier one in a call that
\* was late.
LEMMA AnswerStep ==
    ASSUME IInv, stage \in BusyStages, stage' = "answered",
           NEW v \in Verdicts, Answered' = v,
           UNCHANGED <<design, asked>>, Clear' <=> Clear,
           Clear => v \in CutShort(Finds[design][asked]),
           Clear /\ ~Late' => v = Finds[design][asked]
    PROVE  Loop!EvalNext
<1>1. Answered = "busy" BY AnsweredIs
<1>v. Loop!Verdicts = Verdicts BY DEF Loop!Verdicts, Verdicts
<1>c. Loop!CutShort(Finds[design][asked]) = CutShort(Finds[design][asked])
  BY <1>v DEF Loop!CutShort, CutShort
<1>2. Loop!Answer(v) BY <1>1, <1>v, <1>c DEF Loop!Answer, Clear, Late
<1> QED BY <1>2, <1>v DEF Loop!EvalNext

LEMMA SeenNext ==
    ASSUME IInv, [Next]_vars
    PROVE  Loop!EvalNext \/ seen' = seen
<1>0. TypeOK /\ BuildInv /\ AnswerInv /\ design \in Designs /\ asked \in Points
  BY DEF IInv, TypeOK
<1>a. /\ stage' = "idle" => Answered' = "none"
      /\ stage' = "raised" => Answered' = "raised"
      /\ stage' \in BusyStages => Answered' = "busy"
      /\ stage' = "answered" => Answered' = IF ~test'.passed THEN "tests"
                                     ELSE IF ~usable' THEN "synthesis" ELSE "usable"
  BY DEF Answered, BusyStages
<1>b. stage \in {"idle", "answered", "raised"} => Answered # "busy"
  BY AnsweredIs
\* A step within the call: its directory is its own as before, or no more.
<1>k. ASSUME stage \in BusyStages, stage' \in BusyStages,
             UNCHANGED <<design, asked>>, Late' <=> Late, Clear' => Clear
      PROVE  Loop!EvalNext \/ seen' = seen
  <2>1. Answered = "busy" /\ Answered' = "busy"
    BY <1>k, <1>a, AnsweredIs
  <2>2. CASE Clear' <=> Clear
    BY <1>k, <2>1, <2>2 DEF seen, Clear, Late
  <2>3. CASE ~Clear'
    <3>1. Loop!Disturb
      BY <1>k, <2>1, <2>3 DEF Loop!Disturb, Clear, Late
    <3> QED BY <3>1 DEF Loop!EvalNext
  <2> QED BY <1>k, <2>2, <2>3
\* The tests are answered for as not passed.
<1>t. ASSUME stage \in {"make", "simulate"}, stage' = "answered", ~test'.passed,
             UNCHANGED <<design, asked>>, Clear' <=> Clear,
             Clear /\ ~Late' => ~PassesAll(design, asked)
      PROVE  Loop!EvalNext
  <2>1. Answered' = "tests" /\ "tests" \in Verdicts /\ stage \in BusyStages
    BY <1>t, <1>a DEF Verdicts, BusyStages
  <2>2. "tests" \in CutShort(Finds[design][asked])
    BY <1>0, FindsIs DEF CutShort, Verdicts
  <2>3. Clear /\ ~Late' => Finds[design][asked] = "tests"
    BY <1>0, <1>t, FindsIs
  <2> QED BY <1>t, <2>1, <2>2, <2>3, AnswerStep
\* Synthesis is answered for.
<1>s. ASSUME stage \in {"sv2v", "yosys"}, stage' = "answered",
             UNCHANGED <<design, asked, test>>, Clear' <=> Clear,
             synth' = FALSE \/ synth' = Synthesizes[design][asked],
             ~Late' => synth' = Synthesizes[design][asked]
      PROVE  Loop!EvalNext
  <2>1. test # None /\ test.passed /\ (Clear => PassesAll(design, asked))
    BY <1>0, <1>s DEF AnswerInv
  <2> DEFINE v == IF synth' = TRUE THEN "usable" ELSE "synthesis"
  <2>2. Answered' = v /\ v \in Verdicts /\ stage \in BusyStages
    BY <1>s, <1>a, <2>1 DEF usable, Verdicts, BusyStages
  <2>3. Synthesizes[design][asked] \in BOOLEAN
    BY <1>0, PointData
  <2>4. Clear => v \in CutShort(Finds[design][asked])
    BY <1>0, <1>s, <2>1, <2>3, FindsIs DEF CutShort, Verdicts
  <2>5. Clear /\ ~Late' => v = Finds[design][asked]
    BY <1>0, <1>s, <2>1, <2>3, FindsIs DEF Verdicts
  <2> HIDE DEF v
  <2> QED BY <1>s, <2>2, <2>4, <2>5, AnswerStep
<1> USE DEF files, call
<1>1. CASE Edit
  <2>1. /\ stage \in {"idle", "answered", "raised"} /\ design' \in Designs
        /\ stage' = "idle" /\ UNCHANGED <<asked, amiss>>
    BY <1>1 DEF Edit
  <2>2. Loop!Write BY <1>a, <1>b, <2>1 DEF Loop!Write
  <2> QED BY <2>2 DEF Loop!EvalNext
<1>2. CASE run_tests
  <2>1. /\ stage \in {"idle", "answered", "raised"} /\ asked' \in Points
        /\ stage' = "clean" /\ design' = design /\ amiss' = {}
    BY <1>2 DEF run_tests
  <2>2. Answered # "busy" /\ Answered' = "busy"
    BY <1>a, <1>b, <2>1 DEF BusyStages
  <2>3. Loop!Ask BY <2>1, <2>2 DEF Loop!Ask
  <2> QED BY <2>3 DEF Loop!EvalNext
<1>3. CASE Orphan
  <2>1. /\ UNCHANGED <<design, stage, asked, test, synth>>
        /\ amiss' = amiss \union
                      {x \in {"orphan"} : stage \in {"clean", "make", "simulate"}}
    BY <1>3 DEF Orphan
  <2>2. CASE stage \in {"clean", "make", "simulate"}
    BY <1>k, <2>1, <2>2 DEF BusyStages, Late, Clear
  <2>3. CASE stage \notin {"clean", "make", "simulate"}
    <3>1. amiss' = amiss BY <2>1, <2>3
    <3>2. Answered' = Answered BY <2>1 DEF Answered, usable
    <3> QED BY <2>1, <3>1, <3>2 DEF seen, Clear, Late
  <2> QED BY <2>2, <2>3
<1>4. CASE MakeClean
  BY <1>4, <1>k DEF MakeClean, BusyStages, Late, Clear
<1>5. CASE MakeCleanFails \/ MakeCleanCeiling
  <2>1. /\ stage = "clean" /\ stage' = "make" /\ amiss' = amiss \union {"clean"}
        /\ UNCHANGED <<design, asked>>
    BY <1>5 DEF MakeCleanFails, MakeCleanCeiling
  <2> QED BY <1>k, <2>1 DEF BusyStages, Late, Clear
<1>6. CASE Make
  <2>1. stage = "make" /\ UNCHANGED <<design, asked, amiss>>
    BY <1>6 DEF Make
  <2>2. CASE stage' = "simulate"
    BY <1>k, <2>1, <2>2 DEF BusyStages, Late, Clear
  <2>3. CASE Reports[design][asked] = None /\ Answers(TestResult(None))
    <3>1. ~TestResult(None).passed BY ResultType
    <3>2. stage' = "answered" /\ ~test'.passed
      BY <2>3, <3>1 DEF Answers
    <3>3. ~PassesAll(design, asked) BY <2>3 DEF PassesAll
    <3> QED BY <1>t, <2>1, <3>2, <3>3 DEF Clear
  <2> QED BY <1>6, <2>2, <2>3 DEF Make
<1>7. CASE Simulate
  <2>1. PICK summary \in Prints : Answers(TestResult(summary))
    BY <1>7 DEF Simulate
  <2>2. stage = "simulate" /\ UNCHANGED <<design, asked, amiss>>
    BY <1>7 DEF Simulate
  <2>3. Clear => summary = Reports[design][asked]
    BY <1>0, <2>1, <2>2, EvalAssumption DEF Prints, BuildInv, Built, TypeOK, Binaries
  <2>4. CASE TestResult(summary).passed
    <3>1. stage' = "sv2v" BY <2>1, <2>4 DEF Answers
    <3> QED BY <1>k, <2>2, <3>1 DEF BusyStages, Late, Clear
  <2>5. CASE ~TestResult(summary).passed
    <3>1. stage' = "answered" /\ ~test'.passed BY <2>1, <2>5 DEF Answers
    <3>2. Clear => ~PassesAll(design, asked)
      BY <1>0, <2>3, <2>5, GoodPasses
    <3> QED BY <1>t, <2>2, <3>1, <3>2 DEF Clear
  <2> QED BY <2>4, <2>5
<1>8. CASE MakeCeiling
  <2>1. /\ stage \in {"make", "simulate"} /\ amiss' = amiss \union {"ceiling"}
        /\ UNCHANGED <<design, asked>>
    BY <1>8 DEF MakeCeiling
  <2>2. Late' /\ (Clear' <=> Clear) BY <2>1 DEF Late, Clear
  <2>3. CASE stage' = "raised"
    <3>1. Answered = "busy" /\ Answered' = "raised"
      BY <1>a, <2>1, <2>3, AnsweredIs DEF BusyStages
    <3>2. Loop!Raise BY <2>1, <2>2, <3>1 DEF Loop!Raise, Clear, Late
    <3> QED BY <3>2 DEF Loop!EvalNext
  <2>4. CASE Answers(TestResult(None))
    <3>1. ~TestResult(None).passed BY ResultType
    <3>2. stage' = "answered" /\ ~test'.passed BY <2>4, <3>1 DEF Answers
    <3> QED BY <1>t, <2>1, <2>2, <3>2
  <2> QED BY <1>8, <2>3, <2>4 DEF MakeCeiling
<1>9. CASE Sv2v
  <2>1. stage = "sv2v" /\ UNCHANGED <<design, asked, test, synth, amiss>>
    BY <1>9 DEF Sv2v
  <2>2. CASE stage' = "yosys"
    BY <1>k, <2>1, <2>2 DEF BusyStages, Late, Clear
  <2>3. CASE stage' = "answered" /\ ~Synthesizes[design][asked]
    <3>1. synth' = FALSE /\ Synthesizes[design][asked] = FALSE
      BY <1>0, <2>1, <2>3, PointData DEF AnswerInv, Stages
    <3> QED BY <1>s, <2>1, <2>3, <3>1 DEF Clear
  <2> QED BY <1>9, <2>2, <2>3 DEF Sv2v
<1>10. CASE Yosys
  BY <1>10, <1>s DEF Yosys, Clear
<1>11. CASE SynthCeiling
  <2>1. /\ stage \in {"sv2v", "yosys"} /\ stage' = "answered"
        /\ amiss' = amiss \union {"ceiling"}
        /\ UNCHANGED <<design, asked, test, synth>>
    BY <1>11 DEF SynthCeiling
  <2>2. synth' = FALSE BY <1>0, <2>1 DEF AnswerInv, Stages
  <2>3. Late' /\ (Clear' <=> Clear) BY <2>1 DEF Late, Clear
  <2> QED BY <1>s, <2>1, <2>2, <2>3
<1>12. CASE UNCHANGED vars
  BY <1>12 DEF vars, seen, Answered, usable, Clear, Late
<1> QED BY <1>1, <1>2, <1>3, <1>4, <1>5, <1>6, <1>7, <1>8, <1>9, <1>10, <1>11, <1>12
        DEF Next, Command, Ceiling

\* One call after another, with edits and orphans between them, is to the loop
\* what Evaluation says: a call that had the build directory to itself answers
\* what there is to find of the file as it is, or an earlier failure when a
\* ceiling was hit, and nothing of the calls before it (run_tests and run_synth
\* as evaluate in loop.py strings them together).
THEOREM CallsAreEvaluations == Spec => ImplementsEvaluation
<1>1. Init => Loop!EvalInit
  BY AnsweredIs DEF Init, Loop!EvalInit
<1>2. IInv /\ [Next]_vars => [Loop!EvalNext]_seen
  BY SeenNext
<1> QED BY <1>1, <1>2, IInvHolds, PTL
        DEF Spec, ImplementsEvaluation, Loop!EvalSpec, Loop!evalVars, seen, Clear, Late
=============================================================================
