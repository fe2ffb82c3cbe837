----------------------------- MODULE AgentLoop ------------------------------
(***************************************************************************)
(* One run of examples/agent_loop/loop.py on one target: the loop, the     *)
(* git repository it commits to, and the agent whose only capability is to *)
(* rewrite the RTL file (tools.py).                                        *)
(*                                                                         *)
(* The RTL file is the one file of the working tree that matters, and its  *)
(* content is a design, or Absent.  A branch is the sequence of contents   *)
(* its commits gave that file, each with its subject line; a commit is     *)
(* named by its place in the sequence.  The history the run prints and     *)
(* saves, and the logs, are not modelled: nothing reads them back.         *)
(*                                                                         *)
(* Evaluation measures the file as it stands.  What it finds is a property *)
(* of the design, except that a wall-clock ceiling may turn a success, of  *)
(* the tests or of synthesis, into a failure (Ceilings).                   *)
(***************************************************************************)
EXTENDS Integers, Sequences, Ceilings

CONSTANTS Modes,          \* what --mode may be: "implement", "optimize"
          Objective,      \* "correctness", or "depth" or "cells"
          Attempts,       \* --attempts
          MaxWrites,      \* bound: write_rtl calls the agent makes in a run
          Designs,        \* contents that define the module
          Malformed,      \* contents write_rtl rejects
          Absent,         \* no file
          Skeletons,      \* what target.skeleton may be: a design or NoSkeleton
          NoSkeleton,
          Bases,          \* what HEAD may hold at the start
          VerifyPoints,   \* number of target.verify_points
          Finds,          \* what evaluation finds of a design at each point
          Cost,           \* the measurement a usable design would have
          None            \* best, before there is one

Contents == Designs \union {Absent}

\* Point 0 is target.params; the others are the verify points.
Points == 0 .. VerifyPoints

ASSUME LoopAssumption ==
    /\ Modes \subseteq {"implement", "optimize"}
    /\ Objective \in {"correctness", "depth", "cells"}
    /\ Attempts \in Nat /\ MaxWrites \in Nat /\ VerifyPoints \in Nat
    /\ Absent \notin Designs
    /\ Designs \intersect Malformed = {}
    /\ Skeletons \subseteq Designs \union {NoSkeleton}
    /\ NoSkeleton \notin Designs
    /\ Bases \subseteq Contents
    /\ Finds \in [Contents -> [Points -> Verdicts]]
    /\ Finds[Absent][0] = "tests"
    /\ Cost \in [Contents -> Nat]
    /\ None \notin Nat \union Contents \union Verdicts

\* A skeleton is a stub: it does not pass the tests.
ASSUME StubAssumption ==
    \A d \in Skeletons \ {NoSkeleton} : Finds[d][0] = "tests"

VARIABLES
    pc,             \* where main() is
    mode,           \* the mode of this run
    skeleton,       \* target.skeleton, of the target of this run
    unwinding,      \* an exception is on its way out through the finally
    head,           \* the branch checked out
    log,            \* the commits of each branch
    work,           \* the RTL file in the working tree
    writes,         \* write_rtl calls so far
    attempt, message, cand, vp, verify_fail,
    best, best_commit, verified,
    measured,       \* observer: the scores of the complete designs measured
    landed,         \* observer: what each prompt left in the file, and whether it
                    \* ended in a reply
    hit             \* observer: a ceiling has been hit by a design that works

run      == <<mode, skeleton, unwinding>>
repo     == <<head, log, work>>
progress == <<attempt, message, cand, vp, verify_fail>>
result   == <<best, best_commit, verified>>
observer == <<measured, landed, hit>>
vars     == <<pc, run, repo, writes, progress, result, observer>>
-----------------------------------------------------------------------------
\* The repository.

Subjects == {"base", "skeleton", "accepted", "no improvement",
              "fails at a verify point", "synthesis failed", "tests failed",
              "uncommitted edit", "restore"}
Messages  == {"task", "cut off", "rejected at a verify point", "tests rejected",
              "synthesis rejected", "correct", "improved", "no better"}
Commits == [content : Contents, subject : Subjects]

Tip(b) == log[b][Len(log[b])].content
Dirty  == work # Tip(head)

\* The branch with the file committed on top, if it changed.
Committed(c, subject) ==
    IF c = Tip(head) THEN log
    ELSE [log EXCEPT ![head] = Append(@, [content |-> c, subject |-> subject])]

\* What commit() returns, as a commit of the branch, or orElse for "".
Sha(c, orElse) == IF c = Tip(head) THEN orElse ELSE Len(log[head]) + 1
-----------------------------------------------------------------------------
\* Evaluation.

\* run_tests, and run_synth if the tests passed, at a parameter point.
evaluate(d, p) == CutShort(Finds[d][p])

Measures(p, v) ==
    /\ v \in evaluate(work, p)
    /\ hit' = (hit \/ v # Finds[work][p])

\* Usable at the point the loop measures and at every verify point.
Complete(d) == \A p \in Points : Finds[d][p] = "usable"

\* Lower is better; with no metric to beat all usable designs tie.
score(d) == IF Objective = "correctness" THEN 0 ELSE Cost[d]

improved(d) == best = None \/ score(d) < best
-----------------------------------------------------------------------------
Init ==
    /\ pc = "start"
    /\ mode \in Modes
    /\ skeleton \in Skeletons
    /\ unwinding = FALSE
    /\ head = "origin"
    /\ \E b \in Bases :
          log = [n \in {"origin", "agent"} |->
                    IF n = "origin" THEN <<[content |-> b, subject |-> "base"]>>
                                    ELSE <<>>]
    /\ work \in Contents
    /\ writes = 0
    /\ attempt = 0 /\ message = "task" /\ cand = None
    /\ vp = 0 /\ verify_fail = FALSE
    /\ best = None /\ best_commit = 1 /\ verified = None
    /\ measured = {} /\ landed = {} /\ hit = FALSE

\* require_clean_tree: refuse to start on uncommitted work.
Refuse ==
    /\ pc = "start" /\ Dirty
    /\ pc' = "refused"
    /\ UNCHANGED <<run, repo, writes, progress, result, observer>>

\* Mutated: the run stays on the branch it was started on.
Branch_InPlace ==
    /\ pc = "start" /\ ~Dirty
    /\ log' = [log EXCEPT !.agent = log.origin]
    /\ pc' = IF mode = "implement" THEN "seed" ELSE "baseline"
    /\ UNCHANGED <<run, head, work, writes, progress, result, observer>>

\* git checkout -b.
Branch ==
    /\ pc = "start" /\ ~Dirty
    /\ head' = "agent"
    /\ log' = [log EXCEPT !.agent = log.origin]
    /\ pc' = IF mode = "implement" THEN "seed" ELSE "baseline"
    /\ UNCHANGED <<run, work, writes, progress, result, observer>>

\* Any exception not caught inside the loop, KeyboardInterrupt included, and
\* where it takes the run.
Raise(to) ==
    /\ pc' = to
    /\ unwinding' = TRUE
    /\ UNCHANGED <<mode, skeleton>>

\* Implement mode: start from the skeleton.
Seed ==
    /\ pc = "seed"
    /\ skeleton # NoSkeleton
    /\ work' = skeleton
    /\ pc' = "stub"
    /\ UNCHANGED <<run, head, log, writes, progress, result, observer>>

\* The stub is committed, and measured too, but its score is not taken.
Stub ==
    /\ pc = "stub"
    /\ log' = Committed(work, "skeleton")
    /\ pc' = "loop"
    /\ UNCHANGED <<run, head, work, writes, progress, result, observer>>

NoSkeletonToSeed ==
    /\ pc = "seed"
    /\ skeleton = NoSkeleton
    /\ Raise("finally")
    /\ UNCHANGED <<repo, writes, progress, result, observer>>

\* Optimize mode: the design to beat is the one on HEAD.  Only the primary
\* point is measured.
Baseline ==
    /\ pc = "baseline"
    /\ \E v \in Verdicts :
       /\ Measures(0, v)
       /\ IF v = "usable"
          THEN /\ best' = score(work)
               /\ measured' = measured \union {score(work)}
               /\ pc' = "loop"
               /\ UNCHANGED run
          ELSE Raise("finally") /\ UNCHANGED <<best, measured>>
    /\ UNCHANGED <<repo, writes, progress, best_commit, verified, landed>>

\* Mutated: an attempt whose call raised does not count.
LoopHead_RetriesFree ==
    /\ pc = "loop"
    /\ \/ /\ attempt < Attempts
          /\ attempt' = IF message = "cut off" THEN attempt ELSE attempt + 1
          /\ pc' = "prompt"
       \/ /\ attempt = Attempts
          /\ pc' = "finally"
          /\ UNCHANGED attempt
    /\ UNCHANGED <<run, repo, writes, message, cand, vp, verify_fail,
                   result, observer>>

LoopHead ==
    /\ pc = "loop"
    /\ \/ /\ attempt < Attempts
          /\ attempt' = attempt + 1
          /\ pc' = "prompt"
       \/ /\ attempt = Attempts
          /\ pc' = "finally"
          /\ UNCHANGED attempt
    /\ UNCHANGED <<run, repo, writes, message, cand, vp, verify_fail,
                   result, observer>>
-----------------------------------------------------------------------------
\* The agent.

\* Mutated: whatever the reply holds is written.
write_rtl_Unguarded(c) ==
    /\ pc = "prompt"
    /\ writes < MaxWrites
    /\ writes' = writes + 1
    /\ work' = c
    /\ UNCHANGED <<pc, run, head, log, progress, result, observer>>

\* The one tool, called any number of times while the agent is prompted.  A
\* reply cut short of the module or its endmodule is turned down.
write_rtl(c) ==
    /\ pc = "prompt"
    /\ writes < MaxWrites
    /\ writes' = writes + 1
    /\ work' = IF c \in Malformed THEN work ELSE c
    /\ UNCHANGED <<pc, run, head, log, progress, result, observer>>

AgentWrites == \E c \in Designs \union Malformed : write_rtl(c)

PromptEnds(replied) ==
    /\ pc = "prompt"
    /\ landed' = landed \union {[content |-> work, replied |-> replied]}
    /\ UNCHANGED <<run, repo, writes, attempt, cand, vp, verify_fail,
                   result, measured, hit>>

\* The call raised, perhaps after the edit landed: the attempt is spent, the
\* file is left as it is.
PromptRaises ==
    /\ PromptEnds(FALSE)
    /\ message' = "cut off"
    /\ pc' = "loop"

\* The call returned without success: the same message again.
PromptFails ==
    /\ PromptEnds(FALSE)
    /\ pc' = "loop"
    /\ UNCHANGED message

PromptReplies ==
    /\ PromptEnds(TRUE)
    /\ pc' = "evaluate"
    /\ UNCHANGED message
-----------------------------------------------------------------------------
\* The rest of an attempt.

Evaluate ==
    /\ pc = "evaluate"
    /\ \E v \in Verdicts : Measures(0, v) /\ cand' = v
    /\ verify_fail' = FALSE
    /\ vp' = 0
    /\ pc' = IF cand' = "usable" THEN "verify" ELSE "record"
    /\ UNCHANGED <<run, repo, writes, attempt, message, result,
                   measured, landed>>

\* Mutated: the verify points are evaluated and their failures not kept.
check_verify_points_Ignored ==
    /\ pc = "verify"
    /\ \/ /\ vp < VerifyPoints
          /\ vp' = vp + 1
          /\ \E v \in Verdicts : Measures(vp + 1, v)
          /\ UNCHANGED <<pc, verified, verify_fail>>
       \/ /\ vp = VerifyPoints
          /\ verified' = IF VerifyPoints > 0 THEN work ELSE verified
          /\ pc' = "record"
          /\ UNCHANGED <<vp, verify_fail, hit>>
    /\ UNCHANGED <<run, repo, writes, attempt, message, cand,
                   best, best_commit, measured, landed>>

\* The verify points in turn, stopping at the first failure.  What the last
\* complete pass found is kept for the report.
check_verify_points ==
    /\ pc = "verify"
    /\ \/ /\ vp < VerifyPoints
          /\ vp' = vp + 1
          /\ \E v \in Verdicts :
             /\ Measures(vp + 1, v)
             /\ IF v = "usable"
                THEN UNCHANGED <<pc, verify_fail>>
                ELSE verify_fail' = TRUE /\ pc' = "record"
          /\ UNCHANGED verified
       \/ /\ vp = VerifyPoints
          /\ verified' = IF VerifyPoints > 0 THEN work ELSE verified
          /\ pc' = "record"
          /\ UNCHANGED <<vp, verify_fail, hit>>
    /\ UNCHANGED <<run, repo, writes, attempt, message, cand,
                   best, best_commit, measured, landed>>

\* Mutated: usable where it is measured is enough.
complete_PrimaryOnly == cand = "usable"

complete == cand = "usable" /\ ~verify_fail

headline ==
    CASE complete /\ improved(work)  -> "accepted"
      [] complete /\ ~improved(work) -> "no improvement"
      [] verify_fail                 -> "fails at a verify point"
      [] cand = "synthesis"          -> "synthesis failed"
      [] cand = "tests"              -> "tests failed"

\* Mutated: an attempt that does not do better replaces the best all the same.
UpdateBest_Always ==
    IF complete
    THEN /\ best' = score(work)
         /\ best_commit' = Sha(work, best_commit)
    ELSE UNCHANGED <<best, best_commit>>

\* Mutated: the commit to go back to is not moved along with the score.
UpdateBest_ScoreOnly ==
    /\ best' = IF complete /\ improved(work) THEN score(work) ELSE best
    /\ UNCHANGED best_commit

\* best_commit is where the best design was committed; an attempt that
\* changed nothing has no commit and leaves it where it was.
UpdateBest ==
    IF complete /\ improved(work)
    THEN /\ best' = score(work)
         /\ best_commit' = Sha(work, best_commit)
    ELSE UNCHANGED <<best, best_commit>>

\* format_feedback, which is given the best score after this attempt's update.
feedback(newBest) ==
    CASE verify_fail                                   -> "rejected at a verify point"
      [] ~verify_fail /\ cand = "tests"                -> "tests rejected"
      [] ~verify_fail /\ cand = "synthesis"            -> "synthesis rejected"
      [] complete /\ Objective = "correctness"         -> "correct"
      [] complete /\ Objective # "correctness" /\ score(work) < newBest
                                                       -> "improved"
      [] complete /\ Objective # "correctness" /\ ~(score(work) < newBest)
                                                       -> "no better"

\* Mutated: implement mode goes on after a complete design.
Stops_Never == FALSE

\* In implement mode the goal is binary.
Stops == mode = "implement" /\ complete

Record ==
    /\ pc = "record"
    /\ log' = Committed(work, headline)
    /\ UpdateBest
    /\ measured' = IF complete THEN measured \union {score(work)} ELSE measured
    /\ IF Stops
       THEN pc' = "finally" /\ UNCHANGED message
       ELSE pc' = "loop" /\ message' = feedback(best')
    /\ UNCHANGED <<run, head, work, writes, attempt, cand, vp, verify_fail,
                   verified, landed, hit>>

\* Anything in the try may raise, or be interrupted.
Interrupt ==
    /\ pc \in {"seed", "stub", "baseline", "loop", "prompt", "evaluate", "verify", "record"}
    /\ Raise("finally")
    /\ UNCHANGED <<repo, writes, progress, result, observer>>
-----------------------------------------------------------------------------
\* The way out.

\* Mutated: the finally clause does not look for stragglers.
Finally_DropsEdit ==
    /\ pc = "finally"
    /\ pc' = IF unwinding THEN "raised" ELSE "restore"
    /\ UNCHANGED <<run, repo, writes, progress, result, observer>>

\* A straggler edit is committed, whatever is in flight.
Finally ==
    /\ pc = "finally"
    /\ log' = Committed(work, "uncommitted edit")
    /\ pc' = IF unwinding THEN "raised" ELSE "restore"
    /\ UNCHANGED <<run, head, work, writes, progress, result, observer>>

\* The clause raises itself, before anything is committed.
FinallyFails ==
    /\ pc = "finally"
    /\ Raise("failed")
    /\ UNCHANGED <<repo, writes, progress, result, observer>>

\* The file as it was at best_commit, committed if that changed it.  git has
\* nothing to check out where the file did not exist yet.
Restore ==
    /\ pc = "restore"
    /\ LET kept == log[head][best_commit].content
       IN  IF best_commit = Len(log[head])
           THEN pc' = "report" /\ UNCHANGED repo
           ELSE IF kept = Absent
           THEN pc' = "raised" /\ UNCHANGED repo
           ELSE /\ work' = kept
                /\ log' = Committed(kept, "restore")
                /\ pc' = "report"
                /\ UNCHANGED head
    /\ UNCHANGED <<run, writes, progress, result, observer>>

\* git raises, or is interrupted, before the file is back or before the commit.
RestoreFails ==
    /\ pc = "restore"
    /\ Raise("failed")
    /\ work' \in {work} \union ({log[head][best_commit].content} \ {Absent})
    /\ UNCHANGED <<head, log, writes, progress, result, observer>>

\* The result is printed and saved, and the original branch checked out.
Report ==
    /\ pc = "report"
    /\ head' = "origin"
    /\ work' = Tip("origin")
    /\ pc' = "done"
    /\ UNCHANGED <<run, log, writes, progress, result, observer>>

\* Anything of that raises, and the run's own branch stays checked out.
ReportFails ==
    /\ pc = "report"
    /\ Raise("left")
    /\ UNCHANGED <<repo, writes, progress, result, observer>>

Final == {"refused", "raised", "failed", "left", "done"}

Next ==
    \/ Refuse \/ Branch
    \/ Seed \/ Stub \/ NoSkeletonToSeed \/ Baseline
    \/ LoopHead
    \/ AgentWrites \/ PromptRaises \/ PromptFails \/ PromptReplies
    \/ Evaluate \/ check_verify_points \/ Record
    \/ Interrupt
    \/ Finally \/ FinallyFails \/ Restore \/ RestoreFails \/ Report \/ ReportFails

Spec == Init /\ [][Next]_vars

\* The program runs, and every call it waits for returns: the ceilings of
\* nodes.py see to it for the evaluation; nothing does for the model.
LiveSpec == Spec /\ WF_vars(Next)
-----------------------------------------------------------------------------
\* Types.  What is in the file always defines the module, whatever the agent
\* replied, once there is a file.
TypeOK ==
    /\ pc \in {"start", "seed", "stub", "baseline", "loop", "prompt", "evaluate",
               "verify", "record", "finally", "restore", "report"} \union Final
    /\ mode \in Modes
    /\ skeleton \in Skeletons
    /\ unwinding \in BOOLEAN
    /\ head \in {"origin", "agent"}
    /\ log \in [{"origin", "agent"} -> Seq(Commits)]
    /\ work \in Contents
    /\ writes \in 0 .. MaxWrites
    /\ attempt \in 0 .. Attempts
    /\ message \in Messages
    /\ cand \in Verdicts \union {None}
    /\ vp \in Points
    /\ verify_fail \in BOOLEAN
    /\ best \in Nat \union {None}
    /\ best_commit \in Nat
    /\ verified \in Contents \union {None}
    /\ measured \subseteq Nat
    /\ landed \subseteq [content : Contents, replied : BOOLEAN]
    /\ hit \in BOOLEAN

\* "main is never touched" (loop.py, head of the file): no branch but the
\* run's own gets a commit, and that one only grows.
OnlyOwnBranchGrows ==
    [][ /\ log'["origin"] = log["origin"]
        /\ pc # "start" => \A i \in 1 .. Len(log["agent"]) :
                              /\ i <= Len(log'["agent"])
                              /\ log'["agent"][i] = log["agent"][i] ]_vars

\* best is the least score measured of a design that was complete when it was
\* measured (in optimize mode, of the baseline too), whatever the order the
\* designs came in, and there is none as long as nothing complete was measured.
BestIsLeastMeasured ==
    IF best = None THEN measured = {}
    ELSE best \in measured /\ \A m \in measured : best <= m

\* What the headline of a commit says is true of the content that commit
\* holds: an accepted design works at every parameter point, and is better
\* than all those accepted before it.
Accepted == {i \in 1 .. Len(log["agent"]) : log["agent"][i].subject = "accepted"}
HeadlinesAreTrue ==
    /\ \A i \in 1 .. Len(log["agent"]) :
          log["agent"][i].subject \in {"accepted", "no improvement"}
              => Complete(log["agent"][i].content)
    /\ \A i, j \in Accepted :
          i < j => score(log["agent"][j].content) < score(log["agent"][i].content)

\* The branch tip is left at the best design rather than at whatever the last
\* attempt produced (the comment at the end of main), provided no ceiling was
\* hit: the tip has the best score, and nothing the run took as complete
\* beats it; with no best the tip is what the run started from.
BestOnTip ==
    IF best = None THEN Tip("agent") = Tip("origin")
    ELSE /\ Finds[Tip("agent")][0] = "usable"
         /\ score(Tip("agent")) = best
TipIsBest == pc = "report" /\ ~hit => BestOnTip

\* The same comment as it stands, with no proviso.
TipIsAlwaysBest == pc = "report" => BestOnTip

\* A run that stops at its first complete design (implement mode) reports as
\* verified the design it leaves on the tip, and nothing when there is none or
\* the target has no verify points.
VerifiedIsTip ==
    pc = "report" /\ mode = "implement" /\ ~hit =>
        verified = IF best = None \/ VerifyPoints = 0 THEN None ELSE Tip("agent")

\* When the process ends, whatever was raised in the loop and whatever fails
\* of the report, no edit is left uncommitted: the checkout of the original
\* branch cannot fail on a dirty tree (the comment in the finally clause).  Not
\* so when the finally clause or the restore raises itself ("failed").
TreeCleanAtEnd == pc \in {"raised", "report", "left", "done"} => ~Dirty

\* "Any straggler edit from a crashed attempt still gets committed ... and
\* nothing is lost" (the comment in the finally clause).
InACommit(d) == \E i \in 1 .. Len(log["agent"]) : log["agent"][i].content = d
NothingIsLost == pc = "report" => \A e \in landed : InACommit(e.content)

\* What is true of it: every edit handed over by a reply is in a commit once
\* the finally clause is through, whatever was found of it, whatever raised
\* while it was judged, and whatever came after it; and where that clause or
\* the restore fails, in a commit or still in the file.
RepliesAreKept ==
    \A e \in landed : e.replied =>
        /\ pc \in {"restore", "raised", "report", "left", "done"} => InACommit(e.content)
        /\ pc = "failed" => InACommit(e.content) \/ e.content = work

\* "Your original branch is restored on the way out" (loop.py, head of the
\* file), for a run that nothing interrupted.
OriginalBranchRestored ==
    pc \in {"raised", "done"} /\ ~unwinding => head = "origin"

\* What is true of it: only for a file the original branch does not have, and
\* only with no design to leave in it (or after a ceiling was hit), does a run
\* that nothing interrupted end elsewhere.
RestoredUnlessAbsent ==
    pc \in {"raised", "done"} /\ ~unwinding =>
        \/ head = "origin"
        \/ Tip("origin") = Absent /\ (best = None \/ hit)

\* "IMPROVED (best was ...)" (format_feedback): an attempt that beats the
\* best design is told so.
ImprovementIsReported ==
    [][pc = "record" /\ pc' = "loop" /\ best' # best /\ Objective # "correctness"
         => message' = "improved"]_vars

\* The run ends, each attempt costing one of the attempts whatever becomes of
\* it, if every call returns.
Terminates == <>(pc \in Final)

\* How many steps a run can take at most from where it is, edits and verify
\* points counted one by one.
StepsToLoopEnd ==
    CASE pc \in Final -> 0
      [] pc = "report"   -> 1
      [] pc = "restore"  -> 2
      [] pc = "finally"  -> 3
      [] pc = "loop"     -> 4
      [] pc \in {"stub", "baseline", "record"} -> 5
      [] pc = "seed"     -> 6
      [] pc = "start"    -> 7
      [] pc = "verify"   -> 6 + (VerifyPoints - vp)
      [] pc = "evaluate" -> 7 + VerifyPoints
      [] pc = "prompt"   -> 8 + VerifyPoints
AttemptSteps == VerifyPoints + 5
stepsLeft ==
    (Attempts - attempt) * AttemptSteps + (MaxWrites - writes) + StepsToLoopEnd

\* Why it ends: nothing the loop does is free.  Every step, of the agent, of
\* the evaluation or of the way out, takes one at least from a number fixed at
\* the start: a prompt that raises or fails costs an attempt as well.
StepsRunDown == [][stepsLeft' < stepsLeft]_vars
-----------------------------------------------------------------------------
\* To its user a run is what DesignRun says.
State ==
    CASE pc = "start"   -> "idle"
      [] pc = "refused" -> "refused"
      [] pc = "report"  -> "finished"
      [] pc = "done"    -> "returned"
      [] pc = "raised"  -> "broken"
      [] pc = "left"    -> "left"
      [] OTHER          -> IF unwinding THEN "failing" ELSE "running"

User == INSTANCE DesignRun WITH
            Works  <- {d \in Contents : Complete(d)},
            Passes <- {d \in Contents : Finds[d][0] = "usable"},
            Score  <- [d \in Contents |-> score(d)],
            goal   <- mode,
            state  <- State,
            main   <- Tip("origin"),
            bar    <- best,
            result <- IF pc \in {"report", "left", "done"} THEN Tip("agent") ELSE None,
            doubt  <- hit

\* "Nothing has to be adopted ... a run you dislike is a branch you delete.
\* Your original branch is restored on the way out" (loop.py, head of the
\* file), with what the run really leaves in either case.
ImplementsRun == User!RunSpec
=============================================================================
