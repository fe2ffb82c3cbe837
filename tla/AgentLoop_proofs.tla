-------------------------- MODULE AgentLoop_proofs --------------------------
(***************************************************************************)
(* Theorems about AgentLoop, for every set of designs, every outcome of    *)
(* their evaluation (ceilings hit included), every number of attempts and  *)
(* every point at which the run is interrupted.                            *)
(*                                                                         *)
(* The inductive invariant IInv adds to the properties what the loop knows *)
(* at each place: where the branch came from, what has been evaluated of   *)
(* the file while an attempt is being judged, and that the tip, as long as *)
(* attempts are made, has been measured.  VInv adds, for implement mode,   *)
(* what passed the verify points last; UInv, for both, what the commits    *)
(* hold of the edits, of the file's absence and of the designs chosen.  On *)
(* all three rests the refinement of DesignRun, the run as its user sees   *)
(* it.                                                                     *)
(***************************************************************************)
EXTENDS AgentLoop, TLAPS

OnBranch  == pc \notin {"start", "refused"}
Attempting == {"loop", "prompt", "evaluate", "verify", "record"}

\* The run's branch sits on the commit the original one ends with.
BranchInv ==
    /\ Len(log["origin"]) = 1
    /\ log["origin"][1].subject = "base"
    /\ pc \in {"start", "refused"} => head = "origin" /\ best = None
    /\ OnBranch => /\ Len(log["agent"]) >= 1
                   /\ log["agent"][1] = log["origin"][1]
                   /\ best_commit \in 1 .. Len(log["agent"])
    /\ ~OnBranch => log["agent"] = <<>> /\ measured = {} /\ best_commit = 1
    /\ OnBranch /\ pc # "done" => head = "agent"

\* What has been evaluated so far of the file, while it is judged.
JudgeInv ==
    /\ pc = "verify" => /\ cand = "usable" /\ ~verify_fail
                        /\ \A p \in 0 .. vp : Finds[work][p] = "usable"
    /\ pc = "record" => /\ cand \in Verdicts
                        /\ complete => Complete(work)
                        /\ Complete(work) /\ ~hit => complete

\* No accepted design is better than the best.
AcceptedInv ==
    \A i \in Accepted : best # None /\ best <= score(log["agent"][i].content)

\* The best design is at best_commit, and the tip holds nothing better.
BestCommitInv ==
    OnBranch /\ ~hit =>
        LET kept == log["agent"][best_commit].content
        IN  IF best = None THEN best_commit = 1
            ELSE Finds[kept][0] = "usable" /\ score(kept) = best

TipMeasured ==
    pc \in Attempting /\ ~hit /\ Complete(Tip("agent"))
        => best # None /\ best <= score(Tip("agent"))

\* Nothing is uncommitted once the finally clause is through, nor before the
\* first file is written.
CleanInv ==
    /\ pc \in {"baseline", "restore", "raised", "report", "left", "done"} => ~Dirty
    /\ pc = "stub" => work \in Skeletons \ {NoSkeleton}
    /\ pc \in {"seed", "stub", "baseline"} => best = None
    /\ pc = "baseline" => Len(log["agent"]) = 1

IInv ==
    /\ TypeOK /\ BranchInv /\ BestIsLeastMeasured /\ JudgeInv
    /\ HeadlinesAreTrue /\ AcceptedInv
    /\ BestCommitInv /\ TipMeasured /\ CleanInv
    /\ pc = "report" /\ ~hit => BestOnTip
-----------------------------------------------------------------------------
\* Committing a content leaves the branch ending in it: one commit more, or
\* none when the branch ends in it already.  What was there stays.
LEMMA Commit ==
    ASSUME TypeOK, BranchInv, OnBranch, pc # "done",
           NEW c \in Contents, NEW h \in Subjects,
           log' = Committed(c, h)
    PROVE  /\ log' \in [{"origin", "agent"} -> Seq(Commits)]
           /\ log'["origin"] = log["origin"]
           /\ Len(log'["agent"]) >= Len(log["agent"])
           /\ \A i \in 1 .. Len(log["agent"]) :
                 log'["agent"][i] = log["agent"][i]
           /\ \A i \in 1 .. Len(log'["agent"]) :
                 \/ i \in 1 .. Len(log["agent"])
                 \/ /\ i = Len(log'["agent"])
                    /\ log'["agent"][i] = [content |-> c, subject |-> h]
           /\ log'["agent"][Len(log'["agent"])].content = c
           /\ c = Tip("agent") => log' = log
           /\ c # Tip("agent") => Len(log'["agent"]) = Len(log["agent"]) + 1
<1> DEFINE new == [content |-> c, subject |-> h]
<1>0. head = "agent" /\ log \in [{"origin", "agent"} -> Seq(Commits)]
      /\ log["agent"] \in Seq(Commits) /\ Len(log["agent"]) >= 1
  BY DEF TypeOK, BranchInv
<1>1. new \in Commits
  BY DEF Commits
<1>2. CASE c = Tip("agent")
  <2>1. log' = log
    BY <1>0, <1>2 DEF Committed
  <2> QED BY <2>1, <1>0, <1>2 DEF Tip
<1>3. CASE c # Tip("agent")
  <2> DEFINE grown == Append(log["agent"], new)
  <2>1. log' = [log EXCEPT !["agent"] = grown]
    BY <1>0, <1>3 DEF Committed
  <2>2. log'["agent"] = grown /\ log'["origin"] = log["origin"]
    BY <2>1, <1>0
  <2>3. /\ grown \in Seq(Commits)
        /\ Len(grown) = Len(log["agent"]) + 1
        /\ \A i \in 1 .. Len(log["agent"]) : grown[i] = log["agent"][i]
        /\ grown[Len(log["agent"]) + 1] = new
    BY <1>0, <1>1
  <2>4. log' \in [{"origin", "agent"} -> Seq(Commits)]
    BY <2>1, <2>3, <1>0
  <2>5. Len(log["agent"]) \in Nat
    BY <1>0
  <2> HIDE DEF grown
  <2>6. \A i \in 1 .. Len(log'["agent"]) :
                 \/ i \in 1 .. Len(log["agent"])
                 \/ /\ i = Len(log'["agent"])
                    /\ log'["agent"][i] = new
    BY <2>2, <2>3, <2>5
  <2>7. /\ Len(log'["agent"]) = Len(log["agent"]) + 1
        /\ \A i \in 1 .. Len(log["agent"]) : log'["agent"][i] = log["agent"][i]
        /\ log'["agent"][Len(log'["agent"])].content = c
    BY <2>2, <2>3
  <2> QED BY <2>2, <2>4, <2>5, <2>6, <2>7, <1>3
<1> QED BY <1>2, <1>3

\* The contents and numbers the loop handles.
LEMMA Data ==
    /\ \A d \in Contents : score(d) \in Nat
    /\ \A d \in Contents, p \in Points : Finds[d][p] \in Verdicts
    /\ Skeletons \ {NoSkeleton} \subseteq Contents
    /\ 0 \in Points
    /\ Tip("agent") = log["agent"][Len(log["agent"])].content
<1>1. \A d \in Contents : score(d) \in Nat
  BY LoopAssumption DEF score
<1>2. \A d \in Contents, p \in Points : Finds[d][p] \in Verdicts
  BY LoopAssumption
<1>3. Skeletons \ {NoSkeleton} \subseteq Contents
  BY LoopAssumption DEF Contents
<1>4. 0 \in Points
  BY LoopAssumption DEF Points
<1> QED BY <1>1, <1>2, <1>3, <1>4 DEF Tip

\* What the way out failing leaves: the branches as they are, and the file too
\* unless the restore got to put back a design.
LEMMA WayOutFails ==
    ASSUME TypeOK, BranchInv, FinallyFails \/ RestoreFails \/ ReportFails
    PROVE  /\ OnBranch
           /\ \/ pc \in {"finally", "restore"} /\ pc' = "failed"
              \/ pc = "report" /\ pc' = "left"
           /\ unwinding' = TRUE
           /\ UNCHANGED <<mode, skeleton, head, log, writes, progress, result, observer>>
           /\ \/ work' = work
              \/ pc = "restore" /\ work' \in Contents \ {Absent}
<1> USE DEF repo, progress, result, observer
<1>1. CASE FinallyFails
  BY <1>1 DEF FinallyFails, Raise, OnBranch
<1>2. CASE RestoreFails
  <2>1. /\ pc = "restore" /\ OnBranch /\ head = "agent"
        /\ best_commit \in 1 .. Len(log["agent"]) /\ log["agent"] \in Seq(Commits)
    BY <1>2 DEF RestoreFails, BranchInv, OnBranch, TypeOK
  <2>2. log["agent"][best_commit] \in Commits
    BY <2>1
  <2>3. log[head][best_commit].content \in Contents
    BY <2>1, <2>2 DEF Commits
  <2> QED BY <1>2, <2>1, <2>3 DEF RestoreFails, Raise
<1>3. CASE ReportFails
  BY <1>3 DEF ReportFails, Raise, OnBranch
<1> QED BY <1>1, <1>2, <1>3

LEMMA HeadlineIsOne == pc = "record" /\ JudgeInv => headline \in Subjects
  BY DEF headline, Subjects, JudgeInv, complete, Verdicts

LEMMA FeedbackIsOne ==
    ASSUME pc = "record", JudgeInv, NEW b  PROVE feedback(b) \in Messages
  BY DEF feedback, Messages, JudgeInv, complete, Verdicts
-----------------------------------------------------------------------------
\* The subject line of a commit this step makes: only an attempt judged has a
\* verdict in it.
Says(h) ==
    \/ h \in {"skeleton", "uncommitted edit", "restore"}
    \/ pc = "record" /\ h = headline

\* What a step can do to the branches: the run's own is cut off the original
\* one, or keeps what it has and is extended by at most one commit, of the
\* content the file is left with.
LogStepped ==
    /\ log' \in [{"origin", "agent"} -> Seq(Commits)]
    /\ log'["origin"] = log["origin"]
    /\ ~OnBranch => log'["agent"] \in {log["agent"], log["origin"]}
    /\ OnBranch =>
         /\ Len(log'["agent"]) >= Len(log["agent"])
         /\ \A i \in 1 .. Len(log["agent"]) : log'["agent"][i] = log["agent"][i]
         /\ \A i \in 1 .. Len(log'["agent"]) :
               \/ i \in 1 .. Len(log["agent"])
               \/ /\ i = Len(log'["agent"])
                  /\ log'["agent"][i].content = work'
                  /\ Says(log'["agent"][i].subject)

LEMMA LogStep == IInv /\ [Next]_vars => LogStepped
<1> SUFFICES ASSUME IInv, [Next]_vars
             PROVE  LogStepped
  OBVIOUS
<1>0. /\ TypeOK /\ BranchInv
      /\ log \in [{"origin", "agent"} -> Seq(Commits)]
      /\ log["agent"] \in Seq(Commits) /\ log["origin"] \in Seq(Commits)
      /\ work \in Contents
  BY DEF IInv, TypeOK
<1>a. ASSUME log' = log
      PROVE  LogStepped
  <2>1. Len(log["agent"]) \in Nat
    BY <1>0
  <2>2. log' \in [{"origin", "agent"} -> Seq(Commits)] /\ log'["origin"] = log["origin"]
    BY <1>a, <1>0
  <2>3. log'["agent"] = log["agent"] /\ Len(log'["agent"]) >= Len(log["agent"])
    BY <1>a, <2>1
  <2>4. \A i \in 1 .. Len(log["agent"]) : log'["agent"][i] = log["agent"][i]
    BY <1>a
  <2>5. \A i \in 1 .. Len(log'["agent"]) : i \in 1 .. Len(log["agent"])
    BY <1>a
  <2> QED BY <2>2, <2>3, <2>4, <2>5 DEF LogStepped
<1>b. ASSUME NEW c \in Contents, NEW h \in Subjects, OnBranch, pc # "done",
             log' = Committed(c, h), work' = c, Says(h)
      PROVE  LogStepped
  <2>1. /\ log' \in [{"origin", "agent"} -> Seq(Commits)]
        /\ log'["origin"] = log["origin"]
        /\ Len(log'["agent"]) >= Len(log["agent"])
        /\ \A i \in 1 .. Len(log["agent"]) :
              log'["agent"][i] = log["agent"][i]
        /\ \A i \in 1 .. Len(log'["agent"]) :
              \/ i \in 1 .. Len(log["agent"])
              \/ /\ i = Len(log'["agent"])
                 /\ log'["agent"][i] = [content |-> c, subject |-> h]
    BY <1>0, <1>b, Commit
  <2>2. ASSUME NEW i \in 1 .. Len(log'["agent"]), i \notin 1 .. Len(log["agent"])
        PROVE  /\ i = Len(log'["agent"])
               /\ log'["agent"][i].content = work'
               /\ log'["agent"][i].subject = h
    BY <2>1, <2>2, <1>b
  <2> QED BY <2>1, <2>2, <1>b DEF LogStepped
<1>1. CASE Branch
  <2>1. log' = [log EXCEPT !["agent"] = log["origin"]] /\ ~OnBranch
    BY <1>1 DEF Branch, OnBranch
  <2>2. log'["agent"] = log["origin"] /\ log'["origin"] = log["origin"]
        /\ log' \in [{"origin", "agent"} -> Seq(Commits)]
    BY <2>1, <1>0
  <2> QED BY <2>1, <2>2 DEF LogStepped
<1>2. CASE Stub
  <2>1. work' = work /\ log' = Committed(work, "skeleton") /\ pc = "stub"
    BY <1>2 DEF Stub
  <2>2. OnBranch /\ pc # "done"
    BY <2>1 DEF OnBranch
  <2>3. "skeleton" \in Subjects /\ Says("skeleton")
    BY DEF Subjects, Says
  <2> QED BY <2>1, <2>2, <2>3, <1>0, <1>b
<1>3. CASE Record
  <2>1. work' = work /\ log' = Committed(work, headline) /\ pc = "record"
    BY <1>3 DEF Record
  <2>2. headline \in Subjects /\ Says(headline)
    BY <2>1, HeadlineIsOne DEF IInv, Says
  <2>3. OnBranch /\ pc # "done"
    BY <2>1 DEF OnBranch
  <2> QED BY <2>1, <2>2, <2>3, <1>0, <1>b
<1>4. CASE Finally
  <2>1. work' = work /\ log' = Committed(work, "uncommitted edit") /\ pc = "finally"
    BY <1>4 DEF Finally
  <2>2. OnBranch /\ pc # "done"
    BY <2>1 DEF OnBranch
  <2>3. "uncommitted edit" \in Subjects /\ Says("uncommitted edit")
    BY DEF Subjects, Says
  <2> QED BY <2>1, <2>2, <2>3, <1>0, <1>b
<1>5. CASE Restore
  <2> DEFINE kept == log[head][best_commit].content
  <2>1. CASE UNCHANGED repo
    BY <2>1, <1>a DEF repo
  <2>2. CASE work' = kept /\ log' = Committed(kept, "restore")
    <3>1. pc = "restore" /\ head = "agent" /\ best_commit \in 1 .. Len(log["agent"])
      BY <1>5, <1>0 DEF Restore, BranchInv, OnBranch
    <3>2. log["agent"][best_commit] \in Commits
      BY <3>1, <1>0
    <3>3. kept \in Contents
      BY <3>1, <3>2 DEF Commits
    <3> HIDE DEF kept
    <3>4. OnBranch /\ pc # "done" /\ "restore" \in Subjects /\ Says("restore")
      BY <3>1 DEF OnBranch, Subjects, Says
    <3> QED BY <2>2, <3>3, <3>4, <1>b
  <2> QED BY <1>5, <2>1, <2>2 DEF Restore
<1>6. CASE ~(Branch \/ Stub \/ Record \/ Finally \/ Restore)
  <2>1. log' = log
    BY <1>6 DEF Next, vars, repo, Refuse, Seed, NoSkeletonToSeed, Baseline,
           LoopHead, AgentWrites, write_rtl, PromptRaises, PromptFails,
           PromptReplies, PromptEnds, Evaluate, check_verify_points, Interrupt,
           Report, FinallyFails, RestoreFails, ReportFails
  <2> QED BY <2>1, <1>a
<1> QED BY <1>1, <1>2, <1>3, <1>4, <1>5, <1>6
-----------------------------------------------------------------------------
\* Types.

LEMMA TypeStep == IInv /\ [Next]_vars => TypeOK'
<1> SUFFICES ASSUME IInv, [Next]_vars
             PROVE  TypeOK'
  OBVIOUS
<1>0. TypeOK /\ BranchInv /\ LogStepped
  BY LogStep DEF IInv
<1>l. log' \in [{"origin", "agent"} -> Seq(Commits)]
  BY <1>0 DEF LogStepped
<1> USE <1>l, LoopAssumption, Data
<1> USE DEF run, repo, progress, result, observer
<1>1. CASE Refuse
  BY <1>0, <1>1 DEF TypeOK, Refuse, Final
<1>2. CASE Branch
  BY <1>0, <1>2 DEF TypeOK, Branch
<1>3. CASE Seed
  BY <1>0, <1>3 DEF TypeOK, Seed
<1>4. CASE Stub
  BY <1>0, <1>4 DEF TypeOK, Stub
<1>5. CASE NoSkeletonToSeed
  BY <1>0, <1>5 DEF TypeOK, NoSkeletonToSeed, Raise
<1>6. CASE LoopHead
  BY <1>0, <1>6 DEF TypeOK, LoopHead
<1>7. CASE AgentWrites
  BY <1>0, <1>7 DEF TypeOK, AgentWrites, write_rtl, Contents
<1>p. ASSUME NEW r \in BOOLEAN, PromptEnds(r)
      PROVE  landed' \subseteq [content : Contents, replied : BOOLEAN]
  <2>1. [content |-> work, replied |-> r] \in [content : Contents, replied : BOOLEAN]
    BY <1>0 DEF TypeOK
  <2>2. landed' = landed \union {[content |-> work, replied |-> r]}
    BY <1>p DEF PromptEnds
  <2> QED BY <1>0, <2>1, <2>2 DEF TypeOK
<1>r. ASSUME NEW r \in BOOLEAN, PromptEnds(r), message' \in Messages,
             pc' \in {"loop", "evaluate"}
      PROVE  TypeOK'
  <2>1. UNCHANGED <<run, repo, writes, attempt, cand, vp, verify_fail,
                    result, measured, hit>>
    BY <1>r DEF PromptEnds
  <2> QED BY <1>0, <1>p, <1>r, <2>1 DEF TypeOK
<1>8. CASE PromptRaises
  BY <1>8, <1>r DEF PromptRaises, Messages
<1>9. CASE PromptFails
  BY <1>0, <1>9, <1>r DEF PromptFails, TypeOK
<1>10. CASE PromptReplies
  BY <1>0, <1>10, <1>r DEF PromptReplies, TypeOK
<1>11. CASE Evaluate
  BY <1>0, <1>11 DEF TypeOK, Evaluate, Measures, Points
<1>12. CASE Interrupt
  BY <1>0, <1>12 DEF TypeOK, Interrupt, Raise
<1>13. CASE Finally
  BY <1>0, <1>13 DEF TypeOK, Finally, Final
<1>14. CASE Baseline
  <2>1. score(work) \in Nat
    BY <1>0 DEF TypeOK
  <2> QED BY <1>0, <1>14, <2>1 DEF TypeOK, Baseline, Measures, Raise
<1>15. CASE check_verify_points
  <2>0. VerifyPoints \in Nat /\ vp \in Points
    BY <1>0 DEF TypeOK
  <2>a. vp' = vp \/ (vp < VerifyPoints /\ vp' = vp + 1)
    BY <1>15 DEF check_verify_points
  <2>1. vp' \in Points
    BY <2>0, <2>a DEF Points
  <2>b. verified' = verified \/ verified' = work
    BY <1>15 DEF check_verify_points
  <2>c. verify_fail' = verify_fail \/ verify_fail' = TRUE
    BY <1>15 DEF check_verify_points
  <2>2. hit' \in BOOLEAN /\ pc' \in {"verify", "record"}
    BY <1>0, <1>15 DEF check_verify_points, TypeOK, Measures
  <2>3. UNCHANGED <<run, repo, writes, attempt, message, cand,
                    best, best_commit, measured, landed>>
    BY <1>15 DEF check_verify_points
  <2> QED BY <1>0, <2>1, <2>b, <2>c, <2>2, <2>3 DEF TypeOK
<1>16. CASE Record
  <2>1. score(work) \in Nat
    BY <1>0 DEF TypeOK
  <2>2. message' \in Messages
    BY <1>0, <1>16, FeedbackIsOne DEF Record, IInv, TypeOK
  <2>3. best' \in Nat \union {None} /\ measured' \subseteq Nat
    BY <1>0, <1>16, <2>1 DEF Record, UpdateBest, TypeOK
  <2>4. best_commit' \in Nat
    BY <1>0, <1>16 DEF Record, UpdateBest, Sha, TypeOK
  <2> QED BY <1>0, <1>16, <2>2, <2>3, <2>4 DEF TypeOK, Record
<1>17. CASE Restore
  <2> DEFINE kept == log[head][best_commit].content
  <2>1. CASE work' = kept
    <3>1. pc = "restore" /\ head = "agent" /\ best_commit \in 1 .. Len(log["agent"])
      BY <1>0, <1>17 DEF Restore, BranchInv, OnBranch
    <3>2. log["agent"][best_commit] \in Commits
      BY <1>0, <3>1 DEF TypeOK
    <3>3. kept \in Contents
      BY <3>1, <3>2 DEF Commits
    <3> QED BY <1>0, <1>17, <2>1, <3>3 DEF TypeOK, Restore, Final
  <2>2. CASE work' = work
    BY <1>0, <1>17, <2>2 DEF TypeOK, Restore, Final
  <2> QED BY <1>17, <2>1, <2>2 DEF Restore
<1>18. CASE Report
  <2>1. log["origin"][1] \in Commits
    BY <1>0 DEF TypeOK, BranchInv
  <2>2. Tip("origin") \in Contents
    BY <1>0, <2>1 DEF BranchInv, Tip, Commits
  <2> QED BY <1>0, <1>18, <2>2 DEF TypeOK, Report, Final
<1>20. CASE FinallyFails \/ RestoreFails \/ ReportFails
  <2>1. /\ pc' \in Final /\ unwinding' \in BOOLEAN /\ work' \in Contents
        /\ UNCHANGED <<mode, skeleton, head, log, writes, progress, result, observer>>
    BY <1>0, <1>20, WayOutFails DEF Final, TypeOK
  <2> QED BY <1>0, <2>1 DEF TypeOK
<1>19. CASE UNCHANGED vars
  BY <1>0, <1>19 DEF TypeOK, vars
<1> QED BY <1>1, <1>2, <1>3, <1>4, <1>5, <1>6, <1>7, <1>8, <1>9, <1>10, <1>11, <1>12, <1>13, <1>14, <1>15, <1>16, <1>17, <1>18, <1>19, <1>20 DEF Next

LEMMA BranchStep == IInv /\ [Next]_vars => BranchInv'
<1> SUFFICES ASSUME IInv, [Next]_vars
             PROVE  BranchInv'
  OBVIOUS
<1>0. TypeOK /\ BranchInv /\ LogStepped /\ BestIsLeastMeasured /\ CleanInv
  BY LogStep DEF IInv
<1>s. /\ Len(log["agent"]) \in Nat /\ Len(log["origin"]) = 1
      /\ log["origin"][1].subject = "base"
  BY <1>0 DEF TypeOK, BranchInv
<1>o. Len(log'["origin"]) = 1 /\ log'["origin"][1].subject = "base"
  BY <1>0, <1>s DEF LogStepped
<1>n. Len(log'["agent"]) \in Nat
  BY <1>0 DEF LogStepped
\* Once there is a branch of its own, the run stays on it until it is done.
<1>k. ASSUME OnBranch, pc # "done", pc' \notin {"start", "refused"},
             pc' = "done" \/ head' = head, best_commit' = best_commit
      PROVE  BranchInv'
  <2>1. head = "agent" /\ Len(log["agent"]) >= 1 /\ log["agent"][1] = log["origin"][1]
        /\ best_commit \in 1 .. Len(log["agent"])
    BY <1>0, <1>k DEF BranchInv
  <2>2. /\ Len(log'["agent"]) >= Len(log["agent"])
        /\ log'["agent"][1] = log["agent"][1] /\ log'["origin"] = log["origin"]
    BY <1>0, <1>k, <1>s, <2>1 DEF LogStepped
  <2>3. Len(log'["agent"]) >= 1 /\ best_commit' \in 1 .. Len(log'["agent"])
    BY <2>1, <2>2, <1>k, <1>s, <1>n
  <2> QED BY <1>o, <1>k, <2>1, <2>2, <2>3 DEF BranchInv, OnBranch
<1> USE DEF run, repo, progress, result, observer
<1>1. CASE Refuse
  <2>1. log' = log /\ pc = "start" /\ pc' = "refused" /\ UNCHANGED <<head, best, best_commit, measured>>
    BY <1>1 DEF Refuse
  <2> QED BY <1>0, <2>1 DEF BranchInv, OnBranch
<1>2. CASE Branch
  <2>1. /\ log' = [log EXCEPT !["agent"] = log["origin"]]
        /\ pc = "start" /\ pc' \in {"seed", "baseline"} /\ head' = "agent"
        /\ UNCHANGED <<best, best_commit, measured>>
    BY <1>2 DEF Branch
  <2>2. log'["agent"] = log["origin"] /\ log'["origin"] = log["origin"]
    BY <2>1, <1>0 DEF TypeOK
  <2>3. best_commit = 1
    BY <1>0, <2>1 DEF BranchInv, OnBranch
  <2> QED BY <2>1, <2>2, <2>3, <1>s, <1>o DEF BranchInv, OnBranch
<1>3. CASE Seed
  BY <1>3, <1>k DEF Seed, OnBranch
<1>4. CASE Stub
  BY <1>4, <1>k DEF Stub, OnBranch
<1>5. CASE NoSkeletonToSeed
  BY <1>5, <1>k DEF NoSkeletonToSeed, Raise, OnBranch
<1>6. CASE Baseline
  BY <1>6, <1>k DEF Baseline, Raise, Measures, OnBranch
<1>7. CASE LoopHead
  BY <1>7, <1>k DEF LoopHead, OnBranch
<1>8. CASE AgentWrites
  BY <1>8, <1>k DEF AgentWrites, write_rtl, OnBranch
<1>9. CASE PromptRaises
  BY <1>9, <1>k DEF PromptRaises, PromptEnds, OnBranch
<1>10. CASE PromptFails
  BY <1>10, <1>k DEF PromptFails, PromptEnds, OnBranch
<1>11. CASE PromptReplies
  BY <1>11, <1>k DEF PromptReplies, PromptEnds, OnBranch
<1>12. CASE Evaluate
  BY <1>12, <1>k DEF Evaluate, Measures, OnBranch
<1>13. CASE check_verify_points
  BY <1>13, <1>k DEF check_verify_points, Measures, OnBranch
<1>14. CASE Interrupt
  BY <1>14, <1>k DEF Interrupt, Raise, OnBranch
<1>15. CASE Finally
  BY <1>15, <1>k DEF Finally, OnBranch
<1>16. CASE Restore
  <2>1. head' = head /\ best_commit' = best_commit /\ pc = "restore"
        /\ pc' \in {"report", "raised"}
    BY <1>16 DEF Restore
  <2> QED BY <2>1, <1>k DEF OnBranch
<1>17. CASE Report
  <2>1. pc = "report" /\ pc' = "done" /\ best_commit' = best_commit
    BY <1>17 DEF Report
  <2> QED BY <2>1, <1>k DEF OnBranch
<1>18. CASE Record
  <2>1. pc = "record" /\ head' = head /\ pc' \in {"finally", "loop"}
        /\ log' = Committed(work, headline)
    BY <1>18 DEF Record
  <2>a. OnBranch /\ pc # "done"
    BY <2>1 DEF OnBranch
  <2>2. CASE best_commit' = best_commit
    BY <2>1, <2>2, <2>a, <1>k
  <2>3. CASE work # Tip("agent") /\ best_commit' = Len(log["agent"]) + 1
    <3>1. headline \in Subjects /\ work \in Contents
      BY <2>1, <1>0, HeadlineIsOne DEF IInv, TypeOK
    <3>2. Len(log'["agent"]) = Len(log["agent"]) + 1
      BY <2>1, <2>3, <2>a, <3>1, <1>0, Commit
    <3>3. /\ log'["agent"][1] = log["agent"][1] /\ log'["origin"] = log["origin"]
          /\ head = "agent" /\ Len(log["agent"]) >= 1 /\ log["agent"][1] = log["origin"][1]
      BY <1>0, <2>a, <1>s DEF LogStepped, BranchInv
    <3>4. best_commit' \in 1 .. Len(log'["agent"]) /\ Len(log'["agent"]) >= 1
      BY <3>2, <2>3, <1>s
    <3> QED BY <2>1, <3>3, <3>4, <1>o DEF BranchInv, OnBranch
  <2>4. head = "agent"
    BY <1>0, <2>a DEF BranchInv
  <2> QED BY <1>18, <2>2, <2>3, <2>4 DEF Record, UpdateBest, Sha
<1>20. CASE FinallyFails \/ RestoreFails \/ ReportFails
  <2>1. /\ OnBranch /\ pc # "done" /\ pc' \notin {"start", "refused"}
        /\ head' = head /\ best_commit' = best_commit
    BY <1>0, <1>20, WayOutFails
  <2> QED BY <2>1, <1>k
<1>19. CASE UNCHANGED vars
  <2>1. UNCHANGED <<pc, log, head, best, best_commit, measured>>
    BY <1>19 DEF vars
  <2> QED BY <1>0, <2>1 DEF BranchInv, OnBranch
<1> QED BY <1>1, <1>2, <1>3, <1>4, <1>5, <1>6, <1>7, <1>8, <1>9, <1>10, <1>11, <1>12, <1>13, <1>14, <1>15, <1>16, <1>17, <1>18, <1>19, <1>20 DEF Next

LEMMA CleanStep == IInv /\ [Next]_vars => CleanInv'
<1> SUFFICES ASSUME IInv, [Next]_vars
             PROVE  CleanInv'
  OBVIOUS
<1>0. TypeOK /\ BranchInv /\ CleanInv
  BY DEF IInv
<1>t. OnBranch /\ pc # "done" =>
        /\ head = "agent"
        /\ \A c \in Contents, h \in Subjects :
              log' = Committed(c, h) => log'["agent"][Len(log'["agent"])].content = c
  BY <1>0, Commit DEF BranchInv
<1> USE DEF run, repo, progress, result, observer
<1>1. CASE NoSkeletonToSeed
  BY <1>0, <1>1 DEF CleanInv, NoSkeletonToSeed, Raise
<1>2. CASE Baseline
  BY <1>0, <1>2 DEF CleanInv, Baseline, Raise, Measures
<1>3. CASE AgentWrites
  BY <1>0, <1>3 DEF CleanInv, AgentWrites, write_rtl
<1>4. CASE PromptRaises
  BY <1>0, <1>4 DEF CleanInv, PromptRaises, PromptEnds
<1>5. CASE PromptFails
  BY <1>0, <1>5 DEF CleanInv, PromptFails, PromptEnds
<1>6. CASE PromptReplies
  BY <1>0, <1>6 DEF CleanInv, PromptReplies, PromptEnds
<1>7. CASE Interrupt
  BY <1>0, <1>7 DEF CleanInv, Interrupt, Raise
<1>8. CASE LoopHead
  <2>1. pc' \in {"refused", "prompt", "verify", "record", "loop", "finally"}
    BY <1>0, <1>8 DEF LoopHead, TypeOK
  <2> QED BY <2>1 DEF CleanInv
<1>9. CASE Evaluate
  <2>1. pc' \in {"refused", "prompt", "verify", "record", "loop", "finally"}
    BY <1>0, <1>9 DEF Evaluate, TypeOK
  <2> QED BY <2>1 DEF CleanInv
<1>10. CASE check_verify_points
  <2>1. pc' \in {"refused", "prompt", "verify", "record", "loop", "finally"}
    BY <1>0, <1>10 DEF check_verify_points, TypeOK
  <2> QED BY <2>1 DEF CleanInv
<1>11. CASE Refuse
  <2>1. pc' \in {"refused", "prompt", "verify", "record", "loop", "finally"}
    BY <1>0, <1>11 DEF Refuse, TypeOK
  <2> QED BY <2>1 DEF CleanInv
<1>12. CASE Record
  <2>1. pc' \in {"refused", "prompt", "verify", "record", "loop", "finally"}
    BY <1>0, <1>12 DEF Record, TypeOK
  <2> QED BY <2>1 DEF CleanInv
<1>13. CASE Stub
  <2>1. pc' \in {"refused", "prompt", "verify", "record", "loop", "finally"}
    BY <1>0, <1>13 DEF Stub, TypeOK
  <2> QED BY <2>1 DEF CleanInv
<1>14. CASE Branch
  <2>1. /\ log' = [log EXCEPT !["agent"] = log["origin"]]
        /\ pc = "start" /\ pc' \in {"seed", "baseline"} /\ head' = "agent"
        /\ UNCHANGED <<best, work>> /\ ~Dirty
    BY <1>14 DEF Branch
  <2>2. log'["agent"] = log["origin"]
    BY <2>1, <1>0 DEF TypeOK
  <2>3. best = None /\ head = "origin"
    BY <1>0, <2>1 DEF BranchInv
  <2>4. ~Dirty'
    BY <2>1, <2>2, <2>3 DEF Dirty, Tip
  <2>5. Len(log'["agent"]) = 1
    BY <1>0, <2>2 DEF BranchInv
  <2> QED BY <2>1, <2>3, <2>4, <2>5 DEF CleanInv
<1>15. CASE Seed
  <2>1. pc' = "stub" /\ work' \in Skeletons \ {NoSkeleton} /\ best' = best /\ pc = "seed"
    BY <1>0, <1>15 DEF Seed, TypeOK
  <2> QED BY <2>1, <1>0 DEF CleanInv
<1>16. CASE Finally
  <2>1. /\ pc = "finally" /\ log' = Committed(work, "uncommitted edit")
        /\ UNCHANGED <<head, work>> /\ pc' \in {"raised", "restore"}
    BY <1>16 DEF Finally
  <2>2. work \in Contents /\ "uncommitted edit" \in Subjects
    BY <1>0 DEF TypeOK, Subjects
  <2>3. head = "agent" /\ log'["agent"][Len(log'["agent"])].content = work
    BY <1>t, <2>1, <2>2 DEF OnBranch
  <2> QED BY <2>1, <2>3 DEF CleanInv, Dirty, Tip
<1>17. CASE Restore
  <2> DEFINE kept == log[head][best_commit].content
  <2>1. pc = "restore" /\ head' = head /\ pc' \in {"report", "raised"} /\ ~Dirty
    BY <1>0, <1>17 DEF Restore, CleanInv
  <2>2. CASE UNCHANGED repo
    BY <2>1, <2>2 DEF CleanInv, Dirty, Tip
  <2>3. CASE work' = kept /\ log' = Committed(kept, "restore")
    <3>1. head = "agent" /\ work' \in Contents /\ "restore" \in Subjects
      BY <1>t, <1>17, <2>1, TypeStep DEF OnBranch, TypeOK, Subjects
    <3>2. log'["agent"][Len(log'["agent"])].content = work'
      BY <3>1, <2>3, <2>1, <1>t DEF OnBranch
    <3> QED BY <2>1, <3>1, <3>2 DEF CleanInv, Dirty, Tip
  <2> QED BY <1>17, <2>2, <2>3 DEF Restore
<1>18. CASE Report
  BY <1>18 DEF CleanInv, Report, Dirty, Tip
<1>20. CASE FinallyFails \/ RestoreFails \/ ReportFails
  <2>1. /\ pc' = "failed" \/ (pc = "report" /\ pc' = "left")
        /\ pc = "report" => UNCHANGED repo
    BY <1>0, <1>20, WayOutFails
  <2>2. pc = "report" => ~Dirty'
    BY <1>0, <2>1 DEF CleanInv, Dirty, Tip
  <2> QED BY <2>1, <2>2 DEF CleanInv
<1>19. CASE UNCHANGED vars
  <2>1. UNCHANGED <<pc, log, head, work, best>>
    BY <1>19 DEF vars
  <2> QED BY <1>0, <2>1 DEF CleanInv, Dirty, Tip
<1> QED BY <1>1, <1>2, <1>3, <1>4, <1>5, <1>6, <1>7, <1>8, <1>9, <1>10, <1>11, <1>12, <1>13, <1>14, <1>15, <1>16, <1>17, <1>18, <1>19, <1>20 DEF Next

LEMMA BestStep == IInv /\ [Next]_vars => BestIsLeastMeasured'
<1> SUFFICES ASSUME IInv, [Next]_vars
             PROVE  BestIsLeastMeasured'
  OBVIOUS
<1>0. TypeOK /\ BranchInv /\ BestIsLeastMeasured /\ CleanInv
  BY DEF IInv
<1>s. score(work) \in Nat /\ None \notin Nat
  BY <1>0, Data, LoopAssumption DEF TypeOK
<1>k. ASSUME UNCHANGED <<best, measured>>
      PROVE  BestIsLeastMeasured'
  BY <1>0, <1>k DEF BestIsLeastMeasured
<1> USE DEF run, repo, progress, result, observer
<1>1. CASE Baseline
  <2>1. best = None /\ measured = {}
    BY <1>0, <1>1 DEF Baseline, CleanInv, BestIsLeastMeasured
  <2>2. CASE best' = score(work) /\ measured' = measured \union {score(work)}
    BY <1>s, <2>1, <2>2 DEF BestIsLeastMeasured
  <2>3. CASE UNCHANGED <<best, measured>>
    BY <1>k, <2>3
  <2> QED BY <1>1, <2>2, <2>3 DEF Baseline
<1>2. CASE Record
  <2>1. CASE ~complete
    BY <1>k, <1>2, <2>1 DEF Record, UpdateBest
  <2>2. CASE complete
    <3>1. measured' = measured \union {score(work)}
      BY <1>2, <2>2 DEF Record
    <3>2. best' = IF best = None \/ score(work) < best THEN score(work) ELSE best
      BY <1>2, <2>2 DEF Record, UpdateBest, improved
    <3>3. best \in Nat \union {None} /\ measured \subseteq Nat
      BY <1>0 DEF TypeOK
    <3> QED BY <1>0, <1>s, <3>1, <3>2, <3>3 DEF BestIsLeastMeasured
  <2> QED BY <2>1, <2>2
<1>3. CASE ~(Baseline \/ Record)
  <2>1. UNCHANGED <<best, measured>>
    BY <1>3 DEF Next, vars, Refuse, Branch, Seed, Stub, NoSkeletonToSeed,
           LoopHead, AgentWrites, write_rtl, PromptRaises, PromptFails,
           PromptReplies, PromptEnds, Evaluate, check_verify_points, Interrupt,
           Finally, Restore, Report,
           FinallyFails, RestoreFails, ReportFails
  <2> QED BY <2>1, <1>k
<1> QED BY <1>1, <1>2, <1>3

LEMMA JudgeStep == IInv /\ [Next]_vars => JudgeInv'
<1> SUFFICES ASSUME IInv, [Next]_vars
             PROVE  JudgeInv'
  OBVIOUS
<1>0. TypeOK /\ JudgeInv
  BY DEF IInv
<1>f. VerifyPoints \in Nat /\ \A p \in Points : Finds[work][p] \in Verdicts
  BY <1>0, Data, LoopAssumption DEF TypeOK
<1>p. \A n : n \in Points <=> n \in Int /\ 0 <= n /\ n <= VerifyPoints
  BY <1>f DEF Points
<1> USE DEF run, repo, progress, result, observer
<1>1. CASE Evaluate
  <2>1. PICK v \in Verdicts : /\ v \in evaluate(work, 0)
                              /\ hit' = (hit \/ v # Finds[work][0])
                              /\ cand' = v
    BY <1>1 DEF Evaluate, Measures
  <2>2. /\ vp' = 0 /\ verify_fail' = FALSE /\ work' = work
        /\ pc' = IF v = "usable" THEN "verify" ELSE "record"
    BY <1>1, <2>1 DEF Evaluate
  <2>3. v = "usable" => Finds[work][0] = "usable"
    BY <2>1 DEF evaluate, CutShort
  <2>4. CASE v = "usable"
    <3>1. \A p \in 0 .. vp' : p = 0
      BY <2>2
    <3>2. pc' = "verify" /\ cand' = "usable"
      BY <2>4, <2>1, <2>2
    <3> QED BY <2>2, <2>3, <2>4, <3>1, <3>2 DEF JudgeInv
  <2>5. CASE v # "usable"
    <3>1. pc' = "record" /\ cand' # "usable" /\ cand' \in Verdicts
      BY <2>1, <2>2, <2>5
    <3>2. ~hit' => Finds[work'][0] # "usable"
      BY <2>1, <2>2, <2>5
    <3>3. 0 \in Points
      BY <1>p, <1>f
    <3> QED BY <3>1, <3>2, <3>3 DEF JudgeInv, complete, Complete
  <2> QED BY <2>4, <2>5
<1>2. CASE check_verify_points
  <2>0. /\ pc = "verify" /\ cand = "usable" /\ verify_fail = FALSE /\ vp \in Points
        /\ \A p \in 0 .. vp : Finds[work][p] = "usable"
        /\ cand' = cand /\ work' = work
    BY <1>0, <1>2 DEF check_verify_points, JudgeInv, TypeOK
  <2>1. CASE vp = VerifyPoints /\ pc' = "record" /\ UNCHANGED <<vp, verify_fail, hit>>
    <3>1. Complete(work)
      BY <2>0, <2>1 DEF Complete, Points
    <3>2. cand' \in Verdicts
      BY <2>0 DEF Verdicts
    <3> QED BY <2>0, <2>1, <3>1, <3>2 DEF JudgeInv, complete, Complete
  <2>2. ASSUME NEW v \in Verdicts, vp < VerifyPoints, vp' = vp + 1,
               v \in evaluate(work, vp + 1),
               hit' = (hit \/ v # Finds[work][vp + 1]),
               IF v = "usable" THEN UNCHANGED <<pc, verify_fail>>
                               ELSE verify_fail' = TRUE /\ pc' = "record"
        PROVE  JudgeInv'
    <3>1. CASE v = "usable"
      <4>1. Finds[work][vp + 1] = "usable"
        BY <2>2, <3>1 DEF evaluate, CutShort
      <4>2. vp \in Int /\ \A p \in 0 .. vp + 1 : p \in 0 .. vp \/ p = vp + 1
        BY <2>0, <1>p
      <4>3. \A p \in 0 .. vp' : Finds[work'][p] = "usable"
        BY <4>1, <4>2, <2>0, <2>2
      <4>4. pc' = "verify" /\ cand' = "usable" /\ ~verify_fail'
        BY <2>0, <2>2, <3>1
      <4> QED BY <4>3, <4>4 DEF JudgeInv
    <3>2. CASE v # "usable"
      <4>1. pc' = "record" /\ verify_fail' = TRUE /\ cand' \in Verdicts
        BY <2>0, <2>2, <3>2 DEF Verdicts
      <4>2. vp + 1 \in Points
        BY <2>0, <2>2, <1>p, <1>f
      <4>3. ~hit' => Finds[work'][vp + 1] # "usable"
        BY <2>0, <2>2, <3>2
      <4> QED BY <4>1, <4>2, <4>3 DEF JudgeInv, complete, Complete
    <3> QED BY <3>1, <3>2
  <2> QED BY <1>2, <2>1, <2>2 DEF check_verify_points, Measures
<1>3. CASE UNCHANGED vars
  <2>1. UNCHANGED <<pc, cand, verify_fail, vp, work, hit>>
    BY <1>3 DEF vars
  <2> QED BY <1>0, <2>1 DEF JudgeInv, complete, Complete
<1>4. CASE Next /\ ~(Evaluate \/ check_verify_points)
  <2>1. pc' \notin {"verify", "record"}
    BY <1>4 DEF Next, Refuse, Branch, Seed, Stub, NoSkeletonToSeed, Baseline, Raise,
           LoopHead, AgentWrites, write_rtl, PromptRaises, PromptFails,
           PromptReplies, PromptEnds, Record, Interrupt, Finally, Restore, Report,
           FinallyFails, RestoreFails, ReportFails
  <2> QED BY <2>1 DEF JudgeInv
<1> QED BY <1>1, <1>2, <1>3, <1>4
-----------------------------------------------------------------------------
\* What the subject line of an attempt's commit tells of the attempt.
LEMMA HeadlineSays ==
    ASSUME pc = "record", JudgeInv
    PROVE  /\ headline = "accepted" => complete /\ improved(work)
           /\ headline = "no improvement" => complete
<1>1. cand \in Verdicts
  BY DEF JudgeInv
<1>2. CASE complete /\ improved(work)
  BY <1>2
<1>3. CASE complete /\ ~improved(work)
  <2>1. headline = "no improvement"
    BY <1>3 DEF headline, complete
  <2> QED BY <1>3, <2>1
<1>4. CASE ~complete
  <2>1. headline \in {"fails at a verify point", "synthesis failed", "tests failed"}
    BY <1>1, <1>4 DEF headline, complete, Verdicts
  <2> QED BY <2>1
<1> QED BY <1>2, <1>3, <1>4

\* Within a run the best score only falls, and only an attempt found complete
\* (or the baseline, when there is none yet) changes it.
LEMMA BestFalls ==
    ASSUME IInv, [Next]_vars
    PROVE  /\ pc # "record" => best' = best \/ best = None
           /\ pc = "record" => \/ UNCHANGED <<best, log>>
                               \/ /\ work' = work
                                  /\ best' = IF complete /\ improved(work)
                                             THEN score(work) ELSE best
<1> USE DEF run, repo, progress, result, observer
<1>1. CASE Baseline
  <2>1. pc = "baseline" /\ best = None
    BY <1>1 DEF Baseline, IInv, CleanInv
  <2> QED BY <2>1
<1>2. CASE Record
  BY <1>2 DEF Record, UpdateBest
<1>3. CASE ~(Baseline \/ Record)
  <2>1. best' = best
    BY <1>3 DEF Next, vars, Refuse, Branch, Seed, Stub, NoSkeletonToSeed,
           LoopHead, AgentWrites, write_rtl, PromptRaises, PromptFails,
           PromptReplies, PromptEnds, Evaluate, check_verify_points, Interrupt,
           Finally, Restore, Report,
           FinallyFails, RestoreFails, ReportFails
  <2>2. pc = "record" => log' = log
    BY <1>3 DEF Next, vars, Refuse, Branch, Seed, Stub, NoSkeletonToSeed,
           LoopHead, AgentWrites, write_rtl, PromptRaises, PromptFails,
           PromptReplies, PromptEnds, Evaluate, check_verify_points, Interrupt,
           Finally, Restore, Report,
           FinallyFails, RestoreFails, ReportFails
  <2> QED BY <2>1, <2>2
<1> QED BY <1>1, <1>2, <1>3

LEMMA HeadlineStep == IInv /\ [Next]_vars => HeadlinesAreTrue' /\ AcceptedInv'
<1> SUFFICES ASSUME IInv, [Next]_vars
             PROVE  HeadlinesAreTrue' /\ AcceptedInv'
  OBVIOUS
<1>0. /\ TypeOK /\ BranchInv /\ LogStepped /\ HeadlinesAreTrue /\ AcceptedInv
      /\ JudgeInv
  BY LogStep DEF IInv
<1>1. /\ Len(log["agent"]) \in Nat /\ Len(log'["agent"]) \in Nat
      /\ best \in Nat \union {None} /\ None \notin Nat /\ work \in Contents
      /\ \A i \in 1 .. Len(log'["agent"]) : log'["agent"][i].content \in Contents
  <2>1. log'["agent"] \in Seq(Commits)
    BY <1>0 DEF LogStepped
  <2>2. \A i \in 1 .. Len(log'["agent"]) : log'["agent"][i] \in Commits
    BY <2>1
  <2>3. None \notin Nat
    BY LoopAssumption
  <2> QED BY <1>0, <2>1, <2>2, <2>3 DEF TypeOK, Commits
<1>2. \A d \in Contents : score(d) \in Nat
  BY Data
\* It is enough that the commits with an attempt's verdict are old ones, and
\* that the best only falls.
<1>k. ASSUME \A i \in 1 .. Len(log'["agent"]) :
                 log'["agent"][i].subject \in {"accepted", "no improvement"}
                    => /\ i \in 1 .. Len(log["agent"])
                       /\ log'["agent"][i] = log["agent"][i],
             best' = best \/ Accepted = {} \/ (best' \in Nat /\ best' < best)
      PROVE  HeadlinesAreTrue' /\ AcceptedInv'
  <2>1. \A i \in Accepted' : i \in Accepted /\ log'["agent"][i] = log["agent"][i]
    BY <1>k DEF Accepted
  <2>2. HeadlinesAreTrue'
    BY <1>0, <1>k, <2>1 DEF HeadlinesAreTrue, Accepted
  <2>3. ASSUME NEW i \in Accepted'
        PROVE  best' # None /\ best' <= score(log'["agent"][i].content)
    <3>1. i \in Accepted /\ log'["agent"][i] = log["agent"][i]
      BY <2>1, <2>3
    <3>2. best # None /\ best <= score(log["agent"][i].content)
      BY <3>1, <1>0 DEF AcceptedInv
    <3>3. score(log["agent"][i].content) \in Nat
      BY <3>1, <1>1, <1>2, <2>3 DEF Accepted
    <3>4. best \in Nat /\ (best' = best \/ (best' \in Nat /\ best' < best))
      BY <3>1, <3>2, <1>1, <1>k
    <3> QED BY <3>1, <3>2, <3>3, <3>4, <1>1
  <2> QED BY <2>2, <2>3 DEF AcceptedInv
<1>3. CASE ~OnBranch
  <2>1. log["agent"] = <<>> /\ log'["agent"] \in {log["agent"], log["origin"]}
        /\ Len(log["origin"]) = 1 /\ log["origin"][1].subject = "base"
    BY <1>0, <1>3 DEF BranchInv, LogStepped
  <2>2. \A i \in 1 .. Len(log'["agent"]) :
            log'["agent"][i].subject \notin {"accepted", "no improvement"}
    <3>1. CASE log'["agent"] = <<>>
      <4>1. Len(log'["agent"]) = 0
        BY <3>1
      <4>2. \A i \in 1 .. Len(log'["agent"]) : FALSE
        BY <4>1
      <4> QED BY <4>2
    <3>2. CASE log'["agent"] = log["origin"]
      <4>1. \A i \in 1 .. Len(log'["agent"]) : i = 1
        <5>1. Len(log'["agent"]) = 1
          BY <2>1, <3>2
        <5> QED BY <5>1
      <4> QED BY <4>1, <2>1, <3>2
    <3> QED BY <2>1, <3>1, <3>2
  <2>3. Accepted = {}
    BY <2>1 DEF Accepted
  <2> QED BY <2>2, <2>3, <1>k
<1>4. CASE OnBranch /\ pc # "record"
  <2>1. best' = best \/ Accepted = {}
    BY <1>0, <1>4, BestFalls DEF AcceptedInv
  <2>2. \A i \in 1 .. Len(log'["agent"]) :
            log'["agent"][i].subject \in {"accepted", "no improvement"}
               => i \in 1 .. Len(log["agent"])
    BY <1>0, <1>4 DEF LogStepped, Says
  <2>3. \A i \in 1 .. Len(log["agent"]) : log'["agent"][i] = log["agent"][i]
    BY <1>0, <1>4 DEF LogStepped
  <2> QED BY <2>1, <2>2, <2>3, <1>k
<1>5. CASE pc = "record" /\ UNCHANGED <<best, log>>
  BY <1>5, <1>k
<1>6. CASE /\ pc = "record" /\ work' = work
           /\ best' = IF complete /\ improved(work) THEN score(work) ELSE best
  <2> DEFINE old == 1 .. Len(log["agent"])
  <2>1. /\ \A i \in old : log'["agent"][i] = log["agent"][i]
        /\ \A i \in 1 .. Len(log'["agent"]) :
              \/ i \in old
              \/ /\ i = Len(log'["agent"])
                 /\ log'["agent"][i].content = work
                 /\ Says(log'["agent"][i].subject)
        /\ Len(log["agent"]) <= Len(log'["agent"])
    BY <1>0, <1>6 DEF LogStepped, OnBranch
  <2>2. complete => Complete(work)
    BY <1>0, <1>6 DEF JudgeInv
  <2>3. score(work) \in Nat
    BY <1>1, <1>2
  \* The commit this attempt makes, if it makes one.
  <2>4. ASSUME NEW i \in 1 .. Len(log'["agent"]), i \notin old
        PROVE  /\ i = Len(log'["agent"]) /\ log'["agent"][i].content = work
               /\ log'["agent"][i].subject = "accepted" => complete /\ improved(work)
               /\ log'["agent"][i].subject = "no improvement" => complete
    <3>1. /\ i = Len(log'["agent"]) /\ log'["agent"][i].content = work
          /\ Says(log'["agent"][i].subject)
      BY <2>1, <2>4
    <3> DEFINE h == log'["agent"][i].subject
    <3>2. h \in {"accepted", "no improvement"} => h = headline
      BY <3>1 DEF Says
    <3>3. /\ headline = "accepted" => complete /\ improved(work)
          /\ headline = "no improvement" => complete
      BY <1>0, <1>6, HeadlineSays
    <3> HIDE DEF h
    <3>4. /\ h = "accepted" => complete /\ improved(work)
          /\ h = "no improvement" => complete
      BY <3>2, <3>3
    <3> QED BY <3>1, <3>4 DEF h
  <2>5. \A i \in 1 .. Len(log'["agent"]) :
          log'["agent"][i].subject \in {"accepted", "no improvement"}
              => Complete(log'["agent"][i].content)
    <3> SUFFICES ASSUME NEW i \in 1 .. Len(log'["agent"]),
                        log'["agent"][i].subject \in {"accepted", "no improvement"}
                 PROVE  Complete(log'["agent"][i].content)
      OBVIOUS
    <3>1. CASE i \in old
      BY <3>1, <2>1, <1>0 DEF HeadlinesAreTrue
    <3>2. CASE i \notin old
      BY <3>2, <2>2, <2>4
    <3> QED BY <3>1, <3>2
  <2>6. \A i \in Accepted' : \/ i \in Accepted /\ log'["agent"][i] = log["agent"][i]
                            \/ /\ i \notin old /\ i = Len(log'["agent"])
                               /\ log'["agent"][i].content = work
                               /\ complete /\ improved(work)
    BY <2>1, <2>4 DEF Accepted
  <2>7. \A i \in Accepted : /\ best \in Nat /\ best <= score(log["agent"][i].content)
                            /\ score(log["agent"][i].content) \in Nat
    <3>1. \A i \in Accepted : log["agent"][i] = log'["agent"][i]
                               /\ i \in 1 .. Len(log'["agent"])
      BY <2>1, <1>1 DEF Accepted
    <3> QED BY <3>1, <1>0, <1>1, <1>2 DEF AcceptedInv
  <2>8. ASSUME NEW i \in Accepted', NEW j \in Accepted', i < j
        PROVE  score(log'["agent"][j].content) < score(log'["agent"][i].content)
    <3>1. CASE i \notin old
      <4>1. i = Len(log'["agent"]) /\ j \in 1 .. Len(log'["agent"])
        BY <2>6, <2>8, <3>1 DEF Accepted
      <4> QED BY <4>1, <2>8, <1>1
    <3>2. CASE i \in old /\ j \in old
      <4>1. /\ i \in Accepted /\ log'["agent"][i] = log["agent"][i]
            /\ j \in Accepted /\ log'["agent"][j] = log["agent"][j]
        BY <2>6, <2>8, <3>2
      <4>2. score(log["agent"][j].content) < score(log["agent"][i].content)
        BY <4>1, <2>8, <1>0 DEF HeadlinesAreTrue
      <4> QED BY <4>1, <4>2
    <3>3. CASE i \in old /\ j \notin old
      <4>1. i \in Accepted /\ log'["agent"][i] = log["agent"][i]
        BY <2>6, <2>8, <3>3
      <4>2. log'["agent"][j].content = work /\ improved(work)
        BY <2>6, <2>8, <3>3 DEF Accepted
      <4>3. best \in Nat /\ best <= score(log["agent"][i].content)
            /\ score(log["agent"][i].content) \in Nat
        BY <4>1, <2>7
      <4>4. score(work) < best
        BY <4>2, <4>3, <1>1 DEF improved
      <4> QED BY <4>1, <4>2, <4>3, <4>4, <2>3
    <3> QED BY <3>1, <3>2, <3>3
  <2>9. ASSUME NEW i \in Accepted'
        PROVE  best' # None /\ best' <= score(log'["agent"][i].content)
    <3>1. CASE i \in Accepted /\ log'["agent"][i] = log["agent"][i]
      <4>1. best \in Nat /\ best <= score(log["agent"][i].content)
            /\ score(log["agent"][i].content) \in Nat
        BY <3>1, <2>7
      <4>2. improved(work) => score(work) < best
        BY <4>1, <1>1 DEF improved
      <4>3. best' = best \/ (best' = score(work) /\ score(work) < best)
        BY <4>2, <1>6
      <4> QED BY <4>1, <4>3, <3>1, <2>3, <1>1
    <3>2. CASE log'["agent"][i].content = work /\ complete /\ improved(work)
      BY <3>2, <1>6, <2>3, <1>1
    <3> QED BY <3>1, <3>2, <2>6, <2>9
  <2>10. HeadlinesAreTrue'
    BY <2>5, <2>8 DEF HeadlinesAreTrue
  <2> QED BY <2>9, <2>10 DEF AcceptedInv
<1> QED BY <1>3, <1>4, <1>5, <1>6, BestFalls DEF OnBranch
-----------------------------------------------------------------------------
\* A ceiling hit is not forgotten.
LEMMA HitStays == ASSUME [Next]_vars, TypeOK PROVE ~hit' => ~hit
<1> USE DEF run, repo, progress, result, observer
<1>1. CASE Baseline \/ Evaluate \/ check_verify_points
  BY <1>1 DEF Baseline, Evaluate, check_verify_points, Measures
<1>2. CASE ~(Baseline \/ Evaluate \/ check_verify_points)
  BY <1>2 DEF Next, vars, Refuse, Branch, Seed, Stub, NoSkeletonToSeed, Raise,
         LoopHead, AgentWrites, write_rtl, PromptRaises, PromptFails,
         PromptReplies, PromptEnds, Record, Interrupt, Finally, Restore, Report,
           FinallyFails, RestoreFails, ReportFails
<1> QED BY <1>1, <1>2

LEMMA KeptStep == IInv /\ [Next]_vars => BestCommitInv' /\ TipMeasured'
<1> SUFFICES ASSUME IInv, [Next]_vars
             PROVE  BestCommitInv' /\ TipMeasured'
  OBVIOUS
<1>0. /\ TypeOK /\ BranchInv /\ LogStepped /\ JudgeInv /\ CleanInv
      /\ BestCommitInv /\ TipMeasured
      /\ TypeOK' /\ BranchInv' /\ (~hit' => ~hit)
  BY LogStep, TypeStep, BranchStep, HitStays DEF IInv
<1>1. /\ Len(log["agent"]) \in Nat /\ Len(log'["agent"]) \in Nat
      /\ best \in Nat \union {None} /\ None \notin Nat /\ work \in Contents
      /\ 0 \in Points /\ score(work) \in Nat
  <2>1. best \in Nat \union {None} /\ work \in Contents
    BY <1>0 DEF TypeOK
  <2>2. Len(log["agent"]) \in Nat /\ Len(log'["agent"]) \in Nat
    BY <1>0 DEF TypeOK, LogStepped
  <2>3. None \notin Nat
    BY LoopAssumption
  <2> QED BY <2>1, <2>2, <2>3, Data
\* The best design stays where it is as long as nothing replaces it ...
<1>k. ASSUME OnBranch, UNCHANGED <<best, best_commit>>
      PROVE  BestCommitInv'
  <2>1. best_commit \in 1 .. Len(log["agent"])
        /\ \A i \in 1 .. Len(log["agent"]) : log'["agent"][i] = log["agent"][i]
    BY <1>0, <1>k DEF BranchInv, LogStepped
  <2>2. log'["agent"][best_commit'] = log["agent"][best_commit]
    BY <2>1, <1>k
  <2>3. ~hit' => ~hit
    BY <1>0
  <2> QED BY <1>0, <1>k, <2>2, <2>3 DEF BestCommitInv
\* ... and the tip is measured as long as nothing is committed.
<1>t. ASSUME pc \in Attempting, UNCHANGED <<best, log>>
      PROVE  TipMeasured'
  <2>1. ~hit' => ~hit
    BY <1>0
  <2> QED BY <1>0, <1>t, <2>1 DEF TipMeasured, Tip
<1>u. ASSUME pc' \notin Attempting
      PROVE  TipMeasured'
  BY <1>u DEF TipMeasured
<1> USE DEF run, repo, progress, result, observer
<1>2. CASE Refuse
  BY <1>2, <1>u DEF Refuse, BestCommitInv, OnBranch, Attempting
<1>3. CASE Branch
  <2>1. pc = "start" /\ pc' \in {"seed", "baseline"} /\ UNCHANGED <<best, best_commit>>
    BY <1>3 DEF Branch
  <2>2. best = None /\ best_commit = 1
    BY <2>1, <1>0 DEF BranchInv, OnBranch
  <2> QED BY <2>1, <2>2, <1>u DEF BestCommitInv, Attempting
<1>4. CASE Seed
  BY <1>4, <1>k, <1>u DEF Seed, OnBranch, Attempting
<1>5. CASE Stub
  <2>1. /\ pc = "stub" /\ log' = Committed(work, "skeleton")
        /\ UNCHANGED <<best, best_commit>> /\ OnBranch /\ pc # "done"
    BY <1>5 DEF Stub, OnBranch
  <2>2. "skeleton" \in Subjects
    BY DEF Subjects
  <2>3. log'["agent"][Len(log'["agent"])].content = work
    BY <1>0, <1>1, <2>1, <2>2, Commit
  <2>4. Finds[work][0] = "tests"
    BY <1>0, <2>1, StubAssumption DEF CleanInv
  <2>5. ~Complete(work)
    BY <1>1, <2>4 DEF Complete
  <2>6. TipMeasured'
    BY <2>3, <2>5 DEF TipMeasured, Tip, Complete
  <2> QED BY <2>1, <2>6, <1>k
<1>6. CASE NoSkeletonToSeed
  BY <1>6, <1>k, <1>u DEF NoSkeletonToSeed, Raise, OnBranch, Attempting
<1>7. CASE Baseline
  <2>1. pc = "baseline" /\ UNCHANGED <<log, work, best_commit>> /\ best = None
    BY <1>0, <1>7 DEF Baseline, CleanInv
  <2>2. work = Tip("agent") /\ OnBranch /\ Len(log["agent"]) >= 1
    BY <1>0, <2>1 DEF CleanInv, Dirty, BranchInv, OnBranch
  <2>3. CASE pc' = "finally" /\ best' = best
    BY <2>1, <2>2, <2>3, <1>k, <1>u DEF Attempting
  <2>4. ASSUME NEW v \in Verdicts, Measures(0, v), v = "usable",
               best' = score(work), pc' = "loop"
        PROVE  BestCommitInv' /\ TipMeasured'
    <3>1. Finds[work][0] = "usable"
      BY <2>4 DEF Measures, evaluate, CutShort
    <3>2. TipMeasured'
      BY <2>1, <2>2, <2>4, <1>1 DEF TipMeasured, Tip
    <3>3. ~hit => best_commit = 1
      BY <1>0, <2>1, <2>2 DEF BestCommitInv
    <3>4. Len(log["agent"]) = 1
      BY <1>0, <2>1 DEF CleanInv
    <3>5. log["agent"][1].content = work
      BY <2>2, <3>4 DEF Tip
    <3>6. ~hit' => log'["agent"][best_commit'].content = work
      BY <1>0, <2>1, <3>3, <3>5
    <3> QED BY <2>4, <3>1, <3>2, <3>6, <1>1 DEF BestCommitInv
  <2> QED BY <1>7, <2>3, <2>4 DEF Baseline, Raise
<1>8. CASE LoopHead \/ AgentWrites \/ PromptRaises \/ PromptFails \/ PromptReplies
             \/ Evaluate \/ check_verify_points
  <2>1. pc \in Attempting /\ UNCHANGED <<best, best_commit, log>>
    BY <1>8 DEF LoopHead, AgentWrites, write_rtl, PromptRaises, PromptFails,
           PromptReplies, PromptEnds, Evaluate, check_verify_points, Attempting
  <2> QED BY <2>1, <1>k, <1>t DEF Attempting, OnBranch
<1>9. CASE Record
  <2>1. /\ pc = "record" /\ log' = Committed(work, headline)
        /\ hit' = hit /\ UpdateBest /\ OnBranch /\ pc # "done"
    BY <1>9 DEF Record, OnBranch
  <2>2. headline \in Subjects
    BY <2>1, <1>0, HeadlineIsOne
  <2>3. /\ log'["agent"][Len(log'["agent"])].content = work
        /\ work # Tip("agent") => Len(log'["agent"]) = Len(log["agent"]) + 1
    BY <1>0, <1>1, <2>1, <2>2, Commit
  <2>4. (complete => Complete(work)) /\ (Complete(work) /\ ~hit => complete)
    BY <1>0, <2>1 DEF JudgeInv
  <2>5. TipMeasured'
    <3> SUFFICES ASSUME ~hit, Complete(work)
                 PROVE  best' # None /\ best' <= score(work)
      BY <2>1, <2>3 DEF TipMeasured, Tip, Complete, score
    <3>1. complete
      BY <2>4
    <3>2. CASE improved(work)
      BY <2>1, <3>1, <3>2, <1>1 DEF UpdateBest
    <3>3. CASE ~improved(work)
      <4>1. best \in Nat /\ ~(score(work) < best) /\ best' = best
        BY <2>1, <3>3, <1>1 DEF UpdateBest, improved
      <4> QED BY <4>1, <1>1
    <3> QED BY <3>2, <3>3
  <2>6. BestCommitInv'
    <3>1. CASE ~(complete /\ improved(work))
      BY <2>1, <3>1, <1>k DEF UpdateBest
    <3>2. CASE complete /\ improved(work)
      <4>0. best' = score(work) /\ best_commit' = Sha(work, best_commit)
        BY <2>1, <3>2 DEF UpdateBest
      <4>1. Finds[work][0] = "usable"
        BY <2>4, <3>2, <1>1 DEF Complete
      \* A tip that was measured is not an improvement.
      <4>2. ~hit => work # Tip("agent")
        <5> SUFFICES ASSUME ~hit, work = Tip("agent")
                     PROVE  FALSE
          OBVIOUS
        <5>1. best # None /\ best <= score(work)
          BY <1>0, <2>1, <2>4, <3>2 DEF TipMeasured, Attempting
        <5>2. best = None \/ score(work) < best
          BY <3>2 DEF improved
        <5> QED BY <5>1, <5>2, <1>1
      <4>3. head = "agent"
        BY <1>0, <2>1 DEF BranchInv
      <4>4. ~hit => best_commit' = Len(log'["agent"])
        BY <2>3, <4>0, <4>2, <4>3 DEF Sha
      <4>5. ~hit' => log'["agent"][best_commit'].content = work
        BY <2>1, <2>3, <4>4
      <4> QED BY <4>0, <4>1, <4>5, <1>1 DEF BestCommitInv, score
    <3> QED BY <3>1, <3>2
  <2> QED BY <2>5, <2>6
<1>10. CASE Interrupt
  BY <1>10, <1>k, <1>u DEF Interrupt, Raise, OnBranch, Attempting
<1>11. CASE Finally
  BY <1>11, <1>k, <1>u DEF Finally, OnBranch, Attempting
<1>12. CASE Restore
  <2>1. pc = "restore" /\ pc' \in {"report", "raised"} /\ UNCHANGED <<best, best_commit>>
    BY <1>12 DEF Restore
  <2> QED BY <2>1, <1>k, <1>u DEF OnBranch, Attempting
<1>13. CASE Report
  BY <1>13, <1>k, <1>u DEF Report, OnBranch, Attempting
<1>15. CASE FinallyFails \/ RestoreFails \/ ReportFails
  <2>1. OnBranch /\ UNCHANGED <<best, best_commit>> /\ pc' \notin Attempting
    BY <1>0, <1>15, WayOutFails DEF Attempting
  <2> QED BY <2>1, <1>k, <1>u
<1>14. CASE UNCHANGED vars
  <2>1. UNCHANGED <<pc, best, best_commit, log, hit>>
    BY <1>14 DEF vars
  <2> QED BY <1>0, <2>1 DEF BestCommitInv, TipMeasured, Tip, OnBranch
<1> QED BY <1>2, <1>3, <1>4, <1>5, <1>6, <1>7, <1>8, <1>9, <1>10, <1>11, <1>12,
           <1>13, <1>14, <1>15 DEF Next
-----------------------------------------------------------------------------
\* When the report is made the tip has been put back to the best design.
LEMMA ReportStep ==
    IInv /\ [Next]_vars => (pc' = "report" /\ ~hit' => BestOnTip')
<1> SUFFICES ASSUME IInv, [Next]_vars, pc' = "report", ~hit'
             PROVE  BestOnTip'
  OBVIOUS
<1>0. /\ TypeOK /\ BranchInv /\ LogStepped /\ BestCommitInv /\ ~hit
      /\ (pc = "report" => BestOnTip)
  BY LogStep, HitStays DEF IInv
<1> USE DEF run, repo, progress, result, observer
<1>1. CASE Restore
  <2> DEFINE kept == log["agent"][best_commit].content
  <2>1. /\ pc = "restore" /\ UNCHANGED <<best, hit>> /\ head = "agent"
        /\ Len(log["origin"]) = 1 /\ log["agent"][1] = log["origin"][1]
        /\ log' \in [{"origin", "agent"} -> Seq(Commits)]
        /\ log'["origin"] = log["origin"]
    BY <1>0, <1>1 DEF Restore, BranchInv, OnBranch, LogStepped
  <2>2. IF best = None THEN best_commit = 1
        ELSE Finds[kept][0] = "usable" /\ score(kept) = best
    BY <1>0, <2>1 DEF BestCommitInv, OnBranch
  <2>3. Tip("agent")' = kept
    <3>1. CASE best_commit = Len(log["agent"]) /\ UNCHANGED repo
      BY <3>1 DEF Tip
    <3>2. CASE work' = kept /\ log' = Committed(kept, "restore")
      <4>1. kept \in Contents /\ "restore" \in Subjects
        BY <3>2, TypeStep DEF TypeOK, Subjects
      <4>2. OnBranch /\ pc # "done"
        BY <2>1 DEF OnBranch
      <4> HIDE DEF kept
      <4>3. log'["agent"][Len(log'["agent"])].content = kept
        BY <1>0, <3>2, <4>1, <4>2, Commit
      <4> QED BY <4>3 DEF Tip
    <3> QED BY <1>1, <2>1, <3>1, <3>2 DEF Restore
  <2>4. Tip("origin")' = log["agent"][1].content
    BY <2>1 DEF Tip
  <2> HIDE DEF kept
  <2>5. CASE best = None
    <3>1. kept = log["agent"][1].content
      BY <2>2, <2>5 DEF kept
    <3> QED BY <2>1, <2>3, <2>4, <2>5, <3>1 DEF BestOnTip
  <2>6. CASE best # None
    BY <2>1, <2>2, <2>3, <2>6 DEF BestOnTip, score
  <2> QED BY <2>5, <2>6
<1>2. CASE UNCHANGED vars
  <2>1. UNCHANGED <<pc, best, log>>
    BY <1>2 DEF vars
  <2> QED BY <1>0, <2>1 DEF BestOnTip, Tip, score
<1>3. CASE Next /\ ~Restore
  <2>1. pc' # "report"
    BY <1>3, <1>0 DEF Next, Refuse, Branch, Seed, Stub, NoSkeletonToSeed, Raise,
           Baseline, LoopHead, AgentWrites, write_rtl, PromptRaises, PromptFails,
           PromptReplies, PromptEnds, Evaluate, check_verify_points, Record,
           Interrupt, Finally, Report, FinallyFails, RestoreFails, ReportFails
  <2> QED BY <2>1
<1> QED BY <1>1, <1>2, <1>3
-----------------------------------------------------------------------------
LEMMA InitInv == Init => IInv
<1> SUFFICES ASSUME Init
             PROVE  IInv
  OBVIOUS
<1>1. PICK b \in Bases :
          log = [n \in {"origin", "agent"} |->
                    IF n = "origin" THEN <<[content |-> b, subject |-> "base"]>>
                                    ELSE <<>>]
  BY DEF Init
<1>2. b \in Contents
  BY LoopAssumption
<1>3. /\ log["origin"] = <<[content |-> b, subject |-> "base"]>>
      /\ log["agent"] = <<>>
      /\ log \in [{"origin", "agent"} -> Seq(Commits)]
  <2>1. [content |-> b, subject |-> "base"] \in Commits
    BY <1>2 DEF Commits, Subjects
  <2> DEFINE o == <<[content |-> b, subject |-> "base"]>>
  <2>2. o \in Seq(Commits) /\ <<>> \in Seq(Commits)
    BY <2>1
  <2>3. log = [n \in {"origin", "agent"} |-> IF n = "origin" THEN o ELSE <<>>]
    BY <1>1
  <2> HIDE DEF o
  <2>4. log["origin"] = o /\ log["agent"] = <<>>
    BY <2>3
  <2>5. log \in [{"origin", "agent"} -> Seq(Commits)]
    BY <2>2, <2>3
  <2> QED BY <2>4, <2>5 DEF o
<1>4. Len(log["origin"]) = 1 /\ log["origin"][1].subject = "base" /\ Len(log["agent"]) = 0
  BY <1>3
<1>5. TypeOK
  <2>1. 0 \in Points /\ 0 \in 0 .. Attempts /\ 0 \in 0 .. MaxWrites
    BY Data, LoopAssumption
  <2> QED BY <1>3, <2>1 DEF Init, TypeOK, Messages
<1>6. BranchInv
  BY <1>3, <1>4 DEF Init, BranchInv, OnBranch
<1>7. \A i \in 1 .. Len(log["agent"]) : FALSE
  BY <1>4
<1>8. BestIsLeastMeasured /\ JudgeInv /\ HeadlinesAreTrue /\ AcceptedInv
  BY <1>7 DEF Init, BestIsLeastMeasured, JudgeInv, HeadlinesAreTrue, AcceptedInv,
              Accepted
<1>9. BestCommitInv /\ TipMeasured /\ CleanInv /\ pc # "report"
  BY DEF Init, BestCommitInv, TipMeasured, CleanInv, OnBranch, Attempting
<1> QED BY <1>5, <1>6, <1>8, <1>9 DEF IInv

LEMMA Inductive == Spec => []IInv
<1>1. IInv /\ [Next]_vars => IInv'
  <2> SUFFICES ASSUME IInv, [Next]_vars
               PROVE  IInv'
    OBVIOUS
  <2>1. TypeOK' /\ BranchInv' /\ BestIsLeastMeasured' /\ JudgeInv'
    BY TypeStep, BranchStep, BestStep, JudgeStep
  <2>2. HeadlinesAreTrue' /\ AcceptedInv' /\ BestCommitInv' /\ TipMeasured'
    BY HeadlineStep, KeptStep
  <2>3. CleanInv' /\ (pc' = "report" /\ ~hit' => BestOnTip')
    BY CleanStep, ReportStep
  <2> QED BY <2>1, <2>2, <2>3 DEF IInv
<1> QED BY <1>1, InitInv, PTL DEF Spec

\* Every variable keeps its type: in particular the file, once there is one,
\* always holds something that defines the module, whatever the agent replied
\* (the guard in write_rtl).
THEOREM TypeCorrect == Spec => []TypeOK
<1>1. IInv => TypeOK
  BY DEF IInv
<1> QED BY <1>1, Inductive, PTL

\* No branch but the run's own gets a commit, and that one only grows (git
\* checkout -b before anything is edited).
THEOREM OriginUntouched == Spec => OnlyOwnBranchGrows
<1>1. IInv /\ [Next]_vars =>
        [ /\ log'["origin"] = log["origin"]
          /\ pc # "start" => \A i \in 1 .. Len(log["agent"]) :
                                /\ i <= Len(log'["agent"])
                                /\ log'["agent"][i] = log["agent"][i] ]_vars
  <2> SUFFICES ASSUME IInv, [Next]_vars
               PROVE  /\ log'["origin"] = log["origin"]
                      /\ \A i \in 1 .. Len(log["agent"]) :
                                /\ i <= Len(log'["agent"])
                                /\ log'["agent"][i] = log["agent"][i]
    OBVIOUS
  <2>0. LogStepped /\ TypeOK /\ BranchInv
    BY LogStep DEF IInv
  <2>1. log'["origin"] = log["origin"]
    BY <2>0 DEF LogStepped
  <2>2. Len(log["agent"]) \in Nat /\ Len(log'["agent"]) \in Nat
    BY <2>0 DEF TypeOK, LogStepped
  <2>3. CASE OnBranch
    <3>1. /\ Len(log'["agent"]) >= Len(log["agent"])
          /\ \A i \in 1 .. Len(log["agent"]) : log'["agent"][i] = log["agent"][i]
      BY <2>0, <2>3 DEF LogStepped
    <3> QED BY <2>1, <2>2, <3>1
  <2>4. CASE ~OnBranch
    <3>1. log["agent"] = <<>>
      BY <2>0, <2>4 DEF BranchInv
    <3>2. Len(log["agent"]) = 0
      BY <3>1
    <3>3. \A i \in 1 .. Len(log["agent"]) : FALSE
      BY <3>2
    <3> QED BY <2>1, <3>3
  <2> QED BY <2>3, <2>4
<1> QED BY <1>1, Inductive, PTL DEF Spec, OnlyOwnBranchGrows

\* best is the least score measured of a complete design, in whatever order
\* the designs come (the update of best in main).
THEOREM BestIsLeast == Spec => []BestIsLeastMeasured
<1>1. IInv => BestIsLeastMeasured
  BY DEF IInv
<1> QED BY <1>1, Inductive, PTL

\* What the subject line of a commit claims is true of what the commit holds:
\* the file is not changed between its evaluation and its commit, and the
\* accepted designs get better and better (commit and headline in main).
THEOREM SubjectsAreTrue == Spec => []HeadlinesAreTrue
<1>1. IInv => HeadlinesAreTrue
  BY DEF IInv
<1> QED BY <1>1, Inductive, PTL

\* A run in which no ceiling was hit leaves its branch at the best design it
\* measured, or where it started when there is none (best_commit and the
\* restore at the end of main).
THEOREM BestIsKept == Spec => []TipIsBest
<1>1. IInv => TipIsBest
  BY DEF IInv, TipIsBest
<1> QED BY <1>1, Inductive, PTL

\* However the run ends, nothing is left uncommitted, unless the finally
\* clause or the restore fails itself (the finally clause).
THEOREM EndsClean == Spec => []TreeCleanAtEnd
<1>1. IInv => TreeCleanAtEnd
  BY DEF IInv, CleanInv, TreeCleanAtEnd
<1> QED BY <1>1, Inductive, PTL
-----------------------------------------------------------------------------
\* In implement mode the first complete design ends the loop, so what passed
\* the verify points last is what best_commit, and at last the tip, holds.
Unjudged == {"start", "seed", "stub", "loop", "prompt", "evaluate", "verify"}

Kept == log["agent"][best_commit].content

VerifiedIsKept ==
    IF best = None \/ VerifyPoints = 0 THEN verified = None
    ELSE ~hit => verified = Kept

VInv ==
    mode = "implement" =>
        /\ pc # "baseline"
        /\ pc \in Unjudged \union {"record"} => best = None
        /\ pc \in Unjudged => verified = None
        /\ pc = "record" => verified = IF complete /\ VerifyPoints > 0
                                       THEN work ELSE None
        /\ (pc = "finally" /\ ~unwinding) \/ pc \in {"restore", "report"}
              => VerifiedIsKept
        /\ pc = "report" /\ best # None => Tip("agent") = Kept

\* A commit leaves what best_commit holds alone.
LEMMA KeptStays ==
    IInv /\ [Next]_vars /\ OnBranch /\ best_commit' = best_commit => Kept' = Kept
<1> SUFFICES ASSUME IInv, [Next]_vars, OnBranch, best_commit' = best_commit
             PROVE  Kept' = Kept
  OBVIOUS
<1>1. best_commit \in 1 .. Len(log["agent"])
  BY DEF IInv, BranchInv
<1>2. \A i \in 1 .. Len(log["agent"]) : log'["agent"][i] = log["agent"][i]
  BY LogStep DEF LogStepped
<1> QED BY <1>1, <1>2 DEF Kept

\* An attempt that stops the run has its design at best_commit: it has just
\* been committed, for the tip it replaces, had it been the same design, would
\* have been the best already.
LEMMA StopKeeps ==
    IInv /\ Record /\ complete /\ best = None /\ ~hit => best' # None /\ Kept' = work
<1> SUFFICES ASSUME IInv, Record, complete, best = None, ~hit
             PROVE  best' # None /\ Kept' = work
  OBVIOUS
<1>0. /\ TypeOK /\ BranchInv /\ JudgeInv /\ TipMeasured
      /\ pc = "record" /\ OnBranch /\ head = "agent" /\ work \in Contents
      /\ Len(log["agent"]) \in Nat
  BY DEF IInv, Record, TypeOK, BranchInv, OnBranch
<1>1. Complete(work)
  BY <1>0 DEF JudgeInv
<1>2. work # Tip("agent")
  BY <1>0, <1>1 DEF TipMeasured, Attempting
<1>3. best' = score(work) /\ best_commit' = Len(log["agent"]) + 1
  BY <1>0, <1>2 DEF Record, UpdateBest, improved, Sha
<1>4. score(work) # None
  BY <1>0, Data, LoopAssumption
<1>5. log' = Committed(work, headline) /\ headline \in Subjects
  BY <1>0, HeadlineIsOne DEF Record
<1>6. /\ log'["agent"][Len(log'["agent"])].content = work
      /\ Len(log'["agent"]) = Len(log["agent"]) + 1
  BY <1>0, <1>2, <1>5, Commit
<1> QED BY <1>3, <1>4, <1>6 DEF Kept

\* Going back to best_commit makes the tip what that commit holds.
LEMMA RestoreKeeps ==
    IInv /\ Restore /\ pc' = "report" => Tip("agent")' = Kept /\ Kept' = Kept
<1> SUFFICES ASSUME IInv, Restore, pc' = "report"
             PROVE  Tip("agent")' = Kept /\ Kept' = Kept
  OBVIOUS
<1>1. /\ TypeOK /\ BranchInv /\ pc = "restore" /\ OnBranch /\ head = "agent"
      /\ best_commit' = best_commit
  BY DEF IInv, Restore, BranchInv, OnBranch, result
<1>2. [Next]_vars
  BY DEF Next
<1>3. Kept' = Kept
  BY <1>1, <1>2, KeptStays
<1>4. CASE best_commit = Len(log["agent"]) /\ UNCHANGED repo
  BY <1>3, <1>4 DEF Tip, Kept, repo
<1>5. CASE work' = Kept /\ log' = Committed(Kept, "restore")
  <2>1. Kept \in Contents /\ "restore" \in Subjects
    BY <1>2, <1>5, TypeStep DEF TypeOK, Subjects
  <2>2. log'["agent"][Len(log'["agent"])].content = Kept
    BY <1>1, <1>5, <2>1, Commit
  <2> QED BY <1>3, <2>2 DEF Tip
<1> QED BY <1>1, <1>4, <1>5 DEF Restore, Kept

LEMMA VStep == IInv /\ VInv /\ [Next]_vars => VInv'
<1> SUFFICES ASSUME IInv, VInv, [Next]_vars, mode' = "implement"
             PROVE  VInv'
  BY DEF VInv
<1>0. /\ TypeOK /\ BranchInv /\ (~hit' => ~hit) /\ mode = "implement"
  <2>1. mode' = mode
    BY DEF Next, vars, run, Refuse, Branch, Seed, Stub, NoSkeletonToSeed, Raise,
           Baseline, LoopHead, AgentWrites, write_rtl, PromptRaises, PromptFails,
           PromptReplies, PromptEnds, Evaluate, check_verify_points, Record,
           Interrupt, Finally, Restore, Report,
           FinallyFails, RestoreFails, ReportFails
  <2> QED BY <2>1, HitStays DEF IInv
<1>k. OnBranch /\ best_commit' = best_commit => Kept' = Kept
  BY KeptStays
<1> USE DEF run, repo, progress, result, observer
<1>1. CASE Refuse \/ Branch
  BY <1>0, <1>1 DEF VInv, Refuse, Branch, Unjudged
<1>2. CASE Seed \/ Stub \/ LoopHead \/ AgentWrites \/ PromptRaises \/ PromptFails
           \/ PromptReplies
  BY <1>0, <1>2 DEF VInv, Unjudged, VerifiedIsKept, Seed, Stub, LoopHead,
     AgentWrites, write_rtl, PromptRaises, PromptFails, PromptReplies, PromptEnds
<1>3. CASE NoSkeletonToSeed \/ Interrupt
  BY <1>0, <1>3 DEF VInv, Unjudged, NoSkeletonToSeed, Interrupt, Raise
<1>4. CASE Baseline
  BY <1>0, <1>4 DEF VInv, Baseline
<1>5. CASE Evaluate
  <2>1. pc' = IF cand' = "usable" THEN "verify" ELSE "record"
    BY <1>5 DEF Evaluate
  <2>2. best = None /\ verified = None /\ UNCHANGED <<best, verified>>
    BY <1>0, <1>5 DEF VInv, Evaluate, Unjudged
  <2>3. pc' = "record" => ~complete'
    BY <2>1 DEF complete
  <2> QED BY <2>1, <2>2, <2>3 DEF VInv, Unjudged
<1>6. CASE check_verify_points
  <2>1. /\ pc = "verify" /\ best = None /\ verified = None
        /\ cand = "usable" /\ ~verify_fail /\ UNCHANGED <<best, work, cand>>
    BY <1>0, <1>6 DEF VInv, check_verify_points, Unjudged, IInv, JudgeInv
  <2>2. CASE vp < VerifyPoints
    <3>1. verified' = None /\ (pc' = pc \/ (verify_fail' = TRUE /\ pc' = "record"))
      BY <1>6, <2>1, <2>2, LoopAssumption DEF check_verify_points
    <3> QED BY <2>1, <3>1 DEF VInv, Unjudged, complete
  <2>3. CASE vp = VerifyPoints
    <3>1. /\ verified' = IF VerifyPoints > 0 THEN work ELSE None
          /\ pc' = "record" /\ verify_fail' = verify_fail
      BY <1>6, <2>1, <2>3, LoopAssumption DEF check_verify_points
    <3> QED BY <2>1, <3>1 DEF VInv, Unjudged, complete
  <2> QED BY <1>6, <2>2, <2>3 DEF check_verify_points
<1>7. CASE Record
  <2>1. /\ pc = "record" /\ best = None /\ verified' = verified /\ hit' = hit
        /\ verified = IF complete /\ VerifyPoints > 0 THEN work ELSE None
    BY <1>0, <1>7 DEF VInv, Record
  <2>2. CASE complete
    <3>1. pc' = "finally"
      BY <1>0, <1>7, <2>2 DEF Record, Stops
    <3>2. best' # None
      BY <1>0, <1>7, <2>1, <2>2, Data, LoopAssumption
         DEF Record, UpdateBest, improved, TypeOK
    <3>3. ~hit => Kept' = work
      BY <1>7, <2>1, <2>2, StopKeeps
    <3>4. VerifiedIsKept'
      BY <2>1, <2>2, <3>2, <3>3, LoopAssumption DEF VerifiedIsKept
    <3> QED BY <3>1, <3>4 DEF VInv, Unjudged
  <2>3. CASE ~complete
    <3>1. pc' = "loop" /\ best' = best
      BY <1>7, <2>3 DEF Record, Stops, UpdateBest
    <3> QED BY <2>1, <2>3, <3>1 DEF VInv, Unjudged
  <2> QED BY <2>2, <2>3
<1>8. CASE Finally
  <2>1. /\ pc = "finally" /\ pc' = IF unwinding THEN "raised" ELSE "restore"
        /\ UNCHANGED <<best, best_commit, verified, hit>> /\ OnBranch
    BY <1>8 DEF Finally, OnBranch
  <2>2. ~unwinding => VerifiedIsKept
    BY <1>0, <2>1 DEF VInv
  <2>3. ~unwinding => VerifiedIsKept'
    BY <1>k, <2>1, <2>2 DEF VerifiedIsKept
  <2> QED BY <2>1, <2>3 DEF VInv, Unjudged
<1>9. CASE Restore
  <2>1. /\ pc = "restore" /\ pc' \in {"report", "raised"}
        /\ UNCHANGED <<best, best_commit, verified, hit>>
    BY <1>9 DEF Restore
  <2>2. VerifiedIsKept
    BY <1>0, <2>1 DEF VInv
  <2>3. pc' = "report" => Tip("agent")' = Kept /\ Kept' = Kept
    BY <1>9, RestoreKeeps
  <2>4. pc' = "report" => VerifiedIsKept'
    BY <2>1, <2>2, <2>3 DEF VerifiedIsKept
  <2> QED BY <2>1, <2>3, <2>4 DEF VInv, Unjudged
<1>10. CASE Report
  BY <1>10 DEF VInv, Report, Unjudged
<1>12. CASE FinallyFails \/ RestoreFails \/ ReportFails
  <2>1. pc' \in {"failed", "left"}
    BY <1>0, <1>12, WayOutFails
  <2> QED BY <2>1 DEF VInv, Unjudged
<1>11. CASE UNCHANGED vars
  <2>1. UNCHANGED <<pc, unwinding, work, log, cand, verify_fail, best, best_commit,
                    verified, hit>>
    BY <1>11 DEF vars
  <2>2. VerifiedIsKept' <=> VerifiedIsKept
    BY <2>1 DEF VerifiedIsKept, Kept
  <2>3. complete' <=> complete
    BY <2>1 DEF complete
  <2>4. Tip("agent")' = Tip("agent") /\ Kept' = Kept
    BY <2>1 DEF Tip, Kept
  <2> QED BY <1>0, <2>1, <2>2, <2>3, <2>4 DEF VInv
<1> QED BY <1>1, <1>2, <1>3, <1>4, <1>5, <1>6, <1>7, <1>8, <1>9, <1>10, <1>11, <1>12 DEF Next

LEMMA VInductive == Spec => []VInv
<1>1. Init => VInv
  BY DEF Init, VInv, Unjudged
<1>2. IInv /\ VInv /\ [Next]_vars => VInv'
  BY VStep
<1> QED BY <1>1, <1>2, Inductive, PTL DEF Spec

\* A run in implement mode in which no ceiling was hit reports as verified the
\* very design it leaves on the tip of its branch: the one that passed the
\* verify points ends the loop, is committed by it, and is what best_commit
\* goes back to (check_verify_points, Record and the restore in main).
THEOREM VerifiedOnTip == Spec => []VerifiedIsTip
<1>1. VInv => VerifiedIsTip
  BY DEF VInv, VerifiedIsKept, VerifiedIsTip
<1> QED BY <1>1, VInductive, PTL
-----------------------------------------------------------------------------
\* What a run keeps, and what it leaves the user with.

\* A reply's edit is in a commit, or is still in the file with a commit to come.
ReplyInv ==
    \A e \in landed : e.replied =>
        \/ InACommit(e.content)
        \/ /\ pc \in {"evaluate", "verify", "record", "finally", "failed"}
           /\ e.content = work

\* Nothing takes the file away once it is there.
AbsentInv ==
    OnBranch =>
        /\ \A i \in 2 .. Len(log["agent"]) : log["agent"][i].content # Absent
        /\ pc # "done" /\ work = Absent => Tip("agent") = Absent

\* best_commit moves only to a design that works, ceilings or not.
ChosenInv ==
    /\ best = None => best_commit = 1
    /\ OnBranch => best_commit = 1 \/ Complete(Kept)

\* In optimize mode there is a score to beat before the first attempt.
GoalInv ==
    /\ unwinding => pc \in {"finally", "raised", "failed", "left"}
    /\ mode = "optimize" => /\ pc \notin {"seed", "stub"}
                            /\ pc \in Attempting => best # None

UInv == ReplyInv /\ AbsentInv /\ ChosenInv /\ GoalInv /\ RestoredUnlessAbsent

LEMMA InitUInv == Init => UInv
  BY DEF Init, UInv, ReplyInv, AbsentInv, ChosenInv, GoalInv, RestoredUnlessAbsent,
         OnBranch, Attempting

\* A commit is never undone.
LEMMA CommitStays ==
    ASSUME IInv, [Next]_vars, OnBranch, NEW d, InACommit(d)
    PROVE  InACommit(d)'
<1>1. PICK i \in 1 .. Len(log["agent"]) : log["agent"][i].content = d
  BY DEF InACommit
<1>2. /\ Len(log'["agent"]) >= Len(log["agent"])
      /\ log'["agent"][i] = log["agent"][i]
  BY <1>1, LogStep DEF LogStepped
<1>3. Len(log["agent"]) \in Nat /\ Len(log'["agent"]) \in Nat
  BY LogStep DEF LogStepped, IInv, TypeOK
<1>4. i \in 1 .. Len(log'["agent"])
  BY <1>2, <1>3
<1> QED BY <1>1, <1>2, <1>4 DEF InACommit

\* Where the file is committed as it stands: the content is in a commit then,
\* the tip if it was not the tip already.
LEMMA WorkCommitted ==
    ASSUME IInv, OnBranch, pc # "done", NEW h \in Subjects,
           log' = Committed(work, h), work' = work
    PROVE  /\ InACommit(work)'
           /\ Tip("agent")' = work
           /\ work = Tip("agent") => log' = log
<1>1. TypeOK /\ BranchInv /\ work \in Contents
  BY DEF IInv, TypeOK
<1>2. /\ log' \in [{"origin", "agent"} -> Seq(Commits)]
      /\ Len(log'["agent"]) >= Len(log["agent"])
      /\ log'["agent"][Len(log'["agent"])].content = work
      /\ work = Tip("agent") => log' = log
  BY <1>1, Commit
<1>3. Len(log["agent"]) \in Nat /\ Len(log["agent"]) >= 1
      /\ Len(log'["agent"]) \in Nat
  BY <1>1, <1>2 DEF TypeOK, BranchInv
<1>4. Len(log'["agent"]) \in 1 .. Len(log'["agent"])
  BY <1>2, <1>3
<1> QED BY <1>2, <1>4 DEF InACommit, Tip

LEMMA ReplyStep == IInv /\ UInv /\ [Next]_vars => ReplyInv'
<1> SUFFICES ASSUME IInv, UInv, [Next]_vars,
                    NEW e \in landed', e.replied
             PROVE  \/ InACommit(e.content)'
                    \/ /\ pc' \in {"evaluate", "verify", "record", "finally", "failed"}
                       /\ e.content = work'
  BY DEF ReplyInv
<1>0. TypeOK /\ BranchInv /\ ReplyInv
  BY DEF IInv, UInv
<1>k. ASSUME OnBranch, InACommit(e.content)
      PROVE  InACommit(e.content)'
  BY <1>k, CommitStays
\* Off its branch a run has no commits, and so no edits either.
<1>o. ~OnBranch /\ e \in landed => FALSE
  <2>1. ~OnBranch => Len(log["agent"]) = 0
    BY <1>0 DEF BranchInv
  <2>2. ~OnBranch => ~InACommit(e.content)
    BY <2>1 DEF InACommit
  <2> QED BY <1>0, <2>2 DEF ReplyInv, OnBranch
<1> USE DEF run, repo, progress, result, observer
<1>1. CASE Stub \/ Record \/ Finally
  <2>1. e \in landed /\ work' = work /\ OnBranch /\ pc # "done"
    BY <1>1 DEF Stub, Record, Finally, OnBranch
  <2>2. InACommit(work)'
    <3>1. PICK h \in Subjects : log' = Committed(work, h)
      BY <1>1, HeadlineIsOne DEF Stub, Record, Finally, Subjects, IInv
    <3> QED BY <2>1, <3>1, WorkCommitted
  <2>3. InACommit(e.content) \/ e.content = work
    BY <1>0, <2>1 DEF ReplyInv
  <2>4. CASE e.content = work
    BY <2>1, <2>2, <2>4 DEF InACommit
  <2> QED BY <2>1, <2>3, <2>4, <1>k
<1>2. CASE PromptRaises \/ PromptFails \/ PromptReplies
  <2>1. PICK r \in BOOLEAN : PromptEnds(r) /\ (r => pc' = "evaluate")
    BY <1>2 DEF PromptRaises, PromptFails, PromptReplies
  <2>2. /\ OnBranch /\ work' = work /\ pc = "prompt"
        /\ e \in landed \/ e = [content |-> work, replied |-> r]
    BY <2>1 DEF PromptEnds, OnBranch
  <2>3. CASE e \in landed
    BY <1>0, <2>2, <2>3, <1>k DEF ReplyInv
  <2>4. CASE e = [content |-> work, replied |-> r]
    <3>1. e.content = work /\ e.replied = r
      BY <2>4
    <3> QED BY <2>1, <2>2, <3>1
  <2> QED BY <2>2, <2>3, <2>4
<1>3. CASE Evaluate \/ check_verify_points
  <2>1. /\ e \in landed /\ OnBranch /\ work' = work
        /\ pc' \in {"evaluate", "verify", "record", "finally"}
    BY <1>3 DEF Evaluate, check_verify_points, OnBranch
  <2> QED BY <1>0, <2>1, <1>k DEF ReplyInv
<1>4. CASE Interrupt
  <2>1. e \in landed /\ OnBranch /\ work' = work /\ pc' = "finally"
    BY <1>4 DEF Interrupt, Raise, OnBranch
  <2> QED BY <1>0, <2>1, <1>k DEF ReplyInv
<1>5. CASE Refuse \/ Branch
  BY <1>5, <1>o DEF Refuse, Branch, OnBranch
<1>6. CASE Seed \/ NoSkeletonToSeed \/ Baseline \/ LoopHead \/ AgentWrites
           \/ Restore \/ Report
  <2>1. /\ e \in landed /\ OnBranch
        /\ pc \notin {"evaluate", "verify", "record", "finally", "failed"}
    BY <1>6 DEF Seed, NoSkeletonToSeed, Baseline, LoopHead, AgentWrites, write_rtl,
       Restore, Report, OnBranch
  <2> QED BY <1>0, <2>1, <1>k DEF ReplyInv
<1>8. CASE FinallyFails
  <2>1. e \in landed /\ OnBranch /\ work' = work /\ pc' = "failed"
    BY <1>8 DEF FinallyFails, Raise, OnBranch
  <2> QED BY <1>0, <2>1, <1>k DEF ReplyInv
<1>9. CASE RestoreFails \/ ReportFails
  <2>1. /\ e \in landed /\ OnBranch
        /\ pc \notin {"evaluate", "verify", "record", "finally", "failed"}
    BY <1>9 DEF RestoreFails, ReportFails, OnBranch
  <2> QED BY <1>0, <2>1, <1>k DEF ReplyInv
<1>7. CASE UNCHANGED vars
  BY <1>0, <1>7 DEF ReplyInv, InACommit, vars
<1> QED BY <1>1, <1>2, <1>3, <1>4, <1>5, <1>6, <1>7, <1>8, <1>9 DEF Next

LEMMA AbsentStep == IInv /\ UInv /\ [Next]_vars => AbsentInv'
<1> SUFFICES ASSUME IInv, UInv, [Next]_vars
             PROVE  AbsentInv'
  OBVIOUS
<1>0. TypeOK /\ BranchInv /\ AbsentInv /\ LogStepped /\ work \in Contents
  BY LogStep DEF IInv, UInv, TypeOK
<1>n. Len(log["agent"]) \in Nat /\ Len(log["origin"]) = 1
  BY <1>0 DEF TypeOK, BranchInv
\* The branch is left alone, and the file too or given a design.
<1>k. ASSUME OnBranch, pc # "done", log' = log, work' = work \/ work' # Absent
      PROVE  AbsentInv'
  BY <1>0, <1>k DEF AbsentInv, Tip
\* The file is committed, and is not Absent unless the tip is.
<1>c. ASSUME OnBranch, pc # "done", work' = Absent => log' = log /\ work = Absent
      PROVE  AbsentInv'
  <2>1. CASE work' = Absent
    BY <1>k, <1>c, <2>1
  <2>2. CASE work' # Absent
    <3>1. ASSUME NEW i \in 2 .. Len(log'["agent"])
          PROVE  log'["agent"][i].content # Absent
      <4>1. i \in 1 .. Len(log'["agent"])
        BY <3>1
      <4>2. \/ i \in 1 .. Len(log["agent"]) /\ log'["agent"][i] = log["agent"][i]
            \/ log'["agent"][i].content = work'
        BY <1>0, <1>c, <4>1 DEF LogStepped
      <4>3. i \in 1 .. Len(log["agent"]) => i \in 2 .. Len(log["agent"])
        BY <1>n, <3>1
      <4> QED BY <1>0, <1>c, <2>2, <4>2, <4>3 DEF AbsentInv
    <3> QED BY <2>2, <3>1 DEF AbsentInv
  <2> QED BY <2>1, <2>2
<1> USE DEF run, repo, progress, result, observer
<1>1. CASE Refuse
  BY <1>1 DEF Refuse, AbsentInv, OnBranch
<1>2. CASE Branch
  <2>1. /\ log' = [log EXCEPT !["agent"] = log["origin"]]
        /\ pc = "start" /\ work' = work /\ ~Dirty /\ head = "origin"
    BY <1>0, <1>2 DEF Branch, BranchInv
  <2>2. log'["agent"] = log["origin"]
    BY <2>1, <1>0 DEF TypeOK
  <2>3. \A i \in 2 .. Len(log'["agent"]) : FALSE
    BY <2>2, <1>n
  <2>4. work' = Tip("agent")'
    BY <2>1, <2>2 DEF Dirty, Tip
  <2> QED BY <2>3, <2>4 DEF AbsentInv
<1>3. CASE Seed
  <2>1. skeleton # Absent
    BY <1>0, <1>3, LoopAssumption DEF Seed, TypeOK
  <2> QED BY <1>3, <2>1, <1>k DEF Seed, OnBranch
<1>4. CASE AgentWrites
  <2>1. PICK c \in Designs \union Malformed : write_rtl(c)
    BY <1>4 DEF AgentWrites
  <2>2. work' = work \/ work' # Absent
    BY <2>1, LoopAssumption DEF write_rtl
  <2> QED BY <2>1, <2>2, <1>k DEF write_rtl, OnBranch
<1>5. CASE Stub \/ Record \/ Finally
  <2>1. work' = work /\ OnBranch /\ pc # "done"
    BY <1>5 DEF Stub, Record, Finally, OnBranch
  <2>2. PICK h \in Subjects : log' = Committed(work, h)
    BY <1>5, HeadlineIsOne DEF Stub, Record, Finally, Subjects, IInv
  <2>3. work = Absent => work = Tip("agent")
    BY <1>0, <2>1 DEF AbsentInv
  <2> QED BY <2>1, <2>2, <2>3, <1>c, WorkCommitted
<1>6. CASE Restore
  <2>1. OnBranch /\ pc # "done" /\ (UNCHANGED repo \/ work' # Absent)
    BY <1>6 DEF Restore, OnBranch
  <2> QED BY <2>1, <1>c, <1>k
<1>7. CASE Report
  BY <1>0, <1>7 DEF Report, AbsentInv, OnBranch
<1>8. CASE NoSkeletonToSeed \/ Baseline \/ LoopHead \/ PromptRaises \/ PromptFails
           \/ PromptReplies \/ Evaluate \/ check_verify_points \/ Interrupt
  BY <1>8, <1>k DEF NoSkeletonToSeed, Baseline, LoopHead, PromptRaises, PromptFails,
     PromptReplies, PromptEnds, Evaluate, check_verify_points, Interrupt, OnBranch
<1>10. CASE FinallyFails \/ RestoreFails \/ ReportFails
  <2>1. OnBranch /\ pc # "done" /\ log' = log /\ (work' = work \/ work' # Absent)
    BY <1>0, <1>10, WayOutFails
  <2> QED BY <2>1, <1>k
<1>9. CASE UNCHANGED vars
  BY <1>0, <1>9 DEF AbsentInv, OnBranch, Tip, vars
<1> QED BY <1>1, <1>2, <1>3, <1>4, <1>5, <1>6, <1>7, <1>8, <1>9, <1>10 DEF Next

LEMMA ChosenStep == IInv /\ UInv /\ [Next]_vars => ChosenInv'
<1> SUFFICES ASSUME IInv, UInv, [Next]_vars
             PROVE  ChosenInv'
  OBVIOUS
<1>0. TypeOK /\ BranchInv /\ ChosenInv /\ work \in Contents
  BY DEF IInv, UInv, TypeOK
<1>s. score(work) # None
  BY <1>0, Data, LoopAssumption
\* best_commit stays, and what is there with it.
<1>k. ASSUME OnBranch, best_commit' = best_commit, best' = None => best = None
      PROVE  ChosenInv'
  BY <1>0, <1>k, KeptStays DEF ChosenInv, Complete
<1> USE DEF run, repo, progress, result, observer
<1>1. CASE Refuse
  BY <1>0, <1>1 DEF Refuse, ChosenInv, OnBranch
<1>2. CASE Branch
  BY <1>0, <1>2 DEF Branch, ChosenInv, BranchInv, OnBranch
<1>3. CASE Record
  <2>1. pc = "record" /\ OnBranch /\ head = "agent" /\ log' = Committed(work, headline)
        /\ UpdateBest
    BY <1>0, <1>3 DEF Record, OnBranch, BranchInv
  <2>2. CASE best_commit' = best_commit
    BY <2>1, <2>2, <1>k, <1>s DEF UpdateBest
  <2>3. CASE best_commit' # best_commit
    <3>1. /\ complete /\ work # Tip("agent") /\ best' = score(work)
          /\ best_commit' = Len(log["agent"]) + 1
      BY <2>1, <2>3 DEF UpdateBest, Sha
    <3>2. Complete(work)
      BY <2>1, <3>1 DEF IInv, JudgeInv
    <3>3. headline \in Subjects
      BY <2>1, HeadlineIsOne DEF IInv
    <3>4. /\ log'["agent"][Len(log'["agent"])].content = work
          /\ Len(log'["agent"]) = Len(log["agent"]) + 1
      BY <1>0, <2>1, <3>1, <3>3, Commit
    <3>5. Kept' = work
      BY <3>1, <3>4 DEF Kept
    <3> QED BY <3>1, <3>2, <3>5, <1>s DEF ChosenInv, Complete
  <2> QED BY <2>2, <2>3
<1>4. CASE Baseline
  BY <1>s, <1>4, <1>k DEF Baseline, OnBranch
<1>5. CASE Seed \/ Stub \/ NoSkeletonToSeed \/ LoopHead \/ AgentWrites \/ PromptRaises
           \/ PromptFails \/ PromptReplies \/ Evaluate \/ check_verify_points
           \/ Interrupt \/ Finally \/ Restore \/ Report
           \/ FinallyFails \/ RestoreFails \/ ReportFails
  BY <1>5, <1>k DEF Seed, Stub, NoSkeletonToSeed, LoopHead, AgentWrites, write_rtl,
     PromptRaises, PromptFails, PromptReplies, PromptEnds, Evaluate,
     check_verify_points, Interrupt, Finally, Restore, Report,
     FinallyFails, RestoreFails, ReportFails, OnBranch
<1>6. CASE UNCHANGED vars
  BY <1>0, <1>6 DEF ChosenInv, OnBranch, Kept, Complete, vars
<1> QED BY <1>1, <1>2, <1>3, <1>4, <1>5, <1>6 DEF Next

LEMMA GoalStep == IInv /\ UInv /\ [Next]_vars => GoalInv'
<1> SUFFICES ASSUME IInv, UInv, [Next]_vars
             PROVE  GoalInv'
  OBVIOUS
<1>0. TypeOK /\ GoalInv /\ mode \in {"implement", "optimize"}
  BY LoopAssumption DEF IInv, UInv, TypeOK
<1>b. TypeOK /\ BranchInv
  BY DEF IInv
<1>s. score(work) # None
  BY <1>0, Data, LoopAssumption DEF TypeOK
<1> USE DEF run, repo, progress, result, observer
<1>1. CASE Refuse \/ Branch
  BY <1>0, <1>1 DEF GoalInv, Refuse, Branch, Attempting
<1>2. CASE Seed \/ Stub
  BY <1>0, <1>2 DEF GoalInv, Seed, Stub, Attempting
<1>3. CASE NoSkeletonToSeed \/ Interrupt
  BY <1>3 DEF GoalInv, NoSkeletonToSeed, Interrupt, Raise, Attempting
<1>4. CASE Baseline
  BY <1>0, <1>s, <1>4 DEF GoalInv, Baseline, Raise, Attempting
<1>5. CASE LoopHead \/ AgentWrites \/ PromptRaises \/ PromptFails \/ PromptReplies
           \/ Evaluate \/ check_verify_points
  <2>1. pc \in Attempting /\ pc' \in Attempting \union {"finally"}
        /\ UNCHANGED <<mode, unwinding, best>>
    BY <1>5 DEF LoopHead, AgentWrites, write_rtl, PromptRaises, PromptFails,
       PromptReplies, PromptEnds, Evaluate, check_verify_points, Attempting
  <2>2. ~unwinding
    BY <1>0, <2>1 DEF GoalInv, Attempting
  <2> QED BY <1>0, <2>1, <2>2 DEF GoalInv, Attempting
<1>6. CASE Record
  BY <1>0, <1>s, <1>6 DEF GoalInv, Record, UpdateBest, Attempting
<1>7. CASE Finally
  BY <1>0, <1>7 DEF GoalInv, Finally, Attempting
<1>8. CASE Restore \/ Report
  BY <1>0, <1>8 DEF GoalInv, Restore, Report, Attempting
<1>10. CASE FinallyFails \/ RestoreFails \/ ReportFails
  <2>1. pc' \in {"failed", "left"} /\ mode' = mode
    BY <1>b, <1>10, WayOutFails
  <2> QED BY <2>1 DEF GoalInv, Attempting
<1>9. CASE UNCHANGED vars
  BY <1>0, <1>9 DEF GoalInv, vars
<1> QED BY <1>1, <1>2, <1>3, <1>4, <1>5, <1>6, <1>7, <1>8, <1>9, <1>10 DEF Next

\* Where git has nothing to go back to: best_commit is then the commit the run
\* began on, for nothing since has been without the file, and had a design that
\* works been measured with no ceiling hit, it would be the one it holds.
LEMMA NothingToRestore ==
    IInv /\ UInv /\ Restore /\ pc' = "raised"
        => Tip("origin") = Absent /\ (best = None \/ hit)
<1> SUFFICES ASSUME IInv, UInv, Restore, pc' = "raised"
             PROVE  Tip("origin") = Absent /\ (best = None \/ hit)
  OBVIOUS
<1>0. /\ TypeOK /\ BranchInv /\ AbsentInv /\ BestCommitInv
      /\ pc = "restore" /\ OnBranch /\ head = "agent"
      /\ best_commit \in 1 .. Len(log["agent"]) /\ Len(log["agent"]) \in Nat
      /\ log["agent"][1] = log["origin"][1] /\ Len(log["origin"]) = 1
  BY DEF IInv, UInv, Restore, TypeOK, BranchInv, OnBranch
<1>1. log["agent"][best_commit].content = Absent
  BY <1>0 DEF Restore
<1>2. best_commit \notin 2 .. Len(log["agent"])
  BY <1>0, <1>1 DEF AbsentInv
<1>3. best_commit = 1
  BY <1>0, <1>2
<1>4. Tip("origin") = Absent
  BY <1>0, <1>1, <1>3 DEF Tip
<1>5. best # None => hit
  BY <1>0, <1>1, LoopAssumption DEF BestCommitInv
<1> QED BY <1>4, <1>5

LEMMA RestoredStep == IInv /\ UInv /\ [Next]_vars => RestoredUnlessAbsent'
<1> SUFFICES ASSUME IInv, UInv, [Next]_vars, pc' \in {"raised", "done"}, ~unwinding'
             PROVE  \/ head' = "origin"
                    \/ Tip("origin")' = Absent /\ (best' = None \/ hit')
  BY DEF RestoredUnlessAbsent
<1>0. TypeOK /\ RestoredUnlessAbsent /\ LogStepped
  BY LogStep DEF IInv, UInv
<1>1. Tip("origin")' = Tip("origin")
  BY <1>0 DEF LogStepped, Tip
<1> USE DEF run, repo, progress, result, observer
<1>2. CASE Restore
  BY <1>1, <1>2, NothingToRestore DEF Restore
<1>3. CASE Report
  BY <1>3 DEF Report
<1>4. CASE Finally
  BY <1>4 DEF Finally
<1>5. CASE ~(Restore \/ Report \/ Finally) /\ Next
  <2>1. pc' \notin {"raised", "done"}
    BY <1>0, <1>5 DEF TypeOK, Next, Refuse, Branch, Seed, Stub, NoSkeletonToSeed, Raise,
           Baseline, LoopHead, AgentWrites, write_rtl, PromptRaises, PromptFails,
           PromptReplies, PromptEnds, Evaluate, check_verify_points, Record, Interrupt,
           FinallyFails, RestoreFails, ReportFails
  <2> QED BY <2>1
<1>6. CASE UNCHANGED vars
  BY <1>0, <1>1, <1>6 DEF RestoredUnlessAbsent, vars
<1> QED BY <1>2, <1>3, <1>4, <1>5, <1>6

LEMMA UInductive == Spec => []UInv
<1>1. IInv /\ UInv /\ [Next]_vars => UInv'
  BY ReplyStep, AbsentStep, ChosenStep, GoalStep, RestoredStep DEF UInv
<1> QED BY <1>1, InitUInv, Inductive, PTL DEF Spec

\* An edit the agent handed over with a reply is in a commit by the time the
\* finally clause is through: by the attempt's own commit, or, when what judged
\* it raised, by the one made for stragglers there, which nothing that happens
\* later takes back (commit in main, and its call in the finally clause).
THEOREM RepliesKept == Spec => []RepliesAreKept
<1>1. UInv => RepliesAreKept
  BY DEF UInv, ReplyInv, RepliesAreKept
<1> QED BY <1>1, UInductive, PTL

\* A run that nothing interrupted ends on the user's branch, except for a file
\* that branch does not have, with no design found (or a ceiling hit): the
\* checkout of best_commit's file fails then, and the checkout of the original
\* branch after it is never reached (the end of main).
THEOREM RestoredOrAbsent == Spec => []RestoredUnlessAbsent
<1>1. UInv => RestoredUnlessAbsent
  BY DEF UInv
<1> QED BY <1>1, UInductive, PTL
-----------------------------------------------------------------------------
\* Every step of a run, the agent's and the way out included, takes at least
\* one from a number fixed at the start by --attempts, the verify points and
\* the edits: a prompt that raises or fails pays for the attempt too (the loop
\* in main, where attempt goes up before anything can go wrong).
THEOREM RunsDown == Spec => StepsRunDown
<1> DEFINE Spent == (Attempts - attempt) * AttemptSteps
           Writes == MaxWrites - writes
<1>1. IInv /\ [Next]_vars => [stepsLeft' < stepsLeft]_vars
  <2> SUFFICES ASSUME IInv, Next
               PROVE  stepsLeft' < stepsLeft
    OBVIOUS
  <2>0. /\ VerifyPoints \in Nat /\ Attempts \in Nat /\ attempt \in Int
        /\ AttemptSteps = VerifyPoints + 5 /\ AttemptSteps' = AttemptSteps
        /\ vp \in Int /\ 0 <= vp /\ vp <= VerifyPoints
        /\ MaxWrites \in Nat /\ writes \in Int
    BY LoopAssumption DEF IInv, TypeOK, AttemptSteps, Points
  <2>1. Spent \in Int /\ Writes \in Int
    BY <2>0
  <2>2. /\ stepsLeft = Spent + Writes + StepsToLoopEnd
        /\ stepsLeft' = Spent' + Writes' + StepsToLoopEnd'
    BY DEF stepsLeft
  <2>3. attempt' = attempt => Spent' = Spent
    BY <2>0
  <2>4. attempt' = attempt + 1 => Spent' = Spent - AttemptSteps
    BY <2>0
  <2>5. writes' = writes => Writes' = Writes
    OBVIOUS
  <2>6. writes' = writes + 1 => Writes' = Writes - 1
    BY <2>0
  <2> HIDE DEF Spent, Writes
  \* No step but these two is paid for out of the attempts or the edits.
  <2>k. ASSUME attempt' = attempt, writes' = writes,
               StepsToLoopEnd \in Int, StepsToLoopEnd' \in Int,
               StepsToLoopEnd' < StepsToLoopEnd
        PROVE  stepsLeft' < stepsLeft
    <3> DEFINE a == StepsToLoopEnd
               b == StepsToLoopEnd'
               c == Spent + Writes
    <3>1. c \in Int /\ a \in Int /\ b \in Int /\ b < a
      BY <2>1, <2>k
    <3>2. stepsLeft = c + a /\ stepsLeft' = c + b
      BY <2>2, <2>3, <2>5, <2>k
    <3> HIDE DEF a, b, c
    <3> QED BY <3>1, <3>2
  <2> USE DEF run, repo, progress, result, observer
  <2>7. CASE Refuse \/ Branch
    BY <2>7, <2>k DEF Refuse, Branch, StepsToLoopEnd, Final
  <2>8. CASE Seed \/ Stub
    BY <2>8, <2>k DEF Seed, Stub, StepsToLoopEnd, Final
  <2>9. CASE NoSkeletonToSeed
    BY <2>9, <2>k DEF NoSkeletonToSeed, Raise, StepsToLoopEnd, Final
  <2>10. CASE Baseline
    BY <2>10, <2>k DEF Baseline, Raise, StepsToLoopEnd, Final
  <2>11. CASE LoopHead
    <3>1. pc = "loop" /\ writes' = writes
      BY <2>11 DEF LoopHead
    <3>2. CASE attempt' = attempt + 1 /\ pc' = "prompt"
      <4>1. StepsToLoopEnd = 4 /\ StepsToLoopEnd' = 8 + VerifyPoints
        BY <3>1, <3>2 DEF StepsToLoopEnd, Final
      <4> QED BY <2>0, <2>1, <2>2, <2>4, <2>5, <3>1, <3>2, <4>1
    <3>3. CASE attempt' = attempt /\ pc' = "finally"
      BY <3>1, <3>3, <2>k DEF StepsToLoopEnd, Final
    <3> QED BY <2>11, <3>2, <3>3 DEF LoopHead
  <2>12. CASE AgentWrites
    <3>1. writes' = writes + 1 /\ attempt' = attempt /\ vp' = vp /\ pc = "prompt" /\ pc' = pc
      BY <2>12 DEF AgentWrites, write_rtl
    <3>2. StepsToLoopEnd = 8 + VerifyPoints /\ StepsToLoopEnd' = 8 + VerifyPoints
      BY <3>1 DEF StepsToLoopEnd, Final
    <3> QED BY <2>0, <2>1, <2>2, <2>3, <2>6, <3>1, <3>2
  <2>13. CASE PromptRaises \/ PromptFails \/ PromptReplies
    <3>1. pc = "prompt" /\ pc' \in {"loop", "evaluate"} /\ UNCHANGED <<attempt, writes>>
      BY <2>13 DEF PromptRaises, PromptFails, PromptReplies, PromptEnds
    <3>2. StepsToLoopEnd = 8 + VerifyPoints /\ StepsToLoopEnd' \in {4, 7 + VerifyPoints}
      BY <3>1 DEF StepsToLoopEnd, Final
    <3> QED BY <2>0, <2>k, <3>1, <3>2
  <2>14. CASE Evaluate
    <3>1. /\ pc = "evaluate" /\ pc' \in {"verify", "record"} /\ vp' = 0
          /\ UNCHANGED <<attempt, writes>>
      BY <2>14 DEF Evaluate
    <3>2. StepsToLoopEnd = 7 + VerifyPoints /\ StepsToLoopEnd' \in {5, 6 + VerifyPoints}
      BY <2>0, <3>1 DEF StepsToLoopEnd, Final
    <3> QED BY <2>0, <2>k, <3>1, <3>2
  <2>15. CASE check_verify_points
    <3>1. /\ pc = "verify" /\ UNCHANGED <<attempt, writes>>
          /\ pc' = "record" \/ (pc' = "verify" /\ vp' = vp + 1)
      BY <2>15 DEF check_verify_points
    <3>2. StepsToLoopEnd = 6 + (VerifyPoints - vp)
      BY <3>1 DEF StepsToLoopEnd, Final
    <3>3. StepsToLoopEnd' \in {5, 6 + (VerifyPoints - (vp + 1))}
      BY <3>1 DEF StepsToLoopEnd, Final
    <3> QED BY <2>0, <2>k, <3>1, <3>2, <3>3
  <2>16. CASE Record
    <3>1. pc = "record" /\ pc' \in {"finally", "loop"} /\ UNCHANGED <<attempt, writes>>
      BY <2>16 DEF Record
    <3> QED BY <3>1, <2>k DEF StepsToLoopEnd, Final
  <2>17. CASE Interrupt
    <3>1. /\ pc \in {"seed", "stub", "baseline", "loop", "prompt", "evaluate",
                      "verify", "record"}
          /\ pc' = "finally" /\ UNCHANGED <<attempt, writes>>
      BY <2>17 DEF Interrupt, Raise
    <3>2. StepsToLoopEnd \in {4, 5, 6, 6 + (VerifyPoints - vp), 7 + VerifyPoints,
                             8 + VerifyPoints}
      BY <3>1 DEF StepsToLoopEnd, Final
    <3>3. StepsToLoopEnd' = 3
      BY <3>1 DEF StepsToLoopEnd, Final
    <3> QED BY <2>0, <2>k, <3>1, <3>2, <3>3
  <2>18. CASE Finally
    <3>1. pc = "finally" /\ pc' \in {"raised", "restore"} /\ UNCHANGED <<attempt, writes>>
      BY <2>18 DEF Finally
    <3> QED BY <3>1, <2>k DEF StepsToLoopEnd, Final
  <2>19. CASE Restore
    <3>1. pc = "restore" /\ pc' \in {"raised", "report"} /\ UNCHANGED <<attempt, writes>>
      BY <2>19 DEF Restore
    <3> QED BY <3>1, <2>k DEF StepsToLoopEnd, Final
  <2>20. CASE Report
    BY <2>20, <2>k DEF Report, StepsToLoopEnd, Final
  <2>21. CASE FinallyFails \/ RestoreFails \/ ReportFails
    <3>1. /\ pc \in {"finally", "restore", "report"} /\ pc' \in {"failed", "left"}
          /\ UNCHANGED <<attempt, writes>>
      BY <2>21 DEF FinallyFails, RestoreFails, ReportFails, Raise
    <3>2. StepsToLoopEnd \in {1, 2, 3} /\ StepsToLoopEnd' = 0
      BY <3>1 DEF StepsToLoopEnd, Final
    <3> QED BY <2>k, <3>1, <3>2
  <2> QED BY <2>7, <2>8, <2>9, <2>10, <2>11, <2>12, <2>13, <2>14, <2>15, <2>16, <2>17, <2>18, <2>19, <2>20, <2>21 DEF Next
<1> QED BY <1>1, Inductive, PTL DEF Spec, StepsRunDown
-----------------------------------------------------------------------------
\* What the user of a run sees of it.
left == IF pc \in {"report", "left", "done"} THEN Tip("agent") ELSE None
seen == <<mode, State, Tip("origin"), head, best, left, hit>>

\* Where a step takes the run, as its user sees it.
LEMMA StateIs ==
    /\ pc \notin {"start", "report"} \union Final =>
          State = IF unwinding THEN "failing" ELSE "running"
    /\ pc = "start" => State = "idle"
    /\ pc = "refused" => State = "refused"
    /\ pc = "report" => State = "finished"
    /\ pc = "done" => State = "returned"
    /\ pc = "raised" => State = "broken"
    /\ pc = "failed" /\ unwinding => State = "failing"
    /\ pc = "left" => State = "left"
  BY DEF State, Final

LEMMA SeenNext ==
    ASSUME IInv, VInv, UInv, [Next]_vars
    PROVE  User!RunNext \/ seen' = seen
<1>0. /\ TypeOK /\ BranchInv /\ JudgeInv /\ CleanInv /\ ChosenInv /\ GoalInv /\ LogStepped
      /\ work \in Contents /\ hit \in BOOLEAN /\ mode \in {"implement", "optimize"}
  BY LogStep, LoopAssumption DEF IInv, UInv, TypeOK
<1>m. Tip("origin")' = Tip("origin")
  BY <1>0 DEF LogStepped, Tip
<1>s. score(work) # None
  BY <1>0, Data, LoopAssumption
<1>t. /\ pc' \notin {"start", "report"} \union Final =>
            State' = IF unwinding' THEN "failing" ELSE "running"
      /\ pc' = "refused" => State' = "refused"
      /\ pc' = "report" => State' = "finished"
      /\ pc' = "done" => State' = "returned"
      /\ pc' = "raised" => State' = "broken"
      /\ pc' = "failed" /\ unwinding' => State' = "failing"
      /\ pc' = "left" => State' = "left"
  BY DEF State, Final
<1>u. pc \in {"seed", "stub", "baseline", "loop", "prompt", "evaluate", "verify", "record",
              "restore"} => ~unwinding /\ State = "running"
  BY <1>0, StateIs DEF GoalInv, Final
<1>l. /\ pc \notin {"report", "left", "done"} => left = None
      /\ pc' \notin {"report", "left", "done"} => left' = None
      /\ pc' \in {"report", "left", "done"} => left' = Tip("agent")'
  BY DEF left
<1> USE DEF run, repo, progress, result, observer
\* A step inside the run that moves no score.
<1>k. ASSUME pc \in {"seed", "stub", "loop", "prompt", "evaluate", "verify", "record"},
             pc' \in {"stub", "loop", "prompt", "evaluate", "verify", "record", "finally"},
             UNCHANGED <<mode, unwinding, head, best>>, hit' \in {hit, TRUE}
      PROVE  User!RunNext \/ seen' = seen
  <2>1. State = "running" /\ State' = "running" /\ left = None /\ left' = None
    BY <1>k, <1>u, <1>t, <1>l DEF Final
  <2>2. CASE hit' = hit
    BY <1>k, <1>m, <2>1, <2>2 DEF seen
  <2>3. CASE hit' = TRUE
    BY <1>k, <1>m, <2>1, <2>3 DEF left, User!RunNext, User!Doubt, User!Goes
  <2> QED BY <1>k, <2>2, <2>3
\* An exception sets out.
<1>f. ASSUME pc \in {"seed", "stub", "baseline", "loop", "prompt", "evaluate", "verify",
                     "record"},
             pc' = "finally", unwinding', UNCHANGED <<mode, head, best>>,
             hit' \in {hit, TRUE}
      PROVE  User!RunNext
  <2>1. State = "running" /\ State' = "failing" /\ left = None /\ left' = None
    BY <1>f, <1>u, <1>t, <1>l DEF Final
  <2> QED BY <1>f, <1>m, <2>1 DEF left, User!RunNext, User!Fail, User!Goes
<1>1. CASE Refuse
  <2>1. State = "idle" /\ State' = "refused" /\ left = None /\ left' = None
        /\ UNCHANGED <<mode, head, best, hit>>
    BY <1>1, <1>t, <1>l, StateIs DEF Refuse
  <2> QED BY <1>m, <2>1 DEF left, User!RunNext, User!TurnAway, User!Goes
<1>2. CASE Branch
  <2>1. State = "idle" /\ State' = "running" /\ left = None /\ left' = None
        /\ head' = "agent" /\ UNCHANGED <<mode, best, hit>>
    BY <1>0, <1>2, <1>t, <1>l, StateIs DEF Branch, GoalInv, Final
  <2> QED BY <1>m, <2>1 DEF left, User!RunNext, User!Begin, User!Goes
<1>3. CASE Seed \/ Stub \/ LoopHead \/ AgentWrites \/ PromptRaises \/ PromptFails
           \/ PromptReplies
  BY <1>3, <1>k DEF Seed, Stub, LoopHead, AgentWrites, write_rtl, PromptRaises,
     PromptFails, PromptReplies, PromptEnds
<1>4. CASE NoSkeletonToSeed \/ Interrupt
  BY <1>4, <1>f DEF NoSkeletonToSeed, Interrupt, Raise
<1>5. CASE Baseline
  <2>1. PICK v \in Verdicts : Measures(0, v) /\
                IF v = "usable" THEN best' = score(work) /\ pc' = "loop" /\ UNCHANGED run
                                ELSE Raise("finally") /\ best' = best
    BY <1>5 DEF Baseline
  <2>2. pc = "baseline" /\ UNCHANGED <<mode, head>> /\ hit' \in {hit, TRUE}
    BY <1>0, <1>5, <2>1 DEF Baseline, Measures, Raise
  <2>3. CASE v # "usable"
    BY <2>1, <2>2, <2>3, <1>f DEF Raise
  <2>4. CASE v = "usable"
    <3>1. best = None /\ mode = "optimize"
      BY <1>0, <2>2 DEF CleanInv, VInv
    <3>2. Tip("origin") = work
      <4>1. /\ ~Dirty /\ Len(log["agent"]) = 1 /\ Len(log["origin"]) = 1
            /\ head = "agent" /\ log["agent"][1] = log["origin"][1]
        BY <1>0, <2>2 DEF CleanInv, BranchInv, OnBranch
      <4> QED BY <4>1 DEF Dirty, Tip
    <3>3. Finds[work][0] = "usable" /\ hit' = hit
      BY <1>0, <2>1, <2>4 DEF Measures, evaluate, CutShort
    <3>4. State = "running" /\ State' = "running" /\ left = None /\ left' = None
      BY <1>u, <1>t, <1>l, <2>1, <2>2, <2>4 DEF Final
    <3>5. User!TakeBaseline
      BY <1>0, <1>m, <2>1, <2>2, <2>4, <3>1, <3>2, <3>3, <3>4
         DEF left, User!TakeBaseline, User!Goes
    <3> QED BY <3>5 DEF User!RunNext
  <2> QED BY <2>3, <2>4
<1>6. CASE Evaluate \/ check_verify_points
  <2>1. hit' \in {hit, TRUE}
    BY <1>0, <1>6 DEF Evaluate, check_verify_points, Measures
  <2> QED BY <1>6, <2>1, <1>k DEF Evaluate, check_verify_points
<1>7. CASE Record
  <2>1. /\ pc = "record" /\ pc' \in {"finally", "loop"} /\ UpdateBest
        /\ UNCHANGED <<mode, unwinding, head, hit>>
    BY <1>7 DEF Record
  <2>2. CASE ~(complete /\ improved(work))
    BY <2>1, <2>2, <1>k DEF UpdateBest
  <2>3. CASE complete /\ improved(work)
    <3>1. best' = score(work) /\ Complete(work) /\ (best = None \/ score(work) < best)
      BY <1>0, <2>1, <2>3 DEF UpdateBest, JudgeInv, improved
    <3>2. (mode = "implement" => best = None) /\ (mode = "optimize" => best # None)
      BY <1>0, <2>1 DEF VInv, GoalInv, Attempting
    <3>3. State = "running" /\ State' = "running" /\ left = None /\ left' = None
      BY <1>u, <1>t, <1>l, <2>1 DEF Final
    <3>4. User!Accept(work)
      BY <1>0, <1>m, <2>1, <3>1, <3>2, <3>3 DEF left, User!Accept, User!Goes
    <3> QED BY <1>0, <3>4 DEF User!RunNext
  <2> QED BY <2>2, <2>3
<1>8. CASE Finally
  <2>1. /\ pc = "finally" /\ pc' = IF unwinding THEN "raised" ELSE "restore"
        /\ UNCHANGED <<mode, unwinding, head, best, hit>>
    BY <1>8 DEF Finally
  <2>2. left = None /\ left' = None
    BY <1>l, <2>1
  <2>3. CASE unwinding
    <3>1. State = "failing" /\ State' = "broken"
      BY <1>t, <2>1, <2>3, StateIs DEF Final
    <3> QED BY <1>m, <2>1, <2>2, <3>1 DEF left, User!RunNext, User!Break, User!Goes
  <2>4. CASE ~unwinding
    <3>1. State = "running" /\ State' = "running"
      BY <1>t, <2>1, <2>4, StateIs DEF Final
    <3> QED BY <1>m, <2>1, <2>2, <3>1 DEF seen
  <2> QED BY <2>3, <2>4
<1>9. CASE Restore
  <2>1. /\ pc = "restore" /\ pc' \in {"report", "raised"}
        /\ UNCHANGED <<mode, unwinding, head, best, hit>>
    BY <1>9 DEF Restore
  <2>2. State = "running" /\ left = None
    BY <1>u, <1>l, <2>1
  <2>3. CASE pc' = "report"
    <3>1. State' = "finished" /\ left' = Kept
      BY <1>9, <1>t, <1>l, <2>3, RestoreKeeps
    <3>2. Kept \in Contents /\ (Kept = Tip("origin") \/ Complete(Kept))
      <4>1. /\ best_commit \in 1 .. Len(log["agent"]) /\ OnBranch
            /\ log["agent"] \in Seq(Commits) /\ Len(log["origin"]) = 1
            /\ log["agent"][1] = log["origin"][1]
        BY <1>0, <2>1 DEF BranchInv, OnBranch, TypeOK
      <4>2. log["agent"][best_commit] \in Commits
        BY <4>1
      <4> QED BY <1>0, <4>1, <4>2 DEF ChosenInv, Kept, Tip, Commits
    <3>3. ~hit => IF best = None THEN Kept = Tip("origin")
                  ELSE Finds[Kept][0] = "usable" /\ score(Kept) = best
      <4>1. ~hit => BestOnTip'
        BY <2>1, <2>3, ReportStep
      <4>2. Tip("agent")' = Kept
        BY <1>9, <2>3, RestoreKeeps
      <4> QED BY <1>m, <2>1, <4>1, <4>2 DEF BestOnTip, score
    <3>4. User!Finish
      BY <1>m, <2>1, <2>2, <3>1, <3>2, <3>3
         DEF left, User!Finish, User!Goes, User!Best
    <3> QED BY <3>4 DEF User!RunNext
  <2>4. CASE pc' = "raised"
    <3>1. State' = "broken" /\ left' = None
      BY <1>t, <1>l, <2>4
    <3>2. Tip("origin") = Absent /\ (best = None \/ hit)
      BY <1>9, <2>4, NothingToRestore
    <3> QED BY <1>m, <2>1, <2>2, <3>1, <3>2 DEF left, User!RunNext, User!Break, User!Goes
  <2> QED BY <2>1, <2>3, <2>4
<1>10. CASE Report
  <2>1. /\ pc = "report" /\ pc' = "done" /\ head' = "origin" /\ log' = log
        /\ UNCHANGED <<mode, best, hit>>
    BY <1>10 DEF Report
  <2>2. State = "finished" /\ State' = "returned" /\ left' = left
    BY <1>t, <2>1, StateIs DEF left, Tip
  <2> QED BY <1>m, <2>1, <2>2 DEF left, User!RunNext, User!Return, User!Goes
<1>11. CASE FinallyFails \/ RestoreFails
  <2>1. /\ pc \in {"finally", "restore"} /\ pc' = "failed" /\ unwinding' = TRUE
        /\ UNCHANGED <<mode, head, best, hit>>
    BY <1>0, <1>11, WayOutFails DEF FinallyFails, RestoreFails
  <2>2. State' = "failing" /\ left = None /\ left' = None
    BY <1>t, <1>l, <2>1
  <2>3. CASE unwinding
    <3>1. State = "failing"
      BY <1>0, <2>1, <2>3, StateIs DEF GoalInv, Final
    <3> QED BY <1>m, <2>1, <2>2, <3>1 DEF seen
  <2>4. CASE ~unwinding
    <3>1. State = "running"
      BY <2>1, <2>4, StateIs DEF Final
    <3> QED BY <1>0, <1>m, <2>1, <2>2, <3>1 DEF left, User!RunNext, User!Fail, User!Goes
  <2> QED BY <1>0, <2>3, <2>4 DEF TypeOK
<1>12. CASE ReportFails
  <2>1. /\ pc = "report" /\ pc' = "left" /\ UNCHANGED <<mode, head, log, best, hit>>
    BY <1>12 DEF ReportFails, Raise
  <2>2. State = "finished" /\ State' = "left" /\ left' = left
    BY <1>t, <2>1, StateIs DEF left, Tip
  <2> QED BY <1>m, <2>1, <2>2 DEF left, User!RunNext, User!Leave, User!Goes
<1>13. CASE UNCHANGED vars
  BY <1>13 DEF vars, seen, left, State, Tip
<1> QED BY <1>1, <1>2, <1>3, <1>4, <1>5, <1>6, <1>7, <1>8, <1>9, <1>10, <1>11, <1>12, <1>13 DEF Next

\* A run is to its user what DesignRun says.  His branch is never moved, and
\* checked out again unless the run broke off.  The run's own ends at the file
\* he started from or at a design that works at every parameter point, ceilings
\* or not; and unless one was hit, at the best the run accepted (main, from git
\* checkout -b to the checkout of the original branch).
THEOREM RunImplementsDesignRun == Spec => ImplementsRun
<1>1. Init => User!RunInit
  <2> SUFFICES ASSUME Init
               PROVE  User!RunInit
    OBVIOUS
  <2>1. Tip("origin") \in Contents
    <3>1. TypeOK /\ BranchInv
      BY InitInv DEF IInv
    <3>2. log["origin"][1] \in Commits /\ Len(log["origin"]) = 1
      BY <3>1 DEF TypeOK, BranchInv
    <3> QED BY <3>2 DEF Tip, Commits
  <2>2. State = "idle" /\ left = None
    BY StateIs DEF Init, left
  <2> QED BY <2>1, <2>2, LoopAssumption DEF Init, left, User!RunInit
<1>2. IInv /\ VInv /\ UInv /\ [Next]_vars => [User!RunNext]_seen
  BY SeenNext
<1>3. Spec => []VInv
  BY VInductive
<1> QED
  BY <1>1, <1>2, <1>3, Inductive, UInductive, PTL
     DEF Spec, ImplementsRun, User!RunSpec, User!runVars, seen, left
=============================================================================
