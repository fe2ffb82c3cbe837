# Formal model of Spec2INC

TLA+ modules for the implemented parts of this repository, TLC runs that check
them on small instances, and TLAPS proofs of the main results for every value
of the constants. Paths such as `rtl/group_table.sv` are relative to the
repository's `src/` directory.

## 1. Inventory

Spec2INC is a switch with in-network collectives, built by an agent loop. Two
hardware modules exist, with a reference model and cocotb testbenches beside
them, and the loop that lets a language model rewrite one RTL file at a time.
The rest of the switch is documentation.

| Part | State | Operations | Talks to |
| --- | --- | --- | --- |
| `rtl/reduction_engine.sv` | three register arrays of `RED_LATENCY` stages | one clock edge: stall, or shift and take a set; asynchronous reset | a client (ready/valid), a consumer (ready/valid) |
| `rtl/group_table.sv` | valid bits; member masks | clock edge with or without a write; reset of the valid bits only; combinational read | preloading software, `port_ingress` (documented) |
| `verif/reference.py` | none between calls | `Collective`, `reduce_lanes`, `expected_outputs` | the testbenches |
| `examples/agent_loop/loop.py` | git branches, the RTL file, `best`, `best_commit`, `verified`, the message | seed, measure, prompt, judge, commit, feed back, clean up, restore | git, `EvalNode`, the model, `RtlEditTool` |
| `examples/agent_loop/tools.py` | the RTL file | `read_rtl`, `write_rtl` with its structural guard | called by the model while it is prompted |
| `examples/agent_loop/nodes.py` | build directory, child processes | `run_tests`, `run_synth`, each under wall-clock ceilings | make, verilator, sv2v, yosys |
| `verif/*/tb_*.py` | drivers, monitors, scoreboards | drive, sample, check | the two modules; any `req_xbar` |
| `rtl/spec2inc_pkg.sv` | constants and types | - | all RTL |
| `docs/modules.md`, `docs/architecture.md` | - | the other six modules, on paper | - |

What is hard about each part, and what makes it correct:

* **Reduction engine.** Acceptance, shift, delivery, stall and reset interact
  on the same edge. Results must come in order, exactly once, with their own
  identifier, at the right latency; they must be held under backpressure; a
  reset must leave no trace; nobody may wait for ever.
* **Group table.** The halves of an entry are kept by two processes, only one
  of which is reset; the range check and the narrowing of the index must be
  made in that order. What is read must be what was last written.
* **Reference model.** It is the oracle of the engine's testbench: its loop,
  run in member order, must agree with the engine's, run in slot order, and
  outputs that must stay untouched must be exactly the right ones.
* **Agent loop.** Prompts raise, fail, or leave an edit behind; ceilings turn
  good designs into failures; exceptions may strike anywhere. The headline of
  a commit must be true of what it holds, the best design must end on the tip,
  and nobody's branch but the run's own may be touched.
* **Evaluation node.** The build directory outlives the call, cleans fail
  silently, ceilings kill a command and not its children. A verdict must be
  about the design and the parameters asked for, and every call must end.
* **Crossbar testbench.** Sources, monitors and scripts are coroutines that
  meet at the edges of one clock. The record of what was sent and seen must be
  what happened, whatever the crossbar does; a test must pass the crossbars that
  keep their contract and no others.

`PROJECT.json` lists the components with their status, and every hazard at the
line where it bites.

## 2. Plan

Done, in this order:

1. `LaneArithmetic`, `ReductionEngine`, `ReductionFifo` with their proofs: the
   hardware every collective goes through.
2. `GroupTable`, `GroupMap` with their proofs.
3. `AgentLoop` with its proofs: the largest piece of control in the repository;
   and `DesignRun`, what a user may rely on, which it implements.
4. `Collectives` with its proofs, on the arithmetic of 1.
5. `EvalNode` with its proofs: the commands inside what `AgentLoop` takes as one
   step; and `Evaluation`, what the loop takes a call for, which it implements.
6. `XbarHarness` with its proofs: the testbench that will judge the crossbar
   the loop is asked to write.

Left:

7. `ReduceService`: engine and reference composed, a block-engine-like client
   that keeps sets in flight and matches results by identifier. There is no
   such client in the source yet; what the two modules owe each other is stated
   on either side (`InOrderExactlyOnce`, `PartialSumIsEngineSum`).

## 3. Modules

| Module | Models |
| --- | --- |
| `LaneArithmetic` | operand layout and `sum_c` |
| `ReductionEngine` | `rtl/reduction_engine.sv` between its client and consumer |
| `ReductionFifo` | abstract: the bounded queue the engine is to its clients |
| `GroupTable` | `rtl/group_table.sv` and the software that preloads it |
| `GroupMap` | abstract: the partial map the table is to `port_ingress` |
| `Collectives` | `verif/reference.py` |
| `AgentLoop` | `loop.py`, `tools.py`, and the answers of `nodes.py` |
| `DesignRun` | abstract: a run, as its user sees it |
| `EvalNode` | `nodes.py`: `run_tests`, `run_synth` and the build directory |
| `Evaluation` | abstract: an evaluation, as the loop sees it |
| `Ceilings` | what a ceiling can make of a verdict (in `AgentLoop`, `EvalNode` and `Evaluation`) |
| `Subsequences` | the filtered lists of the crossbar testbench's checks |
| `XbarHarness` | `verif/req_xbar/tb_req_xbar.py` against any crossbar |
| `MC*` | instances for TLC |
| `*_proofs`, `SubsequenceLemmas` | theorems and their proofs |

### LaneArithmetic

A beat is a function from lanes to lane values, an operand vector a function
from slots to beats. `LANE_MOD` is `2^RED_LANE_W`; `% LANE_MOD` is the carry the
part-select assignment discards. `Accumulator` is the loop over the slots for
one lane, element *p* being its value after *p* iterations; the inner loop over
lanes touches each lane once and becomes the function over lanes in `sum_c`.

### ReductionEngine

One step is one rising edge, and then the drives that the testbench makes
after the falling edge. `Tick` reads the wires as they were before the edge
(`ClockRegisters`), notes what was transferred (`ObserveChannels`), and picks
new wires (`ClientDrives`, `ConsumerDrives`). `stall`, `op_ready`, `res_valid`,
`res_data`, `res_id` are the `assign`s of the same names, `Shift` and
`ClearRegisters` the branches of the `always_ff`. Reset is asynchronous:
`AssertReset` clears at once, between edges. Before it the registers hold
anything, and reset is not released before it has taken effect.

`sent`, `got` and `age` belong to an observer: sets taken, results handed over,
and how many edges of forward progress each set has seen. The client keeps an
offer until it is taken (rule 2 and 3 of the channel convention) and offers
nothing during reset; the consumer's readiness is arbitrary.

### GroupTable

`ClockValid` and `ClockMembers` are the two `always_ff` blocks. `Edge` fires
both, reset held or not, so a write during reset stores a mask and no valid
bit. `InRange` is the check at full width, `idx_t` the narrowing; `ADDR_SPACE`
may exceed the number of entries. `lastWrite` is the observer's: what the
software believes it has stored. The read port is the pair of operators
`rd_valid_bit(i)`, `rd_members(i)`, applied to all indices in the properties.

### Collectives

A behaviour is one call: a collective somebody tries to build, and the buffers
present. `Reject` is each `ValueError` such a call can meet: that of a kind
nobody handles (`reference.py:114`) is out of reach, there being two kinds.
`AddBuffer` is one iteration of the loop of `reduce_lanes`; `Written` is the
dictionary of `None`s with the receivers' entries set. Buffers are one beat long. `reduce_lanes`'s own checks
(no buffer, different lengths) cannot fail when called from here.

### AgentLoop

The RTL file is a design (a member of `Designs`) or `Absent`; the working tree
is that file. A branch is the sequence of contents its commits gave the file,
with their subjects; a commit is its place in the branch. The mapping:

| Action | Code |
| --- | --- |
| `Refuse`, `Branch` | `require_clean_tree`, `git checkout -b` |
| `Seed`, `Stub`, `NoSkeletonToSeed`, `Baseline` | the two branches before the loop |
| `LoopHead` | `for attempt in range(...)` |
| `AgentWrites`, `PromptRaises`, `PromptFails`, `PromptReplies` | `write_rtl` calls during `llm.prompt`, and its three ends |
| `Evaluate`, `check_verify_points` | `evaluate` at the primary point, then at each verify point |
| `Record` | from `complete` to `format_feedback`: headline, commit, best, stop, message |
| `Interrupt` | an exception or a keyboard interrupt anywhere in the `try` |
| `Finally`, `Restore`, `Report` | the `finally` clause, the restore, the report and the last checkout |
| `FinallyFails`, `RestoreFails`, `ReportFails` | an exception in one of these three: after the first two the run is `"failed"`, after the last `"left"` on its own branch |

`Finds` says what evaluation finds of a design at each point; `evaluate` answers
that, or, because a ceiling of `nodes.py` was hit, a failure in its place:
`CutShort` (module `Ceilings`) says which. The tests come first, so a design
that would fail synthesis can be answered a failure of the tests, and never the
other way round. The observers `hit`, `measured` and `landed` remember that a
ceiling was hit, which scores were measured, and what each prompt left in the
file and whether it ended with a reply.

`DesignRun` is the run from outside: a file on the user's branch, a branch of
its own, a bar that every accepted design lowers, and a result. `User` maps it:
`bar` is `best`, `result` the tip of the run's branch once it has been restored,
`doubt` is `hit`, and `State` forgets where in the loop the program is.
Seeding, prompting, rejecting and committing are stutters. After an
exception a run is `"failing"`, and `"broken"` once the `finally` clause and the
restore are through; if one of these raises too it stays `"failing"`. An
exception in the report comes late: the result is in place, and only the run's
branch is not left (`Leave`).

### EvalNode

One action is one command or one way for it to end. The state outside the call
is the file and what is in `sim_build`: a binary, made of a design at a point,
by `make` or by an orphan. `MakeClean`, `MakeCleanFails` and
`MakeCleanCeiling` are the first `try` block; `Make`, `Simulate` and
`MakeCeiling` the second, split where make has built and starts the simulator;
`Sv2v`, `Yosys` and `SynthCeiling` are `run_synth`, whose directory nobody else
knows. `run_tests` starts a call from any earlier state, so calls follow each
other as `evaluate` and `check_verify_points` make them, with and without an
`Edit` between them. `Orphan` is the end of a process a ceiling left behind.

External and modelled from how it is used: make rebuilds a binary that is
absent or older than a source, and parameters are no prerequisite
(`verif/*/Makefile` forwards them with `-G`); a killed child may have removed
what a clean removes, or leave its own binary. A binary of another point is
simulated with the environment of this one and may print anything (`Prints`).
`TestResult` is the parsing of the summary line, by what it tells apart.

`ran` and `amiss` are the observer's: the binary that was simulated, and
whether the clean failed, an orphan wrote or a ceiling was hit in this call.

`Evaluation` is the call as `AgentLoop` takes it, in one step between asking and
an answer. `Loop` maps it: `answer` is read off `test` and `usable` as
`loop.py` reads them, `late` is a ceiling in this call, `alone` that the clean
worked and no orphan wrote. Only a call that is not `alone` may answer anything.
That is what `AgentLoop` still assumes: it takes every evaluation as `alone`,
so what is said of its designs holds of runs with no failed clean and no orphan
that writes.

### XbarHarness

One step is one clock cycle. The crossbar is a free choice in each: any
readiness for the sources, any offered beats out of `Offers`. The coroutines'
part of the cycle follows: `source` (presenting, sampling `s_ready` at the
falling edge, dropping `valid` after the rising one), `sinks` and `protocol`
(sampling at the falling edge), and the script of the test. `Accepted`,
`Present`, `Resume` are the places where `source()` can be, `bus` is what it has
driven (`drive`: `_words`, `_valid`). The crossbar takes what is on `bus`, and
the observer notes that in `taken`; the source goes by the `s_ready` it sampled,
which may have been undefined (`Clock`), and notes its own beat in `sent`.
`Watch` includes the cycles in which the sink bus cannot be read. `Release` is
the two edges from the release of reset, in `start()` or in the reset test, to
the start of the coroutines: a crossbar may deliver what it has left in them,
and nobody watches. `GivesUp` is the timeout of a test, at any point of it.

| Script | Code |
| --- | --- |
| `"traffic"`: `Release`, as in all, `Traffic`, `Drain` | `single_source_single_sink`, `all_sources_to_all_sinks`, `engine_sources_are_routed` |
| `"greedy"`: the same, with `CalledAnew`, `VictimServed` | `a_greedy_source_cannot_starve_another` |
| `"blocked"`: `Traffic`, `Wait`, `Drain` | `backpressured_sink_blocks_only_itself` |
| `"chaos"`: `Traffic`, `Settle`, `Drain` | `sink_ready_toggling_preserves_traffic` |
| `"reset"`, `"recovered"`: `Busy`, `Halting`, `ResetCycle`, `Release`, then as traffic | `reset_mid_traffic_clears_the_fabric` |

`check_conservation`, `check_flow_order` and `check_packets_not_interleaved`
are the functions of those names; `Select` is a list comprehension with a
condition (module `Subsequences`). `Contract` does not mention them: it is what
a crossbar owes, in terms of the wires. `taken`, `delivered`, `waiting`, `broken`
and `outranked` are an observer's, who looks at the rising edges, where
transfers happen; `disturbed` notes what came between the wires and the record:
a beat taken while `s_ready` could not be read (`"unread"`), `m_ready` moved in
the middle of a cycle (`"midcycle"`), a beat taken at the very edge at which
`drain` returns (`"raced"`), something delivered before the monitors ran
(`"slipped"`).

`SentIsTaken` and `SeenIsDelivered` do not leave such tests out: they bound what
the record may lack, and allow nothing in it that did not happen. `AccusedIffBroken`
exempts tests with a cycle that could not be read or in which `m_ready` moved;
`VerdictIsContract` exempts all four, and the starvation test, whose checks
look at the victim only.

## 4. Runs

| Run | Configuration | Shows |
| --- | --- | --- |
| `engine` | 3 stages, 2 slots, 1 lane of 2 values, 3 operand sets, 6 sets between resets | `TypeOK`, `InOrderExactlyOnce`, `LatencyIsForwardProgress`, `ResultHeldUntilAccepted`, `ImplementsFifo`; `EverySetAnswered`, `EveryOfferTaken` under fairness |
| `group_table` | 3 entries, 4 addresses, 8 indices, 2 masks | `TypeOK`, `ReadsLastWrite`, `EntriesIndependent`, `ImplementsMap` |
| `collectives` | 3 endpoints, up to 3 members, lanes of 3 values | `TypeOK`, `PartialSumIsEngineSum`, `OutputsAsPromised` |
| `loop` | both modes, objective depth, 3 attempts, 3 edits, 4 designs, 2 verify points | `TypeOK`, `BestIsLeastMeasured`, `HeadlinesAreTrue`, `TipIsBest`, `VerifiedIsTip`, `TreeCleanAtEnd`, `RepliesAreKept`, `RestoredUnlessAbsent`, `OnlyOwnBranchGrows`, `StepsRunDown`, `ImplementsRun`; `Terminates` under fairness |
| `eval` | 4 designs, 2 points, 4 summaries, 1 orphan at a time | `TypeOK`, `SimulatesTheDesign`, `UsableIsGood`, `GoodIsUsable`, `ImplementsEvaluation`; `CallsEnd` under fairness |
| `xbar` | 2 sources, 2 sinks, 5 scripts, 3 beats delivered | `TypeOK`, `SentIsTaken`, `SeenIsDelivered`, `AccusedIffBroken`, `VerdictIsContract`; `AlwaysJudged` under fairness |
| `loop_feedback`, `loop_branch`, `loop_ceiling`, `loop_lost_edit` | as above | one violated claim each, section 6 |
| `eval_timeout`, `xbar_greedy` | as above | one violated claim each, section 6 |

**Bounds.** `MaxSets` bounds what the client presents between two resets: six
sets are two pipelines' worth, so the pipeline fills, drains and refills with
every pattern of bubbles; a reset starts the count afresh. Three operand sets
suffice: two with different results and one with an equal result and another
identifier make any swap visible. In the table, three entries under four
addresses under eight indices give each kind of index: an entry, one that
narrows onto an entry, one that narrows onto the unused address. In the
collectives, three buffers of lanes of three values can wrap twice, and tuples
of up to three members include repetitions, a missing root and too few. In the
loop, `Attempts` is a parameter of the program, and three are enough for a best
design to be found, lost and found again; `MaxWrites` bounds `write_rtl` calls
over the run, three being one for each attempt or all in one. With these,
`stepsLeft` starts at 31, and no run is longer. The designs are
one of each kind evaluation tells apart: works, works and is cheaper, fails at a
verify point although it is cheapest of all, does not work; and a reply that is
no module. In the evaluation, the designs are one for each way to pass or not
(all, at one point only, with skipped tests or none at all, no build), and one
orphan at a time (`MaxOrphans`) may strike in every stage of a later call; the
proofs are for any number. In the crossbar harness, `Queue` gives a packet of
two beats and one of one for the same sink, so that they can be reordered, cut
into, lost, duplicated, altered (`forced`), sent astray and made up in the name of no
source (`stray`); `MaxSeen` bounds
what a crossbar delivers in a test: three are all the beats of a test, and a
duplicate then takes the place of another. `Offers` keeps what is put on each
sink to what that script's checks can tell apart, and `Stale` does so for the two
edges of `Release`: the reset test, where something may be left over, and one
other (chaos, whose record lacks the most). `Unreadable` gives the reset test an
`s_ready` that cannot be read, at most once in each of its halves. The cycle counts (40, 80, 3,
4 in the code) are constants of one or two: no check counts them, and what
matters is whether something falls in the first, a middle or the last of them.
The greedy source has as many beats as its queue instead of any number.

**Deadlock** is checked for the hardware, which never stops, and not for
`Collectives`, `AgentLoop` and `XbarHarness`, where a call returns, a run ends
and a verdict is given. An `EvalNode` takes call after call.

**Fairness.** The engine's is what its surroundings give: the clock runs (weak
fairness of the edges), reset is released, and the consumer is ready again and
again: the fair action is an edge after which `res_ready` is high. Nothing is
assumed of the client; that is the point of `EverySetAnswered`, which must not
need another set to push the last one out. A consumer may be slow for ever so
long, not for ever. For the loop it is weak fairness of the whole next-state
relation: the program is sequential, it runs, and every call it waits for
returns. `nodes.py` arranges that for the evaluation with its ceilings. Nothing
does for the model's call, and `MaxWrites` stands for the end of its tool
iterations (`max_tool_iterations=12`): `Terminates` says that no path is free
of charge once calls return, and does not say that they do. `EvalNode` assumes
nothing of the commands, which may hang, and weak fairness of their ceilings:
`subprocess.run(timeout=...)`. `XbarHarness` assumes that the clock runs, and
that a test whose sources are never relieved meets its timeout
(`timeout_time` of `cocotb.test`, or the 1500 cycles of the starvation test).
The timeout may strike elsewhere too; there it is not relied on, since every
other stage counts its cycles.

**Mutants.** Every property of a passing run has a plausible bug that breaks it
under the same configuration (`PROJECT.json`, "mutants"): operators such as
`Shift_SkipsBubbles` or `UpdateBest_ScoreOnly`, defined before the definition
they vary and marked "Mutated" or "Mutant".

## 5. Proofs

Checked by `tlapm`; nothing is taken on trust except the named assumptions on
the constants (`LaneAssumption`, `EngineAssumption`, `TableAssumption`,
`CollectivesAssumption`, `LoopAssumption`, `StubAssumption`, `EvalAssumption`,
`XbarAssumption`), which TLC
evaluates in every run.

* **`LaneArithmetic_proofs`.** The accumulator is a recursive function, and the
  library states induction over an operator, which the provers here cannot
  instantiate. `NatSetInduction` (module `SubsequenceLemmas`) states it over a set
  and derives it from a fact about finite sets (an injection of a finite set
  into itself is onto). With it:
  the loop has exactly one run, stays within a lane (`SumIsBeat`), and setting
  one more mask bit adds that slot wherever the loop meets it (`AddMember`),
  because two additions modulo M commute. `SingleBitPassesThrough` follows.
* **`ReductionEngine_proofs`.** In-order delivery is not inductive. The
  strengthening says where the pending sets are: a set of age *a* is in stage
  *a - 1* with its own data and identifier (`PendingInPipeline`), nothing else
  is in the pipeline (`PipelineIsPending`), and older sets are further along
  (`OlderIsFurther`). Latency, holding under backpressure and the refinement of
  `ReductionFifo` are read off it: at most one pending set per stage bounds the
  queue by `RED_LATENCY`.
* **`GroupTable_proofs`.** `NoAliasing`: within range, narrowing is the
  identity. The invariant adds to `ReadsLastWrite` that during reset nothing
  counts as written and, once reset has taken effect, no valid bit is set. The
  refinement of `GroupMap` goes action by action.
* **`Collectives_proofs`.** `Control` records what has been decided when the
  loop runs; members being distinct, each iteration is an instance of
  `AddMember`, so the reference's partial sum is the engine's whatever the
  member order (`ReferenceIsEngine`), and the outputs follow (`PromiseKept`).
* **`AgentLoop_proofs`.** The invariant has ten parts. `BranchInv`: the run's
  branch starts at the original tip. `JudgeInv`: what has been evaluated so far
  of the file. `AcceptedInv`: no accepted design beats `best`. `BestCommitInv`:
  as long as no ceiling was hit, `best_commit` holds a usable design that scores
  `best`. This needs `TipMeasured` (a complete design on the tip was measured
  already), for when an attempt changed nothing and `commit` returns no commit:
  then the tip cannot be an improvement, so `sha or best_commit` is never wrong.
  `CleanInv` is about the working tree on the way out, where nothing is dirty
  from the `finally` clause on, unless that clause or the restore fails itself
  (`WayOutFails`): then the edit may be left, and a failed checkout may have
  replaced the file.
  `StubAssumption` (a skeleton does not pass the tests) is used there: the stub
  is committed but its score is not taken.

  `VerifiedIsTip` has an invariant of its own, `VInv`, on top of that one: in
  implement mode there is no best before the attempt that stops the run, so
  what it verified was not on the tip (`TipMeasured` again), is committed by it
  and is what `best_commit` names (`StopKeeps`).

  `UInv` goes on from there for what a user sees. `RepliesKept`: an edit that
  came with a reply is in the file, judged and not yet committed, or in a
  commit (`ReplyInv`); a write can only overwrite it once it is in one, and so
  can the restore.
  `RestoredOrAbsent`: `git checkout <best> -- <rtl>` fails only where the commit
  lacks the file; nothing takes the file away once it is there (`AbsentInv`),
  and `best_commit` is the original tip or holds a design that works, ceilings
  or not (`ChosenInv`).
  `RunImplementsDesignRun` goes action by action. The part that took a new
  invariant (`ChosenInv`) is that what is left works at *every* point, or is
  what the run started from, whatever ceilings were hit: after a ceiling it may
  be the wrong design (section 6, 3), never a bad one.

  `RunsDown` (`StepsRunDown`) is the safety half of `Terminates`: every step
  takes at least one from a natural number. With it termination rests on the
  fairness alone, for any number of attempts, verify points and edits.
* **`EvalNode_proofs`.** The invariant says what may be in the build directory:
  a binary of make's own is of the design unless the file is newer, and within
  a call in which clean worked and no orphan wrote it is absent or of design and
  point. The verdict follows by what `TestResult` and the two synthesis commands
  answer. `CallsAreEvaluations` is the refinement: commands are stutters until
  the one that ends the call, and a step in which the directory ceases to be
  the call's own is `Disturb`. Stating it showed that `AgentLoop` had left
  something out: a design that fails only synthesis is answered a failure of the
  tests when make's ceiling is hit. Both modules now share `CutShort`.
* **`XbarHarness_proofs`.** The invariant adds to the properties that a source
  which holds a beat is within its queue (`Placed`); that the beat it offers is
  what is on the bus, and otherwise nothing is (`OnBus`: here a `valid` left high
  would show); that its record is its queue up to where it is (`InOrder`); that
  the one beat a halted source may leave out is followed by no other
  (`Recorded`); and for the monitors, that the edges before they run deliver one
  beat each (`Unwatched`) and `m_ready` moves under them once (`SettlesOnce`).
  What lacks at most *n* beats of what happened (`AllBut`) still does when both
  or only the latter are appended to. The monitors' half is one lemma about a
  cycle (`ClockSinks`).

  `VerdictHolds` says that the tests pass the crossbars that keep the contract
  and no others. One half is about the checks alone (`ChecksAreContract`): for
  any record, the dictionary of markers, the counts and the comparison of
  filtered lists are the contract, because markers are unique and a source's
  beats distinct. The other is `JInv`: what a source has sent is the beginning
  of its queue (`InOrder`), and when the script comes to the checks every source
  is through with its traffic (`Through`, `Finished`), so that the record the checks see is the one on the
  wires unless `disturbed` says otherwise. `XbarAssumption` states what
  `make_packets` and the tests give: unique markers, each queue of its own
  source, the two halves of the reset test disjoint. The proof failed at first
  for a crossbar that makes up a beat in the name of no source: the checks
  reject it, and the contract had not forbidden it. It does now.
* **`SubsequenceLemmas`.** `SelectSeq` is opaque to the provers. A comprehension
  is written as the recursive function that collects it; it exists
  (`CollectionExists`, by `NatSetInduction`), lists the wanted positions in
  order (`SubsequenceEnumerated`), and so holds exactly the wanted elements, each
  once if they are distinct (`SubsequenceElements`, `SubsequenceDistinct`), as
  many as there are (`DistinctLength`).

Only model-checked: liveness (`EverySetAnswered`, `EveryOfferTaken`,
`Terminates`, `CallsEnd`, `AlwaysJudged`), which the provers do not reach.

## 6. Where code and text disagree

Each is the counterexample of one run.

1. **No attempt is ever told that it improved** (`loop_feedback`). `best` is
   updated before `format_feedback` compares the score with it
   (`loop.py:356-365`, `:185`).
2. **The original branch is not always restored** (`loop_branch`). The checkout
   at `loop.py:407` is reached only when nothing raised. A run that finds no
   design for a target whose file does not exist at the base commit (`req_xbar`
   today) fails at `loop.py:378`; the head of the file promises otherwise
   (`loop.py:19-20`).
3. **The tip is not always the best design** (`loop_ceiling`). If a design was
   first rejected because a ceiling was hit and is then accepted unchanged,
   `sha or best_commit` (`loop.py:357`) leaves `best_commit` where it was.
   `TipIsBest` shows, and `BestIsKept` proves, that ceilings are the only cause
   as long as each evaluation has the build directory to itself (a failed clean
   or an orphan can also turn a design down that is accepted later).
4. **An edit can be lost** (`loop_lost_edit`). Only the edit left at the very
   end is committed by the `finally` clause; one left by a prompt that raised is
   overwritten by the next prompt (`loop.py:292`, against `:369-370`).

5. **A ceiling of make is an exception** (`eval_timeout`). The output of
   `subprocess.TimeoutExpired` is always bytes, so joining it to a string
   (`nodes.py:126`) raises as soon as anything was printed, and the run ends
   instead of the attempt (against `nodes.py:27-30`).
6. **The starvation test passes fixed priorities** (`xbar_greedy`). The source
   that is to offer continuously is withdrawn for a cycle after each beat
   (`tb_req_xbar.py:464`, `:186`, `:215`; against `:442-444`, `:478-479`), in
   which a crossbar that always prefers it serves the victim.

Noted and not claimed by a run: when chaos stops it opens the sinks at the
falling edge (`tb_req_xbar.py:574`, `:590`), which its own comment (`:567-569`)
warns against, and a beat taken in that cycle is in no record
(`SeenIsDelivered` allows for that one); what a crossbar delivers on the two
edges between the release of reset and the first monitored cycle is in no record
either; the sources of the reset test may leave
a taken beat out of `sent` (`:206`), which is harmless because that record is
never checked; the assertion `not h.seen[blocked]` (`:522`) cannot fail, since
`sinks` records nothing at a closed sink; the starvation test does not look at
`blind_cycles`; a build that timed out or crashed before its first test is
reported to the agent as "DID NOT COMPILE" (`nodes.py:53-57`), and after a clean
that failed a binary of another parameter point may be simulated in spite of
`nodes.py:106-108`; `docs/modules.md` 3.1 says a result appears
exactly `RED_LATENCY` cycles after acceptance, which holds of cycles of forward
progress (the comment in the RTL says so); `op_ready` is high during reset;
`architecture.md` 7.3 wants the latency to scale with the group, the engine's
does not; `tasks/req_xbar.md:16` forbids the direction of combinational
dependence that `modules.md` 2.3 allows.

## 7. Not modelled

* The documented modules without RTL, and the packed types of their channels.
* In `EvalNode`: the cell count and depth (numbers to `AgentLoop`), the text of
  logs, a command that cannot be started, the files a simulation leaves beside
  the binary.
* In `XbarHarness`: `quiet_after_reset`, in which no coroutine of the harness
  runs; the packing of fields, a beat being a record of what the checks compare.
* In the loop: logs, `history`, `summary.json` and what is printed, since
  nothing reads them back; a write by the tool that outlives its prompt; other files
  of the working tree, which the loop's git calls leave alone.
* In the hardware: unknown (X) values after reset. At power-up the registers
  are arbitrary but defined.
* The smoke tests, Makefiles, Docker and cluster files.
