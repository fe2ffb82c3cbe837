---------------------------- MODULE XbarHarness -----------------------------
(***************************************************************************)
(* verif/req_xbar/tb_req_xbar.py: the coroutines that drive the sources    *)
(* and watch the sinks of a request crossbar, the scripts of its tests,    *)
(* and the checks at their end.                                            *)
(*                                                                         *)
(* The crossbar has no RTL yet.  Here it may do anything at all: each      *)
(* cycle it is ready for any sources and offers any of a set of beats at   *)
(* each sink.  What the harness makes of that is the subject.              *)
(*                                                                         *)
(* A step is one clock cycle, from just after a rising edge, when sources  *)
(* and readiness have been driven, to just after the next.  In its middle, *)
(* at the falling edge, the coroutines sample the wires; at its end what   *)
(* is valid and ready is transferred and the coroutines go on.             *)
(*                                                                         *)
(* taken, delivered, waiting, broken, outranked and disturbed are an       *)
(* observer's, who looks at the wires at the rising edges themselves.      *)
(***************************************************************************)
EXTENDS Integers, Sequences, FiniteSets, Subsequences

CONSTANTS Sources, Sinks,
          Tests,        \* the tests that may be run
          Paused,       \* those of them whose sources leave random gaps
          Unreadable,   \* bound: those in which s_ready may be unreadable
          Queue,        \* the beats of each source in each test
          Words,        \* the beats there are, altered ones among them
          Offers,       \* bound: what a crossbar puts on each sink in each test
          Stale,        \* bound: the same, of the edges before anyone watches
          None,
          Blocked,      \* the sink whose m_ready is held low
          Greedy, Victim,   \* the sources of the starvation test
          WaitCycles, BusyCycles, HaltCycles, ResetCycles, DrainCycles,
          MaxSeen       \* bound: beats a crossbar delivers in a test

\* A test that resets goes on as another: its second harness starts afresh.
TestNames == {"traffic", "chaos", "blocked", "greedy", "reset", "recovered"}

Everything(log) == UNION {Elements(log[x]) : x \in DOMAIN log}

ASSUME XbarAssumption ==
    /\ Tests \subseteq TestNames \ {"recovered"}
    /\ Paused \subseteq TestNames /\ Unreadable \subseteq TestNames
    /\ None \notin Words
    /\ IsFiniteSet(Sources)
    /\ Queue \in [TestNames -> [Sources -> Seq(Words)]]
    /\ \A t \in TestNames, s \in Sources : \A b \in Elements(Queue[t][s]) :
          b.src = s /\ b.dst \in Sinks
    \* "Marker values are globally unique" (110).
    /\ \A t \in TestNames, s \in Sources : \A i \in 1 .. Len(Queue[t][s]) :
          \A r \in Sources : \A j \in 1 .. Len(Queue[t][r]) :
             Queue[t][s][i].marker = Queue[t][r][j].marker => s = r /\ i = j
    /\ Everything(Queue["recovered"]) \intersect Everything(Queue["reset"]) = {}
    /\ Offers \in [TestNames -> [Sinks -> SUBSET Words]]
    /\ Stale \in [TestNames -> [Sinks -> SUBSET Words]]
    /\ Blocked \in Sinks
    /\ Greedy \in Sources /\ Victim \in Sources /\ Greedy # Victim
    /\ WaitCycles \in Nat /\ ResetCycles \in Nat /\ DrainCycles \in Nat
    /\ BusyCycles \in Nat \ {0} /\ HaltCycles \in Nat \ {0}
    /\ MaxSeen \in Nat

VARIABLES
    test, stage,    \* the test, where its script is,
    left,           \* and for how many cycles more it stays there
    verdict,
    phase, pos,     \* each source: what it does, and with which beat
    bus,            \* each source: the word it drives as valid, if any
    sent, seen,     \* the harness's record
    held, protocol_errors, offered_while_blocked, blind_cycles,
    taken, delivered,   \* observer: the transfers
    waiting,        \* observer: offered at a sink and not taken
    broken,         \* observer: such an offer was changed or withdrawn
    outranked,      \* observer: the victim was never served before the greedy
    disturbed       \* observer: what came between the wires and the record

main     == <<test, stage, left, verdict>>
sources  == <<phase, pos, bus, sent>>
monitors == <<seen, held, protocol_errors, offered_while_blocked, blind_cycles>>
observer == <<taken, delivered, waiting, broken, outranked, disturbed>>
vars     == <<main, sources, monitors, observer>>

Stages == {"traffic", "settle", "wait", "drain", "busy", "halting",
           "reset", "release"}
Phases == {"align", "gap", "offer", "done"}

NoBeats     == [s \in Sources |-> <<>>]
NothingSent == [s \in Sources |-> None]
NothingSeen == [d \in Sinks |-> <<>>]
Quiet       == [d \in Sinks |-> None]
-----------------------------------------------------------------------------
\* Sources.

queue(s) == Queue[test][s]

Offering(s) == phase[s] = "offer"

\* The reset test halts its sources at the fall of the last busy cycle.
halt == stage = "halting" \/ (stage = "busy" /\ left = 0)

\* The beat on offer is taken as far as the source can tell from s_ready, as
\* it was sampled.  One taken in the very cycle of a halt is not recorded.
Accepted(s, s_ready) == Offering(s) /\ s \in s_ready /\ ~halt

\* The beat at p is presented at once or after a gap, or the call returns.
Present(s, p, pausing) ==
    IF p > Len(queue(s)) \/ halt THEN "done"
    ELSE IF s \in pausing THEN "gap" ELSE "offer"

\* greedy_forever makes a call of source() for each of its beats, as many as
\* its queue has (a bound), and every call begins by waiting for an edge.
CalledAnew(s) == test = "greedy" /\ s = Greedy

\* After the rising edge.
NextPos(s, s_ready) == IF Accepted(s, s_ready) THEN pos[s] + 1 ELSE pos[s]

Resume(s, s_ready, pausing) ==
    IF Accepted(s, s_ready) /\ CalledAnew(s) THEN "align"
    ELSE IF phase[s] = "align" \/ Accepted(s, s_ready)
    THEN Present(s, NextPos(s, s_ready), pausing)
    ELSE IF Offering(s) /\ halt THEN "done"
    ELSE IF phase[s] = "gap" /\ s \notin pausing THEN "offer"
    ELSE phase[s]

\* Mutant: the beat that was taken stays on the bus until the next is ready.
drive_UntilNextBeat ==
    bus' = [s \in Sources |-> IF phase'[s] = "offer" THEN queue(s)[pos'[s]]
                              ELSE IF phase'[s] = "done" THEN None
                              ELSE bus[s]]

\* valid is dropped the instant a beat is taken, and when the call returns.
drive ==
    bus' = [s \in Sources |-> IF phase'[s] = "offer" THEN queue(s)[pos'[s]]
                              ELSE IF pos'[s] # pos[s] \/ phase'[s] = "done" THEN None
                              ELSE bus[s]]

source(s_ready) ==
    /\ \E pausing \in SUBSET (IF test \in Paused THEN Sources ELSE {}) :
          phase' = [s \in Sources |-> Resume(s, s_ready, pausing)]
    /\ pos'  = [s \in Sources |-> NextPos(s, s_ready)]
    /\ sent' = [s \in Sources |-> IF Accepted(s, s_ready)
                                  THEN Append(sent[s], queue(s)[pos[s]])
                                  ELSE sent[s]]
    /\ drive
-----------------------------------------------------------------------------
\* Sinks.

\* m_ready as it may be driven at the start of a cycle.
Driven ==
    CASE test = "chaos" /\ stage \in {"traffic", "settle"} -> SUBSET Sinks
      [] test = "blocked" /\ stage \in {"traffic", "wait"} -> {Sinks \ {Blocked}}
      [] OTHER                                             -> {Sinks}

\* m_ready at the rising edge.  When chaos stops it opens all sinks at the
\* falling edge, in the middle of a cycle.
AtEdge(m_ready) == IF stage = "settle" THEN Sinks ELSE m_ready

Outputs(words) == {out \in [Sinks -> Words \union {None}] :
                      \A d \in Sinks : out[d] \in words[d] \union {None}}

\* What is transferred, and what stays on offer, given some readiness.
Record(log, out, m_ready) ==
    [d \in Sinks |-> IF out[d] # None /\ d \in m_ready
                     THEN Append(log[d], out[d]) ELSE log[d]]
Untaken(out, m_ready) == [d \in Sinks |-> IF d \in m_ready THEN None ELSE out[d]]

\* Mutant: what is valid counts as transferred.
sinks_ValidOnly(out, m_ready) == seen' = Record(seen, out, Sinks)

sinks(out, m_ready) == seen' = Record(seen, out, m_ready)

\* Mutant: a beat that was taken is not forgotten.
protocol_HeldForGood(out, m_ready) ==
    LET offered   == {d \in Sinks : out[d] # None}
        corrected == [d \in Sinks |-> IF held[d] # None THEN out[d] ELSE None]
    IN  /\ protocol_errors' =
              (protocol_errors \/ \E d \in Sinks : held[d] # None /\ out[d] # held[d])
        /\ offered_while_blocked' = (offered_while_blocked \/ offered \ m_ready # {})
        /\ held' = [d \in Sinks |->
                       IF d \in offered \ m_ready /\ corrected[d] = None THEN out[d]
                       ELSE corrected[d]]

\* What held has of a sink is compared, and deleted or replaced if it differs;
\* then a beat that waits is put there unless there is one, and one that is
\* taken is removed.
protocol(out, m_ready) ==
    LET offered   == {d \in Sinks : out[d] # None}
        corrected == [d \in Sinks |-> IF held[d] # None THEN out[d] ELSE None]
    IN  /\ protocol_errors' =
              (protocol_errors \/ \E d \in Sinks : held[d] # None /\ out[d] # held[d])
        /\ offered_while_blocked' = (offered_while_blocked \/ offered \ m_ready # {})
        /\ held' = [d \in Sinks |->
                       IF d \in offered \ m_ready /\ corrected[d] = None THEN out[d]
                       ELSE IF d \in offered \intersect m_ready THEN None
                       ELSE corrected[d]]

\* A cycle in which the sink bus cannot be read is counted and left out.
Watch(out, m_ready) ==
    \/ /\ sinks(out, m_ready) /\ protocol(out, m_ready)
       /\ UNCHANGED blind_cycles
    \/ /\ blind_cycles' = TRUE
       /\ UNCHANGED <<seen, held, protocol_errors, offered_while_blocked>>

\* What happens on the wires at the rising edge.
Observe(s_ready, out, m_ready) ==
    /\ taken' = [s \in Sources |->
                    IF s \in s_ready THEN Append(taken[s], bus[s]) ELSE taken[s]]
    /\ delivered' = Record(delivered, out, m_ready)
    /\ waiting' = Untaken(out, m_ready)
    /\ broken' = (broken \/ \E d \in Sinks : waiting[d] # None /\ out[d] # waiting[d])
    /\ outranked' = (outranked /\ ~(/\ test = "greedy"
                                    /\ bus[Greedy] # None
                                    /\ Victim \in s_ready))

WithinMaxSeen ==
    Cardinality({x \in Sinks \X (1 .. MaxSeen + 1) :
                    x[2] <= Len(delivered'[x[1]])}) <= MaxSeen

\* A cycle that all coroutines live through.  It makes no difference whether
\* the crossbar is ready for a source that offers nothing.  s_ready cannot be
\* read at all if one of its bits is undefined, and counts as not ready: that
\* a beat is taken unseen so happens once in a test, if at all (a bound).
Clock ==
    /\ verdict = "none"
    /\ \E s_ready \in SUBSET {s \in Sources : bus[s] # None},
          m_ready \in Driven, out \in Outputs(Offers[test]) :
       \E sampled \in {s_ready, {}} :
          /\ sampled # s_ready => test \in Unreadable /\ "unread" \notin disturbed
          /\ Observe(s_ready, out, AtEdge(m_ready))
          /\ WithinMaxSeen
          /\ Watch(out, m_ready)
          /\ source(sampled)
          /\ disturbed' = disturbed
               \union {x \in {"unread"} : sampled # s_ready}
               \union {x \in {"midcycle"} : m_ready # AtEdge(m_ready)}
               \union {x \in {"raced"} : stage = "drain" /\ left = 0 /\ taken' # taken}
-----------------------------------------------------------------------------
\* The checks, of a record snt of what was sent and sn of what was seen.

\* Mutant: only routing is compared on arrival.
check_conservation_Routing(snt, sn) ==
    /\ \A d, e \in Sinks : \A i \in 1 .. Len(sn[d]), j \in 1 .. Len(sn[e]) :
          sn[d][i].marker = sn[e][j].marker => d = e /\ i = j
    /\ \A b \in Everything(snt) : \E g \in Everything(sn) : g.marker = b.marker
    /\ \A d \in Sinks : \A g \in Elements(sn[d]) :
          \E b \in Everything(snt) : b.marker = g.marker /\ b.dst = d

check_conservation(snt, sn) ==
    /\ \A d, e \in Sinks : \A i \in 1 .. Len(sn[d]), j \in 1 .. Len(sn[e]) :
          sn[d][i].marker = sn[e][j].marker => d = e /\ i = j
    /\ \A b \in Everything(snt) : \E g \in Everything(sn) : g.marker = b.marker
    /\ \A d \in Sinks : \A g \in Elements(sn[d]) :
          \E b \in Everything(snt) : b.marker = g.marker /\ b.dst = d /\ b = g

check_flow_order(snt, sn) ==
    \A d \in Sinks, s \in Sources :
       LET SentBy(g)  == \E b \in Elements(snt[s]) : b.marker = g.marker
           To(b)      == b.dst = d
           markers(q) == [i \in 1 .. Len(q) |-> q[i].marker]
           got        == markers(Select(sn[d], SentBy))
       IN  got # <<>> => got = markers(Select(snt[s], To))

check_packets_not_interleaved(sn) ==
    \A d \in Sinks : \A i \in 2 .. Len(sn[d]) :
       sn[d][i - 1].last \/ sn[d][i].src = sn[d][i - 1].src

check_all(snt, sn) ==
    /\ ~blind_cycles' /\ ~protocol_errors'
    /\ check_conservation(snt, sn)
    /\ check_flow_order(snt, sn)
    /\ check_packets_not_interleaved(sn)

\* As many beats were seen at d as the sources have for it.
ArrivedInFull(sn, d) ==
    Len(sn[d]) = Cardinality({b \in Everything(Queue[test]) : b.dst = d})

\* The starvation test counts the victim's beats.
VictimServed(sn) ==
    LET FromVictim(g) == g.src = Victim
    IN  \A b \in Elements(queue(Victim)) :
           Len(Select(sn[b.dst], FromVictim)) = Len(queue(Victim))

\* The checks at the end of a test, and its own assertions.
Passes(snt, sn) ==
    IF test = "greedy" THEN VictimServed(sn) /\ ~protocol_errors' ELSE
    /\ test = "blocked" => ArrivedInFull(sn, Blocked)
    /\ check_all(snt, sn)
    /\ test = "recovered" =>
          /\ \A s \in Sources : \A b \in Elements(queue(s)) : ArrivedInFull(sn, b.dst)
          /\ Everything(sn) \intersect Everything(Queue["reset"]) = {}
-----------------------------------------------------------------------------
\* The scripts.

Goto(next, cycles) ==
    stage' = next /\ left' = cycles /\ UNCHANGED <<test, verdict>>

\* Mutant: a cycle is counted twice.
Stay_CountsTwice(cycles) ==
    stage' = stage /\ left' = cycles - 1 /\ UNCHANGED <<test, verdict>>

Stay(cycles) == stage' = stage /\ left' = cycles /\ UNCHANGED <<test, verdict>>

Ends(outcome) == verdict' = outcome /\ UNCHANGED <<test, stage, left>>

\* Started just after a rising edge, or, where the script waited for it
\* first, about to be.
Start(s) ==
    IF test = "blocked" \/ (test = "greedy" /\ s # Greedy) THEN {"align"}
    ELSE IF queue(s) = <<>> THEN {"done"}
    ELSE {"offer"} \union {x \in {"gap"} : test \in Paused}

\* rst_n is about to be released, and start() to end.
Init ==
    /\ test \in Tests
    /\ stage = "release" /\ left = 1
    /\ verdict = "none"
    /\ phase = [s \in Sources |-> "done"] /\ bus = NothingSent
    /\ pos = [s \in Sources |-> 1]
    /\ sent = NoBeats /\ taken = NoBeats
    /\ seen = NothingSeen /\ delivered = NothingSeen
    /\ held = Quiet /\ waiting = Quiet
    /\ protocol_errors = FALSE /\ offered_while_blocked = FALSE
    /\ blind_cycles = FALSE
    /\ broken = FALSE /\ outranked = TRUE /\ disturbed = {}

\* Harness.__init__ over again.
Harness ==
    /\ sent' = NoBeats /\ taken' = NoBeats
    /\ seen' = NothingSeen /\ delivered' = NothingSeen
    /\ held' = Quiet /\ waiting' = Quiet
    /\ protocol_errors' = FALSE /\ offered_while_blocked' = FALSE
    /\ blind_cycles' = FALSE
    /\ broken' = FALSE /\ outranked' = TRUE /\ disturbed' = {}

\* The source of the blocked sink's beats is not waited for, nor the greedy.
Awaited == {s \in Sources :
              /\ test = "blocked" => \A b \in Elements(queue(s)) : b.dst # Blocked
              /\ test = "greedy" => s = Victim}

Traffic ==
    /\ stage = "traffic"
    /\ Clock
    /\ IF \E s \in Awaited : phase'[s] # "done" THEN Stay(left)
       ELSE \/ test = "chaos" /\ Goto("settle", 0)
            \/ test = "blocked" /\ Goto("wait", WaitCycles)
            \/ test \notin {"chaos", "blocked"} /\ Goto("drain", DrainCycles)

\* The cycle in which chaos notices that it has been stopped.
Settle == stage = "settle" /\ Clock /\ Goto("drain", DrainCycles)

\* The assertions before the release fall on the edge at which the monitors
\* sample: they see the last cycle or do not.
Wait ==
    /\ stage = "wait"
    /\ Clock
    /\ IF left > 0 THEN Stay(left - 1)
       ELSE \E last \in {<<seen, offered_while_blocked>>,
                         <<seen, offered_while_blocked>>'} :
              IF /\ last[1][Blocked] = <<>>
                 /\ last[2]
                 /\ \A s \in Awaited : \A b \in Elements(queue(s)) :
                       ArrivedInFull(last[1], b.dst)
              THEN Goto("drain", DrainCycles)
              ELSE Ends("stopped")

\* Whether the checks see what a source records at the last edge depends on
\* which of the two resumes first.
Drain ==
    /\ stage = "drain"
    /\ Clock
    /\ IF left > 0 THEN Stay(left - 1)
       ELSE \E late \in SUBSET Sources :
              LET snt == [s \in Sources |-> IF s \in late THEN sent[s] ELSE sent'[s]]
              IN  Ends(IF Passes(snt, seen') THEN "pass" ELSE "fail")

Busy ==
    /\ stage = "busy"
    /\ Clock
    /\ IF left > 0 THEN Stay(left - 1) ELSE Goto("halting", HaltCycles - 1)

\* The monitors stop and their record is never read.  A second harness is
\* made after the reset.
Halting ==
    /\ stage = "halting"
    /\ IF left > 0 THEN Clock /\ Stay(left - 1)
       ELSE /\ verdict = "none"
            /\ test' = "recovered"
            /\ stage' = "reset" /\ left' = ResetCycles
            /\ phase' = [s \in Sources |-> "done"] /\ bus' = NothingSent
            /\ pos' = [s \in Sources |-> 1]
            /\ Harness
            /\ UNCHANGED verdict

\* rst_n is low.  All cycles but the first are looked at.
ResetCycle ==
    /\ stage = "reset" /\ verdict = "none"
    /\ \/ IF left > 0 THEN Stay(left - 1) ELSE Goto("release", 1)
       \/ left < ResetCycles /\ Ends("stopped")
    /\ UNCHANGED <<sources, monitors, observer>>

\* The two edges from the release of rst_n to the start of the coroutines, at
\* the beginning of every test and after the reset of the one that resets.
\* No monitor runs, and every sink is ready.
Release ==
    /\ stage = "release" /\ verdict = "none"
    /\ \E out \in Outputs(Stale[test]) :
          /\ delivered' = Record(delivered, out, Sinks)
          /\ disturbed' = disturbed \union {x \in {"slipped"} : out # Quiet}
    /\ WithinMaxSeen
    /\ UNCHANGED <<pos, sent, monitors, taken, waiting, broken, outranked>>
    /\ IF left > 0 THEN Stay(left - 1) /\ UNCHANGED <<phase, bus>>
       ELSE /\ IF test = "reset" THEN Goto("busy", BusyCycles - 1) ELSE Goto("traffic", 0)
            /\ phase' \in [Sources -> Phases]
            /\ \A s \in Sources : phase'[s] \in Start(s)
            /\ drive

\* Mutant: a test without a timeout.
GivesUp_Never == FALSE /\ UNCHANGED vars

\* The timeout of the test, wherever its script is, or the end of the cycles
\* the victim is given.
GivesUp ==
    /\ verdict = "none"
    /\ Ends("stopped")
    /\ UNCHANGED <<sources, monitors, observer>>

Script == Traffic \/ Settle \/ Wait \/ Drain \/ Busy \/ Halting
              \/ ResetCycle \/ Release

Next == Script \/ GivesUp

Spec == Init /\ [][Next]_vars

\* Of the timeouts only the one of a test that waits for its sources is
\* relied on: the rest of a script comes to its end by itself.
LiveSpec == Spec /\ WF_vars(Script) /\ WF_vars(GivesUp /\ stage = "traffic")
-----------------------------------------------------------------------------
\* Properties.

TypeOK ==
    /\ test \in TestNames
    /\ stage \in Stages
    /\ left \in Nat
    /\ verdict \in {"none", "pass", "fail", "stopped"}
    /\ phase \in [Sources -> Phases]
    /\ pos \in [Sources -> Nat]
    /\ bus \in [Sources -> Words \union {None}]
    /\ sent \in [Sources -> Seq(Words)] /\ taken \in [Sources -> Seq(Words)]
    /\ seen \in [Sinks -> Seq(Words)] /\ delivered \in [Sinks -> Seq(Words)]
    /\ held \in [Sinks -> Words \union {None}]
    /\ waiting \in [Sinks -> Words \union {None}]
    /\ protocol_errors \in BOOLEAN /\ broken \in BOOLEAN /\ outranked \in BOOLEAN
    /\ offered_while_blocked \in BOOLEAN /\ blind_cycles \in BOOLEAN
    /\ disturbed \subseteq {"unread", "midcycle", "raced", "slipped"}

Times(n, what) == IF what THEN n ELSE 0

\* The harness's record of what was sent is the beginning of what there was to
\* send, and the crossbar took these beats, in this order, and no others,
\* whatever it does: nothing is left on the bus to be taken again, and nothing
\* is recorded that was not taken.  The exceptions are one beat of a source
\* that was halted, and the one taken while s_ready could not be read.
SentIsTaken ==
    \A s \in Sources :
       /\ Len(sent[s]) <= Len(queue(s))
       /\ \A i \in 1 .. Len(sent[s]) : sent[s][i] = queue(s)[i]
       /\ AllBut(Times(1, stage = "halting") + Times(1, "unread" \in disturbed),
                 taken[s], sent[s])

\* The record of what was seen never has a beat that was not delivered, or out
\* of its place, and it lacks at most two of a sink, of the edges before the
\* monitors run, and one more if m_ready moved under them; unless there were
\* cycles in which the bus could not be read, and the test fails.
SeenIsDelivered ==
    \A d \in Sinks :
       AllBut(IF blind_cycles THEN Len(delivered[d])
              ELSE Times(2, "slipped" \in disturbed) + Times(1, "midcycle" \in disturbed),
              delivered[d], seen[d])

\* The protocol monitor accuses a crossbar that changed or withdrew an offer
\* before it was taken, and no other.
AccusedIffBroken ==
    \/ blind_cycles
    \/ "midcycle" \in disturbed
    \/ protocol_errors = broken /\ held = waiting

\* What a request crossbar owes: at every sink the beats for it that each
\* source was relieved of, unaltered, in that source's order, no packet cut
\* into by another, and nothing else; and every beat for a sink that opens
\* again.
Contract ==
    /\ \A d \in Sinks : \A g \in Elements(delivered[d]) : g.src \in Sources
    /\ \A s \in Sources, d \in Sinks :
          LET From(g) == g.src = s
              To(b)   == b.dst = d
          IN  Select(delivered[d], From) = Select(taken[s], To)
    /\ \A d \in Sinks : \A i, j \in 1 .. Len(delivered[d]) :
          /\ i < j /\ ~delivered[d][i].last
          /\ \A k \in i .. j - 1 : delivered[d][k].src = delivered[d][i].src
                                     => ~delivered[d][k].last
          => delivered[d][j].src = delivered[d][i].src
    /\ test = "blocked" =>
          \A s \in Sources : \A b \in Elements(queue(s)) :
             b.dst = Blocked => b \in Elements(taken[s])

\* A test passes a crossbar that kept the contract before its eyes, and fails
\* every other: check_all, with its dictionaries of markers, is the contract.
\* The starvation test looks at nothing but the victim.
VerdictIsContract ==
    LET kept == Contract /\ ~broken /\ ~blind_cycles
    IN  test # "greedy" /\ disturbed = {} =>
                          /\ verdict = "pass" => kept
                          /\ verdict = "fail" => ~kept

\* "A source offering continuously must not lock another out forever"
\* (442-444): a crossbar that never served the victim while the greedy source
\* had a beat on offer is one that starves it.
StarvationIsCaught == test = "greedy" /\ verdict = "pass" => ~outranked

\* Every test ends, whatever the crossbar does.
AlwaysJudged == <>(verdict # "none")
=============================================================================
