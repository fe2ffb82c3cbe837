---------------------------- MODULE Collectives -----------------------------
(***************************************************************************)
(* verif/reference.py: what the three collectives mean.  One behaviour is  *)
(* one call of expected_outputs, on a collective somebody tried to build   *)
(* and the input buffers of some endpoints; the loop of reduce_lanes takes *)
(* a step for every buffer.                                                *)
(*                                                                         *)
(* The members of a collective are a tuple, and the loop runs in its       *)
(* order.  A buffer is a beat: reduce_lanes works lane by lane whatever    *)
(* the length, and the length the hardware has is that of one beat.        *)
(***************************************************************************)
EXTENDS LaneArithmetic, Sequences, FiniteSets

CONSTANTS MaxMembers,   \* bound: length of a member tuple
          Unchanged     \* None: the output buffer must be bit-unchanged

CollKind == {"BCAST", "REDUCE", "ALLREDUCE"}

ASSUME CollectivesAssumption ==
    /\ MaxMembers \in Nat
    /\ Unchanged \notin Beat

VARIABLES pc,
          kind, members, root,  \* the collective
          in_bufs,              \* the buffers of some of the endpoints
          n, acc,               \* reduce_lanes: buffers added, and their sum
          out                   \* the result, an output for every endpoint

collective == <<kind, members, root>>
vars       == <<pc, collective, in_bufs, n, acc, out>>

Member == {members[i] : i \in 1 .. Len(members)}

Buffers == UNION {[E -> Beat] : E \in SUBSET Slots}
Outputs == UNION {[E -> Beat \union {Unchanged}] : E \in SUBSET Slots}
-----------------------------------------------------------------------------
\* Mutated: the same endpoint may be named twice.
WellFormed_Repeated == root \in Member /\ Len(members) >= 2

\* Collective.__post_init__
WellFormed ==
    /\ root \in Member
    /\ \A i, j \in 1 .. Len(members) : members[i] = members[j] => i = j
    /\ Len(members) >= 2

Missing == Member \ DOMAIN in_bufs

Init ==
    /\ pc = "call"
    /\ kind \in CollKind
    /\ members \in UNION {[1 .. k -> Slots] : k \in 0 .. MaxMembers}
    /\ root \in Slots
    /\ in_bufs \in Buffers
    /\ n = 0
    /\ acc = ZeroBeat
    /\ out = <<>>

\* The collective cannot be built, or a member's buffer is not there.
Reject ==
    /\ pc = "call"
    /\ ~WellFormed \/ Missing # {}
    /\ pc' = "rejected"
    /\ UNCHANGED <<collective, in_bufs, n, acc, out>>

\* Every endpoint untouched, but for those that receive this.
Written(receivers, beat) ==
    [e \in DOMAIN in_bufs |-> IF e \in receivers THEN beat ELSE Unchanged]

\* The root's buffer is copied to every member, root included.
Broadcast ==
    /\ pc = "call"
    /\ WellFormed /\ Missing = {}
    /\ kind = "BCAST"
    /\ out' = Written(Member, in_bufs[root])
    /\ pc' = "returned"
    /\ UNCHANGED <<collective, in_bufs, n, acc>>

Reduce ==
    /\ pc = "call"
    /\ WellFormed /\ Missing = {}
    /\ kind # "BCAST"
    /\ pc' = "reducing"
    /\ UNCHANGED <<collective, in_bufs, n, acc, out>>

\* Mutated: a carry out of a lane is not masked off.
Add_Widening(buf) == [l \in Lanes |-> acc[l] + buf[l]]

Add(buf) == [l \in Lanes |-> (acc[l] + buf[l]) % LANE_MOD]

\* One iteration of the loop of reduce_lanes.
AddBuffer ==
    /\ pc = "reducing"
    /\ n < Len(members)
    /\ acc' = Add(in_bufs[members[n + 1]])
    /\ n' = n + 1
    /\ UNCHANGED <<pc, collective, in_bufs, out>>

\* Mutated: a reduction is sent to every member.
Receivers_All == Member

\* Only the root's output is written, unless all receive.
Receivers == IF kind = "REDUCE" THEN {root} ELSE Member

Return ==
    /\ pc = "reducing"
    /\ n = Len(members)
    /\ out' = Written(Receivers, acc)
    /\ pc' = "returned"
    /\ UNCHANGED <<collective, in_bufs, n, acc>>

Next == Reject \/ Broadcast \/ Reduce \/ AddBuffer \/ Return

Spec == Init /\ [][Next]_vars
-----------------------------------------------------------------------------
\* Types; in particular the accumulator never needs more than a lane.
TypeOK ==
    /\ pc \in {"call", "reducing", "returned", "rejected"}
    /\ kind \in CollKind
    /\ members \in Seq(Slots)
    /\ root \in Slots
    /\ in_bufs \in Buffers
    /\ n \in Nat /\ n <= Len(members)
    /\ acc \in Beat
    /\ out \in Outputs

\* The buffers as the engine would be given them, on its operand slots.
Ports == [p \in Slots |-> IF p \in DOMAIN in_bufs THEN in_bufs[p] ELSE ZeroBeat]

\* After any number of iterations, whatever the order of the members, the
\* reference holds what the reduction engine computes from those buffers under
\* a mask naming their owners (reduce_lanes against sum_c): the two agree, and
\* the order members are combined in does not matter.
PartialSumIsEngineSum ==
    pc \in {"reducing", "returned"} =>
        acc = sum_c({members[i] : i \in 1 .. n}, Ports)

\* The collective's promise, endpoint by endpoint: the members that receive
\* hold the root's buffer or the engine's sum over all the members, and nobody
\* else's output is written, be it a member of a reduction other than the root
\* or no member at all (docs/modules.md; expected_outputs).
Receives(e) == e \in Member /\ (kind = "REDUCE" => e = root)
Promise     == IF kind = "BCAST" THEN in_bufs[root] ELSE sum_c(Member, Ports)
OutputsAsPromised ==
    pc = "returned" =>
        /\ Member \subseteq DOMAIN out
        /\ \A e \in DOMAIN out :
              out[e] = IF Receives(e) THEN Promise ELSE Unchanged
=============================================================================
