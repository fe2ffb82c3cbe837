------------------------------ MODULE GroupMap ------------------------------
(***************************************************************************)
(* What port_ingress may rely on when it resolves a group: a partial map   *)
(* from group identifiers to member masks.  Preloading sets or clears one  *)
(* group at a time, reset clears them all, and an identifier the table has *)
(* no entry for never names a group.                                       *)
(***************************************************************************)
CONSTANTS GroupIds,    \* every identifier a request can carry
          Known,       \* those the table has an entry for
          Masks,       \* member masks
          NoGroup      \* the identifier names no group

VARIABLE group
-----------------------------------------------------------------------------
\* Before the first reset the table is whatever the power-up made of it.
MapInit ==
    /\ group \in [GroupIds -> Masks \cup {NoGroup}]
    /\ \A i \in GroupIds \ Known : group[i] = NoGroup

Set(i, m)  == group' = [group EXCEPT ![i] = m]
Forget(i)  == group' = [group EXCEPT ![i] = NoGroup]
ForgetAll  == group' = [i \in GroupIds |-> NoGroup]

MapNext ==
    \/ \E i \in Known : Forget(i) \/ \E m \in Masks : Set(i, m)
    \/ ForgetAll

MapSpec == MapInit /\ [][MapNext]_group
=============================================================================
