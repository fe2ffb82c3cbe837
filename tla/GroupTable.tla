----------------------------- MODULE GroupTable -----------------------------
(***************************************************************************)
(* rtl/group_table.sv and the software that preloads it.                   *)
(*                                                                         *)
(* The table is two register arrays written on the same edge by two        *)
(* separate processes: the valid bits, which reset clears asynchronously,  *)
(* and the member masks, which reset does not touch and which keep being   *)
(* written while it is held.  At power-up both hold anything.  An index    *)
(* is ID_W bits wide and is narrowed to IDX_W bits to address the arrays;  *)
(* the range check is made before that, at full width.                     *)
(*                                                                         *)
(* A step is a clock edge, after which the write port is driven afresh, or *)
(* a change of the reset wire.  The read port is combinational: its two    *)
(* outputs are functions of the index and the present state.               *)
(***************************************************************************)
EXTENDS Integers

CONSTANTS GROUP_TABLE_ENTRIES,
          ID_SPACE,     \* 2^ID_W: the indices the ports can carry
          ADDR_SPACE,   \* 2^IDX_W: the indices left after narrowing
          Masks,        \* values of port_mask_t
          ZeroMask,     \* '0, the mask an out-of-range read returns
          NoGroup       \* what an index with the valid bit clear names

\* IDX_W is $clog2 of the number of entries, and at least one bit.
ASSUME TableAssumption ==
    /\ GROUP_TABLE_ENTRIES \in Nat \ {0}
    /\ ID_SPACE \in Nat \ {0}
    /\ ADDR_SPACE \in Nat \ {0}
    /\ GROUP_TABLE_ENTRIES <= ADDR_SPACE
    /\ ZeroMask \in Masks
    /\ NoGroup \notin Masks

Entries == 0 .. GROUP_TABLE_ENTRIES - 1
Indices == 0 .. ID_SPACE - 1

VARIABLES
    rst_n,
    wr_en, wr_idx, wr_valid_bit, wr_members,    \* the write port's wires
    valid_array, mem_array,                     \* the registers
    cleared,    \* reset has taken effect since power-up
    lastWrite   \* an observer's record: the group last written at each index

writePort == <<wr_en, wr_idx, wr_valid_bit, wr_members>>
observer  == <<cleared, lastWrite>>
vars      == <<rst_n, writePort, valid_array, mem_array, observer>>
-----------------------------------------------------------------------------
idx_t(i) == i % ADDR_SPACE

\* Mutated: the index is narrowed before it is checked.
InRange_Narrowed(i) == idx_t(i) < GROUP_TABLE_ENTRIES
InRange(i) == i < GROUP_TABLE_ENTRIES

rd_valid_bit(i) == IF InRange(i) THEN valid_array[idx_t(i)] ELSE FALSE
rd_members(i)   == IF InRange(i) THEN mem_array[idx_t(i)] ELSE ZeroMask

Read(i) == [valid |-> rd_valid_bit(i), members |-> rd_members(i)]

\* The group an index names: a mask with the valid bit clear is no group.
Named(i) == IF rd_valid_bit(i) THEN rd_members(i) ELSE NoGroup
-----------------------------------------------------------------------------
WriteTaken == wr_en /\ InRange(wr_idx)

\* Mutated: reset does not hold the valid bits.
ClockValid_NoReset ==
    valid_array' = IF WriteTaken
                   THEN [valid_array EXCEPT ![idx_t(wr_idx)] = wr_valid_bit]
                   ELSE valid_array

\* The process of the valid bits: cleared as long as reset is held.
ClockValid ==
    valid_array' = IF ~rst_n
                   THEN [e \in Entries |-> FALSE]
                   ELSE IF WriteTaken
                   THEN [valid_array EXCEPT ![idx_t(wr_idx)] = wr_valid_bit]
                   ELSE valid_array

\* The process of the masks does not look at the reset.
ClockMembers ==
    mem_array' = IF WriteTaken
                 THEN [mem_array EXCEPT ![idx_t(wr_idx)] = wr_members]
                 ELSE mem_array

SoftwareDrives ==
    /\ wr_en' \in BOOLEAN
    /\ wr_idx' \in Indices
    /\ wr_valid_bit' \in BOOLEAN
    /\ wr_members' \in Masks

\* What the preloading software believes it has stored: writes made under
\* reset are not expected to last, nor is a group beyond the table.
ObserveWrite ==
    /\ cleared' = (cleared \/ ~rst_n)
    /\ lastWrite' =
         IF rst_n /\ wr_en /\ wr_idx < GROUP_TABLE_ENTRIES
         THEN [lastWrite EXCEPT ![wr_idx] =
                   IF wr_valid_bit THEN wr_members ELSE NoGroup]
         ELSE lastWrite

Edge ==
    /\ ClockValid
    /\ ClockMembers
    /\ ObserveWrite
    /\ SoftwareDrives
    /\ UNCHANGED rst_n

\* Mutated: one valid bit more than there are entries.
AssertReset_OneTooWide ==
    /\ rst_n
    /\ rst_n' = FALSE
    /\ cleared' = TRUE
    /\ valid_array' = [e \in 0 .. GROUP_TABLE_ENTRIES |-> FALSE]
    /\ lastWrite' = [i \in Indices |-> NoGroup]
    /\ UNCHANGED <<writePort, mem_array>>

AssertReset ==
    /\ rst_n
    /\ rst_n' = FALSE
    /\ cleared' = TRUE
    /\ valid_array' = [e \in Entries |-> FALSE]
    /\ lastWrite' = [i \in Indices |-> NoGroup]
    /\ UNCHANGED <<writePort, mem_array>>

\* Reset is held until it has taken effect.
ReleaseReset ==
    /\ ~rst_n
    /\ cleared
    /\ rst_n' = TRUE
    /\ UNCHANGED <<writePort, valid_array, mem_array, observer>>

Init ==
    /\ rst_n = FALSE
    /\ wr_en = FALSE
    /\ wr_idx \in Indices
    /\ wr_valid_bit \in BOOLEAN
    /\ wr_members \in Masks
    /\ valid_array \in [Entries -> BOOLEAN]
    /\ mem_array \in [Entries -> Masks]
    /\ cleared = FALSE
    /\ lastWrite = [i \in Indices |-> NoGroup]

Next == Edge \/ AssertReset \/ ReleaseReset

Spec == Init /\ [][Next]_vars
-----------------------------------------------------------------------------
TypeOK ==
    /\ rst_n \in BOOLEAN
    /\ wr_en \in BOOLEAN
    /\ wr_idx \in Indices
    /\ wr_valid_bit \in BOOLEAN
    /\ wr_members \in Masks
    /\ valid_array \in [Entries -> BOOLEAN]
    /\ mem_array \in [Entries -> Masks]
    /\ cleared \in BOOLEAN
    /\ lastWrite \in [Indices -> Masks \cup {NoGroup}]

\* Entries are independent (docs/modules.md 3.2): out of reset, what an index
\* reads changes only at an edge with a write to that very index, and never
\* for an index the table has no entry for.  In particular a write to an index
\* beyond the table does not land on the entry it narrows to.
EntriesIndependent ==
    [][rst_n /\ rst_n' =>
         \A i \in Indices :
            Read(i)' # Read(i) => wr_en /\ wr_idx = i /\ i < GROUP_TABLE_ENTRIES]_vars

\* Out of reset, and whatever happened before or during it, an index reads
\* what was last written to it since the reset, valid bit and mask together,
\* and reads invalid if nothing was (docs/modules.md 3.2; the dictionary of
\* tb_group_table.py, for every interleaving of writes and resets).  Two
\* processes store the halves of an entry and only one of them is reset, so
\* this is where they could come apart.
ReadsLastWrite ==
    rst_n => \A i \in Indices : Named(i) = lastWrite[i]

\* Seen through the read port, the table is the partial map of GroupMap:
\* masks left over from before a reset, or written during it, never name a
\* group, and no index beyond the table ever does.
Map == INSTANCE GroupMap WITH
           GroupIds <- Indices,
           Known    <- {i \in Indices : i < GROUP_TABLE_ENTRIES},
           group    <- [i \in Indices |-> Named(i)]
ImplementsMap == Map!MapSpec
=============================================================================
