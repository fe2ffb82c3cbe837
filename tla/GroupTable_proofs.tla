------------------------- MODULE GroupTable_proofs --------------------------
(***************************************************************************)
(* The group table keeps its promises for every number of entries, every   *)
(* index width and every way the preloading and the reset interleave.  The *)
(* inductive invariant adds to ReadsLastWrite what holds under reset: once *)
(* it has taken effect no entry is valid, and nothing counts as written.   *)
(***************************************************************************)
EXTENDS GroupTable, TLAPS

\* Nothing counts as written under reset, or beyond the table.
NothingWritten ==
    /\ ~rst_n => \A i \in Indices : lastWrite[i] = NoGroup
    /\ \A i \in Indices : i >= GROUP_TABLE_ENTRIES => lastWrite[i] = NoGroup

\* A reset that has taken effect leaves no entry valid.
ResetClears ==
    /\ ~rst_n /\ cleared => \A e \in Entries : ~valid_array[e]
    /\ rst_n => cleared

IInv == TypeOK /\ ReadsLastWrite /\ NothingWritten /\ ResetClears
-----------------------------------------------------------------------------
\* In range, narrowing an index changes nothing: there is no aliasing.
LEMMA NoAliasing ==
    \A i \in Indices : InRange(i) => idx_t(i) = i /\ i \in Entries
  BY TableAssumption DEF Indices, InRange, idx_t, Entries

\* What an index names, entry by entry.
LEMMA NamedByEntry ==
    ASSUME NEW i \in Indices
    PROVE  /\ InRange(i) => Named(i) = IF valid_array[i] THEN mem_array[i] ELSE NoGroup
           /\ ~InRange(i) => Named(i) = NoGroup
  BY NoAliasing DEF Named, rd_valid_bit, rd_members

LEMMA InitIInv == Init => IInv
  BY TableAssumption, Zenon DEF Init, IInv, TypeOK, ReadsLastWrite, NothingWritten, ResetClears

\* The types after an edge.
LEMMA EdgeTypes == ASSUME IInv, Edge PROVE TypeOK'
<1>1. WriteTaken => idx_t(wr_idx) \in Entries
  BY NoAliasing DEF IInv, TypeOK, WriteTaken
<1>2. valid_array' \in [Entries -> BOOLEAN]
  BY <1>1 DEF Edge, ClockValid, IInv, TypeOK
<1>3. mem_array' \in [Entries -> Masks]
  BY <1>1 DEF Edge, ClockMembers, IInv, TypeOK
<1>4. lastWrite' \in [Indices -> Masks \cup {NoGroup}]
  BY DEF Edge, ObserveWrite, IInv, TypeOK
<1>5. rst_n' \in BOOLEAN /\ cleared' \in BOOLEAN
  BY DEF Edge, ObserveWrite, IInv, TypeOK
<1>6. QED
  BY <1>2, <1>3, <1>4, <1>5 DEF Edge, SoftwareDrives, TypeOK

\* One index across an edge out of reset: a write to it replaces both halves
\* of its entry, and nothing else touches it.
LEMMA EdgePerIndex ==
    ASSUME IInv, Edge, rst_n, NEW i \in Indices, InRange(i)
    PROVE  /\ valid_array'[i] = IF wr_en /\ wr_idx = i THEN wr_valid_bit ELSE valid_array[i]
           /\ mem_array'[i] = IF wr_en /\ wr_idx = i THEN wr_members ELSE mem_array[i]
           /\ lastWrite'[i] = IF wr_en /\ wr_idx = i
                              THEN IF wr_valid_bit THEN wr_members ELSE NoGroup
                              ELSE lastWrite[i]
<1>1. i \in Entries /\ wr_idx \in Indices
  BY NoAliasing DEF IInv, TypeOK
<1>2. WriteTaken => idx_t(wr_idx) = wr_idx
  BY <1>1, NoAliasing DEF WriteTaken
<1>3. valid_array'[i] = IF wr_en /\ wr_idx = i THEN wr_valid_bit ELSE valid_array[i]
  BY <1>1, <1>2 DEF Edge, ClockValid, WriteTaken, IInv, TypeOK
<1>4. mem_array'[i] = IF wr_en /\ wr_idx = i THEN wr_members ELSE mem_array[i]
  BY <1>1, <1>2 DEF Edge, ClockMembers, WriteTaken, IInv, TypeOK
<1>5. lastWrite'[i] = IF wr_en /\ wr_idx = i
                      THEN IF wr_valid_bit THEN wr_members ELSE NoGroup
                      ELSE lastWrite[i]
  BY DEF Edge, ObserveWrite, InRange, IInv, TypeOK
<1>6. QED
  BY <1>3, <1>4, <1>5

LEMMA EdgeIInv == ASSUME IInv, Edge PROVE IInv'
<1>1. TypeOK'
  BY EdgeTypes
<1>2. rst_n' = rst_n
  BY DEF Edge
<1>3. \A i \in Indices : i >= GROUP_TABLE_ENTRIES => lastWrite'[i] = lastWrite[i]
  BY TableAssumption DEF Edge, ObserveWrite, IInv, TypeOK, Indices
<1>4. ReadsLastWrite'
  <2> SUFFICES ASSUME rst_n, NEW i \in Indices PROVE Named(i)' = lastWrite'[i]
    BY <1>2 DEF ReadsLastWrite
  <2>1. Named(i) = lastWrite[i]
    BY DEF IInv, ReadsLastWrite
  <2>2. CASE InRange(i)
    <3>1. Named(i) = IF valid_array[i] THEN mem_array[i] ELSE NoGroup
      BY <2>2, NamedByEntry
    <3>2. Named(i)' = IF valid_array'[i] THEN mem_array'[i] ELSE NoGroup
      BY <2>2, NoAliasing DEF Named, rd_valid_bit, rd_members
    <3>3. QED
      BY <2>1, <2>2, <3>1, <3>2, EdgePerIndex
  <2>3. CASE ~InRange(i)
    <3>1. Named(i)' = NoGroup
      BY <2>3 DEF Named, rd_valid_bit
    <3>2. lastWrite'[i] = lastWrite[i] /\ lastWrite[i] = NoGroup
      BY <1>3, <2>3, TableAssumption DEF InRange, Indices, IInv, NothingWritten
    <3>3. QED
      BY <3>1, <3>2
  <2>4. QED
    BY <2>2, <2>3
<1>5. NothingWritten'
  <2>1. ~rst_n => lastWrite' = lastWrite
    BY DEF Edge, ObserveWrite
  <2>2. QED
    BY <1>2, <1>3, <2>1 DEF NothingWritten, IInv
<1>6. ResetClears'
  <2>1. ~rst_n => \A e \in Entries : ~valid_array'[e]
    BY DEF Edge, ClockValid
  <2>2. rst_n => cleared'
    BY DEF Edge, ObserveWrite, IInv, ResetClears
  <2>3. QED
    BY <1>2, <2>1, <2>2 DEF ResetClears
<1>7. QED
  BY <1>1, <1>4, <1>5, <1>6 DEF IInv

LEMMA AssertIInv == ASSUME IInv, AssertReset PROVE IInv'
<1>1. /\ rst_n' = FALSE /\ cleared' = TRUE
      /\ valid_array' = [e \in Entries |-> FALSE]
      /\ lastWrite' = [i \in Indices |-> NoGroup]
      /\ UNCHANGED <<wr_en, wr_idx, wr_valid_bit, wr_members, mem_array>>
  BY DEF AssertReset, writePort
<1>2. TypeOK'
  BY <1>1 DEF IInv, TypeOK
<1>3. ReadsLastWrite' /\ NothingWritten' /\ ResetClears'
  BY <1>1 DEF ReadsLastWrite, NothingWritten, ResetClears
<1>4. QED
  BY <1>2, <1>3 DEF IInv

LEMMA ReleaseIInv == ASSUME IInv, ReleaseReset PROVE IInv'
<1>1. /\ ~rst_n /\ cleared /\ rst_n' = TRUE
      /\ UNCHANGED <<cleared, lastWrite, wr_en, wr_idx, wr_valid_bit, wr_members,
                     valid_array, mem_array>>
  BY DEF ReleaseReset, writePort, observer
<1>2. TypeOK'
  BY <1>1 DEF IInv, TypeOK
<1>3. ReadsLastWrite'
  <2> SUFFICES ASSUME NEW i \in Indices PROVE Named(i)' = lastWrite'[i]
    BY DEF ReadsLastWrite
  <2>1. lastWrite'[i] = NoGroup
    BY <1>1 DEF IInv, NothingWritten
  <2>2. InRange(i) => ~valid_array'[idx_t(i)]
    BY <1>1, NoAliasing DEF IInv, ResetClears
  <2>3. QED
    BY <2>1, <2>2 DEF Named, rd_valid_bit
<1>4. NothingWritten' /\ ResetClears'
  BY <1>1 DEF IInv, NothingWritten, ResetClears
<1>5. QED
  BY <1>2, <1>3, <1>4 DEF IInv

LEMMA StutterIInv == ASSUME IInv, UNCHANGED vars PROVE IInv'
  BY DEF IInv, vars, writePort, observer, TypeOK, ReadsLastWrite, NothingWritten,
         ResetClears, Named, rd_valid_bit, rd_members

LEMMA NextIInv == IInv /\ [Next]_vars => IInv'
  BY EdgeIInv, AssertIInv, ReleaseIInv, StutterIInv DEF Next

LEMMA IInvAlways == Spec => []IInv
  BY InitIInv, NextIInv, PTL DEF Spec
-----------------------------------------------------------------------------
\* Every reachable state is well typed.
THEOREM TypeCorrect == Spec => []TypeOK
<1>1. IInv => TypeOK
  BY DEF IInv
<1>2. QED
  BY <1>1, IInvAlways, PTL

\* Out of reset every index reads what was last written to it since the
\* reset, and reads invalid if nothing was, for a table of any size under an
\* index of any width.
THEOREM LastWriteIsRead == Spec => []ReadsLastWrite
<1>1. IInv => ReadsLastWrite
  BY DEF IInv
<1>2. QED
  BY <1>1, IInvAlways, PTL

\* Out of reset only the entry written to changes, at the edge that writes it.
THEOREM EntriesAreIndependent == Spec => EntriesIndependent
<1>1. IInv /\ [Next]_vars
        => (rst_n /\ rst_n' =>
              \A i \in Indices :
                 Read(i)' # Read(i) => wr_en /\ wr_idx = i /\ i < GROUP_TABLE_ENTRIES)
  <2> SUFFICES ASSUME IInv, [Next]_vars, rst_n, rst_n', NEW i \in Indices,
                      ~(wr_en /\ wr_idx = i /\ i < GROUP_TABLE_ENTRIES)
               PROVE  Read(i)' = Read(i)
    OBVIOUS
  <2>1. CASE Edge
    <3>1. CASE InRange(i)
      <4>1. valid_array'[i] = valid_array[i] /\ mem_array'[i] = mem_array[i]
        BY <2>1, <3>1, EdgePerIndex DEF InRange
      <4>2. QED
        BY <3>1, <4>1, NoAliasing DEF Read, rd_valid_bit, rd_members
    <3>2. CASE ~InRange(i)
      BY <3>2 DEF Read, rd_valid_bit, rd_members
    <3>3. QED
      BY <3>1, <3>2
  <2>2. CASE UNCHANGED vars
    BY <2>2 DEF vars, Read, rd_valid_bit, rd_members
  <2>3. QED
    BY <2>1, <2>2 DEF Next, AssertReset, ReleaseReset
<1>2. QED
  BY <1>1, IInvAlways, PTL DEF Spec, EntriesIndependent
-----------------------------------------------------------------------------
\* The map GroupMap describes, as it is seen through the read port.
seen == [i \in Indices |-> Named(i)]

LEMMA SeenNext ==
    ASSUME IInv, [Next]_vars
    PROVE  Map!MapNext \/ seen' = seen
<1>1. CASE Edge /\ rst_n /\ WriteTaken
  <2>1. /\ wr_idx \in Indices /\ wr_idx < GROUP_TABLE_ENTRIES /\ InRange(wr_idx) /\ wr_en
        /\ wr_members \in Masks
    BY <1>1 DEF WriteTaken, InRange, IInv, TypeOK
  <2> DEFINE g == IF wr_valid_bit THEN wr_members ELSE NoGroup
  <2>2. ASSUME NEW i \in Indices PROVE Named(i)' = IF i = wr_idx THEN g ELSE Named(i)
    <3>1. CASE InRange(i)
      <4>1. Named(i)' = IF valid_array'[i] THEN mem_array'[i] ELSE NoGroup
        BY <3>1, NoAliasing DEF Named, rd_valid_bit, rd_members
      <4>2. QED
        BY <1>1, <2>1, <3>1, <4>1, NamedByEntry, EdgePerIndex
    <3>2. CASE ~InRange(i)
      BY <2>1, <3>2 DEF Named, rd_valid_bit
    <3>3. QED
      BY <3>1, <3>2
  <2>3. seen' = [seen EXCEPT ![wr_idx] = g]
    BY <2>1, <2>2 DEF seen
  <2>4. CASE wr_valid_bit
    BY <2>1, <2>3, <2>4 DEF Map!MapNext, Map!Set, seen
  <2>5. CASE ~wr_valid_bit
    BY <2>1, <2>3, <2>5 DEF Map!MapNext, Map!Forget, seen
  <2>6. QED
    BY <2>4, <2>5
<1>2. CASE Edge /\ rst_n /\ ~WriteTaken
  BY <1>2 DEF Edge, ClockValid, ClockMembers, seen, Named, rd_valid_bit, rd_members
<1>3. CASE (Edge /\ ~rst_n) \/ AssertReset
  <2>1. valid_array' = [e \in Entries |-> FALSE]
    BY <1>3 DEF Edge, ClockValid, AssertReset
  <2>2. ASSUME NEW i \in Indices PROVE Named(i)' = NoGroup
    BY <2>1, NoAliasing DEF Named, rd_valid_bit
  <2>3. QED
    BY <2>2 DEF Map!MapNext, Map!ForgetAll, seen
<1>4. CASE ReleaseReset \/ UNCHANGED vars
  BY <1>4 DEF ReleaseReset, vars, seen, Named, rd_valid_bit, rd_members
<1>5. QED
  BY <1>1, <1>2, <1>3, <1>4 DEF Next

\* The table implements the partial map, from power-up on.
THEOREM TableImplementsMap == Spec => ImplementsMap
<1>1. Init => Map!MapInit
  <2> SUFFICES ASSUME Init PROVE Map!MapInit
    OBVIOUS
  <2>1. ASSUME NEW i \in Indices
        PROVE  /\ Named(i) \in Masks \cup {NoGroup}
               /\ i >= GROUP_TABLE_ENTRIES => Named(i) = NoGroup
    BY NamedByEntry, NoAliasing, TableAssumption DEF Init, InRange, Indices
  <2>2. QED
    BY <2>1, TableAssumption DEF Map!MapInit, Indices
<1>2. IInv /\ [Next]_vars => [Map!MapNext]_seen
  BY SeenNext
<1>3. QED
  BY <1>1, <1>2, IInvAlways, PTL DEF Spec, ImplementsMap, Map!MapSpec, seen
=============================================================================
