---------------------------- MODULE LevelCompaction ----------------------------
(***************************************************************************)
(* What leveldb's reads return while its background thread moves entries   *)
(* from the memtable to tables and from level to level: snapshots, Get, the *)
(* level of a new table, the choice of the tables to merge, and the        *)
(* entries that a merge drops.                                             *)
(*                                                                         *)
(* A table is the set of its entries.  Wherever the code compares bytes    *)
(* with a limit, either outcome is taken.  Only the background thread      *)
(* changes the current version, so building a table and installing it are  *)
(* one step; between the choice and the end of a merge anything else may   *)
(* happen, memtable compactions included.                                  *)
(***************************************************************************)
EXTENDS Naturals, FiniteSets, FiniteSetsExt

CONSTANTS
    Keys,               \* user keys, as numbers in their order
    NumLevels,          \* config::kNumLevels
    MaxMemCompactLevel, \* config::kMaxMemCompactLevel
    MaxWrites,          \* bound: writes
    MaxSnapshots        \* bound: snapshots at a time

ASSUME KeysAssumption == Keys \subseteq Nat /\ IsFiniteSet(Keys)
ASSUME LevelsAssumption == /\ NumLevels \in Nat /\ MaxMemCompactLevel \in Nat
                           /\ MaxMemCompactLevel < NumLevels
ASSUME BoundsAssumption == MaxWrites \in Nat /\ MaxSnapshots \in Nat

VARIABLES
    mem, imm,     \* the entries in mem_ and imm_, which is {} for nullptr
    levels,       \* [l]: the tables of level l of the current version
    lastSequence, \* versions_->LastSequence()
    snapshots,    \* snapshots_
    compaction,   \* the merge in progress
    \* History.
    history,      \* every entry ever written
    split         \* a merge has divided the entries of a user key between tables

vars == <<mem, imm, levels, lastSequence, snapshots, compaction, history, split>>

Levels  == 0..(NumLevels - 1)
Entries == [key : Keys, seq : 1..MaxWrites, deleted : BOOLEAN]
Tables  == SUBSET Entries \ {{}}

NoMerge == [level |-> 0, inputs |-> {}, base |-> [l \in Levels |-> {}], smallest |-> 0]

TypeOK ==
    /\ mem \subseteq Entries /\ imm \subseteq Entries /\ history \subseteq Entries
    /\ \A l \in Levels : \A t \in levels[l] : t # {} /\ t \subseteq Entries
    /\ DOMAIN levels = Levels
    /\ lastSequence \in 0..MaxWrites
    /\ snapshots \subseteq 0..MaxWrites
    /\ compaction.level \in Levels
    /\ UNION compaction.inputs \subseteq Entries
    /\ compaction.smallest \in 0..MaxWrites
    /\ split \in BOOLEAN

Init ==
    /\ mem = {} /\ imm = {}
    /\ levels = [l \in Levels |-> {}]
    /\ lastSequence = 0
    /\ snapshots = {}
    /\ compaction = NoMerge
    /\ history = {}
    /\ split = FALSE

-----------------------------------------------------------------------------
(* Keys and ranges.                                                        *)

\* InternalKeyComparator: by user key, the newer entry first.
Precedes(a, b) == a.key < b.key \/ (a.key = b.key /\ a.seq > b.seq)

First(S) == CHOOSE e \in S : \A f \in S \ {e} : Precedes(e, f)
Last(S)  == CHOOSE e \in S : \A f \in S \ {e} : Precedes(f, e)

\* User keys from that of the first to that of the last entry.
InRange(k, S) == First(S).key <= k /\ k <= Last(S).key

Overlap(S, T) == First(S).key <= Last(T).key /\ First(T).key <= Last(S).key

OverlapInLevel(l, S) == \E t \in levels[l] : Overlap(t, S)

\* The tables of level l that overlap S; in level 0 also those that overlap
\* the tables found so far, until there are no more: the least set that holds
\* all that are found from it.
GetOverlappingInputs(l, S) ==
    LET overlapping(T) == {t \in levels[l] : Overlap(t, T)}
        closed == {D \in SUBSET levels[l] : overlapping(S \cup UNION D) \subseteq D}
    IN  IF l = 0 THEN {t \in levels[l] : \A D \in closed : t \in D} ELSE overlapping(S)

\* Mutant: no boundary files.
AddBoundaryInputsNot(l, C) == C

\* A table that goes on with the user key that the largest key belongs to is
\* taken, too; the end of that table is the next largest key, and so on.
AddBoundaryInputs(l, C) ==
    LET boundary(e) == {t \in levels[l] : Precedes(e, First(t)) /\ First(t).key = e.key}
        first == boundary(Last(UNION C))
        closed == {D \in SUBSET levels[l] :
                      first \cup (UNION {boundary(Last(t)) : t \in D}) \subseteq D}
    IN  C \cup {t \in levels[l] : \A D \in closed : t \in D}

-----------------------------------------------------------------------------
(* Callers.                                                                *)

Write(k, deleted) ==
    /\ lastSequence < MaxWrites
    /\ LET e == [key |-> k, seq |-> lastSequence + 1, deleted |-> deleted]
       IN  mem' = mem \cup {e} /\ history' = history \cup {e}
    /\ lastSequence' = lastSequence + 1
    /\ UNCHANGED <<imm, levels, snapshots, compaction, split>>

SwitchMemTable ==
    /\ imm = {} /\ mem # {}
    /\ imm' = mem
    /\ mem' = {}
    /\ UNCHANGED <<levels, lastSequence, snapshots, compaction, history, split>>

\* Snapshots of one sequence number are one here, until the last is released.
GetSnapshot ==
    /\ Cardinality(snapshots) < MaxSnapshots
    /\ snapshots' = snapshots \cup {lastSequence}
    /\ UNCHANGED <<mem, imm, levels, lastSequence, compaction, history, split>>

ReleaseSnapshot(s) ==
    /\ s \in snapshots
    /\ snapshots' = snapshots \ {s}
    /\ UNCHANGED <<mem, imm, levels, lastSequence, compaction, history, split>>

\* The newest of the entries S for k that s sees; {} if there is none.
Newest(S, k, s) ==
    LET seen == {e \in S : e.key = k /\ e.seq <= s}
    IN  {e \in seen : \A f \in seen : f.seq <= e.seq}

\* Version::Get in a level below the first: the first table that does not end
\* before (k, s), if k is in its range.
FindFile(l, k, s) ==
    LET after == {t \in levels[l] : ~Precedes(Last(t), [key |-> k, seq |-> s])}
    IN  {t \in after : /\ \A u \in after \ {t} : Precedes(Last(t), Last(u))
                       /\ First(t).key <= k}

\* NewestFirst: the tables of level 0 have numbers in the order in which their
\* memtables were filled.
NewestFirst(t, u) == Max({e.seq : e \in t}) > Max({e.seq : e \in u})

\* What Get finds in level l.  In level 0 it searches one table after the other.
LevelGet(l, k, s) ==
    LET hits == {t \in levels[0] : \E e \in t : e.key = k /\ e.seq <= s}
        hit  == {t \in hits : \A u \in hits \ {t} : NewestFirst(t, u)}
    IN  Newest(UNION IF l = 0 THEN hit ELSE FindFile(l, k, s), k, s)

\* The entry that DBImpl::Get stops at: it looks in mem_, in imm_ and then in
\* one level after the other.
Get(k, s) ==
    LET places == <<Newest(mem, k, s), Newest(imm, k, s)>>
        level  == [l \in Levels |-> LevelGet(l, k, s)]
        found  == {l \in Levels : level[l] # {}}
    IN  IF places[1] # {} THEN places[1]
        ELSE IF places[2] # {} THEN places[2]
        ELSE IF found # {} THEN level[Min(found)] ELSE {}

-----------------------------------------------------------------------------
(* The background thread.                                                  *)

\* PickLevelForMemTableOutput: as deep as nothing overlaps.  It may stop above
\* a level whose successor has many overlapping bytes.
PickLevelForMemTableOutput(S) ==
    IF OverlapInLevel(0, S) THEN {0}
    ELSE {l \in 0..MaxMemCompactLevel :
             /\ \A m \in 1..l : ~OverlapInLevel(m, S)
             /\ \/ l = MaxMemCompactLevel
                \/ OverlapInLevel(l + 1, S)
                \/ l + 2 < NumLevels /\ OverlapInLevel(l + 2, S)}

\* Mutant: a memtable that is not there is flushed.
CompactMemTableAlways ==
    /\ \E l \in PickLevelForMemTableOutput(imm) :
           levels' = [levels EXCEPT ![l] = @ \cup {imm}]
    /\ imm' = {}
    /\ UNCHANGED <<mem, lastSequence, snapshots, compaction, history, split>>

\* Also in the middle of a merge.
CompactMemTable ==
    /\ imm # {}
    /\ \E l \in PickLevelForMemTableOutput(imm) :
           levels' = [levels EXCEPT ![l] = @ \cup {imm}]
    /\ imm' = {}
    /\ UNCHANGED <<mem, lastSequence, snapshots, compaction, history, split>>

\* The inputs that SetupOtherInputs makes of the picked ones: more tables of
\* their level may be merged if that adds none of the next level.
SetupOtherInputs(l, picked) ==
    LET in0  == AddBoundaryInputs(l, picked)
        in1  == GetOverlappingInputs(l + 1, UNION in0)
        all  == UNION (in0 \cup in1)
        exp0 == AddBoundaryInputs(l, GetOverlappingInputs(l, all))
        exp1 == GetOverlappingInputs(l + 1, UNION exp0)
        grow == /\ in1 # {}
                /\ Cardinality(exp0) > Cardinality(in0)
                /\ Cardinality(exp1) = Cardinality(in1)
    IN  {<<in0, in1>>} \cup IF grow THEN {<<exp0, exp1>>} ELSE {}

SmallestSnapshot == IF snapshots = {} THEN lastSequence ELSE Min(snapshots)

\* IsTrivialMove: a single table that overlaps nothing in the next level is
\* moved, unless it overlaps many bytes in the level after that.
TrivialMove(l, in) ==
    LET candidate    == Cardinality(in[1]) = 1 /\ in[2] = {}
        grandparents == l + 2 < NumLevels /\ OverlapInLevel(l + 2, UNION in[1])
    IN  IF ~candidate THEN {FALSE} ELSE IF grandparents THEN BOOLEAN ELSE {TRUE}

\* Any table may be due for a merge, by the size of its level or by its seeks.
PickCompaction(l) ==
    /\ compaction = NoMerge /\ imm = {} /\ l + 1 < NumLevels
    /\ \E t \in levels[l] :
       LET picked == IF l = 0 THEN GetOverlappingInputs(0, t) ELSE {t}
       IN  \E in \in SetupOtherInputs(l, picked) : \E move \in TrivialMove(l, in) :
              \/ /\ move
                 /\ levels' = [levels EXCEPT ![l] = @ \ in[1], ![l + 1] = @ \cup in[1]]
                 /\ UNCHANGED compaction
              \/ /\ ~move
                 /\ compaction' = [level |-> l, inputs |-> in[1] \cup in[2],
                                   base |-> levels, smallest |-> SmallestSnapshot]
                 /\ UNCHANGED levels
    /\ UNCHANGED <<mem, imm, lastSequence, snapshots, history, split>>

\* Mutant: deeper levels are not looked at.
IsBaseLevelForKeyAlways(k) == TRUE

\* No table of the version that the merge began with has k in its range, below
\* the level that is written.
IsBaseLevelForKey(k) ==
    \A l \in (compaction.level + 2)..(NumLevels - 1) :
        \A t \in compaction.base[l] : ~InRange(k, t)

\* Hidden from every snapshot by a newer entry, or a deletion of nothing.
Drop(e) ==
    \/ \E f \in UNION compaction.inputs :
           f.key = e.key /\ e.seq < f.seq /\ f.seq <= compaction.smallest
    \/ e.deleted /\ e.seq <= compaction.smallest /\ IsBaseLevelForKey(e.key)

\* The output is cut where a table is large enough.  (At most once here.)
Outputs(S) ==
    IF S = {} THEN {{}}
    ELSE {{{e \in S : ~Precedes(cut, e)}, {e \in S : Precedes(cut, e)}} \ {{}} : cut \in S}

\* The end of DoCompactionWork, InstallCompactionResults.
DoCompactionWork ==
    /\ compaction # NoMerge
    /\ LET l == compaction.level
       IN  \E out \in Outputs({e \in UNION compaction.inputs : ~Drop(e)}) :
              /\ levels' = [levels EXCEPT
                               ![l]     = @ \ compaction.inputs,
                               ![l + 1] = (@ \ compaction.inputs) \cup out]
              /\ split' = (split \/ \E t, u \in out : t # u /\ Overlap(t, u))
    /\ compaction' = NoMerge
    /\ UNCHANGED <<mem, imm, lastSequence, snapshots, history>>

-----------------------------------------------------------------------------
Next ==
    \/ \E k \in Keys, deleted \in BOOLEAN : Write(k, deleted)
    \/ SwitchMemTable
    \/ GetSnapshot
    \/ \E s \in snapshots : ReleaseSnapshot(s)
    \/ CompactMemTable
    \/ \E l \in Levels : PickCompaction(l)
    \/ DoCompactionWork

Spec == Init /\ [][Next]_vars

-----------------------------------------------------------------------------
\* The value that a read gets from what it found: nothing if k was deleted.
Value(S) == {e \in S : ~e.deleted}

Stored == mem \cup imm \cup UNION UNION {levels[l] : l \in Levels}

\* What Get and an iterator return as of s is what was written last by then.
Reads(k, s) ==
    LET right == Value(Newest(history, k, s))
    IN  Value(Get(k, s)) = right /\ Value(Newest(Stored, k, s)) = right

\* The reads that may be asked for.
Live == snapshots \cup {lastSequence}

\* Whatever has been flushed, moved, merged and dropped, reads of the latest
\* state and of every live snapshot return what was written last by then.
ReadsCorrect == \A k \in Keys, s \in Live : Reads(k, s)

\* They do as long as no merge has divided the entries of a user key between
\* tables; and even then no live value is lost or replaced by an older one: the
\* only wrong answer is a value for a key that was deleted.
ReadsCorrectUnsplit ==
    \A k \in Keys, s \in Live :
        (split /\ Value(Newest(history, k, s)) = {}) \/ Reads(k, s)

\* Below level 0 tables do not overlap, as Builder::SaveTo checks in debug
\* builds.  Entries never hop across levels: of a key, what is nearer to the
\* memtable is newer, which is why Get may stop where it finds something.
LevelsOrdered ==
    /\ \A l \in Levels \ {0} : \A t, u \in levels[l] :
           t # u => Precedes(Last(t), First(u)) \/ Precedes(Last(u), First(t))
    /\ \A l, m \in Levels : l < m =>
           \A e \in UNION levels[l], f \in UNION levels[m] :
               e.key = f.key => e.seq > f.seq

=============================================================================
