-------------------------------- MODULE LevelDB --------------------------------
(***************************************************************************)
(* How leveldb, the store that Firebase's clients keep on the device, gets *)
(* a write from the caller to the disk and back after a crash: the queue   *)
(* of writers with its group commit, the log, the switch of memtables, the *)
(* background thread that turns memtables into tables and merges tables,   *)
(* the manifest, the removal of files and DB::Open.                        *)
(*                                                                         *)
(* The mutex is held from one step to the next only where the code holds   *)
(* it; whatever the code does with the mutex released is a step of its own. *)
(* A batch is its write.  A table is the set of the writes that its        *)
(* entries hold or hide; which entries a merge drops is not told apart.    *)
(***************************************************************************)
EXTENDS Naturals, Sequences, SequencesExt, FiniteSetsExt

CONSTANTS
    Writes,            \* calls of DBImpl::Write, each with its batch
    SyncWrites,        \* those with WriteOptions::sync
    Before,            \* [w]: the calls that the thread of w makes before it
    WriteBuffer,       \* write_buffer_size, in writes
    CompactionTrigger, \* kL0_CompactionTrigger
    StopTrigger,       \* kL0_StopWritesTrigger
    MaxCrashes,        \* bound: crashes of the process or of the machine
    MaxFaults,         \* bound: failing file operations
    MaxReads,          \* bound: readers that take a version
    MaxTrouble         \* bound: crashes, faults and readers together

ASSUME WritesAssumption == SyncWrites \subseteq Writes /\ IsFiniteSet(Writes)
                           /\ Before \in [Writes -> SUBSET Writes]
ASSUME LimitsAssumption == /\ WriteBuffer \in Nat
                           /\ CompactionTrigger \in Nat \ {0}
                           /\ StopTrigger \in Nat
                           /\ CompactionTrigger <= StopTrigger
ASSUME BoundsAssumption == /\ MaxCrashes \in Nat /\ MaxFaults \in Nat
                           /\ MaxReads \in Nat /\ MaxTrouble \in Nat

VARIABLES
    \* The disk.
    logs,      \* [n]: the records of the log n; a record is the writes of a group
    synced,    \* [n]: how many of them are sure to survive the machine
    tables,    \* [n]: the writes in the table n
    manifest,  \* what CURRENT leads to: the version that is sure to be found, and
               \* the records of the edits behind it
    \* The callers.
    state,     \* [w]: of the call
    sequence,  \* [w]: the sequence number given to the batch
    writers,   \* writers_
    group,     \* the batches that the writer in front is logging
    step,      \* how far it has come: "front", "asleep", "add", "sync", "insert"
    \* The open database.
    db,        \* "open", "recovering", "saving", "down" or "corrupt"
    mem, imm,  \* the writes in mem_ and imm_, which is {} for nullptr
    versions,  \* versions_: the current version, LogNumber, LastSequence and the
               \* next file number
    logfile,   \* logfile_number_
    pending,   \* pending_outputs_
    held,      \* the files of the version that a reader holds
    bgError,   \* bg_error_ is not ok
    scheduled, \* background_compaction_scheduled_
    bg,        \* what the background thread is doing
    building,  \* the table that imm_ is written to, 0 if none is
    compact,   \* the compaction in progress
    edit,      \* what LogAndApply is about to record and install
    todo,      \* the logs that Recover has still to read
    \* Bounds.
    crashes, faults, reads

disk   == <<logs, synced, tables, manifest>>
calls  == <<state, sequence, writers, group, step>>
thread == <<bg, building, compact, edit>>
counts == <<crashes, faults, reads>>
vars   == <<disk, calls, db, mem, imm, versions, logfile, pending, held, bgError,
            scheduled, thread, todo, counts>>

Torn      == <<>>   \* a log record of which a part, or all, is missing
NoCompact == [inputs |-> {}, out |-> 0, done |-> FALSE]
NoEdit    == [l0 |-> {}, deep |-> {}, del |-> {}, log |-> 0, last |-> 0, next |-> 0]

Files(v) == v.l0 \cup v.deep

Versions == [l0 : SUBSET Nat, deep : SUBSET Nat, log : Nat, last : Nat, next : Nat]
Edits    == [l0 : SUBSET Nat, deep : SUBSET Nat, del : SUBSET Nat, log : Nat,
             last : Nat, next : Nat]

\* A record of the manifest: whether a part of it is missing, and the version
\* that a manifest which ends with it leads to.
Records  == [torn : BOOLEAN, version : Versions]

TypeOK ==
    /\ \A n \in DOMAIN logs : /\ n \in Nat
                              /\ logs[n] \in Seq(Seq(Writes))
                              /\ synced[n] \in 0..Len(logs[n])
    /\ DOMAIN synced = DOMAIN logs
    /\ \A n \in DOMAIN tables : n \in Nat /\ tables[n] \subseteq Writes
    /\ manifest \in [base : Versions, edits : Seq(Records)]
    /\ state \in [Writes -> {"new", "queued", "ok", "error", "gone"}]
    /\ sequence \in [Writes -> Nat]
    /\ writers \in Seq(Writes)
    /\ group \in Seq(Writes)
    /\ step \in {"front", "asleep", "add", "sync", "insert"}
    /\ db \in {"open", "recovering", "saving", "down", "corrupt"}
    /\ mem \subseteq Writes /\ imm \subseteq Writes
    /\ versions \in Versions
    /\ edit \in Edits
    /\ logfile \in Nat
    /\ pending \subseteq Nat /\ held \subseteq Nat /\ todo \subseteq DOMAIN logs
    /\ bgError \in BOOLEAN /\ scheduled \in BOOLEAN
    /\ bg \in {"idle", "build", "merge", "log", "sync"}
    /\ building \in Nat
    /\ compact \in [inputs : SUBSET Nat, out : Nat, done : BOOLEAN]
    /\ crashes \in 0..MaxCrashes /\ faults \in 0..MaxFaults /\ reads \in 0..MaxReads

\* A database that has just been opened.  Earlier writes are in a table.
Used == [l0 |-> {}, deep |-> {1}, log |-> 2, last |-> 0, next |-> 3]

Closed == [l0 |-> {}, deep |-> {}, log |-> 0, last |-> 0, next |-> 0]

Init ==
    /\ logs = [n \in {2} |-> <<>>]
    /\ synced = [n \in {2} |-> 0]
    /\ tables = [n \in {1} |-> {}]
    /\ manifest = [base |-> Used, edits |-> <<>>]
    /\ state = [w \in Writes |-> "new"]
    /\ sequence = [w \in Writes |-> 0]
    /\ writers = <<>> /\ group = <<>> /\ step = "front"
    /\ db = "open"
    /\ mem = {} /\ imm = {}
    /\ versions = Used
    /\ logfile = 2
    /\ pending = {} /\ held = {} /\ todo = {}
    /\ bgError = FALSE /\ scheduled = FALSE
    /\ bg = "idle" /\ building = 0 /\ compact = NoCompact /\ edit = NoEdit
    /\ crashes = 0 /\ faults = 0 /\ reads = 0

-----------------------------------------------------------------------------
(* Helpers.                                                                *)

Put(f, n, v) == [k \in DOMAIN f \cup {n} |-> IF k = n THEN v ELSE f[k]]

Keep(f, S) == Restrict(f, DOMAIN f \cap S)

\* VersionSet::Builder, and the counters that come with an edit.
ApplyEdit(v, e) ==
    [l0   |-> (v.l0 \ e.del) \cup e.l0,
     deep |-> (v.deep \ e.del) \cup e.deep,
     log  |-> e.log, last |-> e.last, next |-> e.next]

\* background_work_finished_signal_.SignalAll()
SignalAll == step' = IF step = "asleep" THEN "front" ELSE step

NeedsCompaction(v) == Cardinality(v.l0) >= CompactionTrigger

MaybeScheduleCompaction(already) ==
    scheduled' = (already \/ (~bgError' /\ (imm' # {} \/ NeedsCompaction(versions'))))

\* Mutant: pending_outputs_ is forgotten.
DeleteObsoleteFilesPending ==
    LET live == Files(versions') \cup held' \cup compact'.inputs
        needed == {n \in DOMAIN logs : n >= versions'.log}
    IN  /\ tables' = Keep(tables, live)
        /\ logs' = Keep(logs, needed)
        /\ synced' = Keep(synced, needed)

\* The tables that no version and no writer of tables needs, and the logs
\* before LogNumber.  After an error nothing is deleted.
DeleteObsoleteFiles ==
    LET live == pending' \cup Files(versions') \cup held' \cup compact'.inputs
        needed == {n \in DOMAIN logs : n >= versions'.log}
    IN  IF bgError'
          THEN UNCHANGED <<tables, logs, synced>>
          ELSE /\ tables' = Keep(tables, live)
               /\ logs' = Keep(logs, needed)
               /\ synced' = Keep(synced, needed)

MoreTrouble == crashes + faults + reads < MaxTrouble

Fault ==
    /\ faults < MaxFaults /\ MoreTrouble
    /\ faults' = faults + 1
    /\ UNCHANGED <<crashes, reads>>

-----------------------------------------------------------------------------
(* DBImpl::Write.                                                          *)

Write(w) ==
    /\ db = "open"
    /\ state[w] = "new"
    /\ \A v \in Before[w] : state[v] \notin {"new", "queued"}
    /\ state' = [state EXCEPT ![w] = "queued"]
    /\ writers' = Append(writers, w)
    /\ UNCHANGED <<disk, sequence, group, step, db, mem, imm, versions, logfile,
                   pending, held, bgError, scheduled, thread, todo, counts>>

\* The writer in front runs MakeRoomForWrite.
InFront == db = "open" /\ writers # <<>> /\ step = "front"

Room == Cardinality(mem) <= WriteBuffer

\* Nothing was logged: only the writer in front is told.
refuse ==
    /\ state' = [state EXCEPT ![Head(writers)] = "error"]
    /\ writers' = Tail(writers)
    /\ UNCHANGED <<disk, sequence, group, step, db, mem, imm, versions, logfile,
                   pending, held, bgError, scheduled, thread, todo>>

writeAfterError == InFront /\ bgError /\ refuse /\ UNCHANGED counts

newLogFails ==
    /\ InFront /\ ~bgError /\ ~Room /\ imm = {}
    /\ Cardinality(versions.l0) < StopTrigger
    /\ Fault
    /\ refuse

waitForBackground ==
    /\ InFront /\ ~bgError /\ ~Room
    /\ imm # {} \/ Cardinality(versions.l0) >= StopTrigger
    /\ step' = "asleep"
    /\ UNCHANGED <<disk, state, sequence, writers, group, db, mem, imm, versions,
                   logfile, pending, held, bgError, scheduled, thread, todo, counts>>

\* Mutant: imm_ is not waited for.
switchMemTableEarly ==
    /\ InFront /\ ~bgError /\ ~Room
    /\ Cardinality(versions.l0) < StopTrigger
    /\ logfile' = versions.next
    /\ versions' = [versions EXCEPT !.next = @ + 1]
    /\ logs' = Put(logs, versions.next, <<>>)
    /\ synced' = Put(synced, versions.next, 0)
    /\ imm' = mem
    /\ mem' = {}
    /\ UNCHANGED bgError
    /\ MaybeScheduleCompaction(scheduled)
    /\ UNCHANGED <<tables, manifest, calls, db, pending, held, thread, todo, counts>>

\* A new log and a new memtable.
switchMemTable ==
    /\ InFront /\ ~bgError /\ ~Room /\ imm = {}
    /\ Cardinality(versions.l0) < StopTrigger
    /\ logfile' = versions.next
    /\ versions' = [versions EXCEPT !.next = @ + 1]
    /\ logs' = Put(logs, versions.next, <<>>)
    /\ synced' = Put(synced, versions.next, 0)
    /\ imm' = mem
    /\ mem' = {}
    /\ UNCHANGED bgError
    /\ MaybeScheduleCompaction(scheduled)
    /\ UNCHANGED <<tables, manifest, calls, db, pending, held, thread, todo, counts>>

\* Mutant: a write that asks for sync joins any group.
JoinsAny(w) == TRUE

\* A write that asks for sync joins only a group that will be synced.
Joins(w) == w \in SyncWrites => Head(writers) \in SyncWrites

\* There is room; the group ends where a batch does not join or the size
\* limit is reached.
BuildBatchGroup ==
    /\ InFront /\ ~bgError /\ Room
    /\ \E k \in 1..Len(writers) :
           /\ \A i \in 2..k : Joins(writers[i])
           /\ group' = SubSeq(writers, 1, k)
    /\ step' = "add"
    /\ UNCHANGED <<disk, state, sequence, writers, db, mem, imm, versions, logfile,
                   pending, held, bgError, scheduled, thread, todo, counts>>

\* The group is told its status and leaves the queue.  Its sequence numbers
\* are used up in any case.
leave(status) ==
    /\ state' = [w \in Writes |-> IF w \in Range(group) THEN status ELSE state[w]]
    /\ writers' = SubSeq(writers, Len(group) + 1, Len(writers))
    /\ versions' = [versions EXCEPT !.last = @ + Len(group)]
    /\ group' = <<>>
    /\ step' = "front"

numbered ==
    [w \in Writes |-> IF w \in Range(group)
                        THEN versions.last + CHOOSE i \in DOMAIN group : group[i] = w
                        ELSE sequence[w]]

AddRecord ==
    /\ db = "open" /\ step = "add"
    /\ sequence' = numbered
    /\ logs' = [logs EXCEPT ![logfile] = Append(@, group)]
    /\ step' = IF Head(group) \in SyncWrites THEN "sync" ELSE "insert"
    /\ UNCHANGED <<synced, tables, manifest, state, writers, group, db, mem, imm,
                   versions, logfile, pending, held, bgError, scheduled, thread,
                   todo, counts>>

\* A part of the record is written, or nothing: then log::Writer has moved on by
\* the record all the same, and cuts what follows into blocks where log::Reader
\* does not.  The database goes on.
addRecordFails ==
    /\ db = "open" /\ step = "add"
    /\ Fault
    /\ sequence' = numbered
    /\ logs' = [logs EXCEPT ![logfile] = Append(@, Torn)]
    /\ leave("error")
    /\ UNCHANGED <<synced, tables, manifest, db, mem, imm, logfile, pending, held,
                   bgError, scheduled, thread, todo>>

Sync ==
    /\ db = "open" /\ step = "sync"
    /\ synced' = [synced EXCEPT ![logfile] = Len(logs[logfile])]
    /\ step' = "insert"
    /\ UNCHANGED <<logs, tables, manifest, state, sequence, writers, group, db, mem,
                   imm, versions, logfile, pending, held, bgError, scheduled, thread,
                   todo, counts>>

syncFails ==
    /\ db = "open" /\ step = "sync"
    /\ Fault
    /\ bgError' = TRUE
    /\ leave("error")
    /\ UNCHANGED <<disk, sequence, db, mem, imm, logfile, pending, held, scheduled,
                   thread, todo>>

InsertInto ==
    /\ db = "open" /\ step = "insert"
    /\ mem' = mem \cup Range(group)
    /\ leave("ok")
    /\ UNCHANGED <<disk, sequence, db, imm, logfile, pending, held, bgError,
                   scheduled, thread, todo, counts>>

-----------------------------------------------------------------------------
(* The background thread.                                                  *)

queue == <<state, sequence, writers, group>>

\* Mutant: the writers are not told.
finishCallSilent == bg' = "idle" /\ MaybeScheduleCompaction(FALSE) /\ UNCHANGED step

\* The end of BackgroundCall.
finishCall ==
    /\ bg' = "idle"
    /\ MaybeScheduleCompaction(FALSE)
    /\ SignalAll

\* CompactMemTable returns to the merge that it has interrupted, if any.
return ==
    IF compact = NoCompact THEN finishCall
                           ELSE bg' = "merge" /\ SignalAll /\ UNCHANGED scheduled

NoWorkAfterError ==
    /\ db = "open" /\ scheduled /\ bg = "idle" /\ bgError
    /\ UNCHANGED <<imm, versions, bgError>>
    /\ finishCall
    /\ UNCHANGED <<disk, queue, db, mem, logfile, pending, held, building, compact,
                   edit, todo, counts>>

\* CompactMemTable, which a merge also calls between two keys; up to the
\* building of the table.
CompactMemTable ==
    /\ db = "open" /\ imm # {}
    /\ \/ scheduled /\ bg = "idle" /\ ~bgError
       \/ bg = "merge"
    /\ building' = versions.next
    /\ pending' = pending \cup {versions.next}
    /\ versions' = [versions EXCEPT !.next = @ + 1]
    /\ bg' = "build"
    /\ UNCHANGED <<disk, calls, db, mem, imm, logfile, held, bgError, scheduled,
                   compact, edit, todo, counts>>

\* edit.SetLogNumber(logfile_number_): earlier logs are no longer needed.
LogNeeded == logfile

\* The table is complete and synced; its level depends on what it overlaps.
BuildTable ==
    /\ bg = "build"
    /\ tables' = Put(tables, building, imm)
    /\ pending' = pending \ {building}
    /\ \E level \in {"l0", "deep"} :
           edit' = [NoEdit EXCEPT ![level] = {building}, !.log = LogNeeded,
                                  !.last = versions.last, !.next = versions.next]
    /\ bg' = "log"
    /\ UNCHANGED <<logs, synced, manifest, calls, db, mem, imm, versions, logfile, held,
                   bgError, scheduled, building, compact, todo, counts>>

buildTableFails ==
    /\ bg = "build"
    /\ Fault
    /\ bgError' = TRUE
    /\ pending' = pending \ {building}
    /\ building' = 0
    /\ UNCHANGED <<imm, versions>>
    /\ return
    /\ UNCHANGED <<disk, queue, db, mem, logfile, held, compact, edit, todo>>

\* PickCompaction: tables of level 0, and tables of the next level.  A single
\* table that overlaps none is moved as it is.  (LevelCompaction tells when a
\* merge is preferred.)
PickCompaction ==
    /\ db = "open" /\ scheduled /\ bg = "idle" /\ ~bgError
    /\ imm = {} /\ NeedsCompaction(versions)
    /\ \E S \in (SUBSET versions.l0) \ {{}}, D \in SUBSET versions.deep :
           \/ /\ Cardinality(S) = 1 /\ D = {}
              /\ edit' = [NoEdit EXCEPT !.del = S, !.deep = S, !.log = versions.log,
                                        !.last = versions.last, !.next = versions.next]
              /\ bg' = "log"
              /\ UNCHANGED compact
           \/ /\ Cardinality(S) > 1 \/ D # {}
              /\ compact' = [inputs |-> S \cup D, out |-> 0, done |-> FALSE]
              /\ bg' = "merge"
              /\ UNCHANGED edit
    /\ UNCHANGED <<disk, calls, db, mem, imm, versions, logfile, pending, held,
                   bgError, scheduled, building, todo, counts>>

OpenCompactionOutputFile ==
    /\ bg = "merge" /\ compact.out = 0
    /\ compact' = [compact EXCEPT !.out = versions.next]
    /\ pending' = pending \cup {versions.next}
    /\ versions' = [versions EXCEPT !.next = @ + 1]
    /\ tables' = Put(tables, versions.next, {})
    /\ UNCHANGED <<logs, synced, manifest, calls, db, mem, imm, logfile, held, bgError,
                   scheduled, bg, building, edit, todo, counts>>

\* All that the merge reads, and the table it has written, can be opened.
Usable == compact.inputs \cup {compact.out} \subseteq DOMAIN tables

FinishCompactionOutputFile ==
    /\ bg = "merge" /\ compact.out # 0 /\ ~compact.done
    /\ Usable
    /\ tables' = [tables EXCEPT ![compact.out] =
                      UNION {tables[n] : n \in compact.inputs}]
    /\ compact' = [compact EXCEPT !.done = TRUE]
    /\ UNCHANGED <<logs, synced, manifest, calls, db, mem, imm, versions, logfile,
                   pending, held, bgError, scheduled, bg, building, edit, todo, counts>>

\* DoCompactionWork fails, CleanupCompaction.
compactionFails ==
    /\ bg = "merge" /\ compact.out # 0 /\ ~compact.done
    /\ IF Usable THEN Fault ELSE UNCHANGED counts
    /\ bgError' = TRUE
    /\ pending' = pending \ {compact.out}
    /\ compact' = NoCompact
    /\ UNCHANGED <<imm, versions>>
    /\ finishCall
    /\ UNCHANGED <<disk, queue, db, mem, logfile, held, building, edit, todo>>

InstallCompactionResults ==
    /\ bg = "merge" /\ compact.done
    /\ edit' = [NoEdit EXCEPT !.del = compact.inputs, !.deep = {compact.out},
                              !.log = versions.log, !.last = versions.last,
                              !.next = versions.next]
    /\ bg' = "log"
    /\ UNCHANGED <<disk, calls, db, mem, imm, versions, logfile, pending, held,
                   bgError, scheduled, building, compact, todo, counts>>

-----------------------------------------------------------------------------
(* VersionSet::LogAndApply, with the mutex released while it writes.       *)

\* The version that VersionSet::Recover builds from the first k records.
Recovered(m, k) == IF k = 0 THEN m.base ELSE m.edits[k].version

\* The record of the edit, at the end of the manifest.  Of a torn one, of which
\* a part or all is missing, Recover applies nothing.
Record(torn) ==
    LET v == Recovered(manifest, Len(manifest.edits))
    IN  [torn |-> torn, version |-> IF torn THEN v ELSE ApplyEdit(v, edit)]

LogEdit ==
    /\ bg = "log"
    /\ manifest' = [manifest EXCEPT !.edits = Append(@, Record(FALSE))]
    /\ bg' = "sync"
    /\ UNCHANGED <<logs, synced, tables, calls, db, mem, imm, versions, logfile, pending,
                   held, bgError, scheduled, building, compact, edit, todo, counts>>

\* Where LogAndApply was called from goes on: a memtable compaction, a merge
\* (CleanupCompaction) or a trivial move.
edited ==
    /\ edit' = NoEdit
    /\ building' = 0
    /\ \/ /\ building # 0
          /\ UNCHANGED <<pending, compact>>
          /\ return
       \/ /\ building = 0
          /\ pending' = pending \ {compact.out}
          /\ compact' = NoCompact
          /\ finishCall

Whole(edits) == \A i \in DOMAIN edits : ~edits[i].torn

\* How many records log::Reader may read before it takes the file for ended:
\* all of them; or, if one is torn, any number from there on, as it may take
\* the next header that it finds for that of a record that was cut off.
Ends(edits) == {k \in 0..Len(edits) : k = Len(edits) \/ ~Whole(SubSeq(edits, 1, k + 1))}

\* The record is synced and the version installed.  A trivial move deletes no
\* files.
InstallEdit ==
    /\ bg = "sync"
    /\ LET k == Min(Ends(manifest.edits))
       IN  manifest' = [base  |-> Recovered(manifest, k),
                        edits |-> SubSeq(manifest.edits, k + 1, Len(manifest.edits))]
    /\ versions' = [ApplyEdit(versions, edit) EXCEPT !.last = versions.last,
                                                     !.next = versions.next]
    /\ imm' = IF building # 0 THEN {} ELSE imm
    /\ UNCHANGED <<bgError, held>>
    /\ edited
    /\ IF building = 0 /\ compact = NoCompact
         THEN UNCHANGED <<tables, logs, synced>> ELSE DeleteObsoleteFiles
    /\ UNCHANGED <<queue, db, mem, logfile, todo, counts>>

\* Writing the record fails, with a part of it or nothing written, or reports a
\* failure although all of it is; or the sync fails.  What comes of the edit is
\* open until the next DB::Open.
logEditFails ==
    /\ \/ /\ bg = "log"
          /\ \E torn \in BOOLEAN :
                 manifest' = [manifest EXCEPT !.edits = Append(@, Record(torn))]
       \/ bg = "sync" /\ UNCHANGED manifest
    /\ Fault
    /\ bgError' = TRUE
    /\ UNCHANGED <<imm, versions>>
    /\ edited
    /\ UNCHANGED <<logs, synced, tables, queue, db, mem, logfile, held, todo>>

-----------------------------------------------------------------------------
(* Readers: Get and iterators take a reference to the current version.     *)

RefVersion ==
    /\ db = "open" /\ held = {} /\ Files(versions) # {}
    /\ reads < MaxReads /\ MoreTrouble
    /\ reads' = reads + 1
    /\ held' = Files(versions)
    /\ UNCHANGED <<disk, calls, db, mem, imm, versions, logfile, pending, bgError,
                   scheduled, thread, todo, crashes, faults>>

UnrefVersion ==
    /\ held # {}
    /\ held' = {}
    /\ UNCHANGED <<disk, calls, db, mem, imm, versions, logfile, pending, bgError,
                   scheduled, thread, todo, counts>>

-----------------------------------------------------------------------------
(* Crashes, and DB::Open.                                                  *)

\* The writes of the records behind a torn one, which log::Reader may not find:
\* it drops the rest of the block and then every record that lies across the
\* blocks it reads.
Behind(records) ==
    UNION {Range(records[j]) :
              j \in {j \in DOMAIN records :
                        \E i \in DOMAIN records : i < j /\ records[i] = Torn}}

Logged(records) == UNION {Range(records[i]) : i \in DOMAIN records}

\* log::Reader reports no corruption if nothing is missing but at the end.
Readable(edits) == Whole(edits) \/ Whole(Front(edits))

\* Nothing that was in memory is left; state tells which acknowledged writes
\* the caller may have lost: those in the part of a log that was cut off and
\* those behind a torn record.
crash(cut, k) ==
    /\ crashes < MaxCrashes /\ MoreTrouble
    /\ crashes' = crashes + 1
    /\ logs' = [n \in DOMAIN logs |-> SubSeq(logs[n], 1, cut[n])]
    /\ manifest' = [base |-> Recovered(manifest, k), edits |-> <<>>]
    /\ db' \in {"down"} \cup IF Readable(manifest.edits) THEN {} ELSE {"corrupt"}
    /\ LET excused == UNION {Behind(logs[n]) \cup
                             (Logged(logs[n]) \ Logged(SubSeq(logs[n], 1, cut[n]))) :
                                 n \in {n \in DOMAIN logs : n >= manifest'.base.log}}
       IN  state' = [w \in Writes |->
                        IF \/ state[w] = "queued"
                           \/ state[w] = "ok" /\ w \in excused
                          THEN "gone" ELSE state[w]]
    /\ writers' = <<>> /\ group' = <<>> /\ step' = "front"
    /\ mem' = {} /\ imm' = {}
    /\ versions' = Closed /\ logfile' = 0
    /\ pending' = {} /\ held' = {} /\ todo' = {}
    /\ bgError' = FALSE /\ scheduled' = FALSE
    /\ bg' = "idle" /\ building' = 0 /\ compact' = NoCompact /\ edit' = NoEdit
    /\ UNCHANGED <<tables, sequence, faults, reads>>

\* How many records of the manifest DB::Open may read if what was written is
\* there.  While DB::Open writes a new manifest CURRENT leads to the old or to
\* the new one.
Written == IF db = "saving" THEN 0..Len(manifest.edits) ELSE Ends(manifest.edits)

\* The process ends.  What it has written is there.
processCrash ==
    /\ db \in {"open", "recovering", "saving"}
    /\ \E k \in Written : crash([n \in DOMAIN logs |-> Len(logs[n])], k)
    /\ UNCHANGED synced

\* The machine goes down: of what was not synced, a part may be lost.
machineCrash ==
    /\ db \in {"open", "recovering", "saving"}
    /\ \E k \in 0..Len(manifest.edits),
          cut \in [DOMAIN logs -> 0..Max({Len(logs[n]) : n \in DOMAIN logs})] :
           /\ \A n \in DOMAIN logs : cut[n] \in synced[n]..Len(logs[n])
           /\ crash(cut, k)
           /\ synced' = cut

\* Mutant: the numbers of the logs are taken to have no gaps.
LogsFromContiguous(first) == first..(manifest.base.next - 1)

\* The logs that are there and not older than LogNumber.
LogsFrom(first) == {n \in DOMAIN logs : n >= first}

\* VersionSet::Recover and the search for logs and missing files.
Recover ==
    /\ db = "down"
    /\ Files(manifest.base) \subseteq DOMAIN tables \cup DOMAIN logs
    /\ db' = "recovering"
    /\ versions' = [manifest.base EXCEPT !.next = @ + 1]
    /\ todo' = LogsFrom(manifest.base.log)
    /\ UNCHANGED <<disk, calls, mem, imm, logfile, pending, held, bgError, scheduled,
                   thread, counts>>

MarkFileNumberUsed(next, n) == Max({next, n + 1})

\* Mutant: the sequence numbers in the log are not looked at.
MaxSequenceNot(last, found) == last

MaxSequence(last, found) == Max({last} \cup {sequence[w] : w \in found})

\* The records of the oldest log are put in a table of level 0.  Each of those
\* behind a torn one may be found or not.  (One table for each log here.)
RecoverLogFile ==
    /\ db = "recovering" /\ todo # {}
    /\ LET n     == Min(todo)
           t     == versions.next
           sure  == Logged(logs[n]) \ Behind(logs[n])
       IN  \E S \in SUBSET DOMAIN logs[n] :
            LET found == sure \cup UNION {Range(logs[n][i]) : i \in S} IN
              /\ tables' = IF found = {} THEN tables ELSE Put(tables, t, found)
              /\ edit' = IF found = {} THEN edit ELSE [edit EXCEPT !.l0 = @ \cup {t}]
              /\ versions' = [versions EXCEPT
                     !.next = MarkFileNumberUsed(IF found = {} THEN @ ELSE @ + 1, n),
                     !.last = MaxSequence(@, found)]
              /\ todo' = todo \ {n}
    /\ UNCHANGED <<logs, synced, manifest, calls, db, mem, imm, logfile, pending, held,
                   bgError, scheduled, bg, building, compact, counts>>

\* A new log, and the record that is to be the last of a new manifest.
NewLogAtOpen ==
    /\ db = "recovering" /\ todo = {}
    /\ db' = "saving"
    /\ logfile' = versions.next
    /\ logs' = Put(logs, versions.next, <<>>)
    /\ synced' = Put(synced, versions.next, 0)
    /\ versions' = [versions EXCEPT !.next = @ + 1]
    /\ edit' = [edit EXCEPT !.log = versions.next, !.last = versions.last,
                            !.next = versions.next + 1]
    /\ manifest' = [manifest EXCEPT !.edits =
                        <<[torn |-> FALSE, version |-> ApplyEdit(manifest.base, edit')]>>]
    /\ UNCHANGED <<tables, calls, mem, imm, pending, held, bgError, scheduled, bg,
                   building, compact, todo, counts>>

\* CURRENT leads to the new manifest; DeleteObsoleteFiles.
Opened ==
    /\ db = "saving"
    /\ db' = "open"
    /\ manifest' = [base |-> Recovered(manifest, 1), edits |-> <<>>]
    /\ versions' = [ApplyEdit(versions, edit) EXCEPT !.next = versions.next]
    /\ edit' = NoEdit
    /\ UNCHANGED <<imm, pending, held, bgError, compact>>
    /\ DeleteObsoleteFiles
    /\ MaybeScheduleCompaction(FALSE)
    /\ UNCHANGED <<calls, mem, logfile, bg, building, todo, counts>>

\* DB::Open returns an error and may be called again.
openFails ==
    /\ db \in {"recovering", "saving"}
    /\ Fault
    /\ db' = "down"
    /\ manifest' = [manifest EXCEPT !.edits = <<>>]
    /\ versions' = Closed /\ logfile' = 0 /\ todo' = {} /\ edit' = NoEdit
    /\ UNCHANGED <<logs, synced, tables, calls, mem, imm, pending, held, bgError,
                   scheduled, bg, building, compact>>

-----------------------------------------------------------------------------
background ==
    \/ NoWorkAfterError
    \/ CompactMemTable
    \/ BuildTable
    \/ PickCompaction
    \/ OpenCompactionOutputFile
    \/ FinishCompactionOutputFile
    \/ InstallCompactionResults
    \/ LogEdit
    \/ InstallEdit

caller ==
    \/ writeAfterError
    \/ waitForBackground
    \/ switchMemTable
    \/ BuildBatchGroup
    \/ AddRecord
    \/ Sync
    \/ InsertInto

open == Recover \/ RecoverLogFile \/ NewLogAtOpen \/ Opened

failure ==
    \/ newLogFails
    \/ addRecordFails
    \/ syncFails
    \/ buildTableFails
    \/ compactionFails
    \/ logEditFails
    \/ openFails
    \/ processCrash
    \/ machineCrash

Next ==
    \/ \E w \in Writes : Write(w)
    \/ caller
    \/ background
    \/ RefVersion
    \/ UnrefVersion
    \/ open
    \/ failure

Spec == Init /\ [][Next]_vars

FairSpec == Spec /\ WF_vars(caller) /\ WF_vars(background) /\ WF_vars(open)

-----------------------------------------------------------------------------
\* What DB::Open is sure to find if CURRENT leads to v and of each log n the
\* first upto[n] records are there.
Found(v, upto) ==
    (UNION {tables[n] : n \in Files(v) \cap DOMAIN tables})
    \cup UNION {LET r == SubSeq(logs[n], 1, upto[n]) IN Logged(r) \ Behind(r) :
                    n \in {n \in DOMAIN logs : n >= v.log}}

\* What a failed append to a live log may hide from log::Reader.
Hidden == UNION {Behind(logs[n]) : n \in DOMAIN logs}

\* A write that asked for sync and was acknowledged survives even the machine,
\* whatever the background thread or DB::Open is doing, unless an append to its
\* log failed before: at every moment it is in a synced part of a log or in a
\* table, and every version that the manifest may lead to leads to it.
SyncedDurable ==
    \A k \in 0..Len(manifest.edits), w \in SyncWrites :
        state[w] = "ok" /\ w \notin Hidden => w \in Found(Recovered(manifest, k), synced)

\* No acknowledged write is lost with the process, unless an append to its log
\* failed before.
AckedKept ==
    \A k \in Written :
        {w \in Writes : state[w] = "ok"} \ Hidden
            \subseteq Found(Recovered(manifest, k), [n \in DOMAIN logs |-> Len(logs[n])])

\* What the open database shows.
Visible == mem \cup imm \cup UNION {tables[n] : n \in Files(versions) \cap DOMAIN tables}

\* An acknowledged write is visible, and no two visible writes share a
\* sequence number, across crashes: a read could not tell the newer one.
AckedVisible ==
    db = "open" =>
        /\ {w \in Writes : state[w] = "ok"} \subseteq Visible
        /\ \A v, w \in Visible : v # w => sequence[v] # sequence[w]
        /\ \A w \in Visible : sequence[w] <= versions.last

\* No file that a reader, the current version or a manifest needs is deleted, and
\* so the background thread never runs into an error by itself, in a merge that
\* finds its inputs or its output gone.
NeededExist ==
    /\ held \subseteq DOMAIN tables
    /\ db = "open" => Files(versions) \subseteq DOMAIN tables /\ logfile \in DOMAIN logs
    /\ \A k \in 0..Len(manifest.edits) :
           Files(Recovered(manifest, k)) \subseteq DOMAIN tables
    /\ bgError => faults > 0

\* Every call of Write returns, with success or an error: no writer sleeps for
\* ever.  (There are finitely many calls, so the queue drains.)
WritesReturn == writers # <<>> ~> writers = <<>>

=============================================================================
