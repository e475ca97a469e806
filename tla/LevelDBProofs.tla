---------------------------- MODULE LevelDBProofs ----------------------------
(***************************************************************************)
(* Proofs about LevelDB: that an acknowledged write survives the process,  *)
(* and the machine if it asked for sync, whatever the writers, the         *)
(* background thread, readers and DB::Open are doing; that it can be read; *)
(* and that no file is deleted that is still needed.  For every set of     *)
(* writes, every limit and every number of crashes, faults and readers.    *)
(***************************************************************************)
EXTENDS LevelDB, WellFoundedInduction, NaturalsInduction, SequenceTheorems, TLAPS

\* What the tables S of t hold.
Content(t, S) == UNION {t[n] : n \in S \cap DOMAIN t}

\* What is in the records of the logs from the number first on.
InLogs(l, first) == UNION {Logged(l[n]) : n \in {k \in DOMAIN l : k >= first}}

\* What log::Reader is sure to find in them: what no torn record hides.
SureIn(l, first) ==
    UNION {Logged(l[n]) \ Behind(l[n]) : n \in {k \in DOMAIN l : k >= first}}

\* The logs after a crash of the machine that loses all it may lose.
Safe(l, s) == [n \in DOMAIN l |-> SubSeq(l[n], 1, s[n])]

\* The versions that CURRENT may lead to after a crash.
Led(m) == {Recovered(m, k) : k \in 0..Len(m.edits)}

\* The version that the whole manifest leads to.
Latest(m) == Recovered(m, Len(m.edits))

\* The writes that were acknowledged and that no crash has excused.
Acked == {w \in Writes : state[w] = "ok"}

\* Two versions with the same tables and the same LogNumber.
SameFiles(v, u) == v.l0 = u.l0 /\ v.deep = u.deep /\ v.log = u.log

\* The group is in the log.
Logging == step \in {"sync", "insert"}

\* There is a group.
Grouped == step \in {"add", "sync", "insert"}

\* LogAndApply is at work.
Recording == bg \in {"log", "sync"}

\* When the database is not open nothing is left of the open one, and no edit
\* of the old manifest is open.
Quiet ==
    /\ db # "open" => /\ writers = <<>> /\ group = <<>> /\ step = "front"
                      /\ mem = {} /\ imm = {} /\ bg = "idle"
                      /\ pending = {} /\ held = {} /\ ~bgError
                      /\ compact = NoCompact /\ building = 0
    /\ db \in {"recovering", "down", "corrupt"} => manifest.edits = <<>>
    /\ db \in {"down", "corrupt"} => edit = NoEdit /\ versions = Closed
    /\ db # "recovering" => todo = {}

\* The queue holds the calls that wait, each once; the group is its front,
\* and it is in the log, synced if a member asked for that, before it is told
\* so.
Queued ==
    /\ \A i, j \in DOMAIN writers : writers[i] = writers[j] => i = j
    /\ \A w \in Writes : state[w] = "queued" <=> w \in Range(writers)
    /\ Grouped => /\ group # <<>> /\ Len(group) <= Len(writers)
                  /\ \A i \in 1..Len(group) : group[i] = writers[i]
                  /\ \A w \in Range(group) : w \in SyncWrites => Head(group) \in SyncWrites
    /\ step = "insert" /\ Head(group) \in SyncWrites =>
           synced[logfile] = Len(logs[logfile])
    /\ Logging => Range(group) \subseteq Logged(logs[logfile])
    /\ ~Grouped => group = <<>>

\* File numbers are not given out twice; the current version's tables and the
\* tables of a reader are there.
Numbers ==
    /\ db = "open" => /\ logfile \in DOMAIN logs
                      /\ versions.log <= logfile
    /\ db \in {"open", "saving"} => /\ logfile < versions.next
                                    /\ \A n \in DOMAIN logs : n <= logfile
    /\ \A f \in Files(versions) : f \in DOMAIN tables /\ f < versions.next
    /\ held \subseteq DOMAIN tables
    /\ bgError => faults > 0

\* What every version on disk has: its tables are there, its counters are
\* ahead of what they hold.
Version(v) ==
    /\ \A f \in Files(v) : f \in DOMAIN tables /\ f < v.next
    /\ v.log < v.next
    /\ \A w \in Content(tables, Files(v)) : sequence[w] <= v.last

\* What the current version and imm_ hold.
Flushed == imm \cup Content(tables, Files(versions))

\* While the database is open, a version on disk may lag behind or be ahead
\* of the current one, but what it misses is in the logs that it makes
\* DB::Open read.
OpenVersion(v) ==
    /\ v.next <= versions.next /\ v.last <= versions.last
    /\ v.log <= logfile
    /\ Flushed \subseteq Content(tables, Files(v)) \cup InLogs(logs, v.log)
    /\ Flushed \cap SyncWrites \subseteq Content(tables, Files(v)) \cup
                                         InLogs(Safe(logs, synced), v.log)

\* When the database is not open, a version on disk leads to every
\* acknowledged write, through its tables or through a log.
ClosedVersion(v) ==
    /\ Acked \subseteq Content(tables, Files(v)) \cup SureIn(logs, v.log)
    /\ Acked \cap SyncWrites \subseteq Content(tables, Files(v)) \cup
                                     InLogs(Safe(logs, synced), v.log)

\* A version that has all that the current version has; the logs that it makes
\* DB::Open read begin no earlier.
Ahead(v) ==
    /\ versions.log <= v.log
    /\ Content(tables, Files(versions)) \subseteq Content(tables, Files(v))

\* So it is for every version that a crash may leave in CURRENT.  The last one
\* is ahead of the current one.
Manifested ==
    /\ \A v \in Led(manifest) : /\ Version(v)
                                /\ db = "open" => OpenVersion(v)
                                /\ db # "open" => ClosedVersion(v)
    /\ db = "open" => Ahead(Latest(manifest))

\* Without an error the manifest says what the current version is, except for
\* the one edit that is being synced.
Clean ==
    db = "open" /\ ~bgError =>
        /\ SameFiles(manifest.base, versions)
        /\ bg # "sync" => manifest.edits = <<>>
        /\ bg = "sync" => manifest.edits =
               <<[torn |-> FALSE, version |-> ApplyEdit(manifest.base, edit)]>>

\* The inputs of a merge are in the current version; its output is protected,
\* is in no version until it is installed, and holds what the inputs hold.
Merging ==
    /\ compact.inputs \subseteq Files(versions)
    /\ compact.out # 0 => /\ compact.out \in pending
                          /\ compact.out \in DOMAIN tables
                          /\ compact.out < versions.next
                          /\ compact.out \notin Files(versions)
                          /\ ~(Recording /\ building = 0) =>
                                 \A v \in Led(manifest) : compact.out \notin Files(v)
    /\ compact.done => /\ compact.out # 0
                       /\ tables[compact.out] = Content(tables, compact.inputs)
    /\ bg = "merge" => compact # NoCompact
    /\ compact # NoCompact => bg # "idle"

\* The table that imm_ is written to is new, and holds imm_ when it is
\* recorded.
Flushing ==
    /\ bg \in {"idle", "merge"} => building = 0
    /\ bg = "build" => building # 0
    /\ building # 0 => /\ imm # {}
                       /\ building < versions.next
                       /\ building # compact.out
                       /\ building \notin Files(versions)
    /\ bg = "build" => \A v \in Led(manifest) : building \notin Files(v)
    /\ building # 0 /\ Recording => /\ building \in DOMAIN tables
                                    /\ tables[building] = imm

\* The edit that LogAndApply records adds the flushed table and forgets the
\* earlier logs, or moves a table, or replaces the inputs of a merge by its
\* output; its counters are ahead of all that it leads to.
Editing ==
    db = "open" /\ Recording =>
        /\ \/ /\ building # 0
              /\ edit.l0 \cup edit.deep = {building} /\ edit.del = {}
              /\ edit.log = logfile
              /\ \A w \in imm : sequence[w] <= edit.last
           \/ /\ building = 0 /\ compact = NoCompact
              /\ edit.l0 = {} /\ edit.del = edit.deep
              /\ edit.deep \subseteq Files(versions)
              /\ edit.log = versions.log
           \/ /\ building = 0 /\ compact.done
              /\ edit.l0 = {} /\ edit.del = compact.inputs /\ edit.deep = {compact.out}
              /\ edit.log = versions.log
        /\ edit.last <= versions.last /\ edit.next <= versions.next
        /\ edit.log < edit.next
        /\ \A f \in edit.l0 \cup edit.deep : f < edit.next
        /\ \A w \in Content(tables, Files(versions)) : sequence[w] <= edit.last
        /\ \A v \in Led(manifest) : v.last <= edit.last /\ v.next <= edit.next
        /\ bg = "sync" => /\ edit.l0 \cup edit.deep \subseteq Files(Latest(manifest))
                          /\ Latest(manifest).log = edit.log

\* What is acknowledged can be read, and what mem_ holds is in the current
\* log, in its synced part if the write asked for that.
Memory ==
    db = "open" =>
        /\ Acked \subseteq mem \cup imm \cup Content(tables, Files(versions))
        /\ mem \subseteq Logged(logs[logfile])
        /\ mem \cap SyncWrites \subseteq Logged(Safe(logs, synced)[logfile])

\* While DB::Open reads the logs, what it has read is in the tables of its
\* edit, and nothing of CURRENT has changed.
Recovering ==
    db \in {"recovering", "saving"} =>
        /\ SameFiles(manifest.base, versions)
        /\ manifest.base.next < versions.next
        /\ manifest.base.last <= versions.last
        /\ edit.deep = {} /\ edit.del = {}
        /\ \A f \in edit.l0 : f \in DOMAIN tables /\ f < versions.next
        /\ Content(tables, edit.l0) \subseteq InLogs(logs, manifest.base.log)
        /\ \A w \in Content(tables, edit.l0) : sequence[w] <= versions.last
        /\ \A n \in DOMAIN logs : n >= manifest.base.log /\ n \notin todo =>
               n < versions.next /\ Logged(logs[n]) \ Behind(logs[n]) \subseteq
                                        Content(tables, edit.l0)
        /\ \A n \in todo : n >= manifest.base.log
        /\ db = "saving" =>
               /\ manifest.edits =
                      <<[torn |-> FALSE, version |-> ApplyEdit(manifest.base, edit)]>>
               /\ edit.log = logfile /\ edit.next = versions.next
               /\ edit.last = versions.last
               /\ logfile \in DOMAIN logs /\ logs[logfile] = <<>>

\* The writes that a read may meet now or after a crash.
Live == InLogs(logs, 0) \cup mem \cup imm \cup Content(tables, Files(versions))
        \cup UNION {Content(tables, Files(v)) : v \in Led(manifest)}

\* A write whose call has not begun to log is nowhere.
Stored ==
    /\ \A w \in mem \cup imm \cup Content(tables, DOMAIN tables) :
           state[w] \notin {"new", "queued"}
    /\ \A w \in InLogs(logs, 0) :
           state[w] # "new" /\ (state[w] = "queued" => Logging /\ w \in Range(group))

\* No two live writes share a sequence number, and LastSequence is ahead of
\* them; those of the group being logged follow it.
Sequenced ==
    /\ \E b \in Nat : \A w \in Writes : sequence[w] <= b
    /\ \A v, w \in Live : v # w => sequence[v] # sequence[w]
    /\ db = "open" =>
          \A w \in Live : /\ state[w] # "queued" => sequence[w] <= versions.last
                          /\ sequence[w] <= versions.last + Len(group)

\* The inductive invariant.
IInv == /\ TypeOK /\ Quiet /\ Queued /\ Numbers /\ Manifested /\ Clean /\ Merging
        /\ Flushing /\ Editing /\ Memory /\ Recovering /\ Stored /\ Sequenced


-----------------------------------------------------------------------------
(* Numbers: the least and the greatest element of a set.                   *)

\* A set of naturals that is not empty has a least element.
LEMMA LeastNat ==
    ASSUME NEW S, S \subseteq Nat, S # {}
    PROVE  \E x \in S : \A y \in S : x <= y
  <1>1. PICK x \in S : \A y \in S : <<y, x>> \notin OpToRel(<, Nat)
    BY NatLessThanWellFounded, WFMin
  <1>2. \A y \in S : ~(y < x)
    BY <1>1 DEF OpToRel
  <1> QED BY <1>2

\* And, if it is bounded, a greatest one.
LEMMA GreatestNat ==
    ASSUME NEW S, S \subseteq Nat, S # {}, NEW b \in Nat, \A x \in S : x <= b
    PROVE  \E x \in S : \A y \in S : x >= y
  <1> DEFINE T == {b - x : x \in S}
  <1>1. T \subseteq Nat
    OBVIOUS
  <1>2. T # {}
    OBVIOUS
  <1> HIDE DEF T
  <1>3. PICK m \in T : \A y \in T : m <= y
    BY <1>1, <1>2, LeastNat
  <1>4. PICK x \in S : m = b - x
    BY <1>3 DEF T
  <1>5. ASSUME NEW y \in S PROVE x >= y
    <2>1. b - y \in T
      BY DEF T
    <2> QED BY <2>1, <1>3, <1>4
  <1> QED BY <1>5

\* Min is the oldest log.
LEMMA MinOf ==
    ASSUME NEW S, S \subseteq Nat, S # {}
    PROVE  Min(S) \in S /\ \A y \in S : Min(S) <= y
  BY LeastNat DEF Min

\* Max of a bounded set.
LEMMA MaxOf ==
    ASSUME NEW S, S \subseteq Nat, S # {}, NEW b \in Nat, \A x \in S : x <= b
    PROVE  Max(S) \in S /\ \A y \in S : Max(S) >= y
  BY GreatestNat DEF Max

\* A file number that is marked is never given out again.
LEMMA MarkUsed ==
    ASSUME NEW k \in Nat, NEW n \in Nat
    PROVE  /\ MarkFileNumberUsed(k, n) \in Nat
           /\ MarkFileNumberUsed(k, n) >= k
           /\ MarkFileNumberUsed(k, n) > n
  <1>1. \A x \in {k, n + 1} : x <= k + n + 1
    OBVIOUS
  <1>2. {k, n + 1} \subseteq Nat /\ {k, n + 1} # {} /\ k + n + 1 \in Nat
    OBVIOUS
  <1>3. /\ Max({k, n + 1}) \in {k, n + 1}
        /\ \A y \in {k, n + 1} : Max({k, n + 1}) >= y
    <2> DEFINE S == {k, n + 1}
    <2> HIDE DEF S
    <2> QED BY <1>1, <1>2, MaxOf DEF S
  <1> QED BY <1>3 DEF MarkFileNumberUsed

-----------------------------------------------------------------------------
(* Files: what a set of tables holds.                                      *)

\* The parts of Content.
LEMMA ContentElem ==
    ASSUME NEW t, NEW S, NEW w
    PROVE  w \in Content(t, S) <=> \E n \in S : n \in DOMAIN t /\ w \in t[n]
  BY DEF Content

\* More tables hold more.
LEMMA ContentMono ==
    ASSUME NEW t, NEW S, NEW T, S \subseteq T
    PROVE  Content(t, S) \subseteq Content(t, T)
  BY DEF Content

\* What two sets of tables hold.
LEMMA ContentUnion ==
    ASSUME NEW t, NEW S, NEW T
    PROVE  Content(t, S \cup T) = Content(t, S) \cup Content(t, T)
  BY DEF Content

\* Tables that are left alone hold what they held.
LEMMA ContentSame ==
    ASSUME NEW t, NEW u, NEW S,
           \A n \in S : n \in DOMAIN t /\ n \in DOMAIN u /\ u[n] = t[n]
    PROVE  Content(u, S) = Content(t, S)
  BY DEF Content

\* What Put does.
LEMMA PutFacts ==
    ASSUME NEW f, NEW n, NEW v
    PROVE  /\ DOMAIN Put(f, n, v) = DOMAIN f \cup {n}
           /\ Put(f, n, v)[n] = v
           /\ \A k \in DOMAIN f : k # n => Put(f, n, v)[k] = f[k]
  BY DEF Put

\* What Keep does.
LEMMA KeepFacts ==
    ASSUME NEW f, NEW S
    PROVE  /\ DOMAIN Keep(f, S) = DOMAIN f \cap S
           /\ \A k \in DOMAIN f \cap S : Keep(f, S)[k] = f[k]
  BY DEF Keep, Restrict

\* A table under a number that no file of S has.
LEMMA ContentPut ==
    ASSUME NEW t, NEW S, NEW n, NEW v, S \subseteq DOMAIN t, n \notin S
    PROVE  Content(Put(t, n, v), S) = Content(t, S)
  <1> DEFINE u == Put(t, n, v)
  <1>0. DOMAIN u = DOMAIN t \cup {n} /\ \A k \in DOMAIN t : k # n => u[k] = t[k]
    BY DEF Put
  <1>1. \A k \in S : k \in DOMAIN t /\ k \in DOMAIN u /\ u[k] = t[k]
    BY <1>0
  <1> HIDE DEF u
  <1>2. Content(u, S) = Content(t, S)
    BY <1>1, ContentSame
  <1> QED BY <1>2 DEF u

\* Keeping the tables S keeps what they hold.
LEMMA ContentKeep ==
    ASSUME NEW t, NEW S, NEW T, S \subseteq DOMAIN t, S \subseteq T
    PROVE  Content(Keep(t, T), S) = Content(t, S)
  <1> DEFINE u == Keep(t, T)
  <1>1. \A k \in S : k \in DOMAIN t /\ k \in DOMAIN u /\ u[k] = t[k]
    BY KeepFacts
  <1> HIDE DEF u
  <1>2. Content(u, S) = Content(t, S)
    BY <1>1, ContentSame
  <1> QED BY <1>2 DEF u

-----------------------------------------------------------------------------
(* Logs: what is in their records and what a torn record hides.            *)

\* A write is logged if it is in a record.
LEMMA LoggedElem ==
    ASSUME NEW r, NEW w
    PROVE  w \in Logged(r) <=> \E i \in DOMAIN r : w \in Range(r[i])
  BY DEF Logged

\* Only writes are logged.
LEMMA LoggedType ==
    ASSUME NEW r \in Seq(Seq(Writes))
    PROVE  Logged(r) \subseteq Writes
  BY DEF Logged, Range

\* What a torn record hides was logged.
LEMMA BehindInLogged ==
    ASSUME NEW r
    PROVE  Behind(r) \subseteq Logged(r)
  BY DEF Logged, Behind

\* What a log holds after a record was added.
LEMMA LoggedAppend ==
    ASSUME NEW r \in Seq(Seq(Writes)), NEW g \in Seq(Writes)
    PROVE  /\ Append(r, g) \in Seq(Seq(Writes))
           /\ Len(Append(r, g)) = Len(r) + 1
           /\ Logged(Append(r, g)) = Logged(r) \cup Range(g)
  <1>1. /\ Append(r, g) \in Seq(Seq(Writes))
        /\ Len(Append(r, g)) = Len(r) + 1
        /\ DOMAIN Append(r, g) = 1..(Len(r) + 1)
        /\ DOMAIN r = 1..Len(r)
        /\ \A i \in 1..Len(r) : Append(r, g)[i] = r[i]
        /\ Append(r, g)[Len(r) + 1] = g
    OBVIOUS
  <1>2. ASSUME NEW w
        PROVE  w \in Logged(Append(r, g)) <=> w \in Logged(r) \/ w \in Range(g)
    <2>1. w \in Logged(Append(r, g)) <=>
              \E i \in 1..(Len(r) + 1) : w \in Range(Append(r, g)[i])
      BY <1>1, LoggedElem
    <2>2. w \in Logged(r) <=> \E i \in 1..Len(r) : w \in Range(r[i])
      BY <1>1, LoggedElem
    <2>3. \A i : i \in 1..(Len(r) + 1) <=> i \in 1..Len(r) \/ i = Len(r) + 1
      OBVIOUS
    <2> QED BY <2>1, <2>2, <2>3, <1>1
  <1> QED BY <1>1, <1>2

\* The first k records.
LEMMA Prefix ==
    ASSUME NEW r \in Seq(Seq(Writes)), NEW k \in 0..Len(r)
    PROVE  /\ SubSeq(r, 1, k) \in Seq(Seq(Writes))
           /\ Len(SubSeq(r, 1, k)) = k
           /\ Logged(SubSeq(r, 1, k)) \subseteq Logged(r)
           /\ Behind(SubSeq(r, 1, k)) \subseteq Behind(r)
  <1>1. /\ SubSeq(r, 1, k) \in Seq(Seq(Writes))
        /\ Len(SubSeq(r, 1, k)) = k
        /\ DOMAIN SubSeq(r, 1, k) = 1..k
        /\ DOMAIN r = 1..Len(r)
        /\ \A i \in 1..k : SubSeq(r, 1, k)[i] = r[i]
    OBVIOUS
  <1>2. \A i \in 1..k : i \in 1..Len(r)
    OBVIOUS
  <1>3. Logged(SubSeq(r, 1, k)) \subseteq Logged(r)
    BY <1>1, <1>2 DEF Logged
  <1>4. Behind(SubSeq(r, 1, k)) \subseteq Behind(r)
    BY <1>1, <1>2 DEF Behind
  <1> QED BY <1>1, <1>3, <1>4

\* A longer prefix holds more.
LEMMA PrefixMono ==
    ASSUME NEW r \in Seq(Seq(Writes)), NEW k \in 0..Len(r), NEW j \in 0..k
    PROVE  /\ Logged(SubSeq(r, 1, j)) \subseteq Logged(SubSeq(r, 1, k))
           /\ SubSeq(SubSeq(r, 1, k), 1, j) = SubSeq(r, 1, j)
  <1>1. j \in 0..Len(r) /\ SubSeq(r, 1, k) \in Seq(Seq(Writes))
        /\ Len(SubSeq(r, 1, k)) = k
    BY Prefix
  <1>2. SubSeq(SubSeq(r, 1, k), 1, j) = SubSeq(r, 1, j)
    OBVIOUS
  <1>3. Logged(SubSeq(SubSeq(r, 1, k), 1, j)) \subseteq Logged(SubSeq(r, 1, k))
    BY <1>1, Prefix
  <1> QED BY <1>2, <1>3

\* All the records are the log.
LEMMA WholePrefix ==
    ASSUME NEW r \in Seq(Seq(Writes))
    PROVE  SubSeq(r, 1, Len(r)) = r
  OBVIOUS

\* A record more at the end leaves the prefixes as they are.
LEMMA PrefixAppend ==
    ASSUME NEW r \in Seq(Seq(Writes)), NEW g \in Seq(Writes), NEW k \in 0..Len(r)
    PROVE  SubSeq(Append(r, g), 1, k) = SubSeq(r, 1, k)
  OBVIOUS

\* A write is in the logs if it is in one.
LEMMA InLogsElem ==
    ASSUME NEW l, NEW first, NEW w
    PROVE  w \in InLogs(l, first) <=>
               \E n \in DOMAIN l : n >= first /\ w \in Logged(l[n])
  BY DEF InLogs

\* The same for what is sure to be found.
LEMMA SureInElem ==
    ASSUME NEW l, NEW first, NEW w
    PROVE  w \in SureIn(l, first) <=>
               \E n \in DOMAIN l : n >= first /\ w \in Logged(l[n]) \ Behind(l[n])
  BY DEF SureIn

\* What is sure to be found is there.
LEMMA SureInLogs ==
    ASSUME NEW l, NEW first
    PROVE  SureIn(l, first) \subseteq InLogs(l, first)
  BY InLogsElem, SureInElem

\* Later logs hold less.
LEMMA InLogsMono ==
    ASSUME NEW l, NEW a \in Nat, NEW b \in Nat, a <= b, DOMAIN l \subseteq Nat
    PROVE  InLogs(l, b) \subseteq InLogs(l, a)
  <1>1. \A n \in Nat : n >= b => n >= a
    OBVIOUS
  <1> QED BY <1>1, InLogsElem

\* Logs that grow hold more.
LEMMA InLogsGrow ==
    ASSUME NEW l, NEW m, NEW first,
           \A n \in DOMAIN l : n >= first =>
               n \in DOMAIN m /\ Logged(l[n]) \subseteq Logged(m[n])
    PROVE  InLogs(l, first) \subseteq InLogs(m, first)
  BY InLogsElem

-----------------------------------------------------------------------------
(* Versions and manifests.                                                 *)

\* The type of the manifest.
ManifestType == [base : Versions, edits : Seq(Records)]

\* The fields of a version.
LEMMA VersionFields ==
    ASSUME NEW v \in Versions
    PROVE  /\ v.l0 \subseteq Nat /\ v.deep \subseteq Nat /\ Files(v) \subseteq Nat
           /\ v.log \in Nat /\ v.last \in Nat /\ v.next \in Nat
  BY DEF Versions, Files

\* The fields of the version that an edit makes.
LEMMA ApplyFields ==
    ASSUME NEW v \in Versions, NEW e \in Edits
    PROVE  /\ ApplyEdit(v, e) \in Versions
           /\ Files(ApplyEdit(v, e)) = (Files(v) \ e.del) \cup (e.l0 \cup e.deep)
           /\ ApplyEdit(v, e).log = e.log
           /\ ApplyEdit(v, e).last = e.last
           /\ ApplyEdit(v, e).next = e.next
           /\ ApplyEdit(v, e).l0 = (v.l0 \ e.del) \cup e.l0
           /\ ApplyEdit(v, e).deep = (v.deep \ e.del) \cup e.deep
  BY DEF Versions, Edits, ApplyEdit, Files

\* The versions on disk are versions, and the latest is one of them.
LEMMA LedType ==
    ASSUME NEW m \in ManifestType
    PROVE  /\ Led(m) \subseteq Versions
           /\ Latest(m) \in Led(m)
  <1>1. m.base \in Versions /\ m.edits \in Seq(Records)
    BY DEF ManifestType
  <1>2. Len(m.edits) \in Nat /\ Len(m.edits) \in 0..Len(m.edits)
    BY <1>1
  <1>3. ASSUME NEW k \in 1..Len(m.edits) PROVE m.edits[k].version \in Versions
    <2>1. m.edits[k] \in Records
      BY <1>1
    <2> QED BY <2>1 DEF Records
  <1>4. ASSUME NEW k \in 0..Len(m.edits) PROVE Recovered(m, k) \in Versions
    <2>1. k = 0 \/ k \in 1..Len(m.edits)
      BY <1>1, <1>2
    <2> QED BY <2>1, <1>1, <1>3 DEF Recovered
  <1> QED BY <1>2, <1>4 DEF Led, Latest

\* Of a manifest that was just written or read there is one version.
LEMMA LedOne ==
    ASSUME NEW v
    PROVE  /\ Led([base |-> v, edits |-> <<>>]) = {v}
           /\ Latest([base |-> v, edits |-> <<>>]) = v
  <1> DEFINE m == [base |-> v, edits |-> <<>>]
  <1>1. m.base = v /\ m.edits = <<>> /\ Len(m.edits) = 0
    OBVIOUS
  <1>2. 0..Len(m.edits) = {0}
    BY <1>1
  <1>3. Recovered(m, 0) = v
    BY <1>1 DEF Recovered
  <1>4. Len(m.edits) = 0
    BY <1>1
  <1> HIDE DEF m
  <1> QED BY <1>2, <1>3, <1>4 DEF Led, Latest, m

\* A manifest without open edits leads to its base.
LEMMA LedEmpty ==
    ASSUME NEW m \in ManifestType, m.edits = <<>>
    PROVE  Led(m) = {m.base} /\ Latest(m) = m.base
  <1>1. Len(m.edits) = 0
    OBVIOUS
  <1>2. 0..Len(m.edits) = {0}
    BY <1>1
  <1>3. Recovered(m, 0) = m.base
    BY DEF Recovered
  <1> QED BY <1>1, <1>2, <1>3 DEF Led, Latest

\* One record is written.
LEMMA LedAppend ==
    ASSUME NEW m \in ManifestType, NEW r \in Records,
           NEW n, n = [m EXCEPT !.edits = Append(@, r)]
    PROVE  /\ n \in ManifestType
           /\ n.base = m.base
           /\ n.edits = Append(m.edits, r)
           /\ Led(n) = Led(m) \cup {r.version}
           /\ Latest(n) = r.version
  <1>0. m.edits \in Seq(Records) /\ Len(m.edits) \in Nat
    BY DEF ManifestType
  <1>1. n.base = m.base /\ n.edits = Append(m.edits, r)
    BY DEF ManifestType
  <1>2. n \in ManifestType
    BY DEF ManifestType
  <1>3. Len(n.edits) = Len(m.edits) + 1
    BY <1>0, <1>1
  <1>4. \A k \in 0..Len(m.edits) : Recovered(n, k) = Recovered(m, k)
    <2>1. \A k \in 1..Len(m.edits) : n.edits[k] = m.edits[k]
      BY <1>0, <1>1
    <2> QED BY <2>1, <1>0, <1>1 DEF Recovered
  <1>5. Recovered(n, Len(m.edits) + 1) = r.version
    <2>1. n.edits[Len(m.edits) + 1] = r
      BY <1>0, <1>1
    <2> QED BY <2>1, <1>0 DEF Recovered
  <1>6. \A k : k \in 0..Len(n.edits) <=>
                   k \in 0..Len(m.edits) \/ k = Len(m.edits) + 1
    BY <1>0, <1>1, <1>3
  <1>8. Led(n) = Led(m) \cup {r.version}
    BY <1>4, <1>5, <1>6 DEF Led
  <1> QED BY <1>1, <1>2, <1>3, <1>5, <1>8 DEF Latest

\* The first k records are sure to be found.
Folds(m, k, n) ==
    n = [base  |-> Recovered(m, k),
         edits |-> SubSeq(m.edits, k + 1, Len(m.edits))]

\* They can be left out of what CURRENT may lead to.
LEMMA LedFold ==
    ASSUME NEW m \in ManifestType, NEW k \in 0..Len(m.edits), NEW n, Folds(m, k, n)
    PROVE  /\ n \in ManifestType
           /\ Len(n.edits) = Len(m.edits) - k
           /\ Led(n) \subseteq Led(m)
           /\ Latest(n) = Latest(m)
  <1> DEFINE d == Len(m.edits) - k
  <1>0. m.edits \in Seq(Records) /\ Len(m.edits) \in Nat /\ k \in Nat /\ d \in 0..Len(m.edits)
    BY DEF ManifestType
  <1>1. n = [base |-> n.base, edits |-> n.edits]
        /\ n.base = Recovered(m, k) /\ n.edits = SubSeq(m.edits, k + 1, Len(m.edits))
    BY DEF Folds
  <1>2. /\ n.edits \in Seq(Records) /\ Len(n.edits) = d
        /\ \A i \in 1..d : n.edits[i] = m.edits[k + i]
    <2>1. k + 1 \in 1..(Len(m.edits) + 1)
      BY <1>0
    <2>2. \A i \in (k + 1)..Len(m.edits) : m.edits[i] \in Records
      BY <1>0
    <2>3. /\ SubSeq(m.edits, k + 1, Len(m.edits)) \in Seq(Records)
          /\ Len(SubSeq(m.edits, k + 1, Len(m.edits))) = d
      BY <1>0, <2>1, <2>2, SubSeqProperties
    <2>4. ASSUME NEW i \in 1..d PROVE SubSeq(m.edits, k + 1, Len(m.edits))[i] = m.edits[k + i]
      BY <1>0, <2>1, SubSeqProperties
    <2> QED BY <1>1, <2>3, <2>4
  <1>3. Recovered(m, k) \in Versions
    BY LedType DEF Led
  <1>4. n \in ManifestType
    BY <1>2, <1>3, <1>1 DEF ManifestType
  <1>5. ASSUME NEW j \in 0..d PROVE Recovered(n, j) = Recovered(m, k + j)
    <2>1. CASE j = 0
      BY <2>1, <1>0, <1>1 DEF Recovered
    <2>2. CASE j # 0
      <3>1. j \in 1..d /\ k + j # 0
        BY <2>2, <1>0
      <3> QED BY <3>1, <2>2, <1>2 DEF Recovered
    <2> QED BY <2>1, <2>2
  <1>6. \A j \in 0..d : k + j \in 0..Len(m.edits)
    BY <1>0
  <1>7. Led(n) \subseteq Led(m)
    BY <1>2, <1>5, <1>6 DEF Led
  <1>8. k + d = Len(m.edits) /\ d \in 0..d
    BY <1>0
  <1>9. Latest(n) = Latest(m)
    BY <1>2, <1>5, <1>8 DEF Latest
  <1> HIDE DEF d
  <1> QED BY <1>2, <1>4, <1>7, <1>9 DEF d

\* The number of records that are sure to be found is a number of records, and
\* all of them if none is torn.
LEMMA EndsLeast ==
    ASSUME NEW e \in Seq(Records)
    PROVE  /\ Ends(e) \subseteq 0..Len(e)
           /\ Min(Ends(e)) \in 0..Len(e)
           /\ Whole(e) => Min(Ends(e)) = Len(e)
  <1>1. Len(e) \in Nat /\ Len(e) \in Ends(e) /\ Ends(e) \subseteq 0..Len(e)
    BY DEF Ends
  <1>2. PICK x \in Ends(e) : \A y \in Ends(e) : x <= y
    BY <1>1, LeastNat
  <1>3. Min(Ends(e)) \in Ends(e)
    <2>1. \E z \in Ends(e) : \A y \in Ends(e) : z <= y
      BY <1>2
    <2> QED BY <2>1 DEF Min
  <1>4. ASSUME Whole(e) PROVE Min(Ends(e)) = Len(e)
    <2>1. ASSUME NEW k \in 0..Len(e), k # Len(e) PROVE Whole(SubSeq(e, 1, k + 1))
      <3>1. k + 1 \in 0..Len(e)
        BY <1>1, <2>1
      <3>2. /\ DOMAIN SubSeq(e, 1, k + 1) = 1..(k + 1)
            /\ \A i \in 1..(k + 1) : i \in 1..Len(e) /\ SubSeq(e, 1, k + 1)[i] = e[i]
        BY <3>1
      <3>3. DOMAIN e = 1..Len(e)
        OBVIOUS
      <3> QED BY <1>4, <3>2, <3>3 DEF Whole
    <2> QED BY <1>3, <2>1 DEF Ends
  <1> QED BY <1>1, <1>3, <1>4

\* Two versions: DB::Open has written a manifest, and CURRENT still leads to
\* the old one.
LEMMA LedTwo ==
    ASSUME NEW m \in ManifestType, NEW v,
           m.edits = <<[torn |-> FALSE, version |-> v]>>
    PROVE  /\ Led(m) = {m.base, v}
           /\ Latest(m) = v
           /\ Len(m.edits) = 1
           /\ Recovered(m, 0) = m.base
           /\ Recovered(m, 1) = v
           /\ Whole(m.edits)
  <1>1. Len(m.edits) = 1 /\ m.edits[1] = [torn |-> FALSE, version |-> v]
        /\ DOMAIN m.edits = {1}
    OBVIOUS
  <1>2. Recovered(m, 0) = m.base /\ Recovered(m, 1) = v
    BY <1>1 DEF Recovered
  <1>3. 0..Len(m.edits) = {0, 1}
    BY <1>1
  <1>4. Whole(m.edits)
    BY <1>1 DEF Whole
  <1> QED BY <1>1, <1>2, <1>3, <1>4 DEF Led, Latest

-----------------------------------------------------------------------------
(* The type invariant, variable by variable.                               *)

\* The part of the type invariant about the logs,
LogType(l, s) ==
    /\ \A n \in DOMAIN l : n \in Nat /\ l[n] \in Seq(Seq(Writes)) /\ s[n] \in 0..Len(l[n])
    /\ DOMAIN s = DOMAIN l

\* the tables,
TableType(t) == \A n \in DOMAIN t : n \in Nat /\ t[n] \subseteq Writes

\* the callers,
CallType ==
    /\ state \in [Writes -> {"new", "queued", "ok", "error", "gone"}]
    /\ sequence \in [Writes -> Nat]
    /\ writers \in Seq(Writes)
    /\ group \in Seq(Writes)
    /\ step \in {"front", "asleep", "add", "sync", "insert"}

\* the open database,
OpenType ==
    /\ db \in {"open", "recovering", "saving", "down", "corrupt"}
    /\ mem \subseteq Writes /\ imm \subseteq Writes
    /\ versions \in Versions
    /\ logfile \in Nat
    /\ pending \subseteq Nat /\ held \subseteq Nat /\ todo \subseteq DOMAIN logs
    /\ bgError \in BOOLEAN /\ scheduled \in BOOLEAN

\* the background thread,
ThreadType ==
    /\ bg \in {"idle", "build", "merge", "log", "sync"}
    /\ building \in Nat
    /\ compact \in [inputs : SUBSET Nat, out : Nat, done : BOOLEAN]
    /\ edit \in Edits

\* and the bounds.
CountType ==
    crashes \in 0..MaxCrashes /\ faults \in 0..MaxFaults /\ reads \in 0..MaxReads

\* The type invariant is made of these parts,
LEMMA Types ==
    TypeOK <=> /\ LogType(logs, synced)
               /\ TableType(tables)
               /\ manifest \in ManifestType
               /\ CallType /\ OpenType /\ ThreadType /\ CountType
  BY DEF TypeOK, LogType, TableType, ManifestType, CallType, OpenType, ThreadType,
         CountType

\* and so is its primed form.
LEMMA TypesNext ==
    TypeOK' <=> /\ LogType(logs', synced')
                /\ TableType(tables')
                /\ manifest' \in ManifestType
                /\ CallType' /\ OpenType' /\ ThreadType' /\ CountType'
  BY DEF TypeOK, LogType, TableType, ManifestType, CallType, OpenType, ThreadType,
         CountType

\* A new table is a table.
LEMMA PutTable ==
    ASSUME NEW t, TableType(t), NEW n \in Nat, NEW S, S \subseteq Writes
    PROVE  TableType(Put(t, n, S))
  BY DEF TableType, Put

\* Tables that are kept are tables.
LEMMA KeepTable ==
    ASSUME NEW t, TableType(t), NEW S
    PROVE  TableType(Keep(t, S))
  BY DEF TableType, Keep, Restrict

\* Tables hold writes.
LEMMA ContentType ==
    ASSUME NEW t, TableType(t), NEW S
    PROVE  Content(t, S) \subseteq Writes
  BY DEF TableType, Content

\* Logs hold writes.
LEMMA InLogsType ==
    ASSUME NEW l, NEW s, LogType(l, s), NEW first
    PROVE  InLogs(l, first) \subseteq Writes
  BY LoggedType, InLogsElem DEF LogType

\* A new log is a log.
LEMMA PutLog ==
    ASSUME NEW l, NEW s, LogType(l, s), NEW n \in Nat
    PROVE  LogType(Put(l, n, <<>>), Put(s, n, 0))
  <1>1. <<>> \in Seq(Seq(Writes)) /\ 0 \in 0..Len(<<>>)
    OBVIOUS
  <1>2. DOMAIN Put(l, n, <<>>) = DOMAIN l \cup {n} /\ DOMAIN Put(s, n, 0) = DOMAIN s \cup {n}
        /\ Put(l, n, <<>>)[n] = <<>> /\ Put(s, n, 0)[n] = 0
        /\ (\A k \in DOMAIN l : k # n => Put(l, n, <<>>)[k] = l[k])
        /\ (\A k \in DOMAIN s : k # n => Put(s, n, 0)[k] = s[k])
    BY DEF Put
  <1> QED BY <1>1, <1>2 DEF LogType

\* Logs that are kept are logs.
LEMMA KeepLog ==
    ASSUME NEW l, NEW s, LogType(l, s), NEW S
    PROVE  LogType(Keep(l, S), Keep(s, S))
  BY DEF LogType, Keep, Restrict

-----------------------------------------------------------------------------
(* What a step leaves alone.                                               *)

\* The current version has the same files; its counters may have moved on.
Grown ==
    /\ SameFiles(versions', versions)
    /\ versions.last <= versions'.last
    /\ versions.next <= versions'.next

\* The logs from the number first on keep their records, and what is synced.
LogsGrow(first) ==
    \A n \in DOMAIN logs : n >= first =>
        /\ n \in DOMAIN logs'
        /\ Logged(logs[n]) \subseteq Logged(logs'[n])
        /\ Logged(SubSeq(logs[n], 1, synced[n])) \subseteq
               Logged(SubSeq(logs'[n], 1, synced'[n]))

\* The tables of the current version and of the manifest keep what they hold.
TablesKept ==
    \A f \in DOMAIN tables :
        f \in Files(versions) \/ (\E v \in Led(manifest) : f \in Files(v)) =>
            f \in DOMAIN tables' /\ tables'[f] = tables[f]

\* Tables that are kept hold what they held, in the current version and in
\* those on disk.
LEMMA KeptContent ==
    ASSUME Numbers, Manifested, TablesKept
    PROVE  /\ Files(versions) \subseteq DOMAIN tables'
           /\ Content(tables', Files(versions)) = Content(tables, Files(versions))
           /\ \A v \in Led(manifest) :
                  /\ Files(v) \subseteq DOMAIN tables'
                  /\ Content(tables', Files(v)) = Content(tables, Files(v))
  <1>1. \A f \in Files(versions) : f \in DOMAIN tables /\ f \in DOMAIN tables'
                                   /\ tables'[f] = tables[f]
    BY DEF Numbers, TablesKept
  <1>2. ASSUME NEW v \in Led(manifest)
        PROVE  \A f \in Files(v) : f \in DOMAIN tables /\ f \in DOMAIN tables'
                                   /\ tables'[f] = tables[f]
    BY DEF Manifested, Version, TablesKept
  <1>3. Content(tables', Files(versions)) = Content(tables, Files(versions))
    BY <1>1, ContentSame
  <1>4. ASSUME NEW v \in Led(manifest)
        PROVE  Content(tables', Files(v)) = Content(tables, Files(v))
    BY <1>2, ContentSame
  <1> QED BY <1>1, <1>2, <1>3, <1>4

\* A version that has the same files has the same set of files.
LEMMA GrownFiles ==
    ASSUME Grown
    PROVE  /\ Files(versions') = Files(versions)
           /\ versions'.log = versions.log
  BY DEF Grown, SameFiles, Files

\* Logs that grow lose nothing, nor do their synced parts.
LEMMA SafeGrows ==
    ASSUME NEW first, LogsGrow(first)
    PROVE  /\ InLogs(logs, first) \subseteq InLogs(logs', first)
           /\ InLogs(Safe(logs, synced), first) \subseteq InLogs(Safe(logs', synced'), first)
  <1>1. InLogs(logs, first) \subseteq InLogs(logs', first)
    BY InLogsElem DEF LogsGrow
  <1>2. /\ DOMAIN Safe(logs, synced) = DOMAIN logs
        /\ DOMAIN Safe(logs', synced') = DOMAIN logs'
        /\ \A n \in DOMAIN logs : Safe(logs, synced)[n] = SubSeq(logs[n], 1, synced[n])
        /\ \A n \in DOMAIN logs' : Safe(logs', synced')[n] = SubSeq(logs'[n], 1, synced'[n])
    BY DEF Safe
  <1> DEFINE a == Safe(logs, synced)
             b == Safe(logs', synced')
  <1>3. \A n \in DOMAIN a : n >= first =>
            n \in DOMAIN b /\ Logged(a[n]) \subseteq Logged(b[n])
    BY <1>2 DEF LogsGrow
  <1> HIDE DEF a, b
  <1>4. InLogs(a, first) \subseteq InLogs(b, first)
    BY <1>3, InLogsGrow
  <1> QED BY <1>1, <1>4 DEF a, b

\* Logs that grow from a on grow from b on.
LEMMA LogsGrowLater ==
    ASSUME NEW a \in Nat, NEW b \in Nat, a <= b, DOMAIN logs \subseteq Nat, LogsGrow(a)
    PROVE  LogsGrow(b)
  BY DEF LogsGrow

\* Logs that are unchanged grow.
LEMMA SameLogs ==
    ASSUME UNCHANGED <<logs, synced>>, NEW first
    PROVE  LogsGrow(first)
  BY DEF LogsGrow

\* Quiet, for a step of the open database.
LEMMA FrameQuiet ==
    ASSUME Quiet, db = "open", UNCHANGED <<db, todo>>
    PROVE  Quiet'
  BY DEF Quiet

\* Recovering, for a step of the open database.
LEMMA FrameRecovering ==
    ASSUME db = "open", UNCHANGED db
    PROVE  Recovering'
  BY DEF Recovering

\* Queued, for a step that leaves the callers alone.
LEMMA FrameQueued ==
    ASSUME Queued, UNCHANGED <<state, writers, group, logfile>>,
           step' = step \/ (step = "asleep" /\ step' = "front"),
           logs'[logfile] = logs[logfile], synced'[logfile] = synced[logfile]
    PROVE  Queued'
  BY DEF Queued, Grouped, Logging

\* Numbers, for a step that takes new numbers only.
LEMMA FrameNumbers ==
    ASSUME TypeOK, Numbers, Grown, TypeOK', db = "open", UNCHANGED <<db, logfile>>,
           DOMAIN logs' \subseteq DOMAIN logs, logfile \in DOMAIN logs',
           Files(versions) \cap DOMAIN tables \subseteq DOMAIN tables',
           held' \subseteq DOMAIN tables', bgError' => faults' > 0
    PROVE  Numbers'
  <1>1. versions \in Versions /\ versions' \in Versions
    BY DEF TypeOK
  <1>2. versions.next \in Nat /\ versions'.next \in Nat /\ Files(versions) \subseteq Nat
        /\ logfile \in Nat
    BY <1>1, VersionFields DEF TypeOK
  <1>3. Files(versions') = Files(versions) /\ versions'.log = versions.log
        /\ versions.next <= versions'.next
    BY GrownFiles DEF Grown
  <1>4. \A f \in Files(versions') : f \in DOMAIN tables' /\ f < versions'.next
    BY <1>2, <1>3 DEF Numbers
  <1>5. versions'.log <= logfile'
    BY <1>3 DEF Numbers
  <1>6. logfile' < versions'.next
    BY <1>2, <1>3 DEF Numbers
  <1>7. \A n \in DOMAIN logs' : n <= logfile'
    BY DEF Numbers
  <1> QED BY <1>4, <1>5, <1>6, <1>7 DEF Numbers

\* Clean, for a step that leaves the manifest alone.
LEMMA FrameClean ==
    ASSUME Clean, UNCHANGED <<db, manifest, bg, edit>>, SameFiles(versions', versions),
           bgError => bgError'
    PROVE  Clean'
  BY DEF Clean, SameFiles

\* Merging, for a step that leaves the merge alone.
LEMMA FrameMerging ==
    ASSUME TypeOK, TypeOK', Merging, Grown, UNCHANGED <<compact, bg, building, manifest>>,
           DOMAIN tables \subseteq DOMAIN tables',
           \A n \in DOMAIN tables : tables'[n] = tables[n],
           \A n \in pending : n = compact.out => n \in pending',
           Numbers
    PROVE  Merging'
  <1>1. versions \in Versions /\ versions' \in Versions
    BY DEF TypeOK
  <1>2. versions.next \in Nat /\ versions'.next \in Nat /\ compact.out \in Nat
    BY <1>1, VersionFields DEF TypeOK
  <1>3. Files(versions') = Files(versions) /\ versions.next <= versions'.next
    BY GrownFiles DEF Grown
  <1>4. compact.inputs \subseteq DOMAIN tables
    BY DEF Merging, Numbers
  <1>5. Content(tables', compact.inputs) = Content(tables, compact.inputs)
    BY <1>4, ContentSame
  <1>6. Led(manifest') = Led(manifest)
    OBVIOUS
  <1>7. compact.out # 0 => compact.out < versions'.next
    BY <1>2, <1>3 DEF Merging
  <1> QED BY <1>3, <1>5, <1>6, <1>7 DEF Merging, Recording

\* Flushing, for a step that leaves the flush alone.
LEMMA FrameFlushing ==
    ASSUME TypeOK, TypeOK', Flushing, Grown,
           UNCHANGED <<compact, bg, building, manifest, imm>>,
           building \in DOMAIN tables =>
               building \in DOMAIN tables' /\ tables'[building] = tables[building]
    PROVE  Flushing'
  <1>1. versions \in Versions /\ versions' \in Versions
    BY DEF TypeOK
  <1>2. versions.next \in Nat /\ versions'.next \in Nat /\ building \in Nat
    BY <1>1, VersionFields DEF TypeOK
  <1>3. Files(versions') = Files(versions) /\ versions.next <= versions'.next
    BY GrownFiles DEF Grown
  <1>4. building # 0 => building < versions'.next
    BY <1>2, <1>3 DEF Flushing
  <1> QED BY <1>3, <1>4 DEF Flushing, Recording

\* Editing, for a step that leaves the edit alone.
LEMMA FrameEditing ==
    ASSUME TypeOK, TypeOK', Editing, Grown,
           UNCHANGED <<db, bg, building, edit, logfile, imm, compact, tables, manifest>>,
           \A w \in imm \cup Content(tables, Files(versions)) : sequence'[w] = sequence[w]
    PROVE  Editing'
  <1> SUFFICES ASSUME db = "open", Recording
               PROVE  Editing'
    BY DEF Editing, Recording
  <1>1. versions \in Versions /\ versions' \in Versions /\ edit \in Edits
    BY DEF TypeOK
  <1>2. versions.next \in Nat /\ versions'.next \in Nat /\ edit.next \in Nat
        /\ versions.last \in Nat /\ versions'.last \in Nat /\ edit.last \in Nat
    BY <1>1, VersionFields DEF Edits
  <1>3. Files(versions') = Files(versions) /\ versions'.log = versions.log
        /\ versions.next <= versions'.next /\ versions.last <= versions'.last
    BY GrownFiles DEF Grown
  <1>4. edit.last <= versions.last /\ edit.next <= versions.next
    BY DEF Editing
  <1>5. edit.last <= versions'.last /\ edit.next <= versions'.next
    BY <1>2, <1>3, <1>4
  <1>6. \A w \in imm : sequence'[w] = sequence[w]
    OBVIOUS
  <1>7. \A w \in Content(tables, Files(versions)) : sequence'[w] = sequence[w]
    OBVIOUS
  <1> HIDE DEF Recording
  <1>8. building # 0 => \A w \in imm' : sequence'[w] <= edit'.last
    BY <1>6 DEF Editing
  <1>9. \A w \in Content(tables', Files(versions')) : sequence'[w] <= edit'.last
    BY <1>3, <1>7 DEF Editing
  <1> QED BY <1>3, <1>5, <1>8, <1>9 DEF Editing

\* Manifested, for a step that leaves the manifest alone.
LEMMA FrameManifested ==
    ASSUME TypeOK, TypeOK', Manifested, Numbers, Grown, db = "open",
           UNCHANGED <<db, manifest, logfile>>, imm' \subseteq imm,
           TablesKept, \A first : LogsGrow(first),
           \A w \in Content(tables, DOMAIN tables) : sequence'[w] = sequence[w]
    PROVE  Manifested'
  <1>0. /\ Content(tables', Files(versions')) = Content(tables, Files(versions))
        /\ Content(tables', Files(Latest(manifest))) = Content(tables, Files(Latest(manifest)))
        /\ Latest(manifest') = Latest(manifest)
    BY KeptContent, GrownFiles, LedType, Types
  <1> SUFFICES ASSUME NEW v \in Led(manifest)
               PROVE  Version(v)' /\ OpenVersion(v)'
    BY <1>0, GrownFiles DEF Manifested, Ahead
  <1>1. versions \in Versions /\ versions' \in Versions /\ v \in Versions
    BY LedType, Types DEF TypeOK
  <1>2. versions.next \in Nat /\ versions'.next \in Nat /\ v.next \in Nat
        /\ versions.last \in Nat /\ versions'.last \in Nat /\ v.last \in Nat
        /\ versions.log \in Nat /\ v.log \in Nat
    BY <1>1, VersionFields
  <1>3. Files(versions') = Files(versions) /\ versions'.log = versions.log
        /\ versions.next <= versions'.next /\ versions.last <= versions'.last
    BY GrownFiles DEF Grown
  <1>4. Version(v) /\ OpenVersion(v)
    BY DEF Manifested
  <1>5. Content(tables, Files(v)) \subseteq Content(tables, DOMAIN tables)
    BY DEF Content
  <1>6. /\ Files(v) \subseteq DOMAIN tables'
        /\ Content(tables', Files(v)) = Content(tables, Files(v))
        /\ Content(tables', Files(versions)) = Content(tables, Files(versions))
    BY KeptContent
  <1>7. Version(v)'
    BY <1>4, <1>5, <1>6 DEF Version
  <1>8. LogsGrow(v.log)
    OBVIOUS
  <1>9. /\ InLogs(logs, v.log) \subseteq InLogs(logs', v.log)
        /\ InLogs(Safe(logs, synced), v.log) \subseteq InLogs(Safe(logs', synced'), v.log)
    BY <1>8, SafeGrows
  <1>10. v.next <= versions'.next /\ v.last <= versions'.last
    BY <1>2, <1>3, <1>4 DEF OpenVersion
  <1>11. Flushed' \subseteq Flushed
    BY <1>3, <1>6 DEF Flushed
  <1>12. OpenVersion(v)'
    BY <1>4, <1>6, <1>9, <1>10, <1>11 DEF OpenVersion
  <1> QED BY <1>7, <1>12

\* Memory, for a step that acknowledges nothing and loses nothing.
LEMMA FrameMemory ==
    ASSUME Memory, Numbers, db = "open", UNCHANGED <<db, mem, logfile>>,
           Acked' \subseteq Acked,
           imm \cup Content(tables, Files(versions)) \subseteq
               imm' \cup Content(tables', Files(versions')),
           \A first : LogsGrow(first)
    PROVE  Memory'
  <1>1. logfile \in DOMAIN logs /\ logfile >= versions.log
    BY DEF Numbers
  <1>2. /\ logfile \in DOMAIN logs'
        /\ Logged(logs[logfile]) \subseteq Logged(logs'[logfile])
        /\ Logged(SubSeq(logs[logfile], 1, synced[logfile])) \subseteq
               Logged(SubSeq(logs'[logfile], 1, synced'[logfile]))
    BY <1>1 DEF LogsGrow
  <1>3. /\ Safe(logs, synced)[logfile] = SubSeq(logs[logfile], 1, synced[logfile])
        /\ Safe(logs', synced')[logfile] = SubSeq(logs'[logfile], 1, synced'[logfile])
    BY <1>1, <1>2 DEF Safe
  <1>4. /\ mem \subseteq Logged(logs'[logfile])
        /\ mem \cap SyncWrites \subseteq Logged(Safe(logs', synced')[logfile])
    BY <1>2, <1>3 DEF Memory
  <1>5. Acked' \subseteq mem \cup imm' \cup Content(tables', Files(versions'))
    BY DEF Memory
  <1> QED BY <1>4, <1>5 DEF Memory

\* Stored, for a step that stores nothing new.
LEMMA FrameStored ==
    ASSUME Stored, UNCHANGED <<state, group>>,
           step' = step \/ (step = "asleep" /\ step' = "front"),
           mem' \cup imm' \cup Content(tables', DOMAIN tables') \subseteq
               mem \cup imm \cup Content(tables, DOMAIN tables),
           InLogs(logs', 0) \subseteq InLogs(logs, 0)
    PROVE  Stored'
  BY DEF Stored, Logging

\* When nothing becomes live.
LEMMA LiveShrinks ==
    ASSUME InLogs(logs', 0) \subseteq Live,
           mem' \cup imm' \subseteq Live,
           Content(tables', Files(versions')) \subseteq Live,
           \A v \in Led(manifest') : Content(tables', Files(v)) \subseteq Live
    PROVE  Live' \subseteq Live
  BY DEF Live

\* What is live.
LEMMA LiveParts ==
    /\ InLogs(logs, 0) \subseteq Live
    /\ mem \cup imm \subseteq Live
    /\ Content(tables, Files(versions)) \subseteq Live
    /\ \A v \in Led(manifest) : Content(tables, Files(v)) \subseteq Live
  BY DEF Live

\* Only writes are live.
LEMMA LiveType ==
    ASSUME TypeOK
    PROVE  Live \subseteq Writes
  <1>1. LogType(logs, synced) /\ TableType(tables) /\ mem \subseteq Writes /\ imm \subseteq Writes
    BY Types DEF OpenType
  <1> HIDE DEF TypeOK
  <1>2. InLogs(logs, 0) \subseteq Writes
    BY <1>1, InLogsType
  <1>3. \A S : Content(tables, S) \subseteq Writes
    BY <1>1, ContentType
  <1> QED BY <1>1, <1>2, <1>3 DEF Live

\* What is live is stored.
LEMMA LiveStored ==
    ASSUME TypeOK
    PROVE  Live \subseteq mem \cup imm \cup Content(tables, DOMAIN tables)
                              \cup InLogs(logs, 0)
  <1>1. \A S : Content(tables, S) \subseteq Content(tables, DOMAIN tables)
    BY DEF Content
  <1> QED BY <1>1 DEF Live

\* No number is given out, and no write becomes live.
LEMMA FrameSequenced ==
    ASSUME TypeOK, TypeOK', Sequenced, Live' \subseteq Live, db = "open",
           UNCHANGED <<db, sequence>>, versions.last <= versions'.last,
           Len(group) <= Len(group'),
           \A w \in Live : state[w] = "queued" => state'[w] = "queued"
    PROVE  Sequenced'
  <1>1. versions.last \in Nat /\ versions'.last \in Nat /\ Len(group) \in Nat
        /\ Len(group') \in Nat
    <2>1. versions \in Versions /\ versions' \in Versions /\ group \in Seq(Writes)
          /\ group' \in Seq(Writes)
      BY DEF TypeOK
    <2> QED BY <2>1, VersionFields
  <1>2. \A w \in Live : sequence[w] \in Nat
    BY LiveType DEF TypeOK
  <1>3. \E b \in Nat : \A w \in Writes : sequence'[w] <= b
    BY DEF Sequenced
  <1>4. \A v, w \in Live' : v # w => sequence'[v] # sequence'[w]
    BY DEF Sequenced
  <1>5. ASSUME NEW w \in Live'
        PROVE  /\ state'[w] # "queued" => sequence'[w] <= versions'.last
               /\ sequence'[w] <= versions'.last + Len(group')
    <2>1. w \in Live /\ sequence[w] \in Nat
      BY <1>2
    <2>2. /\ state[w] # "queued" => sequence[w] <= versions.last
          /\ sequence[w] <= versions.last + Len(group)
      BY <2>1 DEF Sequenced
    <2>3. sequence'[w] <= versions'.last + Len(group')
      BY <1>1, <2>1, <2>2
    <2>4. ASSUME state'[w] # "queued" PROVE sequence'[w] <= versions'.last
      <3>1. sequence[w] <= versions.last
        BY <2>1, <2>2, <2>4
      <3> QED BY <3>1, <2>1, <1>1
    <2> QED BY <2>3, <2>4
  <1> QED BY <1>3, <1>4, <1>5 DEF Sequenced

-----------------------------------------------------------------------------
(* DBImpl::Write: the queue.                                               *)

\* What the steps of the writers have in common: they leave the tables, the
\* manifest and the background thread alone.
LEMMA WriterFrame ==
    ASSUME IInv, TypeOK', db = "open",
           UNCHANGED <<tables, manifest, db, imm, logfile, pending, held, thread, todo>>,
           Grown, DOMAIN logs' = DOMAIN logs, \A first : LogsGrow(first),
           bgError => bgError', bgError' => faults' > 0,
           \A w \in imm \cup Content(tables, DOMAIN tables) : sequence'[w] = sequence[w]
    PROVE  /\ Quiet' /\ Numbers' /\ Manifested' /\ Clean' /\ Merging' /\ Flushing'
           /\ Editing' /\ Recovering'
  <1>1. UNCHANGED <<bg, building, compact, edit>>
    BY DEF thread
  <1>2. logfile \in DOMAIN logs /\ held \subseteq DOMAIN tables
    BY DEF IInv, Numbers
  <1>3. Quiet' /\ Recovering'
    BY FrameQuiet, FrameRecovering DEF IInv
  <1>4. Numbers'
    BY <1>2, FrameNumbers DEF IInv
  <1>5. Manifested'
    <2>1. TablesKept
      BY DEF TablesKept
    <2> QED BY <2>1, FrameManifested DEF IInv
  <1>6. Clean'
    BY <1>1, FrameClean DEF IInv, Grown
  <1>7. Merging'
    BY <1>1, FrameMerging DEF IInv
  <1>8. Flushing'
    BY <1>1, FrameFlushing DEF IInv
  <1>9. Content(tables, Files(versions)) \subseteq Content(tables, DOMAIN tables)
    BY DEF Content
  <1>10. Editing'
    BY <1>1, <1>9, FrameEditing DEF IInv
  <1> QED BY <1>3, <1>4, <1>5, <1>6, <1>7, <1>8, <1>10

\* Before the log is written, only the queue changes.
LEMMA QueueFrame ==
    ASSUME IInv, TypeOK', db = "open", Acked' \subseteq Acked,
           UNCHANGED <<disk, sequence, db, mem, imm, versions, logfile, pending, held,
                       bgError, thread, todo>>,
           faults <= faults'
    PROVE  /\ Quiet' /\ Numbers' /\ Manifested' /\ Clean' /\ Merging' /\ Flushing'
           /\ Editing' /\ Memory' /\ Recovering'
  <1>1. UNCHANGED <<logs, synced, tables, manifest>>
    BY DEF disk
  <1>2. versions \in Versions /\ faults \in Nat /\ faults' \in Nat
    BY BoundsAssumption DEF IInv, TypeOK
  <1>3. Grown
    BY <1>2, VersionFields DEF Grown, SameFiles
  <1>4. \A first : LogsGrow(first)
    BY <1>1, SameLogs
  <1>5. bgError' => faults' > 0
    BY <1>2 DEF IInv, Numbers
  <1>6. /\ Quiet' /\ Numbers' /\ Manifested' /\ Clean' /\ Merging' /\ Flushing'
        /\ Editing' /\ Recovering'
    BY <1>1, <1>3, <1>4, <1>5, WriterFrame
  <1>7. Memory'
    BY <1>1, <1>4, FrameMemory DEF IInv
  <1> QED BY <1>6, <1>7

\* A call joins the queue.
LEMMA StepWrite ==
    ASSUME IInv, NEW w \in Writes, Write(w)
    PROVE  IInv'
  <1>1. /\ db = "open" /\ state[w] = "new"
        /\ state' = [state EXCEPT ![w] = "queued"]
        /\ writers' = Append(writers, w)
        /\ UNCHANGED <<disk, sequence, group, step, db, mem, imm, versions, logfile,
                       pending, held, bgError, scheduled, thread, todo, counts>>
    BY DEF Write
  <1>2. UNCHANGED <<logs, synced, tables, manifest, bg, building, compact, edit, crashes,
                    faults, reads>>
    BY <1>1 DEF disk, thread, counts
  <1>3. CallType
    BY Types DEF IInv
  <1>4. CallType'
    BY <1>1, <1>3 DEF CallType
  <1>5. TypeOK'
    <2>1. /\ LogType(logs, synced) /\ TableType(tables) /\ manifest \in ManifestType
          /\ OpenType /\ ThreadType /\ CountType
      BY Types DEF IInv
    <2>2. OpenType' /\ ThreadType' /\ CountType'
      BY <1>1, <1>2, <2>1 DEF OpenType, ThreadType, CountType
    <2> QED BY <1>2, <1>4, <2>1, <2>2, TypesNext
  <1>6. \A u \in Writes : u # w => state'[u] = state[u]
    BY <1>1, <1>3 DEF CallType
  <1>7. state'[w] = "queued"
    BY <1>1, <1>3 DEF CallType
  <1>8. Acked' \subseteq Acked
    BY <1>6, <1>7 DEF Acked
  <1>9. faults <= faults'
    BY <1>2, BoundsAssumption DEF IInv, TypeOK
  <1>10. /\ Quiet' /\ Numbers' /\ Manifested' /\ Clean' /\ Merging' /\ Flushing'
         /\ Editing' /\ Memory' /\ Recovering'
    BY <1>1, <1>5, <1>8, <1>9, QueueFrame
  <1>11. Queued'
    <2>1. w \notin Range(writers)
      BY <1>1 DEF IInv, Queued
    <2>2. /\ writers \in Seq(Writes) /\ Len(writers) \in Nat /\ DOMAIN writers = 1..Len(writers)
          /\ Len(writers') = Len(writers) + 1 /\ DOMAIN writers' = 1..(Len(writers) + 1)
          /\ \A i \in 1..Len(writers) : writers'[i] = writers[i]
          /\ writers'[Len(writers) + 1] = w
      BY <1>1, <1>3 DEF CallType
    <2>3. \A i \in 1..Len(writers) : writers[i] # w
      BY <2>1, <2>2 DEF Range
    <2>4. \A i \in 1..(Len(writers) + 1) : i \in 1..Len(writers) \/ i = Len(writers) + 1
      BY <2>2
    <2>5. \A i, j \in DOMAIN writers' : writers'[i] = writers'[j] => i = j
      BY <2>2, <2>3, <2>4 DEF IInv, Queued
    <2>6. \A u : u \in Range(writers') <=> u \in Range(writers) \/ u = w
      BY <2>2, <2>4 DEF Range
    <2>7. \A u \in Writes : state'[u] = "queued" <=> u \in Range(writers')
      BY <2>6, <1>6, <1>7 DEF IInv, Queued
    <2>8. Grouped => Len(group) <= Len(writers') /\ \A i \in 1..Len(group) : group[i] = writers'[i]
      <3>1. Len(group) \in Nat
        BY <1>3 DEF CallType
      <3> QED BY <2>2, <3>1 DEF IInv, Queued
    <2> QED BY <1>1, <1>2, <2>5, <2>7, <2>8 DEF IInv, Queued, Grouped, Logging
  <1>12. Stored'
    <2>1. \A u \in mem \cup imm \cup Content(tables, DOMAIN tables) \cup InLogs(logs, 0) :
              u \in Writes
      <3>1. LogType(logs, synced) /\ TableType(tables) /\ mem \subseteq Writes /\ imm \subseteq Writes
        BY Types DEF IInv, OpenType
      <3> QED BY <3>1, InLogsType, ContentType
    <2>2. \A u \in mem \cup imm \cup Content(tables, DOMAIN tables) \cup InLogs(logs, 0) :
              state'[u] = state[u]
      BY <1>1, <1>6, <2>1 DEF IInv, Stored
    <2> QED BY <1>1, <1>2, <2>2 DEF IInv, Stored, Logging
  <1>13. Sequenced'
    <2>1. Live' \subseteq Live
      BY <1>1, <1>2 DEF Live
    <2>2. \A u \in Live : state[u] = "queued" => state'[u] = "queued"
      BY <1>6, <1>7, LiveType DEF IInv
    <2>3. versions.last <= versions'.last /\ Len(group) <= Len(group')
      BY <1>1, VersionFields DEF IInv, TypeOK
    <2> QED BY <1>1, <1>5, <2>1, <2>2, <2>3, FrameSequenced DEF IInv
  <1> QED BY <1>5, <1>10, <1>11, <1>12, <1>13 DEF IInv

\* The writer in front is told of an error: nothing of its batch was logged.
LEMMA StepRefuse ==
    ASSUME IInv, InFront, refuse, CountType', faults <= faults'
    PROVE  IInv'
  <1>1. /\ db = "open" /\ writers # <<>> /\ step = "front"
        /\ state' = [state EXCEPT ![Head(writers)] = "error"]
        /\ writers' = Tail(writers)
        /\ UNCHANGED <<disk, sequence, group, step, db, mem, imm, versions, logfile,
                       pending, held, bgError, scheduled, thread, todo>>
    BY DEF InFront, refuse
  <1>2. UNCHANGED <<logs, synced, tables, manifest, bg, building, compact, edit>>
    BY <1>1 DEF disk, thread
  <1>3. CallType
    BY Types DEF IInv
  <1>4. /\ writers \in Seq(Writes) /\ Len(writers) \in Nat /\ DOMAIN writers = 1..Len(writers)
        /\ Head(writers) = writers[1] /\ Head(writers) \in Writes /\ 1 \in 1..Len(writers)
        /\ Tail(writers) \in Seq(Writes) /\ Len(Tail(writers)) = Len(writers) - 1
        /\ DOMAIN Tail(writers) = 1..(Len(writers) - 1)
        /\ \A i \in 1..(Len(writers) - 1) : Tail(writers)[i] = writers[i + 1]
    BY <1>1, <1>3 DEF CallType
  <1>5. CallType'
    BY <1>1, <1>3, <1>4 DEF CallType
  <1>6. TypeOK'
    <2>1. /\ LogType(logs, synced) /\ TableType(tables) /\ manifest \in ManifestType
          /\ OpenType /\ ThreadType
      BY Types DEF IInv
    <2>2. OpenType' /\ ThreadType'
      BY <1>1, <1>2, <2>1 DEF OpenType, ThreadType
    <2> QED BY <1>2, <1>5, <2>1, <2>2, TypesNext
  <1> DEFINE w == Head(writers)
  <1>7. \A u \in Writes : u # w => state'[u] = state[u]
    BY <1>1, <1>3 DEF CallType
  <1>8. state'[w] = "error" /\ w \in Writes
    BY <1>1, <1>3, <1>4 DEF CallType
  <1>9. Acked' \subseteq Acked
    BY <1>7, <1>8 DEF Acked
  <1>10. w \in Range(writers)
    BY <1>4 DEF Range
  <1>11. state[w] = "queued"
    BY <1>8, <1>10 DEF IInv, Queued
  <1> HIDE DEF w
  <1>12. /\ Quiet' /\ Numbers' /\ Manifested' /\ Clean' /\ Merging' /\ Flushing'
         /\ Editing' /\ Memory' /\ Recovering'
    BY <1>1, <1>6, <1>9, QueueFrame
  <1>13. Queued'
    <2>1. \A i, j \in DOMAIN writers' : writers'[i] = writers'[j] => i = j
      <3>1. \A i \in 1..(Len(writers) - 1) : i + 1 \in 1..Len(writers)
        BY <1>4
      <3> QED BY <1>1, <1>4, <3>1 DEF IInv, Queued
    <2>2. ASSUME NEW u PROVE u \in Range(writers') <=> u \in Range(writers) /\ u # w
      <3>1. ASSUME u \in Range(writers') PROVE u \in Range(writers) /\ u # w
        <4>1. PICK i \in 1..(Len(writers) - 1) : u = writers[i + 1]
          BY <3>1, <1>1, <1>4 DEF Range
        <4>2. i + 1 \in 1..Len(writers) /\ i + 1 # 1
          BY <1>4
        <4> QED BY <4>1, <4>2, <1>4 DEF IInv, Queued, Range, w
      <3>2. ASSUME u \in Range(writers), u # w PROVE u \in Range(writers')
        <4>1. PICK i \in 1..Len(writers) : u = writers[i]
          BY <3>2, <1>4 DEF Range
        <4>2. i # 1
          BY <4>1, <3>2, <1>4 DEF w
        <4>3. i - 1 \in 1..(Len(writers) - 1) /\ (i - 1) + 1 = i
          BY <4>2, <1>4
        <4>4. Tail(writers)[i - 1] = writers[i]
          BY <4>3, <1>4
        <4> QED BY <4>1, <4>3, <4>4, <1>1, <1>4 DEF Range
      <3> QED BY <3>1, <3>2
    <2>3. \A u \in Writes : state'[u] = "queued" <=> u \in Range(writers')
      BY <2>2, <1>7, <1>8 DEF IInv, Queued
    <2> QED BY <1>1, <1>2, <2>1, <2>3 DEF IInv, Queued, Grouped, Logging
  <1>14. w \notin mem \cup imm \cup Content(tables, DOMAIN tables) \cup InLogs(logs, 0)
    BY <1>1, <1>11 DEF IInv, Stored, Logging
  <1>15. Stored'
    <2>1. \A u \in mem \cup imm \cup Content(tables, DOMAIN tables) \cup InLogs(logs, 0) :
              u \in Writes
      <3>1. LogType(logs, synced) /\ TableType(tables) /\ mem \subseteq Writes /\ imm \subseteq Writes
        BY Types DEF IInv, OpenType
      <3> QED BY <3>1, InLogsType, ContentType
    <2>2. \A u \in mem \cup imm \cup Content(tables, DOMAIN tables) \cup InLogs(logs, 0) :
              state'[u] = state[u]
      BY <1>7, <1>14, <2>1
    <2> QED BY <1>1, <1>2, <2>2 DEF IInv, Stored, Logging
  <1>16. Sequenced'
    <2>1. Live' \subseteq Live
      BY <1>1, <1>2 DEF Live
    <2>2. w \notin Live
      BY <1>14, LiveStored DEF IInv
    <2>3. \A u \in Live : state[u] = "queued" => state'[u] = "queued"
      BY <1>7, <2>2, LiveType DEF IInv
    <2>4. versions.last <= versions'.last /\ Len(group) <= Len(group')
      BY <1>1, VersionFields DEF IInv, TypeOK
    <2> QED BY <1>1, <1>6, <2>1, <2>3, <2>4, FrameSequenced DEF IInv
  <1> QED BY <1>6, <1>12, <1>13, <1>15, <1>16 DEF IInv

\* The writer in front goes to sleep or makes a group.
LEMMA StepFrontEnd ==
    ASSUME IInv, db = "open", step = "front", step' \in {"asleep", "add"}, CallType', Queued',
           Len(group) <= Len(group'),
           UNCHANGED <<disk, state, sequence, writers, db, mem, imm, versions, logfile,
                       pending, held, bgError, scheduled, thread, todo, counts>>
    PROVE  IInv'
  <1>2. UNCHANGED <<logs, synced, tables, manifest, bg, building, compact, edit, crashes,
                    faults, reads>>
    BY DEF disk, thread, counts
  <1>5. TypeOK'
    <2>1. /\ LogType(logs, synced) /\ TableType(tables) /\ manifest \in ManifestType
          /\ OpenType /\ ThreadType /\ CountType
      BY Types DEF IInv
    <2>2. OpenType' /\ ThreadType' /\ CountType'
      BY <1>2, <2>1 DEF OpenType, ThreadType, CountType
    <2> QED BY <1>2, <2>1, <2>2, TypesNext
  <1>8. Acked' \subseteq Acked
    BY DEF Acked
  <1>9. faults <= faults'
    BY <1>2, BoundsAssumption DEF IInv, TypeOK
  <1>10. /\ Quiet' /\ Numbers' /\ Manifested' /\ Clean' /\ Merging' /\ Flushing'
         /\ Editing' /\ Memory' /\ Recovering'
    BY <1>5, <1>8, <1>9, QueueFrame
  <1>12. Stored'
    BY <1>2 DEF IInv, Stored, Logging
  <1>13. Sequenced'
    <2>1. Live' \subseteq Live
      BY <1>2 DEF Live
    <2>3. versions.last <= versions'.last
      BY VersionFields DEF IInv, TypeOK
    <2> QED BY <1>5, <2>1, <2>3, FrameSequenced DEF IInv
  <1> QED BY <1>5, <1>10, <1>12, <1>13 DEF IInv

\* The writer in front goes to sleep, or collects its group: the queue itself
\* stays.
LEMMA StepFront ==
    ASSUME IInv, InFront, step' \in {"asleep", "add"},
           UNCHANGED <<disk, state, sequence, writers, db, mem, imm, versions, logfile,
                       pending, held, bgError, scheduled, thread, todo, counts>>,
           \/ step' = "asleep" /\ UNCHANGED group
           \/ /\ step' = "add"
              /\ \E k \in 1..Len(writers) : /\ \A i \in 2..k : Joins(writers[i])
                                            /\ group' = SubSeq(writers, 1, k)
    PROVE  IInv'
  <1>1. db = "open" /\ writers # <<>> /\ step = "front"
    BY DEF InFront
  <1>2. UNCHANGED <<logs, synced, tables, manifest, bg, building, compact, edit, crashes,
                    faults, reads>>
    BY DEF disk, thread, counts
  <1>3. CallType /\ group = <<>>
    BY <1>1, Types DEF IInv, Queued, Grouped
  <1>4. CASE step' = "asleep" /\ UNCHANGED group
    <2>1. CallType' /\ Queued' /\ Len(group) <= Len(group')
      BY <1>1, <1>2, <1>3, <1>4 DEF CallType, IInv, Queued, Grouped, Logging
    <2> QED BY <2>1, <1>1, <1>2, StepFrontEnd
  <1>5. CASE /\ step' = "add"
             /\ \E k \in 1..Len(writers) : /\ \A i \in 2..k : Joins(writers[i])
                                           /\ group' = SubSeq(writers, 1, k)
    <2>1. PICK k \in 1..Len(writers) : /\ \A i \in 2..k : Joins(writers[i])
                                       /\ group' = SubSeq(writers, 1, k)
      BY <1>5
    <2>2. writers \in Seq(Writes) /\ Len(writers) \in Nat
      BY <1>3 DEF CallType
    <2>3. /\ group' \in Seq(Writes) /\ Len(group') = k /\ k \in Nat /\ k >= 1 /\ k <= Len(writers)
          /\ \A i \in 1..k : group'[i] = writers[i]
          /\ DOMAIN group' = 1..k
      BY <2>1, <2>2
    <2>4. group' # <<>> /\ Head(group') = writers[1] /\ Head(writers) = writers[1]
      BY <2>2, <2>3
    <2>5. CallType'
      BY <1>3, <1>5, <2>3 DEF CallType
    <2>6. ASSUME NEW w \in Range(group'), w \in SyncWrites
          PROVE  Head(group') \in SyncWrites
      <3>1. PICK i \in 1..k : w = writers[i]
        BY <2>3 DEF Range
      <3>2. i = 1 \/ i \in 2..k
        BY <2>3
      <3> QED BY <3>1, <3>2, <2>1, <2>4, <2>6 DEF Joins
    <2>7. Queued'
      BY <1>2, <1>5, <2>3, <2>4, <2>6 DEF IInv, Queued, Grouped, Logging
    <2>8. Len(group) <= Len(group')
      BY <1>3, <2>3
    <2> QED BY <2>5, <2>7, <2>8, <1>1, <1>2, <1>5, StepFrontEnd
  <1> QED BY <1>4, <1>5

\* MakeRoomForWrite waits.
LEMMA StepWait ==
    ASSUME IInv, waitForBackground
    PROVE  IInv'
  BY StepFront DEF waitForBackground

\* The group of BuildBatchGroup.
LEMMA StepGroup ==
    ASSUME IInv, BuildBatchGroup
    PROVE  IInv'
  BY StepFront DEF BuildBatchGroup

\* MakeRoomForWrite fails.
LEMMA StepRefused ==
    ASSUME IInv, writeAfterError \/ newLogFails
    PROVE  IInv'
  <1>1. crashes \in Nat /\ faults \in Nat /\ reads \in Nat /\ CountType
    BY BoundsAssumption, Types DEF IInv, CountType
  <1>2. InFront /\ refuse
    BY DEF writeAfterError, newLogFails
  <1>3. CountType' /\ faults <= faults'
    BY <1>1, BoundsAssumption DEF writeAfterError, newLogFails, Fault, CountType, counts
  <1> QED BY <1>2, <1>3, StepRefuse

-----------------------------------------------------------------------------
(* DBImpl::Write: the log and the memtable.                                *)

\* The numbers that a group is given follow LastSequence.
LEMMA Numbered ==
    ASSUME TypeOK, NEW w \in Writes
    PROVE  /\ numbered \in [Writes -> Nat]
           /\ w \notin Range(group) => numbered[w] = sequence[w]
           /\ w \in Range(group) =>
                  \E i \in 1..Len(group) : group[i] = w /\ numbered[w] = versions.last + i
  <1>1. group \in Seq(Writes) /\ sequence \in [Writes -> Nat] /\ versions \in Versions
    BY DEF TypeOK
  <1>2. versions.last \in Nat /\ DOMAIN group = 1..Len(group) /\ Len(group) \in Nat
    BY <1>1, VersionFields
  <1>3. ASSUME NEW u \in Range(group)
        PROVE  /\ (CHOOSE i \in DOMAIN group : group[i] = u) \in 1..Len(group)
               /\ group[CHOOSE i \in DOMAIN group : group[i] = u] = u
    <2>1. \E i \in DOMAIN group : group[i] = u
      BY DEF Range
    <2> QED BY <2>1, <1>2
  <1>4. numbered \in [Writes -> Nat]
    <2> SUFFICES ASSUME NEW u \in Writes
                 PROVE  (IF u \in Range(group)
                           THEN versions.last + CHOOSE i \in DOMAIN group : group[i] = u
                           ELSE sequence[u]) \in Nat
      BY DEF numbered
    <2> QED BY <1>1, <1>2, <1>3
  <1>5. numbered[w] = IF w \in Range(group)
                        THEN versions.last + CHOOSE i \in DOMAIN group : group[i] = w
                        ELSE sequence[w]
    BY DEF numbered
  <1> QED BY <1>3, <1>4, <1>5

\* The members of the group are in the queue.
LEMMA GroupQueued ==
    ASSUME TypeOK, Queued, Grouped
    PROVE  /\ Range(group) \subseteq Range(writers)
           /\ Range(group) \subseteq Writes
           /\ \A w \in Range(group) : state[w] = "queued"
  <1>1. group \in Seq(Writes) /\ writers \in Seq(Writes)
    BY DEF TypeOK
  <1>2. /\ DOMAIN group = 1..Len(group) /\ DOMAIN writers = 1..Len(writers)
        /\ Len(group) \in Nat /\ Len(writers) \in Nat
    BY <1>1
  <1>3. Len(group) <= Len(writers) /\ \A i \in 1..Len(group) : group[i] = writers[i]
    BY DEF Queued
  <1>4. Range(group) \subseteq Writes
    BY <1>1, <1>2 DEF Range
  <1>5. \A i \in 1..Len(group) : i \in 1..Len(writers)
    BY <1>2, <1>3
  <1>6. Range(group) \subseteq Range(writers)
    BY <1>2, <1>3, <1>5 DEF Range
  <1> QED BY <1>4, <1>6 DEF Queued

\* Before it is logged, nothing of the group is anywhere.
LEMMA GroupFresh ==
    ASSUME IInv, step = "add"
    PROVE  /\ \A w \in Range(group) :
                  w \notin mem \cup imm \cup Content(tables, DOMAIN tables) \cup InLogs(logs, 0)
           /\ \A w \in Live : w \notin Range(group) /\ state[w] # "queued"
  <1>1. \A w \in Range(group) : state[w] = "queued"
    BY GroupQueued DEF IInv, Grouped
  <1>2. \A w \in mem \cup imm \cup Content(tables, DOMAIN tables) \cup InLogs(logs, 0) :
            state[w] # "queued"
    BY DEF IInv, Stored, Logging
  <1>3. \A w \in Live : state[w] # "queued"
    BY <1>2, LiveStored DEF IInv
  <1> QED BY <1>1, <1>2, <1>3

\* A bound of the old numbers and of those of the group.
LEMMA NumberedBound ==
    ASSUME TypeOK, Sequenced
    PROVE  \E b \in Nat : \A w \in Writes : numbered[w] <= b
  <1>1. PICK b \in Nat : \A w \in Writes : sequence[w] <= b
    BY DEF Sequenced
  <1>2. versions.last \in Nat /\ Len(group) \in Nat /\ sequence \in [Writes -> Nat]
    <2>1. versions \in Versions /\ group \in Seq(Writes)
      BY DEF TypeOK
    <2> QED BY <2>1, VersionFields DEF TypeOK
  <1>3. b + versions.last + Len(group) \in Nat
    BY <1>2
  <1>4. ASSUME NEW w \in Writes PROVE numbered[w] <= b + versions.last + Len(group)
    <2>1. CASE w \notin Range(group)
      <3>1. numbered[w] = sequence[w] /\ sequence[w] \in Nat /\ sequence[w] <= b
        BY <2>1, <1>1, <1>2, Numbered
      <3> QED BY <3>1, <1>2
    <2>2. CASE w \in Range(group)
      <3>1. PICK i \in 1..Len(group) : numbered[w] = versions.last + i
        BY <2>2, Numbered
      <3> QED BY <3>1, <1>2
    <2> QED BY <2>1, <2>2
  <1> QED BY <1>3, <1>4

\* Appending a record to the log.
LEMMA AppendLog ==
    ASSUME TypeOK, logfile \in DOMAIN logs, NEW g \in Seq(Writes),
           logs' = [logs EXCEPT ![logfile] = Append(@, g)], UNCHANGED synced
    PROVE  /\ LogType(logs', synced')
           /\ DOMAIN logs' = DOMAIN logs
           /\ (\A first : LogsGrow(first))
           /\ Logged(logs'[logfile]) = Logged(logs[logfile]) \cup Range(g)
           /\ \A first : InLogs(logs', first) \subseteq InLogs(logs, first) \cup Range(g)
  <1>1. LogType(logs, synced)
    BY Types
  <1>2. logs[logfile] \in Seq(Seq(Writes)) /\ synced[logfile] \in 0..Len(logs[logfile])
    BY <1>1 DEF LogType
  <1>3. /\ DOMAIN logs' = DOMAIN logs
        /\ logs'[logfile] = Append(logs[logfile], g)
        /\ \A n \in DOMAIN logs : n # logfile => logs'[n] = logs[n]
    OBVIOUS
  <1>4. /\ logs'[logfile] \in Seq(Seq(Writes))
        /\ Len(logs'[logfile]) = Len(logs[logfile]) + 1
        /\ Logged(logs'[logfile]) = Logged(logs[logfile]) \cup Range(g)
        /\ SubSeq(logs'[logfile], 1, synced[logfile]) =
               SubSeq(logs[logfile], 1, synced[logfile])
    BY <1>2, <1>3, LoggedAppend, PrefixAppend
  <1>5. synced[logfile] \in 0..Len(logs'[logfile])
    BY <1>2, <1>4
  <1>6. LogType(logs', synced')
    BY <1>1, <1>3, <1>4, <1>5 DEF LogType
  <1>7. \A first : LogsGrow(first)
    BY <1>3, <1>4 DEF LogsGrow
  <1>8. ASSUME NEW first PROVE InLogs(logs', first) \subseteq InLogs(logs, first) \cup Range(g)
    BY <1>3, <1>4, InLogsElem
  <1> QED BY <1>3, <1>4, <1>6, <1>7, <1>8

\* The record of the group is added to the log.
LEMMA StepAddRecord ==
    ASSUME IInv, AddRecord
    PROVE  IInv'
  <1>1. /\ db = "open" /\ step = "add"
        /\ sequence' = numbered
        /\ logs' = [logs EXCEPT ![logfile] = Append(@, group)]
        /\ step' = IF Head(group) \in SyncWrites THEN "sync" ELSE "insert"
        /\ UNCHANGED <<synced, tables, manifest, state, writers, group, db, mem, imm,
                       versions, logfile, pending, held, bgError, scheduled, thread,
                       todo, counts>>
    BY DEF AddRecord
  <1>2. UNCHANGED <<bg, building, compact, edit, crashes, faults, reads>>
    BY <1>1 DEF thread, counts
  <1>3. TypeOK /\ CallType /\ Grouped /\ logfile \in DOMAIN logs
    BY <1>1, Types DEF IInv, Grouped, Numbers
  <1>4. group \in Seq(Writes)
    BY <1>3 DEF CallType
  <1>5. /\ LogType(logs', synced')
        /\ DOMAIN logs' = DOMAIN logs
        /\ (\A first : LogsGrow(first))
        /\ Logged(logs'[logfile]) = Logged(logs[logfile]) \cup Range(group)
        /\ \A first : InLogs(logs', first) \subseteq InLogs(logs, first) \cup Range(group)
    BY <1>1, <1>3, <1>4, AppendLog
  <1>6. sequence' \in [Writes -> Nat]
    <2>1. CASE Writes = {}
      <3>1. sequence' = [w \in Writes |-> sequence[w]]
        BY <1>1, <2>1 DEF numbered
      <3> QED BY <3>1, <2>1
    <2>2. CASE Writes # {}
      BY <2>2, <1>1, <1>3, Numbered
    <2> QED BY <2>1, <2>2
  <1>7. TypeOK'
    <2>1. /\ TableType(tables) /\ manifest \in ManifestType
          /\ OpenType /\ ThreadType /\ CountType
      BY Types DEF IInv
    <2>2. OpenType' /\ ThreadType' /\ CountType'
      BY <1>1, <1>2, <1>5, <2>1 DEF OpenType, ThreadType, CountType
    <2>3. CallType'
      BY <1>1, <1>3, <1>6 DEF CallType
    <2> QED BY <1>1, <1>5, <2>1, <2>2, <2>3, TypesNext
  <1>8. Grown
    BY <1>1, VersionFields DEF IInv, TypeOK, Grown, SameFiles
  <1>9. \A w \in Writes : w \notin Range(group) => sequence'[w] = sequence[w]
    BY <1>1, <1>3, Numbered
  <1>10. \A w \in imm \cup Content(tables, DOMAIN tables) : w \in Writes
    <2>1. TableType(tables) /\ imm \subseteq Writes
      BY Types DEF IInv, OpenType
    <2> QED BY <2>1, ContentType
  <1>11. \A w \in imm \cup Content(tables, DOMAIN tables) : sequence'[w] = sequence[w]
    BY <1>1, <1>9, <1>10, GroupFresh
  <1>12. bgError' => faults' > 0
    BY <1>1, <1>2 DEF IInv, Numbers
  <1>13. /\ Quiet' /\ Numbers' /\ Manifested' /\ Clean' /\ Merging' /\ Flushing'
         /\ Editing' /\ Recovering'
    BY <1>1, <1>5, <1>7, <1>8, <1>11, <1>12, WriterFrame
  <1>14. Memory'
    <2>1. Acked' \subseteq Acked
      BY <1>1 DEF Acked
    <2> QED BY <1>1, <1>5, <2>1, FrameMemory DEF IInv
  <1>15. Queued'
    BY <1>1, <1>3, <1>5 DEF IInv, Queued, Grouped, Logging
  <1>16. Stored'
    <2>1. \A w \in Range(group) : state[w] = "queued"
      BY <1>3, GroupQueued DEF IInv
    <2>2. Logging'
      BY <1>1 DEF Logging
    <2>3. \A w \in InLogs(logs, 0) : state[w] \notin {"new", "queued"}
      BY <1>1 DEF IInv, Stored, Logging
    <2>4. InLogs(logs', 0) \subseteq InLogs(logs, 0) \cup Range(group)
      BY <1>5
    <2>5. \A w \in InLogs(logs', 0) :
              state[w] # "new" /\ (state[w] = "queued" => w \in Range(group))
      BY <2>1, <2>3, <2>4
    <2> QED BY <1>1, <2>2, <2>5 DEF IInv, Stored
  <1>17. Sequenced'
    <2>1. Live' \subseteq Live \cup Range(group)
      <3>2. InLogs(logs', 0) \subseteq InLogs(logs, 0) \cup Range(group)
        BY <1>5
      <3> DEFINE X == mem \cup imm \cup Content(tables, Files(versions))
                      \cup UNION {Content(tables, Files(v)) : v \in Led(manifest)}
      <3>3. Live = InLogs(logs, 0) \cup X
        BY DEF Live
      <3>4. Live' = InLogs(logs', 0) \cup X
        BY <1>1 DEF Live
      <3> QED BY <3>2, <3>3, <3>4
    <2>2. versions.last \in Nat /\ Len(group) \in Nat
      BY <1>1, <1>4, VersionFields DEF IInv, TypeOK
    <2>3. ASSUME NEW w \in Live
          PROVE  /\ sequence'[w] = sequence[w] /\ sequence[w] \in Nat
                 /\ sequence[w] <= versions.last
                 /\ w \notin Range(group) /\ state[w] # "queued"
      <3>1. w \notin Range(group) /\ w \in Writes /\ state[w] # "queued"
        BY <1>1, GroupFresh, LiveType DEF IInv
      <3> QED BY <3>1, <1>1, <1>3, <1>9 DEF IInv, Sequenced, CallType
    <2>4. ASSUME NEW w \in Range(group)
          PROVE  /\ \E i \in 1..Len(group) : group[i] = w /\ sequence'[w] = versions.last + i
                 /\ state[w] = "queued"
      BY <1>1, <1>3, Numbered, GroupQueued DEF IInv
    <2>5. \E b \in Nat : \A w \in Writes : sequence'[w] <= b
      BY <1>1, <1>3, NumberedBound DEF IInv
    <2>6. ASSUME NEW v \in Live', NEW w \in Live', v # w
          PROVE  sequence'[v] # sequence'[w]
      <3>1. CASE v \in Live /\ w \in Live
        BY <3>1, <2>3, <2>6 DEF IInv, Sequenced
      <3>2. CASE v \in Range(group) /\ w \in Range(group)
        <4>1. PICK i \in 1..Len(group) : group[i] = v /\ sequence'[v] = versions.last + i
          BY <3>2, <2>4
        <4>2. PICK j \in 1..Len(group) : group[j] = w /\ sequence'[w] = versions.last + j
          BY <3>2, <2>4
        <4>3. i # j
          BY <4>1, <4>2, <2>6
        <4> QED BY <4>1, <4>2, <4>3, <2>2
      <3>3. CASE v \in Live /\ w \in Range(group)
        <4>1. PICK j \in 1..Len(group) : group[j] = w /\ sequence'[w] = versions.last + j
          BY <3>3, <2>4
        <4> QED BY <4>1, <3>3, <2>2, <2>3
      <3>4. CASE w \in Live /\ v \in Range(group)
        <4>1. PICK j \in 1..Len(group) : group[j] = v /\ sequence'[v] = versions.last + j
          BY <3>4, <2>4
        <4> QED BY <4>1, <3>4, <2>2, <2>3
      <3> QED BY <2>1, <3>1, <3>2, <3>3, <3>4
    <2>7. ASSUME NEW w \in Live'
          PROVE  /\ state'[w] # "queued" => sequence'[w] <= versions'.last
                 /\ sequence'[w] <= versions'.last + Len(group')
      <3>1. CASE w \in Live
        BY <3>1, <1>1, <2>2, <2>3
      <3>2. CASE w \in Range(group)
        <4>1. PICK j \in 1..Len(group) : group[j] = w /\ sequence'[w] = versions.last + j
          BY <3>2, <2>4
        <4> QED BY <4>1, <3>2, <1>1, <2>2, <2>4
      <3> QED BY <2>1, <3>1, <3>2
    <2> QED BY <2>5, <2>6, <2>7 DEF Sequenced
  <1> QED BY <1>7, <1>13, <1>14, <1>15, <1>16, <1>17 DEF IInv

\* The log is synced.
LEMMA StepSync ==
    ASSUME IInv, Sync
    PROVE  IInv'
  <1>1. /\ db = "open" /\ step = "sync" /\ step' = "insert"
        /\ synced' = [synced EXCEPT ![logfile] = Len(logs[logfile])]
        /\ UNCHANGED <<logs, tables, manifest, state, sequence, writers, group, db, mem,
                       imm, versions, logfile, pending, held, bgError, scheduled, thread,
                       todo, counts>>
    BY DEF Sync
  <1>2. UNCHANGED <<bg, building, compact, edit, crashes, faults, reads>>
    BY <1>1 DEF thread, counts
  <1>3. TypeOK /\ CallType /\ logfile \in DOMAIN logs /\ LogType(logs, synced)
    BY <1>1, Types DEF IInv, Numbers
  <1>4. logs[logfile] \in Seq(Seq(Writes)) /\ synced[logfile] \in 0..Len(logs[logfile])
        /\ DOMAIN synced = DOMAIN logs /\ Len(logs[logfile]) \in Nat
    BY <1>3 DEF LogType
  <1>5. /\ synced'[logfile] = Len(logs[logfile])
        /\ \A n \in DOMAIN logs : n # logfile => synced'[n] = synced[n]
        /\ DOMAIN synced' = DOMAIN logs
    BY <1>1, <1>3, <1>4
  <1>6. LogType(logs', synced')
    BY <1>1, <1>3, <1>4, <1>5 DEF LogType
  <1>7. \A first : LogsGrow(first)
    <2>1. Len(logs[logfile]) \in 0..Len(logs[logfile])
          /\ synced[logfile] \in 0..Len(logs[logfile])
      BY <1>4
    <2>2. Logged(SubSeq(logs[logfile], 1, synced[logfile])) \subseteq
              Logged(SubSeq(logs[logfile], 1, Len(logs[logfile])))
      BY <1>4, <2>1, PrefixMono
    <2> QED BY <1>1, <1>5, <2>2 DEF LogsGrow
  <1>8. TypeOK'
    <2>1. /\ TableType(tables) /\ manifest \in ManifestType
          /\ OpenType /\ ThreadType /\ CountType
      BY Types DEF IInv
    <2>2. OpenType' /\ ThreadType' /\ CountType'
      BY <1>1, <1>2, <2>1 DEF OpenType, ThreadType, CountType
    <2>3. CallType'
      BY <1>1, <1>3 DEF CallType
    <2> QED BY <1>1, <1>6, <2>1, <2>2, <2>3, TypesNext
  <1>9. Grown
    BY <1>1, VersionFields DEF IInv, TypeOK, Grown, SameFiles
  <1>10. bgError' => faults' > 0
    BY <1>1, <1>2 DEF IInv, Numbers
  <1>11. /\ Quiet' /\ Numbers' /\ Manifested' /\ Clean' /\ Merging' /\ Flushing'
         /\ Editing' /\ Recovering'
    BY <1>1, <1>7, <1>8, <1>9, <1>10, WriterFrame
  <1>12. Memory'
    <2>1. Acked' \subseteq Acked
      BY <1>1 DEF Acked
    <2> QED BY <1>1, <1>7, <2>1, FrameMemory DEF IInv
  <1>13. Queued'
    BY <1>1, <1>5 DEF IInv, Queued, Grouped, Logging
  <1>14. Stored'
    BY <1>1 DEF IInv, Stored, Logging
  <1>15. Sequenced'
    <2>1. Live' \subseteq Live
      BY <1>1 DEF Live
    <2>2. versions.last <= versions'.last /\ Len(group) <= Len(group')
      BY <1>1, <1>3, VersionFields DEF IInv, TypeOK
    <2> QED BY <1>1, <1>8, <2>1, <2>2, FrameSequenced DEF IInv
  <1> QED BY <1>8, <1>11, <1>12, <1>13, <1>14, <1>15 DEF IInv

\* The group leaves the queue.
LEMMA LeaveFacts ==
    ASSUME IInv, db = "open", Grouped, NEW status \in {"ok", "error"}, leave(status)
    PROVE  /\ state' \in [Writes -> {"new", "queued", "ok", "error", "gone"}]
           /\ \A w \in Writes : state'[w] = IF w \in Range(group) THEN status ELSE state[w]
           /\ writers' \in Seq(Writes) /\ group' = <<>> /\ step' = "front"
           /\ versions' \in Versions /\ Grown
           /\ versions'.last = versions.last + Len(group)
           /\ Queued'
  <1>1. /\ state' = [w \in Writes |-> IF w \in Range(group) THEN status ELSE state[w]]
        /\ writers' = SubSeq(writers, Len(group) + 1, Len(writers))
        /\ versions' = [versions EXCEPT !.last = @ + Len(group)]
        /\ group' = <<>> /\ step' = "front"
    BY DEF leave
  <1>2. CallType /\ versions \in Versions
    BY Types DEF IInv, OpenType
  <1>3. state' \in [Writes -> {"new", "queued", "ok", "error", "gone"}]
    BY <1>1, <1>2 DEF CallType
  <1>4. \A w \in Writes : state'[w] = IF w \in Range(group) THEN status ELSE state[w]
    BY <1>1
  <1>5. /\ group \in Seq(Writes) /\ writers \in Seq(Writes)
        /\ Len(group) \in Nat /\ Len(writers) \in Nat /\ Len(group) <= Len(writers)
        /\ DOMAIN group = 1..Len(group) /\ DOMAIN writers = 1..Len(writers)
        /\ \A i \in 1..Len(group) : group[i] = writers[i]
    BY <1>2 DEF CallType, IInv, Queued
  <1>6. /\ writers' \in Seq(Writes)
        /\ Len(writers') = Len(writers) - Len(group)
        /\ DOMAIN writers' = 1..(Len(writers) - Len(group))
        /\ \A i \in 1..(Len(writers) - Len(group)) : writers'[i] = writers[i + Len(group)]
    <2> DEFINE a == Len(group) + 1
    <2>1. a \in 1..(Len(writers) + 1) /\ Len(writers) \in (a - 1)..Len(writers)
      BY <1>5
    <2>2. /\ SubSeq(writers, a, Len(writers)) \in Seq(Writes)
          /\ Len(SubSeq(writers, a, Len(writers))) = Len(writers) - a + 1
          /\ \A i \in 1..(Len(writers) - a + 1) :
                 SubSeq(writers, a, Len(writers))[i] = writers[a + i - 1]
      <3> HIDE DEF a
      <3> QED BY <2>1, <1>5, SubSeqProperties
    <2>3. /\ writers' \in Seq(Writes)
          /\ Len(writers') = Len(writers) - a + 1
          /\ \A i \in 1..(Len(writers) - a + 1) : writers'[i] = writers[a + i - 1]
      BY <1>1, <2>2
    <2>4. /\ Len(writers) - a + 1 = Len(writers) - Len(group)
          /\ \A i \in 1..(Len(writers) - Len(group)) : a + i - 1 = i + Len(group)
      BY <1>5
    <2>5. DOMAIN writers' = 1..Len(writers')
      BY <2>3
    <2> HIDE DEF a
    <2> QED BY <2>3, <2>4, <2>5
  <1>7. /\ versions' \in Versions /\ Grown /\ versions'.last = versions.last + Len(group)
    <2>1. /\ versions.l0 \in SUBSET Nat /\ versions.deep \in SUBSET Nat
          /\ versions.log \in Nat /\ versions.last \in Nat /\ versions.next \in Nat
      BY <1>2, VersionFields
    <2>2. versions' = [l0 |-> versions.l0, deep |-> versions.deep, log |-> versions.log,
                       last |-> versions.last + Len(group), next |-> versions.next]
      BY <1>1, <1>2 DEF Versions
    <2>3. versions.last + Len(group) \in Nat /\ versions.last <= versions.last + Len(group)
      BY <2>1, <1>5
    <2>4. versions' \in Versions
      BY <2>1, <2>2, <2>3 DEF Versions
    <2>5. /\ versions'.l0 = versions.l0 /\ versions'.deep = versions.deep
          /\ versions'.log = versions.log /\ versions'.next = versions.next
          /\ versions'.last = versions.last + Len(group)
      BY <2>2
    <2> QED BY <2>1, <2>3, <2>4, <2>5 DEF Grown, SameFiles
  <1>8. \A i, j \in DOMAIN writers : writers[i] = writers[j] => i = j
    BY DEF IInv, Queued
  <1>9. \A i, j \in DOMAIN writers' : writers'[i] = writers'[j] => i = j
    <2>1. \A i \in DOMAIN writers' : i + Len(group) \in DOMAIN writers
      BY <1>5, <1>6
    <2>2. \A i, j \in DOMAIN writers' : i + Len(group) = j + Len(group) => i = j
      BY <1>5, <1>6
    <2> QED BY <1>6, <1>8, <2>1, <2>2
  <1>10. ASSUME NEW w
         PROVE  w \in Range(writers') <=> w \in Range(writers) /\ w \notin Range(group)
    <2>1. ASSUME w \in Range(writers') PROVE w \in Range(writers) /\ w \notin Range(group)
      <3>1. PICK i \in 1..(Len(writers) - Len(group)) : w = writers[i + Len(group)]
        BY <2>1, <1>6 DEF Range
      <3>2. i + Len(group) \in 1..Len(writers)
        BY <1>5
      <3>3. ASSUME NEW j \in 1..Len(group) PROVE group[j] # w
        <4>1. j \in 1..Len(writers) /\ j # i + Len(group)
          BY <1>5
        <4> QED BY <4>1, <3>1, <3>2, <1>5, <1>8
      <3> QED BY <3>1, <3>2, <3>3, <1>5 DEF Range
    <2>2. ASSUME w \in Range(writers), w \notin Range(group) PROVE w \in Range(writers')
      <3>1. PICK i \in 1..Len(writers) : w = writers[i]
        BY <2>2, <1>5 DEF Range
      <3>2. ~(i <= Len(group))
        <4>1. SUFFICES ASSUME i <= Len(group) PROVE FALSE
          OBVIOUS
        <4>2. i \in 1..Len(group)
          BY <4>1, <1>5
        <4> QED BY <4>2, <3>1, <2>2, <1>5 DEF Range
      <3>3. /\ i - Len(group) \in 1..(Len(writers) - Len(group))
            /\ (i - Len(group)) + Len(group) = i
        BY <3>2, <1>5
      <3>4. writers'[i - Len(group)] = w
        BY <3>1, <3>3, <1>6
      <3> QED BY <3>3, <3>4, <1>6 DEF Range
    <2> QED BY <2>1, <2>2
  <1>11. \A w \in Writes : state'[w] = "queued" <=> w \in Range(writers')
    BY <1>4, <1>10 DEF IInv, Queued
  <1>12. Queued'
    BY <1>1, <1>9, <1>11 DEF Queued, Grouped, Logging
  <1> QED BY <1>1, <1>3, <1>4, <1>6, <1>7, <1>12

\* What is stored is no longer queued.
LEMMA LeaveStored ==
    ASSUME IInv, Grouped, NEW status \in {"ok", "error"},
           \A w \in Writes : state'[w] = IF w \in Range(group) THEN status ELSE state[w],
           UNCHANGED <<imm, tables>>, mem' \subseteq mem \cup Range(group),
           InLogs(logs', 0) \subseteq InLogs(logs, 0)
    PROVE  Stored'
  <1>1. LogType(logs, synced) /\ TableType(tables) /\ mem \subseteq Writes /\ imm \subseteq Writes
    BY Types DEF IInv, OpenType
  <1>2. Range(group) \subseteq Writes
    BY GroupQueued DEF IInv
  <1>3. ASSUME NEW w \in mem \cup imm \cup Content(tables, DOMAIN tables) \cup InLogs(logs, 0)
        PROVE  w \in Writes /\ (state[w] \notin {"new", "queued"} \/ w \in Range(group))
    BY <1>1, InLogsType, ContentType DEF IInv, Stored
  <1>4. ASSUME NEW w \in mem \cup imm \cup Content(tables, DOMAIN tables) \cup InLogs(logs, 0)
                         \cup Range(group)
        PROVE  state'[w] \notin {"new", "queued"}
    BY <1>2, <1>3
  <1> QED BY <1>4 DEF Stored

\* Sequence numbers when the group leaves.
LEMMA LeaveSequenced ==
    ASSUME IInv, TypeOK', db = "open", UNCHANGED db, group' = <<>>,
           versions'.last = versions.last + Len(group),
           Live' \subseteq Live, \A w \in Live : sequence'[w] = sequence[w],
           \E b \in Nat : \A w \in Writes : sequence'[w] <= b
    PROVE  Sequenced'
  <1>1. versions.last \in Nat /\ Len(group) \in Nat /\ versions'.last \in Nat
    <2>1. versions \in Versions /\ versions' \in Versions /\ group \in Seq(Writes)
      BY DEF IInv, TypeOK
    <2> QED BY <2>1, VersionFields
  <1>2. Len(group') = 0
    OBVIOUS
  <1>3. \A v, w \in Live' : v # w => sequence'[v] # sequence'[w]
    BY DEF IInv, Sequenced
  <1>4. ASSUME NEW w \in Live'
        PROVE  sequence'[w] <= versions'.last /\ sequence'[w] \in Nat
    <2>1. w \in Live /\ w \in Writes
      BY LiveType DEF IInv
    <2>2. sequence[w] <= versions.last + Len(group)
      BY <2>1 DEF IInv, Sequenced
    <2>3. sequence' \in [Writes -> Nat]
      BY DEF TypeOK
    <2> QED BY <2>1, <2>2, <2>3
  <1>5. \A w \in Live' : sequence'[w] <= versions'.last + Len(group')
    BY <1>1, <1>2, <1>4
  <1> QED BY <1>3, <1>4, <1>5 DEF Sequenced

\* Types when the group leaves.
LEMMA LeaveTypes ==
    ASSUME IInv, LogType(logs', synced'), DOMAIN logs' = DOMAIN logs,
           state' \in [Writes -> {"new", "queued", "ok", "error", "gone"}],
           writers' \in Seq(Writes), group' = <<>>, step' = "front",
           versions' \in Versions, sequence' \in [Writes -> Nat],
           mem' \subseteq Writes, bgError' \in BOOLEAN, CountType',
           UNCHANGED <<tables, manifest, db, imm, logfile, pending, held, scheduled, thread,
                       todo>>
    PROVE  TypeOK'
  <1>1. /\ TableType(tables) /\ manifest \in ManifestType
        /\ OpenType /\ ThreadType
    BY Types DEF IInv
  <1>2. UNCHANGED <<bg, building, compact, edit>>
    BY DEF thread
  <1>3. OpenType' /\ ThreadType'
    BY <1>1, <1>2 DEF OpenType, ThreadType
  <1>4. CallType'
    <2>1. <<>> \in Seq(Writes)
      OBVIOUS
    <2> QED BY <2>1 DEF CallType
  <1> QED BY <1>1, <1>3, <1>4, TypesNext

\* A fault keeps the counters in their bounds.
LEMMA FaultCounts ==
    ASSUME TypeOK, Fault
    PROVE  CountType' /\ faults' > 0
  BY BoundsAssumption DEF TypeOK, Fault, CountType

\* The sync fails, and the database takes no more writes.
LEMMA StepSyncFails ==
    ASSUME IInv, syncFails
    PROVE  IInv'
  <1>1. /\ db = "open" /\ step = "sync" /\ Fault /\ bgError' = TRUE /\ leave("error")
        /\ UNCHANGED <<disk, sequence, db, mem, imm, logfile, pending, held, scheduled,
                       thread, todo>>
    BY DEF syncFails
  <1>2. UNCHANGED <<logs, synced, tables, manifest>> /\ Grouped /\ TypeOK
    BY <1>1 DEF disk, Grouped, IInv
  <1>3. /\ state' \in [Writes -> {"new", "queued", "ok", "error", "gone"}]
        /\ \A w \in Writes : state'[w] = IF w \in Range(group) THEN "error" ELSE state[w]
        /\ writers' \in Seq(Writes) /\ group' = <<>> /\ step' = "front"
        /\ versions' \in Versions /\ Grown
        /\ versions'.last = versions.last + Len(group)
        /\ Queued'
    BY <1>1, <1>2, LeaveFacts
  <1>4. CountType' /\ faults' > 0
    BY <1>1, <1>2, FaultCounts
  <1>5. LogType(logs', synced') /\ sequence' \in [Writes -> Nat] /\ mem' \subseteq Writes
    BY <1>1, <1>2, Types DEF CallType, OpenType
  <1>6. TypeOK'
    BY <1>1, <1>2, <1>3, <1>4, <1>5, LeaveTypes
  <1>7. \A first : LogsGrow(first)
    BY <1>2, SameLogs
  <1>8. /\ Quiet' /\ Numbers' /\ Manifested' /\ Clean' /\ Merging' /\ Flushing'
        /\ Editing' /\ Recovering'
    BY <1>1, <1>2, <1>3, <1>4, <1>6, <1>7, WriterFrame
  <1>9. Memory'
    <2>1. Acked' \subseteq Acked
      BY <1>3 DEF Acked
    <2>2. Files(versions') = Files(versions)
      BY <1>3, GrownFiles
    <2> QED BY <1>1, <1>2, <1>7, <2>1, <2>2, FrameMemory DEF IInv
  <1>10. Stored'
    BY <1>1, <1>2, <1>3, LeaveStored
  <1>11. Sequenced'
    <2>1. Live' \subseteq Live
      BY <1>1, <1>2, <1>3, GrownFiles DEF Live
    <2>2. \E b \in Nat : \A w \in Writes : sequence'[w] <= b
      BY <1>1 DEF IInv, Sequenced
    <2> QED BY <1>1, <1>3, <1>6, <2>1, <2>2, LeaveSequenced
  <1> QED BY <1>3, <1>6, <1>8, <1>9, <1>10, <1>11 DEF IInv

\* The record is torn, and the database goes on.
LEMMA StepAddRecordFails ==
    ASSUME IInv, addRecordFails
    PROVE  IInv'
  <1>1. /\ db = "open" /\ step = "add" /\ Fault /\ leave("error")
        /\ sequence' = numbered
        /\ logs' = [logs EXCEPT ![logfile] = Append(@, Torn)]
        /\ UNCHANGED <<synced, tables, manifest, db, mem, imm, logfile, pending, held,
                       bgError, scheduled, thread, todo>>
    BY DEF addRecordFails
  <1>2. Grouped /\ TypeOK /\ logfile \in DOMAIN logs
    BY <1>1 DEF Grouped, IInv, Numbers
  <1>3. /\ state' \in [Writes -> {"new", "queued", "ok", "error", "gone"}]
        /\ \A w \in Writes : state'[w] = IF w \in Range(group) THEN "error" ELSE state[w]
        /\ writers' \in Seq(Writes) /\ group' = <<>> /\ step' = "front"
        /\ versions' \in Versions /\ Grown
        /\ versions'.last = versions.last + Len(group)
        /\ Queued'
    BY <1>1, <1>2, LeaveFacts
  <1>4. CountType' /\ faults' > 0
    BY <1>1, <1>2, FaultCounts
  <1>5. Range(Torn) = {} /\ Torn \in Seq(Writes)
    BY DEF Range, Torn
  <1>6. /\ LogType(logs', synced') /\ DOMAIN logs' = DOMAIN logs
        /\ (\A first : LogsGrow(first))
        /\ \A first : InLogs(logs', first) \subseteq InLogs(logs, first)
    <2>1. /\ LogType(logs', synced') /\ DOMAIN logs' = DOMAIN logs
          /\ (\A first : LogsGrow(first))
          /\ \A first : InLogs(logs', first) \subseteq InLogs(logs, first) \cup Range(Torn)
      BY <1>1, <1>2, <1>5, AppendLog
    <2> QED BY <2>1, <1>5
  <1>7. sequence' \in [Writes -> Nat]
    <2>1. CASE Writes = {}
      <3>1. sequence' = [w \in Writes |-> sequence[w]]
        BY <1>1, <2>1 DEF numbered
      <3> QED BY <3>1, <2>1
    <2>2. CASE Writes # {}
      BY <2>2, <1>1, <1>2, Numbered
    <2> QED BY <2>1, <2>2
  <1>8. mem' \subseteq Writes /\ bgError' \in BOOLEAN
    BY <1>1, <1>2, Types DEF OpenType
  <1>9. TypeOK'
    BY <1>1, <1>3, <1>4, <1>6, <1>7, <1>8, LeaveTypes
  <1>10. \A w \in Writes : w \notin Range(group) => sequence'[w] = sequence[w]
    BY <1>1, <1>2, Numbered
  <1>11. \A w \in imm \cup Content(tables, DOMAIN tables) : w \in Writes
    <2>1. TableType(tables) /\ imm \subseteq Writes
      BY Types DEF IInv, OpenType
    <2> QED BY <2>1, ContentType
  <1>12. \A w \in imm \cup Content(tables, DOMAIN tables) : sequence'[w] = sequence[w]
    BY <1>1, <1>10, <1>11, GroupFresh
  <1>13. /\ Quiet' /\ Numbers' /\ Manifested' /\ Clean' /\ Merging' /\ Flushing'
        /\ Editing' /\ Recovering'
    BY <1>1, <1>3, <1>4, <1>6, <1>9, <1>12, WriterFrame
  <1>14. Memory'
    <2>1. Acked' \subseteq Acked
      BY <1>3 DEF Acked
    <2>2. Files(versions') = Files(versions)
      BY <1>3, GrownFiles
    <2> QED BY <1>1, <1>6, <2>1, <2>2, FrameMemory DEF IInv
  <1>15. Stored'
    BY <1>1, <1>2, <1>3, <1>6, LeaveStored
  <1>16. Sequenced'
    <2>1. Live' \subseteq Live
      <3>1. Files(versions') = Files(versions)
        BY <1>1, <1>3, GrownFiles
      <3>2. InLogs(logs', 0) \subseteq InLogs(logs, 0)
        BY <1>6, <3>1
      <3> QED BY <1>1, <3>1, <3>2, LiveParts, LiveShrinks
    <2>2. \E b \in Nat : \A w \in Writes : sequence'[w] <= b
      BY <1>1, <1>2, NumberedBound DEF IInv
    <2>3. \A w \in Live : sequence'[w] = sequence[w]
      BY <1>1, <1>2, <1>10, GroupFresh, LiveType
    <2> QED BY <1>1, <1>3, <1>9, <2>1, <2>2, <2>3, LeaveSequenced
  <1> QED BY <1>3, <1>9, <1>13, <1>14, <1>15, <1>16 DEF IInv

\* The group is put in mem_ and acknowledged.
LEMMA StepInsert ==
    ASSUME IInv, InsertInto
    PROVE  IInv'
  <1>1. /\ db = "open" /\ step = "insert" /\ leave("ok")
        /\ mem' = mem \cup Range(group)
        /\ UNCHANGED <<disk, sequence, db, imm, logfile, pending, held, bgError, scheduled,
                       thread, todo, counts>>
    BY DEF InsertInto
  <1>2. UNCHANGED <<logs, synced, tables, manifest, crashes, faults, reads>> /\ Grouped
        /\ TypeOK /\ Logging
    BY <1>1 DEF disk, counts, Grouped, IInv, Logging
  <1>3. /\ state' \in [Writes -> {"new", "queued", "ok", "error", "gone"}]
        /\ \A w \in Writes : state'[w] = IF w \in Range(group) THEN "ok" ELSE state[w]
        /\ writers' \in Seq(Writes) /\ group' = <<>> /\ step' = "front"
        /\ versions' \in Versions /\ Grown
        /\ versions'.last = versions.last + Len(group)
        /\ Queued'
    BY <1>1, <1>2, LeaveFacts
  <1>4. Range(group) \subseteq Writes
    BY <1>2, GroupQueued DEF IInv
  <1>5. LogType(logs', synced') /\ sequence' \in [Writes -> Nat] /\ mem' \subseteq Writes
        /\ bgError' \in BOOLEAN /\ CountType'
    BY <1>1, <1>2, <1>4, Types DEF CallType, OpenType, CountType
  <1>6. TypeOK'
    BY <1>1, <1>2, <1>3, <1>5, LeaveTypes
  <1>7. \A first : LogsGrow(first)
    BY <1>2, SameLogs
  <1>8. bgError' => faults' > 0
    BY <1>1, <1>2 DEF IInv, Numbers
  <1>9. /\ Quiet' /\ Numbers' /\ Manifested' /\ Clean' /\ Merging' /\ Flushing'
        /\ Editing' /\ Recovering'
    BY <1>1, <1>2, <1>3, <1>6, <1>7, <1>8, WriterFrame
  <1>10. logfile \in DOMAIN logs /\ logs[logfile] \in Seq(Seq(Writes))
         /\ Range(group) \subseteq Logged(logs[logfile])
    BY <1>1, <1>2, Types DEF IInv, Numbers, Queued, LogType
  <1>11. Memory'
    <2>1. Files(versions') = Files(versions)
      BY <1>3, GrownFiles
    <2>2. Acked' \subseteq Acked \cup Range(group)
      BY <1>3 DEF Acked
    <2>3. Acked' \subseteq mem' \cup imm' \cup Content(tables', Files(versions'))
      BY <1>1, <1>2, <2>1, <2>2 DEF IInv, Memory
    <2>4. mem' \subseteq Logged(logs'[logfile'])
      BY <1>1, <1>2, <1>10 DEF IInv, Memory
    <2>5. ASSUME NEW w \in Range(group), w \in SyncWrites
          PROVE  w \in Logged(Safe(logs, synced)[logfile])
      <3>1. Head(group) \in SyncWrites
        BY <1>2, <2>5 DEF IInv, Queued
      <3>2. synced[logfile] = Len(logs[logfile])
        BY <1>1, <3>1 DEF IInv, Queued
      <3>3. Safe(logs, synced)[logfile] = SubSeq(logs[logfile], 1, Len(logs[logfile]))
        BY <1>10, <3>2 DEF Safe
      <3>4. Safe(logs, synced)[logfile] = logs[logfile]
        BY <1>10, <3>3, WholePrefix
      <3> QED BY <1>10, <3>4
    <2>6. mem' \cap SyncWrites \subseteq Logged(Safe(logs', synced')[logfile'])
      BY <1>1, <1>2, <2>5 DEF IInv, Memory
    <2> QED BY <2>3, <2>4, <2>6 DEF Memory
  <1>12. Stored'
    BY <1>1, <1>2, <1>3, LeaveStored
  <1>13. Sequenced'
    <2>1. Range(group) \subseteq Live
      <3>1. logfile >= 0
        BY <1>2 DEF TypeOK
      <3>2. Range(group) \subseteq InLogs(logs, 0)
        BY <1>10, <3>1, InLogsElem
      <3> QED BY <3>2 DEF Live
    <2>2. Live' \subseteq Live
      <3>1. Files(versions') = Files(versions)
        BY <1>1, <1>3, GrownFiles
      <3>2. Live' \subseteq Live \cup Range(group)
        BY <1>1, <1>2, <3>1 DEF Live
      <3> QED BY <2>1, <3>2
    <2>3. \E b \in Nat : \A w \in Writes : sequence'[w] <= b
      BY <1>1 DEF IInv, Sequenced
    <2> QED BY <1>1, <1>3, <1>6, <2>2, <2>3, LeaveSequenced
  <1> QED BY <1>3, <1>6, <1>9, <1>11, <1>12, <1>13 DEF IInv

-----------------------------------------------------------------------------
(* A new log, and the readers.                                             *)

\* A log without records is new.
LEMMA NewLog ==
    ASSUME TypeOK, NEW n \in Nat, n \notin DOMAIN logs,
           logs' = Put(logs, n, <<>>), synced' = Put(synced, n, 0)
    PROVE  /\ LogType(logs', synced')
           /\ DOMAIN logs' = DOMAIN logs \cup {n}
           /\ logs'[n] = <<>>
           /\ \A k \in DOMAIN logs : logs'[k] = logs[k] /\ synced'[k] = synced[k]
           /\ (\A first : LogsGrow(first))
           /\ \A first : InLogs(logs', first) = InLogs(logs, first)
  <1>1. LogType(logs, synced)
    BY Types
  <1>2. LogType(logs', synced')
    BY <1>1, PutLog
  <1>3. /\ DOMAIN logs' = DOMAIN logs \cup {n} /\ logs'[n] = <<>>
        /\ \A k \in DOMAIN logs : logs'[k] = logs[k] /\ synced'[k] = synced[k]
    BY <1>1 DEF Put, LogType
  <1>4. ASSUME NEW first PROVE LogsGrow(first)
    BY <1>3 DEF LogsGrow
  <1>5. Logged(<<>>) = {}
    BY DEF Logged
  <1>6. ASSUME NEW first PROVE InLogs(logs', first) = InLogs(logs, first)
    <2>1. ASSUME NEW w PROVE w \in InLogs(logs', first) <=> w \in InLogs(logs, first)
      BY <1>3, <1>5, InLogsElem
    <2> QED BY <2>1
  <1> QED BY <1>2, <1>3, <1>4, <1>6

\* A file number is taken.
LEMMA NextFile ==
    ASSUME versions \in Versions, versions' = [versions EXCEPT !.next = @ + 1]
    PROVE  /\ versions' \in Versions /\ Grown
           /\ versions'.next = versions.next + 1 /\ versions'.last = versions.last
           /\ versions'.log = versions.log
  <1>1. /\ versions.l0 \in SUBSET Nat /\ versions.deep \in SUBSET Nat
        /\ versions.log \in Nat /\ versions.last \in Nat /\ versions.next \in Nat
    BY VersionFields
  <1>2. versions' = [l0 |-> versions.l0, deep |-> versions.deep, log |-> versions.log,
                     last |-> versions.last, next |-> versions.next + 1]
    BY DEF Versions
  <1>3. versions' \in Versions
    BY <1>1, <1>2 DEF Versions
  <1> QED BY <1>1, <1>2, <1>3 DEF Grown, SameFiles

\* mem_ becomes imm_, with a new log for the new mem_.
LEMMA StepSwitch ==
    ASSUME IInv, switchMemTable
    PROVE  IInv'
  <1>1. /\ db = "open" /\ step = "front" /\ ~bgError /\ imm = {}
        /\ logfile' = versions.next
        /\ versions' = [versions EXCEPT !.next = @ + 1]
        /\ logs' = Put(logs, versions.next, <<>>)
        /\ synced' = Put(synced, versions.next, 0)
        /\ imm' = mem /\ mem' = {} /\ UNCHANGED bgError
        /\ scheduled' \in BOOLEAN
        /\ UNCHANGED <<tables, manifest, calls, db, pending, held, thread, todo, counts>>
    BY DEF switchMemTable, InFront, MaybeScheduleCompaction, IInv, TypeOK
  <1>2. UNCHANGED <<state, sequence, writers, group, step, bg, building, compact, edit,
                    crashes, faults, reads>>
    BY <1>1 DEF calls, thread, counts
  <1>3. TypeOK /\ versions \in Versions /\ Numbers /\ building = 0
    BY <1>1, Types DEF IInv, OpenType, Flushing
  <1>4. versions.next \in Nat /\ versions.log \in Nat /\ logfile \in Nat /\ logfile < versions.next
        /\ versions.log <= logfile /\ logfile \in DOMAIN logs
    BY <1>1, <1>3, VersionFields, Types DEF Numbers, OpenType
  <1>5. versions.next \notin DOMAIN logs
    BY <1>1, <1>3, <1>4, Types DEF Numbers
  <1>6. /\ versions' \in Versions /\ Grown
        /\ versions'.next = versions.next + 1 /\ versions'.last = versions.last
        /\ versions'.log = versions.log /\ Files(versions') = Files(versions)
    BY <1>1, <1>3, NextFile, GrownFiles
  <1>7. /\ LogType(logs', synced')
        /\ DOMAIN logs' = DOMAIN logs \cup {versions.next}
        /\ \A k \in DOMAIN logs : logs'[k] = logs[k] /\ synced'[k] = synced[k]
        /\ (\A first : LogsGrow(first))
        /\ \A first : InLogs(logs', first) = InLogs(logs, first)
    BY <1>1, <1>3, <1>4, <1>5, NewLog
  <1>8. TypeOK'
    <2>1. /\ TableType(tables) /\ manifest \in ManifestType /\ CallType
          /\ OpenType /\ ThreadType /\ CountType
      BY Types DEF IInv
    <2>2. OpenType' /\ ThreadType' /\ CountType' /\ CallType'
      BY <1>1, <1>2, <1>4, <1>6, <1>7, <2>1 DEF OpenType, ThreadType, CountType, CallType
    <2> QED BY <1>1, <1>7, <2>1, <2>2, TypesNext
  <1>9. Quiet' /\ Recovering'
    BY <1>1, FrameQuiet, FrameRecovering DEF IInv
  <1>10. Queued'
    BY <1>1, <1>2 DEF IInv, Queued, Grouped, Logging
  <1>11. Numbers'
    <2>1. \A n \in DOMAIN logs' : n <= logfile'
      <3>1. DOMAIN logs \subseteq Nat /\ \A n \in DOMAIN logs : n <= logfile
        BY <1>1, <1>3, Types DEF Numbers, LogType
      <3> QED BY <1>1, <1>4, <1>7, <3>1
    <2>2. Files(versions) \subseteq Nat
      BY <1>3, VersionFields
    <2>3. \A f \in Files(versions') : f \in DOMAIN tables' /\ f < versions'.next
      BY <1>1, <1>3, <1>4, <1>6, <2>2 DEF Numbers
    <2>4. logfile' \in DOMAIN logs' /\ versions'.log <= logfile' /\ logfile' < versions'.next
      BY <1>1, <1>4, <1>6, <1>7
    <2>5. held' \subseteq DOMAIN tables' /\ (bgError' => faults' > 0)
      BY <1>1, <1>2, <1>3 DEF Numbers
    <2> QED BY <2>1, <2>3, <2>4, <2>5 DEF Numbers
  <1>12. Manifested'
    <2> SUFFICES ASSUME NEW v \in Led(manifest)
                 PROVE  Version(v)' /\ OpenVersion(v)'
      BY <1>1, <1>6 DEF IInv, Manifested, Ahead
    <2>1. Version(v) /\ OpenVersion(v)
      BY <1>1 DEF IInv, Manifested
    <2>2. v \in Versions /\ v.next \in Nat /\ v.log \in Nat
      BY <1>3, LedType, Types, VersionFields
    <2>3. Version(v)'
      BY <1>1, <1>2, <2>1 DEF Version
    <2>4. v.next <= versions'.next /\ v.last <= versions'.last
          /\ v.log <= logfile'
      BY <1>1, <1>4, <1>6, <2>1, <2>2 DEF OpenVersion
    <2>5. v.log <= logfile /\ logfile >= v.log
      BY <1>4, <2>1, <2>2 DEF OpenVersion
    <2>6. /\ mem \subseteq InLogs(logs, v.log)
          /\ mem \cap SyncWrites \subseteq InLogs(Safe(logs, synced), v.log)
      <3>1. logfile \in DOMAIN Safe(logs, synced)
        BY <1>4 DEF Safe
      <3>2. /\ mem \subseteq Logged(logs[logfile])
            /\ mem \cap SyncWrites \subseteq Logged(Safe(logs, synced)[logfile])
        BY <1>1 DEF IInv, Memory
      <3>3. \A w \in mem : w \in InLogs(logs, v.log)
        BY <1>4, <2>5, <3>2, InLogsElem
      <3>4. \A w \in mem \cap SyncWrites : w \in InLogs(Safe(logs, synced), v.log)
        BY <2>5, <3>1, <3>2, InLogsElem
      <3> QED BY <3>3, <3>4
    <2>7. /\ InLogs(logs, v.log) \subseteq InLogs(logs', v.log)
          /\ InLogs(Safe(logs, synced), v.log) \subseteq InLogs(Safe(logs', synced'), v.log)
      <3>1. LogsGrow(v.log)
        BY <1>7
      <3> QED BY <3>1, SafeGrows
    <2>8. Flushed' \subseteq mem \cup Flushed
      BY <1>1, <1>6 DEF Flushed
    <2>9. /\ Flushed' \subseteq Content(tables', Files(v)) \cup InLogs(logs', v.log)
          /\ Flushed' \cap SyncWrites \subseteq Content(tables', Files(v)) \cup
                                                InLogs(Safe(logs', synced'), v.log)
      BY <1>1, <2>1, <2>6, <2>7, <2>8 DEF OpenVersion
    <2>10. OpenVersion(v)'
      BY <2>4, <2>9 DEF OpenVersion
    <2> QED BY <2>3, <2>10
  <1>13. Clean'
    BY <1>1, <1>2, <1>6, FrameClean DEF IInv, Grown
  <1>14. Merging'
    BY <1>1, <1>2, <1>6, <1>8, FrameMerging DEF IInv
  <1>15. Flushing'
    BY <1>1, <1>2, <1>3 DEF IInv, Flushing
  <1>16. Editing'
    <2>1. Recording' => Recording
      BY <1>2 DEF Recording
    <2>2. edit.next \in Nat /\ (edit.next <= versions.next + 1 \/ ~Recording)
      <3>1. edit.next \in Nat
        BY <1>3 DEF TypeOK, Edits
      <3> QED BY <1>1, <1>4, <3>1 DEF IInv, Editing
    <2> QED BY <1>1, <1>2, <1>3, <1>6, <2>1, <2>2 DEF IInv, Editing
  <1>17. Memory'
    <2>1. Acked' = Acked
      BY <1>2 DEF Acked
    <2>2. Acked' \subseteq mem' \cup imm' \cup Content(tables', Files(versions'))
      BY <1>1, <1>6, <2>1 DEF IInv, Memory
    <2> QED BY <1>1, <2>2 DEF Memory
  <1>18. Stored'
    BY <1>1, <1>2, <1>7, FrameStored DEF IInv
  <1>19. Sequenced'
    <2>1. Live' \subseteq Live
      <3>2. InLogs(logs', 0) = InLogs(logs, 0)
        BY <1>7
      <3> QED BY <1>1, <1>6, <3>2 DEF Live
    <2>2. versions.last <= versions'.last /\ Len(group) <= Len(group')
      BY <1>2, <1>3, <1>6, VersionFields DEF TypeOK
    <2> QED BY <1>1, <1>2, <1>8, <2>1, <2>2, FrameSequenced DEF IInv
  <1> QED BY <1>8, <1>9, <1>10, <1>11, <1>12, <1>13, <1>14, <1>15, <1>16, <1>17, <1>18,
             <1>19 DEF IInv

-----------------------------------------------------------------------------
(* The background thread.                                                  *)

\* What its steps have in common: they leave the callers and the memtable
\* alone, and what they write to tables is in memory or in tables already.
LEMMA BackFrame ==
    ASSUME IInv, TypeOK', db = "open",
           UNCHANGED <<logs, synced, queue, db, mem, imm, logfile, todo>>,
           step' = step \/ (step = "asleep" /\ step' = "front"),
           Grown, TablesKept, held' \subseteq DOMAIN tables',
           bgError' => faults' > 0,
           Content(tables', DOMAIN tables') \subseteq
               mem \cup imm \cup Content(tables, DOMAIN tables),
           \A v \in Led(manifest') : Content(tables', Files(v)) \subseteq Live
    PROVE  Quiet' /\ Queued' /\ Numbers' /\ Memory' /\ Recovering' /\ Stored' /\ Sequenced'
  <1>1. UNCHANGED <<state, sequence, writers, group>>
    BY DEF queue
  <1>2. Quiet' /\ Recovering'
    BY FrameQuiet, FrameRecovering DEF IInv
  <1>3. Queued'
    BY <1>1, FrameQueued DEF IInv
  <1>4. /\ Files(versions) \subseteq DOMAIN tables'
        /\ Content(tables', Files(versions)) = Content(tables, Files(versions))
        /\ Files(versions') = Files(versions) /\ versions'.log = versions.log
    BY KeptContent, GrownFiles DEF IInv
  <1>5. Numbers'
    <2>1. logfile \in DOMAIN logs'
      BY DEF IInv, Numbers
    <2> QED BY <1>4, <2>1, FrameNumbers DEF IInv
  <1>6. Memory'
    <2>1. \A first : LogsGrow(first)
      BY SameLogs
    <2>2. Acked' \subseteq Acked
      BY <1>1 DEF Acked
    <2> QED BY <1>4, <2>1, <2>2, FrameMemory DEF IInv
  <1>7. Stored'
    BY <1>1, FrameStored DEF IInv
  <1>8. Sequenced'
    <2>2. Live' \subseteq Live
      BY <1>4, LiveParts, LiveShrinks
    <2>3. versions.last <= versions'.last
      BY DEF Grown
    <2>4. Len(group) <= Len(group')
      BY <1>1 DEF IInv, TypeOK
    <2> QED BY <1>1, <2>2, <2>3, <2>4, FrameSequenced DEF IInv
  <1> QED BY <1>2, <1>3, <1>5, <1>6, <1>7, <1>8

\* The manifest is left alone, too.
LEMMA BackFrameManifest ==
    ASSUME IInv, TypeOK', db = "open",
           UNCHANGED <<logs, synced, manifest, queue, db, mem, imm, logfile, todo>>,
           step' = step \/ (step = "asleep" /\ step' = "front"),
           Grown, TablesKept, held' \subseteq DOMAIN tables',
           bgError' => faults' > 0,
           Content(tables', DOMAIN tables') \subseteq
               mem \cup imm \cup Content(tables, DOMAIN tables)
    PROVE  /\ Quiet' /\ Queued' /\ Numbers' /\ Memory' /\ Recovering' /\ Stored'
           /\ Sequenced' /\ Manifested'
  <1>1. \A v \in Led(manifest') : Content(tables', Files(v)) \subseteq Live
    <2>1. \A v \in Led(manifest) : Content(tables', Files(v)) = Content(tables, Files(v))
      BY KeptContent DEF IInv
    <2> QED BY <2>1, LiveParts
  <1>2. Quiet' /\ Queued' /\ Numbers' /\ Memory' /\ Recovering' /\ Stored' /\ Sequenced'
    BY <1>1, BackFrame
  <1>3. Manifested'
    <2>1. \A first : LogsGrow(first)
      BY SameLogs
    <2>2. UNCHANGED sequence
      BY DEF queue
    <2> QED BY <2>1, <2>2, FrameManifested DEF IInv
  <1> QED BY <1>2, <1>3

\* Types, for a step of the background thread that leaves the disk alone but
\* for tables.
LEMMA BackTypes ==
    ASSUME IInv, TableType(tables'), versions' \in Versions, pending' \subseteq Nat,
           bgError' \in BOOLEAN, scheduled' \in BOOLEAN, ThreadType', CountType',
           step' = step \/ step' = "front",
           UNCHANGED <<logs, synced, manifest, queue, db, mem, imm, logfile, held, todo>>
    PROVE  TypeOK'
  <1>1. /\ LogType(logs, synced) /\ manifest \in ManifestType
        /\ OpenType /\ CallType
    BY Types DEF IInv
  <1>2. UNCHANGED <<state, sequence, writers, group>>
    BY DEF queue
  <1>3. CallType' /\ OpenType'
    BY <1>1, <1>2 DEF CallType, OpenType
  <1> QED BY <1>1, <1>3, TypesNext

\* When neither the version nor the tables change.
LEMMA Unmoved ==
    ASSUME IInv, UNCHANGED <<versions, tables>>
    PROVE  /\ Grown /\ TablesKept /\ versions' \in Versions /\ TableType(tables')
           /\ Content(tables', DOMAIN tables') \subseteq
                  mem \cup imm \cup Content(tables, DOMAIN tables)
  <1>1. versions \in Versions /\ TableType(tables)
    BY Types DEF IInv, OpenType
  <1>2. Grown
    BY <1>1, VersionFields DEF Grown, SameFiles
  <1>3. TablesKept
    BY DEF TablesKept
  <1> QED BY <1>1, <1>2, <1>3

\* The end of BackgroundCall.
LEMMA finishCallFacts ==
    ASSUME TypeOK, finishCall
    PROVE  /\ bg' = "idle" /\ scheduled' \in BOOLEAN
           /\ step' = step \/ (step = "asleep" /\ step' = "front")
  BY DEF finishCall, SignalAll, MaybeScheduleCompaction, TypeOK

\* The end of CompactMemTable.
LEMMA returnFacts ==
    ASSUME TypeOK, return
    PROVE  /\ bg' = IF compact = NoCompact THEN "idle" ELSE "merge"
           /\ scheduled' \in BOOLEAN
           /\ step' = step \/ (step = "asleep" /\ step' = "front")
  <1>1. CASE compact = NoCompact
    BY <1>1, finishCallFacts DEF return
  <1>2. CASE compact # NoCompact
    BY <1>2 DEF return, SignalAll, TypeOK
  <1> QED BY <1>1, <1>2

\* The background thread works only for the open database.
LEMMA BusyOpen ==
    ASSUME IInv, bg # "idle"
    PROVE  db = "open"
  BY DEF IInv, Quiet

\* After an error there is no work.
LEMMA StepNoWork ==
    ASSUME IInv, NoWorkAfterError
    PROVE  IInv'
  <1>1. /\ db = "open" /\ bg = "idle"
        /\ UNCHANGED <<imm, versions, bgError, disk, queue, db, mem, logfile, pending, held,
                       building, compact, edit, todo, counts>>
        /\ finishCall
    BY DEF NoWorkAfterError
  <1>2. UNCHANGED <<logs, synced, tables, manifest, crashes, faults, reads>> /\ TypeOK
    BY <1>1 DEF disk, counts, IInv
  <1>3. /\ bg' = bg /\ scheduled' \in BOOLEAN
        /\ step' = step \/ (step = "asleep" /\ step' = "front")
    BY <1>1, <1>2, finishCallFacts
  <1>4. /\ Grown /\ TablesKept /\ versions' \in Versions /\ TableType(tables')
        /\ Content(tables', DOMAIN tables') \subseteq
               mem \cup imm \cup Content(tables, DOMAIN tables)
    BY <1>1, <1>2, Unmoved
  <1>5. ThreadType' /\ CountType' /\ pending' \subseteq Nat /\ bgError' \in BOOLEAN
    BY <1>1, <1>2, <1>3, Types DEF ThreadType, CountType, OpenType
  <1>6. TypeOK'
    BY <1>1, <1>2, <1>3, <1>4, <1>5, BackTypes
  <1>7. held' \subseteq DOMAIN tables' /\ (bgError' => faults' > 0)
    BY <1>1, <1>2 DEF IInv, Numbers
  <1>8. /\ Quiet' /\ Queued' /\ Numbers' /\ Memory' /\ Recovering' /\ Stored'
        /\ Sequenced' /\ Manifested'
    BY <1>1, <1>2, <1>3, <1>4, <1>6, <1>7, BackFrameManifest
  <1>9. Clean'
    BY <1>1, <1>2, <1>3 DEF IInv, Clean, SameFiles
  <1>10. Merging' /\ Flushing'
    BY <1>1, <1>2, <1>3 DEF IInv, Merging, Flushing, Recording
  <1>11. Editing'
    BY <1>1, <1>3 DEF Editing, Recording
  <1> QED BY <1>6, <1>8, <1>9, <1>10, <1>11 DEF IInv

\* The flush takes a file number.
LEMMA StepCompactMemTable ==
    ASSUME IInv, CompactMemTable
    PROVE  IInv'
  <1>1. /\ db = "open" /\ imm # {} /\ bg \in {"idle", "merge"}
        /\ building' = versions.next
        /\ pending' = pending \cup {versions.next}
        /\ versions' = [versions EXCEPT !.next = @ + 1]
        /\ bg' = "build"
        /\ UNCHANGED <<disk, calls, db, mem, imm, logfile, held, bgError, scheduled,
                       compact, edit, todo, counts>>
    BY DEF CompactMemTable
  <1>2. UNCHANGED <<logs, synced, tables, manifest, queue, step, crashes, faults, reads>>
        /\ TypeOK
    BY <1>1 DEF disk, calls, queue, counts, IInv
  <1>3. versions \in Versions /\ OpenType /\ ThreadType /\ TableType(tables)
    BY <1>2, Types DEF OpenType
  <1>4. versions.next \in Nat /\ compact.out \in Nat /\ Files(versions) \subseteq Nat
        /\ versions.next # 0
    <2>1. logfile \in Nat /\ logfile < versions.next
      BY <1>1, <1>3 DEF IInv, Numbers, OpenType
    <2> QED BY <1>3, <2>1, VersionFields DEF ThreadType
  <1>5. /\ versions' \in Versions /\ Grown
        /\ versions'.next = versions.next + 1 /\ Files(versions') = Files(versions)
    BY <1>1, <1>3, NextFile, GrownFiles
  <1>6. /\ TablesKept
        /\ Content(tables', DOMAIN tables') \subseteq
               mem \cup imm \cup Content(tables, DOMAIN tables)
    BY <1>2 DEF TablesKept
  <1>7. ThreadType' /\ CountType' /\ pending' \subseteq Nat /\ bgError' \in BOOLEAN
        /\ scheduled' \in BOOLEAN
    BY <1>1, <1>2, <1>3, <1>4, Types DEF ThreadType, CountType, OpenType
  <1>8. TypeOK'
    BY <1>1, <1>2, <1>3, <1>5, <1>7, BackTypes
  <1>9. held' \subseteq DOMAIN tables' /\ (bgError' => faults' > 0)
    BY <1>1, <1>2 DEF IInv, Numbers
  <1>10. /\ Quiet' /\ Queued' /\ Numbers' /\ Memory' /\ Recovering' /\ Stored'
         /\ Sequenced' /\ Manifested'
    BY <1>1, <1>2, <1>5, <1>6, <1>8, <1>9, BackFrameManifest
  <1>11. Clean'
    BY <1>1, <1>2, <1>5 DEF IInv, Clean, SameFiles, Grown
  <1>12. Merging'
    <2>1. compact.out # 0 => compact.out < versions'.next
      BY <1>4, <1>5 DEF IInv, Merging
    <2> QED BY <1>1, <1>2, <1>5, <2>1 DEF IInv, Merging, Recording
  <1>13. Flushing'
    <2>1. versions.next < versions'.next /\ versions.next # compact.out
      BY <1>4, <1>5 DEF IInv, Merging
    <2>2. versions.next \notin Files(versions)
      BY <1>4 DEF IInv, Numbers
    <2>3. ASSUME NEW v \in Led(manifest) PROVE versions.next \notin Files(v)
      <3>1. v \in Versions
        BY <1>2, LedType, Types
      <3>2. v.next \in Nat /\ Files(v) \subseteq Nat
        BY <3>1, VersionFields
      <3>3. v.next <= versions.next /\ \A f \in Files(v) : f < v.next
        BY <1>1 DEF IInv, Manifested, Version, OpenVersion
      <3> QED BY <1>4, <3>2, <3>3
    <2> QED BY <1>1, <1>2, <1>4, <1>5, <2>1, <2>2, <2>3 DEF Flushing, Recording
  <1>14. Editing'
    BY <1>1 DEF Editing, Recording
  <1> QED BY <1>8, <1>10, <1>11, <1>12, <1>13, <1>14 DEF IInv

\* What can be read in the open database has a number up to LastSequence.
LEMMA ReadNumbered ==
    ASSUME IInv, db = "open",
           NEW w \in mem \cup imm \cup Content(tables, Files(versions))
    PROVE  sequence[w] <= versions.last /\ w \in Live
  <1>1. w \in Live
    BY LiveParts
  <1>2. Content(tables, Files(versions)) \subseteq Content(tables, DOMAIN tables)
    BY DEF Content
  <1>3. state[w] # "queued"
    BY <1>2 DEF IInv, Stored
  <1> QED BY <1>1, <1>3 DEF IInv, Sequenced

\* What is known of a version on disk.
LEMMA LedFields ==
    ASSUME IInv, NEW v \in Led(manifest)
    PROVE  /\ v \in Versions /\ Files(v) \subseteq Nat /\ v.log \in Nat /\ v.last \in Nat
           /\ v.next \in Nat /\ Version(v) /\ Files(v) \subseteq DOMAIN tables
           /\ db = "open" => OpenVersion(v)
  <1>1. v \in Versions
    BY LedType, Types DEF IInv
  <1>2. Version(v) /\ (db = "open" => OpenVersion(v))
    BY DEF IInv, Manifested
  <1> QED BY <1>1, <1>2, VersionFields DEF Version

\* The table of imm_ is complete.
LEMMA StepBuildTable ==
    ASSUME IInv, BuildTable
    PROVE  IInv'
  <1>1. /\ bg = "build" /\ bg' = "log"
        /\ tables' = Put(tables, building, imm)
        /\ pending' = pending \ {building}
        /\ \E level \in {"l0", "deep"} :
              edit' = [NoEdit EXCEPT ![level] = {building}, !.log = logfile,
                                     !.last = versions.last, !.next = versions.next]
        /\ UNCHANGED <<logs, synced, manifest, calls, db, mem, imm, versions, logfile, held,
                       bgError, scheduled, building, compact, todo, counts>>
    BY DEF BuildTable, LogNeeded
  <1>2. UNCHANGED <<queue, step, crashes, faults, reads>> /\ TypeOK /\ db = "open"
    BY <1>1, BusyOpen DEF calls, queue, counts, IInv
  <1>3. versions \in Versions /\ OpenType /\ ThreadType /\ TableType(tables)
    BY <1>2, Types DEF OpenType
  <1>4. building \in Nat /\ building # 0 /\ imm \subseteq Writes /\ building < versions.next
        /\ building # compact.out /\ building \notin Files(versions) /\ imm # {}
        /\ \A v \in Led(manifest) : building \notin Files(v)
    BY <1>1, <1>3 DEF IInv, Flushing, ThreadType, OpenType
  <1>5. /\ edit'.l0 \cup edit'.deep = {building} /\ edit'.del = {}
        /\ edit'.log = logfile /\ edit'.last = versions.last /\ edit'.next = versions.next
        /\ edit' \in Edits
    <2>1. versions.last \in Nat /\ versions.next \in Nat /\ logfile \in Nat
      BY <1>3, VersionFields DEF OpenType
    <2>2. CASE edit' = [NoEdit EXCEPT !["l0"] = {building}, !.log = logfile,
                                     !.last = versions.last, !.next = versions.next]
      <3>1. edit' = [l0 |-> {building}, deep |-> {}, del |-> {}, log |-> logfile,
                     last |-> versions.last, next |-> versions.next]
        BY <2>2 DEF NoEdit
      <3> QED BY <3>1, <2>1, <1>4 DEF Edits
    <2>3. CASE edit' = [NoEdit EXCEPT !["deep"] = {building}, !.log = logfile,
                                     !.last = versions.last, !.next = versions.next]
      <3>1. edit' = [l0 |-> {}, deep |-> {building}, del |-> {}, log |-> logfile,
                     last |-> versions.last, next |-> versions.next]
        BY <2>3 DEF NoEdit
      <3> QED BY <3>1, <2>1, <1>4 DEF Edits
    <2> QED BY <1>1, <2>2, <2>3
  <1>6. /\ DOMAIN tables' = DOMAIN tables \cup {building}
        /\ tables'[building] = imm
        /\ \A n \in DOMAIN tables : n # building => tables'[n] = tables[n]
    BY <1>1 DEF Put
  <1>7. TableType(tables')
    BY <1>1, <1>3, <1>4, PutTable
  <1>8. Grown /\ versions' = versions /\ logfile < versions.next
    <2>1. versions' = versions
      BY <1>1
    <2>2. versions.last \in Nat /\ versions.next \in Nat
      BY <1>3, VersionFields
    <2> QED BY <2>1, <2>2, <1>2 DEF Grown, SameFiles, IInv, Numbers
  <1>9. TablesKept
    BY <1>4, <1>6 DEF TablesKept
  <1>10. Content(tables', DOMAIN tables') \subseteq
             mem \cup imm \cup Content(tables, DOMAIN tables)
    BY <1>6 DEF Content
  <1>11. ThreadType' /\ CountType' /\ pending' \subseteq Nat /\ bgError' \in BOOLEAN
         /\ scheduled' \in BOOLEAN
    BY <1>1, <1>2, <1>3, <1>5, Types DEF ThreadType, CountType, OpenType
  <1>12. TypeOK'
    BY <1>1, <1>2, <1>3, <1>7, <1>11, BackTypes
  <1>13. held' \subseteq DOMAIN tables' /\ (bgError' => faults' > 0)
    BY <1>1, <1>2, <1>6 DEF IInv, Numbers
  <1>14. /\ Quiet' /\ Queued' /\ Numbers' /\ Memory' /\ Recovering' /\ Stored'
         /\ Sequenced' /\ Manifested'
    BY <1>1, <1>2, <1>8, <1>9, <1>10, <1>12, <1>13, BackFrameManifest
  <1>15. Clean'
    BY <1>1, <1>2 DEF IInv, Clean, SameFiles
  <1>16. Content(tables', Files(versions)) = Content(tables, Files(versions))
    BY <1>9, KeptContent DEF IInv
  <1>17. Merging'
    <2>1. compact.inputs \subseteq Files(versions)
      BY DEF IInv, Merging
    <2>2. \A n \in compact.inputs : n \in DOMAIN tables /\ n \in DOMAIN tables'
                                    /\ tables'[n] = tables[n]
      BY <2>1, <1>4, <1>6 DEF IInv, Numbers
    <2>3. Content(tables', compact.inputs) = Content(tables, compact.inputs)
      BY <2>2, ContentSame
    <2>4. ~Recording
      BY <1>1 DEF Recording
    <2>5. compact.out # 0 => /\ compact.out \in pending'
                             /\ compact.out \in DOMAIN tables'
                             /\ tables'[compact.out] = tables[compact.out]
                             /\ compact.out < versions.next
                             /\ compact.out \notin Files(versions)
                             /\ \A v \in Led(manifest) : compact.out \notin Files(v)
      BY <1>1, <1>4, <1>6, <2>4 DEF IInv, Merging
    <2>6. compact.done => /\ compact.out # 0
                          /\ tables'[compact.out] = Content(tables', compact.inputs)
      BY <2>3, <2>5 DEF IInv, Merging
    <2> QED BY <1>1, <2>1, <2>5, <2>6 DEF Merging
  <1>18. Flushing'
    BY <1>1, <1>4, <1>6 DEF Flushing, Recording
  <1>19. Editing'
    <2>1. \A w \in imm \cup Content(tables, Files(versions)) : sequence[w] <= versions.last
      BY <1>2, ReadNumbered
    <2>2. UNCHANGED sequence
      BY <1>2 DEF queue
    <2>3. \A w \in imm' : sequence'[w] <= edit'.last
      BY <1>1, <1>5, <2>1, <2>2
    <2>4. \A w \in Content(tables', Files(versions')) : sequence'[w] <= edit'.last
      BY <1>1, <1>5, <1>16, <2>1, <2>2
    <2>5. \A v \in Led(manifest') : v.last <= edit'.last /\ v.next <= edit'.next
      BY <1>1, <1>2, <1>5, LedFields DEF OpenVersion
    <2>6. edit'.last <= versions'.last /\ edit'.next <= versions'.next
          /\ edit'.log < edit'.next
      <3>1. versions.last \in Nat /\ versions.next \in Nat
        BY <1>3, VersionFields
      <3> QED BY <1>5, <1>8, <3>1
    <2>7. \A f \in edit'.l0 \cup edit'.deep : f < edit'.next
      BY <1>4, <1>5
    <2> QED BY <1>1, <1>4, <1>5, <2>3, <2>4, <2>5, <2>6, <2>7 DEF Editing
  <1> QED BY <1>12, <1>14, <1>15, <1>17, <1>18, <1>19 DEF IInv

\* It could not be built.
LEMMA StepBuildTableFails ==
    ASSUME IInv, buildTableFails
    PROVE  IInv'
  <1>1. /\ bg = "build" /\ Fault /\ bgError' = TRUE
        /\ pending' = pending \ {building} /\ building' = 0
        /\ UNCHANGED <<imm, versions, disk, queue, db, mem, logfile, held, compact, edit, todo>>
        /\ return
    BY DEF buildTableFails
  <1>2. UNCHANGED <<logs, synced, tables, manifest>> /\ TypeOK /\ db = "open"
    BY <1>1, BusyOpen DEF disk, IInv
  <1>3. /\ bg' = IF compact = NoCompact THEN "idle" ELSE "merge"
        /\ scheduled' \in BOOLEAN
        /\ step' = step \/ (step = "asleep" /\ step' = "front")
    BY <1>1, <1>2, returnFacts
  <1>4. /\ Grown /\ TablesKept /\ versions' \in Versions /\ TableType(tables')
        /\ Content(tables', DOMAIN tables') \subseteq
               mem \cup imm \cup Content(tables, DOMAIN tables)
    BY <1>1, <1>2, Unmoved
  <1>5. CountType' /\ faults' > 0
    BY <1>1, <1>2, FaultCounts
  <1>6. ThreadType' /\ pending' \subseteq Nat /\ bgError' \in BOOLEAN
    BY <1>1, <1>2, <1>3, Types DEF ThreadType, OpenType
  <1>7. TypeOK'
    BY <1>1, <1>2, <1>3, <1>4, <1>5, <1>6, BackTypes
  <1>8. held' \subseteq DOMAIN tables'
    BY <1>1, <1>2 DEF IInv, Numbers
  <1>9. /\ Quiet' /\ Queued' /\ Numbers' /\ Memory' /\ Recovering' /\ Stored'
        /\ Sequenced' /\ Manifested'
    BY <1>1, <1>2, <1>3, <1>4, <1>5, <1>7, <1>8, BackFrameManifest
  <1>10. Clean'
    BY <1>1 DEF Clean
  <1>11. Merging'
    <2>1. building # 0 /\ building # compact.out
      BY <1>1 DEF IInv, Flushing
    <2> QED BY <1>1, <1>2, <1>3, <2>1 DEF IInv, Merging, Recording
  <1>12. Flushing' /\ Editing'
    BY <1>1, <1>3 DEF Flushing, Editing, Recording
  <1> QED BY <1>7, <1>9, <1>10, <1>11, <1>12 DEF IInv

\* The steps of a merge leave the memtables, the manifest and the numbers of
\* the callers alone.
LEMMA StepPickCompaction ==
    ASSUME IInv, PickCompaction
    PROVE  IInv'
  <1>1. /\ db = "open" /\ bg = "idle" /\ imm = {}
        /\ UNCHANGED <<disk, calls, db, mem, imm, versions, logfile, pending, held,
                       bgError, scheduled, building, todo, counts>>
    BY DEF PickCompaction
  <1>2. UNCHANGED <<logs, synced, tables, manifest, queue, step, crashes, faults, reads>>
        /\ TypeOK
    BY <1>1 DEF disk, calls, queue, counts, IInv
  <1>3. versions \in Versions /\ OpenType /\ ThreadType /\ compact = NoCompact /\ building = 0
    BY <1>1, <1>2, Types DEF OpenType, IInv, Merging, Flushing
  <1>4. /\ Grown /\ TablesKept /\ versions' \in Versions /\ TableType(tables')
        /\ Content(tables', DOMAIN tables') \subseteq
               mem \cup imm \cup Content(tables, DOMAIN tables)
    BY <1>1, <1>2, Unmoved
  <1>5. CountType' /\ pending' \subseteq Nat /\ bgError' \in BOOLEAN /\ scheduled' \in BOOLEAN
    BY <1>1, <1>2, <1>3, Types DEF CountType, OpenType
  <1>6. held' \subseteq DOMAIN tables' /\ (bgError' => faults' > 0)
    BY <1>1, <1>2 DEF IInv, Numbers
  <1>7. ASSUME ThreadType', Merging', Flushing', Editing', bg' # "sync"
        PROVE  IInv'
    <2>1. TypeOK'
      BY <1>1, <1>2, <1>4, <1>5, <1>7, BackTypes
    <2>2. /\ Quiet' /\ Queued' /\ Numbers' /\ Memory' /\ Recovering' /\ Stored'
          /\ Sequenced' /\ Manifested'
      BY <1>1, <1>2, <1>4, <1>6, <2>1, BackFrameManifest
    <2>3. Clean'
      BY <1>1, <1>2, <1>7 DEF IInv, Clean, SameFiles
    <2> QED BY <1>7, <2>1, <2>2, <2>3 DEF IInv
  <1>8. PICK S \in (SUBSET versions.l0) \ {{}}, D \in SUBSET versions.deep :
           \/ /\ edit' = [NoEdit EXCEPT !.del = S, !.deep = S, !.log = versions.log,
                                        !.last = versions.last, !.next = versions.next]
              /\ bg' = "log"
              /\ UNCHANGED compact
           \/ /\ compact' = [inputs |-> S \cup D, out |-> 0, done |-> FALSE]
              /\ bg' = "merge"
              /\ UNCHANGED edit
    BY DEF PickCompaction
  <1>9. S \subseteq Files(versions) /\ D \subseteq Files(versions) /\ S # {}
        /\ Files(versions) \subseteq Nat
    BY <1>3, VersionFields DEF Files
  <1>10. versions.last \in Nat /\ versions.next \in Nat /\ versions.log \in Nat /\ logfile \in Nat
    BY <1>3, VersionFields DEF OpenType
  <1>11. CASE /\ edit' = [NoEdit EXCEPT !.del = S, !.deep = S, !.log = versions.log,
                                        !.last = versions.last, !.next = versions.next]
              /\ bg' = "log"
              /\ UNCHANGED compact
    <2>1. edit' = [l0 |-> {}, deep |-> S, del |-> S, log |-> versions.log,
                   last |-> versions.last, next |-> versions.next]
      BY <1>11 DEF NoEdit
    <2>2. edit' \in Edits
      BY <2>1, <1>9, <1>10 DEF Edits
    <2>3. /\ edit'.l0 = {} /\ edit'.deep = S /\ edit'.del = S /\ edit'.log = versions.log
          /\ edit'.last = versions.last /\ edit'.next = versions.next
      BY <2>1
    <2>4. ThreadType'
      BY <1>1, <1>3, <1>11, <2>2 DEF ThreadType
    <2>5. Merging'
      BY <1>1, <1>2, <1>3, <1>11 DEF Merging, NoCompact
    <2>6. Flushing'
      BY <1>1, <1>3, <1>11 DEF Flushing
    <2>7. Editing'
      <3>1. \A w \in Content(tables', Files(versions')) : sequence'[w] <= edit'.last
        <4>1. UNCHANGED sequence
          BY <1>2 DEF queue
        <4> QED BY <1>1, <1>2, <2>3, <4>1, ReadNumbered
      <3>2. \A v \in Led(manifest') : v.last <= edit'.last /\ v.next <= edit'.next
        BY <1>1, <1>2, <2>3, LedFields DEF OpenVersion
      <3>3. edit'.last <= versions'.last /\ edit'.next <= versions'.next
            /\ edit'.log < edit'.next
        BY <1>1, <1>10, <2>3 DEF IInv, Numbers
      <3>4. \A f \in edit'.l0 \cup edit'.deep : f < edit'.next
        BY <1>9, <2>3 DEF IInv, Numbers
      <3>5. /\ building' = 0 /\ compact' = NoCompact
            /\ edit'.l0 = {} /\ edit'.del = edit'.deep
            /\ edit'.deep \subseteq Files(versions')
            /\ edit'.log = versions'.log
        BY <1>1, <1>3, <1>9, <1>11, <2>3
      <3> QED BY <1>11, <3>1, <3>2, <3>3, <3>4, <3>5 DEF Editing
    <2> QED BY <1>7, <1>11, <2>4, <2>5, <2>6, <2>7
  <1>12. CASE /\ compact' = [inputs |-> S \cup D, out |-> 0, done |-> FALSE]
              /\ bg' = "merge"
              /\ UNCHANGED edit
    <2>1. compact'.inputs = S \cup D /\ compact'.out = 0 /\ compact'.done = FALSE
          /\ compact' # NoCompact
      BY <1>9, <1>12 DEF NoCompact
    <2>2. ThreadType'
      BY <1>1, <1>3, <1>9, <1>12 DEF ThreadType
    <2>3. Merging'
      BY <1>1, <1>2, <1>9, <1>12, <2>1 DEF Merging
    <2>4. Flushing' /\ Editing'
      BY <1>1, <1>3, <1>12 DEF Flushing, Editing, Recording
    <2> QED BY <1>7, <1>12, <2>2, <2>3, <2>4
  <1> QED BY <1>8, <1>11, <1>12

\* The output of a merge is created,
LEMMA StepOpenOutput ==
    ASSUME IInv, OpenCompactionOutputFile
    PROVE  IInv'
  <1>1. /\ bg = "merge" /\ compact.out = 0
        /\ compact' = [compact EXCEPT !.out = versions.next]
        /\ pending' = pending \cup {versions.next}
        /\ versions' = [versions EXCEPT !.next = @ + 1]
        /\ tables' = Put(tables, versions.next, {})
        /\ UNCHANGED <<logs, synced, manifest, calls, db, mem, imm, logfile, held, bgError,
                       scheduled, bg, building, edit, todo, counts>>
    BY DEF OpenCompactionOutputFile
  <1>2. UNCHANGED <<queue, step, crashes, faults, reads>> /\ TypeOK /\ db = "open"
    BY <1>1, BusyOpen DEF calls, queue, counts, IInv
  <1>3. versions \in Versions /\ OpenType /\ ThreadType /\ TableType(tables) /\ building = 0
    BY <1>1, <1>2, Types DEF OpenType, IInv, Flushing
  <1>4. versions.next \in Nat /\ Files(versions) \subseteq Nat /\ versions.next # 0
    <2>1. logfile \in Nat /\ logfile < versions.next
      BY <1>2, <1>3 DEF IInv, Numbers, OpenType
    <2> QED BY <1>3, <2>1, VersionFields
  <1>5. /\ versions' \in Versions /\ Grown
        /\ versions'.next = versions.next + 1 /\ Files(versions') = Files(versions)
    BY <1>1, <1>3, NextFile, GrownFiles
  <1>6. versions.next \notin Files(versions)
    BY <1>4 DEF IInv, Numbers
  <1>7. ASSUME NEW v \in Led(manifest) PROVE versions.next \notin Files(v)
    <2>1. v.next \in Nat /\ Files(v) \subseteq Nat /\ v.next <= versions.next
          /\ \A f \in Files(v) : f < v.next
      BY <1>2, LedFields DEF OpenVersion, Version
    <2> QED BY <1>4, <2>1
  <1>8. /\ DOMAIN tables' = DOMAIN tables \cup {versions.next}
        /\ tables'[versions.next] = {}
        /\ \A n \in DOMAIN tables : n # versions.next => tables'[n] = tables[n]
    BY <1>1 DEF Put
  <1>9. TableType(tables')
    BY <1>1, <1>3, <1>4, PutTable
  <1>10. TablesKept
    BY <1>6, <1>7, <1>8 DEF TablesKept
  <1>11. Content(tables', DOMAIN tables') \subseteq
             mem \cup imm \cup Content(tables, DOMAIN tables)
    BY <1>8 DEF Content
  <1>12. /\ compact'.inputs = compact.inputs /\ compact'.out = versions.next
         /\ compact'.done = compact.done
         /\ compact' \in [inputs : SUBSET Nat, out : Nat, done : BOOLEAN]
    BY <1>1, <1>3, <1>4 DEF ThreadType
  <1>13. ThreadType' /\ CountType' /\ pending' \subseteq Nat /\ bgError' \in BOOLEAN
         /\ scheduled' \in BOOLEAN
    BY <1>1, <1>2, <1>3, <1>4, <1>12, Types DEF ThreadType, CountType, OpenType
  <1>14. TypeOK'
    BY <1>1, <1>2, <1>5, <1>9, <1>13, BackTypes
  <1>15. held' \subseteq DOMAIN tables' /\ (bgError' => faults' > 0)
    BY <1>1, <1>2, <1>8 DEF IInv, Numbers
  <1>16. /\ Quiet' /\ Queued' /\ Numbers' /\ Memory' /\ Recovering' /\ Stored'
         /\ Sequenced' /\ Manifested'
    BY <1>1, <1>2, <1>5, <1>10, <1>11, <1>14, <1>15, BackFrameManifest
  <1>17. Clean'
    BY <1>1, <1>2, <1>5 DEF IInv, Clean, SameFiles, Grown
  <1>18. Merging'
    <2>1. compact'.inputs \subseteq Files(versions')
      BY <1>5, <1>12 DEF IInv, Merging
    <2>2. /\ compact'.out \in pending' /\ compact'.out \in DOMAIN tables'
          /\ compact'.out < versions'.next /\ compact'.out \notin Files(versions')
          /\ \A v \in Led(manifest') : compact'.out \notin Files(v)
      BY <1>1, <1>4, <1>5, <1>6, <1>7, <1>8, <1>12
    <2>3. ~compact'.done
      BY <1>1, <1>12 DEF IInv, Merging
    <2>4. compact' # NoCompact
      BY <1>4, <1>12 DEF NoCompact
    <2> QED BY <1>1, <2>1, <2>2, <2>3, <2>4 DEF Merging
  <1>19. Flushing' /\ Editing'
    BY <1>1, <1>3 DEF Flushing, Editing, Recording
  <1> QED BY <1>14, <1>16, <1>17, <1>18, <1>19 DEF IInv

\* A merge finds what it reads: it does not run into an error by itself.
LEMMA AlwaysUsable ==
    ASSUME IInv, compact.out # 0
    PROVE  Usable
  BY DEF IInv, Merging, Numbers, Usable

\* and completed.
LEMMA StepFinishOutput ==
    ASSUME IInv, FinishCompactionOutputFile
    PROVE  IInv'
  <1>1. /\ bg = "merge" /\ compact.out # 0 /\ ~compact.done
        /\ tables' = [tables EXCEPT ![compact.out] = UNION {tables[n] : n \in compact.inputs}]
        /\ compact' = [compact EXCEPT !.done = TRUE]
        /\ UNCHANGED <<logs, synced, manifest, calls, db, mem, imm, versions, logfile,
                       pending, held, bgError, scheduled, bg, building, edit, todo, counts>>
    BY DEF FinishCompactionOutputFile
  <1>2. UNCHANGED <<queue, step, crashes, faults, reads>> /\ TypeOK /\ db = "open"
    BY <1>1, BusyOpen DEF calls, queue, counts, IInv
  <1>3. versions \in Versions /\ OpenType /\ ThreadType /\ TableType(tables) /\ building = 0
    BY <1>1, <1>2, Types DEF OpenType, IInv, Flushing
  <1>4. /\ compact.inputs \subseteq Files(versions) /\ compact.inputs \subseteq DOMAIN tables
        /\ compact.out \in DOMAIN tables /\ compact.out \notin Files(versions)
        /\ compact.out \in pending /\ compact.out < versions.next
        /\ \A v \in Led(manifest) : compact.out \notin Files(v)
    <2>1. ~Recording
      BY <1>1 DEF Recording
    <2> QED BY <1>1, <2>1 DEF IInv, Merging, Numbers
  <1>5. UNION {tables[n] : n \in compact.inputs} = Content(tables, compact.inputs)
    BY <1>4 DEF Content
  <1>6. /\ DOMAIN tables' = DOMAIN tables
        /\ tables'[compact.out] = Content(tables, compact.inputs)
        /\ \A n \in DOMAIN tables : n # compact.out => tables'[n] = tables[n]
    BY <1>1, <1>4, <1>5
  <1>7. Content(tables, compact.inputs) \subseteq Writes
    BY <1>3, ContentType
  <1>8. TableType(tables')
    BY <1>3, <1>6, <1>7 DEF TableType
  <1>9. Grown
    <2>1. versions' = versions
      BY <1>1
    <2> QED BY <2>1, <1>3, VersionFields DEF Grown, SameFiles
  <1>10. TablesKept
    BY <1>4, <1>6 DEF TablesKept
  <1>11. Content(tables', DOMAIN tables') \subseteq
             mem \cup imm \cup Content(tables, DOMAIN tables)
    <2>1. Content(tables, compact.inputs) \subseteq Content(tables, DOMAIN tables)
      BY DEF Content
    <2>2. \A n \in DOMAIN tables' : tables'[n] \subseteq Content(tables, DOMAIN tables)
      BY <1>6, <2>1 DEF Content
    <2> QED BY <2>2 DEF Content
  <1>12. /\ compact'.inputs = compact.inputs /\ compact'.out = compact.out
         /\ compact'.done = TRUE
         /\ compact' \in [inputs : SUBSET Nat, out : Nat, done : BOOLEAN]
    BY <1>1, <1>3 DEF ThreadType
  <1>13. ThreadType' /\ CountType' /\ pending' \subseteq Nat /\ bgError' \in BOOLEAN
         /\ scheduled' \in BOOLEAN /\ versions' \in Versions
    BY <1>1, <1>2, <1>3, <1>12, Types DEF ThreadType, CountType, OpenType
  <1>14. TypeOK'
    BY <1>1, <1>2, <1>8, <1>13, BackTypes
  <1>15. held' \subseteq DOMAIN tables' /\ (bgError' => faults' > 0)
    BY <1>1, <1>2, <1>6 DEF IInv, Numbers
  <1>16. /\ Quiet' /\ Queued' /\ Numbers' /\ Memory' /\ Recovering' /\ Stored'
         /\ Sequenced' /\ Manifested'
    BY <1>1, <1>2, <1>9, <1>10, <1>11, <1>14, <1>15, BackFrameManifest
  <1>17. Clean'
    BY <1>1, <1>2, <1>9 DEF IInv, Clean, SameFiles, Grown
  <1>18. Merging'
    <2>1. \A n \in compact.inputs : n \in DOMAIN tables /\ n \in DOMAIN tables'
                                    /\ tables'[n] = tables[n]
      BY <1>4, <1>6
    <2>2. Content(tables', compact.inputs) = Content(tables, compact.inputs)
      BY <2>1, ContentSame
    <2>3. compact' # NoCompact
      BY <1>12 DEF NoCompact
    <2>4. versions' = versions /\ manifest' = manifest /\ pending' = pending /\ bg' = "merge"
      BY <1>1
    <2>5. compact'.inputs \subseteq Files(versions')
      BY <1>4, <1>12, <2>4
    <2>6. /\ compact'.out \in pending' /\ compact'.out \in DOMAIN tables'
          /\ compact'.out < versions'.next /\ compact'.out \notin Files(versions')
          /\ \A v \in Led(manifest') : compact'.out \notin Files(v)
          /\ compact'.out # 0
          /\ tables'[compact'.out] = Content(tables', compact'.inputs)
      BY <1>1, <1>4, <1>6, <1>12, <2>2, <2>4
    <2> QED BY <2>3, <2>4, <2>5, <2>6 DEF Merging
  <1>19. Flushing' /\ Editing'
    BY <1>1, <1>3 DEF Flushing, Editing, Recording
  <1> QED BY <1>14, <1>16, <1>17, <1>18, <1>19 DEF IInv

\* DoCompactionWork fails: the output is given up, and the version stays.
LEMMA StepCompactionFails ==
    ASSUME IInv, compactionFails
    PROVE  IInv'
  <1>1. /\ bg = "merge" /\ compact.out # 0 /\ bgError' = TRUE
        /\ pending' = pending \ {compact.out} /\ compact' = NoCompact
        /\ UNCHANGED <<imm, versions, disk, queue, db, mem, logfile, held, building, edit, todo>>
        /\ finishCall
    BY DEF compactionFails
  <1>2. UNCHANGED <<logs, synced, tables, manifest>> /\ TypeOK /\ db = "open" /\ building = 0
    BY <1>1, BusyOpen DEF disk, IInv, Flushing
  <1>3. /\ bg' = "idle" /\ scheduled' \in BOOLEAN
        /\ step' = step \/ (step = "asleep" /\ step' = "front")
    BY <1>1, <1>2, finishCallFacts
  <1>4. /\ Grown /\ TablesKept /\ versions' \in Versions /\ TableType(tables')
        /\ Content(tables', DOMAIN tables') \subseteq
               mem \cup imm \cup Content(tables, DOMAIN tables)
    BY <1>1, <1>2, Unmoved
  <1>5. CountType' /\ faults' > 0
    <2>1. Fault
      BY <1>1, AlwaysUsable DEF compactionFails
    <2> QED BY <1>2, <2>1, FaultCounts
  <1>6. ThreadType' /\ pending' \subseteq Nat /\ bgError' \in BOOLEAN
    <2>1. NoCompact \in [inputs : SUBSET Nat, out : Nat, done : BOOLEAN]
      BY DEF NoCompact
    <2> QED BY <1>1, <1>2, <1>3, <2>1, Types DEF ThreadType, OpenType
  <1>7. TypeOK'
    BY <1>1, <1>2, <1>3, <1>4, <1>5, <1>6, BackTypes
  <1>8. held' \subseteq DOMAIN tables'
    BY <1>1, <1>2 DEF IInv, Numbers
  <1>9. /\ Quiet' /\ Queued' /\ Numbers' /\ Memory' /\ Recovering' /\ Stored'
        /\ Sequenced' /\ Manifested'
    BY <1>1, <1>2, <1>3, <1>4, <1>5, <1>7, <1>8, BackFrameManifest
  <1>10. Clean'
    BY <1>1 DEF Clean
  <1>11. Merging'
    BY <1>1, <1>3 DEF Merging, NoCompact
  <1>12. Flushing' /\ Editing'
    BY <1>1, <1>2, <1>3 DEF Flushing, Editing, Recording
  <1> QED BY <1>7, <1>9, <1>10, <1>11, <1>12 DEF IInv

\* The edit of a merge: its inputs go, its output comes.
LEMMA StepInstallResults ==
    ASSUME IInv, InstallCompactionResults
    PROVE  IInv'
  <1>1. /\ bg = "merge" /\ compact.done /\ bg' = "log"
        /\ edit' = [NoEdit EXCEPT !.del = compact.inputs, !.deep = {compact.out},
                                  !.log = versions.log, !.last = versions.last,
                                  !.next = versions.next]
        /\ UNCHANGED <<disk, calls, db, mem, imm, versions, logfile, pending, held,
                       bgError, scheduled, building, compact, todo, counts>>
    BY DEF InstallCompactionResults
  <1>2. /\ UNCHANGED <<logs, synced, tables, manifest, queue, step, crashes, faults, reads>>
        /\ TypeOK /\ db = "open" /\ building = 0
    BY <1>1, BusyOpen DEF disk, calls, queue, counts, IInv, Flushing
  <1>3. versions \in Versions /\ OpenType /\ ThreadType
    BY <1>2, Types DEF OpenType
  <1>4. /\ compact.inputs \subseteq Nat /\ compact.out \in Nat /\ compact.out # 0
        /\ compact.out < versions.next
    BY <1>1, <1>3 DEF ThreadType, IInv, Merging
  <1>5. versions.last \in Nat /\ versions.next \in Nat /\ versions.log \in Nat /\ logfile \in Nat
    BY <1>3, VersionFields DEF OpenType
  <1>6. edit' = [l0 |-> {}, deep |-> {compact.out}, del |-> compact.inputs,
                 log |-> versions.log, last |-> versions.last, next |-> versions.next]
    BY <1>1 DEF NoEdit
  <1>7. edit' \in Edits
    BY <1>4, <1>5, <1>6 DEF Edits
  <1>8. /\ edit'.l0 = {} /\ edit'.deep = {compact.out} /\ edit'.del = compact.inputs
        /\ edit'.log = versions.log /\ edit'.last = versions.last
        /\ edit'.next = versions.next
    BY <1>6
  <1>9. /\ Grown /\ TablesKept /\ versions' \in Versions /\ TableType(tables')
        /\ Content(tables', DOMAIN tables') \subseteq
               mem \cup imm \cup Content(tables, DOMAIN tables)
    BY <1>1, <1>2, Unmoved
  <1>10. CountType' /\ pending' \subseteq Nat /\ bgError' \in BOOLEAN /\ scheduled' \in BOOLEAN
         /\ ThreadType'
    BY <1>1, <1>2, <1>3, <1>7, Types DEF CountType, OpenType, ThreadType
  <1>11. held' \subseteq DOMAIN tables' /\ (bgError' => faults' > 0)
    BY <1>1, <1>2 DEF IInv, Numbers
  <1>12. TypeOK'
    BY <1>1, <1>2, <1>9, <1>10, BackTypes
  <1>13. /\ Quiet' /\ Queued' /\ Numbers' /\ Memory' /\ Recovering' /\ Stored'
         /\ Sequenced' /\ Manifested'
    BY <1>1, <1>2, <1>9, <1>11, <1>12, BackFrameManifest
  <1>14. Clean'
    BY <1>1, <1>2 DEF IInv, Clean, SameFiles
  <1>15. Merging'
    BY <1>1, <1>2 DEF IInv, Merging, Recording
  <1>16. Flushing'
    BY <1>1, <1>2 DEF Flushing
  <1>17. Editing'
    <2>1. \A w \in Content(tables', Files(versions')) : sequence'[w] <= edit'.last
      <3>1. UNCHANGED sequence
        BY <1>2 DEF queue
      <3> QED BY <1>1, <1>2, <1>8, <3>1, ReadNumbered
    <2>2. \A v \in Led(manifest') : v.last <= edit'.last /\ v.next <= edit'.next
      BY <1>2, <1>8, LedFields DEF OpenVersion
    <2>3. edit'.last <= versions'.last /\ edit'.next <= versions'.next
          /\ edit'.log < edit'.next
      BY <1>1, <1>2, <1>5, <1>8 DEF IInv, Numbers
    <2>4. \A f \in edit'.l0 \cup edit'.deep : f < edit'.next
      BY <1>4, <1>8
    <2>5. /\ building' = 0 /\ compact'.done
          /\ edit'.l0 = {} /\ edit'.del = compact'.inputs /\ edit'.deep = {compact'.out}
          /\ edit'.log = versions'.log
      BY <1>1, <1>2, <1>8
    <2> QED BY <1>1, <2>1, <2>2, <2>3, <2>4, <2>5 DEF Editing
  <1> QED BY <1>12, <1>13, <1>14, <1>15, <1>16, <1>17 DEF IInv

-----------------------------------------------------------------------------
(* Readers.                                                                *)

\* A reader takes or drops a version.
LEMMA StepReader ==
    ASSUME IInv, db = "open", held' \subseteq DOMAIN tables, CountType', faults' = faults,
           UNCHANGED <<disk, calls, db, mem, imm, versions, logfile, pending, bgError,
                       scheduled, thread, todo>>
    PROVE  IInv'
  <1>1. /\ UNCHANGED <<logs, synced, tables, manifest, queue, step>> /\ TypeOK
        /\ UNCHANGED <<bg, building, compact, edit, state, sequence, writers, group>>
    BY DEF disk, calls, queue, thread, IInv
  <1>2. /\ Grown /\ TablesKept /\ versions' \in Versions /\ TableType(tables')
        /\ Content(tables', DOMAIN tables') \subseteq
               mem \cup imm \cup Content(tables, DOMAIN tables)
    BY <1>1, Unmoved
  <1>3. TypeOK'
    <2>1. /\ LogType(logs, synced) /\ manifest \in ManifestType /\ TableType(tables)
          /\ OpenType /\ CallType /\ ThreadType
      BY <1>1, Types
    <2>2. held' \subseteq Nat
      BY <2>1 DEF TableType
    <2>3. CallType' /\ OpenType' /\ ThreadType'
      BY <1>1, <2>1, <2>2 DEF CallType, OpenType, ThreadType
    <2> QED BY <1>1, <2>1, <2>3, TypesNext
  <1>4. held' \subseteq DOMAIN tables' /\ (bgError' => faults' > 0)
    BY <1>1 DEF IInv, Numbers
  <1>5. /\ Quiet' /\ Queued' /\ Numbers' /\ Memory' /\ Recovering' /\ Stored'
        /\ Sequenced' /\ Manifested'
    BY <1>1, <1>2, <1>3, <1>4, BackFrameManifest
  <1>6. Clean'
    BY <1>1 DEF IInv, Clean, SameFiles
  <1>7. Merging' /\ Flushing'
    BY <1>1 DEF IInv, Merging, Flushing, Recording
  <1>8. Editing'
    BY <1>1 DEF IInv, Editing, Recording
  <1> QED BY <1>3, <1>5, <1>6, <1>7, <1>8 DEF IInv

\* A reader takes the current version,
LEMMA StepRefVersion ==
    ASSUME IInv, RefVersion
    PROVE  IInv'
  <1>1. Files(versions) \subseteq DOMAIN tables
    BY DEF IInv, Numbers
  <1>2. CountType
    BY Types DEF IInv
  <1>3. reads < MaxReads /\ reads' = reads + 1 /\ UNCHANGED <<crashes, faults>>
    BY DEF RefVersion
  <1>4. CountType'
    BY <1>2, <1>3, BoundsAssumption DEF CountType
  <1> QED BY <1>1, <1>4, StepReader DEF RefVersion

\* and drops it.
LEMMA StepUnrefVersion ==
    ASSUME IInv, UnrefVersion
    PROVE  IInv'
  <1>1. db = "open"
    BY DEF IInv, Quiet, UnrefVersion
  <1>2. CountType' /\ UNCHANGED faults
    BY Types DEF IInv, CountType, UnrefVersion, counts
  <1> QED BY <1>1, <1>2, StepReader DEF UnrefVersion

-----------------------------------------------------------------------------
(* VersionSet::LogAndApply.                                                *)

\* The tables of a version after the edit hold what they held before, and
\* nothing that is not in memory or in the current version: what the edit
\* deletes is in the table that it adds.
LEMMA EditContent ==
    ASSUME IInv, db = "open", Recording,
           NEW F, F \subseteq DOMAIN tables,
           NEW G, G = (F \ edit.del) \cup (edit.l0 \cup edit.deep)
    PROVE  /\ G \subseteq DOMAIN tables
           /\ Content(tables, F) \subseteq Content(tables, G)
           /\ building # 0 => /\ imm \subseteq Content(tables, G)
                              /\ Content(tables, G) \subseteq Content(tables, F) \cup imm
                              /\ F \subseteq G /\ G \subseteq F \cup {building}
           /\ building = 0 => Content(tables, G) \subseteq
                                  Content(tables, F) \cup Content(tables, Files(versions))
  <1>1. Files(versions) \subseteq DOMAIN tables
    BY DEF IInv, Numbers
  <1>2. CASE building # 0
    <2>1. /\ edit.l0 \cup edit.deep = {building} /\ edit.del = {}
          /\ building \in DOMAIN tables /\ tables[building] = imm
      BY <1>2 DEF IInv, Editing, Flushing
    <2>2. G = F \cup {building}
      BY <2>1
    <2>3. Content(tables, {building}) = imm
      BY <2>1 DEF Content
    <2>4. Content(tables, G) = Content(tables, F) \cup imm
      BY <2>2, <2>3, ContentUnion
    <2> QED BY <1>2, <2>1, <2>2, <2>4
  <1>3. CASE building = 0 /\ compact = NoCompact
    <2>1. /\ edit.l0 = {} /\ edit.del = edit.deep /\ edit.deep \subseteq Files(versions)
      BY <1>3 DEF IInv, Editing, NoCompact
    <2>2. G = F \cup edit.deep
      BY <2>1
    <2>3. Content(tables, G) = Content(tables, F) \cup Content(tables, edit.deep)
      BY <2>2, ContentUnion
    <2>4. Content(tables, edit.deep) \subseteq Content(tables, Files(versions))
      BY <2>1, ContentMono
    <2> QED BY <1>1, <1>3, <2>1, <2>2, <2>3, <2>4
  <1>4. CASE building = 0 /\ compact # NoCompact
    <2>1. /\ compact.done
          /\ edit.l0 = {} /\ edit.del = compact.inputs /\ edit.deep = {compact.out}
      BY <1>4 DEF IInv, Editing
    <2>2. /\ compact.out \in DOMAIN tables /\ compact.inputs \subseteq Files(versions)
          /\ tables[compact.out] = Content(tables, compact.inputs)
      BY <2>1 DEF IInv, Merging
    <2>3. G = (F \ compact.inputs) \cup {compact.out}
      BY <2>1
    <2>4. Content(tables, {compact.out}) = Content(tables, compact.inputs)
      BY <2>2 DEF Content
    <2>5. Content(tables, G) = Content(tables, F \ compact.inputs) \cup
                               Content(tables, compact.inputs)
      BY <2>3, <2>4, ContentUnion
    <2>6. Content(tables, F) \subseteq Content(tables, F \ compact.inputs) \cup
                                       Content(tables, compact.inputs)
      BY DEF Content
    <2>8. Content(tables, F) \subseteq Content(tables, G)
      BY <2>5, <2>6
    <2>9. /\ Content(tables, F \ compact.inputs) \subseteq Content(tables, F)
          /\ Content(tables, compact.inputs) \subseteq Content(tables, Files(versions))
      BY <2>2, ContentMono
    <2> QED BY <1>4, <2>2, <2>3, <2>5, <2>8, <2>9
  <1> QED BY <1>2, <1>3, <1>4

\* The fields of the edit.
LEMMA EditFields ==
    ASSUME IInv
    PROVE  /\ edit \in Edits /\ edit.log \in Nat /\ edit.last \in Nat /\ edit.next \in Nat
           /\ edit.l0 \subseteq Nat /\ edit.deep \subseteq Nat
  BY DEF IInv, TypeOK, Edits

\* The version that the whole manifest leads to is as good after the edit.
LEMMA EditVersion ==
    ASSUME IInv, db = "open", Recording, NEW v \in Led(manifest), v = Latest(manifest),
           NEW u, u = ApplyEdit(v, edit)
    PROVE  /\ u \in Versions /\ Version(u) /\ OpenVersion(u) /\ Ahead(u)
           /\ Content(tables, Files(u)) \subseteq Live
           /\ Files(u) = (Files(v) \ edit.del) \cup (edit.l0 \cup edit.deep)
           /\ u.log = edit.log /\ u.last = edit.last /\ u.next = edit.next
  <1>1. /\ v \in Versions /\ Files(v) \subseteq Nat /\ v.log \in Nat /\ v.last \in Nat
        /\ v.next \in Nat /\ Version(v) /\ Files(v) \subseteq DOMAIN tables /\ OpenVersion(v)
    BY LedFields
  <1>2. /\ edit \in Edits /\ edit.log \in Nat /\ edit.last \in Nat /\ edit.next \in Nat
        /\ edit.l0 \subseteq Nat /\ edit.deep \subseteq Nat
    BY EditFields
  <1>3. /\ u \in Versions
        /\ Files(u) = (Files(v) \ edit.del) \cup (edit.l0 \cup edit.deep)
        /\ u.log = edit.log /\ u.last = edit.last /\ u.next = edit.next
    BY <1>1, <1>2, ApplyFields
  <1>4. /\ Files(u) \subseteq DOMAIN tables
        /\ Content(tables, Files(v)) \subseteq Content(tables, Files(u))
        /\ building # 0 => /\ imm \subseteq Content(tables, Files(u))
                           /\ Content(tables, Files(u)) \subseteq
                                  Content(tables, Files(v)) \cup imm
        /\ building = 0 => Content(tables, Files(u)) \subseteq
                    Content(tables, Files(v)) \cup Content(tables, Files(versions))
    BY <1>1, <1>3, EditContent
  <1>5. /\ edit.last <= versions.last /\ edit.next <= versions.next
        /\ edit.log < edit.next
        /\ \A f \in edit.l0 \cup edit.deep : f < edit.next
        /\ \A w \in Content(tables, Files(versions)) : sequence[w] <= edit.last
        /\ v.last <= edit.last /\ v.next <= edit.next
        /\ building # 0 => edit.log = logfile /\ \A w \in imm : sequence[w] <= edit.last
        /\ building = 0 => edit.log = versions.log
    BY DEF IInv, Editing
  <1>6. Version(u)
    <2>1. ASSUME NEW f \in Files(u) PROVE f < u.next
      <3>1. CASE f \in edit.l0 \cup edit.deep
        BY <1>3, <1>5, <3>1
      <3>2. CASE f \in Files(v)
        <4>1. f < v.next /\ f \in Nat
          BY <1>1, <3>2 DEF Version
        <4> QED BY <1>1, <1>2, <1>3, <1>5, <4>1
      <3> QED BY <1>3, <3>1, <3>2
    <2>2. ASSUME NEW w \in Content(tables, Files(v)) PROVE sequence[w] <= edit.last
      <3>1. sequence[w] <= v.last
        BY <1>1 DEF Version
      <3>2. sequence[w] \in Nat
        <4>1. Content(tables, Files(v)) \subseteq Writes
          BY ContentType, Types DEF IInv
        <4> QED BY <4>1 DEF IInv, TypeOK
      <3> QED BY <1>1, <1>2, <1>5, <3>1, <3>2
    <2>3. \A w \in Content(tables, Files(u)) : sequence[w] <= u.last
      BY <1>3, <1>4, <1>5, <2>2
    <2> QED BY <1>3, <1>4, <1>5, <2>1, <2>3 DEF Version
  <1>7. versions.log \in Nat /\ logfile \in Nat /\ versions.log <= logfile
        /\ DOMAIN logs \subseteq Nat /\ Ahead(v) /\ versions.log <= v.log
    <2>1. versions \in Versions
      BY DEF IInv, TypeOK
    <2>2. Ahead(v)
      BY DEF IInv, Manifested
    <2> QED BY <2>1, <2>2, <1>1, VersionFields DEF IInv, TypeOK, Numbers, Ahead
  <1>8. versions.log <= u.log /\ u.log <= logfile
    BY <1>3, <1>5, <1>7
  <1>9. Ahead(u)
    BY <1>4, <1>7, <1>8 DEF Ahead
  <1>10. OpenVersion(u)
    <2>1. /\ Flushed \subseteq Content(tables, Files(u)) \cup InLogs(logs, u.log)
          /\ Flushed \cap SyncWrites \subseteq Content(tables, Files(u)) \cup
                                             InLogs(Safe(logs, synced), u.log)
      <3>1. CASE building # 0
        BY <1>4, <1>9, <3>1 DEF Flushed, Ahead
      <3>2. CASE building = 0
        <4>1. u.log <= v.log
          BY <1>3, <1>5, <1>7, <3>2
        <4>2. DOMAIN Safe(logs, synced) \subseteq Nat
          BY <1>7 DEF Safe
        <4>3. /\ InLogs(logs, v.log) \subseteq InLogs(logs, u.log)
              /\ InLogs(Safe(logs, synced), v.log) \subseteq InLogs(Safe(logs, synced), u.log)
          BY <1>1, <1>2, <1>3, <1>7, <4>1, <4>2, InLogsMono
        <4> QED BY <1>1, <1>4, <4>3 DEF OpenVersion
      <3> QED BY <3>1, <3>2
    <2> QED BY <1>3, <1>5, <1>8, <2>1 DEF OpenVersion
  <1>11. Content(tables, Files(u)) \subseteq Live
    BY <1>4, LiveParts
  <1> QED BY <1>3, <1>6, <1>9, <1>10, <1>11

\* What a record of the manifest leads to.
LEMMA RecordFacts ==
    ASSUME IInv
    PROVE  /\ Record(TRUE) \in Records /\ Record(TRUE).version = Latest(manifest)
           /\ Record(FALSE) \in Records
           /\ Record(FALSE) = [torn |-> FALSE, version |-> ApplyEdit(Latest(manifest), edit)]
           /\ Record(FALSE).version = ApplyEdit(Latest(manifest), edit)
  <1>1. Latest(manifest) \in Versions
    BY LedType, Types DEF IInv
  <1>2. ApplyEdit(Latest(manifest), edit) \in Versions
    BY <1>1, EditFields, ApplyFields
  <1>3. Record(TRUE) = [torn |-> TRUE, version |-> Latest(manifest)]
    BY DEF Record, Latest
  <1>4. Record(FALSE) = [torn |-> FALSE, version |-> ApplyEdit(Latest(manifest), edit)]
    BY DEF Record, Latest
  <1>5. ASSUME NEW v \in Versions, NEW b \in BOOLEAN
        PROVE  [torn |-> b, version |-> v] \in Records
    BY DEF Records
  <1>6. Record(TRUE) \in Records /\ Record(FALSE) \in Records
    BY <1>1, <1>2, <1>3, <1>4, <1>5
  <1>7. ASSUME NEW v
        PROVE  /\ [torn |-> TRUE, version |-> v].version = v
               /\ [torn |-> FALSE, version |-> v].version = v
    OBVIOUS
  <1>8. Record(TRUE).version = Latest(manifest)
    BY <1>3, <1>7
  <1>9. Record(FALSE).version = ApplyEdit(Latest(manifest), edit)
    BY <1>4, <1>7
  <1> QED BY <1>4, <1>6, <1>8, <1>9

\* The manifest may lead to one version more, which is as good as the others.
LEMMA Recorded ==
    ASSUME IInv, TypeOK', db = "open",
           UNCHANGED <<logs, synced, tables, queue, db, mem, imm, versions, logfile, held,
                       todo>>,
           step' = step \/ (step = "asleep" /\ step' = "front"),
           bgError' => faults' > 0,
           \A v \in Led(manifest') :
               \/ v \in Led(manifest)
               \/ /\ Version(v) /\ OpenVersion(v)
                  /\ Content(tables, Files(v)) \subseteq Live,
           Ahead(Latest(manifest'))
    PROVE  /\ Quiet' /\ Queued' /\ Numbers' /\ Memory' /\ Recovering' /\ Stored'
           /\ Sequenced' /\ Manifested'
  <1>1. /\ Grown /\ TablesKept
        /\ Content(tables', DOMAIN tables') \subseteq
               mem \cup imm \cup Content(tables, DOMAIN tables)
    BY Unmoved
  <1>2. \A v \in Led(manifest') : Content(tables', Files(v)) \subseteq Live
    BY LiveParts
  <1>3. held' \subseteq DOMAIN tables'
    BY DEF IInv, Numbers
  <1>4. Quiet' /\ Queued' /\ Numbers' /\ Memory' /\ Recovering' /\ Stored' /\ Sequenced'
    BY <1>1, <1>2, <1>3, BackFrame
  <1>5. Manifested'
    <2> SUFFICES ASSUME NEW v \in Led(manifest')
                 PROVE  Version(v)' /\ OpenVersion(v)'
      BY DEF Manifested, Ahead
    <2>1. Version(v) /\ OpenVersion(v)
      BY LedFields
    <2>2. UNCHANGED sequence
      BY DEF queue
    <2> QED BY <2>1, <2>2 DEF Version, OpenVersion, Flushed
  <1> QED BY <1>4, <1>5

\* Types when a record is written.
LEMMA RecordTypes ==
    ASSUME IInv, manifest' \in ManifestType,
           pending' \subseteq Nat, bgError' \in BOOLEAN, scheduled' \in BOOLEAN,
           ThreadType', CountType', step' = step \/ step' = "front",
           UNCHANGED <<logs, synced, tables, queue, db, mem, imm, versions, logfile, held,
                       todo>>
    PROVE  TypeOK'
  <1>1. LogType(logs, synced) /\ TableType(tables) /\ OpenType /\ CallType
    BY Types DEF IInv
  <1>2. UNCHANGED <<state, sequence, writers, group>>
    BY DEF queue
  <1>3. CallType' /\ OpenType'
    BY <1>1, <1>2 DEF CallType, OpenType
  <1> QED BY <1>1, <1>3, TypesNext

\* The record of the edit is written.
LEMMA StepLogEdit ==
    ASSUME IInv, LogEdit
    PROVE  IInv'
  <1> DEFINE L == Latest(manifest)
             u == ApplyEdit(L, edit)
             r == Record(FALSE)
  <1>1. /\ bg = "log" /\ bg' = "sync"
        /\ manifest' = [manifest EXCEPT !.edits = Append(@, Record(FALSE))]
        /\ UNCHANGED <<logs, synced, tables, calls, db, mem, imm, versions, logfile, pending,
                       held, bgError, scheduled, building, compact, edit, todo, counts>>
    BY DEF LogEdit
  <1>2. /\ UNCHANGED <<queue, step, crashes, faults, reads>> /\ TypeOK /\ db = "open"
        /\ Recording
    BY <1>1, BusyOpen DEF calls, queue, counts, IInv, Recording
  <1>3. /\ manifest \in ManifestType
        /\ OpenType /\ ThreadType /\ CountType
    BY <1>2, Types
  <1>4. L \in Led(manifest)
    BY <1>3, LedType
  <1>5. r \in Records /\ r.version = u /\ r = [torn |-> FALSE, version |-> u]
    BY RecordFacts
  <1>5a. manifest' = [manifest EXCEPT !.edits = Append(@, r)]
    BY <1>1
  <1> HIDE DEF r
  <1>6. /\ manifest' \in ManifestType
        /\ manifest'.base = manifest.base
        /\ manifest'.edits = Append(manifest.edits, r)
        /\ Led(manifest') = Led(manifest) \cup {u}
        /\ Latest(manifest') = u
    BY <1>3, <1>5, <1>5a, LedAppend
  <1>7. /\ Version(u) /\ OpenVersion(u) /\ Ahead(u)
        /\ Content(tables, Files(u)) \subseteq Live
        /\ Files(u) = (Files(L) \ edit.del) \cup (edit.l0 \cup edit.deep)
        /\ u.log = edit.log /\ u.last = edit.last /\ u.next = edit.next
    BY <1>2, <1>4, EditVersion
  <1> HIDE DEF L, u
  <1>8. ThreadType' /\ CountType' /\ pending' \subseteq Nat /\ bgError' \in BOOLEAN
        /\ scheduled' \in BOOLEAN
    BY <1>1, <1>2, <1>3 DEF ThreadType, CountType, OpenType
  <1>9. TypeOK'
    BY <1>1, <1>2, <1>6, <1>8, RecordTypes
  <1>10. bgError' => faults' > 0
    BY <1>1, <1>2 DEF IInv, Numbers
  <1>11. \A v \in Led(manifest') :
             \/ v \in Led(manifest)
             \/ /\ Version(v) /\ OpenVersion(v)
                /\ Content(tables, Files(v)) \subseteq Live
    BY <1>6, <1>7
  <1>12. /\ Quiet' /\ Queued' /\ Numbers' /\ Memory' /\ Recovering' /\ Stored'
         /\ Sequenced' /\ Manifested'
    BY <1>1, <1>2, <1>6, <1>7, <1>9, <1>10, <1>11, Recorded
  <1>13. Clean'
    <2> SUFFICES ASSUME ~bgError
                 PROVE  Clean'
      BY <1>1 DEF Clean
    <2>1. /\ SameFiles(manifest.base, versions)
          /\ manifest.edits = <<>>
      BY <1>1, <1>2 DEF IInv, Clean
    <2>2. L = manifest.base
      BY <1>3, <2>1, LedEmpty DEF L
    <2>3. manifest'.edits = <<[torn |-> FALSE, version |-> u]>>
      <3>1. Append(<<>>, r) = <<r>>
        OBVIOUS
      <3> QED BY <1>5, <1>6, <2>1, <3>1
    <2>4. u = ApplyEdit(manifest.base, edit)
      BY <2>2 DEF u
    <2>5. SameFiles(manifest'.base, versions')
      BY <1>1, <1>6, <2>1 DEF SameFiles
    <2> QED BY <1>1, <1>6, <2>1, <2>3, <2>4, <2>5 DEF Clean
  <1>14. Merging'
    <2>1. compact.out # 0 /\ building # 0 =>
              \A v \in Led(manifest') : compact.out \notin Files(v)
      <3> SUFFICES ASSUME compact.out # 0, building # 0
                   PROVE  \A v \in Led(manifest') : compact.out \notin Files(v)
        OBVIOUS
      <3>1. \A v \in Led(manifest) : compact.out \notin Files(v)
        BY DEF IInv, Merging
      <3>2. compact.out # building /\ edit.l0 \cup edit.deep = {building}
        BY <1>2 DEF IInv, Flushing, Editing
      <3> QED BY <1>4, <1>6, <1>7, <3>1, <3>2
    <2> QED BY <1>1, <1>2, <2>1 DEF IInv, Merging, Recording
  <1>15. Flushing'
    BY <1>1, <1>2 DEF IInv, Flushing, Recording
  <1>16. Editing'
    <2>1. edit.last \in Nat /\ edit.next \in Nat
      BY EditFields
    <2>2. \A v \in Led(manifest') : v.last <= edit.last /\ v.next <= edit.next
      BY <1>2, <1>6, <1>7, <2>1 DEF IInv, Editing
    <2>3. edit.l0 \cup edit.deep \subseteq Files(Latest(manifest'))
          /\ Latest(manifest').log = edit.log
      BY <1>6, <1>7
    <2>4. UNCHANGED sequence
      BY <1>2 DEF queue
    <2>5. Editing
      BY DEF IInv
    <2> QED BY <1>1, <1>2, <2>2, <2>3, <2>4, <2>5 DEF Editing
  <1> QED BY <1>9, <1>12, <1>13, <1>14, <1>15, <1>16 DEF IInv

\* What comes after LogAndApply.
LEMMA editedFacts ==
    ASSUME TypeOK, edited
    PROVE  /\ edit' = NoEdit /\ building' = 0
           /\ building # 0 => /\ UNCHANGED <<pending, compact>>
                              /\ bg' = IF compact = NoCompact THEN "idle" ELSE "merge"
           /\ building = 0 => /\ pending' = pending \ {compact.out}
                              /\ compact' = NoCompact /\ bg' = "idle"
           /\ scheduled' \in BOOLEAN /\ ThreadType' /\ pending' \subseteq Nat
           /\ step' = step \/ (step = "asleep" /\ step' = "front")
           /\ bg' \in {"idle", "merge"}
  <1>1. ThreadType /\ pending \subseteq Nat
    BY Types DEF OpenType
  <1>2. NoCompact \in [inputs : SUBSET Nat, out : Nat, done : BOOLEAN] /\ NoEdit \in Edits
    BY DEF NoCompact, NoEdit, Edits
  <1>3. edit' = NoEdit /\ building' = 0
    BY DEF edited
  <1>4. CASE building # 0
    <2>1. UNCHANGED <<pending, compact>> /\ return
      BY <1>4 DEF edited
    <2>2. /\ bg' = IF compact = NoCompact THEN "idle" ELSE "merge"
          /\ scheduled' \in BOOLEAN
          /\ step' = step \/ (step = "asleep" /\ step' = "front")
      BY <2>1, returnFacts
    <2>3. bg' \in {"idle", "merge"}
      BY <2>2
    <2>4. ThreadType'
      BY <1>1, <1>2, <1>3, <2>1, <2>3 DEF ThreadType
    <2> QED BY <1>1, <1>3, <1>4, <2>1, <2>2, <2>3, <2>4
  <1>5. CASE building = 0
    <2>1. pending' = pending \ {compact.out} /\ compact' = NoCompact /\ finishCall
      BY <1>5 DEF edited
    <2>2. /\ bg' = "idle" /\ scheduled' \in BOOLEAN
          /\ step' = step \/ (step = "asleep" /\ step' = "front")
      BY <2>1, finishCallFacts
    <2>3. ThreadType'
      BY <1>1, <1>2, <1>3, <2>1, <2>2 DEF ThreadType
    <2> QED BY <1>1, <1>3, <1>5, <2>1, <2>2, <2>3
  <1> QED BY <1>4, <1>5

\* What the manifest may lead to after an error in LogAndApply.
LEMMA FailedRecord ==
    ASSUME IInv, logEditFails
    PROVE  /\ Recording /\ db = "open"
           /\ manifest' \in ManifestType
           /\ \A v \in Led(manifest') :
                  \/ v \in Led(manifest)
                  \/ v = ApplyEdit(Latest(manifest), edit)
           /\ Latest(manifest') \in {Latest(manifest), ApplyEdit(Latest(manifest), edit)}
  <1>1. bg \in {"log", "sync"}
    BY DEF logEditFails
  <1>2. db = "open" /\ Recording
    BY <1>1, BusyOpen DEF Recording
  <1>3. /\ manifest \in ManifestType
    BY Types DEF IInv
  <1>4. Latest(manifest) \in Led(manifest)
    BY <1>3, LedType
  <1>5. CASE UNCHANGED manifest
    BY <1>2, <1>3, <1>5
  <1>6. CASE manifest' = [manifest EXCEPT !.edits = Append(@, Record(TRUE))]
    <2>1. /\ manifest' \in ManifestType
          /\ Led(manifest') = Led(manifest) \cup {Record(TRUE).version}
          /\ Latest(manifest') = Record(TRUE).version
      BY <1>3, <1>6, RecordFacts, LedAppend
    <2> QED BY <1>2, <1>4, <2>1, RecordFacts
  <1>7. CASE manifest' = [manifest EXCEPT !.edits = Append(@, Record(FALSE))]
    <2>1. /\ manifest' \in ManifestType
          /\ Led(manifest') = Led(manifest) \cup {Record(FALSE).version}
          /\ Latest(manifest') = Record(FALSE).version
      BY <1>3, <1>7, RecordFacts, LedAppend
    <2> QED BY <1>2, <2>1, RecordFacts
  <1>8. \/ UNCHANGED manifest
        \/ \E torn \in BOOLEAN :
               manifest' = [manifest EXCEPT !.edits = Append(@, Record(torn))]
    BY DEF logEditFails
  <1>9. \/ UNCHANGED manifest
        \/ manifest' = [manifest EXCEPT !.edits = Append(@, Record(TRUE))]
        \/ manifest' = [manifest EXCEPT !.edits = Append(@, Record(FALSE))]
    BY <1>8
  <1> QED BY <1>5, <1>6, <1>7, <1>9

\* It is not, or only in part, or not synced.
LEMMA StepLogEditFails ==
    ASSUME IInv, logEditFails
    PROVE  IInv'
  <1> DEFINE L == Latest(manifest)
             u == ApplyEdit(L, edit)
  <1>1. /\ Fault /\ bgError' = TRUE /\ edited
        /\ UNCHANGED <<imm, versions, logs, synced, tables, queue, db, mem, logfile, held,
                       todo>>
    BY DEF logEditFails
  <1>2. /\ Recording /\ db = "open" /\ TypeOK
        /\ manifest' \in ManifestType
        /\ \A v \in Led(manifest') : v \in Led(manifest) \/ v = u
        /\ Latest(manifest') \in {L, u}
    BY FailedRecord DEF IInv
  <1>3. L \in Led(manifest)
    BY <1>2, LedType, Types
  <1>4. /\ Version(u) /\ OpenVersion(u) /\ Ahead(u)
        /\ Content(tables, Files(u)) \subseteq Live
        /\ Files(u) = (Files(L) \ edit.del) \cup (edit.l0 \cup edit.deep)
    BY <1>2, <1>3, EditVersion
  <1>4a. Ahead(Latest(manifest'))
    <2>1. Ahead(L)
      BY <1>2 DEF IInv, Manifested
    <2> QED BY <1>2, <1>4, <2>1
  <1> HIDE DEF L, u
  <1>5. /\ edit' = NoEdit /\ building' = 0
        /\ building # 0 => /\ UNCHANGED <<pending, compact>>
                           /\ bg' = IF compact = NoCompact THEN "idle" ELSE "merge"
        /\ building = 0 => compact' = NoCompact /\ bg' = "idle"
        /\ scheduled' \in BOOLEAN /\ ThreadType' /\ pending' \subseteq Nat
        /\ step' = step \/ (step = "asleep" /\ step' = "front")
        /\ bg' \in {"idle", "merge"}
    BY <1>1, <1>2, editedFacts
  <1>6. CountType' /\ faults' > 0 /\ bgError' \in BOOLEAN
    BY <1>1, <1>2, FaultCounts
  <1>7. TypeOK'
    BY <1>1, <1>2, <1>5, <1>6, RecordTypes
  <1>8. \A v \in Led(manifest') :
            \/ v \in Led(manifest)
            \/ /\ Version(v) /\ OpenVersion(v)
               /\ Content(tables, Files(v)) \subseteq Live
    BY <1>2, <1>4
  <1>9. /\ Quiet' /\ Queued' /\ Numbers' /\ Memory' /\ Recovering' /\ Stored'
        /\ Sequenced' /\ Manifested'
    BY <1>1, <1>2, <1>4a, <1>5, <1>6, <1>7, <1>8, Recorded
  <1>10. Clean'
    BY <1>1 DEF Clean
  <1>11. Merging'
    <2>1. CASE building # 0
      <3>1. compact.out # 0 => \A v \in Led(manifest') : compact.out \notin Files(v)
        <4> SUFFICES ASSUME compact.out # 0
                     PROVE  \A v \in Led(manifest') : compact.out \notin Files(v)
          OBVIOUS
        <4>1. \A v \in Led(manifest) : compact.out \notin Files(v)
          BY <2>1 DEF IInv, Merging
        <4>2. compact.out # building /\ edit.l0 \cup edit.deep = {building}
          BY <1>2, <2>1 DEF IInv, Flushing, Editing
        <4> QED BY <1>2, <1>3, <1>4, <4>1, <4>2
      <3> QED BY <1>1, <1>5, <2>1, <3>1 DEF IInv, Merging
    <2>2. CASE building = 0
      BY <1>5, <2>2 DEF Merging, NoCompact
    <2> QED BY <2>1, <2>2
  <1>12. Flushing' /\ Editing'
    BY <1>5 DEF Flushing, Editing, Recording
  <1> QED BY <1>7, <1>9, <1>10, <1>11, <1>12 DEF IInv

\* What DeleteObsoleteFiles leaves is unchanged; it leaves the tables that are
\* needed and the logs from LogNumber on.
Cleared ==
    /\ LogType(logs', synced') /\ TableType(tables')
    /\ DOMAIN tables' \subseteq DOMAIN tables
    /\ DOMAIN logs' \subseteq DOMAIN logs
    /\ \A f \in DOMAIN tables' : tables'[f] = tables[f]
    /\ \A f \in DOMAIN tables :
           bgError' \/ f \in pending' \cup Files(versions') \cup held' \cup compact'.inputs
               => f \in DOMAIN tables'
    /\ \A n \in DOMAIN logs' : logs'[n] = logs[n] /\ synced'[n] = synced[n]
    /\ \A n \in DOMAIN logs : n >= versions'.log => n \in DOMAIN logs'

\* When nothing is deleted.
LEMMA ClearedNothing ==
    ASSUME TypeOK, UNCHANGED <<tables, logs, synced>>
    PROVE  Cleared
  BY Types DEF Cleared

\* When DeleteObsoleteFiles deletes.
LEMMA ClearedObsolete ==
    ASSUME TypeOK, DeleteObsoleteFiles
    PROVE  Cleared
  <1>1. LogType(logs, synced) /\ TableType(tables)
    BY Types
  <1>2. CASE bgError'
    BY <1>2, ClearedNothing DEF DeleteObsoleteFiles
  <1>3. CASE ~bgError'
    <2> DEFINE live == pending' \cup Files(versions') \cup held' \cup compact'.inputs
               needed == {n \in DOMAIN logs : n >= versions'.log}
    <2>1. tables' = Keep(tables, live) /\ logs' = Keep(logs, needed)
          /\ synced' = Keep(synced, needed)
      BY <1>3 DEF DeleteObsoleteFiles
    <2>2. LogType(logs', synced') /\ TableType(tables')
      BY <1>1, <2>1, KeepLog, KeepTable
    <2>3. /\ DOMAIN tables' = DOMAIN tables \cap live
          /\ \A f \in DOMAIN tables' : tables'[f] = tables[f]
      BY <2>1 DEF Keep, Restrict
    <2>4. /\ DOMAIN logs' = DOMAIN logs \cap needed
          /\ \A n \in DOMAIN logs' : logs'[n] = logs[n]
      BY <2>1 DEF Keep, Restrict
    <2>5. DOMAIN synced = DOMAIN logs
      BY <1>1 DEF LogType
    <2>6. \A n \in DOMAIN logs' : synced'[n] = synced[n]
      BY <2>1, <2>4, <2>5 DEF Keep, Restrict
    <2>7. \A n \in DOMAIN logs : n >= versions'.log => n \in DOMAIN logs'
      BY <2>4
    <2> QED BY <1>3, <2>2, <2>3, <2>4, <2>6, <2>7 DEF Cleared
  <1> QED BY <1>2, <1>3

\* What is left of the logs and of the tables.
LEMMA ClearedLogs ==
    ASSUME TypeOK, Cleared
    PROVE  /\ LogsGrow(versions'.log)
           /\ \A first : InLogs(logs', first) \subseteq InLogs(logs, first)
           /\ Content(tables', DOMAIN tables') \subseteq Content(tables, DOMAIN tables)
           /\ \A S : S \subseteq DOMAIN tables' => Content(tables', S) = Content(tables, S)
           /\ \A S : Content(tables', S) \subseteq Content(tables, S)
  <1>1. LogsGrow(versions'.log)
    BY DEF Cleared, LogsGrow
  <1>2. ASSUME NEW first PROVE InLogs(logs', first) \subseteq InLogs(logs, first)
    BY InLogsElem DEF Cleared
  <1>3. ASSUME NEW S PROVE Content(tables', S) \subseteq Content(tables, S)
    BY DEF Cleared, Content
  <1>4. ASSUME NEW S, S \subseteq DOMAIN tables'
        PROVE  Content(tables', S) = Content(tables, S)
    <2>1. \A n \in S : n \in DOMAIN tables /\ n \in DOMAIN tables' /\ tables'[n] = tables[n]
      BY <1>4 DEF Cleared
    <2> QED BY <2>1, ContentSame
  <1>5. Content(tables', DOMAIN tables') \subseteq Content(tables, DOMAIN tables)
    BY DEF Cleared, Content
  <1> QED BY <1>1, <1>2, <1>3, <1>4, <1>5

\* What the manifest and the current version are when an edit is installed.
Installed ==
    /\ manifest' \in ManifestType
    /\ Led(manifest') \subseteq Led(manifest) /\ Latest(manifest') = Latest(manifest)
    /\ versions' \in Versions
    /\ Files(versions') = (Files(versions) \ edit.del) \cup (edit.l0 \cup edit.deep)
    /\ versions'.log = edit.log
    /\ versions'.last = versions.last /\ versions'.next = versions.next

\* InstallEdit installs the edit.
LEMMA InstallFacts ==
    ASSUME IInv, InstallEdit
    PROVE  /\ Installed
           /\ ~bgError => /\ Clean' /\ Led(manifest') = {Latest(manifest)}
                          /\ Files(Latest(manifest)) = Files(versions')
  <1> DEFINE L == Latest(manifest)
             k == Min(Ends(manifest.edits))
  <1>1. /\ bg = "sync" /\ db = "open" /\ TypeOK /\ UNCHANGED <<db, bgError>>
        /\ bg' \in {"idle", "merge"}
    BY BusyOpen, editedFacts DEF InstallEdit, IInv
  <1>2. /\ manifest \in ManifestType
        /\ versions \in Versions /\ edit \in Edits
    BY <1>1, Types DEF OpenType, ThreadType
  <1>3. L \in Versions
    BY <1>2, LedType
  <1>4. /\ manifest' = [base  |-> Recovered(manifest, k),
                        edits |-> SubSeq(manifest.edits, k + 1, Len(manifest.edits))]
        /\ versions' = [ApplyEdit(versions, edit) EXCEPT !.last = versions.last,
                                                         !.next = versions.next]
    BY DEF InstallEdit
  <1>5. /\ versions'.l0 = (versions.l0 \ edit.del) \cup edit.l0
        /\ versions'.deep = (versions.deep \ edit.del) \cup edit.deep
        /\ versions'.log = edit.log
        /\ versions'.last = versions.last /\ versions'.next = versions.next
        /\ versions' \in Versions
    <2>1. versions' = [l0   |-> (versions.l0 \ edit.del) \cup edit.l0,
                       deep |-> (versions.deep \ edit.del) \cup edit.deep,
                       log  |-> edit.log, last |-> versions.last, next |-> versions.next]
      BY <1>4 DEF ApplyEdit
    <2> QED BY <2>1, <1>2 DEF Versions, Edits
  <1>6. Files(versions') = (Files(versions) \ edit.del) \cup (edit.l0 \cup edit.deep)
    BY <1>5 DEF Files
  <1> HIDE DEF L, k
  <1>7. /\ manifest' \in ManifestType
        /\ Led(manifest') \subseteq Led(manifest) /\ Latest(manifest') = L
        /\ Len(manifest'.edits) = Len(manifest.edits) - k
    <2>1. k \in 0..Len(manifest.edits)
      BY <1>2, EndsLeast DEF ManifestType, k
    <2>2. Folds(manifest, k, manifest')
      BY <1>4 DEF Folds
    <2> QED BY <1>2, <2>1, <2>2, LedFold DEF L
  <1>8. ASSUME ~bgError PROVE Clean' /\ Led(manifest') = {L} /\ Files(L) = Files(versions')
    <2>1. /\ SameFiles(manifest.base, versions)
          /\ manifest.edits = <<[torn |-> FALSE, version |-> ApplyEdit(manifest.base, edit)]>>
      BY <1>1, <1>8 DEF IInv, Clean
    <2>2. L = ApplyEdit(manifest.base, edit) /\ Whole(manifest.edits)
      BY <1>2, <2>1, LedTwo DEF L
    <2>3. manifest'.edits = <<>>
      <3>1. k = Len(manifest.edits) /\ Len(manifest.edits) \in Nat
        BY <1>2, <2>2, EndsLeast DEF ManifestType, k
      <3>2. manifest'.edits \in Seq(Records) /\ Len(manifest'.edits) = 0
        BY <1>7, <3>1 DEF ManifestType
      <3> QED BY <3>2
    <2>4. manifest.base \in Versions
      BY <1>2 DEF ManifestType
    <2>5. /\ L.l0 = (manifest.base.l0 \ edit.del) \cup edit.l0
          /\ L.deep = (manifest.base.deep \ edit.del) \cup edit.deep
          /\ L.log = edit.log
      BY <1>2, <2>2, <2>4, ApplyFields
    <2>6. SameFiles(L, versions')
      BY <1>5, <2>1, <2>5 DEF SameFiles
    <2>7. manifest'.base = L /\ Led(manifest') = {L}
      BY <1>7, <2>3, LedEmpty
    <2>8. bg' # "sync"
      BY <1>1
    <2> QED BY <2>3, <2>6, <2>7, <2>8 DEF Clean, SameFiles, Files
  <1> QED BY <1>5, <1>6, <1>7, <1>8 DEF Installed, L

\* The record is synced, the version installed, and what it makes obsolete
\* deleted: nothing that the manifest, a reader or a merge needs.
LEMMA StepInstallEdit ==
    ASSUME IInv, InstallEdit
    PROVE  IInv'
  <1> DEFINE L == Latest(manifest)
             old == Files(versions)
             new == Files(versions')
  <1>1. /\ bg = "sync" /\ edited
        /\ imm' = IF building # 0 THEN {} ELSE imm
        /\ UNCHANGED <<bgError, held, queue, db, mem, logfile, todo, counts>>
    BY DEF InstallEdit
  <1>2. /\ db = "open" /\ Recording /\ TypeOK
        /\ UNCHANGED <<state, sequence, writers, group, crashes, faults, reads>>
    BY <1>1, BusyOpen DEF IInv, Recording, queue, counts
  <1>3. /\ edit' = NoEdit /\ building' = 0
        /\ building # 0 => /\ UNCHANGED <<pending, compact>>
                           /\ bg' = IF compact = NoCompact THEN "idle" ELSE "merge"
        /\ building = 0 => compact' = NoCompact /\ bg' = "idle"
        /\ scheduled' \in BOOLEAN /\ ThreadType' /\ pending' \subseteq Nat
        /\ step' = step \/ (step = "asleep" /\ step' = "front")
        /\ bg' \in {"idle", "merge"}
    BY <1>1, <1>2, editedFacts
  <1>4. Installed /\ (~bgError => Clean' /\ Led(manifest') = {L} /\ Files(L) = new)
    BY InstallFacts
  <1>5. /\ manifest' \in ManifestType
        /\ Led(manifest') \subseteq Led(manifest) /\ Latest(manifest') = L
        /\ versions' \in Versions
        /\ new = (old \ edit.del) \cup (edit.l0 \cup edit.deep)
        /\ versions'.log = edit.log
        /\ versions'.last = versions.last /\ versions'.next = versions.next
    BY <1>4 DEF Installed
  <1>6. Cleared /\ (bgError' => UNCHANGED <<tables, logs, synced>>)
    <2>1. CASE building = 0 /\ compact = NoCompact
      <3>1. UNCHANGED <<tables, logs, synced>>
        BY <2>1 DEF InstallEdit
      <3> QED BY <1>2, <3>1, ClearedNothing
    <2>2. CASE ~(building = 0 /\ compact = NoCompact)
      <3>1. DeleteObsoleteFiles
        BY <2>2 DEF InstallEdit
      <3>2. bgError' => UNCHANGED <<tables, logs, synced>>
        BY <3>1 DEF DeleteObsoleteFiles
      <3> QED BY <1>2, <2>2, <3>1, <3>2, ClearedObsolete
    <2> QED BY <2>1, <2>2
  <1>7. /\ LogsGrow(versions'.log)
        /\ \A first : InLogs(logs', first) \subseteq InLogs(logs, first)
        /\ Content(tables', DOMAIN tables') \subseteq Content(tables, DOMAIN tables)
        /\ \A S : S \subseteq DOMAIN tables' => Content(tables', S) = Content(tables, S)
        /\ \A S : Content(tables', S) \subseteq Content(tables, S)
    BY <1>2, <1>6, ClearedLogs
  <1>8. /\ L \in Led(manifest) /\ L \in Versions /\ Files(L) \subseteq DOMAIN tables
        /\ Version(L) /\ OpenVersion(L) /\ Ahead(L)
        /\ edit.l0 \cup edit.deep \subseteq Files(L) /\ L.log = edit.log
    <2>1. L \in Led(manifest)
      BY <1>2, LedType, Types
    <2>2. Ahead(L)
      BY <1>2 DEF IInv, Manifested
    <2> QED BY <1>1, <1>2, <2>1, <2>2, LedFields DEF IInv, Editing
  <1> HIDE DEF L, old, new
  <1>9. old \subseteq DOMAIN tables /\ held \subseteq DOMAIN tables
    BY DEF IInv, Numbers, old
  <1>10. /\ new \subseteq DOMAIN tables
         /\ Content(tables, old) \subseteq Content(tables, new)
         /\ building # 0 => /\ imm \subseteq Content(tables, new)
                            /\ Content(tables, new) \subseteq Content(tables, old) \cup imm
                            /\ old \subseteq new /\ new \subseteq old \cup {building}
         /\ building = 0 => Content(tables, new) \subseteq
                                Content(tables, old) \cup Content(tables, Files(versions))
    <2>1. db = "open" /\ Recording
      BY <1>2
    <2>2. old \subseteq DOMAIN tables /\ new = (old \ edit.del) \cup (edit.l0 \cup edit.deep)
      BY <1>5, <1>9
    <2>3. new \subseteq DOMAIN tables
      BY <2>1, <2>2, EditContent
    <2>4. Content(tables, old) \subseteq Content(tables, new)
      BY <2>1, <2>2, EditContent
    <2>5. building # 0 => /\ imm \subseteq Content(tables, new)
                          /\ Content(tables, new) \subseteq Content(tables, old) \cup imm
                          /\ old \subseteq new /\ new \subseteq old \cup {building}
      BY <2>1, <2>2, EditContent
    <2>6. building = 0 => Content(tables, new) \subseteq
                              Content(tables, old) \cup Content(tables, Files(versions))
      BY <2>1, <2>2, EditContent
    <2> QED BY <2>3, <2>4, <2>5, <2>6
  <1>11. Content(tables, new) \subseteq Content(tables, Files(L))
    <2>1. new \subseteq old \cup (edit.l0 \cup edit.deep)
      BY <1>5
    <2>2. Content(tables, new) \subseteq Content(tables, old) \cup
                                       Content(tables, edit.l0 \cup edit.deep)
      BY <2>1 DEF Content
    <2>3. Content(tables, edit.l0 \cup edit.deep) \subseteq Content(tables, Files(L))
      BY <1>8, ContentMono
    <2>4. Content(tables, old) \subseteq Content(tables, Files(L))
      BY <1>8 DEF Ahead, old
    <2> QED BY <2>2, <2>3, <2>4
  <1>12. /\ new \subseteq DOMAIN tables' /\ held' \subseteq DOMAIN tables'
         /\ \A v \in Led(manifest') : /\ v \in Led(manifest)
                                      /\ Files(v) \subseteq DOMAIN tables'
                                      /\ LogsGrow(v.log)
    <2>1. new \subseteq DOMAIN tables'
      BY <1>6, <1>10 DEF Cleared, new
    <2>2. held' \subseteq DOMAIN tables'
      BY <1>1, <1>6, <1>9 DEF Cleared
    <2>3. ASSUME bgError, NEW v \in Led(manifest')
          PROVE  v \in Led(manifest) /\ Files(v) \subseteq DOMAIN tables' /\ LogsGrow(v.log)
      <3>1. UNCHANGED <<tables, logs, synced>> /\ v \in Led(manifest)
        BY <1>1, <1>5, <1>6, <2>3
      <3> QED BY <3>1, LedFields, SameLogs
    <2>4. ASSUME ~bgError, NEW v \in Led(manifest')
          PROVE  v \in Led(manifest) /\ Files(v) \subseteq DOMAIN tables' /\ LogsGrow(v.log)
      <3>1. v = L /\ Files(v) = new /\ v.log = versions'.log
        BY <1>4, <1>5, <1>8, <2>4
      <3> QED BY <1>7, <1>8, <2>1, <3>1
    <2> QED BY <2>1, <2>2, <2>3, <2>4
  <1>13. /\ Content(tables', new) = Content(tables, new)
         /\ \A v \in Led(manifest') : Content(tables', Files(v)) = Content(tables, Files(v))
         /\ L \in Led(manifest')
    <2>1. L \in Led(manifest')
      BY <1>5, LedType
    <2> QED BY <1>7, <1>12, <2>1
  <1>14. /\ versions.log \in Nat /\ versions.last \in Nat /\ versions.next \in Nat
         /\ edit.log \in Nat /\ edit.next \in Nat /\ logfile \in Nat
         /\ DOMAIN logs \subseteq Nat /\ logfile \in DOMAIN logs
         /\ versions.log <= edit.log /\ edit.log <= logfile /\ edit.next <= versions.next
    <2>1. versions \in Versions /\ logfile \in Nat
      BY <1>2 DEF TypeOK
    <2>2. versions.log \in Nat /\ versions.last \in Nat /\ versions.next \in Nat
          /\ edit.log \in Nat /\ edit.next \in Nat
      BY <2>1, EditFields, VersionFields
    <2>3. versions.log <= edit.log /\ edit.log <= logfile
      BY <1>8 DEF OpenVersion, Ahead
    <2>4. DOMAIN logs \subseteq Nat /\ logfile \in DOMAIN logs
      BY <1>2 DEF TypeOK, IInv, Numbers
    <2>5. edit.next <= versions.next
      BY <1>2 DEF IInv, Editing
    <2> QED BY <2>1, <2>2, <2>3, <2>4, <2>5
  <1>15. /\ logfile \in DOMAIN logs' /\ logs'[logfile] = logs[logfile]
         /\ synced'[logfile] = synced[logfile]
    BY <1>5, <1>6, <1>14 DEF Cleared
  <1>16. TypeOK'
    <2>1. CallType /\ OpenType /\ CountType
      BY <1>2, Types
    <2>2. CallType' /\ CountType'
      BY <1>2, <1>3, <2>1 DEF CallType, CountType
    <2>3. todo = {}
      BY <1>2 DEF IInv, Quiet
    <2>4. imm' \subseteq Writes
      BY <1>1, <2>1 DEF OpenType
    <2>5. OpenType'
      BY <1>1, <1>3, <1>5, <2>1, <2>3, <2>4 DEF OpenType
    <2> QED BY <1>3, <1>5, <1>6, <2>2, <2>5, TypesNext DEF Cleared
  <1>17. Quiet' /\ Recovering'
    BY <1>1, <1>2, FrameQuiet, FrameRecovering DEF IInv
  <1>18. Queued'
    BY <1>1, <1>2, <1>3, <1>15, FrameQueued DEF IInv
  <1>19. Numbers'
    <2>1. ASSUME NEW f \in new PROVE f < versions'.next
      <3>1. CASE f \in old
        BY <1>5, <3>1 DEF IInv, Numbers, old
      <3>2. CASE f \in edit.l0 \cup edit.deep
        <4>1. f < edit.next /\ f \in Nat
          BY <1>2, <3>2, EditFields DEF IInv, Editing
        <4> QED BY <1>5, <1>14, <4>1
      <3> QED BY <1>5, <3>1, <3>2
    <2>2. \A n \in DOMAIN logs' : n <= logfile'
      BY <1>1, <1>2, <1>6 DEF IInv, Numbers, Cleared
    <2>3. logfile' < versions'.next
      BY <1>1, <1>2, <1>5 DEF IInv, Numbers
    <2>4. bgError' => faults' > 0
      BY <1>1, <1>2 DEF IInv, Numbers
    <2>5. versions'.log <= logfile'
      BY <1>1, <1>5, <1>14
    <2>6. logfile' \in DOMAIN logs' /\ held' \subseteq DOMAIN tables'
          /\ \A f \in Files(versions') : f \in DOMAIN tables' /\ f < versions'.next
      BY <1>1, <1>12, <1>15, <2>1 DEF new
    <2> QED BY <2>2, <2>3, <2>4, <2>5, <2>6 DEF Numbers
  <1>20. imm' \subseteq imm
    BY <1>1
  <1>21. Manifested'
    <2>0. Ahead(Latest(manifest))'
      <3>1. Content(tables', Files(L)) = Content(tables, Files(L))
        BY <1>13
      <3>2. versions'.log <= L.log
        BY <1>5, <1>8, <1>14
      <3>3. Content(tables', Files(versions')) \subseteq Content(tables', Files(L))
        BY <1>11, <1>13, <3>1 DEF new
      <3>4. Latest(manifest') = L
        BY <1>5
      <3> QED BY <3>2, <3>3, <3>4 DEF Ahead
    <2> SUFFICES ASSUME NEW v \in Led(manifest')
                 PROVE  Version(v)' /\ OpenVersion(v)'
      BY <1>1, <1>2, <1>5, <2>0 DEF Manifested
    <2>1. Version(v) /\ OpenVersion(v)
      BY <1>2, <1>12, LedFields
    <2>2. Version(v)'
      BY <1>2, <1>12, <1>13, <2>1 DEF Version
    <2>3. /\ InLogs(logs, v.log) \subseteq InLogs(logs', v.log)
          /\ InLogs(Safe(logs, synced), v.log) \subseteq InLogs(Safe(logs', synced'), v.log)
      BY <1>12, SafeGrows
    <2>4. v.next <= versions'.next /\ v.last <= versions'.last /\ v.log <= logfile'
      BY <1>1, <1>5, <2>1 DEF OpenVersion
    <2>5. Flushed' \subseteq Flushed
      <3>1. Content(tables, new) \subseteq Content(tables, old) \cup imm
        BY <1>10 DEF old
      <3> QED BY <1>13, <1>20, <3>1 DEF Flushed, old, new
    <2>6. /\ Flushed' \subseteq Content(tables', Files(v)) \cup InLogs(logs', v.log)
          /\ Flushed' \cap SyncWrites \subseteq Content(tables', Files(v)) \cup
                                             InLogs(Safe(logs', synced'), v.log)
      BY <1>13, <2>1, <2>3, <2>5 DEF OpenVersion
    <2>7. OpenVersion(v)'
      BY <2>4, <2>6 DEF OpenVersion
    <2> QED BY <2>2, <2>7
  <1>22. Clean'
    BY <1>1, <1>4 DEF Clean
  <1>23. Merging'
    <2>1. CASE building = 0
      BY <1>3, <2>1 DEF Merging, NoCompact
    <2>2. CASE building # 0
      <3>1. UNCHANGED <<pending, compact>> /\ old \subseteq new /\ new \subseteq old \cup {building}
            /\ compact.inputs \subseteq old
        BY <1>3, <1>10, <2>2 DEF IInv, Merging, old
      <3>2. compact.inputs \subseteq new
        BY <3>1
      <3>3. Content(tables', compact.inputs) = Content(tables, compact.inputs)
        BY <1>7, <1>12, <3>2
      <3>4. ASSUME compact.out # 0
            PROVE  /\ compact.out \in pending' /\ compact.out \in DOMAIN tables'
                   /\ tables'[compact.out] = tables[compact.out]
                   /\ compact.out < versions'.next /\ compact.out \notin new
                   /\ \A v \in Led(manifest') : compact.out \notin Files(v)
        <4>1. /\ compact.out \in pending /\ compact.out \in DOMAIN tables
              /\ compact.out < versions.next /\ compact.out \notin old
              /\ \A v \in Led(manifest) : compact.out \notin Files(v)
          BY <2>2, <3>4 DEF IInv, Merging, old
        <4>2. building # compact.out
          BY <2>2 DEF IInv, Flushing
        <4>3. compact.out \in DOMAIN tables' /\ tables'[compact.out] = tables[compact.out]
          BY <1>6, <3>1, <4>1 DEF Cleared
        <4> QED BY <1>5, <1>8, <3>1, <4>1, <4>2, <4>3
      <3>5. bg' = "merge" => compact # NoCompact
        BY <1>3, <2>2
      <3>6. compact # NoCompact => bg' # "idle"
        BY <1>3, <2>2
      <3>7. compact.done => /\ compact.out # 0
                            /\ tables[compact.out] = Content(tables, compact.inputs)
        BY DEF IInv, Merging
      <3> QED BY <3>1, <3>2, <3>3, <3>4, <3>5, <3>6, <3>7 DEF Merging, new
    <2> QED BY <2>1, <2>2
  <1>24. Flushing' /\ Editing'
    BY <1>3 DEF Flushing, Editing, Recording
  <1>25. Memory'
    <2>1. Acked' = Acked
      BY <1>2 DEF Acked
    <2>2. imm \subseteq imm' \cup Content(tables, new)
      BY <1>1, <1>10
    <2>3. Acked' \subseteq mem' \cup imm' \cup Content(tables', Files(versions'))
      BY <1>1, <1>2, <1>10, <1>13, <2>1, <2>2 DEF IInv, Memory, old, new
    <2>4. Safe(logs', synced')[logfile] = Safe(logs, synced)[logfile]
      BY <1>14, <1>15 DEF Safe
    <2> QED BY <1>1, <1>2, <1>15, <2>3, <2>4 DEF IInv, Memory
  <1>26. Stored'
    <2>1. mem' \cup imm' \cup Content(tables', DOMAIN tables') \subseteq
              mem \cup imm \cup Content(tables, DOMAIN tables)
      BY <1>1, <1>7, <1>20
    <2> QED BY <1>2, <1>3, <1>7, <2>1, FrameStored DEF IInv
  <1>27. Sequenced'
    <2>2. InLogs(logs', 0) \subseteq Live
      BY <1>7, LiveParts
    <2>3. mem' \cup imm' \subseteq Live
      BY <1>1, <1>20, LiveParts
    <2>4. Content(tables', Files(versions')) \subseteq Live
      BY <1>8, <1>11, <1>13, LiveParts DEF new
    <2>5. \A v \in Led(manifest') : Content(tables', Files(v)) \subseteq Live
      BY <1>12, <1>13, LiveParts
    <2>6. Live' \subseteq Live
      BY <2>2, <2>3, <2>4, <2>5, LiveShrinks
    <2>7. versions.last <= versions'.last /\ Len(group) <= Len(group')
      <3>1. Len(group) \in Nat
        BY <1>2 DEF TypeOK
      <3> QED BY <1>2, <1>5, <1>14, <3>1
    <2> QED BY <1>1, <1>2, <1>16, <2>6, <2>7, FrameSequenced DEF IInv
  <1> QED BY <1>16, <1>17, <1>18, <1>19, <1>21, <1>22, <1>23, <1>24, <1>25, <1>26, <1>27
          DEF IInv

-----------------------------------------------------------------------------
(* Crashes.                                                                *)

\* Whatever version CURRENT leads to, what was acknowledged is in its tables
\* or in the logs that it names.
LEMMA Covered ==
    ASSUME IInv, NEW v \in Led(manifest)
    PROVE  /\ Acked \subseteq Content(tables, Files(v)) \cup InLogs(logs, v.log)
           /\ Acked \cap SyncWrites \subseteq Content(tables, Files(v)) \cup
                                              InLogs(Safe(logs, synced), v.log)
  <1>1. CASE db = "open"
    <2>1. OpenVersion(v)
      BY <1>1, LedFields
    <2>2. logfile \in DOMAIN logs /\ v.log <= logfile /\ v.log \in Nat /\ logfile \in Nat
      BY <1>1, <2>1, LedFields DEF OpenVersion, IInv, Numbers, TypeOK
    <2>3. Logged(logs[logfile]) \subseteq InLogs(logs, v.log)
      BY <2>2, InLogsElem
    <2>4. logfile \in DOMAIN Safe(logs, synced)
      BY <2>2 DEF Safe
    <2>5. Logged(Safe(logs, synced)[logfile]) \subseteq InLogs(Safe(logs, synced), v.log)
      BY <2>2, <2>4, InLogsElem
    <2> QED BY <1>1, <2>1, <2>3, <2>5 DEF IInv, Memory, OpenVersion, Flushed
  <1>2. CASE db # "open"
    <2>1. ClosedVersion(v)
      BY <1>2 DEF IInv, Manifested
    <2> QED BY <2>1, SureInLogs DEF ClosedVersion
  <1> QED BY <1>1, <1>2

\* The process or the machine goes down.  What was synced is still there, and
\* what is acknowledged and not excused is in the version or in its logs.
LEMMA StepCrash ==
    ASSUME IInv, NEW cut, NEW k \in 0..Len(manifest.edits),
           \A n \in DOMAIN logs : cut[n] \in synced[n]..Len(logs[n]),
           crash(cut, k), DOMAIN synced' = DOMAIN logs,
           \A n \in DOMAIN logs : synced'[n] \in synced[n]..cut[n]
    PROVE  IInv'
  <1> DEFINE v == Recovered(manifest, k)
             excused == UNION {Behind(logs[n]) \cup
                               (Logged(logs[n]) \ Logged(SubSeq(logs[n], 1, cut[n]))) :
                                   n \in {n \in DOMAIN logs : n >= v.log}}
  <1>1. /\ crashes < MaxCrashes /\ crashes' = crashes + 1
        /\ logs' = [n \in DOMAIN logs |-> SubSeq(logs[n], 1, cut[n])]
        /\ manifest' = [base |-> v, edits |-> <<>>]
        /\ db' \in {"down", "corrupt"}
        /\ writers' = <<>> /\ group' = <<>> /\ step' = "front"
        /\ mem' = {} /\ imm' = {}
        /\ versions' = Closed /\ logfile' = 0
        /\ pending' = {} /\ held' = {} /\ todo' = {}
        /\ bgError' = FALSE /\ scheduled' = FALSE
        /\ bg' = "idle" /\ building' = 0 /\ compact' = NoCompact /\ edit' = NoEdit
        /\ UNCHANGED <<tables, sequence, faults, reads>>
    BY DEF crash
  <1>2. manifest'.base = v /\ manifest'.edits = <<>>
    BY <1>1
  <1>3. state' = [w \in Writes |->
                     IF \/ state[w] = "queued"
                        \/ state[w] = "ok" /\ w \in excused
                       THEN "gone" ELSE state[w]]
    BY <1>2 DEF crash
  <1>4. TypeOK /\ LogType(logs, synced) /\ TableType(tables) /\ CallType /\ CountType
    BY Types DEF IInv
  <1>5. v \in Led(manifest)
    BY DEF Led
  <1>6. /\ v \in Versions /\ v.log \in Nat /\ Version(v) /\ Files(v) \subseteq DOMAIN tables
    BY <1>5, LedFields
  <1> HIDE DEF v, excused
  <1>7. ASSUME NEW n \in DOMAIN logs
        PROVE  /\ n \in Nat /\ logs[n] \in Seq(Seq(Writes))
               /\ synced[n] \in Nat /\ cut[n] \in Nat /\ synced'[n] \in Nat
               /\ cut[n] \in 0..Len(logs[n]) /\ synced'[n] \in 0..cut[n]
               /\ synced[n] \in 0..synced'[n]
               /\ synced'[n] \in 0..Len(logs[n])
    <2>1. n \in Nat /\ logs[n] \in Seq(Seq(Writes)) /\ synced[n] \in 0..Len(logs[n])
      BY <1>4 DEF LogType
    <2>2. Len(logs[n]) \in Nat
      BY <2>1
    <2>3. cut[n] \in synced[n]..Len(logs[n]) /\ synced'[n] \in synced[n]..cut[n]
      OBVIOUS
    <2> QED BY <2>1, <2>2, <2>3
  <1>8. ASSUME NEW n \in DOMAIN logs
        PROVE  /\ logs'[n] = SubSeq(logs[n], 1, cut[n])
               /\ logs'[n] \in Seq(Seq(Writes)) /\ Len(logs'[n]) = cut[n]
               /\ Logged(logs'[n]) \subseteq Logged(logs[n])
               /\ Behind(logs'[n]) \subseteq Behind(logs[n])
               /\ Logged(SubSeq(logs[n], 1, synced[n])) \subseteq
                      Logged(SubSeq(logs'[n], 1, synced'[n]))
    <2>1. logs'[n] = SubSeq(logs[n], 1, cut[n])
      BY <1>1
    <2>2. SubSeq(logs'[n], 1, synced'[n]) = SubSeq(logs[n], 1, synced'[n])
      BY <1>7, <2>1, PrefixMono
    <2>3. Logged(SubSeq(logs[n], 1, synced[n])) \subseteq
              Logged(SubSeq(logs[n], 1, synced'[n]))
      BY <1>7, PrefixMono
    <2> QED BY <1>7, <2>1, <2>2, <2>3, Prefix
  <1>9. DOMAIN logs' = DOMAIN logs
    BY <1>1
  <1>10. TypeOK'
    <2>1. LogType(logs', synced')
      BY <1>7, <1>8, <1>9 DEF LogType
    <2>2. <<>> \in Seq(Records) /\ Len(<<>>) = 0 /\ <<>> \in Seq(Writes)
      OBVIOUS
    <2>3. manifest' \in ManifestType
      <3>1. manifest' \in ManifestType
        BY <1>1, <1>6, <2>2 DEF ManifestType
      <3> QED BY <1>2, <2>2, <3>1
    <2>4. CallType'
      <3>1. state' \in [Writes -> {"new", "queued", "ok", "error", "gone"}]
        BY <1>3, <1>4 DEF CallType
      <3> QED BY <1>1, <1>4, <2>2, <3>1 DEF CallType
    <2>5. Closed \in Versions /\ NoEdit \in Edits
          /\ NoCompact \in [inputs : SUBSET Nat, out : Nat, done : BOOLEAN]
      BY DEF Closed, Versions, NoEdit, Edits, NoCompact
    <2>6. OpenType' /\ ThreadType'
      BY <1>1, <2>5 DEF OpenType, ThreadType
    <2>7. CountType'
      BY <1>1, <1>4, BoundsAssumption DEF CountType
    <2> QED BY <1>1, <1>4, <2>1, <2>3, <2>4, <2>6, <2>7, TypesNext
  <1>11. Quiet'
    BY <1>1, <1>2 DEF Quiet
  <1>12. Queued'
    <2>1. \A w \in Writes : state'[w] # "queued"
      BY <1>3
    <2>2. Range(writers') = {} /\ DOMAIN writers' = {}
      BY <1>1 DEF Range
    <2> QED BY <1>1, <2>1, <2>2 DEF Queued, Grouped, Logging
  <1>13. Files(Closed) = {}
    BY DEF Files, Closed
  <1>14. Numbers' /\ Clean' /\ Merging' /\ Flushing' /\ Editing' /\ Memory' /\ Recovering'
    <2>1. Numbers'
      BY <1>1, <1>13 DEF Numbers
    <2>2. Clean' /\ Editing' /\ Memory' /\ Recovering'
      BY <1>1 DEF Clean, Editing, Memory, Recovering
    <2>3. Merging'
      BY <1>1 DEF Merging, NoCompact
    <2>4. Flushing'
      BY <1>1 DEF Flushing
    <2> QED BY <2>1, <2>2, <2>3, <2>4
  <1>15. Led(manifest') = {v}
    BY <1>1, LedOne
  <1>16. Manifested'
    <2> SUFFICES ASSUME NEW u \in Led(manifest')
                 PROVE  Version(u)' /\ ClosedVersion(u)'
      BY <1>1 DEF Manifested
    <2>1. u = v
      BY <1>15
    <2>2. Version(u)'
      BY <1>1, <1>6, <2>1 DEF Version
    <2>3. ASSUME NEW w \in Acked'
          PROVE  w \in Content(tables, Files(v)) \cup SureIn(logs', v.log)
      <3>1. w \in Acked /\ w \notin excused
        BY <1>3, <2>3 DEF Acked
      <3>2. w \in Content(tables, Files(v)) \/ w \in InLogs(logs, v.log)
        BY <1>5, <3>1, Covered
      <3>3. ASSUME w \in InLogs(logs, v.log) PROVE w \in SureIn(logs', v.log)
        <4>1. PICK n \in DOMAIN logs : n >= v.log /\ w \in Logged(logs[n])
          BY <3>3, InLogsElem
        <4>2. w \notin Behind(logs[n]) /\ w \in Logged(SubSeq(logs[n], 1, cut[n]))
          BY <3>1, <4>1 DEF excused
        <4>3. w \in Logged(logs'[n]) \ Behind(logs'[n])
          BY <1>8, <4>2
        <4> QED BY <1>9, <4>1, <4>3, SureInElem
      <3> QED BY <3>2, <3>3
    <2>4. ASSUME NEW w \in Acked' \cap SyncWrites
          PROVE  w \in Content(tables, Files(v)) \cup InLogs(Safe(logs', synced'), v.log)
      <3>1. w \in Acked /\ w \in SyncWrites
        BY <1>3, <2>4 DEF Acked
      <3>2. w \in Content(tables, Files(v)) \/ w \in InLogs(Safe(logs, synced), v.log)
        BY <1>5, <3>1, Covered
      <3>3. ASSUME w \in InLogs(Safe(logs, synced), v.log)
            PROVE  w \in InLogs(Safe(logs', synced'), v.log)
        <4>1. PICK n \in DOMAIN Safe(logs, synced) :
                  n >= v.log /\ w \in Logged(Safe(logs, synced)[n])
          BY <3>3, InLogsElem
        <4>2. n \in DOMAIN logs /\ w \in Logged(SubSeq(logs[n], 1, synced[n]))
          BY <4>1 DEF Safe
        <4>3. w \in Logged(SubSeq(logs'[n], 1, synced'[n]))
          BY <1>8, <4>2
        <4>4. n \in DOMAIN Safe(logs', synced') /\ w \in Logged(Safe(logs', synced')[n])
          BY <1>9, <4>2, <4>3 DEF Safe
        <4> QED BY <4>1, <4>4, InLogsElem
      <3> QED BY <3>2, <3>3
    <2>5. ClosedVersion(u)'
      BY <1>1, <2>1, <2>3, <2>4 DEF ClosedVersion
    <2> QED BY <2>2, <2>5
  <1>17. \A first : InLogs(logs', first) \subseteq InLogs(logs, first)
    BY <1>8, <1>9, InLogsElem
  <1>18. Stored'
    <2>1. \A w \in Writes : state'[w] = state[w] \/ state'[w] = "gone"
      BY <1>3
    <2>2. \A w \in Writes : state'[w] # "queued"
      BY <1>3
    <2>3. Content(tables, DOMAIN tables) \subseteq Writes /\ InLogs(logs, 0) \subseteq Writes
      BY <1>4, ContentType, InLogsType
    <2>4. \A w \in Content(tables, DOMAIN tables) : state'[w] \notin {"new", "queued"}
      BY <2>1, <2>3 DEF IInv, Stored
    <2>5. \A w \in InLogs(logs', 0) : state'[w] # "new" /\ state'[w] # "queued"
      BY <1>17, <2>1, <2>2, <2>3 DEF IInv, Stored
    <2> QED BY <1>1, <2>4, <2>5 DEF Stored
  <1>19. Sequenced'
    <2>2. Live' \subseteq Live
      <3>1. InLogs(logs', 0) \subseteq Live
        BY <1>17, LiveParts
      <3>2. Content(tables', Files(versions')) \subseteq Live
        BY <1>1, <1>13 DEF Content
      <3>3. \A u \in Led(manifest') : Content(tables', Files(u)) \subseteq Live
        BY <1>1, <1>5, <1>15, LiveParts
      <3> QED BY <1>1, <3>1, <3>2, <3>3, LiveShrinks
    <2>3. \A a, w \in Live' : a # w => sequence'[a] # sequence'[w]
      BY <1>1, <2>2 DEF IInv, Sequenced
    <2>4. \E b \in Nat : \A w \in Writes : sequence'[w] <= b
      BY <1>1 DEF IInv, Sequenced
    <2> QED BY <1>1, <2>3, <2>4 DEF Sequenced
  <1> QED BY <1>10, <1>11, <1>12, <1>14, <1>16, <1>18, <1>19 DEF IInv

\* The process crashes.
LEMMA StepProcessCrash ==
    ASSUME IInv, processCrash
    PROVE  IInv'
  <1> DEFINE cut == [n \in DOMAIN logs |-> Len(logs[n])]
  <1>1. PICK k \in Written : crash(cut, k)
    BY DEF processCrash
  <1>2. UNCHANGED synced
    BY DEF processCrash
  <1>3. LogType(logs, synced) /\ manifest \in ManifestType
    BY Types DEF IInv
  <1>4. manifest.edits \in Seq(Records)
    BY <1>3 DEF ManifestType
  <1>5. k \in 0..Len(manifest.edits)
    BY <1>1, <1>4, EndsLeast DEF Written
  <1>6. ASSUME NEW n \in DOMAIN logs
        PROVE  cut[n] \in synced[n]..Len(logs[n]) /\ synced[n] \in synced[n]..cut[n]
    <2>1. cut[n] = Len(logs[n]) /\ logs[n] \in Seq(Seq(Writes)) /\ synced[n] \in 0..Len(logs[n])
      BY <1>3 DEF LogType
    <2>2. Len(logs[n]) \in Nat
      BY <2>1
    <2> QED BY <2>1, <2>2
  <1> HIDE DEF cut
  <1>7. DOMAIN synced' = DOMAIN logs /\ \A n \in DOMAIN logs : synced'[n] \in synced[n]..cut[n]
    BY <1>2, <1>3, <1>6 DEF LogType
  <1>8. ASSUME NEW c, c = cut PROVE IInv'
    <2>1. crash(c, k) /\ (\A n \in DOMAIN logs : c[n] \in synced[n]..Len(logs[n]))
          /\ \A n \in DOMAIN logs : synced'[n] \in synced[n]..c[n]
      BY <1>1, <1>6, <1>7, <1>8
    <2> QED BY <1>5, <1>7, <2>1, StepCrash
  <1> QED BY <1>8

\* The machine crashes.
LEMMA StepMachineCrash ==
    ASSUME IInv, machineCrash
    PROVE  IInv'
  <1>1. PICK k \in 0..Len(manifest.edits),
             cut \in [DOMAIN logs -> 0..Max({Len(logs[n]) : n \in DOMAIN logs})] :
            /\ \A n \in DOMAIN logs : cut[n] \in synced[n]..Len(logs[n])
            /\ crash(cut, k)
            /\ synced' = cut
    BY DEF machineCrash
  <1>2. LogType(logs, synced)
    BY Types DEF IInv
  <1>3. ASSUME NEW n \in DOMAIN logs PROVE synced'[n] \in synced[n]..cut[n]
    <2>1. logs[n] \in Seq(Seq(Writes)) /\ synced[n] \in 0..Len(logs[n])
          /\ cut[n] \in synced[n]..Len(logs[n]) /\ synced'[n] = cut[n]
      BY <1>1, <1>2 DEF LogType
    <2>2. Len(logs[n]) \in Nat
      BY <2>1
    <2> QED BY <2>1, <2>2
  <1>4. DOMAIN synced' = DOMAIN logs
    BY <1>1
  <1> QED BY <1>1, <1>3, <1>4, StepCrash

-----------------------------------------------------------------------------
(* DB::Open.                                                               *)

\* While the database is not open there is no caller and no background thread.
LEMMA ClosedFrame ==
    ASSUME IInv, db # "open", db' # "open",
           UNCHANGED <<calls, mem, imm, pending, held, bgError, bg, building, compact>>
    PROVE  /\ Queued' /\ Clean' /\ Merging' /\ Flushing' /\ Editing' /\ Memory'
           /\ UNCHANGED <<state, sequence, writers, group, step>>
           /\ mem = {} /\ imm = {} /\ held = {} /\ step = "front" /\ ~bgError
  <1>1. UNCHANGED <<state, sequence, writers, group, step>>
    BY DEF calls
  <1>2. /\ writers = <<>> /\ group = <<>> /\ step = "front"
        /\ mem = {} /\ imm = {} /\ bg = "idle" /\ held = {} /\ ~bgError
        /\ compact = NoCompact /\ building = 0
    BY DEF IInv, Quiet
  <1>3. Queued'
    BY <1>1, <1>2 DEF IInv, Queued, Grouped, Logging
  <1>4. Clean' /\ Editing' /\ Memory'
    BY DEF Clean, Editing, Memory
  <1>5. Merging'
    BY <1>2 DEF Merging, NoCompact
  <1>6. Flushing'
    BY <1>2 DEF Flushing
  <1> QED BY <1>1, <1>2, <1>3, <1>4, <1>5, <1>6

\* Nothing comes to life while the database is not open.
LEMMA ClosedSequenced ==
    ASSUME IInv, db' # "open", UNCHANGED sequence, Live' \subseteq Live
    PROVE  Sequenced'
  <1>1. \A v, w \in Live' : v # w => sequence'[v] # sequence'[w]
    BY DEF IInv, Sequenced
  <1>2. \E b \in Nat : \A w \in Writes : sequence'[w] <= b
    BY DEF IInv, Sequenced
  <1> QED BY <1>1, <1>2 DEF Sequenced

\* The tables and the logs are left alone, and the manifest may lead to
\* nothing new.
LEMMA ClosedManifested ==
    ASSUME IInv, db # "open", db' # "open",
           UNCHANGED <<logs, synced, tables, state, sequence>>,
           Led(manifest') \subseteq Led(manifest)
    PROVE  Manifested'
  <1> SUFFICES ASSUME NEW v \in Led(manifest')
               PROVE  Version(v)' /\ ClosedVersion(v)'
    BY DEF Manifested
  <1>1. Version(v) /\ ClosedVersion(v)
    BY DEF IInv, Manifested
  <1>2. UNCHANGED Acked
    BY DEF Acked
  <1> QED BY <1>1, <1>2 DEF Version, ClosedVersion

\* VersionSet::Recover.
LEMMA StepRecover ==
    ASSUME IInv, Recover
    PROVE  IInv'
  <1> DEFINE B == manifest.base
  <1>1. /\ db = "down" /\ db' = "recovering"
        /\ versions' = [B EXCEPT !.next = @ + 1]
        /\ todo' = {n \in DOMAIN logs : n >= B.log}
        /\ UNCHANGED <<disk, calls, mem, imm, logfile, pending, held, bgError, scheduled,
                       thread, counts>>
    BY DEF Recover, LogsFrom
  <1>2. /\ UNCHANGED <<logs, synced, tables, manifest, bg, building, compact, edit>>
        /\ UNCHANGED <<crashes, faults, reads>>
    BY <1>1 DEF disk, thread, counts
  <1>3. /\ Queued' /\ Clean' /\ Merging' /\ Flushing' /\ Editing' /\ Memory'
        /\ UNCHANGED <<state, sequence, writers, group, step>>
        /\ mem = {} /\ imm = {} /\ held = {} /\ step = "front" /\ ~bgError
    BY <1>1, <1>2, ClosedFrame
  <1>4. manifest.edits = <<>> /\ edit = NoEdit
    BY <1>1 DEF IInv, Quiet
  <1>5. /\ manifest \in ManifestType /\ LogType(logs, synced) /\ TableType(tables)
        /\ CallType /\ OpenType /\ ThreadType /\ CountType
    BY Types DEF IInv
  <1>6. Led(manifest) = {B}
    BY <1>3, <1>4, <1>5, LedEmpty
  <1>7. /\ B \in Versions /\ Files(B) \subseteq Nat /\ B.log \in Nat /\ B.last \in Nat
        /\ B.next \in Nat /\ Version(B) /\ Files(B) \subseteq DOMAIN tables
    BY <1>6, LedFields
  <1> HIDE DEF B
  <1>8. /\ versions' \in Versions /\ versions'.l0 = B.l0 /\ versions'.deep = B.deep
        /\ versions'.log = B.log /\ versions'.last = B.last /\ versions'.next = B.next + 1
    BY <1>1, <1>7 DEF Versions
  <1>9. Files(versions') = Files(B)
    BY <1>8 DEF Files
  <1>10. TypeOK'
    <2>1. CallType' /\ ThreadType' /\ CountType'
      BY <1>1, <1>2, <1>3, <1>5 DEF CallType, ThreadType, CountType
    <2>2. OpenType'
      BY <1>1, <1>2, <1>5, <1>8 DEF OpenType
    <2> QED BY <1>2, <1>5, <2>1, <2>2, TypesNext
  <1>11. Quiet'
    BY <1>1, <1>2, <1>3, <1>4 DEF IInv, Quiet
  <1>12. Numbers'
    <2>1. ASSUME NEW f \in Files(B) PROVE f < versions'.next
      <3>1. f < B.next /\ f \in Nat
        BY <1>7 DEF Version
      <3> QED BY <1>7, <1>8, <3>1
    <2> QED BY <1>1, <1>2, <1>3, <1>7, <1>9, <2>1 DEF Numbers
  <1>13. Manifested'
    BY <1>1, <1>2, <1>3, ClosedManifested
  <1>14. Recovering'
    <2>1. SameFiles(manifest'.base, versions')
      BY <1>2, <1>8 DEF SameFiles, B
    <2>2. manifest'.base.next < versions'.next /\ manifest'.base.last <= versions'.last
      BY <1>2, <1>7, <1>8 DEF B
    <2>3. edit'.l0 = {} /\ edit'.deep = {} /\ edit'.del = {}
      BY <1>2, <1>4 DEF NoEdit
    <2>4. Content(tables', edit'.l0) = {}
      BY <2>3 DEF Content
    <2>5. \A n \in DOMAIN logs' : n >= manifest'.base.log => n \in todo'
      BY <1>1, <1>2 DEF B
    <2>6. \A n \in todo' : n >= manifest'.base.log
      BY <1>1, <1>2 DEF B
    <2> QED BY <1>1, <2>1, <2>2, <2>3, <2>4, <2>5, <2>6 DEF Recovering
  <1>15. Stored'
    BY <1>1, <1>2, <1>3 DEF IInv, Stored, Logging
  <1>16. Sequenced'
    <2>2. Content(tables', Files(versions')) \subseteq Live
      BY <1>2, <1>6, <1>9, LiveParts
    <2>3. Live' \subseteq Live
      BY <1>1, <1>2, <2>2, LiveParts, LiveShrinks
    <2> QED BY <1>1, <1>3, <2>3, ClosedSequenced
  <1> QED BY <1>3, <1>10, <1>11, <1>12, <1>13, <1>14, <1>15, <1>16 DEF IInv

\* DB::Open fails.
LEMMA StepOpenFails ==
    ASSUME IInv, openFails
    PROVE  IInv'
  <1>1. /\ db \in {"recovering", "saving"} /\ db' = "down" /\ Fault
        /\ manifest' = [manifest EXCEPT !.edits = <<>>]
        /\ versions' = Closed /\ logfile' = 0 /\ todo' = {} /\ edit' = NoEdit
        /\ UNCHANGED <<logs, synced, tables, calls, mem, imm, pending, held, bgError,
                       scheduled, bg, building, compact>>
    BY DEF openFails
  <1>2. /\ Queued' /\ Clean' /\ Merging' /\ Flushing' /\ Editing' /\ Memory'
        /\ UNCHANGED <<state, sequence, writers, group, step>>
        /\ mem = {} /\ imm = {} /\ held = {} /\ step = "front" /\ ~bgError
    BY <1>1, ClosedFrame
  <1>3. /\ manifest \in ManifestType /\ LogType(logs, synced) /\ TableType(tables)
        /\ TypeOK
        /\ CallType /\ OpenType /\ ThreadType
    BY Types DEF IInv
  <1>4. <<>> \in Seq(Records) /\ Len(<<>>) = 0
    OBVIOUS
  <1>5. /\ manifest' \in ManifestType /\ manifest'.base = manifest.base
        /\ manifest'.edits = <<>>
    BY <1>1, <1>2, <1>3, <1>4 DEF ManifestType
  <1>6. Led(manifest') = {manifest.base}
    BY <1>5, LedEmpty
  <1>7. manifest.base \in Led(manifest)
    <2>1. Len(manifest.edits) \in Nat
      BY <1>3 DEF ManifestType
    <2>2. 0 \in 0..Len(manifest.edits)
      BY <1>2, <2>1
    <2>3. Recovered(manifest, 0) = manifest.base
      BY DEF Recovered
    <2> QED BY <2>2, <2>3 DEF Led
  <1>8. CountType'
    BY <1>1, <1>3, FaultCounts
  <1>9. TypeOK'
    <2>1. Closed \in Versions /\ NoEdit \in Edits
      BY DEF Closed, Versions, NoEdit, Edits
    <2>2. CallType' /\ OpenType' /\ ThreadType'
      BY <1>1, <1>2, <1>3, <2>1 DEF CallType, OpenType, ThreadType
    <2> QED BY <1>1, <1>3, <1>5, <1>8, <2>2, TypesNext
  <1>10. Quiet'
    BY <1>1, <1>2, <1>5 DEF IInv, Quiet
  <1>11. Files(Closed) = {}
    BY DEF Files, Closed
  <1>12. Numbers'
    BY <1>1, <1>2, <1>11 DEF Numbers
  <1>13. Manifested'
    BY <1>1, <1>2, <1>6, <1>7, ClosedManifested
  <1>14. Recovering'
    BY <1>1 DEF Recovering
  <1>15. Stored'
    BY <1>1, <1>2 DEF IInv, Stored, Logging
  <1>16. Sequenced'
    <2>2. Content(tables', Files(versions')) \subseteq Live
      BY <1>1, <1>11 DEF Content
    <2>3. \A v \in Led(manifest') : Content(tables', Files(v)) \subseteq Live
      BY <1>1, <1>6, <1>7, LiveParts
    <2>4. Live' \subseteq Live
      BY <1>1, <2>2, <2>3, LiveParts, LiveShrinks
    <2> QED BY <1>1, <1>2, <2>4, ClosedSequenced
  <1> QED BY <1>2, <1>9, <1>10, <1>12, <1>13, <1>14, <1>15, <1>16 DEF IInv

\* The greatest sequence number in a log.
LEMMA MaxSequenceFacts ==
    ASSUME IInv, NEW last \in Nat, NEW found, found \subseteq Writes
    PROVE  /\ MaxSequence(last, found) \in Nat /\ MaxSequence(last, found) >= last
           /\ \A w \in found : sequence[w] <= MaxSequence(last, found)
  <1> DEFINE S == {last} \cup {sequence[w] : w \in found}
  <1>1. sequence \in [Writes -> Nat]
    BY DEF IInv, TypeOK
  <1>2. PICK b \in Nat : \A w \in Writes : sequence[w] <= b
    BY DEF IInv, Sequenced
  <1>3. S \subseteq Nat /\ S # {}
    BY <1>1
  <1>4. last + b \in Nat /\ \A x \in S : x <= last + b
    <2>1. \A w \in found : sequence[w] \in Nat /\ sequence[w] <= b
      BY <1>1, <1>2
    <2> QED BY <2>1
  <1>5. last \in S /\ \A w \in found : sequence[w] \in S
    OBVIOUS
  <1> HIDE DEF S
  <1>6. Max(S) \in S /\ \A y \in S : Max(S) >= y
    BY <1>3, <1>4, MaxOf
  <1>7. Max(S) \in Nat
    BY <1>3, <1>6
  <1>8. \A w \in found : sequence[w] <= Max(S)
    <2>1. \A y \in S : y \in Nat /\ Max(S) >= y
      BY <1>3, <1>6
    <2> QED BY <1>5, <1>7, <2>1
  <1>9. MaxSequence(last, found) = Max(S)
    BY DEF MaxSequence, S
  <1> QED BY <1>5, <1>6, <1>7, <1>8, <1>9

\* A log is read into a table.  Its number and the table's are used up, and
\* what is sure to be found in it is in the tables of the edit.
LEMMA StepRecoverLogFile ==
    ASSUME IInv, RecoverLogFile
    PROVE  IInv'
  <1> DEFINE n == Min(todo)
             t == versions.next
             sure == Logged(logs[n]) \ Behind(logs[n])
             B == manifest.base
  <1> DEFINE read(S) == sure \cup UNION {Range(logs[n][i]) : i \in S}
  <1>1. /\ db = "recovering" /\ todo # {}
        /\ UNCHANGED <<logs, synced, manifest, calls, db, mem, imm, logfile, pending, held,
                       bgError, scheduled, bg, building, compact, counts>>
    BY DEF RecoverLogFile
  <1>2. PICK S \in SUBSET DOMAIN logs[n] :
              /\ tables' = IF read(S) = {} THEN tables ELSE Put(tables, t, read(S))
              /\ edit' = IF read(S) = {} THEN edit ELSE [edit EXCEPT !.l0 = @ \cup {t}]
              /\ versions' = [versions EXCEPT
                     !.next = MarkFileNumberUsed(IF read(S) = {} THEN @ ELSE @ + 1, n),
                     !.last = MaxSequence(@, read(S))]
              /\ todo' = todo \ {n}
    BY DEF RecoverLogFile
  <1> DEFINE found == read(S)
  <1>3. db' = "recovering" /\ UNCHANGED <<crashes, faults, reads>>
    BY <1>1 DEF counts
  <1>4. /\ Queued' /\ Clean' /\ Merging' /\ Flushing' /\ Editing' /\ Memory'
        /\ UNCHANGED <<state, sequence, writers, group, step>>
        /\ mem = {} /\ imm = {} /\ held = {} /\ step = "front" /\ ~bgError
    BY <1>1, <1>3, ClosedFrame
  <1>5. manifest.edits = <<>>
    BY <1>1 DEF IInv, Quiet
  <1>6. /\ manifest \in ManifestType /\ LogType(logs, synced) /\ TableType(tables)
        /\ CallType /\ OpenType /\ ThreadType /\ CountType
    BY Types DEF IInv
  <1>7. Led(manifest) = {B}
    BY <1>4, <1>5, <1>6, LedEmpty
  <1>8. /\ B \in Versions /\ Files(B) \subseteq Nat /\ B.log \in Nat /\ B.last \in Nat
        /\ B.next \in Nat /\ Version(B) /\ Files(B) \subseteq DOMAIN tables
        /\ ClosedVersion(B)
    BY <1>1, <1>7, LedFields DEF IInv, Manifested
  <1>9. todo \subseteq DOMAIN logs /\ DOMAIN logs \subseteq Nat /\ versions \in Versions
    BY <1>6 DEF OpenType, LogType
  <1>10. n \in todo /\ n \in Nat /\ n \in DOMAIN logs
    <2>1. todo \subseteq Nat
      BY <1>9
    <2>2. n \in todo
      BY <1>1, <2>1, MinOf
    <2> QED BY <1>9, <2>2
  <1>11. versions.last \in Nat /\ t \in Nat /\ Files(versions) \subseteq Nat
         /\ versions.l0 \subseteq Nat /\ versions.deep \subseteq Nat /\ versions.log \in Nat
    BY <1>9, VersionFields
  <1>12. /\ found \subseteq Logged(logs[n]) /\ sure \subseteq found
         /\ Logged(logs[n]) \subseteq Writes
    <2>1. logs[n] \in Seq(Seq(Writes))
      BY <1>6, <1>10 DEF LogType
    <2>2. UNION {Range(logs[n][i]) : i \in S} \subseteq Logged(logs[n])
      BY <1>2 DEF Logged
    <2> QED BY <2>1, <2>2, LoggedType
  <1>12a. /\ tables' = IF found = {} THEN tables ELSE Put(tables, t, found)
          /\ edit' = IF found = {} THEN edit ELSE [edit EXCEPT !.l0 = @ \cup {t}]
          /\ versions' = [versions EXCEPT
                 !.next = MarkFileNumberUsed(IF found = {} THEN @ ELSE @ + 1, n),
                 !.last = MaxSequence(@, found)]
          /\ todo' = todo \ {n}
    BY <1>2
  <1> HIDE DEF n, t, sure, B, found
  <1>13. found \subseteq Writes
    BY <1>12
  <1> DEFINE next == MarkFileNumberUsed(IF found = {} THEN t ELSE t + 1, n)
             last == MaxSequence(versions.last, found)
  <1>14. next \in Nat /\ next >= t /\ next > n /\ (found # {} => next >= t + 1)
    <2>1. t + 1 \in Nat
      BY <1>11
    <2>2. CASE found = {}
      BY <1>10, <1>11, <2>2, MarkUsed
    <2>3. CASE found # {}
      <3>1. next = MarkFileNumberUsed(t + 1, n)
        BY <2>3
      <3>2. next \in Nat /\ next >= t + 1 /\ next > n
        BY <1>10, <2>1, <3>1, MarkUsed
      <3> QED BY <1>11, <2>3, <3>2
    <2> QED BY <2>2, <2>3
  <1>15. last \in Nat /\ last >= versions.last /\ \A w \in found : sequence[w] <= last
    BY <1>11, <1>13, MaxSequenceFacts
  <1>16. versions' = [versions EXCEPT !.next = next, !.last = last]
    BY <1>12a DEF t
  <1> HIDE DEF next, last
  <1>17. /\ versions' \in Versions /\ versions'.l0 = versions.l0
         /\ versions'.deep = versions.deep /\ versions'.log = versions.log
         /\ versions'.last = last /\ versions'.next = next
    BY <1>9, <1>14, <1>15, <1>16 DEF Versions
  <1>18. Files(versions') = Files(versions)
    BY <1>17 DEF Files
  <1>19. /\ edit \in Edits /\ edit.l0 \subseteq Nat
         /\ edit' \in Edits /\ edit'.deep = edit.deep /\ edit'.del = edit.del
         /\ edit'.l0 = IF found = {} THEN edit.l0 ELSE edit.l0 \cup {t}
    <2>1. edit \in Edits /\ edit.l0 \subseteq Nat
      BY EditFields
    <2>2. CASE found = {}
      BY <1>12a, <2>1, <2>2
    <2>3. CASE found # {}
      <3>1. edit' = [edit EXCEPT !.l0 = @ \cup {t}]
        BY <1>12a, <2>3 DEF t
      <3>2. edit' \in Edits
        BY <1>11, <2>1, <3>1 DEF Edits
      <3> QED BY <2>1, <2>3, <3>1, <3>2 DEF Edits
    <2> QED BY <2>2, <2>3
  <1>20. /\ DOMAIN tables' = IF found = {} THEN DOMAIN tables ELSE DOMAIN tables \cup {t}
         /\ \A f \in DOMAIN tables : f # t => tables'[f] = tables[f]
         /\ found # {} => tables'[t] = found
         /\ found = {} => tables' = tables
         /\ TableType(tables')
    <2>1. CASE found = {}
      BY <1>12a, <1>6, <2>1
    <2>2. CASE found # {}
      <3>1. tables' = Put(tables, t, found)
        BY <1>12a, <2>2 DEF t
      <3>2. TableType(tables')
        BY <1>6, <1>11, <1>13, <3>1, PutTable
      <3>3. /\ DOMAIN tables' = DOMAIN tables \cup {t}
            /\ tables'[t] = found
            /\ \A f \in DOMAIN tables : f # t => tables'[f] = tables[f]
        BY <3>1 DEF Put
      <3> QED BY <2>2, <3>2, <3>3
    <2> QED BY <2>1, <2>2
  <1>21. /\ SameFiles(B, versions) /\ B.next < t /\ B.last <= versions.last
         /\ edit.deep = {} /\ edit.del = {}
         /\ \A f \in edit.l0 : f \in DOMAIN tables /\ f < t
         /\ Content(tables, edit.l0) \subseteq InLogs(logs, B.log)
         /\ \A w \in Content(tables, edit.l0) : sequence[w] <= versions.last
         /\ \A m \in DOMAIN logs : m >= B.log /\ m \notin todo =>
                m < t /\ Logged(logs[m]) \ Behind(logs[m]) \subseteq Content(tables, edit.l0)
         /\ \A m \in todo : m >= B.log
    BY <1>1 DEF IInv, Recovering, B, t
  <1>22. /\ \A f \in Files(B) : f \in DOMAIN tables /\ f \in DOMAIN tables'
                                /\ tables'[f] = tables[f]
         /\ \A f \in edit.l0 : f \in DOMAIN tables /\ f \in DOMAIN tables'
                               /\ tables'[f] = tables[f]
    <2>1. ASSUME NEW f \in Files(B) PROVE f # t
      <3>1. f \in Nat /\ f < B.next
        BY <1>8 DEF Version
      <3> QED BY <1>8, <1>11, <1>21, <3>1
    <2>2. ASSUME NEW f \in edit.l0 PROVE f # t
      BY <1>11, <1>19, <1>21
    <2> QED BY <1>8, <1>20, <1>21, <2>1, <2>2
  <1>23. /\ Content(tables', Files(B)) = Content(tables, Files(B))
         /\ Content(tables', edit.l0) = Content(tables, edit.l0)
    BY <1>22, ContentSame
  <1>24. Content(tables', edit'.l0) = Content(tables, edit.l0) \cup found
    <2>1. CASE found = {}
      BY <1>19, <1>23, <2>1
    <2>2. CASE found # {}
      <3>1. Content(tables', {t}) = found
        BY <1>20, <2>2 DEF Content
      <3>2. edit'.l0 = edit.l0 \cup {t}
        BY <1>19, <2>2
      <3> QED BY <1>23, <3>1, <3>2, ContentUnion
    <2> QED BY <2>1, <2>2
  <1>25. Files(versions) = Files(B)
    BY <1>21 DEF SameFiles, Files
  <1>26. TypeOK'
    <2>1. CallType' /\ CountType'
      BY <1>1, <1>3, <1>4, <1>6 DEF CallType, CountType
    <2>2. ThreadType'
      BY <1>1, <1>6, <1>19 DEF ThreadType
    <2>3. OpenType'
      BY <1>1, <1>12a, <1>6, <1>17 DEF OpenType
    <2> QED BY <1>1, <1>6, <1>20, <2>1, <2>2, <2>3, TypesNext
  <1>27. Quiet'
    BY <1>1, <1>3, <1>4, <1>5 DEF IInv, Quiet, calls
  <1>28. Numbers'
    <2>1. ASSUME NEW f \in Files(versions') PROVE f \in DOMAIN tables' /\ f < versions'.next
      <3>1. f \in Nat /\ f < t /\ f \in DOMAIN tables'
        BY <1>11, <1>18, <1>22, <1>25 DEF IInv, Numbers, t
      <3> QED BY <1>11, <1>14, <1>17, <3>1
    <2> QED BY <1>1, <1>4, <2>1 DEF Numbers
  <1>29. Manifested'
    <2> SUFFICES ASSUME NEW v \in Led(manifest')
                 PROVE  Version(v)' /\ ClosedVersion(v)'
      BY <1>3 DEF Manifested
    <2>1. v = B
      BY <1>1, <1>7
    <2>2. Version(v)'
      BY <1>4, <1>8, <1>22, <1>23, <2>1 DEF Version
    <2>3. UNCHANGED Acked
      BY <1>4 DEF Acked
    <2>4. ClosedVersion(v)'
      BY <1>1, <1>8, <1>23, <2>1, <2>3 DEF ClosedVersion
    <2> QED BY <2>2, <2>4
  <1>30. Recovering'
    <2>1. manifest'.base = B /\ SameFiles(B, versions') /\ logs' = logs /\ UNCHANGED sequence
      BY <1>1, <1>4, <1>17, <1>21 DEF SameFiles, B
    <2>2. B.next < versions'.next /\ B.last <= versions'.last
      BY <1>8, <1>11, <1>14, <1>15, <1>17, <1>21
    <2>3. edit'.deep = {} /\ edit'.del = {}
      BY <1>19, <1>21
    <2>4. ASSUME NEW f \in edit'.l0 PROVE f \in DOMAIN tables' /\ f < versions'.next
      <3>1. CASE f \in edit.l0
        <4>1. f \in Nat /\ f < t
          BY <1>19, <1>21, <3>1
        <4> QED BY <1>11, <1>14, <1>17, <1>22, <3>1, <4>1
      <3>2. CASE f \notin edit.l0
        <4>1. f = t /\ found # {}
          BY <1>19, <3>2
        <4> QED BY <1>11, <1>14, <1>17, <1>20, <4>1
      <3> QED BY <3>1, <3>2
    <2>5. found \subseteq InLogs(logs, B.log)
      BY <1>10, <1>12, <1>21, InLogsElem
    <2>6. Content(tables', edit'.l0) \subseteq InLogs(logs, B.log)
      BY <1>21, <1>24, <2>5
    <2>7. ASSUME NEW w \in Content(tables', edit'.l0) PROVE sequence[w] <= versions'.last
      <3>1. CASE w \in found
        BY <1>15, <1>17, <3>1
      <3>2. CASE w \in Content(tables, edit.l0)
        <4>1. sequence[w] <= versions.last
          BY <1>21, <3>2
        <4>2. w \in Writes
          BY <1>6, <3>2, ContentType
        <4>3. sequence[w] \in Nat
          BY <1>6, <4>2 DEF CallType
        <4> QED BY <1>11, <1>15, <1>17, <4>1, <4>3
      <3> QED BY <1>24, <3>1, <3>2
    <2>8. ASSUME NEW m \in DOMAIN logs, m >= B.log, m \notin todo'
          PROVE  m < versions'.next /\ Logged(logs[m]) \ Behind(logs[m]) \subseteq
                                           Content(tables', edit'.l0)
      <3>1. CASE m = n
        <4>1. Logged(logs[m]) \ Behind(logs[m]) \subseteq Content(tables', edit'.l0)
          BY <1>12, <1>24, <3>1 DEF sure
        <4> QED BY <1>10, <1>14, <1>17, <3>1, <4>1
      <3>2. CASE m # n
        <4>1. m \notin todo
          BY <1>12a, <2>8, <3>2 DEF n
        <4>2. m < t /\ Logged(logs[m]) \ Behind(logs[m]) \subseteq Content(tables, edit.l0)
          BY <1>21, <2>8, <4>1
        <4>3. m \in Nat
          BY <1>9
        <4>4. m < next
          BY <1>11, <1>14, <4>2, <4>3
        <4> QED BY <1>17, <1>24, <4>2, <4>4
      <3> QED BY <3>1, <3>2
    <2>9. \A m \in todo' : m >= B.log
      BY <1>12a, <1>21
    <2> QED BY <1>3, <2>1, <2>2, <2>3, <2>4, <2>6, <2>7, <2>8, <2>9 DEF Recovering
  <1>31. Stored'
    <2>1. found \subseteq InLogs(logs, 0)
      <3>1. n >= 0
        BY <1>10
      <3> QED BY <1>10, <1>12, <3>1, InLogsElem
    <2>2. \A w \in found : state[w] \notin {"new", "queued"}
      BY <1>4, <2>1 DEF IInv, Stored, Logging
    <2>3. Content(tables', DOMAIN tables') \subseteq Content(tables, DOMAIN tables) \cup found
      BY <1>20 DEF Content
    <2>4. \A w \in InLogs(logs, 0) : state[w] \notin {"new", "queued"}
      BY <1>4 DEF IInv, Stored, Logging
    <2>5. \A w \in Content(tables, DOMAIN tables) : state[w] \notin {"new", "queued"}
      BY DEF IInv, Stored
    <2> QED BY <1>1, <1>4, <2>2, <2>3, <2>4, <2>5 DEF Stored
  <1>32. Sequenced'
    <2>1. mem' = {} /\ imm' = {} /\ logs' = logs
      BY <1>1, <1>4
    <2>2. Content(tables', Files(versions')) \subseteq Live
      BY <1>7, <1>18, <1>23, <1>25, LiveParts
    <2>3. \A v \in Led(manifest') : Content(tables', Files(v)) \subseteq Live
      BY <1>1, <1>7, <1>23, LiveParts
    <2>4. Live' \subseteq Live
      BY <2>1, <2>2, <2>3, LiveParts, LiveShrinks
    <2> QED BY <1>3, <1>4, <2>4, ClosedSequenced
  <1> QED BY <1>4, <1>26, <1>27, <1>28, <1>29, <1>30, <1>31, <1>32 DEF IInv

\* All logs have been read.  The new log has a number that no file had, and
\* the new manifest leads to the tables of the old one and to those that the
\* logs were read into.
LEMMA StepNewLogAtOpen ==
    ASSUME IInv, NewLogAtOpen
    PROVE  IInv'
  <1> DEFINE t == versions.next
             B == manifest.base
  <1>1. /\ db = "recovering" /\ todo = {} /\ db' = "saving"
        /\ logfile' = t
        /\ logs' = Put(logs, t, <<>>)
        /\ synced' = Put(synced, t, 0)
        /\ versions' = [versions EXCEPT !.next = @ + 1]
        /\ edit' = [edit EXCEPT !.log = t, !.last = versions.last, !.next = t + 1]
        /\ manifest' = [manifest EXCEPT !.edits =
                            <<[torn |-> FALSE, version |-> ApplyEdit(B, edit')]>>]
        /\ UNCHANGED <<tables, calls, mem, imm, pending, held, bgError, scheduled, bg,
                       building, compact, todo, counts>>
    BY DEF NewLogAtOpen
  <1>2. UNCHANGED <<crashes, faults, reads>>
    BY <1>1 DEF counts
  <1>3. /\ Queued' /\ Clean' /\ Merging' /\ Flushing' /\ Editing' /\ Memory'
        /\ UNCHANGED <<state, sequence, writers, group, step>>
        /\ mem = {} /\ imm = {} /\ held = {} /\ step = "front" /\ ~bgError
    BY <1>1, ClosedFrame
  <1>4. manifest.edits = <<>>
    BY <1>1 DEF IInv, Quiet
  <1>5. /\ manifest \in ManifestType /\ LogType(logs, synced) /\ TableType(tables)
        /\ CallType /\ OpenType /\ ThreadType /\ CountType
    BY Types DEF IInv
  <1>6. Led(manifest) = {B}
    BY <1>3, <1>4, <1>5, LedEmpty
  <1>7. /\ B \in Versions /\ Files(B) \subseteq Nat /\ B.log \in Nat /\ B.last \in Nat
        /\ B.next \in Nat /\ Version(B) /\ Files(B) \subseteq DOMAIN tables
        /\ ClosedVersion(B)
    BY <1>1, <1>6, LedFields DEF IInv, Manifested
  <1>8. versions \in Versions /\ DOMAIN logs \subseteq Nat /\ DOMAIN synced = DOMAIN logs
    BY <1>5 DEF OpenType, LogType
  <1>9. versions.last \in Nat /\ t \in Nat
    BY <1>8, VersionFields
  <1>10. /\ SameFiles(B, versions) /\ B.next < t /\ B.last <= versions.last
         /\ edit.deep = {} /\ edit.del = {}
         /\ \A f \in edit.l0 : f \in DOMAIN tables /\ f < t
         /\ Content(tables, edit.l0) \subseteq InLogs(logs, B.log)
         /\ \A w \in Content(tables, edit.l0) : sequence[w] <= versions.last
         /\ \A m \in DOMAIN logs : m >= B.log =>
                m < t /\ Logged(logs[m]) \ Behind(logs[m]) \subseteq Content(tables, edit.l0)
    BY <1>1 DEF IInv, Recovering
  <1>11. /\ versions' \in Versions /\ versions'.l0 = versions.l0
         /\ versions'.deep = versions.deep /\ versions'.log = versions.log
         /\ versions'.last = versions.last /\ versions'.next = t + 1
    BY <1>1, <1>8, <1>9 DEF Versions
  <1>12. edit \in Edits /\ edit.l0 \subseteq Nat
    BY EditFields
  <1>13. /\ edit' \in Edits /\ edit'.l0 = edit.l0 /\ edit'.deep = {} /\ edit'.del = {}
         /\ edit'.log = t /\ edit'.last = versions.last /\ edit'.next = t + 1
    <2>1. edit' = [edit EXCEPT !.log = t, !.last = versions.last, !.next = t + 1]
      BY <1>1
    <2>2. t \in Nat /\ t + 1 \in Nat /\ versions.last \in Nat
      BY <1>9
    <2> HIDE DEF t
    <2>3. edit' \in Edits
      BY <1>12, <2>1, <2>2 DEF Edits
    <2>4. /\ edit'.l0 = edit.l0 /\ edit'.deep = edit.deep /\ edit'.del = edit.del
          /\ edit'.log = t /\ edit'.last = versions.last /\ edit'.next = t + 1
      BY <1>12, <2>1 DEF Edits
    <2> QED BY <1>10, <2>3, <2>4
  <1> DEFINE u == ApplyEdit(B, edit')
  <1>14. /\ u \in Versions /\ Files(u) = Files(B) \cup edit.l0
         /\ u.log = t /\ u.last = versions.last /\ u.next = t + 1
    BY <1>7, <1>13, ApplyFields
  <1>15. manifest' = [manifest EXCEPT !.edits = <<[torn |-> FALSE, version |-> u]>>]
    BY <1>1
  <1> HIDE DEF t, B, u
  <1>16. /\ manifest' \in ManifestType /\ manifest'.base = B
         /\ manifest'.edits = <<[torn |-> FALSE, version |-> u]>>
    <2>1. [torn |-> FALSE, version |-> u] \in Records
      BY <1>14 DEF Records
    <2>2. <<[torn |-> FALSE, version |-> u]>> \in Seq(Records)
      BY <2>1
    <2> QED BY <1>3, <1>5, <1>15, <2>2 DEF ManifestType, B
  <1>17. Led(manifest') = {B, u} /\ Len(manifest'.edits) = 1
    BY <1>16, LedTwo
  <1>18. \A m \in DOMAIN logs : m < t
    <2> SUFFICES ASSUME NEW m \in DOMAIN logs PROVE m < t
      OBVIOUS
    <2>1. m \in Nat
      BY <1>8
    <2>2. CASE m >= B.log
      BY <1>10, <2>2
    <2>3. CASE ~(m >= B.log)
      <3>1. B.log < B.next
        BY <1>7 DEF Version
      <3> QED BY <1>7, <1>9, <1>10, <2>1, <2>3, <3>1 DEF t
    <2> QED BY <2>2, <2>3
  <1>19. t \notin DOMAIN logs
    BY <1>9, <1>18 DEF t
  <1>20. /\ DOMAIN logs' = DOMAIN logs \cup {t} /\ DOMAIN synced' = DOMAIN logs \cup {t}
         /\ logs'[t] = <<>>
         /\ \A m \in DOMAIN logs : logs'[m] = logs[m] /\ synced'[m] = synced[m]
    <2>1. DOMAIN logs' = DOMAIN logs \cup {t} /\ logs'[t] = <<>>
          /\ \A m \in DOMAIN logs : m # t => logs'[m] = logs[m]
      BY <1>1 DEF Put, t
    <2>2. DOMAIN synced' = DOMAIN synced \cup {t}
          /\ \A m \in DOMAIN synced : m # t => synced'[m] = synced[m]
      BY <1>1 DEF Put, t
    <2> QED BY <1>8, <1>19, <2>1, <2>2
  <1>21. Logged(logs'[t]) = {}
    BY <1>20 DEF Logged
  <1>22. LogType(logs', synced')
    BY <1>1, <1>5, <1>9, PutLog
  <1>23. TypeOK'
    <2>1. CallType' /\ CountType'
      BY <1>1, <1>2, <1>3, <1>5 DEF CallType, CountType
    <2>2. ThreadType'
      BY <1>1, <1>5, <1>13 DEF ThreadType
    <2>3. OpenType'
      BY <1>1, <1>5, <1>9, <1>11 DEF OpenType
    <2> QED BY <1>1, <1>5, <1>16, <1>22, <2>1, <2>2, <2>3, TypesNext
  <1>24. Quiet'
    BY <1>1, <1>3, <1>16 DEF IInv, Quiet
  <1>25. Files(versions') = Files(versions) /\ Files(versions) = Files(B)
    BY <1>10, <1>11 DEF SameFiles, Files
  <1>26. Numbers'
    <2>1. ASSUME NEW f \in Files(versions') PROVE f \in DOMAIN tables' /\ f < versions'.next
      <3>1. f \in Nat /\ f < t /\ f \in DOMAIN tables
        BY <1>7, <1>25 DEF IInv, Numbers, t
      <3> QED BY <1>1, <1>9, <1>11, <3>1 DEF t
    <2>2. \A m \in DOMAIN logs' : m <= logfile'
      <3>1. logfile' = t /\ t \in Nat
        BY <1>1, <1>9 DEF t
      <3> QED BY <1>8, <1>18, <1>20, <3>1
    <2>3. logfile' < versions'.next
      BY <1>1, <1>9, <1>11 DEF t
    <2> QED BY <1>1, <1>3, <2>1, <2>2, <2>3 DEF Numbers
  <1>27. Content(tables, Files(u)) = Content(tables, Files(B)) \cup Content(tables, edit.l0)
    BY <1>14, ContentUnion
  <1>28. SureIn(logs, B.log) \subseteq Content(tables, edit.l0)
    BY <1>10, SureInElem
  <1>29. Acked \subseteq Content(tables, Files(u))
    BY <1>7, <1>27, <1>28 DEF ClosedVersion
  <1>30. UNCHANGED Acked
    BY <1>3 DEF Acked
  <1>31. Manifested'
    <2> SUFFICES ASSUME NEW v \in Led(manifest')
                 PROVE  Version(v)' /\ ClosedVersion(v)'
      BY <1>1 DEF Manifested
    <2>1. CASE v = B
      <3>1. Version(v)'
        BY <1>1, <1>3, <1>7, <2>1 DEF Version
      <3>2. SureIn(logs, v.log) \subseteq SureIn(logs', v.log)
        BY <1>20, SureInElem
      <3>3. LogsGrow(v.log)
        BY <1>20 DEF LogsGrow
      <3>4. InLogs(Safe(logs, synced), v.log) \subseteq InLogs(Safe(logs', synced'), v.log)
        BY <3>3, SafeGrows
      <3>5. ClosedVersion(v)'
        BY <1>1, <1>7, <1>30, <2>1, <3>2, <3>4 DEF ClosedVersion
      <3> QED BY <3>1, <3>5
    <2>2. CASE v = u
      <3>1. ASSUME NEW f \in Files(v) PROVE f \in DOMAIN tables' /\ f < v.next
        <4>1. f \in Nat /\ f \in DOMAIN tables /\ f < t
          <5>1. CASE f \in Files(B)
            BY <1>7, <1>25, <5>1 DEF IInv, Numbers, t
          <5>2. CASE f \in edit.l0
            BY <1>10, <1>12, <5>2 DEF t
          <5> QED BY <1>14, <2>2, <5>1, <5>2
        <4> QED BY <1>1, <1>9, <1>14, <2>2, <4>1 DEF t
      <3>2. v.log < v.next
        BY <1>9, <1>14, <2>2 DEF t
      <3>3. ASSUME NEW w \in Content(tables, Files(v)) PROVE sequence[w] <= v.last
        <4>1. CASE w \in Content(tables, edit.l0)
          BY <1>10, <1>14, <2>2, <4>1
        <4>2. CASE w \in Content(tables, Files(B))
          <5>1. sequence[w] <= B.last
            BY <1>7, <4>2 DEF Version
          <5>2. w \in Writes
            BY <1>5, <4>2, ContentType
          <5>3. sequence[w] \in Nat
            BY <1>5, <5>2 DEF CallType
          <5> QED BY <1>7, <1>9, <1>10, <1>14, <2>2, <5>1, <5>3
        <4> QED BY <1>27, <2>2, <4>1, <4>2
      <3>4. Version(v)'
        BY <1>1, <1>3, <3>1, <3>2, <3>3 DEF Version
      <3>5. ClosedVersion(v)'
        BY <1>1, <1>29, <1>30, <2>2 DEF ClosedVersion
      <3> QED BY <3>4, <3>5
    <2> QED BY <1>17, <2>1, <2>2
  <1>32. /\ InLogs(logs', B.log) \subseteq InLogs(logs, B.log)
         /\ InLogs(logs, B.log) \subseteq InLogs(logs', B.log)
         /\ InLogs(logs', 0) \subseteq InLogs(logs, 0)
    BY <1>20, <1>21, InLogsElem
  <1>33. Recovering'
    <2>1. manifest'.base = B /\ SameFiles(B, versions') /\ UNCHANGED <<sequence, tables>>
          /\ todo' = {} /\ edit'.l0 = edit.l0
      BY <1>1, <1>3, <1>10, <1>11, <1>13, <1>16 DEF SameFiles
    <2>2. B.next < versions'.next /\ B.last <= versions'.last
      BY <1>7, <1>9, <1>10, <1>11 DEF t
    <2>3. \A f \in edit.l0 : f \in DOMAIN tables /\ f < versions'.next
      BY <1>9, <1>10, <1>11, <1>12 DEF t
    <2>4. Content(tables, edit.l0) \subseteq InLogs(logs', B.log)
      BY <1>10, <1>32
    <2>5. \A w \in Content(tables, edit.l0) : sequence[w] <= versions'.last
      BY <1>10, <1>11
    <2>6. ASSUME NEW m \in DOMAIN logs', m >= B.log
          PROVE  m < versions'.next /\ Logged(logs'[m]) \ Behind(logs'[m]) \subseteq
                                           Content(tables, edit.l0)
      <3>1. CASE m = t
        BY <1>9, <1>11, <1>21, <3>1 DEF t
      <3>2. CASE m # t
        <4>1. m \in DOMAIN logs /\ logs'[m] = logs[m] /\ m \in Nat
          BY <1>8, <1>20, <3>2
        <4>2. m < t /\ Logged(logs[m]) \ Behind(logs[m]) \subseteq Content(tables, edit.l0)
          BY <1>10, <2>6, <4>1 DEF t
        <4> QED BY <1>9, <1>11, <4>1, <4>2 DEF t
      <3> QED BY <3>1, <3>2
    <2>7. manifest'.edits = <<[torn |-> FALSE, version |-> ApplyEdit(manifest'.base, edit')]>>
      BY <1>16 DEF u
    <2>8. /\ edit'.log = logfile' /\ edit'.next = versions'.next /\ edit'.last = versions'.last
          /\ logfile' \in DOMAIN logs' /\ logs'[logfile'] = <<>>
      BY <1>1, <1>11, <1>13, <1>20 DEF t
    <2>9. edit'.deep = {} /\ edit'.del = {}
      BY <1>13
    <2> QED BY <1>1, <2>1, <2>2, <2>3, <2>4, <2>5, <2>6, <2>7, <2>8, <2>9 DEF Recovering
  <1>34. Stored'
    BY <1>1, <1>3, <1>32 DEF IInv, Stored, Logging
  <1>35. Sequenced'
    <2>1. InLogs(logs, B.log) \subseteq InLogs(logs, 0)
      BY <1>7, <1>8, InLogsMono
    <2>2. InLogs(logs', 0) \subseteq Live
      BY <1>32, LiveParts
    <2>3. Content(tables', Files(versions')) \subseteq Live
      BY <1>1, <1>25, LiveParts
    <2>4. \A v \in Led(manifest') : Content(tables', Files(v)) \subseteq Live
      <3>1. Content(tables, Files(B)) \subseteq Live
        BY <1>6, LiveParts
      <3>2. Content(tables, edit.l0) \subseteq Live
        BY <1>10, <2>1, LiveParts
      <3> QED BY <1>1, <1>17, <1>27, <3>1, <3>2
    <2>5. Live' \subseteq Live
      BY <1>1, <1>3, <2>2, <2>3, <2>4, LiveShrinks
    <2> QED BY <1>1, <1>3, <2>5, ClosedSequenced
  <1> QED BY <1>3, <1>23, <1>24, <1>26, <1>31, <1>33, <1>34, <1>35 DEF IInv

\* The database is open, with the version of the new manifest.
LEMMA StepOpened ==
    ASSUME IInv, Opened
    PROVE  IInv'
  <1> DEFINE B == manifest.base
             u == ApplyEdit(B, edit)
  <1>1. /\ db = "saving" /\ db' = "open"
        /\ manifest' = [base |-> Recovered(manifest, 1), edits |-> <<>>]
        /\ versions' = [ApplyEdit(versions, edit) EXCEPT !.next = versions.next]
        /\ edit' = NoEdit
        /\ DeleteObsoleteFiles /\ MaybeScheduleCompaction(FALSE)
        /\ UNCHANGED <<imm, pending, held, bgError, compact, calls, mem, logfile, bg,
                       building, todo, counts>>
    BY DEF Opened
  <1>2. UNCHANGED <<state, sequence, writers, group, step, crashes, faults, reads>>
    BY <1>1 DEF calls, counts
  <1>3. /\ writers = <<>> /\ group = <<>> /\ step = "front"
        /\ mem = {} /\ imm = {} /\ bg = "idle" /\ held = {} /\ ~bgError
        /\ compact = NoCompact /\ building = 0 /\ todo = {}
    BY <1>1 DEF IInv, Quiet
  <1>4. /\ SameFiles(B, versions)
        /\ edit.deep = {} /\ edit.del = {}
        /\ manifest.edits = <<[torn |-> FALSE, version |-> u]>>
        /\ edit.log = logfile /\ edit.next = versions.next /\ edit.last = versions.last
        /\ logfile \in DOMAIN logs /\ logs[logfile] = <<>>
    BY <1>1 DEF IInv, Recovering
  <1>5. /\ manifest \in ManifestType /\ LogType(logs, synced) /\ TypeOK
        /\ CallType /\ OpenType /\ ThreadType /\ CountType
    BY Types DEF IInv
  <1>6. Led(manifest) = {B, u} /\ Recovered(manifest, 1) = u
    BY <1>3, <1>4, <1>5, LedTwo
  <1>7. /\ B \in Versions /\ versions \in Versions /\ edit \in Edits
    BY <1>5 DEF ManifestType, OpenType, ThreadType
  <1>8. /\ u \in Versions /\ u.l0 = B.l0 \cup edit.l0 /\ u.deep = B.deep
        /\ u.log = logfile /\ u.last = versions.last /\ u.next = versions.next
    <2>1. /\ u \in Versions /\ u.log = edit.log /\ u.last = edit.last
          /\ u.next = edit.next
          /\ u.l0 = (B.l0 \ edit.del) \cup edit.l0
          /\ u.deep = (B.deep \ edit.del) \cup edit.deep
      BY <1>7, ApplyFields
    <2> HIDE DEF B, u
    <2> QED BY <1>4, <2>1
  <1>9. /\ Files(u) \subseteq Nat /\ Version(u) /\ Files(u) \subseteq DOMAIN tables
        /\ ClosedVersion(u)
    BY <1>1, <1>6, LedFields DEF IInv, Manifested
  <1> HIDE DEF B, u
  <1>10. versions.last \in Nat /\ versions.next \in Nat /\ logfile \in Nat
    BY <1>5, <1>7, VersionFields DEF OpenType
  <1>11. versions' = [l0 |-> versions.l0 \cup edit.l0, deep |-> versions.deep,
                      log |-> logfile, last |-> versions.last, next |-> versions.next]
    BY <1>1, <1>4 DEF ApplyEdit
  <1>12. /\ versions'.l0 = u.l0 /\ versions'.deep = u.deep /\ versions'.log = logfile
         /\ versions'.last = versions.last /\ versions'.next = versions.next
         /\ SameFiles(u, versions')
    BY <1>4, <1>8, <1>11 DEF SameFiles
  <1>13. versions' \in Versions
    BY <1>7, <1>10, <1>11 DEF Versions, Edits
  <1>14. Files(versions') = Files(u)
    BY <1>12 DEF Files
  <1>15. manifest'.base = u /\ manifest'.edits = <<>>
         /\ Led(manifest') = {u}
    BY <1>1, <1>6, LedOne
  <1>16. manifest' \in ManifestType
    <2>1. <<>> \in Seq(Records) /\ Len(<<>>) = 0
      OBVIOUS
    <2>2. manifest' = [base |-> u, edits |-> <<>>]
      BY <1>1, <1>6
    <2>3. manifest' \in ManifestType
      BY <1>8, <2>1, <2>2 DEF ManifestType
    <2> QED BY <1>15, <2>1, <2>3
  <1>17. Cleared
    BY <1>1, <1>5, ClearedObsolete
  <1>18. /\ \A first : InLogs(logs', first) \subseteq InLogs(logs, first)
         /\ Content(tables', DOMAIN tables') \subseteq Content(tables, DOMAIN tables)
         /\ \A S : S \subseteq DOMAIN tables' => Content(tables', S) = Content(tables, S)
    BY <1>5, <1>17, ClearedLogs
  <1>19. Files(u) \subseteq DOMAIN tables'
    BY <1>9, <1>14, <1>17 DEF Cleared
  <1>20. Content(tables', Files(u)) = Content(tables, Files(u))
    BY <1>18, <1>19
  <1>21. logfile \in DOMAIN logs' /\ logs'[logfile] = <<>>
    BY <1>4, <1>10, <1>12, <1>17 DEF Cleared
  <1>22. \A m \in DOMAIN logs : m \in Nat /\ m <= logfile
    BY <1>1, <1>5 DEF IInv, Numbers, LogType
  <1>23. InLogs(logs, logfile) = {}
    <2>1. \A m \in DOMAIN logs : m >= logfile => m = logfile
      BY <1>10, <1>22
    <2>2. Logged(logs[logfile]) = {}
      BY <1>4 DEF Logged
    <2> QED BY <2>1, <2>2, InLogsElem
  <1>24. TypeOK'
    <2>1. CallType' /\ CountType'
      BY <1>2, <1>5 DEF CallType, CountType
    <2>2. NoEdit \in Edits
      BY DEF NoEdit, Edits
    <2>3. ThreadType'
      BY <1>1, <1>5, <2>2 DEF ThreadType
    <2>4. scheduled' \in BOOLEAN
      BY <1>1 DEF MaybeScheduleCompaction
    <2>5. OpenType'
      BY <1>1, <1>3, <1>5, <1>13, <2>4 DEF OpenType
    <2> QED BY <1>16, <1>17, <2>1, <2>3, <2>5, TypesNext DEF Cleared
  <1>25. Quiet' /\ Recovering'
    BY <1>1, <1>3 DEF Quiet, Recovering
  <1>26. Queued'
    BY <1>2, <1>3 DEF IInv, Queued, Grouped, Logging
  <1>27. Numbers'
    <2>1. \A f \in Files(versions') : f \in DOMAIN tables' /\ f < versions'.next
      BY <1>8, <1>9, <1>12, <1>14, <1>19 DEF Version
    <2>2. \A m \in DOMAIN logs' : m <= logfile'
      BY <1>1, <1>17, <1>22 DEF Cleared
    <2>3. logfile' < versions'.next /\ versions'.log <= logfile' /\ logfile' \in DOMAIN logs'
      BY <1>1, <1>10, <1>12, <1>21 DEF IInv, Numbers
    <2> QED BY <1>1, <1>3, <2>1, <2>2, <2>3 DEF Numbers
  <1>28. Manifested'
    <2>0. Ahead(Latest(manifest))'
      <3>1. Latest(manifest') = u
        BY <1>15, <1>16, LedEmpty
      <3> QED BY <1>8, <1>10, <1>12, <1>14, <3>1 DEF Ahead
    <2> SUFFICES ASSUME NEW v \in Led(manifest')
                 PROVE  Version(v)' /\ OpenVersion(v)'
      BY <1>1, <2>0 DEF Manifested
    <2>1. v = u
      BY <1>15
    <2>2. Version(v)'
      BY <1>2, <1>9, <1>19, <1>20, <2>1 DEF Version
    <2>3. v.next <= versions'.next /\ v.last <= versions'.last
          /\ v.log <= logfile'
      BY <1>1, <1>8, <1>10, <1>12, <2>1
    <2>4. Flushed' \subseteq Content(tables', Files(v))
      BY <1>1, <1>3, <1>14, <2>1 DEF Flushed
    <2>5. OpenVersion(v)'
      BY <2>3, <2>4 DEF OpenVersion
    <2> QED BY <2>2, <2>5
  <1>29. Clean'
    BY <1>1, <1>3, <1>12, <1>15 DEF Clean
  <1>30. Merging' /\ Flushing' /\ Editing'
    <2>1. Merging'
      BY <1>1, <1>3 DEF Merging, NoCompact
    <2>2. Flushing'
      BY <1>1, <1>3 DEF Flushing
    <2>3. Editing'
      BY <1>1, <1>3 DEF Editing, Recording
    <2> QED BY <2>1, <2>2, <2>3
  <1>31. Memory'
    <2>1. UNCHANGED Acked
      BY <1>2 DEF Acked
    <2>2. SureIn(logs, u.log) = {}
      BY <1>8, <1>23, SureInLogs
    <2>3. Acked \subseteq Content(tables, Files(u))
      BY <1>9, <2>2 DEF ClosedVersion
    <2> QED BY <1>1, <1>3, <1>14, <1>20, <2>1, <2>3 DEF Memory
  <1>32. Stored'
    BY <1>1, <1>2, <1>3, <1>18 DEF IInv, Stored, Logging
  <1>33. Sequenced'
    <2>1. \A n \in DOMAIN logs' : n \in DOMAIN logs /\ n >= logfile /\ logs'[n] = logs[n]
      BY <1>1, <1>3, <1>12 DEF DeleteObsoleteFiles, Keep, Restrict
    <2>2. InLogs(logs', 0) = {}
      BY <1>23, <2>1, InLogsElem
    <2>3. Live' = Content(tables, Files(u))
      BY <1>1, <1>3, <1>14, <1>15, <1>20, <2>2 DEF Live
    <2>4. Live' \subseteq Live
      BY <1>6, <2>3, LiveParts
    <2>5. \A v, w \in Live' : v # w => sequence'[v] # sequence'[w]
      BY <1>2, <2>4 DEF IInv, Sequenced
    <2>6. \E b \in Nat : \A w \in Writes : sequence'[w] <= b
      BY <1>2 DEF IInv, Sequenced
    <2>7. ASSUME NEW w \in Live'
          PROVE  /\ sequence'[w] <= versions'.last
                 /\ sequence'[w] <= versions'.last + Len(group')
      <3>1. sequence[w] <= versions.last
        BY <1>8, <1>9, <2>3 DEF Version
      <3>2. Len(group') = 0
        BY <1>2, <1>3
      <3>3. w \in Writes
        BY <2>4, <2>7, <1>5, LiveType
      <3>4. sequence[w] \in Nat
        BY <1>5, <3>3 DEF CallType
      <3> QED BY <1>2, <1>10, <1>12, <3>1, <3>2, <3>4
    <2> QED BY <2>5, <2>6, <2>7 DEF Sequenced
  <1> QED BY <1>24, <1>25, <1>26, <1>27, <1>28, <1>29, <1>30, <1>31, <1>32, <1>33 DEF IInv

-----------------------------------------------------------------------------
(* The invariant, and what follows from it.                                *)

\* The invariant holds for a database that has just been opened.
LEMMA InitIInv == Init => IInv
  <1> SUFFICES ASSUME Init
               PROVE  IInv
    OBVIOUS
  <1>1. /\ logs = [n \in {2} |-> <<>>] /\ synced = [n \in {2} |-> 0]
        /\ tables = [n \in {1} |-> {}]
        /\ manifest = [base |-> Used, edits |-> <<>>]
        /\ state = [w \in Writes |-> "new"] /\ sequence = [w \in Writes |-> 0]
        /\ writers = <<>> /\ group = <<>> /\ step = "front" /\ db = "open"
        /\ mem = {} /\ imm = {} /\ versions = Used /\ logfile = 2
        /\ pending = {} /\ held = {} /\ todo = {}
        /\ bgError = FALSE /\ scheduled = FALSE
        /\ bg = "idle" /\ building = 0 /\ compact = NoCompact /\ edit = NoEdit
        /\ crashes = 0 /\ faults = 0 /\ reads = 0
    BY DEF Init
  <1>2. /\ DOMAIN logs = {2} /\ DOMAIN synced = {2} /\ logs[2] = <<>> /\ synced[2] = 0
        /\ DOMAIN tables = {1} /\ tables[1] = {}
    BY <1>1
  <1>3. /\ Used \in Versions /\ Used.l0 = {} /\ Used.deep = {1} /\ Used.log = 2
        /\ Used.last = 0 /\ Used.next = 3 /\ Files(Used) = {1}
    BY DEF Used, Versions, Files
  <1>4. Logged(<<>>) = {}
    BY DEF Logged
  <1>5. Content(tables, {1}) = {} /\ \A first : InLogs(logs, first) = {}
    <2>1. Content(tables, {1}) = {}
      BY <1>2 DEF Content
    <2>2. ASSUME NEW first PROVE InLogs(logs, first) = {}
      BY <1>2, <1>4, InLogsElem
    <2> QED BY <2>1, <2>2
  <1>6. manifest.base = Used /\ manifest.edits = <<>>
        /\ Led(manifest) = {Used} /\ Latest(manifest) = Used
    BY <1>1, LedOne
  <1>7. TypeOK
    <2>1. <<>> \in Seq(Seq(Writes)) /\ <<>> \in Seq(Records) /\ <<>> \in Seq(Writes)
          /\ Len(<<>>) = 0
      OBVIOUS
    <2>2. LogType(logs, synced) /\ TableType(tables)
      <3>1. ASSUME NEW n \in DOMAIN logs
            PROVE  n \in Nat /\ logs[n] \in Seq(Seq(Writes)) /\ synced[n] \in 0..Len(logs[n])
        <4>1. n = 2
          BY <1>2
        <4>2. n \in Nat
          BY <4>1
        <4>3. logs[n] = <<>> /\ synced[n] = 0
          BY <1>2, <4>1
        <4>4. 0 \in 0..0
          OBVIOUS
        <4> QED BY <2>1, <4>2, <4>3, <4>4
      <3>2. DOMAIN synced = DOMAIN logs
        BY <1>2
      <3>3. LogType(logs, synced)
        BY <3>1, <3>2 DEF LogType
      <3>4. ASSUME NEW n \in DOMAIN tables PROVE n \in Nat /\ tables[n] \subseteq Writes
        <4>1. n = 1
          BY <1>2
        <4>2. n \in Nat
          BY <4>1
        <4> QED BY <1>2, <4>1, <4>2
      <3>5. TableType(tables)
        BY <3>4 DEF TableType
      <3> QED BY <3>3, <3>5
    <2>3. manifest \in ManifestType
      <3>1. manifest \in ManifestType
        BY <1>1, <1>3, <2>1 DEF ManifestType
      <3> QED BY <1>6, <2>1, <3>1
    <2>4. CallType
      BY <1>1, <2>1 DEF CallType
    <2>5. OpenType
      BY <1>1, <1>3 DEF OpenType
    <2>6. NoEdit \in Edits /\ NoCompact \in [inputs : SUBSET Nat, out : Nat, done : BOOLEAN]
      BY DEF NoEdit, Edits, NoCompact
    <2>7. ThreadType /\ CountType
      BY <1>1, <2>6, BoundsAssumption DEF ThreadType, CountType
    <2> QED BY <2>2, <2>3, <2>4, <2>5, <2>7, Types
  <1>8. Quiet /\ Recovering
    BY <1>1 DEF Quiet, Recovering
  <1>9. Queued
    <2>1. Range(writers) = {} /\ DOMAIN writers = {}
      BY <1>1 DEF Range
    <2>2. \A w \in Writes : state[w] # "queued"
      BY <1>1
    <2> QED BY <1>1, <2>1, <2>2 DEF Queued, Grouped, Logging
  <1>10. Numbers
    BY <1>1, <1>2, <1>3 DEF Numbers
  <1>11. Manifested
    <2>1. Version(Used)
      BY <1>2, <1>3, <1>5 DEF Version
    <2>2. Flushed = {}
      BY <1>1, <1>3, <1>5 DEF Flushed
    <2>3. OpenVersion(Used)
      BY <1>1, <1>3, <2>2 DEF OpenVersion
    <2>4. Ahead(Used)
      BY <1>1, <1>3 DEF Ahead
    <2> QED BY <1>1, <1>6, <2>1, <2>3, <2>4 DEF Manifested
  <1>12. Clean
    BY <1>1, <1>6 DEF Clean, SameFiles
  <1>13. Merging /\ Flushing /\ Editing
    BY <1>1 DEF Merging, Flushing, Editing, Recording, NoCompact
  <1>14. Memory
    BY <1>1 DEF Memory, Acked
  <1>15. Live = {}
    <2>1. InLogs(logs, 0) = {}
      BY <1>5
    <2>2. Content(tables, Files(versions)) = {}
      BY <1>1, <1>3, <1>5
    <2>3. UNION {Content(tables, Files(v)) : v \in Led(manifest)} = {}
      <3>1. \A v \in Led(manifest) : v = Used
        BY <1>6
      <3>2. Content(tables, Files(Used)) = {}
        BY <1>3, <1>5
      <3>3. \A v \in Led(manifest) : Content(tables, Files(v)) = {}
        BY <3>1, <3>2
      <3>4. ASSUME NEW w \in UNION {Content(tables, Files(v)) : v \in Led(manifest)} PROVE FALSE
        <4>1. PICK v \in Led(manifest) : w \in Content(tables, Files(v))
          BY <3>4
        <4>2. Content(tables, Files(v)) = {}
          BY <3>3
        <4> QED BY <4>1, <4>2
      <3> QED BY <3>4
    <2> QED BY <1>1, <2>1, <2>2, <2>3 DEF Live
  <1>16. Stored
    BY <1>1, <1>2, <1>5 DEF Stored
  <1>17. Sequenced
    <2>1. \E b \in Nat : \A w \in Writes : sequence[w] <= b
      <3>1. \A w \in Writes : sequence[w] <= 0
        BY <1>1
      <3> QED BY <3>1
    <2> QED BY <1>15, <2>1 DEF Sequenced
  <1> QED BY <1>7, <1>8, <1>9, <1>10, <1>11, <1>12, <1>13, <1>14, <1>16, <1>17 DEF IInv

\* Steps of other parts of the system change nothing.
LEMMA Stutter ==
    ASSUME IInv, UNCHANGED vars
    PROVE  IInv'
  <1>1. /\ UNCHANGED <<logs, synced, tables, manifest, state, sequence, writers, group,
                       step, db, mem, imm, versions, logfile, pending, held, bgError,
                       scheduled, bg, building, compact, edit, todo, crashes, faults, reads>>
    BY DEF vars, disk, calls, thread, counts
  <1>2. CASE db = "open"
    <2>1. CountType'
      BY <1>1, Types DEF IInv, CountType
    <2> QED BY <1>1, <1>2, <2>1, StepReader DEF disk, calls, thread, IInv, Numbers
  <1>3. CASE db # "open"
    <2>1. TypeOK'
      BY <1>1 DEF IInv, TypeOK
    <2>2. UNCHANGED <<Acked, Live>>
      BY <1>1 DEF Acked, Live
    <2>3. Manifested'
      BY <1>1, <1>3, ClosedManifested
    <2>4. Quiet' /\ Numbers' /\ Stored' /\ Recovering'
      BY <1>1 DEF IInv, Quiet, Numbers, Stored, Logging, Recovering
    <2>5. Queued' /\ Clean' /\ Merging' /\ Flushing' /\ Editing' /\ Memory'
      BY <1>1, <1>3, ClosedFrame DEF calls
    <2>6. Sequenced'
      BY <1>1, <1>3, <2>2, ClosedSequenced
    <2> QED BY <2>1, <2>3, <2>4, <2>5, <2>6 DEF IInv
  <1> QED BY <1>2, <1>3

\* Every step preserves the invariant.
LEMMA StepIInv == IInv /\ [Next]_vars => IInv'
  <1> SUFFICES ASSUME IInv, [Next]_vars
               PROVE  IInv'
    OBVIOUS
  <1>1. CASE \E w \in Writes : Write(w)
    BY <1>1, StepWrite
  <1>2. CASE caller
    BY <1>2, StepRefused, StepWait, StepSwitch, StepGroup, StepAddRecord, StepSync,
       StepInsert DEF caller
  <1>3. CASE background
    BY <1>3, StepNoWork, StepCompactMemTable, StepBuildTable, StepPickCompaction,
       StepOpenOutput, StepFinishOutput, StepInstallResults, StepLogEdit,
       StepInstallEdit DEF background
  <1>4. CASE RefVersion \/ UnrefVersion
    BY <1>4, StepRefVersion, StepUnrefVersion
  <1>5. CASE open
    BY <1>5, StepRecover, StepRecoverLogFile, StepNewLogAtOpen, StepOpened DEF open
  <1>6. CASE failure
    BY <1>6, StepRefused, StepAddRecordFails, StepSyncFails, StepBuildTableFails,
       StepCompactionFails, StepLogEditFails, StepOpenFails, StepProcessCrash,
       StepMachineCrash DEF failure
  <1>7. CASE UNCHANGED vars
    BY <1>7, Stutter
  <1> QED BY <1>1, <1>2, <1>3, <1>4, <1>5, <1>6, <1>7 DEF Next

\* In every reachable state the queue, the memtables, the logs, the tables, the
\* manifest and the background thread fit together as IInv says.
THEOREM StoreInvariant == Spec => []IInv
  <1>1. Init => IInv
    BY InitIInv
  <1>2. IInv /\ [Next]_vars => IInv'
    BY StepIInv
  <1> QED BY <1>1, <1>2, PTL DEF Spec

\* Every variable of the store keeps its type, for any number of writes, crashes,
\* faults and readers.
THEOREM StoreTypeCorrect == Spec => []TypeOK
  <1>1. IInv => TypeOK
    BY DEF IInv
  <1> QED BY <1>1, StoreInvariant, PTL

\* The manifests of the properties lead to versions on disk.
LEMMA WrittenLed ==
    ASSUME IInv
    PROVE  /\ \A k \in 0..Len(manifest.edits) : Recovered(manifest, k) \in Led(manifest)
           /\ \A k \in Written : Recovered(manifest, k) \in Led(manifest)
  <1>1. manifest.edits \in Seq(Records)
    BY Types DEF IInv, ManifestType
  <1>2. Written \subseteq 0..Len(manifest.edits)
    BY <1>1, EndsLeast DEF Written
  <1>3. \A k \in 0..Len(manifest.edits) : Recovered(manifest, k) \in Led(manifest)
    BY DEF Led
  <1> QED BY <1>2, <1>3

\* DB::Open finds what the tables of the version hold and what is sure to be
\* found in the logs from its number on.
LEMMA FoundContent ==
    ASSUME NEW v, NEW upto, NEW w
    PROVE  /\ w \in Content(tables, Files(v)) => w \in Found(v, upto)
           /\ \A n \in DOMAIN logs :
                  n >= v.log /\ w \in Logged(SubSeq(logs[n], 1, upto[n])) \
                                      Behind(SubSeq(logs[n], 1, upto[n]))
                      => w \in Found(v, upto)
  <1>1. ASSUME w \in Content(tables, Files(v)) PROVE w \in Found(v, upto)
    <2>1. PICK n \in Files(v) : n \in DOMAIN tables /\ w \in tables[n]
      BY <1>1, ContentElem
    <2> QED BY <2>1 DEF Found
  <1>2. ASSUME NEW n \in DOMAIN logs, n >= v.log,
               w \in Logged(SubSeq(logs[n], 1, upto[n])) \ Behind(SubSeq(logs[n], 1, upto[n]))
        PROVE  w \in Found(v, upto)
    <2> DEFINE K == {k \in DOMAIN logs : k >= v.log}
               sure(k) == Logged(SubSeq(logs[k], 1, upto[k])) \
                              Behind(SubSeq(logs[k], 1, upto[k]))
               S == UNION {sure(k) : k \in K}
               T == UNION {tables[k] : k \in Files(v) \cap DOMAIN tables}
    <2>1. Found(v, upto) = T \cup S
      BY Zenon DEF Found
    <2>2. n \in K /\ w \in sure(n)
      BY <1>2
    <2> HIDE DEF K, sure
    <2>3. w \in S
      BY <2>2
    <2> QED BY <2>1, <2>3
  <1> QED BY <1>1, <1>2

\* What the invariant says of synced writes.
LEMMA IInvSynced == IInv => SyncedDurable
  <1> SUFFICES ASSUME IInv, NEW k \in 0..Len(manifest.edits), NEW w \in SyncWrites,
                      state[w] = "ok", w \notin Hidden
               PROVE  w \in Found(Recovered(manifest, k), synced)
    BY DEF SyncedDurable
  <1> DEFINE v == Recovered(manifest, k)
  <1>1. v \in Led(manifest)
    BY WrittenLed
  <1> HIDE DEF v
  <1>2. w \in Acked \cap SyncWrites
    BY WritesAssumption DEF Acked
  <1>3. w \in Content(tables, Files(v)) \/ w \in InLogs(Safe(logs, synced), v.log)
    BY <1>1, <1>2, Covered
  <1>4. ASSUME w \in InLogs(Safe(logs, synced), v.log)
        PROVE  w \in Found(v, synced)
    <2>1. PICK n \in DOMAIN Safe(logs, synced) :
              n >= v.log /\ w \in Logged(Safe(logs, synced)[n])
      BY <1>4, InLogsElem
    <2>2. n \in DOMAIN logs /\ w \in Logged(SubSeq(logs[n], 1, synced[n]))
      BY <2>1 DEF Safe
    <2>3. logs[n] \in Seq(Seq(Writes)) /\ synced[n] \in 0..Len(logs[n])
      BY <2>2 DEF IInv, TypeOK
    <2>4. w \notin Behind(SubSeq(logs[n], 1, synced[n]))
      <3>1. Behind(SubSeq(logs[n], 1, synced[n])) \subseteq Behind(logs[n])
        BY <2>3, Prefix
      <3>2. w \notin Behind(logs[n])
        BY <2>2 DEF Hidden
      <3> QED BY <3>1, <3>2
    <2> QED BY <2>1, <2>2, <2>4, FoundContent
  <1> QED BY <1>3, <1>4, FoundContent DEF v

\* What it says of a crash of the process.
LEMMA IInvKept == IInv => AckedKept
  <1> DEFINE upto == [n \in DOMAIN logs |-> Len(logs[n])]
  <1> SUFFICES ASSUME IInv, NEW k \in Written,
                      NEW w \in Writes, state[w] = "ok", w \notin Hidden
               PROVE  w \in Found(Recovered(manifest, k), upto)
    BY DEF AckedKept
  <1> DEFINE v == Recovered(manifest, k)
  <1>1. v \in Led(manifest)
    BY WrittenLed
  <1>2. w \in Acked
    BY DEF Acked
  <1>3. w \in Content(tables, Files(v)) \/ w \in InLogs(logs, v.log)
    BY <1>1, <1>2, Covered
  <1>4. \A n \in DOMAIN logs : upto[n] = Len(logs[n])
    OBVIOUS
  <1> HIDE DEF upto, v
  <1>5. ASSUME w \in InLogs(logs, v.log)
        PROVE  w \in Found(v, upto)
    <2>1. PICK n \in DOMAIN logs : n >= v.log /\ w \in Logged(logs[n])
      BY <1>5, InLogsElem
    <2>2. logs[n] \in Seq(Seq(Writes))
      BY DEF IInv, TypeOK
    <2>3. SubSeq(logs[n], 1, upto[n]) = logs[n]
      BY <1>4, <2>2, WholePrefix
    <2>4. w \notin Behind(logs[n])
      BY DEF Hidden
    <2> QED BY <2>1, <2>3, <2>4, FoundContent
  <1> QED BY <1>3, <1>5, FoundContent DEF v

\* What it says of reads.
LEMMA IInvVisible == IInv => AckedVisible
  <1> SUFFICES ASSUME IInv, db = "open"
               PROVE  AckedVisible
    BY DEF AckedVisible
  <1>1. Visible = mem \cup imm \cup Content(tables, Files(versions))
    BY DEF Visible, Content
  <1>2. {w \in Writes : state[w] = "ok"} \subseteq Visible
    BY <1>1 DEF IInv, Memory, Acked
  <1>3. \A w \in Visible : sequence[w] <= versions.last /\ w \in Live
    BY <1>1, ReadNumbered
  <1>4. \A v, w \in Visible : v # w => sequence[v] # sequence[w]
    BY <1>3 DEF IInv, Sequenced
  <1> QED BY <1>2, <1>3, <1>4 DEF AckedVisible

\* What it says of files.
LEMMA IInvNeeded == IInv => NeededExist
  <1> SUFFICES ASSUME IInv
               PROVE  NeededExist
    OBVIOUS
  <1>1. \A k \in 0..Len(manifest.edits) :
            Files(Recovered(manifest, k)) \subseteq DOMAIN tables
    BY WrittenLed, LedFields
  <1>2. held \subseteq DOMAIN tables /\ (bgError => faults > 0)
    BY DEF IInv, Numbers
  <1>3. db = "open" => Files(versions) \subseteq DOMAIN tables /\ logfile \in DOMAIN logs
    BY DEF IInv, Numbers
  <1> QED BY <1>1, <1>2, <1>3 DEF NeededExist

\* A write that asked for sync and was acknowledged is found again after the
\* machine goes down, at whatever moment of a group commit, a switch of
\* memtables, a compaction, a write of the manifest or an earlier recovery:
\* a synced part of a live log or a table of every version that CURRENT may lead
\* to holds it, unless an append to that log failed before the write was logged.
THEOREM SyncedWritesDurable == Spec => []SyncedDurable
  BY StoreInvariant, IInvSynced, PTL

\* No acknowledged write is lost when the process ends, with or without sync,
\* unless an append to its log failed before and so may hide it from log::Reader.
THEOREM AcknowledgedKept == Spec => []AckedKept
  BY StoreInvariant, IInvKept, PTL

\* The open database shows every acknowledged write, but for those that a crash
\* may have cost (not synced, or behind a failed append to their log), and no two
\* writes that it shows share a sequence number, whatever crashes and recoveries
\* came before.
THEOREM AcknowledgedVisible == Spec => []AckedVisible
  BY StoreInvariant, IInvVisible, PTL

\* DeleteObsoleteFiles never takes a file that a reader, the current version or a
\* version CURRENT may lead to needs, and the background thread stops only after
\* a failing file operation.
THEOREM NeededFilesExist == Spec => []NeededExist
  BY StoreInvariant, IInvNeeded, PTL

=============================================================================
