----------------------------- MODULE Snapshots -----------------------------
(***************************************************************************)
(* Snapshots of the tree: flush and compaction commits, the installed      *)
(* version, level reservations, reader pins, deferred deletion and restart *)
(* (engine/flush.rs, engine/compaction/job.rs, engine/engine.rs,           *)
(* engine/background.rs, iceberg/catalog.rs, iceberg/version.rs).          *)
(*                                                                         *)
(* The write path is reduced to what WriteFlush establishes of it: the log *)
(* is the sequence of writes, the memtables hold a suffix of it, a flush   *)
(* writes the oldest part of that suffix, and a restart replays a suffix   *)
(* that starts no later than the first record no file holds.               *)
(*                                                                         *)
(* A commit is one step: commit_lock is held throughout, and what other    *)
(* tasks do meanwhile (install, pin, delete) commutes with it.  A job      *)
(* installs its version after it has released commit_lock.                 *)
(***************************************************************************)
EXTENDS LsmFiles, Sequences

CONSTANTS
    TableKeys,      \* primary keys, integers
    Ops,            \* the kinds of write, a subset of {"put", "del"}
    Compactors,     \* compaction_parallelism workers
    Readers,        \* tasks that hold a SnapshotPin
    JobsOverlap,    \* may a job commit between another job's pick and its enqueue?
    Grace,          \* is gc_grace_period_secs more than 0?
    PromptInstall,  \* is a committed version installed before the next commit?
    MaxFail,        \* bound: number of failed compactions and sweeps
    MaxSeq,         \* bound: number of writes
    MaxCrash        \* bound: number of crashes

ASSUME ModelAssumption ==
    /\ TableKeys \subseteq Int /\ Ops \subseteq {"put", "del"}
    /\ JobsOverlap \in BOOLEAN /\ Grace \in BOOLEAN /\ PromptInstall \in BOOLEAN
    /\ MaxFail \in Nat /\ MaxSeq \in Nat /\ MaxCrash \in Nat

VARIABLES
    log,        \* the writes: the i-th has sequence number i
    dropped,    \* writes up to this one are in no memtable
    recovered,  \* Len(log) at the last open: recovery fills one memtable
    manifest,   \* the catalog's current manifest, as a version
    installed,  \* VersionSet::current
    flush,      \* the flush job: [pc, upto, version]
    jobs,       \* the compaction job of each worker
    pins,       \* the version each reader has pinned
    pending,    \* pending_deletions: [ids, after], the files of one job together
    disk,       \* ids of the data files on disk
    next_id,    \* a file id never used before
    committed,  \* history: writes up to this one are in a committed file
    fails,
    crashes

vars == <<log, dropped, recovered, manifest, installed, flush, jobs, pins,
          pending, disk, next_id, committed, fails, crashes>>

Unpinned == [snap |-> -1, files |-> {}]

Empty == [snap |-> 0, files |-> {}]

NoFlush == [pc |-> "idle", upto |-> 0, version |-> Empty]

NoJob == [pc |-> "idle", level |-> -1, after |-> 0, sources |-> {}, removes |-> {},
          out |-> {}, version |-> Empty, pinned |-> {}]

----------------------------------------------------------------------------
Rows(from, to) == {[key |-> log[i].key, seq |-> i, op |-> log[i].op] : i \in from..to}

InMemory == Rows(dropped + 1, Len(log))

\* Memtable::iter: the latest version of each key.
Deduped(rows) == UNION {Newest({r \in rows : r.key = k}) : k \in {r.key : r \in rows}}

Picked(c) == jobs[c].level >= 0

Busy == UNION {{jobs[c].level, jobs[c].level + 1} : c \in {d \in Compactors : Picked(d)}}

Installing == flush.pc = "install" \/ \E c \in Compactors : jobs[c].pc = "install"

CanCommit == PromptInstall => ~Installing

Quiet == flush.pc = "idle" /\ \A c \in Compactors : ~Picked(c)

MinPinned == {p \in {pins[r].snap : r \in Readers} \ {Unpinned.snap} :
                 \A r \in Readers : pins[r] = Unpinned \/ p <= pins[r].snap}

----------------------------------------------------------------------------
Init ==
    /\ log = <<>> /\ dropped = 0 /\ recovered = 0
    /\ manifest = Empty /\ installed = Empty
    /\ flush = NoFlush
    /\ jobs = [c \in Compactors |-> NoJob]
    /\ pins = [r \in Readers |-> Unpinned]
    /\ pending = {} /\ disk = {} /\ next_id = 1
    /\ committed = 0 /\ fails = 0 /\ crashes = 0

Write ==
    /\ Len(log) < MaxSeq
    /\ \E k \in TableKeys, op \in Ops : log' = Append(log, [key |-> k, op |-> op])
    /\ UNCHANGED <<dropped, recovered, manifest, installed, flush, jobs, pins,
                   pending, disk, next_id, committed, fails, crashes>>

(* Flush: the oldest sealed memtable becomes an L0 file.                    *)

\* Mutant: the last key of the memtable is left out of its range.
OverlapsBelow(f, ks) == KeyMin(f) < Max(ks) /\ KeyMax(f) >= Min(ks)

\* file_overlaps_memtable.
Overlaps(f, ks) == KeyMin(f) <= Max(ks) /\ KeyMax(f) >= Min(ks)

\* resolve_dv_for_flush opens the files of the installed version that meet the
\* key range of the memtable and are not marked in full.
ResolvedFiles(ks) ==
    {f \in installed.files : Overlaps(f, ks) /\ f.dv # f.rows}

FlushMarks(ks) ==
    [id \in {f.id : f \in ResolvedFiles(ks)} |->
        UNION {ResolveDv(f, ks) : f \in {g \in installed.files : g.id = id}}]

FlushCommit ==
    /\ flush.pc = "idle" /\ CanCommit
    /\ JobsOverlap \/ Quiet
    /\ \E upto \in Max({dropped + 1, recovered})..Len(log) :
         LET rows == Deduped(Rows(dropped + 1, upto))
             ks == {r.key : r \in rows}
             file == [id |-> next_id, level |-> 0, rows |-> rows, dv |-> {}]
             next == Apply(manifest, {file}, {}, FlushMarks(ks))
         IN /\ \A f \in ResolvedFiles(ks) : f.id \in disk
            /\ manifest' = next
            /\ flush' = [pc |-> "install", upto |-> upto, version |-> next]
            /\ committed' = upto
    /\ disk' = disk \cup {next_id} /\ next_id' = next_id + 1
    /\ UNCHANGED <<log, dropped, recovered, installed, jobs, pins, pending, fails, crashes>>

FlushInstall ==
    /\ flush.pc = "install"
    /\ installed' = flush.version
    /\ flush' = [flush EXCEPT !.pc = "drop", !.version = Empty]
    /\ UNCHANGED <<log, dropped, recovered, manifest, jobs, pins, pending, disk,
                   next_id, committed, fails, crashes>>

\* mark_flushed_seq and drop_flushed.
FlushDrop ==
    /\ flush.pc = "drop"
    /\ dropped' = flush.upto
    /\ flush' = NoFlush
    /\ UNCHANGED <<log, recovered, manifest, installed, jobs, pins, pending, disk,
                   next_id, committed, fails, crashes>>

(* Compaction: run_one_compaction_job of worker c.                          *)

\* reserve_next_compaction, under the lock of compacting_levels.
CompactPick(c) ==
    /\ jobs[c].pc = "idle"
    /\ JobsOverlap \/ Quiet
    /\ \E l \in PickLevel(installed, Busy) :
         LET inputs == PickInputs(installed, l)
             sources == inputs \cup PullIns(installed, l, inputs)
         IN /\ inputs # {}
            /\ jobs' = [jobs EXCEPT ![c] =
                 [NoJob EXCEPT !.pc = "merge", !.level = l, !.after = installed.snap,
                               !.sources = sources, !.removes = {f.id : f \in sources}]]
    /\ UNCHANGED <<log, dropped, recovered, manifest, installed, flush, pins,
                   pending, disk, next_id, committed, fails, crashes>>

CompactMerge(c) ==
    /\ jobs[c].pc = "merge"
    /\ \A f \in jobs[c].sources : f.id \in disk
    /\ LET out == jobs[c].level + 1
           rows == MergeRows(jobs[c].sources, Len(log), out)
           files == OutputFiles(rows, out, next_id)
       IN /\ jobs' = [jobs EXCEPT ![c].pc = "commit", ![c].out = files, ![c].sources = {}]
          /\ disk' = disk \cup {f.id : f \in files}
          /\ next_id' = next_id + Cardinality(rows)
    /\ UNCHANGED <<log, dropped, recovered, manifest, installed, flush, pins,
                   pending, committed, fails, crashes>>

\* LevelReservation::drop at the end of a job.
Ended(c) == NoJob

\* A read, write or commit error, or a source file that is gone: the job ends,
\* its reservation is released and its output files stay behind.
CompactFail(c) ==
    /\ jobs[c].pc \in {"merge", "commit"}
    /\ \/ fails < MaxFail /\ fails' = fails + 1
       \/ (\E f \in jobs[c].sources : f.id \notin disk) /\ UNCHANGED fails
    /\ jobs' = [jobs EXCEPT ![c] = Ended(c)]
    /\ UNCHANGED <<log, dropped, recovered, manifest, installed, flush, pins,
                   pending, disk, next_id, committed, crashes>>

CompactCommit(c) ==
    /\ jobs[c].pc = "commit" /\ CanCommit
    /\ LET next == Apply(manifest, jobs[c].out, jobs[c].removes, <<>>)
       IN /\ manifest' = next
          /\ jobs' = [jobs EXCEPT ![c].pc = "install", ![c].version = next, ![c].out = {}]
    /\ UNCHANGED <<log, dropped, recovered, installed, flush, pins, pending, disk,
                   next_id, committed, fails, crashes>>

CompactInstall(c) ==
    /\ jobs[c].pc = "install"
    /\ installed' = jobs[c].version
    /\ jobs' = [jobs EXCEPT ![c].pc = "enqueue", ![c].version = Empty]
    /\ UNCHANGED <<log, dropped, recovered, manifest, flush, pins, pending, disk,
                   next_id, committed, fails, crashes>>

\* Mutant: nothing is queued.
ForgetObsolete(c) ==
    /\ jobs[c].pc = "enqueue"
    /\ jobs' = [jobs EXCEPT ![c].pc = "gc", ![c].removes = {}, ![c].after = 0]
    /\ UNCHANGED <<log, dropped, recovered, manifest, installed, flush, pins, pending,
                   disk, next_id, committed, fails, crashes>>

\* enqueue_for_deletion, with the snapshot the job was picked from.
CompactEnqueue(c) ==
    /\ jobs[c].pc = "enqueue"
    /\ pending' = pending \cup {[ids |-> jobs[c].removes, after |-> jobs[c].after]}
    /\ jobs' = [jobs EXCEPT ![c].pc = "gc", ![c].removes = {}, ![c].after = 0]
    /\ UNCHANGED <<log, dropped, recovered, manifest, installed, flush, pins, disk,
                   next_id, committed, fails, crashes>>

(* gc_pending_deletions: at the end of a job and on every heartbeat of a    *)
(* worker.  The watermark is read before the lock on the list is taken.  A  *)
(* sweep of an empty list changes nothing, and the order of the watermark   *)
(* and the lock matters only where pins come and go.                        *)
GcMark(c) ==
    /\ jobs[c].pc \in {"idle", "gc"}
    /\ pending # {} \/ (Readers # {} /\ Compactors # {c})
    /\ jobs' = [jobs EXCEPT ![c].pc = "sweep", ![c].pinned = MinPinned]
    /\ UNCHANGED <<log, dropped, recovered, manifest, installed, flush, pins,
                   pending, disk, next_id, committed, fails, crashes>>

PinnedBefore(e, pinned) == \E p \in pinned : p < e.after  \* mutant: off by one
StillPinned(e, pinned) == \E p \in pinned : p <= e.after

\* The files in "old" are past gc_grace_period_secs.  A file whose unlink fails
\* is not queued again.
GcSweepOf(c, old) ==
    LET gone == {e \in old : ~StillPinned(e, jobs[c].pinned)}
        ids == UNION {e.ids : e \in gone}
    IN /\ jobs[c].pc = "sweep"
       /\ pending' = pending \ gone
       /\ \E failed \in IF fails < MaxFail THEN SUBSET ids ELSE {{}} :
             /\ disk' = disk \ (ids \ failed)
             /\ fails' = IF failed = {} THEN fails ELSE fails + 1
       /\ jobs' = [jobs EXCEPT ![c] = Ended(c)]
       /\ UNCHANGED <<log, dropped, recovered, manifest, installed, flush, pins,
                      next_id, committed, crashes>>

GcSweep(c) == \E old \in IF Grace THEN SUBSET pending ELSE {pending} : GcSweepOf(c, old)

(* Readers.                                                                 *)

\* pin_current_snapshot, under the lock on live_snapshots.
Pin(r) ==
    /\ pins[r] = Unpinned
    /\ pins' = [pins EXCEPT ![r] = installed]
    /\ UNCHANGED <<log, dropped, recovered, manifest, installed, flush, jobs,
                   pending, disk, next_id, committed, fails, crashes>>

Unpin(r) ==
    /\ pins[r] # Unpinned
    /\ pins' = [pins EXCEPT ![r] = Unpinned]
    /\ UNCHANGED <<log, dropped, recovered, manifest, installed, flush, jobs,
                   pending, disk, next_id, committed, fails, crashes>>

\* The WAL sweep has deleted no record that is still in a memtable.
RecoverFrom == 0..dropped

\* A crash and the open that follows: the version is the manifest's, the
\* list of deletions is gone, and the WAL brings back a suffix of the log.
CrashReopen ==
    /\ crashes < MaxCrash
    /\ \E n \in RecoverFrom : dropped' = n
    /\ recovered' = Len(log)
    /\ installed' = manifest
    /\ flush' = NoFlush
    /\ jobs' = [c \in Compactors |-> NoJob]
    /\ pins' = [r \in Readers |-> Unpinned]
    /\ pending' = {}
    /\ crashes' = crashes + 1
    /\ UNCHANGED <<log, manifest, disk, next_id, committed, fails>>

Compact(c) ==
    \/ CompactPick(c) \/ CompactMerge(c) \/ CompactFail(c) \/ CompactCommit(c)
    \/ CompactInstall(c) \/ CompactEnqueue(c) \/ GcMark(c) \/ GcSweep(c)

Next ==
    \/ Write
    \/ FlushCommit \/ FlushInstall \/ FlushDrop
    \/ \E c \in Compactors : Compact(c)
    \/ \E r \in Readers : Pin(r) \/ Unpin(r)
    \/ CrashReopen

Spec == Init /\ [][Next]_vars

\* Flush and compaction workers keep running and do not fail for ever, reads
\* end, and the grace period of a queued file elapses.
Fairness ==
    /\ WF_vars(FlushCommit) /\ WF_vars(FlushInstall) /\ WF_vars(FlushDrop)
    /\ \A c \in Compactors :
         /\ SF_vars(CompactPick(c)) /\ SF_vars(CompactMerge(c)) /\ SF_vars(CompactCommit(c))
         /\ WF_vars(CompactInstall(c)) /\ WF_vars(CompactEnqueue(c))
         /\ WF_vars(GcMark(c)) /\ SF_vars(GcSweepOf(c, pending))
    /\ \A r \in Readers : WF_vars(Unpin(r))

FairSpec == Spec /\ Fairness

----------------------------------------------------------------------------
Row == [key : Int, seq : Nat \ {0}, op : {"put", "del"}]
File == [id : Nat, level : Nat, rows : SUBSET Row, dv : SUBSET Row]
Version == [snap : Nat, files : SUBSET File]
Job == [pc : {"idle", "merge", "commit", "install", "enqueue", "gc", "sweep"},
        level : Nat \cup {-1}, after : Nat, sources : SUBSET File, removes : SUBSET Nat,
        out : SUBSET File, version : Version, pinned : SUBSET Nat]

\* The type of the state.
TypeOK ==
    /\ log \in Seq([key : TableKeys, op : Ops])
    /\ dropped \in 0..Len(log) /\ recovered \in 0..Len(log) /\ committed \in 0..Len(log)
    /\ manifest \in Version /\ installed \in Version
    /\ flush \in [pc : {"idle", "install", "drop"}, upto : 0..Len(log), version : Version]
    /\ jobs \in [Compactors -> Job] /\ \A c \in Compactors : jobs[c].level <= NumLevels
    /\ pins \in [Readers -> Version \cup {Unpinned}]
    /\ pending \subseteq [ids : SUBSET Nat, after : Nat]
    /\ disk \subseteq Nat /\ next_id \in Nat \ {0}
    /\ fails \in Nat /\ crashes \in Nat

Shown(rows) == {r \in rows : r.op = "put"}

\* The state of the table after the first n writes.
Table(n) == Shown(Deduped(Rows(1, n)))

\* A lookup that runs with no job in between (memtables, then the installed
\* version level by level: point_lookup) returns the last write of every key,
\* whatever was flushed, merged, split, dropped as a tombstone or replayed.
ReadsLatest ==
    \A k \in TableKeys :
        LET mem == Newest({r \in InMemory : r.key = k})
            found == IF mem # {} THEN mem ELSE PointGet(installed, k, Len(log))
        IN Shown(found) = {r \in Table(Len(log)) : r.key = k}

\* Below L0 no two files of a level have keys in common, which is what the
\* binary search of find_file_for_key needs.
LevelsDisjoint ==
    \A f, g \in manifest.files :
        f # g /\ f.level = g.level /\ f.level > 0 =>
            KeyMax(f) < KeyMin(g) \/ KeyMax(g) < KeyMin(f)

\* No file of the current manifest or of the installed version has been
\* deleted by gc_pending_deletions.
CurrentFilesOnDisk == \A f \in manifest.files \cup installed.files : f.id \in disk

\* No file of a version that a reader has pinned (pin_current_snapshot) is
\* deleted before the pin is dropped.
PinnedFilesOnDisk == \A r \in Readers : \A f \in pins[r].files : f.id \in disk

\* In every snapshot the deletion vectors leave at most one row of a key
\* visible to an external reader (flush-time deletion vectors).
OneRowPerKey ==
    \A f, g \in manifest.files : \A r \in Live(f), s \in Live(g) :
        r.key = s.key => f = g /\ r = s

\* What an external reader sees of a snapshot is the table after a prefix of
\* the writes: exactly the ones flushed so far.
SnapshotExact ==
    Shown(UNION {Live(f) : f \in manifest.files}) = Table(committed)

\* open() continues the numbers from the highest one in the WAL or in a live
\* file (iceberg_max_seq).  Whatever a flush marked and a compaction dropped,
\* tombstones included, the last number handed out is still in one of them when
\* the WAL has been swept up to the last flush, so no number is used twice.
CounterKept ==
    \/ Len(log) \in {0} \cup committed + 1..Len(log)
    \/ \E f \in manifest.files : Len(log) \in Seqs(f)

L0Full == Cardinality(FilesAt(manifest, 0)) >= L0Trigger
NothingObsolete == disk = {f.id : f \in manifest.files}

\* Once L0 holds l0_compaction_trigger files a compaction brings it below that
\* again: no reservation, failure or other level keeps the picker away for ever.
L0Drains == L0Full ~> ~L0Full

\* When the writes end, the files left on disk are those of the manifest:
\* every file a compaction replaced is deleted (gc_pending_deletions).
Reclaimed == <>[]NothingObsolete

============================================================================
