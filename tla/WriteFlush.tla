---------------------------- MODULE WriteFlush ----------------------------
(***************************************************************************)
(* The write path of the merutable engine: sequence allocation, the WAL,   *)
(* the memtable queue, the flush job, WAL garbage collection, shutdown and *)
(* crash recovery (engine/engine.rs, engine/write_path.rs,                 *)
(* engine/flush.rs, wal/manager.rs, memtable/manager.rs,                   *)
(* memtable/memtable.rs).                                                  *)
(*                                                                         *)
(* A record is its sequence number: what a record says is irrelevant to    *)
(* whether it survives.  Sizes are counted in records.  The L0 level and   *)
(* its commit protocol are abstracted to the set of records the catalog    *)
(* has committed.                                                          *)
(*                                                                         *)
(* Three locks order the steps: the WAL mutex (the whole of a write from   *)
(* allocation to visibility, a WAL rotation, a WAL sweep), rotation_lock   *)
(* (from reading global_seq to the end of the WAL rotation) and            *)
(* flush_mutex (a flush job).  Sealing the memtable takes only the lock of *)
(* the memtable set, so it can happen in the middle of a write.            *)
(***************************************************************************)
EXTENDS Integers, FiniteSets

CONSTANTS
    Writers,         \* tasks calling put / delete / put_batch
    Admins,          \* tasks calling flush() and close()
    FlushThreshold,  \* memtable_size_bytes, in records
    MaxBatch,        \* most records of one WriteBatch
    MaxImmutable,    \* max_immutable_count
    ConcurrentAdmin, \* may flush() and close() overlap writes?
    ManualFlush,     \* does the application call flush() at all?
    IOErrors,        \* may a WAL append, a WAL rotation, a commit or an unlink fail?
    TornAppends,     \* may a failed append leave part of its record in the file?
    MaxSeq,          \* bound: no write allocates past this number
    MaxLog,          \* bound: no flush() rotates past this log
    MaxCrash         \* bound: number of crashes

ASSUME ProcsAssumption ==
    /\ IsFiniteSet(Writers) /\ IsFiniteSet(Admins)
    /\ Writers \cap Admins = {}

ASSUME SizesAssumption ==
    /\ FlushThreshold \in Nat \ {0}
    /\ MaxBatch \in Nat \ {0}
    /\ MaxImmutable \in Nat \ {0}
    /\ MaxSeq \in Nat /\ MaxLog \in Nat /\ MaxCrash \in Nat

ASSUME ModesAssumption ==
    /\ ConcurrentAdmin \in BOOLEAN /\ ManualFlush \in BOOLEAN
    /\ IOErrors \in BOOLEAN /\ TornAppends \in BOOLEAN

VARIABLES
    \* durable state
    logs,         \* WAL files on disk: log number -> records recovery can read
    flushed,      \* records in the L0 files of the committed manifest
    \* the engine, lost by a crash
    up,           \* is the engine open?
    closed,       \* MeruEngine.closed
    global_seq,   \* next number to allocate
    visible_seq,  \* highest number readers see
    active,       \* the active memtable
    immutable,    \* the queue of sealed memtables, ordered by gen
    installed,    \* records in the files of VersionSet.current
    log_number,   \* the log being written
    log_max,      \* current_log_max_seq
    log_torn,     \* is there an unreadable record in the current log?
    closed_logs,  \* candidates for WAL garbage collection
    \* the tasks
    pc,           \* where each task is
    batch,        \* the numbers a writer has allocated
    next_seq,     \* what the holder of rotation_lock read from global_seq
    fphase,       \* where the holder of flush_mutex is
    fmem,         \* the memtable it flushes
    to_delete,    \* logs a WAL sweep has still to unlink
    \* history
    acked,        \* records whose write has completed
    crashes

durable == <<logs, flushed>>
engine  == <<closed, global_seq, visible_seq, active, immutable, installed>>
wal     == <<log_number, log_max, log_torn, closed_logs>>
flusher == <<fphase, fmem, to_delete>>
tasks   == <<pc, batch, next_seq>>
history == <<acked, crashes>>
vars    == <<durable, up, engine, wal, flusher, tasks, history>>

-----------------------------------------------------------------------------
Procs == Writers \cup Admins

(* Memtable::new: last_seq starts at first_seq, although no record has it. *)
NewMemtable(g, first) == [gen |-> g, first |-> first, last |-> first, recs |-> {}]

(* Memtable::apply_batch of the records lo..hi. *)
ApplyTo(m, lo, hi) ==
    [m EXCEPT !.recs = @ \cup (lo .. hi), !.last = IF hi > @ THEN hi ELSE @]

(* Memtable::should_flush *)
ShouldFlush(m) == Cardinality(m.recs) >= FlushThreshold

(* MemtableManager::should_stall *)
ShouldStall == Cardinality(immutable) >= MaxImmutable

InWal == UNION {logs[l] : l \in DOMAIN logs}

(* What a restart would find. *)
Recoverable == flushed \cup InWal

(* The numbers recovery sees: replay and the files of the manifest. *)
SeenInWal == InWal \cup {0}  \* mutant: the manifest's max_seq forgotten
SeenNumbers == Recoverable \cup {0}

(* What a reader of the running engine finds. *)
Readable == installed \cup active.recs \cup UNION {m.recs : m \in immutable}

(* The WAL mutex is held from allocation to visibility, and by a sweep. *)
NumberedOutsideLock == fphase # "gc"  \* mutant: writes do not hold it
WalLockFree ==
    /\ \A w \in Writers : pc[w] \notin {"allocated", "appended"}
    /\ fphase # "gc"

NoRotationLock == TRUE  \* mutant
RotationLockFree == \A p \in Procs : pc[p] \notin {"rotating", "sealed"}

(* The application's discipline: either it lets flush() and close() overlap *)
(* writes, or it calls them between writes and waits for them to return.    *)
MayWrite == ConcurrentAdmin \/ \A a \in Admins : pc[a] = "idle"
MayAdmin == ConcurrentAdmin \/ \A w \in Writers : pc[w] = "idle"

-----------------------------------------------------------------------------
Init ==
    /\ logs = [l \in {1} |-> {}]
    /\ flushed = {} /\ installed = {}
    /\ up = TRUE /\ closed = FALSE
    /\ global_seq = 1 /\ visible_seq = 0
    /\ active = NewMemtable(0, 1) /\ immutable = {}
    /\ log_number = 1 /\ log_max = 0 /\ log_torn = FALSE /\ closed_logs = {}
    /\ pc = [p \in Procs |-> "idle"]
    /\ batch = [w \in Writers |-> [lo |-> 1, hi |-> 0]]
    /\ next_seq = 0
    /\ fphase = "idle" /\ fmem = NewMemtable(0, 0) /\ to_delete = {}
    /\ acked = {} /\ crashes = 0

-----------------------------------------------------------------------------
(* A write: put, delete or put_batch. *)

(* The closed check at the head of write_internal / apply_batch. *)
BeginWrite(w) ==
    /\ up /\ pc[w] = "idle" /\ ~closed /\ MayWrite
    /\ global_seq <= MaxSeq
    /\ pc' = [pc EXCEPT ![w] = "stalled"]
    /\ UNCHANGED <<durable, up, engine, wal, flusher, batch, next_seq, history>>

(* The writer leaves the wait on flush_complete once the queue has room. *)
PassStall(w) ==
    /\ up /\ pc[w] = "stalled" /\ ~ShouldStall
    /\ pc' = [pc EXCEPT ![w] = "ready"]
    /\ UNCHANGED <<durable, up, engine, wal, flusher, batch, next_seq, history>>

(* GlobalSeq::allocate_n: n consecutive numbers from the counter's old value. *)
BatchEndingAt(n) == [lo |-> global_seq - n, hi |-> global_seq - 1]  \* mutant: taken as the end
NextBatch(n) == [lo |-> global_seq, hi |-> global_seq + n - 1]

(* Take the WAL lock and reserve the numbers. *)
Allocate(w, n) ==
    /\ up /\ pc[w] = "ready" /\ WalLockFree
    /\ batch' = [batch EXCEPT ![w] = NextBatch(n)]
    /\ global_seq' = global_seq + n
    /\ pc' = [pc EXCEPT ![w] = "allocated"]
    /\ UNCHANGED <<durable, up, closed, visible_seq, active, immutable, installed,
                   wal, flusher, next_seq, history>>

(* WalManager::append: add_record and fsync.  Behind an unreadable record   *)
(* nothing of the file is recovered.                                        *)
Append(w) ==
    /\ up /\ pc[w] = "allocated"
    /\ logs' = IF log_torn THEN logs
               ELSE [logs EXCEPT ![log_number] = @ \cup (batch[w].lo .. batch[w].hi)]
    /\ log_max' = IF batch[w].hi > log_max THEN batch[w].hi ELSE log_max
    /\ pc' = [pc EXCEPT ![w] = "appended"]
    /\ UNCHANGED <<flushed, up, engine, log_number, log_torn, closed_logs, flusher,
                   batch, next_seq, history>>

(* append returns an error: nothing of the record, all of it (the fsync     *)
(* failed) or a part of it is in the file.  The write fails, its numbers    *)
(* are lost, and the log stays in use.                                      *)
AppendFails(w) ==
    /\ IOErrors
    /\ up /\ pc[w] = "allocated"
    /\ \/ UNCHANGED <<logs, log_torn>>
       \/ /\ ~log_torn /\ UNCHANGED log_torn
          /\ logs' = [logs EXCEPT ![log_number] = @ \cup (batch[w].lo .. batch[w].hi)]
       \/ TornAppends /\ log_torn' = TRUE /\ UNCHANGED logs
    /\ pc' = [pc EXCEPT ![w] = "idle"]
    /\ UNCHANGED <<flushed, up, engine, log_number, log_max, closed_logs, flusher,
                   batch, next_seq, history>>

(* Apply to whichever memtable is active now, publish, release the WAL lock. *)
Apply(w) ==
    /\ up /\ pc[w] = "appended"
    /\ active' = ApplyTo(active, batch[w].lo, batch[w].hi)
    /\ visible_seq' = IF batch[w].hi > visible_seq THEN batch[w].hi ELSE visible_seq
    /\ acked' = acked \cup (batch[w].lo .. batch[w].hi)
    /\ pc' = [pc EXCEPT ![w] = IF ShouldFlush(active') THEN "crossed" ELSE "idle"]
    /\ UNCHANGED <<durable, up, closed, global_seq, immutable, installed, wal, flusher,
                   batch, next_seq, crashes>>

(* The writer saw the threshold crossed: try_lock, re-check, read global_seq. *)
AutoRotate(w) ==
    /\ up /\ pc[w] = "crossed"
    /\ IF RotationLockFree /\ ShouldFlush(active)
       THEN next_seq' = global_seq + 1 /\ pc' = [pc EXCEPT ![w] = "rotating"]
       ELSE UNCHANGED next_seq /\ pc' = [pc EXCEPT ![w] = "idle"]
    /\ UNCHANGED <<durable, up, engine, wal, flusher, batch, history>>

-----------------------------------------------------------------------------
(* flush() and close() *)

(* flush() takes rotation_lock and rotates whatever the active memtable holds. *)
Flush(a) ==
    /\ ManualFlush
    /\ up /\ pc[a] = "idle" /\ ~closed /\ MayAdmin /\ RotationLockFree
    /\ log_number < MaxLog
    /\ next_seq' = global_seq + 1
    /\ pc' = [pc EXCEPT ![a] = "rotating"]
    /\ UNCHANGED <<durable, up, engine, wal, flusher, batch, history>>

(* close() sets the flag; a write past its check goes on. *)
Close(a) ==
    /\ up /\ pc[a] = "idle" /\ ~closed /\ MayAdmin
    /\ closed' = TRUE
    /\ pc' = [pc EXCEPT ![a] = "closing"]
    /\ UNCHANGED <<durable, up, global_seq, visible_seq, active, immutable, installed,
                   wal, flusher, batch, next_seq, history>>

(* close() rotates only a memtable that holds something. *)
CloseRotate(a) ==
    /\ up /\ pc[a] = "closing" /\ RotationLockFree
    /\ IF active.recs # {}
       THEN next_seq' = global_seq + 1 /\ pc' = [pc EXCEPT ![a] = "rotating"]
       ELSE UNCHANGED next_seq /\ pc' = [pc EXCEPT ![a] = "draining"]
    /\ UNCHANGED <<durable, up, engine, wal, flusher, batch, history>>

(* Mutant: close() does not wait for the queue. *)
DrainedEarly(a) ==
    /\ up /\ pc[a] = "draining"
    /\ pc' = [pc EXCEPT ![a] = "idle"]
    /\ UNCHANGED <<durable, up, engine, wal, flusher, batch, next_seq, history>>

(* The loop over run_flush ends when the queue is empty.  close() then syncs *)
(* the log, which changes nothing: every append was synced.                  *)
Drained(a) ==
    /\ up /\ pc[a] = "draining" /\ immutable = {}
    /\ pc' = [pc EXCEPT ![a] = "idle"]
    /\ UNCHANGED <<durable, up, engine, wal, flusher, batch, next_seq, history>>

(* A run_flush that flush() or close() called itself fails before its commit *)
(* and the call returns the error; closed stays set.                         *)
DrainFails(a) ==
    /\ IOErrors
    /\ up /\ pc[a] = "draining" /\ fphase = "writing"
    /\ fphase' = "idle"
    /\ pc' = [pc EXCEPT ![a] = "idle"]
    /\ UNCHANGED <<durable, up, engine, wal, fmem, to_delete, batch, next_seq, history>>

-----------------------------------------------------------------------------
(* Rotation, by the holder of rotation_lock: the memtable, then the WAL. *)

(* MemtableManager::rotate.  No WAL lock: a write may be between its         *)
(* allocation and its apply.                                                 *)
RotateMemtable(p) ==
    /\ up /\ pc[p] = "rotating"
    /\ immutable' = immutable \cup {active}
    /\ active' = NewMemtable(active.gen + 1, next_seq)
    /\ pc' = [pc EXCEPT ![p] = "sealed"]
    /\ UNCHANGED <<durable, up, closed, global_seq, visible_seq, installed, wal, flusher,
                   batch, next_seq, history>>

AfterRotate(p) == [pc EXCEPT ![p] = IF p \in Writers THEN "idle" ELSE "draining"]

(* WalManager::rotate.  pos is the place in the closed_logs vector.          *)
RotateWal(p) ==
    /\ up /\ pc[p] = "sealed" /\ WalLockFree
    /\ closed_logs' = closed_logs \cup
           {[log |-> log_number, max |-> log_max, pos |-> 2 * log_number + 1]}
    /\ log_number' = log_number + 1
    /\ logs' = [l \in DOMAIN logs \cup {log_number'} |->
                   IF l = log_number' THEN {} ELSE logs[l]]
    /\ log_max' = 0
    /\ log_torn' = FALSE
    /\ pc' = AfterRotate(p)
    /\ UNCHANGED <<flushed, up, engine, flusher, batch, next_seq, history>>

(* WalManager::rotate fails: the memtable is rotated, the log is not. *)
RotateWalFails(p) ==
    /\ IOErrors
    /\ up /\ pc[p] = "sealed" /\ WalLockFree
    /\ pc' = [pc EXCEPT ![p] = "idle"]
    /\ UNCHANGED <<durable, up, engine, wal, flusher, batch, next_seq, history>>

-----------------------------------------------------------------------------
(* run_flush, serialized by flush_mutex *)

IsOldest(m) == m \in immutable /\ \A o \in immutable : m.gen <= o.gen

(* MemtableManager::drop_flushed: every memtable with that first_seq goes. *)
KeepOlder(first) == {m \in immutable : m.first < first}  \* mutant: retain turned around
DropFlushed(first) == {m \in immutable : m.first # first}

(* Mutant: an empty memtable is left alone. *)
PickNonEmpty(m) ==
    /\ up /\ fphase = "idle" /\ IsOldest(m) /\ m.recs # {}
    /\ fphase' = "writing" /\ fmem' = m
    /\ UNCHANGED <<durable, up, engine, wal, to_delete, tasks, history>>

(* Take the oldest sealed memtable; an empty one is dropped at once. *)
PickImmutable(m) ==
    /\ up /\ fphase = "idle" /\ IsOldest(m)
    /\ IF m.recs = {}
       THEN immutable' = DropFlushed(m.first) /\ UNCHANGED <<fphase, fmem>>
       ELSE fphase' = "writing" /\ fmem' = m /\ UNCHANGED immutable
    /\ UNCHANGED <<durable, up, closed, global_seq, visible_seq, active, installed, wal,
                   to_delete, tasks, history>>

(* The Parquet file is written and the catalog commit has returned. *)
CommitFlush ==
    /\ up /\ fphase = "writing"
    /\ flushed' = flushed \cup fmem.recs
    /\ fphase' = "committed"
    /\ UNCHANGED <<logs, up, engine, wal, fmem, to_delete, tasks, history>>

(* The file or the commit failed in a background flush: the memtable stays  *)
(* in the queue.                                                             *)
FlushFails ==
    /\ IOErrors
    /\ up /\ fphase = "writing"
    /\ fphase' = "idle"
    /\ UNCHANGED <<durable, up, engine, wal, fmem, to_delete, tasks, history>>

(* VersionSet::install *)
Install ==
    /\ up /\ fphase = "committed"
    /\ installed' = installed \cup fmem.recs
    /\ fphase' = "installed"
    /\ UNCHANGED <<durable, up, closed, global_seq, visible_seq, active, immutable, wal,
                   fmem, to_delete, tasks, history>>

(* The logs a flush up to last_seq makes obsolete. *)
CoveredPlusOne(c) == c.max <= fmem.last + 1  \* mutant: off by one
Covered(c) == c.max <= fmem.last

(* mark_flushed_seq(last_seq), under the WAL lock: the closed logs whose     *)
(* max_seq is covered leave the list and are unlinked one after the other.   *)
MarkFlushed ==
    /\ up /\ fphase = "installed" /\ WalLockFree
    /\ to_delete' = {c \in closed_logs : Covered(c)}
    /\ closed_logs' = {c \in closed_logs : ~Covered(c)}
    /\ fphase' = "gc"
    /\ UNCHANGED <<durable, up, engine, log_number, log_max, log_torn, fmem, tasks, history>>

IsNextVictim(c) == c \in to_delete /\ \A d \in to_delete : c.pos <= d.pos

(* Unlink the next log of the sweep. *)
UnlinkLog(c) ==
    /\ up /\ fphase = "gc" /\ IsNextVictim(c)
    /\ to_delete' = to_delete \ {c}
    /\ logs' = [l \in DOMAIN logs \ {c.log} |-> logs[l]]
    /\ UNCHANGED <<flushed, up, engine, wal, fphase, fmem, tasks, history>>

(* The unlink failed: the log is pushed back for a later sweep. *)
UnlinkFails(c) ==
    /\ IOErrors
    /\ up /\ fphase = "gc" /\ IsNextVictim(c)
    /\ to_delete' = to_delete \ {c}
    /\ closed_logs' = closed_logs \cup
           {[log |-> c.log, max |-> c.max, pos |-> 2 * log_number]}
    /\ UNCHANGED <<durable, up, engine, log_number, log_max, log_torn, fphase, fmem,
                   tasks, history>>

(* The sweep is over: release the WAL lock. *)
EndSweep ==
    /\ up /\ fphase = "gc" /\ to_delete = {}
    /\ fphase' = "swept"
    /\ UNCHANGED <<durable, up, engine, wal, fmem, to_delete, tasks, history>>

(* drop_flushed(first_seq): stalled writers wake. *)
DropMemtable ==
    /\ up /\ fphase = "swept"
    /\ immutable' = DropFlushed(fmem.first)
    /\ fphase' = "idle"
    /\ UNCHANGED <<durable, up, closed, global_seq, visible_seq, active, installed, wal,
                   fmem, to_delete, tasks, history>>

-----------------------------------------------------------------------------
(* The process dies: everything but the disk is gone. *)
Crash ==
    /\ up /\ crashes < MaxCrash
    /\ up' = FALSE /\ crashes' = crashes + 1
    /\ closed' = FALSE /\ global_seq' = 1 /\ visible_seq' = 0
    /\ active' = NewMemtable(0, 1) /\ immutable' = {} /\ installed' = {}
    /\ log_number' = 0 /\ log_max' = 0 /\ log_torn' = FALSE /\ closed_logs' = {}
    /\ fphase' = "idle" /\ fmem' = NewMemtable(0, 0) /\ to_delete' = {}
    /\ pc' = [p \in Procs |-> "idle"]
    /\ batch' = [w \in Writers |-> [lo |-> 1, hi |-> 0]]
    /\ next_seq' = 0
    /\ UNCHANGED <<durable, acked>>

IsMaxOf(x, S) == x \in S /\ \A y \in S : y <= x

(* MeruEngine::open: replay every log into a fresh memtable, continue after  *)
(* the highest number seen, open a new log after the highest file on disk    *)
(* and register the old ones, all with the same max_seq, in directory order. *)
OpenWith(wal_max, top, last_log) ==
    /\ IsMaxOf(wal_max, InWal \cup {0})
    /\ IsMaxOf(top, SeenNumbers)
    /\ IsMaxOf(last_log, DOMAIN logs \cup {0})
    /\ global_seq' = top + 1
    /\ visible_seq' = top
    /\ active' = [NewMemtable(0, top + 1) EXCEPT !.recs = InWal]
    /\ log_number' = last_log + 1
    /\ logs' = [l \in DOMAIN logs \cup {last_log + 1} |->
                   IF l = last_log + 1 THEN {} ELSE logs[l]]
    /\ closed_logs' = {[log |-> l, max |-> wal_max, pos |-> 0] : l \in DOMAIN logs}

Open ==
    /\ ~up
    /\ \E wal_max \in InWal \cup {0}, top \in SeenNumbers,
          last_log \in DOMAIN logs \cup {0} : OpenWith(wal_max, top, last_log)
    /\ installed' = flushed
    /\ up' = TRUE
    /\ UNCHANGED <<flushed, closed, immutable, log_max, log_torn, flusher, tasks, history>>

-----------------------------------------------------------------------------
Write(w) ==
    \/ BeginWrite(w) \/ PassStall(w)
    \/ \E n \in 1 .. MaxBatch : Allocate(w, n)
    \/ Append(w) \/ AppendFails(w) \/ Apply(w) \/ AutoRotate(w)

Rotate(p) == RotateMemtable(p) \/ RotateWal(p) \/ RotateWalFails(p)

Admin(a) == Flush(a) \/ Close(a) \/ CloseRotate(a) \/ Drained(a) \/ DrainFails(a)

RunFlush ==
    \/ \E m \in immutable : PickImmutable(m)
    \/ CommitFlush \/ FlushFails \/ Install \/ MarkFlushed
    \/ \E c \in to_delete : UnlinkLog(c) \/ UnlinkFails(c)
    \/ EndSweep \/ DropMemtable

Next ==
    \/ \E w \in Writers : Write(w)
    \/ \E a \in Admins : Admin(a)
    \/ \E p \in Procs : Rotate(p)
    \/ RunFlush
    \/ Crash \/ Open

Spec == Init /\ [][Next]_vars

(* A running engine keeps stepping: its tasks are scheduled, the flush worker *)
(* polls every 250 ms (background.rs:161), and tokio's mutexes are handed out *)
(* in the order they were asked for, so a task waiting for one gets it.       *)
TakesLock(p) ==
    \/ p \in Writers /\ \E n \in 1 .. MaxBatch : Allocate(p, n)
    \/ p \in Admins /\ CloseRotate(p)
    \/ RotateWal(p)
GoesOn(p) ==
    \/ p \in Writers /\ (PassStall(p) \/ Append(p) \/ Apply(p) \/ AutoRotate(p))
    \/ p \in Admins /\ Drained(p)
    \/ RotateMemtable(p)
Fairness ==
    /\ \A p \in Procs : SF_vars(TakesLock(p)) /\ WF_vars(GoesOn(p))
    /\ SF_vars(RunFlush)

FairSpec == Spec /\ Fairness

-----------------------------------------------------------------------------
Memtables == [gen : Nat, first : Nat, last : Nat, recs : SUBSET Nat]
ClosedLogs == [log : Nat, max : Nat, pos : Nat]
PC == {"idle", "stalled", "ready", "allocated", "appended", "crossed", "rotating",
       "sealed", "closing", "draining"}

(* The type of the state. *)
TypeOK ==
    /\ DOMAIN logs \subseteq Nat /\ logs \in [DOMAIN logs -> SUBSET Nat]
    /\ flushed \subseteq Nat /\ installed \subseteq Nat /\ acked \subseteq Nat
    /\ up \in BOOLEAN /\ closed \in BOOLEAN /\ log_torn \in BOOLEAN
    /\ global_seq \in Nat /\ visible_seq \in Nat /\ next_seq \in Nat
    /\ active \in Memtables /\ immutable \subseteq Memtables /\ fmem \in Memtables
    /\ log_number \in Nat /\ log_max \in Nat
    /\ closed_logs \subseteq ClosedLogs /\ to_delete \subseteq ClosedLogs
    /\ pc \in [Procs -> PC]
    /\ batch \in [Writers -> [lo : Nat, hi : Nat]]
    /\ fphase \in {"idle", "writing", "committed", "installed", "gc", "swept"}
    /\ crashes \in 0 .. MaxCrash

(* Every completed write is in a committed file or in a log that recovery   *)
(* can read, at every moment: whatever the flusher deletes, a crash loses   *)
(* nothing ("GC any closed log whose contents are now durable",             *)
(* wal/manager.rs:203).                                                     *)
Durable == acked \subseteq Recoverable

(* A number at or below visible_seq that a reader does not find never        *)
(* becomes readable later: the frontier is only moved over records already   *)
(* in the memtable (IMP-02, engine.rs:516).                                  *)
FrontierStable ==
    [][up /\ up' => \A s \in Readable' : s <= visible_seq => s \in Readable]_vars

(* While the engine runs, a record a reader can find stays findable: the     *)
(* flush installs the file before it drops the memtable, and drops only the  *)
(* memtable it flushed (flush.rs:328-343, memtable/manager.rs:92).           *)
NothingVanishes == [][up /\ up' => Readable \subseteq Readable']_vars

(* A running engine never allocates a number that is already taken by a      *)
(* record on disk or in memory: recovery continues after both the WAL and    *)
(* the committed files (engine.rs:245).                                      *)
FreshNumbers == up => \A s \in Recoverable \cup Readable : s < global_seq

(* The logs on disk hold a suffix of the completed writes, so a replay never *)
(* puts a record in the memtable above a newer one that is only in a file    *)
(* ("stale-seq memtable entries to shadow freshly-compacted L1 output",      *)
(* engine.rs:285).                                                           *)
ReplayIsSuffix == \A s \in InWal, t \in acked : s < t => t \in InWal

(* When close() has returned, every completed write is in a committed file   *)
(* and nothing depends on the WAL any more (engine.rs:1211-1213, 1238-1253). *)
CloseFlushes == closed /\ (\A a \in Admins : pc[a] = "idle") => acked \subseteq flushed

(* A writer parked on flush_complete does not wait for ever, and flush() and *)
(* close() return, also while writes go on filling memtables (engine.rs:467, *)
(* 654, 1251).                                                               *)
CallsReturn ==
    /\ \A w \in Writers : pc[w] = "stalled" ~> pc[w] # "stalled"
    /\ \A a \in Admins : pc[a] # "idle" ~> pc[a] = "idle"

(* The queue of sealed memtables outgrows its limit by less than one for     *)
(* each task: a writer passes the stall check before it filled, flush() and  *)
(* close() do not ask (engine.rs:467-473, 647).                              *)
QueueBounded == Cardinality(immutable) < MaxImmutable + Cardinality(Procs)
=============================================================================
