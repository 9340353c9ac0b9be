---------------------------- MODULE Backpressure ----------------------------
(***************************************************************************)
(* Flow control of the write path and the life of the background workers:  *)
(* writers that wait for L0 and for the memtable queue, the two            *)
(* notifications that wake them, the flush and compaction loops and the    *)
(* shutdown that joins them (engine/engine.rs write_internal and close,    *)
(* engine/write_path.rs apply_batch, engine/background.rs,                 *)
(* memtable/manager.rs, engine/compaction/job.rs, db.rs close).            *)
(*                                                                         *)
(* Memtables and files are counted, not kept: what they hold is the        *)
(* subject of WriteFlush and Snapshots.                                    *)
(***************************************************************************)
EXTENDS Integers, FiniteSets

CONSTANTS
    Writers,
    MaxImmutable,     \* max_immutable_count
    L0Compact,        \* l0_compaction_trigger
    L0Stop,           \* l0_stop_trigger
    MayClose,         \* does the application call close()?
    MaxWrites,        \* bound: number of writes
    MaxFail           \* bound: number of failed flushes and compactions

BackpressureAssumption ==
    /\ IsFiniteSet(Writers)
    /\ MaxImmutable \in Nat \ {0} /\ L0Compact \in Nat \ {0}
    /\ L0Stop \in Nat /\ L0Compact <= L0Stop
    /\ MayClose \in BOOLEAN /\ MaxWrites \in Nat /\ MaxFail \in Nat

VARIABLES
    pc,        \* where each writer is in write_internal
    woken,     \* writers whose registered notified() has been notified
    active,    \* records in the active memtable; one crosses the threshold
    imm,       \* length of the immutable queue
    l0,        \* L0 files of the installed version
    spawned,   \* auto-flush tasks that have not begun
    flusher,   \* run_flush under flush_mutex: [by, pc]
    fworker,   \* the flush worker
    cworker,   \* the compaction worker
    picked,    \* L0 files its job merges
    flag,      \* shutdown_flag
    closer,    \* the task in MeruDB::close
    closed,    \* MeruEngine::closed
    writes,
    fails

vars == <<pc, woken, active, imm, l0, spawned, flusher, fworker, cworker, picked,
          flag, closer, closed, writes, fails>>

Free == [by |-> "nobody", pc |-> "idle"]

Init ==
    /\ pc = [w \in Writers |-> "idle"] /\ woken = {}
    /\ active = 0 /\ imm = 0 /\ l0 = 0 /\ spawned = 0
    /\ flusher = Free /\ fworker = "select" /\ cworker = "select" /\ picked = 0
    /\ flag = FALSE /\ closer = "open" /\ closed = FALSE
    /\ writes = 0 /\ fails = 0

----------------------------------------------------------------------------
(* Writers.  A Notified future gets every notify_waiters() from the moment  *)
(* it is created, polled or not.                                            *)

Goto(w, label) == pc' = [pc EXCEPT ![w] = label]

Waiting(labels) == {w \in Writers : pc[w] \in labels}

\* From where on a writer has created its future, on l0_drained and on
\* flush_complete.
L0LabelsLate == {"l0_parked"}  \* mutant: created after the check
L0Labels == {"l0_check", "l0_full", "l0_parked"}
StallLabels == {"stall_check", "stall_full", "stall_parked"}

\* The closed flag is read once, on entry.
Begin(w) ==
    /\ pc[w] = "idle" /\ writes < MaxWrites /\ ~closed
    /\ writes' = writes + 1
    /\ Goto(w, "l0")
    /\ UNCHANGED <<woken, active, imm, l0, spawned, flusher, fworker, cworker, picked,
                   flag, closer, closed, fails>>

\* let notify = l0_drained.notified(), let notify = flush_complete.notified().
Register(w) ==
    /\ \/ pc[w] = "l0" /\ Goto(w, "l0_check")
       \/ pc[w] = "stall" /\ Goto(w, "stall_check")
    /\ UNCHANGED <<woken, active, imm, l0, spawned, flusher, fworker, cworker, picked,
                   flag, closer, closed, writes, fails>>

\* The future of a writer that goes on is dropped.
Pass(w, room, next, full) ==
    IF room THEN Goto(w, next) /\ woken' = woken \ {w}
            ELSE Goto(w, full) /\ UNCHANGED woken

\* Mutant: one more memtable, and one more file, than the limit.
CheckAtMost(w) ==
    /\ \/ pc[w] = "l0_check" /\ Pass(w, l0 <= L0Stop, "stall", "l0_full")
       \/ pc[w] = "stall_check" /\ Pass(w, imm <= MaxImmutable, "apply", "stall_full")
    /\ UNCHANGED <<active, imm, l0, spawned, flusher, fworker, cworker, picked,
                   flag, closer, closed, writes, fails>>
Check(w) ==
    /\ \/ pc[w] = "l0_check" /\ Pass(w, l0 < L0Stop, "stall", "l0_full")
       \/ pc[w] = "stall_check" /\ Pass(w, imm < MaxImmutable, "apply", "stall_full")
    /\ UNCHANGED <<active, imm, l0, spawned, flusher, fworker, cworker, picked,
                   flag, closer, closed, writes, fails>>

\* notify.await.
Await(w) ==
    /\ \/ pc[w] = "l0_full" /\ Goto(w, "l0_parked")
       \/ pc[w] = "stall_full" /\ Goto(w, "stall_parked")
    /\ UNCHANGED <<woken, active, imm, l0, spawned, flusher, fworker, cworker, picked,
                   flag, closer, closed, writes, fails>>

Wake(w) ==
    /\ w \in woken
    /\ \/ pc[w] = "l0_parked" /\ Goto(w, "l0")
       \/ pc[w] = "stall_parked" /\ Goto(w, "stall")
    /\ woken' = woken \ {w}
    /\ UNCHANGED <<active, imm, l0, spawned, flusher, fworker, cworker, picked,
                   flag, closer, closed, writes, fails>>

\* WAL append and memtable apply.
Apply(w) ==
    /\ pc[w] = "apply"
    /\ active' = active + 1
    /\ Goto(w, "crossed")
    /\ UNCHANGED <<woken, imm, l0, spawned, flusher, fworker, cworker, picked,
                   flag, closer, closed, writes, fails>>

\* rotation_lock, active_should_flush, rotate, and the spawned run_flush.
Rotate(w) ==
    /\ pc[w] = "crossed"
    /\ IF active > 0 THEN imm' = imm + 1 /\ active' = 0 /\ spawned' = spawned + 1
                     ELSE UNCHANGED <<imm, active, spawned>>
    /\ Goto(w, "idle")
    /\ UNCHANGED <<woken, l0, flusher, fworker, cworker, picked, flag, closer, closed,
                   writes, fails>>

WriterStep(w) == Register(w) \/ Check(w) \/ Await(w) \/ Wake(w) \/ Apply(w) \/ Rotate(w)
Write(w) == Begin(w) \/ WriterStep(w)

----------------------------------------------------------------------------
(* run_flush, under flush_mutex: called by an auto-flush task, by the       *)
(* flush worker and by close().                                             *)

Lock(who) ==
    /\ flusher = Free
    /\ flusher' = IF imm > 0 THEN [by |-> who, pc |-> "commit"] ELSE Free

AutoFlush ==
    /\ spawned > 0
    /\ Lock("auto")
    /\ spawned' = spawned - 1
    /\ UNCHANGED <<pc, woken, active, imm, l0, fworker, cworker, picked, flag, closer,
                   closed, writes, fails>>

FlushCommit ==
    /\ flusher.pc = "commit"
    /\ l0' = l0 + 1
    /\ flusher' = [flusher EXCEPT !.pc = "drop"]
    /\ UNCHANGED <<pc, woken, active, imm, spawned, fworker, cworker, picked, flag,
                   closer, closed, writes, fails>>

\* Mutant: drop_flushed notifies nobody.
DropSilently ==
    /\ flusher.pc = "drop"
    /\ imm' = imm - 1
    /\ flusher' = Free
    /\ UNCHANGED <<pc, woken, active, l0, spawned, fworker, cworker, picked, flag,
                   closer, closed, writes, fails>>
\* drop_flushed and its notify_waiters().
FlushDrop ==
    /\ flusher.pc = "drop"
    /\ imm' = imm - 1
    /\ woken' = woken \cup Waiting(StallLabels)
    /\ flusher' = Free
    /\ UNCHANGED <<pc, active, l0, spawned, fworker, cworker, picked, flag, closer,
                   closed, writes, fails>>

FlushFail ==
    /\ flusher.pc = "commit" /\ fails < MaxFail
    /\ fails' = fails + 1
    /\ flusher' = Free
    /\ closer' = IF flusher.by = "close" THEN "failed" ELSE closer
    /\ UNCHANGED <<pc, woken, active, imm, l0, spawned, fworker, cworker, picked, flag,
                   closed, writes>>

(* flush_worker.  The select ends by a notification or by its timer, so at  *)
(* any time.                                                                *)
FlushWorkerWakes ==
    /\ fworker = "select"
    /\ fworker' = "drain"
    /\ UNCHANGED <<pc, woken, active, imm, l0, spawned, flusher, cworker, picked, flag,
                   closer, closed, writes, fails>>

FlushWorkerRuns ==
    /\ fworker = "drain" /\ imm > 0 /\ ~flag
    /\ Lock("worker")
    /\ UNCHANGED <<pc, woken, active, imm, l0, spawned, fworker, cworker, picked, flag,
                   closer, closed, writes, fails>>

\* The drain ends with the queue empty or the flag set; the flag is read again
\* at the top of the loop.
FlushWorkerLoops ==
    /\ fworker = "drain" /\ flusher.by # "worker" /\ (imm = 0 \/ flag)
    /\ fworker' = IF flag THEN "exited" ELSE "select"
    /\ UNCHANGED <<pc, woken, active, imm, l0, spawned, flusher, cworker, picked, flag,
                   closer, closed, writes, fails>>

----------------------------------------------------------------------------
(* compaction_worker.  The picker takes L0 from its trigger on; a job of a  *)
(* lower level leaves L0 as it is but notifies all the same.                *)

Inputs == 1..l0

CompactWakes ==
    /\ cworker = "select"
    /\ \/ flag /\ cworker' = "exited" /\ UNCHANGED picked
       \/ ~flag /\ l0 >= L0Compact /\ cworker' = "merge" /\ picked' \in Inputs
    /\ UNCHANGED <<pc, woken, active, imm, l0, spawned, flusher, fworker, flag, closer,
                   closed, writes, fails>>

CompactLower ==
    /\ cworker = "select" /\ ~flag /\ l0 < L0Compact
    /\ cworker' = "merge" /\ picked' = 0
    /\ UNCHANGED <<pc, woken, active, imm, l0, spawned, flusher, fworker, flag, closer,
                   closed, writes, fails>>

CompactInstall ==
    /\ cworker = "merge"
    /\ l0' = l0 - picked
    /\ cworker' = "notify" /\ picked' = 0
    /\ UNCHANGED <<pc, woken, active, imm, spawned, flusher, fworker, flag, closer,
                   closed, writes, fails>>

\* l0_drained.notify_waiters(), and the flag at the top of the loop.
CompactNotify ==
    /\ cworker = "notify"
    /\ woken' = woken \cup Waiting(L0Labels)
    /\ cworker' = IF flag THEN "exited" ELSE "select"
    /\ UNCHANGED <<pc, active, imm, l0, spawned, flusher, fworker, picked, flag, closer,
                   closed, writes, fails>>

CompactFail ==
    /\ cworker = "merge" /\ fails < MaxFail
    /\ fails' = fails + 1
    /\ cworker' = IF flag THEN "exited" ELSE "select"
    /\ picked' = 0
    /\ UNCHANGED <<pc, woken, active, imm, l0, spawned, flusher, fworker, flag, closer,
                   closed, writes>>

----------------------------------------------------------------------------
(* MeruDB::close: the workers first, then MeruEngine::close.                *)

CloseSignals ==
    /\ MayClose /\ closer = "open"
    /\ flag' = TRUE /\ closer' = "join"
    /\ UNCHANGED <<pc, woken, active, imm, l0, spawned, flusher, fworker, cworker, picked,
                   closed, writes, fails>>

CloseSeals ==
    /\ closer = "join" /\ fworker = "exited" /\ cworker = "exited"
    /\ closed' = TRUE
    /\ IF active > 0 THEN imm' = imm + 1 /\ active' = 0 ELSE UNCHANGED <<imm, active>>
    /\ closer' = "flush"
    /\ UNCHANGED <<pc, woken, l0, spawned, flusher, fworker, cworker, picked, flag, writes,
                   fails>>

CloseFlushes ==
    /\ closer = "flush" /\ imm > 0
    /\ Lock("close")
    /\ UNCHANGED <<pc, woken, active, imm, l0, spawned, fworker, cworker, picked, flag,
                   closer, closed, writes, fails>>

CloseReturns ==
    /\ closer = "flush" /\ flusher.by # "close" /\ imm = 0
    /\ closer' = "closed"
    /\ UNCHANGED <<pc, woken, active, imm, l0, spawned, flusher, fworker, cworker, picked,
                   flag, closed, writes, fails>>

FlushStep == FlushCommit \/ FlushDrop
Flush == FlushStep \/ FlushFail
FlushWorker == FlushWorkerWakes \/ FlushWorkerRuns \/ FlushWorkerLoops
Compaction == CompactWakes \/ CompactLower \/ CompactInstall \/ CompactNotify \/ CompactFail
Close == CloseSignals \/ CloseSeals \/ CloseFlushes \/ CloseReturns

Next ==
    \/ \E w \in Writers : Write(w)
    \/ AutoFlush \/ Flush \/ FlushWorker \/ Compaction \/ Close

Spec == Init /\ [][Next]_vars

\* Every task that can run does: the runtime polls what was woken, timers go
\* off, and flush_mutex is fair (a tokio mutex queues its waiters).
Fairness ==
    /\ \A w \in Writers : WF_vars(WriterStep(w))
    /\ WF_vars(AutoFlush) /\ WF_vars(FlushStep)
    /\ WF_vars(FlushWorkerWakes) /\ SF_vars(FlushWorkerRuns) /\ SF_vars(FlushWorkerLoops)
    /\ WF_vars(CompactWakes) /\ WF_vars(CompactInstall) /\ WF_vars(CompactNotify)
    /\ WF_vars(CloseSeals) /\ SF_vars(CloseFlushes) /\ SF_vars(CloseReturns)

FairSpec == Spec /\ Fairness

----------------------------------------------------------------------------
Labels == {"idle", "l0", "stall", "apply", "crossed"} \cup L0Labels \cup StallLabels

TypeOK ==
    /\ pc \in [Writers -> Labels] /\ woken \subseteq Writers
    /\ active \in Nat /\ imm \in Nat /\ l0 \in Nat /\ spawned \in Nat /\ picked \in 0..l0
    /\ flusher \in [by : {"nobody", "auto", "worker", "close"}, pc : {"idle", "commit", "drop"}]
    /\ closed \in BOOLEAN

\* A writer parked with no wake-up on its way has something to wait for: a
\* full L0 or a job about to notify, a full queue or a flush about to drop.
NoLostWakeup ==
    \A w \in Writers \ woken :
        /\ pc[w] = "l0_parked" => l0 >= L0Stop \/ cworker = "notify"
        /\ pc[w] = "stall_parked" => imm >= MaxImmutable

\* The queue stays within its limit but for the writers that had passed the
\* check already, one memtable each, and the one close() seals.
QueueBounded ==
    imm <= MaxImmutable - 1 + Cardinality(Writers) + (IF closed THEN 1 ELSE 0)

\* L0 is past its stop trigger only by what had been admitted before: the
\* queue, and one memtable for each writer between the two checks.
L0Bounded ==
    l0 <= L0Stop - 1 + MaxImmutable - 1 + 2 * Cardinality(Writers) + (IF closed THEN 1 ELSE 0)

\* The writers between the two checks, those past the second, the memtable of
\* close() and the one whose file is committed and which is still queued.
Between == Cardinality(Waiting({"stall"} \cup StallLabels))
Admitted == Cardinality(Waiting({"apply", "crossed"}))
Sealed == IF closed THEN 1 ELSE 0
Committed == IF flusher.pc = "drop" THEN 1 ELSE 0

\* A flush under way has a memtable, and close() seals once.
StageInv ==
    /\ flusher.pc # "idle" => imm > 0
    /\ closed => closer \notin {"open", "join"}

\* What each passed check leaves to come: a writer past the queue's check may
\* still add a memtable, and one past the check of L0 a file.
BoundInv ==
    /\ imm + Admitted <= MaxImmutable - 1 + Cardinality(Writers) + Sealed
    /\ l0 + imm - Committed + Admitted + Between
          <= L0Stop - 1 + MaxImmutable - 1 + 2 * Cardinality(Writers) + Sealed

\* A writer that found its level full has been notified, or the level still is.
WakeInv ==
    \A w \in Writers \ woken :
        /\ pc[w] \in {"l0_full", "l0_parked"} => l0 >= L0Stop \/ cworker = "notify"
        /\ pc[w] \in {"stall_full", "stall_parked"} => imm >= MaxImmutable

IInv == TypeOK /\ StageInv /\ BoundInv /\ WakeInv

\* A writer that has begun returns: it is not left parked for ever.
WriterReturns == \A w \in Writers : pc[w] # "idle" ~> pc[w] = "idle"

\* close() returns, whatever the workers and the writers were doing: a worker
\* that misses the notification sees the flag.
CloseEnds == flag ~> closer \in {"closed", "failed"}

============================================================================
