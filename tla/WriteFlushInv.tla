--------------------------- MODULE WriteFlushInv ---------------------------
(***************************************************************************)
(* Why the write path keeps its promises: the regime in which it does, and *)
(* the inductive invariant behind it.                                      *)
(*                                                                         *)
(* A flush of memtable m ends with mark_flushed_seq(m.last), which deletes *)
(* the closed logs up to m.last.  That is right only if every completed    *)
(* write up to m.last is in a committed file, and m.last is not always the *)
(* number of a record of m: a memtable starts with last_seq = first_seq =  *)
(* global_seq + 1 (engine.rs:567, 645, 1241; memtable.rs:42), which lies   *)
(* above the first one or two batches it receives.  A memtable that has    *)
(* received enough records tells the truth; one that has not is harmless   *)
(* as long as nothing is written before it is flushed.                     *)
(***************************************************************************)
EXTENDS WriteFlush

(* Memtables hold at least two records more than a batch, flush() and close() *)
(* are not called while a write is in progress, no append leaves part of a    *)
(* record behind, and no I/O error hits an application that calls flush().    *)
SafeRegime ==
    /\ FlushThreshold >= MaxBatch + 2
    /\ ~ConcurrentAdmin
    /\ ~TornAppends
    /\ ~(ManualFlush /\ IOErrors)

InFlight(w) == pc[w] \in {"allocated", "appended"}
AllIdle == \A w \in Writers : pc[w] = "idle"

(* The locks exclude, and administration excludes writes. *)
LocksInv ==
    /\ \A v, w \in Writers : InFlight(v) /\ InFlight(w) => v = w
    /\ fphase = "gc" => \A w \in Writers : ~InFlight(w)
    /\ \A p, q \in Procs : pc[p] \in {"rotating", "sealed"}
                        /\ pc[q] \in {"rotating", "sealed"} => p = q
    /\ closed => AllIdle
    /\ \A a \in Admins : pc[a] # "idle" => AllIdle /\ (closed \/ ManualFlush)
    /\ \A a \in Admins : ~InFlight(a) /\ pc[a] \notin {"stalled", "ready", "crossed"}
    /\ \A w \in Writers : pc[w] \notin {"closing", "draining"}
    /\ ~log_torn

(* Numbers are allocated in order and reach the memtables in order. *)
OrderInv ==
    /\ \A s \in active.recs : s < global_seq
    /\ \A m \in immutable : /\ m.gen < active.gen
                            /\ \A s \in m.recs : s < global_seq
    /\ \A m \in immutable : \A s \in m.recs, t \in active.recs : s < t
    /\ \A m, o \in immutable :
         /\ m.gen = o.gen => m = o
         /\ m.gen < o.gen => \A s \in m.recs, t \in o.recs : s < t
    /\ \A w \in Writers : InFlight(w) =>
         /\ batch[w].lo <= batch[w].hi /\ batch[w].hi + 1 = global_seq
         /\ batch[w].hi < batch[w].lo + MaxBatch
         /\ \A s \in active.recs : s < batch[w].lo
         /\ \A m \in immutable : \A s \in m.recs : s < batch[w].lo

(* Everything visible, on disk or in a file has a number already handed out,  *)
(* and the frontier has not reached a write in flight.                        *)
FrontierInv ==
    /\ up => /\ visible_seq < global_seq
             /\ \A s \in Recoverable \cup installed : s < global_seq
    /\ \A w \in Writers : InFlight(w) => visible_seq < batch[w].lo

(* first_seq lies above at most the batch in flight when it was read, and the *)
(* one number read past it.                                                   *)
Near(f) ==
    /\ f <= global_seq + 1
    /\ \A w \in Writers : InFlight(w) => f <= batch[w].lo + MaxBatch + 1

FirstInv ==
    /\ active.gen > 0 => /\ Near(active.first)
                         /\ \A s \in active.recs : active.first <= s + MaxBatch + 1
    /\ active.gen = 0 => /\ active.first <= global_seq
                         /\ \A w \in Writers : InFlight(w) => active.first <= batch[w].lo
    /\ (\E p \in Procs : pc[p] = "rotating") => Near(next_seq)

(* last_seq is first_seq or the highest record. *)
LastInv ==
    \A m \in immutable \cup {active} :
      /\ \A s \in m.recs : s <= m.last
      /\ m.first <= m.last
      /\ m.last \in m.recs \cup {m.first}

Filled(m) == \E s \in m.recs : m.first <= s

(* A writer that crossed the threshold has filled the memtable it rotates. *)
FilledInv ==
    \A w \in Writers :
      /\ pc[w] = "crossed" /\ active.gen = 0 => Filled(active)
      /\ pc[w] = "rotating" => Filled(active) /\ active.first < next_seq

(* A sealed memtable is filled, or it is the last one with records and the    *)
(* application is waiting.  The same holds of memtables that share first_seq. *)
Held == /\ active.recs = {} /\ AllIdle
        /\ closed \/ \E a \in Admins : pc[a] \in {"rotating", "sealed", "draining"}
LastWithRecords(m) == \A o \in immutable : m.gen < o.gen => o.recs = {}

SealedInv ==
    /\ \A m \in immutable : Filled(m) \/ (Held /\ LastWithRecords(m))
    /\ \A m \in immutable : m.first < active.first \/ (Held /\ LastWithRecords(m))
    /\ \A m, o \in immutable :
         m.gen < o.gen /\ o.first <= m.first => o.recs = {}
    /\ \A a \in Admins : pc[a] = "rotating" => active.first <= next_seq

(* The flusher works on the oldest sealed memtable. *)
FlushInv ==
    /\ fphase # "idle" => IsOldest(fmem) /\ fmem.recs # {} /\ up
    /\ fphase \in {"committed", "installed", "gc", "swept"} => fmem.recs \subseteq flushed
    /\ fphase \in {"installed", "gc", "swept"} => fmem.recs \subseteq installed
    /\ fphase # "gc" => to_delete = {}

(* Log numbers are unique, and the log being written is the highest. *)
LogFilesInv ==
    /\ up => log_number \in DOMAIN logs /\ \A l \in DOMAIN logs : l <= log_number
    /\ \A c, d \in closed_logs \cup to_delete : c.log = d.log => c = d
    /\ \A c \in closed_logs \cup to_delete : c.log < log_number
    /\ closed_logs \cap to_delete = {}

(* s is in a log that no sweep up to a number below s deletes. *)
InLiveLog(s) ==
    \/ s \in logs[log_number] /\ s <= log_max
    \/ \E c \in closed_logs : c.log \in DOMAIN logs /\ s \in logs[c.log] /\ s <= c.max

InMemory == active.recs \cup UNION {m.recs : m \in immutable}

(* Every unflushed record is in a live log. *)
LoggedInv ==
    /\ \A s \in InMemory : s \in flushed \/ InLiveLog(s)
    /\ \A w \in Writers : pc[w] = "appended" =>
         \A s \in batch[w].lo .. batch[w].hi : InLiveLog(s)

(* A completed write is in memory or in a file; after a crash it is on disk. *)
AckedInv ==
    /\ up => acked \subseteq flushed \cup InMemory
    /\ ~up => /\ acked \subseteq Recoverable
              /\ active = NewMemtable(0, 1) /\ immutable = {} /\ fphase = "idle"
              /\ AllIdle /\ ~closed /\ \A a \in Admins : pc[a] = "idle"
              /\ closed_logs = {} /\ to_delete = {} /\ global_seq = 1

IInv ==
    /\ TypeOK /\ LocksInv /\ OrderInv /\ FrontierInv /\ FirstInv /\ LastInv
    /\ FilledInv /\ SealedInv /\ FlushInv /\ LogFilesInv /\ LoggedInv /\ AckedInv

(* The records of a write between its append and its apply. *)
Pending == UNION {batch[w].lo .. batch[w].hi : w \in {v \in Writers : pc[v] = "appended"}}

(* max_seq bounds the records of every log, and a sweep takes covered logs. *)
LogBounds ==
    /\ up => \A s \in logs[log_number] : s <= log_max
    /\ \A c \in closed_logs \cup to_delete :
         c.log \in DOMAIN logs => \A s \in logs[c.log] : s <= c.max
    /\ fphase = "gc" => \A c \in to_delete : c.max <= fmem.last

(* Without I/O errors the logs hold nothing but completed and pending writes. *)
(* A batch is numbered above everything stored.                               *)
StoreInv ==
    /\ ~IOErrors => /\ up => InWal \subseteq flushed \cup InMemory \cup Pending
                    /\ LogBounds
    /\ \A w \in Writers : pc[w] = "allocated" => \A s \in Recoverable : s < batch[w].lo

(* close() on its way: what it has still to rotate or to wait for. *)
CloseInv ==
    closed =>
      /\ active.recs = {} \/ \E a \in Admins : pc[a] \in {"closing", "rotating"}
      /\ immutable = {} \/ \E a \in Admins : pc[a] # "idle"

(* The write path implements a store of whole batches in order that never     *)
(* takes back a completed write, nor, where I/O does not fail, any record.    *)
Store == INSTANCE DurableStore WITH
    MayDiscard <- IOErrors, stored <- Recoverable, acked <- acked
StoreStep == [Store!Next]_(Store!vars)
StoreSpec == Store!Spec
=============================================================================
