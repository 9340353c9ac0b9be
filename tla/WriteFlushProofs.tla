-------------------------- MODULE WriteFlushProofs --------------------------
(***************************************************************************)
(* Proofs about WriteFlush, for every number of writers, batch size,       *)
(* threshold and number of crashes.  Three parts: what is in memory, what  *)
(* is in the write-ahead logs and what a reader finds, and the theorems    *)
(* with the lemmas of the refinement.                                      *)
(***************************************************************************)
EXTENDS WriteFlushInv, FiniteSetTheorems, TLAPS

(***************************************************************************)
(* Memory: typing, the locks, the order of the memtables, and what the     *)
(* memtables and the running flush hold.                                   *)
(***************************************************************************)

(* What recovery makes of the disk: the memtable holds the logs' records and *)
(* nothing on disk has a number as high as the next one.                     *)
LEMMA OpenFacts ==
  ASSUME TypeOK, Open
  PROVE  /\ active'.recs = InWal /\ active'.gen = 0
         /\ active'.first = global_seq' /\ active'.last = global_seq'
         /\ global_seq' \in Nat
         /\ \A s \in Recoverable : s < global_seq'
         /\ InWal \subseteq Recoverable /\ Recoverable \subseteq Nat
<1>1. PICK wal_max \in InWal \cup {0}, top \in SeenNumbers,
           last_log \in DOMAIN logs \cup {0} : OpenWith(wal_max, top, last_log)
  BY DEF Open
<1>2. InWal \subseteq Recoverable /\ Recoverable \subseteq Nat
  BY DEF InWal, Recoverable, TypeOK
<1>3. top \in Nat /\ \A s \in Recoverable : s <= top
  BY <1>1, <1>2 DEF OpenWith, IsMaxOf, SeenNumbers
<1>4. /\ active'.recs = InWal /\ active'.gen = 0 /\ global_seq' = top + 1
      /\ active'.first = top + 1 /\ active'.last = top + 1
  BY <1>1 DEF OpenWith, NewMemtable
<1>5. \A s \in Recoverable : s < top + 1
  BY <1>2, <1>3
<1> QED
  BY <1>2, <1>3, <1>4, <1>5

(* The flusher runs only while the engine does. *)
LEMMA RunFlushUp == RunFlush => up /\ up'
<1>1. ASSUME NEW m \in immutable, PickImmutable(m) PROVE up /\ up'
  BY <1>1 DEF PickImmutable
<1>2. ASSUME CommitFlush \/ FlushFails \/ Install PROVE up /\ up'
  BY <1>2 DEF CommitFlush, FlushFails, Install
<1>3. ASSUME MarkFlushed \/ EndSweep \/ DropMemtable PROVE up /\ up'
  BY <1>3 DEF MarkFlushed, EndSweep, DropMemtable
<1>4. ASSUME NEW c \in to_delete, UnlinkLog(c) PROVE up /\ up'
  BY <1>4 DEF UnlinkLog
<1>5. ASSUME NEW c \in to_delete, UnlinkFails(c) PROVE up /\ up'
  BY <1>5 DEF UnlinkFails
<1> QED
  BY <1>1, <1>2, <1>3, <1>4, <1>5 DEF RunFlush

(* A rotation runs in an open engine and leaves it open. *)
LEMMA RotateUp == ASSUME NEW p \in Procs, Rotate(p) PROVE up /\ up'
BY DEF Rotate, RotateMemtable, RotateWal, RotateWalFails

(* Sealing a memtable moves its records, and loses none. *)
LEMMA RotateMemory == ASSUME NEW p \in Procs, Rotate(p) PROVE InMemory' = InMemory
BY DEF Rotate, RotateMemtable, RotateWal, RotateWalFails, engine, NewMemtable, InMemory

(* Writing and the administrative calls run on an open database. *)
LEMMA WriteUp == ASSUME NEW w \in Writers, Write(w) PROVE up /\ up'
BY DEF Write, BeginWrite, PassStall, Allocate, Append, AppendFails, Apply, AutoRotate

(* The calls themselves leave it open: close only stops the writers. *)
LEMMA AdminUp == ASSUME NEW a \in Admins, Admin(a) PROVE up /\ up'
BY DEF Admin, Flush, Close, CloseRotate, Drained, DrainFails

\* A database that was just opened is well-typed,
LEMMA InitTypeOK == Init => TypeOK
<1> SUFFICES ASSUME Init PROVE TypeOK
  BY Zenon
<1> USE DEF Init
<1>1. logs \in [DOMAIN logs -> SUBSET Nat] /\ DOMAIN logs \subseteq Nat
  OBVIOUS
<1>2. active \in Memtables /\ fmem \in Memtables
  BY ZenonT(30) DEF Memtables, NewMemtable
<1>3. pc \in [Procs -> PC]
  BY Zenon DEF PC
<1>4. batch \in [Writers -> [lo : Nat, hi : Nat]] /\ crashes \in 0 .. MaxCrash
  BY SizesAssumption
<1>5. up \in BOOLEAN /\ closed \in BOOLEAN /\ log_torn \in BOOLEAN
  BY Zenon
<1> QED
  BY <1>1, <1>2, <1>3, <1>4, <1>5 DEF TypeOK

\* and satisfies the inductive invariant.
LEMMA InitIInv == Init => IInv
<1> SUFFICES ASSUME Init PROVE IInv
  BY Zenon
<1> USE DEF Init
<1>1. TypeOK
  BY InitTypeOK
<1>2. /\ \A p \in Procs : pc[p] = "idle"
      /\ active = [gen |-> 0, first |-> 1, last |-> 1, recs |-> {}]
  BY ZenonT(30) DEF NewMemtable
<1>3. LocksInv /\ OrderInv /\ FilledInv
  BY <1>2 DEF LocksInv, OrderInv, FilledInv, InFlight, AllIdle, Procs
<1>4. FirstInv /\ LastInv
  BY <1>2 DEF FirstInv, LastInv, Procs, InFlight
<1>5. SealedInv /\ FlushInv
  BY ZenonT(30), <1>2 DEF SealedInv, FlushInv, Procs
<1>6. LogFilesInv /\ LoggedInv /\ AckedInv
  BY <1>2 DEF LogFilesInv, LoggedInv, AckedInv, InMemory, Procs
<1>7. FrontierInv
  BY <1>2 DEF FrontierInv, Recoverable, InWal, InFlight, Procs
<1> QED
  BY Zenon, <1>1, <1>3, <1>4, <1>5, <1>6, <1>7 DEF IInv

(* The state always has its type, in every regime.  One step per action of *)
(* the write path, the flusher, the administrative calls and recovery.     *)
LEMMA TypeOKInductive == TypeOK /\ [Next]_vars => TypeOK'
<1> SUFFICES ASSUME TypeOK, [Next]_vars PROVE TypeOK'
  OBVIOUS
<1> USE SizesAssumption
<1>1. ASSUME NEW w \in Writers, BeginWrite(w) \/ PassStall(w) \/ AutoRotate(w) PROVE TypeOK'
  BY <1>1 DEF BeginWrite, PassStall, AutoRotate, TypeOK, PC, Procs,
              durable, engine, wal, flusher, history
<1>2. ASSUME NEW w \in Writers, NEW n \in 1 .. MaxBatch, Allocate(w, n) PROVE TypeOK'
  <2>1. [lo |-> global_seq, hi |-> global_seq + n - 1] \in [lo : Nat, hi : Nat]
    BY DEF TypeOK
  <2>2. batch' \in [Writers -> [lo : Nat, hi : Nat]]
    BY <1>2, <2>1 DEF Allocate, NextBatch, TypeOK
  <2> QED
    BY <1>2, <2>2 DEF Allocate, TypeOK, PC, Procs, durable, wal, flusher, history
<1>3. ASSUME NEW w \in Writers, Append(w) PROVE TypeOK'
  <2>1. batch[w].lo .. batch[w].hi \subseteq Nat /\ batch[w].hi \in Nat
    BY DEF TypeOK
  <2>2. DOMAIN logs' = DOMAIN logs /\ logs' \in [DOMAIN logs -> SUBSET Nat]
    BY Zenon, <1>3, <2>1 DEF Append, TypeOK
  <2> QED
    BY <1>3, <2>1, <2>2 DEF Append, TypeOK, PC, Procs, engine, flusher, history
<1>4. ASSUME NEW w \in Writers, AppendFails(w) PROVE TypeOK'
  <2>1. batch[w].lo .. batch[w].hi \subseteq Nat
    BY DEF TypeOK
  <2>2. DOMAIN logs' = DOMAIN logs /\ logs' \in [DOMAIN logs -> SUBSET Nat]
    BY <1>4, <2>1 DEF AppendFails, TypeOK
  <2> QED
    BY Zenon, <1>4, <2>2 DEF AppendFails, TypeOK, PC, Procs, engine, flusher, history
<1>5. ASSUME NEW w \in Writers, Apply(w) PROVE TypeOK'
  <2>1. batch[w].lo .. batch[w].hi \subseteq Nat /\ batch[w].hi \in Nat
    BY DEF TypeOK
  <2>2. active' \in Memtables
    BY Zenon, <1>5, <2>1 DEF Apply, ApplyTo, TypeOK, Memtables
  <2>3. pc' \in [Procs -> PC] /\ visible_seq' \in Nat /\ acked' \subseteq Nat
    BY <1>5, <2>1 DEF Apply, TypeOK, PC, Procs
  <2> QED
    BY <1>5, <2>2, <2>3 DEF Apply, TypeOK, durable, wal, flusher
<1>6. ASSUME NEW a \in Admins, Admin(a) PROVE TypeOK'
  <2>1. pc' \in [Procs -> PC]
    BY <1>6 DEF Admin, Flush, Close, CloseRotate, Drained, DrainFails, TypeOK, PC, Procs
  <2>2. CASE Flush(a) \/ CloseRotate(a)
    BY <2>1, <2>2 DEF Flush, CloseRotate, TypeOK, durable, engine, wal, flusher, history
  <2>3. CASE Close(a) \/ Drained(a) \/ DrainFails(a)
    BY Zenon, <2>1, <2>3 DEF Close, Drained, DrainFails, TypeOK, durable, engine, wal, flusher, history
  <2> QED
    BY <1>6, <2>2, <2>3 DEF Admin
<1>7. ASSUME NEW p \in Procs, RotateMemtable(p) PROVE TypeOK'
  <2>1. active' \in Memtables
    BY <1>7 DEF RotateMemtable, NewMemtable, TypeOK, Memtables
  <2>2. pc' \in [Procs -> PC]
    BY <1>7 DEF RotateMemtable, TypeOK, PC
  <2> QED
    BY <1>7, <2>1, <2>2 DEF RotateMemtable, TypeOK, durable, wal, flusher, history
<1>8. ASSUME NEW p \in Procs, RotateWal(p) PROVE TypeOK'
  <2>1. pc' \in [Procs -> PC]
    BY <1>8 DEF RotateWal, AfterRotate, TypeOK, PC
  <2>2. closed_logs' \subseteq ClosedLogs
    BY <1>8 DEF RotateWal, TypeOK, ClosedLogs
  <2>3. DOMAIN logs' \subseteq Nat /\ logs' \in [DOMAIN logs' -> SUBSET Nat]
    BY <1>8 DEF RotateWal, TypeOK
  <2> QED
    BY Zenon, <1>8, <2>1, <2>2, <2>3 DEF RotateWal, TypeOK, engine, flusher, history
<1>9. ASSUME NEW p \in Procs, RotateWalFails(p) PROVE TypeOK'
  BY <1>9 DEF RotateWalFails, TypeOK, PC, durable, engine, wal, flusher, history
<1>10. ASSUME NEW m \in immutable, PickImmutable(m) PROVE TypeOK'
  BY <1>10 DEF PickImmutable, DropFlushed, TypeOK, durable, wal, tasks, history
<1>11. ASSUME CommitFlush \/ FlushFails \/ Install \/ EndSweep PROVE TypeOK'
  BY <1>11 DEF CommitFlush, FlushFails, Install, EndSweep, TypeOK, Memtables,
               durable, engine, wal, tasks, history
<1>12. ASSUME MarkFlushed \/ DropMemtable PROVE TypeOK'
  BY <1>12 DEF MarkFlushed, DropMemtable, DropFlushed, TypeOK, durable, engine, wal, tasks, history
<1>13. ASSUME NEW c \in to_delete, UnlinkLog(c) PROVE TypeOK'
  <2>1. DOMAIN logs' \subseteq DOMAIN logs /\ logs' \in [DOMAIN logs' -> SUBSET Nat]
    BY <1>13 DEF UnlinkLog, TypeOK
  <2>2. to_delete' \subseteq ClosedLogs
    BY <1>13 DEF UnlinkLog, TypeOK
  <2> QED
    BY <1>13, <2>1, <2>2 DEF UnlinkLog, TypeOK, engine, wal, tasks, history
<1>14. ASSUME NEW c \in to_delete, UnlinkFails(c) PROVE TypeOK'
  <2>1. [log |-> c.log, max |-> c.max, pos |-> 2 * log_number] \in ClosedLogs
    <3>1. c \in ClosedLogs /\ 2 * log_number \in Nat
      BY DEF TypeOK
    <3> QED
      BY <3>1 DEF ClosedLogs
  <2> QED
    BY <1>14, <2>1 DEF UnlinkFails, TypeOK, durable, engine, tasks, history
<1>15. ASSUME Crash PROVE TypeOK'
  <2>1. NewMemtable(0, 1) \in Memtables /\ NewMemtable(0, 0) \in Memtables
    BY DEF NewMemtable, Memtables
  <2>2. pc' \in [Procs -> PC] /\ batch' \in [Writers -> [lo : Nat, hi : Nat]]
    BY <1>15 DEF Crash, PC
  <2>3. crashes' \in 0 .. MaxCrash
    BY <1>15 DEF Crash, TypeOK
  <2>4. active' \in Memtables /\ fmem' \in Memtables
    BY <1>15, <2>1 DEF Crash
  <2> QED
    BY Zenon, <1>15, <2>2, <2>3, <2>4 DEF Crash, TypeOK, durable
<1>16. ASSUME Open PROVE TypeOK'
  <2>1. InWal \subseteq Nat /\ Recoverable \subseteq Nat
    BY DEF InWal, Recoverable, TypeOK
  <2>2. PICK wal_max \in InWal \cup {0}, top \in SeenNumbers,
             last_log \in DOMAIN logs \cup {0} : OpenWith(wal_max, top, last_log)
    BY <1>16 DEF Open
  <2>3. wal_max \in Nat /\ top \in Nat /\ last_log \in Nat
    BY <2>1 DEF TypeOK, SeenNumbers, Recoverable, InWal
  <2>4. active' \in Memtables
    BY <2>1, <2>2, <2>3 DEF OpenWith, NewMemtable, Memtables
  <2>5. closed_logs' \subseteq ClosedLogs
    BY <2>2, <2>3 DEF OpenWith, ClosedLogs, TypeOK
  <2>6. DOMAIN logs' \subseteq Nat /\ logs' \in [DOMAIN logs' -> SUBSET Nat]
    BY <2>2, <2>3 DEF OpenWith, TypeOK
  <2> QED
    BY <1>16, <2>2, <2>3, <2>4, <2>5, <2>6 DEF Open, OpenWith, TypeOK, flusher, tasks, history
<1>17. ASSUME UNCHANGED vars PROVE TypeOK'
  BY <1>17 DEF vars, TypeOK, durable, engine, wal, flusher, tasks, history
<1> QED
  BY Zenon, <1>1, <1>2, <1>3, <1>4, <1>5, <1>6, <1>7, <1>8, <1>9, <1>10, <1>11, <1>12, <1>13,
     <1>14, <1>15, <1>16, <1>17 DEF Next, Write, Rotate, RunFlush

(* The locks exclude each other and, in the safe regime, the application's *)
(* administrative calls exclude its writes.                                *)
LEMMA LocksInductive == SafeRegime /\ TypeOK /\ LocksInv /\ AckedInv /\ [Next]_vars => LocksInv'
<1> SUFFICES ASSUME SafeRegime, TypeOK, LocksInv, AckedInv, [Next]_vars PROVE LocksInv'
  OBVIOUS
<1> USE ProcsAssumption DEF LocksInv, InFlight, AllIdle, Procs
<1>0. /\ pc \in [Procs -> PC] /\ ~ConcurrentAdmin /\ ~TornAppends
      /\ ~(ManualFlush /\ IOErrors)
  BY DEF TypeOK, SafeRegime
<1>1. ASSUME NEW w \in Writers, BeginWrite(w) PROVE LocksInv'
  BY <1>0, <1>1 DEF BeginWrite, MayWrite, engine, wal, flusher
<1>2. ASSUME NEW w \in Writers, PassStall(w) \/ AutoRotate(w) PROVE LocksInv'
  BY <1>0, <1>2 DEF PassStall, AutoRotate, RotationLockFree, engine, wal, flusher
<1>3. ASSUME NEW w \in Writers, NEW n \in 1 .. MaxBatch, Allocate(w, n) PROVE LocksInv'
  BY Zenon, <1>0, <1>3 DEF Allocate, WalLockFree, wal, flusher
<1>4. ASSUME NEW w \in Writers, Append(w) \/ AppendFails(w) \/ Apply(w) PROVE LocksInv'
  BY <1>0, <1>4 DEF Append, AppendFails, Apply, engine, wal, flusher
<1>5. ASSUME NEW a \in Admins, Flush(a) \/ Close(a) PROVE LocksInv'
  BY <1>0, <1>5 DEF Flush, Close, MayAdmin, RotationLockFree, engine, wal, flusher
<1>6. ASSUME NEW a \in Admins, CloseRotate(a) \/ Drained(a) \/ DrainFails(a)
      PROVE  LocksInv'
  BY <1>0, <1>6 DEF CloseRotate, Drained, DrainFails, RotationLockFree, engine, wal, flusher
<1>7. ASSUME NEW p \in Procs, RotateMemtable(p) PROVE LocksInv'
  BY Zenon, <1>0, <1>7 DEF RotateMemtable, wal, flusher
<1>8. ASSUME NEW p \in Procs, RotateWal(p) \/ RotateWalFails(p) PROVE LocksInv'
  BY <1>0, <1>8 DEF RotateWal, RotateWalFails, AfterRotate, engine, wal, flusher
<1>9. ASSUME NEW m \in immutable, PickImmutable(m) PROVE LocksInv'
  BY Zenon, <1>9 DEF PickImmutable, wal, tasks
<1>10. ASSUME CommitFlush \/ FlushFails \/ Install \/ EndSweep \/ DropMemtable PROVE LocksInv'
  BY <1>10 DEF CommitFlush, FlushFails, Install, EndSweep, DropMemtable, engine, wal, tasks
<1>11. ASSUME MarkFlushed PROVE LocksInv'
  BY Zenon, <1>11 DEF MarkFlushed, WalLockFree, engine, wal, tasks
<1>12. ASSUME NEW c \in to_delete, UnlinkLog(c) \/ UnlinkFails(c) PROVE LocksInv'
  BY <1>12 DEF UnlinkLog, UnlinkFails, engine, wal, tasks
<1>13. ASSUME Crash PROVE LocksInv'
  BY <1>13 DEF Crash
<1>14. ASSUME Open PROVE LocksInv'
  BY <1>14 DEF Open, AckedInv, flusher, tasks
<1>15. ASSUME UNCHANGED vars PROVE LocksInv'
  BY <1>15 DEF vars, engine, wal, flusher, tasks
<1> QED
  BY Zenon, <1>1, <1>2, <1>3, <1>4, <1>5, <1>6, <1>7, <1>8, <1>9, <1>10, <1>11, <1>12, <1>13,
     <1>14, <1>15 DEF Next, Write, Admin, Rotate, RunFlush

(* Numbers reach the memtables in the order of their allocation: a rotation *)
(* between the allocation of a batch and its apply only moves the batch to  *)
(* the next memtable.                                                       *)
LEMMA OrderInductive ==
  SafeRegime /\ TypeOK /\ LocksInv /\ OrderInv /\ AckedInv /\ [Next]_vars => OrderInv'
<1> SUFFICES ASSUME SafeRegime, TypeOK, LocksInv, OrderInv, AckedInv, [Next]_vars
             PROVE  OrderInv'
  OBVIOUS
<1> USE ProcsAssumption DEF OrderInv, InFlight, Procs
<1>0. /\ pc \in [Procs -> PC] /\ global_seq \in Nat /\ MaxBatch \in Nat
      /\ active \in Memtables /\ immutable \subseteq Memtables
      /\ batch \in [Writers -> [lo : Nat, hi : Nat]]
  BY Zenon, SizesAssumption DEF TypeOK
<1>1. ASSUME NEW w \in Writers, BeginWrite(w) \/ PassStall(w) \/ AutoRotate(w) PROVE OrderInv'
  BY <1>0, <1>1 DEF BeginWrite, PassStall, AutoRotate, engine
<1>2. ASSUME NEW w \in Writers, NEW n \in 1 .. MaxBatch, Allocate(w, n) PROVE OrderInv'
  BY <1>0, <1>2 DEF Allocate, NextBatch, WalLockFree, Memtables
<1>3. ASSUME NEW w \in Writers, Append(w) \/ AppendFails(w) PROVE OrderInv'
  BY <1>0, <1>3 DEF Append, AppendFails, engine
<1>4. ASSUME NEW w \in Writers, Apply(w) PROVE OrderInv'
  <2>1. /\ active' = [active EXCEPT !.recs = active.recs \cup (batch[w].lo .. batch[w].hi),
                                    !.last = active'.last]
        /\ active'.gen = active.gen
        /\ active'.recs = active.recs \cup (batch[w].lo .. batch[w].hi)
    BY Zenon, <1>0, <1>4 DEF Apply, ApplyTo, Memtables
  <2>2. \A v \in Writers : ~InFlight(v)'
    BY SMTT(30), <1>0, <1>4 DEF Apply, LocksInv
  <2> QED
    BY <1>0, <1>4, <2>1, <2>2 DEF Apply, Memtables
<1>5. ASSUME NEW a \in Admins, Admin(a) PROVE OrderInv'
  BY ZenonT(30), <1>0, <1>5 DEF Admin, Flush, Close, CloseRotate, Drained, DrainFails, engine
<1>6. ASSUME NEW p \in Procs, RotateMemtable(p) PROVE OrderInv'
  <2>1. active'.recs = {} /\ active'.gen = active.gen + 1
    BY Zenon, <1>6 DEF RotateMemtable, NewMemtable
  <2>2. \A w \in Writers : InFlight(w)' <=> InFlight(w)
    BY Zenon, <1>0, <1>6 DEF RotateMemtable
  <2> QED
    BY <1>0, <1>6, <2>1, <2>2 DEF RotateMemtable, Memtables
<1>7. ASSUME NEW p \in Procs, RotateWal(p) \/ RotateWalFails(p) PROVE OrderInv'
  BY Zenon, <1>0, <1>7 DEF RotateWal, RotateWalFails, AfterRotate, engine
<1>8. ASSUME NEW m \in immutable, PickImmutable(m) PROVE OrderInv'
  BY <1>8 DEF PickImmutable, DropFlushed, tasks
<1>9. ASSUME CommitFlush \/ FlushFails \/ Install \/ EndSweep \/ MarkFlushed PROVE OrderInv'
  BY ZenonT(30), <1>9 DEF CommitFlush, FlushFails, Install, EndSweep, MarkFlushed, engine, tasks
<1>10. ASSUME NEW c \in to_delete, UnlinkLog(c) \/ UnlinkFails(c) PROVE OrderInv'
  BY <1>10 DEF UnlinkLog, UnlinkFails, engine, tasks
<1>11. ASSUME DropMemtable PROVE OrderInv'
  BY <1>11 DEF DropMemtable, DropFlushed, tasks
<1>12. ASSUME Crash PROVE OrderInv'
  BY Zenon, <1>12 DEF Crash, NewMemtable
<1>13. ASSUME Open PROVE OrderInv'
  <2>1. immutable' = {} /\ \A w \in Writers : ~InFlight(w)'
    BY Zenon, <1>13 DEF Open, AckedInv, AllIdle, tasks
  <2> QED
    BY <1>13, <2>1, OpenFacts
<1>14. ASSUME UNCHANGED vars PROVE OrderInv'
  BY <1>14 DEF vars, engine, tasks
<1> QED
  BY ZenonT(30), <1>1, <1>2, <1>3, <1>4, <1>5, <1>6, <1>7, <1>8, <1>9, <1>10, <1>11, <1>12, <1>13,
     <1>14 DEF Next, Write, Rotate, RunFlush

(* first_seq is at most one batch and one number above what the memtable    *)
(* receives first, wherever the writer in flight was when it was read.      *)
LEMMA FirstInductive ==
  SafeRegime /\ TypeOK /\ LocksInv /\ OrderInv /\ FirstInv /\ AckedInv /\ [Next]_vars => FirstInv'
<1> SUFFICES ASSUME SafeRegime, TypeOK, LocksInv, OrderInv, FirstInv, AckedInv, [Next]_vars
             PROVE  FirstInv'
  OBVIOUS
<1> USE ProcsAssumption DEF FirstInv, Near, InFlight, Procs
<1>0. /\ pc \in [Procs -> PC] /\ global_seq \in Nat /\ MaxBatch \in Nat /\ next_seq \in Nat
      /\ active \in [gen : Nat, first : Nat, last : Nat, recs : SUBSET Nat]
      /\ batch \in [Writers -> [lo : Nat, hi : Nat]]
  BY Zenon, SizesAssumption DEF TypeOK, Memtables
<1>1. ASSUME NEW w \in Writers, BeginWrite(w) \/ PassStall(w) PROVE FirstInv'
  BY ZenonT(30), <1>0, <1>1 DEF BeginWrite, PassStall, engine
<1>2. ASSUME NEW w \in Writers, NEW n \in 1 .. MaxBatch, Allocate(w, n) PROVE FirstInv'
  BY <1>0, <1>2 DEF Allocate, NextBatch, WalLockFree
<1>3. ASSUME NEW w \in Writers, Append(w) \/ AppendFails(w) PROVE FirstInv'
  BY ZenonT(30), <1>0, <1>3 DEF Append, AppendFails, engine
<1>4. ASSUME NEW w \in Writers, Apply(w) PROVE FirstInv'
  <2>1. /\ active'.gen = active.gen /\ active'.first = active.first
        /\ active'.recs = active.recs \cup (batch[w].lo .. batch[w].hi)
    BY Zenon, <1>0, <1>4 DEF Apply, ApplyTo
  <2>2. \A v \in Writers : ~InFlight(v)'
    BY Zenon, <1>0, <1>4 DEF Apply, LocksInv
  <2> QED
    BY <1>0, <1>4, <2>1, <2>2 DEF Apply
<1>5. ASSUME global_seq + 1 = next_seq', UNCHANGED <<active, global_seq, batch>>,
             \A w \in Writers : InFlight(w)' = InFlight(w)
      PROVE  FirstInv'
  <2>1. \A w \in Writers : InFlight(w) => global_seq + 1 <= batch[w].lo + MaxBatch + 1
    BY <1>0 DEF OrderInv
  <2> QED
    BY <1>0, <1>5, <2>1
<1>6. ASSUME NEW w \in Writers, AutoRotate(w) PROVE FirstInv'
  BY SMTT(30), <1>0, <1>5, <1>6 DEF AutoRotate, engine
<1>7. ASSUME NEW a \in Admins, Admin(a) PROVE FirstInv'
  BY ZenonT(30), <1>0, <1>5, <1>7 DEF Admin, Flush, Close, CloseRotate, Drained, DrainFails, engine
<1>8. ASSUME NEW p \in Procs, RotateMemtable(p) PROVE FirstInv'
  <2>1. active'.recs = {} /\ active'.gen > 0 /\ active'.first = next_seq
    BY <1>0, <1>8 DEF RotateMemtable, NewMemtable
  <2>2. Near(next_seq) /\ \A w \in Writers : InFlight(w)' = InFlight(w)
    BY SMTT(30), <1>0, <1>8 DEF RotateMemtable
  <2>3. UNCHANGED <<global_seq, next_seq, batch>>
    BY Zenon, <1>8 DEF RotateMemtable
  <2>4. Near(next_seq)'
    BY Zenon, <2>2, <2>3
  <2> QED
    BY <1>0, <2>1, <2>3, <2>4
<1>9. ASSUME NEW p \in Procs, RotateWal(p) \/ RotateWalFails(p) PROVE FirstInv'
  BY <1>0, <1>9 DEF RotateWal, RotateWalFails, AfterRotate, engine
<1>10. ASSUME RunFlush PROVE FirstInv'
  BY Zenon, <1>10 DEF RunFlush, PickImmutable, CommitFlush, FlushFails, Install, EndSweep, MarkFlushed,
               UnlinkLog, UnlinkFails, DropMemtable, engine, tasks
<1>11. ASSUME Crash PROVE FirstInv'
  BY <1>11 DEF Crash, NewMemtable
<1>12. ASSUME Open PROVE FirstInv'
  <2>1. \A p \in Procs : pc'[p] = "idle"
    BY Zenon, <1>12 DEF Open, AckedInv, AllIdle, tasks
  <2> QED
    BY <1>12, <2>1, OpenFacts
<1>13. ASSUME UNCHANGED vars PROVE FirstInv'
  BY Zenon, <1>13 DEF vars, engine, tasks
<1> QED
  BY Zenon, <1>1, <1>2, <1>3, <1>4, <1>6, <1>7, <1>8, <1>9, <1>10, <1>11, <1>12, <1>13
     DEF Next, Write, Rotate

-----------------------------------------------------------------------------
(* What the memtables and the running flush hold. *)

(* last_seq of a memtable is its first_seq or its highest record. *)
LEMMA LastInductive == TypeOK /\ LastInv /\ AckedInv /\ OrderInv /\ [Next]_vars => LastInv'
<1> SUFFICES ASSUME TypeOK, LastInv, AckedInv, OrderInv, [Next]_vars PROVE LastInv'
  OBVIOUS
<1> USE DEF LastInv
<1>0. /\ active \in Memtables /\ immutable \subseteq Memtables
      /\ batch \in [Writers -> [lo : Nat, hi : Nat]]
  BY DEF TypeOK
<1>1. ASSUME NEW w \in Writers, Apply(w), pc[w] = "appended" PROVE LastInv'
  <2>1. batch[w].lo \in Nat /\ batch[w].hi \in Nat /\ batch[w].lo <= batch[w].hi
    BY <1>0, <1>1 DEF OrderInv, InFlight
  <2>2. /\ active'.recs = active.recs \cup (batch[w].lo .. batch[w].hi)
        /\ active'.last = IF batch[w].hi > active.last THEN batch[w].hi ELSE active.last
        /\ active'.first = active.first
    BY ZenonT(30), <1>0, <1>1 DEF Apply, ApplyTo, Memtables
  <2>3. immutable' = immutable
    BY <1>1 DEF Apply
  <2> QED
    BY <1>0, <2>1, <2>2, <2>3 DEF Memtables
<1>2. ASSUME NEW p \in Procs, RotateMemtable(p) PROVE LastInv'
  <2>1. next_seq \in Nat
    BY Zenon DEF TypeOK
  <2>2. active'.recs = {} /\ active'.last = next_seq /\ active'.first = next_seq
    BY <1>2 DEF RotateMemtable, NewMemtable
  <2> QED
    BY <1>2, <2>1, <2>2 DEF RotateMemtable
<1>3. ASSUME immutable' \subseteq immutable, UNCHANGED active PROVE LastInv'
  BY ZenonT(30), <1>3
<1>4. ASSUME NEW w \in Writers, Write(w), ~Apply(w) PROVE LastInv'
  BY <1>3, <1>4 DEF Write, BeginWrite, PassStall, Allocate, Append, AppendFails, AutoRotate, engine
<1>5. ASSUME NEW a \in Admins, Admin(a) PROVE LastInv'
  BY Zenon, <1>3, <1>5 DEF Admin, Flush, Close, CloseRotate, Drained, DrainFails, engine
<1>6. ASSUME NEW p \in Procs, RotateWal(p) \/ RotateWalFails(p) PROVE LastInv'
  BY Zenon, <1>3, <1>6 DEF RotateWal, RotateWalFails, engine
<1>7. ASSUME RunFlush PROVE LastInv'
  BY ZenonT(30), <1>3, <1>7 DEF RunFlush, PickImmutable, CommitFlush, FlushFails, Install, EndSweep, MarkFlushed,
                    UnlinkLog, UnlinkFails, DropMemtable, DropFlushed, engine
<1>8. ASSUME Crash PROVE LastInv'
  <2>1. immutable' = {} /\ active' = [gen |-> 0, first |-> 1, last |-> 1, recs |-> {}]
    BY Zenon, <1>8 DEF Crash, NewMemtable
  <2> QED
    BY <2>1
<1>9. ASSUME Open PROVE LastInv'
  <2>1. immutable' = {}
    BY <1>9 DEF Open, AckedInv
  <2>2. \A s \in active'.recs : s <= active'.last
    BY <1>9, OpenFacts
  <2> QED
    BY <1>9, <2>1, <2>2, OpenFacts
<1>10. ASSUME UNCHANGED vars PROVE LastInv'
  BY ZenonT(30), <1>3, <1>10 DEF vars, engine
<1>11. ASSUME NEW w \in Writers, Write(w) PROVE LastInv'
  BY <1>1, <1>4, <1>11 DEF Apply
<1> QED
  BY <1>2, <1>5, <1>6, <1>7, <1>8, <1>9, <1>10, <1>11 DEF Next, Rotate

(* While the application waits, nothing but its own return ends the wait. *)
LEMMA HeldStays ==
  ASSUME SafeRegime, TypeOK, LocksInv, Next, Held, up, up', immutable' # {}
  PROVE  Held'
<1> USE ProcsAssumption DEF Held, AllIdle, Procs
<1>0. /\ pc \in [Procs -> PC] /\ ~ConcurrentAdmin /\ ~(ManualFlush /\ IOErrors)
  BY ZenonT(30) DEF TypeOK, SafeRegime
<1>1. ASSUME NEW w \in Writers, Write(w) PROVE FALSE
  BY <1>0, <1>1 DEF Write, BeginWrite, PassStall, Allocate, Append, AppendFails, Apply,
                    AutoRotate, MayWrite
<1>2. ASSUME NEW a \in Admins, Flush(a) \/ CloseRotate(a) PROVE Held'
  BY Zenon, <1>0, <1>2 DEF Flush, CloseRotate, engine
<1>3. ASSUME NEW a \in Admins, Close(a) PROVE Held'
  BY Zenon, <1>0, <1>3 DEF Close
<1>4. ASSUME NEW a \in Admins, Drained(a) \/ DrainFails(a) PROVE Held'
  <2>1. CASE Drained(a)
    BY Zenon, <2>1 DEF Drained, engine
  <2>2. CASE DrainFails(a)
    <3>1. closed
      BY Zenon, <1>0, <2>2 DEF DrainFails, LocksInv
    <3> QED
      BY <1>0, <2>2, <3>1 DEF DrainFails, engine
  <2> QED
    BY Zenon, <1>4, <2>1, <2>2
<1>5. ASSUME NEW p \in Procs, RotateMemtable(p) PROVE Held'
  BY ZenonT(30), <1>0, <1>5 DEF RotateMemtable, NewMemtable
<1>6. ASSUME NEW p \in Procs, RotateWal(p) PROVE Held'
  BY <1>0, <1>6 DEF RotateWal, AfterRotate, engine
<1>7. ASSUME NEW p \in Procs, RotateWalFails(p) PROVE Held'
  <2>1. p \in Admins /\ closed
    BY <1>0, <1>7 DEF RotateWalFails, LocksInv
  <2> QED
    BY ZenonT(30), <1>0, <1>7, <2>1 DEF RotateWalFails, engine
<1>8. ASSUME RunFlush PROVE Held'
  BY Zenon, <1>8 DEF RunFlush, PickImmutable, CommitFlush, FlushFails, Install, EndSweep, MarkFlushed,
              UnlinkLog, UnlinkFails, DropMemtable, engine, tasks
<1>9. ASSUME Crash \/ Open PROVE Held'
  BY <1>9 DEF Crash, Open, tasks
<1> QED
  BY Zenon, <1>1, <1>2, <1>3, <1>4, <1>5, <1>6, <1>7, <1>8, <1>9 DEF Next, Admin, Rotate

(* Sealed memtables: a step that seals none keeps what is known of them. *)
LEMMA SealedKept ==
  ASSUME SafeRegime, TypeOK, LocksInv, SealedInv, Next, up, up',
         immutable' \subseteq immutable, active'.first = active.first,
         \A a \in Admins : pc'[a] = "rotating" => active.first <= next_seq'
  PROVE  SealedInv'
<1> USE DEF SealedInv
<1>1. \A m \in immutable' : LastWithRecords(m) => LastWithRecords(m)'
  BY Zenon DEF LastWithRecords
<1>2. immutable' # {} => (Held => Held')
  BY Zenon, HeldStays
<1>3. \A m \in immutable' : Filled(m) \/ (Held' /\ LastWithRecords(m)')
  BY Zenon, <1>1, <1>2
<1>4. \A m \in immutable' : m.first < active'.first \/ (Held' /\ LastWithRecords(m)')
  BY <1>1, <1>2
<1> QED
  BY ZenonT(30), <1>3, <1>4 DEF Filled

(* A rotation by a writer seals a filled memtable, with a higher first_seq   *)
(* than those before it; one by flush() or close() seals whatever there is,  *)
(* and the application waits until it is flushed.                            *)
LEMMA SealedInductive ==
  SafeRegime /\ TypeOK /\ LocksInv /\ OrderInv /\ FirstInv /\ FilledInv /\ SealedInv /\ AckedInv
  /\ [Next]_vars => SealedInv'
<1> SUFFICES ASSUME SafeRegime, TypeOK, LocksInv, OrderInv, FirstInv, FilledInv, SealedInv,
                    AckedInv, [Next]_vars
             PROVE  SealedInv'
  OBVIOUS
<1> USE ProcsAssumption DEF Procs
<1>0. /\ pc \in [Procs -> PC] /\ global_seq \in Nat /\ next_seq \in Nat
      /\ active \in [gen : Nat, first : Nat, last : Nat, recs : SUBSET Nat]
      /\ immutable \subseteq [gen : Nat, first : Nat, last : Nat, recs : SUBSET Nat]
  BY Zenon DEF TypeOK, Memtables
<1>1. active.first <= global_seq + 1
  BY <1>0 DEF FirstInv, Near
<1>2. ASSUME NEW w \in Writers, Write(w) PROVE SealedInv'
  <2>0. up /\ up'
    BY Zenon, <1>2, WriteUp
  <2>1. immutable' = immutable /\ active'.first = active.first
    BY Zenon, <1>0, <1>2 DEF Write, BeginWrite, PassStall, Allocate, Append, AppendFails, Apply,
                      ApplyTo, AutoRotate, engine
  <2>2. \A a \in Admins : pc'[a] = pc[a]
    BY Zenon, <1>0, <1>2 DEF Write, BeginWrite, PassStall, Allocate, Append, AppendFails, Apply, AutoRotate
  <2>3. \A a \in Admins : pc[a] = "rotating" => next_seq' = next_seq
    BY <1>0, <1>2 DEF Write, BeginWrite, PassStall, Allocate, Append, AppendFails, Apply,
                      AutoRotate, RotationLockFree
  <2>4. Next
    BY <1>2 DEF Next
  <2> QED
    BY Zenon, <2>0, <2>1, <2>2, <2>3, <2>4, SealedKept DEF SealedInv
<1>3. ASSUME NEW a \in Admins, Admin(a) PROVE SealedInv'
  <2>0. up /\ up'
    BY Zenon, <1>3, AdminUp
  <2>1. immutable' = immutable /\ active'.first = active.first
    BY Zenon, <1>3 DEF Admin, Flush, Close, CloseRotate, Drained, DrainFails, engine
  <2>2. \A b \in Admins : pc'[b] = "rotating" => active.first <= next_seq'
    BY <1>0, <1>1, <1>3 DEF Admin, Flush, Close, CloseRotate, Drained, DrainFails,
                            RotationLockFree, SealedInv
  <2>3. Next
    BY <1>3 DEF Next
  <2> QED
    BY Zenon, <2>0, <2>1, <2>2, <2>3, SealedKept
<1>4. ASSUME NEW p \in Procs, RotateWal(p) \/ RotateWalFails(p) PROVE SealedInv'
  <2>0. up /\ up'
    BY Zenon, <1>4, RotateUp DEF Rotate
  <2>1. immutable' = immutable /\ active'.first = active.first
    BY Zenon, <1>4 DEF RotateWal, RotateWalFails, engine
  <2>2. \A b \in Admins : pc'[b] = "rotating" => active.first <= next_seq'
    BY <1>0, <1>4 DEF RotateWal, RotateWalFails, AfterRotate, SealedInv
  <2>3. Next
    BY <1>4 DEF Next, Rotate
  <2> QED
    BY Zenon, <2>0, <2>1, <2>2, <2>3, SealedKept
<1>5. ASSUME RunFlush PROVE SealedInv'
  <2>0. up /\ up'
    BY <1>5, RunFlushUp
  <2>1. immutable' \subseteq immutable /\ active'.first = active.first
    BY Zenon, <1>5 DEF RunFlush, PickImmutable, CommitFlush, FlushFails, Install, EndSweep, MarkFlushed,
                UnlinkLog, UnlinkFails, DropMemtable, DropFlushed, engine
  <2>2. \A b \in Admins : pc'[b] = "rotating" => active.first <= next_seq'
    BY Zenon, <1>5 DEF RunFlush, PickImmutable, CommitFlush, FlushFails, Install, EndSweep, MarkFlushed,
                UnlinkLog, UnlinkFails, DropMemtable, tasks, SealedInv
  <2>3. Next
    BY <1>5 DEF Next
  <2> QED
    BY <2>0, <2>1, <2>2, <2>3, SealedKept
<1>6. ASSUME NEW p \in Procs, RotateMemtable(p) PROVE SealedInv'
  <2>1. /\ immutable' = immutable \cup {active} /\ active'.first = next_seq
        /\ active'.recs = {} /\ closed' = closed
    BY <1>6 DEF RotateMemtable, NewMemtable
  <2>2. \A a \in Admins : pc'[a] # "rotating"
    BY Zenon, <1>0, <1>6 DEF RotateMemtable, LocksInv
  <2>3. \A m \in immutable : m.gen < active.gen
    BY Zenon DEF OrderInv
  <2>4. CASE p \in Writers
    <3>1. ~Held
      BY <1>6, <2>4 DEF RotateMemtable, Held, AllIdle
    <3>2. Filled(active) /\ active.first < next_seq
      BY Zenon, <1>6, <2>4 DEF RotateMemtable, FilledInv
    <3>3. \A m \in immutable : Filled(m) /\ m.first < active.first
      BY Zenon, <3>1 DEF SealedInv
    <3>4. \A m, o \in immutable' : m.gen < o.gen /\ o.first <= m.first => o.recs = {}
      BY <1>0, <2>1, <2>3, <3>3 DEF SealedInv
    <3> QED
      BY <1>0, <2>1, <2>2, <3>2, <3>3, <3>4 DEF SealedInv, Filled
  <2>5. CASE p \in Admins
    <3>1. Held'
      BY Zenon, <1>0, <1>6, <2>1, <2>5 DEF RotateMemtable, Held, AllIdle, LocksInv
    <3>2. \A o \in immutable' : active.gen < o.gen => o.recs = {}
      BY <1>0, <2>1, <2>3
    <3>3. \A m \in immutable : Held /\ LastWithRecords(m) => LastWithRecords(m)'
      BY Zenon, <2>1 DEF Held, LastWithRecords
    <3>4. active.first <= next_seq
      BY Zenon, <1>6, <2>5 DEF RotateMemtable, SealedInv
    <3>5. \A m \in immutable : Filled(m) \/ LastWithRecords(m)'
      BY <3>3 DEF SealedInv
    <3>6. \A m \in immutable : m.first < next_seq \/ LastWithRecords(m)'
      BY <1>0, <3>3, <3>4 DEF SealedInv
    <3>7. \A m, o \in immutable' : m.gen < o.gen /\ o.first <= m.first => o.recs = {}
      BY <1>0, <2>1, <2>3 DEF SealedInv, Held
    <3>8. /\ \A m \in immutable' : Filled(m) \/ (Held' /\ LastWithRecords(m)')
          /\ \A m \in immutable' : m.first < active'.first \/ (Held' /\ LastWithRecords(m)')
      BY Zenon, <2>1, <3>1, <3>2, <3>5, <3>6 DEF LastWithRecords
    <3> QED
      BY Zenon, <2>2, <3>7, <3>8 DEF SealedInv, Filled
  <2> QED
    BY Zenon, <2>4, <2>5
<1>7. ASSUME Crash PROVE SealedInv'
  BY Zenon, <1>7 DEF Crash, SealedInv
<1>8. ASSUME Open PROVE SealedInv'
  BY SMTT(30), <1>8 DEF Open, AckedInv, tasks, SealedInv
<1>9. ASSUME UNCHANGED vars PROVE SealedInv'
  BY Zenon, <1>9 DEF vars, engine, tasks, SealedInv, Filled, Held, AllIdle, LastWithRecords
<1> QED
  BY Zenon, <1>2, <1>3, <1>4, <1>5, <1>6, <1>7, <1>8, <1>9 DEF Next, Rotate

(* The memtable being flushed stays the oldest: rotation seals newer ones,   *)
(* and only the flusher takes memtables out of the queue.                    *)
LEMMA FlushInductive ==
  TypeOK /\ OrderInv /\ FlushInv /\ AckedInv /\ [Next]_vars => FlushInv'
<1> SUFFICES ASSUME TypeOK, OrderInv, FlushInv, AckedInv, [Next]_vars
             PROVE  FlushInv'
  OBVIOUS
<1>0. /\ active \in [gen : Nat, first : Nat, last : Nat, recs : SUBSET Nat]
      /\ immutable \subseteq [gen : Nat, first : Nat, last : Nat, recs : SUBSET Nat]
  BY SMTT(30) DEF TypeOK, Memtables
<1>1. ASSUME UNCHANGED <<flusher, flushed, immutable, installed, up>> PROVE FlushInv'
  BY Zenon, <1>1 DEF FlushInv, IsOldest, flusher
<1>2. ASSUME NEW w \in Writers, Write(w) PROVE FlushInv'
  <2>1. UNCHANGED flusher /\ UNCHANGED <<flushed, immutable, installed>>
    BY ZenonT(30), <1>2 DEF Write, BeginWrite, PassStall, Allocate, Append, AppendFails, Apply, AutoRotate,
                engine, durable
  <2>2. up' = up
    BY Zenon, <1>2 DEF Write, BeginWrite, PassStall, Allocate, Append, AppendFails, Apply, AutoRotate
  <2> QED
    BY SMTT(30), <1>1, <2>1, <2>2
<1>3. ASSUME NEW a \in Admins, Admin(a) PROVE FlushInv'
  <2>1. CASE DrainFails(a)
    BY Zenon, <2>1 DEF DrainFails, FlushInv
  <2>2. CASE ~DrainFails(a)
    <3>1. UNCHANGED flusher /\ UNCHANGED <<flushed, immutable, installed>>
      BY Zenon, <1>3, <2>2 DEF Admin, Flush, Close, CloseRotate, Drained, engine, durable
    <3>2. up' = up
      BY Zenon, <1>3, <2>2 DEF Admin, Flush, Close, CloseRotate, Drained
    <3> QED
      BY <1>1, <3>1, <3>2
  <2> QED
    BY <2>1, <2>2
<1>4. ASSUME NEW p \in Procs, RotateWal(p) \/ RotateWalFails(p) PROVE FlushInv'
  <2>1. UNCHANGED flusher /\ UNCHANGED <<flushed, immutable, installed>>
    BY <1>4 DEF RotateWal, RotateWalFails, engine, durable
  <2>2. up' = up
    BY Zenon, <1>4 DEF RotateWal, RotateWalFails
  <2> QED
    BY Zenon, <1>1, <2>1, <2>2
<1>5. ASSUME NEW p \in Procs, RotateMemtable(p) PROVE FlushInv'
  <2>1. immutable' = immutable \cup {active} /\ UNCHANGED flusher /\ UNCHANGED <<flushed, installed>>
    BY <1>5 DEF RotateMemtable, durable
  <2>2. up /\ up'
    BY Zenon, <1>5 DEF RotateMemtable
  <2>3. fphase # "idle" => \A o \in immutable' : fmem.gen <= o.gen
    BY <1>0, <2>1 DEF FlushInv, IsOldest, OrderInv
  <2> QED
    BY Zenon, <2>1, <2>2, <2>3 DEF FlushInv, IsOldest, flusher
<1>6. ASSUME NEW m \in immutable, PickImmutable(m) PROVE FlushInv'
  <2>1. CASE m.recs = {}
    BY ZenonT(30), <1>6, <2>1 DEF PickImmutable, FlushInv, durable
  <2>2. CASE m.recs # {}
    <3>1. /\ fphase' = "writing" /\ fmem' = m /\ UNCHANGED <<immutable, to_delete, up>>
          /\ up /\ fphase = "idle" /\ IsOldest(m)
      BY Zenon, <1>6, <2>2 DEF PickImmutable
    <3> QED
      BY <2>2, <3>1 DEF FlushInv, IsOldest
  <2> QED
    BY SMTT(30), <2>1, <2>2
<1>7. ASSUME CommitFlush PROVE FlushInv'
  BY Zenon, <1>7 DEF CommitFlush, FlushInv, IsOldest, engine
<1>8. ASSUME FlushFails PROVE FlushInv'
  BY <1>8 DEF FlushFails, FlushInv
<1>9. ASSUME Install PROVE FlushInv'
  BY Zenon, <1>9 DEF Install, FlushInv, IsOldest, durable
<1>10. ASSUME MarkFlushed \/ EndSweep PROVE FlushInv'
  BY Zenon, <1>10 DEF MarkFlushed, EndSweep, FlushInv, IsOldest, engine, durable
<1>11. ASSUME NEW c \in to_delete, UnlinkLog(c) \/ UnlinkFails(c) PROVE FlushInv'
  BY SMTT(30), <1>11 DEF UnlinkLog, UnlinkFails, FlushInv, IsOldest, engine, durable
<1>12. ASSUME DropMemtable PROVE FlushInv'
  BY ZenonT(30), <1>12 DEF DropMemtable, FlushInv
<1>13. ASSUME Crash PROVE FlushInv'
  BY <1>13 DEF Crash, FlushInv
<1>14. ASSUME Open PROVE FlushInv'
  BY Zenon, <1>14 DEF Open, FlushInv, AckedInv, flusher
<1>15. ASSUME UNCHANGED vars PROVE FlushInv'
  BY <1>1, <1>15 DEF vars, engine, durable
<1> QED
  BY Zenon, <1>2, <1>3, <1>4, <1>5, <1>6, <1>7, <1>8, <1>9, <1>10, <1>11, <1>12, <1>13, <1>14, <1>15
     DEF Next, Rotate, RunFlush

----------------------------------------------------------------------------
(***************************************************************************)
(* The logs: what is in memory stays in a live log until a flush has       *)
(* covered it, acknowledged writes stay readable, and the visible frontier *)
(* covers what it should.                                                  *)
(***************************************************************************)

(* A set of at least b + 2 numbers, none more than b + 1 below f, reaches f. *)
LEMMA EnoughRecords ==
  ASSUME NEW f \in Nat, NEW b \in Nat, NEW S \in SUBSET Nat,
         \A s \in S : f <= s + b + 1, Cardinality(S) >= b + 2
  PROVE  \E s \in S : f <= s
<1> SUFFICES ASSUME \A s \in S : s < f PROVE FALSE
  OBVIOUS
<1>1. S \subseteq (f - b - 1) .. (f - 1)
  OBVIOUS
<1>2. /\ IsFiniteSet((f - b - 1) .. (f - 1))
      /\ Cardinality((f - b - 1) .. (f - 1)) = b + 1
  <2>1. f - b - 1 \in Int /\ f - 1 \in Int /\ ~(f - b - 1 > f - 1)
    OBVIOUS
  <2>2. (f - 1) - (f - b - 1) + 1 = b + 1
    OBVIOUS
  <2> QED
    BY Zenon, <2>1, <2>2, FS_Interval
<1>3. Cardinality(S) <= b + 1
  BY Zenon, <1>1, <1>2, FS_Subset
<1>4. Cardinality(S) \in Nat
  <2>1. IsFiniteSet(S)
    BY Zenon, <1>1, <1>2, FS_Subset
  <2> QED
    BY Zenon, <2>1, FS_CardinalityType
<1> QED
  BY <1>3, <1>4

(* A writer that rotates has filled the memtable: it wrote to it itself     *)
(* (the recovered memtable), or the threshold counts enough records.        *)
LEMMA FilledInductive ==
  SafeRegime /\ TypeOK /\ LocksInv /\ OrderInv /\ FirstInv /\ FilledInv /\ AckedInv
  /\ [Next]_vars => FilledInv'
<1> SUFFICES ASSUME SafeRegime, TypeOK, LocksInv, OrderInv, FirstInv, FilledInv, AckedInv,
                    [Next]_vars
             PROVE  FilledInv'
  BY Zenon
<1> USE ProcsAssumption DEF FilledInv, Procs
<1>0. /\ pc \in [Procs -> PC] /\ global_seq \in Nat /\ MaxBatch \in Nat /\ next_seq \in Nat
      /\ active \in [gen : Nat, first : Nat, last : Nat, recs : SUBSET Nat]
      /\ batch \in [Writers -> [lo : Nat, hi : Nat]]
  BY Zenon, SizesAssumption DEF TypeOK, Memtables
<1>1. ASSUME NEW w \in Writers, BeginWrite(w) \/ PassStall(w) PROVE FilledInv'
  BY <1>0, <1>1 DEF BeginWrite, PassStall, Filled, engine
<1>2. ASSUME NEW w \in Writers, NEW n \in 1 .. MaxBatch, Allocate(w, n) PROVE FilledInv'
  BY Zenon, <1>0, <1>2 DEF Allocate, Filled
<1>3. ASSUME NEW w \in Writers, Append(w) \/ AppendFails(w) PROVE FilledInv'
  BY <1>0, <1>3 DEF Append, AppendFails, Filled, engine
<1>4. ASSUME NEW w \in Writers, Apply(w) PROVE FilledInv'
  <2>1. /\ active'.gen = active.gen /\ active'.first = active.first
        /\ active'.recs = active.recs \cup (batch[w].lo .. batch[w].hi)
    BY <1>0, <1>4 DEF Apply, ApplyTo
  <2>2. Filled(active) => Filled(active')
    BY Zenon, <2>1 DEF Filled
  <2>3. active.gen = 0 => Filled(active')
    <3>1. batch[w].lo \in batch[w].lo .. batch[w].hi
      BY <1>0, <1>4 DEF Apply, OrderInv, InFlight
    <3>2. active.gen = 0 => active.first <= batch[w].lo
      BY Zenon, <1>4 DEF Apply, FirstInv, InFlight
    <3> QED
      BY Zenon, <2>1, <3>1, <3>2 DEF Filled
  <2>4. \A v \in Writers : pc'[v] \in {"crossed", "rotating"} =>
          pc'[v] = pc[v] \/ (v = w /\ pc'[v] = "crossed")
    BY Zenon, <1>0, <1>4 DEF Apply
  <2> QED
    BY Zenon, <1>4, <2>1, <2>2, <2>3, <2>4 DEF Apply
<1>5. ASSUME NEW w \in Writers, AutoRotate(w) PROVE FilledInv'
  <2>1. CASE RotationLockFree /\ ShouldFlush(active)
    <3>1. Filled(active)
      <4>1. CASE active.gen = 0
        BY <1>5, <4>1 DEF AutoRotate
      <4>2. CASE active.gen # 0
        <5>1. \A s \in active.recs : active.first <= s + MaxBatch + 1
          BY <1>0, <4>2 DEF FirstInv
        <5>2. Cardinality(active.recs) >= MaxBatch + 2
          <6>1. active.recs \subseteq (active.first - MaxBatch - 1) .. global_seq
            BY <1>0, <5>1 DEF OrderInv
          <6>2. IsFiniteSet((active.first - MaxBatch - 1) .. global_seq)
            BY <1>0, FS_Interval
          <6>3. Cardinality(active.recs) \in Nat
            BY Zenon, <6>1, <6>2, FS_Subset, FS_CardinalityType
          <6> QED
            BY <1>0, <2>1, <6>3, SizesAssumption DEF ShouldFlush, SafeRegime
        <5> QED
          BY Zenon, <1>0, <5>1, <5>2, EnoughRecords DEF Filled
      <4> QED
        BY Zenon, <4>1, <4>2
    <3>2. active.first < global_seq + 1
      BY <1>0, <3>1 DEF Filled, OrderInv
    <3> QED
      BY Zenon, <1>0, <1>5, <2>1, <3>1, <3>2 DEF AutoRotate, RotationLockFree, engine
  <2>2. CASE ~(RotationLockFree /\ ShouldFlush(active))
    BY <1>0, <1>5, <2>2 DEF AutoRotate, engine
  <2> QED
    BY Zenon, <2>1, <2>2
<1>6. ASSUME NEW a \in Admins, Admin(a) PROVE FilledInv'
  <2>1. \A w \in Writers : pc'[w] = pc[w]
    BY Zenon, <1>0, <1>6 DEF Admin, Flush, Close, CloseRotate, Drained, DrainFails
  <2>2. \A w \in Writers : pc[w] = "rotating" => next_seq' = next_seq
    BY Zenon, <1>0, <1>6 DEF Admin, Flush, Close, CloseRotate, Drained, DrainFails, RotationLockFree
  <2> QED
    BY Zenon, <1>6, <2>1, <2>2 DEF Admin, Flush, Close, CloseRotate, Drained, DrainFails, engine
<1>7. ASSUME NEW p \in Procs, RotateMemtable(p) PROVE FilledInv'
  <2>1. active'.gen = active.gen + 1
    BY Zenon, <1>7 DEF RotateMemtable, NewMemtable
  <2>2. \A w \in Writers : pc'[w] # "rotating"
    BY ZenonT(30), <1>0, <1>7 DEF RotateMemtable, LocksInv
  <2> QED
    BY <1>0, <2>1, <2>2
<1>8. ASSUME NEW p \in Procs, RotateWal(p) \/ RotateWalFails(p) PROVE FilledInv'
  BY <1>0, <1>8 DEF RotateWal, RotateWalFails, AfterRotate, engine
<1>9. ASSUME RunFlush PROVE FilledInv'
  BY Zenon, <1>9 DEF RunFlush, PickImmutable, CommitFlush, FlushFails, Install, EndSweep, MarkFlushed,
              UnlinkLog, UnlinkFails, DropMemtable, engine, tasks
<1>10. ASSUME Crash PROVE FilledInv'
  BY Zenon, <1>10 DEF Crash
<1>11. ASSUME Open PROVE FilledInv'
  BY Zenon, <1>11 DEF Open, AckedInv, AllIdle, tasks
<1>12. ASSUME UNCHANGED vars PROVE FilledInv'
  BY <1>12 DEF vars, engine, tasks
<1> QED
  BY ZenonT(30), <1>1, <1>2, <1>3, <1>4, <1>5, <1>6, <1>7, <1>8, <1>9, <1>10, <1>11, <1>12
     DEF Next, Write, Rotate

-----------------------------------------------------------------------------
(* The write-ahead logs. *)

(* Log numbers stay unique: a rotation and a restart both take a number      *)
(* above every file, and a log that could not be unlinked is in one list.    *)
LEMMA LogFilesInductive ==
  TypeOK /\ FlushInv /\ AckedInv /\ LogFilesInv /\ [Next]_vars => LogFilesInv'
<1> SUFFICES ASSUME TypeOK, FlushInv, AckedInv, LogFilesInv, [Next]_vars
             PROVE  LogFilesInv'
  OBVIOUS
<1> USE DEF LogFilesInv
<1>0. /\ log_number \in Nat /\ DOMAIN logs \subseteq Nat
      /\ closed_logs \subseteq [log : Nat, max : Nat, pos : Nat]
      /\ to_delete \subseteq [log : Nat, max : Nat, pos : Nat]
  BY DEF TypeOK, ClosedLogs
<1>1. ASSUME DOMAIN logs' = DOMAIN logs, up' = up,
             UNCHANGED <<log_number, closed_logs, to_delete>>
      PROVE  LogFilesInv'
  BY Zenon, <1>1
<1>2. ASSUME NEW w \in Writers, Append(w) \/ AppendFails(w) PROVE LogFilesInv'
  <2>1. DOMAIN logs' = DOMAIN logs
    BY ZenonT(30), <1>2 DEF Append, AppendFails
  <2>2. up' = up
    BY Zenon, <1>2 DEF Append, AppendFails
  <2> QED
    BY Zenon, <1>1, <1>2, <2>1, <2>2 DEF Append, AppendFails, flusher
<1>3. ASSUME NEW w \in Writers, Write(w), ~Append(w), ~AppendFails(w) PROVE LogFilesInv'
  <2>1. UNCHANGED logs /\ UNCHANGED <<log_number, closed_logs, to_delete>>
    BY Zenon, <1>3 DEF Write, BeginWrite, PassStall, Allocate, Apply, AutoRotate, durable, wal, flusher
  <2>2. up' = up
    BY Zenon, <1>3 DEF Write, BeginWrite, PassStall, Allocate, Apply, AutoRotate
  <2> QED
    BY Zenon, <1>1, <2>1, <2>2
<1>4. ASSUME NEW a \in Admins, Admin(a) PROVE LogFilesInv'
  <2>1. UNCHANGED logs /\ UNCHANGED <<log_number, closed_logs, to_delete>>
    BY Zenon, <1>4 DEF Admin, Flush, Close, CloseRotate, Drained, DrainFails, durable, wal, flusher
  <2>2. up' = up
    BY Zenon, <1>4 DEF Admin, Flush, Close, CloseRotate, Drained, DrainFails
  <2> QED
    BY Zenon, <1>1, <2>1, <2>2
<1>5. ASSUME NEW p \in Procs, RotateMemtable(p) \/ RotateWalFails(p) PROVE LogFilesInv'
  <2>1. UNCHANGED logs /\ UNCHANGED <<log_number, closed_logs, to_delete>>
    BY <1>5 DEF RotateMemtable, RotateWalFails, durable, wal, flusher
  <2>2. up' = up
    BY Zenon, <1>5 DEF RotateMemtable, RotateWalFails
  <2> QED
    BY Zenon, <1>1, <2>1, <2>2
<1>6. ASSUME NEW p \in Procs, RotateWal(p) PROVE LogFilesInv'
  <2>1. up /\ up'
    BY Zenon, <1>6 DEF RotateWal
  <2>2. /\ DOMAIN logs' = DOMAIN logs \cup {log_number + 1}
        /\ log_number' = log_number + 1 /\ to_delete' = to_delete
        /\ closed_logs' = closed_logs \cup
              {[log |-> log_number, max |-> log_max, pos |-> 2 * log_number + 1]}
    BY Zenon, <1>6 DEF RotateWal, flusher
  <2>3. \A c \in closed_logs' \cup to_delete' : c.log < log_number'
    BY <1>0, <2>2
  <2>4. \A c, d \in closed_logs' \cup to_delete' : c.log = d.log => c = d
    BY <1>0, <2>2
  <2>5. closed_logs' \cap to_delete' = {}
    BY <1>0, <2>2
  <2> QED
    BY <1>0, <2>1, <2>2, <2>3, <2>4, <2>5
<1>7. ASSUME NEW m \in immutable, PickImmutable(m) PROVE LogFilesInv'
  BY Zenon, <1>1, <1>7 DEF PickImmutable, durable, wal
<1>8. ASSUME CommitFlush \/ FlushFails \/ Install \/ EndSweep \/ DropMemtable PROVE LogFilesInv'
  <2>1. UNCHANGED logs /\ UNCHANGED <<log_number, closed_logs, to_delete>>
    BY <1>8 DEF CommitFlush, FlushFails, Install, EndSweep, DropMemtable, durable, wal
  <2>2. up' = up
    BY Zenon, <1>8 DEF CommitFlush, FlushFails, Install, EndSweep, DropMemtable
  <2> QED
    BY ZenonT(30), <1>1, <2>1, <2>2
<1>9. ASSUME MarkFlushed PROVE LogFilesInv'
  <2>1. up' = up
    BY Zenon, <1>9 DEF MarkFlushed
  <2>2. fmem.last \in Nat
    BY DEF TypeOK, Memtables
  <2>3. /\ UNCHANGED <<logs, log_number>>
        /\ closed_logs' \cup to_delete' \subseteq closed_logs
        /\ closed_logs' \cap to_delete' = {}
    BY Zenon, <1>0, <1>9, <2>2 DEF MarkFlushed, durable
  <2> QED
    BY Zenon, <2>1, <2>3
<1>10. ASSUME NEW c \in to_delete, UnlinkLog(c) PROVE LogFilesInv'
  <2>1. up /\ up'
    BY <1>10 DEF UnlinkLog
  <2>2. /\ UNCHANGED <<log_number, closed_logs>> /\ to_delete' = to_delete \ {c}
        /\ DOMAIN logs' = DOMAIN logs \ {c.log}
    BY <1>10 DEF UnlinkLog, wal
  <2>3. log_number' \in DOMAIN logs' /\ \A l \in DOMAIN logs' : l <= log_number'
    BY <1>0, <2>1, <2>2
  <2> QED
    BY <2>2, <2>3
<1>11. ASSUME NEW c \in to_delete, UnlinkFails(c) PROVE LogFilesInv'
  <2>1. up' = up
    BY Zenon, <1>11 DEF UnlinkFails
  <2>2. /\ UNCHANGED <<logs, log_number>> /\ to_delete' = to_delete \ {c}
        /\ closed_logs' = closed_logs \cup
              {[log |-> c.log, max |-> c.max, pos |-> 2 * log_number]}
    BY <1>11 DEF UnlinkFails, durable
  <2>3. \A d \in (closed_logs \cup to_delete) \ {c} : d.log # c.log
    BY Zenon, <1>11
  <2>4. \A d, e \in closed_logs' \cup to_delete' : d.log = e.log => d = e
    BY <2>2, <2>3
  <2>5. \A d \in closed_logs' \cup to_delete' : d.log < log_number'
    BY <2>2
  <2>6. closed_logs' \cap to_delete' = {}
    BY Zenon, <2>2, <2>3
  <2> QED
    BY Zenon, <2>1, <2>2, <2>4, <2>5, <2>6
<1>12. ASSUME Crash PROVE LogFilesInv'
  BY Zenon, <1>12 DEF Crash
<1>13. ASSUME Open PROVE LogFilesInv'
  <2>1. PICK wal_max \in InWal \cup {0}, top \in SeenNumbers,
             last_log \in DOMAIN logs \cup {0} : OpenWith(wal_max, top, last_log)
    BY <1>13 DEF Open
  <2>2. last_log \in Nat /\ \A l \in DOMAIN logs : l <= last_log
    BY <1>0, <2>1 DEF OpenWith, IsMaxOf
  <2>3. /\ DOMAIN logs' = DOMAIN logs \cup {last_log + 1} /\ log_number' = last_log + 1
        /\ closed_logs' = {[log |-> l, max |-> wal_max, pos |-> 0] : l \in DOMAIN logs}
    BY <2>1 DEF OpenWith
  <2>4. to_delete' = {}
    BY Zenon, <1>13 DEF Open, flusher, AckedInv
  <2>5. \A c \in closed_logs' \cup to_delete' : c.log < log_number'
    BY <1>0, <2>2, <2>3, <2>4
  <2> QED
    BY <1>0, <2>2, <2>3, <2>4, <2>5
<1>14. ASSUME UNCHANGED vars PROVE LogFilesInv'
  BY <1>1, <1>14 DEF vars, durable, wal, flusher
<1> QED
  BY Zenon, <1>2, <1>3, <1>4, <1>5, <1>6, <1>7, <1>8, <1>9, <1>10, <1>11, <1>12, <1>13, <1>14
     DEF Next, Rotate, RunFlush

(* A record in a live log stays in one until a sweep covers it. *)
LEMMA LiveKept ==
  ASSUME TypeOK, LocksInv, LogFilesInv, Next, ~MarkFlushed, up, up', NEW s \in Nat, InLiveLog(s)
  PROVE  InLiveLog(s)'
<1>0. /\ log_number \in DOMAIN logs /\ log_number \in Nat /\ log_max \in Nat
      /\ logs \in [DOMAIN logs -> SUBSET Nat] /\ ~log_torn
      /\ closed_logs \subseteq [log : Nat, max : Nat, pos : Nat]
      /\ batch \in [Writers -> [lo : Nat, hi : Nat]]
      /\ \A c \in closed_logs : c.log < log_number
  BY DEF TypeOK, ClosedLogs, LocksInv, LogFilesInv
<1>1. ASSUME UNCHANGED <<logs, log_number, log_max, closed_logs>> PROVE InLiveLog(s)'
  BY Zenon, <1>1 DEF InLiveLog
<1>2. ASSUME NEW w \in Writers, Append(w) PROVE InLiveLog(s)'
  <2>1. DOMAIN logs' = DOMAIN logs /\ \A l \in DOMAIN logs : logs[l] \subseteq logs'[l]
    BY Zenon, <1>0, <1>2 DEF Append
  <2>2. log_max <= log_max' /\ log_max' \in Nat /\ UNCHANGED <<log_number, closed_logs>>
    BY <1>0, <1>2 DEF Append
  <2>3. CASE s \in logs[log_number] /\ s <= log_max
    BY <1>0, <2>1, <2>2, <2>3 DEF InLiveLog
  <2>4. CASE \E c \in closed_logs : c.log \in DOMAIN logs /\ s \in logs[c.log] /\ s <= c.max
    BY Zenon, <2>1, <2>2, <2>4 DEF InLiveLog
  <2> QED
    BY Zenon, <2>3, <2>4 DEF InLiveLog
<1>3. ASSUME NEW w \in Writers, AppendFails(w) PROVE InLiveLog(s)'
  <2>1. DOMAIN logs' = DOMAIN logs /\ \A l \in DOMAIN logs : logs[l] \subseteq logs'[l]
    BY Zenon, <1>0, <1>3 DEF AppendFails
  <2>2. UNCHANGED <<log_number, log_max, closed_logs>>
    BY Zenon, <1>3 DEF AppendFails
  <2> QED
    BY <1>0, <2>1, <2>2 DEF InLiveLog
<1>4. ASSUME NEW p \in Procs, RotateWal(p) PROVE InLiveLog(s)'
  <2>1. /\ log_number' = log_number + 1
        /\ DOMAIN logs \subseteq DOMAIN logs'
        /\ \A l \in DOMAIN logs : l # log_number + 1 => logs'[l] = logs[l]
        /\ closed_logs' = closed_logs \cup
              {[log |-> log_number, max |-> log_max, pos |-> 2 * log_number + 1]}
    BY Zenon, <1>4 DEF RotateWal
  <2>2. CASE s \in logs[log_number] /\ s <= log_max
    <3>1. [log |-> log_number, max |-> log_max, pos |-> 2 * log_number + 1] \in closed_logs'
      BY Zenon, <2>1
    <3>2. s \in logs'[log_number]
      BY <1>0, <2>1, <2>2
    <3> QED
      BY Zenon, <1>0, <2>1, <2>2, <3>1, <3>2 DEF InLiveLog
  <2>3. CASE \E c \in closed_logs : c.log \in DOMAIN logs /\ s \in logs[c.log] /\ s <= c.max
    <3>1. PICK c \in closed_logs : c.log \in DOMAIN logs /\ s \in logs[c.log] /\ s <= c.max
      BY <2>3
    <3>2. c.log # log_number + 1
      BY <1>0
    <3> QED
      BY Zenon, <2>1, <3>1, <3>2 DEF InLiveLog
  <2> QED
    BY <2>2, <2>3 DEF InLiveLog
<1>5. ASSUME NEW v \in to_delete, UnlinkLog(v) PROVE InLiveLog(s)'
  <2>1. /\ UNCHANGED <<log_number, log_max, closed_logs>>
        /\ DOMAIN logs' = DOMAIN logs \ {v.log}
        /\ \A l \in DOMAIN logs' : logs'[l] = logs[l]
    BY <1>5 DEF UnlinkLog, wal
  <2>2. v.log # log_number /\ \A c \in closed_logs : c.log # v.log
    BY <1>0 DEF LogFilesInv
  <2> QED
    BY Zenon, <1>0, <2>1, <2>2 DEF InLiveLog
<1>6. ASSUME NEW v \in to_delete, UnlinkFails(v) PROVE InLiveLog(s)'
  <2>1. UNCHANGED <<logs, log_number, log_max>> /\ closed_logs \subseteq closed_logs'
    BY <1>6 DEF UnlinkFails, durable
  <2> QED
    BY Zenon, <2>1 DEF InLiveLog
<1>7. ASSUME NEW w \in Writers, Write(w), ~Append(w), ~AppendFails(w) PROVE InLiveLog(s)'
  BY Zenon, <1>1, <1>7 DEF Write, BeginWrite, PassStall, Allocate, Apply, AutoRotate, durable, wal
<1>8. ASSUME NEW a \in Admins, Admin(a) PROVE InLiveLog(s)'
  BY Zenon, <1>1, <1>8 DEF Admin, Flush, Close, CloseRotate, Drained, DrainFails, durable, wal
<1>9. ASSUME NEW p \in Procs, RotateMemtable(p) \/ RotateWalFails(p) PROVE InLiveLog(s)'
  BY SMTT(30), <1>1, <1>9 DEF RotateMemtable, RotateWalFails, durable, wal
<1>10. ASSUME NEW m \in immutable, PickImmutable(m) PROVE InLiveLog(s)'
  BY Zenon, <1>1, <1>10 DEF PickImmutable, durable, wal
<1>11. ASSUME CommitFlush \/ FlushFails \/ Install \/ EndSweep \/ DropMemtable PROVE InLiveLog(s)'
  BY Zenon, <1>1, <1>11 DEF CommitFlush, FlushFails, Install, EndSweep, DropMemtable, durable, wal
<1>12. ~Crash /\ ~Open
  BY DEF Crash, Open
<1> QED
  BY ZenonT(30), <1>2, <1>3, <1>4, <1>5, <1>6, <1>7, <1>8, <1>9, <1>10, <1>11, <1>12
     DEF Next, Rotate, RunFlush

(* What mark_flushed_seq relies on: above the memtable being flushed there   *)
(* is no unflushed record up to its last_seq.                                *)
LEMMA FlushedPrefix ==
  ASSUME TypeOK, OrderInv, LastInv, SealedInv, FlushInv,
         fphase \in {"committed", "installed", "gc", "swept"},
         NEW s \in InMemory, s \notin flushed
  PROVE  fmem.last < s
<1>0. /\ active \in [gen : Nat, first : Nat, last : Nat, recs : SUBSET Nat]
      /\ immutable \subseteq [gen : Nat, first : Nat, last : Nat, recs : SUBSET Nat]
  BY DEF TypeOK, Memtables
<1>1. fmem \in immutable /\ fmem.recs \subseteq flushed /\ \A o \in immutable : fmem.gen <= o.gen
  BY ZenonT(30) DEF FlushInv, IsOldest
<1>2. \A r \in fmem.recs : r < s
  <2>1. CASE s \in active.recs
    BY Zenon, <1>1, <2>1 DEF OrderInv
  <2>2. ASSUME NEW o \in immutable, s \in o.recs
        PROVE  \A r \in fmem.recs : r < s
    <3>1. o # fmem /\ fmem.gen <= o.gen /\ (fmem.gen = o.gen => fmem = o)
      BY Zenon, <1>1, <2>2 DEF OrderInv
    <3>2. fmem.gen \in Nat /\ o.gen \in Nat
      BY Zenon, <1>0, <1>1
    <3>3. fmem.gen < o.gen
      BY <3>1, <3>2
    <3> QED
      BY Zenon, <1>1, <2>2, <3>3 DEF OrderInv
  <2> QED
    BY Zenon, <2>1, <2>2 DEF InMemory
<1>3. ~(Held /\ LastWithRecords(fmem))
  BY <1>0, <1>1 DEF Held, LastWithRecords, InMemory, OrderInv
<1>4. PICK r \in fmem.recs : fmem.first <= r
  BY <1>1, <1>3 DEF SealedInv, Filled
<1>5. s \in Nat
  BY <1>0 DEF InMemory
<1>6. fmem.last \in fmem.recs \/ fmem.last = fmem.first
  BY <1>1 DEF LastInv
<1> QED
  BY <1>0, <1>1, <1>2, <1>4, <1>5, <1>6

(* Every unflushed record stays in a live log: a write appends before it     *)
(* applies, and a sweep spares the logs that hold unflushed records.         *)
LEMMA LoggedInductive ==
  TypeOK /\ LocksInv /\ OrderInv /\ LastInv /\ SealedInv /\ FlushInv /\ LogFilesInv /\ LoggedInv
  /\ AckedInv /\ [Next]_vars => LoggedInv'
<1> SUFFICES ASSUME TypeOK, LocksInv, OrderInv, LastInv, SealedInv, FlushInv, LogFilesInv,
                    LoggedInv, AckedInv, [Next]_vars
             PROVE  LoggedInv'
  BY Zenon
<1>0. /\ pc \in [Procs -> PC]
      /\ active \in [gen : Nat, first : Nat, last : Nat, recs : SUBSET Nat]
      /\ immutable \subseteq [gen : Nat, first : Nat, last : Nat, recs : SUBSET Nat]
      /\ batch \in [Writers -> [lo : Nat, hi : Nat]]
  BY DEF TypeOK, Memtables
<1>1. InMemory \subseteq Nat /\ \A w \in Writers : batch[w].lo .. batch[w].hi \subseteq Nat
  BY <1>0 DEF InMemory
<1>2. ASSUME Next, ~MarkFlushed, up, up', flushed \subseteq flushed', InMemory' \subseteq InMemory,
             \A w \in Writers : pc'[w] = "appended" => pc[w] = "appended" /\ batch'[w] = batch[w]
      PROVE  LoggedInv'
  <2>1. \A s \in Nat : InLiveLog(s) => InLiveLog(s)'
    BY Zenon, <1>2, LiveKept
  <2>2. \A s \in InMemory' : s \in flushed' \/ InLiveLog(s)'
    BY Zenon, <1>1, <1>2, <2>1 DEF LoggedInv
  <2>3. \A w \in Writers : pc'[w] = "appended" =>
          \A s \in batch'[w].lo .. batch'[w].hi : InLiveLog(s)'
    BY Zenon, <1>1, <1>2, <2>1 DEF LoggedInv
  <2> QED
    BY <2>2, <2>3 DEF LoggedInv
<1>3. ASSUME NEW w \in Writers, BeginWrite(w) \/ PassStall(w) \/ AutoRotate(w) PROVE LoggedInv'
  <2>1. up /\ up'
    BY Zenon, <1>3, WriteUp DEF Write
  <2>2. flushed' = flushed /\ InMemory' = InMemory /\ ~MarkFlushed
    BY ZenonT(30), <1>3 DEF BeginWrite, PassStall, AutoRotate, engine, durable, flusher, MarkFlushed, InMemory
  <2>3. \A v \in Writers : pc'[v] = "appended" => pc[v] = "appended" /\ batch'[v] = batch[v]
    BY Zenon, <1>0, <1>3 DEF BeginWrite, PassStall, AutoRotate, Procs
  <2>4. Next
    BY <1>3 DEF Next, Write
  <2> QED
    BY <1>2, <2>1, <2>2, <2>3, <2>4
<1>4. ASSUME NEW w \in Writers, NEW n \in 1 .. MaxBatch, Allocate(w, n) PROVE LoggedInv'
  <2>1. up /\ up'
    BY Zenon, <1>4 DEF Allocate
  <2>2. flushed' = flushed /\ InMemory' = InMemory /\ ~MarkFlushed
    BY Zenon, <1>4 DEF Allocate, durable, flusher, MarkFlushed, InMemory
  <2>3. \A v \in Writers : pc'[v] = "appended" => pc[v] = "appended" /\ batch'[v] = batch[v]
    BY <1>0, <1>4 DEF Allocate, Procs
  <2>4. Next
    BY Zenon, <1>4 DEF Next, Write
  <2> QED
    BY Zenon, <1>2, <2>1, <2>2, <2>3, <2>4
<1>5. ASSUME NEW w \in Writers, Append(w) PROVE LoggedInv'
  <2>1. up /\ up'
    BY Zenon, <1>5 DEF Append
  <2>2. flushed' = flushed /\ InMemory' = InMemory /\ ~MarkFlushed /\ batch' = batch
    BY Zenon, <1>5 DEF Append, engine, flusher, MarkFlushed, InMemory
  <2>3. Next
    BY <1>5 DEF Next, Write
  <2>4. \A s \in Nat : InLiveLog(s) => InLiveLog(s)'
    BY Zenon, <2>1, <2>2, <2>3, LiveKept
  <2>5. \A s \in InMemory' : s \in flushed' \/ InLiveLog(s)'
    BY <1>1, <2>2, <2>4 DEF LoggedInv
  <2>6. ASSUME NEW s \in batch[w].lo .. batch[w].hi PROVE InLiveLog(s)'
    <3>1. log_number \in DOMAIN logs /\ log_number' = log_number /\ log_max \in Nat /\ ~log_torn
      BY Zenon, <1>5, <2>1 DEF Append, LogFilesInv, LocksInv, TypeOK
    <3>2. s \in logs'[log_number]
      BY Zenon, <1>5, <3>1 DEF Append, TypeOK
    <3>3. s <= log_max'
      BY <1>0, <1>5, <3>1 DEF Append
    <3> QED
      BY Zenon, <3>1, <3>2, <3>3 DEF InLiveLog
  <2>7. \A v \in Writers : pc'[v] = "appended" => v = w \/ pc[v] = "appended"
    BY Zenon, <1>0, <1>5 DEF Append, Procs
  <2>8. \A v \in Writers : pc'[v] = "appended" =>
          \A s \in batch'[v].lo .. batch'[v].hi : InLiveLog(s)'
    BY Zenon, <1>1, <2>2, <2>4, <2>6, <2>7 DEF LoggedInv
  <2> QED
    BY Zenon, <2>5, <2>8 DEF LoggedInv
<1>6. ASSUME NEW w \in Writers, AppendFails(w) PROVE LoggedInv'
  <2>1. up /\ up'
    BY ZenonT(30), <1>6 DEF AppendFails
  <2>2. flushed' = flushed /\ InMemory' = InMemory /\ ~MarkFlushed
    BY ZenonT(30), <1>6 DEF AppendFails, engine, flusher, MarkFlushed, InMemory
  <2>3. \A v \in Writers : pc'[v] = "appended" => pc[v] = "appended" /\ batch'[v] = batch[v]
    BY <1>0, <1>6 DEF AppendFails, Procs
  <2>4. Next
    BY Zenon, <1>6 DEF Next, Write
  <2> QED
    BY <1>2, <2>1, <2>2, <2>3, <2>4
<1>7. ASSUME NEW w \in Writers, Apply(w) PROVE LoggedInv'
  <2>1. up /\ up'
    BY <1>7 DEF Apply
  <2>2. flushed' = flushed /\ ~MarkFlushed /\ batch' = batch /\ immutable' = immutable
    BY Zenon, <1>7 DEF Apply, durable, flusher, MarkFlushed
  <2>3. active'.recs = active.recs \cup (batch[w].lo .. batch[w].hi)
    BY Zenon, <1>0, <1>7 DEF Apply, ApplyTo
  <2>4. InMemory' = InMemory \cup (batch[w].lo .. batch[w].hi)
    BY Zenon, <2>2, <2>3 DEF InMemory
  <2>5. Next
    BY <1>7 DEF Next, Write
  <2>6. \A s \in Nat : InLiveLog(s) => InLiveLog(s)'
    BY <2>1, <2>2, <2>5, LiveKept
  <2>7. \A s \in batch[w].lo .. batch[w].hi : InLiveLog(s)
    BY ZenonT(30), <1>7 DEF Apply, LoggedInv
  <2>8. \A s \in InMemory' : s \in flushed' \/ InLiveLog(s)'
    BY Zenon, <1>1, <2>2, <2>4, <2>6, <2>7 DEF LoggedInv
  <2>9. \A v \in Writers : pc'[v] = "appended" => pc[v] = "appended"
    BY Zenon, <1>0, <1>7 DEF Apply, Procs
  <2>10. \A v \in Writers : pc'[v] = "appended" =>
          \A s \in batch'[v].lo .. batch'[v].hi : InLiveLog(s)'
    BY Zenon, <1>1, <2>2, <2>6, <2>9 DEF LoggedInv
  <2> QED
    BY Zenon, <2>8, <2>10 DEF LoggedInv
<1>8. ASSUME NEW a \in Admins, Admin(a) PROVE LoggedInv'
  <2>1. up /\ up'
    BY Zenon, <1>8, AdminUp
  <2>2. flushed' = flushed /\ InMemory' = InMemory /\ ~MarkFlushed
    BY ZenonT(30), <1>8 DEF Admin, Flush, Close, CloseRotate, Drained, DrainFails, engine, durable, flusher,
                MarkFlushed, InMemory
  <2>3. \A v \in Writers : pc'[v] = "appended" => pc[v] = "appended" /\ batch'[v] = batch[v]
    BY <1>0, <1>8 DEF Admin, Flush, Close, CloseRotate, Drained, DrainFails, Procs
  <2>4. Next
    BY SMTT(30), <1>8 DEF Next
  <2> QED
    BY Zenon, <1>2, <2>1, <2>2, <2>3, <2>4
<1>9. ASSUME NEW p \in Procs, Rotate(p) PROVE LoggedInv'
  <2>1. up /\ up'
    BY Zenon, <1>9, RotateUp
  <2>2. flushed' = flushed /\ ~MarkFlushed
    BY Zenon, <1>9 DEF Rotate, RotateMemtable, RotateWal, RotateWalFails, durable, flusher, MarkFlushed
  <2>3. InMemory' = InMemory
    BY Zenon, <1>9, RotateMemory
  <2>4. \A v \in Writers : pc'[v] = "appended" => pc[v] = "appended" /\ batch'[v] = batch[v]
    BY Zenon, <1>0, <1>9 DEF Rotate, RotateMemtable, RotateWal, RotateWalFails, AfterRotate, Procs
  <2>5. Next
    BY Zenon, <1>9 DEF Next
  <2> QED
    BY Zenon, <1>2, <2>1, <2>2, <2>3, <2>4, <2>5
<1>10. ASSUME RunFlush, ~MarkFlushed PROVE LoggedInv'
  <2>1. up /\ up'
    BY <1>10, RunFlushUp
  <2>2. flushed \subseteq flushed' /\ active' = active /\ immutable' \subseteq immutable
        /\ UNCHANGED <<pc, batch>>
    BY ZenonT(30), <1>10 DEF RunFlush, PickImmutable, CommitFlush, FlushFails, Install, EndSweep,
                 UnlinkLog, UnlinkFails, DropMemtable, DropFlushed, engine, durable, tasks
  <2>3. InMemory' \subseteq InMemory
    BY <2>2 DEF InMemory
  <2>4. Next
    BY <1>10 DEF Next
  <2> QED
    BY Zenon, <1>2, <1>10, <2>1, <2>2, <2>3, <2>4
<1>11. ASSUME MarkFlushed PROVE LoggedInv'
  <2>1. /\ flushed' = flushed /\ InMemory' = InMemory
        /\ UNCHANGED <<logs, log_number, log_max, pc, batch>>
        /\ closed_logs' = {c \in closed_logs : ~(c.max <= fmem.last)}
    BY Zenon, <1>11 DEF MarkFlushed, Covered, engine, durable, tasks, InMemory
  <2>2. \A w \in Writers : pc[w] # "appended"
    BY Zenon, <1>11 DEF MarkFlushed, WalLockFree
  <2>3. ASSUME NEW s \in InMemory, s \notin flushed PROVE InLiveLog(s)'
    <3>1. fmem.last < s
      BY Zenon, <1>11, <2>3, FlushedPrefix DEF MarkFlushed
    <3>2. InLiveLog(s)
      BY Zenon, <2>3 DEF LoggedInv
    <3>3. fmem.last \in Nat /\ s \in Nat /\ closed_logs \subseteq [log : Nat, max : Nat, pos : Nat]
      BY Zenon, <1>1 DEF TypeOK, Memtables, ClosedLogs
    <3>4. \A c \in closed_logs : s <= c.max => c \in closed_logs'
      BY <2>1, <3>1, <3>3
    <3> QED
      BY <2>1, <3>2, <3>4 DEF InLiveLog
  <2> QED
    BY ZenonT(30), <2>1, <2>2, <2>3 DEF LoggedInv
<1>12. ASSUME Crash PROVE LoggedInv'
  <2>1. active'.recs = {} /\ immutable' = {}
    BY Zenon, <1>12 DEF Crash, NewMemtable
  <2>2. \A w \in Writers : pc'[w] = "idle"
    BY Zenon, <1>12 DEF Crash, Procs
  <2> QED
    BY Zenon, <2>1, <2>2 DEF LoggedInv, InMemory
<1>13. ASSUME Open PROVE LoggedInv'
  <2>1. PICK wal_max \in InWal \cup {0}, top \in SeenNumbers,
             last_log \in DOMAIN logs \cup {0} : OpenWith(wal_max, top, last_log)
    BY Zenon, <1>13 DEF Open
  <2>2. \A w \in Writers : pc'[w] = "idle"
    BY Zenon, <1>13 DEF Open, AckedInv, AllIdle, tasks
  <2>3. InMemory' = InWal
    BY SMTT(30), <1>13, OpenFacts DEF Open, AckedInv, InMemory
  <2>4. ASSUME NEW s \in InWal PROVE InLiveLog(s)'
    <3>1. PICK l \in DOMAIN logs : s \in logs[l]
      BY Zenon DEF InWal
    <3>2. DOMAIN logs \subseteq Nat
      BY DEF TypeOK
    <3>3. l # last_log + 1
      BY <2>1, <3>2 DEF OpenWith, IsMaxOf
    <3>4. l \in DOMAIN logs' /\ logs'[l] = logs[l]
      BY <2>1, <3>3 DEF OpenWith
    <3>5. s <= wal_max
      BY <2>1 DEF OpenWith, IsMaxOf
    <3>6. [log |-> l, max |-> wal_max, pos |-> 0] \in closed_logs'
      BY SMTT(30), <2>1 DEF OpenWith
    <3> QED
      BY Zenon, <3>1, <3>4, <3>5, <3>6 DEF InLiveLog
  <2> QED
    BY <2>2, <2>3, <2>4 DEF LoggedInv
<1>14. ASSUME UNCHANGED vars PROVE LoggedInv'
  BY Zenon, <1>14 DEF vars, durable, engine, wal, tasks, LoggedInv, InLiveLog, InMemory
<1> QED
  BY Zenon, <1>3, <1>4, <1>5, <1>6, <1>7, <1>8, <1>9, <1>10, <1>11, <1>12, <1>13, <1>14
     DEF Next, Write

-----------------------------------------------------------------------------
(* What a reader finds. *)

(* Dropping by first_seq removes the memtable meant and, besides it, only    *)
(* empty ones.                                                               *)
LEMMA DropsOnlyOne ==
  ASSUME TypeOK, OrderInv, SealedInv, NEW m \in immutable, IsOldest(m),
         NEW o \in immutable, o \notin DropFlushed(m.first)
  PROVE  o = m \/ o.recs = {}
<1>1. /\ immutable \subseteq [gen : Nat, first : Nat, last : Nat, recs : SUBSET Nat]
      /\ o.first = m.first /\ m.gen <= o.gen
  BY DEF TypeOK, Memtables, DropFlushed, IsOldest
<1>2. m.gen = o.gen => o = m
  BY Zenon DEF OrderInv
<1>3. m.gen < o.gen => o.recs = {}
  BY <1>1 DEF SealedInv
<1> QED
  BY <1>1, <1>2, <1>3

(* A completed write is in memory or in a committed file, and on disk when   *)
(* the process dies.                                                         *)
LEMMA AckedInductive ==
  TypeOK /\ OrderInv /\ SealedInv /\ FlushInv /\ LogFilesInv /\ LoggedInv /\ AckedInv
  /\ [Next]_vars => AckedInv'
<1> SUFFICES ASSUME TypeOK, OrderInv, SealedInv, FlushInv, LogFilesInv, LoggedInv, AckedInv,
                    [Next]_vars
             PROVE  AckedInv'
  OBVIOUS
<1>0. active \in [gen : Nat, first : Nat, last : Nat, recs : SUBSET Nat]
  BY DEF TypeOK, Memtables
<1>1. ASSUME up, up', acked' = acked, flushed \cup InMemory \subseteq flushed' \cup InMemory'
      PROVE  AckedInv'
  BY Zenon, <1>1 DEF AckedInv
<1>2. ASSUME NEW w \in Writers, Write(w), ~Apply(w) PROVE AckedInv'
  <2>1. up /\ up'
    BY Zenon, <1>2, WriteUp
  <2>2. UNCHANGED <<acked, flushed, active, immutable>>
    BY ZenonT(30), <1>2 DEF Write, BeginWrite, PassStall, Allocate, Append, AppendFails, AutoRotate,
                durable, engine, history
  <2> QED
    BY Zenon, <1>1, <2>1, <2>2 DEF InMemory
<1>3. ASSUME NEW w \in Writers, Apply(w) PROVE AckedInv'
  <2>1. up /\ up'
    BY Zenon, <1>3 DEF Apply
  <2>2. /\ UNCHANGED <<flushed, immutable>>
        /\ active'.recs = active.recs \cup (batch[w].lo .. batch[w].hi)
        /\ acked' = acked \cup (batch[w].lo .. batch[w].hi)
    BY Zenon, <1>0, <1>3 DEF Apply, ApplyTo, durable
  <2> QED
    BY ZenonT(30), <2>1, <2>2 DEF AckedInv, InMemory
<1>4. ASSUME NEW a \in Admins, Admin(a) PROVE AckedInv'
  <2>1. up /\ up'
    BY Zenon, <1>4, AdminUp
  <2>2. UNCHANGED <<acked, flushed, active, immutable>>
    BY Zenon, <1>4 DEF Admin, Flush, Close, CloseRotate, Drained, DrainFails, durable, engine, history
  <2> QED
    BY <1>1, <2>1, <2>2 DEF InMemory
<1>5. ASSUME NEW p \in Procs, Rotate(p) PROVE AckedInv'
  <2>1. up /\ up'
    BY Zenon, <1>5, RotateUp
  <2>2. UNCHANGED <<acked, flushed>>
    BY Zenon, <1>5 DEF Rotate, RotateMemtable, RotateWal, RotateWalFails, durable, history
  <2>3. InMemory' = InMemory
    BY Zenon, <1>5, RotateMemory
  <2> QED
    BY Zenon, <1>1, <2>1, <2>2, <2>3
<1>6. ASSUME NEW m \in immutable, PickImmutable(m) PROVE AckedInv'
  <2>1. up /\ up'
    BY ZenonT(30), <1>6 DEF PickImmutable
  <2>2. UNCHANGED <<acked, flushed, active>>
    BY ZenonT(30), <1>6 DEF PickImmutable, durable, history
  <2>3. \A o \in immutable : o \in immutable' \/ o.recs = {}
    BY Zenon, <1>6, DropsOnlyOne DEF PickImmutable
  <2> QED
    BY <1>1, <2>1, <2>2, <2>3 DEF InMemory
<1>7. ASSUME CommitFlush \/ FlushFails \/ Install PROVE AckedInv'
  <2>1. up /\ up'
    BY Zenon, <1>7, RunFlushUp DEF RunFlush
  <2>2. UNCHANGED <<acked, active, immutable>> /\ flushed \subseteq flushed'
    BY Zenon, <1>7 DEF CommitFlush, FlushFails, Install, durable, engine, history
  <2> QED
    BY Zenon, <1>1, <2>1, <2>2 DEF InMemory
<1>8. ASSUME MarkFlushed \/ EndSweep \/ \E c \in to_delete : UnlinkLog(c) \/ UnlinkFails(c)
      PROVE  AckedInv'
  <2>1. up /\ up'
    BY <1>8, RunFlushUp DEF RunFlush
  <2>2. UNCHANGED <<acked, flushed, active, immutable>>
    BY Zenon, <1>8 DEF MarkFlushed, EndSweep, UnlinkLog, UnlinkFails, durable, engine, history
  <2> QED
    BY <1>1, <2>1, <2>2 DEF InMemory
<1>9. ASSUME DropMemtable PROVE AckedInv'
  <2>1. up /\ up'
    BY <1>9 DEF DropMemtable
  <2>2. UNCHANGED <<acked, flushed, active>> /\ immutable' = DropFlushed(fmem.first)
    BY Zenon, <1>9 DEF DropMemtable, durable, history
  <2>3. fmem \in immutable /\ IsOldest(fmem) /\ fmem.recs \subseteq flushed
    BY Zenon, <1>9 DEF DropMemtable, FlushInv, IsOldest
  <2>4. \A o \in immutable : o \in immutable' \/ o.recs \subseteq flushed
    BY Zenon, <2>2, <2>3, DropsOnlyOne
  <2> QED
    BY <1>1, <2>1, <2>2, <2>4 DEF InMemory
<1>10. ASSUME Crash PROVE AckedInv'
  <2>1. up /\ ~up' /\ UNCHANGED <<acked, flushed, logs>>
    BY <1>10 DEF Crash, durable
  <2>2. \A s \in InMemory : s \in Recoverable
    BY ZenonT(30), <2>1 DEF LoggedInv, InLiveLog, LogFilesInv, Recoverable, InWal
  <2>3. acked' \subseteq Recoverable'
    BY Zenon, <2>1, <2>2 DEF AckedInv, Recoverable, InWal
  <2>4. /\ active' = NewMemtable(0, 1) /\ immutable' = {} /\ fphase' = "idle"
        /\ closed_logs' = {} /\ to_delete' = {} /\ global_seq' = 1
    BY Zenon, <1>10 DEF Crash
  <2>5. ~closed' /\ \A p \in Procs : pc'[p] = "idle"
    BY Zenon, <1>10 DEF Crash
  <2> QED
    BY Zenon, <2>1, <2>3, <2>4, <2>5 DEF AckedInv, AllIdle, Procs
<1>11. ASSUME Open PROVE AckedInv'
  <2>1. ~up /\ up' /\ UNCHANGED <<acked, flushed>>
    BY <1>11 DEF Open, history
  <2>2. active'.recs = InWal
    BY Zenon, <1>11, OpenFacts
  <2> QED
    BY Zenon, <2>1, <2>2 DEF AckedInv, Recoverable, InMemory
<1>12. ASSUME UNCHANGED vars PROVE AckedInv'
  <2>1. UNCHANGED <<acked, flushed, logs, active, immutable, fphase, closed_logs, to_delete,
                    global_seq, pc>>
    BY <1>12 DEF vars, durable, engine, wal, flusher, tasks, history
  <2>2. up' = up /\ closed' = closed
    BY Zenon, <1>12 DEF vars, engine
  <2> QED
    BY ZenonT(30), <2>1, <2>2 DEF AckedInv, Recoverable, InWal, InMemory, AllIdle
<1> QED
  BY Zenon, <1>2, <1>3, <1>4, <1>5, <1>6, <1>7, <1>8, <1>9, <1>10, <1>11, <1>12 DEF Next, RunFlush

(* The frontier moves only to the end of the batch being applied, and a       *)
(* restart continues above everything it found.                               *)
LEMMA FrontierInductive ==
  TypeOK /\ LocksInv /\ OrderInv /\ FrontierInv /\ FlushInv /\ LogFilesInv /\ AckedInv
  /\ [Next]_vars => FrontierInv'
<1> SUFFICES ASSUME TypeOK, LocksInv, OrderInv, FrontierInv, FlushInv, LogFilesInv, AckedInv,
                    [Next]_vars
             PROVE  FrontierInv'
  BY Zenon
<1>0. /\ pc \in [Procs -> PC] /\ global_seq \in Nat /\ visible_seq \in Nat
      /\ batch \in [Writers -> [lo : Nat, hi : Nat]] /\ Recoverable \cup installed \subseteq Nat
  <2>1. /\ pc \in [Procs -> PC] /\ global_seq \in Nat /\ visible_seq \in Nat
        /\ batch \in [Writers -> [lo : Nat, hi : Nat]]
        /\ flushed \subseteq Nat /\ installed \subseteq Nat /\ logs \in [DOMAIN logs -> SUBSET Nat]
    BY Zenon DEF TypeOK
  <2>2. \A l \in DOMAIN logs : logs[l] \subseteq Nat
    BY Zenon, <2>1
  <2>3. InWal \subseteq Nat
    BY Zenon, <2>2 DEF InWal
  <2> QED
    BY Zenon, <2>1, <2>3 DEF Recoverable
<1>1. ASSUME up, up', UNCHANGED <<visible_seq, global_seq, batch>>,
             Recoverable' \cup installed' \subseteq Recoverable \cup installed,
             \A w \in Writers : InFlight(w)' => InFlight(w)
      PROVE  FrontierInv'
  BY <1>1 DEF FrontierInv
<1>2. ASSUME NEW w \in Writers, BeginWrite(w) \/ PassStall(w) \/ AutoRotate(w) PROVE FrontierInv'
  <2>1. up /\ up'
    BY Zenon, <1>2, WriteUp DEF Write
  <2>2. UNCHANGED <<visible_seq, global_seq, batch, flushed, logs, installed>>
    BY <1>2 DEF BeginWrite, PassStall, AutoRotate, durable, engine
  <2>3. \A v \in Writers : InFlight(v)' => InFlight(v)
    BY <1>0, <1>2 DEF BeginWrite, PassStall, AutoRotate, InFlight, Procs
  <2> QED
    BY ZenonT(30), <1>1, <2>1, <2>2, <2>3 DEF Recoverable, InWal
<1>3. ASSUME NEW w \in Writers, NEW n \in 1 .. MaxBatch, Allocate(w, n) PROVE FrontierInv'
  <2>1. up /\ up'
    BY <1>3 DEF Allocate
  <2>2. /\ UNCHANGED <<visible_seq, flushed, logs, installed>> /\ global_seq' = global_seq + n
        /\ batch'[w].lo = global_seq
    BY <1>0, <1>3 DEF Allocate, NextBatch, durable
  <2>3. \A v \in Writers : InFlight(v)' => v = w
    BY <1>0, <1>3 DEF Allocate, WalLockFree, InFlight, Procs
  <2>4. Recoverable' = Recoverable
    BY Zenon, <2>2 DEF Recoverable, InWal
  <2>5. visible_seq' < global_seq' /\ \A s \in Recoverable' \cup installed' : s < global_seq'
    BY <1>0, <2>1, <2>2, <2>4, SizesAssumption DEF FrontierInv
  <2>6. visible_seq' < batch'[w].lo
    BY Zenon, <2>1, <2>2 DEF FrontierInv
  <2> QED
    BY Zenon, <2>3, <2>5, <2>6 DEF FrontierInv
<1>4. ASSUME NEW w \in Writers, Append(w) \/ AppendFails(w) PROVE FrontierInv'
  <2>1. up /\ up'
    BY Zenon, <1>4, WriteUp DEF Write
  <2>2. UNCHANGED <<visible_seq, global_seq, batch, flushed, installed>>
    BY ZenonT(30), <1>4 DEF Append, AppendFails, engine
  <2>3. \A v \in Writers : InFlight(v)' => InFlight(v)
    BY ZenonT(30), <1>0, <1>4 DEF Append, AppendFails, InFlight, Procs
  <2>4. \A s \in batch[w].lo .. batch[w].hi : s < global_seq
    BY <1>0, <1>4 DEF Append, AppendFails, OrderInv, InFlight
  <2>5. log_number \in DOMAIN logs /\ logs \in [DOMAIN logs -> SUBSET Nat]
    BY Zenon, <2>1 DEF LogFilesInv, TypeOK
  <2>6. InWal' \subseteq InWal \cup (batch[w].lo .. batch[w].hi)
    BY <1>4, <2>5 DEF Append, AppendFails, InWal
  <2>7. \A s \in Recoverable' \cup installed' : s < global_seq
    BY <2>1, <2>2, <2>4, <2>6 DEF FrontierInv, Recoverable
  <2> QED
    BY Zenon, <2>1, <2>2, <2>3, <2>7 DEF FrontierInv
<1>5. ASSUME NEW w \in Writers, Apply(w) PROVE FrontierInv'
  <2>1. up /\ up'
    BY Zenon, <1>5 DEF Apply
  <2>2. /\ UNCHANGED <<global_seq, batch, flushed, logs, installed>>
        /\ visible_seq' = visible_seq \/ visible_seq' = batch[w].hi
    BY Zenon, <1>5 DEF Apply, durable
  <2>3. \A v \in Writers : ~InFlight(v)'
    BY Zenon, <1>0, <1>5 DEF Apply, InFlight, Procs, LocksInv
  <2>4. visible_seq' < global_seq'
    <3>1. visible_seq < global_seq
      BY Zenon, <2>1 DEF FrontierInv
    <3>2. batch[w].hi + 1 = global_seq
      BY Zenon, <1>5 DEF Apply, OrderInv, InFlight
    <3> QED
      BY <1>0, <2>2, <3>1, <3>2
  <2>5. Recoverable' = Recoverable
    BY <2>2 DEF Recoverable, InWal
  <2> QED
    BY Zenon, <2>1, <2>2, <2>3, <2>4, <2>5 DEF FrontierInv
<1>6. ASSUME NEW a \in Admins, Admin(a) PROVE FrontierInv'
  <2>1. up /\ up'
    BY Zenon, <1>6, AdminUp
  <2>2. UNCHANGED <<visible_seq, global_seq, batch, flushed, logs, installed>>
    BY Zenon, <1>6 DEF Admin, Flush, Close, CloseRotate, Drained, DrainFails, durable, engine
  <2>3. \A v \in Writers : InFlight(v)' => InFlight(v)
    BY Zenon, <1>0, <1>6 DEF Admin, Flush, Close, CloseRotate, Drained, DrainFails, InFlight, Procs
  <2> QED
    BY ZenonT(30), <1>1, <2>1, <2>2, <2>3 DEF Recoverable, InWal
<1>7. ASSUME NEW p \in Procs, Rotate(p) PROVE FrontierInv'
  <2>1. up /\ up'
    BY Zenon, <1>7, RotateUp
  <2>2. UNCHANGED <<visible_seq, global_seq, batch, flushed, installed>>
    BY <1>7 DEF Rotate, RotateMemtable, RotateWal, RotateWalFails, durable, engine
  <2>3. \A v \in Writers : InFlight(v)' => InFlight(v)
    BY ZenonT(30), <1>0, <1>7 DEF Rotate, RotateMemtable, RotateWal, RotateWalFails, AfterRotate, InFlight, Procs
  <2>4. InWal' \subseteq InWal
    BY Zenon, <1>7 DEF Rotate, RotateMemtable, RotateWal, RotateWalFails, durable, InWal
  <2> QED
    BY <1>1, <2>1, <2>2, <2>3, <2>4 DEF Recoverable
<1>8. ASSUME RunFlush PROVE FrontierInv'
  <2>1. up /\ up'
    BY <1>8, RunFlushUp
  <2>2. UNCHANGED <<visible_seq, global_seq, batch, pc>>
    BY Zenon, <1>8 DEF RunFlush, PickImmutable, CommitFlush, FlushFails, Install, MarkFlushed, EndSweep,
                UnlinkLog, UnlinkFails, DropMemtable, engine, tasks
  <2>3. InWal' \subseteq InWal
    BY Zenon, <1>8 DEF RunFlush, PickImmutable, CommitFlush, FlushFails, Install, MarkFlushed, EndSweep,
                UnlinkLog, UnlinkFails, DropMemtable, durable, InWal
  <2>4. fphase # "idle" => \A s \in fmem.recs : s < global_seq
    BY Zenon DEF FlushInv, IsOldest, OrderInv
  <2>5. flushed' \cup installed' \subseteq flushed \cup installed \cup fmem.recs
    BY Zenon, <1>8 DEF RunFlush, PickImmutable, CommitFlush, FlushFails, Install, MarkFlushed, EndSweep,
                UnlinkLog, UnlinkFails, DropMemtable, durable, engine
  <2>6. fphase = "idle" => flushed' \cup installed' \subseteq flushed \cup installed
    BY ZenonT(30), <1>8 DEF RunFlush, PickImmutable, CommitFlush, FlushFails, Install, MarkFlushed, EndSweep,
                UnlinkLog, UnlinkFails, DropMemtable, durable, engine
  <2>7. \A s \in Recoverable' \cup installed' : s < global_seq
    BY ZenonT(30), <2>1, <2>3, <2>4, <2>5, <2>6 DEF FrontierInv, Recoverable
  <2> QED
    BY <2>1, <2>2, <2>7 DEF FrontierInv, InFlight
<1>9. ASSUME Crash PROVE FrontierInv'
  <2>1. ~up' /\ \A w \in Writers : pc'[w] = "idle"
    BY Zenon, <1>9 DEF Crash, Procs
  <2> QED
    BY Zenon, <2>1 DEF FrontierInv, InFlight
<1>10. ASSUME Open PROVE FrontierInv'
  <2>1. \A w \in Writers : pc'[w] = "idle"
    BY Zenon, <1>10 DEF Open, AckedInv, AllIdle, tasks
  <2>2. /\ Recoverable' \cup installed' \subseteq Recoverable
        /\ visible_seq' < global_seq'
    <3>1. PICK wal_max \in InWal \cup {0}, top \in SeenNumbers,
               last_log \in DOMAIN logs \cup {0} : OpenWith(wal_max, top, last_log)
      BY <1>10 DEF Open
    <3>2. InWal' \subseteq InWal
      BY Zenon, <3>1 DEF OpenWith, InWal
    <3>3. top \in Nat /\ visible_seq' = top /\ global_seq' = top + 1
      BY <1>0, <3>1 DEF OpenWith, SeenNumbers
    <3> QED
      BY <1>10, <3>2, <3>3 DEF Open, Recoverable
  <2>3. \A s \in Recoverable : s < global_seq'
    BY <1>10, OpenFacts
  <2> QED
    BY Zenon, <2>1, <2>2, <2>3 DEF FrontierInv, InFlight
<1>11. ASSUME UNCHANGED vars PROVE FrontierInv'
  <2>1. UNCHANGED <<visible_seq, global_seq, batch, pc, flushed, logs, installed>>
    BY <1>11 DEF vars, durable, engine, tasks
  <2>2. up' = up
    BY Zenon, <1>11 DEF vars
  <2> QED
    BY Zenon, <2>1, <2>2 DEF FrontierInv, Recoverable, InWal, InFlight
<1> QED
  BY Zenon, <1>2, <1>3, <1>4, <1>5, <1>6, <1>7, <1>8, <1>9, <1>10, <1>11 DEF Next, Write

----------------------------------------------------------------------------
(***************************************************************************)
(* The theorems.  The set of records a restart would find grows by whole   *)
(* batches, in order, and nothing a rotation, a flush, a WAL sweep, a      *)
(* crash or a recovery does takes an acknowledged record from it.          *)
(***************************************************************************)

(* Memory and files together lose nothing while the engine runs. *)
LEMMA MemoryKept ==
  ASSUME TypeOK, OrderInv, SealedInv, FlushInv, Next, up, up'
  PROVE  flushed \cup InMemory \subseteq flushed' \cup InMemory'
<1> USE DEF InMemory
<1>0. active \in [gen : Nat, first : Nat, last : Nat, recs : SUBSET Nat]
  BY DEF TypeOK, Memtables
<1> DEFINE Kept == flushed \cup InMemory \subseteq flushed' \cup InMemory'
<1>1. ASSUME NEW w \in Writers, Write(w), ~Apply(w) PROVE Kept
  <2>1. UNCHANGED <<flushed, active, immutable>>
    BY Zenon, <1>1 DEF Write, BeginWrite, PassStall, Allocate, Append, AppendFails, AutoRotate,
                durable, engine
  <2> QED
    BY <2>1
<1>2. ASSUME NEW w \in Writers, Apply(w) PROVE Kept
  <2>1. UNCHANGED <<flushed, immutable>> /\ active.recs \subseteq active'.recs
    BY <1>0, <1>2 DEF Apply, ApplyTo, durable
  <2> QED
    BY <2>1
<1>3. ASSUME NEW a \in Admins, Admin(a) PROVE Kept
  <2>1. UNCHANGED <<flushed, active, immutable>>
    BY ZenonT(30), <1>3 DEF Admin, Flush, Close, CloseRotate, Drained, DrainFails, durable, engine
  <2> QED
    BY <2>1
<1>4. ASSUME NEW p \in Procs, Rotate(p) PROVE Kept
  BY <1>4 DEF Rotate, RotateMemtable, RotateWal, RotateWalFails, durable, engine
<1>5. ASSUME NEW m \in immutable, PickImmutable(m) PROVE Kept
  <2>1. \A o \in immutable : o \in immutable' \/ o.recs = {}
    BY Zenon, <1>5, DropsOnlyOne DEF PickImmutable
  <2> QED
    BY ZenonT(30), <1>5, <2>1 DEF PickImmutable, durable
<1>6. ASSUME CommitFlush \/ FlushFails \/ Install \/ MarkFlushed \/ EndSweep PROVE Kept
  BY ZenonT(30), <1>6 DEF CommitFlush, FlushFails, Install, MarkFlushed, EndSweep, durable, engine
<1>7. ASSUME NEW c \in to_delete, UnlinkLog(c) \/ UnlinkFails(c) PROVE Kept
  BY <1>7 DEF UnlinkLog, UnlinkFails, durable, engine
<1>8. ASSUME DropMemtable PROVE Kept
  <2>1. fmem \in immutable /\ IsOldest(fmem) /\ fmem.recs \subseteq flushed
    BY Zenon, <1>8 DEF DropMemtable, FlushInv, IsOldest
  <2>2. \A o \in immutable : o \in immutable' \/ o.recs \subseteq flushed
    BY Zenon, <1>8, <2>1, DropsOnlyOne DEF DropMemtable
  <2> QED
    BY ZenonT(30), <1>8, <2>2 DEF DropMemtable, durable
<1>9. ~Crash /\ ~Open
  BY Zenon DEF Crash, Open
<1> QED
  BY ZenonT(30), <1>1, <1>2, <1>3, <1>4, <1>5, <1>6, <1>7, <1>8, <1>9 DEF Next, RunFlush

(* A sweep unlinks only logs whose records are all in committed files. *)
LEMMA SweptIsFlushed ==
  ASSUME IInv, StoreInv, ~IOErrors, NEW c \in to_delete, UnlinkLog(c), NEW s \in logs[c.log],
         c.log \in DOMAIN logs
  PROVE  s \in flushed
<1>1. up /\ fphase = "gc"
  BY Zenon DEF UnlinkLog
<1>2. /\ s \in Nat /\ fmem.last \in Nat /\ c \in [log : Nat, max : Nat, pos : Nat]
  BY Zenon DEF IInv, TypeOK, Memtables, ClosedLogs
<1>3. s <= fmem.last
  <2>1. s <= c.max /\ c.max <= fmem.last
    BY Zenon, <1>1 DEF StoreInv, LogBounds
  <2>2. c.max \in Nat
    BY Zenon, <1>2
  <2> QED
    BY <1>2, <2>1, <2>2
<1>4. Pending = {}
  BY Zenon, <1>1 DEF Pending, IInv, LocksInv, InFlight
<1>5. s \in flushed \cup InMemory
  BY <1>1, <1>4 DEF StoreInv, InWal
<1>6. s \in InMemory /\ s \notin flushed => fmem.last < s
  BY Zenon, <1>1, FlushedPrefix DEF IInv
<1> QED
  BY <1>2, <1>3, <1>5, <1>6

(* A write that reaches the log stores its batch as a whole. *)
LEMMA BatchLogged ==
  ASSUME IInv, up, flushed' = flushed, NEW w \in Writers,
         logs' = [logs EXCEPT ![log_number] = @ \cup (batch[w].lo .. batch[w].hi)]
  PROVE  /\ InWal' = InWal \cup (batch[w].lo .. batch[w].hi)
         /\ Recoverable' = Recoverable \cup (batch[w].lo .. batch[w].hi)
<1>1. log_number \in DOMAIN logs /\ logs \in [DOMAIN logs -> SUBSET Nat]
  BY DEF IInv, LogFilesInv, TypeOK
<1>2. /\ DOMAIN logs' = DOMAIN logs
      /\ logs'[log_number] = logs[log_number] \cup (batch[w].lo .. batch[w].hi)
      /\ \A l \in DOMAIN logs : l # log_number => logs'[l] = logs[l]
  BY <1>1
<1>3. InWal' = InWal \cup (batch[w].lo .. batch[w].hi)
  BY <1>1, <1>2 DEF InWal
<1> QED
  BY Zenon, <1>3 DEF Recoverable

(* An append stores its batch. *)
LEMMA AppendStores ==
  ASSUME IInv, NEW w \in Writers, Append(w)
  PROVE  /\ InWal' = InWal \cup (batch[w].lo .. batch[w].hi)
         /\ Recoverable' = Recoverable \cup (batch[w].lo .. batch[w].hi)
<1>1. /\ up /\ flushed' = flushed
      /\ logs' = [logs EXCEPT ![log_number] = @ \cup (batch[w].lo .. batch[w].hi)]
  BY Zenon DEF Append, IInv, LocksInv
<1> QED
  BY ZenonT(30), <1>1, BatchLogged

(* A failed append has stored its batch, or nothing of it. *)
LEMMA FailedAppendStores ==
  ASSUME SafeRegime, IInv, NEW w \in Writers, AppendFails(w)
  PROVE  \/ Recoverable' = Recoverable \cup (batch[w].lo .. batch[w].hi)
         \/ Recoverable' = Recoverable
<1>1. CASE UNCHANGED logs
  BY ZenonT(30), <1>1 DEF AppendFails, Recoverable, InWal
<1>2. CASE logs' = [logs EXCEPT ![log_number] = @ \cup (batch[w].lo .. batch[w].hi)]
  <2>1. up /\ flushed' = flushed
    BY Zenon DEF AppendFails
  <2> QED
    BY ZenonT(30), <1>2, <2>1, BatchLogged
<1> QED
  BY <1>1, <1>2 DEF AppendFails, SafeRegime

(* No other step stores anything, and without I/O errors none discards. *)
LEMMA OthersStoreNothing ==
  ASSUME IInv, StoreInv, [Next]_vars, \A w \in Writers : ~Append(w) /\ ~AppendFails(w)
  PROVE  /\ InWal' \subseteq InWal /\ Recoverable' \subseteq Recoverable
         /\ ~IOErrors => Recoverable' = Recoverable
<1> DEFINE Shrinks == /\ InWal' \subseteq InWal /\ Recoverable' \subseteq Recoverable
                      /\ ~IOErrors => Recoverable' = Recoverable
<1>1. ASSUME UNCHANGED durable PROVE Shrinks
  BY <1>1 DEF durable, Recoverable, InWal
<1>2. ASSUME NEW w \in Writers, Write(w)
      PROVE  Shrinks
  BY ZenonT(30), <1>1, <1>2 DEF Write, BeginWrite, PassStall, Allocate, Apply, AutoRotate
<1>3. ASSUME NEW a \in Admins, Admin(a)
      PROVE  Shrinks
  BY Zenon, <1>1, <1>3 DEF Admin, Flush, Close, CloseRotate, Drained, DrainFails
<1>4. ASSUME NEW p \in Procs, Rotate(p)
      PROVE  Shrinks
  <2>1. CASE RotateMemtable(p) \/ RotateWalFails(p)
    BY <1>1, <2>1 DEF RotateMemtable, RotateWalFails
  <2>2. CASE RotateWal(p)
    <3>1. up /\ log_number \in Nat
      BY Zenon, <2>2 DEF RotateWal, IInv, TypeOK
    <3>2. log_number + 1 \notin DOMAIN logs
      BY <3>1 DEF IInv, LogFilesInv
    <3>3. /\ DOMAIN logs' = DOMAIN logs \cup {log_number + 1} /\ logs'[log_number + 1] = {}
          /\ \A l \in DOMAIN logs : logs'[l] = logs[l]
      BY Zenon, <2>2, <3>2 DEF RotateWal
    <3>4. InWal' = InWal /\ flushed' = flushed
      BY Zenon, <2>2, <3>3 DEF InWal, RotateWal
    <3> QED
      BY <3>4 DEF Recoverable
  <2> QED
    BY Zenon, <1>4, <2>1, <2>2 DEF Rotate
<1>5. ASSUME NEW m \in immutable, PickImmutable(m)
      PROVE  Shrinks
  BY ZenonT(30), <1>1, <1>5 DEF PickImmutable
<1>6. ASSUME CommitFlush PROVE Shrinks
  <2>1. up /\ fmem \in immutable
    BY Zenon, <1>6 DEF CommitFlush, IInv, FlushInv, IsOldest
  <2>2. fmem.recs \subseteq Recoverable
    BY ZenonT(30), <2>1 DEF IInv, LoggedInv, InLiveLog, LogFilesInv, InMemory, Recoverable, InWal
  <2> QED
    BY Zenon, <1>6, <2>2 DEF CommitFlush, Recoverable, InWal
<1>7. ASSUME FlushFails \/ Install \/ MarkFlushed \/ EndSweep \/ DropMemtable
      PROVE  Shrinks
  BY Zenon, <1>1, <1>7 DEF FlushFails, Install, MarkFlushed, EndSweep, DropMemtable
<1>8. ASSUME NEW c \in to_delete, UnlinkLog(c) \/ UnlinkFails(c)
      PROVE  Shrinks
  <2>1. CASE UnlinkLog(c)
    <3>1. ~IOErrors => (c.log \in DOMAIN logs => logs[c.log] \subseteq flushed)
      BY ZenonT(30), <2>1, SweptIsFlushed
    <3>2. /\ flushed' = flushed /\ DOMAIN logs' = DOMAIN logs \ {c.log}
          /\ \A l \in DOMAIN logs' : logs'[l] = logs[l]
      BY ZenonT(30), <2>1 DEF UnlinkLog
    <3> QED
      BY ZenonT(30), <3>1, <3>2 DEF Recoverable, InWal
  <2>2. CASE UnlinkFails(c)
    BY ZenonT(30), <1>1, <2>2 DEF UnlinkFails
  <2> QED
    BY <1>8, <2>1, <2>2
<1>9. ASSUME Crash PROVE Shrinks
  BY <1>1, <1>9 DEF Crash
<1>10. ASSUME Open PROVE Shrinks
  <2>1. PICK wal_max \in InWal \cup {0}, top \in SeenNumbers,
             last_log \in DOMAIN logs \cup {0} : OpenWith(wal_max, top, last_log)
    BY Zenon, <1>10 DEF Open
  <2>2. DOMAIN logs \subseteq Nat /\ last_log \in Nat
    BY DEF IInv, TypeOK
  <2>3. last_log + 1 \notin DOMAIN logs
    BY <2>1, <2>2 DEF OpenWith, IsMaxOf
  <2>4. /\ DOMAIN logs' = DOMAIN logs \cup {last_log + 1} /\ logs'[last_log + 1] = {}
        /\ \A l \in DOMAIN logs : logs'[l] = logs[l]
    BY <2>1, <2>3 DEF OpenWith
  <2>5. InWal' = InWal /\ flushed' = flushed
    BY Zenon, <1>10, <2>4 DEF InWal, Open
  <2> QED
    BY Zenon, <2>5 DEF Recoverable
<1>11. ASSUME UNCHANGED vars PROVE Shrinks
  BY Zenon, <1>1, <1>11 DEF vars
<1> QED
  BY ZenonT(30), <1>2, <1>3, <1>4, <1>5, <1>6, <1>7, <1>8, <1>9, <1>10, <1>11 DEF Next, RunFlush

(* A batch in flight is numbered above everything stored. *)
LEMMA AllocatedAbove ==
  ASSUME IInv, StoreInv, [Next]_vars, NEW w \in Writers, pc'[w] = "allocated"
  PROVE  \A s \in Recoverable' : s < batch'[w].lo
<1>1. CASE \E n \in 1 .. MaxBatch : Allocate(w, n)
  <2>1. up /\ global_seq \in Nat /\ batch'[w].lo = global_seq /\ UNCHANGED durable
    BY <1>1 DEF Allocate, NextBatch, IInv, TypeOK
  <2>2. Recoverable' = Recoverable
    BY <2>1 DEF durable, Recoverable, InWal
  <2> QED
    BY ZenonT(30), <2>1, <2>2 DEF IInv, FrontierInv
<1>2. CASE ~\E n \in 1 .. MaxBatch : Allocate(w, n)
  <2>0. pc \in [Procs -> PC] /\ w \in Procs
    BY Zenon DEF IInv, TypeOK, Procs
  <2>1. pc[w] = "allocated" /\ batch'[w] = batch[w]
    <3>1. ASSUME NEW v \in Writers, Write(v) PROVE pc[w] = "allocated" /\ batch'[w] = batch[w]
      <4>1. ASSUME NEW n \in 1 .. MaxBatch, Allocate(v, n)
            PROVE  pc[w] = "allocated" /\ batch'[w] = batch[w]
        <5>1. v # w
          BY Zenon, <1>2, <4>1
        <5> QED
          BY <2>0, <4>1, <5>1 DEF Allocate, IInv, TypeOK
      <4>2. CASE ~\E n \in 1 .. MaxBatch : Allocate(v, n)
        BY Zenon, <2>0, <3>1, <4>2
           DEF Write, BeginWrite, PassStall, Append, AppendFails, Apply, AutoRotate
      <4> QED
        BY ZenonT(30), <4>1, <4>2
    <3>2. ASSUME NEW a \in Admins, Admin(a) PROVE pc[w] = "allocated" /\ batch'[w] = batch[w]
      BY Zenon, <2>0, <3>2 DEF Admin, Flush, Close, CloseRotate, Drained, DrainFails
    <3>3. ASSUME NEW p \in Procs, Rotate(p) PROVE pc[w] = "allocated" /\ batch'[w] = batch[w]
      BY Zenon, <2>0, <3>3 DEF Rotate, RotateMemtable, RotateWal, RotateWalFails, AfterRotate
    <3>4. ASSUME RunFlush \/ Open \/ UNCHANGED vars
          PROVE  pc[w] = "allocated" /\ batch'[w] = batch[w]
      BY Zenon, <3>4 DEF RunFlush, PickImmutable, CommitFlush, FlushFails, Install, MarkFlushed, UnlinkLog,
                  UnlinkFails, EndSweep, DropMemtable, Open, vars, tasks
    <3>5. ~Crash
      BY <2>0 DEF Crash
    <3> QED
      BY Zenon, <3>1, <3>2, <3>3, <3>4, <3>5 DEF Next
  <2>2. ASSUME NEW v \in Writers, Append(v) \/ AppendFails(v) PROVE FALSE
    <3>1. v = w
      BY Zenon, <2>1, <2>2 DEF Append, AppendFails, IInv, LocksInv, InFlight
    <3> QED
      BY ZenonT(30), <2>0, <2>2, <3>1 DEF Append, AppendFails
  <2> QED
    BY ZenonT(30), <2>1, <2>2, OthersStoreNothing DEF StoreInv
<1> QED
  BY Zenon, <1>1, <1>2

(* The logs hold only what the engine knows of. *)
LEMMA LogsAreKnown ==
  ASSUME IInv, StoreInv, ~IOErrors, [Next]_vars, up'
  PROVE  InWal' \subseteq flushed' \cup InMemory' \cup Pending'
<1>0. pc \in [Procs -> PC] /\ Writers \subseteq Procs
  BY DEF IInv, TypeOK, Procs
<1>1. CASE Open
  <2>1. InWal' \subseteq InWal
    BY Zenon, <1>1, OthersStoreNothing DEF Append, AppendFails, Open
  <2>2. InWal \subseteq InMemory'
    BY <1>1 DEF Open, OpenWith, NewMemtable, InMemory
  <2> QED
    BY <2>1, <2>2
<1>2. CASE ~Open
  <2>1. up
    BY Zenon, <1>2, RunFlushUp DEF Next, Write, BeginWrite, PassStall, Allocate, Append, AppendFails, Apply,
          AutoRotate, Admin, Flush, Close, CloseRotate, Drained, DrainFails, Rotate,
          RotateMemtable, RotateWal, RotateWalFails, Crash, vars
  <2>2. flushed \cup InMemory \subseteq flushed' \cup InMemory'
    <3>1. CASE Next
      BY Zenon, <2>1, <3>1, MemoryKept DEF IInv
    <3>2. CASE UNCHANGED vars
      BY Zenon, <3>2 DEF vars, durable, engine, InMemory
    <3> QED
      BY <3>1, <3>2
  <2>3. InWal \subseteq flushed \cup InMemory \cup Pending
    BY Zenon, <2>1 DEF StoreInv
  <2>4. ASSUME NEW w \in Writers, Append(w)
        PROVE  InWal' \subseteq flushed' \cup InMemory' \cup Pending'
    <3>1. InWal' = InWal \cup (batch[w].lo .. batch[w].hi)
      BY <2>4, AppendStores
    <3>2. /\ batch' = batch /\ pc'[w] = "appended"
          /\ \A v \in Writers : pc[v] = "appended" => pc'[v] = "appended"
      BY ZenonT(30), <1>0, <2>4 DEF Append
    <3>3. Pending \cup (batch[w].lo .. batch[w].hi) \subseteq Pending'
      BY ZenonT(30), <3>2 DEF Pending
    <3> QED
      BY Zenon, <2>2, <2>3, <3>1, <3>3
  <2>5. ASSUME NEW w \in Writers, Apply(w)
        PROVE  InWal' \subseteq flushed' \cup InMemory' \cup Pending'
    <3>1. InWal' = InWal
      BY ZenonT(30), <2>5 DEF Apply, durable, InWal
    <3>2. /\ batch' = batch
          /\ \A v \in Writers : pc[v] = "appended" /\ v # w => pc'[v] = "appended"
      BY ZenonT(30), <1>0, <2>5 DEF Apply
    <3>3. Pending \subseteq Pending' \cup (batch[w].lo .. batch[w].hi)
      BY ZenonT(30), <3>2 DEF Pending
    <3>4. active \in [gen : Nat, first : Nat, last : Nat, recs : SUBSET Nat]
      BY DEF IInv, TypeOK, Memtables
    <3>5. batch[w].lo .. batch[w].hi \subseteq InMemory'
      BY <2>5, <3>4 DEF Apply, ApplyTo, InMemory
    <3> QED
      BY <2>2, <2>3, <3>1, <3>3, <3>5
  <2>6. ASSUME \A w \in Writers : ~Append(w) /\ ~Apply(w)
        PROVE  InWal' \subseteq flushed' \cup InMemory' \cup Pending'
    <3>1. InWal' \subseteq InWal
      BY ZenonT(30), <2>6, OthersStoreNothing DEF AppendFails
    <3>2. ASSUME NEW v \in Writers, pc[v] = "appended"
          PROVE  pc'[v] = "appended" /\ batch'[v] = batch[v]
      <4>1. ASSUME NEW w \in Writers, Write(w)
            PROVE  pc'[v] = "appended" /\ batch'[v] = batch[v]
        <5>1. ASSUME NEW n \in 1 .. MaxBatch, Allocate(w, n)
              PROVE  pc'[v] = "appended" /\ batch'[v] = batch[v]
          <6>1. v # w
            BY <3>2, <5>1 DEF Allocate
          <6> QED
            BY Zenon, <1>0, <3>2, <5>1, <6>1 DEF Allocate, IInv, TypeOK
        <5>2. CASE ~\E n \in 1 .. MaxBatch : Allocate(w, n)
          BY Zenon, <1>0, <2>6, <3>2, <4>1, <5>2 DEF Write, BeginWrite, PassStall, AppendFails, AutoRotate
        <5> QED
          BY Zenon, <5>1, <5>2
      <4>2. ASSUME NEW a \in Admins, Admin(a)
            PROVE  pc'[v] = "appended" /\ batch'[v] = batch[v]
        BY Zenon, <1>0, <3>2, <4>2 DEF Admin, Flush, Close, CloseRotate, Drained, DrainFails
      <4>3. ASSUME NEW p \in Procs, Rotate(p)
            PROVE  pc'[v] = "appended" /\ batch'[v] = batch[v]
        BY Zenon, <1>0, <3>2, <4>3 DEF Rotate, RotateMemtable, RotateWal, RotateWalFails, AfterRotate
      <4>4. ASSUME RunFlush \/ UNCHANGED vars
            PROVE  pc'[v] = "appended" /\ batch'[v] = batch[v]
        BY Zenon, <3>2, <4>4 DEF RunFlush, PickImmutable, CommitFlush, FlushFails, Install, MarkFlushed,
                    UnlinkLog, UnlinkFails, EndSweep, DropMemtable, vars, tasks
      <4>5. ~Crash
        BY ZenonT(30) DEF Crash
      <4> QED
        BY ZenonT(30), <1>2, <4>1, <4>2, <4>3, <4>4, <4>5 DEF Next
    <3>3. Pending \subseteq Pending'
      BY <3>2 DEF Pending
    <3> QED
      BY <2>2, <2>3, <3>1, <3>3
  <2> QED
    BY Zenon, <2>4, <2>5, <2>6
<1> QED
  BY Zenon, <1>1, <1>2

(* A log's max_seq stays above its records. *)
LEMMA LogsAreBounded ==
  ASSUME IInv, StoreInv, ~IOErrors, [Next]_vars
  PROVE  LogBounds'
<1> USE DEF LogBounds
<1>0. LogBounds
  BY ZenonT(30) DEF StoreInv
<1>t. /\ log_number \in Nat /\ log_max \in Nat /\ DOMAIN logs \subseteq Nat
      /\ logs \in [DOMAIN logs -> SUBSET Nat]
      /\ closed_logs \cup to_delete \subseteq [log : Nat, max : Nat, pos : Nat]
      /\ batch \in [Writers -> [lo : Nat, hi : Nat]]
  BY DEF IInv, TypeOK, ClosedLogs
<1>f. LogFilesInv
  BY Zenon DEF IInv
<1>1. ASSUME UNCHANGED <<logs, up, wal, flusher>> PROVE LogBounds'
  BY Zenon, <1>0, <1>1 DEF wal, flusher
<1>2. ASSUME NEW w \in Writers, Append(w) PROVE LogBounds'
  <2>1. /\ log_number \in DOMAIN logs
        /\ \A c \in closed_logs \cup to_delete : c.log # log_number
    BY <1>t, <1>f, <1>2 DEF Append, LogFilesInv
  <2>2. /\ ~log_torn
        /\ UNCHANGED <<up, log_number, closed_logs, fphase, fmem, to_delete>>
    BY ZenonT(30), <1>2 DEF Append, IInv, LocksInv, flusher
  <2>3. /\ logs' = [logs EXCEPT ![log_number] = @ \cup (batch[w].lo .. batch[w].hi)]
        /\ log_max' = IF batch[w].hi > log_max THEN batch[w].hi ELSE log_max
    BY ZenonT(30), <1>2, <2>2 DEF Append
  <2>4. \A s \in logs'[log_number] : s <= log_max'
    <3>1. \A s \in logs[log_number] : s <= log_max
      BY Zenon, <1>0, <1>2 DEF Append
    <3> QED
      BY <1>t, <2>1, <2>3, <3>1
  <2>5. \A c \in closed_logs \cup to_delete :
          c.log \in DOMAIN logs => logs'[c.log] = logs[c.log]
    BY Zenon, <2>1, <2>3
  <2>6. DOMAIN logs' = DOMAIN logs
    BY SMTT(30), <2>3
  <2> QED
    BY ZenonT(30), <1>0, <2>2, <2>4, <2>5, <2>6
<1>3. ASSUME NEW w \in Writers, Write(w), ~Append(w) PROVE LogBounds'
  BY Zenon, <1>1, <1>3 DEF Write, BeginWrite, PassStall, Allocate, AppendFails, Apply, AutoRotate, durable
<1>4. ASSUME NEW a \in Admins, Admin(a) PROVE LogBounds'
  BY Zenon, <1>1, <1>4 DEF Admin, Flush, Close, CloseRotate, Drained, DrainFails, durable
<1>5. ASSUME NEW p \in Procs, Rotate(p) PROVE LogBounds'
  <2>1. CASE RotateMemtable(p) \/ RotateWalFails(p)
    BY Zenon, <1>1, <2>1 DEF RotateMemtable, RotateWalFails, durable
  <2>2. CASE RotateWal(p)
    <3>1. up /\ \A l \in DOMAIN logs : l <= log_number
      BY Zenon, <1>f, <2>2 DEF RotateWal, LogFilesInv
    <3>2. /\ log_number' = log_number + 1 /\ logs'[log_number + 1] = {}
          /\ DOMAIN logs' = DOMAIN logs \cup {log_number + 1}
          /\ \A l \in DOMAIN logs : logs'[l] = logs[l]
      BY <1>t, <2>2, <3>1 DEF RotateWal
    <3>3. UNCHANGED <<fphase, fmem, to_delete>>
      BY Zenon, <2>2 DEF RotateWal, flusher
    <3>4. \A c \in closed_logs \cup to_delete : c.log < log_number
      BY Zenon, <1>f DEF LogFilesInv
    <3>5. \A c \in closed_logs' \cup to_delete' :
            c \in closed_logs \cup to_delete \/ (c.log = log_number /\ c.max = log_max)
      <4>1. closed_logs' = closed_logs \cup
               {[log |-> log_number, max |-> log_max, pos |-> 2 * log_number + 1]}
        BY Zenon, <2>2 DEF RotateWal
      <4>2. to_delete' = to_delete
        BY Zenon, <3>3
      <4> QED
        BY ONLY <4>1, <4>2
    <3>6. \A c \in closed_logs' \cup to_delete' :
            c.log \in DOMAIN logs' => \A s \in logs'[c.log] : s <= c.max
      <4> SUFFICES ASSUME NEW c \in closed_logs' \cup to_delete', c.log \in DOMAIN logs',
                          NEW s \in logs'[c.log]
                   PROVE  s <= c.max
        BY Zenon
      <4>1. CASE c \in closed_logs \cup to_delete
        BY Zenon, <1>0, <1>t, <3>2, <3>4, <4>1
      <4>2. CASE c.log = log_number /\ c.max = log_max
        BY Zenon, <1>0, <1>t, <3>1, <3>2, <4>2
      <4> QED
        BY Zenon, <3>5, <4>1, <4>2
    <3> QED
      BY Zenon, <1>0, <3>2, <3>3, <3>6
  <2> QED
    BY Zenon, <1>5, <2>1, <2>2 DEF Rotate
<1>6. ASSUME NEW m \in immutable, PickImmutable(m) PROVE LogBounds'
  <2>1. UNCHANGED <<logs, up, wal, to_delete>> /\ to_delete = {}
    BY ZenonT(30), <1>6 DEF PickImmutable, durable, IInv, FlushInv
  <2> QED
    BY Zenon, <1>0, <2>1 DEF wal
<1>7. ASSUME CommitFlush \/ FlushFails \/ Install \/ EndSweep \/ DropMemtable PROVE LogBounds'
  <2>1. UNCHANGED <<logs, up, wal, to_delete, fmem>> /\ fphase' # "gc"
    BY ZenonT(30), <1>7 DEF CommitFlush, FlushFails, Install, EndSweep, DropMemtable, durable
  <2> QED
    BY <1>0, <2>1 DEF wal
<1>8. ASSUME MarkFlushed PROVE LogBounds'
  <2>1. UNCHANGED <<logs, up, log_number, log_max, fmem>>
    BY <1>8 DEF MarkFlushed, durable
  <2>2. /\ closed_logs' \cup to_delete' \subseteq closed_logs
        /\ \A c \in to_delete' : c.max <= fmem.last
    BY Zenon, <1>8 DEF MarkFlushed, Covered
  <2> QED
    BY Zenon, <1>0, <2>1, <2>2
<1>9. ASSUME NEW c \in to_delete, UnlinkLog(c) \/ UnlinkFails(c) PROVE LogBounds'
  <2>1. UnlinkLog(c)
    BY Zenon, <1>9 DEF UnlinkFails
  <2>2. /\ UNCHANGED <<up, wal, fphase, fmem>> /\ to_delete' \subseteq to_delete
        /\ DOMAIN logs' = DOMAIN logs \ {c.log}
        /\ \A l \in DOMAIN logs' : logs'[l] = logs[l]
    BY Zenon, <2>1 DEF UnlinkLog
  <2>3. up /\ log_number \in DOMAIN logs'
    BY <1>t, <2>1, <2>2 DEF UnlinkLog, IInv, LogFilesInv
  <2> QED
    BY Zenon, <1>0, <2>2, <2>3 DEF wal
<1>10. ASSUME Crash PROVE LogBounds'
  BY ZenonT(30), <1>10 DEF Crash
<1>11. ASSUME Open PROVE LogBounds'
  <2>1. PICK wal_max \in InWal \cup {0}, top \in SeenNumbers,
             last_log \in DOMAIN logs \cup {0} : OpenWith(wal_max, top, last_log)
    BY <1>11 DEF Open
  <2>2. last_log + 1 \notin DOMAIN logs /\ last_log \in Nat
    BY <1>t, <2>1 DEF OpenWith, IsMaxOf
  <2>3. /\ log_number' = last_log + 1 /\ logs'[last_log + 1] = {}
        /\ \A l \in DOMAIN logs : logs'[l] = logs[l]
    BY <2>1, <2>2 DEF OpenWith
  <2>4. \A s \in InWal : s <= wal_max
    BY <2>1 DEF OpenWith, IsMaxOf
  <2>5. to_delete' = {} /\ \A c \in closed_logs' : c.log \in DOMAIN logs /\ c.max = wal_max
    BY <1>11, <2>1 DEF Open, OpenWith, IInv, AckedInv, flusher
  <2> QED
    BY Zenon, <2>3, <2>4, <2>5 DEF InWal
<1>12. ASSUME UNCHANGED vars PROVE LogBounds'
  BY Zenon, <1>1, <1>12 DEF vars, durable
<1> QED
  BY Zenon, <1>2, <1>3, <1>4, <1>5, <1>6, <1>7, <1>8, <1>9, <1>10, <1>11, <1>12 DEF Next, RunFlush

-----------------------------------------------------------------------------
(* The theorems. *)

(* Type correctness, in every regime. *)
THEOREM TypeCorrect == Spec => []TypeOK
  BY InitTypeOK, TypeOKInductive, PTL DEF Spec

(* The inductive invariant holds in the safe regime. *)
THEOREM Invariant == SafeRegime => (Spec => []IInv)
<1> SUFFICES ASSUME SafeRegime PROVE Spec => []IInv
  BY Zenon
<1>1. IInv /\ [Next]_vars => IInv'
  BY Zenon, TypeOKInductive, LocksInductive, OrderInductive, FrontierInductive, FirstInductive, LastInductive,
     FilledInductive, SealedInductive, FlushInductive, LogFilesInductive, LoggedInductive,
     AckedInductive DEF IInv
<1> QED
  BY <1>1, InitIInv, PTL DEF Spec

(* Durability: in the safe regime every completed write is in a committed    *)
(* file or in a log recovery reads, at every moment, so a crash at any point *)
(* of a write, a rotation, a flush or a WAL sweep loses none.                *)
THEOREM Durability == SafeRegime => (Spec => []Durable)
<1>1. IInv => Durable
  <2> SUFFICES ASSUME IInv PROVE acked \subseteq Recoverable
    BY DEF Durable
  <2>1. CASE up
    <3>1. InMemory \subseteq Recoverable
      BY Zenon, <2>1 DEF IInv, LoggedInv, InLiveLog, LogFilesInv, Recoverable, InWal
    <3> QED
      BY <2>1, <3>1 DEF IInv, AckedInv, Recoverable
  <2>2. CASE ~up
    BY Zenon, <2>2 DEF IInv, AckedInv
  <2> QED
    BY <2>1, <2>2
<1> QED
  BY <1>1, Invariant, PTL

(* A number handed out is never handed out again: recovery continues above   *)
(* everything in the logs and in the committed files.                        *)
THEOREM NumbersAreFresh == SafeRegime => (Spec => []FreshNumbers)
<1>1. IInv => FreshNumbers
  <2> SUFFICES ASSUME IInv, up, NEW s \in Recoverable \cup Readable PROVE s < global_seq
    BY Zenon DEF FreshNumbers
  <2>1. CASE s \in Recoverable \cup installed
    BY Zenon, <2>1 DEF IInv, FrontierInv
  <2>2. CASE s \in active.recs \/ \E m \in immutable : s \in m.recs
    BY Zenon, <2>2 DEF IInv, OrderInv
  <2> QED
    BY Zenon, <2>1, <2>2 DEF Readable
<1> QED
  BY <1>1, Invariant, PTL

(* What a reader can find it finds again, until the engine stops: the file   *)
(* is installed before its memtable is dropped, and no other memtable with   *)
(* records is dropped with it.                                               *)
THEOREM NothingIsDropped == SafeRegime => (Spec => NothingVanishes)
<1>1. IInv /\ [Next]_vars => [up /\ up' => Readable \subseteq Readable']_vars
  <2> SUFFICES ASSUME IInv, Next, up, up' PROVE Readable \subseteq Readable'
    OBVIOUS
  <2> USE DEF Readable
  <2>0. active \in [gen : Nat, first : Nat, last : Nat, recs : SUBSET Nat]
    BY ZenonT(30) DEF IInv, TypeOK, Memtables
  <2>1. ASSUME NEW w \in Writers, Write(w) PROVE Readable \subseteq Readable'
    <3>1. CASE Apply(w)
      BY ZenonT(30), <2>0, <3>1 DEF Apply, ApplyTo
    <3>2. CASE ~Apply(w)
      <4>1. UNCHANGED <<active, immutable, installed>>
        BY Zenon, <2>1, <3>2 DEF Write, BeginWrite, PassStall, Allocate, Append, AppendFails,
                                 AutoRotate, engine
      <4> QED
        BY <4>1
    <3> QED
      BY <3>1, <3>2
  <2>2. ASSUME NEW a \in Admins, Admin(a) PROVE Readable \subseteq Readable'
    <3>1. UNCHANGED <<active, immutable, installed>>
      BY Zenon, <2>2 DEF Admin, Flush, Close, CloseRotate, Drained, DrainFails, engine
    <3> QED
      BY <3>1
  <2>3. ASSUME NEW p \in Procs, Rotate(p) PROVE Readable \subseteq Readable'
    <3>1. CASE RotateMemtable(p)
      <4>1. immutable' = immutable \cup {active} /\ installed' = installed
        BY Zenon, <3>1 DEF RotateMemtable
      <4> QED
        BY Zenon, <4>1
    <3>2. CASE RotateWal(p) \/ RotateWalFails(p)
      <4>1. UNCHANGED engine
        BY ZenonT(30), <3>2 DEF RotateWal, RotateWalFails
      <4> QED
        BY Zenon, <4>1 DEF engine
    <3> QED
      BY ZenonT(30), <2>3, <3>1, <3>2 DEF Rotate
  <2>4. ASSUME NEW m \in immutable, PickImmutable(m) PROVE Readable \subseteq Readable'
    <3>1. \A o \in immutable : o \in immutable' \/ o.recs = {}
      BY Zenon, <2>4, DropsOnlyOne DEF PickImmutable, IInv
    <3> QED
      BY ZenonT(30), <2>4, <3>1 DEF PickImmutable
  <2>5. ASSUME CommitFlush \/ FlushFails \/ Install \/ MarkFlushed \/ EndSweep
        PROVE  Readable \subseteq Readable'
    BY ZenonT(30), <2>5 DEF CommitFlush, FlushFails, Install, MarkFlushed, EndSweep, engine
  <2>6. ASSUME NEW c \in to_delete, UnlinkLog(c) \/ UnlinkFails(c)
        PROVE  Readable \subseteq Readable'
    BY ZenonT(30), <2>6 DEF UnlinkLog, UnlinkFails, engine
  <2>7. ASSUME DropMemtable PROVE Readable \subseteq Readable'
    <3>1. fmem \in immutable /\ IsOldest(fmem) /\ fmem.recs \subseteq installed
      BY <2>7 DEF DropMemtable, IInv, FlushInv, IsOldest
    <3>2. \A o \in immutable : o \in immutable' \/ o.recs \subseteq installed
      BY ZenonT(30), <2>7, <3>1, DropsOnlyOne DEF DropMemtable, IInv
    <3> QED
      BY ZenonT(30), <2>7, <3>2 DEF DropMemtable
  <2>8. ~Crash /\ ~Open
    BY DEF Crash, Open
  <2> QED
    BY Zenon, <2>1, <2>2, <2>3, <2>4, <2>5, <2>6, <2>7, <2>8 DEF Next, RunFlush
<1> QED
  BY <1>1, Invariant, PTL DEF Spec, NothingVanishes

(* A number the frontier has passed is readable or never will be: a reader   *)
(* at visible_seq sees a fixed set of records below it.                      *)
THEOREM FrontierIsStable == SafeRegime => (Spec => FrontierStable)
<1>1. IInv /\ [Next]_vars
      => [up /\ up' => \A s \in Readable' : s <= visible_seq => s \in Readable]_vars
  <2> SUFFICES ASSUME IInv, Next, up, up', NEW s \in Readable', s <= visible_seq
               PROVE  s \in Readable
    BY Zenon
  <2> USE DEF Readable
  <2>0. /\ active \in [gen : Nat, first : Nat, last : Nat, recs : SUBSET Nat]
        /\ visible_seq \in Nat /\ batch \in [Writers -> [lo : Nat, hi : Nat]]
    BY Zenon DEF IInv, TypeOK, Memtables
  <2>1. ASSUME NEW w \in Writers, Write(w), ~Apply(w) PROVE s \in Readable
    <3>1. UNCHANGED <<active, immutable, installed>>
      BY Zenon, <2>1 DEF Write, BeginWrite, PassStall, Allocate, Append, AppendFails,
                         AutoRotate, engine
    <3> QED
      BY <3>1
  <2>2. ASSUME NEW w \in Writers, Apply(w) PROVE s \in Readable
    <3>1. visible_seq < batch[w].lo
      BY Zenon, <2>2 DEF Apply, IInv, FrontierInv, InFlight
    <3>2. Readable' = Readable \cup (batch[w].lo .. batch[w].hi)
      BY SMTT(30), <2>0, <2>2 DEF Apply, ApplyTo
    <3> QED
      BY <2>0, <3>1, <3>2
  <2>3. ASSUME NEW a \in Admins, Admin(a) PROVE s \in Readable
    <3>1. UNCHANGED <<active, immutable, installed>>
      BY Zenon, <2>3 DEF Admin, Flush, Close, CloseRotate, Drained, DrainFails, engine
    <3> QED
      BY <3>1
  <2>4. ASSUME NEW p \in Procs, Rotate(p) PROVE s \in Readable
    <3>1. CASE RotateMemtable(p)
      <4>1. installed' = installed /\ immutable' = immutable \cup {active} /\ active'.recs = {}
        BY Zenon, <3>1 DEF RotateMemtable, NewMemtable
      <4> QED
        BY Zenon, <4>1
    <3>2. CASE RotateWal(p) \/ RotateWalFails(p)
      <4>1. UNCHANGED <<active, immutable, installed>>
        BY Zenon, <3>2 DEF RotateWal, RotateWalFails, engine
      <4> QED
        BY <4>1
    <3> QED
      BY Zenon, <2>4, <3>1, <3>2 DEF Rotate
  <2>5. ASSUME RunFlush PROVE s \in Readable
    <3>1. fphase # "idle" => fmem \in immutable
      BY Zenon DEF IInv, FlushInv, IsOldest
    <3>2. immutable' \subseteq immutable /\ active' = active
      BY Zenon, <2>5 DEF RunFlush, PickImmutable, CommitFlush, FlushFails, Install, MarkFlushed, EndSweep,
                  UnlinkLog, UnlinkFails, DropMemtable, DropFlushed, engine
    <3>3. installed' = installed \/ (fphase # "idle" /\ installed' = installed \cup fmem.recs)
      BY Zenon, <2>5 DEF RunFlush, PickImmutable, CommitFlush, FlushFails, Install, MarkFlushed, EndSweep,
                  UnlinkLog, UnlinkFails, DropMemtable, engine
    <3> QED
      BY <3>1, <3>2, <3>3
  <2>6. ~Crash /\ ~Open
    BY Zenon DEF Crash, Open
  <2> QED
    BY <2>1, <2>2, <2>3, <2>4, <2>5, <2>6 DEF Next
<1> QED
  BY <1>1, Invariant, PTL DEF Spec, FrontierStable

(* The write path implements DurableStore in the safe regime: an append       *)
(* stores its batch as a whole, above all earlier ones, also when it returns  *)
(* an error; an apply acknowledges it; and nothing a rotation, a flush, a WAL *)
(* sweep, a crash or a recovery does takes an acknowledged record away, nor   *)
(* any record where no I/O fails.                                             *)
THEOREM ImplementsDurableStore == SafeRegime => (Spec => StoreSpec)
<1> SUFFICES ASSUME SafeRegime PROVE Spec => StoreSpec
  OBVIOUS
<1>1. Init => Store!Init /\ StoreInv
  <2> SUFFICES ASSUME Init PROVE Store!Init /\ StoreInv
    OBVIOUS
  <2>1. InWal = {} /\ flushed = {} /\ acked = {} /\ Recoverable = {}
    BY Zenon DEF Init, InWal, Recoverable
  <2>2. \A w \in Writers : pc[w] = "idle"
    BY Zenon DEF Init, Procs
  <2>3. LogBounds
    BY DEF Init, LogBounds
  <2> QED
    BY <2>1, <2>2, <2>3 DEF Store!Init, StoreInv
<1>2. IInv /\ StoreInv /\ [Next]_vars => StoreInv'
  <2> SUFFICES ASSUME IInv, StoreInv, [Next]_vars PROVE StoreInv'
    OBVIOUS
  <2>1. ~IOErrors => LogBounds'
    BY LogsAreBounded
  <2>2. ~IOErrors => (up' => InWal' \subseteq flushed' \cup InMemory' \cup Pending')
    BY Zenon, LogsAreKnown
  <2>3. \A w \in Writers : pc'[w] = "allocated" => \A s \in Recoverable' : s < batch'[w].lo
    BY AllocatedAbove
  <2> QED
    BY Zenon, <2>1, <2>2, <2>3 DEF StoreInv
<1>3. IInv /\ Durable' /\ StoreInv /\ [Next]_vars => StoreStep
  <2> SUFFICES ASSUME IInv, Durable', StoreInv, [Next]_vars
               PROVE  Store!Next \/ UNCHANGED Store!vars
    BY Zenon DEF StoreStep
  <2>1. ASSUME NEW w \in Writers, Append(w) \/ AppendFails(w),
               Recoverable' # Recoverable
        PROVE  Store!StoreBatch
    <3>0. acked' = acked
      BY Zenon, <2>1 DEF Append, AppendFails, history
    <3>1. Recoverable' = Recoverable \cup (batch[w].lo .. batch[w].hi) /\ acked' = acked
      BY ZenonT(30), <2>1, <3>0, AppendStores, FailedAppendStores
    <3>2. \A t \in Recoverable : t < batch[w].lo
      BY ZenonT(30), <2>1 DEF Append, AppendFails, StoreInv
    <3>3. batch[w].lo \in Nat /\ batch[w].hi \in Nat /\ Recoverable \subseteq Nat
      BY ZenonT(30) DEF IInv, TypeOK, Recoverable, InWal
    <3>4. Recoverable' \ Recoverable = batch[w].lo .. batch[w].hi
      BY <3>1, <3>2, <3>3
    <3>5. ASSUME NEW s \in batch[w].lo .. batch[w].hi, NEW t \in Recoverable PROVE t < s
      <4>1. t < batch[w].lo
        BY Zenon, <3>2
      <4>2. t \in Nat /\ s \in Nat /\ batch[w].lo <= s
        BY <3>3
      <4> QED
        BY <3>3, <4>1, <4>2
    <3>6. \A s, t \in batch[w].lo .. batch[w].hi : s .. t \subseteq batch[w].lo .. batch[w].hi
      BY <3>3
    <3>7. Recoverable \subseteq Recoverable'
      BY Zenon, <3>1
    <3> QED
      BY <3>1, <3>4, <3>5, <3>6, <3>7 DEF Store!StoreBatch
  <2>2. ASSUME NEW w \in Writers, Apply(w) PROVE Store!Acknowledge
    <3>1. acked' = acked \cup (batch[w].lo .. batch[w].hi) /\ up /\ UNCHANGED durable
      BY ZenonT(30), <2>2 DEF Apply
    <3>2. Recoverable' = Recoverable
      BY Zenon, <3>1 DEF durable, Recoverable, InWal
    <3>3. log_number \in DOMAIN logs
      BY Zenon, <3>1 DEF IInv, LogFilesInv
    <3>4. \A s \in batch[w].lo .. batch[w].hi : s \in Recoverable
      BY Zenon, <2>2, <3>3 DEF Apply, IInv, LoggedInv, InLiveLog, Recoverable, InWal
    <3>5. InMemory \subseteq Recoverable
      BY ZenonT(30), <3>3 DEF IInv, LoggedInv, InLiveLog, Recoverable, InWal
    <3>6. acked \subseteq Recoverable
      BY Zenon, <3>1, <3>5 DEF IInv, AckedInv, Recoverable
    <3> QED
      BY SMTT(30), <3>1, <3>2, <3>4, <3>6 DEF Store!Acknowledge
  <2>3. ASSUME NEW w \in Writers, Append(w) \/ AppendFails(w),
               Recoverable' = Recoverable
        PROVE  UNCHANGED Store!vars
    BY Zenon, <2>3 DEF Append, AppendFails, history, Store!vars
  <2>4. ASSUME \A w \in Writers : ~Append(w) /\ ~AppendFails(w) /\ ~Apply(w)
        PROVE  Store!Discard \/ UNCHANGED Store!vars
    <3>1. Recoverable' \subseteq Recoverable /\ (~IOErrors => Recoverable' = Recoverable)
      BY Zenon, <2>4, OthersStoreNothing
    <3>2. acked' = acked
      BY ZenonT(30), <2>4 DEF Next, Write, BeginWrite, PassStall, Allocate, AutoRotate, Admin, Flush,
          Close, CloseRotate, Drained, DrainFails, Rotate, RotateMemtable, RotateWal,
          RotateWalFails, RunFlush, PickImmutable, CommitFlush, FlushFails, Install, MarkFlushed,
          UnlinkLog, UnlinkFails, EndSweep, DropMemtable, Crash, Open, vars, history
    <3>3. CASE IOErrors
      BY <3>1, <3>2, <3>3 DEF Store!Discard, Durable
    <3>4. CASE ~IOErrors
      BY <3>1, <3>2, <3>4 DEF Store!vars
    <3> QED
      BY <3>3, <3>4, ModesAssumption
  <2> QED
    BY <2>1, <2>2, <2>3, <2>4 DEF Store!Next
<1> QED
  BY <1>1, <1>2, <1>3, Invariant, Durability, PTL DEF Spec, StoreStep, StoreSpec, Store!Spec

(* When close() has returned, every completed write is in a committed file:  *)
(* nothing is written behind its back, it rotates what the memtable holds    *)
(* and returns only when the queue is empty.  An I/O error ends it early.    *)
THEOREM CloseLeavesNothing == SafeRegime /\ ~IOErrors => (Spec => []CloseFlushes)
<1> SUFFICES ASSUME SafeRegime, ~IOErrors PROVE Spec => []CloseFlushes
  BY ZenonT(30)
<1>1. Init => CloseInv
  BY DEF Init, CloseInv
<1>2. IInv /\ CloseInv /\ [Next]_vars => CloseInv'
  <2> SUFFICES ASSUME IInv, CloseInv, [Next]_vars PROVE CloseInv'
    BY Zenon
  <2> USE DEF CloseInv
  <2>0. pc \in [Procs -> PC] /\ Admins \subseteq Procs /\ Writers \subseteq Procs
    BY Zenon DEF IInv, TypeOK, Procs
  <2>1. closed => up /\ \A w \in Writers : pc[w] = "idle"
    BY Zenon DEF IInv, LocksInv, AckedInv, AllIdle
  <2>2. ASSUME NEW w \in Writers, Write(w) PROVE CloseInv'
    <3>1. ~closed /\ closed' = closed
      BY Zenon, <2>1, <2>2 DEF Write, BeginWrite, PassStall, Allocate, Append, AppendFails,
                               Apply, AutoRotate, engine
    <3> QED
      BY <3>1
  <2>3. ASSUME NEW a \in Admins, Admin(a) PROVE CloseInv'
    <3>1. active' = active /\ immutable' = immutable
      BY Zenon, <2>3 DEF Admin, Flush, Close, CloseRotate, Drained, DrainFails, engine
    <3>2. \A b \in Admins : b # a => pc'[b] = pc[b]
      BY ZenonT(30), <2>0, <2>3 DEF Admin, Flush, Close, CloseRotate, Drained, DrainFails
    <3>3. CASE Flush(a)
      BY ZenonT(30), <3>3 DEF Flush, engine
    <3>4. CASE Close(a)
      BY ZenonT(30), <2>0, <3>4 DEF Close
    <3>5. CASE CloseRotate(a)
      BY Zenon, <2>0, <3>1, <3>2, <3>5 DEF CloseRotate, engine
    <3>6. CASE Drained(a)
      BY Zenon, <2>0, <3>1, <3>2, <3>6 DEF Drained, engine
    <3> QED
      BY Zenon, <2>3, <3>3, <3>4, <3>5, <3>6 DEF Admin, DrainFails
  <2>4. ASSUME NEW p \in Procs, Rotate(p) PROVE CloseInv'
    <3>1. closed' = closed /\ (closed => p \in Admins)
      BY ZenonT(30), <2>1, <2>4 DEF Rotate, RotateMemtable, RotateWal, RotateWalFails, engine, Procs
    <3>2. CASE RotateMemtable(p)
      <4>1. active'.recs = {} /\ pc'[p] = "sealed"
        BY Zenon, <2>0, <3>2 DEF RotateMemtable, NewMemtable
      <4> QED
        BY Zenon, <3>1, <4>1
    <3>3. CASE RotateWal(p)
      <4>1. active' = active /\ immutable' = immutable
        BY ZenonT(30), <3>3 DEF RotateWal, engine
      <4>2. p \in Admins => pc[p] = "sealed" /\ pc' = [pc EXCEPT ![p] = "draining"]
        BY ZenonT(30), <3>3, ProcsAssumption DEF RotateWal, AfterRotate
      <4> QED
        BY Zenon, <2>0, <3>1, <4>1, <4>2
    <3> QED
      BY ZenonT(30), <2>4, <3>2, <3>3 DEF Rotate, RotateWalFails
  <2>5. ASSUME RunFlush PROVE CloseInv'
    <3>1. /\ immutable' \subseteq immutable
          /\ UNCHANGED <<active, closed, pc>>
      BY Zenon, <2>5 DEF RunFlush, PickImmutable, CommitFlush, FlushFails, Install, MarkFlushed,
                         EndSweep, UnlinkLog, UnlinkFails, DropMemtable, DropFlushed, engine, tasks
    <3> QED
      BY <3>1
  <2>6. ASSUME Crash PROVE CloseInv'
    BY ZenonT(30), <2>6 DEF Crash
  <2>7. ASSUME Open PROVE CloseInv'
    BY Zenon, <2>1, <2>7 DEF Open
  <2>8. ASSUME UNCHANGED vars PROVE CloseInv'
    BY Zenon, <2>8 DEF vars, engine, tasks
  <2> QED
    BY Zenon, <2>2, <2>3, <2>4, <2>5, <2>6, <2>7, <2>8 DEF Next
<1>3. IInv /\ CloseInv => CloseFlushes
  <2> SUFFICES ASSUME IInv, CloseInv, closed, \A a \in Admins : pc[a] = "idle"
               PROVE  acked \subseteq flushed
    BY Zenon DEF CloseFlushes
  <2>1. active.recs = {} /\ immutable = {}
    BY DEF CloseInv
  <2>2. up
    BY DEF IInv, AckedInv
  <2> QED
    BY <2>1, <2>2 DEF IInv, AckedInv, InMemory
<1> QED
  BY <1>1, <1>2, <1>3, Invariant, PTL DEF Spec

=============================================================================
