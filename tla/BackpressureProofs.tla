------------------------- MODULE BackpressureProofs -------------------------
(***************************************************************************)
(* The bounds of the memtable queue and of L0 and the absence of lost      *)
(* wake-ups, for any finite set of writers and any limits.                 *)
(***************************************************************************)
EXTENDS Backpressure, FiniteSetTheorems, TLAPS

(* Writers at some labels are counted by a natural number. *)
LEMMA Counts ==
  ASSUME BackpressureAssumption, NEW S
  PROVE  /\ IsFiniteSet(Waiting(S)) /\ Cardinality(Writers) \in Nat
         /\ Cardinality(Waiting(S)) \in 0..Cardinality(Writers)
<1>1. Waiting(S) \in SUBSET Writers
  BY DEF Waiting
<1>2. IsFiniteSet(Writers)
  BY DEF BackpressureAssumption
<1>3. IsFiniteSet(Waiting(S)) /\ Cardinality(Waiting(S)) <= Cardinality(Writers)
  BY <1>1, <1>2, FS_Subset
<1> QED
  BY <1>2, <1>3, FS_CardinalityType

(* One writer goes from one label to another. *)
LEMMA MoveCount ==
  ASSUME BackpressureAssumption, NEW S, NEW w \in Writers, NEW dest,
         pc \in [Writers -> Labels], pc' = [pc EXCEPT ![w] = dest]
  PROVE  Cardinality(Waiting(S)') = Cardinality(Waiting(S))
            + (IF dest \in S THEN 1 ELSE 0) - (IF pc[w] \in S THEN 1 ELSE 0)
<1>1. IsFiniteSet(Waiting(S)) /\ Cardinality(Waiting(S)) \in Nat
  BY Counts
<1>2. CASE dest \in S /\ pc[w] \notin S
  <2>1. Waiting(S)' = Waiting(S) \cup {w} /\ w \notin Waiting(S)
    BY <1>2 DEF Waiting
  <2>2. Cardinality(Waiting(S) \cup {w}) = Cardinality(Waiting(S)) + 1
    BY <1>1, <2>1, FS_AddElement
  <2> QED
    BY <1>1, <1>2, <2>1, <2>2
<1>3. CASE dest \notin S /\ pc[w] \in S
  <2>1. Waiting(S)' = Waiting(S) \ {w} /\ w \in Waiting(S)
    BY <1>3 DEF Waiting
  <2>2. Cardinality(Waiting(S) \ {w}) = Cardinality(Waiting(S)) - 1
    BY <1>1, <2>1, FS_RemoveElement
  <2> QED
    BY <1>1, <1>3, <2>1, <2>2
<1>4. CASE dest \in S <=> pc[w] \in S
  <2>1. Waiting(S)' = Waiting(S)
    BY <1>4 DEF Waiting
  <2> QED
    BY <1>1, <1>4, <2>1
<1> QED
  BY <1>2, <1>3, <1>4

(* The two counts, for a step of a writer. *)
LEMMA MoveCounts ==
  ASSUME BackpressureAssumption, TypeOK, NEW w \in Writers, NEW dest, pc' = [pc EXCEPT ![w] = dest]
  PROVE  /\ Cardinality(Writers) \in Nat
         /\ Admitted \in 0..Cardinality(Writers) /\ Admitted' \in 0..Cardinality(Writers)
         /\ Between \in 0..Cardinality(Writers) /\ Between' \in 0..Cardinality(Writers)
         /\ Admitted' = Admitted + (IF dest \in {"apply", "crossed"} THEN 1 ELSE 0)
                                 - (IF pc[w] \in {"apply", "crossed"} THEN 1 ELSE 0)
         /\ Between' = Between + (IF dest \in {"stall"} \cup StallLabels THEN 1 ELSE 0)
                               - (IF pc[w] \in {"stall"} \cup StallLabels THEN 1 ELSE 0)
<1>1. pc \in [Writers -> Labels]
  BY DEF TypeOK
<1>2. /\ Admitted \in 0..Cardinality(Writers) /\ Between \in 0..Cardinality(Writers)
      /\ Cardinality(Writers) \in Nat
  BY Counts DEF Admitted, Between
<1>3. /\ Admitted' \in 0..Cardinality(Writers) /\ Between' \in 0..Cardinality(Writers)
  <2>1. ASSUME NEW S PROVE Cardinality(Waiting(S)') \in 0..Cardinality(Writers)
    <3>1. Waiting(S)' \in SUBSET Writers /\ IsFiniteSet(Writers)
      BY DEF Waiting, BackpressureAssumption
    <3> QED
      BY <3>1, FS_Subset, FS_CardinalityType
  <2> QED
    BY <2>1 DEF Admitted, Between, StallLabels
<1>4. Admitted' = Admitted + (IF dest \in {"apply", "crossed"} THEN 1 ELSE 0)
                           - (IF pc[w] \in {"apply", "crossed"} THEN 1 ELSE 0)
  BY <1>1, MoveCount DEF Admitted
<1>5. Between' = Between + (IF dest \in {"stall"} \cup StallLabels THEN 1 ELSE 0)
                         - (IF pc[w] \in {"stall"} \cup StallLabels THEN 1 ELSE 0)
  BY <1>1, MoveCount DEF Between, StallLabels
<1> QED
  BY <1>2, <1>3, <1>4, <1>5

\* An open database without writers, flushes or tables waiting satisfies the
\* invariant.
LEMMA InitInv == BackpressureAssumption /\ Init => IInv
<1> SUFFICES ASSUME BackpressureAssumption, Init PROVE IInv
  OBVIOUS
<1>1. TypeOK /\ StageInv /\ WakeInv
  <2>1. ~closed /\ closed \in BOOLEAN
    BY DEF Init
  <2>2. /\ pc = [w \in Writers |-> "idle"] /\ woken = {} /\ flusher = Free
        /\ active = 0 /\ imm = 0 /\ l0 = 0 /\ spawned = 0 /\ picked = 0
    BY DEF Init
  <2> QED
    BY <2>1, <2>2 DEF TypeOK, StageInv, WakeInv, Labels, Free
<1>2. Admitted = 0 /\ Between = 0
  <2>1. Waiting({"apply", "crossed"}) = {} /\ Waiting({"stall"} \cup StallLabels) = {}
    BY DEF Init, Waiting, StallLabels
  <2> QED
    BY <2>1, FS_EmptySet DEF Admitted, Between
<1>3. Cardinality(Writers) \in Nat
  BY Counts
<1>4. BoundInv
  <2>1. imm = 0 /\ l0 = 0 /\ Sealed = 0 /\ Committed = 0
    BY DEF Init, Sealed, Committed, Free
  <2> QED
    BY <1>2, <1>3, <2>1 DEF BoundInv, BackpressureAssumption
<1> QED
  BY <1>1, <1>4 DEF IInv

(* Sealed and Committed are indicators; what leaves their variables alone     *)
(* leaves them alone.                                                         *)
LEMMA Indicators ==
  /\ Sealed \in 0..1 /\ Committed \in 0..1
  /\ (UNCHANGED closed => Sealed' = Sealed)
  /\ (UNCHANGED flusher => Committed' = Committed)
  /\ (UNCHANGED pc => Admitted' = Admitted /\ Between' = Between)
  BY DEF Sealed, Committed, Admitted, Between, Waiting

(* A writer goes to label dest: past a check only with room, to wait only where *)
(* its level is full, and otherwise within its class.                        *)
Classes == {{"apply", "crossed"}, {"stall"} \cup StallLabels}

Moves(w, dest) ==
    /\ UNCHANGED <<l0, flusher, cworker, picked, closer, closed>>
    /\ active' \in Nat /\ spawned' \in Nat
    /\ pc' = [pc EXCEPT ![w] = dest] /\ woken' \in {woken, woken \ {w}}
    /\ dest \in {"l0_full", "l0_parked"} =>
          woken' = woken /\ (w \in woken \/ l0 >= L0Stop \/ cworker = "notify")
    /\ dest \in {"stall_full", "stall_parked"} =>
          woken' = woken /\ (w \in woken \/ imm >= MaxImmutable)
    /\ \/ pc[w] = "l0_check" /\ dest = "stall" /\ l0 < L0Stop /\ imm' = imm
       \/ pc[w] = "stall_check" /\ dest = "apply" /\ imm < MaxImmutable /\ imm' = imm
       \/ pc[w] = "crossed" /\ dest = "idle" /\ imm' \in {imm, imm + 1}
       \/ imm' = imm /\ \A S \in Classes : dest \in S <=> pc[w] \in S

\* A writer that only goes from one wait or check to the next keeps it.
LEMMA MovesInv ==
  ASSUME BackpressureAssumption, IInv, NEW w \in Writers, NEW dest \in Labels, Moves(w, dest)
  PROVE  IInv'
<1>1. /\ pc \in [Writers -> Labels] /\ woken \subseteq Writers /\ imm \in Nat /\ l0 \in Nat
      /\ MaxImmutable \in Nat /\ L0Stop \in Nat
  BY DEF IInv, TypeOK, BackpressureAssumption
<1>2. /\ pc' = [pc EXCEPT ![w] = dest] /\ woken' \in {woken, woken \ {w}}
      /\ imm' \in Nat /\ imm' >= imm
  <2>1. pc' = [pc EXCEPT ![w] = dest] /\ woken' \in {woken, woken \ {w}}
    BY DEF Moves
  <2>2. imm' = imm \/ imm' = imm + 1
    BY DEF Moves
  <2> QED
    BY <1>1, <2>1, <2>2
<1>3. TypeOK'
  <2>1. pc' \in [Writers -> Labels] /\ woken' \subseteq Writers
    BY <1>1, <1>2
  <2>2. closed' \in BOOLEAN
    BY DEF IInv, TypeOK, Moves
  <2> QED
    BY <1>2, <2>1, <2>2 DEF IInv, TypeOK, Moves
<1>4. StageInv'
  <2>1. flusher' = flusher /\ (flusher.pc # "idle" => imm > 0)
    BY DEF IInv, StageInv, Moves
  <2>2. flusher'.pc # "idle" => imm' > 0
    BY <1>1, <1>2, <2>1
  <2>3. closed' => closer' \notin {"open", "join"}
    BY DEF IInv, StageInv, Moves
  <2> QED
    BY <2>2, <2>3 DEF StageInv
<1>5. WakeInv'
  <2> SUFFICES ASSUME NEW x \in Writers, x \notin woken'
               PROVE  /\ pc'[x] \in {"l0_full", "l0_parked"} => l0 >= L0Stop \/ cworker = "notify"
                      /\ pc'[x] \in {"stall_full", "stall_parked"} => imm' >= MaxImmutable
    <3>1. l0' = l0 /\ cworker' = cworker
      BY DEF Moves
    <3> QED
      BY <3>1 DEF WakeInv
  <2>1. CASE x = w
    <3>1. pc'[x] = dest
      BY <1>1, <1>2, <2>1
    <3> QED
      BY <1>1, <1>2, <2>1, <3>1 DEF Moves
  <2>2. CASE x # w
    <3>1. pc'[x] = pc[x] /\ x \in Writers \ woken
      BY <1>1, <1>2, <2>2
    <3>2. /\ pc[x] \in {"l0_full", "l0_parked"} => l0 >= L0Stop \/ cworker = "notify"
          /\ pc[x] \in {"stall_full", "stall_parked"} => imm >= MaxImmutable
      BY <3>1 DEF IInv, WakeInv
    <3> QED
      BY <1>1, <1>2, <3>1, <3>2
  <2> QED
    BY <2>1, <2>2
<1>6. BoundInv'
  <2>1. /\ Sealed \in 0..1 /\ Committed \in 0..1 /\ Sealed' = Sealed /\ Committed' = Committed
        /\ l0' = l0
    BY Indicators DEF Moves
  <2>2. /\ Cardinality(Writers) \in Nat
        /\ Admitted \in 0..Cardinality(Writers) /\ Admitted' \in 0..Cardinality(Writers)
        /\ Between \in 0..Cardinality(Writers) /\ Between' \in 0..Cardinality(Writers)
        /\ Admitted' = Admitted + (IF dest \in {"apply", "crossed"} THEN 1 ELSE 0)
                                - (IF pc[w] \in {"apply", "crossed"} THEN 1 ELSE 0)
        /\ Between' = Between + (IF dest \in {"stall"} \cup StallLabels THEN 1 ELSE 0)
                              - (IF pc[w] \in {"stall"} \cup StallLabels THEN 1 ELSE 0)
    BY <1>2, MoveCounts DEF IInv
  <2>3. /\ imm + Admitted <= MaxImmutable - 1 + Cardinality(Writers) + Sealed
        /\ l0 + imm - Committed + Admitted + Between
              <= L0Stop - 1 + MaxImmutable - 1 + 2 * Cardinality(Writers) + Sealed
    BY DEF IInv, BoundInv
  <2>4. CASE pc[w] = "l0_check" /\ dest = "stall" /\ l0 < L0Stop /\ imm' = imm
    <3>1. pc[w] = "l0_check" /\ dest = "stall" /\ imm' = imm
      BY <2>4
    <3>2. Admitted' = Admitted
      BY <2>2, <3>1
    <3>3. l0 <= L0Stop - 1
      BY <1>1, <2>4
    <3> QED
      BY <1>1, <2>1, <2>2, <2>3, <3>1, <3>2, <3>3 DEF BoundInv
  <2>5. CASE pc[w] = "stall_check" /\ dest = "apply" /\ imm < MaxImmutable /\ imm' = imm
    <3>1. pc[w] = "stall_check" /\ dest = "apply" /\ imm' = imm
      BY <2>5
    <3>2. Admitted' = Admitted + 1 /\ Between' = Between - 1
      BY <2>2, <3>1 DEF StallLabels
    <3>3. imm <= MaxImmutable - 1
      BY <1>1, <2>5
    <3> QED
      BY <1>1, <2>1, <2>2, <2>3, <3>1, <3>2, <3>3 DEF BoundInv
  <2>6. CASE pc[w] = "crossed" /\ dest = "idle" /\ imm' \in {imm, imm + 1}
    <3>1. Admitted' = Admitted - 1 /\ Between' = Between
      BY <2>2, <2>6 DEF StallLabels
    <3> QED
      BY <1>1, <2>1, <2>2, <2>3, <2>6, <3>1 DEF BoundInv
  <2>7. CASE imm' = imm /\ \A S \in Classes : dest \in S <=> pc[w] \in S
    <3>1. /\ dest \in {"apply", "crossed"} <=> pc[w] \in {"apply", "crossed"}
          /\ dest \in {"stall"} \cup StallLabels <=> pc[w] \in {"stall"} \cup StallLabels
      BY <2>7 DEF Classes
    <3>2. Admitted' = Admitted /\ Between' = Between
      BY <2>2, <3>1
    <3> QED
      BY <2>1, <2>3, <2>7, <3>2 DEF BoundInv
  <2> QED
    BY <2>4, <2>5, <2>6, <2>7 DEF Moves
<1> QED
  BY <1>3, <1>4, <1>5, <1>6 DEF IInv

\* A write that reaches the memtable, with the rotation and the wake-ups it
\* causes, keeps it.
LEMMA WriteInv ==
  ASSUME BackpressureAssumption, IInv, NEW w \in Writers, Write(w)
  PROVE  IInv'
<1>1. /\ pc \in [Writers -> Labels] /\ imm \in Nat /\ l0 \in Nat /\ active \in Nat /\ spawned \in Nat
      /\ MaxImmutable \in Nat /\ L0Stop \in Nat
  BY DEF IInv, TypeOK, BackpressureAssumption
<1>2. w \notin woken =>
        /\ pc[w] \in {"l0_full", "l0_parked"} => l0 >= L0Stop \/ cworker = "notify"
        /\ pc[w] \in {"stall_full", "stall_parked"} => imm >= MaxImmutable
  BY DEF IInv, WakeInv
<1>3. SUFFICES \E dest \in Labels : Moves(w, dest)
  BY <1>3, MovesInv
<1>4. CASE Begin(w)
  <2>1. Moves(w, "l0")
    BY <1>1, <1>4 DEF Begin, Goto, Moves, Classes, StallLabels
  <2> QED
    BY <2>1 DEF Labels
<1>5. CASE Register(w)
  <2>1. CASE pc[w] = "l0" /\ Goto(w, "l0_check")
    <3>1. Moves(w, "l0_check")
      BY <1>1, <1>5, <2>1 DEF Register, Goto, Moves, Classes, StallLabels
    <3> QED
      BY <3>1 DEF Labels, L0Labels
  <2>2. CASE pc[w] = "stall" /\ Goto(w, "stall_check")
    <3>1. Moves(w, "stall_check")
      BY <1>1, <1>5, <2>2 DEF Register, Goto, Moves, Classes, StallLabels
    <3> QED
      BY <3>1 DEF Labels, StallLabels
  <2> QED
    BY <1>5, <2>1, <2>2 DEF Register
<1>6. CASE Check(w)
  <2>1. CASE pc[w] = "l0_check" /\ Pass(w, l0 < L0Stop, "stall", "l0_full")
    <3>1. CASE l0 < L0Stop
      <4>1. Moves(w, "stall")
        BY <1>1, <1>6, <2>1, <3>1 DEF Check, Pass, Goto, Moves, StallLabels
      <4> QED
        BY <4>1 DEF Labels
    <3>2. CASE ~(l0 < L0Stop)
      <4>1. Moves(w, "l0_full")
        BY <1>1, <1>6, <2>1, <3>2 DEF Check, Pass, Goto, Moves, Classes, StallLabels
      <4> QED
        BY <4>1 DEF Labels, L0Labels
    <3> QED
      BY <3>1, <3>2
  <2>2. CASE pc[w] = "stall_check" /\ Pass(w, imm < MaxImmutable, "apply", "stall_full")
    <3>1. CASE imm < MaxImmutable
      <4>1. Moves(w, "apply")
        BY <1>1, <1>6, <2>2, <3>1 DEF Check, Pass, Goto, Moves, StallLabels
      <4> QED
        BY <4>1 DEF Labels
    <3>2. CASE ~(imm < MaxImmutable)
      <4>1. Moves(w, "stall_full")
        BY <1>1, <1>6, <2>2, <3>2 DEF Check, Pass, Goto, Moves, Classes, StallLabels
      <4> QED
        BY <4>1 DEF Labels, StallLabels
    <3> QED
      BY <3>1, <3>2
  <2> QED
    BY <1>6, <2>1, <2>2 DEF Check
<1>7. CASE Await(w)
  <2>1. CASE pc[w] = "l0_full" /\ Goto(w, "l0_parked")
    <3>1. Moves(w, "l0_parked")
      BY <1>1, <1>2, <1>7, <2>1 DEF Await, Goto, Moves, Classes, StallLabels
    <3> QED
      BY <3>1 DEF Labels, L0Labels
  <2>2. CASE pc[w] = "stall_full" /\ Goto(w, "stall_parked")
    <3>1. Moves(w, "stall_parked")
      BY <1>1, <1>2, <1>7, <2>2 DEF Await, Goto, Moves, Classes, StallLabels
    <3> QED
      BY <3>1 DEF Labels, StallLabels
  <2> QED
    BY <1>7, <2>1, <2>2 DEF Await
<1>8. CASE Wake(w)
  <2>1. CASE pc[w] = "l0_parked" /\ Goto(w, "l0")
    <3>1. Moves(w, "l0")
      BY <1>1, <1>8, <2>1 DEF Wake, Goto, Moves, Classes, StallLabels
    <3> QED
      BY <3>1 DEF Labels
  <2>2. CASE pc[w] = "stall_parked" /\ Goto(w, "stall")
    <3>1. Moves(w, "stall")
      BY <1>1, <1>8, <2>2 DEF Wake, Goto, Moves, Classes, StallLabels
    <3> QED
      BY <3>1 DEF Labels
  <2> QED
    BY <1>8, <2>1, <2>2 DEF Wake
<1>9. CASE Apply(w)
  <2>1. Moves(w, "crossed")
    BY <1>1, <1>9 DEF Apply, Goto, Moves, Classes, StallLabels
  <2> QED
    BY <2>1 DEF Labels
<1>10. CASE Rotate(w)
  <2>1. Moves(w, "idle")
    BY <1>1, <1>10 DEF Rotate, Goto, Moves, StallLabels
  <2> QED
    BY <2>1 DEF Labels
<1> QED
  BY <1>4, <1>5, <1>6, <1>7, <1>8, <1>9, <1>10 DEF Write, WriterStep

(* Steps that move no writer, no memtable and no file: the loops of the       *)
(* workers, a lock taken, a failure, the signal of close() and its return.    *)
Quiet ==
    /\ UNCHANGED <<pc, woken, imm, l0, closed>>
    /\ cworker = "notify" => cworker' = "notify"
    /\ active' \in Nat /\ spawned' \in Nat /\ picked' \in 0..l0
    /\ flusher' \in [by : {"nobody", "auto", "worker", "close"}, pc : {"idle", "commit", "drop"}]
    /\ flusher'.pc # "idle" => imm > 0
    /\ flusher.pc = "drop" <=> flusher'.pc = "drop"
    /\ closer \notin {"open", "join"} => closer' \notin {"open", "join"}

\* So does a step that changes nothing the writers wait for,
LEMMA QuietInv == ASSUME IInv, Quiet PROVE IInv'
<1>1. TypeOK'
  <2>1. closed' \in BOOLEAN
    BY DEF IInv, TypeOK, Quiet
  <2> QED
    BY <2>1 DEF IInv, TypeOK, Quiet
<1>2. StageInv'
  <2>1. flusher'.pc # "idle" => imm' > 0
    BY DEF Quiet
  <2>2. closed' => closer' \notin {"open", "join"}
    BY DEF Quiet, IInv, StageInv
  <2> QED
    BY <2>1, <2>2 DEF StageInv
<1>3. BoundInv'
  <2>1. /\ UNCHANGED closed /\ UNCHANGED pc /\ imm' = imm /\ l0' = l0
        /\ flusher.pc = "drop" <=> flusher'.pc = "drop"
    BY DEF Quiet
  <2>2. Sealed' = Sealed /\ Admitted' = Admitted /\ Between' = Between
    BY <2>1, Indicators
  <2>3. Committed' = Committed
    BY <2>1 DEF Committed
  <2> QED
    BY <2>1, <2>2, <2>3 DEF IInv, BoundInv
<1>4. WakeInv'
  BY DEF Quiet, IInv, WakeInv
<1> QED
  BY <1>1, <1>2, <1>3, <1>4 DEF IInv

\* and a step that changes nothing at all.
LEMMA StutterInv == ASSUME IInv, UNCHANGED vars PROVE IInv'
<1>1. Quiet
  BY DEF IInv, TypeOK, StageInv, Quiet, vars
<1> QED
  BY <1>1, QuietInv

(* A lock that finds no memtable is released at once. *)
LEMMA LockInv ==
  ASSUME IInv, NEW who \in {"auto", "worker", "close"}, Lock(who),
         UNCHANGED <<pc, woken, imm, l0, closed, cworker, active, picked, closer>>,
         spawned' \in Nat
  PROVE  IInv'
<1>1. /\ flusher.pc = "idle" /\ flusher' = (IF imm > 0 THEN [by |-> who, pc |-> "commit"] ELSE Free)
  BY DEF Lock, Free
<1>2. Quiet
  BY <1>1 DEF IInv, TypeOK, Quiet, Free
<1> QED
  BY <1>2, QuietInv

\* A flush spawned by a rotation that takes the lock keeps the invariant,
LEMMA AutoFlushInv == ASSUME IInv, AutoFlush PROVE IInv'
<1>1. spawned' \in Nat
  BY DEF AutoFlush, IInv, TypeOK
<1> QED
  BY <1>1, LockInv DEF AutoFlush

\* and so do the wake-up of the flush worker and its flushes.
LEMMA FlushWorkerInv == ASSUME IInv, FlushWorker PROVE IInv'
<1>1. CASE FlushWorkerWakes
  <2>1. Quiet
    BY <1>1 DEF FlushWorkerWakes, IInv, TypeOK, StageInv, Quiet
  <2> QED
    BY <2>1, QuietInv
<1>2. CASE FlushWorkerRuns
  <2>1. spawned' \in Nat
    BY <1>2 DEF FlushWorkerRuns, IInv, TypeOK
  <2> QED
    BY <1>2, <2>1, LockInv DEF FlushWorkerRuns
<1>3. CASE FlushWorkerLoops
  <2>1. Quiet
    BY <1>3 DEF FlushWorkerLoops, IInv, TypeOK, StageInv, Quiet
  <2> QED
    BY <2>1, QuietInv
<1> QED
  BY <1>1, <1>2, <1>3 DEF FlushWorker

(* The commit of a flush turns a memtable it holds into a file; dropping the   *)
(* memtable wakes whoever waits for the queue.                                 *)
LEMMA FlushInv == ASSUME BackpressureAssumption, IInv, Flush PROVE IInv'
<1>1. /\ pc \in [Writers -> Labels] /\ imm \in Nat /\ l0 \in Nat /\ woken \subseteq Writers
      /\ flusher \in [by : {"nobody", "auto", "worker", "close"}, pc : {"idle", "commit", "drop"}]
      /\ MaxImmutable \in Nat /\ L0Stop \in Nat /\ picked \in 0..l0
      /\ active \in Nat /\ spawned \in Nat
  BY DEF IInv, TypeOK, BackpressureAssumption
<1>2. /\ Sealed \in 0..1 /\ Cardinality(Writers) \in Nat
      /\ Admitted \in 0..Cardinality(Writers) /\ Between \in 0..Cardinality(Writers)
  BY Indicators, Counts DEF Admitted, Between
<1>3. closed \in BOOLEAN /\ (closed => closer \notin {"open", "join"})
  BY DEF IInv, TypeOK, StageInv
<1>4. CASE FlushCommit
  <2>1. /\ flusher.pc = "commit" /\ imm > 0 /\ l0' = l0 + 1
        /\ flusher' = [flusher EXCEPT !.pc = "drop"]
        /\ UNCHANGED <<pc, woken, imm, cworker, picked, active, spawned>>
    BY <1>4 DEF FlushCommit, IInv, StageInv
  <2>2. UNCHANGED <<closer, closed>>
    BY <1>4 DEF FlushCommit
  <2>3. /\ flusher' \in [by : {"nobody", "auto", "worker", "close"}, pc : {"idle", "commit", "drop"}]
        /\ flusher'.pc = "drop"
    BY <1>1, <2>1
  <2>4. TypeOK'
    BY <1>1, <1>3, <2>1, <2>2, <2>3 DEF TypeOK
  <2>5. StageInv'
    BY <1>3, <2>1, <2>2 DEF StageInv
  <2>6. WakeInv'
    BY <1>1, <2>1 DEF IInv, WakeInv
  <2>7. Sealed' = Sealed /\ Admitted' = Admitted /\ Between' = Between
    BY <2>1, <2>2, Indicators
  <2>8. Committed = 0 /\ Committed' = 1
    BY <2>1, <2>3 DEF Committed
  <2>9. BoundInv'
    BY <1>1, <1>2, <2>1, <2>7, <2>8 DEF IInv, BoundInv
  <2> QED
    BY <2>4, <2>5, <2>6, <2>9 DEF IInv
<1>5. CASE FlushDrop
  <2>1. /\ flusher.pc = "drop" /\ imm > 0 /\ imm' = imm - 1 /\ flusher' = Free
        /\ woken' = woken \cup Waiting(StallLabels)
        /\ UNCHANGED <<pc, l0, cworker, picked, active, spawned>>
    BY <1>5 DEF FlushDrop, IInv, StageInv
  <2>2. UNCHANGED <<closer, closed>>
    BY <1>5 DEF FlushDrop
  <2>3. /\ flusher' \in [by : {"nobody", "auto", "worker", "close"}, pc : {"idle", "commit", "drop"}]
        /\ flusher'.pc = "idle"
    BY <2>1 DEF Free
  <2>4. TypeOK'
    BY <1>1, <1>3, <2>1, <2>2, <2>3 DEF TypeOK, Waiting
  <2>5. StageInv'
    BY <1>3, <2>2, <2>3 DEF StageInv
  <2>6. WakeInv'
    BY <1>1, <2>1 DEF IInv, WakeInv, Waiting, StallLabels
  <2>7. Sealed' = Sealed /\ Admitted' = Admitted /\ Between' = Between
    BY <2>1, <2>2, Indicators
  <2>8. Committed = 1 /\ Committed' = 0
    BY <2>1, <2>3 DEF Committed
  <2>9. BoundInv'
    BY <1>1, <1>2, <2>1, <2>7, <2>8 DEF IInv, BoundInv
  <2> QED
    BY <2>4, <2>5, <2>6, <2>9 DEF IInv
<1>6. CASE FlushFail
  <2>1. Quiet
    BY <1>6 DEF FlushFail, IInv, TypeOK, Quiet, Free
  <2> QED
    BY <2>1, QuietInv
<1> QED
  BY <1>4, <1>5, <1>6 DEF Flush, FlushStep

(* A job lowers L0 and then wakes whoever waits for it. *)
LEMMA CompactionInv == ASSUME BackpressureAssumption, IInv, Compaction PROVE IInv'
<1>1. /\ pc \in [Writers -> Labels] /\ imm \in Nat /\ l0 \in Nat /\ woken \subseteq Writers
      /\ flusher \in [by : {"nobody", "auto", "worker", "close"}, pc : {"idle", "commit", "drop"}]
      /\ MaxImmutable \in Nat /\ L0Stop \in Nat /\ picked \in 0..l0
      /\ active \in Nat /\ spawned \in Nat
  BY DEF IInv, TypeOK, BackpressureAssumption
<1>2. /\ Sealed \in 0..1 /\ Committed \in 0..1 /\ Cardinality(Writers) \in Nat
      /\ Admitted \in 0..Cardinality(Writers) /\ Between \in 0..Cardinality(Writers)
  BY Indicators, Counts DEF Admitted, Between
<1>3. closed \in BOOLEAN /\ (closed => closer \notin {"open", "join"})
  BY DEF IInv, TypeOK, StageInv
<1>4. CASE CompactWakes
  <2>1. picked' \in 0..l0 /\ cworker # "notify"
    BY <1>1, <1>4 DEF CompactWakes, Inputs
  <2>2. Quiet
    BY <1>4, <2>1 DEF CompactWakes, IInv, TypeOK, StageInv, Quiet
  <2> QED
    BY <2>2, QuietInv
<1>5. CASE CompactLower
  <2>1. Quiet
    BY <1>5 DEF CompactLower, IInv, TypeOK, StageInv, Quiet
  <2> QED
    BY <2>1, QuietInv
<1>6. CASE CompactInstall
  <2>1. /\ l0' = l0 - picked /\ cworker' = "notify" /\ picked' = 0
        /\ UNCHANGED <<pc, woken, imm, flusher, active, spawned>>
    BY <1>6 DEF CompactInstall
  <2>2. UNCHANGED <<closer, closed>>
    BY <1>6 DEF CompactInstall
  <2>3. TypeOK'
    BY <1>1, <1>3, <2>1, <2>2 DEF TypeOK
  <2>4. StageInv'
    BY <2>1, <2>2 DEF IInv, StageInv
  <2>5. WakeInv'
    BY <2>1 DEF IInv, WakeInv
  <2>6. Sealed' = Sealed /\ Admitted' = Admitted /\ Between' = Between /\ Committed' = Committed
    BY <2>1, <2>2, Indicators
  <2>7. BoundInv'
    BY <1>1, <1>2, <2>1, <2>6 DEF IInv, BoundInv
  <2> QED
    BY <2>3, <2>4, <2>5, <2>7 DEF IInv
<1>7. CASE CompactNotify
  <2>1. /\ woken' = woken \cup Waiting(L0Labels)
        /\ UNCHANGED <<pc, imm, l0, flusher, picked, active, spawned>>
    BY <1>7 DEF CompactNotify
  <2>2. UNCHANGED <<closer, closed>>
    BY <1>7 DEF CompactNotify
  <2>3. TypeOK'
    BY <1>1, <1>3, <2>1, <2>2 DEF TypeOK, Waiting
  <2>4. StageInv'
    BY <2>1, <2>2 DEF IInv, StageInv
  <2>5. WakeInv'
    BY <2>1 DEF IInv, WakeInv, Waiting, L0Labels
  <2>6. Sealed' = Sealed /\ Admitted' = Admitted /\ Between' = Between /\ Committed' = Committed
    BY <2>1, <2>2, Indicators
  <2>7. BoundInv'
    BY <2>1, <2>6 DEF IInv, BoundInv
  <2> QED
    BY <2>3, <2>4, <2>5, <2>7 DEF IInv
<1>8. CASE CompactFail
  <2>1. Quiet
    BY <1>8 DEF CompactFail, IInv, TypeOK, StageInv, Quiet
  <2> QED
    BY <2>1, QuietInv
<1> QED
  BY <1>4, <1>5, <1>6, <1>7, <1>8 DEF Compaction

(* close() adds its memtable once, when the engine was open. *)
LEMMA CloseInv == ASSUME BackpressureAssumption, IInv, Close PROVE IInv'
<1>1. /\ pc \in [Writers -> Labels] /\ imm \in Nat /\ l0 \in Nat /\ woken \subseteq Writers
      /\ flusher \in [by : {"nobody", "auto", "worker", "close"}, pc : {"idle", "commit", "drop"}]
      /\ MaxImmutable \in Nat /\ L0Stop \in Nat /\ picked \in 0..l0
      /\ active \in Nat /\ spawned \in Nat
  BY DEF IInv, TypeOK, BackpressureAssumption
<1>2. /\ Committed \in 0..1 /\ Cardinality(Writers) \in Nat
      /\ Admitted \in 0..Cardinality(Writers) /\ Between \in 0..Cardinality(Writers)
  BY Indicators, Counts DEF Admitted, Between
<1>3. CASE CloseSignals
  <2>1. /\ UNCHANGED <<pc, woken, imm, l0, cworker, active, spawned, picked, flusher>>
        /\ closer = "open" /\ closer' = "join"
    BY <1>3 DEF CloseSignals
  <2>2. UNCHANGED closed
    BY <1>3 DEF CloseSignals
  <2>3. Quiet
    BY <1>1, <2>1, <2>2 DEF IInv, StageInv, Quiet
  <2> QED
    BY <2>3, QuietInv
<1>4. CASE CloseSeals
  <2>1. /\ closer = "join" /\ closer' = "flush" /\ UNCHANGED <<pc, woken, l0, flusher, picked, cworker, spawned>>
        /\ IF active > 0 THEN imm' = imm + 1 /\ active' = 0 ELSE UNCHANGED <<imm, active>>
    BY <1>4 DEF CloseSeals
  <2>2. ~closed /\ closed' /\ closed' \in BOOLEAN
    BY <1>4 DEF CloseSeals, IInv, StageInv
  <2>3. Sealed = 0 /\ Sealed' = 1
    BY <2>2 DEF Sealed
  <2>4. imm' \in {imm, imm + 1} /\ active' \in Nat
    BY <1>1, <2>1
  <2>5. TypeOK'
    BY <1>1, <2>1, <2>2, <2>4 DEF TypeOK
  <2>6. StageInv'
    <3>1. flusher'.pc # "idle" => imm' > 0
      BY <1>1, <2>1, <2>4 DEF IInv, StageInv
    <3> QED
      BY <2>1, <3>1 DEF StageInv
  <2>7. WakeInv'
    BY <1>1, <2>1, <2>4 DEF IInv, WakeInv
  <2>8. Admitted' = Admitted /\ Between' = Between /\ Committed' = Committed
    BY <2>1, Indicators
  <2>9. BoundInv'
    BY <1>1, <1>2, <2>1, <2>3, <2>4, <2>8 DEF IInv, BoundInv
  <2> QED
    BY <2>5, <2>6, <2>7, <2>9 DEF IInv
<1>5. CASE CloseFlushes
  <2>1. spawned' \in Nat
    BY <1>5 DEF CloseFlushes, IInv, TypeOK
  <2> QED
    BY <1>5, <2>1, LockInv DEF CloseFlushes
<1>6. CASE CloseReturns
  <2>1. Quiet
    BY <1>6 DEF CloseReturns, IInv, TypeOK, StageInv, Quiet
  <2> QED
    BY <2>1, QuietInv
<1> QED
  BY <1>3, <1>4, <1>5, <1>6 DEF Close

(* The inductive invariant holds in every state, for every finite set of      *)
(* writers and every limit.                                                   *)
THEOREM PressureInvariant == BackpressureAssumption => (Spec => []IInv)
<1> SUFFICES ASSUME BackpressureAssumption PROVE Spec => []IInv
  OBVIOUS
<1>1. Init => IInv
  BY InitInv
<1>2. IInv /\ [Next]_vars => IInv'
  <2> SUFFICES ASSUME IInv, [Next]_vars PROVE IInv'
    OBVIOUS
  <2>1. CASE \E w \in Writers : Write(w)
    BY <2>1, WriteInv
  <2>2. CASE AutoFlush
    BY <2>2, AutoFlushInv
  <2>3. CASE Flush
    BY <2>3, FlushInv
  <2>4. CASE FlushWorker
    BY <2>4, FlushWorkerInv
  <2>5. CASE Compaction
    BY <2>5, CompactionInv
  <2>6. CASE Close
    BY <2>6, CloseInv
  <2>7. CASE UNCHANGED vars
    BY <2>7, StutterInv
  <2> QED
    BY <2>1, <2>2, <2>3, <2>4, <2>5, <2>6, <2>7 DEF Next
<1> QED
  BY <1>1, <1>2, PTL DEF Spec

(* The immutable queue passes max_immutable_count only by one memtable for    *)
(* each writer that had passed the stall check of apply_batch, and the one    *)
(* of close().                                                                *)
THEOREM QueueIsBounded == BackpressureAssumption => (Spec => []QueueBounded)
<1> SUFFICES ASSUME BackpressureAssumption PROVE Spec => []QueueBounded
  OBVIOUS
<1>1. IInv => QueueBounded
  <2> SUFFICES ASSUME IInv PROVE QueueBounded
    OBVIOUS
  <2>1. /\ imm \in Nat /\ MaxImmutable \in Nat /\ Sealed \in 0..1
        /\ Cardinality(Writers) \in Nat /\ Admitted \in 0..Cardinality(Writers)
    BY Indicators, Counts DEF IInv, TypeOK, Admitted, BackpressureAssumption
  <2>2. imm <= MaxImmutable - 1 + Cardinality(Writers) + Sealed
    BY <2>1 DEF IInv, BoundInv
  <2> QED
    BY <2>2 DEF QueueBounded, Sealed
<1> QED
  BY <1>1, PressureInvariant, PTL

(* L0 passes l0_stop_trigger only by what had passed the check of             *)
(* write_internal: the queue and the writers between the two checks.          *)
THEOREM L0IsBounded == BackpressureAssumption => (Spec => []L0Bounded)
<1> SUFFICES ASSUME BackpressureAssumption PROVE Spec => []L0Bounded
  OBVIOUS
<1>1. IInv => L0Bounded
  <2> SUFFICES ASSUME IInv PROVE L0Bounded
    OBVIOUS
  <2>1. /\ imm \in Nat /\ l0 \in Nat /\ MaxImmutable \in Nat /\ L0Stop \in Nat
        /\ Sealed \in 0..1 /\ Committed \in 0..1 /\ Cardinality(Writers) \in Nat
        /\ Admitted \in 0..Cardinality(Writers) /\ Between \in 0..Cardinality(Writers)
    BY Indicators, Counts DEF IInv, TypeOK, Admitted, Between, BackpressureAssumption
  <2>2. Committed <= imm
    BY <2>1 DEF IInv, StageInv, Committed
  <2>3. l0 <= L0Stop - 1 + MaxImmutable - 1 + 2 * Cardinality(Writers) + Sealed
    BY <2>1, <2>2 DEF IInv, BoundInv
  <2> QED
    BY <2>3 DEF L0Bounded, Sealed
<1> QED
  BY <1>1, PressureInvariant, PTL

(* No writer is left parked by a notification sent before its future was      *)
(* polled: in write_internal and in apply_batch the future is created before  *)
(* the check.                                                                 *)
THEOREM WakeupsAreKept == BackpressureAssumption => (Spec => []NoLostWakeup)
<1> SUFFICES ASSUME BackpressureAssumption PROVE Spec => []NoLostWakeup
  OBVIOUS
<1>1. IInv => NoLostWakeup
  BY DEF IInv, WakeInv, NoLostWakeup
<1> QED
  BY <1>1, PressureInvariant, PTL
=============================================================================
