---------------------------- MODULE MirrorProofs ----------------------------
(***************************************************************************)
(* What the mirror promises, for any number of snapshots, waiters, faults  *)
(* and crashes.  IInv is inductive; the mark, the waiters and the order of *)
(* the uploads follow from it in every regime, and that manifests are      *)
(* complete where a failed upload leaves no torn object.                   *)
(***************************************************************************)
EXTENDS Mirror, SequenceTheorems, TLAPS

\* Before the first upload the invariant holds.
LEMMA InitInv == MirrorAssumption /\ Init => IInv
  BY DEF MirrorAssumption, Init, IInv, TypeInv, OrderInv, WaitInv, FilesInv, FreshWorker, NoWaiter,
         NoSnapshot, Busy, Files, WorkerStates, WaiterStates

(* A commit: a longer history keeps every snapshot in its place. *)
LEMMA CommitInv == ASSUME MirrorAssumption, IInv, Commit PROVE IInv'
<1>1. /\ UNCHANGED <<installed, worker, objects, manifests, low_water, waiters>>
      /\ Len(committed) < MaxSnap
  BY DEF Commit, target
<1>2. PICK s \in SUBSET Files : committed' = Append(committed, s)
  <2>1. Newest \in SUBSET Files
    BY DEF Newest, IInv, TypeInv
  <2>2. Len(committed) + 1 \in Files
    BY <1>1 DEF IInv, TypeInv, Files, MirrorAssumption
  <2> QED
    BY <2>1, <2>2 DEF Commit
<1>3. /\ committed' \in Seq(SUBSET Files) /\ Len(committed') = Len(committed) + 1
      /\ \A i \in 1..Len(committed) : committed'[i] = committed[i]
      /\ Len(committed) \in Nat
  BY <1>2, AppendProperties DEF IInv, TypeInv
<1>4. TypeInv'
  BY <1>1, <1>3 DEF IInv, TypeInv, MirrorAssumption
<1>5. OrderInv' /\ WaitInv'
  BY <1>1, <1>3 DEF IInv, TypeInv, OrderInv, WaitInv, WorkerStates
<1>6. ASSUME FilesInv PROVE FilesInv'
  <2>1. ASSUME NEW v \in 1..MaxSnap, manifests[v] # NoSnapshot
        PROVE  committed'[manifests[v]] = committed[manifests[v]]
    BY <1>3, <2>1 DEF IInv, OrderInv
  <2>2. worker.pc = "upload" => committed'[worker.manifest] = committed[worker.manifest]
    BY <1>3 DEF IInv, OrderInv, Busy
  <2> QED
    BY <1>1, <1>6, <2>1, <2>2 DEF FilesInv
<1> QED
  BY <1>4, <1>5, <1>6 DEF IInv

(* Installing a snapshot and deleting a local file. *)
LEMMA InstallInv ==
  ASSUME MirrorAssumption, IInv, Install \/ (\E f \in Files : Gc(f)) PROVE IInv'
<1>1. /\ UNCHANGED <<committed, worker, objects, manifests, low_water, waiters>>
      /\ installed' \in installed..Len(committed)
  BY DEF Install, Gc, target, IInv, TypeInv
<1>2. TypeInv' /\ OrderInv'
  BY <1>1 DEF IInv, TypeInv, OrderInv
<1>3. WaitInv' /\ (FilesInv => FilesInv')
  BY <1>1 DEF IInv, WaitInv, FilesInv
<1> QED
  BY <1>2, <1>3 DEF IInv

(* The steps of the worker that leave the target alone. *)
LEMMA IdleInv ==
  ASSUME MirrorAssumption, IInv, Tick \/ Sleep \/ PutFails \/ Publish PROVE IInv'
<1>1. UNCHANGED <<committed, installed, objects, manifests, low_water>>
  BY DEF Tick, Sleep, PutFails, Publish, primary, target
<1>2. /\ worker' \in WorkerStates /\ worker'.pc \in {"top", "stopped", "manifest", "sleep"}
      /\ worker'.mirror_seq \in {worker.mirror_seq, low_water}
      /\ worker'.pc = "manifest" => worker'.current = installed /\ installed > 0
  <2>1. worker \in WorkerStates /\ installed \in Nat
    BY DEF IInv, TypeInv
  <2>2. CASE Tick
    <3> DEFINE p == IF closing # "open" THEN "stopped"
                    ELSE IF installed > worker.last_uploaded THEN "manifest" ELSE "sleep"
    <3>1. /\ p \in {"stopped", "manifest", "sleep"}
          /\ p = "manifest" => installed > 0
      BY <2>1 DEF WorkerStates
    <3>2. worker' = [worker EXCEPT !.pc = p, !.current = installed]
      BY <2>2 DEF Tick
    <3> HIDE DEF p
    <3> QED
      BY <2>1, <3>1, <3>2 DEF WorkerStates, Busy
  <2>3. CASE Sleep \/ PutFails
    BY <2>1, <2>3 DEF Sleep, PutFails, Failed, WorkerStates, Busy
  <2>4. CASE Publish
    <3>1. worker.current = low_water
      BY <2>4 DEF Publish, IInv, OrderInv
    <3> QED
      BY <2>1, <2>4, <3>1 DEF Publish, WorkerStates, Busy
  <2> QED
    BY <2>2, <2>3, <2>4
<1>3. waiters' \in [Waiters -> WaiterStates] /\ WaitInv'
  <2>1. CASE waiters' = waiters
    BY <1>1, <2>1 DEF IInv, TypeInv, WaitInv
  <2>2. CASE waiters' = Wake(waiters)
    BY <1>1, <2>2 DEF Wake, IInv, TypeInv, WaitInv, WaiterStates
  <2> QED
    BY <2>1, <2>2 DEF Tick, Sleep, PutFails, Publish
<1>4. TypeInv' /\ OrderInv'
  BY <1>1, <1>2, <1>3 DEF IInv, TypeInv, OrderInv, Busy
<1>5. FilesInv => FilesInv'
  BY <1>1, <1>2 DEF FilesInv
<1> QED
  BY <1>3, <1>4, <1>5 DEF IInv

(* mirror_snapshot begins: all files of the manifest are to do. *)
LEMMA LoadInv == ASSUME MirrorAssumption, IInv, LoadManifest PROVE IInv'
<1>1. UNCHANGED <<committed, installed, objects, manifests, low_water, waiters>>
  BY DEF LoadManifest, primary, target
<1>2. Newest \in SUBSET Files /\ (Len(committed) > 0 => Newest = committed[Len(committed)])
  BY DEF Newest, IInv, TypeInv
<1>3. /\ worker' \in WorkerStates /\ worker'.pc = "upload" /\ worker.pc = "manifest"
      /\ worker'.current = worker.current /\ worker'.mirror_seq = worker.mirror_seq
      /\ worker'.manifest = Len(committed) /\ worker'.todo = Newest
  <2>1. worker \in WorkerStates /\ Len(committed) \in Nat
    BY DEF IInv, TypeInv
  <2> QED
    BY <1>2, <2>1 DEF LoadManifest, WorkerStates, Busy
<1>4. Len(committed) > 0 /\ TypeInv' /\ OrderInv' /\ WaitInv'
  BY <1>1, <1>3 DEF IInv, TypeInv, OrderInv, WaitInv, Busy
<1>5. committed[Len(committed)] \ Newest = {}
  BY <1>2, <1>4
<1>6. FilesInv => FilesInv'
  BY <1>1, <1>3, <1>5 DEF FilesInv
<1> QED
  BY <1>4, <1>6 DEF IInv

(* An upload adds a whole object; one that fails leaves none or a torn one. *)
LEMMA UploadInv ==
  ASSUME MirrorAssumption, IInv, NEW f \in Files, Upload(f) \/ UploadFails(f)
  PROVE  IInv'
<1>1. /\ UNCHANGED <<committed, installed, manifests, low_water, waiters>>
      /\ worker.pc = "upload"
  BY DEF Upload, UploadFails, primary
<1>2. /\ objects' \in [Files -> {"absent", "torn", "whole"}]
      /\ \A g \in Files : objects[g] = "whole" => objects'[g] = "whole"
  BY DEF Upload, UploadFails, IInv, TypeInv
<1>3. /\ worker' \in WorkerStates /\ worker'.pc \in {"sleep", "upload"}
      /\ worker'.current = worker.current /\ worker'.mirror_seq = worker.mirror_seq
      /\ worker'.manifest = worker.manifest
      /\ worker'.pc = "upload" => Upload(f) /\ f \in local /\ worker'.todo = worker.todo \ {f}
  <2>1. worker \in WorkerStates
    BY DEF IInv, TypeInv
  <2>2. CASE worker' = Failed
    BY <2>1, <2>2 DEF Failed, WorkerStates
  <2>3. CASE Upload(f) /\ f \in local
    BY <1>1, <2>1, <2>3 DEF Upload, WorkerStates
  <2> QED
    BY <2>2, <2>3 DEF Upload, UploadFails
<1>4. TypeInv' /\ OrderInv' /\ WaitInv'
  BY <1>1, <1>2, <1>3 DEF IInv, TypeInv, OrderInv, WaitInv, Busy
<1>5. ASSUME ~MayTear, FilesInv PROVE FilesInv'
  <2>1. \A g \in Files : objects'[g] # "torn"
    BY <1>5 DEF Upload, UploadFails, FilesInv, IInv, TypeInv
  <2>2. ASSUME NEW v \in 1..MaxSnap, manifests[v] # NoSnapshot
        PROVE  committed[manifests[v]] \subseteq Files
    BY <2>2 DEF IInv, TypeInv, OrderInv
  <2>3. committed[worker.manifest] \subseteq Files
    BY <1>1 DEF IInv, TypeInv, OrderInv, Busy
  <2>4. worker'.pc = "upload" => objects'[f] = "whole"
    BY <1>3, <1>5 DEF Upload, FilesInv, IInv, TypeInv
  <2> QED
    BY <1>1, <1>2, <1>3, <1>5, <2>1, <2>2, <2>3, <2>4 DEF FilesInv
<1> QED
  BY <1>4, <1>5 DEF IInv

(* The manifest follows its files. *)
LEMMA ManifestInv == ASSUME MirrorAssumption, IInv, PutManifest PROVE IInv'
<1>1. /\ UNCHANGED <<committed, installed, objects, low_water, waiters>>
      /\ worker.pc = "upload" /\ worker.todo = {}
      /\ manifests' = [manifests EXCEPT ![worker.current] =
                          IF @ = NoSnapshot THEN worker.manifest ELSE @]
  BY DEF PutManifest, primary
<1>2. /\ worker' \in WorkerStates /\ worker'.pc = "low_water"
      /\ worker'.current = worker.current /\ worker'.mirror_seq = worker.mirror_seq
  BY DEF PutManifest, IInv, TypeInv, WorkerStates, Busy
<1>3. /\ worker.current \in 1..MaxSnap /\ worker.manifest \in 1..MaxSnap
      /\ worker.current \in 1..installed /\ worker.manifest \in worker.current..Len(committed)
      /\ low_water <= worker.current
  BY <1>1 DEF IInv, TypeInv, OrderInv, Busy, MirrorAssumption
<1>4. /\ manifests' \in [1..MaxSnap -> 0..MaxSnap] /\ manifests'[worker.current] # NoSnapshot
      /\ \A v \in 1..MaxSnap : manifests[v] # NoSnapshot => manifests'[v] = manifests[v]
      /\ \A v \in 1..MaxSnap : manifests'[v] # manifests[v]
            => v = worker.current /\ manifests'[v] = worker.manifest
  BY <1>1, <1>3 DEF IInv, TypeInv, NoSnapshot
<1>5. TypeInv' /\ WaitInv'
  BY <1>1, <1>2, <1>4 DEF IInv, TypeInv, WaitInv
<1>6. OrderInv'
  BY <1>1, <1>2, <1>3, <1>4 DEF IInv, TypeInv, OrderInv, MirrorAssumption, Busy
<1>7. ASSUME FilesInv PROVE FilesInv'
  BY <1>1, <1>2, <1>4, <1>7 DEF FilesInv
<1> QED
  BY <1>5, <1>6, <1>7 DEF IInv

(* The mark follows its manifest. *)
LEMMA MarkInv == ASSUME MirrorAssumption, IInv, PutLowWater PROVE IInv'
<1>1. /\ UNCHANGED <<committed, installed, objects, manifests, waiters>>
      /\ worker.pc = "low_water" /\ low_water' = worker.current
  BY DEF PutLowWater, primary
<1>2. /\ worker' \in WorkerStates /\ worker'.pc = "done"
      /\ worker'.current = worker.current /\ worker'.mirror_seq = worker.mirror_seq
  BY DEF PutLowWater, IInv, TypeInv, WorkerStates, Busy
<1>3. /\ low_water <= low_water' /\ low_water' \in 1..installed /\ low_water \in Nat
      /\ manifests[low_water'] # NoSnapshot
  BY <1>1 DEF IInv, TypeInv, OrderInv, Busy
<1>4. TypeInv' /\ OrderInv'
  BY <1>1, <1>2, <1>3 DEF IInv, TypeInv, OrderInv, WorkerStates, Busy
<1>5. WaitInv'
  BY <1>1, <1>3 DEF IInv, TypeInv, WaitInv, WaiterStates
<1>6. FilesInv => FilesInv'
  BY <1>1, <1>2 DEF FilesInv
<1> QED
  BY <1>4, <1>5, <1>6 DEF IInv

(* The callers of await_mirror: Ok is returned only past their target. *)
LEMMA AwaitInv ==
  ASSUME MirrorAssumption, IInv, NEW w \in Waiters,
         Await(w) \/ WaiterStep(w) \/ AwaitReturn(w)
  PROVE  IInv'
<1>1. UNCHANGED <<committed, installed, worker, objects, manifests, low_water>>
  BY DEF Await, WaiterStep, Check, Register, Resume, AwaitReturn, primary, target
<1>2. waiters \in [Waiters -> WaiterStates] /\ installed \in 0..MaxSnap /\ 0 \in 0..MaxSnap
  BY DEF IInv, TypeInv, MirrorAssumption
<1>3. /\ waiters' \in [Waiters -> WaiterStates]
      /\ \A x \in Waiters \ {w} : waiters'[x] = waiters[x]
      /\ waiters'[w].pc = "ok" => waiters'[w].target <= worker.mirror_seq \/ waiters'[w] = waiters[w]
  <2>1. CASE Await(w) \/ AwaitReturn(w)
    <3>1. PICK r \in WaiterStates : r.pc # "ok" /\ waiters' = [waiters EXCEPT ![w] = r]
      <4>1. /\ NoWaiter \in WaiterStates /\ NoWaiter.pc # "ok"
            /\ [pc |-> "check", target |-> installed, woken |-> FALSE] \in WaiterStates
        BY <1>2 DEF NoWaiter, WaiterStates
      <4> QED
        BY <2>1, <4>1 DEF Await, AwaitReturn
    <3> QED
      BY <1>2, <3>1
  <2>2. CASE Check(w)
    BY <1>2, <2>2 DEF Check, WaiterStates
  <2>3. CASE Register(w) \/ Resume(w)
    BY <1>2, <2>3 DEF Register, Resume, WaiterStates
  <2> QED
    BY <2>1, <2>2, <2>3 DEF WaiterStep
<1>4. TypeInv' /\ OrderInv' /\ (FilesInv => FilesInv')
  BY <1>1, <1>3 DEF IInv, TypeInv, OrderInv, FilesInv
<1>5. worker.mirror_seq <= low_water /\ worker.mirror_seq \in Nat /\ low_water \in Nat
  BY DEF IInv, TypeInv, OrderInv, WorkerStates
<1>6. WaitInv'
  BY <1>1, <1>2, <1>3, <1>5 DEF IInv, WaitInv, WaiterStates
<1> QED
  BY <1>4, <1>6 DEF IInv

(* A crash: the target stays, the worker begins again at mirror_seq 0. *)
LEMMA CrashInv == ASSUME MirrorAssumption, IInv, Crash PROVE IInv'
<1>1. /\ UNCHANGED <<committed, objects, manifests, low_water>> /\ installed' = Len(committed)
      /\ worker' = FreshWorker /\ waiters' = [w \in Waiters |-> NoWaiter]
  BY DEF Crash, target
<1>2. TypeInv'
  BY <1>1 DEF IInv, TypeInv, FreshWorker, NoWaiter, WorkerStates, WaiterStates, MirrorAssumption
<1>3. OrderInv' /\ WaitInv'
  BY <1>1 DEF IInv, TypeInv, OrderInv, WaitInv, FreshWorker, NoWaiter, Busy
<1>4. FilesInv => FilesInv'
  BY <1>1 DEF FilesInv, FreshWorker
<1> QED
  BY <1>2, <1>3, <1>4 DEF IInv

(* The order of the uploads, at every step of every actor and through every  *)
(* crash (mirror.rs mirror_snapshot and its loop, db.rs await_mirror).        *)
THEOREM MirrorInvariant == MirrorAssumption => (Spec => []IInv)
<1> SUFFICES ASSUME MirrorAssumption PROVE Spec => []IInv
  OBVIOUS
<1>1. ASSUME IInv, [Next]_vars PROVE IInv'
  <2>1. CASE UNCHANGED vars
    BY <1>1, <2>1 DEF vars, primary, target, IInv, TypeInv, OrderInv, WaitInv, FilesInv
  <2>2. CASE CloseDrain \/ CloseEngine \/ CloseReturn
    <3>1. UNCHANGED <<committed, installed, worker, objects, manifests, low_water, waiters>>
      BY <2>2 DEF CloseDrain, CloseEngine, CloseReturn, primary, target
    <3> QED
      BY <1>1, <3>1 DEF IInv, TypeInv, OrderInv, WaitInv, FilesInv
  <2> QED
    BY <1>1, <2>1, <2>2, CommitInv, InstallInv, IdleInv, LoadInv, UploadInv, ManifestInv, MarkInv,
       AwaitInv, CrashInv
       DEF Next, WorkerStep
<1> QED
  BY <1>1, InitInv, PTL DEF Spec

(* A reader of the mirror never meets a manifest with a missing file: files  *)
(* are uploaded before their manifest, also over retries and restarts.       *)
THEOREM UploadsComplete == MirrorAssumption /\ ~MayTear => (Spec => []ManifestsComplete)
<1> SUFFICES ASSUME MirrorAssumption, ~MayTear PROVE Spec => []ManifestsComplete
  OBVIOUS
<1>1. IInv => ManifestsComplete
  BY DEF IInv, TypeInv, FilesInv, ManifestsComplete
<1> QED
  BY <1>1, MirrorInvariant, PTL

(* The mark names a manifest that is there and mirror_seq is not ahead of it. *)
THEOREM MarkIsServed == MirrorAssumption => (Spec => []LowWaterServed)
<1> SUFFICES ASSUME MirrorAssumption PROVE Spec => []LowWaterServed
  OBVIOUS
<1>1. IInv => LowWaterServed
  BY DEF IInv, TypeInv, OrderInv, LowWaterServed, MirrorAssumption
<1> QED
  BY <1>1, MirrorInvariant, PTL

(* await_mirror is honest: Ok means the snapshot current at the call is there. *)
THEOREM AwaitIsHonest == MirrorAssumption => (Spec => []AwaitHonest)
<1>1. IInv => AwaitHonest
  BY DEF IInv, TypeInv, WaitInv, AwaitHonest, WaiterStates
<1> QED
  BY <1>1, MirrorInvariant, PTL

(* The mark never goes back: an upload that is repeated after a failure or a *)
(* restart is of a snapshot that is not older than the mark.                 *)
THEOREM MarkIsMonotone == MirrorAssumption => (Spec => LowWaterMonotone)
<1>1. ASSUME IInv, [Next]_vars PROVE [low_water' >= low_water]_vars
  <2> SUFFICES ASSUME Next PROVE low_water' >= low_water
    BY <1>1
  <2>1. low_water \in Nat
    BY <1>1 DEF IInv, TypeInv
  <2>2. CASE PutLowWater
    BY <1>1, <2>1, <2>2 DEF PutLowWater, IInv, TypeInv, OrderInv, Busy
  <2>3. CASE ~PutLowWater
    <3>1. low_water' = low_water
      BY <2>3 DEF Next, WorkerStep, WaiterStep, Commit, Install, Gc, Tick, Sleep, LoadManifest,
                  PutManifest, Publish, Upload, PutFails, UploadFails, Await, Check, Register,
                  Resume, AwaitReturn, CloseDrain, CloseEngine, CloseReturn, Crash, target
    <3> QED
      BY <2>1, <3>1
  <2> QED
    BY <2>2, <2>3
<1> QED
  BY <1>1, MirrorInvariant, PTL DEF Spec, LowWaterMonotone
=============================================================================
