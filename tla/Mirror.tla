------------------------------- MODULE Mirror -------------------------------
(***************************************************************************)
(* The mirror: a worker that copies the newest snapshot to a second store, *)
(* callers of await_mirror, and close() (mirror.rs, db.rs).                *)
(*                                                                         *)
(* A snapshot is the set of the data files and deletion-vector files its   *)
(* manifest lists; snapshot n is committed[n].  An object of the target is *)
(* "absent", "torn" or "whole".  The store's put_if_absent may fail; where *)
(* it writes under the final name (store/local.rs) a failure may leave the *)
(* object torn.  The worker's five-second poll makes it look again by      *)
(* itself, so the wake-up of await_mirror only makes it look sooner.       *)
(***************************************************************************)
EXTENDS Integers, Sequences

CONSTANTS
    Waiters,     \* tasks that call await_mirror
    MaxSnap,     \* bound: snapshots committed
    MaxFail,     \* bound: operations of the target that fail
    MaxCrash,    \* bound: crashes of the process
    MayTear,     \* does a failed put_if_absent leave a torn object?
    CheckHeld,   \* is nothing uploaded between a waiter's check and its registration?
    MayClose     \* does someone call close()?

MirrorAssumption ==
    /\ {MaxSnap, MaxFail, MaxCrash} \subseteq Nat
    /\ {MayTear, CheckHeld, MayClose} \subseteq BOOLEAN

VARIABLES
    committed,   \* the snapshots, each the set of its files
    installed,   \* the snapshot the version set shows
    local,       \* files on the primary's disk
    worker,      \* [pc, current, manifest, todo, last_uploaded, mirror_seq]
    objects,     \* target: data objects that are not absent, torn or whole
    manifests,   \* target: metadata/v{N}.manifest.bin to the snapshot in it
    low_water,   \* target: metadata/low_water.txt
    waiters,     \* of each waiter: [pc, target, woken]
    closing,     \* close(): "open", "draining", "flushing" or "closed"
    faults       \* failures and crashes so far

target == <<objects, manifests, low_water>>
primary == <<committed, installed, local>>
vars == <<primary, worker, target, waiters, closing, faults>>

Files == 1..MaxSnap + 1

NoSnapshot == 0

FreshWorker == [pc |-> "top", current |-> 0, manifest |-> 0, todo |-> {},
                last_uploaded |-> 0, mirror_seq |-> 0]
NoWaiter == [pc |-> "idle", target |-> 0, woken |-> FALSE]

Init ==
    /\ committed = <<>> /\ installed = 0 /\ local = {}
    /\ worker = FreshWorker
    /\ objects = [f \in Files |-> "absent"]
    /\ manifests = [v \in 1..MaxSnap |-> NoSnapshot]
    /\ low_water = 0
    /\ waiters = [w \in Waiters |-> NoWaiter]
    /\ closing = "open"
    /\ faults = [fail |-> 0, crash |-> 0]

----------------------------------------------------------------------------
(* The primary.                                                            *)

Newest == IF committed = <<>> THEN {} ELSE committed[Len(committed)]

\* A flush adds a file, a compaction puts one file in the place of the others.
Commit ==
    /\ closing # "closed" /\ installed = Len(committed)
    /\ Len(committed) < MaxSnap
    /\ LET f == Len(committed) + 1
       IN /\ \E kept \in {{}, Newest} : committed' = Append(committed, kept \cup {f})
          /\ local' = local \cup {f}
    /\ UNCHANGED <<installed, worker, target, waiters, closing, faults>>

Install ==
    /\ installed < Len(committed)
    /\ installed' = installed + 1
    /\ UNCHANGED <<committed, local, worker, target, waiters, closing, faults>>

\* The mirror pins nothing: a file of an old snapshot goes when its grace is over.
Gc(f) ==
    /\ installed = Len(committed) /\ f \in local \ Newest
    /\ local' = local \ {f}
    /\ UNCHANGED <<committed, installed, worker, target, waiters, closing, faults>>

----------------------------------------------------------------------------
(* The worker.                                                             *)

Wake(ws) == [w \in Waiters |-> [ws[w] EXCEPT !.woken = @ \/ ws[w].pc = "parked"]]

Tick ==
    /\ worker.pc = "top"
    /\ worker' = [worker EXCEPT
           !.pc = IF closing # "open" THEN "stopped"
                  ELSE IF installed > worker.last_uploaded THEN "manifest" ELSE "sleep",
           !.current = installed]
    /\ UNCHANGED <<primary, target, waiters, closing, faults>>

Sleep ==
    /\ worker.pc = "sleep"
    /\ worker' = [worker EXCEPT !.pc = "top"]
    /\ UNCHANGED <<primary, target, waiters, closing, faults>>

\* mirror_snapshot takes the manifest of the moment.
LoadManifest ==
    /\ worker.pc = "manifest"
    /\ worker' = [worker EXCEPT !.pc = "upload", !.manifest = Len(committed), !.todo = Newest]
    /\ UNCHANGED <<primary, target, waiters, closing, faults>>

GivenUp ==  \* mutant: a failed upload is not tried again
    [worker EXCEPT !.pc = "sleep", !.todo = {}, !.last_uploaded = worker.current]
Failed == [worker EXCEPT !.pc = "sleep", !.todo = {}]

\* put_if_absent: an object that is there already counts as uploaded.
Upload(f) ==
    /\ worker.pc = "upload" /\ f \in worker.todo
    /\ IF f \in local
       THEN /\ worker' = [worker EXCEPT !.todo = @ \ {f}]
            /\ objects' = [objects EXCEPT ![f] = IF @ = "absent" THEN "whole" ELSE @]
       ELSE worker' = Failed /\ objects' = objects
    /\ UNCHANGED <<primary, manifests, low_water, waiters, closing, faults>>

\* One failed upload fails the snapshot; the others are aborted.
UploadFails(f) ==
    /\ worker.pc = "upload" /\ f \in worker.todo
    /\ faults.fail < MaxFail
    /\ \E left \in {"absent"} \cup (IF MayTear THEN {"torn"} ELSE {}) :
         objects' = [objects EXCEPT ![f] = IF @ = "absent" THEN left ELSE @]
    /\ worker' = Failed /\ faults' = [faults EXCEPT !.fail = @ + 1]
    /\ UNCHANGED <<primary, manifests, low_water, waiters, closing>>

ManifestFirst ==  \* mutant: the manifest is not held back until its files are there
    /\ worker.pc = "upload"
    /\ manifests' = [manifests EXCEPT ![worker.current] = IF @ = NoSnapshot THEN worker.manifest ELSE @]
    /\ worker' = [worker EXCEPT !.pc = "low_water", !.todo = {}]
    /\ UNCHANGED <<primary, objects, low_water, waiters, closing, faults>>
PutManifest ==
    /\ worker.pc = "upload" /\ worker.todo = {}
    /\ manifests' = [manifests EXCEPT ![worker.current] = IF @ = NoSnapshot THEN worker.manifest ELSE @]
    /\ worker' = [worker EXCEPT !.pc = "low_water"]
    /\ UNCHANGED <<primary, objects, low_water, waiters, closing, faults>>

PutFails ==
    /\ worker.pc = "low_water" \/ (worker.pc = "upload" /\ worker.todo = {})
    /\ faults.fail < MaxFail
    /\ worker' = Failed /\ faults' = [faults EXCEPT !.fail = @ + 1]
    /\ UNCHANGED <<primary, target, waiters, closing>>

PutNewestMark ==  \* mutant: the mark is the newest snapshot, not the uploaded one
    /\ worker.pc = "low_water"
    /\ low_water' = installed
    /\ worker' = [worker EXCEPT !.pc = "done"]
    /\ UNCHANGED <<primary, objects, manifests, waiters, closing, faults>>
PutLowWater ==
    /\ worker.pc = "low_water"
    /\ low_water' = worker.current
    /\ worker' = [worker EXCEPT !.pc = "done"]
    /\ UNCHANGED <<primary, objects, manifests, waiters, closing, faults>>

\* mirror_seq moves and every waiter that is registered is notified.
Publish ==
    /\ worker.pc = "done"
    /\ CheckHeld => \A w \in Waiters : waiters[w].pc # "register"
    /\ worker' = [worker EXCEPT !.pc = "sleep", !.last_uploaded = worker.current,
                                !.mirror_seq = worker.current]
    /\ waiters' = Wake(waiters)
    /\ UNCHANGED <<primary, target, closing, faults>>

----------------------------------------------------------------------------
(* await_mirror, close and crashes.                                        *)

Await(w) ==
    /\ waiters[w].pc = "idle" /\ closing = "open" /\ installed > 0
    /\ waiters' = [waiters EXCEPT ![w] = [pc |-> "check", target |-> installed, woken |-> FALSE]]
    /\ UNCHANGED <<primary, worker, target, closing, faults>>

EarlyReturn(w) ==  \* mutant: any upload satisfies the waiter
    /\ waiters[w].pc = "check"
    /\ waiters' = [waiters EXCEPT ![w].pc =
           IF worker.mirror_seq > 0 THEN "ok" ELSE IF closing \in {"flushing", "closed"} THEN "closed" ELSE "register"]
    /\ UNCHANGED <<primary, worker, target, closing, faults>>
Check(w) ==
    /\ waiters[w].pc = "check"
    /\ waiters' = [waiters EXCEPT ![w].pc =
           IF worker.mirror_seq >= waiters[w].target THEN "ok"
           ELSE IF closing \in {"flushing", "closed"} THEN "closed" ELSE "register"]
    /\ UNCHANGED <<primary, worker, target, closing, faults>>

\* notified(): from here on a notification reaches the waiter.
Register(w) ==
    /\ waiters[w].pc = "register"
    /\ waiters' = [waiters EXCEPT ![w].pc = "parked", ![w].woken = FALSE]
    /\ UNCHANGED <<primary, worker, target, closing, faults>>

Resume(w) ==
    /\ waiters[w].pc = "parked" /\ waiters[w].woken
    /\ waiters' = [waiters EXCEPT ![w].pc = "check"]
    /\ UNCHANGED <<primary, worker, target, closing, faults>>

AwaitReturn(w) ==
    /\ waiters[w].pc \in {"ok", "closed"}
    /\ waiters' = [waiters EXCEPT ![w] = NoWaiter]
    /\ UNCHANGED <<primary, worker, target, closing, faults>>

\* close() stops the worker, then marks the engine closed and flushes it.
CloseDrain ==
    /\ MayClose /\ closing = "open"
    /\ closing' = "draining"
    /\ UNCHANGED <<primary, worker, target, waiters, faults>>

CloseEngine ==
    /\ closing = "draining" /\ worker.pc = "stopped"
    /\ closing' = "flushing"
    /\ UNCHANGED <<primary, worker, target, waiters, faults>>

CloseReturn ==
    /\ closing = "flushing" /\ installed = Len(committed)
    /\ closing' = "closed"
    /\ UNCHANGED <<primary, worker, target, waiters, faults>>

Crash ==
    /\ faults.crash < MaxCrash
    /\ installed' = Len(committed)
    /\ worker' = FreshWorker
    /\ waiters' = [w \in Waiters |-> NoWaiter]
    /\ closing' = "open"
    /\ faults' = [faults EXCEPT !.crash = @ + 1]
    /\ UNCHANGED <<committed, local, target>>

WorkerStep ==
    \/ Tick \/ Sleep \/ LoadManifest \/ PutManifest \/ PutLowWater \/ Publish
    \/ \E f \in Files : Upload(f)

WaiterStep(w) == Check(w) \/ Register(w) \/ Resume(w)

Next ==
    \/ Commit \/ Install \/ \E f \in Files : Gc(f)
    \/ WorkerStep \/ PutFails \/ \E f \in Files : UploadFails(f)
    \/ \E w \in Waiters : Await(w) \/ WaiterStep(w) \/ AwaitReturn(w)
    \/ CloseDrain \/ CloseEngine \/ CloseReturn \/ Crash

Spec == Init /\ [][Next]_vars

\* The worker and the waiters are tasks of the runtime, a commit is installed.
FairSpec ==
    /\ Spec
    /\ WF_vars(Install) /\ WF_vars(WorkerStep)
    /\ WF_vars(CloseEngine) /\ WF_vars(CloseReturn)
    /\ \A w \in Waiters : WF_vars(WaiterStep(w))

----------------------------------------------------------------------------
TypeOK ==
    /\ installed \in 0..Len(committed)
    /\ \A w \in Waiters : waiters[w].target \in 0..MaxSnap
    /\ worker.mirror_seq \in 0..installed /\ worker.manifest \in 0..Len(committed)
    /\ low_water \in 0..MaxSnap

Busy == {"manifest", "upload", "low_water", "done"}
WorkerStates == [pc : Busy \cup {"top", "sleep", "stopped"}, current : Nat, manifest : Nat,
                 todo : SUBSET Files, last_uploaded : Nat, mirror_seq : Nat]
WaiterStates == [pc : {"idle", "check", "register", "parked", "ok", "closed"},
                 target : 0..MaxSnap, woken : BOOLEAN]

TypeInv ==
    /\ committed \in Seq(SUBSET Files) /\ Len(committed) <= MaxSnap
    /\ installed \in 0..Len(committed)
    /\ worker \in WorkerStates /\ waiters \in [Waiters -> WaiterStates]
    /\ objects \in [Files -> {"absent", "torn", "whole"}]
    /\ manifests \in [1..MaxSnap -> 0..MaxSnap]
    /\ low_water \in 0..installed

\* A manifest is of the snapshot it is stored for or of a later one; the mark is
\* between mirror_seq and the snapshot being uploaded, and names a manifest.
OrderInv ==
    /\ \A v \in 1..MaxSnap : manifests[v] # NoSnapshot => manifests[v] \in v..Len(committed)
    /\ worker.mirror_seq <= low_water
    /\ low_water # 0 => manifests[low_water] # NoSnapshot
    /\ worker.pc \in Busy => worker.current \in 1..installed /\ low_water <= worker.current
    /\ worker.pc = "upload" => worker.manifest \in worker.current..Len(committed)
    /\ worker.pc \in {"low_water", "done"} => manifests[worker.current] # NoSnapshot
    /\ worker.pc = "done" => low_water = worker.current

WaitInv == \A w \in Waiters : waiters[w].pc = "ok" => waiters[w].target <= low_water

\* The files of a stored manifest are there, and of the snapshot being uploaded
\* those that are no longer to do.
FilesInv ==
    /\ \A f \in Files : objects[f] # "torn"
    /\ \A v \in 1..MaxSnap : manifests[v] # NoSnapshot =>
          \A f \in committed[manifests[v]] : objects[f] = "whole"
    /\ worker.pc = "upload" =>
          \A f \in committed[worker.manifest] \ worker.todo : objects[f] = "whole"

\* What the upload order keeps at every step, the files where no failed upload
\* tears an object.
IInv == TypeInv /\ OrderInv /\ WaitInv /\ (~MayTear => FilesInv)

\* A reader of the mirror never sees a manifest that lists a file which is not
\* there whole (mirror_snapshot uploads the files first).
ManifestsComplete ==
    \A v \in DOMAIN manifests : manifests[v] # NoSnapshot =>
        \A f \in committed[manifests[v]] : objects[f] = "whole"

\* A manifest on the mirror is the one of the snapshot it is named for.
ManifestsExact == \A v \in DOMAIN manifests : manifests[v] \in {NoSnapshot, v}

\* The low-water mark names a manifest that is there and not older than the mark,
\* and mirror_seq is never ahead of it.
LowWaterServed ==
    /\ low_water # 0 => manifests[low_water] >= low_water
    /\ worker.mirror_seq <= low_water

\* The mark never goes back, through failures, crashes and uploads that are repeated.
LowWaterMonotone == [][low_water' >= low_water]_vars

\* await_mirror returns only when the snapshot that was current at the call is
\* on the mirror.
AwaitHonest == \A w \in Waiters : waiters[w].pc = "ok" => low_water >= waiters[w].target

\* The mirror catches up with the primary when commits, faults and close() end.
MirrorCatchesUp == <>[](worker.mirror_seq = installed \/ closing # "open")

\* A call of await_mirror comes to an end.
AwaitReturns == \A w \in Waiters : waiters[w].pc = "check" ~> waiters[w].pc \in {"ok", "closed", "idle"}

\* When close() returns, the mirror has the snapshot of the final flush.
CloseMirrored == closing = "closed" => worker.mirror_seq = installed

============================================================================
