----------------------------- MODULE MCProgress -----------------------------
(***************************************************************************)
(* What must eventually happen, for TLC: Snapshots, Backpressure,          *)
(* ChangeFeed, Replica and Mirror under the fairness of their FairSpec.  A *)
(* behaviour is one of the instances below, named by part; the variables   *)
(* of the others are 0.                                                    *)
(***************************************************************************)
EXTENDS Integers, Sequences, FiniteSets

VARIABLES
    part, log, dropped, recovered, manifest, installed, flush, jobs, pins, pending,
    disk, next_id, committed, fails, crashes, pc, woken, active, imm, l0, spawned,
    flusher, fworker, cworker, picked, flag, closer, closed, writes, version, flushed,
    deletes, cursor, feed, states, live, drains, readers, shown, local, worker, objects,
    manifests, low_water, waiters, closing, faults

logVars == <<log, dropped, next_id>>
versionVars == <<version, flushed>>
commitVars == <<committed, installed>>
failVars == <<fails>>
treeVars == <<recovered, manifest, flush, jobs, pins, pending, disk, crashes>>
pressureVars == <<pc, woken, active, imm, l0, spawned, flusher, fworker, cworker,
                  picked, flag, closer, closed, writes>>
feedVars == <<deletes, cursor, feed>>
replicaVars == <<states, live, drains, readers, shown>>
mirrorVars == <<local, worker, objects, manifests, low_water, waiters, closing, faults>>
vars == <<part, logVars, versionVars, commitVars, failVars, treeVars, pressureVars,
          feedVars, replicaVars, mirrorVars>>

\* Flushes, compactions and a reader; writes end.
Tree == INSTANCE Snapshots WITH
    NumLevels <- 1, L0Trigger <- 2, L0Slowdown <- 3, LevelTarget <- 2, MaxInputRows <- 2,
    ChunkRows <- 1, TableKeys <- {1}, Ops <- {"put"}, Compactors <- {"c1"},
    Readers <- {"r1"}, JobsOverlap <- TRUE, PromptInstall <- TRUE, Grace <- TRUE, MaxFail <- 0,
    MaxSeq <- 4, MaxCrash <- 0

\* Writers at the limits, with a job that fails.
Pressure == INSTANCE Backpressure WITH
    Writers <- {"w1", "w2"}, MaxImmutable <- 1, L0Compact <- 1, L0Stop <- 1,
    MayClose <- FALSE, MaxWrites <- 2, MaxFail <- 1

\* The same with close().
Closing == INSTANCE Backpressure WITH
    Writers <- {"w1", "w2"}, MaxImmutable <- 1, L0Compact <- 1, L0Stop <- 1,
    MayClose <- TRUE, MaxWrites <- 2, MaxFail <- 1

\* A subscriber that is never overtaken.
Subscriber == INSTANCE ChangeFeed WITH
    NumLevels <- 1, L0Trigger <- 2, L0Slowdown <- 4, LevelTarget <- 4, MaxInputRows <- 4,
    ChunkRows <- 2, TableKeys <- {1, 2}, MaxSeq <- 2, Deleters <- {"d1"}, MaxRows <- 1,
    Retained <- TRUE, ScanHeld <- TRUE, LookupHeld <- TRUE

\* A replica that advances, rebases and is swapped.
Follower == INSTANCE Replica WITH
    NumLevels <- 2, L0Trigger <- 2, L0Slowdown <- 4, LevelTarget <- 9, MaxInputRows <- 9,
    ChunkRows <- 2, TableKeys <- {1}, MaxSeq <- 2, Readers <- {}, MaxStates <- 2,
    Retained <- TRUE, StreamHeld <- TRUE, SwapAlone <- TRUE, DrainFails <- FALSE

\* Uploads with a failure and a crash, and a waiter.
Uploads == INSTANCE Mirror WITH
    Waiters <- {"w1"}, MaxSnap <- 2, MaxFail <- 1, MaxCrash <- 1, MayTear <- FALSE,
    CheckHeld <- TRUE, MayClose <- FALSE

ASSUME ProgressAssumption ==
    /\ Tree!LevelsAssumption /\ Tree!ModelAssumption
    /\ Pressure!BackpressureAssumption /\ Closing!BackpressureAssumption
    /\ Subscriber!LevelsAssumption /\ Subscriber!PrimaryAssumption /\ Subscriber!FeedAssumption
    /\ Follower!LevelsAssumption /\ Follower!PrimaryAssumption /\ Follower!ReplicaAssumption
    /\ Uploads!MirrorAssumption

----------------------------------------------------------------------------
\* A step of an instance leaves the variables of the others alone.
OfTree(A) ==
    /\ part = "tree" /\ A
    /\ UNCHANGED <<part, versionVars, pressureVars, feedVars, replicaVars, mirrorVars>>
OfPressure(A) ==
    /\ part = "pressure" /\ A
    /\ UNCHANGED <<part, logVars, versionVars, commitVars, treeVars, feedVars, replicaVars, mirrorVars>>
OfClosing(A) ==
    /\ part = "closing" /\ A
    /\ UNCHANGED <<part, logVars, versionVars, commitVars, treeVars, feedVars, replicaVars, mirrorVars>>
OfSubscriber(A) ==
    /\ part = "subscriber" /\ A
    /\ UNCHANGED <<part, commitVars, failVars, treeVars, pressureVars, replicaVars, mirrorVars>>
OfFollower(A) ==
    /\ part = "follower" /\ A
    /\ UNCHANGED <<part, commitVars, failVars, treeVars, pressureVars, feedVars, mirrorVars>>
OfUploads(A) ==
    /\ part = "uploads" /\ A
    /\ UNCHANGED <<part, logVars, versionVars, failVars, treeVars, pressureVars, feedVars, replicaVars>>

NoLog == log = 0 /\ dropped = 0 /\ next_id = 0
NoVersion == version = 0 /\ flushed = 0
NoCommit == committed = 0 /\ installed = 0
NoFail == fails = 0
NoTree ==
    /\ recovered = 0 /\ manifest = 0 /\ flush = 0 /\ jobs = 0 /\ pins = 0 /\ pending = 0
    /\ disk = 0 /\ crashes = 0
NoPressure ==
    /\ pc = 0 /\ woken = 0 /\ active = 0 /\ imm = 0 /\ l0 = 0 /\ spawned = 0 /\ flusher = 0
    /\ fworker = 0 /\ cworker = 0 /\ picked = 0 /\ flag = 0 /\ closer = 0 /\ closed = 0
    /\ writes = 0
NoFeed == deletes = 0 /\ cursor = 0 /\ feed = 0
NoReplica == states = 0 /\ live = 0 /\ drains = 0 /\ readers = 0 /\ shown = 0
NoMirror ==
    /\ local = 0 /\ worker = 0 /\ objects = 0 /\ manifests = 0 /\ low_water = 0
    /\ waiters = 0 /\ closing = 0 /\ faults = 0

Init ==
    \/ /\ part = "tree" /\ Tree!Init
       /\ NoVersion /\ NoPressure /\ NoFeed /\ NoReplica /\ NoMirror
    \/ /\ \/ part = "pressure" /\ Pressure!Init
          \/ part = "closing" /\ Closing!Init
       /\ NoLog /\ NoVersion /\ NoCommit /\ NoTree /\ NoFeed /\ NoReplica /\ NoMirror
    \/ /\ part = "subscriber" /\ Subscriber!Init
       /\ NoCommit /\ NoFail /\ NoTree /\ NoPressure /\ NoReplica /\ NoMirror
    \/ /\ part = "follower" /\ Follower!Init
       /\ NoCommit /\ NoFail /\ NoTree /\ NoPressure /\ NoFeed /\ NoMirror
    \/ /\ part = "uploads" /\ Uploads!Init
       /\ NoLog /\ NoVersion /\ NoFail /\ NoTree /\ NoPressure /\ NoFeed /\ NoReplica

Next ==
    \/ OfTree(Tree!Next)
    \/ OfPressure(Pressure!Next)
    \/ OfClosing(Closing!Next)
    \/ OfSubscriber(Subscriber!Next)
    \/ OfFollower(Follower!Next)
    \/ OfUploads(Uploads!Next)

\* The conditions of the FairSpecs.  A behaviour stays in its part, so one
\* condition on a disjunction says of each part what the part's own one says.
Writer1 == OfPressure(Pressure!WriterStep("w1")) \/ OfClosing(Closing!WriterStep("w1"))
Writer2 == OfPressure(Pressure!WriterStep("w2")) \/ OfClosing(Closing!WriterStep("w2"))

Fairness ==
    /\ WF_vars(OfTree(Tree!FlushCommit) \/ Writer1 \/ OfSubscriber(Subscriber!NextBatch)
               \/ OfFollower(Follower!Open) \/ OfUploads(Uploads!Install))
    /\ WF_vars(OfTree(Tree!FlushInstall) \/ Writer2 \/ OfFollower(Follower!SwapStore)
               \/ OfUploads(Uploads!WorkerStep))
    /\ WF_vars(OfTree(Tree!FlushDrop) \/ OfPressure(Pressure!AutoFlush)
               \/ OfClosing(Closing!AutoFlush) \/ OfFollower(Follower!Drain("advance"))
               \/ OfUploads(Uploads!CloseEngine))
    /\ WF_vars(OfTree(Tree!CompactInstall("c1")) \/ OfPressure(Pressure!FlushStep)
               \/ OfClosing(Closing!FlushStep) \/ OfFollower(Follower!Drain("rebase"))
               \/ OfUploads(Uploads!CloseReturn))
    /\ WF_vars(OfTree(Tree!CompactEnqueue("c1")) \/ OfPressure(Pressure!FlushWorkerWakes)
               \/ OfClosing(Closing!FlushWorkerWakes) \/ OfFollower(Follower!Drain("swap"))
               \/ OfUploads(Uploads!WaiterStep("w1")))
    /\ WF_vars(OfTree(Tree!GcMark("c1")) \/ OfPressure(Pressure!CompactWakes)
               \/ OfClosing(Closing!CompactWakes))
    /\ WF_vars(OfTree(Tree!Unpin("r1")) \/ OfPressure(Pressure!CompactInstall)
               \/ OfClosing(Closing!CompactInstall))
    /\ WF_vars(OfPressure(Pressure!CompactNotify) \/ OfClosing(Closing!CompactNotify))
    /\ WF_vars(OfPressure(Pressure!CloseSeals) \/ OfClosing(Closing!CloseSeals))
    /\ SF_vars(OfTree(Tree!CompactPick("c1")) \/ OfPressure(Pressure!FlushWorkerRuns)
               \/ OfClosing(Closing!FlushWorkerRuns) \/ OfFollower(Follower!Advance))
    /\ SF_vars(OfTree(Tree!CompactMerge("c1")) \/ OfPressure(Pressure!FlushWorkerLoops)
               \/ OfClosing(Closing!FlushWorkerLoops) \/ OfFollower(Follower!RebaseReset))
    /\ SF_vars(OfTree(Tree!CompactCommit("c1")) \/ OfPressure(Pressure!CloseFlushes)
               \/ OfClosing(Closing!CloseFlushes))
    /\ SF_vars(OfTree(Tree!GcSweepOf("c1", pending))
               \/ OfPressure(Pressure!CloseReturns) \/ OfClosing(Closing!CloseReturns))

FairSpec == Init /\ [][Next]_vars /\ Fairness

----------------------------------------------------------------------------
\* Snapshots: once L0 holds l0_compaction_trigger files a compaction brings it
\* below that again, and when the writes end every file a compaction replaced
\* is deleted (gc_pending_deletions).
TreeSettles ==
    /\ part = "tree" /\ Tree!L0Full ~> part = "tree" /\ ~Tree!L0Full
    /\ <>[](part = "tree" => Tree!NothingObsolete)

\* Backpressure: a writer that has begun returns, none is left parked; Mirror: a
\* call of await_mirror comes to an end; close() returns, whatever the workers
\* and writers were doing.
CallsReturn ==
    /\ \A w \in {"w1", "w2"} :
          part = "pressure" /\ pc[w] # "idle" ~> part = "pressure" /\ pc[w] = "idle"
    /\ part = "uploads" /\ waiters["w1"].pc = "check"
          ~> part = "uploads" /\ waiters["w1"].pc \in {"ok", "closed", "idle"}
    /\ part = "closing" /\ flag ~> part = "closing" /\ closer \in {"closed", "failed"}

\* A subscriber that keeps polling reaches the end of the history, a replica that
\* keeps advancing shows all writes once they stop, and the mirror catches up
\* when commits and faults end.
FollowersCatchUp ==
    /\ <>[](part = "subscriber" => cursor.since = Len(log))
    /\ []<>(part = "follower" => live # 0 /\ states[live].visible = Len(log))
    /\ <>[](part = "uploads" => worker.mirror_seq = installed)

=============================================================================
