---------------------------- MODULE MCWritePath ----------------------------
(***************************************************************************)
(* Backpressure, and WriteFlush where no I/O fails, with an application    *)
(* that leaves flushing to the engine and one that flushes by hand, for    *)
(* TLC.  A behaviour is one of the three, named by part; Backpressure      *)
(* stays in its initial state in the others.                               *)
(***************************************************************************)
EXTENDS Backpressure, TLC

CONSTANT Admins

VARIABLES
    part, task, memtable, shut,   \* the last three are pc, active and closed of WriteFlush
    logs, flushed, up, global_seq, visible_seq, immutable, installed,
    log_number, log_max, log_torn, closed_logs, batch, next_seq, fphase, fmem,
    to_delete, acked, crashes

flushVars == <<task, memtable, shut, logs, flushed, up, global_seq, visible_seq, immutable, installed, log_number,
               log_max, log_torn, closed_logs, batch, next_seq, fphase, fmem, to_delete,
               acked, crashes>>
pathVars == <<part, flushVars, vars>>

\* Batches of two records, several rotations.
Batches == INSTANCE WriteFlushInv WITH
    pc <- task, active <- memtable, closed <- shut,
    FlushThreshold <- 4, MaxBatch <- 2, MaxImmutable <- 1, ConcurrentAdmin <- FALSE,
    ManualFlush <- FALSE, IOErrors <- FALSE, TornAppends <- FALSE, MaxSeq <- 7, MaxLog <- 4,
    MaxCrash <- 1

\* The application calls flush() between writes.
Manual == INSTANCE WriteFlushInv WITH
    pc <- task, active <- memtable, closed <- shut,
    FlushThreshold <- 3, MaxBatch <- 1, MaxImmutable <- 2, ConcurrentAdmin <- FALSE,
    ManualFlush <- TRUE, IOErrors <- FALSE, TornAppends <- FALSE, MaxSeq <- 4, MaxLog <- 4,
    MaxCrash <- 1

ASSUME WritePathAssumption ==
    /\ Batches!ProcsAssumption /\ Batches!SizesAssumption /\ Batches!ModesAssumption
    /\ Manual!ProcsAssumption /\ Manual!SizesAssumption /\ Manual!ModesAssumption
    /\ BackpressureAssumption

Symmetric == Permutations(Writers) \cup Permutations(Admins)

NoFlush ==
    /\ task = 0 /\ memtable = 0 /\ shut = 0
    /\ logs = 0 /\ flushed = 0 /\ up = 0 /\ global_seq = 0 /\ visible_seq = 0 /\ immutable = 0
    /\ installed = 0 /\ log_number = 0 /\ log_max = 0 /\ log_torn = 0 /\ closed_logs = 0
    /\ batch = 0 /\ next_seq = 0 /\ fphase = 0 /\ fmem = 0 /\ to_delete = 0 /\ acked = 0
    /\ crashes = 0

PathInit ==
    /\ Init
    /\ \/ part = "batches" /\ Batches!Init
       \/ part = "manual" /\ Manual!Init
       \/ part = "pressure" /\ NoFlush

PathNext ==
    /\ \/ part = "batches" /\ Batches!Next /\ UNCHANGED vars
       \/ part = "manual" /\ Manual!Next /\ UNCHANGED vars
       \/ part = "pressure" /\ Next /\ UNCHANGED flushVars
    /\ UNCHANGED part

PathSpec == PathInit /\ [][PathNext]_pathVars

----------------------------------------------------------------------------
\* WriteFlush: no completed write is lost by a crash, whatever flush() and
\* close() did, and when close() has returned every completed write is in a
\* file; the queue of immutable memtables outgrows its limit by less than one
\* for each task; with the inductive invariants of the proofs, that of
\* Backpressure included.  Where no I/O fails a record that a restart would find
\* is never taken back, acknowledged or not.
WritePathSafe ==
    /\ [](part = "pressure" => IInv)
    /\ [](part = "batches" => /\ Batches!IInv /\ Batches!StoreInv /\ Batches!Durable
                              /\ Batches!CloseFlushes /\ Batches!QueueBounded)
    /\ [](part = "manual" => /\ Manual!IInv /\ Manual!StoreInv /\ Manual!Durable
                             /\ Manual!CloseFlushes /\ Manual!QueueBounded)
    /\ [][/\ part = "batches" => Batches!StoreStep
          /\ part = "manual" => Manual!StoreStep]_pathVars

============================================================================
