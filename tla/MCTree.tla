------------------------------- MODULE MCTree -------------------------------
(***************************************************************************)
(* Snapshots and IcebergExport for TLC.  A behaviour is one of the         *)
(* instances below, named by part, or, with part "main", one of Snapshots  *)
(* under the constants of the configuration; a run checks those in Parts.  *)
(***************************************************************************)
EXTENDS SnapshotsInv

CONSTANT Parts

VARIABLES part, export, target, exports, finished

exportVars == <<export, target, exports, finished>>
treeVars == <<part, vars, exportVars>>

\* Two compaction workers and three levels.
Parallel == INSTANCE SnapshotsInv WITH
    NumLevels <- 2, L0Trigger <- 1, L0Slowdown <- 2, LevelTarget <- 1, MaxInputRows <- 1,
    ChunkRows <- 1, TableKeys <- {1}, Ops <- {"put", "del"}, Compactors <- {"c1", "c2"},
    Readers <- {}, JobsOverlap <- TRUE, PromptInstall <- TRUE, Grace <- TRUE, MaxFail <- 0,
    MaxSeq <- 2, MaxCrash <- 0

\* A compaction or an unlink fails, and a crash at any point.
Faults == INSTANCE SnapshotsInv WITH
    NumLevels <- 1, L0Trigger <- 1, L0Slowdown <- 2, LevelTarget <- 1, MaxInputRows <- 1,
    ChunkRows <- 1, TableKeys <- {1}, Ops <- {"put"}, Compactors <- {"c1"},
    Readers <- {}, JobsOverlap <- TRUE, PromptInstall <- TRUE, Grace <- FALSE, MaxFail <- 1,
    MaxSeq <- 2, MaxCrash <- 1

\* A restart replays writes that are in files already; jobs do not overlap.
Replay == INSTANCE SnapshotsInv WITH
    NumLevels <- 1, L0Trigger <- 1, L0Slowdown <- 2, LevelTarget <- 1, MaxInputRows <- 1,
    ChunkRows <- 1, TableKeys <- {1}, Ops <- {"put", "del"}, Compactors <- {"c1"},
    Readers <- {}, JobsOverlap <- FALSE, PromptInstall <- TRUE, Grace <- FALSE, MaxFail <- 0,
    MaxSeq <- 2, MaxCrash <- 1

\* Deletion vectors of four writes; jobs do not overlap.
Marks == INSTANCE SnapshotsInv WITH
    NumLevels <- 1, L0Trigger <- 2, L0Slowdown <- 2, LevelTarget <- 1, MaxInputRows <- 2,
    ChunkRows <- 1, TableKeys <- {1, 2}, Ops <- {"put", "del"}, Compactors <- {"c1"},
    Readers <- {}, JobsOverlap <- FALSE, PromptInstall <- TRUE, Grace <- FALSE, MaxFail <- 0,
    MaxSeq <- 4, MaxCrash <- 0

\* An export beside flushes and compactions that install late, with a crash.
Export == INSTANCE IcebergExport WITH
    NumLevels <- 1, L0Trigger <- 2, L0Slowdown <- 3, LevelTarget <- 2, MaxInputRows <- 2,
    ChunkRows <- 2, TableKeys <- {1}, Ops <- {"put"}, Compactors <- {"c1"},
    Readers <- {"r1"}, JobsOverlap <- FALSE, PromptInstall <- FALSE, Grace <- FALSE, MaxFail <- 0,
    MaxSeq <- 3, MaxCrash <- 1, Exporter <- "r1", ReuseTarget <- FALSE, MaxExports <- 1

\* Files of two keys, some of them partly marked.
ExportTwoKeys == INSTANCE IcebergExport WITH
    NumLevels <- 1, L0Trigger <- 2, L0Slowdown <- 3, LevelTarget <- 2, MaxInputRows <- 2,
    ChunkRows <- 2, TableKeys <- {1, 2}, Ops <- {"put"}, Compactors <- {"c1"},
    Readers <- {"r1"}, JobsOverlap <- FALSE, PromptInstall <- TRUE, Grace <- FALSE, MaxFail <- 0,
    MaxSeq <- 3, MaxCrash <- 0, Exporter <- "r1", ReuseTarget <- FALSE, MaxExports <- 1

ASSUME TreeAssumption ==
    /\ Parallel!LevelsAssumption /\ Parallel!ModelAssumption
    /\ Faults!LevelsAssumption /\ Faults!ModelAssumption
    /\ Replay!LevelsAssumption /\ Replay!ModelAssumption
    /\ Marks!LevelsAssumption /\ Marks!ModelAssumption
    /\ Export!LevelsAssumption /\ Export!ModelAssumption /\ Export!ExportAssumption
    /\ ExportTwoKeys!LevelsAssumption /\ ExportTwoKeys!ModelAssumption
    /\ ExportTwoKeys!ExportAssumption

TreeInit ==
    /\ part \in Parts
    /\ \/ /\ part \in {"main", "parallel", "faults", "replay", "marks"}
          /\ part = "main" => Init
          /\ part = "parallel" => Parallel!Init
          /\ part = "faults" => Faults!Init
          /\ part = "replay" => Replay!Init
          /\ part = "marks" => Marks!Init
          /\ export = 0 /\ target = 0 /\ exports = 0 /\ finished = 0
       \/ part = "export" /\ Export!ExportInit
       \/ part = "export two keys" /\ ExportTwoKeys!ExportInit

TreeNext ==
    /\ \/ /\ \/ part = "main" /\ Next
             \/ part = "parallel" /\ Parallel!Next
             \/ part = "faults" /\ Faults!Next
             \/ part = "replay" /\ Replay!Next
             \/ part = "marks" /\ Marks!Next
          /\ UNCHANGED exportVars
       \/ part = "export" /\ Export!ExportNext
       \/ part = "export two keys" /\ ExportTwoKeys!ExportNext
    /\ UNCHANGED part

TreeSpec == TreeInit /\ [][TreeNext]_treeVars

----------------------------------------------------------------------------
\* Snapshots: a lookup (point_lookup) returns the last write of every key,
\* whatever was flushed, merged, split, dropped as a tombstone or flushed again
\* after a restart; where jobs do not overlap, a snapshot shows one row per key.
TreeReads ==
    /\ part = "main" => IInv /\ ReadsLatest
    /\ part = "parallel" => Parallel!IInv /\ Parallel!ReadsLatest
    /\ part = "faults" => Faults!IInv /\ Faults!ReadsLatest
    /\ part = "replay" => Replay!IInv /\ Replay!ReadsLatest /\ Replay!SnapshotExact
    /\ part = "marks" => Marks!IInv /\ Marks!ReadsLatest /\ Marks!SnapshotExact

\* IcebergExport: the pin of export_iceberg keeps every file of the manifest it
\* cloned until it has been copied; a reader that follows a hint finds every
\* file it is led to, complete, at every step of export_to_iceberg and after a
\* crash; record_count and total-records are the numbers of rows copied; and the
\* latest version of every key of some committed prefix of the writes is among
\* them.
ExportWhole ==
    /\ part = "export" => /\ Export!ExportTypeOK /\ Export!ExportServed
                          /\ Export!HintLeadsToTable /\ Export!CountsAgree
    /\ part = "export two keys" => ExportTwoKeys!ExportServed /\ ExportTwoKeys!ExportCovers

============================================================================
