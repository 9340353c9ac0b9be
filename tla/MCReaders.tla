----------------------------- MODULE MCReaders -----------------------------
(***************************************************************************)
(* ReadPath and ChangeFeed for TLC: reading a table, and following it,     *)
(* while it is written.  A behaviour is one of the instances below, named  *)
(* by part.                                                                *)
(***************************************************************************)
EXTENDS Integers

VARIABLES
    part,
    log, dropped, version, flushed, next_id,        \* of both
    acked, writers, merge, cache, reads,            \* of ReadPath
    deletes, cursor, feed                           \* of ChangeFeed

pathVars == <<acked, writers, merge, cache, reads>>
feedVars == <<deletes, cursor, feed>>
vars == <<part, log, dropped, version, flushed, next_id, pathVars, feedVars>>

\* Lookups through the row cache: no write is applied while one runs.
Lookup == INSTANCE ReadPath WITH
    NumLevels <- 1, L0Trigger <- 1, L0Slowdown <- 2, LevelTarget <- 1, MaxInputRows <- 1,
    ChunkRows <- 1, TableKeys <- {1}, Ops <- {"put", "del"}, Writers <- {"w1"},
    Lookups <- {"l1"}, Scans <- {}, CacheOn <- TRUE,
    WriteFree <- {"mem", "cache", "gen", "files", "insert"}, FlushFree <- {}, MaxSeq <- 3

\* The same with writes while the files are read and the row is cached.
CacheRace == INSTANCE ReadPath WITH
    NumLevels <- 1, L0Trigger <- 1, L0Slowdown <- 2, LevelTarget <- 1, MaxInputRows <- 1,
    ChunkRows <- 1, TableKeys <- {1}, Ops <- {"put", "del"}, Writers <- {"w1"},
    Lookups <- {"l1"}, Scans <- {}, CacheOn <- TRUE,
    WriteFree <- {"mem", "cache", "gen"}, FlushFree <- {"files"}, MaxSeq <- 3

\* Range scans of two keys: no flush between read_seq and the memtables.
Scan == INSTANCE ReadPath WITH
    NumLevels <- 1, L0Trigger <- 1, L0Slowdown <- 2, LevelTarget <- 2, MaxInputRows <- 1,
    ChunkRows <- 1, TableKeys <- {1, 2}, Ops <- {"put", "del"}, Writers <- {"w1"},
    Lookups <- {}, Scans <- {"s1"}, CacheOn <- FALSE,
    WriteFree <- {}, FlushFree <- {"seq", "harvest"}, MaxSeq <- 3

\* A subscriber that is never overtaken by a compaction or by a flush.
Subscriber == INSTANCE ChangeFeed WITH
    NumLevels <- 1, L0Trigger <- 2, L0Slowdown <- 4, LevelTarget <- 4, MaxInputRows <- 4,
    ChunkRows <- 2, TableKeys <- {1, 2}, MaxSeq <- 3, Deleters <- {"d1"}, MaxRows <- 1,
    Retained <- TRUE, ScanHeld <- TRUE, LookupHeld <- TRUE

\* A subscriber that is.
Overtaken == INSTANCE ChangeFeed WITH
    NumLevels <- 1, L0Trigger <- 2, L0Slowdown <- 4, LevelTarget <- 4, MaxInputRows <- 4,
    ChunkRows <- 2, TableKeys <- {1, 2}, MaxSeq <- 3, Deleters <- {"d1"}, MaxRows <- 2,
    Retained <- FALSE, ScanHeld <- FALSE, LookupHeld <- TRUE

ASSUME ReadersAssumption ==
    /\ Lookup!LevelsAssumption /\ Lookup!ReadAssumption
    /\ CacheRace!LevelsAssumption /\ CacheRace!ReadAssumption
    /\ Scan!LevelsAssumption /\ Scan!ReadAssumption
    /\ Subscriber!LevelsAssumption /\ Subscriber!PrimaryAssumption /\ Subscriber!FeedAssumption
    /\ Overtaken!LevelsAssumption /\ Overtaken!PrimaryAssumption /\ Overtaken!FeedAssumption

NoPath == acked = 0 /\ writers = 0 /\ merge = 0 /\ cache = 0 /\ reads = 0
NoFeed == deletes = 0 /\ cursor = 0 /\ feed = 0

Init ==
    \/ /\ \/ part = "lookup" /\ Lookup!Init
          \/ part = "cache race" /\ CacheRace!Init
          \/ part = "scan" /\ Scan!Init
       /\ NoFeed
    \/ /\ \/ part = "subscriber" /\ Subscriber!Init
          \/ part = "overtaken" /\ Overtaken!Init
       /\ NoPath

Next ==
    /\ \/ /\ \/ part = "lookup" /\ Lookup!Next
             \/ part = "cache race" /\ CacheRace!Next
             \/ part = "scan" /\ Scan!Next
          /\ UNCHANGED feedVars
       \/ /\ \/ part = "subscriber" /\ Subscriber!Next
             \/ part = "overtaken" /\ Overtaken!Next
          /\ UNCHANGED pathVars
    /\ UNCHANGED part

Spec == Init /\ [][Next]_vars

----------------------------------------------------------------------------
\* ReadPath: a lookup answers with a version of the row that was the last one
\* at some point between its call and its return (point_lookup, row cache).
LookupCurrent ==
    /\ part = "lookup" => Lookup!LookupCurrent
    /\ part = "cache race" => CacheRace!LookupCurrent

\* ReadPath: a scan answers with the table at one point between its call and
\* its return (range_scan).
ScanCurrent == part = "scan" => Scan!ScanCurrent

\* ChangeFeed: no write up to since_seq is missing from the feed, unless a
\* later write of its key took its place (next_batch), and records come in the
\* order of their sequence numbers, also where flushes and compactions overtake
\* the cursor.
FeedExact ==
    /\ part = "subscriber" => Subscriber!TypeOK /\ Subscriber!FeedComplete /\ Subscriber!FeedOrdered
    /\ part = "overtaken" => Overtaken!FeedOrdered

\* ChangeFeed: the record of a delete carries the row that was live before it.
PreImagesExact ==
    /\ part = "subscriber" => Subscriber!PreImagesExact
    /\ part = "overtaken" => Overtaken!PreImagesExact

============================================================================
