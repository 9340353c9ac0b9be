----------------------------- MODULE ReadPath -----------------------------
(***************************************************************************)
(* Point lookups and range scans while writers, flushes and compactions    *)
(* run, with the row cache in between (engine/read_path.rs,                *)
(* engine/cache.rs, and the read side of engine/engine.rs, engine/flush.rs *)
(* and engine/compaction/job.rs).                                          *)
(*                                                                         *)
(* Files, lookups in a version, deletion vectors and the merge are those   *)
(* of LsmFiles.  A read holds a pin on the version it opened, so that all  *)
(* the files of that version are read in one step (Snapshots checks the    *)
(* pins).  A commit and its install are one step here for the same reason. *)
(*                                                                         *)
(* Inserting into the memtable and advancing visible_seq are one step: an  *)
(* entry above the read_seq of a reader is invisible to it.                *)
(***************************************************************************)
EXTENDS LsmFiles, Sequences

CONSTANTS
    TableKeys,    \* primary keys, integers
    Ops,          \* the kinds of write, a subset of {"put", "del"}
    Writers,      \* tasks that put and delete
    Lookups,      \* tasks that call point_lookup
    Scans,        \* tasks that call range_scan
    CacheOn,      \* is row_cache_capacity above zero?
    WriteFree,    \* steps of a read during which no write is applied
    FlushFree,    \* steps of a read during which no flush is installed
    MaxSeq        \* bound: number of writes

ReadAssumption ==
    /\ TableKeys \subseteq Int /\ Ops \subseteq {"put", "del"}
    /\ CacheOn \in BOOLEAN /\ MaxSeq \in Nat
    /\ WriteFree \cup FlushFree \subseteq
           {"mem", "cache", "gen", "files", "insert", "seq", "harvest"}

VARIABLES
    log,        \* the writes: the i-th has sequence number i
    acked,      \* the highest sequence number a caller was given back
    writers,    \* seq of the write whose cache invalidation is due, or 0
    dropped,    \* writes up to this one are in no memtable
    version,    \* the installed version
    flushed,    \* of the flush in flight: writes it installed, or 0
    merge,      \* the compaction in flight: [pc, removes, out]
    next_id,    \* a file id never used before
    cache,      \* key -> {} or the singleton of the cached row
    reads       \* the state of each lookup and scan

vars == <<log, acked, writers, dropped, version, flushed, merge, next_id, cache, reads>>

engineVars == <<log, acked, writers, dropped, version, flushed, merge, next_id>>

NoMerge == [pc |-> "idle", removes |-> {}, out |-> {}]

\* began: acked when the read was called.  fresh: the generation that the read
\* captured is still the current one.
NoRead == [pc |-> "idle", key |-> 0, began |-> 0, read_seq |-> 0, fresh |-> FALSE,
           files |-> {}, answer |-> {}]

----------------------------------------------------------------------------
Rows(from, to) == {[key |-> log[i].key, seq |-> i, op |-> log[i].op] : i \in from..to}

Deduped(rows) == UNION {Newest({r \in rows : r.key = k}) : k \in {r.key : r \in rows}}

Shown(rows) == {r \in rows : r.op = "put"}

\* MemtableManager::get and snapshot_entries: rows up to read_seq.
InMemory(rs) == {r \in Rows(dropped + 1, Len(log)) : r.seq <= rs}

AtNone(steps) == \A r \in Lookups \cup Scans : reads[r].pc \notin steps

\* Every invalidation advances the generation.
Bumped == [r \in Lookups \cup Scans |-> [reads[r] EXCEPT !.fresh = FALSE]]

----------------------------------------------------------------------------
Init ==
    /\ log = <<>> /\ acked = 0 /\ writers = [w \in Writers |-> 0]
    /\ dropped = 0 /\ version = [snap |-> 0, files |-> {}]
    /\ flushed = 0 /\ merge = NoMerge /\ next_id = 1
    /\ cache = [k \in TableKeys |-> {}]
    /\ reads = [r \in Lookups \cup Scans |-> NoRead]

(* Writers: under the WAL lock, and then the cache.                         *)

Write(w) ==
    /\ writers[w] = 0 /\ Len(log) < MaxSeq
    /\ AtNone(WriteFree)
    /\ \E k \in TableKeys, op \in Ops : log' = Append(log, [key |-> k, op |-> op])
    /\ writers' = [writers EXCEPT ![w] = Len(log')]
    /\ UNCHANGED <<acked, dropped, version, flushed, merge, next_id, cache, reads>>

Evicted(k) == [cache EXCEPT ![k] = {}]

Invalidate(w) ==
    /\ writers[w] # 0
    /\ cache' = Evicted(log[writers[w]].key)
    /\ reads' = Bumped
    /\ acked' = Max({acked, writers[w]})
    /\ writers' = [writers EXCEPT ![w] = 0]
    /\ UNCHANGED <<log, dropped, version, flushed, merge, next_id>>

(* A flush marks the older versions of its keys, installs, and then drops   *)
(* the memtable.                                                            *)

FlushInstall ==
    /\ flushed = 0 /\ AtNone(FlushFree)
    /\ \E upto \in dropped + 1..Len(log) :
         LET rows == Deduped(Rows(dropped + 1, upto))
             ks == {r.key : r \in rows}
             marks == [id \in {f.id : f \in version.files} |->
                         UNION {ResolveDv(f, ks) : f \in {g \in version.files : g.id = id}}]
             file == [id |-> next_id, level |-> 0, rows |-> rows, dv |-> {}]
         IN /\ version' = Apply(version, {file}, {}, marks)
            /\ flushed' = upto
    /\ next_id' = next_id + 1
    /\ UNCHANGED <<log, acked, writers, dropped, merge, cache, reads>>

FlushDrop ==
    /\ flushed # 0
    /\ dropped' = flushed /\ flushed' = 0
    /\ UNCHANGED <<log, acked, writers, version, merge, next_id, cache, reads>>

(* A compaction reads its sources with the visible sequence number of that  *)
(* moment, installs, and then clears the cache.                             *)

CompactMerge ==
    /\ merge.pc = "idle"
    /\ \E l \in PickLevel(version, {}) :
         LET inputs == PickInputs(version, l)
             sources == inputs \cup PullIns(version, l, inputs)
             files == OutputFiles(MergeRows(sources, Len(log), l + 1), l + 1, next_id)
         IN /\ merge' = [pc |-> "install", removes |-> {f.id : f \in sources}, out |-> files]
            /\ next_id' = next_id + Cardinality(files)
    /\ UNCHANGED <<log, acked, writers, dropped, version, flushed, cache, reads>>

CompactInstall ==
    /\ merge.pc = "install"
    /\ version' = Apply(version, merge.out, merge.removes, <<>>)
    /\ merge' = [NoMerge EXCEPT !.pc = "clear"]
    /\ UNCHANGED <<log, acked, writers, dropped, flushed, next_id, cache, reads>>

CompactClear ==
    /\ merge.pc = "clear"
    /\ cache' = [k \in TableKeys |-> {}]
    /\ reads' = Bumped
    /\ merge' = NoMerge
    /\ UNCHANGED <<log, acked, writers, dropped, version, flushed, next_id>>

(* point_lookup: read_seq, memtables, cache, generation, files, cache.      *)

Returned(r, rows) == [reads EXCEPT ![r] = [NoRead EXCEPT !.pc = "done", !.key = reads[r].key,
                                              !.began = reads[r].began, !.answer = Shown(rows)]]

Lookup(r, k) ==
    /\ reads[r].pc \in {"idle", "done"}
    /\ reads' = [reads EXCEPT ![r] = [NoRead EXCEPT !.pc = "mem", !.key = k,
                                         !.began = acked, !.read_seq = Len(log)]]
    /\ UNCHANGED <<engineVars, cache>>

ProbeMemtables(r) ==
    LET hit == Newest({x \in InMemory(reads[r].read_seq) : x.key = reads[r].key})
    IN /\ reads[r].pc = "mem"
       /\ reads' = IF hit # {} THEN Returned(r, hit)
                   ELSE [reads EXCEPT ![r].pc = IF CacheOn THEN "cache" ELSE "files"]
       /\ UNCHANGED <<engineVars, cache>>

ProbeCache(r) ==
    LET hit == cache[reads[r].key]
    IN /\ reads[r].pc = "cache"
       /\ reads' = IF hit # {} THEN Returned(r, hit) ELSE [reads EXCEPT ![r].pc = "gen"]
       /\ UNCHANGED <<engineVars, cache>>

SnapshotGeneration(r) ==
    /\ reads[r].pc = "gen"
    /\ reads' = [reads EXCEPT ![r].pc = "files", ![r].fresh = TRUE]
    /\ UNCHANGED <<engineVars, cache>>

\* The rows of the answer stay in "files" until the cache has taken them.
ReadFiles(r) ==
    LET hit == PointGet(version, reads[r].key, reads[r].read_seq)
    IN /\ reads[r].pc = "files"
       /\ reads' = IF CacheOn /\ hit # {}
                   THEN [reads EXCEPT ![r].pc = "insert", ![r].files = hit]
                   ELSE Returned(r, hit)
       /\ UNCHANGED <<engineVars, cache>>

InsertAlways(r) == TRUE  \* mutant: unconditional insert
MayInsert(r) == reads[r].fresh

InsertIfFresh(r) ==
    /\ reads[r].pc = "insert"
    /\ cache' = IF MayInsert(r) THEN [cache EXCEPT ![reads[r].key] = reads[r].files] ELSE cache
    /\ reads' = Returned(r, reads[r].files)
    /\ UNCHANGED engineVars

(* range_scan over the whole key range: pin, read_seq, memtables and files. *)

ScanPin(r) ==
    /\ reads[r].pc \in {"idle", "done"}
    /\ reads' = [reads EXCEPT ![r] = [NoRead EXCEPT !.pc = "seq", !.began = acked,
                                         !.files = version.files]]
    /\ UNCHANGED <<engineVars, cache>>

ScanReadSeq(r) ==
    /\ reads[r].pc = "seq"
    /\ reads' = [reads EXCEPT ![r].pc = "harvest", ![r].read_seq = Len(log)]
    /\ UNCHANGED <<engineVars, cache>>

LivePutsOnly(rows) == Deduped(Shown(rows))  \* mutant: tombstones go before the sort
ScanMerge(rows) == Shown(Deduped(rows))

ScanHarvest(r) ==
    LET mem == Deduped(InMemory(reads[r].read_seq))
        files == ScanRows([snap |-> 0, files |-> reads[r].files], reads[r].read_seq)
    IN /\ reads[r].pc = "harvest"
       /\ reads' = Returned(r, ScanMerge(mem \cup files))
       /\ UNCHANGED <<engineVars, cache>>

PointLookup(r) ==
    \/ \E k \in TableKeys : Lookup(r, k)
    \/ ProbeMemtables(r) \/ ProbeCache(r) \/ SnapshotGeneration(r)
    \/ ReadFiles(r) \/ InsertIfFresh(r)

RangeScan(r) == ScanPin(r) \/ ScanReadSeq(r) \/ ScanHarvest(r)

Next ==
    \/ \E w \in Writers : Write(w) \/ Invalidate(w)
    \/ FlushInstall \/ FlushDrop
    \/ CompactMerge \/ CompactInstall \/ CompactClear
    \/ \E r \in Lookups : PointLookup(r)
    \/ \E r \in Scans : RangeScan(r)

Spec == Init /\ [][Next]_vars

----------------------------------------------------------------------------
\* The rows of the table after the first n writes.
Table(n) == Shown(Deduped(Rows(1, n)))

\* A lookup returns the row its key had at some moment of the call: at the
\* last write acknowledged before it or at a later one (point_lookup).
LookupCurrent ==
    \A r \in Lookups : reads[r].pc = "done" =>
        \E n \in reads[r].began..Len(log) :
            reads[r].answer = {x \in Table(n) : x.key = reads[r].key}

\* A scan returns the whole table as it was at one moment of the call
\* (range_scan): no row missing, none twice, none that was deleted.
ScanCurrent ==
    \A r \in Scans : reads[r].pc = "done" =>
        \E n \in reads[r].began..Len(log) : reads[r].answer = Table(n)

============================================================================
