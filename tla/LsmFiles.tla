----------------------------- MODULE LsmFiles -----------------------------
(***************************************************************************)
(* The data files of the LSM tree and the pure algorithms over them: which *)
(* row a version answers a lookup with, what the compaction picker picks,  *)
(* what a merge keeps, which positions a flush marks deleted and how a     *)
(* transaction changes a manifest (iceberg/version.rs, iceberg/manifest.rs,*)
(* iceberg/catalog.rs, engine/compaction/picker.rs,                        *)
(* engine/compaction/iterator.rs, engine/compaction/job.rs,                *)
(* engine/dv_resolve.rs, parquet/reader.rs).                               *)
(*                                                                         *)
(* A row is [key, seq, op] with op "put" or "del": a sequence number       *)
(* stands for the value written under it.  A file is [id, level, rows, dv] *)
(* with dv the rows its deletion vector marks, and a version is            *)
(* [snap, files].  Keys are integers, so key ranges mean what they mean in *)
(* the code.  Sizes in bytes are counted in rows.                          *)
(***************************************************************************)
EXTENDS Integers, FiniteSets, FiniteSetsExt

CONSTANTS
    NumLevels,     \* length of level_target_bytes
    L0Trigger,     \* l0_compaction_trigger
    L0Slowdown,    \* l0_slowdown_trigger
    LevelTarget,   \* level_target_bytes of every level, in rows
    MaxInputRows,  \* max_compaction_bytes and max_compaction_input_rows, in rows
    ChunkRows      \* TARGET_OUTPUT_FILE_BYTES, in rows

ASSUME LevelsAssumption ==
    /\ NumLevels \in Nat \ {0} /\ L0Trigger \in Nat \ {0}
    /\ L0Slowdown \in Nat /\ L0Slowdown >= L0Trigger
    /\ LevelTarget \in Nat \ {0}
    /\ MaxInputRows \in Nat \ {0} /\ ChunkRows \in Nat \ {0}

\* The levels are 0..NumLevels + 1: L0, those that have a target and the one
\* below them, which the picker never compacts.

Keys(f) == {r.key : r \in f.rows}
KeyMin(f) == Min(Keys(f))
KeyMax(f) == Max(Keys(f))
Seqs(f) == {r.seq : r \in f.rows}
SeqMin(f) == Min(Seqs(f))
SeqMax(f) == Max(Seqs(f))

\* What a reader that applies the deletion vector sees of a file.
Live(f) == f.rows \ f.dv

FilesAt(v, l) == {f \in v.files : f.level = l}

Newest(rows) == {r \in rows : \A s \in rows : s.seq <= r.seq}

----------------------------------------------------------------------------
(* Lookup in a version.  A result is {} or the singleton of the row.       *)

FileGet(f, k, rs) == Newest({r \in Live(f) : r.key = k /\ r.seq <= rs})

\* L0 is probed in the order of to_version: seq_max descending, then commit order.
ProbedBefore(f, g) ==
    \/ SeqMax(f) > SeqMax(g)
    \/ SeqMax(f) = SeqMax(g) /\ f.id < g.id

L0Get(v, k, rs) ==
    LET hits == {f \in FilesAt(v, 0) : FileGet(f, k, rs) # {}}
    IN UNION {FileGet(f, k, rs) :
                 f \in {g \in hits : \A h \in hits \ {g} : ProbedBefore(g, h)}}

\* Levels below L0 are sorted by key_min and binary-searched for one file.
SortedBefore(f, g) ==
    \/ KeyMin(f) < KeyMin(g)
    \/ KeyMin(f) = KeyMin(g) /\ f.id < g.id

FindFileForKey(v, l, k) ==
    LET starts == {f \in FilesAt(v, l) : KeyMin(f) <= k}
    IN {f \in starts : /\ \A g \in starts \ {f} : SortedBefore(g, f)
                       /\ k <= KeyMax(f)}

LevelGet(v, l, k, rs) ==
    IF l = 0 THEN L0Get(v, k, rs)
             ELSE UNION {FileGet(f, k, rs) : f \in FindFileForKey(v, l, k)}

PointGet(v, k, rs) ==
    LET hit == {l \in 0..NumLevels + 1 : LevelGet(v, l, k, rs) # {}}
    IN IF hit = {} THEN {} ELSE LevelGet(v, Min(hit), k, rs)

\* Every row of every file that a scan at rs harvests.
ScanRows(v, rs) ==
    UNION {UNION {FileGet(f, k, rs) : k \in Keys(f)} : f \in v.files}

----------------------------------------------------------------------------
(* The compaction picker.                                                  *)

LevelIsFree(l, busy) == l \notin busy /\ l + 1 \notin busy

LevelRows(v, l) == MapThenSumSet(LAMBDA f : Cardinality(f.rows), FilesAt(v, l))

\* The scores count / trigger and bytes / target over their common denominator.
Score(v, l) == IF l = 0 THEN Cardinality(FilesAt(v, 0)) * LevelTarget
                        ELSE LevelRows(v, l) * L0Trigger

\* The level to compact: a set with at most one element.
PickLevel(v, busy) ==
    LET free == {l \in 0..NumLevels : LevelIsFree(l, busy)}
        top == {l \in free : \A m \in free : /\ Score(v, l) >= Score(v, m)
                                             /\ Score(v, l) = Score(v, m) => l <= m}
    IN IF 0 \in free /\ Cardinality(FilesAt(v, 0)) >= L0Slowdown
       THEN {0}
       ELSE {l \in top : Score(v, l) >= L0Trigger * LevelTarget}

\* Inputs are taken oldest first at L0 and by key below it.
TakenBefore(l, f, g) ==
    IF l = 0 THEN \/ SeqMin(f) < SeqMin(g)
                  \/ SeqMin(f) = SeqMin(g) /\ ProbedBefore(f, g)
             ELSE SortedBefore(f, g)

\* The longest prefix of the level within the cap, and at least one file.
PickInputs(v, l) ==
    LET files == FilesAt(v, l)
        UpTo(f) == {f} \cup {g \in files : TakenBefore(l, g, f)}
        fits == {f \in files :
                   \/ UpTo(f) = {f}
                   \/ MapThenSumSet(LAMBDA g : Cardinality(g.rows), UpTo(f)) <= MaxInputRows}
    IN UNION {UpTo(f) : f \in fits}

NoPullIns(v, l, inputs) == {}  \* mutant: the output level is left alone

\* The output-level files that meet the union key range of the inputs.
PullIns(v, l, inputs) ==
    LET lo == Min({KeyMin(f) : f \in inputs})
        hi == Max({KeyMax(f) : f \in inputs})
    IN {g \in FilesAt(v, l + 1) : KeyMin(g) <= hi /\ KeyMax(g) >= lo}

----------------------------------------------------------------------------
(* The merge.                                                              *)

DropTombstonesEarly(out) == out >= NumLevels  \* mutant: off by one
ShouldDropTombstones(out) == out > NumLevels

\* Mutant: the tombstone at rs itself is dropped too.
MergeDropsLast(sources, rs, out) ==
    LET all == UNION {Live(f) : f \in sources}
        Latest(r) == \A s \in all : s.key = r.key => s.seq <= r.seq
    IN {r \in all : IF Latest(r) THEN ~(ShouldDropTombstones(out) /\ r.op = "del")
                                 ELSE r.seq >= rs}

\* What CompactionIterator yields for the live rows of the sources.
MergeRows(sources, rs, out) ==
    LET all == UNION {Live(f) : f \in sources}
        Latest(r) == \A s \in all : s.key = r.key => s.seq <= r.seq
    IN {r \in all :
          IF Latest(r)
          THEN ~(ShouldDropTombstones(out) /\ r.op = "del" /\ r.seq < rs)
          ELSE r.seq >= rs}

\* The output files: rows in key order, cut between different keys once a
\* file is full.  Ids are handed out from "id" on.
OutputFiles(rows, out, id) ==
    LET Chunk(r) == Cardinality({s \in rows : s.key < r.key}) \div ChunkRows
    IN {[id |-> id + i, level |-> out, rows |-> {r \in rows : Chunk(r) = i}, dv |-> {}]
           : i \in {Chunk(r) : r \in rows}}

----------------------------------------------------------------------------
(* Deletion vectors and manifests.                                         *)

\* The rows of a file that a flush of the keys ks has to mark: every version
\* of every key, less what the file's vector already covers.
ResolveDv(f, ks) == {r \in f.rows : r.key \in ks} \ f.dv

\* The vector of a file, united with the marks a transaction has for it.
Marked(f, marks) == IF f.id \in DOMAIN marks THEN f.dv \cup marks[f.id] ELSE f.dv

\* Mutant: a file that has a deletion vector is carried over.
CarryMarked(m, removes) == {f \in m.files : f.id \notin removes \/ f.dv # {}}

Remaining(m, removes) == {f \in m.files : f.id \notin removes}

\* A manifest after a transaction: removed files go, marks (file id -> rows)
\* are added to the vectors of the files still there, and added files come
\* with no vector.  A mark for a file that is not there is ignored.
Apply(m, adds, removes, marks) ==
    [snap |-> m.snap + 1,
     files |-> {[f EXCEPT !.dv = Marked(f, marks)] : f \in Remaining(m, removes)} \cup adds]

============================================================================
