------------------------------ MODULE Primary ------------------------------
(***************************************************************************)
(* The read-write database as its subscribers see it: the history of       *)
(* writes, the memtables, and the committed version with its deletion      *)
(* vectors (engine/write_path.rs, engine/flush.rs,                         *)
(* engine/compaction/job.rs).                                              *)
(*                                                                         *)
(* Files and the algorithms over them are those of LsmFiles.  Snapshots    *)
(* looks into commits, installs and overlapping jobs; here a flush commits *)
(* and installs in one step and drops its memtable in a second one, and a  *)
(* compaction is one step.                                                 *)
(***************************************************************************)
EXTENDS LsmFiles, Sequences

CONSTANTS
    TableKeys,   \* primary keys, integers
    MaxSeq       \* bound: number of writes

PrimaryAssumption == TableKeys \subseteq Int /\ MaxSeq \in Nat

VARIABLES
    log,        \* the writes: the i-th has sequence number i
    dropped,    \* writes up to this one are in no memtable
    version,    \* the committed and installed version
    flushed,    \* of the flush in flight: writes it installed, or 0
    next_id     \* a file id never used before

primaryVars == <<log, dropped, version, flushed, next_id>>

Row(i) == [key |-> log[i].key, seq |-> i, op |-> log[i].op]

Rows(from, to) == {Row(i) : i \in from..to}

Deduped(rows) == UNION {Newest({r \in rows : r.key = k}) : k \in {r.key : r \in rows}}

Shown(rows) == {r \in rows : r.op = "put"}

\* snapshot_all_versions.
InMemory(rs) == {r \in Rows(dropped + 1, Len(log)) : r.seq <= rs}

\* point_lookup_at_seq: the row of a key as of a sequence number.
LookupAt(k, rs) ==
    LET mem == Newest({r \in InMemory(rs) : r.key = k})
    IN Shown(IF mem # {} THEN mem ELSE PointGet(version, k, rs))

\* The rows of the table after the first n writes.
Table(n) == Shown(Deduped(Rows(1, n)))

PrimaryInit ==
    /\ log = <<>> /\ dropped = 0 /\ flushed = 0 /\ next_id = 1
    /\ version = [snap |-> 0, files |-> {}]

\* A write carries its kind, and a delete the row its key had before it: the
\* lookup of the pre-image precedes the numbering of the write.
Write(k, op, pre) ==
    /\ Len(log) < MaxSeq
    /\ log' = Append(log, [key |-> k, op |-> op, pre |-> pre])
    /\ UNCHANGED <<dropped, version, flushed, next_id>>

FlushInstall ==
    /\ flushed = 0
    /\ \E upto \in dropped + 1..Len(log) :
         LET rows == Deduped(Rows(dropped + 1, upto))
             ks == {r.key : r \in rows}
             marks == [id \in {f.id : f \in version.files} |->
                         UNION {ResolveDv(f, ks) : f \in {g \in version.files : g.id = id}}]
             file == [id |-> next_id, level |-> 0, rows |-> rows, dv |-> {}]
         IN /\ version' = Apply(version, {file}, {}, marks)
            /\ flushed' = upto
    /\ next_id' = next_id + 1
    /\ UNCHANGED <<log, dropped>>

FlushDrop ==
    /\ flushed # 0
    /\ dropped' = flushed /\ flushed' = 0
    /\ UNCHANGED <<log, version, next_id>>

\* One compaction; "unread" is the part of the history that must stay in L0
\* for the subscribers (nothing in the code asks for it).
Compact(unread) ==
    \E l \in PickLevel(version, {}) :
        LET inputs == PickInputs(version, l)
            sources == inputs \cup PullIns(version, l, inputs)
            files == OutputFiles(MergeRows(sources, Len(log), l + 1), l + 1, next_id)
        IN /\ l = 0 => \A f \in inputs : \A r \in Live(f) : r.seq \notin unread
           /\ version' = Apply(version, files, {f.id : f \in sources}, <<>>)
           /\ next_id' = next_id + Cardinality(files)
           /\ UNCHANGED <<log, dropped, flushed>>

============================================================================
