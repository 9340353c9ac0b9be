------------------------------ MODULE Catalog ------------------------------
(***************************************************************************)
(* The catalog's commit, open and refresh on a file system that loses what *)
(* was not synced (iceberg/catalog.rs, iceberg/manifest.rs).               *)
(*                                                                         *)
(* A commit writes the deletion vectors of its transaction as puffin       *)
(* files, then the manifest v{N}, and moves version-hint.text to N.  Its   *)
(* steps are the awaits of the code; any of them may fail, and power may   *)
(* fail between any two.  The mutexes of the catalog are held for the      *)
(* whole commit, so there is one commit at a time.  Data files are synced  *)
(* by the flush or compaction before it commits and are numbers here.      *)
(* A second process follows the hint with refresh (read-only replicas).    *)
(***************************************************************************)
EXTENDS Integers, FiniteSets

CONSTANTS
    RowsPerFile,    \* rows of a data file
    MaxFiles,       \* bound: data files
    MaxSnapshots,   \* bound: snapshot ids
    MaxFaults,      \* bound: failed commits
    MaxCrash,       \* bound: crashes
    Refreshers,     \* calls of refresh in the reading process
    CrashInFirst,   \* may power fail before the first commit is done
    BaseSyncFails   \* may the sync of the base directory fail

ASSUME CatalogAssumption ==
    /\ {RowsPerFile, MaxFiles, MaxSnapshots, MaxFaults, MaxCrash} \subseteq Nat
    /\ {CrashInFirst, BaseSyncFails} \subseteq BOOLEAN

VARIABLES
    metadata,   \* the files metadata/v{N}: [data, synced, linked, m]
    puffins,    \* the puffin files of a data file and a snapshot: [data, synced, linked, marks]
    hint,       \* version-hint.text: [now, since], 0 for no file
    tmp,        \* is version-hint.text.tmp synced
    mem,        \* the open catalog: [state, current, next]
    job,        \* the commit: [pc, adds, removes, dvs, todo, written, m]
    files,      \* data files written so far
    truth,      \* history: the tables the code may hold, by what was acknowledged
    replica,    \* the reading process: [shown, calls]
    bad         \* faults and crashes so far

vars == <<metadata, puffins, hint, tmp, mem, job, files, truth, replica, bad>>

Positions == 1 .. RowsPerFile
Snapshots == 1 .. MaxSnapshots

NoPuffin == [data |-> "none", synced |-> FALSE, linked |-> FALSE, marks |-> {}]

\* Manifest::empty.
Empty == [id |-> 0, parent |-> 0, seq |-> 0, nextRow |-> 0, entries |-> {}]

NoManifest == [data |-> "none", synced |-> FALSE, linked |-> FALSE, m |-> Empty]

Idle == [pc |-> "idle", adds |-> {}, removes |-> {}, dvs |-> <<>>, todo |-> {}, written |-> {}, m |-> Empty]

Init ==
    /\ metadata = [v \in Snapshots |-> NoManifest]
    /\ puffins = [p \in (1 .. MaxFiles) \X Snapshots |-> NoPuffin]
    /\ hint = [now |-> 0, since |-> {0}] /\ tmp = FALSE
    /\ mem = [state |-> "open", current |-> Empty, next |-> 1]
    /\ job = Idle /\ files = 0
    /\ truth = {[f \in {} |-> {}]}
    /\ replica = [shown |-> 0, calls |-> [r \in Refreshers |-> [pc |-> "idle", ver |-> 0]]]
    /\ bad = [faults |-> 0, crashes |-> 0]

----------------------------------------------------------------------------
\* What a table holds: the marked rows of each of its files.

Unreadable == {0}

Marks(e) ==
    IF e.dv = 0 THEN {}
    ELSE IF puffins[<<e.file, e.dv>>].data = "whole" THEN puffins[<<e.file, e.dv>>].marks
    ELSE Unreadable

Table(m) ==
    [f \in {e.file : e \in m.entries} |-> Marks(CHOOSE e \in m.entries : e.file = f)]

Entry(m, f) == {e \in m.entries : e.file = f}

\* What a transaction makes of a table.
Effect(t, adds, removes, dvs) ==
    [f \in (DOMAIN t \ removes) \cup adds |->
        IF f \in adds THEN {} ELSE t[f] \cup (IF f \in DOMAIN dvs THEN dvs[f] ELSE {})]

----------------------------------------------------------------------------
\* The commit.

\* Flushes add a file and mark rows of files they know, of which a compaction
\* may have removed some since; compactions replace files; add_column changes
\* nothing.
Begin ==
    /\ mem.state = "open" /\ job.pc = "idle" /\ mem.next \in Snapshots
    /\ \E adds \in {{}, {files + 1}}, removes \in SUBSET {e.file : e \in mem.current.entries},
          marked \in {{}} \cup {{f} : f \in 1 .. files} :
       \E dvs \in [marked -> (SUBSET Positions) \ {{}}] :
         /\ adds = {} => marked = {}
         /\ removes # {} => marked = {}
         /\ files + Cardinality(adds) <= MaxFiles
         /\ job' = [pc |-> "puffins", adds |-> adds, removes |-> removes, dvs |-> dvs,
                    todo |-> marked, written |-> {}, m |-> Empty]
         /\ files' = files + Cardinality(adds)
    /\ UNCHANGED <<metadata, puffins, hint, tmp, mem, truth, replica, bad>>

\* The marks the new puffin of f holds: those of the one in the manifest too.
MergedMarks(f) ==
    job.dvs[f] \cup UNION {Marks(e) : e \in Entry(mem.current, f)}

WritePuffin ==
    /\ job.pc = "puffins"
    /\ \E f \in job.todo :
         /\ Unreadable \cap MergedMarks(f) = {}
         /\ puffins' = [puffins EXCEPT ![<<f, mem.next>>] =
                [data |-> "whole", synced |-> FALSE, linked |-> @.linked, marks |-> MergedMarks(f)]]
         /\ job' = [job EXCEPT !.pc = "sync_puffin", !.written = @ \cup {f}, !.todo = @ \ {f}]
    /\ UNCHANGED <<metadata, hint, tmp, mem, files, truth, replica, bad>>

\* The file is synced, then its directory.
SyncPuffin ==
    /\ job.pc = "sync_puffin"
    /\ puffins' = [p \in DOMAIN puffins |->
            IF p[1] \in job.written /\ p[2] = mem.next
            THEN [puffins[p] EXCEPT !.synced = TRUE, !.linked = TRUE] ELSE puffins[p]]
    /\ job' = [job EXCEPT !.pc = "puffins"]
    /\ UNCHANGED <<metadata, hint, tmp, mem, files, truth, replica, bad>>

\* Manifest::apply.  A vector for a file the manifest does not have is dropped.
Apply(m) ==
    [id |-> mem.next, parent |-> m.id, seq |-> m.seq + 1,
     nextRow |-> m.nextRow + RowsPerFile * Cardinality(job.adds),
     entries |-> {[e EXCEPT !.dv = IF e.file \in DOMAIN job.dvs THEN mem.next ELSE @] :
                      e \in {x \in m.entries : x.file \notin job.removes}}
                 \cup {[file |-> f, firstRow |-> m.nextRow, dv |-> 0] : f \in job.adds}]

WriteManifest ==
    /\ job.pc = "puffins" /\ job.todo = {}
    /\ job' = [job EXCEPT !.pc = "sync_manifest", !.m = Apply(mem.current)]
    /\ metadata' = [metadata EXCEPT ![mem.next] =
            [data |-> "whole", synced |-> FALSE, linked |-> @.linked, m |-> job'.m]]
    /\ UNCHANGED <<puffins, hint, tmp, mem, files, truth, replica, bad>>

SyncManifest ==
    /\ job.pc = "sync_manifest"
    /\ metadata' = [metadata EXCEPT ![mem.next].synced = TRUE]
    /\ job' = [job EXCEPT !.pc = "sync_metadata"]
    /\ UNCHANGED <<puffins, hint, tmp, mem, files, truth, replica, bad>>

DirUnsynced ==  \* mutant: the metadata directory is not synced
    /\ job.pc = "sync_metadata"
    /\ job' = [job EXCEPT !.pc = "write_hint"]
    /\ UNCHANGED <<metadata, puffins, hint, tmp, mem, files, truth, replica, bad>>
SyncMetadata ==
    /\ job.pc = "sync_metadata"
    /\ metadata' = [metadata EXCEPT ![mem.next].linked = TRUE]
    /\ job' = [job EXCEPT !.pc = "write_hint"]
    /\ UNCHANGED <<puffins, hint, tmp, mem, files, truth, replica, bad>>

WriteHint ==
    /\ job.pc = "write_hint"
    /\ tmp' = FALSE
    /\ job' = [job EXCEPT !.pc = "sync_hint"]
    /\ UNCHANGED <<metadata, puffins, hint, mem, files, truth, replica, bad>>

SyncHint ==
    /\ job.pc = "sync_hint"
    /\ tmp' = TRUE
    /\ job' = [job EXCEPT !.pc = "rename"]
    /\ UNCHANGED <<metadata, puffins, hint, mem, files, truth, replica, bad>>

\* From here on the new table may be found after a crash.  An unsynced
\* temporary file could come back empty: -1.
RenameHint ==
    /\ job.pc = "rename"
    /\ hint' = [now |-> mem.next,
                since |-> hint.since \cup {mem.next} \cup (IF tmp THEN {} ELSE {-1})]
    /\ truth' = truth \cup {Effect(t, job.adds, job.removes, job.dvs) : t \in {Table(mem.current)}}
    /\ job' = [job EXCEPT !.pc = "sync_base"]
    /\ UNCHANGED <<metadata, puffins, tmp, mem, files, replica, bad>>

\* The commit returns Ok: memory follows, and only the new table will do.
Ack ==
    /\ job.pc = "sync_base"
    /\ hint' = [hint EXCEPT !.since = {hint.now}]
    /\ mem' = [mem EXCEPT !.current = job.m, !.next = @ + 1]
    /\ truth' = {Effect(Table(mem.current), job.adds, job.removes, job.dvs)}
    /\ job' = Idle
    /\ UNCHANGED <<metadata, puffins, tmp, files, replica, bad>>

FailCleansAll ==  \* mutant: a failed commit removes every puffin of the files it touched
    /\ job.pc # "idle" /\ bad.faults < MaxFaults
    /\ job.pc = "sync_base" => BaseSyncFails
    /\ puffins' = [p \in DOMAIN puffins |-> IF p[1] \in job.written
                                            THEN NoPuffin ELSE puffins[p]]
    /\ job' = Idle
    /\ bad' = [bad EXCEPT !.faults = @ + 1]
    /\ UNCHANGED <<metadata, hint, tmp, mem, files, truth, replica>>
\* A call fails.  Within the loop over the vectors the commit returns at once;
\* after it, it removes the puffin files it wrote.
Fail ==
    /\ job.pc # "idle" /\ bad.faults < MaxFaults
    /\ job.pc = "sync_base" => BaseSyncFails
    /\ puffins' = IF job.pc = "sync_puffin" \/ job.todo # {} THEN puffins
                  ELSE [p \in DOMAIN puffins |-> IF p[1] \in job.written /\ p[2] = mem.next
                                                 THEN NoPuffin ELSE puffins[p]]
    /\ job' = Idle
    /\ bad' = [bad EXCEPT !.faults = @ + 1]
    /\ UNCHANGED <<metadata, hint, tmp, mem, files, truth, replica>>

----------------------------------------------------------------------------
\* Power failure and reopening.

\* What a file may be after a crash.
Survivors(f) ==
    {f} \cup (IF f.synced THEN {} ELSE {[f EXCEPT !.data = "part"]})
        \cup (IF f.linked THEN {} ELSE {[f EXCEPT !.data = "none"]})

\* Files that were never written are left out, to keep the choice small.
AfterCrash(fs) ==
    LET loose == {x \in DOMAIN fs : fs[x].data # "none" /\ ~(fs[x].synced /\ fs[x].linked)}
    IN  {[x \in DOMAIN fs |-> IF x \in loose THEN [c[x] EXCEPT !.synced = TRUE, !.linked = TRUE] ELSE fs[x]] :
            c \in {g \in [loose -> UNION {Survivors(fs[x]) : x \in loose}] :
                      \A x \in loose : g[x] \in Survivors(fs[x])}}

Crash ==
    /\ mem.state = "open" /\ bad.crashes < MaxCrash
    /\ CrashInFirst \/ mem.current.id # 0 \/ \A v \in Snapshots : metadata[v].data = "none"
    /\ metadata' \in AfterCrash(metadata) /\ puffins' \in AfterCrash(puffins)
    /\ \E h \in hint.since : hint' = [now |-> h, since |-> {h}]
    /\ tmp' = FALSE
    /\ mem' = [state |-> "closed", current |-> Empty, next |-> 1]
    /\ job' = Idle
    /\ replica' = [shown |-> 0, calls |-> [r \in Refreshers |-> [pc |-> "idle", ver |-> 0]]]
    /\ bad' = [bad EXCEPT !.crashes = @ + 1]
    /\ UNCHANGED <<files, truth>>

\* IcebergCatalog::open: the hint and its manifest must be readable; without a
\* hint there must be no manifest.
Open ==
    /\ mem.state = "closed"
    /\ mem' = CASE hint.now \in Snapshots /\ metadata[hint.now].data = "whole" ->
                     [state |-> "open", current |-> metadata[hint.now].m, next |-> hint.now + 1]
                [] hint.now = 0 /\ \A v \in Snapshots : metadata[v].data = "none" ->
                     [state |-> "open", current |-> Empty, next |-> 1]
                [] OTHER -> [mem EXCEPT !.state = "refused"]
    /\ truth' = IF mem'.state = "open" THEN truth \cap {Table(mem'.current)} ELSE truth
    /\ UNCHANGED <<metadata, puffins, hint, tmp, job, files, replica, bad>>

----------------------------------------------------------------------------
\* refresh, in the reading process.

RefreshHint(r) ==
    /\ replica.calls[r].pc = "idle" /\ hint.now \in Snapshots /\ mem.state = "open"
    /\ replica' = [replica EXCEPT !.calls[r] = [pc |-> "load", ver |-> hint.now]]
    /\ UNCHANGED <<metadata, puffins, hint, tmp, mem, job, files, truth, bad>>

\* The manifest is decoded, every file it names must exist, the version is
\* installed.
RefreshLoad(r) ==
    /\ replica.calls[r].pc = "load"
    /\ LET v == replica.calls[r].ver
           ok == /\ metadata[v].data = "whole"
                 /\ \A e \in metadata[v].m.entries : e.dv # 0 => puffins[<<e.file, e.dv>>].data # "none"
       IN  replica' = [shown |-> IF ok THEN v ELSE replica.shown,
                       calls |-> [replica.calls EXCEPT ![r].pc = IF ok THEN "idle" ELSE "failed"]]
    /\ UNCHANGED <<metadata, puffins, hint, tmp, mem, job, files, truth, bad>>

Next ==
    \/ Begin \/ WritePuffin \/ SyncPuffin \/ WriteManifest \/ SyncManifest \/ SyncMetadata
    \/ WriteHint \/ SyncHint \/ RenameHint \/ Ack \/ Fail
    \/ Crash \/ Open
    \/ \E r \in Refreshers : RefreshHint(r) \/ RefreshLoad(r)

Spec == Init /\ [][Next]_vars

----------------------------------------------------------------------------
\* The types of the variables; the id a commit would take is always above the
\* one in memory, which is above its parent.
TypeOK ==
    /\ mem.state \in {"open", "closed", "refused"}
    /\ mem.current.id \in 0 .. MaxSnapshots /\ mem.next = mem.current.id + 1
    /\ mem.current.id > 0 => mem.current.parent < mem.current.id
    /\ files \in 0 .. MaxFiles
    /\ hint.now \in {-1, 0} \cup Snapshots /\ hint.now \in hint.since
    /\ replica.shown \in 0 .. MaxSnapshots

\* A crash at any point of any commit leaves a catalog that open() accepts:
\* the hint never leads to a manifest that is missing or torn.
OpenSucceeds == mem.state # "refused"

\* The table in memory and the table the hint leads to are the acknowledged
\* one, or the one of the commit under way: no acknowledged file is lost, no
\* marked row comes back and no vector is unreadable, over failed commits that
\* leave files behind, retries under the same snapshot id, and crashes.
TableExact ==
    /\ mem.state = "open" => Table(mem.current) \in truth
    /\ mem.state = "open" /\ hint.now \in Snapshots /\ metadata[hint.now].data = "whole" =>
         Table(metadata[hint.now].m) \in truth

\* A vector named by the manifest the hint leads to is on disk: the clean-up of
\* a failed commit only removes puffin files no manifest refers to.
VectorsKept ==
    hint.now \in Snapshots =>
        \A e \in metadata[hint.now].m.entries : e.dv # 0 => puffins[<<e.file, e.dv>>].data = "whole"

\* Row ids: the files of a manifest have ranges that do not overlap and lie
\* below next_row_id, over all retries and crashes.
RowIdsDisjoint ==
    \A e, x \in mem.current.entries :
        /\ e.firstRow + RowsPerFile <= mem.current.nextRow
        /\ e # x => e.firstRow + RowsPerFile <= x.firstRow \/ x.firstRow + RowsPerFile <= e.firstRow

\* From the manifest in memory the parent ids lead through manifests that are
\* on disk, one sequence number at a time, down to a first one without parent.
LineageWhole ==
    mem.current.id # 0 =>
        \E line \in SUBSET Snapshots :
            /\ mem.current.id \in line /\ metadata[mem.current.id].m = mem.current
            /\ \A v \in line : LET m == metadata[v].m IN
                   /\ metadata[v].data = "whole" /\ m.id = v
                   /\ \/ m.parent = 0 /\ m.seq = 1
                      \/ m.parent \in line /\ m.parent < v /\ metadata[m.parent].m.seq + 1 = m.seq

\* Commits, failed commits, retries and crashes in any order: open() finds a
\* catalog, it holds the acknowledged table, and its row ids and its lineage
\* are in order.
CatalogRecovers == OpenSucceeds /\ TableExact /\ RowIdsDisjoint /\ LineageWhole

\* refresh never meets a manifest that is torn or that names files that are
\* not there.
RefreshServed == \A r \in Refreshers : replica.calls[r].pc # "failed"

\* The version a replica shows never steps back while it is open.
RefreshMonotone == [][mem.state = "open" /\ mem'.state = "open" => replica'.shown >= replica.shown]_vars
=============================================================================
