----------------------------- MODULE CatalogInv -----------------------------
(***************************************************************************)
(* Why a commit of the catalog survives what can happen to it: the regime  *)
(* in which it does, and the inductive invariant behind it.                *)
(*                                                                         *)
(* Snapshot ids are given out one by one and a failed commit's id is used  *)
(* again, so a commit only ever writes files under an id above the one the *)
(* hint leads to.  Everything up to that id is durable and left alone: the *)
(* manifests, and the puffin files they name, which all carry ids that     *)
(* were committed before.                                                  *)
(***************************************************************************)
EXTENDS Catalog

(* The first commit of a table is not cut short by a crash, and the sync of  *)
(* the base directory, after which a commit can no longer be taken back,     *)
(* does not fail.                                                            *)
SafeRegime == ~CrashInFirst /\ ~BaseSyncFails

Data == {"none", "part", "whole"}
Entries == [file : Nat, firstRow : Nat, dv : Nat]
Manifests == [id : Nat, parent : Nat, seq : Nat, nextRow : Nat, entries : SUBSET Entries]
ManifestFiles == [data : Data, synced : BOOLEAN, linked : BOOLEAN, m : Manifests]
PuffinFiles == [data : Data, synced : BOOLEAN, linked : BOOLEAN, marks : SUBSET Nat]

Steps == {"idle", "puffins", "sync_puffin", "sync_manifest", "sync_metadata", "write_hint",
          "sync_hint", "rename", "sync_base"}

(* The types of the files on disk, *)
FilesTyped ==
    /\ metadata \in [Snapshots -> ManifestFiles]
    /\ puffins \in [(1 .. MaxFiles) \X Snapshots -> PuffinFiles]
    /\ files \in 0 .. MaxFiles

(* of the hint and the open catalog, *)
MemTyped ==
    /\ hint = [now |-> hint.now, since |-> hint.since] /\ hint.since \subseteq Int
    /\ hint.now \in hint.since
    /\ tmp \in BOOLEAN
    /\ mem \in [state : {"open", "closed"}, current : Manifests, next : Nat]

(* of the commit under way, *)
JobTyped ==
    /\ job = [pc |-> job.pc, adds |-> job.adds, removes |-> job.removes, dvs |-> job.dvs,
              todo |-> job.todo, written |-> job.written, m |-> job.m]
    /\ job.pc \in Steps /\ job.m \in Manifests
    /\ job.todo \subseteq 1 .. MaxFiles /\ job.written \subseteq 1 .. MaxFiles
    /\ job.dvs \in [job.todo \cup job.written -> SUBSET Nat]

(* and of the reading process. *)
ReplicaTyped ==
    /\ replica = [shown |-> replica.shown, calls |-> replica.calls]
    /\ replica.shown \in Int
    /\ replica.calls \in [Refreshers -> [pc : {"idle", "load", "failed"}, ver : Int]]

(* A puffin file that a crash leaves as it is. *)
Durable(f) == f.data = "whole" /\ f.synced /\ f.linked

(* A manifest whose files are what it says they are: each has one entry, a   *)
(* number given out before, a row id range of its own, and vectors that are  *)
(* durable and were written under an id up to that of the manifest.          *)
Sound(m) ==
    \A e \in m.entries :
        /\ e.file \in 1 .. files
        /\ e.firstRow + RowsPerFile <= m.nextRow
        /\ e.dv # 0 => e.dv \in 1 .. m.id /\ Durable(puffins[<<e.file, e.dv>>])
        /\ 0 \notin Marks(e)
        /\ \A x \in m.entries :
              e = x \/ /\ e.file # x.file
                       /\ \/ e.firstRow + RowsPerFile <= x.firstRow
                          \/ x.firstRow + RowsPerFile <= e.firstRow

(* Version v was committed after version v - 1 and is there for good.        *)
Kept(v) ==
    /\ v \in Snapshots /\ Durable(metadata[v])
    /\ metadata[v].m.id = v /\ metadata[v].m.parent = v - 1 /\ metadata[v].m.seq = v
    /\ Sound(metadata[v].m)

(* The manifest of version v. *)
Version(v) == IF v = 0 THEN Empty ELSE metadata[v].m

(* The hint leads to a version that, like all before it, is kept. *)
HintInv ==
    /\ hint.now \in 0 .. MaxSnapshots
    /\ \A v \in 1 .. hint.now : Kept(v)
    /\ Table(Version(hint.now)) \in truth

(* Past the rename both versions may be found after a crash; before it, and  *)
(* once the catalog is closed, only one.                                     *)
Renamed == mem.state = "open" /\ job.pc = "sync_base"

MemInv ==
    /\ mem.next = mem.current.id + 1
    /\ mem.state = "open" =>
          /\ mem.current = Version(mem.current.id)
          /\ hint.now = IF Renamed THEN mem.next ELSE mem.current.id
          /\ Table(mem.current) \in truth
    /\ hint.since \subseteq IF Renamed THEN {mem.current.id, mem.next} ELSE {hint.now}
    /\ ~Renamed => truth = {Table(Version(hint.now))} \/ mem.state = "closed"
    /\ mem.state = "closed" => /\ job.pc = "idle" /\ mem.current = Empty
                               /\ hint.now = 0 => \A v \in Snapshots : metadata[v].data = "none"

(* The commit: the vectors written so far, then the manifest, then the hint. *)
JobInv ==
    job.pc # "idle" =>
        /\ mem.next \in Snapshots
        /\ job.adds = {} \/ (job.adds = {files} /\ files # 0 /\ \A e \in mem.current.entries : e.file < files)
        /\ job.written \cap job.todo = {}
        /\ \A f \in job.written :
              /\ puffins[<<f, mem.next>>].data = "whole"
              /\ puffins[<<f, mem.next>>].marks = MergedMarks(f) /\ 0 \notin MergedMarks(f)
              /\ job.pc # "sync_puffin" => Durable(puffins[<<f, mem.next>>])
        /\ job.pc \notin {"puffins", "sync_puffin"} =>
              /\ job.todo = {} /\ job.m = Apply(mem.current)
              /\ metadata[mem.next].data = "whole" /\ metadata[mem.next].m = job.m
              /\ job.pc # "sync_manifest" => metadata[mem.next].synced
              /\ job.pc \notin {"sync_manifest", "sync_metadata"} => metadata[mem.next].linked
        /\ job.pc = "rename" => tmp

OneRefresher == \A r, s \in Refreshers : r = s

(* A call of refresh has read a version that is kept, and, where calls come  *)
(* one after the other, none that is older than what the replica shows.      *)
ReplicaInv ==
    /\ replica.shown \in 0 .. hint.now
    /\ \A r \in Refreshers :
          /\ replica.calls[r].pc \in {"idle", "load"}
          /\ replica.calls[r].pc = "load" =>
                /\ replica.calls[r].ver \in 1 .. hint.now
                /\ OneRefresher => replica.shown <= replica.calls[r].ver

IInv ==
    /\ FilesTyped /\ MemTyped /\ JobTyped /\ ReplicaTyped
    /\ HintInv /\ MemInv /\ JobInv /\ ReplicaInv

=============================================================================
