--------------------------- MODULE CatalogProofs ---------------------------
(***************************************************************************)
(* Proofs about Catalog, for every number of files, rows, snapshots,       *)
(* failures, crashes and refreshing callers: whatever fails and whenever   *)
(* power is lost, the catalog opens again with the acknowledged table.     *)
(***************************************************************************)
EXTENDS CatalogInv, FiniteSetTheorems, TLAPS

(* What was synced, contents and name, is after a crash what it was before, *)
(* and what was never written does not appear: manifests,                   *)
LEMMA CrashManifests ==
  ASSUME metadata \in [Snapshots -> ManifestFiles], NEW after \in AfterCrash(metadata)
  PROVE  /\ after \in [Snapshots -> ManifestFiles]
         /\ \A v \in Snapshots : /\ Durable(metadata[v]) => after[v] = metadata[v]
                                 /\ metadata[v].data = "none" => after[v] = metadata[v]
<1> DEFINE loose == {x \in DOMAIN metadata : metadata[x].data # "none"
                                              /\ ~(metadata[x].synced /\ metadata[x].linked)}
<1>1. PICK c \in [loose -> UNION {Survivors(metadata[x]) : x \in loose}] :
           /\ \A x \in loose : c[x] \in Survivors(metadata[x])
           /\ after = [x \in DOMAIN metadata |->
                         IF x \in loose THEN [c[x] EXCEPT !.synced = TRUE, !.linked = TRUE]
                         ELSE metadata[x]]
  BY DEF AfterCrash
<1>2. ASSUME NEW x \in loose
      PROVE  [c[x] EXCEPT !.synced = TRUE, !.linked = TRUE] \in ManifestFiles
  <2>1. metadata[x] \in ManifestFiles /\ c[x] \in Survivors(metadata[x])
    BY <1>1
  <2>2. c[x] \in {metadata[x], [metadata[x] EXCEPT !.data = "part"], [metadata[x] EXCEPT !.data = "none"]}
    BY <2>1 DEF Survivors
  <2>3. c[x] \in ManifestFiles
    BY <2>1, <2>2 DEF ManifestFiles, Data
  <2> QED
    BY <2>3 DEF ManifestFiles
<1> QED
  BY <1>1, <1>2 DEF Durable

(* and puffin files. *)
LEMMA CrashPuffins ==
  ASSUME NEW D, puffins \in [D -> PuffinFiles], NEW after \in AfterCrash(puffins)
  PROVE  /\ after \in [D -> PuffinFiles]
         /\ \A p \in D : Durable(puffins[p]) => after[p] = puffins[p]
<1> DEFINE loose == {x \in DOMAIN puffins : puffins[x].data # "none"
                                             /\ ~(puffins[x].synced /\ puffins[x].linked)}
<1>1. PICK c \in [loose -> UNION {Survivors(puffins[x]) : x \in loose}] :
           /\ \A x \in loose : c[x] \in Survivors(puffins[x])
           /\ after = [x \in DOMAIN puffins |->
                         IF x \in loose THEN [c[x] EXCEPT !.synced = TRUE, !.linked = TRUE]
                         ELSE puffins[x]]
  BY DEF AfterCrash
<1>2. ASSUME NEW x \in loose
      PROVE  [c[x] EXCEPT !.synced = TRUE, !.linked = TRUE] \in PuffinFiles
  <2>1. puffins[x] \in PuffinFiles /\ c[x] \in Survivors(puffins[x])
    BY <1>1
  <2>2. c[x] \in {puffins[x], [puffins[x] EXCEPT !.data = "part"], [puffins[x] EXCEPT !.data = "none"]}
    BY <2>1 DEF Survivors
  <2>3. c[x] \in PuffinFiles
    BY <2>1, <2>2 DEF PuffinFiles, Data
  <2> QED
    BY <2>3 DEF PuffinFiles
<1> QED
  BY <1>1, <1>2 DEF Durable

(* The empty manifest, no manifest and no puffin are typed. *)
LEMMA NothingTyped == Empty \in Manifests /\ NoManifest \in ManifestFiles /\ NoPuffin \in PuffinFiles
  BY DEF Empty, NoManifest, NoPuffin, Manifests, ManifestFiles, PuffinFiles, Data, Entries

(* Manifest::apply gives a manifest; at most one file is added. *)
LEMMA ApplyTyped ==
  ASSUME NEW m \in Manifests, mem.next \in Nat, NEW f \in Nat, job.adds \in {{}, {f}}
  PROVE  Apply(m) \in Manifests /\ Cardinality(job.adds) \in {0, 1}
         /\ (job.adds # {} => Cardinality(job.adds) = 1)
<1>1. Cardinality(job.adds) \in {0, 1} /\ (job.adds # {} => Cardinality(job.adds) = 1)
  BY FS_EmptySet, FS_Singleton
<1>2. m.nextRow + RowsPerFile * Cardinality(job.adds) \in Nat
  <2>1. CASE Cardinality(job.adds) = 0
    BY <2>1, CatalogAssumption DEF Manifests
  <2>2. CASE Cardinality(job.adds) = 1
    BY <2>2, CatalogAssumption DEF Manifests
  <2> QED
    BY <1>1, <2>1, <2>2
<1> DEFINE old == {[e EXCEPT !.dv = IF e.file \in DOMAIN job.dvs THEN mem.next ELSE @] :
                      e \in {x \in m.entries : x.file \notin job.removes}}
           new == {[file |-> g, firstRow |-> m.nextRow, dv |-> 0] : g \in job.adds}
<1>3. old \subseteq Entries
  BY DEF Entries, Manifests
<1>4. new \subseteq Entries
  BY DEF Entries, Manifests
<1>5. m.seq + 1 \in Nat /\ m.id \in Nat
  BY DEF Manifests
<1> HIDE DEF old, new
<1>6. Apply(m) = [id |-> mem.next, parent |-> m.id, seq |-> m.seq + 1,
                  nextRow |-> m.nextRow + RowsPerFile * Cardinality(job.adds),
                  entries |-> old \cup new]
  BY DEF Apply, old, new
<1> QED
  BY <1>1, <1>2, <1>3, <1>4, <1>5, <1>6 DEF Manifests

(* While the catalog is open, the manifest in memory is sound, its vectors   *)
(* can be read, and a commit is only under way then.                         *)
LEMMA CurrentSound ==
  ASSUME IInv, mem.state = "open"
  PROVE  /\ mem.current \in Manifests /\ mem.current.id \in 0 .. hint.now
         /\ mem.current.id \in 0 .. MaxSnapshots
         /\ Sound(mem.current)
         /\ \A e \in mem.current.entries :
               /\ e \in Entries /\ Marks(e) \subseteq Nat \ {0}
               /\ e.dv # 0 => <<e.file, e.dv>> \in (1 .. MaxFiles) \X Snapshots
<1>1. /\ mem.current \in Manifests /\ mem.current.id \in Nat /\ mem.next = mem.current.id + 1
      /\ hint.now \in {mem.current.id, mem.next} /\ hint.now \in 0 .. MaxSnapshots
      /\ mem.current = Version(mem.current.id)
  BY DEF IInv, MemInv, MemTyped, HintInv, Manifests, Renamed
<1>2. mem.current.id \in 0 .. hint.now /\ mem.current.id \in 0 .. MaxSnapshots
  BY <1>1, CatalogAssumption
<1>3. CASE mem.current.id = 0
  <2>1. mem.current.entries = {}
    BY <1>1, <1>3 DEF Version, Empty
  <2> QED
    BY <1>1, <1>2, <2>1 DEF Sound
<1>4. CASE mem.current.id # 0
  <2>1. Kept(mem.current.id) /\ mem.current = metadata[mem.current.id].m
    BY <1>1, <1>2, <1>4 DEF Version, IInv, HintInv
  <2>2. Sound(mem.current)
    BY <2>1 DEF Kept
  <2>3. ASSUME NEW e \in mem.current.entries
        PROVE  /\ e \in Entries /\ Marks(e) \subseteq Nat \ {0}
               /\ e.dv # 0 => <<e.file, e.dv>> \in (1 .. MaxFiles) \X Snapshots
    <3>1. e \in Entries /\ files \in 0 .. MaxFiles /\ e.file \in 1 .. files
      BY <1>1, <2>2 DEF Manifests, Sound, IInv, FilesTyped
    <3>2. e.dv # 0 => e.dv \in 1 .. mem.current.id /\ Durable(puffins[<<e.file, e.dv>>])
      BY <2>2 DEF Sound
    <3>3. e.dv # 0 => <<e.file, e.dv>> \in (1 .. MaxFiles) \X Snapshots
      BY <1>1, <1>2, <3>1, <3>2, CatalogAssumption DEF Snapshots
    <3>4. 0 \notin Marks(e)
      BY <2>2 DEF Sound
    <3>5. Marks(e) \subseteq Nat
      <4>1. CASE e.dv = 0
        BY <4>1 DEF Marks
      <4>2. CASE e.dv # 0
        <5>1. puffins[<<e.file, e.dv>>] \in PuffinFiles
          BY <3>3, <4>2 DEF IInv, FilesTyped
        <5> QED
          BY <3>2, <4>2, <5>1 DEF Marks, Durable, PuffinFiles
      <4> QED
        BY <4>1, <4>2
    <3> QED
      BY <3>1, <3>3, <3>4, <3>5
  <2> QED
    BY <1>1, <1>2, <2>2, <2>3
<1> QED
  BY <1>3, <1>4

(* A commit is under way only while the catalog is open. *)
LEMMA CommitOpen ==
  ASSUME IInv, job.pc # "idle"
  PROVE  mem.state = "open" /\ mem.next \in Snapshots /\ mem.next \in Nat
  BY DEF IInv, MemInv, MemTyped, JobInv

(* The marks of a new vector are row positions. *)
LEMMA MergedTyped ==
  ASSUME IInv, job.pc # "idle", NEW f \in job.todo \cup job.written
  PROVE  MergedMarks(f) \subseteq Nat
<1>1. \A e \in mem.current.entries : Marks(e) \subseteq Nat
  BY CurrentSound, CommitOpen
<1>2. job.dvs[f] \subseteq Nat
  BY DEF IInv, JobTyped
<1> QED
  BY <1>1, <1>2 DEF MergedMarks, Entry

(* Types: the files on disk. *)
LEMMA StepFiles ==
  ASSUME IInv, Next
  PROVE  FilesTyped' /\ files <= files'
<1>0. FilesTyped /\ JobTyped /\ MaxFiles \in Nat
  BY CatalogAssumption DEF IInv
<1>1. CASE Begin
  <2>1. PICK adds \in {{}, {files + 1}} :
           files' = files + Cardinality(adds) /\ files + Cardinality(adds) <= MaxFiles
    BY <1>1 DEF Begin
  <2>2. Cardinality(adds) \in {0, 1}
    BY FS_EmptySet, FS_Singleton
  <2>3. UNCHANGED <<metadata, puffins>>
    BY <1>1 DEF Begin
  <2> QED
    BY <1>0, <2>1, <2>2, <2>3 DEF FilesTyped
<1>2. CASE WritePuffin
  <2>1. PICK f \in job.todo :
           puffins' = [puffins EXCEPT ![<<f, mem.next>>] =
              [data |-> "whole", synced |-> FALSE, linked |-> puffins[<<f, mem.next>>].linked,
               marks |-> MergedMarks(f)]]
    BY <1>2 DEF WritePuffin
  <2>2. job.pc # "idle" /\ UNCHANGED <<metadata, files>>
    BY <1>2 DEF WritePuffin
  <2>3. <<f, mem.next>> \in (1 .. MaxFiles) \X Snapshots /\ MergedMarks(f) \subseteq Nat
    BY <1>0, <2>2, CommitOpen, MergedTyped DEF JobTyped
  <2>4. puffins[<<f, mem.next>>].linked \in BOOLEAN
    BY <1>0, <2>3 DEF FilesTyped, PuffinFiles
  <2>5. [data |-> "whole", synced |-> FALSE, linked |-> puffins[<<f, mem.next>>].linked,
         marks |-> MergedMarks(f)] \in PuffinFiles
    BY <2>3, <2>4 DEF PuffinFiles, Data
  <2> QED
    BY <1>0, <2>1, <2>2, <2>3, <2>5 DEF FilesTyped
<1>3. CASE SyncPuffin
  <2>1. \A p \in DOMAIN puffins : [puffins[p] EXCEPT !.synced = TRUE, !.linked = TRUE] \in PuffinFiles
    BY <1>0 DEF FilesTyped, PuffinFiles
  <2> QED
    <3>1. puffins' \in [DOMAIN puffins -> PuffinFiles]
      BY <1>0, <1>3, <2>1 DEF SyncPuffin, FilesTyped
    <3>2. UNCHANGED <<metadata, files>>
      BY <1>3 DEF SyncPuffin
    <3> QED
      BY <1>0, <3>1, <3>2 DEF FilesTyped
<1>4. CASE WriteManifest
  <2>1. job'.m = Apply(mem.current) /\ job.pc # "idle"
    BY <1>0, <1>4 DEF WriteManifest, JobTyped
  <2>2. Apply(mem.current) \in Manifests
    <3>1. mem.current \in Manifests /\ mem.next \in Nat
      BY DEF IInv, MemTyped
    <3>2. files \in Nat /\ job.adds \in {{}, {files}}
      BY <1>0, <2>1 DEF FilesTyped, IInv, JobInv
    <3> QED
      BY <3>1, <3>2, ApplyTyped
  <2>3. mem.next \in Snapshots
    BY <2>1, CommitOpen
  <2>4. [data |-> "whole", synced |-> FALSE, linked |-> metadata[mem.next].linked, m |-> job'.m]
           \in ManifestFiles
    BY <1>0, <2>1, <2>2, <2>3 DEF FilesTyped, ManifestFiles, Data
  <2>5. metadata' = [metadata EXCEPT ![mem.next] =
           [data |-> "whole", synced |-> FALSE, linked |-> metadata[mem.next].linked, m |-> job'.m]]
    BY <1>4 DEF WriteManifest
  <2>6. UNCHANGED <<puffins, files>>
    BY <1>4 DEF WriteManifest
  <2> QED
    BY <1>0, <2>3, <2>4, <2>5, <2>6 DEF FilesTyped
<1>5. CASE SyncManifest \/ SyncMetadata
  <2>1. mem.next \in Snapshots
    BY <1>5, CommitOpen DEF SyncManifest, SyncMetadata
  <2>2. /\ [metadata[mem.next] EXCEPT !.synced = TRUE] \in ManifestFiles
        /\ [metadata[mem.next] EXCEPT !.linked = TRUE] \in ManifestFiles
    BY <1>0, <2>1 DEF FilesTyped, ManifestFiles
  <2>3. \/ metadata' = [metadata EXCEPT ![mem.next] = [metadata[mem.next] EXCEPT !.synced = TRUE]]
        \/ metadata' = [metadata EXCEPT ![mem.next] = [metadata[mem.next] EXCEPT !.linked = TRUE]]
    BY <1>5 DEF SyncManifest, SyncMetadata
  <2>4. UNCHANGED <<puffins, files>>
    BY <1>5 DEF SyncManifest, SyncMetadata
  <2> QED
    BY <1>0, <2>1, <2>2, <2>3, <2>4 DEF FilesTyped
<1>6. CASE Fail
  BY <1>0, <1>6, NothingTyped DEF Fail, FilesTyped
<1>7. CASE Crash
  <2>1. metadata' \in AfterCrash(metadata) /\ puffins' \in AfterCrash(puffins) /\ files' = files
    BY <1>7 DEF Crash
  <2>2. metadata' \in [Snapshots -> ManifestFiles]
    BY <1>0, <2>1, CrashManifests DEF FilesTyped
  <2>3. puffins' \in [(1 .. MaxFiles) \X Snapshots -> PuffinFiles]
    BY <1>0, <2>1, CrashPuffins DEF FilesTyped
  <2> QED
    BY <1>0, <2>1, <2>2, <2>3 DEF FilesTyped
<1>8. CASE UNCHANGED <<metadata, puffins, files>>
  BY <1>0, <1>8 DEF FilesTyped
<1> QED
  BY <1>1, <1>2, <1>3, <1>4, <1>5, <1>6, <1>7, <1>8
     DEF Next, WriteHint, SyncHint, RenameHint, Ack, Open, RefreshHint, RefreshLoad

(* open() finds the manifest the hint leads to, or no manifest at all. *)
LEMMA OpenAccepts ==
  ASSUME IInv, Open
  PROVE  /\ mem' = [state |-> "open", current |-> Version(hint.now), next |-> hint.now + 1]
         /\ Version(hint.now) \in Manifests /\ Version(hint.now).id = hint.now
         /\ hint.now \in Nat /\ truth' = truth \cap {Table(Version(hint.now))}
         /\ job.pc = "idle" /\ mem.state = "closed"
         /\ UNCHANGED <<metadata, puffins, hint, tmp, job, files, replica, bad>>
<1>1. /\ hint.now \in 0 .. MaxSnapshots /\ \A v \in 1 .. hint.now : Kept(v)
      /\ metadata \in [Snapshots -> ManifestFiles] /\ MaxSnapshots \in Nat
      /\ mem.state = "closed"
      /\ UNCHANGED <<metadata, puffins, hint, tmp, job, files, replica, bad>>
  BY CatalogAssumption DEF IInv, HintInv, FilesTyped, Open
<1>2. job.pc = "idle" /\ (hint.now = 0 => \A v \in Snapshots : metadata[v].data = "none")
  BY <1>1 DEF IInv, MemInv
<1>3. CASE hint.now = 0
  <2>1. mem' = [state |-> "open", current |-> Empty, next |-> 1]
    BY <1>2, <1>3 DEF Open, Snapshots
  <2>2. Version(hint.now) = Empty
    BY <1>3 DEF Version
  <2>3. truth' = truth \cap {Table(mem'.current)} /\ mem'.current = Version(hint.now)
    BY <2>1, <2>2 DEF Open
  <2> QED
    <3>1. Version(hint.now) \in Manifests /\ Version(hint.now).id = hint.now
      BY <1>3, <2>2, NothingTyped DEF Empty
    <3>2. mem' = [state |-> "open", current |-> Version(hint.now), next |-> hint.now + 1]
      BY <1>3, <2>1, <2>2
    <3>3. hint.now \in Nat
      BY <1>3
    <3> QED
      BY <1>1, <1>2, <2>3, <3>1, <3>2, <3>3, Zenon
<1>4. CASE hint.now # 0
  <2>1. hint.now \in Snapshots /\ metadata[hint.now].data = "whole" /\ metadata[hint.now].m.id = hint.now
    BY <1>1, <1>4 DEF Kept, Durable
  <2>2. mem' = [state |-> "open", current |-> metadata[hint.now].m, next |-> hint.now + 1]
    BY <1>4, <2>1, Zenon DEF Open
  <2>3. Version(hint.now) = metadata[hint.now].m
    BY <1>4 DEF Version
  <2>4. truth' = truth \cap {Table(mem'.current)} /\ mem'.current = Version(hint.now)
    BY <2>2, <2>3 DEF Open
  <2>6. metadata[hint.now].m \in Manifests
    BY <1>1, <2>1 DEF ManifestFiles
  <2> QED
    BY <1>1, <1>2, <2>1, <2>2, <2>3, <2>4, <2>6
<1> QED
  BY <1>3, <1>4

(* Types: the hint and the catalog in memory. *)
LEMMA StepMem ==
  ASSUME IInv, Next
  PROVE  MemTyped'
<1>0. MemTyped
  BY DEF IInv
<1>1. CASE WriteHint \/ SyncHint
  BY <1>0, <1>1 DEF WriteHint, SyncHint, MemTyped
<1>2. CASE RenameHint
  <2>1. mem.next \in Int
    BY <1>0 DEF MemTyped
  <2>2. /\ hint' = [now |-> mem.next,
                    since |-> hint.since \cup {mem.next} \cup (IF tmp THEN {} ELSE {-1})]
        /\ UNCHANGED <<tmp, mem>>
    BY <1>2 DEF RenameHint
  <2>3. hint'.now = mem.next /\ hint'.since \subseteq Int /\ mem.next \in hint'.since
    BY <1>0, <2>1, <2>2 DEF MemTyped
  <2> QED
    BY <1>0, <2>2, <2>3 DEF MemTyped
<1>3. CASE Ack
  <2>1. job.m \in Manifests
    BY DEF IInv, JobTyped
  <2>2. hint' = [now |-> hint.now, since |-> {hint.now}] /\ hint.now \in Int
    BY <1>0, <1>3 DEF Ack, MemTyped
  <2>3. mem' \in [state : {"open", "closed"}, current : Manifests, next : Nat]
    <3>1. mem' = [state |-> mem.state, current |-> job.m, next |-> mem.next + 1]
      BY <1>0, <1>3 DEF Ack, MemTyped
    <3> QED
      BY <1>0, <2>1, <3>1 DEF MemTyped
  <2> QED
    BY <1>0, <1>3, <2>2, <2>3 DEF Ack, MemTyped
<1>4. CASE Crash
  <2>1. PICK h \in hint.since : hint' = [now |-> h, since |-> {h}]
    BY <1>4 DEF Crash
  <2>2. tmp' = FALSE /\ mem' = [state |-> "closed", current |-> Empty, next |-> 1]
    BY <1>4 DEF Crash
  <2> QED
    BY <1>0, <2>1, <2>2, NothingTyped DEF MemTyped
<1>5. CASE Open
  BY <1>0, <1>5, OpenAccepts DEF MemTyped
<1>6. CASE UNCHANGED <<hint, tmp, mem>>
  BY <1>0, <1>6 DEF MemTyped
<1> QED
  BY <1>1, <1>2, <1>3, <1>4, <1>5, <1>6
     DEF Next, Begin, WritePuffin, SyncPuffin, WriteManifest, SyncManifest, SyncMetadata, Fail,
         RefreshHint, RefreshLoad

(* Types: the commit. *)
LEMMA StepJob ==
  ASSUME IInv, Next
  PROVE  JobTyped'
<1>0. JobTyped /\ files \in 0 .. MaxFiles /\ MaxFiles \in Nat /\ RowsPerFile \in Nat
  BY CatalogAssumption DEF IInv, FilesTyped
<1>1. CASE Begin
  <2>1. PICK adds \in {{}, {files + 1}}, removes \in SUBSET {e.file : e \in mem.current.entries},
             marked \in {{}} \cup {{f} : f \in 1 .. files} :
           \E dvs \in [marked -> (SUBSET Positions) \ {{}}] :
              job' = [pc |-> "puffins", adds |-> adds, removes |-> removes, dvs |-> dvs,
                      todo |-> marked, written |-> {}, m |-> Empty]
    BY <1>1 DEF Begin
  <2>0. PICK dvs \in [marked -> (SUBSET Positions) \ {{}}] :
           job' = [pc |-> "puffins", adds |-> adds, removes |-> removes, dvs |-> dvs,
                   todo |-> marked, written |-> {}, m |-> Empty]
    BY <2>1
  <2>2. marked \subseteq 1 .. MaxFiles /\ marked \cup {} = marked
    BY <1>0
  <2>3. dvs \in [marked -> SUBSET Nat]
    BY <1>0 DEF Positions
  <2> QED
    BY <2>0, <2>2, <2>3, NothingTyped DEF JobTyped, Steps
<1>2. CASE WritePuffin
  <2>1. PICK f \in job.todo :
           job' = [job EXCEPT !.pc = "sync_puffin", !.written = job.written \cup {f},
                              !.todo = job.todo \ {f}]
    BY <1>2 DEF WritePuffin
  <2>2. job' = [pc |-> "sync_puffin", adds |-> job.adds, removes |-> job.removes, dvs |-> job.dvs,
                todo |-> job.todo \ {f}, written |-> job.written \cup {f}, m |-> job.m]
    BY <1>0, <2>1 DEF JobTyped
  <2>3. (job.todo \ {f}) \cup (job.written \cup {f}) = job.todo \cup job.written
    OBVIOUS
  <2> QED
    BY <1>0, <2>2, <2>3 DEF JobTyped, Steps
<1>3. CASE WriteManifest
  <2>1. Apply(mem.current) \in Manifests
    <3>1. mem.current \in Manifests /\ mem.next \in Nat
      BY DEF IInv, MemTyped
    <3>2. files \in Nat /\ job.adds \in {{}, {files}}
      BY <1>0, <1>3 DEF WriteManifest, IInv, JobInv
    <3> QED
      BY <3>1, <3>2, ApplyTyped
  <2>2. job' = [pc |-> "sync_manifest", adds |-> job.adds, removes |-> job.removes, dvs |-> job.dvs,
                todo |-> job.todo, written |-> job.written, m |-> Apply(mem.current)]
    BY <1>0, <1>3 DEF WriteManifest, JobTyped
  <2> QED
    BY <1>0, <2>1, <2>2 DEF JobTyped, Steps
<1>4. CASE \E s \in Steps : job' = [job EXCEPT !.pc = s]
  <2>1. PICK s \in Steps :
           job' = [pc |-> s, adds |-> job.adds, removes |-> job.removes, dvs |-> job.dvs,
                   todo |-> job.todo, written |-> job.written, m |-> job.m]
    BY <1>0, <1>4 DEF JobTyped
  <2> QED
    BY <1>0, <2>1 DEF JobTyped
<1>5. CASE job' = Idle
  <2>1. <<>> \in [{} -> SUBSET Nat]
    OBVIOUS
  <2> QED
    BY <1>5, <2>1, NothingTyped DEF JobTyped, Idle, Steps
<1>6. CASE UNCHANGED job
  BY <1>0, <1>6 DEF JobTyped
<1>7. SyncPuffin \/ SyncManifest \/ SyncMetadata \/ WriteHint \/ SyncHint \/ RenameHint =>
         \E s \in Steps : job' = [job EXCEPT !.pc = s]
  BY DEF SyncPuffin, SyncManifest, SyncMetadata, WriteHint, SyncHint, RenameHint, Steps
<1> QED
  BY <1>1, <1>2, <1>3, <1>4, <1>5, <1>6, <1>7
     DEF Next, Ack, Fail, Crash, Open, RefreshHint, RefreshLoad

(* Types: the reading process. *)
LEMMA StepReplica ==
  ASSUME IInv, Next
  PROVE  ReplicaTyped'
<1>0. ReplicaTyped /\ HintInv
  BY DEF IInv
<1>1. ASSUME NEW r \in Refreshers, RefreshHint(r) PROVE ReplicaTyped'
  <2>1. hint.now \in Int
    BY <1>0 DEF HintInv
  <2>2. replica' = [shown |-> replica.shown,
                    calls |-> [replica.calls EXCEPT ![r] = [pc |-> "load", ver |-> hint.now]]]
    BY <1>0, <1>1 DEF RefreshHint, ReplicaTyped
  <2> QED
    BY <1>0, <2>1, <2>2 DEF ReplicaTyped
<1>2. ASSUME NEW r \in Refreshers, RefreshLoad(r) PROVE ReplicaTyped'
  <2>1. PICK s \in {replica.calls[r].ver, replica.shown}, pc \in {"idle", "failed"} :
           replica' = [shown |-> s, calls |-> [replica.calls EXCEPT ![r].pc = pc]]
    BY <1>2 DEF RefreshLoad
  <2> QED
    BY <1>0, <2>1 DEF ReplicaTyped
<1>3. CASE Crash
  BY <1>3 DEF Crash, ReplicaTyped
<1>4. CASE UNCHANGED replica
  BY <1>0, <1>4 DEF ReplicaTyped
<1> QED
  BY <1>1, <1>2, <1>3, <1>4
     DEF Next, Begin, WritePuffin, SyncPuffin, WriteManifest, SyncManifest, SyncMetadata, WriteHint,
         SyncHint, RenameHint, Ack, Fail, Open

(* Before the rename a commit works above the version the hint leads to. *)
LEMMA WorksAbove ==
  ASSUME IInv, SafeRegime, job.pc \notin {"idle", "sync_base"}
  PROVE  /\ mem.state = "open" /\ mem.next \in Snapshots /\ mem.next \in Nat
         /\ hint.now = mem.current.id /\ hint.now \in Nat /\ hint.now < mem.next
<1>1. mem.state = "open" /\ mem.next \in Snapshots /\ mem.next \in Nat
  BY CommitOpen
<1>2. hint.now = mem.current.id /\ mem.next = mem.current.id + 1
  BY <1>1 DEF IInv, MemInv, Renamed
<1>3. mem.current.id \in Nat
  BY DEF IInv, MemTyped, Manifests
<1> QED
  BY <1>1, <1>2, <1>3

(* No step changes a committed manifest or a durable vector written under a  *)
(* committed id.                                                             *)
LEMMA LeavesCommitted ==
  ASSUME IInv, SafeRegime, Next
  PROVE  /\ \A v \in 1 .. hint.now : metadata'[v] = metadata[v]
         /\ \A p \in (1 .. MaxFiles) \X (1 .. hint.now) :
               Durable(puffins[p]) => puffins'[p] = puffins[p]
<1>0. /\ FilesTyped /\ hint.now \in 0 .. MaxSnapshots /\ MaxSnapshots \in Nat
      /\ \A v \in 1 .. hint.now : Kept(v)
  BY CatalogAssumption DEF IInv, HintInv
<1>1. (1 .. MaxFiles) \X (1 .. hint.now) \subseteq (1 .. MaxFiles) \X Snapshots
  BY <1>0 DEF Snapshots
<1>2. CASE WritePuffin
  <2>1. hint.now < mem.next /\ mem.next \in Nat /\ hint.now \in Nat
    BY <1>2, WorksAbove DEF WritePuffin
  <2>2. PICK f : \E file : puffins' = [puffins EXCEPT ![<<f, mem.next>>] = file]
    BY <1>2 DEF WritePuffin
  <2>3. \A p \in (1 .. MaxFiles) \X (1 .. hint.now) : p # <<f, mem.next>>
    BY <2>1
  <2> QED
    BY <1>0, <1>1, <1>2, <2>2, <2>3 DEF WritePuffin, FilesTyped
<1>3. CASE SyncPuffin \/ Fail
  <2>1. hint.now < mem.next /\ mem.next \in Nat /\ hint.now \in Nat /\ metadata' = metadata
    BY <1>3, WorksAbove DEF SyncPuffin, Fail, SafeRegime
  <2>2. \A p \in DOMAIN puffins : p[2] # mem.next => puffins'[p] = puffins[p]
    BY <1>3 DEF SyncPuffin, Fail
  <2>3. \A p \in (1 .. MaxFiles) \X (1 .. hint.now) : p[2] # mem.next
    BY <2>1
  <2> QED
    BY <1>0, <1>1, <2>1, <2>2, <2>3 DEF FilesTyped
<1>4. CASE WriteManifest \/ SyncManifest \/ SyncMetadata
  <2>1. hint.now < mem.next /\ mem.next \in Nat /\ hint.now \in Nat /\ puffins' = puffins
    BY <1>4, WorksAbove DEF WriteManifest, SyncManifest, SyncMetadata
  <2>2. \A v \in Snapshots : v # mem.next => metadata'[v] = metadata[v]
    BY <1>0, <1>4 DEF WriteManifest, SyncManifest, SyncMetadata, FilesTyped
  <2>3. \A v \in 1 .. hint.now : v \in Snapshots /\ v # mem.next
    BY <1>0, <2>1 DEF Snapshots
  <2> QED
    BY <2>1, <2>2, <2>3
<1>5. CASE Crash
  <2>1. metadata' \in AfterCrash(metadata) /\ puffins' \in AfterCrash(puffins)
    BY <1>5 DEF Crash
  <2>2. \A v \in Snapshots : Durable(metadata[v]) => metadata'[v] = metadata[v]
    BY <1>0, <2>1, CrashManifests DEF FilesTyped
  <2>3. \A p \in (1 .. MaxFiles) \X Snapshots : Durable(puffins[p]) => puffins'[p] = puffins[p]
    BY <1>0, <2>1, CrashPuffins DEF FilesTyped
  <2>4. \A v \in 1 .. hint.now : v \in Snapshots /\ Durable(metadata[v])
    BY <1>0 DEF Kept
  <2> QED
    BY <1>1, <2>2, <2>3, <2>4
<1>6. CASE UNCHANGED <<metadata, puffins>>
  BY <1>6
<1> QED
  BY <1>2, <1>3, <1>4, <1>5, <1>6
     DEF Next, Begin, WriteHint, SyncHint, RenameHint, Ack, Open, RefreshHint, RefreshLoad

(* A sound manifest whose vectors are left alone stays sound and shows the   *)
(* same table.                                                               *)
LEMMA SoundStays ==
  ASSUME NEW n \in 0 .. MaxSnapshots, NEW m \in Manifests, m.id <= n, Sound(m),
         files \in 0 .. MaxFiles, files' \in Nat, files <= files',
         \A p \in (1 .. MaxFiles) \X (1 .. n) : Durable(puffins[p]) => puffins'[p] = puffins[p]
  PROVE  Sound(m)' /\ Table(m)' = Table(m)
<1>0. m.entries \subseteq Entries /\ m.id \in Nat /\ MaxSnapshots \in Nat /\ MaxFiles \in Nat
  BY CatalogAssumption DEF Manifests
<1>1. ASSUME NEW e \in m.entries
      PROVE  /\ e.dv # 0 => puffins'[<<e.file, e.dv>>] = puffins[<<e.file, e.dv>>]
             /\ Marks(e)' = Marks(e) /\ e.file \in 1 .. files'
  <2>1. e.file \in 1 .. files /\ (e.dv # 0 => e.dv \in 1 .. m.id /\ Durable(puffins[<<e.file, e.dv>>]))
    BY DEF Sound
  <2>2. e.dv # 0 => <<e.file, e.dv>> \in (1 .. MaxFiles) \X (1 .. n)
    BY <1>0, <2>1
  <2>3. e.dv # 0 => puffins'[<<e.file, e.dv>>] = puffins[<<e.file, e.dv>>]
    BY <2>1, <2>2
  <2> QED
    BY <2>1, <2>3 DEF Marks
<1>2. Sound(m)'
  <2>1. ASSUME NEW e \in m.entries
        PROVE  /\ e.file \in 1 .. files'
               /\ e.firstRow + RowsPerFile <= m.nextRow
               /\ e.dv # 0 => e.dv \in 1 .. m.id /\ Durable(puffins'[<<e.file, e.dv>>])
               /\ 0 \notin Marks(e)'
               /\ \A x \in m.entries :
                     e = x \/ /\ e.file # x.file
                              /\ \/ e.firstRow + RowsPerFile <= x.firstRow
                                 \/ x.firstRow + RowsPerFile <= e.firstRow
    BY <1>1 DEF Sound
  <2> QED
    BY <2>1 DEF Sound
<1>3. Table(m)' = Table(m)
  <2>1. \A f \in {e.file : e \in m.entries} :
           LET e == CHOOSE e \in m.entries : e.file = f IN e \in m.entries
    OBVIOUS
  <2>2. \A f \in {e.file : e \in m.entries} :
           Marks(CHOOSE e \in m.entries : e.file = f)' = Marks(CHOOSE e \in m.entries : e.file = f)
    BY <1>1, <2>1
  <2> QED
    BY <2>2 DEF Table
<1> QED
  BY <1>2, <1>3

(* What was committed stays, and shows the same table. *)
LEMMA KeptStays ==
  ASSUME IInv, SafeRegime, Next
  PROVE  /\ \A v \in 1 .. hint.now : Kept(v)'
         /\ \A v \in 0 .. hint.now : Version(v)' = Version(v) /\ Table(Version(v))' = Table(Version(v))
<1>0. /\ hint.now \in 0 .. MaxSnapshots /\ MaxSnapshots \in Nat /\ files \in 0 .. MaxFiles
      /\ files' \in Nat /\ files <= files' /\ metadata \in [Snapshots -> ManifestFiles]
  BY CatalogAssumption, StepFiles DEF IInv, HintInv, FilesTyped
<1>1. ASSUME NEW v \in 1 .. hint.now
      PROVE  Kept(v)' /\ Version(v)' = Version(v) /\ Table(Version(v))' = Table(Version(v))
  <2>1. Kept(v) /\ metadata'[v] = metadata[v]
    BY LeavesCommitted DEF IInv, HintInv
  <2>2. PICK m \in Manifests : m = metadata[v].m
    BY <1>0, <2>1 DEF Kept, ManifestFiles
  <2>3. Sound(m) /\ m.id <= hint.now
    BY <1>0, <2>1, <2>2 DEF Kept
  <2>4. Sound(m)' /\ Table(m)' = Table(m)
    BY <1>0, <2>3, SoundStays, LeavesCommitted
  <2>5. m = metadata'[v].m /\ Version(v) = m /\ Version(v)' = m
    BY <1>0, <2>1, <2>2 DEF Version
  <2>6. Kept(v)'
    <3>1. Sound(metadata[v].m)'
      BY <2>4, <2>5
    <3> QED
      BY <2>1, <3>1 DEF Kept
  <2> QED
    BY <2>4, <2>5, <2>6
<1>2. Version(0)' = Version(0) /\ Table(Version(0))' = Table(Version(0))
  <2>1. Version(0) = Empty /\ Version(0)' = Empty /\ Empty.entries = {}
    BY DEF Version, Empty
  <2> QED
    BY <2>1 DEF Table
<1> QED
  BY <1>0, <1>1, <1>2

(* In a sound manifest the table's value at a file is that of its one entry. *)
LEMMA TableAt ==
  ASSUME NEW m \in Manifests, Sound(m), NEW e \in m.entries
  PROVE  e.file \in DOMAIN Table(m) /\ Table(m)[e.file] = Marks(e)
<1>1. (CHOOSE x \in m.entries : x.file = e.file) = e
  <2>1. PICK x \in m.entries : x = CHOOSE y \in m.entries : y.file = e.file
    OBVIOUS
  <2>2. x.file = e.file
    BY <2>1
  <2>3. x = e
    BY <2>2 DEF Sound
  <2> QED
    BY <2>1, <2>3
<1> QED
  BY <1>1 DEF Table

(* What Manifest::apply makes of the entries: those of files that are not    *)
(* removed, some with a new vector, and the entry of the file added.         *)
LEMMA ApplyEntries ==
  ASSUME IInv, job.pc # "idle"
  PROVE  LET cur == mem.current
             Renewed(o) == [file |-> o.file, firstRow |-> o.firstRow,
                            dv |-> IF o.file \in DOMAIN job.dvs THEN mem.next ELSE o.dv]
             added == [file |-> files, firstRow |-> cur.nextRow, dv |-> 0]
         IN  /\ \A o \in cur.entries : o.file \notin job.removes => Renewed(o) \in Apply(cur).entries
             /\ job.adds # {} => job.adds = {files} /\ added \in Apply(cur).entries
             /\ \A e \in Apply(cur).entries :
                   \/ \E o \in cur.entries : o.file \notin job.removes /\ e = Renewed(o)
                   \/ job.adds # {} /\ e = added
<1> DEFINE cur == mem.current
           Renewed(o) == [file |-> o.file, firstRow |-> o.firstRow,
                          dv |-> IF o.file \in DOMAIN job.dvs THEN mem.next ELSE o.dv]
           added == [file |-> files, firstRow |-> cur.nextRow, dv |-> 0]
           New == {[file |-> f, firstRow |-> cur.nextRow, dv |-> 0] : f \in job.adds}
<1>1. job.adds = {} \/ job.adds = {files}
  BY DEF IInv, JobInv
<1>2. \A o \in cur.entries : o \in Entries
  BY DEF IInv, MemTyped, Manifests
<1>3. \A o \in cur.entries :
         [o EXCEPT !.dv = IF o.file \in DOMAIN job.dvs THEN mem.next ELSE o.dv] = Renewed(o)
  BY <1>2 DEF Entries
<1>4. Apply(cur).entries =
         {[o EXCEPT !.dv = IF o.file \in DOMAIN job.dvs THEN mem.next ELSE o.dv] :
             o \in {x \in cur.entries : x.file \notin job.removes}} \cup New
  BY DEF Apply
<1>5. \A e : e \in New <=> job.adds # {} /\ e = added
  BY <1>1
<1> HIDE DEF New, added, Renewed
<1>6. \A e : e \in Apply(cur).entries <=>
                \/ \E o \in cur.entries : o.file \notin job.removes /\ e = Renewed(o)
                \/ e \in New
  BY <1>3, <1>4
<1> QED
  BY <1>1, <1>5, <1>6 DEF New, added, Renewed

(* The manifest of a commit is sound as soon as its vectors are, and its     *)
(* table is what the transaction makes of the one before: files removed and  *)
(* added, and the new marks joined to those already there.                   *)
LEMMA NewManifest ==
  ASSUME IInv, job.pc \notin {"idle", "sync_puffin"}, job.todo = {}
  PROVE  /\ Apply(mem.current) \in Manifests /\ Apply(mem.current).id = mem.next
         /\ Apply(mem.current).parent = mem.next - 1 /\ Apply(mem.current).seq = mem.next
         /\ Sound(Apply(mem.current))
         /\ Table(Apply(mem.current)) =
               Effect(Table(mem.current), job.adds, job.removes, job.dvs)
<1> DEFINE cur == mem.current
           new == Apply(mem.current)
           Renewed(o) == [file |-> o.file, firstRow |-> o.firstRow,
                          dv |-> IF o.file \in DOMAIN job.dvs THEN mem.next ELSE o.dv]
           added == [file |-> files, firstRow |-> cur.nextRow, dv |-> 0]
<1>1. /\ mem.state = "open" /\ mem.next \in Snapshots /\ mem.next \in Nat
      /\ cur \in Manifests /\ Sound(cur) /\ mem.next = cur.id + 1 /\ cur.id \in Nat
      /\ files \in Nat /\ job.adds \in {{}, {files}} /\ RowsPerFile \in Nat
      /\ \A e \in cur.entries : e \in Entries /\ (job.adds # {} => e.file < files)
      /\ cur.id \in 0 .. hint.now
  <2>1. mem.state = "open" /\ mem.next \in Snapshots /\ mem.next \in Nat
    BY CommitOpen
  <2>2. /\ cur \in Manifests /\ Sound(cur) /\ cur.id \in 0 .. hint.now
        /\ \A e \in cur.entries : e \in Entries
    BY <2>1, CurrentSound
  <2>3. mem.next = cur.id + 1 /\ cur.id \in Nat
    BY <2>2 DEF IInv, MemInv, Manifests
  <2>4. /\ job.adds \in {{}, {files}}
        /\ job.adds # {} => \A e \in cur.entries : e.file < files
    BY DEF IInv, JobInv
  <2>5. files \in Nat /\ RowsPerFile \in Nat
    BY CatalogAssumption DEF IInv, FilesTyped
  <2> QED
    BY <2>1, <2>2, <2>3, <2>4, <2>5
<1>2. new \in Manifests /\ Cardinality(job.adds) \in {0, 1} /\ (job.adds # {} => Cardinality(job.adds) = 1)
  BY <1>1, ApplyTyped
<1>3. /\ new.id = mem.next /\ new.parent = cur.id /\ new.seq = cur.seq + 1
      /\ new.nextRow = cur.nextRow + RowsPerFile * Cardinality(job.adds)
  BY DEF Apply
<1>4. cur.seq = cur.id
  <2>1. CASE cur.id = 0
    BY <1>1, <2>1 DEF IInv, MemInv, Version, Empty
  <2>2. CASE cur.id # 0
    <3>1. Kept(cur.id) /\ cur = metadata[cur.id].m
      BY <1>1, <2>2 DEF IInv, MemInv, HintInv, Version
    <3> QED
      BY <3>1 DEF Kept
  <2> QED
    BY <2>1, <2>2
<1>5. cur.nextRow \in Nat /\ cur.nextRow <= new.nextRow
      /\ (job.adds # {} => cur.nextRow + RowsPerFile <= new.nextRow)
  <2>1. cur.nextRow \in Nat
    BY <1>1 DEF Manifests
  <2>2. CASE Cardinality(job.adds) = 0
    BY <1>1, <1>2, <1>3, <2>1, <2>2
  <2>3. CASE Cardinality(job.adds) = 1
    BY <1>1, <1>2, <1>3, <2>1, <2>3
  <2> QED
    BY <1>2, <2>2, <2>3
<1>6. /\ \A o \in cur.entries : o.file \notin job.removes => Renewed(o) \in new.entries
      /\ job.adds # {} => job.adds = {files} /\ added \in new.entries
      /\ \A e \in new.entries : \/ \E o \in cur.entries : o.file \notin job.removes /\ e = Renewed(o)
                                \/ job.adds # {} /\ e = added
  BY ApplyEntries
<1>7. DOMAIN job.dvs = job.written
  BY DEF IInv, JobTyped
<1>8. \A f \in job.written : /\ puffins[<<f, mem.next>>].marks = MergedMarks(f)
                             /\ Durable(puffins[<<f, mem.next>>]) /\ 0 \notin MergedMarks(f)
  BY DEF IInv, JobInv
<1> HIDE DEF cur, new
<1>9. ASSUME NEW o \in cur.entries
      PROVE  /\ Renewed(o).dv # 0 => /\ Renewed(o).dv \in 1 .. mem.next
                                     /\ Durable(puffins[<<o.file, Renewed(o).dv>>])
             /\ 0 \notin Marks(Renewed(o))
             /\ o.file \notin job.written => Marks(Renewed(o)) = Marks(o)
             /\ o.file \in job.written => Marks(Renewed(o)) = MergedMarks(o.file)
             /\ o.file \in 1 .. files /\ o.firstRow \in Nat
             /\ o.firstRow + RowsPerFile <= cur.nextRow
  <2>1. /\ o \in Entries /\ o.file \in 1 .. files
        /\ o.firstRow + RowsPerFile <= cur.nextRow /\ 0 \notin Marks(o)
        /\ o.dv # 0 => o.dv \in 1 .. cur.id /\ Durable(puffins[<<o.file, o.dv>>])
    BY <1>1 DEF Sound
  <2>2. CASE o.file \in job.written
    <3>1. Renewed(o).dv = mem.next /\ Renewed(o).file = o.file
      BY <1>7, <2>2
    <3>2. Durable(puffins[<<o.file, mem.next>>]) /\ 0 \notin MergedMarks(o.file)
          /\ puffins[<<o.file, mem.next>>].marks = MergedMarks(o.file)
      BY <1>8, <2>2
    <3>3. Marks(Renewed(o)) = MergedMarks(o.file)
      BY <1>1, <3>1, <3>2 DEF Marks, Durable
    <3> QED
      BY <1>1, <2>1, <2>2, <3>1, <3>2, <3>3 DEF Entries
  <2>3. CASE o.file \notin job.written
    <3>1. Renewed(o).dv = o.dv /\ Renewed(o).file = o.file
      BY <1>7, <2>3
    <3>2. Marks(Renewed(o)) = Marks(o)
      BY <3>1 DEF Marks
    <3> QED
      BY <1>1, <2>1, <2>3, <3>1, <3>2 DEF Entries
  <2> QED
    BY <2>2, <2>3
<1>10. Sound(new)
  <2>1. ASSUME NEW e \in new.entries
        PROVE  /\ e.file \in 1 .. files /\ e.firstRow + RowsPerFile <= new.nextRow
               /\ e.dv # 0 => e.dv \in 1 .. new.id /\ Durable(puffins[<<e.file, e.dv>>])
               /\ 0 \notin Marks(e)
    <3>1. CASE \E o \in cur.entries : o.file \notin job.removes /\ e = Renewed(o)
      <4>1. PICK o \in cur.entries : e = Renewed(o)
        BY <3>1
      <4>2. e.file = o.file /\ e.firstRow = o.firstRow
        BY <4>1
      <4>3. new.nextRow \in Nat /\ cur.nextRow \in Nat /\ o.firstRow \in Nat
        BY <1>2, <1>5, <1>9 DEF Manifests
      <4>4. e.firstRow + RowsPerFile <= new.nextRow
        <5>1. o.firstRow + RowsPerFile <= cur.nextRow
          BY <1>9
        <5>2. cur.nextRow <= new.nextRow /\ RowsPerFile \in Nat
          BY <1>1, <1>5
        <5> QED
          BY <4>2, <4>3, <5>1, <5>2
      <4> QED
        BY <1>3, <1>9, <4>1, <4>2, <4>4
    <3>2. CASE job.adds # {} /\ e = added
      <4>1. files \in 1 .. files
        <5>1. files # 0
          BY <3>2 DEF IInv, JobInv
        <5> QED
          BY <1>1, <5>1
      <4>2. Marks(e) = {}
        BY <3>2 DEF Marks
      <4> QED
        BY <1>5, <3>2, <4>1, <4>2
    <3> QED
      BY <1>6, <3>1, <3>2
  <2>2. ASSUME NEW e \in new.entries, NEW x \in new.entries, e # x
        PROVE  /\ e.file # x.file
               /\ \/ e.firstRow + RowsPerFile <= x.firstRow
                  \/ x.firstRow + RowsPerFile <= e.firstRow
    <3>1. ASSUME NEW o \in cur.entries, NEW p \in cur.entries, e = Renewed(o), x = Renewed(p)
          PROVE  /\ e.file # x.file
                 /\ \/ e.firstRow + RowsPerFile <= x.firstRow
                    \/ x.firstRow + RowsPerFile <= e.firstRow
      <4>1. o # p
        BY <2>2, <3>1
      <4>2. /\ e.file = o.file /\ e.firstRow = o.firstRow
            /\ x.file = p.file /\ x.firstRow = p.firstRow
        BY <3>1
      <4> QED
        BY <1>1, <4>1, <4>2 DEF Sound
    <3>2. ASSUME NEW o \in cur.entries, job.adds # {}
          PROVE  o.file # files /\ o.firstRow + RowsPerFile <= added.firstRow
      <4>1. o.file < files /\ o.file \in Nat /\ files \in Nat
        BY <1>1, <3>2 DEF Entries
      <4>2. o.firstRow + RowsPerFile <= cur.nextRow
        BY <1>9
      <4> QED
        BY <4>1, <4>2
    <3>3. \A o \in cur.entries : Renewed(o).file = o.file /\ Renewed(o).firstRow = o.firstRow
      OBVIOUS
    <3>4. added.file = files
      OBVIOUS
    <3> HIDE DEF Renewed, added
    <3> QED
      BY <1>6, <2>2, <3>1, <3>2, <3>3, <3>4
  <2> QED
    BY <2>1, <2>2 DEF Sound
<1>11. Table(new) = Effect(Table(cur), job.adds, job.removes, job.dvs)
  <2>1. DOMAIN Table(cur) = {o.file : o \in cur.entries} /\ DOMAIN Table(new) = {e.file : e \in new.entries}
    BY DEF Table
  <2>2. \A o \in cur.entries : Renewed(o).file = o.file
    OBVIOUS
  <2>3. added.file = files
    OBVIOUS
  <2>4. \A f : f \in DOMAIN Table(new) <=> f \in (DOMAIN Table(cur) \ job.removes) \cup job.adds
    <3> HIDE DEF Renewed, added
    <3> QED
      BY <1>1, <1>6, <2>1, <2>2, <2>3
  <2>5. ASSUME NEW f \in DOMAIN Table(new), f \in job.adds
        PROVE  Table(new)[f] = {}
    <3>1. added \in new.entries /\ f = files
      BY <1>6, <2>5
    <3>2. Marks(added) = {}
      BY DEF Marks
    <3> QED
      BY <1>2, <1>10, <2>3, <3>1, <3>2, TableAt
  <2>6. ASSUME NEW f \in DOMAIN Table(new), f \notin job.adds
        PROVE  Table(new)[f] = Table(cur)[f] \cup (IF f \in DOMAIN job.dvs THEN job.dvs[f] ELSE {})
    <3>1. PICK o \in cur.entries : o.file = f /\ o.file \notin job.removes
      BY <2>1, <2>4, <2>6
    <3>2. Table(cur)[f] = Marks(o)
      BY <1>1, <3>1, TableAt
    <3>3. Renewed(o) \in new.entries /\ Renewed(o).file = f
      BY <1>6, <3>1
    <3>4. Table(new)[f] = Marks(Renewed(o))
      <4> HIDE DEF Renewed
      <4> QED
        BY <1>2, <1>10, <3>3, TableAt
    <3>5. CASE f \in DOMAIN job.dvs
      <4>1. Marks(Renewed(o)) = MergedMarks(f)
        BY <1>7, <1>9, <3>1, <3>5
      <4>2. Entry(cur, f) = {o}
        BY <1>1, <3>1 DEF Entry, Sound
      <4>3. MergedMarks(f) = job.dvs[f] \cup Marks(o)
        BY <4>2 DEF MergedMarks, cur
      <4> QED
        BY <3>2, <3>4, <3>5, <4>1, <4>3
    <3>6. CASE f \notin DOMAIN job.dvs
      <4>1. Marks(Renewed(o)) = Marks(o)
        BY <1>7, <1>9, <3>1, <3>6
      <4> QED
        BY <3>2, <3>4, <3>6, <4>1
    <3> QED
      BY <3>5, <3>6
  <2>7. Table(new) = [f \in DOMAIN Table(new) |-> Table(new)[f]]
    BY DEF Table
  <2>8. Effect(Table(cur), job.adds, job.removes, job.dvs) =
           [f \in DOMAIN Table(new) |->
              IF f \in job.adds THEN {}
              ELSE Table(cur)[f] \cup (IF f \in DOMAIN job.dvs THEN job.dvs[f] ELSE {})]
    BY <2>4 DEF Effect
  <2> QED
    BY <2>5, <2>6, <2>7, <2>8
<1> QED
  BY <1>1, <1>2, <1>3, <1>4, <1>10, <1>11 DEF cur, new

(* Past the rename the hint leads to the manifest of the commit. *)
LEMMA PastRename ==
  ASSUME IInv, job.pc = "sync_base"
  PROVE  /\ hint.now = mem.next /\ mem.next \in Snapshots /\ mem.next \in Nat
         /\ Version(hint.now) = Apply(mem.current) /\ job.m = Apply(mem.current)
         /\ Table(Version(hint.now)) = Effect(Table(mem.current), job.adds, job.removes, job.dvs)
<1>1. mem.state = "open" /\ mem.next \in Snapshots /\ mem.next \in Nat
  BY CommitOpen
<1>2. hint.now = mem.next
  BY <1>1 DEF IInv, MemInv, Renamed
<1>3. job.todo = {} /\ job.m = Apply(mem.current) /\ metadata[mem.next].m = job.m
  BY DEF IInv, JobInv
<1>4. Version(hint.now) = Apply(mem.current)
  BY <1>1, <1>2, <1>3 DEF Version, Snapshots
<1>5. Table(Apply(mem.current)) = Effect(Table(mem.current), job.adds, job.removes, job.dvs)
  BY <1>3, NewManifest
<1> QED
  BY <1>1, <1>2, <1>3, <1>4, <1>5

(* A crash leaves the hint at the version in memory or at that of a commit   *)
(* past its rename.                                                          *)
LEMMA CrashHint ==
  ASSUME IInv, mem.state = "open", NEW h \in hint.since
  PROVE  /\ h \in 0 .. hint.now /\ h \in {mem.current.id, hint.now}
         /\ mem.current.id # 0 => h # 0
         /\ Table(Version(h)) \in truth
<1>1. mem.current.id \in 0 .. hint.now /\ mem.current.id \in Nat /\ hint.now \in Nat
  BY CurrentSound DEF IInv, HintInv, Manifests
<1>2. h \in {mem.current.id, hint.now} /\ hint.now \in {mem.current.id, mem.current.id + 1}
  BY DEF IInv, MemInv, Renamed
<1>3. Table(Version(hint.now)) \in truth /\ Table(Version(mem.current.id)) \in truth
  <2>1. mem.current = Version(mem.current.id) /\ Table(mem.current) \in truth
    BY DEF IInv, MemInv
  <2> QED
    BY <2>1 DEF IInv, HintInv
<1> QED
  BY <1>1, <1>2, <1>3

(* The hint leads to a committed version whose table is a true one. *)
LEMMA StepHint ==
  ASSUME IInv, SafeRegime, Next
  PROVE  HintInv'
<1>0. /\ hint.now \in 0 .. MaxSnapshots /\ Table(Version(hint.now)) \in truth /\ MaxSnapshots \in Nat
      /\ \A v \in 1 .. hint.now : Kept(v)'
      /\ \A v \in 0 .. hint.now : Table(Version(v))' = Table(Version(v))
  BY KeptStays, CatalogAssumption DEF IInv, HintInv
<1>1. CASE UNCHANGED <<hint, truth>>
  <2>1. PICK n : n = hint.now /\ n = hint'.now
    BY <1>1
  <2>2. Table(Version(n))' \in truth'
    BY <1>0, <1>1, <2>1
  <2> QED
    BY <1>0, <2>1, <2>2 DEF HintInv
<1>2. CASE RenameHint
  <2>1. /\ job.pc = "rename" /\ hint'.now = mem.next
        /\ truth' = truth \cup {Effect(Table(mem.current), job.adds, job.removes, job.dvs)}
        /\ UNCHANGED <<metadata, puffins, mem, files>>
    BY <1>2 DEF RenameHint
  <2>2. mem.next \in Snapshots /\ mem.next \in Nat /\ hint.now < mem.next /\ hint.now = mem.current.id
        /\ mem.next = hint.now + 1
    BY <2>1, WorksAbove DEF IInv, MemInv
  <2>3. /\ job.todo = {} /\ Durable(metadata[mem.next]) /\ metadata[mem.next].m = Apply(mem.current)
    BY <2>1 DEF IInv, JobInv, Durable
  <2>4. PICK n : n = mem.next
    OBVIOUS
  <2>5. PICK m : m = metadata[n].m
    OBVIOUS
  <2>6. /\ m.id = n /\ m.parent = n - 1 /\ m.seq = n /\ Sound(m)
        /\ Table(m) = Effect(Table(mem.current), job.adds, job.removes, job.dvs)
    BY <2>1, <2>3, <2>4, <2>5, NewManifest
  <2>7. Sound(m)' /\ Table(m)' = Table(m)
    <3>1. \A e : Marks(e)' = Marks(e)
      BY <2>1 DEF Marks
    <3>2. Table(m)' = Table(m)
      <4>1. \A f \in {e.file : e \in m.entries} :
               Marks(CHOOSE e \in m.entries : e.file = f)' = Marks(CHOOSE e \in m.entries : e.file = f)
        BY <3>1
      <4> QED
        BY <4>1 DEF Table
    <3>3. Sound(m)'
      BY <2>1, <2>6, <3>1, Zenon DEF Sound, Durable
    <3> QED
      BY <3>2, <3>3
  <2>8. Version(n)' = m /\ metadata'[n] = metadata[n] /\ n \in Snapshots
    BY <2>1, <2>2, <2>4, <2>5 DEF Version, Snapshots
  <2>9. Kept(n)'
    <3>1. m = metadata'[n].m /\ Durable(metadata[n])' /\ n \in Snapshots
      BY <2>3, <2>4, <2>5, <2>8 DEF Durable
    <3>2. Sound(metadata[n].m)'
      BY <2>7, <3>1
    <3> QED
      BY <2>6, <3>1, <3>2 DEF Kept
  <2>10. \A v \in 1 .. n : Kept(v)'
    BY <1>0, <2>2, <2>4, <2>9
  <2>11. Table(Version(n))' \in truth'
    BY <2>1, <2>6, <2>7, <2>8
  <2>12. hint'.now = n /\ n \in 0 .. MaxSnapshots
    BY <1>0, <2>1, <2>2, <2>4 DEF Snapshots
  <2> QED
    BY <2>10, <2>11, <2>12 DEF HintInv
<1>3. CASE Ack
  <2>1. /\ job.pc = "sync_base" /\ truth' = {Effect(Table(mem.current), job.adds, job.removes, job.dvs)}
    BY <1>3 DEF Ack
  <2>2. hint'.now = hint.now
    BY <1>3 DEF Ack, IInv, MemTyped
  <2>3. PICK n : n = hint.now /\ n = hint'.now
    BY <2>2
  <2>4. Table(Version(n))' \in truth'
    BY <1>0, <2>1, <2>3, PastRename
  <2> QED
    BY <1>0, <2>3, <2>4 DEF HintInv
<1>4. CASE Crash
  <2>1. mem.state = "open" /\ truth' = truth
    BY <1>4 DEF Crash
  <2>2. PICK h \in hint.since : hint' = [now |-> h, since |-> {h}]
    BY <1>4 DEF Crash
  <2>3. h \in 0 .. hint.now /\ Table(Version(h)) \in truth
    BY <2>1, CrashHint
  <2>4. hint'.now = h /\ Table(Version(h))' \in truth' /\ h \in 0 .. MaxSnapshots
    BY <1>0, <2>1, <2>2, <2>3
  <2>5. \A v \in 1 .. h : Kept(v)'
    BY <1>0, <2>3
  <2> QED
    BY <2>4, <2>5 DEF HintInv
<1>5. CASE Open
  <2>1. hint' = hint /\ truth' = truth \cap {Table(Version(hint.now))}
    BY <1>5, OpenAccepts
  <2>2. PICK n : n = hint.now /\ n = hint'.now
    BY <2>1
  <2>3. Table(Version(n))' \in truth'
    BY <1>0, <2>1, <2>2
  <2> QED
    BY <1>0, <2>2, <2>3 DEF HintInv
<1> QED
  BY <1>1, <1>2, <1>3, <1>4, <1>5
     DEF Next, Begin, WritePuffin, SyncPuffin, WriteManifest, SyncManifest, SyncMetadata, WriteHint,
         SyncHint, Fail, RefreshHint, RefreshLoad

(* A step other than a crash or an opening leaves a closed catalog alone. *)
LEMMA ClosedStays ==
  ASSUME IInv, Next, ~Open, mem.state = "closed"
  PROVE  UNCHANGED <<metadata, puffins, hint, tmp, mem, job, files, truth, bad>>
<1>1. job.pc = "idle" /\ mem.state # "open"
  BY DEF IInv, MemInv
<1> QED
  BY <1>1 DEF Next, Begin, WritePuffin, SyncPuffin, WriteManifest, SyncManifest, SyncMetadata, WriteHint,
         SyncHint, RenameHint, Ack, Fail, Crash, RefreshHint, RefreshLoad

(* The catalog in memory is the version the hint leads to, save between the  *)
(* rename and the return of a commit.                                        *)
LEMMA StepMemInv ==
  ASSUME IInv, SafeRegime, Next
  PROVE  MemInv'
<1>0. /\ hint.now \in Nat
      /\ \A v \in 0 .. hint.now : Version(v)' = Version(v) /\ Table(Version(v))' = Table(Version(v))
  BY KeptStays, CatalogAssumption DEF IInv, HintInv
<1>1. CASE UNCHANGED <<hint, mem, truth>> /\ mem.state = "open" /\ job'.pc # "sync_base" /\ job.pc # "sync_base"
  <2>1. /\ mem.current.id = hint.now /\ mem.current = Version(mem.current.id)
        /\ Table(mem.current) \in truth /\ mem.next = mem.current.id + 1
        /\ hint.since \subseteq {hint.now} /\ truth = {Table(Version(hint.now))}
        /\ ~Renamed
    BY <1>1 DEF IInv, MemInv, Renamed
  <2>2. PICK n, m : n = hint.now /\ m = mem.current
    OBVIOUS
  <2>3. /\ n = hint'.now /\ m = mem'.current /\ m.id = n /\ m = Version(n)
        /\ Version(n)' = Version(n) /\ Table(Version(n))' = Table(Version(n))
    BY <1>0, <1>1, <2>1, <2>2
  <2>4. Table(m)' = Table(m)
    <3>1. Version(n)' = m /\ Version(n) = m
      BY <2>3
    <3> QED
      BY <2>3, <3>1
  <2>5. ~Renamed'
    BY <1>1 DEF Renamed
  <2>6. Table(mem.current)' \in truth' /\ truth' = {Table(Version(hint.now))'}
    BY <1>1, <2>1, <2>2, <2>3, <2>4
  <2>7. mem'.current = Version(mem.current.id)'
    BY <2>3
  <2>8. mem'.next = mem'.current.id + 1 /\ hint'.since \subseteq {hint'.now} /\ mem'.state = "open"
        /\ hint'.now = mem'.current.id
    BY <1>1, <2>1
  <2> QED
    BY <2>5, <2>6, <2>7, <2>8 DEF MemInv
<1>2. CASE ~Open /\ mem.state = "closed"
  <2>1. UNCHANGED <<metadata, puffins, hint, tmp, mem, job, files, truth, bad>>
    BY <1>2, ClosedStays
  <2>2. ~Renamed /\ ~Renamed'
    BY <1>2, <2>1 DEF Renamed
  <2>3. mem'.state = "closed" /\ mem'.next = mem'.current.id + 1 /\ hint'.since \subseteq {hint'.now}
        /\ job'.pc = "idle" /\ mem'.current = Empty
        /\ (hint'.now = 0 => \A v \in Snapshots : metadata'[v].data = "none")
    BY <1>2, <2>1, <2>2 DEF IInv, MemInv
  <2> QED
    BY <2>2, <2>3 DEF MemInv
<1>3. CASE RenameHint
  <2>1. /\ job.pc = "rename" /\ job'.pc = "sync_base"
        /\ hint' = [now |-> mem.next, since |-> hint.since \cup {mem.next}]
        /\ truth \subseteq truth'
        /\ UNCHANGED <<metadata, puffins, mem, files>>
    BY <1>3 DEF RenameHint, IInv, JobInv, JobTyped
  <2>2. /\ mem.state = "open" /\ mem.next \in Nat /\ hint.now = mem.current.id
    BY <2>1, WorksAbove
  <2>3. hint.since \subseteq {hint.now} /\ mem.next = mem.current.id + 1
        /\ mem.current = Version(mem.current.id) /\ Table(mem.current) \in truth
    BY <2>1, <2>2 DEF IInv, MemInv, Renamed
  <2>4. PICK m : m = mem.current
    OBVIOUS
  <2>5. m = mem'.current /\ Version(m.id)' = m /\ Table(m)' = Table(m)
    <3>1. Version(m.id)' = Version(m.id) /\ Version(m.id) = m /\ m = mem'.current
      BY <1>0, <2>1, <2>2, <2>3, <2>4
    <3>2. Table(Version(m.id))' = Table(Version(m.id))
      BY <1>0, <2>2, <2>4
    <3> QED
      BY <3>1, <3>2
  <2>6. Renamed'
    BY <2>1, <2>2 DEF Renamed
  <2>7. Table(mem.current)' \in truth'
    BY <2>1, <2>3, <2>4, <2>5
  <2>8. /\ mem'.next = mem'.current.id + 1 /\ hint'.now = mem'.next /\ mem'.state = "open"
        /\ hint'.since \subseteq {mem'.current.id, mem'.next}
        /\ mem'.current = Version(mem.current.id)'
    BY <2>1, <2>2, <2>3, <2>4, <2>5
  <2> QED
    BY <2>6, <2>7, <2>8 DEF MemInv
<1>4. CASE Ack
  <2>1. /\ job.pc = "sync_base" /\ job'.pc = "idle"
        /\ hint' = [now |-> hint.now, since |-> {hint.now}]
        /\ mem' = [state |-> mem.state, current |-> job.m, next |-> mem.next + 1]
        /\ truth' = {Effect(Table(mem.current), job.adds, job.removes, job.dvs)}
    BY <1>4 DEF Ack, Idle, IInv, MemTyped
  <2>2. /\ mem.state = "open" /\ hint.now = mem.next /\ mem.next \in Nat /\ job.m = Version(hint.now)
        /\ truth' = {Table(Version(hint.now))}
    BY <2>1, CommitOpen, PastRename
  <2>3. job.m.id = mem.next
    BY <2>1, PastRename DEF Apply
  <2>4. PICK n, m : n = hint.now /\ m = job.m
    OBVIOUS
  <2>5. /\ n = hint'.now /\ m = mem'.current /\ m.id = n /\ m = Version(n)
        /\ Version(n)' = Version(n) /\ Table(Version(n))' = Table(Version(n))
    BY <1>0, <2>1, <2>2, <2>3, <2>4
  <2>6. Version(n)' = m /\ Table(m)' = Table(Version(n))
    <3>1. Version(n)' = m
      BY <2>5
    <3> QED
      BY <2>5, <3>1
  <2>7. ~Renamed'
    BY <2>1 DEF Renamed
  <2>8. Table(mem.current)' \in truth' /\ truth' = {Table(Version(hint.now))'}
    BY <2>2, <2>4, <2>5, <2>6
  <2>9. /\ mem'.current = Version(mem.current.id)' /\ mem'.next = mem'.current.id + 1 /\ mem'.state = "open"
        /\ hint'.since \subseteq {hint'.now} /\ hint'.now = mem'.current.id
    BY <2>1, <2>2, <2>3, <2>4, <2>5, <2>6
  <2> QED
    BY <2>7, <2>8, <2>9 DEF MemInv
<1>5. CASE Crash
  <2>1. /\ mem.state = "open" /\ mem'.state = "closed" /\ mem'.current = Empty /\ mem'.next = 1
        /\ job'.pc = "idle" /\ metadata' \in AfterCrash(metadata)
        /\ mem.current.id # 0 \/ \A v \in Snapshots : metadata[v].data = "none"
    BY <1>5 DEF Crash, SafeRegime, Idle
  <2>2. PICK h \in hint.since : hint' = [now |-> h, since |-> {h}]
    BY <1>5 DEF Crash
  <2>3. mem.current.id # 0 => h # 0
    BY <2>1, CrashHint
  <2>4. h = 0 => \A v \in Snapshots : metadata'[v].data = "none"
    BY <2>1, <2>3, CrashManifests DEF IInv, FilesTyped
  <2>5. ~Renamed'
    BY <2>1 DEF Renamed
  <2>6. mem'.next = mem'.current.id + 1
    BY <2>1 DEF Empty
  <2>7. hint'.now = h /\ hint'.since \subseteq {hint'.now}
    BY <2>2
  <2> QED
    BY <2>1, <2>4, <2>5, <2>6, <2>7 DEF MemInv
<1>6. CASE Open
  <2>1. /\ mem' = [state |-> "open", current |-> Version(hint.now), next |-> hint.now + 1]
        /\ Version(hint.now).id = hint.now
        /\ truth' = truth \cap {Table(Version(hint.now))}
        /\ job.pc = "idle" /\ mem.state = "closed" /\ hint' = hint /\ job' = job
    BY <1>6, OpenAccepts
  <2>2. Table(Version(hint.now)) \in truth /\ hint.since \subseteq {hint.now}
    BY <2>1 DEF IInv, HintInv, MemInv, Renamed
  <2>3. PICK n, m : n = hint.now /\ m = Version(hint.now)
    OBVIOUS
  <2>5. /\ n = hint'.now /\ m = mem'.current /\ m.id = n /\ m = Version(n)
        /\ Version(n)' = Version(n) /\ Table(Version(n))' = Table(Version(n))
    BY <1>0, <2>1, <2>3
  <2>6. Version(n)' = m /\ Table(m)' = Table(Version(n))
    <3>1. Version(n)' = m
      BY <2>5
    <3> QED
      BY <2>5, <3>1
  <2>7. ~Renamed'
    BY <2>1 DEF Renamed
  <2>8. Table(mem.current)' \in truth' /\ truth' = {Table(Version(hint.now))'}
    BY <2>1, <2>2, <2>3, <2>5, <2>6
  <2>9. /\ mem'.current = Version(mem.current.id)' /\ mem'.next = mem'.current.id + 1 /\ mem'.state = "open"
        /\ hint'.since \subseteq {hint'.now} /\ hint'.now = mem'.current.id
    BY <2>1, <2>2, <2>3, <2>5, <2>6
  <2> QED
    BY <2>7, <2>8, <2>9 DEF MemInv
<1>7. CASE mem.state = "open" /\ (Begin \/ WritePuffin \/ SyncPuffin \/ WriteManifest \/ SyncManifest
                                   \/ SyncMetadata \/ WriteHint \/ SyncHint \/ Fail)
  <2>1. UNCHANGED <<hint, mem, truth>>
    BY <1>7 DEF Begin, WritePuffin, SyncPuffin, WriteManifest, SyncManifest, SyncMetadata, WriteHint,
                SyncHint, Fail
  <2>2. job.pc # "sync_base"
    BY <1>7 DEF Begin, WritePuffin, SyncPuffin, WriteManifest, SyncManifest, SyncMetadata, WriteHint,
                SyncHint, Fail, SafeRegime
  <2>3. job'.pc # "sync_base"
    <3>1. job = [pc |-> job.pc, adds |-> job.adds, removes |-> job.removes, dvs |-> job.dvs,
                 todo |-> job.todo, written |-> job.written, m |-> job.m]
      BY DEF IInv, JobTyped
    <3>2. CASE Begin \/ Fail
      BY <3>2 DEF Begin, Fail, Idle
    <3>3. CASE ~Begin /\ ~Fail
      BY <1>7, <3>1, <3>3 DEF WritePuffin, SyncPuffin, WriteManifest, SyncManifest, SyncMetadata, WriteHint,
                SyncHint
    <3> QED
      BY <3>2, <3>3
  <2> QED
    BY <1>1, <1>7, <2>1, <2>2, <2>3
<1>8. CASE UNCHANGED <<metadata, puffins, hint, tmp, mem, job, files, truth, bad>>
  <2>1. CASE mem.state = "open" /\ job.pc # "sync_base"
    BY <1>1, <1>8, <2>1
  <2>2. CASE Renamed
    <3>1. /\ hint.now = mem.next /\ mem.current = Version(mem.current.id)
          /\ Table(mem.current) \in truth /\ mem.next = mem.current.id + 1
          /\ hint.since \subseteq {mem.current.id, mem.next} /\ mem.state = "open"
          /\ mem.current.id \in Nat
      BY <2>2 DEF IInv, MemInv, Renamed, MemTyped, Manifests
    <3>2. PICK m : m = mem.current
      OBVIOUS
    <3>3. m = mem'.current /\ Version(m.id)' = m /\ Table(m)' = Table(m)
      <4>1. Version(m.id)' = Version(m.id) /\ Version(m.id) = m /\ m = mem'.current
        BY <1>0, <1>8, <3>1, <3>2
      <4>2. Table(Version(m.id))' = Table(Version(m.id))
        BY <1>0, <3>1, <3>2
      <4> QED
        BY <4>1, <4>2
    <3>4. Renamed'
      BY <1>8, <2>2 DEF Renamed
    <3>5. Table(mem.current)' \in truth'
      BY <1>8, <3>1, <3>2, <3>3
    <3>6. /\ mem'.next = mem'.current.id + 1 /\ hint'.now = mem'.next /\ mem'.state = "open"
          /\ hint'.since \subseteq {mem'.current.id, mem'.next}
          /\ mem'.current = Version(mem.current.id)'
      BY <1>8, <3>1, <3>2, <3>3
    <3> QED
      BY <3>4, <3>5, <3>6 DEF MemInv
  <2>3. CASE mem.state = "closed"
    <3>1. ~Open
      BY <1>8, <2>3, OpenAccepts
    <3> QED
      BY <1>2, <2>3, <3>1
  <2>4. mem.state \in {"open", "closed"}
    BY DEF IInv, MemTyped
  <2> QED
    BY <2>1, <2>2, <2>3, <2>4 DEF Renamed
<1>9. mem.state \in {"open", "closed"}
  BY DEF IInv, MemTyped
<1> QED
  BY <1>2, <1>3, <1>4, <1>5, <1>6, <1>7, <1>8, <1>9 DEF Next, RefreshHint, RefreshLoad

(* The vectors a commit has to merge with do not change under it. *)
LEMMA MergedStays ==
  ASSUME IInv, SafeRegime, Next, mem.state = "open", mem' = mem, job'.dvs = job.dvs, NEW f
  PROVE  MergedMarks(f)' = MergedMarks(f)
<1>1. \A e \in mem.current.entries : Marks(e)' = Marks(e)
  <2> SUFFICES ASSUME NEW e \in mem.current.entries
               PROVE  Marks(e)' = Marks(e)
    OBVIOUS
  <2>1. /\ e.file \in 1 .. MaxFiles
        /\ e.dv # 0 => e.dv \in 1 .. hint.now /\ Durable(puffins[<<e.file, e.dv>>])
    <3>1. /\ mem.current.id \in 0 .. hint.now /\ mem.current.id \in Nat /\ hint.now \in Nat
          /\ files \in 0 .. MaxFiles /\ MaxFiles \in Nat /\ Sound(mem.current)
      BY CurrentSound, CatalogAssumption DEF IInv, HintInv, FilesTyped, Manifests
    <3>2. e.file \in 1 .. files /\ (e.dv # 0 => e.dv \in 1 .. mem.current.id /\ Durable(puffins[<<e.file, e.dv>>]))
      BY <3>1 DEF Sound
    <3> QED
      BY <3>1, <3>2
  <2>2. e.dv # 0 => puffins'[<<e.file, e.dv>>] = puffins[<<e.file, e.dv>>]
    BY <2>1, LeavesCommitted
  <2> QED
    BY <2>2 DEF Marks
<1>2. {Marks(e)' : e \in Entry(mem.current, f)} = {Marks(e) : e \in Entry(mem.current, f)}
  BY <1>1 DEF Entry
<1>3. Entry(mem.current, f)' = Entry(mem.current, f)
  BY DEF Entry
<1> QED
  BY <1>2, <1>3 DEF MergedMarks

(* What the commit has written so far is there, and on disk where the code   *)
(* has synced it.                                                            *)
LEMMA StepJobInv ==
  ASSUME IInv, SafeRegime, Next
  PROVE  JobInv'
<1>0. /\ job = [pc |-> job.pc, adds |-> job.adds, removes |-> job.removes, dvs |-> job.dvs,
                todo |-> job.todo, written |-> job.written, m |-> job.m]
      /\ job.todo \subseteq 1 .. MaxFiles /\ job.written \subseteq 1 .. MaxFiles
      /\ job.pc # "idle" => mem.state = "open" /\ mem.next \in Snapshots
      /\ puffins \in [(1 .. MaxFiles) \X Snapshots -> PuffinFiles]
      /\ metadata \in [Snapshots -> ManifestFiles]
  BY CommitOpen DEF IInv, JobTyped, FilesTyped
<1>1. CASE job'.pc = "idle"
  BY <1>1 DEF JobInv
<1>2. CASE Begin
  <2>1. PICK adds \in {{}, {files + 1}} :
           /\ job'.pc = "puffins" /\ job'.adds = adds /\ job'.written = {}
           /\ files' = files + Cardinality(adds) /\ mem.next \in Snapshots /\ mem' = mem
           /\ mem.state = "open"
    <3>1. PICK adds \in {{}, {files + 1}} : \E removes, marked, dvs :
             /\ job' = [pc |-> "puffins", adds |-> adds, removes |-> removes, dvs |-> dvs,
                        todo |-> marked, written |-> {}, m |-> Empty]
             /\ files' = files + Cardinality(adds)
      BY <1>2, Zenon DEF Begin
    <3>2. job'.pc = "puffins" /\ job'.adds = adds /\ job'.written = {}
      BY <3>1
    <3> QED
      BY <1>2, <3>1, <3>2 DEF Begin
  <2>2. files \in Nat
    BY CatalogAssumption DEF IInv, FilesTyped
  <2>3. Cardinality({files + 1}) = 1
    BY FS_Singleton
  <2>4. \A e \in mem.current.entries : e.file \in 1 .. files
    BY <2>1, CurrentSound DEF Sound
  <2>5. job'.adds = {} \/ (job'.adds = {files'} /\ files' # 0 /\ \A e \in mem'.current.entries : e.file < files')
    <3>1. CASE adds = {}
      BY <2>1, <3>1
    <3>2. CASE adds = {files + 1}
      <4>1. files' = files + 1 /\ job'.adds = {files + 1}
        BY <2>1, <2>3, <3>2
      <4>2. \A e \in mem.current.entries : e.file < files + 1
        BY <2>2, <2>4
      <4>3. files + 1 # 0 /\ mem' = mem
        BY <2>1, <2>2
      <4> QED
        BY <4>1, <4>2, <4>3
    <3> QED
      BY <2>1, <3>1, <3>2
  <2> QED
    BY <2>1, <2>5 DEF JobInv
<1>3. CASE WritePuffin
  <2>1. PICK f \in job.todo :
           /\ 0 \notin MergedMarks(f)
           /\ puffins' = [puffins EXCEPT ![<<f, mem.next>>] =
                 [data |-> "whole", synced |-> FALSE, linked |-> @.linked, marks |-> MergedMarks(f)]]
           /\ job' = [job EXCEPT !.pc = "sync_puffin", !.written = @ \cup {f}, !.todo = @ \ {f}]
    BY <1>3 DEF WritePuffin, Unreadable
  <2>2. job.pc = "puffins" /\ UNCHANGED <<mem, files, metadata>>
    BY <1>3 DEF WritePuffin
  <2>3. job' = [pc |-> "sync_puffin", adds |-> job.adds, removes |-> job.removes, dvs |-> job.dvs,
                todo |-> job.todo \ {f}, written |-> job.written \cup {f}, m |-> job.m]
    BY <1>0, <2>1
  <2>4. \A g : MergedMarks(g)' = MergedMarks(g)
    BY <1>0, <2>2, <2>3, MergedStays
  <2>5. /\ job.adds = {} \/ (job.adds = {files} /\ files # 0 /\ \A e \in mem.current.entries : e.file < files)
        /\ job.written \cap job.todo = {} /\ mem.next \in Snapshots
        /\ \A g \in job.written :
              /\ puffins[<<g, mem.next>>].data = "whole"
              /\ puffins[<<g, mem.next>>].marks = MergedMarks(g) /\ 0 \notin MergedMarks(g)
    BY <2>2 DEF IInv, JobInv
  <2>6. puffins'[<<f, mem.next>>].data = "whole" /\ puffins'[<<f, mem.next>>].marks = MergedMarks(f)
    BY <1>0, <2>1, <2>5
  <2>7. \A g \in job.written : puffins'[<<g, mem.next>>] = puffins[<<g, mem.next>>]
    BY <1>0, <2>1, <2>5
  <2>8. \A g \in job'.written :
              /\ puffins'[<<g, mem'.next>>].data = "whole"
              /\ puffins'[<<g, mem'.next>>].marks = MergedMarks(g)' /\ 0 \notin MergedMarks(g)'
    BY <2>1, <2>2, <2>3, <2>4, <2>5, <2>6, <2>7
  <2>9. job'.written \cap job'.todo = {}
    BY <2>3, <2>5
  <2> QED
    BY <2>2, <2>3, <2>5, <2>8, <2>9 DEF JobInv
<1>4. CASE SyncPuffin
  <2>1. /\ job.pc = "sync_puffin" /\ UNCHANGED <<mem, files, metadata>>
        /\ puffins' = [p \in DOMAIN puffins |->
              IF p[1] \in job.written /\ p[2] = mem.next
              THEN [puffins[p] EXCEPT !.synced = TRUE, !.linked = TRUE] ELSE puffins[p]]
    BY <1>4 DEF SyncPuffin
  <2>2. job' = [pc |-> "puffins", adds |-> job.adds, removes |-> job.removes, dvs |-> job.dvs,
                todo |-> job.todo, written |-> job.written, m |-> job.m]
    BY <1>0, <1>4 DEF SyncPuffin
  <2>3. \A g : MergedMarks(g)' = MergedMarks(g)
    BY <1>0, <2>1, <2>2, MergedStays
  <2>4. /\ job.adds = {} \/ (job.adds = {files} /\ files # 0 /\ \A e \in mem.current.entries : e.file < files)
        /\ job.written \cap job.todo = {} /\ mem.next \in Snapshots
        /\ \A g \in job.written :
              /\ puffins[<<g, mem.next>>].data = "whole"
              /\ puffins[<<g, mem.next>>].marks = MergedMarks(g) /\ 0 \notin MergedMarks(g)
    BY <2>1 DEF IInv, JobInv
  <2>5. ASSUME NEW g \in job.written
        PROVE  /\ Durable(puffins'[<<g, mem.next>>])
               /\ puffins'[<<g, mem.next>>].marks = puffins[<<g, mem.next>>].marks
    <3>1. PICK p \in (1 .. MaxFiles) \X Snapshots : p = <<g, mem.next>>
      BY <1>0, <2>4
    <3>2. p[1] = g /\ p[2] = mem.next
      BY <3>1
    <3>3. puffins'[p] = [puffins[p] EXCEPT !.synced = TRUE, !.linked = TRUE]
      BY <1>0, <2>1, <3>1, <3>2
    <3>4. puffins[p] \in PuffinFiles /\ puffins[p].data = "whole"
      BY <1>0, <2>4, <3>1
    <3>5. Durable(puffins'[p]) /\ puffins'[p].marks = puffins[p].marks
      BY <3>3, <3>4 DEF PuffinFiles, Durable
    <3> QED
      BY <3>1, <3>5
  <2>6. \A g \in job'.written :
              /\ puffins'[<<g, mem'.next>>].data = "whole"
              /\ puffins'[<<g, mem'.next>>].marks = MergedMarks(g)' /\ 0 \notin MergedMarks(g)'
              /\ Durable(puffins[<<g, mem.next>>])'
    <3>1. job'.written = job.written /\ mem' = mem
      BY <2>1, <2>2
    <3>2. \A g \in job.written : Durable(puffins[<<g, mem.next>>])' /\ puffins'[<<g, mem.next>>].data = "whole"
      BY <2>5, <3>1 DEF Durable
    <3>3. \A g \in job.written : puffins'[<<g, mem.next>>].marks = MergedMarks(g)' /\ 0 \notin MergedMarks(g)'
      BY <2>3, <2>4, <2>5
    <3> QED
      BY <3>1, <3>2, <3>3
  <2> QED
    BY <2>1, <2>2, <2>4, <2>6 DEF JobInv
<1>5. CASE WriteManifest \/ SyncManifest \/ SyncMetadata \/ WriteHint \/ SyncHint \/ RenameHint
  <2>1. UNCHANGED <<puffins, mem, files>> /\ job.pc \notin {"idle", "sync_puffin"}
    BY <1>5 DEF WriteManifest, SyncManifest, SyncMetadata, WriteHint, SyncHint, RenameHint
  <2>2. /\ job'.adds = job.adds /\ job'.removes = job.removes /\ job'.dvs = job.dvs /\ job'.todo = job.todo
        /\ job'.written = job.written
        /\ job'.pc \notin {"idle", "puffins", "sync_puffin"}
    BY <1>0, <1>5 DEF WriteManifest, SyncManifest, SyncMetadata, WriteHint, SyncHint, RenameHint
  <2>3. \A g : MergedMarks(g)' = MergedMarks(g)
    BY <1>0, <2>1, <2>2, MergedStays
  <2>4. /\ job.adds = {} \/ (job.adds = {files} /\ files # 0 /\ \A e \in mem.current.entries : e.file < files)
        /\ job.written \cap job.todo = {} /\ mem.next \in Snapshots
        /\ \A g \in job.written :
              /\ puffins[<<g, mem.next>>].data = "whole"
              /\ puffins[<<g, mem.next>>].marks = MergedMarks(g) /\ 0 \notin MergedMarks(g)
              /\ Durable(puffins[<<g, mem.next>>])
    BY <2>1 DEF IInv, JobInv
  <2>5. \A g \in job'.written :
              /\ puffins'[<<g, mem'.next>>].data = "whole"
              /\ puffins'[<<g, mem'.next>>].marks = MergedMarks(g)' /\ 0 \notin MergedMarks(g)'
              /\ Durable(puffins[<<g, mem.next>>])'
    BY <2>1, <2>2, <2>3, <2>4 DEF Durable
  <2>6. Apply(mem.current)' = Apply(mem.current)
    BY <2>1, <2>2 DEF Apply
  <2>7. /\ job'.todo = {} /\ job'.m = Apply(mem.current)
        /\ metadata'[mem.next].data = "whole" /\ metadata'[mem.next].m = job'.m
        /\ job'.pc # "sync_manifest" => metadata'[mem.next].synced
        /\ job'.pc \notin {"sync_manifest", "sync_metadata"} => metadata'[mem.next].linked
        /\ job'.pc = "rename" => tmp'
    <3>1. metadata[mem.next] \in ManifestFiles
      BY <1>0, <2>4
    <3>2. CASE WriteManifest
      <4>1. /\ job.todo = {} /\ job' = [job EXCEPT !.pc = "sync_manifest", !.m = Apply(mem.current)]
            /\ metadata' = [metadata EXCEPT ![mem.next] =
                  [data |-> "whole", synced |-> FALSE, linked |-> @.linked, m |-> job'.m]]
        BY <3>2 DEF WriteManifest
      <4>2. job'.pc = "sync_manifest" /\ job'.m = Apply(mem.current)
        BY <1>0, <4>1
      <4>3. metadata'[mem.next].data = "whole" /\ metadata'[mem.next].m = job'.m
        BY <1>0, <2>4, <4>1
      <4> QED
        BY <2>2, <4>1, <4>2, <4>3
    <3>3. CASE ~WriteManifest
      <4>1. /\ job.todo = {} /\ job.m = Apply(mem.current)
            /\ metadata[mem.next].data = "whole" /\ metadata[mem.next].m = job.m
            /\ job.pc # "sync_manifest" => metadata[mem.next].synced
            /\ job.pc \notin {"sync_manifest", "sync_metadata"} => metadata[mem.next].linked
        <5>1. job.pc \notin {"idle", "puffins", "sync_puffin"}
          BY <1>5, <3>3 DEF SyncManifest, SyncMetadata, WriteHint, SyncHint, RenameHint
        <5> QED
          BY <5>1 DEF IInv, JobInv
      <4>2. job'.m = job.m
        BY <1>0, <1>5, <3>3 DEF SyncManifest, SyncMetadata, WriteHint, SyncHint, RenameHint
      <4>3. CASE SyncManifest
        <5>1. /\ metadata' = [metadata EXCEPT ![mem.next].synced = TRUE] /\ job'.pc = "sync_metadata"
          BY <1>0, <4>3 DEF SyncManifest
        <5>2. /\ metadata'[mem.next].data = "whole" /\ metadata'[mem.next].m = job.m
              /\ metadata'[mem.next].synced
          BY <1>0, <2>4, <3>1, <4>1, <5>1 DEF ManifestFiles
        <5> QED
          BY <2>2, <4>1, <4>2, <5>1, <5>2
      <4>4. CASE SyncMetadata
        <5>1. /\ metadata' = [metadata EXCEPT ![mem.next].linked = TRUE] /\ job'.pc = "write_hint"
              /\ job.pc = "sync_metadata"
          BY <1>0, <4>4 DEF SyncMetadata
        <5>2. /\ metadata'[mem.next].data = "whole" /\ metadata'[mem.next].m = job.m
              /\ metadata'[mem.next].synced /\ metadata'[mem.next].linked
          BY <1>0, <2>4, <3>1, <4>1, <5>1 DEF ManifestFiles
        <5> QED
          BY <2>2, <4>1, <4>2, <5>1, <5>2
      <4>5. CASE WriteHint \/ SyncHint \/ RenameHint
        <5>1. /\ metadata' = metadata /\ job.pc \notin {"sync_manifest", "sync_metadata"}
          BY <4>5 DEF WriteHint, SyncHint, RenameHint
        <5>2. job'.pc = "rename" => tmp'
          BY <1>0, <4>5 DEF WriteHint, SyncHint, RenameHint
        <5> QED
          BY <2>2, <4>1, <4>2, <5>1, <5>2
      <4> QED
        BY <1>5, <3>3, <4>3, <4>4, <4>5
    <3> QED
      BY <3>2, <3>3
  <2> QED
    BY <2>1, <2>2, <2>4, <2>5, <2>6, <2>7 DEF JobInv
<1>6. CASE UNCHANGED <<metadata, puffins, hint, tmp, mem, job, files, truth, bad>>
  <2>1. SUFFICES ASSUME job.pc # "idle" PROVE JobInv'
    BY <1>1, <1>6
  <2>2. \A g : MergedMarks(g)' = MergedMarks(g)
    BY <1>0, <1>6, <2>1, MergedStays
  <2>3. Apply(mem.current)' = Apply(mem.current)
    BY <1>6 DEF Apply
  <2> QED
    BY <1>6, <2>1, <2>2, <2>3 DEF IInv, JobInv, Durable
<1>7. CASE Open
  BY <1>1, <1>7, OpenAccepts
<1>8. CASE Ack \/ Fail \/ Crash
  BY <1>1, <1>8 DEF Ack, Fail, Crash, Idle
<1> QED
  BY <1>2, <1>3, <1>4, <1>5, <1>6, <1>7, <1>8 DEF Next, RefreshHint, RefreshLoad

(* The hint only moves forward while the catalog is open. *)
LEMMA HintGrows ==
  ASSUME IInv, SafeRegime, Next, ~Crash
  PROVE  hint.now \in Nat /\ hint'.now \in Nat /\ hint.now <= hint'.now
<1>0. hint.now \in Nat
  BY CatalogAssumption DEF IInv, HintInv
<1>1. CASE RenameHint
  <2>1. hint'.now = mem.next /\ job.pc = "rename"
    BY <1>1 DEF RenameHint
  <2> QED
    BY <2>1, WorksAbove
<1>2. CASE ~RenameHint
  <2>1. hint'.now = hint.now
    BY <1>2 DEF Next, Begin, WritePuffin, SyncPuffin, WriteManifest, SyncManifest, SyncMetadata, WriteHint,
                SyncHint, Ack, Fail, Open, RefreshHint, RefreshLoad, IInv, MemTyped
  <2> QED
    BY <1>0, <2>1
<1> QED
  BY <1>1, <1>2

(* After a crash the reading process starts from nothing. *)
LEMMA CrashReplica ==
  ASSUME IInv, Crash
  PROVE  ReplicaInv'
<1>1. replica' = [shown |-> 0, calls |-> [r \in Refreshers |-> [pc |-> "idle", ver |-> 0]]]
  BY DEF Crash
<1>2. PICK h \in hint.since : hint' = [now |-> h, since |-> {h}]
  BY DEF Crash
<1>3. h \in 0 .. hint.now /\ hint.now \in Nat /\ hint'.now = h
  BY <1>2, CrashHint, CatalogAssumption DEF Crash, IInv, HintInv
<1> QED
  BY <1>1, <1>3 DEF ReplicaInv

(* A call of refresh only ever holds versions that are kept. *)
LEMMA StepReplicaInv ==
  ASSUME IInv, SafeRegime, Next
  PROVE  ReplicaInv'
<1>0. /\ replica = [shown |-> replica.shown, calls |-> replica.calls]
      /\ replica.calls \in [Refreshers -> [pc : {"idle", "load", "failed"}, ver : Int]]
      /\ hint.now \in Nat /\ replica.shown \in 0 .. hint.now
  BY CatalogAssumption DEF IInv, ReplicaTyped, ReplicaInv, HintInv
<1>1. CASE replica' = replica
  <2>1. CASE Crash
    BY <2>1, <1>1, CrashReplica
  <2>2. CASE ~Crash
    <3>1. hint'.now \in Nat /\ hint.now <= hint'.now
      BY <1>0, <2>2, HintGrows
    <3> QED
      BY <1>0, <1>1, <3>1 DEF IInv, ReplicaInv
  <2> QED
    BY <2>1, <2>2
<1>2. CASE Crash
  BY <1>2, CrashReplica
<1>3. ASSUME NEW r \in Refreshers, RefreshHint(r)
      PROVE  ReplicaInv'
  <2>1. /\ hint' = hint /\ hint.now \in Snapshots
        /\ replica' = [replica EXCEPT !.calls[r] = [pc |-> "load", ver |-> hint.now]]
    BY <1>3 DEF RefreshHint
  <2>2. replica'.shown = replica.shown /\ replica'.calls = [replica.calls EXCEPT ![r] = [pc |-> "load", ver |-> hint.now]]
    BY <1>0, <2>1
  <2>3. replica'.calls[r].pc = "load" /\ replica'.calls[r].ver = hint.now
    BY <1>0, <2>2
  <2>4. \A q \in Refreshers : q # r => replica'.calls[q] = replica.calls[q]
    BY <1>0, <2>2
  <2>5. hint.now \in 1 .. hint.now /\ replica.shown <= hint.now
    BY <1>0, <2>1, CatalogAssumption DEF Snapshots
  <2>6. \A q \in Refreshers :
          /\ replica'.calls[q].pc \in {"idle", "load"}
          /\ replica'.calls[q].pc = "load" =>
                /\ replica'.calls[q].ver \in 1 .. hint.now
                /\ OneRefresher => replica.shown <= replica'.calls[q].ver
    BY <2>3, <2>4, <2>5 DEF IInv, ReplicaInv
  <2> QED
    BY <1>0, <2>1, <2>2, <2>6 DEF ReplicaInv
<1>4. ASSUME NEW r \in Refreshers, RefreshLoad(r)
      PROVE  ReplicaInv'
  <2>1. PICK v : v = replica.calls[r].ver
    OBVIOUS
  <2>2. v \in 1 .. hint.now /\ hint' = hint /\ (OneRefresher => replica.shown <= v)
    BY <1>4, <2>1 DEF RefreshLoad, IInv, ReplicaInv
  <2>3. Kept(v)
    BY <2>2 DEF IInv, HintInv
  <2>4. /\ metadata[v].data = "whole"
        /\ \A e \in metadata[v].m.entries : e.dv # 0 => puffins[<<e.file, e.dv>>].data # "none"
    BY <2>3 DEF Kept, Sound, Durable
  <2>5. replica' = [shown |-> v, calls |-> [replica.calls EXCEPT ![r].pc = "idle"]]
    BY <1>4, <2>1, <2>4 DEF RefreshLoad
  <2>6. replica'.shown = v /\ replica'.calls[r].pc = "idle"
        /\ \A q \in Refreshers : q # r => replica'.calls[q] = replica.calls[q]
    BY <1>0, <2>5
  <2>7. OneRefresher => \A q \in Refreshers : q = r
    BY DEF OneRefresher
  <2>8. \A q \in Refreshers :
          /\ replica'.calls[q].pc \in {"idle", "load"}
          /\ replica'.calls[q].pc = "load" =>
                /\ replica'.calls[q].ver \in 1 .. hint.now
                /\ OneRefresher => v <= replica'.calls[q].ver
    BY <2>6, <2>7 DEF IInv, ReplicaInv
  <2> QED
    BY <1>0, <2>2, <2>6, <2>8 DEF ReplicaInv
<1> QED
  BY <1>1, <1>2, <1>3, <1>4
     DEF Next, Begin, WritePuffin, SyncPuffin, WriteManifest, SyncManifest, SyncMetadata, WriteHint,
         SyncHint, RenameHint, Ack, Fail, Open

(* A fresh table, and a table that was just created, satisfy the invariant.  *)
LEMMA InitInv ==
  ASSUME Init
  PROVE  IInv
<1>0. MaxSnapshots \in Nat /\ MaxFiles \in Nat
  BY CatalogAssumption
<1>1. Empty \in Manifests /\ Empty.id = 0 /\ Empty.entries = {}
  BY DEF Empty, Manifests
<1>2. FilesTyped
  <2>1. NoManifest \in ManifestFiles
    BY <1>1 DEF NoManifest, ManifestFiles, Data
  <2>2. NoPuffin \in PuffinFiles
    BY DEF NoPuffin, PuffinFiles, Data
  <2> QED
    BY <1>0, <2>1, <2>2 DEF Init, FilesTyped
<1>3. MemTyped
  <2>1. hint = [now |-> 0, since |-> {0}] /\ tmp = FALSE
        /\ mem = [state |-> "open", current |-> Empty, next |-> 1]
    BY DEF Init
  <2>2. hint = [now |-> hint.now, since |-> hint.since] /\ hint.since \subseteq Int /\ hint.now \in hint.since
    BY <2>1
  <2>3. mem \in [state : {"open", "closed"}, current : Manifests, next : Nat]
    BY <1>1, <2>1
  <2> QED
    BY <2>1, <2>2, <2>3 DEF MemTyped
<1>4. JobTyped
  <2>1. <<>> \in [{} -> SUBSET Nat]
    OBVIOUS
  <2>2. job = Idle
    BY DEF Init
  <2> QED
    BY <2>1, <2>2, NothingTyped DEF JobTyped, Idle, Steps
<1>5. Table(Version(0)) = [f \in {} |-> {}] /\ Version(0) = Empty
  BY <1>1 DEF Version, Table
<1>6. HintInv
  <2>1. hint.now = 0 /\ truth = {[f \in {} |-> {}]}
    BY DEF Init
  <2> QED
    BY <1>0, <1>5, <2>1 DEF HintInv
<1>7. MemInv
  <2>1. /\ hint.now = 0 /\ hint.since = {0} /\ mem.state = "open" /\ mem.current = Empty /\ mem.next = 1
        /\ job.pc = "idle" /\ truth = {[f \in {} |-> {}]}
    BY DEF Init, Idle
  <2>2. ~Renamed
    BY <2>1 DEF Renamed
  <2>3. Table(mem.current) \in truth /\ truth = {Table(Version(hint.now))} /\ mem.current = Version(mem.current.id)
    BY <1>1, <1>5, <2>1
  <2> QED
    BY <1>1, <2>1, <2>2, <2>3 DEF MemInv
<1>8. JobInv
  BY DEF Init, Idle, JobInv
<1>9. ReplicaInv /\ ReplicaTyped
  BY DEF Init, ReplicaInv, ReplicaTyped
<1> QED
  BY <1>2, <1>3, <1>4, <1>6, <1>7, <1>8, <1>9 DEF IInv

(* A stutter changes nothing. *)
LEMMA StutterInv ==
  ASSUME IInv, UNCHANGED vars
  PROVE  IInv'
<1>0. UNCHANGED <<metadata, puffins, hint, tmp, mem, job, files, truth, replica, bad>>
  BY DEF vars
<1>1. \A e : Marks(e)' = Marks(e)
  BY <1>0 DEF Marks
<1>2. \A m : Table(m)' = Table(m)
  <2> SUFFICES ASSUME NEW m PROVE Table(m)' = Table(m)
    OBVIOUS
  <2>1. \A f \in {e.file : e \in m.entries} :
           Marks(CHOOSE e \in m.entries : e.file = f)' = Marks(CHOOSE e \in m.entries : e.file = f)
    BY <1>1
  <2> QED
    BY <2>1 DEF Table
<1>3. FilesTyped' /\ MemTyped' /\ JobTyped' /\ ReplicaTyped' /\ ReplicaInv'
  BY <1>0 DEF IInv, FilesTyped, MemTyped, JobTyped, ReplicaTyped, ReplicaInv
<1>4. HintInv'
  <2>1. \A v : Kept(v)' <=> Kept(v)
    BY <1>0, <1>1 DEF Kept, Sound, Durable
  <2>2. PICK n, m : n = hint.now /\ m = Version(n)
    OBVIOUS
  <2>3. n = hint'.now /\ m = Version(n)' /\ truth' = truth /\ Table(m)' = Table(m)
    BY <1>0, <1>2, <2>2 DEF Version
  <2>4. n \in 0 .. MaxSnapshots /\ Table(m) \in truth /\ \A v \in 1 .. n : Kept(v)
    BY <2>2 DEF IInv, HintInv
  <2>5. Table(Version(hint.now))' \in truth'
    BY <2>3, <2>4
  <2> QED
    BY <2>1, <2>3, <2>4, <2>5 DEF HintInv
<1>5. MemInv'
  <2>1. \A v : Version(v)' = Version(v)
    BY <1>0 DEF Version
  <2>2. PICK m, w : m = mem.current /\ w = Version(hint.now)
    OBVIOUS
  <2>3. m = mem'.current /\ w = Version(hint.now)' /\ m.id = mem'.current.id /\ hint' = hint /\ mem' = mem
        /\ truth' = truth /\ job' = job /\ metadata' = metadata
    BY <1>0, <2>1, <2>2
  <2>4. Table(mem.current)' = Table(m) /\ Table(Version(hint.now))' = Table(w)
    BY <1>2, <2>3
  <2>5. Renamed' <=> Renamed
    BY <2>3 DEF Renamed
  <2>6. Version(mem.current.id)' = Version(mem.current.id)
    BY <2>1, <2>3
  <2> QED
    BY <2>2, <2>3, <2>4, <2>5, <2>6 DEF IInv, MemInv
<1>6. JobInv'
  <2>1. \A f : MergedMarks(f)' = MergedMarks(f)
    BY <1>0 DEF MergedMarks, Marks, Entry
  <2>2. Apply(mem.current)' = Apply(mem.current)
    BY <1>0 DEF Apply
  <2> QED
    BY <1>0, <2>1, <2>2 DEF IInv, JobInv, Durable
<1> QED
  BY <1>3, <1>4, <1>5, <1>6 DEF IInv

(* The invariant is inductive. *)
LEMMA StepInv ==
  ASSUME IInv, SafeRegime, [Next]_vars
  PROVE  IInv'
<1>1. CASE Next
  BY <1>1, StepFiles, StepMem, StepJob, StepReplica, StepHint, StepMemInv, StepJobInv, StepReplicaInv DEF IInv
<1>2. CASE UNCHANGED vars
  BY <1>2, StutterInv
<1> QED
  BY <1>1, <1>2

(* While the first commit is not cut short and the base directory syncs, the *)
(* versions up to the hint are durable, and the one it leads to holds an     *)
(* acknowledged table or that of the commit under way.                       *)
THEOREM CommittedStays == SafeRegime => (Spec => []IInv)
<1> SUFFICES ASSUME SafeRegime PROVE Spec => []IInv
  OBVIOUS
<1>1. Init => IInv
  BY InitInv
<1>2. IInv /\ [Next]_vars => IInv'
  BY StepInv
<1> QED
  BY <1>1, <1>2, PTL DEF Spec

(* The version in memory is sound, and every version before it is kept. *)
LEMMA RecoversHere ==
  ASSUME IInv
  PROVE  CatalogRecovers
<1>0. /\ mem.state \in {"open", "closed"} /\ mem.current \in Manifests /\ MaxSnapshots \in Nat
      /\ hint.now \in 0 .. MaxSnapshots /\ \A v \in 1 .. hint.now : Kept(v)
  BY CatalogAssumption DEF IInv, MemTyped, HintInv
<1>1. OpenSucceeds
  BY <1>0 DEF OpenSucceeds
<1>2. TableExact
  <2>1. mem.state = "open" => Table(mem.current) \in truth
    BY DEF IInv, MemInv
  <2>2. hint.now \in Snapshots => Version(hint.now) = metadata[hint.now].m
    BY CatalogAssumption DEF Version, Snapshots
  <2>3. Table(Version(hint.now)) \in truth
    BY DEF IInv, HintInv
  <2> QED
    BY <2>1, <2>2, <2>3 DEF TableExact
<1>3. CASE mem.state = "closed"
  <2>1. mem.current.id = 0 /\ mem.current.entries = {}
    BY <1>3 DEF IInv, MemInv, Empty
  <2> QED
    BY <1>1, <1>2, <2>1 DEF CatalogRecovers, RowIdsDisjoint, LineageWhole
<1>4. CASE mem.state = "open"
  <2>1. Sound(mem.current) /\ mem.current.id \in 0 .. hint.now /\ mem.current.id \in Nat
    BY <1>0, <1>4, CurrentSound DEF Manifests
  <2>2. RowIdsDisjoint
    BY <2>1 DEF Sound, RowIdsDisjoint
  <2>3. LineageWhole
    <3>1. SUFFICES ASSUME mem.current.id # 0 PROVE LineageWhole
      BY DEF LineageWhole
    <3> DEFINE line == 1 .. mem.current.id
    <3>2. line \in SUBSET Snapshots /\ mem.current.id \in line
      BY <1>0, <2>1, <3>1 DEF Snapshots
    <3>3. metadata[mem.current.id].m = mem.current
      <4>1. mem.current = Version(mem.current.id)
        BY <1>4 DEF IInv, MemInv
      <4> QED
        BY <3>1, <4>1 DEF Version
    <3>4. ASSUME NEW v \in line
          PROVE  /\ metadata[v].data = "whole" /\ metadata[v].m.id = v
                 /\ \/ metadata[v].m.parent = 0 /\ metadata[v].m.seq = 1
                    \/ /\ metadata[v].m.parent \in line /\ metadata[v].m.parent < v
                       /\ metadata[metadata[v].m.parent].m.seq + 1 = metadata[v].m.seq
      <4>1. v \in 1 .. hint.now /\ v \in Nat /\ v <= mem.current.id /\ hint.now \in Nat
        BY <1>0, <2>1
      <4>2. Kept(v)
        BY <1>0, <4>1
      <4>3. metadata[v].data = "whole" /\ metadata[v].m.id = v /\ metadata[v].m.parent = v - 1
            /\ metadata[v].m.seq = v
        BY <4>2 DEF Kept, Durable
      <4>4. CASE v = 1
        BY <4>3, <4>4
      <4>5. CASE v # 1
        <5>1. v - 1 \in line /\ v - 1 < v /\ v - 1 \in 1 .. hint.now
          BY <2>1, <4>1, <4>5
        <5>2. metadata[v - 1].m.seq = v - 1
          BY <1>0, <5>1 DEF Kept
        <5>3. metadata[v - 1].m.seq + 1 = v
          BY <4>1, <5>2
        <5> QED
          BY <4>3, <5>1, <5>3
      <4> QED
        BY <4>4, <4>5
    <3> HIDE DEF line
    <3>5. \A v \in line : LET m == metadata[v].m IN
                   /\ metadata[v].data = "whole" /\ m.id = v
                   /\ \/ m.parent = 0 /\ m.seq = 1
                      \/ m.parent \in line /\ m.parent < v /\ metadata[m.parent].m.seq + 1 = m.seq
      BY <3>4
    <3> QED
      BY <3>2, <3>3, <3>5 DEF LineageWhole
  <2> QED
    BY <1>1, <1>2, <2>2, <2>3 DEF CatalogRecovers
<1> QED
  BY <1>0, <1>3, <1>4

(* Commits, failures at any of their steps, retries under the same snapshot  *)
(* id and crashes in any order leave a catalog that open() accepts, with the *)
(* acknowledged table, row id ranges of its own for each file, and a lineage *)
(* that is whole.                                                            *)
THEOREM Recovery == SafeRegime => (Spec => []CatalogRecovers)
<1>1. IInv => CatalogRecovers
  BY RecoversHere
<1> QED
  BY <1>1, CommittedStays, PTL

(* The clean-up of a failed commit never takes a vector that the manifest    *)
(* the hint leads to refers to.                                              *)
THEOREM VectorsStay == SafeRegime => (Spec => []VectorsKept)
<1>1. IInv => VectorsKept
  <2> SUFFICES ASSUME IInv, hint.now \in Snapshots
               PROVE  \A e \in metadata[hint.now].m.entries :
                         e.dv # 0 => puffins[<<e.file, e.dv>>].data = "whole"
    BY DEF VectorsKept
  <2>1. hint.now \in 1 .. hint.now
    BY CatalogAssumption DEF Snapshots
  <2>2. Kept(hint.now)
    BY <2>1 DEF IInv, HintInv
  <2> QED
    BY <2>2 DEF Kept, Sound, Durable
<1> QED
  BY <1>1, CommittedStays, PTL

(* However many calls of refresh there are and whenever they read, the       *)
(* manifest and the vectors they go for are there.                           *)
THEOREM RefreshNeverFails == SafeRegime => (Spec => []RefreshServed)
<1>1. IInv => RefreshServed
  BY DEF IInv, ReplicaInv, RefreshServed
<1> QED
  BY <1>1, CommittedStays, PTL

(* Where calls of refresh come one after the other, the version a replica    *)
(* shows never steps back while the table is open.                           *)
THEOREM RefreshForward == SafeRegime /\ OneRefresher => (Spec => RefreshMonotone)
<1> SUFFICES ASSUME SafeRegime, OneRefresher PROVE Spec => RefreshMonotone
  OBVIOUS
<1>1. ASSUME IInv, Next
      PROVE  mem.state = "open" /\ mem'.state = "open" => replica'.shown >= replica.shown
  <2>1. replica.shown \in Nat
    <3>1. hint.now \in Nat /\ replica.shown \in 0 .. hint.now
      BY <1>1, CatalogAssumption DEF IInv, ReplicaInv, HintInv
    <3> QED
      BY <3>1
  <2>2. CASE replica' = replica \/ Crash
    BY <2>1, <2>2 DEF Crash
  <2>3. ASSUME NEW r \in Refreshers, RefreshHint(r)
        PROVE  replica'.shown = replica.shown
    BY <1>1, <2>3 DEF RefreshHint, IInv, ReplicaTyped
  <2>4. ASSUME NEW r \in Refreshers, RefreshLoad(r)
        PROVE  replica'.shown >= replica.shown
    <3>1. /\ replica'.shown \in {replica.calls[r].ver, replica.shown}
          /\ replica.calls[r].pc = "load"
      BY <2>4 DEF RefreshLoad
    <3>2. replica.shown <= replica.calls[r].ver /\ replica.calls[r].ver \in 1 .. hint.now
      BY <1>1, <3>1 DEF IInv, ReplicaInv
    <3> QED
      BY <2>1, <3>1, <3>2
  <2>5. replica' = replica \/ Crash \/ \E r \in Refreshers : RefreshHint(r) \/ RefreshLoad(r)
    BY <1>1 DEF Next, Begin, WritePuffin, SyncPuffin, WriteManifest, SyncManifest, SyncMetadata, WriteHint,
                SyncHint, RenameHint, Ack, Fail, Open
  <2>6. replica'.shown = replica.shown => replica'.shown >= replica.shown
    BY <2>1
  <2> QED
    BY <2>2, <2>3, <2>4, <2>5, <2>6
<1>2. IInv /\ [Next]_vars
        => [mem.state = "open" /\ mem'.state = "open" => replica'.shown >= replica.shown]_vars
  BY <1>1
<1> QED
  BY <1>2, CommittedStays, PTL DEF Spec, RefreshMonotone

=============================================================================
