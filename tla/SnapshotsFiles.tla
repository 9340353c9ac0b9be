---------------------------- MODULE SnapshotsFiles ----------------------------
(***************************************************************************)
(* The files of the installed version, of the manifest and of the pinned   *)
(* versions stay on disk, for every number of workers, readers, keys,      *)
(* writes and crashes.                                                     *)
(***************************************************************************)
EXTENDS SnapshotsTypes

----------------------------------------------------------------------------
(* Jobs that keep out of each other's way, and the installed version.       *)

\* Where a commit finds the last version installed.
Prompt == PromptInstall \/ ~JobsOverlap

(* A step of a worker other than a pick reserves nothing. *)
LEMMA OnlyPickReserves ==
  ASSUME BaseInv, NEW c \in Compactors, Compact(c), ~CompactPick(c)
  PROVE  \A d \in Compactors : Picked(d)' => Picked(d)
<1>1. \E j : Replaced(c, j) /\ (j.level = jobs[c].level \/ j.level = -1)
  <2>0. TypeOK /\ NoJob.level = -1
    BY DEF BaseInv, NoJob
  <2>1. CASE CompactMerge(c)
    BY <2>1, MergeReplaces
  <2>2. CASE CompactCommit(c)
    BY <2>2, CommitReplaces
  <2>3. CASE CompactInstall(c)
    BY <2>0, <2>3, InstallReplaces
  <2>4. CASE CompactEnqueue(c)
    BY <2>0, <2>4, EnqueueReplaces
  <2>5. CASE GcMark(c)
    BY <2>0, <2>5, MarkReplaces
  <2>6. CASE CompactFail(c) \/ GcSweep(c)
    BY <2>0, <2>6, EndReplaces
  <2> QED
    BY <2>1, <2>2, <2>3, <2>4, <2>5, <2>6 DEF Compact
<1> QED
  BY <1>1 DEF Replaced, Picked

\* Where no two jobs overlap in time, every step keeps flush and compaction
\* apart.
LEMMA ApartInductive ==
  ASSUME BaseInv, ~JobsOverlap, ApartInv, [Next]_vars
  PROVE  ApartInv'
<1>1. CASE UNCHANGED <<flush, jobs>>
  BY <1>1 DEF ApartInv, Picked
<1>2. CASE FlushCommit \/ FlushInstall \/ FlushDrop
  <2>1. UNCHANGED jobs /\ \A c \in Compactors : ~Picked(c)
    BY <1>2 DEF FlushCommit, FlushInstall, FlushDrop, Quiet, ApartInv
  <2> QED
    BY <2>1 DEF ApartInv, Picked
<1>3. ASSUME NEW c \in Compactors, CompactPick(c) PROVE ApartInv'
  <2>1. UNCHANGED flush /\ flush.pc = "idle" /\ \A d \in Compactors : ~Picked(d)
    BY <1>3 DEF CompactPick, Quiet
  <2>2. PICK j : Replaced(c, j)
    BY <1>3, PickReplaces, ZenonT(30) DEF BaseInv
  <2> QED
    BY <2>1, <2>2 DEF ApartInv, Replaced, Picked
<1>4. ASSUME NEW c \in Compactors, Compact(c), ~CompactPick(c) PROVE ApartInv'
  <2>1. UNCHANGED flush
    BY <1>4 DEF Compact, CompactMerge, CompactFail, CompactCommit, CompactInstall,
                CompactEnqueue, GcMark, GcSweep, GcSweepOf
  <2>2. \A d \in Compactors : Picked(d)' => Picked(d)
    BY <1>4, OnlyPickReserves
  <2> QED
    BY Zenon, <2>1, <2>2 DEF ApartInv
<1>5. CASE CrashReopen
  BY <1>5 DEF CrashReopen, ApartInv, Picked, NoJob
<1>6. CASE Write \/ \E r \in Readers : Pin(r) \/ Unpin(r)
  BY <1>1, <1>6 DEF Write, Pin, Unpin
<1>7. CASE UNCHANGED vars
  BY <1>1, <1>7 DEF vars
<1> QED
  BY <1>2, <1>3, <1>4, <1>5, <1>6, <1>7 DEF Next

(* A commit finds the last version installed. *)
LEMMA CommitFindsInstalled ==
  ASSUME BaseInv, Prompt, ~JobsOverlap => ApartInv, InstallInv,
         FlushCommit \/ \E c \in Compactors : CompactCommit(c)
  PROVE  installed = manifest /\ ~Installing
<1>1. \A c \in Compactors : jobs[c].pc \in {"commit", "install"} => Picked(c)
  BY DEF BaseInv, JobShape
<1>2. ~Installing
  <2>1. CASE PromptInstall
    BY <2>1, Zenon DEF FlushCommit, CompactCommit, CanCommit
  <2>2. CASE ~JobsOverlap /\ FlushCommit
    BY <1>1, <2>2 DEF FlushCommit, Quiet, Installing
  <2>3. ASSUME ~JobsOverlap, NEW c \in Compactors, CompactCommit(c) PROVE ~Installing
    <3>1. jobs[c].pc = "commit" /\ Picked(c)
      BY <1>1, <2>3, Zenon DEF CompactCommit
    <3> QED
      BY <1>1, <2>3, <3>1 DEF ApartInv, Installing
  <2> QED
    BY <2>1, <2>2, <2>3 DEF Prompt
<1> QED
  BY <1>2 DEF InstallInv

----------------------------------------------------------------------------
(* Which ids are where.                                                     *)

DiskInv == InstallInv /\ FreshInv /\ ServedInv /\ OutputInv

\* Apply leaves no file but those it kept and those it was given.
LEMMA ApplyIds ==
  ASSUME NEW m \in Version, NEW adds, NEW removes, NEW marks
  PROVE  Ids(Apply(m, adds, removes, marks).files) \subseteq (Ids(m.files) \ removes) \cup Ids(adds)
<1>1. ASSUME NEW f \in Apply(m, adds, removes, marks).files
      PROVE  f.id \in (Ids(m.files) \ removes) \cup Ids(adds)
  BY ApplyFiles DEF Ids
<1> QED
  BY <1>1 DEF Ids

\* A flush's commit keeps the files of every version on disk,
LEMMA FlushCommitDisk ==
  ASSUME BaseInv, Prompt, ~JobsOverlap => ApartInv, DiskInv, FlushCommit
  PROVE  DiskInv'
<1> USE DEF DiskInv
<1>1. installed = manifest /\ ~Installing /\ TypeOK
  BY CommitFindsInstalled DEF BaseInv
<1>2. /\ UNCHANGED <<installed, jobs, pending>>
      /\ disk' = disk \cup {next_id} /\ next_id' = next_id + 1
  BY DEF FlushCommit
<1>3. flush'.pc = "install" /\ flush'.version = manifest'
  <2>1. \E n : flush' = [pc |-> "install", upto |-> n, version |-> manifest']
    BY <1>1, FlushAdds, Zenon
  <2> QED
    BY <2>1
<1>4. Ids(manifest'.files) \subseteq Ids(manifest.files) \cup {next_id}
  <2>1. PICK file, marks : manifest' = Apply(manifest, {file}, {}, marks) /\ file.id = next_id
    BY <1>1, FlushAdds, Zenon
  <2>2. manifest \in Version
    BY <1>1 DEF TypeOK
  <2>3. Ids({file}) = {next_id}
    BY <2>1 DEF Ids
  <2>4. Ids(manifest'.files) \subseteq (Ids(manifest.files) \ {}) \cup Ids({file})
    BY <2>1, <2>2, ApplyIds
  <2> QED
    BY <2>3, <2>4
<1>5. InstallInv'
  BY <1>1, <1>2, <1>3 DEF InstallInv, Installing
<1>6. /\ next_id \notin disk /\ next_id \in Nat
      /\ \A c \in Compactors : next_id \notin jobs[c].removes
      /\ \A e \in pending : next_id \notin e.ids
  BY <1>1 DEF FreshInv, TypeOK
<1>7. FreshInv'
  <2>1. disk \subseteq Nat /\ next_id \in Nat
    BY <1>1 DEF TypeOK
  <2>2. \A c \in Compactors : jobs[c].removes \subseteq Nat
    BY <1>1 DEF TypeOK, Job
  <2>3. \A e \in pending : e.ids \subseteq Nat
    BY <1>1 DEF TypeOK
  <2> QED
    BY <1>2, <2>1, <2>2, <2>3 DEF FreshInv
<1>8. ServedInv'
  BY <1>2, <1>4, <1>6 DEF ServedInv, Disjoint
<1>9. OutputInv'
  BY <1>2, <1>4, <1>6 DEF OutputInv, Disjoint, Outs
<1> QED
  BY <1>5, <1>7, <1>8, <1>9

\* so does the install of its version,
LEMMA FlushInstallDisk ==
  ASSUME BaseInv, Prompt, DiskInv, FlushInstall
  PROVE  DiskInv'
<1> USE DEF DiskInv
<1>1. /\ UNCHANGED <<manifest, jobs, pending, disk, next_id>> /\ flush.pc = "install"
      /\ installed' = flush.version /\ flush'.pc = "drop"
  BY DEF FlushInstall, BaseInv, TypeOK
<1>2. installed' = manifest
  BY <1>1 DEF InstallInv
<1>3. InstallInv'
  BY <1>1, <1>2 DEF InstallInv, Installing
<1>4. FreshInv'
  BY <1>1 DEF FreshInv
<1>5. ServedInv'
  <2>1. \A c \in Compactors : jobs[c].pc # "install"
    BY <1>1 DEF InstallInv
  <2> QED
    BY <1>1, <1>2, <2>1 DEF ServedInv
<1>6. OutputInv'
  BY <1>1, <1>2 DEF OutputInv, Outs
<1> QED
  BY <1>3, <1>4, <1>5, <1>6

\* the pick of a compaction,
LEMMA PickDisk ==
  ASSUME BaseInv, Prompt, DiskInv, NEW c \in Compactors, CompactPick(c)
  PROVE  DiskInv'
<1> USE DEF DiskInv
<1>1. /\ UNCHANGED <<manifest, installed, flush, pending, disk, next_id>> /\ jobs[c].pc = "idle"
      /\ TypeOK
  BY DEF CompactPick, BaseInv
<1>2. PICK j \in Job : /\ Replaced(c, j) /\ j.pc = "merge" /\ j.out = {}
                       /\ j.removes \subseteq Ids(installed.files)
  BY <1>1, PickReplaces DEF Ids
<1>3. InstallInv'
  BY <1>1, <1>2 DEF InstallInv, Installing, Replaced
<1>4. FreshInv'
  BY <1>1, <1>2 DEF FreshInv, ServedInv, Replaced
<1>5. ServedInv'
  BY <1>1, <1>2 DEF ServedInv, Replaced
<1>6. OutputInv'
  <2>1. Outs(c)' = {}
    BY <1>2 DEF Outs, Ids, Replaced
  <2>2. \A d \in Compactors : d # c => Outs(d)' = Outs(d)
    BY <1>2 DEF Outs, Replaced
  <2> QED
    BY <1>1, <1>2, <2>1, <2>2 DEF OutputInv, Replaced, Disjoint
<1> QED
  BY <1>3, <1>4, <1>5, <1>6

\* its merge, which writes a file under a new id,
LEMMA MergeDisk ==
  ASSUME BaseInv, Prompt, DiskInv, NEW c \in Compactors, CompactMerge(c)
  PROVE  DiskInv'
<1> USE DEF DiskInv
<1>1. UNCHANGED <<manifest, installed, flush, pending>> /\ jobs[c].pc = "merge" /\ TypeOK
  BY DEF CompactMerge, BaseInv
<1>2. PICK rows \in SUBSET Rows(1, Len(log)), j \in Job :
            /\ rows \subseteq Row /\ IsFiniteSet(rows) /\ Cardinality(rows) \in Nat
            /\ Replaced(c, j) /\ j.pc = "commit" /\ j.removes = jobs[c].removes
            /\ j.out = OutputFiles(rows, jobs[c].level + 1, next_id)
            /\ disk' = disk \cup Ids(j.out) /\ next_id' = next_id + Cardinality(rows)
            /\ jobs[c].level + 1 \in Nat
  BY MergeReplaces
<1>3. next_id \in Nat /\ disk \subseteq Nat
  BY <1>1 DEF TypeOK
<1>4. Ids(j.out) \subseteq Nat /\ \A i \in Ids(j.out) : i >= next_id /\ i < next_id'
  <2>1. /\ j.out \subseteq File
        /\ \A f \in j.out : f.id >= next_id /\ f.id < next_id + Cardinality(rows)
    BY <1>2, <1>3, OutputTyped
  <2> QED
    BY <1>2, <2>1 DEF Ids, File
<1>5. next_id' \in Nat /\ next_id <= next_id'
  <2>1. next_id' = next_id + Cardinality(rows) /\ Cardinality(rows) \in Nat
    BY <1>2
  <2> QED
    BY <1>3, <2>1
<1>6. /\ \A d \in Compactors : jobs[d].removes \subseteq Nat /\ jobs'[d].removes = jobs[d].removes
      /\ \A e \in pending : e.ids \subseteq Nat
  BY <1>1, <1>2, Zenon DEF TypeOK, Job, Replaced
<1>7. InstallInv'
  BY <1>1, <1>2 DEF InstallInv, Installing, Replaced
<1>8. FreshInv'
  <2>1. disk' = disk \cup Ids(j.out) /\ pending' = pending
    BY <1>1, <1>2
  <2>2. \A i \in Nat : i < next_id => i < next_id'
    BY <1>3, <1>5
  <2>3. \A i \in disk' : i < next_id'
    BY <1>3, <1>4, <2>1, <2>2 DEF FreshInv
  <2>4. \A d \in Compactors : \A i \in jobs'[d].removes : i < next_id'
    BY <1>6, <2>2 DEF FreshInv
  <2>5. \A e \in pending' : \A i \in e.ids : i < next_id'
    BY <1>6, <2>1, <2>2 DEF FreshInv
  <2> QED
    BY <2>3, <2>4, <2>5 DEF FreshInv
<1>9. ServedInv'
  BY ZenonT(30), <1>1, <1>2 DEF ServedInv, Replaced
<1>10. OutputInv'
  <2>1. Outs(c)' = Ids(j.out)
    BY <1>2 DEF Outs, Replaced
  <2>2. \A d \in Compactors : d # c => Outs(d)' = Outs(d)
    BY <1>2 DEF Outs, Replaced
  <2>3. \A i \in Ids(j.out) :
          /\ i \notin disk /\ \A e \in pending : i \notin e.ids
          /\ \A d \in Compactors : i \notin jobs[d].removes
    BY <1>3, <1>4, <1>6 DEF FreshInv
  <2>4. \A d \in Compactors : Outs(d) \subseteq disk
    BY DEF OutputInv
  <2>5. Ids(manifest.files) \subseteq disk /\ Ids(installed.files) \subseteq disk
    BY DEF ServedInv
  <2>6. ASSUME NEW d \in Compactors, NEW i \in Outs(d)'
        PROVE  (d = c /\ i \in Ids(j.out)) \/ (d # c /\ i \in Outs(d))
    BY Zenon, <2>1, <2>2
  <2>7. \A d \in Compactors : Outs(d)' \subseteq disk'
    BY Zenon, <1>2, <2>4, <2>6
  <2>8. \A d \in Compactors : /\ Disjoint(Outs(d), Ids(manifest.files))'
                              /\ Disjoint(Outs(d), Ids(installed.files))'
                              /\ \A e \in pending' : Disjoint(Outs(d)', e.ids)
    BY ZenonT(30), <1>1, <2>3, <2>5, <2>6 DEF OutputInv, Disjoint
  <2>9. \A d, e \in Compactors : Disjoint(Outs(d)', jobs'[e].removes)
    BY ZenonT(30), <1>6, <2>3, <2>6 DEF OutputInv, Disjoint
  <2>10. \A d, e \in Compactors : d # e => Disjoint(Outs(d)', Outs(e)')
    <3> SUFFICES ASSUME NEW d \in Compactors, NEW e \in Compactors, d # e,
                        NEW i \in Outs(d)', i \in Outs(e)'
                 PROVE  FALSE
      BY Zenon DEF Disjoint
    <3>1. CASE d # c /\ e # c
      BY Zenon, <2>6, <3>1 DEF OutputInv, Disjoint
    <3>2. CASE d = c \/ e = c
      BY Zenon, <2>3, <2>4, <2>6, <3>2
    <3> QED
      BY Zenon, <3>1, <3>2
  <2> QED
    BY ZenonT(30), <2>7, <2>8, <2>9, <2>10 DEF OutputInv, Disjoint
<1> QED
  BY <1>7, <1>8, <1>9, <1>10

\* its commit,
LEMMA CommitDisk ==
  ASSUME BaseInv, Prompt, ~JobsOverlap => ApartInv, DiskInv, NEW c \in Compactors, CompactCommit(c)
  PROVE  DiskInv'
<1> USE DEF DiskInv
<1>1. /\ UNCHANGED <<installed, flush, pending, disk, next_id>> /\ jobs[c].pc = "commit" /\ TypeOK
      /\ installed = manifest /\ ~Installing
  BY CommitFindsInstalled, Zenon DEF CompactCommit, BaseInv
<1>2. manifest' = Apply(manifest, jobs[c].out, jobs[c].removes, <<>>)
  BY CommitReplaces
<1>3. PICK j \in Job :
               /\ Replaced(c, j)
               /\ j.pc = "install" /\ j.removes = jobs[c].removes /\ j.out = {}
               /\ j.version = manifest'
  BY CommitReplaces
<1>4. Ids(manifest'.files) \subseteq (Ids(manifest.files) \ jobs[c].removes) \cup Outs(c)
  BY <1>1, <1>2, ApplyIds DEF Outs, TypeOK
<1>5. InstallInv'
  BY <1>1, <1>3 DEF InstallInv, Installing, Replaced
<1>6. FreshInv'
  BY <1>1, <1>3 DEF FreshInv, Replaced
<1>7. ServedInv'
  BY <1>1, <1>3, <1>4, SMTT(30) DEF ServedInv, OutputInv, Replaced, Disjoint, Installing
<1>8. OutputInv'
  <2>1. Outs(c)' = {}
    BY <1>3 DEF Outs, Ids, Replaced
  <2>2. \A d \in Compactors : d # c => Outs(d)' = Outs(d)
    BY <1>3 DEF Outs, Replaced
  <2>3. \A d \in Compactors : jobs'[d].removes = jobs[d].removes
    BY <1>3 DEF Replaced
  <2> QED
    BY <1>1, <1>4, <2>1, <2>2, <2>3, SMTT(30) DEF OutputInv, Disjoint
<1> QED
  BY <1>5, <1>6, <1>7, <1>8

\* its install,
LEMMA InstallDisk ==
  ASSUME BaseInv, Prompt, DiskInv, NEW c \in Compactors, CompactInstall(c)
  PROVE  DiskInv'
<1> USE DEF DiskInv
<1>1. /\ UNCHANGED <<manifest, flush, pending, disk, next_id>> /\ jobs[c].pc = "install" /\ TypeOK
      /\ installed' = jobs[c].version
  BY DEF CompactInstall, BaseInv
<1>2. /\ installed' = manifest /\ flush.pc # "install"
      /\ \A d \in Compactors \ {c} : jobs[d].pc # "install"
  BY <1>1 DEF InstallInv
<1>3. PICK j \in Job :
            /\ Replaced(c, j)
            /\ j.pc = "enqueue" /\ j.removes = jobs[c].removes /\ j.out = jobs[c].out
  BY <1>1, InstallReplaces
<1>4. InstallInv'
  BY <1>1, <1>2, <1>3 DEF InstallInv, Installing, Replaced
<1>5. FreshInv'
  BY <1>1, <1>3 DEF FreshInv, Replaced
<1>6. ServedInv'
  BY <1>1, <1>2, <1>3 DEF ServedInv, Replaced
<1>7. OutputInv'
  <2>1. \A d \in Compactors : Outs(d)' = Outs(d) /\ jobs'[d].removes = jobs[d].removes
    BY <1>3 DEF Outs, Replaced
  <2> QED
    BY <1>1, <1>2, <2>1 DEF OutputInv
<1> QED
  BY <1>4, <1>5, <1>6, <1>7

\* the enqueue of its inputs for deletion,
LEMMA EnqueueDisk ==
  ASSUME BaseInv, Prompt, DiskInv, NEW c \in Compactors, CompactEnqueue(c)
  PROVE  DiskInv'
<1> USE DEF DiskInv
<1>1. /\ UNCHANGED <<manifest, installed, flush, disk, next_id>> /\ jobs[c].pc = "enqueue" /\ TypeOK
      /\ pending' = pending \cup {[ids |-> jobs[c].removes, after |-> jobs[c].after]}
  BY DEF CompactEnqueue, BaseInv
<1>2. PICK j \in Job : Replaced(c, j) /\ j.pc = "gc" /\ j.removes = {} /\ j.out = jobs[c].out
  BY <1>1, EnqueueReplaces
<1>3. \A e \in pending' : e \in pending \/ e.ids = jobs[c].removes
  BY <1>1
<1>4. InstallInv'
  BY <1>1, <1>2 DEF InstallInv, Installing, Replaced
<1>5. FreshInv'
  BY <1>1, <1>2, <1>3 DEF FreshInv, Replaced
<1>6. ServedInv'
  BY ZenonT(30), <1>1, <1>2, <1>3 DEF ServedInv, Replaced
<1>7. OutputInv'
  <2>1. \A d \in Compactors : /\ Outs(d)' = Outs(d)
                              /\ jobs'[d].removes = {} \/ jobs'[d].removes = jobs[d].removes
    BY <1>2 DEF Outs, Replaced
  <2> QED
    BY <1>1, <1>3, <2>1 DEF OutputInv, Disjoint
<1> QED
  BY <1>4, <1>5, <1>6, <1>7

(* A worker that waits for a sweep holds no version, no output and no files to
   remove. *)
LEMMA MarkDisk ==
  ASSUME BaseInv, Prompt, DiskInv, NEW c \in Compactors, GcMark(c)
  PROVE  DiskInv'
<1> USE DEF DiskInv
<1>1. /\ UNCHANGED <<manifest, installed, flush, pending, disk, next_id>> /\ TypeOK
      /\ jobs[c].pc \in {"idle", "gc"}
  BY DEF GcMark, BaseInv
<1>2. PICK j \in Job : /\ Replaced(c, j) /\ j.pc = "sweep" /\ j.removes = jobs[c].removes
                       /\ j.out = jobs[c].out
  BY <1>1, MarkReplaces
<1>3. InstallInv'
  BY <1>1, <1>2 DEF InstallInv, Installing, Replaced
<1>4. FreshInv'
  BY <1>1, <1>2 DEF FreshInv, Replaced
<1>5. ServedInv'
  BY ZenonT(30), <1>1, <1>2 DEF ServedInv, Replaced
<1>6. OutputInv'
  <2>1. \A d \in Compactors : Outs(d)' = Outs(d) /\ jobs'[d].removes = jobs[d].removes
    BY <1>2 DEF Outs, Replaced
  <2> QED
    BY <1>1, <2>1 DEF OutputInv
<1> QED
  BY <1>3, <1>4, <1>5, <1>6

(* A job that ends leaves nothing behind but its output; a sweep deletes only
   what was queued. *)
LEMMA EndDisk ==
  ASSUME BaseInv, Prompt, DiskInv, NEW c \in Compactors, CompactFail(c) \/ GcSweep(c)
  PROVE  DiskInv'
<1> USE DEF DiskInv
<1>1. TypeOK /\ UNCHANGED <<manifest, installed, flush, next_id>> /\ jobs[c].pc # "install"
  <2>1. CASE CompactFail(c)
    BY <2>1 DEF CompactFail, BaseInv
  <2>2. CASE GcSweep(c)
    BY <2>2, SweepEffect DEF BaseInv
  <2> QED
    BY <2>1, <2>2
<1>2. Replaced(c, NoJob)
  BY <1>1, EndReplaces
<1>3. /\ pending' \subseteq pending /\ disk' \subseteq disk
      /\ \A i \in disk : i \in disk' \/ \E e \in pending : i \in e.ids
  <2>1. CASE CompactFail(c)
    BY Zenon, <2>1 DEF CompactFail
  <2>2. CASE GcSweep(c)
    BY <2>2, SweepEffect, SMTT(30)
  <2> QED
    BY <2>1, <2>2
<1>4. NoJob.pc = "idle" /\ NoJob.removes = {} /\ NoJob.out = {}
  BY DEF NoJob
<1>5. InstallInv'
  BY ZenonT(30), <1>1, <1>2, <1>4 DEF InstallInv, Installing, Replaced
<1>6. FreshInv'
  BY <1>1, <1>2, <1>3, <1>4 DEF FreshInv, Replaced
<1>7. ServedInv'
  BY Zenon, <1>1, <1>2, <1>3, <1>4 DEF ServedInv, Replaced, Disjoint
<1>8. OutputInv'
  <2>1. \A d \in Compactors : /\ Outs(d)' \subseteq Outs(d)
                              /\ jobs'[d].removes \subseteq jobs[d].removes
    BY <1>2, <1>4 DEF Outs, Replaced, Ids
  <2>2. \A d \in Compactors : Outs(d) \subseteq disk'
    BY <1>3 DEF OutputInv, Disjoint
  <2>3. \A d \in Compactors : /\ Disjoint(Outs(d)', Ids(manifest.files))
                              /\ Disjoint(Outs(d)', Ids(installed.files))
    BY Zenon, <2>1 DEF OutputInv, Disjoint
  <2>4. \A d \in Compactors : \A e \in pending : Disjoint(Outs(d)', e.ids)
    BY Zenon, <2>1 DEF OutputInv, Disjoint
  <2>5. \A d, b \in Compactors : Disjoint(Outs(d)', jobs'[b].removes)
    BY Zenon, <2>1 DEF OutputInv, Disjoint
  <2>6. \A d \in Compactors : \A b \in Compactors \ {d} : Disjoint(Outs(d)', Outs(b)')
    BY Zenon, <2>1 DEF OutputInv, Disjoint
  <2>7. \A d \in Compactors : Outs(d)' \subseteq disk'
    BY Zenon, <2>1, <2>2
  <2> QED
    BY ZenonT(30), <1>1, <1>3, <2>3, <2>4, <2>5, <2>6, <2>7 DEF OutputInv, Disjoint, Ids
<1> QED
  BY Zenon, <1>5, <1>6, <1>7, <1>8

\* and a crash with the reopen after it.
LEMMA CrashDisk ==
  ASSUME BaseInv, Prompt, DiskInv, CrashReopen
  PROVE  DiskInv'
<1> USE DEF DiskInv
<1>1. /\ installed' = manifest /\ flush' = NoFlush /\ jobs' = [c \in Compactors |-> NoJob]
      /\ pending' = {} /\ UNCHANGED <<manifest, disk, next_id>>
  BY DEF CrashReopen
<1>2. NoJob.pc = "idle" /\ NoJob.removes = {} /\ NoJob.out = {} /\ NoFlush.pc = "idle"
  BY DEF NoJob, NoFlush
<1>3. InstallInv'
  BY <1>1, <1>2 DEF InstallInv, Installing
<1>4. FreshInv'
  BY <1>1, <1>2 DEF FreshInv
<1>5. ServedInv'
  BY <1>1, <1>2 DEF ServedInv
<1>6. OutputInv'
  BY <1>1, <1>2 DEF OutputInv, Disjoint, Outs, Ids
<1> QED
  BY <1>3, <1>4, <1>5, <1>6

\* Every step keeps DiskInv.
LEMMA DiskInductive ==
  ASSUME BaseInv, Prompt, ~JobsOverlap => ApartInv, DiskInv, [Next]_vars
  PROVE  DiskInv'
<1>1. ASSUME UNCHANGED <<manifest, installed, jobs, pending, disk, next_id>>,
             flush'.pc = "install" <=> flush.pc = "install",
             flush.pc = "install" => flush'.version = flush.version
      PROVE  DiskInv'
  <2>1. InstallInv'
    BY <1>1 DEF DiskInv, InstallInv, Installing
  <2>2. FreshInv' /\ ServedInv'
    BY <1>1 DEF DiskInv, FreshInv, ServedInv
  <2>3. OutputInv'
    BY <1>1 DEF DiskInv, OutputInv, Outs
  <2> QED
    BY <2>1, <2>2, <2>3 DEF DiskInv
<1>2. CASE UNCHANGED vars \/ Write \/ FlushDrop \/ \E r \in Readers : Pin(r) \/ Unpin(r)
  BY <1>1, <1>2, SMTT(30) DEF vars, Write, FlushDrop, NoFlush, Pin, Unpin
<1>3. ASSUME NEW c \in Compactors, Compact(c) PROVE DiskInv'
  BY <1>3, PickDisk, MergeDisk, CommitDisk, InstallDisk, EnqueueDisk, MarkDisk, EndDisk
     DEF Compact
<1> QED
  BY <1>2, <1>3, FlushCommitDisk, FlushInstallDisk, CrashDisk DEF Next

\* A new database has no files to lose.
LEMMA InitFiles == Init => ApartInv /\ DiskInv
<1> SUFFICES ASSUME Init PROVE ApartInv /\ DiskInv
  OBVIOUS
<1>1. /\ manifest = Empty /\ installed = Empty /\ flush.pc = "idle" /\ pending = {} /\ disk = {}
      /\ jobs = [c \in Compactors |-> NoJob] /\ Empty.files = {}
  BY DEF Init, NoFlush, Empty
<1>2. NoJob.pc = "idle" /\ NoJob.level = -1 /\ NoJob.removes = {} /\ NoJob.out = {}
  BY DEF NoJob
<1>3. ApartInv
  BY <1>1, <1>2 DEF ApartInv, Picked
<1>4. InstallInv /\ FreshInv
  BY <1>1, <1>2 DEF InstallInv, Installing, FreshInv
<1>5. Ids(manifest.files) = {} /\ Ids(installed.files) = {} /\ \A c \in Compactors : Outs(c) = {}
  BY <1>1, <1>2 DEF Ids, Outs
<1>6. ServedInv /\ OutputInv
  BY <1>1, <1>2, <1>5 DEF ServedInv, OutputInv, Disjoint
<1> QED
  BY <1>3, <1>4, <1>6 DEF DiskInv

\* FilesInv holds in every state.
LEMMA FilesInvariant == Spec => [](BaseInv /\ FilesInv)
<1>1. Init => BaseInv /\ FilesInv
  BY InitBase, InitFiles DEF FilesInv, DiskInv
<1>2. BaseInv /\ FilesInv /\ [Next]_vars => (BaseInv /\ FilesInv)'
  <2> SUFFICES ASSUME BaseInv, FilesInv, [Next]_vars PROVE BaseInv' /\ FilesInv'
    OBVIOUS
  <2>1. BaseInv'
    BY NextBase
  <2>2. ~JobsOverlap => ApartInv'
    BY ApartInductive DEF FilesInv
  <2>3. Prompt => DiskInv'
    BY DiskInductive DEF FilesInv, DiskInv, Prompt
  <2> QED
    BY <2>1, <2>2, <2>3 DEF FilesInv, DiskInv, Prompt
<1> QED
  BY <1>1, <1>2, PTL DEF Spec

(* No file of the current manifest or of the installed version is ever deleted
   by gc_pending_deletions, with any number of compaction workers and readers,
   whatever fails and wherever the process crashes, where a version is
   installed before the next commit or jobs do not overlap. *)
THEOREM CurrentFilesKept == Prompt => (Spec => []CurrentFilesOnDisk)
<1> SUFFICES ASSUME Prompt PROVE Spec => []CurrentFilesOnDisk
  BY Zenon
<1>1. FilesInv => CurrentFilesOnDisk
  BY DEF FilesInv, Prompt, ServedInv, Ids, CurrentFilesOnDisk
<1> QED
  BY <1>1, FilesInvariant, PTL

----------------------------------------------------------------------------
(* Pins.                                                                    *)

OneWorker == \A c, d \in Compactors : c = d

PinContext == BaseInv /\ FilesInv /\ PinInv /\ ~JobsOverlap /\ OneWorker

(* The snapshot of a pinned version is a number. *)
LEMMA PinTyped ==
  ASSUME TypeOK, NEW r \in Readers
  PROVE  /\ pins[r].snap \in Nat \cup {-1}
         /\ pins[r].snap = -1 => pins[r] = Unpinned
         /\ pins[r] = Unpinned => pins[r].snap = -1 /\ pins[r].files = {}
<1>1. pins[r] \in Version \cup {Unpinned}
  BY DEF TypeOK
<1> QED
  BY <1>1 DEF Version, Unpinned

(* The watermark is there as soon as somebody holds a pin, and no later. *)
LEMMA Watermark ==
  ASSUME TypeOK, NEW r \in Readers, pins[r] # Unpinned
  PROVE  \E p \in MinPinned : p \in Nat /\ p <= pins[r].snap
<1> DEFINE snaps == {pins[q].snap : q \in Readers} \ {-1}
<1>1. snaps \in SUBSET Nat /\ pins[r].snap \in snaps
  BY PinTyped
<1>2. PICK p \in snaps : \A n \in snaps : p <= n
  BY <1>1, LeastNatural, Zenon
<1>3. \A q \in Readers : pins[q] = Unpinned \/ p <= pins[q].snap
  BY <1>2, PinTyped
<1>4. Unpinned.snap = -1
  BY DEF Unpinned
<1>5. p \in MinPinned
  BY <1>2, <1>3, <1>4 DEF MinPinned
<1> QED
  BY <1>1, <1>2, <1>5

(* Only the files of the versions matter to a pin. *)
LEMMA PinsKept ==
  ASSUME PinInv, UNCHANGED <<pins, pending>>, disk \subseteq disk',
         installed' = installed, installed.snap <= manifest'.snap,
         \A c \in Compactors :
            /\ jobs'[c].pc \in {"merge", "commit", "install"} =>
                  /\ jobs[c].pc \in {"merge", "commit", "install"}
                  /\ jobs'[c].after = jobs[c].after
            /\ \/ jobs'[c].removes = {}
               \/ jobs'[c].removes = jobs[c].removes /\ jobs'[c].after = jobs[c].after
            /\ jobs'[c].pc = "sweep" => jobs[c].pc = "sweep" /\ jobs'[c].pinned = jobs[c].pinned
  PROVE  PinInv'
<1>1. \A r \in Readers : \A ids : Meets(r, ids)' <=> Meets(r, ids)
  BY DEF Meets
<1>2. \A r \in Readers : ~Meets(r, {})
  BY DEF Meets, Disjoint
<1> QED
  BY <1>1, <1>2, Zenon DEF PinInv

\* A flush keeps the files of pinned versions on disk,
LEMMA FlushPins ==
  ASSUME PinContext, FlushCommit \/ FlushInstall \/ FlushDrop
  PROVE  PinInv'
<1>0. TypeOK /\ PinInv /\ ApartInv /\ InstallInv /\ Prompt
  BY DEF PinContext, BaseInv, FilesInv, Prompt
<1>1. CASE FlushCommit
  <2>1. UNCHANGED <<installed, jobs, pins, pending>> /\ disk \subseteq disk'
    BY <1>1, Zenon DEF FlushCommit
  <2>2. manifest'.snap = manifest.snap + 1 /\ manifest.snap \in Nat /\ installed.snap \in Nat
    <3>1. PICK file, marks : manifest' = Apply(manifest, {file}, {}, marks)
      BY <1>0, <1>1, FlushAdds, Zenon
    <3> QED
      BY Zenon, <1>0, <3>1, ApplySnap DEF TypeOK, Version
  <2>3. installed.snap <= manifest'.snap
    BY <1>0, <2>2 DEF PinInv
  <2> QED
    BY <1>0, <2>1, <2>3, PinsKept
<1>2. CASE FlushInstall
  <2>1. UNCHANGED <<manifest, jobs, pins, pending, disk>> /\ installed' = manifest
    BY <1>0, <1>2 DEF FlushInstall, InstallInv
  <2>2. \A c \in Compactors : jobs[c].pc \notin {"merge", "commit", "install"}
    BY <1>0, <1>2 DEF FlushInstall, ApartInv, PinContext, BaseInv, JobShape
  <2>3. manifest.snap \in Nat /\ installed.snap \in Nat
    BY Zenon, <1>0 DEF TypeOK, Version
  <2>4. \A r \in Readers : pins[r].snap <= manifest.snap
    BY <1>0, <2>3, PinTyped, SMTT(30) DEF PinInv
  <2>5. manifest.snap <= manifest.snap
    BY <2>3
  <2> QED
    BY Zenon, <1>0, <2>1, <2>2, <2>4, <2>5 DEF PinInv, Meets, Disjoint, Ids, StillPinned
<1>3. CASE FlushDrop
  <2>1. UNCHANGED <<manifest, installed, jobs, pins, pending, disk>>
    BY <1>3 DEF FlushDrop
  <2> QED
    BY <1>0, <2>1, PinsKept, Zenon DEF PinInv
<1> QED
  BY <1>1, <1>2, <1>3

\* so does every step of a compaction, the deletion of its inputs included,
LEMMA CompactPins ==
  ASSUME PinContext, NEW c \in Compactors, Compact(c)
  PROVE  PinInv'
<1>0. /\ TypeOK /\ PinInv /\ ApartInv /\ InstallInv /\ ServedInv /\ JobShape /\ BaseInv
      /\ \A d \in Compactors : d = c
  BY DEF PinContext, BaseInv, FilesInv, OneWorker
<1>00. manifest.snap \in Nat /\ installed.snap \in Nat
  BY <1>0 DEF TypeOK, Version
<1>1. CASE CompactPick(c)
  <2>1. UNCHANGED <<manifest, installed, pins, pending, disk>>
    BY <1>1 DEF CompactPick
  <2>2. PICK j \in Job : Replaced(c, j) /\ j.pc = "merge" /\ j.after = installed.snap
    BY <1>0, <1>1, PickReplaces, Zenon
  <2>3. \A r \in Readers : \A ids : Meets(r, ids)' <=> Meets(r, ids)
    BY <2>1 DEF Meets
  <2> QED
    BY <1>0, <2>1, <2>2, <2>3, Zenon DEF PinInv, Replaced
<1>2. CASE CompactMerge(c)
  <2>1. UNCHANGED <<manifest, installed, pins, pending>> /\ jobs[c].pc = "merge"
    BY <1>2 DEF CompactMerge
  <2>2. PICK j \in Job : /\ Replaced(c, j) /\ j.pc = "commit" /\ j.after = jobs[c].after
                         /\ j.removes = jobs[c].removes /\ disk \subseteq disk'
    BY <1>2, MergeReplaces, Zenon DEF PinContext
  <2> QED
    BY <1>0, <2>1, <2>2, PinsKept, Zenon DEF Replaced, PinInv
<1>3. CASE CompactFail(c)
  <2>1. UNCHANGED <<manifest, installed, pins, pending, disk>>
    BY <1>3 DEF CompactFail
  <2>2. Replaced(c, NoJob) /\ NoJob.pc = "idle" /\ NoJob.removes = {}
    BY <1>0, <1>3, EndReplaces, ZenonT(30) DEF NoJob
  <2>3. /\ \A d \in Compactors : jobs'[d] = NoJob
        /\ disk \subseteq disk' /\ installed.snap <= manifest'.snap
    BY <1>0, <2>1, <2>2 DEF Replaced, PinInv
  <2> QED
    BY Zenon, <1>0, <2>1, <2>2, <2>3, PinsKept
<1>4. CASE CompactCommit(c)
  <2>1. UNCHANGED <<installed, pins, pending, disk>> /\ jobs[c].pc = "commit"
    BY <1>4 DEF CompactCommit
  <2>2. PICK j \in Job : /\ Replaced(c, j) /\ j.pc = "install" /\ j.after = jobs[c].after
                         /\ j.removes = jobs[c].removes
    BY <1>0, <1>4, CommitReplaces
  <2>3. manifest' = Apply(manifest, jobs[c].out, jobs[c].removes, <<>>)
    BY <1>0, <1>4, CommitReplaces, ZenonT(30)
  <2>4. manifest'.snap = manifest.snap + 1
    BY Zenon, <2>3, ApplySnap
  <2>5. installed.snap <= manifest'.snap
    BY <1>0, <1>00, <2>4, SMTT(30) DEF PinInv
  <2> QED
    BY <1>0, <2>1, <2>2, <2>5, PinsKept DEF Replaced
<1>5. CASE CompactInstall(c)
  <2>1. /\ UNCHANGED <<manifest, pins, pending, disk>> /\ jobs[c].pc = "install"
        /\ installed' = manifest
    BY Zenon, <1>0, <1>5 DEF CompactInstall, InstallInv
  <2>2. PICK j \in Job : /\ Replaced(c, j) /\ j.pc = "enqueue" /\ j.after = jobs[c].after
                         /\ j.removes = jobs[c].removes
    BY <1>0, <1>5, InstallReplaces
  <2>3. \A r \in Readers : pins[r].snap <= manifest.snap
    <3>1. installed.snap <= manifest.snap /\ \A r \in Readers : pins[r].snap <= installed.snap
      BY <1>0 DEF PinInv
    <3>2. \A r \in Readers : pins[r].snap \in Int
      BY <1>0, PinTyped
    <3>3. \A x \in Int : x <= installed.snap => x <= manifest.snap
      BY <1>00, <3>1
    <3> QED
      BY Zenon, <3>1, <3>2, <3>3
  <2>4. \A r \in Readers : \A ids : Meets(r, ids)' <=> Meets(r, ids)
    BY <2>1 DEF Meets
  <2>5. \A d \in Compactors :
            /\ jobs'[d].removes = jobs[d].removes /\ jobs'[d].after = jobs[d].after
            /\ jobs'[d].pc \notin {"merge", "commit", "install", "sweep"}
    BY Zenon, <1>0, <1>00, <2>1, <2>2 DEF Replaced
  <2>6. \A r \in Readers : \A d \in Compactors :
            Meets(r, jobs[d].removes)' => pins[r].snap <= jobs[d].after
    BY Zenon, <1>0, <2>4, <2>5 DEF PinInv
  <2>7. \A r \in Readers : \A e \in pending : Meets(r, e.ids)' => pins[r].snap <= e.after
    BY Zenon, <1>0, <2>4 DEF PinInv
  <2>8. \A r \in Readers : Ids(pins[r].files) \subseteq disk
    BY <1>0, Zenon DEF PinInv
  <2>9. manifest.snap <= manifest.snap
    BY <1>00
  <2> QED
    BY <2>1, <2>3, <2>5, <2>6, <2>7, <2>8, <2>9, ZenonT(30) DEF PinInv
<1>6. CASE CompactEnqueue(c)
  <2>1. /\ UNCHANGED <<manifest, installed, pins, disk>>
        /\ pending' = pending \cup {[ids |-> jobs[c].removes, after |-> jobs[c].after]}
    BY <1>6 DEF CompactEnqueue
  <2>2. PICK j \in Job : Replaced(c, j) /\ j.pc = "gc" /\ j.removes = {}
    BY <1>0, <1>6, EnqueueReplaces, Zenon
  <2>3. \A e \in pending' : \/ e \in pending
                            \/ e.ids = jobs[c].removes /\ e.after = jobs[c].after
    <3> DEFINE new == [ids |-> jobs[c].removes, after |-> jobs[c].after]
    <3>1. new.ids = jobs[c].removes /\ new.after = jobs[c].after
      OBVIOUS
    <3>2. pending' = pending \cup {new}
      BY <2>1
    <3> HIDE DEF new
    <3> QED
      BY <3>1, <3>2, Zenon
  <2>4. \A r \in Readers : \A ids : Meets(r, ids)' <=> Meets(r, ids)
    BY <2>1 DEF Meets
  <2>5. \A r \in Readers : ~Meets(r, {})
    BY DEF Meets, Disjoint
  <2> QED
    BY <1>0, <2>1, <2>2, <2>3, <2>4, <2>5, ZenonT(30) DEF PinInv, Replaced
<1>7. CASE GcMark(c)
  <2>1. UNCHANGED <<manifest, installed, pins, pending, disk>> /\ jobs[c].pc \in {"idle", "gc"}
    BY <1>7 DEF GcMark
  <2>2. PICK j \in Job : /\ Replaced(c, j) /\ j.pc = "sweep" /\ j.removes = jobs[c].removes
                         /\ j.pinned = MinPinned
    BY <1>0, <1>7, MarkReplaces, Zenon
  <2>3. j.removes = {}
    BY Zenon, <1>0, <2>1, <2>2 DEF JobShape
  <2>4. \A r \in Readers : \A ids : Meets(r, ids)' <=> Meets(r, ids)
    BY <2>1 DEF Meets
  <2>5. \A r \in Readers : ~Meets(r, {})
    BY DEF Meets, Disjoint
  <2>6. ASSUME NEW r \in Readers, NEW e \in pending, Meets(r, e.ids)
        PROVE  StillPinned(e, MinPinned)
    <3>1. pins[r] # Unpinned
      BY <2>6 DEF Meets, Disjoint, Ids, Unpinned
    <3>2. PICK p \in MinPinned : p \in Nat /\ p <= pins[r].snap
      BY <1>0, <3>1, Watermark, ZenonT(30)
    <3>3. pins[r].snap <= e.after /\ e.after \in Nat /\ pins[r].snap \in Int
      <4>1. pins[r].snap <= e.after /\ e.after \in Nat
        BY Zenon, <1>0, <2>6 DEF PinInv, TypeOK
      <4>2. pins[r].snap \in Nat \cup {-1}
        BY Zenon, <1>0, PinTyped
      <4> QED
        BY <4>1, <4>2
    <3>4. p <= e.after
      BY <3>2, <3>3
    <3> QED
      BY Zenon, <3>2, <3>4 DEF StillPinned
  <2>7. jobs'[c] = j /\ \A d \in Compactors : jobs'[d] = j
    BY Zenon, <1>0, <2>2 DEF Replaced
  <2> QED
    BY <1>0, <2>1, <2>2, <2>3, <2>4, <2>5, <2>6, <2>7, ZenonT(30) DEF PinInv
<1>8. CASE GcSweep(c)
  <2>1. PICK gone, failed :
            /\ gone \in SUBSET pending
            /\ \A e \in gone : ~StillPinned(e, jobs[c].pinned)
            /\ pending' = pending \ gone
            /\ disk' = disk \ ((UNION {e.ids : e \in gone}) \ failed)
            /\ jobs[c].pc = "sweep"
            /\ UNCHANGED <<manifest, installed, pins>>
    BY <1>8, SweepEffect, Zenon
  <2>2. /\ Replaced(c, NoJob) /\ NoJob.pc = "idle" /\ NoJob.removes = {}
    BY <1>0, <1>8, EndReplaces, Zenon DEF NoJob
  <2>3. \A r \in Readers : \A ids : Meets(r, ids)' <=> Meets(r, ids)
    BY <2>1 DEF Meets
  <2>4. \A r \in Readers : ~Meets(r, {})
    BY DEF Meets, Disjoint
  <2>5. \A r \in Readers : Ids(pins[r].files) \subseteq disk'
    BY <1>0, <2>1 DEF PinInv, Meets, Disjoint
  <2>6. \A d \in Compactors : jobs'[d] = NoJob
    BY <1>0, <2>2 DEF Replaced
  <2>7. \A d \in Compactors : jobs'[d].pc = "idle" /\ jobs'[d].removes = {}
    BY <2>2, <2>6, ZenonT(30)
  <2>8. ASSUME NEW r \in Readers, NEW e \in pending', Meets(r, e.ids)'
        PROVE  pins[r].snap <= e.after
    BY Zenon, <1>0, <2>1, <2>3, <2>8 DEF PinInv
  <2>9. \A r \in Readers : pins[r].snap <= installed.snap
    BY Zenon, <1>0 DEF PinInv
  <2>10. \A r \in Readers : \A d \in Compactors : ~Meets(r, jobs[d].removes)'
    BY ZenonT(30), <2>3, <2>4, <2>7
  <2>11. installed.snap <= manifest.snap
    BY <1>0 DEF PinInv
  <2> QED
    BY ZenonT(30), <2>1, <2>5, <2>7, <2>8, <2>9, <2>10, <2>11 DEF PinInv
<1> QED
  BY <1>1, <1>2, <1>3, <1>4, <1>5, <1>6, <1>7, <1>8 DEF Compact

\* a reader that pins or unpins,
LEMMA ReaderPins ==
  ASSUME PinContext, NEW r \in Readers, Pin(r) \/ Unpin(r)
  PROVE  PinInv'
<1>0. TypeOK /\ PinInv /\ ServedInv /\ JobShape
  BY DEF PinContext, BaseInv, FilesInv
<1>1. /\ UNCHANGED <<manifest, installed, jobs, pending, disk>>
      /\ \A q \in Readers : q # r => pins'[q] = pins[q]
  BY <1>0 DEF Pin, Unpin, TypeOK
<1>2. \A q \in Readers : \A ids : q # r => (Meets(q, ids)' <=> Meets(q, ids))
  BY <1>1 DEF Meets
<1>3. \A q \in Readers : q # r =>
          /\ pins'[q].snap <= installed'.snap
          /\ Ids(pins'[q].files) \subseteq disk'
          /\ \A c \in Compactors : Meets(q, jobs[c].removes)' => pins'[q].snap <= jobs'[c].after
          /\ \A e \in pending' :
                Meets(q, e.ids)' =>
                    /\ pins'[q].snap <= e.after
                    /\ \A c \in Compactors :
                          jobs'[c].pc = "sweep" => StillPinned(e, jobs'[c].pinned)
  BY <1>0, <1>1, <1>2, ZenonT(30) DEF PinInv
<1>4. CASE Pin(r)
  <2>1. pins'[r] = installed /\ installed.snap \in Nat
    BY <1>0, <1>4 DEF Pin, TypeOK, Version
  <2>2. \A ids : Meets(r, ids)' <=> ~Disjoint(Ids(installed.files), ids)
    BY Zenon, <1>1, <2>1 DEF Meets
  <2>3. \A e \in pending : ~Meets(r, e.ids)'
    BY ZenonT(30), <1>0, <2>2 DEF ServedInv, Disjoint
  <2>4. \A c \in Compactors : Meets(r, jobs[c].removes)' => jobs[c].after = installed.snap
    <3>1. \A c \in Compactors : jobs[c].pc \in {"merge", "commit", "install"} =>
                                   jobs[c].after = installed.snap
      BY <1>0, ZenonT(30) DEF PinInv
    <3>2. \A c \in Compactors : jobs[c].pc \notin {"merge", "commit", "install"} =>
                                   Disjoint(Ids(installed.files), jobs[c].removes)
      BY <1>0 DEF ServedInv, JobShape, Disjoint
    <3> QED
      BY <1>1, <2>2, <3>1, <3>2
  <2>5. Ids(pins'[r].files) \subseteq disk
    BY <1>0, <2>1, ZenonT(30) DEF ServedInv
  <2>6. /\ pins'[r].snap <= installed'.snap /\ Ids(pins'[r].files) \subseteq disk'
        /\ \A c \in Compactors : Meets(r, jobs[c].removes)' => pins'[r].snap <= jobs'[c].after
        /\ \A e \in pending' : ~Meets(r, e.ids)'
    <3>1. pins'[r].snap <= installed.snap
      BY <2>1
    <3>2. \A c \in Compactors : Meets(r, jobs[c].removes)' => pins'[r].snap <= jobs[c].after
      BY <2>4, <3>1, Zenon
    <3> QED
      BY <1>1, <2>3, <2>5, <3>1, <3>2, Zenon
  <2>7. /\ installed'.snap <= manifest'.snap
        /\ \A c \in Compactors : jobs'[c].pc \in {"merge", "commit", "install"} =>
                                    jobs'[c].after = installed'.snap
    BY Zenon, <1>0, <1>1 DEF PinInv
  <2> QED
    BY <1>3, <2>6, <2>7 DEF PinInv
<1>5. CASE Unpin(r)
  <2>1. pins'[r] = Unpinned /\ Unpinned.snap = -1 /\ Unpinned.files = {} /\ installed.snap \in Nat
    BY Zenon, <1>0, <1>5 DEF Unpin, TypeOK, Unpinned, Version
  <2>2. Ids(pins'[r].files) = {} /\ \A ids : ~Meets(r, ids)'
    BY <2>1 DEF Meets, Disjoint, Ids
  <2>3. pins'[r].snap <= installed.snap
    BY <2>1
  <2> QED
    BY <1>0, <1>1, <1>3, <2>2, <2>3, Zenon DEF PinInv
<1> QED
  BY <1>4, <1>5

\* and a crash, after which nobody holds a pin.
LEMMA CrashPins ==
  ASSUME BaseInv, CrashReopen
  PROVE  PinInv'
<1>1. /\ installed' = manifest /\ manifest' = manifest /\ pending' = {}
      /\ jobs' = [c \in Compactors |-> NoJob] /\ pins' = [r \in Readers |-> Unpinned]
  BY ZenonT(30) DEF CrashReopen
<1>2. NoJob.pc = "idle" /\ Unpinned.snap = -1 /\ Unpinned.files = {} /\ manifest.snap \in Nat
  BY DEF NoJob, Unpinned, BaseInv, TypeOK, Version
<1>3. \A r \in Readers : /\ pins'[r].snap = -1 /\ Ids(pins'[r].files) = {}
                         /\ \A ids : ~Meets(r, ids)'
  BY <1>1, <1>2 DEF Meets, Disjoint, Ids
<1>4. \A c \in Compactors : jobs'[c].pc = "idle"
  BY <1>1, <1>2
<1> QED
  <2>1. installed'.snap <= manifest'.snap
    BY <1>1, <1>2
  <2>2. \A r \in Readers : pins'[r].snap <= installed'.snap
    BY <1>1, <1>2, <1>3
  <2>3. \A c \in Compactors : jobs'[c].pc \notin {"merge", "commit", "install"}
    BY Zenon, <1>4
  <2> QED
    BY Zenon, <1>1, <1>3, <2>1, <2>2, <2>3 DEF PinInv

(* The files of a pinned version (pin_current_snapshot) are on disk until the
   pin is dropped, whatever is flushed, merged, installed and swept meanwhile,
   with one compaction worker whose jobs do not overlap with flushes. *)
THEOREM PinnedFilesKept == ~JobsOverlap /\ OneWorker => (Spec => []PinnedFilesOnDisk)
<1> SUFFICES ASSUME ~JobsOverlap, OneWorker PROVE Spec => []PinnedFilesOnDisk
  BY ZenonT(30)
<1>1. Init => PinInv
  <2> SUFFICES ASSUME Init PROVE PinInv
    OBVIOUS
  <2>1. /\ manifest = Empty /\ installed = Empty /\ pending = {} /\ Empty.snap = 0
        /\ jobs = [c \in Compactors |-> NoJob] /\ pins = [r \in Readers |-> Unpinned]
        /\ NoJob.pc = "idle" /\ Unpinned.snap = -1 /\ Unpinned.files = {}
    BY Zenon DEF Init, Empty, NoJob, Unpinned
  <2>2. \A r \in Readers : /\ pins[r].snap = -1 /\ Ids(pins[r].files) = {}
                           /\ \A ids : ~Meets(r, ids)
    BY <2>1, Zenon DEF Meets, Disjoint, Ids
  <2>3. \A c \in Compactors : jobs[c].pc = "idle"
    BY <2>1
  <2>4. installed.snap <= manifest.snap /\ \A r \in Readers : pins[r].snap <= installed.snap
    BY <2>1, <2>2
  <2>5. pending = {}
    BY <2>1
  <2> QED
    BY <2>2, <2>3, <2>4, <2>5 DEF PinInv
<1>2. PinInv /\ BaseInv /\ FilesInv /\ [Next]_vars => PinInv'
  <2> SUFFICES ASSUME PinInv, BaseInv, FilesInv, [Next]_vars PROVE PinInv'
    OBVIOUS
  <2>1. PinContext
    BY DEF PinContext
  <2>2. CASE UNCHANGED vars \/ Write
    <3>1. UNCHANGED <<manifest, installed, jobs, pins, pending, disk>>
      BY Zenon, <2>2 DEF vars, Write
    <3> QED
      BY <3>1, PinsKept, Zenon DEF PinInv
  <2> QED
    BY <2>1, <2>2, FlushPins, CompactPins, ReaderPins, CrashPins DEF Next
<1>3. PinInv => PinnedFilesOnDisk
  BY DEF PinInv, PinnedFilesOnDisk, Ids
<1> QED
  BY <1>1, <1>2, <1>3, FilesInvariant, PTL DEF Spec
=============================================================================
