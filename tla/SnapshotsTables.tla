-------------------------- MODULE SnapshotsTables --------------------------
(***************************************************************************)
(* Proofs about Snapshots: the key ranges of a level and what snapshots    *)
(* and lookups show.  LevelInv is inductive where versions are installed   *)
(* before the next commit, whatever the number of compaction workers;      *)
(* ContentInv where jobs do not overlap.                                   *)
(***************************************************************************)
EXTENDS SnapshotsFiles

(* Key ranges.                                                              *)

\* Files are records of four fields.
LEMMA SameFile ==
  ASSUME NEW f \in File, NEW g \in File,
         f.id = g.id, f.level = g.level, f.rows = g.rows, f.dv = g.dv
  PROVE  f = g
  BY DEF File

\* Beside is symmetric, and passes to subsets.
LEMMA BesideSymmetric ==
  ASSUME NEW R, NEW S, Beside(R, S)
  PROVE  Beside(S, R)
  BY DEF Beside

\* Fewer files stay beside the same ones.
LEMMA BesideLess ==
  ASSUME NEW R, NEW S, Beside(R, S), NEW T, T \subseteq S
  PROVE  Beside(R, T)
  BY DEF Beside

\* A transaction keeps the levels of a manifest in order when the files it adds
\* lie beside the ones that stay.
LEMMA ApplyTidy ==
  ASSUME NEW m \in Version, Tidy(m.files), NEW adds, Tidy(adds), NEW removes, NEW marks,
         Apply(m, adds, removes, marks) \in Version,
         \A f \in adds, g \in m.files :
            f.level > 0 /\ g.level = f.level /\ g.id \notin removes => Beside(g.rows, f.rows)
  PROVE  Tidy(Apply(m, adds, removes, marks).files)
<1> DEFINE v == Apply(m, adds, removes, marks)
<1>1. \A f \in v.files :
         \/ f \in adds
         \/ \E g \in m.files :
               /\ g.id \notin removes /\ f.id = g.id /\ f.level = g.level
               /\ f.rows = g.rows /\ f.dv = Marked(g, marks)
  BY ApplyFiles
<1>2. v.files \subseteq File
  BY DEF Version
<1> HIDE DEF v
<1>3. SUFFICES ASSUME NEW f \in v.files, NEW h \in v.files,
                      f # h, f.level = h.level, f.level > 0
               PROVE  Beside(f.rows, h.rows)
  BY DEF Tidy, v
<1>4. CASE f \in adds /\ h \in adds
  BY <1>3, <1>4 DEF Tidy
<1>5. CASE f \in adds /\ h \notin adds
  <2>1. PICK g \in m.files : g.id \notin removes /\ h.level = g.level /\ h.rows = g.rows
    BY <1>1, <1>5
  <2> QED
    BY <1>3, <1>5, <2>1, BesideSymmetric
<1>6. CASE f \notin adds /\ h \in adds
  <2>1. PICK g \in m.files : g.id \notin removes /\ f.level = g.level /\ f.rows = g.rows
    BY <1>1, <1>6
  <2> QED
    BY <1>3, <1>6, <2>1, Zenon
<1>7. CASE f \notin adds /\ h \notin adds
  <2>1. PICK g1 \in m.files : /\ f.id = g1.id /\ f.level = g1.level
                              /\ f.rows = g1.rows /\ f.dv = Marked(g1, marks)
    BY <1>1, <1>7
  <2>2. PICK g2 \in m.files : /\ h.id = g2.id /\ h.level = g2.level
                              /\ h.rows = g2.rows /\ h.dv = Marked(g2, marks)
    BY <1>1, <1>7
  <2>3. g1 # g2
    BY Zenon, <1>2, <1>3, <2>1, <2>2, SameFile
  <2> QED
    BY <1>3, <2>1, <2>2, <2>3, Zenon DEF Tidy
<1> QED
  BY <1>4, <1>5, <1>6, <1>7

\* Division by the size of a chunk does not change an order.
LEMMA DivMonotone ==
  ASSUME NEW a \in Nat, NEW b \in Nat, NEW n \in Nat \ {0}, a <= b
  PROVE  a \div n <= b \div n
<1> DEFINE p == a \div n
           q == b \div n
<1>1. p \in Int /\ q \in Int /\ n * p <= a /\ a < n * p + n /\ n * q <= b /\ b < n * q + n
  OBVIOUS
<1> HIDE DEF p, q
<1>2. SUFFICES ASSUME q < p PROVE FALSE
  BY <1>1 DEF p, q
<1>3. q + 1 <= p
  BY <1>1, <1>2
<1>4. n * (q + 1) <= n * p
  BY <1>1, <1>3
<1>5. n * (q + 1) = n * q + n
  BY <1>1
<1> QED
  BY <1>1, <1>4, <1>5

\* The output of a merge is cut between different keys, so its files follow one
\* another in key order, with one file for every row (roll-over of OutputFiles).
LEMMA OutputOrder ==
  ASSUME NEW rows \in SUBSET Row, IsFiniteSet(rows), NEW out \in Nat, NEW id \in Nat
  PROVE  /\ Tidy(OutputFiles(rows, out, id))
         /\ \A f, g \in OutputFiles(rows, out, id) :
               f.rows \cap g.rows # {} \/ f.id = g.id => f = g
         /\ RowsOf(OutputFiles(rows, out, id)) = rows
<1> DEFINE Chunk(r) == Cardinality({s \in rows : s.key < r.key}) \div ChunkRows
           Part(i) == [id |-> id + i, level |-> out, rows |-> {r \in rows : Chunk(r) = i}, dv |-> {}]
<1>1. \A r, s \in rows : s.key <= r.key => Chunk(s) <= Chunk(r)
  <2> SUFFICES ASSUME NEW r \in rows, NEW s \in rows, s.key <= r.key
               PROVE  Chunk(s) <= Chunk(r)
    OBVIOUS
  <2> DEFINE R == {x \in rows : x.key < r.key}
             S == {x \in rows : x.key < s.key}
  <2>1. S \subseteq R
    BY DEF Row
  <2>2. IsFiniteSet(R) /\ IsFiniteSet(S)
    BY FS_Subset
  <2>3. Cardinality(R) \in Nat /\ Cardinality(S) \in Nat /\ Cardinality(S) <= Cardinality(R)
    BY <2>1, <2>2, FS_Subset, FS_CardinalityType
  <2> QED
    BY <2>3, DivMonotone, LevelsAssumption
<1>2. \A r \in rows : Chunk(r) \in Int
  <2> SUFFICES ASSUME NEW r \in rows PROVE Chunk(r) \in Int
    OBVIOUS
  <2> DEFINE R == {x \in rows : x.key < r.key}
  <2>1. IsFiniteSet(R)
    BY FS_Subset
  <2>2. Cardinality(R) \in Nat
    BY <2>1, FS_CardinalityType
  <2> QED
    BY <2>2, LevelsAssumption
<1>3. OutputFiles(rows, out, id) = {Part(i) : i \in {Chunk(r) : r \in rows}}
  BY DEF OutputFiles
<1>4. \A i : /\ Part(i).id = id + i /\ Part(i).level = out
             /\ Part(i).rows = {r \in rows : Chunk(r) = i}
  OBVIOUS
<1> HIDE DEF Chunk, Part
<1>5. \A f \in OutputFiles(rows, out, id) :
         \E i \in Int : /\ f = Part(i) /\ f.id = id + i /\ f.level = out
                        /\ f.rows = {r \in rows : Chunk(r) = i}
  BY <1>2, <1>3, <1>4
<1>6. Tidy(OutputFiles(rows, out, id))
  <2>1. SUFFICES ASSUME NEW f \in OutputFiles(rows, out, id),
                        NEW g \in OutputFiles(rows, out, id), f # g
                 PROVE  Beside(f.rows, g.rows)
    BY DEF Tidy
  <2>2. PICK i \in Int : f = Part(i) /\ f.rows = {r \in rows : Chunk(r) = i}
    BY <1>5
  <2>3. PICK k \in Int : g = Part(k) /\ g.rows = {r \in rows : Chunk(r) = k}
    BY <1>5
  <2>4. i < k \/ k < i
    BY <2>1, <2>2, <2>3
  <2>5. \A r \in f.rows, s \in g.rows : r.key \in Int /\ s.key \in Int
    BY <2>2, <2>3 DEF Row
  <2>6. i < k => \A r \in f.rows, s \in g.rows : r.key < s.key
    BY <1>1, <2>2, <2>3, <2>5
  <2>7. k < i => \A r \in f.rows, s \in g.rows : s.key < r.key
    BY <1>1, <2>2, <2>3, <2>5
  <2> QED
    BY <2>4, <2>6, <2>7 DEF Beside
<1>7. \A f, g \in OutputFiles(rows, out, id) : f.rows \cap g.rows # {} \/ f.id = g.id => f = g
  <2> SUFFICES ASSUME NEW f \in OutputFiles(rows, out, id),
                      NEW g \in OutputFiles(rows, out, id),
                      f.rows \cap g.rows # {} \/ f.id = g.id
               PROVE  f = g
    OBVIOUS
  <2>1. PICK i \in Int : f = Part(i) /\ f.id = id + i /\ f.rows = {r \in rows : Chunk(r) = i}
    BY <1>5
  <2>2. PICK k \in Int : g = Part(k) /\ g.id = id + k /\ g.rows = {r \in rows : Chunk(r) = k}
    BY <1>5
  <2>3. i = k
    BY <2>1, <2>2
  <2> QED
    BY <2>1, <2>2, <2>3
<1>8. RowsOf(OutputFiles(rows, out, id)) = rows
  <2>1. \A r \in rows : Part(Chunk(r)) \in OutputFiles(rows, out, id) /\ r \in Part(Chunk(r)).rows
    BY <1>3, <1>4
  <2>2. \A f \in OutputFiles(rows, out, id) : f.rows \subseteq rows
    BY <1>5
  <2> QED
    BY <2>1, <2>2 DEF RowsOf
<1> QED
  BY <1>6, <1>7, <1>8

\* The ends of the key range of a file are keys of rows of it.
LEMMA FileEnds ==
  ASSUME TypeOK, NEW f \in File, Sound(f)
  PROVE  /\ \E r \in f.rows : r.key = KeyMin(f)
         /\ \E r \in f.rows : r.key = KeyMax(f)
<1>1. IsFiniteSet(Keys(f)) /\ Keys(f) \subseteq Int /\ Keys(f) # {}
  BY FileRange
<1>2. KeyMin(f) \in Keys(f) /\ KeyMax(f) \in Keys(f)
  BY <1>1, MinMax DEF KeyMin, KeyMax
<1> QED
  BY <1>2 DEF Keys

\* The union key range of the inputs of a job covers each of them.
LEMMA Hull ==
  ASSUME TypeOK, NEW inputs \in SUBSET File, inputs # {}, \A f \in inputs : Sound(f)
  PROVE  LET lo == Min({KeyMin(f) : f \in inputs})
             hi == Max({KeyMax(f) : f \in inputs})
         IN /\ lo \in Int /\ hi \in Int
            /\ \A f \in inputs : lo <= KeyMin(f) /\ KeyMax(f) <= hi
<1> DEFINE K == {log[i].key : i \in 1..Len(log)}
           Mins == {KeyMin(f) : f \in inputs}
           Maxs == {KeyMax(f) : f \in inputs}
<1>1. IsFiniteSet(K) /\ K \subseteq Int
  <2>1. Len(log) \in Nat /\ \A i \in 1..Len(log) : log[i].key \in Int
    BY LogTyped
  <2> DEFINE F == [i \in 1..Len(log) |-> log[i].key]
  <2>2. F \in Surjection(1..Len(log), K)
    BY DEF Surjection
  <2>3. IsFiniteSet(1..Len(log))
    BY <2>1, FS_Interval
  <2> HIDE DEF F, K
  <2>4. IsFiniteSet(K)
    BY Zenon, <2>2, <2>3, FS_Surjection
  <2> QED
    BY <2>1, <2>4 DEF K
<1>2. \A f \in inputs : Keys(f) \subseteq K
  BY DEF Sound, Rows, Keys
<1>3. \A f \in inputs : KeyMin(f) \in K /\ KeyMax(f) \in K
  BY <1>2, FileEnds, Zenon DEF Keys
<1> HIDE DEF K
<1>4. Mins \subseteq K /\ Maxs \subseteq K /\ Mins # {} /\ Maxs # {}
  BY <1>3
<1>5. /\ IsFiniteSet(Mins) /\ Mins \subseteq Int
      /\ IsFiniteSet(Maxs) /\ Maxs \subseteq Int
  BY <1>1, <1>4, FS_Subset, Zenon
<1>6. /\ Min(Mins) \in Mins /\ \A y \in Mins : Min(Mins) <= y
      /\ Max(Maxs) \in Maxs /\ \A y \in Maxs : y <= Max(Maxs)
  BY <1>4, <1>5, MinMax, Zenon
<1> QED
  BY <1>5, <1>6

\* A file of the output level that a job does not pull in lies to one side of
\* everything the job reads: outside the union range of the inputs, and beside
\* the files pulled in, each of which meets that range.
LEMMA BesideSources ==
  ASSUME TypeOK, \A f \in installed.files : Sound(f), Tidy(installed.files),
         NEW l \in Nat, NEW inputs \in SUBSET installed.files, inputs # {},
         NEW h \in installed.files, h.level = l + 1, h \notin PullIns(installed, l, inputs)
  PROVE  Beside(h.rows, RowsOf(inputs \cup PullIns(installed, l, inputs)))
<1> DEFINE lo == Min({KeyMin(f) : f \in inputs})
           hi == Max({KeyMax(f) : f \in inputs})
           pulled == PullIns(installed, l, inputs)
<1>0. installed.files \subseteq File
  BY DEF TypeOK, Version
<1>1. /\ lo \in Int /\ hi \in Int
      /\ \A f \in inputs : lo <= KeyMin(f) /\ KeyMax(f) <= hi
  BY <1>0, Hull, Zenon
<1>2. pulled = {g \in installed.files : g.level = l + 1 /\ KeyMin(g) <= hi /\ KeyMax(g) >= lo}
  BY DEF PullIns, FilesAt
<1> HIDE DEF lo, hi, pulled
<1>3. \A f \in installed.files :
         /\ KeyMin(f) \in Int /\ KeyMax(f) \in Int
         /\ \A r \in f.rows : KeyMin(f) <= r.key /\ r.key <= KeyMax(f)
         /\ \E r \in f.rows : r.key = KeyMin(f)
         /\ \E r \in f.rows : r.key = KeyMax(f)
  BY <1>0, FileRange, FileEnds
<1>4. \A f \in installed.files : \A r \in f.rows : r.key \in Int
  BY <1>0 DEF File, Row
<1>5. \A g \in pulled : Beside(h.rows, g.rows)
  BY <1>2 DEF Tidy, pulled
<1>6. CASE KeyMax(h) < lo
  <2>1. \A f \in inputs : \A r \in h.rows, s \in f.rows : r.key < s.key
    <3> SUFFICES ASSUME NEW f \in inputs, NEW r \in h.rows, NEW s \in f.rows
                 PROVE  r.key < s.key
      OBVIOUS
    <3>1. r.key <= KeyMax(h) /\ KeyMin(f) <= s.key /\ lo <= KeyMin(f)
      BY <1>1, <1>3
    <3>2. r.key \in Int /\ s.key \in Int /\ KeyMax(h) \in Int /\ KeyMin(f) \in Int
      BY <1>3, <1>4
    <3> QED
      BY <1>1, <1>6, <3>1, <3>2
  <2>2. \A g \in pulled : \A r \in h.rows, s \in g.rows : r.key < s.key
    <3> SUFFICES ASSUME NEW g \in pulled
                 PROVE  \A r \in h.rows, s \in g.rows : r.key < s.key
      OBVIOUS
    <3>1. PICK s \in g.rows : s.key = KeyMax(g)
      BY <1>2, <1>3
    <3>2. PICK r \in h.rows : r.key = KeyMax(h)
      BY <1>3
    <3>3. KeyMax(h) < KeyMax(g)
      BY <1>1, <1>2, <1>3, <1>6
    <3>4. ~(s.key < r.key)
      BY <1>2, <1>3, <3>1, <3>2, <3>3
    <3> QED
      BY <1>5, <3>4 DEF Beside
  <2> QED
    BY <2>1, <2>2 DEF Beside, RowsOf, pulled
<1>7. CASE KeyMin(h) > hi
  <2>1. \A f \in inputs : \A r \in h.rows, s \in f.rows : s.key < r.key
    <3> SUFFICES ASSUME NEW f \in inputs, NEW r \in h.rows, NEW s \in f.rows
                 PROVE  s.key < r.key
      OBVIOUS
    <3>1. KeyMin(h) <= r.key /\ s.key <= KeyMax(f) /\ KeyMax(f) <= hi
      BY <1>1, <1>3
    <3>2. r.key \in Int /\ s.key \in Int /\ KeyMin(h) \in Int /\ KeyMax(f) \in Int
      BY <1>3, <1>4
    <3> QED
      BY <1>1, <1>7, <3>1, <3>2
  <2>2. \A g \in pulled : \A r \in h.rows, s \in g.rows : s.key < r.key
    <3> SUFFICES ASSUME NEW g \in pulled
                 PROVE  \A r \in h.rows, s \in g.rows : s.key < r.key
      OBVIOUS
    <3>1. PICK s \in g.rows : s.key = KeyMin(g)
      BY <1>2, <1>3
    <3>2. PICK r \in h.rows : r.key = KeyMin(h)
      BY <1>3
    <3>3. KeyMin(g) < KeyMin(h)
      BY <1>1, <1>2, <1>3, <1>7
    <3>4. ~(r.key < s.key)
      BY <1>2, <1>3, <3>1, <3>2, <3>3
    <3> QED
      BY <1>5, <3>4 DEF Beside
  <2> QED
    BY Zenon, <2>1, <2>2 DEF Beside, RowsOf, pulled
<1> QED
  BY <1>1, <1>2, <1>3, <1>6, <1>7 DEF pulled

LevelContext == BaseInv /\ FilesInv /\ Prompt /\ LevelInv

\* A job goes on fitting as long as nothing is added to its output level.
LEMMA FitsStill ==
  ASSUME NEW c \in Compactors, Fits(c), jobs'[c] = jobs[c],
         \A f \in manifest'.files :
            \/ f.level # jobs[c].level + 1
            \/ \E g \in manifest.files : f.id = g.id /\ f.level = g.level /\ f.rows = g.rows
  PROVE  Fits(c)'
<1> DEFINE j == jobs[c]
           inOut == RowsOf(j.sources \cup j.out)
<1>1. /\ \A g \in manifest.files :
            g.level = j.level + 1 /\ g.id \notin j.removes => Beside(g.rows, inOut)
      /\ \A f \in j.out : f.level = j.level + 1
      /\ Tidy(j.out)
  BY Zenon DEF Fits
<1>2. SUFFICES /\ \A g \in manifest'.files :
                     g.level = j.level + 1 /\ g.id \notin j.removes => Beside(g.rows, inOut)
               /\ \A f \in j.out : f.level = j.level + 1
               /\ Tidy(j.out)
  BY Zenon DEF Fits
<1> HIDE DEF j, inOut
<1>3. \A f \in manifest'.files :
         \/ f.level # j.level + 1
         \/ \E g \in manifest.files : f.id = g.id /\ f.level = g.level /\ f.rows = g.rows
  BY DEF j
<1> QED
  BY <1>1, <1>3

\* Steps that change neither version and at most release a level.
LEMMA LevelsKept ==
  ASSUME LevelInv, UNCHANGED <<manifest, installed>>,
         \A c \in Compactors :
            /\ jobs'[c].level >= 0 => jobs'[c].level = jobs[c].level
            /\ jobs'[c].pc \in {"merge", "commit"} => jobs'[c] = jobs[c]
            /\ jobs[c].pc = "install" => jobs'[c] = jobs[c]
  PROVE  LevelInv'
<1>1. \A c \in Compactors : jobs'[c].pc \in {"merge", "commit"} => Fits(c)'
  BY Zenon, FitsStill DEF LevelInv
<1>2. \A c, d \in Compactors :
         Picked(c)' /\ Picked(d)' /\ c # d =>
             jobs'[d].level \notin {jobs'[c].level - 1, jobs'[c].level, jobs'[c].level + 1}
  BY DEF LevelInv, Picked
<1>3. \A g \in manifest.files :
         \/ g.level = 0
         \/ \E h \in installed.files : h.id = g.id /\ h.level = g.level /\ h.rows = g.rows
         \/ \E c \in Compactors : jobs'[c].pc = "install" /\ g.level = jobs'[c].level + 1
  BY DEF LevelInv
<1> QED
  BY Zenon, <1>1, <1>2, <1>3 DEF LevelInv

\* Every file of the manifest has its counterpart in the version just installed.
LEMMA InstalledLevels ==
  ASSUME LevelInv, installed' = manifest, manifest' = manifest,
         \A c \in Compactors :
            /\ jobs'[c].level >= 0 => jobs'[c].level = jobs[c].level
            /\ jobs'[c].pc \in {"merge", "commit"} => jobs'[c] = jobs[c]
  PROVE  LevelInv'
<1>1. \A c \in Compactors : jobs'[c].pc \in {"merge", "commit"} => Fits(c)'
  BY Zenon, FitsStill DEF LevelInv
<1>2. \A c, d \in Compactors :
         Picked(c)' /\ Picked(d)' /\ c # d =>
             jobs'[d].level \notin {jobs'[c].level - 1, jobs'[c].level, jobs'[c].level + 1}
  BY DEF LevelInv, Picked
<1> QED
  BY Zenon, <1>1, <1>2 DEF LevelInv

\* A flush adds a file to level 0 and marks rows: the levels below stay
\* disjoint.
LEMMA FlushLevels ==
  ASSUME LevelContext, FlushCommit \/ FlushInstall \/ FlushDrop
  PROVE  LevelInv'
<1>0. BaseInv /\ TypeOK /\ Prompt /\ LevelInv /\ InstallInv /\ (~JobsOverlap => ApartInv)
  BY Zenon DEF LevelContext, BaseInv, FilesInv, Prompt
<1>1. CASE FlushCommit
  <2>1. PICK upto, file, marks :
            /\ file \in File /\ file.level = 0
            /\ manifest' = Apply(manifest, {file}, {}, marks)
    BY <1>0, <1>1, FlushAdds, ZenonT(30)
  <2>2. UNCHANGED <<installed, jobs>>
    BY <1>1 DEF FlushCommit
  <2>3. installed = manifest
    BY Zenon, <1>0, <1>1, CommitFindsInstalled
  <2>4. manifest \in Version /\ manifest' \in Version
    BY Zenon, <1>0, <1>1, FlushBase DEF BaseInv, TypeOK
  <2>5. Tidy({file})
    BY Zenon DEF Tidy
  <2>6. Tidy(manifest'.files)
    BY <1>0, <2>1, <2>4, <2>5, ApplyTidy DEF LevelInv
  <2>7. \A f \in manifest'.files :
           \/ f.level = 0
           \/ \E g \in manifest.files : f.id = g.id /\ f.level = g.level /\ f.rows = g.rows
    BY <2>1, <2>4, ApplyFiles
  <2>8. \A c \in Compactors : jobs[c].pc \in {"merge", "commit"} => Fits(c)'
    <3>1. SUFFICES ASSUME NEW c \in Compactors, jobs[c].pc \in {"merge", "commit"}
                   PROVE  Fits(c)'
      BY ZenonT(30)
    <3>2. Fits(c) /\ jobs[c].level \in Nat
      BY <1>0, <3>1 DEF LevelInv, BaseInv, TypeOK, JobShape, Job, Picked
    <3>3. \A f \in manifest'.files :
             \/ f.level # jobs[c].level + 1
             \/ \E g \in manifest.files : f.id = g.id /\ f.level = g.level /\ f.rows = g.rows
      BY <2>7, <3>2
    <3> QED
      BY Zenon, <2>2, <3>2, <3>3, FitsStill
  <2>9. \A c, d \in Compactors :
           Picked(c)' /\ Picked(d)' /\ c # d =>
               jobs'[d].level \notin {jobs'[c].level - 1, jobs'[c].level, jobs'[c].level + 1}
    BY Zenon, <1>0, <2>2 DEF LevelInv, Picked
  <2> QED
    BY ZenonT(30), <1>0, <2>2, <2>3, <2>6, <2>7, <2>8, <2>9 DEF LevelInv
<1>2. CASE FlushInstall
  BY Zenon, <1>0, <1>2, InstalledLevels DEF FlushInstall, InstallInv
<1>3. CASE FlushDrop
  BY Zenon, <1>0, <1>3, LevelsKept DEF FlushDrop
<1> QED
  BY <1>1, <1>2, <1>3

\* A level that is free is next to no level reserved by another job.
LEMMA FreeLevel ==
  ASSUME TypeOK, NEW l \in PickLevel(installed, Busy), NEW d \in Compactors, Picked(d)
  PROVE  jobs[d].level \notin {l - 1, l, l + 1}
<1>1. l \in Nat /\ l \notin Busy /\ l + 1 \notin Busy
  BY LevelsAssumption DEF PickLevel, LevelIsFree
<1>2. jobs[d].level \in Busy /\ jobs[d].level + 1 \in Busy
  BY DEF Busy
<1>3. jobs[d].level \in Int
  BY DEF TypeOK, Job
<1> QED
  BY <1>1, <1>2, <1>3

\* A pick takes with its inputs all they overlap in the level below.
LEMMA PickLevels ==
  ASSUME LevelContext, NEW c \in Compactors, CompactPick(c)
  PROVE  LevelInv'
<1>0. BaseInv /\ TypeOK /\ LevelInv /\ JobShape
  BY DEF LevelContext, BaseInv
<1>1. UNCHANGED <<manifest, installed>> /\ jobs[c].pc = "idle"
  BY DEF CompactPick
<1>2. PICK l \in 0..NumLevels, inputs \in SUBSET installed.files, j \in Job :
         LET sources == inputs \cup PullIns(installed, l, inputs)
         IN /\ l \in PickLevel(installed, Busy) /\ inputs = PickInputs(installed, l)
            /\ inputs # {} /\ sources \subseteq installed.files
            /\ Replaced(c, j)
            /\ j.pc = "merge" /\ j.level = l /\ j.after = installed.snap
            /\ j.sources = sources /\ j.removes = Ids(sources) /\ j.out = {}
            /\ j.version = Empty
  BY <1>0, PickReplaces, Zenon
<1> DEFINE sources == inputs \cup PullIns(installed, l, inputs)
<1>3. /\ l \in PickLevel(installed, Busy) /\ inputs # {}
      /\ jobs'[c] = j /\ \A d \in Compactors : d # c => jobs'[d] = jobs[d]
      /\ j.pc = "merge" /\ j.level = l /\ j.sources = sources
      /\ j.removes = Ids(sources) /\ j.out = {}
  BY Zenon, <1>2 DEF Replaced
<1>4. \A d \in Compactors : Picked(d) => jobs[d].level \notin {l - 1, l, l + 1}
  BY Zenon, <1>0, <1>3, FreeLevel
<1>5. \A d, e \in Compactors :
         Picked(d)' /\ Picked(e)' /\ d # e =>
             jobs'[e].level \notin {jobs'[d].level - 1, jobs'[d].level, jobs'[d].level + 1}
  <2>1. SUFFICES ASSUME NEW d \in Compactors, NEW e \in Compactors,
                        jobs'[d].level >= 0, jobs'[e].level >= 0, d # e
                 PROVE  jobs'[e].level \notin {jobs'[d].level - 1, jobs'[d].level, jobs'[d].level + 1}
    BY DEF Picked
  <2>2. jobs[d].level \in Int /\ jobs[e].level \in Int /\ l \in Int
    BY <1>0 DEF TypeOK, Job
  <2>3. CASE d = c
    BY Zenon, <1>3, <1>4, <2>1, <2>3 DEF Picked
  <2>4. CASE e = c
    <3>1. jobs'[e].level = l /\ jobs'[d].level = jobs[d].level
      BY Zenon, <1>3, <2>1, <2>4
    <3>2. jobs[d].level \notin {l - 1, l, l + 1}
      BY Zenon, <1>4, <2>1, <3>1 DEF Picked
    <3> QED
      BY <2>2, <3>1, <3>2
  <2>5. CASE d # c /\ e # c
    BY Zenon, <1>0, <1>3, <2>1, <2>5 DEF LevelInv, Picked
  <2> QED
    BY Zenon, <2>3, <2>4, <2>5
<1>6. Fits(c)'
  <2>1. SUFFICES ASSUME NEW g \in manifest.files, g.level = l + 1, g.id \notin Ids(sources)
                 PROVE  Beside(g.rows, RowsOf(sources))
    <3>1. sources \cup {} = sources /\ Tidy({})
      BY Zenon DEF Tidy
    <3> HIDE DEF sources
    <3> QED
      BY Zenon, <1>1, <1>3, <3>1 DEF Fits
  <2>2. PICK h \in installed.files : h.id = g.id /\ h.level = g.level /\ h.rows = g.rows
    <3>1. \A d \in Compactors : jobs[d].pc = "install" => jobs[d].level \in Nat /\ jobs[d].level # l
      BY <1>0, <1>4, SMTT(30) DEF JobShape, TypeOK, Job, Picked
    <3>2. \A d \in Compactors : jobs[d].pc = "install" => g.level # jobs[d].level + 1
      BY <2>1, <3>1
    <3> QED
      BY <1>0, <2>1, <3>2, SMTT(30) DEF LevelInv
  <2>3. h \notin PullIns(installed, l, inputs)
    BY Zenon, <2>1, <2>2 DEF Ids
  <2>4. Tidy(installed.files) /\ \A f \in installed.files : Sound(f)
    BY ZenonT(30), <1>0 DEF LevelInv, BaseInv, SoundFiles
  <2>5. Beside(h.rows, RowsOf(sources))
    BY <1>0, <1>3, <2>1, <2>2, <2>3, <2>4, BesideSources, SMTT(30)
  <2> QED
    BY Zenon, <2>2, <2>5
<1>7. \A d \in Compactors : d # c /\ jobs'[d].pc \in {"merge", "commit"} => Fits(d)'
  BY Zenon, <1>0, <1>1, <1>3, FitsStill DEF LevelInv
<1>8. \A d \in Compactors : jobs[d].pc = "install" => jobs'[d] = jobs[d]
  BY Zenon, <1>1, <1>3
<1> QED
  BY <1>0, <1>1, <1>5, <1>6, <1>7, <1>8 DEF LevelInv

\* The merged file spans no key outside those of its sources.
LEMMA MergeLevels ==
  ASSUME LevelContext, NEW c \in Compactors, CompactMerge(c)
  PROVE  LevelInv'
<1>0. BaseInv /\ TypeOK /\ LevelInv /\ JobShape
  BY DEF LevelContext, BaseInv
<1>1. UNCHANGED <<manifest, installed>> /\ jobs[c].pc = "merge"
  BY Zenon DEF CompactMerge
<1>2. PICK rows \in SUBSET Rows(1, Len(log)), j \in Job :
         LET out == jobs[c].level + 1
         IN /\ rows = MergeRows(jobs[c].sources, Len(log), out)
            /\ rows \subseteq Row /\ IsFiniteSet(rows) /\ Cardinality(rows) \in Nat
            /\ Replaced(c, j)
            /\ j.pc = "commit" /\ j.level = jobs[c].level /\ j.after = jobs[c].after
            /\ j.sources = {} /\ j.removes = jobs[c].removes
            /\ j.out = OutputFiles(rows, out, next_id) /\ j.version = jobs[c].version
            /\ disk' = disk \cup Ids(j.out) /\ next_id' = next_id + Cardinality(rows)
            /\ out \in Nat
  BY Zenon, <1>0, MergeReplaces DEF LevelContext
<1> DEFINE out == jobs[c].level + 1
           files == OutputFiles(rows, out, next_id)
<1>3. rows \subseteq RowsOf(jobs[c].sources)
  BY <1>2, SMTT(30) DEF MergeRows, Live, RowsOf
<1>4. /\ Tidy(files) /\ RowsOf(files) = rows
      /\ \A f \in files : f.level = out
  <2>1. rows \in SUBSET Row /\ IsFiniteSet(rows) /\ out \in Nat /\ next_id \in Nat
    BY Zenon, <1>0, <1>2 DEF TypeOK
  <2> HIDE DEF out
  <2> QED
    BY <2>1, OutputOrder, OutputTyped
<1>5. /\ jobs'[c] = j /\ \A d \in Compactors : d # c => jobs'[d] = jobs[d]
      /\ j.pc = "commit" /\ j.level = jobs[c].level /\ j.sources = {}
      /\ j.removes = jobs[c].removes /\ j.out = files
  BY Zenon, <1>2 DEF Replaced
<1> HIDE DEF files, out
<1>6. Fits(c)'
  <2>1. \A g \in manifest.files :
           g.level = jobs[c].level + 1 /\ g.id \notin jobs[c].removes =>
               Beside(g.rows, RowsOf(jobs[c].sources))
    <3>1. jobs[c].sources \cup jobs[c].out = jobs[c].sources
      BY Zenon, <1>0, <1>1 DEF JobShape
    <3> QED
      BY Zenon, <1>0, <1>1, <3>1 DEF LevelInv, Fits
  <2>2. \A g \in manifest.files :
           g.level = jobs[c].level + 1 /\ g.id \notin jobs[c].removes => Beside(g.rows, rows)
    BY Zenon, <1>3, <2>1, BesideLess
  <2>3. j.sources \cup j.out = files
    BY Zenon, <1>5
  <2>4. SUFFICES /\ \A g \in manifest.files :
                       g.level = j.level + 1 /\ g.id \notin j.removes => Beside(g.rows, RowsOf(files))
                 /\ \A f \in files : f.level = j.level + 1
                 /\ Tidy(files)
    BY Zenon, <1>1, <1>5, <2>3 DEF Fits
  <2> QED
    BY Zenon, <1>4, <1>5, <2>2 DEF out
<1>7. \A d \in Compactors : d # c /\ jobs'[d].pc \in {"merge", "commit"} => Fits(d)'
  BY Zenon, <1>0, <1>1, <1>5, FitsStill DEF LevelInv
<1>8. \A d \in Compactors : jobs'[d].level = jobs[d].level
  BY Zenon, <1>5
<1>9. \A d \in Compactors : jobs[d].pc = "install" => jobs'[d] = jobs[d]
  BY Zenon, <1>1, <1>5
<1>10. \A d, e \in Compactors :
          Picked(d)' /\ Picked(e)' /\ d # e =>
              jobs'[e].level \notin {jobs'[d].level - 1, jobs'[d].level, jobs'[d].level + 1}
  BY Zenon, <1>0, <1>8 DEF LevelInv, Picked
<1> QED
  BY <1>0, <1>1, <1>6, <1>7, <1>9, <1>10 DEF LevelInv

\* So the commit finds room for it in its level.
LEMMA CommitLevels ==
  ASSUME LevelContext, NEW c \in Compactors, CompactCommit(c)
  PROVE  LevelInv'
<1>0. BaseInv /\ TypeOK /\ Prompt /\ LevelInv /\ JobShape /\ InstallInv /\ (~JobsOverlap => ApartInv)
  BY DEF LevelContext, BaseInv, FilesInv, Prompt
<1>1. UNCHANGED installed /\ jobs[c].pc = "commit"
  BY DEF CompactCommit
<1>2. installed = manifest
  BY Zenon, <1>0, CommitFindsInstalled
<1>3. /\ manifest' = Apply(manifest, jobs[c].out, jobs[c].removes, <<>>)
      /\ manifest \in Version /\ manifest' \in Version
  BY Zenon, <1>0, CommitReplaces DEF TypeOK
<1>4. PICK j \in Job : Replaced(c, j) /\ j.pc = "install" /\ j.level = jobs[c].level
  BY Zenon, <1>0, CommitReplaces
<1>5. /\ jobs'[c] = j /\ \A d \in Compactors : d # c => jobs'[d] = jobs[d]
  BY Zenon, <1>4 DEF Replaced
<1>6. Fits(c) /\ jobs[c].sources = {} /\ jobs[c].level \in Nat
  <2>1. Fits(c) /\ jobs[c].sources = {} /\ Picked(c)
    BY Zenon, <1>0, <1>1 DEF LevelInv, JobShape
  <2>2. jobs[c].level \in Nat \cup {-1}
    BY Zenon, <1>0 DEF TypeOK, Job
  <2> QED
    BY <2>1, <2>2 DEF Picked
<1>7. Tidy(manifest'.files)
  <2>1. \A f \in jobs[c].out, g \in manifest.files :
           f.level > 0 /\ g.level = f.level /\ g.id \notin jobs[c].removes => Beside(g.rows, f.rows)
    <3> SUFFICES ASSUME NEW f \in jobs[c].out, NEW g \in manifest.files,
                        g.level = f.level, g.id \notin jobs[c].removes
                 PROVE  Beside(g.rows, f.rows)
      BY Zenon
    <3>1. Beside(g.rows, RowsOf(jobs[c].sources \cup jobs[c].out))
      BY Zenon, <1>6 DEF Fits
    <3>2. f.rows \subseteq RowsOf(jobs[c].sources \cup jobs[c].out)
      BY Zenon DEF RowsOf
    <3> QED
      BY Zenon, <3>1, <3>2, BesideLess
  <2>2. Tidy(manifest.files) /\ Tidy(jobs[c].out)
    BY Zenon, <1>0, <1>6 DEF LevelInv, Fits
  <2> QED
    BY <1>3, <2>1, <2>2, ApplyTidy, Zenon
<1>8. \A f \in manifest'.files :
         \/ f.level = jobs[c].level + 1
         \/ \E g \in manifest.files : f.id = g.id /\ f.level = g.level /\ f.rows = g.rows
  <2>1. \A f \in manifest'.files :
           \/ f \in jobs[c].out
           \/ \E g \in manifest.files : f.id = g.id /\ f.level = g.level /\ f.rows = g.rows
    BY <1>3, ApplyFiles
  <2> QED
    BY Zenon, <1>6, <2>1 DEF Fits
<1>9. \A d \in Compactors : jobs'[d].pc \in {"merge", "commit"} => Fits(d)'
  <2>1. SUFFICES ASSUME NEW d \in Compactors, jobs'[d].pc \in {"merge", "commit"}
                 PROVE  Fits(d)'
    BY Zenon
  <2>2. d # c /\ jobs'[d] = jobs[d]
    BY ZenonT(30), <1>4, <1>5, <2>1
  <2>3. Picked(c) /\ Picked(d) /\ Fits(d) /\ jobs[d].level \in Nat
    BY <1>0, <1>1, <2>1, <2>2, SMTT(30) DEF JobShape, LevelInv, TypeOK, Job, Picked
  <2>4. jobs[d].level + 1 # jobs[c].level + 1
    BY <1>0, <1>6, <2>2, <2>3 DEF LevelInv
  <2> QED
    BY Zenon, <1>8, <2>2, <2>3, <2>4, FitsStill
<1>10. \A d \in Compactors : jobs'[d].level = jobs[d].level
  BY Zenon, <1>4, <1>5
<1>11. \A d, e \in Compactors :
          Picked(d)' /\ Picked(e)' /\ d # e =>
              jobs'[e].level \notin {jobs'[d].level - 1, jobs'[d].level, jobs'[d].level + 1}
  BY Zenon, <1>0, <1>10 DEF LevelInv, Picked
<1>12. \A f \in manifest'.files :
          \/ \E h \in installed'.files : h.id = f.id /\ h.level = f.level /\ h.rows = f.rows
          \/ \E d \in Compactors : jobs'[d].pc = "install" /\ f.level = jobs'[d].level + 1
  BY Zenon, <1>1, <1>2, <1>4, <1>5, <1>8
<1> QED
  BY ZenonT(30), <1>0, <1>1, <1>7, <1>9, <1>11, <1>12 DEF LevelInv

\* Every step of a compaction keeps the levels disjoint.
LEMMA CompactLevels ==
  ASSUME LevelContext, NEW c \in Compactors, Compact(c)
  PROVE  LevelInv'
<1>0. BaseInv /\ TypeOK /\ LevelInv /\ JobShape /\ InstallInv
  BY Zenon DEF LevelContext, BaseInv, FilesInv, Prompt
<1>1. CASE CompactFail(c) \/ GcSweep(c)
  <2>1. UNCHANGED <<manifest, installed>> /\ jobs[c].pc \in {"merge", "commit", "sweep"}
    BY Zenon, <1>1, SweepEffect DEF CompactFail
  <2>2. Replaced(c, NoJob) /\ NoJob.pc = "idle" /\ NoJob.level = -1
    BY Zenon, <1>0, <1>1, EndReplaces DEF NoJob
  <2> QED
    BY <1>0, <2>1, <2>2, LevelsKept DEF Replaced
<1>2. CASE CompactInstall(c)
  <2>1. UNCHANGED manifest /\ installed' = manifest
    BY Zenon, <1>0, <1>2 DEF CompactInstall, InstallInv
  <2>2. PICK j \in Job : Replaced(c, j) /\ j.pc = "enqueue" /\ j.level = jobs[c].level
    BY Zenon, <1>0, <1>2, InstallReplaces
  <2> QED
    BY Zenon, <1>0, <2>1, <2>2, InstalledLevels DEF Replaced
<1>3. CASE CompactEnqueue(c)
  <2>1. UNCHANGED <<manifest, installed>> /\ jobs[c].pc = "enqueue"
    BY Zenon, <1>3 DEF CompactEnqueue
  <2>2. PICK j \in Job : Replaced(c, j) /\ j.pc = "gc" /\ j.level = jobs[c].level
    BY Zenon, <1>0, <1>3, EnqueueReplaces
  <2> QED
    BY Zenon, <1>0, <2>1, <2>2, LevelsKept DEF Replaced
<1>4. CASE GcMark(c)
  <2>1. UNCHANGED <<manifest, installed>> /\ jobs[c].pc \in {"idle", "gc"}
    BY Zenon, <1>4 DEF GcMark
  <2>2. PICK j \in Job : Replaced(c, j) /\ j.pc = "sweep" /\ j.level = jobs[c].level
    BY Zenon, <1>0, <1>4, MarkReplaces
  <2> QED
    BY Zenon, <1>0, <2>1, <2>2, LevelsKept DEF Replaced
<1> QED
  BY ZenonT(30), <1>1, <1>2, <1>3, <1>4, PickLevels, MergeLevels, CommitLevels DEF Compact

\* Every step keeps LevelInv.
LEMMA LevelsInductive ==
  ASSUME LevelContext, [Next]_vars
  PROVE  LevelInv'
<1>0. LevelInv
  BY Zenon DEF LevelContext
<1>1. CASE UNCHANGED vars
  BY Zenon, <1>0, <1>1, LevelsKept DEF vars
<1>2. CASE Write
  BY Zenon, <1>0, <1>2, LevelsKept DEF Write
<1>3. ASSUME NEW r \in Readers, Pin(r) \/ Unpin(r)
      PROVE  LevelInv'
  BY <1>0, <1>3, LevelsKept, Zenon DEF Pin, Unpin
<1>4. CASE CrashReopen
  <2>1. UNCHANGED manifest /\ installed' = manifest
    BY Zenon, <1>4 DEF CrashReopen
  <2>2. \A c \in Compactors : jobs'[c].pc = "idle" /\ jobs'[c].level = -1
    BY Zenon, <1>4 DEF CrashReopen, NoJob
  <2> QED
    BY <1>0, <2>1, <2>2, InstalledLevels
<1> QED
  BY Zenon, <1>1, <1>2, <1>3, <1>4, FlushLevels, CompactLevels DEF Next

\* A new database has empty levels.
LEMMA InitLevels == Init => LevelInv
<1> SUFFICES ASSUME Init PROVE LevelInv
  OBVIOUS
<1>1. manifest.files = {} /\ installed.files = {}
  BY Zenon DEF Init, Empty
<1>2. \A c \in Compactors : jobs[c].pc = "idle" /\ jobs[c].level = -1
  BY DEF Init, NoJob
<1> QED
  BY <1>1, <1>2 DEF LevelInv, Tidy, Picked

\* LevelInv holds in every state.
LEMMA LevelInvariant == Prompt => (Spec => [](BaseInv /\ LevelInv))
<1> SUFFICES ASSUME Prompt PROVE Spec => [](BaseInv /\ LevelInv)
  OBVIOUS
<1>1. LevelInv /\ BaseInv /\ FilesInv /\ [Next]_vars => LevelInv'
  BY LevelsInductive DEF LevelContext
<1> QED
  BY <1>1, InitLevels, FilesInvariant, PTL DEF Spec

\* Below L0 no two files of a level have keys in common, as find_file_for_key
\* needs, whatever flushes, compactions, failures and crashes come between: for
\* any number of compaction workers, as long as a version is installed before
\* the next commit.
THEOREM LevelsKeptDisjoint == Prompt => (Spec => []LevelsDisjoint)
<1>1. BaseInv /\ LevelInv => LevelsDisjoint
  <2> SUFFICES ASSUME BaseInv, LevelInv, NEW f \in manifest.files, NEW g \in manifest.files,
                      f # g, f.level = g.level, f.level > 0
               PROVE  KeyMax(f) < KeyMin(g) \/ KeyMax(g) < KeyMin(f)
    BY Zenon DEF LevelsDisjoint
  <2>1. TypeOK /\ f \in File /\ g \in File /\ Sound(f) /\ Sound(g)
    BY Zenon DEF BaseInv, TypeOK, SoundFiles, Version
  <2>2. Beside(f.rows, g.rows)
    BY Zenon DEF LevelInv, Tidy
  <2>3. /\ \E r \in f.rows : r.key = KeyMin(f)
        /\ \E r \in f.rows : r.key = KeyMax(f)
        /\ \E r \in g.rows : r.key = KeyMin(g)
        /\ \E r \in g.rows : r.key = KeyMax(g)
    BY Zenon, <2>1, FileEnds
  <2> QED
    BY Zenon, <2>2, <2>3 DEF Beside
<1> QED
  BY <1>1, LevelInvariant, PTL

----------------------------------------------------------------------------
(* Contents.                                                                *)

\* Memory and files share no gap: a flush starts where the last one ended, or
\* holds everything that was recovered.
LEMMA SeqInductive ==
  ASSUME BaseInv, SeqInv, [Next]_vars
  PROVE  SeqInv'
<1>0. TypeOK /\ dropped \in Nat /\ committed \in Nat /\ recovered \in Nat /\ Len(log) \in Nat
  BY Zenon, PositionsTyped DEF BaseInv
<1>1. CASE FlushCommit
  <2>1. PICK upto, file, marks :
            /\ upto \in dropped + 1..Len(log) /\ committed' = upto
            /\ flush' = [pc |-> "install", upto |-> upto, version |-> manifest']
    BY <1>0, <1>1, FlushAdds, ZenonT(30)
  <2>2. flush'.pc = "install" /\ flush'.upto = upto /\ dropped' = dropped
    BY <1>1, <2>1, Zenon DEF FlushCommit
  <2> QED
    BY <1>0, <2>1, <2>2, SMTT(30) DEF SeqInv
<1>2. CASE FlushInstall
  <2>1. flush.pc = "install" /\ flush'.pc = "drop" /\ flush'.upto = flush.upto
    BY Zenon, <1>0, <1>2 DEF FlushInstall, TypeOK
  <2> QED
    BY <1>2, <2>1 DEF FlushInstall, SeqInv
<1>3. CASE FlushDrop
  <2>1. flush.pc = "drop" /\ flush'.pc = "idle" /\ dropped' = flush.upto /\ committed' = committed
    BY <1>3 DEF FlushDrop, NoFlush
  <2> QED
    BY <1>0, <2>1 DEF SeqInv
<1>4. CASE CrashReopen
  <2>1. /\ dropped' \in 0..dropped /\ recovered' = Len(log) /\ committed' = committed
        /\ flush'.pc = "idle"
    BY Zenon, <1>4 DEF CrashReopen, RecoverFrom, NoFlush
  <2>2. committed <= Len(log)
    BY <1>0, SMTT(30) DEF TypeOK
  <2> QED
    BY <1>0, <2>1, <2>2 DEF SeqInv
<1>5. ASSUME NEW c \in Compactors, Compact(c)
      PROVE  UNCHANGED <<dropped, recovered, flush, committed>>
  BY <1>5, SweepEffect, Zenon DEF Compact, CompactPick, CompactMerge, CompactFail, CompactCommit,
     CompactInstall, CompactEnqueue, GcMark
<1>6. ASSUME NEW c \in Compactors, Compact(c)
      PROVE  SeqInv'
  BY Zenon, <1>5, <1>6 DEF SeqInv
<1>7. CASE Write \/ (\E r \in Readers : Pin(r) \/ Unpin(r)) \/ UNCHANGED vars
  BY Zenon, <1>7 DEF Write, Pin, Unpin, vars, SeqInv
<1> QED
  BY Zenon, <1>1, <1>2, <1>3, <1>4, <1>6, <1>7 DEF Next

\* A key that is written has a last write.
LEMMA LastExists ==
  ASSUME NEW a \in Nat, NEW b \in Nat, NEW i \in a..b
  PROVE  \E j \in a..b : log[j].key = log[i].key /\ LastOf(j, a, b) /\ i <= j
<1> DEFINE S == {j \in a..b : log[j].key = log[i].key}
<1>1. S \subseteq Int /\ i \in S
  OBVIOUS
<1>2. IsFiniteSet(S)
  <2>1. IsFiniteSet(a..b) /\ S \subseteq a..b
    BY FS_Interval
  <2> QED
    BY Zenon, <2>1, FS_Subset
<1> HIDE DEF S
<1>3. PICK j \in S : \A y \in S : j >= y
  BY <1>1, <1>2, Extremes, Zenon
<1> QED
  BY Zenon, <1>1, <1>3 DEF S, LastOf

\* The latest rows of a range: one of each key written in it.
LEMMA DedupedAt ==
  ASSUME NEW a \in Nat, NEW b \in Nat
  PROVE  /\ \A r \in Deduped(Rows(a, b)) :
               \E i \in a..b : /\ LastOf(i, a, b) /\ r = RowAt(i)
                               /\ r.key = log[i].key /\ r.seq = i /\ r.op = log[i].op
         /\ \A i \in a..b : LastOf(i, a, b) => RowAt(i) \in Deduped(Rows(a, b))
         /\ \A i \in a..b : \E r \in Deduped(Rows(a, b)) : r.key = log[i].key
         /\ \A r, s \in Deduped(Rows(a, b)) : r.key = s.key => r = s
<1>1. Deduped(Rows(a, b)) = {RowAt(i) : i \in {j \in a..b : LastOf(j, a, b)}}
  BY Zenon, DedupedRows
<1>2. \A i : RowAt(i).key = log[i].key /\ RowAt(i).seq = i /\ RowAt(i).op = log[i].op
  BY Zenon DEF RowAt
<1>3. \A r \in Deduped(Rows(a, b)) :
         \E i \in a..b : /\ LastOf(i, a, b) /\ r = RowAt(i)
                         /\ r.key = log[i].key /\ r.seq = i /\ r.op = log[i].op
  BY <1>1, <1>2
<1>4. \A i \in a..b : LastOf(i, a, b) => RowAt(i) \in Deduped(Rows(a, b))
  BY Zenon, <1>1
<1>5. ASSUME NEW i \in a..b PROVE \E r \in Deduped(Rows(a, b)) : r.key = log[i].key
  <2>1. PICK j \in a..b : log[j].key = log[i].key /\ LastOf(j, a, b)
    BY Zenon, LastExists
  <2>2. RowAt(j) \in Deduped(Rows(a, b)) /\ RowAt(j).key = log[i].key
    BY Zenon, <1>2, <1>4, <2>1
  <2> QED
    BY Zenon, <2>2
<1>6. \A r, s \in Deduped(Rows(a, b)) : r.key = s.key => r = s
  <2> SUFFICES ASSUME NEW r \in Deduped(Rows(a, b)), NEW s \in Deduped(Rows(a, b)), r.key = s.key
               PROVE  r = s
    OBVIOUS
  <2>1. PICK i \in a..b : LastOf(i, a, b) /\ r = RowAt(i) /\ r.key = log[i].key
    BY Zenon, <1>3
  <2>2. PICK j \in a..b : LastOf(j, a, b) /\ s = RowAt(j) /\ s.key = log[j].key
    BY Zenon, <1>3
  <2>3. i <= j /\ j <= i
    BY <2>1, <2>2 DEF LastOf
  <2> QED
    BY <2>1, <2>2, <2>3
<1> QED
  BY Zenon, <1>3, <1>4, <1>5, <1>6

\* The same for the first n writes.
LEMMA LatestAt ==
  ASSUME NEW n \in Nat
  PROVE  /\ \A r \in Deduped(Rows(1, n)) :
               \E i \in 1..n : /\ LastOf(i, 1, n) /\ r = RowAt(i)
                               /\ r.key = log[i].key /\ r.seq = i /\ r.op = log[i].op
         /\ \A i \in 1..n : LastOf(i, 1, n) => RowAt(i) \in Deduped(Rows(1, n))
         /\ \A r, s \in Deduped(Rows(1, n)) : r.key = s.key => r = s
<1>1. 1 \in Nat
  BY Zenon
<1> QED
  BY <1>1, DedupedAt, Zenon

\* The table after c writes, from the table after b and the writes after a <= b.
LEMMA DedupedExtends ==
  ASSUME NEW a \in Nat, NEW b \in Nat, NEW c \in Nat, a <= b, b <= c
  PROVE  LET new == Deduped(Rows(a + 1, c))
             ks == {r.key : r \in new}
         IN /\ new \subseteq Deduped(Rows(1, c))
            /\ \A r \in Deduped(Rows(1, b)) : r.key \notin ks => r \in Deduped(Rows(1, c))
            /\ \A r \in Deduped(Rows(1, c)) :
                  r \in new \/ (r \in Deduped(Rows(1, b)) /\ r.key \notin ks)
<1> DEFINE new == Deduped(Rows(a + 1, c))
           ks == {r.key : r \in new}
<1>0. a + 1 \in Nat /\ 1 \in Nat
  OBVIOUS
<1>1. /\ \A r \in Deduped(Rows(a + 1, c)) :
            \E i \in a + 1..c : /\ LastOf(i, a + 1, c) /\ r = RowAt(i)
                            /\ r.key = log[i].key /\ r.seq = i /\ r.op = log[i].op
      /\ \A i \in a + 1..c : LastOf(i, a + 1, c) => RowAt(i) \in Deduped(Rows(a + 1, c))
      /\ \A i \in a + 1..c : \E r \in Deduped(Rows(a + 1, c)) : r.key = log[i].key
  <2> DEFINE e == a + 1
  <2>1. e \in Nat
    OBVIOUS
  <2> HIDE DEF e
  <2>2. /\ \A r \in Deduped(Rows(e, c)) :
              \E i \in e..c : /\ LastOf(i, e, c) /\ r = RowAt(i)
                              /\ r.key = log[i].key /\ r.seq = i /\ r.op = log[i].op
        /\ \A i \in e..c : LastOf(i, e, c) => RowAt(i) \in Deduped(Rows(e, c))
        /\ \A i \in e..c : \E r \in Deduped(Rows(e, c)) : r.key = log[i].key
    BY <2>1, DedupedAt, Zenon
  <2> QED
    BY <2>2 DEF e
<1>2. /\ \A r \in Deduped(Rows(1, b)) :
            \E i \in 1..b : /\ LastOf(i, 1, b) /\ r = RowAt(i)
                            /\ r.key = log[i].key /\ r.seq = i /\ r.op = log[i].op
      /\ \A i \in 1..b : LastOf(i, 1, b) => RowAt(i) \in Deduped(Rows(1, b))
      /\ \A i \in 1..b : \E r \in Deduped(Rows(1, b)) : r.key = log[i].key
  BY <1>0, DedupedAt, Zenon
<1>3. /\ \A r \in Deduped(Rows(1, c)) :
            \E i \in 1..c : /\ LastOf(i, 1, c) /\ r = RowAt(i)
                            /\ r.key = log[i].key /\ r.seq = i /\ r.op = log[i].op
      /\ \A i \in 1..c : LastOf(i, 1, c) => RowAt(i) \in Deduped(Rows(1, c))
      /\ \A i \in 1..c : \E r \in Deduped(Rows(1, c)) : r.key = log[i].key
  BY <1>0, DedupedAt, Zenon
<1>8. \A i \in a + 1..c : log[i].key \in ks
  BY Zenon, <1>1
<1>4. \A k \in ks : \E i \in a + 1..c : log[i].key = k
  BY <1>1
<1>9. /\ \A r \in new : \E i \in a + 1..c : LastOf(i, a + 1, c) /\ r = RowAt(i)
      /\ \A i \in a + 1..c : LastOf(i, a + 1, c) => RowAt(i) \in new
  BY Zenon, <1>1
<1> HIDE DEF new, ks
<1>5. new \subseteq Deduped(Rows(1, c))
  <2> SUFFICES ASSUME NEW r \in new PROVE r \in Deduped(Rows(1, c))
    OBVIOUS
  <2>1. PICK i \in a + 1..c : LastOf(i, a + 1, c) /\ r = RowAt(i)
    BY Zenon, <1>9
  <2>2. i \in 1..c /\ LastOf(i, 1, c)
    BY <2>1 DEF LastOf
  <2> QED
    BY Zenon, <1>3, <2>1, <2>2
<1>6. ASSUME NEW r \in Deduped(Rows(1, b)), r.key \notin ks
      PROVE  r \in Deduped(Rows(1, c))
  <2>1. PICK i \in 1..b : LastOf(i, 1, b) /\ r = RowAt(i) /\ r.key = log[i].key
    BY Zenon, <1>2
  <2>2. \A j \in a + 1..c : log[j].key # log[i].key
    BY Zenon, <1>6, <1>8, <2>1
  <2>3. i \in 1..c /\ LastOf(i, 1, c)
    BY <2>1, <2>2 DEF LastOf
  <2> QED
    BY Zenon, <1>3, <2>1, <2>3
<1>7. ASSUME NEW r \in Deduped(Rows(1, c)), r \notin new
      PROVE  r \in Deduped(Rows(1, b)) /\ r.key \notin ks
  <2>1. PICK i \in 1..c : LastOf(i, 1, c) /\ r = RowAt(i) /\ r.key = log[i].key
    BY Zenon, <1>3
  <2>2. i <= a
    <3>1. i \in a + 1..c => LastOf(i, a + 1, c)
      BY <2>1 DEF LastOf
    <3> QED
      BY <1>7, <1>9, <2>1, <3>1
  <2>3. i \in 1..b /\ LastOf(i, 1, b)
    BY <2>1, <2>2 DEF LastOf
  <2>4. \A j \in a + 1..c : log[j].key # log[i].key
    BY <2>1, <2>2 DEF LastOf
  <2> QED
    BY ZenonT(30), <1>2, <1>4, <2>1, <2>3, <2>4
<1> QED
  BY Zenon, <1>5, <1>6, <1>7 DEF new, ks

\* What a flush of the keys ks leaves visible of a file: the rows of other keys,
\* whether the file was resolved, skipped by its key range or marked in full.
LEMMA FlushLive ==
  ASSUME TypeOK, installed = manifest, NEW ks \in SUBSET Int, IsFiniteSet(ks), ks # {},
         NEW f \in manifest.files, Sound(f)
  PROVE  f.rows \ Marked(f, FlushMarks(ks)) = {r \in Live(f) : r.key \notin ks}
<1> DEFINE marks == FlushMarks(ks)
<1>1. DOMAIN marks = {g.id : g \in ResolvedFiles(ks)}
  BY Zenon DEF FlushMarks
<1>2. CASE f.id \in DOMAIN marks
  <2>1. marks[f.id] = UNION {ResolveDv(g, ks) : g \in {h \in installed.files : h.id = f.id}}
    BY Zenon, <1>2 DEF FlushMarks
  <2>2. ResolveDv(f, ks) \subseteq marks[f.id]
    BY Zenon, <2>1
  <2>3. \A r \in marks[f.id] : r.key \in ks
    BY Zenon, <2>1 DEF ResolveDv
  <2>4. Marked(f, marks) = f.dv \cup marks[f.id]
    BY Zenon, <1>2 DEF Marked
  <2> HIDE DEF marks
  <2> QED
    BY Zenon, <2>2, <2>3, <2>4 DEF ResolveDv, Live, marks
<1>3. CASE f.id \notin DOMAIN marks
  <2>1. Marked(f, marks) = f.dv
    BY Zenon, <1>3 DEF Marked
  <2>2. f \notin ResolvedFiles(ks)
    BY Zenon, <1>1, <1>3
  <2>3. CASE f.dv = f.rows
    BY Zenon, <2>1, <2>3 DEF Live
  <2>4. CASE ~Overlaps(f, ks)
    <3>1. /\ KeyMin(f) \in Int /\ KeyMax(f) \in Int
          /\ \A r \in f.rows : KeyMin(f) <= r.key /\ r.key <= KeyMax(f) /\ r.key \in Int
      BY Zenon, FileRange DEF TypeOK, Version, File, Row
    <3>2. /\ Min(ks) \in Int /\ \A k \in ks : Min(ks) <= k
          /\ Max(ks) \in Int /\ \A k \in ks : k <= Max(ks)
      BY MinMax, Zenon
    <3>3. KeyMin(f) > Max(ks) \/ KeyMax(f) < Min(ks)
      BY <2>4, <3>1, <3>2 DEF Overlaps
    <3>4. \A r \in f.rows : r.key \notin ks
      BY <3>1, <3>2, <3>3
    <3> QED
      BY Zenon, <2>1, <3>4 DEF Live
  <2> QED
    BY Zenon, <2>2, <2>3, <2>4 DEF ResolvedFiles
<1> QED
  BY Zenon, <1>2, <1>3

ContentContext == BaseInv /\ FilesInv /\ SeqInv /\ ContentInv /\ ~JobsOverlap

\* What files show depends on the log only.
LEMMA SameLog ==
  ASSUME UNCHANGED log
  PROVE  /\ \A r : Kept(r)' <=> Kept(r)
         /\ \A n : Rows(1, n)' = Rows(1, n)
  BY Zenon DEF Kept, Rows

\* A flush's commit adds the rows of its memtable and marks those they replace:
\* the version still answers for every snapshot.
LEMMA FlushCommitContent ==
  ASSUME ContentContext, FlushCommit
  PROVE  ContentInv'
<1>0. /\ BaseInv /\ TypeOK /\ JobShape /\ SoundFiles /\ Prompt /\ InstallInv /\ ApartInv
      /\ FreshInv /\ ServedInv /\ SeqInv /\ ContentInv
  BY SMTT(30) DEF ContentContext, BaseInv, FilesInv, Prompt
<1>1. PICK upto \in dropped + 1..Len(log) :
            LET rows == Deduped(Rows(dropped + 1, upto))
                ks == {r.key : r \in rows}
                file == [id |-> next_id, level |-> 0, rows |-> rows, dv |-> {}]
            IN /\ upto >= recovered
               /\ manifest' = Apply(manifest, {file}, {}, FlushMarks(ks))
               /\ flush' = [pc |-> "install", upto |-> upto, version |-> manifest']
               /\ committed' = upto
               /\ file \in File /\ rows # {} /\ rows \subseteq Rows(1, Len(log))
               /\ \A i \in DOMAIN FlushMarks(ks) : FlushMarks(ks)[i] \subseteq Row
  BY <1>0, FlushEffect, ZenonT(30)
<1> DEFINE rows == Deduped(Rows(dropped + 1, upto))
           ks == {r.key : r \in rows}
           marks == FlushMarks(ks)
           file == [id |-> next_id, level |-> 0, rows |-> rows, dv |-> {}]
<1>2. /\ upto >= recovered /\ committed' = upto /\ file \in File
      /\ manifest' = Apply(manifest, {file}, {}, marks)
      /\ rows # {} /\ rows \subseteq Rows(1, Len(log))
  BY <1>1, ZenonT(30)
<1>3. UNCHANGED <<log, dropped, installed, jobs>> /\ flush.pc = "idle" /\ Quiet
  BY Zenon DEF FlushCommit, ContentContext
<1>4. installed = manifest
  BY Zenon, <1>0, CommitFindsInstalled
<1>5. manifest \in Version /\ manifest' \in Version
  BY Zenon, <1>0, FlushBase DEF BaseInv, TypeOK
<1>6. dropped \in Nat /\ committed \in Nat /\ upto \in Nat /\ dropped <= committed /\ committed <= upto
  <2>1. Len(log) \in Nat /\ dropped \in 0..Len(log) /\ recovered \in 0..Len(log) /\ committed \in 0..Len(log)
    BY <1>0, LogTyped, ZenonT(30) DEF TypeOK
  <2>2. dropped <= committed /\ (dropped = committed \/ committed <= recovered)
    BY <1>0, <1>3, ZenonT(30) DEF SeqInv
  <2>3. upto \in dropped + 1..Len(log) /\ upto >= recovered
    BY <1>2, Zenon
  <2> QED
    BY <2>1, <2>2, <2>3
<1>7. /\ rows \subseteq Deduped(Rows(1, upto))
      /\ \A r \in Deduped(Rows(1, committed)) : r.key \notin ks => r \in Deduped(Rows(1, upto))
      /\ \A r \in Deduped(Rows(1, upto)) :
            r \in rows \/ (r \in Deduped(Rows(1, committed)) /\ r.key \notin ks)
  BY Zenon, <1>6, DedupedExtends
<1>8. ks \in SUBSET Int /\ IsFiniteSet(ks) /\ ks # {}
  <2>1. rows \subseteq Row /\ IsFiniteSet(rows)
    <3>1. Rows(1, Len(log)) \subseteq Row /\ IsFiniteSet(Rows(1, Len(log)))
      BY <1>0, LogTyped, RowsTyped
    <3> QED
      BY <1>2, <3>1, FS_Subset, ZenonT(30)
  <2> DEFINE F == [r \in rows |-> r.key]
  <2>2. F \in Surjection(rows, ks)
    BY DEF Surjection
  <2> HIDE DEF F, rows
  <2>3. IsFiniteSet(ks)
    <3> HIDE DEF ks
    <3> QED
      BY Zenon, <2>1, <2>2, FS_Surjection
  <2> QED
    BY <1>2, <2>1, <2>3, ZenonT(30) DEF Row
<1>9. \A r \in rows : r.key \in ks
  BY Zenon
<1>10. file.id = next_id /\ Live(file) = rows
  BY SMTT(30) DEF Live
<1> HIDE DEF rows, ks, file
<1>11. \A g \in manifest.files : g.rows \ Marked(g, marks) = {r \in Live(g) : r.key \notin ks}
  BY <1>0, <1>4, <1>8, FlushLive, ZenonT(30) DEF SoundFiles
<1> HIDE DEF marks
<1>12. \A h \in manifest'.files :
          \/ h = file
          \/ \E g \in manifest.files :
                /\ h.id = g.id /\ h.level = g.level /\ h.rows = g.rows /\ h.dv = Marked(g, marks)
                /\ Live(h) = {r \in Live(g) : r.key \notin ks}
  <2> TAKE h \in manifest'.files
  <2>1. \/ h = file
        \/ \E g \in manifest.files :
              h.id = g.id /\ h.level = g.level /\ h.rows = g.rows /\ h.dv = Marked(g, marks)
    <3>1. h \in Apply(manifest, {file}, {}, marks).files
      BY Zenon, <1>2
    <3>2. \/ h \in {file}
          \/ \E g \in manifest.files :
                /\ g.id \notin {} /\ h.id = g.id /\ h.level = g.level
                /\ h.rows = g.rows /\ h.dv = Marked(g, marks)
      BY <1>5, <3>1, ApplyFiles
    <3> QED
      BY Zenon, <3>2
  <2>2. ASSUME NEW g \in manifest.files, h.rows = g.rows, h.dv = Marked(g, marks)
        PROVE  Live(h) = {r \in Live(g) : r.key \notin ks}
    BY Zenon, <1>11, <2>2 DEF Live
  <2> QED
    BY Zenon, <2>1, <2>2
<1>13. /\ file \in manifest'.files
       /\ \A g \in manifest.files : \E h \in manifest'.files :
             Live(h) = {r \in Live(g) : r.key \notin ks}
  BY <1>2, <1>5, <1>11, ApplyFiles, SMTT(30) DEF Live
<1>14. /\ LiveRows(manifest.files) \subseteq Deduped(Rows(1, committed))
       /\ \A r \in Deduped(Rows(1, committed)) : Kept(r) => r \in LiveRows(manifest.files)
       /\ OnePlace(manifest.files) /\ UniqueIds(manifest.files)
  BY <1>0, Zenon DEF ContentInv, Exact
<1>15. LiveRows(manifest'.files) \subseteq Deduped(Rows(1, upto))
  <2> SUFFICES ASSUME NEW h \in manifest'.files, NEW r \in Live(h)
               PROVE  r \in Deduped(Rows(1, upto))
    BY Zenon DEF LiveRows
  <2>1. CASE h = file
    BY Zenon, <1>7, <1>10, <2>1
  <2>2. CASE h # file
    <3>1. PICK g \in manifest.files : Live(h) = {x \in Live(g) : x.key \notin ks}
      BY Zenon, <1>12, <2>2
    <3>2. r \in LiveRows(manifest.files) /\ r.key \notin ks
      BY Zenon, <3>1 DEF LiveRows
    <3> QED
      BY Zenon, <1>7, <1>14, <3>2
  <2> QED
    BY Zenon, <2>1, <2>2
<1>16. \A r \in Deduped(Rows(1, upto)) : Kept(r) => r \in LiveRows(manifest'.files)
  <2> SUFFICES ASSUME NEW r \in Deduped(Rows(1, upto)), Kept(r)
               PROVE  \E h \in manifest'.files : r \in Live(h)
    BY Zenon DEF LiveRows
  <2>1. CASE r \in rows
    BY Zenon, <1>10, <1>13, <2>1
  <2>2. CASE r \notin rows
    <3>1. r \in LiveRows(manifest.files) /\ r.key \notin ks
      BY Zenon, <1>7, <1>14, <2>2
    <3>2. PICK g \in manifest.files : r \in Live(g)
      BY Zenon, <3>1 DEF LiveRows
    <3> QED
      BY Zenon, <1>13, <3>1, <3>2
  <2> QED
    BY Zenon, <2>1, <2>2
<1>17. \A i \in Ids(manifest.files) : i < next_id
  BY Zenon, <1>0 DEF ServedInv, FreshInv
<1>18. OnePlace(manifest'.files) /\ UniqueIds(manifest'.files)
  <2>1. SUFFICES ASSUME NEW h1 \in manifest'.files, NEW h2 \in manifest'.files,
                        Live(h1) \cap Live(h2) # {} \/ h1.id = h2.id
                 PROVE  h1 = h2
    BY Zenon DEF OnePlace, UniqueIds
  <2>2. ASSUME NEW h \in manifest'.files, h # file
        PROVE  /\ h.id < next_id /\ h.id \in Nat
               /\ Live(h) \cap rows = {}
    <3>1. PICK g \in manifest.files : h.id = g.id /\ Live(h) = {x \in Live(g) : x.key \notin ks}
      BY Zenon, <1>12, <2>2
    <3>2. h.id \in Ids(manifest.files) /\ h.id \in Nat
      BY Zenon, <1>5, <3>1 DEF Ids, Version, File
    <3> QED
      BY Zenon, <1>9, <1>17, <3>1, <3>2
  <2>3. CASE h1 = file \/ h2 = file
    BY <1>10, <2>1, <2>2, <2>3, SMTT(30)
  <2>4. CASE h1 # file /\ h2 # file
    <3>1. PICK g1 \in manifest.files :
             /\ h1.id = g1.id /\ h1.level = g1.level /\ h1.rows = g1.rows
             /\ h1.dv = Marked(g1, marks) /\ Live(h1) \subseteq Live(g1)
      BY Zenon, <1>12, <2>4
    <3>2. PICK g2 \in manifest.files :
             /\ h2.id = g2.id /\ h2.level = g2.level /\ h2.rows = g2.rows
             /\ h2.dv = Marked(g2, marks) /\ Live(h2) \subseteq Live(g2)
      BY Zenon, <1>12, <2>4
    <3>3. g1 = g2
      BY Zenon, <1>14, <2>1, <3>1, <3>2 DEF OnePlace, UniqueIds
    <3> QED
      BY ZenonT(30), <1>5, <3>1, <3>2, <3>3, SameFile DEF Version
  <2> QED
    BY Zenon, <2>3, <2>4
<1>19. Exact(manifest.files, committed)'
  BY <1>2, <1>3, <1>15, <1>16, <1>18, SameLog, ZenonT(30) DEF Exact
<1>20. (\E n \in dropped..committed : Exact(installed.files, n))'
  <2>1. PICK n \in dropped..committed : Exact(installed.files, n)
    BY Zenon, <1>0 DEF ContentInv
  <2>2. Exact(installed.files, n)'
    BY Zenon, <1>3, <2>1, SameLog DEF Exact
  <2> QED
    BY <1>2, <1>3, <1>6, <2>1, <2>2
<1>21. \A c \in Compactors : jobs'[c].pc \notin {"merge", "commit"}
  BY Zenon, <1>0, <1>3 DEF Quiet, JobShape
<1> QED
  BY ZenonT(30), <1>18, <1>19, <1>20, <1>21 DEF ContentInv

\* Steps that leave the log, the versions and the outputs of merges alone.
LEMMA ContentKept ==
  ASSUME ContentInv, UNCHANGED <<log, dropped, committed, manifest, installed>>,
         \A c \in Compactors : jobs'[c].pc \in {"merge", "commit"} => jobs'[c] = jobs[c]
  PROVE  ContentInv'
<1>1. \A c \in Compactors :
         /\ jobs'[c].pc = "merge" => jobs'[c].sources = Replacing(c)'
         /\ jobs'[c].pc = "commit" => ReplacesExactly(c)'
  BY SameLog, ZenonT(30) DEF ContentInv, ReplacesExactly, Replacing
<1>2. Exact(manifest.files, committed)' /\ UniqueIds(manifest.files)'
  BY SameLog, ZenonT(30) DEF ContentInv, Exact
<1>3. (\E n \in dropped..committed : Exact(installed.files, n))'
  BY SameLog, ZenonT(30) DEF ContentInv, Exact
<1> QED
  BY Zenon, <1>1, <1>2, <1>3 DEF ContentInv

\* The manifest becomes the installed version.
LEMMA InstallContent ==
  ASSUME ContentContext, UNCHANGED <<log, committed, manifest>>, installed' = manifest,
         dropped' \in 0..committed,
         \A c \in Compactors : jobs'[c].pc \in {"merge", "commit"} => jobs'[c] = jobs[c]
  PROVE  ContentInv'
<1>0. ContentInv /\ committed \in Nat
  <2>1. TypeOK /\ ContentInv
    BY Zenon DEF ContentContext, BaseInv
  <2>2. Len(log) \in Nat /\ committed \in 0..Len(log)
    BY <2>1, LogTyped, ZenonT(30) DEF TypeOK
  <2> QED
    BY <2>1, <2>2
<1>1. \A c \in Compactors :
         /\ jobs'[c].pc = "merge" => jobs'[c].sources = Replacing(c)'
         /\ jobs'[c].pc = "commit" => ReplacesExactly(c)'
  BY <1>0, SameLog, ZenonT(30) DEF ContentInv, ReplacesExactly, Replacing
<1>2. Exact(manifest.files, committed)' /\ UniqueIds(manifest.files)'
  BY <1>0, SameLog, Zenon DEF ContentInv, Exact
<1>3. committed' \in dropped'..committed' /\ installed'.files = manifest'.files
  <2>1. committed' = committed /\ installed' = manifest /\ manifest' = manifest
    BY Zenon
  <2>2. \A d \in 0..committed : committed \in d..committed
    BY <1>0
  <2> QED
    BY <2>1, <2>2, Zenon
<1>4. (\E n \in dropped..committed : Exact(installed.files, n))'
  BY <1>2, <1>3, ZenonT(30) DEF Exact
<1> QED
  BY <1>1, <1>2, <1>4, ZenonT(30) DEF ContentInv

\* A new write is in no file, so no merge has to keep it.
LEMMA WriteContent ==
  ASSUME ContentContext, Write
  PROVE  ContentInv'
<1>0. /\ TypeOK /\ SoundFiles /\ SeqInv /\ ContentInv /\ committed \in 0..Len(log)
      /\ Len(log) \in Nat /\ dropped \in Nat
  <2>1. TypeOK /\ SoundFiles /\ SeqInv /\ ContentInv
    BY Zenon DEF ContentContext, BaseInv
  <2>2. Len(log) \in Nat /\ committed \in 0..Len(log) /\ dropped \in 0..Len(log)
    BY <2>1, LogTyped, ZenonT(30) DEF TypeOK
  <2> QED
    BY <2>1, <2>2
<1>1. UNCHANGED <<dropped, committed, manifest, installed, jobs>>
  BY DEF Write
<1>2. Len(log') = Len(log) + 1 /\ \A i \in 1..Len(log) : log'[i] = log[i]
  <2>1. PICK k \in TableKeys, op \in Ops : log' = Append(log, [key |-> k, op |-> op])
    BY Zenon DEF Write
  <2> DEFINE w == [key |-> k, op |-> op]
             W == [key : TableKeys, op : Ops]
  <2>2. w \in W /\ log \in Seq(W) /\ log' = Append(log, w)
    BY Zenon, <1>0, <2>1 DEF TypeOK
  <2> HIDE DEF w, W
  <2> QED
    BY <2>2
<1>3. \A n \in 0..Len(log) : Rows(1, n)' = Rows(1, n)
  BY <1>0, <1>2 DEF Rows
<1>4. \A n \in 0..Len(log) : \A r \in Deduped(Rows(1, n)) : Kept(r)' => Kept(r)
  <2> SUFFICES ASSUME NEW n \in 0..Len(log), NEW r \in Deduped(Rows(1, n)), Kept(r)'
               PROVE  Kept(r)
    OBVIOUS
  <2>1. n \in Nat /\ 1 \in Nat
    OBVIOUS
  <2>2. PICK i \in 1..n : r.seq = i
    BY <2>1, DedupedAt, SMTT(30)
  <2> QED
    BY <1>0, <1>2, <2>2 DEF Kept
<1>5. Exact(manifest.files, committed)' /\ UniqueIds(manifest.files)'
  BY Zenon, <1>0, <1>1, <1>3, <1>4 DEF ContentInv, Exact
<1>6. (\E n \in dropped..committed : Exact(installed.files, n))'
  <2>1. PICK n \in dropped..committed : Exact(installed.files, n)
    BY Zenon, <1>0 DEF ContentInv
  <2>2. n \in 0..Len(log)
    BY <1>0, <2>1
  <2>3. Exact(installed.files, n)'
    BY ZenonT(30), <1>1, <1>3, <1>4, <2>1, <2>2 DEF Exact
  <2> QED
    BY Zenon, <1>1, <2>1, <2>3
<1>7. \A c \in Compactors : LiveRows(Replacing(c)) \subseteq Deduped(Rows(1, committed))
  BY Zenon, <1>0 DEF ContentInv, Exact, LiveRows, Replacing
<1>8. \A c \in Compactors : Replacing(c)' = Replacing(c)
  BY Zenon, <1>1 DEF Replacing
<1>9. \A c \in Compactors : jobs[c].pc = "commit" => ReplacesExactly(c)'
  BY <1>0, <1>1, <1>4, <1>7, <1>8, ZenonT(30) DEF ContentInv, ReplacesExactly
<1> QED
  BY ZenonT(30), <1>0, <1>1, <1>5, <1>6, <1>8, <1>9 DEF ContentInv

\* The sources a pick takes hold every version of a key that is not above them.
LEMMA PickContent ==
  ASSUME ContentContext, NEW c \in Compactors, CompactPick(c)
  PROVE  ContentInv'
<1>0. BaseInv /\ TypeOK /\ ContentInv /\ JobShape /\ InstallInv
  BY DEF ContentContext, BaseInv, FilesInv
<1>1. UNCHANGED <<log, dropped, committed, manifest, installed>> /\ Quiet
  BY SMTT(30) DEF CompactPick, ContentContext
<1>2. installed = manifest
  BY <1>0, <1>1, ZenonT(30) DEF InstallInv, Installing, Quiet, JobShape
<1>3. PICK l \in 0..NumLevels, inputs \in SUBSET installed.files, j \in Job :
         LET sources == inputs \cup PullIns(installed, l, inputs)
         IN /\ l \in PickLevel(installed, Busy) /\ inputs = PickInputs(installed, l)
            /\ inputs # {} /\ sources \subseteq installed.files
            /\ Replaced(c, j)
            /\ j.pc = "merge" /\ j.level = l /\ j.after = installed.snap
            /\ j.sources = sources /\ j.removes = Ids(sources) /\ j.out = {}
            /\ j.version = Empty
  BY <1>0, PickReplaces, ZenonT(30)
<1>4. /\ jobs'[c] = j /\ \A d \in Compactors : d # c => jobs'[d] = jobs[d]
      /\ j.pc = "merge" /\ j.removes = Ids(j.sources) /\ j.sources \subseteq manifest.files
  BY <1>2, <1>3, Zenon DEF Replaced
<1>5. \A d \in Compactors : d # c => jobs'[d].pc \notin {"merge", "commit"}
  BY <1>0, <1>1, <1>4, ZenonT(30) DEF Quiet, JobShape
<1>6. Replacing(c)' = j.sources
  <2>1. Replacing(c)' = {f \in manifest.files : f.id \in Ids(j.sources)}
    BY <1>1, <1>4, ZenonT(30) DEF Replacing
  <2>2. UniqueIds(manifest.files)
    BY <1>0, Zenon DEF ContentInv
  <2>3. \A f \in manifest.files : f.id \in Ids(j.sources) => f \in j.sources
    BY <1>4, <2>2, Zenon DEF UniqueIds, Ids
  <2>4. \A f \in j.sources : f \in manifest.files /\ f.id \in Ids(j.sources)
    BY <1>4, Zenon DEF Ids
  <2> QED
    BY <2>1, <2>3, <2>4, Zenon
<1>7. Exact(manifest.files, committed)' /\ UniqueIds(manifest.files)'
  BY <1>0, <1>1, SameLog, ZenonT(30) DEF ContentInv, Exact
<1>8. (\E n \in dropped..committed : Exact(installed.files, n))'
  BY <1>0, <1>1, SameLog, ZenonT(30) DEF ContentInv, Exact
<1>9. \A d \in Compactors :
         /\ jobs'[d].pc = "merge" => jobs'[d].sources = Replacing(d)'
         /\ jobs'[d].pc = "commit" => ReplacesExactly(d)'
  BY Zenon, <1>4, <1>5, <1>6
<1> QED
  BY <1>7, <1>8, <1>9, Zenon DEF ContentInv

\* Where a snapshot has one live row per key, every row is the latest of its key
\* for the merge, which drops old tombstones and nothing else.
LEMMA MergeContent ==
  ASSUME ContentContext, NEW c \in Compactors, CompactMerge(c)
  PROVE  ContentInv'
<1>0. BaseInv /\ TypeOK /\ ContentInv /\ JobShape /\ ApartInv /\ committed \in Nat /\ 1 \in Nat
  BY Zenon, PositionsTyped DEF ContentContext, BaseInv, FilesInv
<1>1. UNCHANGED <<log, dropped, committed, manifest, installed>> /\ jobs[c].pc = "merge"
  BY SMTT(30) DEF CompactMerge
<1>2. PICK rows \in SUBSET Rows(1, Len(log)), j \in Job :
         LET out == jobs[c].level + 1
         IN /\ rows = MergeRows(jobs[c].sources, Len(log), out)
            /\ rows \subseteq Row /\ IsFiniteSet(rows) /\ Cardinality(rows) \in Nat
            /\ Replaced(c, j)
            /\ j.pc = "commit" /\ j.level = jobs[c].level /\ j.after = jobs[c].after
            /\ j.sources = {} /\ j.removes = jobs[c].removes
            /\ j.out = OutputFiles(rows, out, next_id) /\ j.version = jobs[c].version
            /\ disk' = disk \cup Ids(j.out) /\ next_id' = next_id + Cardinality(rows)
            /\ out \in Nat
  BY <1>0, MergeReplaces, ZenonT(30)
<1> DEFINE out == jobs[c].level + 1
           all == LiveRows(jobs[c].sources)
           files == OutputFiles(rows, out, next_id)
<1>3. /\ jobs'[c] = j /\ \A d \in Compactors : d # c => jobs'[d] = jobs[d]
      /\ j.pc = "commit" /\ j.removes = jobs[c].removes /\ j.out = files
  BY <1>2, ZenonT(30) DEF Replaced
<1>4. rows = {r \in all : IF \A s \in all : s.key = r.key => s.seq <= r.seq
                         THEN ~(ShouldDropTombstones(out) /\ r.op = "del" /\ r.seq < Len(log))
                         ELSE r.seq >= Len(log)}
  BY <1>2, ZenonT(30) DEF MergeRows, LiveRows
<1>5. LiveRows(files) = rows /\ OnePlace(files) /\ UniqueIds(files)
  <2>1. rows \in SUBSET Row /\ IsFiniteSet(rows) /\ out \in Nat /\ next_id \in Nat
    BY <1>0, <1>2, Zenon DEF TypeOK
  <2> HIDE DEF out
  <2>2. \A f \in files : f.dv = {}
    BY Zenon, <2>1, OutputTyped
  <2>3. \A f \in files : Live(f) = f.rows
    BY Zenon, <2>2 DEF Live
  <2>4. /\ \A f, g \in files : f.rows \cap g.rows # {} \/ f.id = g.id => f = g
        /\ RowsOf(files) = rows
    BY Zenon, <2>1, OutputOrder
  <2> HIDE DEF files
  <2> QED
    BY <2>3, <2>4, SMTT(30) DEF LiveRows, RowsOf, OnePlace, UniqueIds
<1>6. jobs[c].sources = Replacing(c) /\ Replacing(c)' = Replacing(c)
  BY Zenon, <1>0, <1>1, <1>3 DEF ContentInv, Replacing
<1>7. all \subseteq Deduped(Rows(1, committed))
  BY <1>0, <1>6, Zenon DEF ContentInv, Exact, LiveRows, Replacing
<1> HIDE DEF all, files, out
<1>8. \A r \in all : Kept(r) => r \in rows
  <2> SUFFICES ASSUME NEW r \in all, Kept(r) PROVE r \in rows
    BY Zenon
  <2>1. \A s \in all : s.key = r.key => s = r
    BY Zenon, <1>0, <1>7, DedupedAt
  <2>2. r.seq \in Int
    <3>1. r \in Deduped(Rows(1, committed))
      BY Zenon, <1>7
    <3>2. PICK i \in 1..committed : r.seq = i
      BY <1>0, <3>1, DedupedAt
    <3> QED
      BY <3>2
  <2>3. \A s \in all : s.key = r.key => s.seq <= r.seq
    BY <2>1, <2>2
  <2>4. ~(r.op = "del" /\ r.seq < Len(log))
    BY <2>2 DEF Kept
  <2> QED
    BY Zenon, <1>4, <2>3, <2>4
<1>9. rows \subseteq all
  BY Zenon, <1>4
<1>10. ReplacesExactly(c)'
  <2>1. LiveRows(Replacing(c)') = all
    BY Zenon, <1>6 DEF all
  <2>2. LiveRows(files) \subseteq all /\ \A r \in all : Kept(r)' => r \in LiveRows(files)
    BY ZenonT(30), <1>1, <1>5, <1>8, <1>9, SameLog
  <2> QED
    BY Zenon, <1>3, <1>5, <2>1, <2>2 DEF ReplacesExactly
<1>11. \A d \in Compactors : d # c => jobs'[d].pc \notin {"merge", "commit"}
  BY Zenon, <1>0, <1>1, <1>3 DEF ApartInv, JobShape
<1>12. Exact(manifest.files, committed)' /\ UniqueIds(manifest.files)'
  BY <1>0, <1>1, SameLog, ZenonT(30) DEF ContentInv, Exact
<1>13. (\E n \in dropped..committed : Exact(installed.files, n))'
  BY <1>0, <1>1, SameLog, ZenonT(30) DEF ContentInv, Exact
<1>14. \A d \in Compactors :
         /\ jobs'[d].pc = "merge" => jobs'[d].sources = Replacing(d)'
         /\ jobs'[d].pc = "commit" => ReplacesExactly(d)'
  BY Zenon, <1>3, <1>10, <1>11
<1> QED
  BY <1>12, <1>13, <1>14, ZenonT(30) DEF ContentInv

\* A transaction with no marks.
LEMMA ApplyUnmarked ==
  ASSUME NEW m \in Version, NEW adds \in SUBSET File, NEW removes
  PROVE  Apply(m, adds, removes, <<>>).files = {f \in m.files : f.id \notin removes} \cup adds
<1> DEFINE v == Apply(m, adds, removes, <<>>)
<1>1. \A g : Marked(g, <<>>) = g.dv
  BY SMTT(30) DEF Marked
<1>2. v \in Version
  <2>1. \A i \in DOMAIN <<>> : <<>>[i] \subseteq Row
    OBVIOUS
  <2> QED
    BY Zenon, <2>1, ApplyTyped
<1>3. /\ adds \subseteq v.files
      /\ \A f \in v.files :
            \/ f \in adds
            \/ \E g \in m.files :
                  /\ g.id \notin removes /\ f.id = g.id /\ f.level = g.level
                  /\ f.rows = g.rows /\ f.dv = g.dv
      /\ \A g \in m.files : g.id \notin removes =>
            \E f \in v.files :
                  /\ f.id = g.id /\ f.level = g.level
                  /\ f.rows = g.rows /\ f.dv = g.dv
  BY <1>1, ApplyFiles, SMTT(30)
<1>4. v.files \subseteq File /\ m.files \subseteq File
  BY Zenon, <1>2 DEF Version
<1> HIDE DEF v
<1>5. \A f \in v.files : f \in adds \/ (f \in m.files /\ f.id \notin removes)
  BY Zenon, <1>3, <1>4, SameFile
<1>6. \A g \in m.files : g.id \notin removes => g \in v.files
  BY Zenon, <1>3, <1>4, SameFile
<1> QED
  BY <1>3, <1>5, <1>6, ZenonT(30) DEF v

\* A compaction's commit puts rows in place of sources that answer alike.
LEMMA CommitContent ==
  ASSUME ContentContext, NEW c \in Compactors, CompactCommit(c)
  PROVE  ContentInv'
<1>0. BaseInv /\ TypeOK /\ ContentInv /\ JobShape /\ ApartInv /\ OutputInv
  BY DEF ContentContext, BaseInv, FilesInv
<1>1. UNCHANGED <<log, dropped, committed, installed>> /\ jobs[c].pc = "commit"
  BY Zenon DEF CompactCommit
<1> DEFINE out == jobs[c].out
           stay == {f \in manifest.files : f.id \notin jobs[c].removes}
<1>2. manifest'.files = stay \cup out
  <2>1. manifest \in Version /\ out \in SUBSET File
    BY <1>0 DEF TypeOK, Job
  <2> QED
    <3>1. manifest' = Apply(manifest, out, jobs[c].removes, <<>>)
      BY <1>0, CommitReplaces, Zenon
    <3> QED
      BY <2>1, <3>1, ApplyUnmarked
<1>3. PICK j \in Job : Replaced(c, j) /\ j.pc = "install"
  BY <1>0, CommitReplaces, Zenon
<1>4. jobs'[c].pc = "install" /\ \A d \in Compactors : d # c => jobs'[d] = jobs[d]
  BY <1>3, SMTT(30) DEF Replaced
<1>5. /\ LiveRows(manifest.files) \subseteq Deduped(Rows(1, committed))
      /\ \A r \in Deduped(Rows(1, committed)) : Kept(r) => r \in LiveRows(manifest.files)
      /\ OnePlace(manifest.files) /\ UniqueIds(manifest.files)
  BY <1>0, ZenonT(30) DEF ContentInv, Exact
<1>6. /\ LiveRows(out) \subseteq LiveRows(Replacing(c))
      /\ \A r \in LiveRows(Replacing(c)) : Kept(r) => r \in LiveRows(out)
      /\ OnePlace(out) /\ UniqueIds(out)
  BY <1>0, <1>1, ZenonT(30) DEF ContentInv, ReplacesExactly
<1>7. \A f \in out, g \in manifest.files : f.id # g.id
  BY <1>0, ZenonT(30) DEF OutputInv, Outs, Ids, Disjoint
<1>8. \A f \in manifest.files : f \in stay \/ f \in Replacing(c)
  BY Zenon DEF Replacing
<1>9. Replacing(c) \subseteq manifest.files /\ stay \subseteq manifest.files
      /\ \A f \in stay : f \notin Replacing(c)
  BY SMTT(30) DEF Replacing
<1> HIDE DEF out, stay
<1>10. LiveRows(manifest'.files) \subseteq Deduped(Rows(1, committed))
  BY <1>2, <1>5, <1>6, <1>9, ZenonT(30) DEF LiveRows
<1>11. \A r \in Deduped(Rows(1, committed)) : Kept(r) => r \in LiveRows(manifest'.files)
  <2> SUFFICES ASSUME NEW r \in Deduped(Rows(1, committed)), Kept(r)
               PROVE  r \in LiveRows(manifest'.files)
    BY Zenon
  <2>1. PICK g \in manifest.files : r \in Live(g)
    BY Zenon, <1>5 DEF LiveRows
  <2>2. CASE g \in stay
    BY Zenon, <1>2, <2>1, <2>2 DEF LiveRows
  <2>3. CASE g \in Replacing(c)
    <3>1. r \in LiveRows(out)
      BY Zenon, <1>6, <2>1, <2>3 DEF LiveRows
    <3> QED
      BY Zenon, <1>2, <3>1 DEF LiveRows
  <2> QED
    BY <1>8, <2>2, <2>3, Zenon
<1>12. \A f \in stay, g \in out : Live(f) \cap Live(g) = {} /\ f.id # g.id
  <2>1. SUFFICES ASSUME NEW f \in stay, NEW g \in out, NEW r \in Live(f), r \in Live(g)
                 PROVE  FALSE
    BY Zenon, <1>7, <1>9
  <2>2. r \in LiveRows(Replacing(c))
    BY Zenon, <1>6, <2>1 DEF LiveRows
  <2>3. PICK h \in Replacing(c) : r \in Live(h)
    BY Zenon, <2>2 DEF LiveRows
  <2> QED
    BY Zenon, <1>5, <1>9, <2>1, <2>3 DEF OnePlace
<1>13. OnePlace(manifest'.files) /\ UniqueIds(manifest'.files)
  BY <1>2, <1>5, <1>6, <1>9, <1>12, ZenonT(30) DEF OnePlace, UniqueIds
<1>14. Exact(manifest.files, committed)'
  BY <1>1, <1>10, <1>11, <1>13, SameLog, ZenonT(30) DEF Exact
<1>15. (\E n \in dropped..committed : Exact(installed.files, n))'
  BY <1>0, <1>1, SameLog, ZenonT(30) DEF ContentInv, Exact
<1>16. \A d \in Compactors : jobs'[d].pc \notin {"merge", "commit"}
  BY Zenon, <1>0, <1>1, <1>4 DEF ApartInv, JobShape
<1> QED
  BY Zenon, <1>13, <1>14, <1>15, <1>16 DEF ContentInv

\* Every step of a compaction keeps what the versions answer.
LEMMA CompactContent ==
  ASSUME ContentContext, NEW c \in Compactors, Compact(c)
  PROVE  ContentInv'
<1>0. /\ BaseInv /\ TypeOK /\ ContentInv /\ InstallInv /\ SeqInv
      /\ committed \in Nat /\ dropped \in Nat
  BY Zenon, PositionsTyped DEF ContentContext, BaseInv, FilesInv
<1>1. CASE CompactFail(c) \/ GcSweep(c)
  <2>1. UNCHANGED <<log, dropped, committed, manifest, installed>>
    BY Zenon, <1>1, SweepEffect DEF CompactFail
  <2>2. Replaced(c, NoJob) /\ NoJob.pc = "idle"
    BY <1>0, <1>1, EndReplaces, ZenonT(30) DEF NoJob
  <2> QED
    BY Zenon, <1>0, <2>1, <2>2, ContentKept DEF Replaced
<1>2. CASE CompactInstall(c)
  <2>1. UNCHANGED <<log, dropped, committed, manifest>> /\ installed' = manifest
    BY Zenon, <1>0, <1>2 DEF CompactInstall, InstallInv
  <2>2. PICK j \in Job : Replaced(c, j) /\ j.pc = "enqueue"
    BY Zenon, <1>0, <1>2, InstallReplaces
  <2>3. dropped' \in 0..committed
    BY <1>0, <2>1 DEF SeqInv
  <2> QED
    BY Zenon, <1>0, <2>1, <2>2, <2>3, InstallContent DEF Replaced
<1>3. CASE CompactEnqueue(c)
  <2>1. UNCHANGED <<log, dropped, committed, manifest, installed>>
    BY <1>3, SMTT(30) DEF CompactEnqueue
  <2>2. PICK j \in Job : Replaced(c, j) /\ j.pc = "gc"
    BY <1>0, <1>3, EnqueueReplaces, Zenon
  <2> QED
    BY Zenon, <1>0, <2>1, <2>2, ContentKept DEF Replaced
<1>4. CASE GcMark(c)
  <2>1. UNCHANGED <<log, dropped, committed, manifest, installed>>
    BY Zenon, <1>4 DEF GcMark
  <2>2. PICK j \in Job : Replaced(c, j) /\ j.pc = "sweep"
    BY Zenon, <1>0, <1>4, MarkReplaces
  <2> QED
    BY Zenon, <1>0, <2>1, <2>2, ContentKept DEF Replaced
<1> QED
  BY <1>1, <1>2, <1>3, <1>4, PickContent, MergeContent, CommitContent DEF Compact

\* Every step keeps ContentInv.
LEMMA ContentInductive ==
  ASSUME ContentContext, [Next]_vars
  PROVE  ContentInv'
<1>0. /\ BaseInv /\ TypeOK /\ ContentInv /\ InstallInv /\ ApartInv /\ JobShape /\ SeqInv
      /\ committed \in Nat /\ dropped \in Nat
  BY Zenon, PositionsTyped DEF ContentContext, BaseInv, FilesInv
<1>1. CASE UNCHANGED vars
  BY <1>0, <1>1, ContentKept, SMTT(30) DEF vars
<1>2. ASSUME NEW r \in Readers, Pin(r) \/ Unpin(r)
      PROVE  ContentInv'
  BY <1>0, <1>2, ContentKept, Zenon DEF Pin, Unpin
<1>3. CASE FlushInstall
  <2>1. UNCHANGED <<log, dropped, committed, manifest, jobs>> /\ installed' = manifest
    BY Zenon, <1>0, <1>3 DEF FlushInstall, InstallInv
  <2>2. dropped' \in 0..committed
    BY <1>0, <2>1 DEF SeqInv
  <2> QED
    BY Zenon, <2>1, <2>2, InstallContent
<1>4. CASE FlushDrop
  <2>1. /\ UNCHANGED <<log, committed, manifest, installed, jobs>> /\ flush.pc = "drop"
        /\ dropped' = flush.upto
    BY Zenon, <1>4 DEF FlushDrop
  <2>2. installed' = manifest
    BY Zenon, <1>0, <2>1 DEF InstallInv, Installing, ApartInv, JobShape
  <2>3. dropped' \in 0..committed
    BY <1>0, <2>1 DEF SeqInv
  <2> QED
    BY Zenon, <2>1, <2>2, <2>3, InstallContent
<1>5. CASE CrashReopen
  <2>1. /\ UNCHANGED <<log, committed, manifest>> /\ installed' = manifest
        /\ dropped' \in 0..dropped
    BY Zenon, <1>5 DEF CrashReopen, RecoverFrom
  <2>2. \A c \in Compactors : jobs'[c].pc = "idle"
    BY <1>5 DEF CrashReopen, NoJob
  <2>3. dropped' \in 0..committed
    BY <1>0, <2>1 DEF SeqInv
  <2> QED
    BY Zenon, <2>1, <2>2, <2>3, InstallContent
<1> QED
  BY ZenonT(30), <1>1, <1>2, <1>3, <1>4, <1>5, WriteContent, FlushCommitContent, CompactContent DEF Next

\* The empty table answers for the empty log.
LEMMA InitContent == Init => SeqInv /\ ContentInv
<1> SUFFICES ASSUME Init PROVE SeqInv /\ ContentInv
  BY Zenon
<1>1. /\ manifest.files = {} /\ installed.files = {} /\ committed = 0 /\ dropped = 0
      /\ flush.pc = "idle"
  BY Zenon DEF Init, Empty, NoFlush
<1>2. \A c \in Compactors : jobs[c].pc = "idle"
  BY Zenon DEF Init, NoJob
<1>3. Deduped(Rows(1, 0)) = {}
  <2>1. 0 \in Nat /\ 1 \in Nat /\ 1..0 = {}
    OBVIOUS
  <2>2. \A r \in Deduped(Rows(1, 0)) : \E i \in 1..0 : r = RowAt(i)
    BY Zenon, <2>1, DedupedAt
  <2> QED
    BY Zenon, <2>1, <2>2
<1>4. Exact({}, 0)
  BY <1>3 DEF Exact, LiveRows, OnePlace
<1> QED
  BY <1>1, <1>2, <1>4 DEF SeqInv, ContentInv, UniqueIds

\* ContentInv holds in every state.
LEMMA ContentInvariant == ~JobsOverlap => (Spec => [](BaseInv /\ SeqInv /\ ContentInv))
<1> SUFFICES ASSUME ~JobsOverlap PROVE Spec => [](BaseInv /\ SeqInv /\ ContentInv)
  OBVIOUS
<1>1. BaseInv /\ SeqInv /\ [Next]_vars => SeqInv'
  BY SeqInductive
<1>2. ContentInv /\ SeqInv /\ BaseInv /\ FilesInv /\ [Next]_vars => ContentInv'
  BY ContentInductive DEF ContentContext
<1> QED
  BY <1>1, <1>2, InitContent, FilesInvariant, PTL DEF Spec

\* What an external reader sees of a snapshot is the table after exactly the
\* writes flushed so far, through any interleaving of flushes with compactions
\* that fail, crashes and replays, as long as no job commits between another
\* job's pick and its enqueue.
THEOREM SnapshotsExact == ~JobsOverlap => (Spec => []SnapshotExact)
<1>1. BaseInv /\ ContentInv => SnapshotExact
  <2> SUFFICES ASSUME BaseInv, ContentInv PROVE SnapshotExact
    BY Zenon
  <2>1. Exact(manifest.files, committed)
    BY Zenon DEF ContentInv
  <2> QED
    BY <2>1 DEF Exact, Kept, LiveRows, SnapshotExact, Shown, Table
<1> QED
  BY <1>1, ContentInvariant, PTL

\* Under the same condition the deletion vectors leave at most one row of a key
\* visible in a snapshot.
THEOREM OneRowShown == ~JobsOverlap => (Spec => []OneRowPerKey)
<1>1. BaseInv /\ ContentInv => OneRowPerKey
  <2> SUFFICES ASSUME BaseInv, ContentInv, NEW f \in manifest.files, NEW g \in manifest.files,
                      NEW r \in Live(f), NEW s \in Live(g), r.key = s.key
               PROVE  f = g /\ r = s
    BY Zenon DEF OneRowPerKey
  <2>1. committed \in Nat /\ 1 \in Nat
    BY Zenon, PositionsTyped DEF BaseInv
  <2>2. r \in Deduped(Rows(1, committed)) /\ s \in Deduped(Rows(1, committed))
    BY SMTT(30) DEF ContentInv, Exact, LiveRows
  <2>3. r = s
    BY <2>1, <2>2, DedupedAt, ZenonT(30)
  <2> QED
    BY Zenon, <2>3 DEF ContentInv, Exact, OnePlace
<1> QED
  BY <1>1, ContentInvariant, PTL

\* The last sequence number handed out is still in a file when everything has
\* been flushed, even if it is that of a tombstone a merge could have dropped:
\* open() never hands it out again.
THEOREM CounterNotReused == ~JobsOverlap => (Spec => []CounterKept)
<1>1. BaseInv /\ ContentInv => CounterKept
  <2> SUFFICES ASSUME BaseInv, ContentInv, Len(log) \notin {0} \cup committed + 1..Len(log)
               PROVE  \E f \in manifest.files : Len(log) \in Seqs(f)
    BY Zenon DEF CounterKept
  <2>1. committed \in 0..Len(log) /\ Len(log) \in Nat /\ 1 \in Nat
    BY Zenon, LogTyped DEF BaseInv, TypeOK
  <2>2. committed = Len(log) /\ Len(log) \in 1..committed
    BY <2>1
  <2>3. LastOf(Len(log), 1, committed)
    BY <2>1, <2>2 DEF LastOf
  <2>4. RowAt(Len(log)) \in Deduped(Rows(1, committed))
    BY Zenon, <2>1, <2>2, <2>3, DedupedAt
  <2>5. RowAt(Len(log)).seq = Len(log)
    BY SMTT(30) DEF RowAt
  <2>6. PICK f \in manifest.files : RowAt(Len(log)) \in Live(f)
    BY <2>4, <2>5, Zenon DEF ContentInv, Exact, Kept, LiveRows
  <2> QED
    BY <2>5, <2>6 DEF Live, Seqs
<1> QED
  BY <1>1, ContentInvariant, PTL

----------------------------------------------------------------------------
(* Lookups.                                                                 *)

\* A lookup returns live rows of its key only.
LEMMA LookupSound ==
  ASSUME NEW v, NEW k, NEW rs
  PROVE  \A r \in PointGet(v, k, rs) : r.key = k /\ r \in LiveRows(v.files)
<1>1. \A f : FileGet(f, k, rs) \subseteq {r \in Live(f) : r.key = k}
  BY Zenon DEF FileGet, Newest
<1>2. \A r \in L0Get(v, k, rs) : r.key = k /\ r \in LiveRows(v.files)
  BY Zenon, <1>1 DEF L0Get, FilesAt, LiveRows
<1>3. \A l : \A r \in LevelGet(v, l, k, rs) : r.key = k /\ r \in LiveRows(v.files)
  BY Zenon, <1>1, <1>2 DEF LevelGet, FindFileForKey, FilesAt, LiveRows
<1> QED
  BY Zenon, <1>3 DEF PointGet

\* A lookup finds a row that is the only live one of its key: at L0 no other
\* file can answer first, and below L0 the binary search ends at its file.
LEMMA LookupFinds ==
  ASSUME TypeOK, \A f \in installed.files : Sound(f), Tidy(installed.files),
         NEW f \in installed.files, NEW r \in Live(f), NEW rs, r.seq <= rs,
         \A g \in installed.files : \A s \in Live(g) : s.key = r.key => g = f /\ s = r
  PROVE  PointGet(installed, r.key, rs) # {}
<1> DEFINE k == r.key
<1>0. /\ installed.files \subseteq File /\ r \in f.rows /\ r \in Row
      /\ f.level \in 0..NumLevels + 1 /\ k \in Int /\ r.seq \in Int
  <2>1. installed.files \subseteq File /\ r \in f.rows
    BY Zenon DEF TypeOK, Version, Live
  <2>2. f.rows \subseteq Row /\ f.level \in Nat /\ f.level <= NumLevels + 1
    BY Zenon, <2>1 DEF File, Sound
  <2>3. r \in Row
    BY Zenon, <2>1, <2>2
  <2>4. k \in Int /\ r.seq \in Int
    BY <2>3 DEF Row
  <2> QED
    BY <2>1, <2>2, <2>3, <2>4, LevelsAssumption
<1>1. r \in FileGet(f, k, rs)
  <2>1. \A s \in Live(f) : s.key = k => s = r
    BY Zenon
  <2> QED
    BY <1>0, <2>1 DEF FileGet, Newest
<1>2. \A g \in installed.files : g # f => FileGet(g, k, rs) = {}
  BY Zenon DEF FileGet, Newest
<1>3. LevelGet(installed, f.level, k, rs) # {}
  <2>1. CASE f.level = 0
    <3> DEFINE hits == {g \in FilesAt(installed, 0) : FileGet(g, k, rs) # {}}
    <3>1. f \in hits /\ \A g \in hits : g = f
      BY Zenon, <1>1, <1>2, <2>1 DEF FilesAt
    <3>2. f \in {g \in hits : \A h \in hits \ {g} : ProbedBefore(g, h)}
      BY Zenon, <3>1
    <3>3. FileGet(f, k, rs) \subseteq L0Get(installed, k, rs)
      BY Zenon, <3>2 DEF L0Get
    <3> QED
      BY Zenon, <1>1, <2>1, <3>3 DEF LevelGet
  <2>2. CASE f.level # 0
    <3>0. f.level > 0
      BY <1>0, <2>2
    <3>1. \A g \in installed.files :
             /\ KeyMin(g) \in Int /\ KeyMax(g) \in Int
             /\ \A x \in g.rows : KeyMin(g) <= x.key /\ x.key <= KeyMax(g) /\ x.key \in Int
             /\ \E x \in g.rows : x.key = KeyMin(g)
      BY Zenon, <1>0, FileRange, FileEnds DEF File, Row
    <3>2. \A g \in installed.files :
             g # f /\ g.level = f.level /\ KeyMin(g) <= k => KeyMin(g) < KeyMin(f)
      <4> SUFFICES ASSUME NEW g \in installed.files, g # f, g.level = f.level, KeyMin(g) <= k
                   PROVE  KeyMin(g) < KeyMin(f)
        BY Zenon
      <4>1. Beside(f.rows, g.rows)
        BY Zenon, <3>0 DEF Tidy
      <4>2. PICK x \in g.rows : x.key = KeyMin(g)
        BY Zenon, <3>1
      <4>3. PICK y \in f.rows : y.key = KeyMin(f)
        BY Zenon, <3>1
      <4>4. ~(r.key < x.key)
        BY <1>0, <3>1, <4>2, SMTT(30)
      <4> QED
        BY Zenon, <1>0, <4>1, <4>2, <4>3, <4>4 DEF Beside
    <3>3. f \in FindFileForKey(installed, f.level, k)
      <4> DEFINE starts == {g \in FilesAt(installed, f.level) : KeyMin(g) <= k}
      <4>1. f \in starts /\ k <= KeyMax(f)
        BY Zenon, <1>0, <3>1 DEF FilesAt
      <4>2. \A g \in starts \ {f} : SortedBefore(g, f)
        BY Zenon, <3>2 DEF FilesAt, SortedBefore
      <4> QED
        BY Zenon, <4>1, <4>2 DEF FindFileForKey
    <3>4. FileGet(f, k, rs) \subseteq LevelGet(installed, f.level, k, rs)
      BY Zenon, <2>2, <3>3 DEF LevelGet
    <3> QED
      BY Zenon, <1>1, <3>4
  <2> QED
    BY Zenon, <2>1, <2>2
<1>4. PointGet(installed, k, rs) # {}
  <2> DEFINE hit == {l \in 0..NumLevels + 1 : LevelGet(installed, l, k, rs) # {}}
  <2>1. f.level \in hit /\ hit \subseteq Int
    BY <1>0, <1>3, SMTT(30)
  <2>2. IsFiniteSet(hit)
    <3>1. IsFiniteSet(0..NumLevels + 1) /\ hit \subseteq 0..NumLevels + 1
      BY FS_Interval, LevelsAssumption
    <3> QED
      BY <3>1, FS_Subset, Zenon
  <2>3. Min(hit) \in hit
    BY <2>1, <2>2, MinMax, Zenon
  <2>4. LevelGet(installed, Min(hit), k, rs) # {}
    BY <2>3, Zenon
  <2> QED
    BY <2>1, <2>4, ZenonT(30) DEF PointGet
<1> QED
  BY Zenon, <1>4

\* A key not written after d has the same latest row in every longer prefix.
LEMMA SameLatest ==
  ASSUME NEW d \in Nat, NEW n \in Nat, NEW m \in Nat, d <= n, n <= m, NEW k,
         \A i \in d + 1..m : log[i].key # k
  PROVE  \A r : r.key = k => (r \in Deduped(Rows(1, m)) <=> r \in Deduped(Rows(1, n)))
<1>1. /\ \A r \in Deduped(Rows(1, n)) :
            \E i \in 1..n : /\ LastOf(i, 1, n) /\ r = RowAt(i)
                            /\ r.key = log[i].key /\ r.seq = i /\ r.op = log[i].op
      /\ \A i \in 1..n : LastOf(i, 1, n) => RowAt(i) \in Deduped(Rows(1, n))
      /\ \A r, s \in Deduped(Rows(1, n)) : r.key = s.key => r = s
  BY LatestAt, Zenon
<1>2. /\ \A r \in Deduped(Rows(1, m)) :
            \E i \in 1..m : /\ LastOf(i, 1, m) /\ r = RowAt(i)
                            /\ r.key = log[i].key /\ r.seq = i /\ r.op = log[i].op
      /\ \A i \in 1..m : LastOf(i, 1, m) => RowAt(i) \in Deduped(Rows(1, m))
      /\ \A r, s \in Deduped(Rows(1, m)) : r.key = s.key => r = s
  BY LatestAt, Zenon
<1>3. ASSUME NEW r \in Deduped(Rows(1, m)), r.key = k PROVE r \in Deduped(Rows(1, n))
  <2>1. PICK i \in 1..m : LastOf(i, 1, m) /\ r = RowAt(i) /\ r.key = log[i].key
    BY Zenon, <1>2
  <2>2. i <= d
    BY <1>3, <2>1
  <2>3. i \in 1..n /\ LastOf(i, 1, n)
    BY <2>1, <2>2, SMTT(30) DEF LastOf
  <2> QED
    BY Zenon, <1>1, <2>1, <2>3
<1>4. ASSUME NEW r \in Deduped(Rows(1, n)), r.key = k PROVE r \in Deduped(Rows(1, m))
  <2>1. PICK i \in 1..n : LastOf(i, 1, n) /\ r = RowAt(i) /\ r.key = log[i].key
    BY Zenon, <1>1
  <2>2. \A j \in 1..m : log[j].key = k => j <= d
    OBVIOUS
  <2>3. i \in 1..m /\ LastOf(i, 1, m)
    BY <1>4, <2>1, <2>2, SMTT(30) DEF LastOf
  <2> QED
    BY Zenon, <1>2, <2>1, <2>3
<1> QED
  BY Zenon, <1>3, <1>4

\* The last write of a key is its latest row.
LEMMA LastIsLatest ==
  ASSUME NEW d \in Nat, NEW m \in Nat, NEW j \in d + 1..m, LastOf(j, d + 1, m)
  PROVE  {r \in Deduped(Rows(1, m)) : r.key = log[j].key} = {RowAt(j)}
<1>1. j \in 1..m /\ LastOf(j, 1, m)
  BY SMTT(30) DEF LastOf
<1>2. RowAt(j) \in Deduped(Rows(1, m)) /\ RowAt(j).key = log[j].key
  BY Zenon, <1>1, LatestAt DEF RowAt
<1>3. \A r, s \in Deduped(Rows(1, m)) : r.key = s.key => r = s
  BY LatestAt, Zenon
<1> QED
  BY Zenon, <1>2, <1>3

\* A lookup (point_lookup: memtables, then the installed version level by level)
\* returns the last write of every key, whatever was flushed, merged, split,
\* dropped as a tombstone, lost with a failed job or replayed after a crash, as
\* long as no job commits between another job's pick and its enqueue.
THEOREM LookupsLatest == ~JobsOverlap => (Spec => []ReadsLatest)
<1>1. BaseInv /\ SeqInv /\ ContentInv /\ LevelInv => ReadsLatest
  <2> SUFFICES ASSUME BaseInv, SeqInv, ContentInv, LevelInv, NEW k \in TableKeys
               PROVE  LET mem == Newest({r \in InMemory : r.key = k})
                          found == IF mem # {} THEN mem ELSE PointGet(installed, k, Len(log))
                      IN Shown(found) = {r \in Table(Len(log)) : r.key = k}
    BY ZenonT(30) DEF ReadsLatest
  <2> DEFINE mem == Newest({r \in InMemory : r.key = k})
             found == IF mem # {} THEN mem ELSE PointGet(installed, k, Len(log))
             N == Len(log)
             all == Deduped(Rows(1, N))
  <2>0. /\ TypeOK /\ N \in Nat /\ dropped \in Nat /\ dropped <= N /\ 1 \in Nat
        /\ dropped + 1 \in Nat /\ committed \in Nat /\ committed <= N
    BY Zenon, PositionsTyped DEF BaseInv
  <2>1. {r \in Table(N) : r.key = k} = Shown({r \in all : r.key = k})
    BY Zenon DEF Table, Shown
  <2>2. \A i : RowAt(i).key = log[i].key /\ RowAt(i).seq = i
    BY Zenon DEF RowAt
  <2>3. InMemory = {RowAt(i) : i \in dropped + 1..N}
    BY SMTT(30) DEF InMemory, Rows, RowAt
  <2>5. CASE \E i \in dropped + 1..N : log[i].key = k
    <3>1. PICK i \in dropped + 1..N : log[i].key = k
      BY <2>5
    <3>2. PICK j \in dropped + 1..N : log[j].key = k /\ LastOf(j, dropped + 1, N)
      BY <2>0, <3>1, LastExists, Zenon
    <3>4. {r \in all : r.key = k} = {RowAt(j)}
      BY <2>0, <3>2, LastIsLatest
    <3>5. mem = {RowAt(j)}
      <4>1. \A r \in InMemory : r.key = k => r.seq \in Int /\ r.seq <= j
        BY <2>0, <2>2, <2>3, <3>2 DEF LastOf
      <4>2. \A r \in InMemory : r.seq = j => r = RowAt(j)
        BY Zenon, <2>2, <2>3
      <4>3. RowAt(j) \in InMemory /\ RowAt(j).key = k /\ RowAt(j).seq = j
        BY Zenon, <2>2, <2>3, <3>2
      <4> QED
        BY <4>1, <4>2, <4>3, SMTT(30) DEF Newest
    <3> QED
      BY <2>1, <3>4, <3>5, Zenon
  <2>6. CASE \A i \in dropped + 1..N : log[i].key # k
    <3>1. mem = {}
      BY <2>2, <2>3, <2>6 DEF Newest
    <3>2. PICK n \in dropped..committed : Exact(installed.files, n)
      BY DEF ContentInv
    <3>3. n \in Nat /\ n <= N /\ dropped <= n
      BY <2>0, <3>2, SMTT(30)
    <3> DEFINE some == Deduped(Rows(1, n))
    <3>4. \A r, s \in some : r.key = s.key => r = s
      BY Zenon, <3>3, LatestAt
    <3>5. /\ LiveRows(installed.files) \subseteq some
          /\ \A r \in some : Kept(r) => r \in LiveRows(installed.files)
          /\ OnePlace(installed.files)
      BY <3>2 DEF Exact
    <3>6. \A r : r.key = k => (r \in all <=> r \in some)
      <4>1. \A i \in dropped + 1..N : log[i].key # k
        BY Zenon, <2>6
      <4> HIDE DEF N
      <4> QED
        BY <2>0, <3>3, <4>1, SameLatest, ZenonT(30)
    <3> HIDE DEF mem, some, all, N
    <3> DEFINE got == PointGet(installed, k, N)
    <3>7. \A r \in got : r.key = k /\ r \in some
      BY Zenon, <3>5, LookupSound
    <3>8. \A r \in some : r.key = k /\ r.op = "put" => got # {}
      <4> SUFFICES ASSUME NEW r \in some, r.key = k, r.op = "put"
                   PROVE  got # {}
        BY Zenon
      <4>1. PICK f \in installed.files : r \in Live(f)
        BY Zenon, <3>5 DEF Kept, LiveRows
      <4>2. r.seq <= N
        <5>1. PICK i \in 1..n : r.seq = i
          BY <3>3, LatestAt, SMTT(30) DEF some
        <5> QED
          BY <2>0, <3>3, <5>1
      <4>3. \A g \in installed.files : \A s \in Live(g) : s.key = r.key => g = f /\ s = r
        <5> SUFFICES ASSUME NEW g \in installed.files, NEW s \in Live(g), s.key = r.key
                     PROVE  g = f /\ s = r
          BY Zenon
        <5>1. s \in some
          BY Zenon, <3>5 DEF LiveRows
        <5>2. s = r
          BY Zenon, <3>4, <5>1
        <5> QED
          BY Zenon, <3>5, <4>1, <5>2 DEF OnePlace
      <4>4. Tidy(installed.files) /\ \A g \in installed.files : Sound(g)
        BY Zenon DEF LevelInv, BaseInv, SoundFiles
      <4> QED
        BY <2>0, <4>1, <4>2, <4>3, <4>4, LookupFinds, ZenonT(30)
    <3> HIDE DEF got
    <3>9. Shown(got) = Shown({r \in some : r.key = k})
      BY Zenon, <3>4, <3>7, <3>8 DEF Shown
    <3>10. Shown(got) = {r \in Table(N) : r.key = k}
      <4>1. {r \in all : r.key = k} = {r \in some : r.key = k}
        BY <3>6
      <4> QED
        BY Zenon, <2>1, <3>9, <4>1
    <3> QED
      BY Zenon, <3>1, <3>10 DEF mem, got, N
  <2> QED
    BY <2>5, <2>6, ZenonT(30)
<1> QED
  BY <1>1, ContentInvariant, LevelInvariant, PTL DEF Prompt

============================================================================
