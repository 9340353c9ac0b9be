---------------------------- MODULE SnapshotsTypes ----------------------------
(***************************************************************************)
(* What the steps of Snapshots do, in the form the proofs use, and the     *)
(* invariants that hold whatever the jobs do: the types, the shape of a    *)
(* job and that every row of a file is a write of the log.                 *)
(***************************************************************************)
EXTENDS SnapshotsInv, FiniteSetTheorems, WellFoundedInduction, TLAPS

----------------------------------------------------------------------------
(* Sets of numbers.                                                         *)

(* A set of naturals has a least element. *)
LEMMA LeastNatural ==
  ASSUME NEW T \in SUBSET Nat, T # {}
  PROVE  \E n \in T : \A m \in T : n <= m
<1>1. \E n \in T : \A m \in T : <<m, n>> \notin OpToRel(<, Nat)
  BY NatLessThanWellFounded, WFMin, Zenon
<1>2. PICK n \in T : \A m \in T : <<m, n>> \notin OpToRel(<, Nat)
  BY <1>1, Zenon
<1>3. ASSUME NEW m \in T PROVE n <= m
  <2>1. <<m, n>> \in Nat \X Nat /\ <<m, n>>[1] = m /\ <<m, n>>[2] = n
    OBVIOUS
  <2>2. ~(m < n)
    BY <1>2, <2>1 DEF OpToRel
  <2> QED
    BY <2>2
<1> QED
  BY <1>3

(* A finite set of integers has a greatest and a least element. *)
LEMMA Extremes ==
  ASSUME NEW S, S \subseteq Int, IsFiniteSet(S), S # {}
  PROVE  /\ \E x \in S : \A y \in S : x >= y
         /\ \E x \in S : \A y \in S : x =< y
<1> DEFINE Has(T) == (\E x \in T : \A y \in T : x >= y) /\ (\E x \in T : \A y \in T : x =< y)
           Bad == {n \in Nat : \E T \in SUBSET Int : /\ IsFiniteSet(T) /\ T # {}
                                                     /\ Cardinality(T) = n /\ ~Has(T)}
<1>1. SUFFICES Bad = {}
  <2>1. Cardinality(S) \in Nat
    BY FS_CardinalityType
  <2> QED
    BY <1>1, <2>1
<1>2. SUFFICES ASSUME Bad # {} PROVE FALSE
  OBVIOUS
<1>3. PICK n \in Bad : \A m \in Bad : n <= m
  BY <1>2, LeastNatural, Zenon
<1>4. PICK T \in SUBSET Int : IsFiniteSet(T) /\ T # {} /\ Cardinality(T) = n /\ ~Has(T)
  BY <1>3
<1>5. PICK x : x \in T
  BY <1>4
<1> DEFINE U == T \ {x}
<1>6. IsFiniteSet(U) /\ Cardinality(U) = n - 1 /\ Cardinality(U) \in Nat
  BY <1>4, <1>5, FS_RemoveElement, FS_CardinalityType, Zenon
<1>7. CASE U = {}
  <2>1. T = {x}
    BY <1>5, <1>7, Zenon
  <2> QED
    BY <1>4, <1>5, <2>1
<1>8. CASE U # {}
  <2>1. Has(U)
    <3>1. n - 1 \notin Bad
      BY <1>3
    <3> QED
      BY <1>6, <1>8, <3>1, Zenon
  <2>2. PICK a \in U : \A y \in U : a >= y
    BY <2>1
  <2>3. PICK b \in U : \A y \in U : b =< y
    BY <2>1, Zenon
  <2>4. x \in Int /\ a \in Int /\ b \in Int /\ T \subseteq Int
    BY <1>4, <1>5
  <2>5. \E z \in T : \A y \in T : z >= y
    <3>1. CASE x >= a
      BY <1>5, <2>2, <2>4, <3>1
    <3>2. CASE ~(x >= a)
      BY <1>5, <2>2, <2>4, <3>2
    <3> QED
      BY <3>1, <3>2
  <2>6. \E z \in T : \A y \in T : z =< y
    <3>1. CASE x =< b
      BY <1>5, <2>3, <2>4, <3>1
    <3>2. CASE ~(x =< b)
      BY <1>5, <2>3, <2>4, <3>2
    <3> QED
      BY <3>1, <3>2
  <2> QED
    BY <1>4, <2>5, <2>6, Zenon
<1> QED
  BY <1>7, <1>8

(* What Min and Max give. *)
LEMMA MinMax ==
  ASSUME NEW S, S \subseteq Int, IsFiniteSet(S), S # {}
  PROVE  /\ Min(S) \in S /\ \A y \in S : Min(S) <= y
         /\ Max(S) \in S /\ \A y \in S : y <= Max(S)
<1>1. Min(S) \in S /\ \A y \in S : Min(S) =< y
  BY Extremes, Zenon DEF Min
<1>2. Max(S) \in S /\ \A y \in S : Max(S) >= y
  BY Extremes, Zenon DEF Max
<1> QED
  BY <1>1, <1>2

(* The greater of two numbers. *)
LEMMA MaxOfTwo ==
  ASSUME NEW a \in Int, NEW b \in Int
  PROVE  Max({a, b}) \in Int /\ Max({a, b}) >= a /\ Max({a, b}) >= b
<1>1. IsFiniteSet({a, b})
  <2>1. IsFiniteSet({a} \cup {b})
    BY FS_Singleton, FS_AddElement, Zenon
  <2>2. {a} \cup {b} = {a, b}
    OBVIOUS
  <2> QED
    BY <2>1, <2>2
<1> QED
  BY <1>1, MinMax

----------------------------------------------------------------------------
(* Rows, files and versions.                                                *)

(* The elements of a sequence. *)
LEMMA Elements ==
  ASSUME NEW W, NEW s \in Seq(W)
  PROVE  Len(s) \in Nat /\ \A i \in 1..Len(s) : s[i] \in W
OBVIOUS

(* The log is a sequence of writes. *)
LEMMA LogTyped ==
  ASSUME TypeOK
  PROVE  /\ Len(log) \in Nat
         /\ \A i \in 1..Len(log) : log[i].key \in Int /\ log[i].op \in {"put", "del"}
<1>1. log \in Seq([key : TableKeys, op : Ops])
  BY DEF TypeOK
<1>2. Len(log) \in Nat /\ \A i \in 1..Len(log) : log[i] \in [key : TableKeys, op : Ops]
  BY <1>1, Elements, Zenon
<1>3. TableKeys \subseteq Int /\ Ops \subseteq {"put", "del"}
  BY ModelAssumption
<1> QED
  BY <1>2, <1>3, Zenon

(* Positions in the log are numbers that do not pass its end. *)
LEMMA PositionsTyped ==
  ASSUME TypeOK
  PROVE  /\ Len(log) \in Nat /\ dropped \in Nat /\ committed \in Nat /\ recovered \in Nat
         /\ dropped <= Len(log) /\ committed <= Len(log)
         /\ 1 \in Nat /\ dropped + 1 \in Nat
<1>1. /\ Len(log) \in Nat /\ dropped \in 0..Len(log) /\ recovered \in 0..Len(log)
      /\ committed \in 0..Len(log)
  BY Zenon, LogTyped DEF TypeOK
<1> QED
  BY <1>1

(* The rows of a part of the log are rows, and finitely many. *)
LEMMA RowsTyped ==
  ASSUME TypeOK, NEW a \in Nat \ {0}, NEW b \in 0..Len(log)
  PROVE  Rows(a, b) \subseteq Row /\ IsFiniteSet(Rows(a, b))
<1> DEFINE R(i) == [key |-> log[i].key, seq |-> i, op |-> log[i].op]
           f == [i \in a..b |-> R(i)]
<1>1. Rows(a, b) \subseteq Row
  <2>1. ASSUME NEW i \in a..b
        PROVE  i \in Nat \ {0} /\ log[i].key \in Int /\ log[i].op \in {"put", "del"}
    <3>1. i \in 1..Len(log)
      BY LogTyped
    <3> QED
      BY <3>1, LogTyped
  <2> QED
    BY <2>1 DEF Rows, Row
<1>2. f \in Surjection(a..b, Rows(a, b))
  BY DEF Rows, Surjection
<1>3. IsFiniteSet(a..b)
  BY FS_Interval DEF TypeOK
<1> QED
  BY <1>1, <1>2, <1>3, FS_Surjection

(* A sound file has finitely many rows, and its keys have a range. *)
LEMMA FileRange ==
  ASSUME TypeOK, NEW f \in File, Sound(f)
  PROVE  /\ IsFiniteSet(f.rows) /\ IsFiniteSet(Keys(f))
         /\ Keys(f) \subseteq Int /\ Keys(f) # {}
         /\ KeyMin(f) \in Int /\ KeyMax(f) \in Int
         /\ \A r \in f.rows : KeyMin(f) <= r.key /\ r.key <= KeyMax(f)
<1>1. IsFiniteSet(f.rows)
  <2>1. IsFiniteSet(Rows(1, Len(log)))
    BY RowsTyped DEF TypeOK
  <2> QED
    BY <2>1, FS_Subset DEF Sound
<1>2. IsFiniteSet(Keys(f))
  <2> DEFINE g == [r \in f.rows |-> r.key]
  <2>1. g \in Surjection(f.rows, Keys(f))
    BY DEF Surjection, Keys
  <2> QED
    BY <1>1, <2>1, FS_Surjection
<1>3. Keys(f) \subseteq Int /\ Keys(f) # {}
  BY DEF File, Row, Keys, Sound
<1>4. /\ KeyMin(f) \in Keys(f) /\ \A k \in Keys(f) : KeyMin(f) <= k
      /\ KeyMax(f) \in Keys(f) /\ \A k \in Keys(f) : k <= KeyMax(f)
  BY <1>2, <1>3, MinMax DEF KeyMin, KeyMax
<1>5. \A r \in f.rows : r.key \in Keys(f)
  BY DEF Keys
<1> QED
  BY <1>1, <1>2, <1>3, <1>4, <1>5

(* A transaction advances the snapshot number by one. *)
LEMMA ApplySnap ==
  ASSUME NEW m, NEW adds, NEW removes, NEW marks
  PROVE  Apply(m, adds, removes, marks).snap = m.snap + 1
BY DEF Apply

(* A transaction keeps the files it does not remove, but for their vectors. *)
LEMMA ApplyFiles ==
  ASSUME NEW m \in Version, NEW adds, NEW removes, NEW marks
  PROVE  /\ Apply(m, adds, removes, marks).snap = m.snap + 1
         /\ adds \subseteq Apply(m, adds, removes, marks).files
         /\ \A f \in Apply(m, adds, removes, marks).files :
               \/ f \in adds
               \/ \E g \in m.files :
                     /\ g.id \notin removes /\ f.id = g.id /\ f.level = g.level
                     /\ f.rows = g.rows /\ f.dv = Marked(g, marks)
         /\ \A g \in m.files : g.id \notin removes =>
               \E f \in Apply(m, adds, removes, marks).files :
                     /\ f.id = g.id /\ f.level = g.level
                     /\ f.rows = g.rows /\ f.dv = Marked(g, marks)
<1>1. \A g \in m.files : g \in File
  BY DEF Version
<1>2. \A g \in m.files : \A d : LET f == [g EXCEPT !.dv = d]
                            IN f.id = g.id /\ f.level = g.level /\ f.rows = g.rows /\ f.dv = d
  BY <1>1 DEF File
<1> DEFINE v == Apply(m, adds, removes, marks)
<1>3. /\ v.snap = m.snap + 1
      /\ v.files = {[g EXCEPT !.dv = Marked(g, marks)] : g \in {h \in m.files : h.id \notin removes}}
                     \cup adds
  BY DEF Apply, Remaining
<1>4. ASSUME NEW f \in v.files, f \notin adds
      PROVE  \E g \in m.files :
                     /\ g.id \notin removes /\ f.id = g.id /\ f.level = g.level
                     /\ f.rows = g.rows /\ f.dv = Marked(g, marks)
  <2>1. PICK g \in m.files : g.id \notin removes /\ f = [g EXCEPT !.dv = Marked(g, marks)]
    BY <1>3, <1>4
  <2> QED
    BY <1>2, <2>1
<1>5. ASSUME NEW g \in m.files, g.id \notin removes
      PROVE  \E f \in v.files : /\ f.id = g.id /\ f.level = g.level
                               /\ f.rows = g.rows /\ f.dv = Marked(g, marks)
  <2>1. [g EXCEPT !.dv = Marked(g, marks)] \in v.files
    BY <1>3, <1>5
  <2> QED
    BY <1>2, <2>1, Zenon
<1> QED
  BY <1>3, <1>4, <1>5, Zenon

(* A transaction yields a version. *)
LEMMA ApplyTyped ==
  ASSUME NEW m \in Version, NEW adds \in SUBSET File, NEW removes, NEW marks,
         \A i \in DOMAIN marks : marks[i] \subseteq Row
  PROVE  Apply(m, adds, removes, marks) \in Version
<1>1. \A f \in m.files : Marked(f, marks) \subseteq Row
  BY DEF Version, File, Marked
<1>2. \A f \in m.files : [f EXCEPT !.dv = Marked(f, marks)] \in File
  BY <1>1 DEF Version, File
<1>3. m.snap + 1 \in Nat
  BY DEF Version
<1> QED
  BY <1>2, <1>3 DEF Apply, Remaining, Version

----------------------------------------------------------------------------
(* What each step of a worker does to its job.                              *)

LEMMA PickEffect ==
  ASSUME TypeOK, NEW c \in Compactors, CompactPick(c)
  PROVE  \E l \in 0..NumLevels, inputs \in SUBSET installed.files :
            LET sources == inputs \cup PullIns(installed, l, inputs)
            IN /\ l \in PickLevel(installed, Busy) /\ inputs = PickInputs(installed, l)
               /\ inputs # {} /\ sources \subseteq installed.files
               /\ jobs' = [jobs EXCEPT ![c] =
                    [NoJob EXCEPT !.pc = "merge", !.level = l, !.after = installed.snap,
                                  !.sources = sources, !.removes = Ids(sources)]]
<1>1. PICK l \in PickLevel(installed, Busy) :
         LET inputs == PickInputs(installed, l)
             sources == inputs \cup PullIns(installed, l, inputs)
         IN /\ inputs # {}
            /\ jobs' = [jobs EXCEPT ![c] =
                 [NoJob EXCEPT !.pc = "merge", !.level = l, !.after = installed.snap,
                               !.sources = sources, !.removes = {f.id : f \in sources}]]
  BY Zenon DEF CompactPick
<1>2. l \in 0..NumLevels
  <2>1. CASE PickLevel(installed, Busy) = {0}
    BY <1>1, <2>1, LevelsAssumption
  <2>2. CASE PickLevel(installed, Busy) # {0}
    BY <1>1, <2>2 DEF PickLevel
  <2> QED
    BY <2>1, <2>2
<1> DEFINE inputs == PickInputs(installed, l)
           sources == inputs \cup PullIns(installed, l, inputs)
<1>3. inputs \subseteq installed.files
  BY Zenon DEF PickInputs, FilesAt
<1>4. PullIns(installed, l, inputs) \subseteq installed.files
  BY DEF PullIns, FilesAt
<1> QED
  BY <1>1, <1>2, <1>3, <1>4, Zenon DEF Ids

(* A job is replaced as a whole. *)
LEMMA JobReplaced ==
  ASSUME TypeOK, NEW c \in Compactors, NEW j \in Job, jobs' = [jobs EXCEPT ![c] = j]
  PROVE  /\ jobs' \in [Compactors -> Job] /\ jobs'[c] = j
         /\ \A d \in Compactors : d # c => jobs'[d] = jobs[d]
BY DEF TypeOK

(* The rows and the files of a merge. *)
LEMMA MergeTyped ==
  ASSUME TypeOK, SoundFiles, NEW c \in Compactors, NEW out \in Nat, NEW n
  PROVE  LET rows == MergeRows(jobs[c].sources, n, out)
         IN /\ rows \subseteq Rows(1, Len(log)) /\ rows \subseteq Row /\ IsFiniteSet(rows)
            /\ Cardinality(rows) \in Nat
<1> DEFINE rows == MergeRows(jobs[c].sources, n, out)
<1>1. rows \subseteq UNION {Live(f) : f \in jobs[c].sources}
  BY DEF MergeRows
<1>2. \A f \in jobs[c].sources : Live(f) \subseteq Rows(1, Len(log))
  BY DEF Live, SoundFiles, Sound
<1>3. rows \subseteq Rows(1, Len(log))
  BY <1>1, <1>2
<1>4. Rows(1, Len(log)) \subseteq Row /\ IsFiniteSet(Rows(1, Len(log)))
  BY LogTyped, RowsTyped
<1>5. IsFiniteSet(rows)
  BY <1>3, <1>4, FS_Subset
<1> QED
  BY <1>3, <1>4, <1>5, FS_CardinalityType

(* The output files hold the rows, cut between keys. *)
LEMMA OutputTyped ==
  ASSUME NEW rows \in SUBSET Row, IsFiniteSet(rows), NEW out \in Nat, NEW id \in Nat
  PROVE  /\ OutputFiles(rows, out, id) \subseteq File
         /\ \A f \in OutputFiles(rows, out, id) :
               /\ f.level = out /\ f.rows # {} /\ f.rows \subseteq rows /\ f.dv = {}
               /\ f.id >= id /\ f.id < id + Cardinality(rows)
<1> DEFINE Below(r) == {s \in rows : s.key < r.key}
           Chunk(r) == Cardinality(Below(r)) \div ChunkRows
<1>0. ChunkRows \in Nat \ {0} /\ Cardinality(rows) \in Nat
  BY LevelsAssumption, FS_CardinalityType
<1>1. ASSUME NEW r \in rows
      PROVE  Chunk(r) \in Nat /\ Chunk(r) < Cardinality(rows)
  <2>1. Below(r) \in SUBSET rows /\ r \notin Below(r)
    BY DEF Row
  <2>2. /\ IsFiniteSet(Below(r)) /\ Cardinality(Below(r)) \in Nat
        /\ Cardinality(Below(r)) < Cardinality(rows)
    <3>1. IsFiniteSet(Below(r)) /\ Cardinality(Below(r)) <= Cardinality(rows)
      BY <2>1, FS_Subset
    <3>2. Cardinality(Below(r)) # Cardinality(rows)
      BY <2>1, FS_Subset, Zenon
    <3>3. Cardinality(Below(r)) \in Nat
      BY <3>1, FS_CardinalityType
    <3> QED
      BY <1>0, <3>1, <3>2, <3>3
  <2> DEFINE n == Cardinality(Below(r))
  <2> HIDE DEF n
  <2>3. n \in Nat /\ n < Cardinality(rows)
    BY <2>2 DEF n
  <2>4. n \div ChunkRows \in Nat /\ n \div ChunkRows <= n
    BY <1>0, <2>3
  <2> QED
    BY <1>0, <2>3, <2>4 DEF n
<1> DEFINE File_(i) == [id |-> id + i, level |-> out, rows |-> {r \in rows : Chunk(r) = i}, dv |-> {}]
<1>2. OutputFiles(rows, out, id) = {File_(i) : i \in {Chunk(r) : r \in rows}}
  BY DEF OutputFiles
<1> HIDE DEF Chunk
<1>3. ASSUME NEW r \in rows
      PROVE  /\ File_(Chunk(r)) \in File
             /\ File_(Chunk(r)).rows # {} /\ File_(Chunk(r)).rows \subseteq rows
             /\ File_(Chunk(r)).id >= id /\ File_(Chunk(r)).id < id + Cardinality(rows)
  BY <1>0, <1>1 DEF File
<1>4. ASSUME NEW f \in OutputFiles(rows, out, id)
      PROVE  /\ f \in File /\ f.level = out /\ f.rows # {} /\ f.rows \subseteq rows /\ f.dv = {}
             /\ f.id >= id /\ f.id < id + Cardinality(rows)
  <2>1. PICK r \in rows : f = File_(Chunk(r))
    BY <1>2
  <2> QED
    BY <1>3, <2>1
<1> QED
  BY <1>4

----------------------------------------------------------------------------
(* Types, the shape of jobs and the soundness of files.                     *)

BaseInv == TypeOK /\ JobShape /\ SoundFiles

\* A new database satisfies BaseInv,
LEMMA InitBase == Init => BaseInv
<1> SUFFICES ASSUME Init PROVE BaseInv
  OBVIOUS
<1>1. Empty \in Version /\ Empty.files = {}
  BY DEF Empty, Version
<1>2. NoJob \in Job /\ NoFlush \in [pc : {"idle", "install", "drop"}, upto : 0..0, version : Version]
  BY <1>1 DEF NoJob, NoFlush, Job
<1>3. TypeOK
  <2>1. log \in Seq([key : TableKeys, op : Ops]) /\ Len(log) = 0
    BY DEF Init
  <2>2. /\ jobs \in [Compactors -> Job]
        /\ \A c \in Compactors : jobs[c].level <= NumLevels
    BY <1>2, LevelsAssumption DEF Init, NoJob
  <2> QED
    BY <1>1, <1>2, <2>1, <2>2 DEF Init, TypeOK
<1>4. JobShape
  BY DEF Init, JobShape, NoJob, Picked
<1>5. SoundFiles
  BY <1>1 DEF Init, SoundFiles, NoJob, NoFlush
<1> QED
  BY <1>3, <1>4, <1>5 DEF BaseInv

(* A sound file stays sound when the log grows. *)
LEMMA StaysSound ==
  ASSUME TypeOK, Write, NEW f, Sound(f)
  PROVE  Sound(f)'
<1>1. PICK k \in TableKeys, op \in Ops : log' = Append(log, [key |-> k, op |-> op])
  BY DEF Write
<1>2. Len(log') = Len(log) + 1 /\ \A i \in 1..Len(log) : log'[i] = log[i]
  <2> DEFINE w == [key |-> k, op |-> op]
             W == [key : TableKeys, op : Ops]
  <2>1. w \in W /\ log \in Seq(W) /\ log' = Append(log, w)
    BY <1>1 DEF TypeOK
  <2> HIDE DEF w, W
  <2> QED
    BY <2>1
<1>3. Rows(1, Len(log)) \subseteq Rows(1, Len(log))'
  BY <1>2, LogTyped DEF Rows
<1> QED
  BY <1>3 DEF Sound

\* a write keeps it,
LEMMA WriteBase ==
  ASSUME BaseInv, Write
  PROVE  BaseInv'
<1> USE DEF BaseInv
<1>1. UNCHANGED <<dropped, recovered, manifest, installed, flush, jobs, pins,
                   pending, disk, next_id, committed, fails, crashes>>
  BY DEF Write
<1>2. /\ log' \in Seq([key : TableKeys, op : Ops]) /\ Len(log') = Len(log) + 1
  <2>1. PICK k \in TableKeys, op \in Ops : log' = Append(log, [key |-> k, op |-> op])
    BY DEF Write
  <2> DEFINE w == [key |-> k, op |-> op]
             W == [key : TableKeys, op : Ops]
  <2>2. w \in W /\ log \in Seq(W) /\ log' = Append(log, w)
    BY <2>1 DEF TypeOK
  <2>3. log' \in Seq(W) /\ Len(log') = Len(log) + 1
    <3> HIDE DEF w, W
    <3> QED
      BY <2>2
  <2> QED
    BY <2>3
<1>3. TypeOK'
  <2>1. 0..Len(log) \subseteq 0..Len(log')
    BY <1>2, LogTyped
  <2> QED
    BY <1>1, <1>2, <2>1 DEF TypeOK
<1>4. JobShape'
  BY <1>1 DEF JobShape, Picked
<1>5. SoundFiles'
  BY <1>1, StaysSound DEF SoundFiles
<1> QED
  BY <1>3, <1>4, <1>5

RowAt(i) == [key |-> log[i].key, seq |-> i, op |-> log[i].op]

\* The i-th write is the last one of its key among the writes a to b.
LastOf(i, a, b) == \A j \in a..b : log[j].key = log[i].key => j <= i

(* Memtable::iter keeps the last write of each key. *)
LEMMA DedupedRows ==
  ASSUME NEW a \in Nat, NEW b \in Nat
  PROVE  Deduped(Rows(a, b)) = {RowAt(i) : i \in {j \in a..b : LastOf(j, a, b)}}
<1> DEFINE all == Rows(a, b)
           Same(k) == {r \in all : r.key = k}
<1>1. all = {RowAt(i) : i \in a..b}
  BY DEF Rows, RowAt
<1>2. \A i : RowAt(i).key = log[i].key /\ RowAt(i).seq = i
  BY DEF RowAt
<1>3. ASSUME NEW r \in Deduped(all)
      PROVE  \E i \in a..b : LastOf(i, a, b) /\ r = RowAt(i)
  <2>1. PICK k : r \in Newest(Same(k))
    BY DEF Deduped
  <2>2. r \in all /\ r.key = k /\ \A s \in all : s.key = k => s.seq <= r.seq
    BY <2>1 DEF Newest
  <2>3. PICK i \in a..b : r = RowAt(i)
    BY <1>1, <2>2
  <2>4. \A j \in a..b : log[j].key = log[i].key => j <= i
    BY <1>1, <1>2, <2>2, <2>3
  <2> QED
    BY <2>3, <2>4 DEF LastOf
<1>4. ASSUME NEW i \in a..b, LastOf(i, a, b)
      PROVE  RowAt(i) \in Deduped(all)
  <2>1. RowAt(i) \in Same(log[i].key)
    BY <1>1, <1>2
  <2>2. \A s \in Same(log[i].key) : s.seq <= i
    BY <1>1, <1>2, <1>4 DEF LastOf
  <2>3. RowAt(i) \in Newest(Same(log[i].key))
    BY <1>2, <2>1, <2>2 DEF Newest
  <2>4. log[i].key \in {r.key : r \in all}
    BY <1>1, <1>2
  <2> QED
    BY <2>3, <2>4, Zenon DEF Deduped
<1> QED
  BY <1>3, <1>4

(* What a flush commits. *)
LEMMA FlushEffect ==
  ASSUME TypeOK, FlushCommit
  PROVE  \E upto \in dropped + 1..Len(log) :
            LET rows == Deduped(Rows(dropped + 1, upto))
                ks == {r.key : r \in rows}
                file == [id |-> next_id, level |-> 0, rows |-> rows, dv |-> {}]
            IN /\ upto >= recovered
               /\ manifest' = Apply(manifest, {file}, {}, FlushMarks(ks))
               /\ flush' = [pc |-> "install", upto |-> upto, version |-> manifest']
               /\ committed' = upto
               /\ file \in File /\ rows # {} /\ rows \subseteq Rows(1, Len(log))
               /\ \A i \in DOMAIN FlushMarks(ks) : FlushMarks(ks)[i] \subseteq Row
<1>1. PICK upto \in Max({dropped + 1, recovered})..Len(log) :
         LET rows == Deduped(Rows(dropped + 1, upto))
             ks == {r.key : r \in rows}
             file == [id |-> next_id, level |-> 0, rows |-> rows, dv |-> {}]
             next == Apply(manifest, {file}, {}, FlushMarks(ks))
         IN /\ manifest' = next
            /\ flush' = [pc |-> "install", upto |-> upto, version |-> next]
            /\ committed' = upto
  BY Zenon DEF FlushCommit
<1>2. dropped \in Nat /\ recovered \in Nat /\ Len(log) \in Nat /\ next_id \in Nat
  BY LogTyped DEF TypeOK
<1>3. upto \in dropped + 1..Len(log) /\ upto >= recovered /\ upto \in Nat
  <2> DEFINE m == Max({dropped + 1, recovered})
  <2>0. dropped + 1 \in Int /\ recovered \in Int
    BY <1>2
  <2>1. m \in Int /\ m >= dropped + 1 /\ m >= recovered
    BY <2>0, MaxOfTwo, Zenon
  <2>2. upto \in m..Len(log)
    OBVIOUS
  <2> HIDE DEF m
  <2> QED
    BY <1>2, <2>1, <2>2
<1> DEFINE rows == Deduped(Rows(dropped + 1, upto))
           ks == {r.key : r \in rows}
           file == [id |-> next_id, level |-> 0, rows |-> rows, dv |-> {}]
<1>4. rows = {RowAt(i) : i \in {j \in dropped + 1..upto : LastOf(j, dropped + 1, upto)}}
  BY <1>2, <1>3, DedupedRows
<1>5. RowAt(upto) \in rows
  BY <1>2, <1>3, <1>4 DEF LastOf
<1>6. rows \subseteq Rows(1, Len(log))
  BY <1>2, <1>3, <1>4 DEF Rows, RowAt
<1>7. rows \subseteq Row
  <2>1. Rows(1, Len(log)) \subseteq Row
    BY <1>2, RowsTyped
  <2> QED
    BY <1>6, <2>1
<1>8. file \in File
  BY <1>2, <1>7 DEF File
<1>9. \A i \in DOMAIN FlushMarks(ks) : FlushMarks(ks)[i] \subseteq Row
  <2>1. \A f \in installed.files : ResolveDv(f, ks) \subseteq Row
    BY DEF TypeOK, Version, File, ResolveDv
  <2> QED
    BY <2>1, Zenon DEF FlushMarks
<1>10. /\ manifest' = Apply(manifest, {file}, {}, FlushMarks(ks))
       /\ flush' = [pc |-> "install", upto |-> upto, version |-> manifest']
       /\ committed' = upto
  BY <1>1
<1>11. rows # {}
  BY <1>5
<1> QED
  BY <1>3, <1>6, <1>8, <1>9, <1>10, <1>11, Zenon

(* A flush commit as a transaction: a new L0 file and some marks. *)
LEMMA FlushAdds ==
  ASSUME TypeOK, FlushCommit
  PROVE  \E upto, file, marks :
            /\ upto \in dropped + 1..Len(log) /\ file \in File
            /\ upto >= recovered /\ committed' = upto
            /\ manifest' = Apply(manifest, {file}, {}, marks)
            /\ file.id = next_id /\ file.level = 0 /\ Sound(file)
            /\ flush' = [pc |-> "install", upto |-> upto, version |-> manifest']
            /\ \A i \in DOMAIN marks : marks[i] \subseteq Row
<1>1. PICK upto \in dropped + 1..Len(log) :
            LET rows == Deduped(Rows(dropped + 1, upto))
                ks == {r.key : r \in rows}
                file == [id |-> next_id, level |-> 0, rows |-> rows, dv |-> {}]
            IN /\ upto >= recovered
               /\ manifest' = Apply(manifest, {file}, {}, FlushMarks(ks))
               /\ flush' = [pc |-> "install", upto |-> upto, version |-> manifest']
               /\ committed' = upto
               /\ file \in File /\ rows # {} /\ rows \subseteq Rows(1, Len(log))
               /\ \A i \in DOMAIN FlushMarks(ks) : FlushMarks(ks)[i] \subseteq Row
  BY FlushEffect, Zenon
<1> DEFINE rows == Deduped(Rows(dropped + 1, upto))
           marks == FlushMarks({r.key : r \in rows})
           file == [id |-> next_id, level |-> 0, rows |-> rows, dv |-> {}]
<1>2. /\ upto >= recovered /\ committed' = upto /\ file \in File
      /\ manifest' = Apply(manifest, {file}, {}, marks)
      /\ flush' = [pc |-> "install", upto |-> upto, version |-> manifest']
      /\ rows # {} /\ rows \subseteq Rows(1, Len(log))
      /\ \A i \in DOMAIN marks : marks[i] \subseteq Row
  BY <1>1
<1> HIDE DEF rows, marks
<1>3. file.id = next_id /\ file.level = 0 /\ file.rows = rows
  OBVIOUS
<1> HIDE DEF file
<1>4. Sound(file)
  BY <1>2, <1>3, LevelsAssumption DEF Sound
<1> QED
  BY <1>2, <1>3, <1>4, Zenon

(* A sound file stays sound while the log stays as it is. *)
LEMMA SoundKept ==
  ASSUME UNCHANGED log
  PROVE  \A f : Sound(f) => Sound(f)'
BY DEF Sound, Rows

(* The commit of a transaction leaves sound files. *)
LEMMA ApplySound ==
  ASSUME NEW m \in Version, \A f \in m.files : Sound(f), NEW adds, \A f \in adds : Sound(f),
         NEW removes, NEW marks
  PROVE  \A f \in Apply(m, adds, removes, marks).files : Sound(f)
BY ApplyFiles DEF Sound

\* and so does every step of a flush.
LEMMA FlushBase ==
  ASSUME BaseInv, FlushCommit \/ FlushInstall \/ FlushDrop
  PROVE  BaseInv'
<1> USE DEF BaseInv
<1>0. Empty \in Version /\ Empty.files = {}
  BY DEF Empty, Version
<1>1. CASE FlushCommit
  <2>1. PICK upto, file, marks :
            /\ upto \in dropped + 1..Len(log) /\ file \in File
            /\ upto >= recovered /\ committed' = upto
            /\ manifest' = Apply(manifest, {file}, {}, marks)
            /\ file.id = next_id /\ file.level = 0 /\ Sound(file)
            /\ flush' = [pc |-> "install", upto |-> upto, version |-> manifest']
            /\ \A i \in DOMAIN marks : marks[i] \subseteq Row
    BY <1>1, FlushAdds, Zenon
  <2>2. UNCHANGED <<log, dropped, recovered, installed, jobs, pins, pending, fails, crashes>>
    BY <1>1, Zenon DEF FlushCommit
  <2>3. disk' = disk \cup {next_id} /\ next_id' = next_id + 1
    BY <1>1, Zenon DEF FlushCommit
  <2>4. upto \in 0..Len(log)
    BY <2>1, LogTyped, SMTT(30) DEF TypeOK
  <2>5. manifest \in Version /\ manifest' \in Version
    <3>1. manifest \in Version /\ {file} \in SUBSET File
      BY <2>1 DEF TypeOK
    <3> QED
      BY <2>1, <3>1, ApplyTyped
  <2>6. flush' \in [pc : {"idle", "install", "drop"}, upto : 0..Len(log'), version : Version]
    BY <2>1, <2>2, <2>4, <2>5
  <2>7. TypeOK'
    <3>1. next_id \in Nat \ {0} /\ disk \subseteq Nat
      BY Zenon DEF TypeOK
    <3>2. next_id' \in Nat \ {0} /\ disk' \subseteq Nat
      BY <2>3, <3>1
    <3> QED
      BY ZenonT(30), <2>1, <2>2, <2>4, <2>5, <2>6, <3>2 DEF TypeOK
  <2>8. \A f \in manifest'.files : Sound(f)
    BY <2>1, <2>5, ApplySound DEF SoundFiles
  <2>9. SoundFiles'
    <3>1. flush'.version = manifest'
      BY <2>1
    <3>2. \A f : Sound(f) => Sound(f)'
      BY <2>2, SoundKept
    <3> QED
      BY <2>2, <2>8, <3>1, <3>2 DEF SoundFiles
  <2>10. JobShape'
    BY <2>2 DEF JobShape, Picked
  <2> QED
    BY <2>7, <2>9, <2>10
<1>2. CASE FlushInstall
  <2>1. UNCHANGED <<log, dropped, recovered, manifest, jobs, pins, pending, disk,
                    next_id, committed, fails, crashes>>
    BY <1>2 DEF FlushInstall
  <2>2. /\ installed' = flush.version
        /\ flush' = [pc |-> "drop", upto |-> flush.upto, version |-> Empty]
    BY <1>2, Zenon DEF FlushInstall, TypeOK
  <2>3. TypeOK'
    BY <1>0, <2>1, <2>2 DEF TypeOK
  <2>4. SoundFiles'
    BY Zenon, <1>0, <2>1, <2>2 DEF SoundFiles, Sound, Rows
  <2>5. JobShape'
    BY <2>1 DEF JobShape, Picked
  <2> QED
    BY <2>3, <2>4, <2>5
<1>3. CASE FlushDrop
  <2>1. UNCHANGED <<log, recovered, manifest, installed, jobs, pins, pending, disk,
                    next_id, committed, fails, crashes>>
    BY <1>3 DEF FlushDrop
  <2>2. dropped' = flush.upto /\ flush' = [pc |-> "idle", upto |-> 0, version |-> Empty]
    BY <1>3 DEF FlushDrop, NoFlush
  <2>3. TypeOK'
    BY <1>0, <2>1, <2>2, LogTyped DEF TypeOK
  <2>4. SoundFiles'
    BY <1>0, <2>1, <2>2 DEF SoundFiles, Sound, Rows
  <2>5. JobShape'
    BY <2>1 DEF JobShape, Picked
  <2> QED
    BY <2>3, <2>4, <2>5
<1> QED
  BY <1>1, <1>2, <1>3

\* Worker c has gone on to job j; the other jobs are as they were.
Replaced(c, j) ==
    /\ jobs' \in [Compactors -> Job] /\ jobs'[c] = j
    /\ \A d \in Compactors : d # c => jobs'[d] = jobs[d]

(* A new job keeps the invariants if it does so itself. *)
LEMMA JobBase ==
  ASSUME BaseInv, NEW c \in Compactors, NEW j \in Job, Replaced(c, j),
         UNCHANGED <<log, dropped, recovered, flush, pins, committed, crashes>>,
         manifest' \in Version, \A f \in manifest'.files : Sound(f),
         installed' \in Version, \A f \in installed'.files : Sound(f),
         pending' \subseteq [ids : SUBSET Nat, after : Nat],
         disk' \subseteq Nat, next_id' \in Nat \ {0}, fails' \in Nat,
         j.level <= NumLevels,
         j.pc = "idle" => j.level = -1,
         j.pc \in {"merge", "commit", "install", "enqueue"} => j.level >= 0,
         j.pc \notin {"merge", "commit", "install", "enqueue"} => j.removes = {},
         j.pc # "merge" => j.sources = {},
         j.pc # "commit" => j.out = {},
         \A f \in j.sources \cup j.out \cup j.version.files : Sound(f)
  PROVE  BaseInv'
<1> USE DEF BaseInv
<1>1. TypeOK'
  <2>1. \A d \in Compactors : jobs'[d].level <= NumLevels
    BY DEF Replaced, TypeOK
  <2>2. jobs' \in [Compactors -> Job]
    BY DEF Replaced
  <2> QED
    BY Zenon, <2>1, <2>2 DEF TypeOK
<1>2. JobShape'
  BY DEF JobShape, Replaced, Picked
<1>3. SoundFiles'
  <2>1. \A f : Sound(f) => Sound(f)'
    BY SoundKept
  <2> QED
    BY <2>1, Zenon DEF SoundFiles, Replaced
<1> QED
  BY <1>1, <1>2, <1>3

\* The job of an idle compactor and the empty version are well-formed.
LEMMA NoJobTyped == NoJob \in Job /\ Empty \in Version /\ Empty.files = {}
BY DEF NoJob, Job, Empty, Version

\* What the pick of a compaction replaces in the state,
LEMMA PickReplaces ==
  ASSUME TypeOK, NEW c \in Compactors, CompactPick(c)
  PROVE  \E l \in 0..NumLevels, inputs \in SUBSET installed.files, j \in Job :
            LET sources == inputs \cup PullIns(installed, l, inputs)
            IN /\ l \in PickLevel(installed, Busy) /\ inputs = PickInputs(installed, l)
               /\ inputs # {} /\ sources \subseteq installed.files
               /\ Replaced(c, j)
               /\ j.pc = "merge" /\ j.level = l /\ j.after = installed.snap
               /\ j.sources = sources /\ j.removes = Ids(sources) /\ j.out = {}
               /\ j.version = Empty
<1>1. PICK l \in 0..NumLevels, inputs \in SUBSET installed.files :
            LET sources == inputs \cup PullIns(installed, l, inputs)
            IN /\ l \in PickLevel(installed, Busy) /\ inputs = PickInputs(installed, l)
               /\ inputs # {} /\ sources \subseteq installed.files
               /\ jobs' = [jobs EXCEPT ![c] =
                    [NoJob EXCEPT !.pc = "merge", !.level = l, !.after = installed.snap,
                                  !.sources = sources, !.removes = Ids(sources)]]
  BY PickEffect, Zenon
<1> DEFINE sources == inputs \cup PullIns(installed, l, inputs)
           j == [NoJob EXCEPT !.pc = "merge", !.level = l, !.after = installed.snap,
                              !.sources = sources, !.removes = Ids(sources)]
<1>2. installed \in Version /\ sources \subseteq File
  BY <1>1 DEF TypeOK, Version
<1>3. installed.snap \in Nat /\ Ids(sources) \subseteq Nat /\ l \in Nat
  BY <1>2, LevelsAssumption DEF Version, File, Ids
<1> HIDE DEF sources
<1>4. /\ j \in Job /\ j.pc = "merge" /\ j.level = l /\ j.after = installed.snap
      /\ j.sources = sources /\ j.removes = Ids(sources) /\ j.out = {} /\ j.version = Empty
  BY <1>2, <1>3, NoJobTyped, Zenon DEF Job, NoJob
<1>5. Replaced(c, j)
  <2> HIDE DEF j
  <2>1. jobs' = [jobs EXCEPT ![c] = j]
    BY <1>1 DEF j, sources
  <2> QED
    BY <1>4, <2>1, JobReplaced, Zenon DEF Replaced
<1> HIDE DEF j
<1> QED
  BY <1>1, <1>4, <1>5, Zenon DEF sources

\* what its merge does,
LEMMA MergeReplaces ==
  ASSUME BaseInv, NEW c \in Compactors, CompactMerge(c)
  PROVE  \E rows \in SUBSET Rows(1, Len(log)), j \in Job :
            LET out == jobs[c].level + 1
            IN /\ rows = MergeRows(jobs[c].sources, Len(log), out)
               /\ rows \subseteq Row /\ IsFiniteSet(rows) /\ Cardinality(rows) \in Nat
               /\ Replaced(c, j)
               /\ j.pc = "commit" /\ j.level = jobs[c].level /\ j.after = jobs[c].after
               /\ j.sources = {} /\ j.removes = jobs[c].removes
               /\ j.out = OutputFiles(rows, out, next_id) /\ j.version = jobs[c].version
               /\ disk' = disk \cup Ids(j.out) /\ next_id' = next_id + Cardinality(rows)
               /\ out \in Nat
<1> USE DEF BaseInv
<1> DEFINE out == jobs[c].level + 1
           rows == MergeRows(jobs[c].sources, Len(log), out)
           files == OutputFiles(rows, out, next_id)
           j == [jobs[c] EXCEPT !.pc = "commit", !.out = files, !.sources = {}]
<1>1. jobs[c] \in Job /\ out \in Nat /\ next_id \in Nat
  <2>1. jobs[c] \in Job /\ jobs[c].level >= 0 /\ next_id \in Nat
    BY DEF CompactMerge, JobShape, Picked, TypeOK
  <2>2. jobs[c].level \in Nat
    BY <2>1 DEF Job
  <2> QED
    BY <2>1, <2>2
<1>2. /\ rows \subseteq Rows(1, Len(log)) /\ rows \subseteq Row /\ IsFiniteSet(rows)
      /\ Cardinality(rows) \in Nat
  BY <1>1, MergeTyped, Zenon
<1>3. files \subseteq File
  BY <1>1, <1>2, OutputTyped, SMTT(30)
<1>4. /\ jobs' = [jobs EXCEPT ![c].pc = "commit", ![c].out = files, ![c].sources = {}]
      /\ disk' = disk \cup Ids(files) /\ next_id' = next_id + Cardinality(rows)
  BY DEF CompactMerge, Ids
<1> HIDE DEF files
<1>5. /\ j \in Job
      /\ j.pc = "commit" /\ j.level = jobs[c].level /\ j.after = jobs[c].after
      /\ j.sources = {} /\ j.removes = jobs[c].removes
      /\ j.out = files /\ j.version = jobs[c].version
  BY <1>1, <1>3, Zenon DEF Job
<1>6. jobs' = [jobs EXCEPT ![c] = j]
  BY <1>4, Zenon DEF TypeOK
<1> HIDE DEF j
<1>7. Replaced(c, j)
  BY <1>5, <1>6, JobReplaced, Zenon DEF Replaced
<1> QED
  BY <1>1, <1>2, <1>4, <1>5, <1>7 DEF files

\* its commit,
LEMMA CommitReplaces ==
  ASSUME BaseInv, NEW c \in Compactors, CompactCommit(c)
  PROVE  /\ manifest' = Apply(manifest, jobs[c].out, jobs[c].removes, <<>>)
         /\ manifest' \in Version /\ \A f \in manifest'.files : Sound(f)
         /\ \E j \in Job :
               /\ Replaced(c, j)
               /\ j.pc = "install" /\ j.level = jobs[c].level /\ j.after = jobs[c].after
               /\ j.sources = jobs[c].sources /\ j.removes = jobs[c].removes /\ j.out = {}
               /\ j.version = manifest'
<1> USE DEF BaseInv
<1> DEFINE j == [jobs[c] EXCEPT !.pc = "install", !.version = manifest', !.out = {}]
<1>1. /\ manifest' = Apply(manifest, jobs[c].out, jobs[c].removes, <<>>)
      /\ jobs' = [jobs EXCEPT ![c].pc = "install", ![c].version = manifest', ![c].out = {}]
  BY DEF CompactCommit
<1>2. jobs[c] \in Job /\ manifest \in Version /\ jobs[c].out \subseteq File
  BY DEF TypeOK, Job
<1>3. manifest' \in Version
  BY <1>1, <1>2, ApplyTyped
<1>4. \A f \in manifest'.files : Sound(f)
  BY <1>1, <1>2, ApplySound DEF SoundFiles
<1>5. /\ j \in Job
      /\ j.pc = "install" /\ j.level = jobs[c].level /\ j.after = jobs[c].after
      /\ j.sources = jobs[c].sources /\ j.removes = jobs[c].removes /\ j.out = {}
      /\ j.version = manifest'
  BY <1>2, <1>3, Zenon DEF Job
<1>6. jobs' = [jobs EXCEPT ![c] = j]
  BY <1>1, Zenon DEF TypeOK
<1> HIDE DEF j
<1>7. Replaced(c, j)
  BY <1>5, <1>6, JobReplaced, Zenon DEF Replaced
<1> QED
  BY <1>1, <1>3, <1>4, <1>5, <1>7

\* its install,
LEMMA InstallReplaces ==
  ASSUME TypeOK, NEW c \in Compactors, CompactInstall(c)
  PROVE  \E j \in Job :
            /\ Replaced(c, j)
            /\ j.pc = "enqueue" /\ j.level = jobs[c].level /\ j.after = jobs[c].after
            /\ j.sources = jobs[c].sources /\ j.removes = jobs[c].removes /\ j.out = jobs[c].out
            /\ j.version = Empty
<1> DEFINE j == [jobs[c] EXCEPT !.pc = "enqueue", !.version = Empty]
<1>1. jobs' = [jobs EXCEPT ![c].pc = "enqueue", ![c].version = Empty] /\ jobs[c] \in Job
  BY DEF CompactInstall, TypeOK
<1>2. /\ j \in Job
      /\ j.pc = "enqueue" /\ j.level = jobs[c].level /\ j.after = jobs[c].after
      /\ j.sources = jobs[c].sources /\ j.removes = jobs[c].removes /\ j.out = jobs[c].out
      /\ j.version = Empty
  BY <1>1, NoJobTyped, Zenon DEF Job
<1>3. jobs' = [jobs EXCEPT ![c] = j]
  BY <1>1, Zenon DEF TypeOK
<1> HIDE DEF j
<1>4. Replaced(c, j)
  BY <1>2, <1>3, JobReplaced, Zenon DEF Replaced
<1> QED
  BY <1>2, <1>4

\* its enqueue of the inputs for deletion,
LEMMA EnqueueReplaces ==
  ASSUME TypeOK, NEW c \in Compactors, CompactEnqueue(c)
  PROVE  \E j \in Job :
            /\ Replaced(c, j)
            /\ j.pc = "gc" /\ j.level = jobs[c].level /\ j.removes = {}
            /\ j.sources = jobs[c].sources /\ j.out = jobs[c].out /\ j.version = jobs[c].version
<1> DEFINE j == [jobs[c] EXCEPT !.pc = "gc", !.removes = {}, !.after = 0]
<1>1. jobs' = [jobs EXCEPT ![c].pc = "gc", ![c].removes = {}, ![c].after = 0] /\ jobs[c] \in Job
  BY DEF CompactEnqueue, TypeOK
<1>2. /\ j \in Job
      /\ j.pc = "gc" /\ j.level = jobs[c].level /\ j.removes = {}
      /\ j.sources = jobs[c].sources /\ j.out = jobs[c].out /\ j.version = jobs[c].version
  BY <1>1, Zenon DEF Job
<1>3. jobs' = [jobs EXCEPT ![c] = j]
  BY <1>1, Zenon DEF TypeOK
<1> HIDE DEF j
<1>4. Replaced(c, j)
  BY <1>2, <1>3, JobReplaced, Zenon DEF Replaced
<1> QED
  BY <1>2, <1>4

\* the read of the pins before the deletion,
LEMMA MarkReplaces ==
  ASSUME TypeOK, NEW c \in Compactors, GcMark(c)
  PROVE  \E j \in Job :
            /\ Replaced(c, j)
            /\ j.pc = "sweep" /\ j.level = jobs[c].level /\ j.removes = jobs[c].removes
            /\ j.sources = jobs[c].sources /\ j.out = jobs[c].out /\ j.version = jobs[c].version
            /\ j.pinned = MinPinned
<1> DEFINE j == [jobs[c] EXCEPT !.pc = "sweep", !.pinned = MinPinned]
<1>1. jobs' = [jobs EXCEPT ![c].pc = "sweep", ![c].pinned = MinPinned] /\ jobs[c] \in Job
  BY DEF GcMark, TypeOK
<1>2. MinPinned \subseteq Nat
  BY DEF MinPinned, TypeOK, Unpinned, Version
<1> HIDE DEF MinPinned
<1>3. /\ j \in Job
      /\ j.pc = "sweep" /\ j.level = jobs[c].level /\ j.removes = jobs[c].removes
      /\ j.sources = jobs[c].sources /\ j.out = jobs[c].out /\ j.version = jobs[c].version
      /\ j.pinned = MinPinned
  BY <1>1, <1>2, Zenon DEF Job
<1>4. jobs' = [jobs EXCEPT ![c] = j]
  BY <1>1, Zenon DEF TypeOK
<1> HIDE DEF j
<1>5. Replaced(c, j)
  BY <1>3, <1>4, JobReplaced, Zenon DEF Replaced
<1> QED
  BY <1>3, <1>5

\* and the sweep or the failure that ends it.
LEMMA EndReplaces ==
  ASSUME TypeOK, NEW c \in Compactors, CompactFail(c) \/ GcSweep(c)
  PROVE  Replaced(c, NoJob)
<1>1. jobs' = [jobs EXCEPT ![c] = NoJob]
  BY DEF CompactFail, GcSweep, GcSweepOf, Ended
<1> QED
  BY <1>1, NoJobTyped, JobReplaced, Zenon DEF Replaced

(* What a sweep deletes and keeps. *)
LEMMA SweepEffect ==
  ASSUME NEW c \in Compactors, GcSweep(c)
  PROVE  \E gone, failed :
            /\ gone \in SUBSET pending
            /\ \A e \in gone : ~StillPinned(e, jobs[c].pinned)
            /\ pending' = pending \ gone
            /\ disk' = disk \ ((UNION {e.ids : e \in gone}) \ failed)
            /\ fails' = fails \/ fails' = fails + 1
            /\ jobs[c].pc = "sweep"
            /\ UNCHANGED <<log, dropped, recovered, manifest, installed, flush, pins,
                           next_id, committed, crashes>>
<1>1. PICK old \in SUBSET pending : GcSweepOf(c, old)
  BY DEF GcSweep
<1> DEFINE gone == {e \in old : ~StillPinned(e, jobs[c].pinned)}
<1>2. gone \in SUBSET pending /\ \A e \in gone : ~StillPinned(e, jobs[c].pinned)
  BY <1>1
<1> HIDE DEF gone
<1>3. PICK failed : /\ disk' = disk \ ((UNION {e.ids : e \in gone}) \ failed)
                    /\ fails' = IF failed = {} THEN fails ELSE fails + 1
  BY <1>1, Zenon DEF GcSweepOf, gone
<1>4. pending' = pending \ gone /\ jobs[c].pc = "sweep"
  BY <1>1 DEF GcSweepOf, gone
<1>5. UNCHANGED <<log, dropped, recovered, manifest, installed, flush, pins,
                  next_id, committed, crashes>>
  BY <1>1 DEF GcSweepOf
<1> QED
  BY <1>2, <1>3, <1>4, <1>5, Zenon

\* Every step of a compaction keeps BaseInv.
LEMMA CompactBase ==
  ASSUME BaseInv, NEW c \in Compactors, Compact(c)
  PROVE  BaseInv'
<1>0. TypeOK /\ JobShape /\ SoundFiles /\ jobs[c] \in Job /\ jobs[c].level <= NumLevels
  BY DEF BaseInv, TypeOK
<1>00. /\ manifest \in Version /\ installed \in Version
       /\ pending \subseteq [ids : SUBSET Nat, after : Nat]
       /\ disk \subseteq Nat /\ next_id \in Nat \ {0} /\ fails \in Nat
  BY <1>0 DEF TypeOK
<1>01. /\ \A f \in manifest.files : Sound(f)
       /\ \A f \in installed.files : Sound(f)
       /\ \A f \in jobs[c].sources \cup jobs[c].out \cup jobs[c].version.files : Sound(f)
  BY <1>0 DEF SoundFiles
<1>02. /\ jobs[c].pc \in {"merge", "commit", "install", "enqueue"} => jobs[c].level >= 0
       /\ jobs[c].pc \notin {"merge", "commit", "install", "enqueue"} => jobs[c].removes = {}
       /\ jobs[c].pc # "merge" => jobs[c].sources = {}
       /\ jobs[c].pc # "commit" => jobs[c].out = {}
  BY <1>0 DEF JobShape, Picked
<1>03. NoJob \in Job /\ NoJob.level <= NumLevels /\ NoJob.level = -1 /\ NoJob.removes = {}
       /\ NoJob.pc = "idle" /\ NoJob.sources = {} /\ NoJob.out = {} /\ NoJob.version.files = {}
  BY LevelsAssumption, NoJobTyped, SMTT(30) DEF NoJob, Empty
<1>1. CASE CompactPick(c)
  <2>1. UNCHANGED <<log, dropped, recovered, manifest, installed, flush, pins,
                    pending, disk, next_id, committed, fails, crashes>>
    BY <1>1 DEF CompactPick
  <2>2. PICK l \in 0..NumLevels, j \in Job :
          /\ Replaced(c, j) /\ j.pc = "merge" /\ j.level = l
          /\ j.sources \subseteq installed.files /\ j.out = {} /\ j.version = Empty
    BY <1>0, <1>1, PickReplaces, Zenon
  <2>3. j.level <= NumLevels /\ j.level >= 0
    BY <2>2, LevelsAssumption
  <2>4. \A f \in j.sources \cup j.out \cup j.version.files : Sound(f)
    BY <1>01, <2>2, NoJobTyped, ZenonT(30)
  <2> QED
    BY <1>00, <1>01, <2>1, <2>2, <2>3, <2>4, JobBase
<1>2. CASE CompactMerge(c)
  <2>1. UNCHANGED <<log, dropped, recovered, manifest, installed, flush, pins,
                    pending, committed, fails, crashes>>
    BY <1>2 DEF CompactMerge
  <2>2. PICK rows \in SUBSET Rows(1, Len(log)), j \in Job :
            /\ rows \subseteq Row /\ IsFiniteSet(rows) /\ Cardinality(rows) \in Nat
            /\ Replaced(c, j)
            /\ j.pc = "commit" /\ j.level = jobs[c].level
            /\ j.sources = {} /\ j.removes = jobs[c].removes
            /\ j.out = OutputFiles(rows, jobs[c].level + 1, next_id)
            /\ j.version = jobs[c].version
            /\ disk' = disk \cup Ids(j.out) /\ next_id' = next_id + Cardinality(rows)
            /\ jobs[c].level + 1 \in Nat
    BY <1>2, MergeReplaces, Zenon
  <2>3. /\ j.out \subseteq File
        /\ \A f \in j.out : f.level = jobs[c].level + 1 /\ f.rows # {} /\ f.rows \subseteq rows
    <3>1. rows \in SUBSET Row /\ IsFiniteSet(rows) /\ jobs[c].level + 1 \in Nat /\ next_id \in Nat
      BY <1>00, <2>2
    <3>2. /\ OutputFiles(rows, jobs[c].level + 1, next_id) \subseteq File
          /\ \A f \in OutputFiles(rows, jobs[c].level + 1, next_id) :
                f.level = jobs[c].level + 1 /\ f.rows # {} /\ f.rows \subseteq rows
      <4>1. PICK out \in Nat : out = jobs[c].level + 1
        BY Zenon, <3>1
      <4> QED
        BY <3>1, <4>1, OutputTyped
    <3> QED
      BY <2>2, <3>2
  <2>4. \A f \in j.out : Sound(f)
    BY <1>0, <2>2, <2>3, LevelsAssumption, SMTT(30) DEF Sound, Job
  <2>5. disk' \subseteq Nat /\ next_id' \in Nat \ {0}
    <3>1. Ids(j.out) \subseteq Nat
      BY <2>3 DEF Ids, File
    <3>2. next_id \in Nat \ {0} /\ Cardinality(rows) \in Nat /\ next_id' = next_id + Cardinality(rows)
      BY <1>00, <2>2
    <3>3. next_id' \in Nat \ {0}
      BY <3>2
    <3> QED
      BY <1>00, <2>2, <3>1, <3>3, Zenon
  <2>6. jobs[c].pc = "merge"
    BY <1>2 DEF CompactMerge
  <2> QED
    BY Zenon, <1>0, <1>00, <1>01, <1>02, <2>1, <2>2, <2>4, <2>5, <2>6, JobBase
<1>3. CASE CompactFail(c)
  <2>1. UNCHANGED <<log, dropped, recovered, manifest, installed, flush, pins,
                    pending, disk, next_id, committed, crashes>>
    BY <1>3, Zenon DEF CompactFail
  <2>2. fails' \in Nat
    <3>1. fails' = fails \/ fails' = fails + 1
      BY <1>3, Zenon DEF CompactFail
    <3> QED
      BY <1>00, <3>1
  <2>3. Replaced(c, NoJob)
    BY Zenon, <1>0, <1>3, EndReplaces
  <2> QED
    BY <1>00, <1>01, <1>03, <2>1, <2>2, <2>3, JobBase, Zenon
<1>4. CASE CompactCommit(c)
  <2>1. UNCHANGED <<log, dropped, recovered, installed, flush, pins, pending, disk,
                    next_id, committed, fails, crashes>> /\ jobs[c].pc = "commit"
    BY <1>4 DEF CompactCommit
  <2>2. manifest' \in Version /\ \A f \in manifest'.files : Sound(f)
    BY <1>4, CommitReplaces, Zenon
  <2>3. PICK j \in Job :
               /\ Replaced(c, j)
               /\ j.pc = "install" /\ j.level = jobs[c].level /\ j.after = jobs[c].after
               /\ j.sources = jobs[c].sources /\ j.removes = jobs[c].removes /\ j.out = {}
               /\ j.version = manifest'
    BY <1>4, CommitReplaces, ZenonT(30)
  <2> QED
    BY <1>0, <1>00, <1>01, <1>02, <2>1, <2>2, <2>3, JobBase
<1>5. CASE CompactInstall(c)
  <2>1. UNCHANGED <<log, dropped, recovered, manifest, flush, pins, pending, disk,
                    next_id, committed, fails, crashes>>
        /\ jobs[c].pc = "install" /\ installed' = jobs[c].version
    BY <1>5 DEF CompactInstall
  <2>2. PICK j \in Job :
            /\ Replaced(c, j)
            /\ j.pc = "enqueue" /\ j.level = jobs[c].level
            /\ j.sources = jobs[c].sources /\ j.removes = jobs[c].removes /\ j.out = jobs[c].out
            /\ j.version = Empty
    BY <1>0, <1>5, InstallReplaces
  <2>3. installed' \in Version /\ \A f \in installed'.files : Sound(f)
    BY Zenon, <1>0, <1>01, <2>1 DEF Job
  <2> QED
    BY <1>0, <1>00, <1>01, <1>02, <2>1, <2>2, <2>3, NoJobTyped, JobBase
<1>6. CASE CompactEnqueue(c)
  <2>1. UNCHANGED <<log, dropped, recovered, manifest, installed, flush, pins, disk,
                    next_id, committed, fails, crashes>>
        /\ jobs[c].pc = "enqueue"
        /\ pending' = pending \cup {[ids |-> jobs[c].removes, after |-> jobs[c].after]}
    BY <1>6 DEF CompactEnqueue
  <2>2. PICK j \in Job :
            /\ Replaced(c, j)
            /\ j.pc = "gc" /\ j.level = jobs[c].level /\ j.removes = {}
            /\ j.sources = jobs[c].sources /\ j.out = jobs[c].out /\ j.version = jobs[c].version
    BY <1>0, <1>6, EnqueueReplaces
  <2>3. pending' \subseteq [ids : SUBSET Nat, after : Nat]
    <3>1. pending \subseteq [ids : SUBSET Nat, after : Nat] /\ jobs[c] \in Job
      BY Zenon, <1>0, <1>00 DEF TypeOK
    <3>2. jobs[c].removes \in SUBSET Nat /\ jobs[c].after \in Nat
      BY Zenon, <3>1 DEF Job
    <3>3. [ids |-> jobs[c].removes, after |-> jobs[c].after] \in [ids : SUBSET Nat, after : Nat]
      BY Zenon, <3>2
    <3> QED
      BY Zenon, <2>1, <3>1, <3>3
  <2> QED
    BY <1>0, <1>00, <1>01, <1>02, <2>1, <2>2, <2>3, JobBase
<1>7. CASE GcMark(c)
  <2>1. UNCHANGED <<log, dropped, recovered, manifest, installed, flush, pins,
                    pending, disk, next_id, committed, fails, crashes>>
        /\ jobs[c].pc \in {"idle", "gc"}
    BY <1>7 DEF GcMark
  <2>2. PICK j \in Job :
            /\ Replaced(c, j)
            /\ j.pc = "sweep" /\ j.level = jobs[c].level /\ j.removes = jobs[c].removes
            /\ j.sources = jobs[c].sources /\ j.out = jobs[c].out /\ j.version = jobs[c].version
    BY <1>0, <1>7, MarkReplaces
  <2> QED
    BY <1>0, <1>00, <1>01, <1>02, <2>1, <2>2, JobBase
<1>8. CASE GcSweep(c)
  <2>1. PICK gone, failed :
            /\ gone \in SUBSET pending
            /\ pending' = pending \ gone
            /\ disk' = disk \ ((UNION {e.ids : e \in gone}) \ failed)
            /\ fails' = fails \/ fails' = fails + 1
            /\ UNCHANGED <<log, dropped, recovered, manifest, installed, flush, pins,
                           next_id, committed, crashes>>
    BY <1>8, SweepEffect, Zenon
  <2>2. Replaced(c, NoJob)
    BY <1>0, <1>8, EndReplaces, Zenon
  <2>3. pending' \subseteq pending /\ disk' \subseteq disk /\ fails' \in Nat
    BY <1>00, <2>1
  <2> QED
    BY <1>00, <1>01, <1>03, <2>1, <2>2, <2>3, JobBase, Zenon
<1> QED
  BY <1>1, <1>2, <1>3, <1>4, <1>5, <1>6, <1>7, <1>8 DEF Compact

\* So does a reader that pins or unpins,
LEMMA PinBase ==
  ASSUME BaseInv, NEW r \in Readers, Pin(r) \/ Unpin(r)
  PROVE  BaseInv'
<1> USE DEF BaseInv
<1>1. UNCHANGED <<log, dropped, recovered, manifest, installed, flush, jobs,
                  pending, disk, next_id, committed, fails, crashes>>
  BY DEF Pin, Unpin
<1>2. pins' \in [Readers -> Version \cup {Unpinned}]
  BY DEF Pin, Unpin, TypeOK
<1>3. TypeOK'
  BY <1>1, <1>2 DEF TypeOK
<1>4. JobShape'
  BY <1>1 DEF JobShape, Picked
<1>5. SoundFiles'
  BY <1>1, SoundKept DEF SoundFiles
<1> QED
  BY <1>3, <1>4, <1>5

\* and a crash with the reopen after it:
LEMMA CrashBase ==
  ASSUME BaseInv, CrashReopen
  PROVE  BaseInv'
<1> USE DEF BaseInv
<1>1. /\ dropped' \in 0..dropped /\ recovered' = Len(log) /\ installed' = manifest
      /\ flush' = NoFlush /\ jobs' = [c \in Compactors |-> NoJob]
      /\ pins' = [r \in Readers |-> Unpinned] /\ pending' = {} /\ crashes' = crashes + 1
      /\ UNCHANGED <<log, manifest, disk, next_id, committed, fails>>
  BY DEF CrashReopen, RecoverFrom
<1>2. TypeOK'
  <2>1. dropped' \in 0..Len(log) /\ recovered' \in 0..Len(log) /\ crashes' \in Nat
    BY <1>1, LogTyped DEF TypeOK
  <2>2. flush' \in [pc : {"idle", "install", "drop"}, upto : 0..Len(log), version : Version]
    <3>1. 0 \in 0..Len(log)
      BY LogTyped DEF TypeOK
    <3> QED
      BY Zenon, <1>1, <3>1, NoJobTyped DEF NoFlush
  <2>3. jobs' \in [Compactors -> Job] /\ \A c \in Compactors : jobs'[c].level <= NumLevels
    <3>1. NoJob \in Job /\ NoJob.level = -1
      BY Zenon, NoJobTyped DEF NoJob
    <3>2. -1 <= NumLevels
      BY LevelsAssumption
    <3> QED
      BY Zenon, <1>1, <3>1, <3>2
  <2> QED
    BY Zenon, <1>1, <2>1, <2>2, <2>3 DEF TypeOK
<1>3. JobShape'
  BY Zenon, <1>1 DEF JobShape, NoJob, Picked
<1>4. SoundFiles'
  <2>1. \A f : Sound(f) => Sound(f)'
    BY <1>1, SoundKept
  <2> QED
    BY <1>1, <2>1 DEF SoundFiles, NoJob, NoFlush, Empty
<1> QED
  BY <1>2, <1>3, <1>4

\* every step keeps BaseInv.
LEMMA NextBase ==
  ASSUME BaseInv, [Next]_vars
  PROVE  BaseInv'
<1>1. CASE UNCHANGED vars
  <2>1. TypeOK'
    BY <1>1 DEF BaseInv, TypeOK, vars
  <2>2. JobShape'
    BY <1>1 DEF BaseInv, JobShape, Picked, vars
  <2>3. \A f : Sound(f)' <=> Sound(f)
    BY <1>1 DEF Sound, Rows, vars
  <2>4. SoundFiles'
    BY <1>1, <2>3 DEF BaseInv, SoundFiles, vars
  <2> QED
    BY <2>1, <2>2, <2>4 DEF BaseInv
<1> QED
  BY <1>1, WriteBase, FlushBase, CompactBase, PinBase, CrashBase DEF Next

(* The state of the tree keeps its type: file ids and snapshot numbers stay
   numbers, a job works on a level that has a target, no merge yields an
   infinite set of rows. *)
THEOREM TypeCorrect == Spec => []TypeOK
<1>1. Spec => []BaseInv
  BY InitBase, NextBase, PTL DEF Spec
<1>2. BaseInv => TypeOK
  BY DEF BaseInv
<1> QED
  BY <1>1, <1>2, PTL
=============================================================================
