---------------------------- MODULE SnapshotsInv ----------------------------
(***************************************************************************)
(* The inductive invariants of Snapshots.  Some of them hold only where    *)
(* jobs keep out of each other's way: where a version is installed before  *)
(* the next commit (PromptInstall), or where no job commits between        *)
(* another job's pick and its enqueue (~JobsOverlap), which implies the    *)
(* former.                                                                 *)
(***************************************************************************)
EXTENDS Snapshots

Ids(files) == {f.id : f \in files}

Disjoint(S, T) == S \cap T = {}

Outs(c) == Ids(jobs[c].out)

\* What a job holds at each point of run_one_compaction_job.
JobShape ==
    \A c \in Compactors :
        /\ jobs[c].pc = "idle" => jobs[c].level = -1
        /\ jobs[c].pc \in {"merge", "commit", "install", "enqueue"} => Picked(c)
        /\ jobs[c].pc \notin {"merge", "commit", "install", "enqueue"} => jobs[c].removes = {}
        /\ jobs[c].pc # "merge" => jobs[c].sources = {}
        /\ jobs[c].pc # "commit" => jobs[c].out = {}

\* Every row of a file is a write of the log, so files are finite.
Sound(f) == f.level <= NumLevels + 1 /\ f.rows # {} /\ f.rows \subseteq Rows(1, Len(log))

SoundFiles ==
    /\ \A f \in manifest.files \cup installed.files \cup flush.version.files : Sound(f)
    /\ \A c \in Compactors :
          \A f \in jobs[c].sources \cup jobs[c].out \cup jobs[c].version.files : Sound(f)

----------------------------------------------------------------------------
(* The installed version and the files on disk.                             *)

\* Jobs keep out of each other's way.
ApartInv ==
    /\ \A c \in Compactors : Picked(c) => flush.pc = "idle"
    /\ \A c, d \in Compactors : Picked(c) /\ Picked(d) => c = d

\* At most one job is between its commit and its install.
InstallInv ==
    /\ flush.pc = "install" =>
          flush.version = manifest /\ \A c \in Compactors : jobs[c].pc # "install"
    /\ \A c \in Compactors : jobs[c].pc = "install" =>
          jobs[c].version = manifest /\ \A d \in Compactors \ {c} : jobs[d].pc # "install"
    /\ ~Installing => installed = manifest

\* Every id in use has been handed out.
FreshInv ==
    /\ \A i \in disk : i < next_id
    /\ \A c \in Compactors : \A i \in jobs[c].removes : i < next_id
    /\ \A e \in pending : \A i \in e.ids : i < next_id

\* What is on disk, and what was removed stays out of the versions in use.
ServedInv ==
    /\ Ids(manifest.files) \subseteq disk /\ Ids(installed.files) \subseteq disk
    /\ \A e \in pending : /\ Disjoint(e.ids, Ids(manifest.files))
                          /\ Disjoint(e.ids, Ids(installed.files))
    /\ \A c \in Compactors :
          /\ jobs[c].pc \in {"install", "enqueue"} => Disjoint(jobs[c].removes, Ids(manifest.files))
          /\ jobs[c].pc = "enqueue" => Disjoint(jobs[c].removes, Ids(installed.files))

\* The output of a merge is on disk and nobody else knows of it before the commit.
OutputInv ==
    \A c \in Compactors :
        /\ Outs(c) \subseteq disk
        /\ Disjoint(Outs(c), Ids(manifest.files)) /\ Disjoint(Outs(c), Ids(installed.files))
        /\ \A e \in pending : Disjoint(Outs(c), e.ids)
        /\ \A d \in Compactors : Disjoint(Outs(c), jobs[d].removes)
        /\ \A d \in Compactors \ {c} : Disjoint(Outs(c), Outs(d))

FilesInv ==
    /\ ~JobsOverlap => ApartInv
    /\ PromptInstall \/ ~JobsOverlap => InstallInv /\ FreshInv /\ ServedInv /\ OutputInv

----------------------------------------------------------------------------
(* Pins, with one compaction worker.                                        *)

Meets(r, ids) == ~Disjoint(Ids(pins[r].files), ids)

PinInv ==
    /\ installed.snap <= manifest.snap
    /\ \A c \in Compactors :
          jobs[c].pc \in {"merge", "commit", "install"} => jobs[c].after = installed.snap
    /\ \A r \in Readers :
          /\ pins[r].snap <= installed.snap
          /\ Ids(pins[r].files) \subseteq disk
          /\ \A c \in Compactors : Meets(r, jobs[c].removes) => pins[r].snap <= jobs[c].after
          /\ \A e \in pending :
                Meets(r, e.ids) =>
                    /\ pins[r].snap <= e.after
                    /\ \A c \in Compactors :
                          jobs[c].pc = "sweep" => StillPinned(e, jobs[c].pinned)

----------------------------------------------------------------------------
(* Key ranges.                                                              *)

\* One set of rows lies wholly to one side of the other.
Beside(R, S) ==
    \/ \A r \in R, s \in S : r.key < s.key
    \/ \A r \in R, s \in S : s.key < r.key

Tidy(files) ==
    \A f, g \in files :
        f # g /\ f.level = g.level /\ f.level > 0 => Beside(f.rows, g.rows)

RowsOf(files) == UNION {f.rows : f \in files}

\* A job and the files of its output level that it does not replace.
Fits(c) ==
    /\ \A g \in manifest.files :
          g.level = jobs[c].level + 1 /\ g.id \notin jobs[c].removes =>
              Beside(g.rows, RowsOf(jobs[c].sources \cup jobs[c].out))
    /\ \A f \in jobs[c].out : f.level = jobs[c].level + 1
    /\ Tidy(jobs[c].out)

\* The manifest is the installed version but for the output level of a job that
\* has yet to install, and reservations keep that level from everyone else.
LevelInv ==
    /\ Tidy(manifest.files) /\ Tidy(installed.files)
    /\ \A g \in manifest.files :
          \/ g.level = 0
          \/ \E h \in installed.files : h.id = g.id /\ h.level = g.level /\ h.rows = g.rows
          \/ \E c \in Compactors : jobs[c].pc = "install" /\ g.level = jobs[c].level + 1
    /\ \A c, d \in Compactors :
          Picked(c) /\ Picked(d) /\ c # d =>
              jobs[d].level \notin {jobs[c].level - 1, jobs[c].level, jobs[c].level + 1}
    /\ \A c \in Compactors : jobs[c].pc \in {"merge", "commit"} => Fits(c)

----------------------------------------------------------------------------
(* Contents.                                                                *)

\* What has been flushed and what is still in memory overlap or meet.
SeqInv ==
    /\ dropped <= committed
    /\ flush.pc = "idle" => dropped = committed \/ committed <= recovered
    /\ flush.pc # "idle" => flush.upto = committed

LiveRows(files) == UNION {Live(f) : f \in files}

\* A merge may drop any other row.
Kept(r) == r.op = "put" \/ r.seq = Len(log)

\* Each live row is in one file only.
OnePlace(files) == \A f, g \in files : Live(f) \cap Live(g) # {} => f = g

\* The files show the table after the first n writes.
Exact(files, n) ==
    /\ LiveRows(files) \subseteq Deduped(Rows(1, n))
    /\ \A r \in Deduped(Rows(1, n)) : Kept(r) => r \in LiveRows(files)
    /\ OnePlace(files)

UniqueIds(files) == \A f, g \in files : f.id = g.id => f = g

Replacing(c) == {f \in manifest.files : f.id \in jobs[c].removes}

\* The output of a merge shows what the files it replaces show.
ReplacesExactly(c) ==
    /\ LiveRows(jobs[c].out) \subseteq LiveRows(Replacing(c))
    /\ \A r \in LiveRows(Replacing(c)) : Kept(r) => r \in LiveRows(jobs[c].out)
    /\ OnePlace(jobs[c].out) /\ UniqueIds(jobs[c].out)

ContentInv ==
    /\ Exact(manifest.files, committed)
    /\ \E n \in dropped..committed : Exact(installed.files, n)
    /\ UniqueIds(manifest.files)
    /\ \A c \in Compactors :
          /\ jobs[c].pc = "merge" => jobs[c].sources = Replacing(c)
          /\ jobs[c].pc = "commit" => ReplacesExactly(c)

----------------------------------------------------------------------------
IInv ==
    /\ TypeOK /\ JobShape /\ SoundFiles /\ SeqInv
    /\ FilesInv
    /\ ~JobsOverlap /\ (\A c, d \in Compactors : c = d) => PinInv
    /\ PromptInstall \/ ~JobsOverlap => LevelInv
    /\ ~JobsOverlap => ContentInv
=============================================================================
