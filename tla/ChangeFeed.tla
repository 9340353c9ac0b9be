----------------------------- MODULE ChangeFeed -----------------------------
(***************************************************************************)
(* The change feed: a polling cursor over the memtables and the L0 files   *)
(* of a running database (sql/mod.rs, and scan_tail_changes in             *)
(* engine/engine.rs).                                                      *)
(*                                                                         *)
(* A record is [seq, key, op, row] with op "insert", "update" or "delete"  *)
(* and row the put whose values it carries, {} for none: the written row,  *)
(* or the one a delete removed.                                            *)
(***************************************************************************)
EXTENDS Primary, SequencesExt

CONSTANTS
    Deleters,    \* tasks that delete
    MaxRows,     \* the max_rows a subscriber passes to next_batch
    Retained,    \* does compaction leave what the cursor has not read in L0?
    ScanHeld,    \* does no flush finish between the pin of a scan and its read of the memtables?
    LookupHeld   \* is a delete numbered before the next write of its key?

FeedAssumption ==
    /\ MaxRows \in Nat \ {0}
    /\ {Retained, ScanHeld, LookupHeld} \subseteq BOOLEAN

VARIABLES
    deletes,    \* of each deleter: the keys looked up and the rows found
    cursor,     \* [pc, since, read_seq, files, found, buffer]
    feed        \* history: the records handed to the subscriber

vars == <<primaryVars, deletes, cursor, feed>>

NoDelete == [key |-> {}, pre |-> {}]

ChangeFeedCursor == [pc |-> "idle", since |-> 0, read_seq |-> 0, files |-> {},
                     found |-> {}, buffer |-> <<>>]

----------------------------------------------------------------------------
Init ==
    /\ PrimaryInit
    /\ deletes = [d \in Deleters |-> NoDelete]
    /\ cursor = ChangeFeedCursor
    /\ feed = <<>>

\* No other task has looked up k for a delete that is not numbered yet.
Unclaimed(k) == \A d \in Deleters : k \notin deletes[d].key

Put ==
    /\ \E k \in TableKeys : (LookupHeld => Unclaimed(k)) /\ Write(k, "put", {})
    /\ UNCHANGED <<deletes, cursor, feed>>

\* A delete looks its pre-image up before it takes the WAL lock.
LookupPreImage(d, k) ==
    /\ deletes[d] = NoDelete /\ Len(log) < MaxSeq
    /\ LookupHeld => Unclaimed(k)
    /\ deletes' = [deletes EXCEPT ![d] = [key |-> {k}, pre |-> LookupAt(k, Len(log))]]
    /\ UNCHANGED <<primaryVars, cursor, feed>>

Delete(d) ==
    /\ \E k \in deletes[d].key : Write(k, "del", deletes[d].pre)
    /\ deletes' = [deletes EXCEPT ![d] = NoDelete]
    /\ UNCHANGED <<cursor, feed>>

Flush ==
    /\ ScanHeld => cursor.pc # "memtable"
    /\ FlushInstall \/ FlushDrop
    /\ UNCHANGED <<deletes, cursor, feed>>

Compaction ==
    /\ Compact(IF Retained THEN cursor.since + 1..Len(log) ELSE {})
    /\ UNCHANGED <<deletes, cursor, feed>>

(* next_batch with an empty buffer: read_seq, then scan_tail_changes, which *)
(* pins a version before it reads the memtables.                            *)

ReadSeq ==
    /\ cursor.pc = "idle" /\ cursor.buffer = <<>>
    /\ cursor.since < Len(log)
    /\ cursor' = [cursor EXCEPT !.pc = "pin", !.read_seq = Len(log)]
    /\ UNCHANGED <<primaryVars, deletes, feed>>

ScanPin ==
    /\ cursor.pc = "pin"
    /\ cursor' = [cursor EXCEPT !.pc = "memtable", !.files = FilesAt(version, 0)]
    /\ UNCHANGED <<primaryVars, deletes, feed>>

InRange(r) == r.seq > cursor.since /\ r.seq <= cursor.read_seq

\* A row in a memtable and in a file is found twice.
ScanMemtable ==
    /\ cursor.pc = "memtable"
    /\ LET mem == InMemory(cursor.read_seq)
           files == UNION {Live(f) : f \in {g \in cursor.files :
                             SeqMax(g) > cursor.since /\ SeqMin(g) <= cursor.read_seq}}
       IN cursor' = [cursor EXCEPT !.pc = "resolve", !.files = {},
              !.found = {[row |-> r, from |-> "memtable"] : r \in {x \in mem : InRange(x)}}
                   \cup {[row |-> r, from |-> "l0"] : r \in {x \in files : InRange(x)}}]
    /\ UNCHANGED <<primaryVars, deletes, feed>>

\* The pre-image of a delete: looked up just before it, or else the one that
\* was stored with it.
OnlyLookup(r) == LookupAt(r.key, r.seq - 1)  \* mutant: the stored one is not used
PreImage(r) == LET now == LookupAt(r.key, r.seq - 1)
               IN IF now # {} THEN now ELSE log[r.seq].pre

Record(r) ==
    [seq |-> r.seq, key |-> r.key,
     op |-> IF r.op = "del" THEN "delete"
            ELSE IF LookupAt(r.key, r.seq - 1) = {} THEN "insert" ELSE "update",
     row |-> IF r.op = "del" THEN PreImage(r) ELSE {r}]

MemtableFirst(x, y) ==  \* mutant: the two sources are concatenated, not sorted together
    IF x.from = y.from THEN x.row.seq < y.row.seq ELSE x.from = "memtable"
\* A stable sort by seq of the memtable's rows followed by the files'.
FeedOrder(x, y) == \/ x.row.seq < y.row.seq
                   \/ x.row.seq = y.row.seq /\ x.from = "memtable" /\ y.from = "l0"

Resolve ==
    /\ cursor.pc = "resolve"
    /\ LET found == SetToSortSeq(cursor.found, FeedOrder)
       IN cursor' = [cursor EXCEPT !.pc = "idle", !.found = {}, !.read_seq = 0,
                        !.buffer = [i \in DOMAIN found |-> Record(found[i].row)]]
    /\ UNCHANGED <<primaryVars, deletes, feed>>

\* Up to max_rows records leave the buffer.
Serve(n) ==
    /\ cursor.pc = "idle" /\ cursor.buffer # <<>>
    /\ LET k == Min({n, Len(cursor.buffer)})
       IN /\ feed' = feed \o SubSeq(cursor.buffer, 1, k)
          /\ cursor' = [cursor EXCEPT !.buffer = SubSeq(@, k + 1, Len(@)),
                                      !.since = cursor.buffer[k].seq]
    /\ UNCHANGED <<primaryVars, deletes>>

NextBatch == ReadSeq \/ ScanPin \/ ScanMemtable \/ Resolve \/ Serve(MaxRows)

Next ==
    \/ Put
    \/ \E d \in Deleters : Delete(d) \/ \E k \in TableKeys : LookupPreImage(d, k)
    \/ Flush \/ Compaction
    \/ NextBatch

Spec == Init /\ [][Next]_vars

\* The subscriber keeps polling.
FairSpec == Spec /\ WF_vars(NextBatch)

----------------------------------------------------------------------------
TypeOK ==
    /\ cursor.since \in 0..MaxSeq /\ cursor.read_seq \in 0..MaxSeq
    /\ cursor.pc \in {"idle", "pin", "memtable", "resolve"}
    /\ \A i \in DOMAIN feed : feed[i].seq \in 1..MaxSeq

\* Nothing is skipped: every write up to since_seq was handed over, unless a
\* later write of its key has taken its place (next_batch over memtables and L0).
FeedComplete ==
    \A i \in 1..cursor.since :
        \/ \E j \in DOMAIN feed : feed[j].seq = i
        \/ \E j \in i + 1..Len(log) : log[j].key = log[i].key

\* Records come in the order of their sequence numbers.
FeedOrdered ==
    \A i, j \in DOMAIN feed : i < j => feed[i].seq <= feed[j].seq

\* And none comes twice.
FeedAscending ==
    \A i, j \in DOMAIN feed : i < j => feed[i].seq < feed[j].seq

\* The record of a delete carries the row that was live just before it, and
\* the record of a put the row that was put.
PreImagesExact ==
    \A i \in DOMAIN feed :
        feed[i].row = IF feed[i].op = "delete"
                      THEN {r \in Table(feed[i].seq - 1) : r.key = feed[i].key}
                      ELSE {Row(feed[i].seq)}

\* A put is reported as an update when its key had a live row just before it
\* and as an insert when it had none.
LabelsExact ==
    \A i \in DOMAIN feed : feed[i].op # "delete" =>
        (feed[i].op = "update" <=> \E r \in Table(feed[i].seq - 1) : r.key = feed[i].key)

\* A subscriber that keeps polling reaches the end of the history once writes stop.
FeedCatchesUp == <>[](cursor.since = Len(log))

============================================================================
