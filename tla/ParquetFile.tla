---------------------------- MODULE ParquetFile ----------------------------
(***************************************************************************)
(* One data file: what write_sorted_rows puts into it (rows by key and     *)
(* falling sequence number, row groups, pages, key bounds, the entries of  *)
(* the sparse index) and the reads of ParquetReader: get, scan,            *)
(* read_physical_rows_with_positions and the iterator of                   *)
(* iter_user_keys_in_range (parquet/writer.rs, parquet/reader.rs).         *)
(*                                                                         *)
(* Positions count from 0.  The lookup in the sparse index is the one      *)
(* module KvIndex shows to be exact, so it is a CHOOSE here.  Where pages  *)
(* and row groups end is the Parquet writer's choice and is arbitrary.     *)
(***************************************************************************)
EXTENDS Integers, Sequences, SequencesExt, FiniteSets, FiniteSetsExt

CONSTANTS
    FileKeys,   \* user keys
    FileSeqs,   \* sequence numbers
    Versions    \* may a file hold several versions of a key?

FileAssumption ==
    FileKeys \subseteq Nat /\ FileSeqs \subseteq Nat \ {0} /\ Versions \in BOOLEAN

VARIABLES
    file,    \* what the writer produced and open() loaded
    dv,      \* deleted positions the reads are given
    call,    \* the read asked for, or a record with op "none"
    answer,  \* sequence of positions it returned
    pages, next_page_idx, buffer, fallback_done   \* RangeKeyIter

vars == <<file, dv, call, answer, pages, next_page_idx, buffer, fallback_done>>

iter == <<pages, next_page_idx, buffer, fallback_done>>

NoCall == [op |-> "none"]

----------------------------------------------------------------------------
(* write_sorted_rows                                                        *)

\* The order of internal keys: key ascending, sequence number descending.
IkeyLess(a, b) == a.key < b.key \/ (a.key = b.key /\ a.seq > b.seq)

RowSets ==
    {S \in SUBSET [key : FileKeys, seq : FileSeqs] :
        /\ S # {}
        /\ \A r, s \in S : r # s => r.seq # s.seq /\ (Versions \/ r.key # s.key)}

Positions(rows) == 0..(Len(rows) - 1)

\* ArrowWriter (external): row groups, and in each the first rows of its pages,
\* counted from the start of the group, as its OffsetIndex has them.
Layouts(n) ==
    {[i \in 1..Cardinality(G) |->
        LET gs == SetToSortSeq(G, <)
            end == IF i = Len(gs) THEN n ELSE gs[i + 1]
        IN [num_rows |-> end - gs[i],
            firsts |-> {p - gs[i] : p \in {q \in P : gs[i] <= q /\ q < end}}]] :
        <<G, P>> \in {<<g, p>> \in (SUBSET (0..(n - 1))) \X (SUBSET (0..(n - 1))) :
                         0 \in g /\ g \subseteq p}}

GroupStart(groups, g) == FoldFunction(+, 0, [i \in 1..(g - 1) |-> groups[i].num_rows])

\* extract_kv_index_entries: one entry per page, its first row counted from
\* the start of the file.
ExtractLocal(rows, groups) ==  \* mutant: the rows of the groups before are not added
    LET firsts == UNION {groups[g].firsts : g \in 1..Len(groups)}
        seq == SetToSortSeq(firsts, <)
    IN [i \in 1..Len(seq) |-> [first |-> seq[i], key |-> rows[seq[i] + 1].key]]
ExtractEntries(rows, groups) ==
    LET firsts == UNION {{GroupStart(groups, g) + p : p \in groups[g].firsts} : g \in 1..Len(groups)}
        seq == SetToSortSeq(firsts, <)
    IN [i \in 1..Len(seq) |-> [first |-> seq[i], key |-> rows[seq[i] + 1].key]]

\* The file and what open() has of it; a missing or damaged index is tolerated.
WriteSortedRows(rows, groups, indexed) ==
    [rows |-> rows, groups |-> groups, indexed |-> indexed,
     key_min |-> rows[1].key, key_max |-> Last(rows).key,
     bloom |-> {rows[i].key : i \in 1..Len(rows)},
     entries |-> ExtractEntries(rows, groups)]

Init ==
    /\ \E S \in RowSets : \E groups \in Layouts(Cardinality(S)), indexed \in BOOLEAN :
          file = WriteSortedRows(SetToSortSeq(S, IkeyLess), groups, indexed)
    /\ dv \in SUBSET Positions(file.rows)
    /\ call = NoCall /\ answer = <<>>
    /\ pages = <<>> /\ next_page_idx = 1 /\ buffer = <<>> /\ fallback_done = TRUE

----------------------------------------------------------------------------
(* Reading                                                                  *)

RowAt(pos) == file.rows[pos + 1]

\* The positions from first up to, not including, last, as a sequence.
PositionsFrom(first, last) == [i \in 1..(last - first) |-> first + i - 1]

AllPositions == PositionsFrom(0, Len(file.rows))

\* read_rows_in_page: from the first row of the page to that
\* of the next, or to the end of the row group.
PagePositions(first, next) ==
    LET g == CHOOSE i \in 1..Len(file.groups) :
                 /\ GroupStart(file.groups, i) <= first
                 /\ first < GroupStart(file.groups, i + 1)
        rg_end == GroupStart(file.groups, g + 1)
    IN PositionsFrom(first, IF next <= rg_end THEN next ELSE rg_end)

\* read_ikeys_in_page, read_all_ikeys: the same rows, their key column only.
IkeysInPage(first, next) == PagePositions(first, next)
AllIkeys == AllPositions

\* First row of the page after entry i; past every group when there is none.
NextFirstRow(i) ==
    IF i < Len(file.entries) THEN file.entries[i + 1].first ELSE Len(file.rows) + 1

FirstOf(s) == IF s = <<>> THEN <<>> ELSE <<Head(s)>>

\* find_visible: the first row of the key that is not deleted and not too new.
FindVisible(positions, key, read_seq) ==
    FirstOf(SelectSeq(positions, LAMBDA p :
        p \notin dv /\ RowAt(p).key = key /\ RowAt(p).seq <= read_seq))

\* The page found for a key: the last one that starts at or before the key.
FoundPage(key) == Cardinality({i \in 1..Len(file.entries) : file.entries[i].key <= key})

\* The bloom filter lets every key of the file through, and some others.
Gated(key, passes) ==
    \/ key \notin file.bloom /\ ~passes
    \/ key < file.key_min
    \/ key > file.key_max

\* get after its gates.
GetRows(key, read_seq) ==
    LET i == FoundPage(key)
        first == file.entries[i].first
        may_have_earlier == first > 0 /\ RowAt(first).key = key
        hit == FindVisible(PagePositions(first, NextFirstRow(i)), key, read_seq)
    IN IF file.indexed /\ i > 0 /\ hit # <<>> /\ ~may_have_earlier THEN hit
       ELSE FindVisible(AllPositions, key, read_seq)

Get(key, read_seq, passes) ==
    /\ call = NoCall
    /\ call' = [op |-> "get", key |-> key, read_seq |-> read_seq]
    /\ answer' = IF Gated(key, passes) THEN <<>> ELSE GetRows(key, read_seq)
    /\ UNCHANGED <<file, dv, iter>>

\* scan: per key of [lo, hi) its first row that is neither deleted nor too new.
ScanRows(lo, hi, read_seq) ==
    LET in == SelectSeq(AllPositions, LAMBDA p :
                  p \notin dv /\ RowAt(p).seq <= read_seq /\ lo <= RowAt(p).key /\ RowAt(p).key < hi)
    IN SelectSeq(in, LAMBDA p : \A q \in ToSet(in) : q < p => RowAt(q).key # RowAt(p).key)

Scan(lo, hi, read_seq) ==
    /\ call = NoCall
    /\ call' = [op |-> "scan", lo |-> lo, hi |-> hi, read_seq |-> read_seq]
    /\ answer' = ScanRows(lo, hi, read_seq)
    /\ UNCHANGED <<file, dv, iter>>

\* read_physical_rows_with_positions: every row that is not deleted.
PhysicalRows ==
    /\ call = NoCall
    /\ call' = [op |-> "physical"]
    /\ answer' = SelectSeq(AllPositions, LAMBDA p : p \notin dv)
    /\ UNCHANGED <<file, dv, iter>>

----------------------------------------------------------------------------
(* iter_user_keys_in_range: keys of [lo, hi], both ends in, deleted or not   *)

\* The pages whose keys may lie in the range.
PagesIn(lo, hi) ==
    {i \in 1..Len(file.entries) :
        /\ file.entries[i].key <= hi
        /\ i < Len(file.entries) => file.entries[i + 1].key > lo}

RangeKeys(lo, hi) ==
    /\ call = NoCall
    /\ call' = [op |-> "range", lo |-> lo, hi |-> hi]
    /\ LET disjoint == hi < file.key_min \/ lo > file.key_max \/ lo > hi
       IN /\ pages' = IF disjoint \/ ~file.indexed THEN <<>> ELSE SetToSortSeq(PagesIn(lo, hi), <)
          /\ fallback_done' = (disjoint \/ file.indexed)
    /\ UNCHANGED <<file, dv, answer, next_page_idx, buffer>>

InWindow(positions) ==
    SelectSeq(positions, LAMBDA p : call.lo <= RowAt(p).key /\ RowAt(p).key <= call.hi)

Iterating == call.op = "range"

IterPop ==
    /\ Iterating /\ buffer # <<>>
    /\ answer' = Append(answer, Head(buffer))
    /\ buffer' = Tail(buffer)
    /\ UNCHANGED <<file, dv, call, pages, next_page_idx, fallback_done>>

IterPage ==
    /\ Iterating /\ buffer = <<>> /\ next_page_idx <= Len(pages)
    /\ next_page_idx' = next_page_idx + 1
    /\ LET i == pages[next_page_idx]
       IN buffer' = InWindow(IkeysInPage(file.entries[i].first, NextFirstRow(i)))
    /\ UNCHANGED <<file, dv, call, answer, pages, fallback_done>>

IterFallback ==
    /\ Iterating /\ buffer = <<>> /\ next_page_idx > Len(pages) /\ ~fallback_done
    /\ fallback_done' = TRUE
    /\ buffer' = InWindow(AllIkeys)
    /\ UNCHANGED <<file, dv, call, answer, pages, next_page_idx>>

Exhausted == Iterating /\ buffer = <<>> /\ next_page_idx > Len(pages) /\ fallback_done

----------------------------------------------------------------------------
\* Bounds of the ranges asked for: every key, one below and one above.
Bounds == (Min(FileKeys) - 1)..(Max(FileKeys) + 1)

Next ==
    \/ \E key \in Bounds, read_seq \in FileSeqs, passes \in BOOLEAN : Get(key, read_seq, passes)
    \/ \E lo, hi \in Bounds, read_seq \in FileSeqs : Scan(lo, hi, read_seq)
    \/ PhysicalRows
    \/ \E lo, hi \in Bounds : RangeKeys(lo, hi)
    \/ IterPop
    \/ IterPage
    \/ IterFallback

Spec == Init /\ [][Next]_vars

----------------------------------------------------------------------------
\* The rows a read at read_seq may see.
Live(read_seq) == {p \in Positions(file.rows) : p \notin dv /\ RowAt(p).seq <= read_seq}

NewestOf(S, key) == {p \in S : RowAt(p).key = key /\ \A q \in S : RowAt(q).key = key => RowAt(q).seq <= RowAt(p).seq}

\* get returns the newest row of the key that is not deleted and not above the
\* read sequence number, wherever pages and row groups end, whether the key's
\* versions share a page or not, and with or without an index.
GetExact ==
    call.op = "get" => ToSet(answer) = NewestOf(Live(call.read_seq), call.key)

\* scan returns, in key order, that row for every key of [lo, hi) that has one.
ScanExact ==
    call.op = "scan" =>
        /\ ToSet(answer) = UNION {NewestOf(Live(call.read_seq), k) : k \in call.lo..(call.hi - 1)}
        /\ \A i \in 1..(Len(answer) - 1) : RowAt(answer[i]).key < RowAt(answer[i + 1]).key

\* "A user_key with N versions in the file yields N tuples": the iterator that
\* flush resolves deletion vectors with yields every row of the range once, in
\* file order.
RangeExact ==
    Exhausted =>
        answer = SelectSeq(AllPositions, LAMBDA p : call.lo <= RowAt(p).key /\ RowAt(p).key <= call.hi)

============================================================================
