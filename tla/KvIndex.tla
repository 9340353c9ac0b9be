------------------------------ MODULE KvIndex ------------------------------
(***************************************************************************)
(* The sparse index of a data file: prefix-compressed keys with restart    *)
(* points, validation on open, and the lookup: binary search over the      *)
(* restart points, then a scan (parquet/kv_index.rs).                      *)
(*                                                                         *)
(* A key is a sequence of small numbers (bytes).  An index is [interval,   *)
(* entries, restarts]; an entry is [shared, suffix, row] with row standing *)
(* for the page location, and restarts holds entry numbers where the code  *)
(* holds byte offsets (0: not at an entry).  The variables are those of    *)
(* one call of find_page_inner.                                            *)
(***************************************************************************)
EXTENDS Integers, Sequences, SequencesExt, FiniteSets

CONSTANTS
    KeyBytes,    \* the bytes keys are made of
    MaxKeyLen,   \* bound: length of a key
    MaxEntries,  \* bound: number of entries
    Intervals,   \* restart intervals
    Damaged      \* is the index any buffer from_bytes accepts, not one build made?

IndexAssumption ==
    /\ KeyBytes \subseteq Nat /\ Intervals \subseteq Nat \ {0}
    /\ MaxKeyLen \in Nat /\ MaxEntries \in Nat /\ Damaged \in BOOLEAN

VARIABLES
    keys,    \* the keys the index was built from, one per page
    index,   \* the validated index
    target,  \* the key looked for
    pc, lo, hi, cursor, prev_key,
    best,    \* page found so far, or 0
    next     \* first row of the page after it, or 0

vars == <<keys, index, target, pc, lo, hi, cursor, prev_key, best, next>>

IndexKeys == UNION {[1..n -> KeyBytes] : n \in 1..MaxKeyLen}

\* Byte-wise order of keys.
Less(a, b) ==
    \/ IsStrictPrefix(a, b)
    \/ \E i \in 1..Len(a) :
         /\ i <= Len(b) /\ a[i] < b[i]
         /\ \A j \in 1..(i - 1) : a[j] = b[j]

Ascending(ks) == \A i \in 1..(Len(ks) - 1) : Less(ks[i], ks[i + 1])

\* The key sequences build() accepts: strictly ascending.
Inputs == {ks \in UNION {[1..n -> IndexKeys] : n \in 0..MaxEntries} : Ascending(ks)}

\* The first row of page i.
Row(i) == 10 * i

----------------------------------------------------------------------------
(* build                                                                    *)

SharedPrefixLen(a, b) ==
    LET common == {n \in 0..Len(a) : n <= Len(b) /\ \A i \in 1..n : a[i] = b[i]}
    IN CHOOSE n \in common : \A m \in common : m <= n

IsRestart(i, interval) == (i - 1) % interval = 0

CeilDiv(n, d) == (n + d - 1) \div d

EntryOf(ks, i, interval) ==
    LET shared == IF IsRestart(i, interval) THEN 0 ELSE SharedPrefixLen(ks[i - 1], ks[i])
    IN [shared |-> shared, suffix |-> SubSeq(ks[i], shared + 1, Len(ks[i])), row |-> Row(i)]

Build(ks, interval) ==
    [interval |-> interval,
     entries |-> [i \in 1..Len(ks) |-> EntryOf(ks, i, interval)],
     restarts |-> [r \in 1..CeilDiv(Len(ks), interval) |-> (r - 1) * interval + 1]]

----------------------------------------------------------------------------
(* from_bytes                                                               *)

\* The length of the key an entry rebuilds to.
KeyLen(e) == e.shared + Len(e.suffix)

SharedInBounds(ix, i) ==
    ix.entries[i].shared <= IF i = 1 THEN 0 ELSE KeyLen(ix.entries[i - 1])

FromBytes(ix) ==
    LET n == Len(ix.entries)
    IN /\ ix.interval > 0
       /\ \A r \in 1..(Len(ix.restarts) - 1) : ix.restarts[r] < ix.restarts[r + 1]
       /\ Len(ix.restarts) = CeilDiv(n, ix.interval)
       /\ \A i \in 1..n :
            /\ IsRestart(i, ix.interval) =>
                  /\ ix.entries[i].shared = 0
                  /\ ix.restarts[(i - 1) \div ix.interval + 1] = i
            /\ SharedInBounds(ix, i)

\* decode_entry_at, for an entry whose prefix is there.
Decode(e, prev) == SubSeq(prev, 1, e.shared) \o e.suffix

\* KvSparseIndexIter: the keys in order.
Iterated(ix) ==
    LET key[i \in 0..Len(ix.entries)] ==
            IF i = 0 THEN <<>> ELSE Decode(ix.entries[i], key[i - 1])
    IN [i \in 1..Len(ix.entries) |-> key[i]]

\* Any buffer of the size considered, with its first bytes intact.
Buffers ==
    LET n == MaxEntries
        entry == {[shared |-> s, suffix |-> x, row |-> 0] : s \in 0..MaxKeyLen, x \in IndexKeys}
    IN {[interval |-> v, entries |-> e, restarts |-> r] :
          v \in Intervals, e \in [1..n -> entry], r \in BoundedSeq(0..n, n)}

----------------------------------------------------------------------------
Init ==
    /\ IF Damaged THEN keys = <<>> /\ index \in Buffers
                  ELSE keys \in Inputs /\ \E v \in Intervals : index = Build(keys, v)
    /\ target \in IndexKeys
    /\ pc = "open" /\ lo = -1 /\ hi = 0 /\ cursor = 0 /\ prev_key = <<>>
    /\ best = 0 /\ next = 0

\* from_bytes, then find_page_inner up to its first loop.
Open ==
    /\ pc = "open" /\ FromBytes(index)
    /\ pc' = IF index.entries = <<>> THEN "done" ELSE "bisect"
    /\ hi' = Len(index.restarts)
    /\ UNCHANGED <<keys, index, target, lo, cursor, prev_key, best, next>>

RestartKey(r) == index.entries[index.restarts[r + 1]].suffix

\* Phase 1: the last restart whose key is not above the target.
Bisect ==
    /\ pc = "bisect" /\ hi - lo > 1
    /\ LET mid == (lo + hi) \div 2
       IN IF Less(target, RestartKey(mid))
          THEN hi' = mid /\ UNCHANGED lo
          ELSE lo' = mid /\ UNCHANGED hi
    /\ UNCHANGED <<keys, index, target, pc, cursor, prev_key, best, next>>

StartScan ==
    /\ pc = "bisect" /\ hi - lo <= 1
    /\ cursor' = IF lo < 0 THEN 1 ELSE index.restarts[lo + 1]
    /\ pc' = "scan"
    /\ UNCHANGED <<keys, index, target, lo, hi, prev_key, best, next>>

\* mutant: the search ends with the group of the restart.
ScanGroup ==
    /\ pc = "scan"
    /\ IF cursor > Len(index.entries) \/ cursor >= (lo + 1) * index.interval + 1
       THEN pc' = "done" /\ UNCHANGED <<cursor, prev_key, best, next>>
       ELSE LET e == index.entries[cursor]
                key == Decode(e, prev_key)
            IN IF Less(target, key)
               THEN /\ next' = IF best # 0 THEN e.row ELSE 0
                    /\ pc' = "done"
                    /\ UNCHANGED <<cursor, prev_key, best>>
               ELSE /\ best' = cursor /\ prev_key' = key /\ cursor' = cursor + 1
                    /\ UNCHANGED <<pc, next>>
    /\ UNCHANGED <<keys, index, target, lo, hi>>
\* Phase 2: scan for the first key above the target.
Scan ==
    /\ pc = "scan"
    /\ IF cursor > Len(index.entries)
       THEN pc' = "done" /\ UNCHANGED <<cursor, prev_key, best, next>>
       ELSE LET e == index.entries[cursor]
                key == Decode(e, prev_key)
            IN IF Less(target, key)
               THEN /\ next' = IF best # 0 THEN e.row ELSE 0
                    /\ pc' = "done"
                    /\ UNCHANGED <<cursor, prev_key, best>>
               ELSE /\ best' = cursor /\ prev_key' = key /\ cursor' = cursor + 1
                    /\ UNCHANGED <<pc, next>>
    /\ UNCHANGED <<keys, index, target, lo, hi>>

Next == Open \/ Bisect \/ StartScan \/ Scan

Spec == Init /\ [][Next]_vars

\* The call runs to its end: it waits for nothing.
----------------------------------------------------------------------------
\* find_page_with_next returns the page of the largest key not above the
\* target and the first row of the page that follows it, for any keys,
\* prefixes and restart interval.
FindsPage ==
    pc = "done" /\ ~Damaged =>
        LET below == {i \in 1..Len(keys) : ~Less(target, keys[i])}
        IN /\ best = Cardinality(below)
           /\ below = 1..best
           /\ next = IF best # 0 /\ best < Len(keys) THEN Row(best + 1) ELSE 0

\* What build() encodes from_bytes accepts, and iter() gives back.
RoundTrip == ~Damaged => FromBytes(index) /\ Iterated(index) = keys

\* The decode after a successful from_bytes is infallible (kv_index.rs says
\* so): no prefix is longer than the key before it and no restart is off an
\* entry, however the buffer came to be what it is.
DecodeInfallible ==
    /\ pc = "scan" /\ cursor <= Len(index.entries) =>
          index.entries[cursor].shared <= Len(prev_key)
    /\ pc = "bisect" => \A r \in 0..(hi - 1) : index.restarts[r + 1] \in 1..Len(index.entries)

============================================================================
