------------------------------- MODULE Puffin -------------------------------
(***************************************************************************)
(* The file a deletion vector is kept in (iceberg/deletion_vector.rs): a   *)
(* Puffin file with one deletion-vector-v1 blob, read through the place    *)
(* the manifest has for the blob or through the file's own footer, after   *)
(* the file was damaged or not.                                            *)
(*                                                                         *)
(* Each field is one cell.  The footer is three cells: the blob type, its  *)
(* offset and its length.  The bitmap is the sorted positions.  The        *)
(* checksum is injective: that no damage passes it is assumed.             *)
(***************************************************************************)
EXTENDS Integers, Sequences, SequencesExt, FiniteSets

CONSTANTS
    RowPositions   \* positions of rows of the data file

PuffinAssumption == RowPositions \subseteq 0..5

VARIABLES
    bitmap,    \* the deleted positions that were encoded
    bytes,     \* cells of the file
    location,  \* [offset, length] of the blob, as the manifest has it
    damaged,   \* was the file or the location changed?
    result     \* what the last read returned

vars == <<bitmap, bytes, location, damaged, result>>

PUFFIN_MAGIC == 7
DV_MAGIC == 6
DV_TYPE == 3     \* "deletion-vector-v1"

\* Smallest file: two magics and the footer length.
PUFFIN_MIN_SIZE == 3

\* Values a damaged cell may take: any that some field has, and a negative one.
CellValues == -1..(DV_MAGIC + 1)

Err == [ok |-> FALSE]
Unread == [ok |-> FALSE, unread |-> TRUE]

Crc(cells) == FoldSeq(LAMBDA c, acc : acc * 10 + c + 2, 1, cells)

----------------------------------------------------------------------------
(* encode_puffin                                                            *)

\* One 32-bit bitmap with key 0, in the 64-bit form.
Roaring64(set) == <<1, 0>> \o SetToSortSeq(set, <)

\* length, magic, bitmap, checksum of magic and bitmap.
Blob(set) ==
    LET inner == <<DV_MAGIC>> \o Roaring64(set)
    IN <<Len(inner) + 1>> \o inner \o <<Crc(inner)>>

BlobOffset == 1

EncodePuffin(set) ==
    <<PUFFIN_MAGIC>> \o Blob(set)
        \o <<DV_TYPE, BlobOffset, Len(Blob(set))>> \o <<3>> \o <<PUFFIN_MAGIC>>

----------------------------------------------------------------------------
(* Reading                                                                  *)

\* n cells from offset o on.
Slice(s, o, n) == SubSeq(s, o + 1, o + n)

IgnoreCrc(blob) ==  \* mutant: the checksum is not compared
    TRUE
CrcHolds(blob) == Crc(SubSeq(blob, 2, Len(blob) - 1)) = Last(blob)

\* A bitmap is a strictly ascending sequence of positions.
Deserializes(cells) ==
    /\ ToSet(cells) \subseteq Nat
    /\ \A i \in 1..(Len(cells) - 1) : cells[i] < cells[i + 1]

DecodeDvBlob(blob) ==
    IF Len(blob) < 3 THEN Err
    ELSE IF 1 + blob[1] # Len(blob) \/ blob[2] # DV_MAGIC \/ ~CrcHolds(blob) THEN Err
    ELSE LET data == SubSeq(blob, 3, Len(blob) - 1)
         IN IF Len(data) < 1 THEN Err
            ELSE IF data[1] = 0 THEN [ok |-> TRUE, set |-> {}]
            ELSE IF data[1] # 1 \/ Len(data) < 2 THEN Err
            ELSE IF data[2] # 0 \/ ~Deserializes(SubSeq(data, 3, Len(data))) THEN Err
            ELSE [ok |-> TRUE, set |-> ToSet(SubSeq(data, 3, Len(data)))]

\* parse_puffin_footer and the same checks in from_puffin_bytes: the cells
\* between the footer length and where the length says the footer starts.
ParseFooter(data) ==
    LET n == Len(data)
        footer_len == data[n - 1]
        footer == Slice(data, n - 2 - footer_len, footer_len)
    IN IF n < PUFFIN_MIN_SIZE THEN Err
       ELSE IF data[1] # PUFFIN_MAGIC \/ data[n] # PUFFIN_MAGIC THEN Err
       ELSE IF footer_len < 0 \/ footer_len > n - PUFFIN_MIN_SIZE THEN Err
       ELSE IF footer_len # 3 THEN Err
       ELSE IF footer[1] # DV_TYPE THEN Err
       ELSE [ok |-> TRUE, offset |-> footer[2], length |-> footer[3]]

FromPuffinBytes(data) ==
    LET f == ParseFooter(data)
    IN IF ~f.ok THEN Err
       ELSE IF f.offset < 0 \/ f.length < 0 \/ f.offset + f.length > Len(data) THEN Err
       ELSE DecodeDvBlob(Slice(data, f.offset, f.length))

\* The read through the manifest: the range of the file, where there is one.
FromPuffinBlob(data, at) ==
    IF at.offset + at.length > Len(data) THEN Err
    ELSE DecodeDvBlob(Slice(data, at.offset, at.length))

----------------------------------------------------------------------------
Init ==
    /\ bitmap \in (SUBSET RowPositions) \ {{}}
    /\ bytes = EncodePuffin(bitmap)
    /\ location = [offset |-> BlobOffset, length |-> Len(Blob(bitmap))]
    /\ damaged = FALSE /\ result = Unread

\* One cell of the file has another value.
FlipCell(i, v) ==
    /\ ~damaged /\ bytes[i] # v
    /\ bytes' = [bytes EXCEPT ![i] = v]
    /\ damaged' = TRUE /\ result' = Unread
    /\ UNCHANGED <<bitmap, location>>

\* The end of the file is missing.
Truncate(n) ==
    /\ ~damaged /\ n < Len(bytes)
    /\ bytes' = SubSeq(bytes, 1, n)
    /\ damaged' = TRUE /\ result' = Unread
    /\ UNCHANGED <<bitmap, location>>

\* The manifest has another place for the blob, placeholder zeros among them.
WrongLocation(at) ==
    /\ ~damaged /\ at # location
    /\ location' = at
    /\ damaged' = TRUE /\ result' = Unread
    /\ UNCHANGED <<bitmap, bytes>>

ReadBlob ==
    /\ result = Unread
    /\ result' = FromPuffinBlob(bytes, location)
    /\ UNCHANGED <<bitmap, bytes, location, damaged>>

ReadFile ==
    /\ result = Unread
    /\ result' = FromPuffinBytes(bytes)
    /\ UNCHANGED <<bitmap, bytes, location, damaged>>

Next ==
    \/ \E i \in 1..Len(bytes), v \in CellValues : FlipCell(i, v)
    \/ \E n \in 0..Len(bytes) : Truncate(n)
    \/ \E o, n \in 0..Len(bytes) : WrongLocation([offset |-> o, length |-> n])
    \/ ReadBlob
    \/ ReadFile

Spec == Init /\ [][Next]_vars

----------------------------------------------------------------------------
\* What encode_puffin wrote both reads return exactly.
ReadsBack == ~damaged /\ result # Unread => result = [ok |-> TRUE, set |-> bitmap]

\* After damage to any cell, a cut, or a wrong place in the manifest, a read
\* returns the encoded positions or an error: deleted rows never come back and
\* live ones never vanish without an error.  (The code's comment tells of
\* placeholder offsets that made the bitmap silently empty.)
NeverAnotherSet == result.ok => result.set = bitmap

============================================================================
