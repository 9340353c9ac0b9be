------------------------------ MODULE KeyCodec ------------------------------
(***************************************************************************)
(* The wire form of internal keys (types/key.rs): primary-key columns      *)
(* encoded so that byte order is value order, then a tag with the inverted *)
(* sequence number and the operation.                                      *)
(*                                                                         *)
(* Scaled widths: a byte has the values 0..TopByte, TopByte standing for   *)
(* 0xFF; an integer or float is two bytes, Word = (TopByte + 1)^2 bit      *)
(* patterns; the tag is one byte of sequence number and one of operation.  *)
(* A float is its bit pattern: the upper half of Word is negative, the     *)
(* largest magnitude is NaN.                                               *)
(***************************************************************************)
EXTENDS Integers, Sequences, SequencesExt, FiniteSets

CONSTANTS
    TopByte,      \* largest byte, odd
    ColumnTypes,  \* column types a primary key may have
    MaxColumns,   \* bound: columns of a primary key
    MaxBytesLen   \* bound: length of a byte-array value

CodecAssumption ==
    /\ TopByte \in Nat /\ TopByte % 2 = 1 /\ MaxBytesLen \in Nat /\ MaxColumns \in Nat \ {0}
    /\ ColumnTypes \subseteq {"bool", "int", "float", "bytes", "fixed"}

VARIABLES
    schema,   \* column types of the primary key
    a, b,     \* two keys, as [pk, seq, op]
    decoded   \* what decode made of a's wire bytes

vars == <<schema, a, b, decoded>>

Byte == 0..TopByte
Word == (TopByte + 1) * (TopByte + 1)
SignBit == Word \div 2
SEQNUM_MAX == TopByte
FixedLen == 1

\* -0.0 and 0.0 are two patterns; the largest magnitude is NaN.
IsNaN(bits) == bits % SignBit = SignBit - 1

Bytes(n) == UNION {[1..m -> {0, 1, TopByte}] : m \in 0..n}

\* Values encode_field accepts for a column: NaN and other lengths are errors.
Values(type) ==
    CASE type = "bool" -> {0, 1}
      [] type = "int" -> {-SignBit, -1, 0, TopByte, SignBit - 1}
      [] type = "float" -> {x \in {0, 1, SignBit - 2, SignBit, SignBit + 1, Word - 2} : ~IsNaN(x)}
      [] type = "bytes" -> Bytes(MaxBytesLen)
      [] type = "fixed" -> [1..FixedLen -> Byte]

\* Keys of the table; a sequence number is given out once.  The largest one is the
\* seek sentinel's.
KeysOf(s) ==
    LET pks[n \in 0..Len(s)] ==
            IF n = 0 THEN {<<>>} ELSE {Append(p, v) : p \in pks[n - 1], v \in Values(s[n])}
    IN {[pk |-> pk, seq |-> t[1], op |-> t[2]] :
          pk \in pks[Len(s)], t \in {<<0, 1>>, <<SEQNUM_MAX - 1, 0>>}}

----------------------------------------------------------------------------
(* Encoding                                                                 *)

BigEndian(w) == <<w \div (TopByte + 1), w % (TopByte + 1)>>

FlipSign(w) == (w + SignBit) % Word

OrderPreserving(bits) == IF bits >= SignBit THEN Word - 1 - bits ELSE FlipSign(bits)

EscapeSingle(s) ==  \* mutant: one terminator byte
    FlattenSeq([i \in 1..Len(s) |-> IF s[i] = 0 THEN <<0, TopByte>> ELSE <<s[i]>>]) \o <<0>>
EscapeByteArray(s) ==
    FlattenSeq([i \in 1..Len(s) |-> IF s[i] = 0 THEN <<0, TopByte>> ELSE <<s[i]>>]) \o <<0, 0>>

EncodeField(v, type) ==
    CASE type = "bool" -> <<v>>
      [] type = "int" -> BigEndian(FlipSign(v % Word))
      [] type = "float" -> BigEndian(OrderPreserving(v))
      [] type = "bytes" -> EscapeByteArray(v)
      [] type = "fixed" -> v

UserKey(pk) == FlattenSeq([i \in 1..Len(schema) |-> EncodeField(pk[i], schema[i])])

EncodeTag(seq, op) == <<SEQNUM_MAX - seq, op>>

Encode(k) == UserKey(k.pk) \o EncodeTag(k.seq, k.op)

SeekLatest(pk) == Encode([pk |-> pk, seq |-> SEQNUM_MAX, op |-> 1])

\* The probe a file lookup searches the sparse index with: the user key and
\* one byte more than a tag, all ones.
Probe(pk) == UserKey(pk) \o <<TopByte, TopByte, TopByte>>

----------------------------------------------------------------------------
(* Decoding                                                                 *)

Err == [ok |-> FALSE]

WordOf(raw) == raw[1] * (TopByte + 1) + raw[2]

\* unescape_byte_array: the value and the number of bytes it took.
UnescapeByteArray(raw) ==
    LET from[i \in 1..(Len(raw) + 1)] ==
          IF i > Len(raw) THEN Err
          ELSE IF raw[i] # 0 THEN
               IF from[i + 1].ok THEN [from[i + 1] EXCEPT !.value = <<raw[i]>> \o @] ELSE Err
          ELSE IF i + 1 > Len(raw) THEN Err
          ELSE IF raw[i + 1] = 0 THEN [ok |-> TRUE, value |-> <<>>, used |-> i + 1]
          ELSE IF raw[i + 1] # TopByte THEN Err
          ELSE IF from[i + 2].ok THEN [from[i + 2] EXCEPT !.value = <<0>> \o @] ELSE Err
    IN from[1]

\* The branches of decode_field for Float and Double.
DecodeFloat(bits) == IF bits < SignBit THEN FlipSign(bits) ELSE Word - 1 - bits

DecodeInt(w) ==
    LET u == FlipSign(w) IN IF u >= SignBit THEN u - Word ELSE u

DecodeField(raw, type) ==
    LET fixed(n, value) == [ok |-> TRUE, value |-> value, used |-> n]
    IN CASE type = "bool" -> IF Len(raw) < 1 THEN Err ELSE fixed(1, IF raw[1] # 0 THEN 1 ELSE 0)
         [] type = "int" -> IF Len(raw) < 2 THEN Err ELSE fixed(2, DecodeInt(WordOf(raw)))
         [] type = "float" -> IF Len(raw) < 2 THEN Err ELSE fixed(2, DecodeFloat(WordOf(raw)))
         [] type = "bytes" -> UnescapeByteArray(raw)
         [] type = "fixed" -> IF Len(raw) < FixedLen THEN Err ELSE fixed(FixedLen, SubSeq(raw, 1, FixedLen))

\* decode_pk_fields: every column, and no byte left over.
DecodePk(raw) ==
    LET rest[i \in 0..Len(schema)] ==
            IF i = 0 THEN [ok |-> TRUE, pk |-> <<>>, raw |-> raw]
            ELSE IF ~rest[i - 1].ok THEN Err
            ELSE LET f == DecodeField(rest[i - 1].raw, schema[i])
                 IN IF ~f.ok THEN Err
                    ELSE [ok |-> TRUE, pk |-> Append(rest[i - 1].pk, f.value),
                          raw |-> SubSeq(rest[i - 1].raw, f.used + 1, Len(rest[i - 1].raw))]
        end == rest[Len(schema)]
    IN IF end.ok /\ end.raw = <<>> THEN [ok |-> TRUE, pk |-> end.pk] ELSE Err

Decode(raw) ==
    LET n == Len(raw) - 2
    IN IF n < 0 \/ raw[n + 1] > SEQNUM_MAX \/ raw[n + 2] \notin {0, 1} THEN Err
       ELSE LET p == DecodePk(SubSeq(raw, 1, n))
            IN IF p.ok THEN [ok |-> TRUE, key |-> [pk |-> p.pk, seq |-> SEQNUM_MAX - raw[n + 1], op |-> raw[n + 2]]]
               ELSE Err

----------------------------------------------------------------------------
Init ==
    /\ schema \in UNION {[1..n -> ColumnTypes] : n \in 1..MaxColumns}
    /\ a \in KeysOf(schema) /\ b = a /\ decoded = Err

\* a is stored, and its wire bytes are decoded when it is read back.
ReadBack ==
    /\ decoded = Err /\ b = a
    /\ decoded' = Decode(Encode(a))
    /\ UNCHANGED <<schema, a, b>>

\* a meets another key of the table.
Meet(k) == decoded = Err /\ b = a /\ b' = k /\ UNCHANGED <<schema, a, decoded>>

Next == ReadBack \/ \E k \in KeysOf(schema) : Meet(k)

Spec == Init /\ [][Next]_vars

----------------------------------------------------------------------------
\* Lexicographic order of byte strings.
ByteLess(s, t) ==
    LET d == {i \in 1..Len(s) : i <= Len(t) /\ s[i] # t[i]}
    IN IF d = {} THEN Len(s) < Len(t)
       ELSE LET i == CHOOSE x \in d : \A y \in d : x <= y IN s[i] < t[i]

\* Order of column values; of floats the order of the numbers, -0.0 before 0.0.
ValueLess(v, w, type) ==
    CASE type \in {"bool", "int"} -> v < w
      [] type = "float" ->
            LET n(x) == IF x >= SignBit THEN SignBit - 1 - x ELSE x IN n(v) < n(w)
      [] OTHER -> ByteLess(v, w)

PkLess(p, q) ==
    \E i \in 1..Len(schema) : ValueLess(p[i], q[i], schema[i]) /\ \A j \in 1..(i - 1) : p[j] = q[j]

\* memcmp of two encoded keys gives primary key ascending, then sequence
\* number descending, whatever bytes the columns hold and whichever columns
\* stand beside each other.
MemcmpOrder ==
    ByteLess(Encode(a), Encode(b)) <=>
        \/ PkLess(a.pk, b.pk)
        \/ a.pk = b.pk /\ a.seq > b.seq

\* A seek with seek_latest(pk) stands before every version of the key and
\* behind every version of every smaller key.
SeekStandsBefore ==
    /\ PkLess(b.pk, a.pk) => ByteLess(Encode(b), SeekLatest(a.pk))
    /\ ~PkLess(b.pk, a.pk) => ByteLess(SeekLatest(a.pk), Encode(b))

\* The padded probe of a file lookup stands behind every version of its key and
\* before every version of every larger key.
ProbeStandsBehind ==
    ByteLess(Encode(b), Probe(a.pk)) <=> ~PkLess(a.pk, b.pk)

\* "Inverse of encode": what was encoded decodes to the same key.
DecodeInverse == decoded # Err => decoded = [ok |-> TRUE, key |-> a]

============================================================================
