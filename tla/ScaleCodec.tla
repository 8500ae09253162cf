------------------------------ MODULE ScaleCodec ------------------------------
(***************************************************************************)
(* The lossless codec of the ScaleX shards (scale_codec): the E8M0 scales   *)
(* of one expert, a sequence of bytes, become a record with a palette of    *)
(* the most frequent values, a code of one or two bits per scale, packed    *)
(* little end first, and the scales the palette does not have, as           *)
(* exceptions with their positions.  The sizes of the format are constants, *)
(* so that a small format has every case of the real one.                   *)
(*                                                                          *)
(* A record is the header with its fields, not its bytes; positions count   *)
(* from zero as in the code, sequences from one.                            *)
(***************************************************************************)
EXTENDS Integers, Sequences, FiniteSetsExt

CONSTANTS
    ByteBits,        \* 8
    HeaderBytes,     \* 24: MODE_A_HEADER.size
    ExceptionBytes,  \* 5: a position of four bytes and a value
    TileScales,      \* 512: MODE_B_TILE_SCALES
    MaxDirectory     \* 65535: the largest entry of the tile directory

ASSUME CodecAssumption ==
    /\ {ByteBits, HeaderBytes, ExceptionBytes, TileScales} \subseteq Nat \ {0}
    /\ ByteBits % 2 = 0
    /\ MaxDirectory \in Nat

Byte == 0..(2^ByteBits - 1)
Codecs == {"raw", "one_bit", "two_bit"}
Bits(codec) == IF codec = "one_bit" THEN 1 ELSE 2

CeilDiv(a, b) == (a + b - 1) \div b

\* The positions of the values of s that are not among the given ones, in order.
Positions(s, values) ==
    LET upTo[i \in 0..Len(s)] ==
            IF i = 0 THEN <<>>
            ELSE IF s[i] \in values THEN upTo[i - 1] ELSE Append(upTo[i - 1], i - 1)
    IN  upTo[Len(s)]

-----------------------------------------------------------------------------
(* encode_mode_a                                                             *)

\* The four most frequent values, of two equally frequent ones the smaller first.
Palette(s) ==
    LET count == [v \in Byte |-> Cardinality({i \in DOMAIN s : s[i] = v})]
        before(v, w) == count[v] > count[w] \/ (count[v] = count[w] /\ v < w)
    IN  [k \in 1..4 |->
            CHOOSE v \in Byte : Cardinality({w \in Byte : before(w, v)}) = k - 1]

\* The first code of a byte is in its lowest bits; the last byte is padded with zero codes.
Pack(codes, bits) ==
    LET perByte == ByteBits \div bits
        code(i) == IF i <= Len(codes) THEN codes[i] ELSE 0
        LastOf(j) ==
            LET last[k \in 0..perByte] ==
                    IF k = 0 THEN 0 ELSE 2^bits * last[k - 1] + code(j * perByte - k + 1)
            IN  last
    IN  [j \in 1..CeilDiv(Len(codes), perByte) |-> LastOf(j)[perByte]]

Record(codec, palette, raw, primary, positions, values) ==
    [codec |-> codec, palette |-> palette, raw |-> raw, primary |-> primary,
     positions |-> positions, values |-> values]

Candidate(s, palette, bits) ==
    LET known == {palette[k] : k \in 1..2^bits}
        codes == [i \in 1..Len(s) |->
                    IF s[i] \in known THEN (CHOOSE k \in 1..2^bits : palette[k] = s[i]) - 1 ELSE 0]
        positions == Positions(s, known)
    IN  Record(IF bits = 1 THEN "one_bit" ELSE "two_bit", palette, Len(s), Pack(codes, bits),
               positions, [i \in 1..Len(positions) |-> s[positions[i] + 1]])

Payload(record) == Len(record.primary) + ExceptionBytes * Len(record.positions)

\* The smallest of three candidates, the first of equally small ones.
Encode(s) ==
    LET palette == Palette(s)
        one == Candidate(s, palette, 1)
        two == Candidate(s, palette, 2)
        raw == Record("raw", palette, Len(s), s, <<>>, <<>>)
        smaller == IF Payload(two) < Payload(one) THEN two ELSE one
    IN  IF Payload(raw) < Payload(smaller) THEN raw ELSE smaller

EncodedBytes(record) == HeaderBytes + Payload(record)

-----------------------------------------------------------------------------
(* decode_mode_a, and what it checks                                         *)

Unpack(primary, bits, n) ==
    LET perByte == ByteBits \div bits
        ShiftsOf(byte) ==
            LET shifted[k \in 0..perByte] == IF k = 0 THEN byte ELSE shifted[k - 1] \div 2^bits
            IN  shifted
    IN  [i \in 1..n |-> ShiftsOf(primary[(i - 1) \div perByte + 1])[(i - 1) % perByte] % 2^bits]

Increasing(record) ==
    /\ \A i \in 2..Len(record.positions) : record.positions[i - 1] < record.positions[i]
    /\ record.positions # <<>> => record.positions[Len(record.positions)] < record.raw

\* A record that is not accepted raises ScaleCodecError.
Decodable(record) ==
    IF record.codec = "raw" THEN Len(record.primary) = record.raw /\ record.positions = <<>>
    ELSE /\ Len(record.primary) = CeilDiv(record.raw * Bits(record.codec), ByteBits)
         /\ Increasing(record)

Decode(record) ==
    IF record.codec = "raw" THEN record.primary
    ELSE LET codes == Unpack(record.primary, Bits(record.codec), record.raw)
             exception(p) == {i \in 1..Len(record.positions) : record.positions[i] = p}
         IN  [i \in 1..record.raw |->
                IF exception(i - 1) = {} THEN record.palette[codes[i] + 1]
                ELSE record.values[CHOOSE k \in exception(i - 1) : TRUE]]

-----------------------------------------------------------------------------
(* The row of a resident expert: the record, a byte when its length is odd,  *)
(* and the directory of the exceptions of each tile                          *)

Tiles(raw) == CeilDiv(raw, TileScales)

\* Mutated: an exception on a boundary is counted to the tile before it.
TilePrefixRight(record) ==
    [t \in 0..Tiles(record.raw) |->
        LET boundary == IF t * TileScales < record.raw THEN t * TileScales ELSE record.raw
        IN  Cardinality({i \in 1..Len(record.positions) : record.positions[i] <= boundary})]

\* mode_b_tile_prefix: searchsorted on the left of each boundary.
TilePrefix(record) ==
    [t \in 0..Tiles(record.raw) |->
        LET boundary == IF t * TileScales < record.raw THEN t * TileScales ELSE record.raw
        IN  Cardinality({i \in 1..Len(record.positions) : record.positions[i] < boundary})]

\* The converter refuses an expert with more exceptions than a directory counts.
Indexable(record) == Increasing(record) /\ Len(record.positions) <= MaxDirectory

\* encode_mode_b_row
PaddedBytes(record) == EncodedBytes(record) + (EncodedBytes(record) % 2)

\* mode_b_indexed_nbytes
RowBytes(encodedBytes, raw) == encodedBytes + (encodedBytes % 2) + 2 * (Tiles(raw) + 1)

=============================================================================
