------------------------------ MODULE I2cCodec ------------------------------
(***************************************************************************)
(* Words and checksums of the I2C protocol, sensirion_i2c.c: data crosses  *)
(* the bus in words of two bytes, each followed by its CRC.  Bytes are     *)
(* 0..255; inside the CRC a byte is the set of its bits that are one, so   *)
(* that exclusive or is symmetric difference.                              *)
(***************************************************************************)
EXTENDS Integers, Sequences, SequencesExt, FiniteSetsExt

Byte == 0..255

SENSIRION_WORD_SIZE        == 2
CRC8_LEN                   == 1
SENSIRION_MAX_BUFFER_WORDS == 32

\* results; the HAL has negative ones and its own
NO_ERROR       == 0
CRC_ERROR      == 1
BYTE_NUM_ERROR == 4
HAL_ERROR      == -1

Bits(b)      == {k \in 0..7 : (b \div 2^k) % 2 = 1}
Number(bits) == MapThenSumSet(LAMBDA k : 2^k, bits)
Xor(a, b)    == (a \ b) \cup (b \ a)

CRC8_POLYNOMIAL == {0, 4, 5}        \* 0x31
CRC8_INIT       == 0..7             \* 0xFF

\* a round of the inner loop; the shift drops bit 7
CrcShift(crc) ==
    LET shifted == {k + 1 : k \in crc \ {7}} IN
    IF 7 \in crc THEN Xor(shifted, CRC8_POLYNOMIAL) ELSE shifted

\* all eight of them, as a function of the register after its exclusive or
CrcRounds ==
    [crc \in SUBSET (0..7) |-> FoldLeft(LAMBDA c, k : CrcShift(c), crc, [k \in 1..8 |-> k])]

BitsOf == [b \in Byte |-> Bits(b)]

CrcByte(crc, b) == CrcRounds[Xor(crc, BitsOf[b])]

\* sensirion_i2c_generate_crc
Crc(d) == Number(FoldLeft(CrcByte, CRC8_INIT, d))

PackedCrcOfOne(d) ==
    FlattenSeq([k \in 1..(Len(d) \div 2) |-> <<d[2 * k - 1], d[2 * k], Crc(<<d[2 * k - 1]>>)>>])

\* an even number of bytes as words with their CRCs: the loops of
\* fill_cmd_send_buf and add_bytes_to_buffer, and add_uint16_t's one word
Packed(d) ==
    FlattenSeq([k \in 1..(Len(d) \div 2) |->
                   <<d[2 * k - 1], d[2 * k], Crc(<<d[2 * k - 1], d[2 * k]>>)>>])

\* the masks and shifts of the add_* functions; \div and % give the two's
\* complement bytes of a negative argument, as the casts do
BigEndian16(v) == <<(v \div 256) % 256, v % 256>>
BigEndian32(v) == BigEndian16((v \div 65536) % 65536) \o BigEndian16(v % 65536)

Prefix(s, n) == SubSeq(s, 1, IF n < Len(s) THEN n ELSE Len(s))

\* the bytes of buf from offset on replaced by d, which fits
Overwrite(buf, offset, d) ==
    [k \in 1..Len(buf) |->
        IF k > offset /\ k <= offset + Len(d) THEN d[k - offset] ELSE buf[k]]

=============================================================================
