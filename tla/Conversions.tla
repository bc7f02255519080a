----------------------------- MODULE Conversions -----------------------------
(***************************************************************************)
(* The conversions of sensirion_common.c between integers or floats and    *)
(* bytes, most significant byte first, and copy_bytes.                     *)
(*                                                                         *)
(* A float is its 32 bits, taken as an int32_t: the unions of the code     *)
(* copy bits.  A pointer into a buffer is the number of elements before    *)
(* it.  Shifts to the right and casts are \div and %, which on a negative  *)
(* number are the arithmetic shift and the cut to eight bits.              *)
(***************************************************************************)
EXTENDS Integers, Sequences, SequencesExt

Low(v) == v % 256

\* sensirion_common_uint16_t_to_bytes and int16_t_to_bytes
Uint16ToBytes(value) == <<Low(value \div 256), Low(value)>>

\* sensirion_common_uint32_t_to_bytes, int32_t_to_bytes and float_to_bytes
Uint32ToBytes(value) ==
    <<Low(value \div 16777216), Low(value \div 65536), Low(value \div 256), Low(value)>>

BytesToUint16(bytes) == bytes[1] * 256 + bytes[2]
BytesToUint32(bytes) ==
    bytes[1] * 16777216 + bytes[2] * 65536 + bytes[3] * 256 + bytes[4]

BytesToInt16NoCast(bytes) == BytesToUint16(bytes)

\* the cast of the unsigned value
BytesToInt16(bytes) ==
    BytesToUint16(bytes) - IF bytes[1] >= 128 THEN 65536 ELSE 0

\* the same of 32 bits, and bytes_to_float; the first byte takes its sign before
\* it is shifted because TLC has no number above 2^31 - 1
BytesToInt32(bytes) ==
    (bytes[1] - IF bytes[1] >= 128 THEN 256 ELSE 0) * 16777216
        + bytes[2] * 65536 + bytes[3] * 256 + bytes[4]

\* sensirion_common_copy_bytes from source to destination in one memory
CopyBytes(memory, source, destination, data_length) ==
    FoldLeft(LAMBDA mem, i : [mem EXCEPT ![destination + i] = mem[source + i]],
             memory, [i \in 1..data_length |-> i])

=============================================================================
