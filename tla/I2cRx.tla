-------------------------------- MODULE I2cRx --------------------------------
(***************************************************************************)
(* Reading words over I2C: read_words_as_bytes, read_words, the delayed    *)
(* read that sends a command first, and read_data_inplace, of              *)
(* sensirion_i2c.c.  One action per word whose CRC is checked.             *)
(*                                                                         *)
(* The first three receive into a local buffer and copy to the caller's;   *)
(* the last one receives into the caller's buffer and writes the data over *)
(* its beginning.  Neither is cleared before the HAL fills it.  buf[k] in  *)
(* C is At(k), the element k + 1 of buf.                                   *)
(*                                                                         *)
(* The sensor, not part of the repository, refuses to be read while it     *)
(* works on a command and otherwise sends its last answer.                 *)
(***************************************************************************)
EXTENDS I2cCodec

CONSTANTS
    Deliveries,     \* [length, sent, damage, bytes]: the data bytes asked for,
                    \* the data the sensor sends, and what arrives of it
    Calls,          \* of "bytes", "words", "command", "inplace"
    Contents        \* what the receive buffer may hold before

LocalBufferSize == SENSIRION_WORD_SIZE * SENSIRION_MAX_BUFFER_WORDS

\* the bytes of the words asked for with their CRCs, and what is left of their
\* number in the uint16_t size
RawLength(length) == (length \div SENSIRION_WORD_SIZE) * (SENSIRION_WORD_SIZE + CRC8_LEN)
RawSize(length) == RawLength(length) % 65536

ASSUME ReadAssumption ==
    /\ \A v \in Deliveries :
           /\ v.length \in Nat /\ v.length < 65536
           /\ v.sent \in Seq(Byte) /\ v.bytes \in Seq(Byte)
           /\ Len(v.bytes) = RawLength(v.length)
    /\ Calls \subseteq {"bytes", "words", "command", "inplace"}
    /\ Contents \subseteq Seq(Byte)

VARIABLES
    call, line,         \* the call, and what the bus delivers to it
    sensor,             \* "earlier": holds an answer to an earlier command;
                        \* "busy"; "ready": holds the answer to this one
    pc,                 \* "command", "sleep", "read", "check", "swap", "done"
    buf,                \* receive buffer: word_buf, or the caller's
    data,               \* bytes copied to the caller's buffer, if it is another
    words,              \* what read_words makes of them
    i, j,               \* indices of the loop, uint16_t: TypeOK shows that
                        \* they never wrap
    ret

readVars == <<call, line, sensor, pc, buf, data, words, i, j, ret>>
given == <<call, line>>

\* a local buffer has its own size, the caller's is big enough for the data with
\* their CRCs, as the header asks
ReadInit ==
    /\ call \in Calls /\ line \in Deliveries /\ buf \in Contents
    /\ Len(buf) >= RawLength(line.length)
    /\ call # "inplace" => line.length % 2 = 0 /\ Len(buf) <= LocalBufferSize
    /\ sensor = "earlier"
    /\ pc = IF call = "command" THEN "command" ELSE "read"
    /\ data = <<>> /\ words = <<>> /\ i = 0 /\ j = 0 /\ ret = NO_ERROR

At(k) == buf[k + 1]

size == RawSize(line.length)
rawLength == RawLength(line.length)

Return(code) ==
    /\ pc' = "done" /\ ret' = code
    /\ UNCHANGED <<given, sensor, buf, data, words, i, j>>

-----------------------------------------------------------------------------
(* Asking: the steps of delayed_read_cmd in front of the read.             *)

WriteCommandUnchecked ==
    /\ pc = "command"
    /\ sensor' \in {"earlier", "busy"} /\ pc' = "sleep" /\ UNCHANGED ret
    /\ UNCHANGED <<given, buf, data, words, i, j>>

\* the write fails before or after the sensor has taken the command
WriteCommand ==
    /\ pc = "command"
    /\ \/ sensor' = "busy" /\ pc' = "sleep" /\ UNCHANGED ret
       \/ sensor' \in {"earlier", "busy"} /\ pc' = "done" /\ ret' = HAL_ERROR
    /\ UNCHANGED <<given, buf, data, words, i, j>>

\* the delay, which may be none and may be too short
Sleep ==
    /\ pc = "sleep" /\ pc' = "read"
    /\ UNCHANGED <<given, sensor, buf, data, words, i, j, ret>>

SensorFinishes ==
    /\ sensor = "busy" /\ sensor' = "ready"
    /\ UNCHANGED <<given, pc, buf, data, words, i, j, ret>>

-----------------------------------------------------------------------------
(* Reading.                                                                *)

\* read_data_inplace takes whole words only
OddLength ==
    /\ pc = "read" /\ line.length % SENSIRION_WORD_SIZE # 0
    /\ Return(BYTE_NUM_ERROR)

\* sensirion_i2c_hal_read with a uint8_t count; it fails if the sensor does
\* not acknowledge, and may fail otherwise
HalRead ==
    /\ pc = "read" /\ line.length % SENSIRION_WORD_SIZE = 0
    /\ \/ Return(HAL_ERROR)
       \/ /\ sensor # "busy"
          /\ buf' = Overwrite(buf, 0, Prefix(line.bytes, size % 256))
          /\ pc' = "check"
          /\ UNCHANGED <<given, sensor, data, words, i, j, ret>>

WordIsGoodAlways == TRUE

\* sensirion_i2c_check_crc
WordIsGood == Crc(<<At(i), At(i + 1)>>) = At(i + 2)

StoreBehind(b0, b1) ==
    IF call = "inplace"
    THEN buf' = Overwrite(buf, j + 2, <<b0, b1>>) /\ UNCHANGED data
    ELSE data' = data \o <<b0, b1>> /\ UNCHANGED buf

\* the two assignments at the end of the loop
Store(b0, b1) ==
    IF call = "inplace"
    THEN buf' = Overwrite(buf, j, <<b0, b1>>) /\ UNCHANGED data
    ELSE data' = data \o <<b0, b1>> /\ UNCHANGED buf

CheckWordFirst ==
    /\ pc = "check" /\ i < size
    /\ Store(At(i), At(i + 1)) /\ i' = i + 3 /\ j' = j + 2
    /\ IF WordIsGood THEN UNCHANGED <<pc, ret>> ELSE pc' = "done" /\ ret' = CRC_ERROR
    /\ UNCHANGED <<given, sensor, words>>

CheckWord ==
    /\ pc = "check" /\ i < size
    /\ IF WordIsGood
       THEN /\ Store(At(i), At(i + 1)) /\ i' = i + 3 /\ j' = j + 2
            /\ UNCHANGED <<given, sensor, pc, words, ret>>
       ELSE Return(CRC_ERROR)

CheckDone ==
    /\ pc = "check" /\ i >= size
    /\ IF call \in {"words", "command"}
       THEN pc' = "swap" /\ UNCHANGED <<given, sensor, buf, data, words, i, j, ret>>
       ELSE Return(NO_ERROR)

SwapWordsLittle ==
    /\ pc = "swap" /\ pc' = "done"
    /\ words' = [k \in 1..(j \div 2) |-> data[2 * k - 1] + data[2 * k] * 256]
    /\ UNCHANGED <<given, sensor, buf, data, i, j, ret>>

\* read_words: bytes to numbers, in place on either byte order
SwapWords ==
    /\ pc = "swap" /\ pc' = "done"
    /\ words' = [k \in 1..(j \div 2) |-> data[2 * k - 1] * 256 + data[2 * k]]
    /\ UNCHANGED <<given, sensor, buf, data, i, j, ret>>

ReadNext ==
    \/ WriteCommand \/ Sleep \/ SensorFinishes
    \/ OddLength \/ HalRead \/ CheckWord \/ CheckDone \/ SwapWords

ReadSpec == ReadInit /\ [][ReadNext]_readVars

-----------------------------------------------------------------------------
(* Properties.                                                             *)

\* Buffers hold bytes; the indices are those of a uint16_t and a word that is
\* checked lies in the buffer, even where the number of bytes does not fit size
\* and the loop ends one byte beyond it.
TypeOK ==
    /\ call \in Calls /\ line.bytes \in Seq(Byte)
    /\ sensor \in {"earlier", "busy", "ready"}
    /\ pc \in {"command", "sleep", "read", "check", "swap", "done"}
    /\ buf \in Seq(Byte) /\ data \in Seq(Byte)
    /\ i \in Nat /\ i < 65536 /\ j \in 0..line.length /\ ret \in Int
    /\ i <= size + 1 /\ (i < size => i + 3 <= Len(buf))

\* Word k, from 0, of what arrives.
Arrived(v, k)   == <<v.bytes[3 * k + 1], v.bytes[3 * k + 2]>>
PassesCrc(v, k) == Crc(Arrived(v, k)) = v.bytes[3 * k + 3]

\* The CRC notices the damage of v, and finds no fault where there is none. The
\* runs check it of their deliveries, and the proof takes it as its hypothesis.
Noticed(v) ==
    /\ v.sent \in Seq(Byte) /\ (v.length % 2 = 0 => Len(v.sent) = v.length)
    /\ \A k \in 0..(v.length \div 2 - 1) :
           /\ v.length % 2 = 0 /\ PassesCrc(v, k)
                  => v.bytes[3 * k + 1] = v.sent[2 * k + 1] /\ v.bytes[3 * k + 2] = v.sent[2 * k + 2]
           /\ v.damage = "none" => PassesCrc(v, k)

\* The bytes the caller finds in its buffer.
Returned == IF call = "inplace" THEN SubSeq(buf, 1, j) ELSE data

\* NO_ERROR means that the caller has the data the sensor sent, all of it:
\* errors of up to three bits in a word or a burst of up to eight, a sensor
\* that stops sending and a bus that is stuck are all noticed, whatever was in
\* the receive buffer.
SuccessIsSent ==
    pc = "done" /\ ret = NO_ERROR => Len(Returned) = line.length /\ Returned = line.sent

\* The same in the caller's words.
WordsAreSent ==
    pc = "done" /\ ret = NO_ERROR /\ call \in {"words", "command"}
        => /\ 2 * Len(words) = line.length
           /\ \A k \in 1..Len(words) : BigEndian16(words[k]) = SubSeq(line.sent, 2 * k - 1, 2 * k)

\* After CRC_ERROR the caller's buffer holds the words in front of the bad one
\* and nothing of it, and the line was indeed damaged.
CrcErrorKeepsGoodWords ==
    pc = "done" /\ ret = CRC_ERROR
        => line.damage # "none" /\ Returned = Prefix(line.sent, j)

\* One read of the HAL, with its uint8_t count, takes all of the response.
InOneRead == rawLength < 256

\* Writing in place stays behind reading: what is still to be read is in the
\* buffer as it came.
UnreadIsIntact ==
    pc = "check" /\ InOneRead
        => \A k \in i..(size - 1) : At(k) = line.bytes[k + 1]

\* A delayed read never returns the answer to an earlier command: not when the
\* command was lost, nor when the delay was too short.
AnswerIsFresh ==
    call = "command" /\ pc = "done" /\ ret = NO_ERROR => sensor = "ready"

=============================================================================
