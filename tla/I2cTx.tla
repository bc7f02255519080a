-------------------------------- MODULE I2cTx --------------------------------
(***************************************************************************)
(* Sending over I2C: the buffer builder of sensirion_i2c.c (the            *)
(* add_*_to_buffer functions and write_data) as a driver uses it, on one   *)
(* buffer that is used for every frame, and the one-shot write_cmd and     *)
(* write_cmd_with_args, and general_call_reset.                            *)
(*                                                                         *)
(* The sensor echoes the data of a frame, and the driver reads its values  *)
(* back with the conversions of sensirion_common.c.                        *)
(*                                                                         *)
(* Every add_* function returns the next offset, or BYTE_NUM_ERROR in the  *)
(* same result: the driver stops a frame when it sees that value.  The HAL *)
(* is told how many bytes to send in a uint8_t.                            *)
(***************************************************************************)
EXTENDS I2cCodec, Conversions

CONSTANTS Commands,                             \* of two bytes, 0..65535
          Values,                               \* integers and floats to send
          Arrays,                               \* arguments of add_bytes_to_buffer
          ArgLists,                             \* argument words of write_cmd_with_args
          BufferSize,
          Stale                                 \* first contents of the buffer

\* the values of the C types; 32 bits by their upper half, because TLC has no
\* number above 2^31 - 1
InRange(a) ==
    CASE a.kind = "uint16" -> 0 <= a.v /\ a.v < 65536
      [] a.kind = "int16"  -> -32768 <= a.v /\ a.v < 32768
      [] a.kind = "uint32" -> 0 <= a.v \div 65536 /\ a.v \div 65536 < 65536
      [] OTHER             -> -32768 <= a.v \div 65536 /\ a.v \div 65536 < 32768

ASSUME ArgsAssumption ==
    /\ \A cmd \in Commands : cmd \in Nat /\ cmd < 65536
    /\ BufferSize \in Nat
    \* a float is its bits, as in Conversions
    /\ \A a \in Values : /\ a \in [kind : {"uint16", "int16", "uint32", "int32", "float"}, v : Int]
                         /\ InRange(a)
    /\ \A a \in Arrays : a \in Seq(Byte)
    \* lists that fit the local buffer of write_cmd_with_args, see the README
    /\ \A l \in ArgLists : /\ l \in Seq(Nat) /\ \A k \in 1..Len(l) : l[k] < 65536
                           /\ 2 + 3 * Len(l) <= SENSIRION_MAX_BUFFER_WORDS
    /\ Stale \subseteq [1..BufferSize -> Byte]

VARIABLES
    buffer, offset,
    request,        \* the command, the data bytes added to the buffer and the values
                    \* they stand for, and whether an add_* call has failed since
    sent            \* the last transmission: address and bytes on the bus, result,
                    \* and what the caller asked for

vars == <<buffer, offset, request, sent>>

Sensor      == 98       \* any address but that of the general call
GeneralCall == 0

Request(cmd, data, values) == [cmd |-> cmd, data |-> data, values |-> values, failed |-> FALSE]

NoRequest == Request(-1, <<>>, <<>>)
NotSent   == [to |-> Sensor, request |-> NoRequest, wire |-> <<>>, ret |-> HAL_ERROR]

Init ==
    /\ buffer \in Stale /\ offset = 0 /\ request = NoRequest /\ sent = NotSent

-----------------------------------------------------------------------------
(* Building.  The caller makes sure that there is enough space, starts a   *)
(* frame with the command, and adds nothing after a failure.               *)

Building == offset > 0 /\ offset # BYTE_NUM_ERROR

Put(d) ==
    /\ offset + Len(d) <= BufferSize
    /\ buffer' = Overwrite(buffer, offset, d)
    /\ offset' = offset + Len(d)

AddCommandOneByte(command) ==
    /\ offset = 0
    /\ Put(<<command % 256>>)
    /\ request' = Request(command, <<>>, <<>>)
    /\ sent' = NotSent

\* sensirion_i2c_add_command_to_buffer
AddCommand(command) ==
    /\ offset = 0
    /\ Put(BigEndian16(command))
    /\ request' = Request(command, <<>>, <<>>)
    /\ sent' = NotSent

AddWords(d, values) ==
    /\ Building /\ Put(Packed(d))
    /\ request' = [request EXCEPT !.data = @ \o d, !.values = @ \o values]
    /\ sent' = NotSent

Short(a) == a.kind \in {"uint16", "int16"}

\* sensirion_i2c_add_uint16_t_to_buffer, int16_t
AddUint16 == \E a \in Values : Short(a) /\ AddWords(BigEndian16(a.v), <<a>>)

\* uint32_t, int32_t, float
AddUint32 == \E a \in Values : ~Short(a) /\ AddWords(BigEndian32(a.v), <<a>>)

\* sensirion_i2c_add_bytes_to_buffer
AddBytesToBuffer(d, values) ==
    IF Len(d) % SENSIRION_WORD_SIZE # 0
    THEN /\ Building
         /\ offset' = BYTE_NUM_ERROR
         /\ request' = [request EXCEPT !.failed = TRUE]
         /\ sent' = NotSent
         /\ UNCHANGED buffer
    ELSE AddWords(d, values)

AddBytes == \E d \in Arrays : AddBytesToBuffer(d, <<[kind |-> "bytes", v |-> d]>>)

\* values the driver has converted to bytes itself
AddConverted ==
    \E a \in Values :
        AddBytesToBuffer(IF Short(a) THEN Uint16ToBytes(a.v) ELSE Uint32ToBytes(a.v), <<a>>)

\* the driver takes the buffer for a new frame
Restart ==
    /\ offset > 0
    /\ offset' = 0 /\ request' = NoRequest /\ sent' = NotSent
    /\ UNCHANGED buffer

-----------------------------------------------------------------------------
(* Transmitting.                                                           *)

HalCount(n) == n % 256

\* sensirion_i2c_hal_write: all the bytes, or an error after some of them
HalWrite(address, bytes, n, r) ==
    \/ sent' = [to |-> address, request |-> r, wire |-> Prefix(bytes, HalCount(n)), ret |-> NO_ERROR]
    \/ \E k \in {0, HalCount(n) \div 2, HalCount(n)} :
           sent' = [to |-> address, request |-> r, wire |-> Prefix(bytes, k), ret |-> HAL_ERROR]

\* sensirion_i2c_write_data
WriteData ==
    /\ Building
    /\ HalWrite(Sensor, Prefix(buffer, offset), offset, request)
    /\ UNCHANGED <<buffer, offset, request>>

WordBytes(args) == FlattenSeq([k \in 1..Len(args) |-> BigEndian16(args[k])])

\* sensirion_i2c_fill_cmd_send_buf
FillCmdSendBuf(cmd, args) == BigEndian16(cmd) \o Packed(WordBytes(args))

WriteLocal(cmd, args) ==
    LET buf    == FillCmdSendBuf(cmd, args)
        values == [k \in 1..Len(args) |-> [kind |-> "uint16", v |-> args[k]]]
    IN /\ offset = 0
       /\ HalWrite(Sensor, buf, Len(buf), Request(cmd, WordBytes(args), values))
       /\ UNCHANGED <<buffer, offset, request>>

\* sensirion_i2c_write_cmd, and the first half of delayed_read_cmd
WriteCmd == \E cmd \in Commands : WriteLocal(cmd, <<>>)

\* sensirion_i2c_write_cmd_with_args
WriteCmdWithArgs == \E cmd \in Commands, args \in ArgLists : WriteLocal(cmd, args)

RESET == 6

\* sensirion_i2c_general_call_reset
GeneralCallReset ==
    /\ offset = 0
    /\ HalWrite(GeneralCall, <<RESET>>, 1, Request(RESET, <<>>, <<>>))
    /\ UNCHANGED <<buffer, offset, request>>

Next ==
    \/ \E cmd \in Commands : AddCommand(cmd)
    \/ AddUint16 \/ AddUint32 \/ AddBytes \/ AddConverted
    \/ Restart
    \/ WriteData \/ WriteCmd \/ WriteCmdWithArgs \/ GeneralCallReset

Spec == Init /\ [][Next]_vars

-----------------------------------------------------------------------------
(* The sensor's side: a command, and words with the right CRC each; on the *)
(* address of the general call, the one byte of a reset.                   *)

Rejected == [cmd |-> -1, data |-> <<>>]

SensorDecodes(address, frame) ==
    LET n       == (Len(frame) - 2) \div 3
        word(k) == SubSeq(frame, 3 * k, 3 * k + 1)
    IN IF address = GeneralCall
       THEN IF frame = <<RESET>> THEN [cmd |-> RESET, data |-> <<>>] ELSE Rejected
       ELSE IF /\ Len(frame) >= 2 /\ (Len(frame) - 2) % 3 = 0
               /\ \A k \in 1..n : frame[3 * k + 2] = Crc(word(k))
       THEN [cmd |-> frame[1] * 256 + frame[2], data |-> FlattenSeq([k \in 1..n |-> word(k)])]
       ELSE Rejected

Asked(r) == [cmd |-> r.cmd, data |-> r.data]

-----------------------------------------------------------------------------
(* The driver's: values of the kinds it sent, one after the other, in the  *)
(* data that comes back.                                                   *)

Size(a) == CASE a.kind = "bytes" -> Len(a.v) [] Short(a) -> 2 [] OTHER -> 4

ReadBack(kind, bytes) ==
    CASE kind = "bytes"  -> bytes
      [] kind = "uint16" -> BytesToUint16(bytes)
      [] kind = "int16"  -> BytesToInt16(bytes)
      [] kind = "uint32" -> BytesToUint32(bytes)
      [] OTHER           -> BytesToInt32(bytes)      \* and bytes_to_float

TotalSize(values) == FoldLeft(LAMBDA n, a : n + Size(a), 0, values)

Converted(values, data) ==
    LET at(k) == TotalSize(SubSeq(values, 1, k - 1)) IN
    [k \in 1..Len(values) |->
        [kind |-> values[k].kind,
         v    |-> ReadBack(values[k].kind, SubSeq(data, at(k) + 1, at(k) + Size(values[k])))]]

-----------------------------------------------------------------------------
(* Properties.                                                             *)

\* NO_ERROR from write_data, write_cmd, write_cmd_with_args or
\* general_call_reset means that the bytes on the bus are a frame from which the
\* sensor decodes the command and the data of the caller, whatever the buffer
\* held before.
SuccessIsDelivered ==
    sent.ret = NO_ERROR => SensorDecodes(sent.to, sent.wire) = Asked(sent.request)

\* Each integer and float that was sent comes back from the sensor as the value
\* it was, negative ones included: what the add_* functions do, the conversions
\* of sensirion_common.c undo, and the other way round.
ValuesSurvive ==
    sent.ret = NO_ERROR =>
        Converted(sent.request.values, SensorDecodes(sent.to, sent.wire).data)
            = sent.request.values

\* The offset of a frame that begins with its command is never BYTE_NUM_ERROR:
\* a driver can tell the error from an offset although both are one result.
ErrorIsRecognisable == offset = BYTE_NUM_ERROR <=> request.failed

=============================================================================
