------------------------------- MODULE ShdlcTx -------------------------------
(***************************************************************************)
(* Sending: the frame builder of sensirion_shdlc.c (begin_frame, the       *)
(* add_*_to_frame functions, finish_frame, tx_frame) working on one        *)
(* struct sensirion_shdlc_buffer, and the one-shot sensirion_shdlc_tx.     *)
(*                                                                         *)
(* tx_frame->data[0 .. offset-1] is the sequence data, so offset is        *)
(* Len(data).  Every add_* function ends in a loop of                      *)
(* add_uint8_t_to_frame: the bytes it still has to add are in pending.     *)
(* The UART writes all the bytes it is given, only a first part of them,   *)
(* or fails.                                                               *)
(***************************************************************************)
EXTENDS ShdlcCodec

CONSTANTS Addresses, Commands,       \* arguments of begin_frame and of tx
          Payloads,                  \* byte arrays given to add_bytes and tx
          Uint8Args, Int16Args, Int32Args,
          MaxPayload,                \* bound on the data bytes of a frame
          HalErrors                  \* negative results of the UART

ASSUME ArgsAssumption ==
    /\ Addresses \subseteq Byte /\ Commands \subseteq Byte
    /\ Uint8Args \subseteq Byte
    /\ Int16Args \subseteq Int /\ Int32Args \subseteq Int
    /\ \A p \in Payloads : p \in Seq(Byte) /\ Len(p) \in Byte
    /\ MaxPayload \in Byte
    /\ \A e \in HalErrors : e \in Int /\ e < 0

VARIABLES
    pc,         \* what was done to the frame: "idle", "building" or "ready"
    data,       \* tx_frame->data up to tx_frame->offset
    checksum,   \* tx_frame->checksum
    pending,    \* bytes the running begin_frame or add_* call has yet to add
    request,    \* arguments of begin_frame and the payload added since
    sent        \* the transmission just made: request, bytes on the wire, result

vars == <<pc, data, checksum, pending, request, sent>>

NoRequest == [addr |-> 0, cmd |-> 0, declared |-> 0, payload |-> <<>>]
NotSent   == [request |-> NoRequest, wire |-> <<>>, ret |-> ERR_TX_INCOMPLETE]

Init ==
    /\ pc = "idle"
    /\ data = <<>> /\ checksum = 0 /\ pending = <<>>
    /\ request = NoRequest
    /\ sent = NotSent

-----------------------------------------------------------------------------
(* Building a frame.                                                       *)

\* the order in which begin_frame adds its three arguments
HeaderBytes(address, command, data_length) == <<address, command, data_length>>

BeginKeepsChecksum(address, command, data_length) ==
    /\ pending = <<>>
    /\ pc' = "building"
    /\ data' = <<SHDLC_START>> /\ checksum' = checksum
    /\ pending' = HeaderBytes(address, command, data_length)
    /\ request' = [addr |-> address, cmd |-> command,
                   declared |-> data_length, payload |-> <<>>]
    /\ sent' = NotSent

BeginKeepsOffset(address, command, data_length) ==
    /\ pending = <<>>
    /\ pc' = "building"
    /\ data' = Append(data, SHDLC_START) /\ checksum' = 0
    /\ pending' = HeaderBytes(address, command, data_length)
    /\ request' = [addr |-> address, cmd |-> command,
                   declared |-> data_length, payload |-> <<>>]
    /\ sent' = NotSent

\* sensirion_shdlc_begin_frame; a struct may be begun again at any time
BeginFrame(address, command, data_length) ==
    /\ pending = <<>>
    /\ pc' = "building"
    /\ data' = <<SHDLC_START>> /\ checksum' = 0
    /\ pending' = HeaderBytes(address, command, data_length)
    /\ request' = [addr |-> address, cmd |-> command,
                   declared |-> data_length, payload |-> <<>>]
    /\ sent' = NotSent

AddByteWide ==
    /\ pending # <<>>
    /\ data' = data \o StuffByte(Head(pending))
    /\ checksum' = checksum + Head(pending)
    /\ pending' = Tail(pending)
    /\ UNCHANGED <<pc, request, sent>>

\* sensirion_shdlc_add_uint8_t_to_frame, for the next byte of the running call
AddByte ==
    /\ pending # <<>>
    /\ data' = data \o StuffByte(Head(pending))
    /\ checksum' = Uint8(checksum + Head(pending))
    /\ pending' = Tail(pending)
    /\ UNCHANGED <<pc, request, sent>>

\* a call of an add_* function that adds the bytes s
Add(s) ==
    /\ pc = "building" /\ pending = <<>>
    /\ Len(request.payload) + Len(s) <= MaxPayload
    /\ pending' = s
    /\ request' = [request EXCEPT !.payload = @ \o s]
    /\ UNCHANGED <<pc, data, checksum, sent>>

\* the masks and shifts of add_uint16_t and add_uint32_t; \div and % give the
\* two's complement bytes of a negative argument, as the casts do
BigEndian16(v) == <<(v \div 256) % 256, v % 256>>
BigEndian32(v) == BigEndian16((v \div 65536) % 65536) \o BigEndian16(v % 65536)

AddUint8 == \E v \in Uint8Args : Add(<<v>>)
AddBool  == \E v \in {0, 1} : Add(<<v>>)
AddInt16 == \E v \in Int16Args : Add(BigEndian16(v))     \* also uint16_t
AddInt32 == \E v \in Int32Args : Add(BigEndian32(v))     \* also uint32_t, float
AddBytes == \E s \in Payloads : Add(s)

FinishUnstuffed ==
    /\ pc = "building" /\ pending = <<>>
    /\ pc' = "ready"
    /\ data' = data \o <<Not8(checksum), SHDLC_STOP>>
    /\ checksum' = Uint8(checksum + Not8(checksum))
    /\ UNCHANGED <<pending, request, sent>>

\* sensirion_shdlc_finish_frame
FinishFrame ==
    /\ pc = "building" /\ pending = <<>>
    /\ pc' = "ready"
    /\ data' = data \o StuffByte(Not8(checksum)) \o <<SHDLC_STOP>>
    /\ checksum' = Uint8(checksum + Not8(checksum))
    /\ UNCHANGED <<pending, request, sent>>

-----------------------------------------------------------------------------
(* Transmitting.                                                           *)

TxResultSwapped(written, offset) ==
    IF written < 0 THEN written
    ELSE IF written < offset THEN NO_ERROR
    ELSE ERR_TX_INCOMPLETE

\* how tx and tx_frame turn the UART's result into their own
TxResult(written, offset) ==
    IF written < 0 THEN written
    ELSE IF written # offset THEN ERR_TX_INCOMPLETE
    ELSE NO_ERROR

\* sensirion_uart_hal_tx: writes n bytes and says so, or reports an error
\* after having written some of them
HalTx(bytes, r) ==
    \E n \in 0..Len(bytes) : \E written \in {n} \cup HalErrors :
        sent' = [request |-> r, wire |-> SubSeq(bytes, 1, n),
                 ret |-> TxResult(written, Len(bytes))]

\* sensirion_shdlc_tx_frame; a finished frame may be sent more than once
TxFrame ==
    /\ pc = "ready"
    /\ HalTx(data, request)
    /\ UNCHANGED <<pc, data, checksum, pending, request>>

\* sensirion_shdlc_tx, which has a buffer of its own: it shares nothing with
\* the struct, and is only tried before the first frame
Tx ==
    /\ pc = "idle"
    /\ \E addr \in Addresses, cmd \in Commands, d \in Payloads :
           HalTx(Request(addr, cmd, d),
                 [addr |-> addr, cmd |-> cmd, declared |-> Len(d), payload |-> d])
    /\ UNCHANGED <<pc, data, checksum, pending, request>>

Next ==
    \/ \E a \in Addresses, c \in Commands, n \in 0..MaxPayload : BeginFrame(a, c, n)
    \/ AddByte
    \/ AddUint8 \/ AddBool \/ AddInt16 \/ AddInt32 \/ AddBytes
    \/ FinishFrame
    \/ TxFrame
    \/ Tx

Spec == Init /\ [][Next]_vars

-----------------------------------------------------------------------------
(* The sensor's side of a request, from the protocol the encoder follows:  *)
(* nothing reserved between the delimiters but escapes, a length that      *)
(* counts the data, and bytes that sum to 0xff.                            *)

Delimited(frame) ==
    /\ Len(frame) >= 2
    /\ frame[1] = SHDLC_START /\ frame[Len(frame)] = SHDLC_STOP
    /\ \A k \in 2..(Len(frame) - 1) : frame[k] \notin Reserved \ {ESC}

Rejected == [addr |-> -1, cmd |-> -1, payload |-> <<>>]

SensorDecodes(frame) ==
    LET body == SubSeq(frame, 2, Len(frame) - 1)
        u    == Destuff(FlipBit5, body)
        b    == u.out
    IN IF /\ Delimited(frame) /\ ~u.esc
          /\ Len(b) >= 4 /\ b[3] = Len(b) - 4 /\ SumBytes(b) % 256 = 255
       THEN [addr |-> b[1], cmd |-> b[2], payload |-> SubSeq(b, 4, Len(b) - 1)]
       ELSE Rejected

-----------------------------------------------------------------------------
(* Properties.                                                             *)

RequestType == [addr : Byte, cmd : Byte, declared : Byte, payload : Seq(Byte)]

\* The frame buffer and the checksum hold bytes in every state of the builder.
TypeOK ==
    /\ pc \in {"idle", "building", "ready"}
    /\ data \in Seq(Byte) /\ checksum \in Byte /\ pending \in Seq(Byte)
    /\ request \in RequestType
    /\ sent.request \in RequestType /\ sent.ret \in Int

\* After the opening delimiter a frame under construction holds no delimiter
\* and no flow control byte but the closing delimiter of a finished frame, and
\* an escape byte is always followed by one of the four escaped values: what
\* sensirion_shdlc_stuff_byte is for, whatever is added, checksum included.
Escaped == {FlipBit5(b) : b \in Reserved}

Clean(s) ==
    \A k \in 2..Len(s) :
        \/ s[k] \notin Reserved
        \/ s[k] = ESC /\ k < Len(s) /\ s[k + 1] \in Escaped

Transparent ==
    /\ pc = "building" => Clean(data)
    /\ pc = "ready" => Clean(Front(data)) /\ Last(data) = SHDLC_STOP

\* No sequence of builder calls writes past 2 + 2 * (4 + n) bytes for n bytes
\* of data, the size SHDLC_FRAME_MAX_TX_FRAME_SIZE is computed with.
FitsBuffer == Len(data) <= MaxFrameSize(Len(request.payload))

\* A struct used for several frames builds, each time, exactly the frame that
\* the one-shot sensirion_shdlc_tx sends for the same arguments, once the
\* caller has added the number of bytes it declared.
BuilderMatchesTx ==
    pc = "ready" /\ request.declared = Len(request.payload)
        => data = Request(request.addr, request.cmd, request.payload)

\* NO_ERROR from tx or tx_frame means that the bytes on the wire are a frame
\* from which the sensor decodes the address, command and data of the caller.
SuccessIsDelivered ==
    sent.ret = NO_ERROR /\ sent.request.declared = Len(sent.request.payload)
        => SensorDecodes(sent.wire) = [addr    |-> sent.request.addr,
                                       cmd     |-> sent.request.cmd,
                                       payload |-> sent.request.payload]

\* ERR_TX_INCOMPLETE means that the sensor has no request: no first part of a
\* frame decodes as one, so that the caller's retry is not executed twice.
IncompleteIsRejected ==
    sent.ret = ERR_TX_INCOMPLETE => SensorDecodes(sent.wire) = Rejected

=============================================================================
