--------------------------- MODULE ShdlcRxInplace ---------------------------
(***************************************************************************)
(* sensirion_shdlc_rx_inplace, one action per destuffed byte.              *)
(*                                                                         *)
(* The frame is received into the caller's buffer and the data is written  *)
(* over its beginning while the rest of it is still being read.  The       *)
(* buffer has room for the whole unprocessed frame, as the function's      *)
(* contract asks, and keeps what an earlier frame left in it: the header   *)
(* is read without looking at how many bytes were received.                *)
(* rx_frame->data[k] in C is At(k), the element k + 1 of buf.              *)
(***************************************************************************)
EXTENDS ShdlcCodec

CONSTANTS Deliveries,           \* what may be on the line, as in ShdlcRx
          ExpectedLens,
          Stale                 \* earlier contents of the caller's buffer

ASSUME InplaceAssumption ==
    /\ \A v \in Deliveries : IsDelivery(v)
    /\ ExpectedLens \subseteq Byte
    /\ Stale \subseteq Seq(Byte)

VARIABLES
    line,                   \* what the UART has for this call
    expected_data_length,
    pc,                     \* "receive", "header", "data", "checksum", "done"
    buf,                    \* rx_frame->data
    offset, checksum,       \* rx_frame->offset, rx_frame->checksum
    rx_length,
    header,                 \* header fields read so far
    i,                      \* data bytes written so far
    ret                     \* the result, once pc is "done"

vars == <<line, expected_data_length, pc, buf, offset, checksum, rx_length,
          header, i, ret>>
given == <<line, expected_data_length>>

Init ==
    /\ line \in Deliveries /\ expected_data_length \in ExpectedLens
    /\ buf \in Stale /\ Len(buf) >= RxRequest(expected_data_length)
    /\ pc = "receive" /\ offset = 0 /\ checksum = 0 /\ rx_length = 0
    /\ header = <<>> /\ i = 0 /\ ret = NO_ERROR

At(k) == buf[k + 1]

Return(code) ==
    /\ pc' = "done" /\ ret' = code
    /\ UNCHANGED <<given, buf, offset, checksum, rx_length, header, i>>

-----------------------------------------------------------------------------

\* The received bytes replace the beginning of the buffer.
Receive ==
    /\ pc = "receive"
    /\ LET got == Prefix(line.bytes, RxRequest(expected_data_length)) IN
       /\ rx_length' = Len(got)
       /\ buf' = [k \in 1..Len(buf) |-> IF k <= Len(got) THEN got[k] ELSE buf[k]]
       /\ IF got # <<>> /\ got[1] = SHDLC_START
          THEN pc' = "header" /\ offset' = 1 /\ UNCHANGED ret
          ELSE pc' = "done" /\ ret' = ERR_MISSING_START /\ UNCHANGED offset
    /\ UNCHANGED <<given, checksum, header, i>>

NextByteRaw == [byte |-> At(offset), width |-> 1]

\* sensirion_shdlc_unstuff_next_byte: any escaped byte has its bit 5 inverted
NextByte ==
    IF At(offset) = ESC THEN [byte |-> FlipBit5(At(offset + 1)), width |-> 2]
    ELSE [byte |-> At(offset), width |-> 1]

Consume ==
    /\ offset' = offset + NextByte.width
    /\ checksum' = Uint8(checksum + NextByte.byte)

HeaderByte ==
    /\ pc = "header" /\ Len(header) < 4
    /\ Consume
    /\ header' = Append(header, NextByte.byte)
    /\ UNCHANGED <<given, pc, buf, rx_length, i, ret>>

HeaderDone ==
    /\ pc = "header" /\ Len(header) = 4
    /\ IF expected_data_length < header[4] THEN Return(ERR_FRAME_TOO_LONG)
       ELSE /\ pc' = "data"
            /\ UNCHANGED <<given, buf, offset, checksum, rx_length, header, i, ret>>

MoreByOne == i <= header[4] /\ offset < rx_length - 2

\* the loop condition: two bytes are left for the checksum and the delimiter
More == i < header[4] /\ offset < rx_length - 2

DataByteAfterHeader ==
    /\ pc = "data" /\ More
    /\ Consume
    /\ buf' = [buf EXCEPT ![i + 7] = NextByte.byte]
    /\ i' = i + 1
    /\ UNCHANGED <<given, pc, rx_length, header, ret>>

DataByte ==
    /\ pc = "data" /\ More
    /\ Consume
    /\ buf' = [buf EXCEPT ![i + 1] = NextByte.byte]
    /\ i' = i + 1
    /\ UNCHANGED <<given, pc, rx_length, header, ret>>

DataDone ==
    /\ pc = "data" /\ ~More
    /\ IF i < header[4] THEN Return(ERR_ENCODING_ERROR)
       ELSE /\ pc' = "checksum"
            /\ UNCHANGED <<given, buf, offset, checksum, rx_length, header, i, ret>>

VerdictNoLength(sum, k) ==
    IF sum # 255 THEN ERR_CRC_MISMATCH
    ELSE IF At(k) # SHDLC_STOP THEN ERR_MISSING_STOP
    ELSE IF StateError(header[3]) THEN ERR_EXECUTION_FAILURE
    ELSE NO_ERROR

VerdictNoSum(sum, k) ==
    IF k >= rx_length \/ At(k) # SHDLC_STOP THEN ERR_MISSING_STOP
    ELSE IF StateError(header[3]) THEN ERR_EXECUTION_FAILURE
    ELSE NO_ERROR

\* the checks that follow the checksum, the delimiter being at index k
Verdict(sum, k) ==
    IF sum # 255 THEN ERR_CRC_MISMATCH
    ELSE IF k >= rx_length \/ At(k) # SHDLC_STOP THEN ERR_MISSING_STOP
    ELSE IF StateError(header[3]) THEN ERR_EXECUTION_FAILURE
    ELSE NO_ERROR

CheckTail ==
    /\ pc = "checksum"
    /\ Consume
    /\ pc' = "done"
    /\ ret' = Verdict(checksum', offset')
    /\ UNCHANGED <<given, buf, rx_length, header, i>>

Next == Receive \/ HeaderByte \/ HeaderDone \/ DataByte \/ DataDone \/ CheckTail

Spec == Init /\ [][Next]_vars /\ WF_vars(Next)

-----------------------------------------------------------------------------
(* Properties.                                                             *)

\* Buffer, header and checksum hold bytes, indices are natural numbers.
TypeOK ==
    /\ pc \in {"receive", "header", "data", "checksum", "done"}
    /\ line.bytes \in Seq(Byte) /\ expected_data_length \in ExpectedLens
    /\ buf \in Seq(Byte) /\ Len(buf) >= RxRequest(expected_data_length)
    /\ offset \in Nat /\ checksum \in Byte /\ rx_length \in 0..Len(buf)
    /\ header \in Seq(Byte) /\ i \in Nat /\ ret \in Int

\* No byte is read behind the end of the caller's buffer, although neither the
\* header nor the checksum is checked against the length of the frame: not
\* even when stale escapes in the buffer stretch them.
InBuffer ==
    pc \in {"header", "data", "checksum"} => offset + 1 < Len(buf)

\* Writing the data in place stays behind reading: the received bytes that are
\* still to be read are in the buffer as they came.
UnreadIsIntact ==
    pc # "receive" =>
        \A k \in offset..(rx_length - 1) : At(k) = line.bytes[k + 1]

\* The function accepts (0, or the sensor's own error state) exactly the byte
\* strings of the reference, whatever an earlier frame left in the buffer: a
\* response whose end is late is refused even if the buffer still holds its end.
AcceptsExactly ==
    pc = "done" =>
        (ret \in {NO_ERROR, ERR_EXECUTION_FAILURE}
           <=> IsResponse(FlipBit5,
                          Prefix(line.bytes, RxRequest(expected_data_length)),
                          expected_data_length))

SentIsReturned ==
    /\ header = <<line.sent.addr, line.sent.cmd, line.sent.state, Len(line.sent.data)>>
    /\ SubSeq(buf, 1, i) = line.sent.data

\* A frame that arrives whole is accepted, with the header and the data the
\* sensor sent, and only the sensor's error state makes it EXECUTION_FAILURE.
WholeIsAccepted ==
    pc = "done" /\ line.damage \in {"none", "trailing"}
                /\ Len(line.sent.data) <= expected_data_length
        => /\ ret = IF StateError(line.sent.state) THEN ERR_EXECUTION_FAILURE ELSE NO_ERROR
           /\ SentIsReturned

\* NO_ERROR is never returned with a header or data the sensor did not send:
\* not for a frame cut short in front of a stale tail that would complete it,
\* nor for one with a byte changed, if its checksum can tell.  A lost byte is left
\* out: inverting bit 5 of the escape in 7d 7d 31, what remains of 7d 5d 7d 31,
\* keeps the sum, so that the checksum cannot tell; sensirion_shdlc_rx does.
AcceptedIsSent ==
    pc = "done" /\ ret = NO_ERROR /\ Noticeable(line) /\ line.damage # "lost" => SentIsReturned

=============================================================================
