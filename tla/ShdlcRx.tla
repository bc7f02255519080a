------------------------------- MODULE ShdlcRx -------------------------------
(***************************************************************************)
(* sensirion_shdlc_rx, one action per iteration of its loops.              *)
(*                                                                         *)
(* Indices are the code's: rx_frame[k] in C is At(k), and i, j are 0-based *)
(* (j is Len(rxh) in the header loop, Len(data) in the data loop).  The    *)
(* stack buffer is not initialised, so a read at or behind len may give    *)
(* any byte of Garbage.  What is on the line is one of Deliveries.         *)
(***************************************************************************)
EXTENDS ShdlcCodec

CONSTANTS Deliveries, MaxDataLens, Garbage

ASSUME RxAssumption ==
    /\ \A v \in Deliveries : IsDelivery(v)
    /\ MaxDataLens \subseteq Byte
    /\ Garbage \subseteq Byte /\ Garbage # {}

VARIABLES
    line,           \* what the UART has for this call
    max_data_len,   \* the caller's limit on the data
    pc,             \* "receive", "header", "data", "tail" or "done"
    rx_frame,       \* the bytes received, rx_frame[0 .. len-1]
    i,              \* index of the next byte to look at
    unstuff_next,   \* 1 if the last byte was an escape, else 0
    rxh,            \* header bytes stored so far: addr, cmd, state, data_len
    data,           \* data bytes stored so far
    ret             \* the result, once pc is "done"

vars == <<line, max_data_len, pc, rx_frame, i, unstuff_next, rxh, data, ret>>

len == Len(rx_frame)

Init ==
    /\ line \in Deliveries /\ max_data_len \in MaxDataLens
    /\ pc = "receive" /\ rx_frame = <<>> /\ i = 0 /\ unstuff_next = 0
    /\ rxh = <<>> /\ data = <<>> /\ ret = NO_ERROR

\* rx_frame[k]
At(k) == IF k < len THEN {rx_frame[k + 1]} ELSE Garbage

Return(code) ==
    /\ pc' = "done" /\ ret' = code
    /\ UNCHANGED <<line, max_data_len, rx_frame, i, unstuff_next, rxh, data>>

-----------------------------------------------------------------------------

\* The UART returns at most the bytes asked for.  A UART error and an empty
\* line are the same to this function: len < 1.
Receive ==
    /\ pc = "receive"
    /\ rx_frame' = Prefix(line.bytes, RxRequest(max_data_len))
    /\ IF rx_frame' # <<>> /\ rx_frame'[1] = SHDLC_START
       THEN pc' = "header" /\ i' = 1 /\ UNCHANGED ret
       ELSE pc' = "done" /\ ret' = ERR_MISSING_START /\ UNCHANGED i
    /\ UNCHANGED <<line, max_data_len, unstuff_next, rxh, data>>

MoreToEnd == i < len

\* the loop condition: two bytes are left for the checksum and the delimiter
More == i < len - 2

\* the bytes stored after the body of either loop has seen b
Store(out, b) ==
    IF unstuff_next = 1 THEN Append(out, UnstuffByte(b))
    ELSE IF b = ESC THEN out
    ELSE Append(out, b)

\* the part of the loop bodies common to both loops
Step(b) ==
    /\ i' = i + 1
    /\ unstuff_next' = IF unstuff_next = 0 /\ b = ESC THEN 1 ELSE 0
    /\ UNCHANGED <<line, max_data_len, pc, rx_frame, ret>>

HeaderByte ==
    /\ pc = "header" /\ Len(rxh) < 4 /\ More
    /\ \E b \in At(i) : rxh' = Store(rxh, b) /\ Step(b)
    /\ UNCHANGED data

HeaderDoneNoLimit ==
    /\ pc = "header" /\ ~(Len(rxh) < 4 /\ More)
    /\ IF Len(rxh) # 4 \/ unstuff_next = 1 THEN Return(ERR_ENCODING_ERROR)
       ELSE /\ pc' = "data" /\ unstuff_next' = 0
            /\ UNCHANGED <<line, max_data_len, rx_frame, i, rxh, data, ret>>

HeaderDone ==
    /\ pc = "header" /\ ~(Len(rxh) < 4 /\ More)
    /\ IF Len(rxh) # 4 \/ unstuff_next = 1 THEN Return(ERR_ENCODING_ERROR)
       ELSE IF max_data_len < rxh[4] THEN Return(ERR_FRAME_TOO_LONG)
       ELSE /\ pc' = "data" /\ unstuff_next' = 0
            /\ UNCHANGED <<line, max_data_len, rx_frame, i, rxh, data, ret>>

DataByte ==
    /\ pc = "data" /\ Len(data) < rxh[4] /\ More
    /\ \E b \in At(i) : data' = Store(data, b) /\ Step(b)
    /\ UNCHANGED rxh

DataDoneUnchecked ==
    /\ pc = "data" /\ ~(Len(data) < rxh[4] /\ More)
    /\ pc' = "tail"
    /\ UNCHANGED <<line, max_data_len, rx_frame, i, unstuff_next, rxh, data, ret>>

DataDone ==
    /\ pc = "data" /\ ~(Len(data) < rxh[4] /\ More)
    /\ IF unstuff_next = 1 \/ Len(data) < rxh[4]
       THEN Return(ERR_ENCODING_ERROR)
       ELSE /\ pc' = "tail"
            /\ UNCHANGED <<line, max_data_len, rx_frame, i, unstuff_next,
                           rxh, data, ret>>

VerdictNoCrc(crc, k, b) ==
    IF k >= len \/ b # SHDLC_STOP THEN ERR_MISSING_STOP
    ELSE IF StateError(rxh[3]) THEN ERR_EXECUTION_FAILURE
    ELSE NO_ERROR

\* the checks that follow the checksum, the delimiter b being at index k
Verdict(crc, k, b) ==
    IF Checksum(SubSeq(rxh, 1, 3), data) # crc THEN ERR_CRC_MISMATCH
    ELSE IF k >= len \/ b # SHDLC_STOP THEN ERR_MISSING_STOP
    ELSE IF StateError(rxh[3]) THEN ERR_EXECUTION_FAILURE
    ELSE NO_ERROR

CheckTail ==
    /\ pc = "tail"
    /\ \E c1 \in At(i), c2 \in At(i + 1), c3 \in At(i + 2) :
           IF c1 = ESC THEN Return(Verdict(UnstuffByte(c2), i + 2, c3))
           ELSE Return(Verdict(c1, i + 1, c2))

Next == Receive \/ HeaderByte \/ HeaderDone \/ DataByte \/ DataDone \/ CheckTail

Spec == Init /\ [][Next]_vars /\ WF_vars(Next)

-----------------------------------------------------------------------------
(* Properties.                                                             *)

\* Received bytes, header and data are bytes, indices are natural numbers.
TypeOK ==
    /\ pc \in {"receive", "header", "data", "tail", "done"}
    /\ line.bytes \in Seq(Byte) /\ max_data_len \in MaxDataLens
    /\ rx_frame \in Seq(Byte) /\ rxh \in Seq(Byte) /\ data \in Seq(Byte)
    /\ i \in Nat /\ unstuff_next \in {0, 1} /\ ret \in Int

\* The checksum, which is read without looking at len, lies within the bytes
\* received, escape and all: no result is computed from the uninitialised part
\* of the stack buffer, whatever the length of the received frame.
NoStaleRead == pc = "tail" => i + 1 < len

\* The caller's header and data buffers are never written past their end, not
\* even while the bytes of a damaged frame are being stored.
NoOverrun ==
    /\ Len(rxh) <= 4
    /\ Len(data) <= max_data_len
    /\ pc \in {"data", "tail"} => Len(data) <= rxh[4]

\* The function accepts (0, or the sensor's own error state) exactly the byte
\* strings of the reference: no other string, so that a response whose end is
\* late is never taken for one, and each of them.
AcceptsExactly ==
    pc = "done" =>
        (ret \in {NO_ERROR, ERR_EXECUTION_FAILURE} <=> IsResponse(UnstuffByte, rx_frame, max_data_len))

\* A frame that arrives whole is accepted, with the header and the data the
\* sensor sent, whatever bytes follow it and wherever escapes fall; its error
\* state, and only that, turns the result into EXECUTION_FAILURE.
WholeIsAccepted ==
    pc = "done" /\ line.damage \in {"none", "trailing"}
                /\ Len(line.sent.data) <= max_data_len
        => /\ ret = IF StateError(line.sent.state) THEN ERR_EXECUTION_FAILURE ELSE NO_ERROR
           /\ rxh = <<line.sent.addr, line.sent.cmd, line.sent.state, Len(line.sent.data)>>
           /\ data = line.sent.data

\* NO_ERROR is never returned with a header or data the sensor did not send:
\* not for a frame cut short, nor for one with a byte changed or lost, wherever
\* that byte is, if its checksum can tell.
AcceptedIsSent ==
    pc = "done" /\ ret = NO_ERROR /\ Noticeable(line)
        => /\ rxh = <<line.sent.addr, line.sent.cmd, line.sent.state, Len(line.sent.data)>>
           /\ data = line.sent.data

=============================================================================
