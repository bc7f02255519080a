------------------------ MODULE ShdlcRxInplace_proofs ------------------------
(***************************************************************************)
(* sensirion_shdlc_rx_inplace stays inside the caller's buffer and never   *)
(* overwrites a received byte it has yet to read, for every line, every    *)
(* expected length and whatever the buffer held before; and it accepts     *)
(* exactly what is a response of at most that length, and of the           *)
(* deliveries that bring the whole answer every one.                       *)
(***************************************************************************)
EXTENDS ShdlcRxInplace, ShdlcCodec_proofs, SequenceTheorems

\* The inductive invariant: reading takes at most two places per byte, so that
\* 1 + 2 * (4 + data) bounds the offset; writing is at least five places behind.
OffsetInv ==
    /\ pc \in {"header", "data", "checksum"} =>
        /\ offset <= 1 + 2 * (Len(header) + i)
        /\ offset >= 1 + Len(header) + i
        /\ Len(header) <= 4
    /\ pc = "receive" => header = <<>> /\ i = 0
    /\ pc = "header" => i = 0
    /\ pc \in {"data", "checksum"} =>
        Len(header) = 4 /\ header[4] <= expected_data_length /\ i <= header[4]

\* With it, no byte is overwritten before it is read.
IInv == TypeOK /\ OffsetInv /\ UnreadIsIntact

-----------------------------------------------------------------------------

\* Two places are left to read whenever a byte may be destuffed.
LEMMA RoomToRead == ASSUME TypeOK, OffsetInv PROVE InBuffer
  <1>1. expected_data_length \in Nat
    BY InplaceAssumption, ByteIsNat DEF TypeOK
  <1>2. /\ Len(buf) >= 12 + 2 * expected_data_length /\ Len(buf) \in Nat
        /\ offset \in Nat /\ i \in Nat /\ Len(header) \in Nat
    BY <1>1 DEF TypeOK, RxRequest
  <1>3. ASSUME pc = "header" PROVE offset + 1 < Len(buf)
    BY <1>1, <1>2, <1>3 DEF OffsetInv
  <1>4. ASSUME pc \in {"data", "checksum"} PROVE offset + 1 < Len(buf)
    <2>1. header[4] \in Nat
      <3>1. header \in Seq(Byte) /\ 4 \in 1..Len(header)
        BY <1>4 DEF TypeOK, OffsetInv
      <3> QED
        BY <3>1, Element
    <2>2. i <= expected_data_length
      BY <1>1, <1>2, <1>4, <2>1 DEF OffsetInv
    <2> QED
      BY <1>1, <1>2, <1>4, <2>2 DEF OffsetInv
  <1> QED
    BY <1>3, <1>4 DEF InBuffer

\* Destuffing the next byte reads a byte and takes one or two places.
LEMMA NextByteType ==
  ASSUME TypeOK, offset + 1 < Len(buf)
  PROVE  NextByte.byte \in Byte /\ NextByte.width \in {1, 2}
  <1>1. At(offset) \in Byte /\ At(offset + 1) \in Byte
    <2>1. buf \in Seq(Byte) /\ offset + 1 \in 1..Len(buf) /\ offset + 1 + 1 \in 1..Len(buf)
      BY DEF TypeOK
    <2> QED
      BY <2>1, Element DEF At
  <1>2. CASE At(offset) = ESC
    BY <1>1, <1>2, ByteIsNat DEF NextByte
  <1>3. CASE At(offset) # ESC
    BY <1>1, <1>3 DEF NextByte
  <1> QED
    BY <1>2, <1>3

\* What consuming a byte does to offset and checksum.
LEMMA ConsumeType ==
  ASSUME TypeOK, offset + 1 < Len(buf), Consume
  PROVE  /\ offset' \in Nat /\ offset' >= offset + 1 /\ offset' <= offset + 2
         /\ checksum' \in Byte
  <1>1. NextByte.byte \in Byte /\ NextByte.width \in {1, 2}
    BY NextByteType
  <1>2. checksum \in Byte /\ offset \in Nat
    BY DEF TypeOK
  <1>3. checksum + NextByte.byte \in Nat
    <2>1. checksum \in Nat /\ NextByte.byte \in Nat
      BY <1>1, <1>2, ByteIsNat
    <2> QED
      BY <2>1
  <1> QED
    BY <1>1, <1>2, <1>3, Uint8Type DEF Consume

\* Reading on leaves fewer received bytes to keep.
LEMMA StillIntact ==
  ASSUME TypeOK, UnreadIsIntact, pc # "receive",
         offset' \in Nat, offset' >= offset, UNCHANGED <<buf, rx_length, line>>
  PROVE  UnreadIsIntact'
  BY DEF UnreadIsIntact, At, TypeOK

\* The received prefix: its type, its length and its bytes.
LEMMA PrefixFacts ==
  ASSUME NEW s \in Seq(Byte), NEW n \in Nat
  PROVE  /\ Prefix(s, n) \in Seq(Byte)
         /\ Len(Prefix(s, n)) <= n
         /\ \A k \in 1..Len(Prefix(s, n)) : Prefix(s, n)[k] = s[k]
  BY DEF Prefix

-----------------------------------------------------------------------------

\* Receiving puts the line's bytes at the beginning of the buffer.
LEMMA ReceiveStep == ASSUME IInv, Receive PROVE IInv'
  <1> USE DEF IInv
  <1> DEFINE got == Prefix(line.bytes, RxRequest(expected_data_length))
  <1>1. RxRequest(expected_data_length) \in Nat
    <2>1. expected_data_length \in Nat
      BY InplaceAssumption, ByteIsNat DEF TypeOK
    <2> QED
      BY <2>1 DEF RxRequest
  <1>2. /\ got \in Seq(Byte) /\ Len(got) <= RxRequest(expected_data_length)
        /\ \A k \in 1..Len(got) : got[k] = line.bytes[k]
    BY <1>1, PrefixFacts DEF TypeOK
  <1>3. /\ rx_length' = Len(got)
        /\ buf' = [k \in 1..Len(buf) |-> IF k <= Len(got) THEN got[k] ELSE buf[k]]
    BY DEF Receive
  <1> HIDE DEF got
  <1>4. buf \in Seq(Byte) /\ Len(buf) \in Nat /\ Len(buf) >= RxRequest(expected_data_length)
    BY DEF TypeOK
  <1>5. \A k \in 1..Len(buf) : buf'[k] \in Byte
    BY <1>2, <1>3, <1>4
  <1>6. buf' \in Seq(Byte) /\ Len(buf') = Len(buf)
    BY <1>3, <1>4, <1>5
  <1>7. rx_length' \in 0..Len(buf')
    BY <1>1, <1>2, <1>3, <1>4, <1>6
  <1>8. TypeOK'
    <2>1. pc' \in {"header", "done"} /\ offset' \in Nat /\ ret' \in Int
      BY DEF Receive, TypeOK, ERR_MISSING_START
    <2> QED
      BY <1>6, <1>7, <2>1 DEF Receive, TypeOK, given
  <1>9. OffsetInv'
    BY DEF Receive, OffsetInv
  <1>10. UnreadIsIntact'
    <2>1. ASSUME NEW k \in offset'..(rx_length' - 1) PROVE buf'[k + 1] = line'.bytes[k + 1]
      <3>1. offset' \in Nat /\ line' = line
        BY <1>8 DEF TypeOK, Receive, given
      <3>2. k + 1 \in 1..Len(got) /\ k + 1 \in 1..Len(buf)
        BY <1>2, <1>3, <1>4, <1>6, <1>7, <3>1
      <3> QED
        BY <1>2, <1>3, <3>1, <3>2
    <2> QED
      BY <2>1 DEF UnreadIsIntact, At
  <1> QED
    BY <1>8, <1>9, <1>10

\* A header byte moves the offset by one or two.
LEMMA HeaderStep == ASSUME IInv, HeaderByte PROVE IInv'
  <1> USE DEF IInv
  <1>1. pc = "header" /\ Len(header) < 4 /\ offset + 1 < Len(buf)
    BY RoomToRead DEF HeaderByte, InBuffer
  <1>2. /\ offset' \in Nat /\ offset' >= offset + 1 /\ offset' <= offset + 2
        /\ checksum' \in Byte
    BY <1>1, ConsumeType DEF HeaderByte
  <1>3. header' \in Seq(Byte) /\ Len(header') = Len(header) + 1
    BY <1>1, NextByteType DEF HeaderByte, TypeOK
  <1>4. TypeOK'
    BY <1>2, <1>3 DEF HeaderByte, TypeOK, given
  <1>5. offset \in Nat /\ Len(header) \in Nat /\ i = 0
    BY <1>1 DEF TypeOK, OffsetInv
  <1>6. OffsetInv'
    BY <1>1, <1>2, <1>3, <1>5 DEF HeaderByte, OffsetInv
  <1>7. UnreadIsIntact'
    BY <1>1, <1>2, <1>5, StillIntact DEF HeaderByte, given
  <1> QED
    BY <1>4, <1>6, <1>7

\* A data byte is written where bytes have been read already.
LEMMA DataStep == ASSUME IInv, DataByte PROVE IInv'
  <1> USE DEF IInv
  <1>1. pc = "data" /\ offset + 1 < Len(buf) /\ i < header[4] /\ Len(header) = 4
    BY RoomToRead DEF DataByte, OffsetInv, More, InBuffer
  <1>2. /\ offset' \in Nat /\ offset' >= offset + 1 /\ offset' <= offset + 2
        /\ checksum' \in Byte
    BY <1>1, ConsumeType DEF DataByte
  <1>3. offset \in Nat /\ i \in Nat /\ offset >= 5 + i /\ i' = i + 1
    BY <1>1 DEF TypeOK, OffsetInv, DataByte
  <1>4. header[4] \in Nat
    <2>1. header \in Seq(Byte) /\ 4 \in 1..Len(header)
      BY <1>1 DEF TypeOK
    <2> QED
      BY <2>1, Element
  <1>5. buf \in Seq(Byte) /\ NextByte.byte \in Byte /\ buf' = [buf EXCEPT ![i + 1] = NextByte.byte]
    BY <1>1, NextByteType DEF DataByte, TypeOK
  <1>6. buf' \in Seq(Byte) /\ Len(buf') = Len(buf)
    <2>1. i + 1 \in 1..Len(buf)
      BY <1>1, <1>3, <1>5
    <2> QED
      BY <1>5, <2>1, ExceptSeq
  <1>7. TypeOK'
    BY <1>2, <1>3, <1>6 DEF DataByte, TypeOK, given
  <1>8. OffsetInv'
    BY <1>1, <1>2, <1>3, <1>4 DEF DataByte, OffsetInv, given
  <1>9. UnreadIsIntact'
    <2>1. ASSUME NEW k \in offset'..(rx_length' - 1) PROVE buf'[k + 1] = line'.bytes[k + 1]
      <3>1. rx_length' = rx_length /\ line' = line /\ rx_length \in 0..Len(buf)
        BY DEF DataByte, given, TypeOK
      <3>2. k \in offset..(rx_length - 1) /\ k + 1 # i + 1 /\ k + 1 \in 1..Len(buf)
        BY <1>2, <1>3, <3>1
      <3>3. buf[k + 1] = line.bytes[k + 1]
        BY <1>1, <3>2 DEF UnreadIsIntact, At
      <3> QED
        BY <1>5, <3>1, <3>2, <3>3
    <2> QED
      BY <2>1 DEF UnreadIsIntact, At
  <1> QED
    BY <1>7, <1>8, <1>9

\* The checksum is the last thing read.
LEMMA TailStep == ASSUME IInv, CheckTail PROVE IInv'
  <1> USE DEF IInv
  <1>1. pc = "checksum" /\ offset + 1 < Len(buf)
    BY RoomToRead DEF CheckTail, InBuffer
  <1>2. /\ offset' \in Nat /\ offset' >= offset + 1 /\ checksum' \in Byte
    BY <1>1, ConsumeType DEF CheckTail
  <1>3. ret' \in Int
    BY DEF CheckTail, Verdict, ERR_CRC_MISMATCH, ERR_MISSING_STOP,
           ERR_EXECUTION_FAILURE, NO_ERROR
  <1>4. TypeOK'
    BY <1>2, <1>3 DEF CheckTail, TypeOK, given
  <1>5. OffsetInv'
    BY DEF CheckTail, OffsetInv
  <1>6. offset \in Nat
    BY DEF TypeOK
  <1>7. UnreadIsIntact'
    BY <1>1, <1>2, <1>6, StillIntact DEF CheckTail, given
  <1> QED
    BY <1>4, <1>5, <1>7

\* Steps that only look at the header or return a result.
LEMMA DecideStep == ASSUME IInv, HeaderDone \/ DataDone PROVE IInv'
  <1> USE DEF IInv
  <1>1. UNCHANGED <<line, expected_data_length, buf, offset, checksum, rx_length, header, i>>
    BY DEF HeaderDone, DataDone, Return, given
  <1>2. pc' \in {"data", "checksum", "done"} /\ ret' \in Int /\ pc # "receive"
    BY DEF HeaderDone, DataDone, Return, TypeOK, ERR_FRAME_TOO_LONG, ERR_ENCODING_ERROR
  <1>3. TypeOK'
    BY <1>1, <1>2 DEF TypeOK
  <1>4. expected_data_length \in Nat
    BY InplaceAssumption, ByteIsNat DEF TypeOK
  <1>5. OffsetInv'
    <2>1. CASE pc' = "done"
      BY <2>1 DEF OffsetInv
    <2>2. CASE HeaderDone /\ pc' # "done"
      <3>1. pc = "header" /\ pc' = "data" /\ Len(header) = 4 /\ ~(expected_data_length < header[4])
        BY <2>2 DEF HeaderDone, Return
      <3>2. header[4] \in Nat
        <4>1. header \in Seq(Byte) /\ 4 \in 1..Len(header)
          BY <3>1 DEF TypeOK
        <4> QED
          BY <4>1, Element
      <3> QED
        BY <1>1, <1>4, <3>1, <3>2 DEF OffsetInv
    <2>3. CASE DataDone /\ pc' # "done"
      <3>1. pc = "data" /\ pc' = "checksum"
        BY <2>3 DEF DataDone, Return
      <3> QED
        BY <1>1, <3>1 DEF OffsetInv
    <2> QED
      BY <2>1, <2>2, <2>3
  <1>6. UnreadIsIntact'
    BY <1>1, <1>2 DEF UnreadIsIntact, At
  <1> QED
    BY <1>3, <1>5, <1>6

-----------------------------------------------------------------------------

\* The invariant holds in every reachable state.
THEOREM Invariance == Spec => []IInv
  <1>1. Init => IInv
    <2> SUFFICES ASSUME Init PROVE IInv
      OBVIOUS
    <2>1. line.bytes \in Seq(Byte) /\ buf \in Seq(Byte) /\ 0 \in Byte
      <3>1. line \in Deliveries /\ buf \in Stale
        BY DEF Init
      <3>2. line.bytes \in Seq(Byte)
        BY <3>1, InplaceAssumption, DeliveryFacts
      <3> QED
        BY <3>1, <3>2, InplaceAssumption DEF Byte
    <2>2. Len(buf) \in Nat
      BY <2>1
    <2>3. TypeOK
      BY <2>1, <2>2 DEF Init, TypeOK, NO_ERROR
    <2> QED
      BY <2>3 DEF Init, IInv, OffsetInv, UnreadIsIntact
  <1>2. IInv /\ [Next]_vars => IInv'
    <2> SUFFICES ASSUME IInv, [Next]_vars PROVE IInv'
      OBVIOUS
    <2>1. CASE UNCHANGED vars
      BY <2>1 DEF vars, IInv, TypeOK, OffsetInv, UnreadIsIntact, At
    <2> QED
      BY <2>1, ReceiveStep, HeaderStep, DecideStep, DataStep, TailStep DEF Next
  <1> QED
    BY <1>1, <1>2, PTL DEF Spec

\* Buffer, header, checksum and indices are well typed in every reachable state.
THEOREM TypeCorrect == Spec => []TypeOK
  BY Invariance, PTL DEF IInv

\* Every read is within the caller's buffer, although the header and checksum
\* are read without looking at the length of the received frame.
THEOREM ReadsWithinBuffer == Spec => []InBuffer
  <1>1. IInv => InBuffer
    BY RoomToRead DEF IInv
  <1> QED
    BY <1>1, Invariance, PTL

\* Unread bytes are never overwritten by the data written in place.
THEOREM WritingStaysBehind == Spec => []UnreadIsIntact
  BY Invariance, PTL DEF IInv

-----------------------------------------------------------------------------
(* The result of the function.                                             *)

\* what was received, and its decoding, position by position
F == Prefix(line.bytes, RxRequest(expected_data_length))

\* the decoding of what was received, position by position
E == FlipDecoding(F)

\* The results that mean that a response was received.
Accepted == {NO_ERROR, ERR_EXECUTION_FAILURE}

\* No response ends anywhere in what was received.
NoResponse == \A e : ~ResponseAt(E, F, expected_data_length, e)

\* header and data read so far
stored == header \o SubSeq(buf, 1, i)

\* what the caller is given is the one response in the frame
Delivered ==
    \E e : \E crc \in Byte : /\ ResponseAt(E, F, expected_data_length, e)
                            /\ E[e - 1].out = Append(stored, crc)

\* The inductive invariant: while the offset is within the received bytes, header
\* and data so far are the decoding of the bytes before it and checksum is their
\* sum; once it is behind them, they ended within the header.
DecodeInv ==
    /\ line \in Deliveries
    /\ pc = "receive" => checksum = 0
    /\ pc \in {"header", "data", "checksum"} =>
        /\ rx_length = Len(F) /\ rx_length >= 1 /\ F[1] = SHDLC_START
        /\ offset <= rx_length =>
               E[offset].out = stored /\ ~E[offset].esc /\ checksum = Uint8(SumBytes(stored))
        /\ offset > rx_length => i = 0 /\ Len(E[rx_length].out) < 4
    /\ pc = "checksum" => i = header[4]

\* A result other than the two that accept says that there is no response.
ResultInv ==
    pc = "done" =>
        IF ret \in Accepted
        THEN /\ Delivered /\ Len(header) = 4 /\ i = header[4] /\ i <= Len(buf)
             /\ ret = IF StateError(header[3]) THEN ERR_EXECUTION_FAILURE ELSE NO_ERROR
        ELSE NoResponse

\* The received bytes are a string of bytes.
LEMMA FrameType == ASSUME IInv PROVE F \in Seq(Byte) /\ expected_data_length \in Nat
  <1>1. expected_data_length \in Nat
    BY InplaceAssumption, ByteIsNat DEF IInv, TypeOK
  <1>2. RxRequest(expected_data_length) \in Nat
    BY <1>1 DEF RxRequest
  <1> QED
    BY <1>1, <1>2, PrefixFacts DEF F, IInv, TypeOK

\* The data written so far is part of the buffer.
LEMMA StoredType ==
  ASSUME IInv, pc \in {"header", "data", "checksum"}
  PROVE  /\ header \in Seq(Byte) /\ SubSeq(buf, 1, i) \in Seq(Byte) /\ stored \in Seq(Byte)
         /\ i \in 0..(Len(buf) - 1) /\ Len(SubSeq(buf, 1, i)) = i
         /\ Len(stored) = Len(header) + i /\ offset \in 1..Len(buf)
  <1>1. /\ buf \in Seq(Byte) /\ header \in Seq(Byte) /\ i \in Nat /\ offset \in Nat
        /\ offset >= 1 + Len(header) + i /\ offset + 1 < Len(buf)
    BY RoomToRead DEF IInv, TypeOK, OffsetInv, InBuffer
  <1>2. Len(header) \in Nat /\ Len(buf) \in Nat
    BY <1>1
  <1>3. i \in 0..(Len(buf) - 1) /\ i \in 0..Len(buf) /\ offset \in 1..Len(buf)
    BY <1>1, <1>2
  <1>4. SubSeq(buf, 1, i) \in Seq(Byte) /\ Len(SubSeq(buf, 1, i)) = i
    BY <1>1, <1>3, FirstPart
  <1>5. stored \in Seq(Byte) /\ Len(stored) = Len(header) + Len(SubSeq(buf, 1, i))
    BY <1>1, <1>4, JoinType DEF stored
  <1> QED
    BY <1>1, <1>3, <1>4, <1>5

\* Writing a byte behind the first n extends them.
LEMMA WrittenPart ==
  ASSUME NEW s \in Seq(Byte), NEW n \in 0..(Len(s) - 1), NEW b \in Byte,
         NEW t, t = [s EXCEPT ![n + 1] = b]
  PROVE  SubSeq(t, 1, n + 1) = Append(SubSeq(s, 1, n), b)
  <1>1. n + 1 \in 1..Len(s) /\ n + 1 \in 0..Len(s) /\ n \in 0..Len(s)
    OBVIOUS
  <1>2. t \in Seq(Byte) /\ Len(t) = Len(s)
    BY <1>1, ExceptSeq
  <1>3. \A k \in 1..(n + 1) : t[k] = IF k = n + 1 THEN b ELSE s[k]
    BY <1>1
  <1> DEFINE u == SubSeq(t, 1, n + 1)
             w == SubSeq(s, 1, n)
             v == Append(w, b)
  <1>4. u \in Seq(Byte) /\ Len(u) = n + 1 /\ \A k \in 1..(n + 1) : u[k] = t[k]
    BY <1>1, <1>2, FirstPart
  <1>5. w \in Seq(Byte) /\ Len(w) = n /\ \A k \in 1..n : w[k] = s[k]
    BY <1>1, FirstPart
  <1>6. v \in Seq(Byte) /\ Len(v) = n + 1
    <2> HIDE DEF w
    <2> QED
      BY <1>5
  <1>7. \A k \in 1..(n + 1) : v[k] = IF k = n + 1 THEN b ELSE s[k]
    <2> HIDE DEF w
    <2> QED
      BY <1>5
  <1> HIDE DEF u, v
  <1>8. u = v
    BY <1>3, <1>4, <1>6, <1>7, SameString
  <1> QED
    BY <1>8 DEF u, v

\* What the decoding rests on while the frame is read.
LEMMA Decoded ==
  ASSUME IInv, DecodeInv, pc \in {"header", "data", "checksum"}
  PROVE  /\ F \in Seq(Byte) /\ Run(E, F, Flip) /\ Flip \in [Byte -> Byte]
         /\ rx_length = Len(F) /\ rx_length \in 1..Len(F) /\ F[1] = SHDLC_START
         /\ \A k \in offset..(rx_length - 1) : At(k) = F[k + 1]
  <1>1. F \in Seq(Byte) /\ rx_length = Len(F) /\ rx_length >= 1 /\ F[1] = SHDLC_START
    BY FrameType DEF DecodeInv
  <1>2. F # <<>> /\ rx_length \in 1..Len(F)
    BY <1>1
  <1>3. Run(E, F, Flip)
    BY <1>1, <1>2, FlipRun DEF E
  <1>4. Flip \in [Byte -> Byte]
    BY UnescapeType DEF Flip
  <1>5. \A k \in offset..(rx_length - 1) : At(k) = F[k + 1]
    <2>1. /\ \A k \in offset..(rx_length - 1) : At(k) = line.bytes[k + 1]
          /\ offset \in Nat
      BY DEF IInv, UnreadIsIntact, TypeOK
    <2>2. \A k \in 1..Len(F) : F[k] = line.bytes[k]
      <3>1. RxRequest(expected_data_length) \in Nat /\ line.bytes \in Seq(Byte)
        BY FrameType DEF RxRequest, IInv, TypeOK
      <3> QED
        BY <3>1, PrefixFacts DEF F
    <2>3. \A k \in offset..(rx_length - 1) : k + 1 \in 1..Len(F)
      BY <1>1, <2>1
    <2> QED
      BY <2>1, <2>2, <2>3
  <1> QED
    BY <1>1, <1>2, <1>3, <1>4, <1>5

\* Destuffing the next byte is one or two steps of the decoding, unless the
\* received bytes end before.
LEMMA NextDecodes ==
  ASSUME IInv, DecodeInv, pc \in {"header", "data", "checksum"}, offset <= rx_length,
         NEW q, q = offset + NextByte.width
  PROVE  /\ q <= rx_length =>
                /\ q \in 1..Len(F) /\ ~E[q].esc
                /\ E[q].out = Append(stored, NextByte.byte)
         /\ q > rx_length => E[rx_length].out = stored
  <1>1. /\ F \in Seq(Byte) /\ Run(E, F, Flip) /\ Flip \in [Byte -> Byte]
        /\ rx_length = Len(F) /\ rx_length \in 1..Len(F)
        /\ \A k \in offset..(rx_length - 1) : At(k) = F[k + 1]
    BY Decoded
  <1>2. /\ E[offset].out = stored /\ ~E[offset].esc
        /\ offset \in Nat /\ offset >= 1 /\ offset \in 1..Len(F)
    BY <1>1, StoredType DEF DecodeInv, IInv, TypeOK
  <1>3. E[offset] \in Decoding
    BY <1>1, <1>2, RunType
  <1>4. CASE offset = rx_length
    <2>1. NextByte.width \in {1, 2}
      BY NextByteType, RoomToRead DEF IInv, InBuffer
    <2>2. q > rx_length
      BY <1>1, <1>4, <2>1
    <2> QED
      BY <1>1, <1>2, <1>4, <2>2
  <1>5. CASE offset < rx_length /\ At(offset) # ESC
    <2>1. NextByte.width = 1 /\ NextByte.byte = At(offset)
      BY <1>5 DEF NextByte
    <2>2. offset \in 1..(Len(F) - 1) /\ F[offset + 1] = At(offset)
      BY <1>1, <1>2, <1>5
    <2>3. ~E[offset + 1].esc /\ E[offset + 1].out = Append(E[offset].out, F[offset + 1])
      BY <1>1, <1>2, <1>3, <1>5, <2>2, RunEmit, SMTT(40)
    <2>4. q = offset + 1 /\ q \in 1..Len(F) /\ ~(q > rx_length)
      BY <1>1, <2>1, <2>2
    <2> QED
      BY <1>2, <2>1, <2>2, <2>3, <2>4
  <1>6. CASE offset < rx_length /\ At(offset) = ESC
    <2>1. NextByte.width = 2 /\ NextByte.byte = FlipBit5(At(offset + 1))
      BY <1>6 DEF NextByte
    <2>2. offset \in 1..(Len(F) - 1) /\ F[offset + 1] = ESC
      BY <1>1, <1>2, <1>6
    <2> DEFINE p == offset + 1
    <2>3. E[p].esc /\ E[p].out = stored
      BY <1>1, <1>2, <1>3, <2>2, RunEscape
    <2>4. E[p] \in Decoding
      BY <1>1, <1>3, <2>2, RunStep
    <2>5. p \in Nat /\ p \in 1..Len(F) /\ q = p + 1
      BY <1>2, <2>1, <2>2
    <2>6. p \in offset..(rx_length - 1) => At(p) = F[p + 1] /\ p \in 1..(Len(F) - 1)
      BY <1>1, <1>2
    <2>7. p < rx_length => p \in offset..(rx_length - 1)
      BY <1>1, <1>2
    <2>8. NextByte.byte = FlipBit5(At(p))
      BY <2>1
    <2> HIDE DEF p
    <2>9. CASE p = rx_length
      <3>1. q > rx_length
        BY <2>5, <2>9
      <3> QED
        BY <1>1, <2>3, <2>5, <2>9, <3>1
    <2>10. CASE p < rx_length
      <3>1. p \in 1..(Len(F) - 1) /\ F[p + 1] = At(p) /\ F[p + 1] \in Byte
        BY <1>1, <2>5, <2>6, <2>7, <2>10
      <3>2. ~E[p + 1].esc /\ E[p + 1].out = Append(E[p].out, Flip[F[p + 1]])
        BY <1>1, <2>3, <2>4, <3>1, RunEmit
      <3>3. Flip[F[p + 1]] = NextByte.byte
        BY <2>8, <3>1 DEF Flip
      <3>4. q = p + 1 /\ q \in 1..Len(F) /\ ~(q > rx_length)
        BY <1>1, <2>5, <3>1
      <3> QED
        BY <2>3, <3>2, <3>3, <3>4
    <2> QED
      BY <1>1, <2>5, <2>9, <2>10
  <1> QED
    BY <1>1, <1>2, <1>4, <1>5, <1>6

\* A byte that is stored takes its part in decoding and sum.
LEMMA ConsumeDecodes ==
  ASSUME IInv, DecodeInv, pc \in {"header", "data", "checksum"}, Consume,
         NEW new, new = Append(stored, NextByte.byte)
  PROVE  /\ offset' <= rx_length =>
                /\ offset <= rx_length /\ offset' \in 1..Len(F)
                /\ E[offset'].out = new /\ ~E[offset'].esc
                /\ checksum' = Uint8(SumBytes(new))
         /\ offset' > rx_length =>
                \/ offset <= rx_length /\ E[rx_length].out = stored
                \/ offset > rx_length /\ Len(E[rx_length].out) < 4
         /\ offset \in Nat /\ offset' \in Nat /\ offset < offset' /\ rx_length \in Nat
  <1>1. NextByte.byte \in Byte /\ NextByte.width \in {1, 2} /\ NextByte.byte \in Nat
    BY NextByteType, RoomToRead, ByteIsNat DEF IInv, InBuffer
  <1>2. /\ offset' = offset + NextByte.width /\ checksum' = Uint8(checksum + NextByte.byte)
        /\ offset \in Nat /\ rx_length \in Nat
    BY DEF Consume, IInv, TypeOK
  <1>3. offset' \in Nat /\ offset < offset'
    BY <1>1, <1>2
  <1>4. ASSUME offset' <= rx_length
        PROVE  /\ offset <= rx_length /\ offset' \in 1..Len(F)
               /\ E[offset'].out = new /\ ~E[offset'].esc
               /\ checksum' = Uint8(SumBytes(new))
    <2>1. offset <= rx_length
      BY <1>2, <1>3, <1>4
    <2>2. offset' \in 1..Len(F) /\ E[offset'].out = new /\ ~E[offset'].esc
      BY <1>2, <1>4, <2>1, NextDecodes
    <2>3. checksum = Uint8(SumBytes(stored))
      BY <2>1 DEF DecodeInv
    <2>4. stored \in Seq(Byte)
      BY StoredType
    <2>5. SumBytes(new) = SumBytes(stored) + NextByte.byte /\ SumBytes(stored) \in Nat
      BY <1>1, <2>4, SummingSteps, SumOfConcat
    <2>6. checksum' = Uint8(SumBytes(new))
      BY <1>1, <1>2, <2>3, <2>5, Uint8Adds
    <2> QED
      BY <2>1, <2>2, <2>6
  <1>5. ASSUME offset' > rx_length
        PROVE  \/ offset <= rx_length /\ E[rx_length].out = stored
               \/ offset > rx_length /\ Len(E[rx_length].out) < 4
    <2>1. ASSUME offset <= rx_length PROVE E[rx_length].out = stored
      BY <1>2, <1>5, <2>1, NextDecodes
    <2>2. ASSUME offset > rx_length PROVE Len(E[rx_length].out) < 4
      BY <2>2 DEF DecodeInv
    <2> QED
      BY <1>2, <2>1, <2>2
  <1> QED
    BY <1>2, <1>3, <1>4, <1>5

\* What a step leaves alone keeps what it says about the frame.
LEMMA SameFrame ==
  ASSUME UNCHANGED <<line, expected_data_length>>
  PROVE  F' = F /\ E' = E /\ (NoResponse' <=> NoResponse)
  BY DEF F, E, NoResponse

\* Receiving decides only whether there is a start delimiter.
LEMMA ReceiveDecodes ==
  ASSUME IInv, DecodeInv, Receive PROVE DecodeInv' /\ ResultInv'
  <1>1. F' = F /\ E' = E /\ (NoResponse' <=> NoResponse)
    BY SameFrame DEF Receive, given
  <1>2. F \in Seq(Byte) /\ rx_length' = Len(F) /\ line' \in Deliveries
    BY FrameType DEF Receive, DecodeInv, given, F
  <1>3. CASE F # <<>> /\ F[1] = SHDLC_START
    <2>1. /\ pc' = "header" /\ offset' = 1 /\ header' = <<>> /\ i' = 0 /\ checksum' = 0
      BY <1>3 DEF Receive, IInv, OffsetInv, DecodeInv, F
    <2>2. E[1].out = <<>> /\ ~E[1].esc
      BY <1>2, <1>3, FlipRun DEF E, Run, Nothing
    <2>3. Len(F) >= 1 /\ Len(F) \in Nat
      BY <1>2, <1>3
    <2>4. stored' = <<>>
      <3>1. SubSeq(buf', 1, 0) = <<>> /\ <<>> \o <<>> = <<>>
        OBVIOUS
      <3> QED
        BY <2>1, <3>1 DEF stored
    <2>5. checksum' = Uint8(SumBytes(stored'))
      BY <2>1, <2>4, SummingSteps DEF Uint8
    <2>6. ~(offset' > rx_length')
      BY <1>2, <2>1, <2>3
    <2> QED
      BY <1>1, <1>2, <1>3, <2>1, <2>2, <2>3, <2>4, <2>5, <2>6 DEF DecodeInv, ResultInv
  <1>4. CASE ~(F # <<>> /\ F[1] = SHDLC_START)
    <2>1. pc' = "done" /\ ret' = ERR_MISSING_START
      BY <1>4 DEF Receive, F
    <2>2. NoResponse
      BY <1>2, <1>4 DEF NoResponse, ResponseAt
    <2> QED
      BY <1>1, <1>2, <2>1, <2>2 DEF DecodeInv, ResultInv, Accepted, ERR_MISSING_START,
                                    NO_ERROR, ERR_EXECUTION_FAILURE
  <1> QED
    BY <1>3, <1>4

\* A header byte is decoded as it is read.
LEMMA HeaderDecodes ==
  ASSUME IInv, DecodeInv, HeaderByte PROVE DecodeInv' /\ ResultInv'
  <1>1. /\ pc = "header" /\ Len(header) < 4 /\ i = 0 /\ Consume
        /\ header' = Append(header, NextByte.byte)
        /\ UNCHANGED <<line, expected_data_length, pc, buf, rx_length, i>>
    BY DEF HeaderByte, given, IInv, OffsetInv
  <1>2. NextByte.byte \in Byte /\ header \in Seq(Byte) /\ header' \in Seq(Byte)
    BY <1>1, NextByteType, RoomToRead DEF IInv, InBuffer, TypeOK
  <1>3. stored = header /\ stored' = header'
    <2>1. SubSeq(buf, 1, 0) = <<>>
      OBVIOUS
    <2>2. header \o <<>> = header /\ header' \o <<>> = header'
      BY <1>2
    <2> QED
      BY <1>1, <2>1, <2>2 DEF stored
  <1>4. stored' = Append(stored, NextByte.byte)
    BY <1>1, <1>3
  <1>5. F' = F /\ E' = E
    BY <1>1, SameFrame
  <1>6. /\ offset' <= rx_length =>
                /\ E[offset'].out = stored' /\ ~E[offset'].esc
                /\ checksum' = Uint8(SumBytes(stored'))
        /\ offset' > rx_length =>
                \/ offset <= rx_length /\ E[rx_length].out = stored
                \/ offset > rx_length /\ Len(E[rx_length].out) < 4
    BY <1>1, <1>4, ConsumeDecodes
  <1>7. offset' > rx_length => Len(E[rx_length].out) < 4
    BY <1>1, <1>3, <1>6
  <1> QED
    BY <1>1, <1>5, <1>6, <1>7 DEF DecodeInv, ResultInv

\* So is a data byte, which is written behind the data before it.
LEMMA DataDecodes ==
  ASSUME IInv, DecodeInv, DataByte PROVE DecodeInv' /\ ResultInv'
  <1>1. /\ pc = "data" /\ Consume /\ i' = i + 1 /\ offset < rx_length - 2
        /\ buf' = [buf EXCEPT ![i + 1] = NextByte.byte]
        /\ UNCHANGED <<line, expected_data_length, pc, rx_length, header>>
    BY DEF DataByte, given, More
  <1>2. NextByte.byte \in Byte /\ NextByte.width \in {1, 2} /\ buf \in Seq(Byte)
    BY <1>1, NextByteType, RoomToRead DEF IInv, InBuffer, TypeOK
  <1>3. /\ header \in Seq(Byte) /\ SubSeq(buf, 1, i) \in Seq(Byte)
        /\ i \in 0..(Len(buf) - 1)
    BY <1>1, StoredType
  <1>4. stored' = Append(stored, NextByte.byte)
    <2>1. SubSeq(buf', 1, i + 1) = Append(SubSeq(buf, 1, i), NextByte.byte)
      BY <1>1, <1>2, <1>3, WrittenPart
    <2> QED
      BY <1>1, <1>2, <1>3, <2>1, AppendBehind, SMTT(40) DEF stored
  <1>5. F' = F /\ E' = E
    BY <1>1, SameFrame
  <1>6. /\ offset' <= rx_length =>
                /\ E[offset'].out = stored' /\ ~E[offset'].esc
                /\ checksum' = Uint8(SumBytes(stored'))
    BY <1>1, <1>4, ConsumeDecodes
  <1>7. offset' <= rx_length /\ ~(offset' > rx_length)
    BY <1>1, <1>2 DEF Consume, IInv, TypeOK
  <1> QED
    BY <1>1, <1>5, <1>6, <1>7 DEF DecodeInv, ResultInv

\* What the decoding says of the header and the data stored so far.
LEMMA StoredLength ==
  ASSUME IInv, pc \in {"header", "data", "checksum"}, Len(header) = 4
  PROVE  /\ stored[4] = header[4] /\ header[4] \in Nat /\ header[4] \in Byte
         /\ Len(stored) = 4 + i /\ i \in Nat
  <1>1. /\ header \in Seq(Byte) /\ SubSeq(buf, 1, i) \in Seq(Byte)
        /\ Len(stored) = Len(header) + i /\ i \in Nat
    BY StoredType DEF IInv, TypeOK
  <1>2. stored[4] = header[4] /\ header[4] \in Nat
    BY <1>1, FourthByte DEF stored
  <1>3. header[4] \in Byte
    BY <1>1, HeaderSplit
  <1> QED
    BY <1>1, <1>2, <1>3

\* Received bytes that ended within the header are no response.
LEMMA OverrunRejects ==
  ASSUME IInv, DecodeInv, pc \in {"header", "data", "checksum"}, offset > rx_length
  PROVE  NoResponse
  <1>1. /\ F \in Seq(Byte) /\ Run(E, F, Flip) /\ Flip \in [Byte -> Byte]
        /\ rx_length = Len(F) /\ rx_length \in 1..Len(F)
    BY Decoded
  <1>2. Len(E[rx_length].out) < 4
    BY DEF DecodeInv
  <1>3. rx_length >= Len(F) - 2
    BY <1>1
  <1> QED
    BY <1>1, <1>2, <1>3, CutHeader DEF NoResponse

\* A header that announces more data than the caller has room for is no response's.
LEMMA HeaderDoneDecodes ==
  ASSUME IInv, DecodeInv, HeaderDone PROVE DecodeInv' /\ ResultInv'
  <1>1. /\ pc = "header" /\ Len(header) = 4
        /\ UNCHANGED <<line, expected_data_length, buf, offset, checksum, rx_length, header, i>>
    BY DEF HeaderDone, Return, given
  <1>2. /\ F \in Seq(Byte) /\ Run(E, F, Flip) /\ Flip \in [Byte -> Byte]
        /\ rx_length = Len(F) /\ offset \in Nat /\ offset >= 1
    BY <1>1, Decoded, StoredType DEF IInv, TypeOK
  <1>3. /\ stored[4] = header[4] /\ header[4] \in Nat /\ Len(stored) = 4 + i /\ i \in Nat
    BY <1>1, StoredLength
  <1>4. F' = F /\ E' = E /\ (NoResponse' <=> NoResponse) /\ stored' = stored
    BY <1>1, SameFrame DEF stored
  <1>5. CASE expected_data_length < header[4]
    <2>1. pc' = "done" /\ ret' = ERR_FRAME_TOO_LONG
      BY <1>5 DEF HeaderDone, Return
    <2>2. NoResponse
      <3>1. CASE offset > rx_length
        BY <1>1, <3>1, OverrunRejects
      <3>2. CASE offset <= rx_length
        <4>1. offset \in 1..Len(F) /\ E[offset].out = stored
          BY <1>1, <1>2, <3>2 DEF DecodeInv
        <4>2. Len(E[offset].out) >= 4 /\ E[offset].out[4] = header[4]
          BY <1>3, <4>1
        <4>3. expected_data_length \in Nat
          BY FrameType
        <4> QED
          BY <1>2, <1>3, <1>5, <4>1, <4>2, <4>3, OverLimit DEF NoResponse
      <3> QED
        BY <1>2, <3>1, <3>2
    <2> QED
      BY <1>1, <1>4, <2>1, <2>2 DEF DecodeInv, ResultInv, Accepted, ERR_FRAME_TOO_LONG,
                                    NO_ERROR, ERR_EXECUTION_FAILURE
  <1>6. CASE ~(expected_data_length < header[4])
    <2>1. pc' = "data"
      BY <1>6 DEF HeaderDone
    <2> QED
      BY <1>1, <1>4, <2>1 DEF DecodeInv, ResultInv
  <1> QED
    BY <1>5, <1>6

\* Data that ends early is no response's.
LEMMA DataDoneDecodes ==
  ASSUME IInv, DecodeInv, DataDone PROVE DecodeInv' /\ ResultInv'
  <1>1. /\ pc = "data" /\ Len(header) = 4 /\ i <= header[4]
        /\ ~(i < header[4] /\ offset < rx_length - 2)
        /\ UNCHANGED <<line, expected_data_length, buf, offset, checksum, rx_length, header, i>>
    BY DEF DataDone, Return, given, IInv, OffsetInv, More
  <1>2. /\ F \in Seq(Byte) /\ Run(E, F, Flip) /\ Flip \in [Byte -> Byte]
        /\ rx_length = Len(F) /\ rx_length \in Nat /\ offset \in Nat /\ offset >= 1
    BY <1>1, Decoded, StoredType DEF IInv, TypeOK
  <1>3. /\ stored[4] = header[4] /\ header[4] \in Nat /\ Len(stored) = 4 + i /\ i \in Nat
    BY <1>1, StoredLength
  <1>4. F' = F /\ E' = E /\ (NoResponse' <=> NoResponse) /\ stored' = stored
    BY <1>1, SameFrame DEF stored
  <1>5. CASE i < header[4]
    <2>1. pc' = "done" /\ ret' = ERR_ENCODING_ERROR
      BY <1>5 DEF DataDone, Return
    <2>2. NoResponse
      <3>1. CASE offset > rx_length
        BY <1>1, <3>1, OverrunRejects
      <3>2. CASE offset <= rx_length
        <4>1. offset \in 1..Len(F) /\ E[offset].out = stored
          BY <1>1, <1>2, <3>2 DEF DecodeInv
        <4>2. /\ Len(E[offset].out) >= 4 /\ E[offset].out[4] = header[4]
              /\ Len(E[offset].out) < 4 + header[4]
          BY <1>3, <1>5, <4>1
        <4>3. offset >= Len(F) - 2
          BY <1>1, <1>2, <1>5
        <4> QED
          BY <1>2, <1>3, <4>1, <4>2, <4>3, CutData DEF NoResponse
      <3> QED
        BY <1>2, <3>1, <3>2
    <2> QED
      BY <1>1, <1>4, <2>1, <2>2 DEF DecodeInv, ResultInv, Accepted, ERR_ENCODING_ERROR,
                                    NO_ERROR, ERR_EXECUTION_FAILURE
  <1>6. CASE ~(i < header[4])
    <2>1. pc' = "checksum" /\ i = header[4]
      BY <1>1, <1>3, <1>6 DEF DataDone
    <2> QED
      BY <1>1, <1>4, <2>1 DEF DecodeInv, ResultInv
  <1> QED
    BY <1>5, <1>6

\* A response ends behind the checksum, if the sum and the next byte are right,
\* and nowhere else.
LEMMA TailFits ==
  ASSUME IInv, DecodeInv, CheckTail, offset' <= rx_length
  PROVE  /\ \A e : ResponseAt(E, F, expected_data_length, e) => e = offset' + 1
         /\ ResponseAt(E, F, expected_data_length, offset' + 1)
               <=> checksum' = 255 /\ offset' < rx_length /\ At(offset') = SHDLC_STOP
         /\ E[offset'].out = Append(stored, NextByte.byte)
  <1> DEFINE q == offset'
             out == Append(stored, NextByte.byte)
  <1>1. /\ pc = "checksum" /\ Consume /\ i = header[4] /\ Len(header) = 4
        /\ header[4] <= expected_data_length
    BY DEF CheckTail, DecodeInv, IInv, OffsetInv
  <1>2. /\ F \in Seq(Byte) /\ Run(E, F, Flip) /\ Flip \in [Byte -> Byte]
        /\ rx_length = Len(F) /\ F[1] = SHDLC_START
        /\ \A k \in offset..(rx_length - 1) : At(k) = F[k + 1]
    BY <1>1, Decoded
  <1>3. /\ q \in 1..Len(F) /\ E[q].out = out /\ ~E[q].esc
        /\ checksum' = Uint8(SumBytes(out))
        /\ offset \in Nat /\ q \in Nat /\ offset < q /\ rx_length \in Nat
    BY <1>1, ConsumeDecodes
  <1>4. NextByte.byte \in Byte /\ stored \in Seq(Byte)
    BY <1>1, NextByteType, RoomToRead, StoredType DEF IInv, InBuffer
  <1>5. /\ stored[4] = header[4] /\ header[4] \in Nat /\ Len(stored) = 4 + i /\ i \in Nat
    BY <1>1, StoredLength
  <1>6. Len(out) = 5 + i /\ out[4] = i /\ out \in Seq(Byte)
    BY <1>1, <1>4, <1>5
  <1>7. checksum' = 255 <=> SumBytes(out) % 256 = 255
    BY <1>3 DEF Uint8
  <1> HIDE DEF q, out
  <1>8. (q + 1) - 1 = q
    BY <1>3
  <1>9. q < rx_length => At(q) = F[q + 1]
    <2>1. q < rx_length => q \in offset..(rx_length - 1)
      BY <1>3
    <2> QED
      BY <1>2, <2>1
  <1>10. ASSUME NEW e, ResponseAt(E, F, expected_data_length, e) PROVE e = q + 1
    <2>1. Len(E[q].out) >= 5 /\ E[q].out[4] = Len(E[q].out) - 5
      BY <1>3, <1>5, <1>6
    <2> QED
      BY <1>2, <1>3, <1>10, <2>1, OnlyEnd
  <1>11. ResponseAt(E, F, expected_data_length, q + 1)
           <=> checksum' = 255 /\ q < rx_length /\ At(q) = SHDLC_STOP
    <2>1. q + 1 >= 7
      <3>1. Len(E[q].out) <= q - 1
        BY <1>2, <1>3, RunType
      <3> QED
        BY <1>3, <1>5, <1>6, <3>1
    <2>2. q + 1 \in 7..Len(F) <=> q < rx_length
      BY <1>2, <1>3, <2>1
    <2>3. Len(out) >= 5 /\ out[4] = Len(out) - 5 /\ out[4] <= expected_data_length
      BY <1>1, <1>5, <1>6
    <2> QED
      BY <1>2, <1>3, <1>7, <1>8, <1>9, <2>2, <2>3 DEF ResponseAt
  <1> QED
    BY <1>3, <1>10, <1>11 DEF q, out

\* If the received bytes end before the checksum there is no response.
LEMMA TailMissing ==
  ASSUME IInv, DecodeInv, CheckTail, offset' > rx_length
  PROVE  NoResponse
  <1>1. pc = "checksum" /\ Consume /\ i = header[4] /\ Len(header) = 4
    BY DEF CheckTail, DecodeInv, IInv, OffsetInv
  <1>2. /\ F \in Seq(Byte) /\ Run(E, F, Flip) /\ Flip \in [Byte -> Byte]
        /\ rx_length = Len(F) /\ rx_length \in 1..Len(F)
    BY <1>1, Decoded
  <1>3. CASE offset > rx_length
    BY <1>1, <1>3, OverrunRejects
  <1>4. CASE offset <= rx_length /\ E[rx_length].out = stored
    <2>1. /\ stored[4] = header[4] /\ header[4] \in Nat /\ Len(stored) = 4 + i /\ i \in Nat
      BY <1>1, StoredLength
    <2> DEFINE out == E[rx_length].out
    <2>2. Len(out) >= 4 /\ out[4] \in Nat /\ Len(out) < 5 + out[4]
      BY <1>1, <1>4, <2>1
    <2>3. rx_length >= Len(F)
      BY <1>2
    <2> QED
      BY <1>2, <2>2, <2>3, CutTail DEF NoResponse
  <1> QED
    BY <1>1, <1>3, <1>4, ConsumeDecodes

\* The checksum, escaped or not, is the next byte decoded.
LEMMA TailDecodes ==
  ASSUME IInv, DecodeInv, CheckTail PROVE DecodeInv' /\ ResultInv'
  <1>1. /\ pc = "checksum" /\ pc' = "done" /\ Consume /\ i = header[4] /\ Len(header) = 4
        /\ ret' = Verdict(checksum', offset')
        /\ UNCHANGED <<line, expected_data_length, buf, rx_length, header, i>>
    BY DEF CheckTail, DecodeInv, IInv, OffsetInv, given
  <1>2. F' = F /\ E' = E /\ (NoResponse' <=> NoResponse) /\ stored' = stored
    BY <1>1, SameFrame DEF stored
  <1>3. DecodeInv'
    BY <1>1 DEF DecodeInv
  <1>4. offset' \in Nat /\ rx_length \in Nat
    BY <1>1, ConsumeDecodes
  <1> DEFINE good == checksum' = 255 /\ offset' < rx_length /\ At(offset') = SHDLC_STOP
  <1>5. CASE good
    <2>1. ret' = IF StateError(header[3]) THEN ERR_EXECUTION_FAILURE ELSE NO_ERROR
      BY <1>1, <1>4, <1>5 DEF Verdict
    <2>2. /\ ResponseAt(E, F, expected_data_length, offset' + 1)
          /\ E[offset'].out = Append(stored, NextByte.byte)
      BY <1>4, <1>5, TailFits
    <2>3. NextByte.byte \in Byte /\ (offset' + 1) - 1 = offset'
      <3>1. \A n \in Nat : (n + 1) - 1 = n
        OBVIOUS
      <3>2. NextByte.byte \in Byte
        BY <1>1, NextByteType, RoomToRead DEF IInv, InBuffer
      <3> QED
        BY <1>4, <3>1, <3>2
    <2>4. \E e : \E crc \in Byte : /\ ResponseAt(E, F, expected_data_length, e)
                                  /\ E[e - 1].out = Append(stored, crc)
      BY <2>2, <2>3
    <2>5. Delivered'
      BY <1>1, <1>2, <2>4 DEF Delivered
    <2>6. i <= Len(buf)
      BY <1>1, StoredType DEF IInv, TypeOK
    <2> QED
      BY <1>1, <1>3, <2>1, <2>5, <2>6 DEF ResultInv, Accepted
  <1>6. CASE ~good
    <2>1. ret' \in {ERR_CRC_MISMATCH, ERR_MISSING_STOP}
      BY <1>1, <1>4, <1>6 DEF Verdict
    <2>2. NoResponse
      <3>1. CASE offset' > rx_length
        BY <3>1, TailMissing
      <3>2. CASE offset' <= rx_length
        BY <1>6, <3>2, TailFits DEF NoResponse
      <3> QED
        BY <1>4, <3>1, <3>2
    <2> QED
      BY <1>1, <1>2, <1>3, <2>1, <2>2 DEF ResultInv, Accepted, ERR_CRC_MISMATCH,
                                          ERR_MISSING_STOP, NO_ERROR, ERR_EXECUTION_FAILURE
  <1> QED
    BY <1>5, <1>6

\* Every step keeps the decoding and what the result says.
LEMMA DecodeInvariance == Spec => [](IInv /\ DecodeInv /\ ResultInv)
  <1>1. Init => DecodeInv /\ ResultInv
    BY DEF Init, DecodeInv, ResultInv
  <1>2. ASSUME IInv, DecodeInv, ResultInv, [Next]_vars PROVE DecodeInv' /\ ResultInv'
    <2>1. CASE Receive
      BY <1>2, <2>1, ReceiveDecodes
    <2>2. CASE HeaderByte
      BY <1>2, <2>2, HeaderDecodes
    <2>3. CASE HeaderDone
      BY <1>2, <2>3, HeaderDoneDecodes
    <2>4. CASE DataByte
      BY <1>2, <2>4, DataDecodes
    <2>5. CASE DataDone
      BY <1>2, <2>5, DataDoneDecodes
    <2>6. CASE CheckTail
      BY <1>2, <2>6, TailDecodes
    <2>7. CASE UNCHANGED vars
      <3>1. /\ UNCHANGED <<line, expected_data_length, pc, buf, offset, checksum, rx_length,
                           header, i, ret>>
            /\ F' = F /\ E' = E /\ stored' = stored /\ (NoResponse' <=> NoResponse)
        BY <2>7, SameFrame DEF vars, stored
      <3>2. DecodeInv'
        BY <1>2, <3>1 DEF DecodeInv
      <3>3. Delivered => Delivered'
        BY <3>1 DEF Delivered
      <3>4. ResultInv'
        BY <1>2, <3>1, <3>3 DEF ResultInv
      <3> QED
        BY <3>2, <3>4
    <2> QED
      BY <1>2, <2>1, <2>2, <2>3, <2>4, <2>5, <2>6, <2>7 DEF Next
  <1> QED
    BY <1>1, <1>2, Invariance, PTL DEF Spec

\* The function accepts exactly the byte strings of the reference, whatever an
\* earlier frame left in the buffer: bytes behind the received ones are read, but
\* they never make a response of what is none.
THEOREM AcceptsResponses == Spec => []AcceptsExactly
  <1>1. ASSUME IInv, ResultInv, pc = "done"
        PROVE  ret \in {NO_ERROR, ERR_EXECUTION_FAILURE}
                 <=> IsResponse(FlipBit5, F, expected_data_length)
    <2>1. F \in Seq(Byte)
      BY <1>1, FrameType
    <2>2. IsResponse(FlipBit5, F, expected_data_length)
            <=> \E e : ResponseAt(E, F, expected_data_length, e)
      BY <2>1, FlipResponse DEF E
    <2> QED
      BY <1>1, <2>2 DEF ResultInv, NoResponse, Delivered, Accepted
  <1>2. IInv /\ ResultInv => AcceptsExactly
    BY <1>1 DEF AcceptsExactly, F
  <1> QED
    BY <1>2, DecodeInvariance, PTL

\* Header, data and checksum, as they are delivered.
LEMMA StoredAndSum ==
  ASSUME header \in Seq(Byte), NEW data \in Seq(Byte), data = SubSeq(buf, 1, i), NEW crc \in Byte
  PROVE  Append(stored, crc) = header \o data \o <<crc>>
  <1>1. PICK u \in Seq(Byte) : u = header \o data
    BY JoinType
  <1>2. stored = u
    BY <1>1 DEF stored
  <1>3. Append(u, crc) = u \o <<crc>>
    BY ONLY u \in Seq(Byte), crc \in Byte
  <1> QED
    BY <1>1, <1>2, <1>3

\* A frame that arrives whole is accepted, with the header and the data the
\* sensor sent, whatever follows it and whatever the buffer held, for every
\* address, command, state and data that fit the caller's limit.
THEOREM AcceptsWhole == Spec => []WholeIsAccepted
  <1>1. ASSUME IInv, DecodeInv, ResultInv, pc = "done",
               line.damage \in {"none", "trailing"},
               Len(line.sent.data) <= expected_data_length
        PROVE  /\ ret = IF StateError(line.sent.state) THEN ERR_EXECUTION_FAILURE ELSE NO_ERROR
               /\ header = <<line.sent.addr, line.sent.cmd, line.sent.state,
                             Len(line.sent.data)>>
               /\ SubSeq(buf, 1, i) = line.sent.data
    <2> DEFINE r == line.sent
               head == <<r.addr, r.cmd, r.state, Len(r.data)>>
               e0 == Len(Response(r))
    <2>1. /\ IsAnswer(r) /\ IsPrefix(Response(r), line.bytes) /\ line.bytes \in Seq(Byte)
          /\ F \in Seq(Byte) /\ header \in Seq(Byte) /\ buf \in Seq(Byte)
          /\ expected_data_length \in Nat /\ Len(r.data) <= expected_data_length
      <3>1. IsDelivery(line)
        BY <1>1, InplaceAssumption DEF DecodeInv
      <3>2. IsAnswer(r) /\ IsPrefix(Response(r), line.bytes)
        BY <1>1, <3>1, DeliveryFacts
      <3> QED
        BY <1>1, <3>2, FrameType DEF IInv, TypeOK
    <2> HIDE DEF r
    <2>2. IsPrefix(Response(r), F)
      BY <2>1, WholeIsReceived DEF F
    <2>3. ResponseAt(E, F, expected_data_length, e0) /\ E[e0 - 1].out = Content(r)
      BY <2>1, <2>2, FlipFinds DEF E
    <2> HIDE DEF e0
    <2>4. /\ Len(header) = 4 /\ i = header[4]
          /\ ret = IF StateError(header[3]) THEN ERR_EXECUTION_FAILURE ELSE NO_ERROR
          /\ Delivered /\ i <= Len(buf) /\ i \in Nat
      BY <1>1, <2>3 DEF ResultInv, NoResponse, IInv, TypeOK
    <2>5. PICK e : \E crc \in Byte : /\ ResponseAt(E, F, expected_data_length, e)
                                     /\ E[e - 1].out = Append(stored, crc)
      BY <2>4 DEF Delivered
    <2>6. PICK crc \in Byte : E[e - 1].out = Append(stored, crc)
      BY <2>5
    <2>7. e = e0
      <3>1. ResponseAt(E, F, expected_data_length, e)
        BY <2>5
      <3>2. F # <<>>
        BY <3>1, <2>1 DEF ResponseAt
      <3>3. Run(E, F, Flip) /\ Flip \in [Byte -> Byte]
        BY <2>1, <3>2, FlipRun, UnescapeType DEF E, Flip
      <3> QED
        BY <2>1, <2>3, <3>1, <3>3, OnlyResponse
    <2>8. PICK data \in Seq(Byte) : data = SubSeq(buf, 1, i)
      <3>1. i \in 0..Len(buf)
        BY <2>1, <2>4
      <3> QED
        BY <2>1, <3>1, FirstPart
    <2>9. E[e - 1].out = header \o data \o <<crc>>
      BY <2>1, <2>6, <2>8, StoredAndSum
    <2>10. header = head /\ data = r.data
      <3>1. IsJoined(Content(r), header, data, <<crc>>)
        BY <2>3, <2>7, <2>9 DEF IsJoined
      <3> QED
        BY <2>1, <2>4, <3>1, ContentParts, Zenon
    <2> QED
      BY <2>4, <2>8, <2>10 DEF r
  <1>2. IInv /\ DecodeInv /\ ResultInv => WholeIsAccepted
    BY <1>1 DEF WholeIsAccepted, SentIsReturned
  <1> QED
    BY <1>2, DecodeInvariance, PTL

\* A response accepted with no error is the one the sensor sent, for every response,
\* wherever the frame was cut and whatever the buffer held behind it, whichever byte was
\* changed, and to whatever.
THEOREM DamageIsRefused == Spec => []AcceptedIsSent
  <1>1. ASSUME IInv, DecodeInv, ResultInv, pc = "done", ret = NO_ERROR, Noticeable(line),
               line.damage # "lost"
        PROVE  /\ header = <<line.sent.addr, line.sent.cmd, line.sent.state,
                             Len(line.sent.data)>>
               /\ SubSeq(buf, 1, i) = line.sent.data
    <2>1. IsDelivery(line) /\ header \in Seq(Byte) /\ buf \in Seq(Byte)
      BY <1>1, InplaceAssumption DEF IInv, TypeOK, DecodeInv
    <2>2. RxRequest(expected_data_length) \in Nat
      <3>1. expected_data_length \in Nat
        BY <1>1, FrameType
      <3> QED
        BY <3>1 DEF RxRequest
    <2>3. /\ Delivered /\ Len(header) = 4 /\ ~StateError(header[3])
          /\ i <= Len(buf) /\ i \in Nat
      BY <1>1 DEF ResultInv, Accepted, NO_ERROR, ERR_EXECUTION_FAILURE, IInv, TypeOK
    <2>4. PICK e : \E crc \in Byte : /\ ResponseAt(E, F, expected_data_length, e)
                                     /\ E[e - 1].out = Append(stored, crc)
      BY <2>3 DEF Delivered
    <2>5. PICK crc \in Byte : E[e - 1].out = Append(stored, crc)
      BY <2>4
    <2>6. PICK data \in Seq(Byte) : data = SubSeq(buf, 1, i)
      <3>1. i \in 0..Len(buf)
        BY <2>1, <2>3
      <3> QED
        BY <2>1, <3>1, FirstPart
    <2>7. E[e - 1].out = header \o data \o <<crc>>
      BY <2>1, <2>5, <2>6, StoredAndSum
    <2>8. E = DecodingOf(Flip, F)
      BY TwoDecodings DEF E
    <2>9. /\ ResponseAt(DecodingOf(Flip, F), F, expected_data_length, e)
          /\ IsJoined(DecodingOf(Flip, F)[e - 1].out, header, data, <<crc>>)
      BY <2>4, <2>7, <2>8 DEF IsJoined
    <2>10. F = Prefix(line.bytes, RxRequest(expected_data_length))
      BY DEF F
    <2>11. /\ header = <<line.sent.addr, line.sent.cmd, line.sent.state, Len(line.sent.data)>>
           /\ data = line.sent.data
      BY <1>1, <2>1, <2>2, <2>3, <2>9, <2>10, ReceivedIsSent, Zenon
    <2> QED
      BY <2>6, <2>11
  <1>2. IInv /\ DecodeInv /\ ResultInv => AcceptedIsSent
    BY <1>1 DEF AcceptedIsSent, SentIsReturned
  <1> QED
    BY <1>2, DecodeInvariance, PTL

=============================================================================
