--------------------------- MODULE ShdlcRx_proofs ---------------------------
(***************************************************************************)
(* sensirion_shdlc_rx never looks behind the bytes it received and never   *)
(* writes past the caller's buffers, for every line, every limit and every *)
(* content of its uninitialised stack buffer; and it accepts exactly what  *)
(* is a response within the limit, and of the deliveries that bring the    *)
(* whole answer every one.                                                 *)
(***************************************************************************)
EXTENDS ShdlcRx, ShdlcCodec_proofs

\* The inductive invariant: the loop condition keeps i two bytes before the
\* end as soon as a header byte is stored, and the header length was checked
\* against the caller's limit before the data loop begins.
LoopInv ==
    /\ pc \in {"header", "data", "tail"} => i >= 1
    /\ pc = "receive" => rxh = <<>> /\ data = <<>>
    /\ pc = "header" => data = <<>>
    /\ Len(rxh) > 0 => i <= len - 2
    /\ Len(rxh) <= 4
    /\ Len(data) <= max_data_len
    /\ pc \in {"data", "tail"} =>
           Len(rxh) = 4 /\ rxh[4] <= max_data_len /\ Len(data) <= rxh[4]

\* With it, no index leaves its array.
IInv == TypeOK /\ LoopInv

\* One round of either loop stores at most one byte more.
LEMMA StoreType ==
  ASSUME NEW out \in Seq(Byte), NEW b \in Byte
  PROVE  /\ Store(out, b) \in Seq(Byte)
         /\ Len(Store(out, b)) \in {Len(out), Len(out) + 1}
  <1>1. UnstuffByte(b) \in Byte
    BY UnescapeType
  <1> QED
    BY <1>1 DEF Store

\* What a read of the frame buffer gives is a byte, received or not.
LEMMA AtType ==
  ASSUME TypeOK, NEW k \in Nat, NEW b \in At(k) PROVE b \in Byte
  BY RxAssumption DEF At, TypeOK, len

\* The first part of a received string is a string of bytes.
LEMMA PrefixType ==
  ASSUME NEW s \in Seq(Byte), NEW n \in Nat PROVE Prefix(s, n) \in Seq(Byte)
  BY DEF Prefix

\* The typed indices and lengths are kept by every step.
THEOREM Invariance == Spec => []IInv
  <1>1. Init => IInv
    <2> SUFFICES ASSUME Init PROVE IInv
      OBVIOUS
    <2>1. max_data_len \in Nat
      BY RxAssumption, ByteIsNat DEF Init
    <2>2. TypeOK
      <3>1. line.bytes \in Seq(Byte)
        <4>1. line \in Deliveries
          BY DEF Init
        <4> QED
          BY <4>1, RxAssumption, DeliveryFacts
      <3> QED
        BY <3>1 DEF Init, TypeOK, NO_ERROR
    <2>3. LoopInv
      BY <2>1 DEF Init, LoopInv, len
    <2> QED
      BY <2>2, <2>3 DEF IInv
  <1>2. IInv /\ [Next]_vars => IInv'
    <2> SUFFICES ASSUME IInv, [Next]_vars PROVE IInv'
      OBVIOUS
    <2> USE DEF IInv
    <2>0. max_data_len \in Nat
      BY RxAssumption, ByteIsNat DEF TypeOK
    <2>1. CASE Receive
      <3>1. rx_frame' \in Seq(Byte)
        <4>1. RxRequest(max_data_len) \in Nat
          BY <2>0 DEF RxRequest
        <4> QED
          BY <2>1, <4>1, PrefixType DEF Receive, TypeOK
      <3>2. TypeOK'
        BY <2>1, <3>1 DEF Receive, TypeOK, ERR_MISSING_START
      <3>3. LoopInv'
        BY <2>0, <2>1 DEF Receive, LoopInv, len
      <3> QED
        BY <3>2, <3>3
    <2>2. CASE HeaderByte
      <3>1. PICK b \in At(i) : rxh' = Store(rxh, b) /\ Step(b)
        BY <2>2 DEF HeaderByte
      <3>2. rxh' \in Seq(Byte) /\ Len(rxh') \in {Len(rxh), Len(rxh) + 1}
        BY <3>1, AtType, StoreType DEF TypeOK
      <3>3. TypeOK'
        BY <2>2, <3>1, <3>2 DEF HeaderByte, Step, TypeOK
      <3>4. LoopInv'
        BY <2>2, <3>1, <3>2 DEF HeaderByte, Step, More, TypeOK, LoopInv, len
      <3> QED
        BY <3>3, <3>4
    <2>3. CASE HeaderDone
      <3>1. TypeOK'
        BY <2>3 DEF HeaderDone, Return, TypeOK, ERR_ENCODING_ERROR, ERR_FRAME_TOO_LONG
      <3>2. ASSUME Len(rxh) = 4 PROVE rxh[4] \in Nat
        <4>1. rxh \in Seq(Byte) /\ 4 \in 1..Len(rxh)
          BY <3>2 DEF TypeOK
        <4> QED
          BY <4>1, Element
      <3>3. LoopInv'
        BY <2>0, <2>3, <3>2 DEF HeaderDone, Return, LoopInv, len
      <3> QED
        BY <3>1, <3>3
    <2>4. CASE DataByte
      <3>1. PICK b \in At(i) : data' = Store(data, b) /\ Step(b)
        BY <2>4 DEF DataByte
      <3>2. data' \in Seq(Byte) /\ Len(data') \in {Len(data), Len(data) + 1}
        BY <3>1, AtType, StoreType DEF TypeOK
      <3>3. rxh[4] \in Nat
        <4>1. Len(rxh) = 4 /\ rxh \in Seq(Byte)
          BY <2>4 DEF DataByte, TypeOK, LoopInv
        <4>2. 4 \in 1..Len(rxh)
          BY <4>1
        <4> QED
          BY <4>1, <4>2, Element
      <3>4. TypeOK'
        BY <2>4, <3>1, <3>2 DEF DataByte, Step, TypeOK
      <3>5. LoopInv'
        BY <2>4, <2>0, <3>1, <3>2, <3>3 DEF DataByte, Step, More, TypeOK, LoopInv, len
      <3> QED
        BY <3>4, <3>5
    <2>5. CASE DataDone
      BY <2>5 DEF DataDone, Return, TypeOK, LoopInv, len, ERR_ENCODING_ERROR
    <2>6. CASE CheckTail
      <3>1. PICK crc, k, b : Return(Verdict(crc, k, b))
        BY <2>6 DEF CheckTail
      <3>2. Verdict(crc, k, b) \in Int
        BY DEF Verdict, ERR_CRC_MISMATCH, ERR_MISSING_STOP,
               ERR_EXECUTION_FAILURE, NO_ERROR
      <3> QED
        BY <3>1, <3>2 DEF Return, TypeOK, LoopInv, len
    <2>7. CASE UNCHANGED vars
      BY <2>7 DEF vars, TypeOK, LoopInv, len
    <2> QED
      BY <2>1, <2>2, <2>3, <2>4, <2>5, <2>6, <2>7 DEF Next
  <1> QED
    BY <1>1, <1>2, PTL DEF Spec

-----------------------------------------------------------------------------

\* Received bytes, header and data are bytes in every reachable state.
THEOREM TypeCorrect == Spec => []TypeOK
  BY Invariance, PTL DEF IInv

\* The checksum and its escape are read from received bytes only, whatever the
\* line delivered: the function has no uninitialised read.
THEOREM ReadsReceivedOnly == Spec => []NoStaleRead
  <1>1. ASSUME IInv, pc = "tail" PROVE i + 1 < len
    <2>1. i \in Nat /\ len \in Nat
      BY <1>1 DEF IInv, TypeOK, len
    <2>2. Len(rxh) = 4
      BY <1>1 DEF IInv, LoopInv
    <2>3. i <= len - 2
      BY <1>1, <2>2 DEF IInv, LoopInv
    <2> QED
      BY <2>1, <2>3
  <1> QED
    BY <1>1, Invariance, PTL DEF NoStaleRead

\* The caller's four header bytes and max_data_len data bytes bound every
\* write, whatever a damaged frame says about its length.
THEOREM WritesWithinBuffers == Spec => []NoOverrun
  <1>1. IInv => NoOverrun
    BY DEF IInv, TypeOK, LoopInv, NoOverrun
  <1> QED
    BY <1>1, Invariance, PTL

-----------------------------------------------------------------------------
(* The result of the function.                                             *)

\* the decoding of what was received, position by position
D == TableDecoding(rx_frame)

\* The results that mean that a response was received.
Accepted == {NO_ERROR, ERR_EXECUTION_FAILURE}

\* No response ends anywhere in what was received.
NoResponse == \A e : ~ResponseAt(D, rx_frame, max_data_len, e)

\* what the caller is given is the one response in the frame
Delivered ==
    \E e : \E crc \in Byte : /\ ResponseAt(D, rx_frame, max_data_len, e)
                            /\ D[e - 1].out = rxh \o data \o <<crc>>

\* The inductive invariant: header and data so far are the decoding of the bytes
\* read so far, a pending escape included.
DecodeInv ==
    /\ pc \in {"header", "data", "tail"} =>
        /\ i <= len /\ rx_frame[1] = SHDLC_START
        /\ D[i].out = rxh \o data
        /\ D[i].esc <=> unstuff_next = 1
    /\ pc = "receive" => unstuff_next = 0
    /\ pc = "header" /\ Len(rxh) = 4 => unstuff_next = 0
    /\ pc = "data" /\ Len(data) = rxh[4] => unstuff_next = 0
    /\ pc = "tail" => unstuff_next = 0 /\ Len(data) = rxh[4]

\* A result other than the two that accept says that there is no response.
ResultInv ==
    pc = "done" =>
        IF ret \in Accepted
        THEN /\ Delivered /\ Len(rxh) = 4
             /\ ret = IF StateError(rxh[3]) THEN ERR_EXECUTION_FAILURE ELSE NO_ERROR
        ELSE NoResponse

\* what the decoding rests on while a loop runs
LEMMA Decoded ==
  ASSUME IInv, DecodeInv, pc \in {"header", "data", "tail"}
  PROVE  /\ Run(D, rx_frame, Table) /\ Table \in [Byte -> Byte]
         /\ i \in 1..Len(rx_frame) /\ D[i] \in Decoding
         /\ D[i].out = rxh \o data /\ (D[i].esc <=> unstuff_next = 1)
         /\ rxh \in Seq(Byte) /\ data \in Seq(Byte) /\ rx_frame \in Seq(Byte)
         /\ Len(rxh \o data) = Len(rxh) + Len(data)
  <1>1. /\ rxh \in Seq(Byte) /\ data \in Seq(Byte) /\ rx_frame \in Seq(Byte)
        /\ i \in Nat /\ i >= 1 /\ i <= Len(rx_frame)
    BY DEF IInv, TypeOK, LoopInv, DecodeInv, len
  <1>2. rx_frame # <<>> /\ i \in 1..Len(rx_frame)
    BY <1>1
  <1>3. Run(D, rx_frame, Table)
    BY <1>1, <1>2, TableRun DEF D
  <1>4. Table \in [Byte -> Byte]
    BY UnescapeType DEF Table
  <1>5. D[i] \in Decoding
    BY <1>1, <1>2, <1>3, <1>4, RunType
  <1>6. Len(rxh \o data) = Len(rxh) + Len(data)
    BY <1>1
  <1> QED
    BY <1>1, <1>2, <1>3, <1>4, <1>5, <1>6 DEF DecodeInv

\* One byte stored is one step of the decoding.
LEMMA StoreDecodes ==
  ASSUME IInv, DecodeInv, pc \in {"header", "data"}, More,
         NEW b \in At(i), Step(b), NEW out \in Seq(Byte), NEW before \in Seq(Byte),
         before \o out = rxh \o data
  PROVE  /\ b \in Byte /\ i + 1 \in 1..len /\ i' = i + 1 /\ D' = D
         /\ D[i + 1].out = before \o Store(out, b)
         /\ D[i + 1].esc <=> unstuff_next' = 1
         /\ unstuff_next' = 1 => Store(out, b) = out
         /\ unstuff_next = 1 => unstuff_next' = 0
  <1>1. /\ Run(D, rx_frame, Table) /\ Table \in [Byte -> Byte]
        /\ i \in 1..len /\ D[i] \in Decoding
        /\ D[i].out = before \o out /\ (D[i].esc <=> unstuff_next = 1)
        /\ rx_frame \in Seq(Byte) /\ unstuff_next \in {0, 1}
    BY Decoded DEF len, IInv, TypeOK
  <1>2. i \in 1..(Len(rx_frame) - 1) /\ i + 1 \in 1..len /\ i < len
    BY <1>1 DEF More, len
  <1>3. b = rx_frame[i + 1] /\ b \in Byte
    BY <1>1, <1>2 DEF At, len
  <1>4. UnstuffByte(b) = Table[b] /\ UnstuffByte(b) \in Byte
    BY <1>3, UnescapeType DEF Table
  <1>5. unstuff_next' = IF unstuff_next = 0 /\ b = ESC THEN 1 ELSE 0
    BY DEF Step
  <1>6. /\ D[i + 1].out = before \o Store(out, b)
        /\ D[i + 1].esc <=> unstuff_next' = 1
    <2>1. CASE unstuff_next = 0 /\ b = ESC
      <3>1. ~D[i].esc /\ rx_frame[i + 1] = ESC
        BY <1>1, <1>3, <2>1
      <3>2. D[i + 1].esc /\ D[i + 1].out = D[i].out
        BY <1>1, <1>2, <3>1, RunEscape, Zenon
      <3>3. Store(out, b) = out /\ unstuff_next' = 1
        BY <1>5, <2>1 DEF Store
      <3> QED
        BY <1>1, <3>2, <3>3
    <2>2. CASE ~(unstuff_next = 0 /\ b = ESC)
      <3> DEFINE c == IF D[i].esc THEN Table[rx_frame[i + 1]] ELSE rx_frame[i + 1]
      <3>1. c \in Byte /\ Store(out, b) = Append(out, c)
        BY <1>1, <1>3, <1>4, <2>2 DEF Store
      <3>2. D[i].esc \/ rx_frame[i + 1] # ESC
        BY <1>1, <1>3, <2>2
      <3>3. ~D[i + 1].esc /\ D[i + 1].out = Append(D[i].out, c)
        BY <1>1, <1>2, <3>2, RunEmit, Zenon
      <3> HIDE DEF c
      <3>4. Append(before \o out, c) = before \o Append(out, c)
        BY <3>1, AppendBehind
      <3>5. unstuff_next' = 0
        BY <1>5, <2>2
      <3> QED
        BY <1>1, <3>1, <3>3, <3>4, <3>5
    <2> QED
      BY <2>1, <2>2
  <1>7. i' = i + 1 /\ D' = D
    BY DEF Step, D
  <1>8. /\ unstuff_next' = 1 => Store(out, b) = out
        /\ unstuff_next = 1 => unstuff_next' = 0
    BY <1>5 DEF Store
  <1> QED
    BY <1>2, <1>3, <1>6, <1>7, <1>8

\* What a step of the loops leaves alone keeps what it says about the frame.
LEMMA SameFrame ==
  ASSUME UNCHANGED <<rx_frame, max_data_len>>
  PROVE  D' = D /\ (NoResponse' <=> NoResponse)
  BY DEF D, NoResponse

\* Receiving decides only whether there is a start delimiter.
LEMMA ReceiveDecodes ==
  ASSUME IInv, DecodeInv, Receive PROVE DecodeInv' /\ ResultInv'
  <1> DEFINE f == rx_frame'
  <1>1. f \in Seq(Byte)
    <2>1. RxRequest(max_data_len) \in Nat /\ line.bytes \in Seq(Byte)
      <3>1. max_data_len \in Nat
        BY RxAssumption, ByteIsNat DEF IInv, TypeOK
      <3> QED
        BY <3>1 DEF RxRequest, IInv, TypeOK
    <2> QED
      BY <2>1, PrefixType DEF Receive
  <1>2. CASE f # <<>> /\ f[1] = SHDLC_START
    <2>1. /\ pc' = "header" /\ i' = 1 /\ rxh' = <<>> /\ data' = <<>> /\ unstuff_next' = 0
          /\ len' = Len(f)
      BY <1>2 DEF Receive, IInv, LoopInv, DecodeInv, len
    <2>2. Run(D', f, Table)
      BY <1>1, <1>2, TableRun DEF D
    <2>3. D'[1].out = <<>> /\ ~D'[1].esc
      BY <2>2 DEF Run, Nothing
    <2>4. 1 <= Len(f) /\ <<>> \o <<>> = <<>>
      BY <1>1, <1>2
    <2>5. Len(<<>>) # 4
      OBVIOUS
    <2> QED
      BY <1>2, <2>1, <2>3, <2>4, <2>5 DEF DecodeInv, ResultInv
  <1>3. CASE ~(f # <<>> /\ f[1] = SHDLC_START)
    <2>1. pc' = "done" /\ ret' = ERR_MISSING_START
      BY <1>3 DEF Receive
    <2>2. NoResponse'
      BY <1>1, <1>3 DEF NoResponse, ResponseAt
    <2> QED
      BY <2>1, <2>2 DEF DecodeInv, ResultInv, Accepted, ERR_MISSING_START,
                        NO_ERROR, ERR_EXECUTION_FAILURE
  <1> QED
    BY <1>2, <1>3

\* A header byte is decoded as it is stored.
LEMMA HeaderDecodes ==
  ASSUME IInv, DecodeInv, HeaderByte PROVE DecodeInv' /\ ResultInv'
  <1>1. PICK b \in At(i) : rxh' = Store(rxh, b) /\ Step(b)
    BY DEF HeaderByte
  <1>2. pc = "header" /\ More /\ data = <<>> /\ data' = data /\ Len(rxh) < 4
    BY DEF HeaderByte, IInv, LoopInv
  <1>3. rxh \in Seq(Byte)
    BY DEF IInv, TypeOK
  <1>4. <<>> \in Seq(Byte) /\ <<>> \o rxh = rxh \o data
    BY <1>2, <1>3
  <1>5. /\ b \in Byte /\ i + 1 \in 1..len /\ i' = i + 1 /\ D' = D
        /\ D[i + 1].out = <<>> \o Store(rxh, b)
        /\ D[i + 1].esc <=> unstuff_next' = 1
        /\ unstuff_next' = 1 => Store(rxh, b) = rxh
    BY <1>1, <1>2, <1>3, <1>4, StoreDecodes
  <1>6. rxh' \in Seq(Byte)
    BY <1>1, <1>3, <1>5, StoreType
  <1>7. <<>> \o rxh' = rxh' \o data'
    BY <1>2, <1>6
  <1>8. unstuff_next' \in {0, 1}
    BY <1>1 DEF Step
  <1>9. len' = len /\ rx_frame' = rx_frame /\ pc' = "header" /\ rx_frame[1] = SHDLC_START
    BY <1>1, <1>2 DEF Step, len, DecodeInv
  <1>10. i' <= len' /\ D'[i'].out = rxh' \o data' /\ (D'[i'].esc <=> unstuff_next' = 1)
    BY <1>1, <1>5, <1>7, <1>9
  <1>11. Len(rxh') = 4 => unstuff_next' = 0
    <2>1. ASSUME unstuff_next' = 1 PROVE rxh' = rxh
      BY <1>1, <1>5, <2>1
    <2>2. Len(rxh) \in Nat /\ Len(rxh) < 4
      BY <1>2, <1>3
    <2>3. Len(rxh) # 4
      BY <2>2
    <2> QED
      BY <1>8, <2>1, <2>3
  <1> QED
    BY <1>9, <1>10, <1>11 DEF DecodeInv, ResultInv

\* So is a data byte.
LEMMA DataDecodes ==
  ASSUME IInv, DecodeInv, DataByte PROVE DecodeInv' /\ ResultInv'
  <1>1. PICK b \in At(i) : data' = Store(data, b) /\ Step(b)
    BY DEF DataByte
  <1>2. pc = "data" /\ More /\ rxh' = rxh /\ Len(data) < rxh[4]
    BY DEF DataByte
  <1>3. data \in Seq(Byte) /\ rxh \in Seq(Byte)
    BY DEF IInv, TypeOK
  <1>4. /\ b \in Byte /\ i + 1 \in 1..len /\ i' = i + 1 /\ D' = D
        /\ D[i + 1].out = rxh \o Store(data, b)
        /\ D[i + 1].esc <=> unstuff_next' = 1
        /\ unstuff_next' = 1 => Store(data, b) = data
    BY <1>1, <1>2, <1>3, StoreDecodes
  <1>5. unstuff_next' \in {0, 1}
    BY <1>1 DEF Step
  <1>6. len' = len /\ rx_frame' = rx_frame /\ pc' = "data" /\ rx_frame[1] = SHDLC_START
    BY <1>1, <1>2 DEF Step, len, DecodeInv
  <1>7. i' <= len' /\ D'[i'].out = rxh' \o data' /\ (D'[i'].esc <=> unstuff_next' = 1)
    BY <1>1, <1>2, <1>4, <1>6
  <1>8. Len(data') = rxh'[4] => unstuff_next' = 0
    <2>1. Len(data) \in Nat /\ rxh[4] \in Nat
      <3>1. Len(rxh) = 4
        BY <1>2 DEF IInv, LoopInv
      <3> QED
        BY <1>3, <3>1, FourthByte
    <2> QED
      BY <1>1, <1>2, <1>4, <1>5, <2>1
  <1> QED
    BY <1>6, <1>7, <1>8 DEF DecodeInv, ResultInv

\* A header that ends early or announces too much data is no response's.
LEMMA HeaderDoneDecodes ==
  ASSUME IInv, DecodeInv, HeaderDone PROVE DecodeInv' /\ ResultInv'
  <1>1. /\ pc = "header" /\ data = <<>> /\ Len(rxh) <= 4 /\ ~(Len(rxh) < 4 /\ More)
        /\ Len(rxh) = 4 => unstuff_next = 0
    BY DEF HeaderDone, IInv, LoopInv, DecodeInv
  <1>2. /\ Run(D, rx_frame, Table) /\ Table \in [Byte -> Byte]
        /\ i \in 1..Len(rx_frame) /\ D[i] \in Decoding /\ D[i].out = rxh \o data
        /\ rxh \in Seq(Byte) /\ data \in Seq(Byte) /\ rx_frame \in Seq(Byte)
        /\ Len(rxh \o data) = Len(rxh) + Len(data)
    BY <1>1, Decoded
  <1>3. Len(D[i].out) = Len(rxh) /\ Len(rxh) \in Nat
    BY <1>1, <1>2
  <1>4. UNCHANGED <<rx_frame, max_data_len, rxh, data, i>> /\ D' = D /\ len' = len
    BY DEF HeaderDone, Return, D, len
  <1>5. CASE Len(rxh) # 4 \/ unstuff_next = 1
    <2>1. Len(rxh) < 4 /\ i >= Len(rx_frame) - 2
      BY <1>1, <1>2, <1>3, <1>5 DEF More, len
    <2>2. NoResponse
      BY <1>2, <1>3, <2>1, CutHeader DEF NoResponse
    <2>3. pc' = "done" /\ ret' = ERR_ENCODING_ERROR
      BY <1>5 DEF HeaderDone, Return
    <2>4. NoResponse'
      BY <1>4, <2>2, SameFrame
    <2> QED
      BY <2>3, <2>4 DEF DecodeInv, ResultInv, Accepted, ERR_ENCODING_ERROR, NO_ERROR,
                        ERR_EXECUTION_FAILURE
  <1>6. CASE ~(Len(rxh) # 4 \/ unstuff_next = 1) /\ max_data_len < rxh[4]
    <2>1. (rxh \o data)[4] = rxh[4] /\ rxh[4] \in Nat
      BY <1>2, <1>6, FourthByte
    <2>2. max_data_len \in Nat
      BY RxAssumption, ByteIsNat DEF IInv, TypeOK
    <2>3. Len(D[i].out) >= 4 /\ D[i].out[4] \in Nat /\ max_data_len < D[i].out[4]
      BY <1>2, <1>3, <1>6, <2>1
    <2>4. NoResponse
      BY <1>2, <2>2, <2>3, OverLimit DEF NoResponse
    <2>5. pc' = "done" /\ ret' = ERR_FRAME_TOO_LONG
      BY <1>6 DEF HeaderDone, Return
    <2>6. NoResponse'
      BY <1>4, <2>4, SameFrame
    <2> QED
      BY <2>5, <2>6 DEF DecodeInv, ResultInv, Accepted, ERR_FRAME_TOO_LONG, NO_ERROR,
                        ERR_EXECUTION_FAILURE
  <1>7. CASE ~(Len(rxh) # 4 \/ unstuff_next = 1) /\ ~(max_data_len < rxh[4])
    <2>1. pc' = "data" /\ unstuff_next' = 0
      BY <1>7 DEF HeaderDone
    <2>2. /\ i <= len /\ rx_frame[1] = SHDLC_START /\ D[i].out = rxh \o data
          /\ ~D[i].esc
      BY <1>1, <1>7 DEF DecodeInv
    <2> QED
      BY <1>4, <2>1, <2>2 DEF DecodeInv, ResultInv
  <1> QED
    BY <1>5, <1>6, <1>7

\* Data that ends early is no response's.
LEMMA DataDoneDecodes ==
  ASSUME IInv, DecodeInv, DataDone PROVE DecodeInv' /\ ResultInv'
  <1>1. /\ pc = "data" /\ Len(rxh) = 4 /\ Len(data) <= rxh[4]
        /\ ~(Len(data) < rxh[4] /\ More)
        /\ Len(data) = rxh[4] => unstuff_next = 0
    BY DEF DataDone, IInv, LoopInv, DecodeInv
  <1>2. /\ Run(D, rx_frame, Table) /\ Table \in [Byte -> Byte]
        /\ i \in 1..Len(rx_frame) /\ D[i] \in Decoding /\ D[i].out = rxh \o data
        /\ rxh \in Seq(Byte) /\ data \in Seq(Byte) /\ rx_frame \in Seq(Byte)
        /\ Len(rxh \o data) = Len(rxh) + Len(data)
    BY <1>1, Decoded
  <1>3. (rxh \o data)[4] = rxh[4] /\ rxh[4] \in Nat
    BY <1>1, <1>2, FourthByte
  <1>4. /\ Len(D[i].out) = 4 + Len(data) /\ Len(data) \in Nat
        /\ D[i].out[4] = rxh[4] /\ unstuff_next \in {0, 1}
    BY <1>1, <1>2, <1>3 DEF IInv, TypeOK
  <1>5. UNCHANGED <<rx_frame, max_data_len, rxh, data, i>> /\ D' = D /\ len' = len
    BY DEF DataDone, Return, D, len
  <1>6. CASE unstuff_next = 1 \/ Len(data) < rxh[4]
    <2>1. Len(data) < rxh[4]
      BY <1>1, <1>3, <1>4, <1>6
    <2>2. i >= Len(rx_frame) - 2
      BY <1>1, <1>2, <2>1 DEF More, len
    <2>3. /\ Len(D[i].out) >= 4 /\ D[i].out[4] \in Nat
          /\ Len(D[i].out) < 4 + D[i].out[4]
      BY <1>3, <1>4, <2>1
    <2>4. NoResponse
      BY <1>2, <2>2, <2>3, CutData DEF NoResponse
    <2>5. pc' = "done" /\ ret' = ERR_ENCODING_ERROR
      BY <1>6 DEF DataDone, Return
    <2>6. NoResponse'
      BY <1>5, <2>4, SameFrame
    <2> QED
      BY <2>5, <2>6 DEF DecodeInv, ResultInv, Accepted, ERR_ENCODING_ERROR, NO_ERROR,
                        ERR_EXECUTION_FAILURE
  <1>7. CASE ~(unstuff_next = 1 \/ Len(data) < rxh[4])
    <2>1. pc' = "tail" /\ unstuff_next' = unstuff_next /\ unstuff_next = 0
      BY <1>4, <1>7 DEF DataDone
    <2>2. Len(data) = rxh[4]
      BY <1>1, <1>3, <1>4, <1>7
    <2>3. /\ i <= len /\ rx_frame[1] = SHDLC_START /\ D[i].out = rxh \o data
          /\ ~D[i].esc
      BY <1>1, <2>1 DEF DecodeInv
    <2> QED
      BY <1>5, <2>1, <2>2, <2>3 DEF DecodeInv, ResultInv
  <1> QED
    BY <1>6, <1>7

\* With the checksum decoded at position q, the verdict tells whether the
\* response ends there, and it can end nowhere else.
LEMMA VerdictDecides ==
  ASSUME IInv, DecodeInv, pc = "tail", NEW q \in 1..Len(rx_frame), NEW crc \in Byte,
         ~D[q].esc, D[q].out = Append(D[i].out, crc),
         NEW b \in At(q), Return(Verdict(crc, q, b))
  PROVE  DecodeInv' /\ ResultInv'
  <1> DEFINE good == Checksum(SubSeq(rxh, 1, 3), data) = crc
             closed == q < len /\ rx_frame[q + 1] = SHDLC_STOP
             out == rxh \o data \o <<crc>>
  <1>1. /\ Len(rxh) = 4 /\ rxh[4] <= max_data_len /\ Len(data) = rxh[4]
        /\ rx_frame[1] = SHDLC_START
    BY DEF IInv, LoopInv, DecodeInv
  <1>2. /\ Run(D, rx_frame, Table) /\ Table \in [Byte -> Byte] /\ D[i].out = rxh \o data
        /\ rxh \in Seq(Byte) /\ data \in Seq(Byte) /\ rx_frame \in Seq(Byte)
    BY Decoded
  <1>3. /\ out \in Seq(Byte) /\ Len(out) = 5 + Len(data) /\ out[4] = Len(data)
        /\ SumBytes(out) % 256 = 255 <=> good
    BY <1>1, <1>2, ChecksumOfStored
  <1>4. D[q].out = out
    <2>1. \A u \in Seq(Byte) : Append(u, crc) = u \o <<crc>>
      OBVIOUS
    <2>2. rxh \o data \in Seq(Byte)
      BY <1>2
    <2> QED
      BY <1>2, <2>1, <2>2
  <1>5. Len(data) \in Nat /\ q \in Nat
    BY <1>2
  <1> HIDE DEF good, out
  <1>6. ASSUME NEW e, ResponseAt(D, rx_frame, max_data_len, e) PROVE e = q + 1
    <2>1. Len(D[q].out) >= 5 /\ D[q].out[4] = Len(D[q].out) - 5
      BY <1>3, <1>4, <1>5
    <2> QED
      BY <1>2, <1>6, <2>1, OnlyEnd
  <1>7. ResponseAt(D, rx_frame, max_data_len, q + 1) <=> good /\ closed
    <2>1. q + 1 >= 7
      <3>1. Len(D[q].out) <= q - 1
        BY <1>2, RunType
      <3> QED
        BY <1>3, <1>4, <1>5, <3>1
    <2>2. q < len => q + 1 \in 7..Len(rx_frame)
      BY <1>2, <1>5, <2>1 DEF len
    <2>3. q + 1 \in 7..Len(rx_frame) => q < len
      BY <1>2, <1>5 DEF len
    <2>4. (q + 1) - 1 = q
      BY <1>5
    <2>5. /\ Len(out) >= 5 /\ out[4] = Len(out) - 5 /\ out[4] <= max_data_len
      BY <1>1, <1>3, <1>5
    <2> QED
      BY <1>1, <1>3, <1>4, <2>2, <2>3, <2>4, <2>5 DEF ResponseAt
  <1>8. /\ pc' = "done" /\ ret' = Verdict(crc, q, b)
        /\ UNCHANGED <<rx_frame, max_data_len, rxh, data>>
    BY DEF Return
  <1>9. q < len => b = rx_frame[q + 1]
    BY DEF At
  <1>10. CASE good /\ closed
    <2>1. ret' = IF StateError(rxh[3]) THEN ERR_EXECUTION_FAILURE ELSE NO_ERROR
      <3>1. q < len /\ b = SHDLC_STOP
        BY <1>9, <1>10
      <3>2. ~(q >= len)
        BY <1>2, <1>5, <3>1 DEF len
      <3> QED
        BY <1>8, <1>10, <3>1, <3>2 DEF Verdict, good
    <2>2. (q + 1) - 1 = q
      BY <1>5
    <2>3. Delivered
      BY <1>4, <1>7, <1>10, <2>2 DEF Delivered, out
    <2>4. Delivered' /\ Len(rxh') = 4 /\ rxh' = rxh
      BY <1>1, <1>8, <2>3 DEF Delivered, D
    <2> QED
      BY <1>8, <2>1, <2>4 DEF DecodeInv, ResultInv, Accepted
  <1>11. CASE ~(good /\ closed)
    <2>1. ret' \in {ERR_CRC_MISMATCH, ERR_MISSING_STOP}
      <3>1. ~good \/ q >= len \/ b # SHDLC_STOP
        <4>1. q < len \/ q >= len
          BY <1>2, <1>5 DEF len
        <4> QED
          BY <1>9, <1>11, <4>1
      <3> QED
        BY <1>8, <3>1 DEF Verdict, good
    <2>2. NoResponse
      BY <1>6, <1>7, <1>11 DEF NoResponse
    <2>3. NoResponse'
      BY <1>8, <2>2, SameFrame
    <2> QED
      BY <1>8, <2>1, <2>3 DEF DecodeInv, ResultInv, Accepted, ERR_CRC_MISMATCH,
                              ERR_MISSING_STOP, NO_ERROR, ERR_EXECUTION_FAILURE
  <1> QED
    BY <1>10, <1>11

\* The checksum, escaped or not, is the next byte decoded.
LEMMA TailDecodes ==
  ASSUME IInv, DecodeInv, CheckTail PROVE DecodeInv' /\ ResultInv'
  <1>1. pc = "tail" /\ Len(rxh) = 4 /\ i <= len - 2 /\ unstuff_next = 0
    <2>1. pc = "tail" /\ Len(rxh) = 4 /\ unstuff_next = 0
      BY DEF CheckTail, IInv, LoopInv, DecodeInv
    <2>2. Len(rxh) > 0 => i <= len - 2
      BY DEF IInv, LoopInv
    <2> QED
      BY <2>1, <2>2
  <1>2. /\ Run(D, rx_frame, Table) /\ Table \in [Byte -> Byte]
        /\ i \in 1..Len(rx_frame) /\ D[i] \in Decoding /\ ~D[i].esc
        /\ rx_frame \in Seq(Byte)
    BY <1>1, Decoded
  <1>3. /\ i \in 1..(Len(rx_frame) - 1) /\ i + 1 \in 1..(Len(rx_frame) - 1)
        /\ i + 2 \in 1..Len(rx_frame) /\ i + 1 \in 1..Len(rx_frame) /\ (i + 1) + 1 = i + 2
        /\ i < len /\ i + 1 < len
    BY <1>1, <1>2 DEF len
  <1>4. PICK c1 \in At(i), c2 \in At(i + 1), c3 \in At(i + 2) :
            IF c1 = ESC THEN Return(Verdict(UnstuffByte(c2), i + 2, c3))
            ELSE Return(Verdict(c1, i + 1, c2))
    BY DEF CheckTail
  <1>5. c1 = rx_frame[i + 1] /\ c2 = rx_frame[i + 2] /\ c1 \in Byte /\ c2 \in Byte
    BY <1>2, <1>3, <1>4 DEF At
  <1>6. CASE c1 # ESC
    <2>1. ~D[i].esc /\ rx_frame[i + 1] # ESC
      BY <1>2, <1>5, <1>6
    <2>2. ~D[i + 1].esc /\ D[i + 1].out = Append(D[i].out, rx_frame[i + 1])
      BY <1>2, <1>3, <2>1, RunEmit
    <2>3. Return(Verdict(c1, i + 1, c2))
      BY <1>4, <1>6
    <2> QED
      BY <1>1, <1>3, <1>4, <1>5, <2>2, <2>3, VerdictDecides
  <1>7. CASE c1 = ESC
    <2>1. D[i + 1].esc /\ D[i + 1].out = D[i].out
      BY <1>2, <1>3, <1>5, <1>7, RunEscape
    <2> DEFINE k == i + 1
    <2>2. k \in 1..(Len(rx_frame) - 1) /\ D[k] \in Decoding /\ D[k].esc /\ k + 1 = i + 2
      BY <1>2, <1>3, <2>1, RunStep
    <2> HIDE DEF k
    <2>3. ~D[k + 1].esc /\ D[k + 1].out = Append(D[k].out, Table[rx_frame[k + 1]])
      BY <1>2, <2>2, RunEmit
    <2>4. Table[c2] = UnstuffByte(c2) /\ UnstuffByte(c2) \in Byte
      BY <1>5, UnescapeType DEF Table
    <2>5. ~D[i + 2].esc /\ D[i + 2].out = Append(D[i].out, UnstuffByte(c2))
      BY <1>5, <2>1, <2>2, <2>3, <2>4 DEF k
    <2>6. Return(Verdict(UnstuffByte(c2), i + 2, c3))
      BY <1>4, <1>7
    <2> QED
      BY <1>1, <1>3, <1>4, <2>4, <2>5, <2>6, VerdictDecides
  <1> QED
    BY <1>6, <1>7

\* Every step keeps the decoding and what the result says.
LEMMA DecodeInvariance == Spec => [](IInv /\ DecodeInv /\ ResultInv)
  <1>1. Init => DecodeInv /\ ResultInv
    BY DEF Init, DecodeInv, ResultInv
  <1>2. ASSUME IInv, DecodeInv, ResultInv, [Next]_vars PROVE DecodeInv' /\ ResultInv'
    <2>1. CASE Receive
      BY <1>2, <2>1, ReceiveDecodes
    <2>2. CASE HeaderByte
      BY <1>2, <2>2, HeaderDecodes
    <2>3. CASE HeaderDone
      BY <1>2, <2>3, HeaderDoneDecodes
    <2>4. CASE DataByte
      BY <1>2, <2>4, DataDecodes
    <2>5. CASE DataDone
      BY <1>2, <2>5, DataDoneDecodes
    <2>6. CASE CheckTail
      BY <1>2, <2>6, TailDecodes
    <2>7. CASE UNCHANGED vars
      <3>1. /\ UNCHANGED <<rx_frame, max_data_len, rxh, data, i, unstuff_next, pc, ret>>
            /\ D' = D /\ len' = len
        BY <2>7 DEF vars, D, len
      <3>2. DecodeInv'
        BY <1>2, <3>1 DEF DecodeInv
      <3>3. Delivered => Delivered'
        BY <3>1 DEF Delivered
      <3>4. NoResponse => NoResponse'
        BY <3>1, SameFrame
      <3>5. ResultInv'
        BY <1>2, <3>1, <3>3, <3>4 DEF ResultInv
      <3> QED
        BY <3>2, <3>5
    <2> QED
      BY <1>2, <2>1, <2>2, <2>3, <2>4, <2>5, <2>6, <2>7 DEF Next
  <1> QED
    BY <1>1, <1>2, Invariance, PTL DEF Spec

\* The function accepts exactly the byte strings of the reference: a response
\* whose end is late, or that is damaged so that its length or its checksum does
\* not fit, is never taken for one, and no response is refused, wherever its
\* escapes fall and whatever the stack buffer held.
THEOREM AcceptsResponses == Spec => []AcceptsExactly
  <1>1. ASSUME IInv, ResultInv, pc = "done"
        PROVE  ret \in {NO_ERROR, ERR_EXECUTION_FAILURE}
                 <=> IsResponse(UnstuffByte, rx_frame, max_data_len)
    <2>1. rx_frame \in Seq(Byte)
      BY <1>1 DEF IInv, TypeOK
    <2>2. IsResponse(UnstuffByte, rx_frame, max_data_len)
            <=> \E e : ResponseAt(D, rx_frame, max_data_len, e)
      BY <2>1, TableResponse DEF D
    <2> QED
      BY <1>1, <2>2 DEF ResultInv, NoResponse, Delivered, Accepted
  <1>2. IInv /\ ResultInv => AcceptsExactly
    BY <1>1 DEF AcceptsExactly
  <1> QED
    BY <1>2, DecodeInvariance, PTL

\* What is looked at is what the UART handed over.
ReceivedInv ==
    /\ line \in Deliveries
    /\ pc # "receive" => rx_frame = Prefix(line.bytes, RxRequest(max_data_len))

\* The frame buffer is filled once.
LEMMA ReceivedInvariance == Spec => []ReceivedInv
  <1>1. Init => ReceivedInv
    BY DEF Init, ReceivedInv
  <1>2. ReceivedInv /\ [Next]_vars => ReceivedInv'
    BY DEF ReceivedInv, Next, vars, Receive, HeaderByte, HeaderDone, DataByte, DataDone,
           CheckTail, Step, Return
  <1> QED
    BY <1>1, <1>2, PTL DEF Spec

\* A frame that arrives whole is accepted, with the header and the data the
\* sensor sent, whatever follows it and wherever its escapes fall, for every
\* address, command, state and data that fit the caller's limit.
THEOREM AcceptsWhole == Spec => []WholeIsAccepted
  <1>1. ASSUME IInv, ResultInv, ReceivedInv, pc = "done",
               line.damage \in {"none", "trailing"}, Len(line.sent.data) <= max_data_len
        PROVE  /\ ret = IF StateError(line.sent.state) THEN ERR_EXECUTION_FAILURE ELSE NO_ERROR
               /\ rxh = <<line.sent.addr, line.sent.cmd, line.sent.state, Len(line.sent.data)>>
               /\ data = line.sent.data
    <2> DEFINE r == line.sent
               head == <<r.addr, r.cmd, r.state, Len(r.data)>>
               e0 == Len(Response(r))
    <2>1. /\ IsAnswer(r) /\ IsPrefix(Response(r), line.bytes)
          /\ line.bytes \in Seq(Byte) /\ rx_frame \in Seq(Byte)
          /\ rxh \in Seq(Byte) /\ data \in Seq(Byte)
          /\ max_data_len \in Nat /\ Len(r.data) <= max_data_len
          /\ rx_frame = Prefix(line.bytes, RxRequest(max_data_len))
      <3>1. IsDelivery(line)
        BY <1>1, RxAssumption DEF ReceivedInv
      <3>2. IsAnswer(r) /\ IsPrefix(Response(r), line.bytes)
        BY <1>1, <3>1, DeliveryFacts
      <3> QED
        BY <1>1, <3>2, RxAssumption, ByteIsNat DEF IInv, TypeOK, ReceivedInv
    <2> HIDE DEF r
    <2>2. IsPrefix(Response(r), rx_frame)
      BY <2>1, WholeIsReceived
    <2>3. ResponseAt(D, rx_frame, max_data_len, e0) /\ D[e0 - 1].out = Content(r)
      BY <2>1, <2>2, TableFinds DEF D
    <2> HIDE DEF e0
    <2>4. /\ Len(rxh) = 4
          /\ ret = IF StateError(rxh[3]) THEN ERR_EXECUTION_FAILURE ELSE NO_ERROR
          /\ Delivered
      BY <1>1, <2>3 DEF ResultInv, NoResponse
    <2>5. PICK e : \E crc \in Byte : /\ ResponseAt(D, rx_frame, max_data_len, e)
                                     /\ D[e - 1].out = rxh \o data \o <<crc>>
      BY <2>4 DEF Delivered
    <2>6. PICK crc \in Byte : D[e - 1].out = rxh \o data \o <<crc>>
      BY <2>5
    <2>7. e = e0
      <3>1. ResponseAt(D, rx_frame, max_data_len, e)
        BY <2>5
      <3>2. rx_frame # <<>>
        BY <3>1, <2>1 DEF ResponseAt
      <3>3. Run(D, rx_frame, Table) /\ Table \in [Byte -> Byte]
        BY <2>1, <3>2, TableRun, UnescapeType DEF D, Table
      <3> QED
        BY <2>1, <2>3, <3>1, <3>3, OnlyResponse
    <2>8. rxh = head /\ data = r.data
      <3>1. IsJoined(Content(r), rxh, data, <<crc>>)
        BY <2>3, <2>6, <2>7 DEF IsJoined
      <3> QED
        BY <2>1, <2>4, <3>1, ContentParts, Zenon
    <2> QED
      BY <2>4, <2>8 DEF r
  <1>2. IInv /\ ResultInv /\ ReceivedInv => WholeIsAccepted
    BY <1>1 DEF WholeIsAccepted
  <1> QED
    BY <1>2, DecodeInvariance, ReceivedInvariance, PTL

\* A response accepted with no error is the one the sensor sent, for every response,
\* wherever the frame was cut, whichever byte was changed or lost, and to whatever: what
\* the sum does not tell, the length, the state or the position of the delimiter does.
THEOREM DamageIsRefused == Spec => []AcceptedIsSent
  <1>1. ASSUME IInv, ResultInv, ReceivedInv, pc = "done", ret = NO_ERROR, Noticeable(line)
        PROVE  /\ rxh = <<line.sent.addr, line.sent.cmd, line.sent.state, Len(line.sent.data)>>
               /\ data = line.sent.data
    <2>1. /\ IsDelivery(line) /\ rxh \in Seq(Byte) /\ data \in Seq(Byte)
          /\ rx_frame = Prefix(line.bytes, RxRequest(max_data_len))
      BY <1>1, RxAssumption DEF IInv, TypeOK, ReceivedInv
    <2>2. RxRequest(max_data_len) \in Nat
      <3>1. max_data_len \in Nat
        BY <1>1, RxAssumption, ByteIsNat DEF IInv, TypeOK
      <3> QED
        BY <3>1 DEF RxRequest
    <2>3. Delivered /\ Len(rxh) = 4 /\ ~StateError(rxh[3])
      BY <1>1 DEF ResultInv, Accepted, NO_ERROR, ERR_EXECUTION_FAILURE
    <2>4. PICK e : \E crc \in Byte : /\ ResponseAt(D, rx_frame, max_data_len, e)
                                     /\ D[e - 1].out = rxh \o data \o <<crc>>
      BY <2>3 DEF Delivered
    <2>5. PICK crc \in Byte : D[e - 1].out = rxh \o data \o <<crc>>
      BY <2>4
    <2>6. D = DecodingOf(Table, rx_frame)
      BY TwoDecodings DEF D
    <2>7. /\ ResponseAt(DecodingOf(Table, rx_frame), rx_frame, max_data_len, e)
          /\ IsJoined(DecodingOf(Table, rx_frame)[e - 1].out, rxh, data, <<crc>>)
      BY <2>4, <2>5, <2>6 DEF IsJoined
    <2> QED
      BY <1>1, <2>1, <2>2, <2>3, <2>7, ReceivedIsSent, Zenon
  <1>2. IInv /\ ResultInv /\ ReceivedInv => AcceptedIsSent
    BY <1>1 DEF AcceptedIsSent
  <1> QED
    BY <1>2, DecodeInvariance, ReceivedInvariance, PTL

=============================================================================
