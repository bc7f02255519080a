-------------------------- MODULE ShdlcXcv_proofs --------------------------
(***************************************************************************)
(* Proofs about the two halves of sensirion_shdlc_xcv, sending a request   *)
(* and exchanging requests for responses on a line.                        *)
(*                                                                         *)
(* ShdlcTx, for every argument and every order of calls: the frame builder *)
(* keeps frames transparent and within the size their buffers are computed *)
(* with; it builds what sensirion_shdlc_tx sends for the same request; and *)
(* what a call reports as sent has arrived, byte by byte, as a frame that  *)
(* a device decodes into that request.                                     *)
(*                                                                         *)
(* ShdlcLink, for any number of calls, any responses that fit, any faults  *)
(* and any interleaving of host, sensor and line: each call returns its    *)
(* own response until something is late or lost, and whatever is late, and *)
(* whichever requests are lost, the calls implement ShdlcExchange.         *)
(***************************************************************************)
EXTENDS ShdlcTx, ShdlcLink, ShdlcCodec_proofs

-----------------------------------------------------------------------------
(* ShdlcTx: sending.                                                       *)

\* The inductive invariant: every byte still to be added takes at most two
\* places, and only a frame that was begun has bytes to add.
SizeInv ==
    /\ pc # "building" => pending = <<>>
    /\ pc = "idle" => data = <<>>
    /\ pc = "building" =>
        /\ Len(data) >= 1
        /\ Len(data) + 2 * Len(pending) <= 7 + 2 * Len(request.payload)

\* With it, the frame is transparent and fits its buffer.
IInv == TypeOK /\ SizeInv /\ FitsBuffer /\ Transparent

-----------------------------------------------------------------------------

\* What stuffing a byte gives: the byte itself, or an escape and one of the
\* four escaped values, none of which is reserved.
LEMMA StuffByteShape ==
  ASSUME NEW b \in Byte
  PROVE  /\ StuffByte(b) \in Seq(Byte)
         /\ \/ Len(StuffByte(b)) = 1 /\ StuffByte(b)[1] \notin Reserved
            \/ /\ Len(StuffByte(b)) = 2 /\ StuffByte(b)[1] = ESC
               /\ StuffByte(b)[2] \in Escaped /\ StuffByte(b)[2] \notin Reserved
  <1>1. CASE b \in Reserved
    <2>1. FlipBit5(b) \in Byte /\ FlipBit5(b) \notin Reserved
      BY <1>1 DEF Reserved, FlipBit5, Byte, ESC, SHDLC_STOP
    <2>2. FlipBit5(b) \in Escaped
      BY <1>1 DEF Escaped
    <2>3. ESC \in Byte
      BY DEF ESC, Byte
    <2>4. StuffByte(b) = <<ESC, FlipBit5(b)>>
      BY <1>1 DEF StuffByte
    <2> QED
      BY <2>1, <2>2, <2>3, <2>4
  <1>2. CASE b \notin Reserved
    <2>1. StuffByte(b) = <<b>>
      BY <1>2 DEF StuffByte
    <2> QED
      BY <1>2, <2>1
  <1> QED
    BY <1>1, <1>2

\* Stuffing takes a string of bytes without delimiters to another one.
LEMMA CleanAppend ==
  ASSUME NEW s \in Seq(Byte), Len(s) >= 1, Clean(s), NEW b \in Byte
  PROVE  /\ s \o StuffByte(b) \in Seq(Byte)
         /\ Len(s \o StuffByte(b)) <= Len(s) + 2
         /\ Clean(s \o StuffByte(b))
  <1> DEFINE t == StuffByte(b)
  <1>1. t \in Seq(Byte) /\ Len(t) \in {1, 2}
    BY StuffByteShape
  <1>2. s \o t \in Seq(Byte) /\ Len(s \o t) = Len(s) + Len(t)
    BY <1>1
  <1>3. ASSUME NEW k \in 2..Len(s \o t)
        PROVE  \/ (s \o t)[k] \notin Reserved
               \/ (s \o t)[k] = ESC /\ k < Len(s \o t) /\ (s \o t)[k + 1] \in Escaped
    <2>1. CASE k <= Len(s)
      <3>1. (s \o t)[k] = s[k]
        BY <1>1, <2>1
      <3>2. k < Len(s) => (s \o t)[k + 1] = s[k + 1]
        BY <1>1, <2>1
      <3>3. k \in 2..Len(s)
        BY <2>1
      <3> QED
        BY <1>1, <1>2, <3>1, <3>2, <3>3 DEF Clean
    <2>2. CASE k > Len(s)
      <3>1. (s \o t)[k] = t[k - Len(s)] /\ k - Len(s) \in 1..Len(t)
        BY <1>1, <1>2, <2>2
      <3>2. k < Len(s \o t) => (s \o t)[k + 1] = t[k + 1 - Len(s)]
        BY <1>1, <1>2, <2>2
      <3>3. CASE Len(t) = 1
        <4>1. k - Len(s) = 1 /\ t[1] \notin Reserved
          BY <3>1, <3>3, StuffByteShape
        <4> QED
          BY <3>1, <4>1
      <3>4. CASE Len(t) = 2
        <4>1. t[1] = ESC /\ t[2] \in Escaped /\ t[2] \notin Reserved
          BY <3>4, StuffByteShape
        <4>2. CASE k - Len(s) = 1
          <5>1. k < Len(s \o t) /\ k + 1 - Len(s) = 2
            BY <1>2, <3>4, <4>2
          <5> QED
            BY <3>1, <3>2, <4>1, <4>2, <5>1
        <4>3. CASE k - Len(s) = 2
          BY <3>1, <4>1, <4>3
        <4> QED
          BY <3>1, <3>4, <4>2, <4>3
      <3> QED
        BY <1>1, <3>3, <3>4
    <2> QED
      BY <2>1, <2>2
  <1> QED
    BY <1>1, <1>2, <1>3 DEF Clean

\* The casts and shifts of the add_* functions give bytes, for negative
\* arguments as well.
LEMMA BigEndianType ==
  ASSUME NEW v \in Int
  PROVE  BigEndian16(v) \in Seq(Byte) /\ BigEndian32(v) \in Seq(Byte)
  <1>1. ASSUME NEW w \in Int PROVE w % 256 \in Byte /\ w \div 256 \in Int
    BY DEF Byte
  <1>2. ASSUME NEW w \in Int PROVE BigEndian16(w) \in Seq(Byte)
    <2>1. (w \div 256) % 256 \in Byte /\ w % 256 \in Byte
      BY <1>1
    <2> QED
      BY <2>1 DEF BigEndian16
  <1>3. (v \div 65536) % 65536 \in Int /\ v % 65536 \in Int
    OBVIOUS
  <1> QED
    BY <1>2, <1>3 DEF BigEndian32

\* Every add_* function adds bytes.
LEMMA AddsBytes ==
  ASSUME AddUint8 \/ AddBool \/ AddInt16 \/ AddInt32 \/ AddBytes
  PROVE  \E s \in Seq(Byte) : Add(s)
  <1>1. CASE AddUint8
    <2>1. \A v \in Uint8Args : <<v>> \in Seq(Byte)
      BY ArgsAssumption
    <2> QED
      BY <1>1, <2>1 DEF AddUint8
  <1>2. CASE AddBool
    <2>1. \A v \in {0, 1} : <<v>> \in Seq(Byte)
      <3>1. 0 \in Byte /\ 1 \in Byte
        BY DEF Byte
      <3> QED
        BY <3>1
    <2> QED
      BY <1>2, <2>1 DEF AddBool
  <1>3. CASE AddInt16
    BY <1>3, BigEndianType, ArgsAssumption DEF AddInt16
  <1>4. CASE AddInt32
    BY <1>4, BigEndianType, ArgsAssumption DEF AddInt32
  <1>5. CASE AddBytes
    BY <1>5, ArgsAssumption DEF AddBytes
  <1> QED
    BY <1>1, <1>2, <1>3, <1>4, <1>5

\* The arguments of begin_frame make a well-typed request.
LEMMA BeginStep ==
  ASSUME IInv, NEW a \in Addresses, NEW c \in Commands, NEW n \in 0..MaxPayload,
         BeginFrame(a, c, n)
  PROVE  IInv'
  <1>1. a \in Byte /\ c \in Byte /\ n \in Byte /\ 0 \in Byte /\ SHDLC_START \in Byte
    BY ArgsAssumption DEF Byte, SHDLC_START
  <1>2. request' \in RequestType /\ request'.payload = <<>>
    BY <1>1 DEF BeginFrame, RequestType
  <1>3. data' \in Seq(Byte) /\ Len(data') = 1
    BY <1>1 DEF BeginFrame
  <1>4. pending' \in Seq(Byte) /\ Len(pending') = 3
    BY <1>1 DEF BeginFrame, HeaderBytes
  <1>5. sent'.request \in RequestType /\ sent'.ret \in Int
    BY <1>1 DEF BeginFrame, NotSent, NoRequest, RequestType, ERR_TX_INCOMPLETE
  <1>6. TypeOK'
    BY <1>1, <1>2, <1>3, <1>4, <1>5 DEF BeginFrame, TypeOK
  <1>7. SizeInv' /\ FitsBuffer'
    BY <1>2, <1>3, <1>4 DEF BeginFrame, SizeInv, FitsBuffer, MaxFrameSize
  <1>8. Transparent'
    BY <1>3 DEF BeginFrame, Transparent, Clean
  <1> QED
    BY <1>6, <1>7, <1>8 DEF IInv

\* A byte added to a clean frame under construction.
LEMMA AddByteStep == ASSUME IInv, AddByte PROVE IInv'
  <1> USE DEF IInv
  <1>1. pc = "building" /\ pc' = "building"
    BY DEF AddByte, SizeInv, TypeOK
  <1>2. pending \in Seq(Byte) /\ Len(pending) >= 1
    BY DEF AddByte, TypeOK
  <1>3. Head(pending) \in Byte /\ pending' \in Seq(Byte) /\ Len(pending') = Len(pending) - 1
    BY <1>2 DEF AddByte
  <1>4. data \in Seq(Byte) /\ Len(data) >= 1 /\ Clean(data)
    BY <1>1 DEF TypeOK, SizeInv, Transparent
  <1>5. data' \in Seq(Byte) /\ Len(data') <= Len(data) + 2 /\ Clean(data')
    BY <1>3, <1>4, CleanAppend DEF AddByte
  <1>6. Len(data') >= 1
    <2>1. StuffByte(Head(pending)) \in Seq(Byte)
      BY <1>3, StuffByteShape
    <2> QED
      BY <1>4, <2>1 DEF AddByte
  <1>7. checksum' \in Byte
    <2>1. checksum \in Nat /\ Head(pending) \in Nat
      <3>1. checksum \in Byte
        BY DEF TypeOK
      <3> QED
        BY <3>1, <1>3, ByteIsNat
    <2> QED
      BY <2>1, Uint8Type DEF AddByte
  <1>8. TypeOK'
    BY <1>1, <1>3, <1>5, <1>7 DEF AddByte, TypeOK
  <1>9. Len(request.payload) \in Nat /\ request' = request
    BY DEF TypeOK, RequestType, AddByte
  <1>10. Len(data) \in Nat /\ Len(data') \in Nat /\ Len(pending) \in Nat
    BY <1>2, <1>4, <1>5
  <1>11. Len(data') + 2 * Len(pending') <= 7 + 2 * Len(request.payload)
    BY <1>1, <1>3, <1>5, <1>9, <1>10 DEF SizeInv
  <1>12. SizeInv' /\ FitsBuffer'
    BY <1>1, <1>3, <1>6, <1>9, <1>10, <1>11 DEF SizeInv, FitsBuffer, MaxFrameSize
  <1>13. Transparent'
    BY <1>1, <1>5 DEF Transparent
  <1> QED
    BY <1>8, <1>12, <1>13

\* A call that leaves bytes to add makes room for two places each.
LEMMA AddStep == ASSUME IInv, NEW s \in Seq(Byte), Add(s) PROVE IInv'
  <1> USE DEF IInv
  <1>1. pc = "building" /\ pc' = "building" /\ data' = data
    BY DEF Add
  <1>2. request \in RequestType /\ request.payload \in Seq(Byte)
    BY DEF TypeOK, RequestType
  <1>3. request' = [request EXCEPT !.payload = request.payload \o s]
    BY DEF Add
  <1>4. request' \in RequestType /\ request'.payload = request.payload \o s
    <2>1. request.payload \o s \in Seq(Byte)
      BY <1>2
    <2> QED
      BY <1>2, <1>3, <2>1 DEF RequestType
  <1>5. Len(request'.payload) = Len(request.payload) + Len(s)
    BY <1>2, <1>4
  <1>6. TypeOK'
    BY <1>4 DEF Add, TypeOK
  <1>7. Len(data) + 2 * Len(pending) <= 7 + 2 * Len(request.payload) /\ Len(data) >= 1
    BY <1>1 DEF SizeInv
  <1>8. Len(pending) = 0 /\ pending' = s
    BY DEF Add
  <1>9. Len(data) \in Nat /\ Len(s) \in Nat /\ Len(request.payload) \in Nat
    BY <1>2 DEF TypeOK
  <1>10. SizeInv' /\ FitsBuffer'
    BY <1>1, <1>5, <1>7, <1>8, <1>9 DEF SizeInv, FitsBuffer, MaxFrameSize
  <1>11. Transparent'
    BY <1>1 DEF Transparent
  <1> QED
    BY <1>6, <1>10, <1>11

\* Closing a frame adds its stuffed checksum and the delimiter.
LEMMA FinishStep == ASSUME IInv, FinishFrame PROVE IInv'
  <1> USE DEF IInv
  <1> DEFINE body == data \o StuffByte(Not8(checksum))
  <1>1. pc = "building" /\ pc' = "ready" /\ data' = body \o <<SHDLC_STOP>>
    BY DEF FinishFrame
  <1>2. checksum \in Byte /\ Not8(checksum) \in Byte
    BY ByteIsNat DEF TypeOK
  <1>3. data \in Seq(Byte) /\ Len(data) >= 1 /\ Clean(data)
    BY <1>1 DEF TypeOK, SizeInv, Transparent
  <1>4. body \in Seq(Byte) /\ Len(body) <= Len(data) + 2 /\ Clean(body)
    BY <1>2, <1>3, CleanAppend
  <1>5. SHDLC_STOP \in Byte
    BY DEF SHDLC_STOP, Byte
  <1> HIDE DEF body
  <1>6. data' \in Seq(Byte) /\ Len(data') = Len(body) + 1
    BY <1>1, <1>4, <1>5
  <1>7. Front(data') = body /\ Last(data') = SHDLC_STOP
    BY <1>1, <1>4, <1>5, <1>6 DEF Front, Last
  <1>8. checksum' \in Byte
    <2>1. checksum \in Nat /\ Not8(checksum) \in Nat
      BY <1>2, ByteIsNat
    <2> QED
      BY <2>1, Uint8Type DEF FinishFrame
  <1>9. TypeOK'
    BY <1>1, <1>6, <1>8 DEF FinishFrame, TypeOK
  <1>10. Len(request.payload) \in Nat /\ request' = request
    BY DEF TypeOK, RequestType, FinishFrame
  <1>11. pending = <<>> /\ pending' = <<>> /\ Len(pending) = 0
    BY DEF FinishFrame
  <1>12. Len(data) <= 7 + 2 * Len(request.payload)
    BY <1>1, <1>3, <1>10, <1>11 DEF SizeInv
  <1>13. Len(data) \in Nat /\ Len(body) \in Nat /\ Len(data') \in Nat
    BY <1>3, <1>4, <1>6
  <1>14. SizeInv' /\ FitsBuffer'
    BY <1>1, <1>4, <1>6, <1>10, <1>11, <1>12, <1>13 DEF SizeInv, FitsBuffer, MaxFrameSize
  <1>15. Transparent'
    BY <1>1, <1>4, <1>7 DEF Transparent
  <1> QED
    BY <1>9, <1>14, <1>15

\* What the UART does with a frame is not part of the frame.
LEMMA HalStep ==
  ASSUME IInv, NEW bytes, NEW r \in RequestType, Len(bytes) \in Nat, HalTx(bytes, r),
         UNCHANGED <<pc, data, checksum, pending, request>>
  PROVE  IInv'
  <1>1. PICK n \in 0..Len(bytes) : \E written \in {n} \cup HalErrors :
            sent' = [request |-> r, wire |-> SubSeq(bytes, 1, n),
                     ret |-> TxResult(written, Len(bytes))]
    BY DEF HalTx
  <1>2. PICK written \in {n} \cup HalErrors :
            sent' = [request |-> r, wire |-> SubSeq(bytes, 1, n),
                     ret |-> TxResult(written, Len(bytes))]
    BY <1>1
  <1>3. written \in Int
    BY ArgsAssumption
  <1>4. TxResult(written, Len(bytes)) \in Int
    BY <1>3 DEF TxResult, ERR_TX_INCOMPLETE, NO_ERROR
  <1>5. sent'.request \in RequestType /\ sent'.ret \in Int
    BY <1>2, <1>4
  <1>6. TypeOK'
    BY <1>5 DEF IInv, TypeOK
  <1> QED
    BY <1>6 DEF IInv, SizeInv, FitsBuffer, Transparent

-----------------------------------------------------------------------------

\* Before the first call nothing is in the frame.
LEMMA InitInv == ASSUME Init PROVE IInv
  <1>1. 0 \in Byte
    BY DEF Byte
  <1>2. NoRequest \in RequestType /\ NoRequest.payload = <<>>
    BY <1>1 DEF NoRequest, RequestType
  <1>3. sent.request \in RequestType /\ sent.ret \in Int
    BY <1>2 DEF Init, NotSent, ERR_TX_INCOMPLETE
  <1>4. TypeOK
    BY <1>1, <1>2, <1>3 DEF Init, TypeOK
  <1> QED
    BY <1>2, <1>4 DEF Init, IInv, SizeInv, FitsBuffer, MaxFrameSize, Transparent

\* Every step of the builder and of a transmission keeps the invariant.
LEMMA StepInv == ASSUME IInv, [Next]_vars PROVE IInv'
  <1>1. CASE \E a \in Addresses, c \in Commands, n \in 0..MaxPayload : BeginFrame(a, c, n)
    BY <1>1, BeginStep
  <1>2. CASE AddByte
    BY <1>2, AddByteStep
  <1>3. CASE AddUint8 \/ AddBool \/ AddInt16 \/ AddInt32 \/ AddBytes
    BY <1>3, AddsBytes, AddStep
  <1>4. CASE FinishFrame
    BY <1>4, FinishStep
  <1>5. CASE TxFrame
    BY <1>5, HalStep DEF TxFrame, IInv, TypeOK
  <1>6. CASE Tx
    <2>1. PICK addr \in Addresses, cmd \in Commands, d \in Payloads :
              HalTx(Request(addr, cmd, d),
                    [addr |-> addr, cmd |-> cmd, declared |-> Len(d), payload |-> d])
      BY <1>6 DEF Tx
    <2>2. [addr |-> addr, cmd |-> cmd, declared |-> Len(d), payload |-> d] \in RequestType
      BY ArgsAssumption DEF RequestType
    <2> QED
      BY <1>6, <2>1, <2>2, HalStep DEF Tx
  <1>7. CASE UNCHANGED vars
    BY <1>7 DEF vars, IInv, TypeOK, SizeInv, FitsBuffer, Transparent
  <1> QED
    BY <1>1, <1>2, <1>3, <1>4, <1>5, <1>6, <1>7 DEF Next

\* The invariant holds in every reachable state.
THEOREM Invariance == Spec => []IInv
  <1>1. Init => IInv
    BY InitInv
  <1>2. IInv /\ [Next]_vars => IInv'
    BY StepInv
  <1> QED
    BY <1>1, <1>2, PTL DEF Spec

\* Frame buffer, checksum and request are well typed in every reachable state.
THEOREM TypeCorrect == Spec => []TypeOK
  BY Invariance, PTL DEF IInv

\* Whatever is added, in whatever order of calls, no delimiter, flow control
\* byte or stray escape ends up inside a frame.
THEOREM FramesAreTransparent == Spec => []Transparent
  BY Invariance, PTL DEF IInv

\* A caller's buffer of 2 + 2 * (4 + n) bytes is never overrun by a frame of n
\* data bytes.
THEOREM FramesFit == Spec => []FitsBuffer
  BY Invariance, PTL DEF IInv


-----------------------------------------------------------------------------
(* What the builder has put into the frame.                                *)

\* the bytes the calls since begin_frame have given, before stuffing
Given == <<request.addr, request.cmd, request.declared>> \o request.payload

\* the frame finish_frame makes of the bytes b
Finished(b) ==
    <<SHDLC_START>> \o StuffData(Append(b, Not8(Uint8(SumBytes(b))))) \o <<SHDLC_STOP>>

\* What is built so far is the stuffed beginning of the given bytes, with the sum
\* of its bytes; the rest of them is pending.
BuiltInv ==
    /\ pc = "building" => \E body \in Seq(Byte) :
          /\ body \o pending = Given
          /\ data = <<SHDLC_START>> \o StuffData(body)
          /\ checksum = Uint8(SumBytes(body))
    /\ pc = "ready" => data = Finished(Given)

\* A request is what the builder makes of its header, length and data.
LEMMA RequestIsFinished ==
  ASSUME NEW a \in Byte, NEW c \in Byte, NEW d \in Seq(Byte), Len(d) \in Byte
  PROVE  Request(a, c, d) = Finished(<<a, c, Len(d)>> \o d)
  <1> DEFINE h == <<a, c>>
             l == <<a, c, Len(d)>>
  <1>1. h \in Seq(Byte) /\ l \in Seq(Byte) /\ l = Append(h, Len(d))
    OBVIOUS
  <1>2. SumBytes(l) = SumBytes(h) + Len(d)
    <2> HIDE DEF h, l
    <2> QED
      BY <1>1, SummingSteps
  <1>3. SumBytes(l \o d) = SumBytes(l) + SumBytes(d)
    <2> HIDE DEF l
    <2> QED
      BY <1>1, SumOfConcat
  <1>4. Checksum(h, d) = Not8(Uint8(SumBytes(l \o d)))
    <2> HIDE DEF h, l
    <2> QED
      BY <1>2, <1>3 DEF Checksum
  <1>5. h \o <<Len(d)>> \o d = l \o d
    OBVIOUS
  <1>6. Checksum(h, d) \in Byte
    BY <1>1, ChecksumCompletes
  <1>7. l \o d \in Seq(Byte)
    BY <1>1
  <1> DEFINE b == l \o d
             k == Checksum(h, d)
  <1>8. b \o <<k>> = Append(b, k)
    <2> HIDE DEF b, k
    <2> QED
      BY <1>6, <1>7 DEF b, k
  <1> QED
    BY <1>4, <1>5, <1>8 DEF Request, Frame, Finished

\* One call of the builder keeps it so.
LEMMA BuiltStep ==
  ASSUME IInv, BuiltInv, [Next]_vars PROVE BuiltInv'
  <1>1. CASE \E a \in Addresses, c \in Commands, n \in 0..MaxPayload : BeginFrame(a, c, n)
    <2>1. PICK a \in Addresses, c \in Commands, n \in 0..MaxPayload : BeginFrame(a, c, n)
      BY <1>1
    <2>2. pc' = "building" /\ data' = <<SHDLC_START>> /\ checksum' = 0
          /\ pending' = <<a, c, n>> /\ Given' = <<a, c, n>> \o <<>>
      BY <2>1 DEF BeginFrame, HeaderBytes, Given
    <2>3. <<a, c, n>> \o <<>> = <<a, c, n>> /\ <<>> \o <<a, c, n>> = <<a, c, n>>
          /\ <<>> \in Seq(Byte)
      OBVIOUS
    <2>4. <<SHDLC_START>> \o StuffData(<<>>) = <<SHDLC_START>>
      <3>1. <<SHDLC_START>> \o <<>> = <<SHDLC_START>>
        OBVIOUS
      <3> QED
        BY <3>1, StuffingSteps
    <2>5. Uint8(SumBytes(<<>>)) = 0
      BY SummingSteps DEF Uint8
    <2> QED
      BY <2>2, <2>3, <2>4, <2>5 DEF BuiltInv
  <1>2. CASE AddByte
    <2>1. pc = "building" /\ pc' = "building" /\ Given' = Given
      BY <1>2 DEF AddByte, IInv, SizeInv, TypeOK, Given
    <2>2. PICK body \in Seq(Byte) : /\ body \o pending = Given
                                    /\ data = <<SHDLC_START>> \o StuffData(body)
                                    /\ checksum = Uint8(SumBytes(body))
      BY <2>1 DEF BuiltInv
    <2> DEFINE b == Head(pending)
    <2>3. pending \in Seq(Byte) /\ pending # <<>> /\ b \in Byte /\ pending' = Tail(pending)
      BY <1>2 DEF AddByte, IInv, TypeOK
    <2>4. Append(body, b) \in Seq(Byte) /\ Append(body, b) \o pending' = Given
      BY <2>2, <2>3, HeadMoves
    <2>5. data' = <<SHDLC_START>> \o StuffData(Append(body, b))
      <3>1. StuffData(body) \in Seq(Byte) /\ StuffByte(b) \in Seq(Byte)
        BY <2>3, StuffedIsTransparent, StuffByteType
      <3>2. data' = (<<SHDLC_START>> \o StuffData(body)) \o StuffByte(b)
        BY <1>2, <2>2 DEF AddByte
      <3> HIDE DEF b
      <3>3. StuffData(Append(body, b)) = StuffData(body) \o StuffByte(b)
        BY <2>3, StuffingSteps
      <3> QED
        BY <3>1, <3>2, <3>3
    <2>6. checksum' = Uint8(SumBytes(Append(body, b)))
      <3>1. SumBytes(body) \in Nat /\ b \in Nat
        BY <2>3, SumOfConcat, ByteIsNat
      <3>2. SumBytes(Append(body, b)) = SumBytes(body) + b
        BY <2>3, SummingSteps
      <3>3. checksum' = Uint8(Uint8(SumBytes(body)) + b)
        BY <1>2, <2>2 DEF AddByte
      <3>4. \A m, n \in Nat : ((m % 256) + n) % 256 = (m + n) % 256
        OBVIOUS
      <3> HIDE DEF b
      <3> QED
        BY <3>1, <3>2, <3>3, <3>4 DEF Uint8
    <2> QED
      BY <2>1, <2>4, <2>5, <2>6 DEF BuiltInv
  <1>3. ASSUME NEW s \in Seq(Byte), Add(s) PROVE BuiltInv'
    <2>1. pc = "building" /\ pc' = "building" /\ data' = data /\ checksum' = checksum
          /\ pending = <<>> /\ pending' = s
      BY <1>3 DEF Add
    <2>2. request \in RequestType /\ request' = [request EXCEPT !.payload = @ \o s]
      BY <1>3 DEF Add, IInv, TypeOK
    <2>3. Given \in Seq(Byte) /\ Given' = Given \o s
      <3> DEFINE h == <<request.addr, request.cmd, request.declared>>
      <3>1. h \in Seq(Byte) /\ request.payload \in Seq(Byte)
        BY <2>2 DEF RequestType
      <3>2. Given' = h \o (request.payload \o s) /\ Given = h \o request.payload
        BY <2>2 DEF RequestType, Given
      <3> HIDE DEF h
      <3> QED
        BY <3>1, <3>2, Regroup
    <2>4. PICK body \in Seq(Byte) : /\ body \o pending = Given
                                    /\ data = <<SHDLC_START>> \o StuffData(body)
                                    /\ checksum = Uint8(SumBytes(body))
      BY <2>1 DEF BuiltInv
    <2>5. body \o s = Given'
      BY <2>1, <2>3, <2>4
    <2> QED
      BY <2>1, <2>4, <2>5 DEF BuiltInv
  <1>4. CASE FinishFrame
    <2>1. pc = "building" /\ pc' = "ready" /\ pending = <<>> /\ Given' = Given
      BY <1>4 DEF FinishFrame, Given
    <2>2. PICK body \in Seq(Byte) : /\ body \o pending = Given
                                    /\ data = <<SHDLC_START>> \o StuffData(body)
                                    /\ checksum = Uint8(SumBytes(body))
      BY <2>1 DEF BuiltInv
    <2>3. body = Given
      BY <2>1, <2>2
    <2> DEFINE c == Not8(Uint8(SumBytes(body)))
    <2>4. c \in Byte
      BY SumOfConcat, Uint8Type, ByteIsNat
    <2>5. data' = (<<SHDLC_START>> \o StuffData(body)) \o StuffByte(c) \o <<SHDLC_STOP>>
      BY <1>4, <2>2 DEF FinishFrame
    <2>6. StuffData(body) \in Seq(Byte) /\ StuffByte(c) \in Seq(Byte)
      BY <2>4, StuffedIsTransparent, StuffByteType
    <2> HIDE DEF c
    <2>7. StuffData(Append(body, c)) = StuffData(body) \o StuffByte(c)
      BY <2>4, StuffingSteps
    <2>8. data' = <<SHDLC_START>> \o StuffData(Append(body, c)) \o <<SHDLC_STOP>>
      BY <2>5, <2>6, <2>7
    <2> QED
      BY <2>1, <2>3, <2>8 DEF BuiltInv, Finished, c
  <1>5. CASE UNCHANGED <<pc, data, checksum, pending, request>>
    BY <1>5 DEF BuiltInv, Given
  <1>6. CASE AddUint8 \/ AddBool \/ AddInt16 \/ AddInt32 \/ AddBytes
    BY <1>3, <1>6, AddsBytes
  <1> QED
    BY <1>1, <1>2, <1>4, <1>5, <1>6 DEF Next, TxFrame, Tx, vars


\* The parts of the bytes of a request.
LEMMA RequestParts ==
  ASSUME NEW a \in Byte, NEW c \in Byte, NEW d \in Seq(Byte), NEW k \in Byte,
         Len(d) \in Byte, NEW b, b = <<a, c>> \o <<Len(d)>> \o d \o <<k>>
  PROVE  /\ b \in Seq(Byte) /\ Len(b) = Len(d) + 4
         /\ b[1] = a /\ b[2] = c /\ b[3] = Len(d)
         /\ SubSeq(b, 4, Len(b) - 1) = d
  <1>1. b \in Seq(Byte) /\ Len(b) = Len(d) + 4
    OBVIOUS
  <1>2. b[1] = a /\ b[2] = c /\ b[3] = Len(d)
    BY <1>1
  <1>3. SubSeq(b, 4, Len(b) - 1) = d
    <2> DEFINE u == SubSeq(b, 4, Len(b) - 1)
    <2>1. u \in Seq(Byte) /\ Len(u) = Len(d)
      BY <1>1
    <2>2. \A j \in 1..Len(d) : u[j] = d[j]
      BY <1>1
    <2> HIDE DEF u
    <2>3. u = d
      BY <2>1, <2>2
    <2> QED
      BY <2>3 DEF u
  <1> QED
    BY <1>1, <1>2, <1>3

\* The sensor decodes from a whole request what the caller asked for.
LEMMA RequestDecodes ==
  ASSUME NEW a \in Byte, NEW c \in Byte, NEW d \in Seq(Byte), Len(d) \in Byte
  PROVE  SensorDecodes(Request(a, c, d)) = [addr |-> a, cmd |-> c, payload |-> d]
  <1> DEFINE h == <<a, c>>
             k == Checksum(h, d)
             b == h \o <<Len(d)>> \o d \o <<k>>
             m == StuffData(b)
             f == Request(a, c, d)
  <1>1. h \in Seq(Byte)
    OBVIOUS
  <1>2. k \in Byte /\ b \in Seq(Byte) /\ SumBytes(b) % 256 = 255
    BY <1>1, ChecksumCompletes
  <1>3. /\ Len(b) = Len(d) + 4 /\ b[1] = a /\ b[2] = c /\ b[3] = Len(d)
        /\ SubSeq(b, 4, Len(b) - 1) = d
    BY <1>2, RequestParts
  <1>4. f = <<SHDLC_START>> \o m \o <<SHDLC_STOP>>
    BY DEF Request, Frame
  <1> HIDE DEF b, f, k
  <1>5. m \in Seq(Byte) /\ \A j \in 1..Len(m) : m[j] \notin Reserved \ {ESC}
    BY <1>2, StuffedIsTransparent
  <1>6. Destuff(FlipBit5, m) = [out |-> b, esc |-> FALSE]
    BY <1>2, DestuffStuffed
  <1> HIDE DEF m
  <1>7. SubSeq(f, 2, Len(f) - 1) = m
    BY <1>4, <1>5, FrameParts
  <1>8. Delimited(f)
    BY <1>4, <1>5, FrameParts DEF Delimited
  <1>9. Len(b) >= 4 /\ b[3] = Len(b) - 4
    BY <1>3
  <1> DEFINE u == Destuff(FlipBit5, SubSeq(f, 2, Len(f) - 1))
  <1>10. u.out = b /\ ~u.esc
    <2>1. u = [out |-> b, esc |-> FALSE]
      BY <1>6, <1>7, Zenon
    <2> HIDE DEF u
    <2> QED
      BY <2>1
  <1>11. SensorDecodes(f) = IF /\ Delimited(f) /\ ~u.esc
                               /\ Len(u.out) >= 4 /\ u.out[3] = Len(u.out) - 4
                               /\ SumBytes(u.out) % 256 = 255
                            THEN [addr |-> u.out[1], cmd |-> u.out[2],
                                  payload |-> SubSeq(u.out, 4, Len(u.out) - 1)]
                            ELSE Rejected
    BY Zenon DEF SensorDecodes
  <1> HIDE DEF u
  <1>12. SensorDecodes(f) = [addr |-> b[1], cmd |-> b[2], payload |-> SubSeq(b, 4, Len(b) - 1)]
    BY <1>2, <1>8, <1>9, <1>10, <1>11
  <1> QED
    BY <1>3, <1>12 DEF f

\* A finished frame is a string of bytes.
LEMMA FinishedType ==
  ASSUME NEW b \in Seq(Byte)
  PROVE  /\ Append(b, Not8(Uint8(SumBytes(b)))) \in Seq(Byte)
         /\ Finished(b) \in Seq(Byte) /\ Len(Finished(b)) >= 2
  <1>1. Append(b, Not8(Uint8(SumBytes(b)))) \in Seq(Byte)
    <2> DEFINE c == Not8(Uint8(SumBytes(b)))
    <2>1. c \in Byte
      BY SumOfConcat, Uint8Type, ByteIsNat
    <2> HIDE DEF c
    <2>2. Append(b, c) \in Seq(Byte)
      BY <2>1
    <2> QED
      BY <2>2 DEF c
  <1> DEFINE m == StuffData(Append(b, Not8(Uint8(SumBytes(b)))))
  <1>2. m \in Seq(Byte)
    BY <1>1, StuffedIsTransparent
  <1> HIDE DEF m
  <1> DEFINE f == <<SHDLC_START>> \o m \o <<SHDLC_STOP>>
  <1>3. f \in Seq(Byte) /\ Len(f) >= 2
    <2>1. f \in Seq(Byte) /\ Len(f) = Len(m) + 2
      BY <1>2, FrameParts, Zenon
    <2>2. Len(m) \in Nat
      BY <1>2
    <2> HIDE DEF f
    <2> QED
      BY <2>1, <2>2
  <1>4. Finished(b) = f
    BY DEF Finished, m
  <1> HIDE DEF f
  <1> QED
    BY <1>1, <1>3, <1>4

\* A first part of a frame that is not the whole has no closing delimiter.
LEMMA CutIsRejected ==
  ASSUME NEW b \in Seq(Byte), NEW n \in 0..(Len(Finished(b)) - 1)
  PROVE  SensorDecodes(SubSeq(Finished(b), 1, n)) = Rejected
  <1> DEFINE m == StuffData(Append(b, Not8(Uint8(SumBytes(b)))))
             f == Finished(b)
             w == SubSeq(f, 1, n)
  <1>1. Append(b, Not8(Uint8(SumBytes(b)))) \in Seq(Byte)
    BY FinishedType
  <1>2. m \in Seq(Byte) /\ \A j \in 1..Len(m) : m[j] \notin Reserved \ {ESC}
    BY <1>1, StuffedIsTransparent
  <1>3. f = <<SHDLC_START>> \o m \o <<SHDLC_STOP>>
    BY DEF Finished
  <1> HIDE DEF m, f
  <1>4. /\ f \in Seq(Byte) /\ Len(f) = Len(m) + 2
        /\ \A k \in 2..(Len(f) - 1) : f[k] \notin Reserved \ {ESC}
    <2>1. /\ f \in Seq(Byte) /\ Len(f) = Len(m) + 2
          /\ \A k \in 2..(Len(f) - 1) : k - 1 \in 1..Len(m) /\ f[k] = m[k - 1]
      BY <1>2, <1>3, FrameParts, Zenon
    <2> QED
      BY <1>2, <2>1
  <1>5. n \in 0..(Len(f) - 1)
    BY DEF f
  <1>6. Len(w) = n /\ (n >= 1 => w[n] = f[n])
    <2>1. n \in 0..Len(f)
      BY <1>4, <1>5
    <2>2. n >= 1 => n \in 1..n
      BY <1>5
    <2> HIDE DEF w
    <2> QED
      BY <1>4, <2>1, <2>2, FirstPart DEF w
  <1>7. ~Delimited(w)
    <2>1. CASE n < 2
      BY <1>5, <1>6, <2>1 DEF Delimited
    <2>2. CASE n >= 2
      <3>1. n \in 2..(Len(f) - 1)
        BY <1>4, <1>5, <2>2
      <3>2. w[Len(w)] # SHDLC_STOP
        BY <1>4, <1>6, <2>2, <3>1 DEF Reserved, SHDLC_STOP, ESC
      <3> QED
        BY <3>2 DEF Delimited
    <2> QED
      BY <1>5, <2>1, <2>2
  <1> HIDE DEF w
  <1> QED
    BY <1>7 DEF SensorDecodes, w, f


\* What was sent: a whole request when the result is success, and a first part
\* of a frame when it is ERR_TX_INCOMPLETE.
SentInv ==
    /\ sent.ret = NO_ERROR /\ sent.request.declared = Len(sent.request.payload) =>
          sent.wire = Request(sent.request.addr, sent.request.cmd, sent.request.payload)
    /\ sent.ret = ERR_TX_INCOMPLETE /\ ERR_TX_INCOMPLETE \notin HalErrors =>
          \E b \in Seq(Byte) : \E n \in 0..(Len(Finished(b)) - 1) :
             sent.wire = SubSeq(Finished(b), 1, n)

\* A call to the UART with a finished frame that is the request if it is whole.
LEMMA TransmitStep ==
  ASSUME NEW b \in Seq(Byte), NEW r \in RequestType, HalTx(Finished(b), r),
         r.declared = Len(r.payload) => Finished(b) = Request(r.addr, r.cmd, r.payload)
  PROVE  SentInv'
  <1> DEFINE f == Finished(b)
  <1>1. f \in Seq(Byte)
    BY FinishedType
  <1>0. PICK n \in 0..Len(f) : \E written \in {n} \cup HalErrors :
           sent' = [request |-> r, wire |-> SubSeq(f, 1, n), ret |-> TxResult(written, Len(f))]
    BY DEF HalTx
  <1>2. PICK written \in {n} \cup HalErrors :
           sent' = [request |-> r, wire |-> SubSeq(f, 1, n), ret |-> TxResult(written, Len(f))]
    BY <1>0
  <1> HIDE DEF f
  <1>3. written \in Int /\ Len(f) \in Nat /\ n \in Nat
    BY <1>1, <1>2, ArgsAssumption
  <1>4. \A e \in HalErrors : e \in Int /\ e < 0
    BY ArgsAssumption
  <1>5. ASSUME sent'.ret = NO_ERROR PROVE sent'.wire = f
    <2>1. written = Len(f)
      BY <1>2, <1>3, <1>5 DEF TxResult, NO_ERROR, ERR_TX_INCOMPLETE
    <2>2. n = Len(f)
      BY <1>2, <1>3, <1>4, <2>1
    <2>3. SubSeq(f, 1, Len(f)) = f
      BY <1>1
    <2> QED
      BY <1>2, <2>2, <2>3
  <1>6. ASSUME sent'.ret = ERR_TX_INCOMPLETE, ERR_TX_INCOMPLETE \notin HalErrors
        PROVE  n \in 0..(Len(f) - 1)
    <2>1. written # Len(f) /\ written >= 0
      <3>1. written < 0 => written # ERR_TX_INCOMPLETE
        BY <1>2, <1>3, <1>6
      <3> QED
        BY <1>2, <1>3, <1>6, <3>1 DEF TxResult, NO_ERROR, ERR_TX_INCOMPLETE
    <2>2. written = n
      BY <1>2, <1>4, <2>1
    <2> QED
      BY <1>2, <1>3, <2>1, <2>2
  <1>7. sent'.request = r /\ sent'.wire = SubSeq(f, 1, n)
    BY <1>2
  <1> QED
    BY <1>5, <1>6, <1>7 DEF SentInv, f

\* begin_frame and the start of the program: nothing is on the wire.
LEMMA NothingSent ==
  /\ sent = NotSent => SentInv
  /\ sent' = NotSent => SentInv'
  <1> DEFINE f == Finished(<<>>)
  <1>1. <<>> \in Seq(Byte) /\ f \in Seq(Byte) /\ Len(f) >= 2
    <2>1. <<>> \in Seq(Byte)
      OBVIOUS
    <2> QED
      BY <2>1, FinishedType
  <1> HIDE DEF f
  <1>2. 0 \in 0..(Len(f) - 1) /\ SubSeq(f, 1, 0) = <<>>
    BY <1>1
  <1>3. NotSent.wire = <<>> /\ NotSent.ret # NO_ERROR
    BY DEF NotSent, NO_ERROR, ERR_TX_INCOMPLETE
  <1> QED
    BY <1>1, <1>2, <1>3 DEF SentInv, f

\* One call keeps what is known of the last transmission.
LEMMA SentStep ==
  ASSUME IInv, BuiltInv, SentInv, [Next]_vars PROVE SentInv'
  <1>1. CASE \E a \in Addresses, c \in Commands, n \in 0..MaxPayload : BeginFrame(a, c, n)
    BY <1>1, NothingSent DEF BeginFrame
  <1>2. CASE TxFrame
    <2>1. data = Finished(Given) /\ HalTx(data, request) /\ request \in RequestType
      BY <1>2 DEF TxFrame, BuiltInv, IInv, TypeOK
    <2>2. Given \in Seq(Byte)
      BY <2>1 DEF Given, RequestType
    <2>3. ASSUME request.declared = Len(request.payload)
          PROVE  data = Request(request.addr, request.cmd, request.payload)
      BY <2>1, <2>3, RequestIsFinished DEF Given, RequestType
    <2> QED
      BY <2>1, <2>2, <2>3, TransmitStep
  <1>3. CASE Tx
    <2>1. PICK a \in Addresses, c \in Commands, d \in Payloads :
              HalTx(Request(a, c, d), [addr |-> a, cmd |-> c, declared |-> Len(d), payload |-> d])
      BY <1>3 DEF Tx
    <2> DEFINE r == [addr |-> a, cmd |-> c, declared |-> Len(d), payload |-> d]
               b == <<a, c, Len(d)>> \o d
    <2>2. a \in Byte /\ c \in Byte /\ d \in Seq(Byte) /\ Len(d) \in Byte
      BY ArgsAssumption
    <2>3. r \in RequestType /\ r.addr = a /\ r.cmd = c /\ r.payload = d
      BY <2>2 DEF RequestType
    <2>4. b \in Seq(Byte)
      BY <2>2
    <2>5. Request(a, c, d) = Finished(b)
      BY <2>2, RequestIsFinished
    <2> HIDE DEF r, b
    <2>6. HalTx(Finished(b), r)
      BY <2>1, <2>5 DEF r
    <2> QED
      BY <2>3, <2>4, <2>5, <2>6, TransmitStep
  <1>4. CASE UNCHANGED sent
    BY <1>4 DEF SentInv
  <1>5. ASSUME NEW s, Add(s) PROVE UNCHANGED sent
    BY <1>5 DEF Add
  <1> QED
    BY <1>1, <1>2, <1>3, <1>4, <1>5
    DEF Next, vars, AddByte, AddUint8, AddBool, AddInt16, AddInt32, AddBytes, FinishFrame

-----------------------------------------------------------------------------

\* In every reachable state the frame holds the stuffed bytes given so far, and
\* what was sent is the request or a first part of a frame.
THEOREM ContentInvariance == Spec => [](IInv /\ BuiltInv /\ SentInv)
  <1>1. Init => IInv /\ BuiltInv /\ SentInv
    BY InitInv, NothingSent DEF Init, BuiltInv
  <1>2. IInv /\ BuiltInv /\ SentInv /\ [Next]_vars => IInv' /\ BuiltInv' /\ SentInv'
    BY StepInv, BuiltStep, SentStep
  <1> QED
    BY <1>1, <1>2, PTL DEF Spec

\* For every request, a struct that is begun again after each frame, with any
\* calls, builds what the one-shot function sends.
THEOREM BuilderIsTx == Spec => []BuilderMatchesTx
  <1>1. IInv /\ BuiltInv => BuilderMatchesTx
    <2> SUFFICES ASSUME IInv, BuiltInv, pc = "ready", request.declared = Len(request.payload)
                 PROVE  data = Request(request.addr, request.cmd, request.payload)
      BY DEF BuilderMatchesTx
    <2>1. data = Finished(Given)
      BY DEF BuiltInv
    <2>2. request \in RequestType
      BY DEF IInv, TypeOK
    <2> QED
      BY <2>1, <2>2, RequestIsFinished DEF Given, RequestType
  <1> QED
    BY <1>1, ContentInvariance, PTL

\* For every request, success means that the sensor decodes what was asked for.
THEOREM SuccessDelivers == Spec => []SuccessIsDelivered
  <1>1. IInv /\ SentInv => SuccessIsDelivered
    <2> SUFFICES ASSUME IInv, SentInv, sent.ret = NO_ERROR,
                        sent.request.declared = Len(sent.request.payload)
                 PROVE  SensorDecodes(sent.wire) = [addr    |-> sent.request.addr,
                                                    cmd     |-> sent.request.cmd,
                                                    payload |-> sent.request.payload]
      BY DEF SuccessIsDelivered
    <2>1. sent.wire = Request(sent.request.addr, sent.request.cmd, sent.request.payload)
      BY DEF SentInv
    <2>2. sent.request \in RequestType
      BY DEF IInv, TypeOK
    <2> QED
      BY <2>1, <2>2, RequestDecodes DEF RequestType
  <1> QED
    BY <1>1, ContentInvariance, PTL

\* If the UART keeps ERR_TX_INCOMPLETE for itself, no request is executed that
\* was reported as incomplete.
THEOREM IncompleteRejects ==
  ASSUME ERR_TX_INCOMPLETE \notin HalErrors
  PROVE  Spec => []IncompleteIsRejected
  <1>1. SentInv => IncompleteIsRejected
    BY CutIsRejected DEF SentInv, IncompleteIsRejected
  <1> QED
    BY <1>1, ContentInvariance, PTL


-----------------------------------------------------------------------------
(* Equal neighbours as one.                                                *)

\* An element appended to the second of two strings is appended to both.
LEMMA BehindAll ==
  ASSUME NEW s \in Seq(Calls), NEW t \in Seq(Calls), NEW e \in Calls
  PROVE  Append(s \o t, e) = s \o Append(t, e)
  OBVIOUS

\* Strings of one length with the same elements are the same.
LEMMA SameCalls ==
  ASSUME NEW s \in Seq(Calls), NEW t \in Seq(Calls), Len(s) = Len(t),
         \A k \in 1..Len(s) : s[k] = t[k]
  PROVE  s = t
  OBVIOUS

\* Joining is associative.
SameCallsJoined(s, t, u) == (s \o t) \o u = s \o (t \o u)

\* Joining three strings of calls, in the words of SameCallsJoined.
LEMMA JoinCalls ==
  ASSUME NEW s \in Seq(Calls), NEW t \in Seq(Calls), NEW u \in Seq(Calls)
  PROVE  SameCallsJoined(s, t, u)
  <1>1. (s \o t) \o u = s \o (t \o u)
    OBVIOUS
  <1> QED
    BY <1>1 DEF SameCallsJoined

\* The first element of the second string may go to the first.
LEMMA FirstMoves ==
  ASSUME NEW s \in Seq(Calls), NEW t \in Seq(Calls), t # <<>>
  PROVE  /\ Head(t) \in Calls /\ Tail(t) \in Seq(Calls)
         /\ (s \o <<Head(t)>>) \o Tail(t) = s \o t
  OBVIOUS

\* It leaves the first one where it is.
LEMMA FirstStays ==
  ASSUME NEW s \in Seq(Calls), s # <<>>, NEW e \in Calls
  PROVE  Append(s, e) # <<>> /\ Append(s, e)[1] = s[1]
  OBVIOUS

\* The last of two strings ends in the last element of the second, if it has any.
LEMMA LastOfTwo ==
  ASSUME NEW s \in Seq(Calls), s # <<>>, NEW t \in Seq(Calls)
  PROVE  /\ s \o t # <<>>
         /\ (s \o t)[Len(s \o t)] = IF t = <<>> THEN s[Len(s)] ELSE t[Len(t)]
  <1>1. CASE t = <<>>
    <2>1. s \o t = s
      BY <1>1
    <2> QED
      BY <1>1, <2>1
  <1>2. CASE t # <<>>
    BY <1>2
  <1> QED
    BY <1>1, <1>2

\* What s[k] adds to s merged: nothing if it is equal to the one before.
Pieces(s) == [k \in 1..Len(s) |-> IF k > 1 /\ s[k - 1] = s[k] THEN <<>> ELSE <<s[k]>>]

\* One element more adds one unless it is equal to the one before.
LEMMA MergedSteps ==
  /\ Merged(<<>>) = <<>>
  /\ \A s \in Seq(Calls) : Merged(s) \in Seq(Calls)
  /\ \A s \in Seq(Calls), c \in Calls :
        Merged(Append(s, c)) = IF s # <<>> /\ s[Len(s)] = c THEN Merged(s) ELSE Append(Merged(s), c)
  <1>1. ASSUME NEW s \in Seq(Calls)
        PROVE  /\ Merged(s) = FlattenSeq(Pieces(s)) /\ Pieces(s) \in Seq(Seq(Calls))
               /\ Len(Pieces(s)) = Len(s)
    <2>1. Merged(s) = FlattenSeq(Pieces(s))
      BY DEF Merged, Pieces
    <2>2. \A k \in 1..Len(s) : <<s[k]>> \in Seq(Calls) /\ <<>> \in Seq(Calls)
      OBVIOUS
    <2>3. Pieces(s) \in [1..Len(s) -> Seq(Calls)] /\ Len(s) \in Nat
      BY <2>2 DEF Pieces
    <2> QED
      BY <2>1, <2>3
  <1>2. Merged(<<>>) = <<>>
    <2>1. <<>> \in Seq(Calls) /\ Len(<<>>) = 0
      OBVIOUS
    <2>2. Len(Pieces(<<>>)) = 0 /\ Pieces(<<>>) \in Seq(Seq(Calls))
      BY <1>1, <2>1
    <2>3. PICK f : IsFlattening(f, Pieces(<<>>)) /\ FlattenSeq(Pieces(<<>>)) = f[0]
      BY <2>2, FlattenSteps
    <2> QED
      BY <1>1, <2>1, <2>3 DEF IsFlattening
  <1>3. ASSUME NEW s \in Seq(Calls) PROVE Merged(s) \in Seq(Calls)
    <2>1. PICK f \in [0..Len(Pieces(s)) -> Seq(Calls)] : FlattenSeq(Pieces(s)) = f[Len(Pieces(s))]
      BY <1>1, FlattenSteps
    <2>2. Len(Pieces(s)) \in 0..Len(Pieces(s))
      BY <1>1
    <2> QED
      BY <1>1, <2>1, <2>2
  <1>4. ASSUME NEW s \in Seq(Calls), NEW c \in Calls
        PROVE  Merged(Append(s, c)) = IF s # <<>> /\ s[Len(s)] = c THEN Merged(s) ELSE Append(Merged(s), c)
    <2> DEFINE n == Len(s)
    <2>0. Append(s, c) \in Seq(Calls)
      OBVIOUS
    <2>1. PICK u \in Seq(Calls) : u = Append(s, c)
      BY <2>0, Zenon
    <2>2. n \in Nat /\ Len(u) = n + 1 /\ u[n + 1] = c /\ \A k \in 1..n : u[k] = s[k]
      BY <2>1
    <2>3. PICK f : IsFlattening(f, Pieces(s)) /\ Merged(s) = f[n]
      <3>1. PICK f : IsFlattening(f, Pieces(s)) /\ FlattenSeq(Pieces(s)) = f[Len(Pieces(s))]
        BY <1>1, FlattenSteps, Zenon
      <3> QED
        BY <1>1, <3>1
    <2>4. PICK g : IsFlattening(g, Pieces(u)) /\ Merged(u) = g[n + 1]
      <3>1. PICK g : IsFlattening(g, Pieces(u)) /\ FlattenSeq(Pieces(u)) = g[Len(Pieces(u))]
        BY <1>1, FlattenSteps, Zenon
      <3> QED
        BY <1>1, <2>2, <3>1
    <2>5. ASSUME NEW k \in 1..n PROVE Pieces(u)[k] = Pieces(s)[k]
      <3>1. k \in 1..(n + 1) /\ u[k] = s[k] /\ (k > 1 => u[k - 1] = s[k - 1])
        BY <2>2
      <3>2. Pieces(s)[k] = IF k > 1 /\ s[k - 1] = s[k] THEN <<>> ELSE <<s[k]>>
        BY DEF Pieces
      <3>3. Pieces(u)[k] = IF k > 1 /\ u[k - 1] = u[k] THEN <<>> ELSE <<u[k]>>
        BY <2>2, <3>1 DEF Pieces
      <3> QED
        BY <3>1, <3>2, <3>3
    <2>6. Pieces(u)[n + 1] = IF n > 0 /\ s[n] = c THEN <<>> ELSE <<c>>
      BY <2>2 DEF Pieces
    <2>7. /\ f[0] = <<>> /\ g[0] = <<>>
          /\ \A k \in 1..n : f[k] = f[k - 1] \o Pieces(s)[k]
          /\ \A k \in 1..(n + 1) : g[k] = g[k - 1] \o Pieces(u)[k]
      BY <1>1, <2>2, <2>3, <2>4 DEF IsFlattening
    <2>8. s # <<>> <=> n > 0
      OBVIOUS
    <2> HIDE DEF n
    <2> DEFINE S == {k \in Nat : k <= n => f[k] = g[k]}
    <2>9. 0 \in S
      BY <2>7
    <2>10. ASSUME NEW k \in Nat, k \in S PROVE k + 1 \in S
      <3> SUFFICES ASSUME k + 1 <= n PROVE f[k + 1] = g[k + 1]
        OBVIOUS
      <3>1. k + 1 \in 1..n /\ k + 1 \in 1..(n + 1) /\ (k + 1) - 1 = k /\ k <= n
        BY <2>2
      <3> QED
        BY <2>5, <2>7, <2>10, <3>1
    <2>11. f[n] = g[n]
      <3>1. Nat \subseteq S
        <4> HIDE DEF S
        <4> QED
          BY <2>9, <2>10, NatSetInduction
      <3> QED
        BY <2>2, <3>1
    <2>12. g[n + 1] = g[n] \o Pieces(u)[n + 1]
      <3>1. n + 1 \in 1..(n + 1) /\ (n + 1) - 1 = n
        BY <2>2
      <3> QED
        BY <2>7, <3>1
    <2>13. Merged(s) \in Seq(Calls)
      BY <1>3
    <2>14. Merged(u) = Merged(s) \o (IF n > 0 /\ s[n] = c THEN <<>> ELSE <<c>>)
      BY <2>3, <2>4, <2>6, <2>11, <2>12
    <2>15. Merged(s) \o <<>> = Merged(s) /\ Merged(s) \o <<c>> = Append(Merged(s), c)
      BY <2>13
    <2> QED
      BY <2>1, <2>8, <2>14, <2>15 DEF n
  <1> QED
    BY <1>2, <1>3, <1>4

\* A string that is not empty leaves some, of which the last is its last.
LEMMA MergedEnd ==
  ASSUME NEW s \in Seq(Calls), s # <<>>
  PROVE  Merged(s) # <<>> /\ Merged(s)[Len(Merged(s))] = s[Len(s)]
  <1> DEFINE Ends(u) == u # <<>> => Merged(u) # <<>> /\ Merged(u)[Len(Merged(u))] = u[Len(u)]
             T == {u \in Seq(Calls) : Ends(u)}
  <1>1. <<>> \in T
    OBVIOUS
  <1>2. ASSUME NEW u \in Seq(Calls), u \in T, NEW e \in Calls PROVE Append(u, e) \in T
    <2>1. PICK v \in Seq(Calls) : v = Append(u, e)
      <3>1. Append(u, e) \in Seq(Calls)
        OBVIOUS
      <3> QED
        BY <3>1, Zenon
    <2>2. v # <<>> /\ v[Len(v)] = e
      BY <2>1
    <2>3. Merged(u) \in Seq(Calls)
      BY MergedSteps
    <2>4. Merged(v) = IF u # <<>> /\ u[Len(u)] = e THEN Merged(u) ELSE Append(Merged(u), e)
      BY <2>1, MergedSteps
    <2>5. CASE u # <<>> /\ u[Len(u)] = e
      BY <1>2, <2>1, <2>2, <2>4, <2>5
    <2>6. CASE ~(u # <<>> /\ u[Len(u)] = e)
      <3>1. Merged(v) = Append(Merged(u), e)
        BY <2>4, <2>6
      <3>2. Merged(v) # <<>> /\ Merged(v)[Len(Merged(v))] = e
        <4>1. PICK r \in Seq(Calls) : r = Merged(u)
          BY <2>3, Zenon
        <4>2. Merged(v) = Append(r, e)
          BY <3>1, <4>1
        <4>3. \A x : x = Append(r, e) => x # <<>> /\ x[Len(x)] = e
          BY SMTT(40)
        <4> QED
          BY <4>2, <4>3, Zenon
      <3> QED
        BY <2>1, <2>2, <3>2
    <2> QED
      BY <2>5, <2>6
  <1>3. Seq(Calls) \subseteq T
    <2> HIDE DEF T
    <2> QED
      BY <1>1, <1>2, SequenceInduction
  <1> QED
    BY <1>3

\* What is left of what follows ends what is left of the whole; if the two are apart, the rest
\* is what is left of what comes before.
Apart(s, t) == s = <<>> \/ t = <<>> \/ s[Len(s)] # t[1]

\* The second of two strings keeps its calls, and the first its own if they are apart.
LEMMA MergedJoin ==
  ASSUME NEW s \in Seq(Calls), NEW t \in Seq(Calls)
  PROVE  \E a \in Seq(Calls) : Merged(s \o t) = a \o Merged(t) /\ (Apart(s, t) => a = Merged(s))
  <1> DEFINE Joins(u, a) == Merged(s \o u) = a \o Merged(u) /\ (Apart(s, u) => a = Merged(s))
             T == {u \in Seq(Calls) : \E a \in Seq(Calls) : Joins(u, a)}
  <1>0. Merged(s) \in Seq(Calls) /\ Merged(<<>>) = <<>>
    BY MergedSteps
  <1>1. <<>> \in T
    <2>1. s \o <<>> = s /\ Merged(s) \o <<>> = Merged(s) /\ <<>> \in Seq(Calls)
      BY <1>0
    <2>2. Joins(<<>>, Merged(s))
      BY <1>0, <2>1
    <2> QED
      BY <1>0, <2>1, <2>2
  <1>2. ASSUME NEW u \in Seq(Calls), u \in T, NEW e \in Calls PROVE Append(u, e) \in T
    <2>1. PICK v \in Seq(Calls) : v = Append(u, e)
      <3>1. Append(u, e) \in Seq(Calls)
        OBVIOUS
      <3> QED
        BY <3>1, Zenon
    <2>2. PICK w \in Seq(Calls) : w = s \o u
      <3>1. s \o u \in Seq(Calls)
        OBVIOUS
      <3> QED
        BY <3>1, Zenon
    <2>3. s \o v = Append(w, e)
      BY <2>1, <2>2
    <2>4. Merged(v) = IF u # <<>> /\ u[Len(u)] = e THEN Merged(u) ELSE Append(Merged(u), e)
      BY <2>1, MergedSteps
    <2>5. Merged(s \o v) = IF w # <<>> /\ w[Len(w)] = e THEN Merged(w) ELSE Append(Merged(w), e)
      BY <2>3, MergedSteps
    <2>6. Merged(u) \in Seq(Calls) /\ Merged(w) \in Seq(Calls)
      BY MergedSteps
    <2>7. CASE u # <<>>
      <3>1. w # <<>> /\ w[Len(w)] = u[Len(u)]
        BY <2>2, <2>7
      <3>2. PICK a \in Seq(Calls) : Merged(w) = a \o Merged(u) /\ (Apart(s, u) => a = Merged(s))
        BY <1>2, <2>2
      <3>3. Apart(s, v) <=> Apart(s, u)
        <4>1. v # <<>> /\ v[1] = u[1]
          BY <2>1, <2>7, FirstStays
        <4> QED
          BY <2>7, <4>1 DEF Apart
      <3>4. Append(a \o Merged(u), e) = a \o Append(Merged(u), e)
        <4>1. PICK r \in Seq(Calls) : r = Merged(u)
          BY <2>6, Zenon
        <4>2. Append(a \o r, e) = a \o Append(r, e)
          BY BehindAll, ZenonT(40)
        <4> QED
          BY <4>1, <4>2
      <3>5. Merged(s \o v) = a \o Merged(v)
        BY <2>4, <2>5, <2>7, <3>1, <3>2, <3>4
      <3> HIDE DEF Joins
      <3>6. Joins(v, a)
        BY <3>2, <3>3, <3>5 DEF Joins
      <3> QED
        BY <2>1, <3>6
    <2>8. CASE u = <<>>
      <3>1. w = s /\ v = <<e>> /\ v # <<>> /\ v[1] = e
        BY <2>1, <2>2, <2>8
      <3>2. Merged(v) = <<e>>
        <4>1. Merged(v) = Append(Merged(u), e) /\ Merged(u) = <<>>
          BY <1>0, <2>4, <2>8, Zenon
        <4>2. Append(<<>>, e) = <<e>>
          OBVIOUS
        <4> QED
          BY <4>1, <4>2
      <3>3. CASE s # <<>> /\ s[Len(s)] = e
        <4>1. ~Apart(s, v)
          BY <3>1, <3>3 DEF Apart
        <4>2. Merged(s \o v) = Merged(s)
          BY <2>5, <3>1, <3>3
        <4>3. Merged(s) # <<>> /\ Merged(s)[Len(Merged(s))] = e
          BY <3>3, MergedEnd
        <4>4. PICK r \in Seq(Calls) : r = Merged(s)
          BY <1>0
        <4>5. PICK a \in Seq(Calls) : a = SubSeq(r, 1, Len(r) - 1)
          <5>1. SubSeq(r, 1, Len(r) - 1) \in Seq(Calls)
            BY <4>3, <4>4
          <5> QED
            BY <5>1, Zenon
        <4>6. r = a \o <<e>>
          BY <4>3, <4>4, <4>5
        <4> HIDE DEF Joins
        <4>7. Joins(v, a)
          BY <3>2, <4>1, <4>2, <4>4, <4>6 DEF Joins
        <4> QED
          BY <2>1, <4>7
      <3>4. CASE ~(s # <<>> /\ s[Len(s)] = e)
        <4>1. Merged(s \o v) = Append(Merged(s), e)
          BY <2>5, <3>1, <3>4
        <4>2. Append(Merged(s), e) = Merged(s) \o <<e>>
          BY <1>0
        <4>3. Joins(v, Merged(s))
          BY <3>2, <4>1, <4>2
        <4> QED
          BY <1>0, <2>1, <4>3
      <3> QED
        BY <3>3, <3>4
    <2> QED
      BY <2>7, <2>8
  <1>3. Seq(Calls) \subseteq T
    <2> HIDE DEF T
    <2> QED
      BY <1>1, <1>2, SequenceInduction
  <1> QED
    BY <1>3

\* What follows adds the same to strings that merge to the same and end in the same.
LEMMA SameMerged ==
  ASSUME NEW a \in Seq(Calls), a # <<>>, NEW b \in Seq(Calls), b # <<>>, NEW t \in Seq(Calls),
         a[Len(a)] = b[Len(b)], Merged(a) = Merged(b)
  PROVE  Merged(a \o t) = Merged(b \o t)
  <1> DEFINE T == {z \in Seq(Calls) : Merged(a \o z) = Merged(b \o z)}
  <1>1. <<>> \in T
    <2>1. a \o <<>> = a /\ b \o <<>> = b /\ <<>> \in Seq(Calls)
      OBVIOUS
    <2> QED
      BY <2>1
  <1>2. ASSUME NEW z \in Seq(Calls), z \in T, NEW e \in Calls PROVE Append(z, e) \in T
    <2>0. a \o z \in Seq(Calls) /\ b \o z \in Seq(Calls)
      OBVIOUS
    <2>1. PICK p \in Seq(Calls), q \in Seq(Calls) : p = a \o z /\ q = b \o z
      BY <2>0, Zenon
    <2>2. a \o Append(z, e) = Append(p, e) /\ b \o Append(z, e) = Append(q, e)
      <3>1. Append(a \o z, e) = a \o Append(z, e)
        BY BehindAll, Zenon
      <3>2. Append(b \o z, e) = b \o Append(z, e)
        BY BehindAll, Zenon
      <3> QED
        BY <2>1, <3>1, <3>2, Zenon
    <2>3. p # <<>> /\ q # <<>> /\ p[Len(p)] = q[Len(q)]
      <3>1. p # <<>> /\ p[Len(p)] = IF z = <<>> THEN a[Len(a)] ELSE z[Len(z)]
        BY <2>1, LastOfTwo
      <3>2. q # <<>> /\ q[Len(q)] = IF z = <<>> THEN b[Len(b)] ELSE z[Len(z)]
        BY <2>1, LastOfTwo
      <3> QED
        BY <3>1, <3>2
    <2>4. Merged(p) = Merged(q)
      BY <1>2, <2>1
    <2>5. /\ Merged(Append(p, e)) = IF p # <<>> /\ p[Len(p)] = e THEN Merged(p) ELSE Append(Merged(p), e)
          /\ Merged(Append(q, e)) = IF q # <<>> /\ q[Len(q)] = e THEN Merged(q) ELSE Append(Merged(q), e)
      BY MergedSteps
    <2>6. Append(z, e) \in Seq(Calls)
      OBVIOUS
    <2> QED
      BY <2>2, <2>3, <2>4, <2>5, <2>6
  <1>3. Seq(Calls) \subseteq T
    <2> HIDE DEF T
    <2> QED
      BY <1>1, <1>2, SequenceInduction
  <1> QED
    BY <1>3

\* A string of one value, behind any string, is as good as one element of it.
LEMMA MergedOfOne ==
  ASSUME NEW s \in Seq(Calls), NEW c \in Calls, NEW r \in Seq({c}), r # <<>>
  PROVE  Merged(s \o r) = Merged(s \o <<c>>)
  <1> DEFINE T == {u \in Seq({c}) : u # <<>> => Merged(s \o u) = Merged(s \o <<c>>)}
  <1>1. <<>> \in T
    OBVIOUS
  <1>2. ASSUME NEW u \in Seq({c}), u \in T, NEW e \in {c} PROVE Append(u, e) \in T
    <2>1. e = c /\ u \in Seq(Calls) /\ Append(u, e) \in Seq({c})
      OBVIOUS
    <2>2. CASE u = <<>>
      BY <2>1, <2>2
    <2>3. CASE u # <<>>
      <3>1. PICK w \in Seq(Calls) : w = s \o u
        <4>1. s \o u \in Seq(Calls)
          BY <2>1
        <4> QED
          BY <4>1, Zenon
      <3>2. w # <<>> /\ w[Len(w)] = c
        BY <2>1, <2>3, <3>1
      <3>3. s \o Append(u, e) = Append(w, c)
        BY <2>1, <3>1
      <3>4. Merged(Append(w, c)) = Merged(w)
        BY <3>2, MergedSteps
      <3>5. Merged(w) = Merged(s \o <<c>>)
        BY <1>2, <2>3, <3>1
      <3> QED
        BY <2>1, <3>3, <3>4, <3>5
    <2> QED
      BY <2>2, <2>3
  <1>3. Seq({c}) \subseteq T
    <2> HIDE DEF T
    <2> QED
      BY <1>1, <1>2, SequenceInduction
  <1> QED
    BY <1>3

-----------------------------------------------------------------------------
(* What is found in bytes that begin with the end of a response.           *)

\* d is the decoding of q whole responses: seven bytes or more each, with a sum that
\* is one less than two delimiters and a content without their checksum make.
IsWholes(d, q) ==
    /\ d \in Decoding /\ ~d.esc
    /\ Len(d.out) >= 7 * q /\ (SumBytes(d.out) + 5 * q) % 256 = 0

\* A framed content decodes to itself between delimiters.
LEMMA FrameDecodes ==
  ASSUME NEW m \in Seq(Byte), Whole(m), NEW f, IsFramed(f, StuffData(m))
  PROVE  f \in Seq(Byte) /\ IsWholes(Decode(Table, f), 1)
  <1>1. PICK t \in Seq(Byte) : t = StuffData(m)
    BY StuffedIsTransparent
  <1>2. PICK x \in Byte : x = SHDLC_START
    BY DEF SHDLC_START, Byte
  <1>3. x = SHDLC_STOP /\ x # ESC /\ x = 126
    BY <1>2 DEF SHDLC_START, SHDLC_STOP, ESC
  <1>4. PICK o \in Seq(Byte) : o = <<x>>
    <2>1. <<x>> \in Seq(Byte)
      OBVIOUS
    <2> QED
      BY <2>1, Zenon
  <1>5. f = o \o t \o o
    BY <1>1, <1>2, <1>3, <1>4, Zenon DEF IsFramed
  <1>6. Decode(Table, o) = [out |-> o, esc |-> FALSE]
    BY <1>3, <1>4, ShortDecodings
  <1>7. Decode(Table, t) = [out |-> m, esc |-> FALSE]
    BY <1>1, DecodeSteps
  <1>8. /\ o \o t \in Seq(Byte)
        /\ IsTwo(Decode(Table, o \o t).out, o, m) /\ ~Decode(Table, o \o t).esc
    <2>1. o \o t \in Seq(Byte)
      OBVIOUS
    <2> QED
      BY <1>6, <1>7, <2>1, DecodeJoins
  <1>9. /\ f \in Seq(Byte)
        /\ IsTwo(Decode(Table, f).out, o \o m, o) /\ ~Decode(Table, f).esc
    <2>1. PICK w \in Seq(Byte) : w = o \o t
      BY <1>8, Zenon
    <2>2. f = w \o o /\ w \o o \in Seq(Byte)
      BY <1>5, <2>1, JoinType
    <2>3. Decode(Table, w).out = o \o m /\ ~Decode(Table, w).esc
      BY <1>8, <2>1 DEF IsTwo
    <2>4. /\ IsTwo(Decode(Table, w \o o).out, Decode(Table, w).out, Decode(Table, o).out)
          /\ (Decode(Table, w \o o).esc <=> Decode(Table, o).esc)
      BY <2>3, DecodeJoins
    <2> QED
      BY <1>6, <2>2, <2>3, <2>4
  <1>10. Decode(Table, f) \in Decoding
    BY <1>9, DecodeType
  <1>11. PICK u \in Seq(Byte) : u = o \o m
    BY JoinType, Zenon
  <1>12. PICK v \in Seq(Byte) : v = u \o o
    BY JoinType, Zenon
  <1>13. Decode(Table, f).out = v
    BY <1>9, <1>11, <1>12 DEF IsTwo
  <1>14. SumBytes(o) = 126
    <2>1. SumBytes(<<>>) = 0 /\ SumBytes(Append(<<>>, x)) = SumBytes(<<>>) + x
      <3>1. <<>> \in Seq(Byte)
        OBVIOUS
      <3> QED
        BY <3>1, SummingSteps, Zenon
    <2>2. Append(<<>>, x) = o
      BY <1>4
    <2> QED
      BY <1>3, <2>1, <2>2
  <1>15. SumBytes(v) = SumBytes(m) + 252 /\ SumBytes(m) \in Nat
    <2>1. SumBytes(u) = SumBytes(o) + SumBytes(m) /\ SumBytes(v) = SumBytes(u) + SumBytes(o)
      BY <1>11, <1>12, SumOfConcat
    <2>2. SumBytes(m) \in Nat
      BY SumOfConcat
    <2> QED
      BY <1>14, <2>1, <2>2
  <1>16. Len(v) = Len(m) + 2 /\ Len(m) >= 5 /\ SumBytes(m) % 256 = 255 /\ Len(m) \in Nat
    BY <1>4, <1>11, <1>12 DEF Whole
  <1>17. (SumBytes(m) + 252 + 5 * 1) % 256 = 0 /\ Len(m) + 2 >= 7 * 1
    <2>1. PICK i \in Nat, n \in Nat : i = SumBytes(m) /\ n = Len(m)
      BY <1>15, <1>16
    <2>2. i % 256 = 255 /\ n >= 5
      BY <1>16, <2>1
    <2>3. (i + 252 + 5 * 1) % 256 = 0 /\ n + 2 >= 7 * 1
      BY ONLY <2>2, i \in Nat, n \in Nat
    <2> QED
      BY <2>1, <2>3
  <1> QED
    BY <1>9, <1>10, <1>13, <1>15, <1>16, <1>17 DEF IsWholes

\* Of q responses and one more.
LEMMA WholesJoin ==
  ASSUME NEW s \in Seq(Byte), NEW q \in Nat, IsWholes(Decode(Table, s), q),
         NEW t \in Seq(Byte), IsWholes(Decode(Table, t), 1)
  PROVE  IsWholes(Decode(Table, s \o t), q + 1)
  <1>1. PICK a \in Seq(Byte) : a = Decode(Table, s).out
    BY DEF IsWholes, Decoding
  <1>2. PICK b \in Seq(Byte) : b = Decode(Table, t).out
    BY DEF IsWholes, Decoding
  <1>3. s \o t \in Seq(Byte)
    OBVIOUS
  <1>4. Decode(Table, s \o t) \in Decoding
    BY <1>3, DecodeType
  <1>5. ~Decode(Table, s).esc /\ ~Decode(Table, t).esc
    BY DEF IsWholes
  <1>6. IsTwo(Decode(Table, s \o t).out, a, b) /\ ~Decode(Table, s \o t).esc
    BY <1>1, <1>2, <1>5, DecodeJoins
  <1>7. PICK v \in Seq(Byte) : v = a \o b
    BY JoinType, Zenon
  <1>8. Len(v) = Len(a) + Len(b) /\ SumBytes(v) = SumBytes(a) + SumBytes(b)
        /\ SumBytes(a) \in Nat /\ SumBytes(b) \in Nat
    BY <1>7, SumOfConcat
  <1>9. /\ Len(a) >= 7 * q /\ (SumBytes(a) + 5 * q) % 256 = 0
        /\ Len(b) >= 7 * 1 /\ (SumBytes(b) + 5 * 1) % 256 = 0
    BY <1>1, <1>2 DEF IsWholes
  <1>10. PICK i \in Nat, j \in Nat : i = SumBytes(a) /\ j = SumBytes(b)
    BY <1>8
  <1>11. (i + 5 * q) % 256 = 0 /\ (j + 5) % 256 = 0
    BY <1>9, <1>10
  <1>12. (i + j + 5 * (q + 1)) % 256 = 0
    <2>1. PICK k \in Int, l \in Int : i + 5 * q = 256 * k /\ j + 5 = 256 * l
      <3>1. ASSUME NEW x \in Nat, x % 256 = 0 PROVE x = 256 * (x \div 256) /\ x \div 256 \in Int
        BY ONLY <3>1
      <3>2. i + 5 * q \in Nat /\ j + 5 \in Nat
        OBVIOUS
      <3>3. PICK x \in Nat, y \in Nat : x = i + 5 * q /\ y = j + 5
        BY ONLY <3>2
      <3>4. x = 256 * (x \div 256) /\ x \div 256 \in Int /\ y = 256 * (y \div 256) /\ y \div 256 \in Int
        BY ONLY <1>11, <3>1, <3>3, x \in Nat, y \in Nat
      <3> QED
        BY ONLY <3>3, <3>4
    <2>2. i + j + 5 * (q + 1) = 256 * (k + l) /\ k + l \in Int
      BY ONLY <2>1, i \in Nat, j \in Nat, q \in Nat
    <2>3. \A z \in Int : (256 * z) % 256 = 0
      OBVIOUS
    <2> QED
      BY <2>2, <2>3, ZenonT(40)
  <1>13. (SumBytes(v) + 5 * (q + 1)) % 256 = 0
    BY <1>8, <1>10, <1>12
  <1>14. Len(v) >= 7 * (q + 1)
    BY <1>8, <1>9
  <1> QED
    BY <1>4, <1>6, <1>7, <1>13, <1>14 DEF IsWholes, IsTwo

\* No whole content is the decoding of q responses, nor is it if a delimiter is all
\* that it lacks to be one: 51 responses would have to be found in 260 bytes.
LEMMA WholesAreNone ==
  ASSUME NEW d, NEW q \in Nat, IsWholes(d, q), NEW u \in Seq(Byte), Whole(u)
  PROVE  /\ d.out # u
         /\ ~IsTwo(d.out, u, <<SHDLC_STOP>>)
  <1>1. PICK n \in Nat : n = Len(u) /\ n <= 260
    <2>1. 4 \in 1..Len(u)
      BY DEF Whole
    <2>2. u[4] \in Nat /\ u[4] <= 255
      <3>1. u[4] \in Byte
        BY <2>1, Element
      <3>2. \A b \in Byte : b \in Nat /\ b <= 255
        BY DEF Byte
      <3> QED
        BY <3>1, <3>2, Zenon
    <2> QED
      BY <2>2 DEF Whole
  <1>2. PICK i \in Nat : i = SumBytes(u) /\ i % 256 = 255
    BY SumOfConcat DEF Whole
  <1>3. d.out # u
    <2> SUFFICES ASSUME d.out = u PROVE FALSE
      OBVIOUS
    <2>1. n >= 7 * q /\ (i + 5 * q) % 256 = 0
      BY <1>1, <1>2 DEF IsWholes
    <2> QED
      BY ONLY <1>1, <1>2, <2>1, q \in Nat
  <1>4. ~IsTwo(d.out, u, <<SHDLC_STOP>>)
    <2> SUFFICES ASSUME IsTwo(d.out, u, <<SHDLC_STOP>>) PROVE FALSE
      OBVIOUS
    <2>1. PICK x \in Byte : x = SHDLC_STOP /\ x = 126
      BY DEF SHDLC_STOP, Byte
    <2>2. d.out = Append(u, x)
      BY <2>1 DEF IsTwo
    <2>3. Len(d.out) = n + 1 /\ SumBytes(d.out) = i + 126
      <3>1. SumBytes(Append(u, x)) = SumBytes(u) + x
        BY SummingSteps
      <3>2. Len(Append(u, x)) = n + 1
        BY <1>1
      <3> QED
        BY <1>2, <2>1, <2>2, <3>1, <3>2
    <2>4. n + 1 >= 7 * q /\ (i + 126 + 5 * q) % 256 = 0
      BY <2>3 DEF IsWholes
    <2>5. PICK k \in Int : i = 256 * k + 255
      BY ONLY <1>2, i \in Nat
    <2>6. PICK l \in Int : i + 126 + 5 * q = 256 * l
      BY ONLY <2>4, i \in Nat, q \in Nat
    <2>7. 381 + 5 * q = 256 * (l - k) /\ l - k \in Int
      BY ONLY <2>5, <2>6, q \in Nat
    <2>8. PICK z \in Int : z = l - k
      BY <2>7
    <2>9. 381 + 5 * q = 256 * z /\ 7 * q <= 261
      BY ONLY <1>1, <2>4, <2>7, <2>8, q \in Nat, n \in Nat
    <2> QED
      BY ONLY <2>9, z \in Int, q \in Nat
  <1> QED
    BY <1>3, <1>4

-----------------------------------------------------------------------------
(* The bytes on the line, which belong to responses.                       *)

\* A byte on the line, and the response of a call and its size.
LineByte == [byte : Byte, of : Calls]

\* The bytes received are followed by those the sensor is sending.
LEMMA TwoParts ==
  ASSUME NEW s \in Seq(LineByte), NEW t \in Seq(LineByte)
  PROVE  /\ s \o t \in Seq(LineByte) /\ Len(s \o t) = Len(s) + Len(t)
         /\ \A k \in 1..Len(s) : (s \o t)[k] = s[k]
         /\ \A k \in 1..Len(t) : (s \o t)[Len(s) + k] = t[k]
         /\ \A k \in 1..Len(s \o t) : k \in 1..Len(s) \/ \E j \in 1..Len(t) : k = Len(s) + j
  <1>1. /\ s \o t \in Seq(LineByte) /\ Len(s \o t) = Len(s) + Len(t)
        /\ Len(s) \in Nat /\ Len(t) \in Nat
    OBVIOUS
  <1>2. \A k \in 1..Len(s) : (s \o t)[k] = s[k]
    OBVIOUS
  <1>3. \A k \in 1..Len(t) : (s \o t)[Len(s) + k] = t[k]
    OBVIOUS
  <1>4. ASSUME NEW k \in 1..Len(s \o t)
        PROVE  k \in 1..Len(s) \/ \E j \in 1..Len(t) : k = Len(s) + j
    <2>1. PICK n \in Nat, m \in Nat : n = Len(s) /\ m = Len(t) /\ k \in 1..(n + m)
      BY <1>1
    <2>2. k \in 1..n \/ (k - n \in 1..m /\ k = n + (k - n))
      BY ONLY <2>1, n \in Nat, m \in Nat
    <2> QED
      BY <2>1, <2>2
  <1> QED
    BY <1>1, <1>2, <1>3, <1>4

\* No byte on the line is of a call that none of its two parts has bytes of.
LEMMA ClearLine ==
  ASSUME NEW s \in Seq(LineByte), NEW t \in Seq(LineByte), NEW c,
         \A k \in 1..Len(s) : s[k].of # c, \A k \in 1..Len(t) : t[k].of # c
  PROVE  \A k \in 1..Len(s \o t) : (s \o t)[k].of # c
  <1> SUFFICES ASSUME NEW k \in 1..Len(s \o t) PROVE (s \o t)[k].of # c
    OBVIOUS
  <1>1. CASE k \in 1..Len(s)
    BY <1>1, TwoParts
  <1>2. ASSUME NEW j \in 1..Len(t), k = Len(s) + j PROVE (s \o t)[k].of # c
    BY <1>2, TwoParts
  <1> QED
    BY <1>1, <1>2, TwoParts

Sent(c) == Response(Script[c])
Size(c) == Len(Sent(c))

\* x is byte j of the response it is tagged with.
IsByteOf(x, j) == x.of \in Calls /\ j \in 1..Size(x.of) /\ x.byte = Sent(x.of)[j]

\* Behind byte i of a response, x, comes the next one of it or the first one of
\* another.
Follows(x, i, y, j) ==
    IF i = Size(x.of) THEN y.of # x.of /\ j = 1 ELSE y.of = x.of /\ j = i + 1

\* Byte k of s is byte at[k] of a response; the responses are one behind the other,
\* and all of them but perhaps the first are whole.
Placed(s, at) ==
    /\ \A k \in 1..Len(s) : IsByteOf(s[k], at[k])
    /\ \A k \in 1..(Len(s) - 1) : Follows(s[k], at[k], s[k + 1], at[k + 1])
    /\ Len(s) > 0 => at[Len(s)] = Size(s[Len(s)].of)

\* A response is a framed content.
LEMMA SentFacts ==
  ASSUME NEW c \in Calls
  PROVE  /\ Sent(c) \in Seq(Byte) /\ Size(c) \in Nat /\ Size(c) >= 2
         /\ Sent(c)[1] = SHDLC_START /\ Sent(c)[Size(c)] = SHDLC_STOP
         /\ \A j \in 2..(Size(c) - 1) : Sent(c)[j] # SHDLC_STOP
         /\ Content(Script[c]) \in Seq(Byte) /\ Whole(Content(Script[c]))
         /\ IsFramed(Sent(c), StuffData(Content(Script[c])))
         /\ IsAnswer(Script[c])
  <1>1. IsAnswer(Script[c])
    BY LinkAssumption
  <1>2. PICK m : m = Content(Script[c])
    OBVIOUS
  <1>3. m \in Seq(Byte) /\ Whole(m) /\ IsFramed(Sent(c), StuffData(m))
    BY <1>1, <1>2, ContentFacts, Zenon DEF Sent
  <1>4. /\ Sent(c) \in Seq(Byte) /\ Sent(c)[1] = SHDLC_START /\ Sent(c)[Size(c)] = SHDLC_STOP
        /\ \A j \in 2..(Size(c) - 1) : Sent(c)[j] # SHDLC_STOP
    BY <1>3, NoneBetween, Zenon DEF Size
  <1>5. Size(c) \in Nat /\ Size(c) >= 2
    <2>1. PICK t \in Seq(Byte) : t = StuffData(m)
      BY <1>3, StuffedIsTransparent
    <2>2. Len(Sent(c)) = Len(t) + 2
      BY <1>3, <2>1, FrameParts DEF IsFramed
    <2> QED
      BY <2>2 DEF Size
  <1> QED
    BY <1>1, <1>2, <1>3, <1>4, <1>5

\* s behind the first z bytes of a frame.
LEMMA PartBehind ==
  ASSUME NEW frame \in Seq(Byte), NEW z \in Nat, z >= 1, NEW s \in Seq(Byte),
         z + Len(s) <= Len(frame), \A j \in 1..Len(s) : frame[z + j] = s[j]
  PROVE  /\ SubSeq(frame, 2, z) \in Seq(Byte)
         /\ SubSeq(frame, 2, z + Len(s)) = SubSeq(frame, 2, z) \o s
  <1>1. PICK a : a = SubSeq(frame, 2, z)
    OBVIOUS
  <1>2. PICK b : b = SubSeq(frame, 2, z + Len(s))
    OBVIOUS
  <1>3. a \in Seq(Byte) /\ Len(a) = z - 1 /\ \A j \in 1..(z - 1) : a[j] = frame[j + 1]
    BY <1>1
  <1>4. /\ b \in Seq(Byte) /\ Len(b) = z - 1 + Len(s)
        /\ \A j \in 1..(z - 1 + Len(s)) : b[j] = frame[j + 1]
    BY <1>2
  <1>5. PICK v \in Seq(Byte) : v = a \o s
    BY <1>3, JoinType, Zenon
  <1>6. Len(v) = Len(b)
    BY <1>3, <1>4, <1>5
  <1>7. ASSUME NEW j \in 1..Len(v) PROVE v[j] = b[j]
    <2>1. CASE j <= z - 1
      <3>1. j \in 1..Len(a)
        BY <1>3, <2>1
      <3>2. v[j] = a[j]
        BY <1>3, <1>5, <3>1, FirstOfTwo
      <3> QED
        BY <1>3, <1>4, <1>6, <2>1, <3>2
    <2>2. CASE ~(j <= z - 1)
      <3>1. PICK i \in 1..Len(s) : j = z - 1 + i
        <4>1. j - (z - 1) \in 1..Len(s) /\ j = z - 1 + (j - (z - 1))
          BY <1>4, <1>6, <2>2
        <4> QED
          BY <4>1
      <3>2. v[j] = s[i]
        BY <1>3, <1>5, <3>1, SecondOfTwo
      <3>3. j + 1 = z + i
        BY <3>1
      <3> QED
        BY <1>4, <1>6, <3>2, <3>3
    <2> QED
      BY <2>1, <2>2
  <1>8. v = b
    BY <1>4, <1>5, <1>6, <1>7, SameString, Zenon
  <1> QED
    BY <1>1, <1>2, <1>3, <1>5, <1>8

\* frame is the bytes of the first part of s.
BytesOf(frame, s) ==
    /\ frame \in Seq(Byte) /\ Len(frame) <= Len(s)
    /\ \A k \in 1..Len(frame) : frame[k] = s[k].byte

\* q responses end at z, of those behind the first byte.
EndsAt(frame, s, at, z, q) ==
    at[z] = Size(s[z].of) /\ IsWholes(Decode(Table, SubSeq(frame, 2, z)), q)

\* The bytes behind z and up to k are the first ones of a response.
Within(frame, s, at, z, k) ==
    /\ z < k /\ at[k] = k - z /\ k - z < Size(s[k].of)
    /\ \A j \in 1..(k - z) : frame[z + j] = Sent(s[k].of)[j]

Chained(frame, s, at, k) ==
    \E z \in 1..k, q \in Nat :
        EndsAt(frame, s, at, z, q) /\ (z = k \/ Within(frame, s, at, z, k))

\* Behind the last byte of a response, up to every position, come whole responses and
\* the first part of one.
LEMMA ChainedSteps ==
  ASSUME NEW s \in Seq(LineByte), NEW at, Placed(s, at),
         NEW frame, BytesOf(frame, s),
         NEW k \in Nat, k >= 1, k + 1 <= Len(frame), Chained(frame, s, at, k)
  PROVE  Chained(frame, s, at, k + 1)
  <1>1. /\ frame \in Seq(Byte) /\ Len(frame) <= Len(s) /\ Len(s) \in Nat /\ Len(frame) \in Nat
        /\ \A j \in 1..Len(frame) : frame[j] = s[j].byte
    BY DEF BytesOf
  <1>2. /\ \A j \in 1..Len(s) : IsByteOf(s[j], at[j])
        /\ \A j \in 1..(Len(s) - 1) : Follows(s[j], at[j], s[j + 1], at[j + 1])
    BY DEF Placed
  <1>3. /\ IsByteOf(s[k], at[k]) /\ IsByteOf(s[k + 1], at[k + 1])
        /\ Follows(s[k], at[k], s[k + 1], at[k + 1]) /\ frame[k + 1] = s[k + 1].byte
    <2>1. k \in 1..Len(s) /\ k + 1 \in 1..Len(s) /\ k \in 1..(Len(s) - 1) /\ k + 1 \in 1..Len(frame)
      BY <1>1
    <2> QED
      BY <1>1, <1>2, <2>1
  <1>4. PICK c \in Calls : c = s[k + 1].of
    BY <1>3 DEF IsByteOf
  <1>5. /\ Size(c) \in Nat /\ Size(c) >= 2 /\ Sent(c) \in Seq(Byte) /\ Len(Sent(c)) = Size(c)
        /\ at[k + 1] \in 1..Size(c) /\ frame[k + 1] = Sent(c)[at[k + 1]]
    BY <1>3, <1>4, SentFacts DEF IsByteOf, Size
  <1>6. PICK z \in 1..k, q \in Nat :
           EndsAt(frame, s, at, z, q) /\ (z = k \/ Within(frame, s, at, z, k))
    BY DEF Chained
  <1>7. z \in 1..(k + 1) /\ z \in Nat /\ z >= 1
    OBVIOUS
  <1>8. CASE z = k
    <2>1. at[k + 1] = 1
      BY <1>3, <1>6, <1>8 DEF EndsAt, Follows
    <2>2. ASSUME NEW j \in 1..((k + 1) - z) PROVE frame[z + j] = Sent(c)[j]
      <3>1. j = 1
        BY <1>8
      <3> QED
        BY <1>5, <1>8, <2>1, <3>1
    <2>3. z < k + 1 /\ (k + 1) - z = 1 /\ 1 < Size(c)
      BY <1>5, <1>8
    <2>4. Within(frame, s, at, z, k + 1)
      BY <1>4, <2>1, <2>2, <2>3 DEF Within
    <2> QED
      BY <1>6, <1>7, <2>4 DEF Chained
  <1>9. CASE Within(frame, s, at, z, k)
    <2>1. /\ z < k /\ at[k] = k - z /\ k - z < Size(s[k].of)
          /\ \A j \in 1..(k - z) : frame[z + j] = Sent(s[k].of)[j]
      BY <1>9 DEF Within
    <2>2. s[k].of = c /\ at[k + 1] = at[k] + 1
      <3>1. Size(s[k].of) \in Nat
        BY <1>3, SentFacts DEF IsByteOf
      <3>2. at[k] # Size(s[k].of)
        BY <2>1, <3>1
      <3> QED
        BY <1>3, <1>4, <3>2 DEF Follows
    <2>3. at[k + 1] = (k + 1) - z /\ (k + 1) - z <= Size(c)
      BY <1>5, <1>7, <2>1, <2>2
    <2>4. ASSUME NEW j \in 1..((k + 1) - z) PROVE frame[z + j] = Sent(c)[j]
      <3>1. CASE j \in 1..(k - z)
        BY <2>1, <2>2, <3>1
      <3>2. CASE j \notin 1..(k - z)
        <4>1. j = (k + 1) - z /\ z + j = k + 1
          BY <1>7, <3>2
        <4> QED
          BY <1>5, <2>3, <4>1
      <3> QED
        BY <3>1, <3>2
    <2>5. z < k + 1
      BY <2>1
    <2>6. CASE (k + 1) - z < Size(c)
      <3>1. Within(frame, s, at, z, k + 1)
        BY <1>4, <2>3, <2>4, <2>5, <2>6 DEF Within
      <3> QED
        BY <1>6, <1>7, <3>1 DEF Chained
    <2>7. CASE ~((k + 1) - z < Size(c))
      <3>1. (k + 1) - z = Size(c) /\ z + Size(c) = k + 1
        BY <1>5, <1>7, <2>3, <2>7, SMTT(40)
      <3>2. /\ SubSeq(frame, 2, z) \in Seq(Byte)
            /\ SubSeq(frame, 2, k + 1) = SubSeq(frame, 2, z) \o Sent(c)
        <4>1. /\ z + Len(Sent(c)) = k + 1 /\ z + Len(Sent(c)) <= Len(frame)
              /\ \A j \in 1..Len(Sent(c)) : frame[z + j] = Sent(c)[j]
          BY <1>5, <2>4, <3>1
        <4>2. PICK t \in Seq(Byte) : t = Sent(c)
          BY <1>5
        <4>3. /\ SubSeq(frame, 2, z) \in Seq(Byte)
              /\ SubSeq(frame, 2, z + Len(t)) = SubSeq(frame, 2, z) \o t
          BY <1>1, <1>7, <4>1, <4>2, PartBehind
        <4> QED
          BY <4>1, <4>2, <4>3
      <3>3. IsWholes(Decode(Table, Sent(c)), 1)
        BY SentFacts, FrameDecodes
      <3>4. IsWholes(Decode(Table, SubSeq(frame, 2, k + 1)), q + 1)
        BY <1>5, <1>6, <3>2, <3>3, WholesJoin DEF EndsAt
      <3>5. at[k + 1] = Size(s[k + 1].of)
        BY <1>4, <2>3, <3>1
      <3>6. EndsAt(frame, s, at, k + 1, q + 1)
        BY <3>4, <3>5 DEF EndsAt
      <3>7. k + 1 \in 1..(k + 1) /\ q + 1 \in Nat
        BY <1>7
      <3> QED
        BY <3>6, <3>7 DEF Chained
    <2> QED
      BY <2>6, <2>7
  <1> QED
    BY <1>6, <1>8, <1>9

\* A string that agrees with another as far as it goes is a part of it.
LEMMA PartOf ==
  ASSUME NEW s \in Seq(Byte), NEW t \in Seq(Byte), Len(s) <= Len(t),
         \A k \in 1..Len(s) : s[k] = t[k]
  PROVE  IsPrefix(s, t) /\ (Len(s) < Len(t) => IsStrictPrefix(s, t))
  <1>1. SubSeq(s, 1, Len(s)) = SubSeq(t, 1, Len(s))
    <2>1. PICK p, q : p = SubSeq(s, 1, Len(s)) /\ q = SubSeq(t, 1, Len(s))
      OBVIOUS
    <2>2. /\ p \in Seq(Byte) /\ q \in Seq(Byte) /\ Len(p) = Len(s) /\ Len(q) = Len(s)
          /\ \A k \in 1..Len(s) : p[k] = s[k] /\ q[k] = t[k]
      BY <2>1
    <2>3. p = q
      BY <2>2, SameString
    <2> QED
      BY <2>1, <2>3
  <1> QED
    BY <1>1 DEF IsPrefix, IsStrictPrefix

\* So nothing is found in bytes that begin with the last byte of a response.
LEMMA LastByteFirst ==
  ASSUME NEW s \in Seq(LineByte), NEW at, Placed(s, at),
         NEW frame, BytesOf(frame, s), frame # <<>>, at[1] = Size(s[1].of),
         NEW e, NEW d, NEW u
  PROVE  ~FoundIn(Table, frame, e, d, u)
  <1> SUFFICES ASSUME FoundIn(Table, frame, e, d, u) PROVE FALSE
    OBVIOUS
  <1>1. /\ frame \in Seq(Byte) /\ Len(frame) <= Len(s) /\ Len(s) \in Nat /\ Len(frame) \in Nat
        /\ \A j \in 1..Len(frame) : frame[j] = s[j].byte
    BY DEF BytesOf
  <1>2. /\ e \in 7..Len(frame) /\ frame[e] = SHDLC_STOP
        /\ d = SubSeq(frame, 2, e - 1) /\ u = Decode(Table, d).out
        /\ ~Decode(Table, d).esc /\ Whole(u)
    BY Zenon DEF FoundIn
  <1>3. PICK n \in Nat : n = Len(frame) /\ n >= 1
    BY <1>1, <1>2
  <1> DEFINE S == {k \in Nat : k + 1 <= n => Chained(frame, s, at, k + 1)}
  <1>4. 0 \in S
    <2>1. SubSeq(frame, 2, 1) = <<>>
      BY <1>1
    <2>2. Decode(Table, <<>>) = [out |-> <<>>, esc |-> FALSE]
      BY DecodeSteps DEF Nothing
    <2>3. IsWholes([out |-> <<>>, esc |-> FALSE], 0)
      <3>1. <<>> \in Seq(Byte) /\ Len(<<>>) = 0 /\ SumBytes(<<>>) = 0
        BY SummingSteps
      <3>2. [out |-> <<>>, esc |-> FALSE] \in Decoding
        BY <3>1 DEF Decoding
      <3> QED
        BY <3>1, <3>2 DEF IsWholes
    <2>4. EndsAt(frame, s, at, 1, 0)
      BY <2>1, <2>2, <2>3, Zenon DEF EndsAt
    <2>5. Chained(frame, s, at, 1)
      <3>1. 1 \in 1..1 /\ 0 \in Nat
        OBVIOUS
      <3> QED
        BY <2>4, <3>1, Zenon DEF Chained
    <2> QED
      BY <2>5
  <1>5. ASSUME NEW k \in Nat, k \in S PROVE k + 1 \in S
    <2> SUFFICES ASSUME (k + 1) + 1 <= n PROVE Chained(frame, s, at, (k + 1) + 1)
      OBVIOUS
    <2>1. Chained(frame, s, at, k + 1)
      BY <1>5
    <2>2. k + 1 \in Nat /\ k + 1 >= 1 /\ (k + 1) + 1 <= Len(frame)
      BY <1>3
    <2> QED
      BY <2>1, <2>2, ChainedSteps
  <1>6. ASSUME NEW k \in 1..n PROVE Chained(frame, s, at, k)
    <2>1. Nat \subseteq S
      <3> HIDE DEF S
      <3> QED
        BY <1>4, <1>5, NatSetInduction
    <2>2. k - 1 \in Nat /\ (k - 1) + 1 = k /\ k <= n
      OBVIOUS
    <2> QED
      BY <2>1, <2>2
  <1>7. /\ IsByteOf(s[e], at[e]) /\ IsByteOf(s[e - 1], at[e - 1])
        /\ Follows(s[e - 1], at[e - 1], s[e], at[e]) /\ frame[e] = s[e].byte
        /\ e - 1 \in 1..n /\ e \in 1..n
    <2>1. /\ e \in 1..Len(s) /\ e - 1 \in 1..Len(s) /\ e - 1 \in 1..(Len(s) - 1)
          /\ e \in 1..n /\ e - 1 \in 1..n /\ (e - 1) + 1 = e
      BY <1>1, <1>2, <1>3
    <2> QED
      BY <1>1, <1>3, <2>1 DEF Placed
  <1>8. PICK c \in Calls : c = s[e].of
    BY <1>7 DEF IsByteOf
  <1>9. d \in Seq(Byte) /\ u \in Seq(Byte)
    <2>1. d \in Seq(Byte)
      BY <1>1, <1>2
    <2> QED
      BY <1>2, <2>1, DecodeType DEF Decoding
  <1>10. PICK z \in 1..(e - 1), q \in Nat :
            EndsAt(frame, s, at, z, q) /\ (z = e - 1 \/ Within(frame, s, at, z, e - 1))
    BY <1>6, <1>7 DEF Chained
  <1>11. CASE z = e - 1
    <2>1. IsWholes(Decode(Table, d), q)
      BY <1>2, <1>10, <1>11 DEF EndsAt
    <2> QED
      BY <1>2, <1>9, <2>1, WholesAreNone
  <1>12. CASE Within(frame, s, at, z, e - 1)
    <2>1. at[e] # 1
      <3>1. Size(s[e - 1].of) \in Nat /\ at[e - 1] \in Nat /\ at[e - 1] >= 1
        <4>1. PICK c0 \in Calls : c0 = s[e - 1].of /\ at[e - 1] \in 1..Size(c0)
          BY <1>7 DEF IsByteOf
        <4>2. Size(c0) \in Nat
          BY SentFacts
        <4> QED
          BY <4>1, <4>2
      <3>2. at[e - 1] # Size(s[e - 1].of)
        BY <1>12, <3>1 DEF Within
      <3> QED
        BY <1>7, <3>1, <3>2 DEF Follows
    <2>2. at[e] = Size(c)
      <3>1. at[e] \in 1..Size(c) /\ Sent(c)[at[e]] = SHDLC_STOP
        BY <1>2, <1>7, <1>8 DEF IsByteOf
      <3>2. Size(c) \in Nat /\ \A j \in 2..(Size(c) - 1) : Sent(c)[j] # SHDLC_STOP
        BY SentFacts
      <3> QED
        BY <2>1, <3>1, <3>2
    <2>3. PICK y \in 1..e, p \in Nat :
              EndsAt(frame, s, at, y, p) /\ (y = e \/ Within(frame, s, at, y, e))
      BY <1>6, <1>7 DEF Chained
    <2>4. y = e
      <3>1. ~Within(frame, s, at, y, e)
        BY <1>8, <2>2, SentFacts DEF Within
      <3> QED
        BY <2>3, <3>1
    <2>5. IsWholes(Decode(Table, SubSeq(frame, 2, e)), p)
      BY <2>3, <2>4 DEF EndsAt
    <2>6. PICK x \in Byte : x = SHDLC_STOP /\ x # ESC
      BY DEF SHDLC_STOP, ESC, Byte
    <2>7. SubSeq(frame, 2, e) = Append(d, x)
      <3>1. e \in 2..Len(frame) /\ frame[e] = x
        BY <1>1, <1>2, <2>6
      <3> QED
        BY <1>1, <1>2, <3>1
    <2>8. Decode(Table, Append(d, x)) = DestuffStep(Table, Decode(Table, d), x)
      BY <1>9, DecodeSteps
    <2>9. Decode(Table, d) \in Decoding
      BY <1>9, DecodeType
    <2>10. Decode(Table, Append(d, x)).out = Append(u, x)
      BY <1>2, <2>6, <2>8, <2>9 DEF DestuffStep, Decoding
    <2>11. Append(u, x) = u \o <<SHDLC_STOP>>
      BY <1>9, <2>6
    <2>12. IsTwo(Decode(Table, SubSeq(frame, 2, e)).out, u, <<SHDLC_STOP>>)
      BY <2>7, <2>10, <2>11 DEF IsTwo
    <2> QED
      BY <1>2, <1>9, <2>5, <2>12, WholesAreNone
  <1> QED
    BY <1>10, <1>11, <1>12

\* What the model takes as read is what is found.
LEMMA ReadIsFound ==
  ASSUME NEW frame \in Seq(Byte), NEW limit, NEW b
  PROVE  b \in ResponsesIn(UnstuffByte, frame, limit)
            <=> b[4] <= limit /\ \E e, d : FoundIn(Table, frame, e, d, b)
  <1> DEFINE ends == {k \in 7..Len(frame) : frame[1] = SHDLC_START /\ frame[k] = SHDLC_STOP}
             dec(e) == Destuff(UnstuffByte, SubSeq(frame, 2, e - 1))
             Fits(u) == /\ Len(u) >= 5 /\ u[4] = Len(u) - 5 /\ u[4] <= limit
                        /\ SumBytes(u) % 256 = 255
             R == {u \in {v.out : v \in {x \in {dec(e) : e \in ends} : ~x.esc}} : Fits(u)}
  <1>1. ResponsesIn(UnstuffByte, frame, limit) = R
    BY Zenon DEF ResponsesIn
  <1>2. ASSUME NEW e, NEW d
        PROVE  b[4] <= limit /\ FoundIn(Table, frame, e, d, b)
                 <=> /\ e \in ends /\ d = SubSeq(frame, 2, e - 1)
                     /\ b = dec(e).out /\ ~dec(e).esc /\ Fits(b)
    BY DEF FoundIn, Whole, Decode
  <1> HIDE DEF ends, dec, Fits
  <1>3. b \in R <=> \E e \in ends : b = dec(e).out /\ ~dec(e).esc /\ Fits(b)
    <2>1. ASSUME b \in R PROVE \E e \in ends : b = dec(e).out /\ ~dec(e).esc /\ Fits(b)
      BY <2>1, Zenon
    <2>2. ASSUME NEW e \in ends, b = dec(e).out, ~dec(e).esc, Fits(b) PROVE b \in R
      BY <2>2, Zenon
    <2> QED
      BY <2>1, <2>2
  <1> HIDE DEF R
  <1>4. (b[4] <= limit /\ \E e, d : FoundIn(Table, frame, e, d, b))
           <=> \E e \in ends : b = dec(e).out /\ ~dec(e).esc /\ Fits(b)
    BY <1>2, Zenon
  <1> QED
    BY <1>1, <1>3, <1>4

\* From its first byte on a response comes byte by byte.
LEMMA FirstRun ==
  ASSUME NEW s \in Seq(LineByte), NEW at, Placed(s, at), s # <<>>, at[1] = 1
  PROVE  LET c == s[1].of IN
         /\ c \in Calls /\ Size(c) <= Len(s)
         /\ \A k \in 1..Size(c) : s[k].of = c /\ at[k] = k /\ s[k].byte = Sent(c)[k]
         /\ Size(c) < Len(s) => s[Size(c) + 1].of # c /\ at[Size(c) + 1] = 1
  <1>1. PICK l \in Nat : l = Len(s) /\ l >= 1
    OBVIOUS
  <1>2. /\ \A j \in 1..l : IsByteOf(s[j], at[j])
        /\ \A j \in 1..(l - 1) : Follows(s[j], at[j], s[j + 1], at[j + 1])
        /\ at[l] = Size(s[l].of)
    BY <1>1 DEF Placed
  <1>3. PICK c \in Calls : c = s[1].of
    BY <1>1, <1>2 DEF IsByteOf
  <1>4. PICK n \in Nat : n = Size(c) /\ n >= 2
    BY SentFacts
  <1> DEFINE S == {k \in Nat : k + 1 <= l /\ k + 1 <= n => s[k + 1].of = c /\ at[k + 1] = k + 1}
  <1>5. 0 \in S
    BY <1>3
  <1>6. ASSUME NEW k \in Nat, k \in S PROVE k + 1 \in S
    <2> SUFFICES ASSUME (k + 1) + 1 <= l, (k + 1) + 1 <= n
                 PROVE  s[(k + 1) + 1].of = c /\ at[(k + 1) + 1] = (k + 1) + 1
      OBVIOUS
    <2>1. k + 1 \in 1..(l - 1) /\ k + 1 # n
      BY <1>1, <1>4
    <2>2. s[k + 1].of = c /\ at[k + 1] = k + 1
      BY <1>6
    <2>3. Follows(s[k + 1], at[k + 1], s[(k + 1) + 1], at[(k + 1) + 1])
      BY <1>2, <2>1
    <2> QED
      BY <1>4, <2>1, <2>2, <2>3 DEF Follows
  <1>7. ASSUME NEW k \in 1..n, k <= l PROVE s[k].of = c /\ at[k] = k
    <2>1. Nat \subseteq S
      <3> HIDE DEF S
      <3> QED
        BY <1>5, <1>6, NatSetInduction
    <2>2. k - 1 \in Nat /\ (k - 1) + 1 = k /\ k <= n
      OBVIOUS
    <2>3. k - 1 \in S
      BY <2>1, <2>2
    <2> QED
      BY <1>7, <2>2, <2>3
  <1>8. n <= l
    <2> SUFFICES ASSUME l < n PROVE FALSE
      BY <1>1, <1>4
    <2>1. s[l].of = c /\ at[l] = l
      BY <1>1, <1>7
    <2> QED
      BY <1>2, <1>4, <2>1
  <1>9. ASSUME NEW k \in 1..n PROVE s[k].of = c /\ at[k] = k /\ s[k].byte = Sent(c)[k]
    <2>1. s[k].of = c /\ at[k] = k /\ k \in 1..l
      BY <1>1, <1>4, <1>7, <1>8
    <2> QED
      BY <1>2, <2>1 DEF IsByteOf
  <1>10. ASSUME n < l PROVE s[n + 1].of # c /\ at[n + 1] = 1
    <2>1. n \in 1..(l - 1) /\ n \in 1..n
      BY <1>1, <1>4, <1>10
    <2>2. Follows(s[n], at[n], s[n + 1], at[n + 1]) /\ s[n].of = c /\ at[n] = n
      BY <1>2, <1>9, <2>1
    <2> QED
      BY <1>4, <2>2 DEF Follows
  <1> QED
    BY <1>1, <1>3, <1>4, <1>8, <1>9, <1>10

\* In bytes that begin with a response no other one is found, without an error.
LEMMA FoundAtFirst ==
  ASSUME NEW c \in Calls, NEW frame \in Seq(Byte), IsPrefix(Sent(c), frame),
         NEW e, NEW d, NEW u, FoundIn(Table, frame, e, d, u)
  PROVE  u = Content(Script[c]) \/ StateError(u[3])
  <1>1. PICK v : v = [sent |-> Script[c], damage |-> "trailing", bytes |-> frame]
    OBVIOUS
  <1>2. v.bytes = frame /\ v.sent = Script[c] /\ v.damage = "trailing"
    BY <1>1
  <1>3. IsDelivery(v) /\ Noticeable(v)
    BY <1>2, SentFacts DEF IsDelivery, Noticeable, Sent
  <1>4. u = Content(v.sent) \/ StateError(u[3])
    <2>1. Table \in {Table, Flip} /\ FoundIn(Table, v.bytes, e, d, u)
      BY <1>2
    <2>2. v.damage # "lost"
      BY <1>2
    <2> QED
      BY <1>3, <2>1, <2>2, DeliveryIsSent, Zenon
  <1> QED
    BY <1>2, <1>4

\* What is found in the bytes at the line is the response that is first, and whole.
LEMMA FirstIsFound ==
  ASSUME NEW s \in Seq(LineByte), NEW at, Placed(s, at),
         NEW frame, BytesOf(frame, s), NEW e, NEW d, NEW u, FoundIn(Table, frame, e, d, u)
  PROVE  /\ s # <<>> /\ at[1] = 1 /\ Size(s[1].of) <= Len(frame)
         /\ u = Content(Script[s[1].of]) \/ StateError(u[3])
  <1>1. /\ frame \in Seq(Byte) /\ Len(frame) <= Len(s)
        /\ \A j \in 1..Len(frame) : frame[j] = s[j].byte
    BY DEF BytesOf
  <1>2. e \in 7..Len(frame) /\ frame[1] = SHDLC_START
    BY Zenon DEF FoundIn
  <1>3. frame # <<>> /\ s # <<>> /\ 1 \in 1..Len(s) /\ 1 \in 1..Len(frame)
    BY <1>1, <1>2
  <1>4. PICK c \in Calls : c = s[1].of /\ at[1] \in 1..Size(c) /\ frame[1] = Sent(c)[at[1]]
    BY <1>1, <1>3 DEF Placed, IsByteOf
  <1>5. at[1] = 1
    <2>1. at[1] # Size(c)
      BY <1>3, <1>4, LastByteFirst
    <2>2. SHDLC_START = SHDLC_STOP
      BY DEF SHDLC_START, SHDLC_STOP
    <2>3. Size(c) \in Nat /\ \A j \in 2..(Size(c) - 1) : Sent(c)[j] # SHDLC_STOP
      BY SentFacts
    <2>4. at[1] \in 2..(Size(c) - 1) \/ at[1] = 1
      BY <1>4, <2>1, <2>3
    <2> QED
      BY <1>2, <1>4, <2>2, <2>3, <2>4
  <1>6. /\ Size(c) <= Len(s)
        /\ \A k \in 1..Size(c) : s[k].byte = Sent(c)[k]
    BY <1>3, <1>4, <1>5, FirstRun
  <1>7. /\ Sent(c) \in Seq(Byte) /\ Len(Sent(c)) = Size(c)
        /\ Content(Script[c]) \in Seq(Byte) /\ IsFramed(Sent(c), StuffData(Content(Script[c])))
        /\ IsAnswer(Script[c])
    BY SentFacts DEF Size
  <1>8. Size(c) <= Len(frame)
    <2> SUFFICES ASSUME Len(frame) < Size(c) PROVE FALSE
      BY <1>1, <1>7
    <2>1. IsStrictPrefix(frame, Sent(c))
      <3>1. \A k \in 1..Len(frame) : frame[k] = Sent(c)[k]
        BY <1>1, <1>6, <1>7
      <3> QED
        BY <1>1, <1>7, <3>1, PartOf
    <2> QED
      BY <1>1, <1>7, <2>1, CutIsNoticed, Zenon
  <1>9. IsPrefix(Sent(c), frame)
    <2>1. \A k \in 1..Len(Sent(c)) : Sent(c)[k] = frame[k]
      BY <1>1, <1>6, <1>7, <1>8
    <2> QED
      BY <1>1, <1>7, <1>8, <2>1, PartOf
  <1> QED
    BY <1>1, <1>3, <1>4, <1>5, <1>8, <1>9, FoundAtFirst

\* The response to a call is taken for what it is.
LEMMA OriginalIsSent == ASSUME NEW c \in Calls PROVE Original(Content(Script[c])) = c
  <1>1. PICK r : r = Script[c] /\ IsAnswer(r)
    BY SentFacts
  <1>2. PICK m \in Seq(Byte) : m = Content(r)
    BY <1>1, SentFacts
  <1>3. PICK head \in Seq(Byte), b \in Byte :
           head = <<r.addr, r.cmd, r.state, Len(r.data)>> /\ IsJoined(m, head, r.data, <<b>>)
    BY <1>1, <1>2, ContentFacts, Zenon
  <1>4. PICK d \in Seq(Byte) : d = r.data
    BY <1>1 DEF IsAnswer
  <1>5. PICK f \in Seq(Byte) : f = head \o d
    BY JoinType, Zenon
  <1>6. Fields(r) = f
    BY <1>3, <1>4, <1>5 DEF Fields
  <1>7. m = f \o <<b>>
    BY <1>3, <1>4, <1>5 DEF IsJoined
  <1>8. Front(m) = f
    <2>1. \A g \in Seq(Byte) : SubSeq(g \o <<b>>, 1, Len(g \o <<b>>) - 1) = g
      <3> SUFFICES ASSUME NEW g \in Seq(Byte) PROVE SubSeq(g \o <<b>>, 1, Len(g \o <<b>>) - 1) = g
        OBVIOUS
      <3>1. PICK w \in Seq(Byte) : w = g \o <<b>>
        <4>1. <<b>> \in Seq(Byte)
          OBVIOUS
        <4> QED
          BY <4>1, JoinType, Zenon
      <3>2. Len(w) = Len(g) + 1 /\ \A k \in 1..Len(g) : w[k] = g[k]
        BY <3>1
      <3>3. PICK v : v = SubSeq(w, 1, Len(w) - 1)
        OBVIOUS
      <3>4. v \in Seq(Byte) /\ Len(v) = Len(g) /\ \A k \in 1..Len(v) : v[k] = g[k]
        BY <3>2, <3>3
      <3>5. v = g
        BY <3>4, SameString
      <3> QED
        BY <3>1, <3>3, <3>5
    <2> QED
      BY <1>7, <2>1 DEF Front
  <1>9. PICK of : of = {x \in Calls : Fields(Script[x]) = Front(m)}
    OBVIOUS
  <1>10. of = {c}
    <2>1. c \in of
      BY <1>1, <1>6, <1>8, <1>9
    <2>2. \A x \in of : x = c
      BY <1>1, <1>6, <1>8, <1>9, LinkAssumption
    <2> QED
      BY <2>1, <2>2
  <1> QED
    BY <1>1, <1>2, <1>9, <1>10 DEF Original

\* What a read makes of the bytes at the line is the first response, if it is whole.
LEMMA OutcomeOfRead ==
  ASSUME NEW s \in Seq(LineByte), NEW at, Placed(s, at),
         NEW frame, BytesOf(frame, s), NEW r \in Outcomes(frame)
  PROVE  \/ r = Failed
         \/ /\ s # <<>> /\ at[1] = 1 /\ Size(s[1].of) <= Len(frame)
            /\ r = s[1].of
  <1> DEFINE good == {b \in ResponsesIn(UnstuffByte, frame, MaxRxDataLen) : ~StateError(b[3])}
  <1>1. r \in IF good = {} THEN {Failed} ELSE {Original(b) : b \in good}
    BY Zenon DEF Outcomes
  <1>2. CASE r = Failed
    BY <1>2
  <1>3. CASE r # Failed
    <2>1. PICK b \in good : r = Original(b)
      BY <1>1, <1>3
    <2>2. PICK e, d : FoundIn(Table, frame, e, d, b)
      <3>1. b \in ResponsesIn(UnstuffByte, frame, MaxRxDataLen) /\ frame \in Seq(Byte)
        BY <2>1 DEF BytesOf
      <3> QED
        BY <3>1, ReadIsFound, Zenon
    <2>3. /\ s # <<>> /\ at[1] = 1 /\ Size(s[1].of) <= Len(frame)
          /\ b = Content(Script[s[1].of])
      BY <2>1, <2>2, FirstIsFound
    <2>4. s[1].of \in Calls
      BY <2>3, FirstRun
    <2> QED
      BY <2>1, <2>3, <2>4, OriginalIsSent
  <1> QED
    BY <1>2, <1>3

\* If the bytes begin with a response it is what the call returns.
LEMMA WholeIsRead ==
  ASSUME NEW c \in Calls, NEW frame \in Seq(Byte), IsPrefix(Sent(c), frame)
  PROVE  Outcomes(frame) = {c}
  <1> DEFINE good == {b \in ResponsesIn(UnstuffByte, frame, MaxRxDataLen) : ~StateError(b[3])}
             m == Content(Script[c])
  <1>1. Outcomes(frame) = IF good = {} THEN {Failed} ELSE {Original(b) : b \in good}
    BY Zenon DEF Outcomes
  <1>2. m \in good
    <2>1. /\ IsAnswer(Script[c]) /\ Len(Script[c].data) <= MaxRxDataLen
          /\ ~StateError(Script[c].state) /\ MaxRxDataLen \in Nat
      <3>1. MaxRxDataLen \in Nat
        BY LinkAssumption, ByteIsNat
      <3> QED
        BY <3>1, LinkAssumption, RoomAssumption
    <2>2. PICK e : e = Len(Response(Script[c]))
      OBVIOUS
    <2>3. /\ ResponseAt(TableDecoding(frame), frame, MaxRxDataLen, e)
          /\ TableDecoding(frame)[e - 1].out = m
      BY <2>1, <2>2, TableFinds DEF Sent
    <2>4. FoundIn(Table, frame, e, SubSeq(frame, 2, e - 1), m)
      BY <2>3, TwoDecodings, ResponseIsFound
    <2>5. m[4] = Len(Script[c].data) /\ m[3] = Script[c].state
      BY <2>1, ContentFacts, Zenon
    <2>6. m \in ResponsesIn(UnstuffByte, frame, MaxRxDataLen)
      BY <2>1, <2>4, <2>5, ReadIsFound
    <2> QED
      BY <2>1, <2>5, <2>6
  <1>3. \A b \in good : b = m
    <2> SUFFICES ASSUME NEW b \in good PROVE b = m
      OBVIOUS
    <2>1. PICK e, d : FoundIn(Table, frame, e, d, b)
      BY ReadIsFound, Zenon
    <2> QED
      BY <2>1, FoundAtFirst
  <1>4. Original(m) = c
    BY OriginalIsSent
  <1> HIDE DEF good, m
  <1>5. {Original(b) : b \in good} = {c} /\ good # {}
    BY <1>2, <1>3, <1>4
  <1> QED
    BY <1>1, <1>5

\* A response as the sensor begins to send it.
LEMMA TaggedFacts ==
  ASSUME NEW c \in Calls
  PROVE  /\ Tagged(c) \in Seq(LineByte) /\ Len(Tagged(c)) = Size(c) /\ Size(c) \in Nat /\ Size(c) >= 2
         /\ \A k \in 1..Size(c) : Tagged(c)[k].byte = Sent(c)[k] /\ Tagged(c)[k].of = c
  <1>1. PICK r \in Seq(Byte) : r = Sent(c) /\ Len(r) = Size(c) /\ Len(r) >= 2
    BY SentFacts DEF Size
  <1>2. Tagged(c) = [k \in 1..Len(r) |-> [byte |-> r[k], of |-> c]]
    BY <1>1 DEF Tagged, Sent
  <1>3. Tagged(c) \in [1..Len(r) -> LineByte] /\ Len(r) \in Nat
    BY <1>2 DEF LineByte
  <1>4. Tagged(c) \in Seq(LineByte) /\ Len(Tagged(c)) = Len(r)
    BY <1>2, <1>3
  <1>5. \A k \in 1..Size(c) : Tagged(c)[k].byte = Sent(c)[k] /\ Tagged(c)[k].of = c
    BY <1>1, <1>2
  <1> QED
    BY <1>1, <1>4, <1>5

\* What is behind a part of the bytes is in its place,
LEMMA PlacedBehind ==
  ASSUME NEW s \in Seq(LineByte), NEW at, Placed(s, at), NEW n \in 0..Len(s)
  PROVE  \E to : Placed(SubSeq(s, n + 1, Len(s)), to)
  <1>1. PICK t \in Seq(LineByte) : t = SubSeq(s, n + 1, Len(s))
    <2>1. SubSeq(s, n + 1, Len(s)) \in Seq(LineByte)
      OBVIOUS
    <2> QED
      BY <2>1, Zenon
  <1>2. /\ Len(t) \in Nat /\ Len(t) + n = Len(s) /\ \A k \in 1..Len(t) : t[k] = s[k + n]
    BY <1>1
  <1>3. PICK to : to = [k \in 1..Len(t) |-> at[k + n]]
    OBVIOUS
  <1>4. \A k \in 1..Len(t) : t[k] = s[k + n] /\ to[k] = at[k + n] /\ k + n \in 1..Len(s)
    BY <1>2, <1>3
  <1>5. ASSUME NEW k \in 1..Len(t) PROVE IsByteOf(t[k], to[k])
    BY <1>4 DEF Placed
  <1>6. ASSUME NEW k \in 1..(Len(t) - 1) PROVE Follows(t[k], to[k], t[k + 1], to[k + 1])
    <2>1. k \in 1..Len(t) /\ k + 1 \in 1..Len(t) /\ k + n \in 1..(Len(s) - 1) /\ (k + 1) + n = (k + n) + 1
      BY <1>2
    <2>2. t[k] = s[k + n] /\ to[k] = at[k + n] /\ t[k + 1] = s[(k + n) + 1] /\ to[k + 1] = at[(k + n) + 1]
      BY <1>4, <2>1
    <2>3. Follows(s[k + n], at[k + n], s[(k + n) + 1], at[(k + n) + 1])
      BY <2>1 DEF Placed
    <2> QED
      BY <2>2, <2>3
  <1>7. Len(t) > 0 => to[Len(t)] = Size(t[Len(t)].of)
    <2> SUFFICES ASSUME Len(t) > 0 PROVE to[Len(t)] = Size(t[Len(t)].of)
      OBVIOUS
    <2>1. Len(t) \in 1..Len(t) /\ Len(s) > 0
      BY <1>2
    <2>2. t[Len(t)] = s[Len(s)] /\ to[Len(t)] = at[Len(s)]
      BY <1>2, <1>4, <2>1
    <2> QED
      BY <2>1, <2>2 DEF Placed
  <1>8. Placed(t, to)
    BY <1>5, <1>6, <1>7 DEF Placed
  <1> QED
    BY <1>1, <1>8

\* and so is a response behind them that is another than their last.
LEMMA PlacedFollowed ==
  ASSUME NEW s \in Seq(LineByte), NEW at, Placed(s, at), NEW c \in Calls,
         \A k \in 1..Len(s) : s[k].of # c
  PROVE  \E to : Placed(s \o Tagged(c), to)
  <1>1. PICK r \in Seq(LineByte), m \in Nat :
           /\ r = Tagged(c) /\ Len(r) = m /\ m = Size(c) /\ m >= 2
           /\ \A k \in 1..m : r[k].byte = Sent(c)[k] /\ r[k].of = c
    BY TaggedFacts
  <1>2. PICK t \in Seq(LineByte), n \in Nat : t = s \o r /\ n = Len(s)
    <2>1. s \o r \in Seq(LineByte) /\ Len(s) \in Nat
      OBVIOUS
    <2> QED
      BY <2>1, Zenon
  <1>3. Len(t) = n + m /\ (\A k \in 1..n : t[k] = s[k]) /\ \A k \in 1..m : t[n + k] = r[k]
    <2>1. Len(r) = m
      BY <1>1
    <2>2. /\ Len(s \o r) = Len(s) + Len(r)
          /\ \A k \in 1..Len(s) : (s \o r)[k] = s[k]
          /\ \A k \in 1..Len(r) : (s \o r)[Len(s) + k] = r[k]
      BY TwoParts, ZenonT(40)
    <2> QED
      BY ONLY <1>2, <2>1, <2>2, ZenonT(40)
  <1>4. PICK to : to = [k \in 1..(n + m) |-> IF k <= n THEN at[k] ELSE k - n]
    OBVIOUS
  <1>5. /\ \A k \in 1..n : t[k] = s[k] /\ to[k] = at[k]
        /\ \A k \in 1..m : t[n + k] = r[k] /\ to[n + k] = k
    BY <1>3, <1>4
  <1>6. ASSUME NEW k \in 1..(n + m) PROVE k \in 1..n \/ \E j \in 1..m : k = n + j
    <2>1. CASE k <= n
      BY <2>1
    <2>2. CASE ~(k <= n)
      <3>1. k - n \in 1..m /\ k = n + (k - n)
        BY <2>2
      <3> QED
        BY <3>1
    <2> QED
      BY <2>1, <2>2
  <1>7. ASSUME NEW k \in 1..Len(t) PROVE IsByteOf(t[k], to[k])
    <2>1. CASE k \in 1..n
      BY <1>2, <1>5, <2>1 DEF Placed
    <2>2. CASE \E j \in 1..m : k = n + j
      BY <1>1, <1>5, <2>2 DEF IsByteOf
    <2> QED
      BY <1>3, <1>6, <2>1, <2>2
  <1>8. ASSUME NEW k \in 1..(Len(t) - 1) PROVE Follows(t[k], to[k], t[k + 1], to[k + 1])
    <2>1. CASE k <= n - 1
      <3>1. k \in 1..(n - 1) /\ k \in 1..n /\ k + 1 \in 1..n
        BY <2>1
      <3> QED
        BY <1>2, <1>5, <3>1 DEF Placed
    <2>2. CASE k = n
      <3>1. n \in 1..n /\ n > 0 /\ 1 \in 1..m
        BY <1>1, <2>2
      <3>2. t[n] = s[n] /\ to[n] = at[n] /\ t[n + 1] = r[1] /\ to[n + 1] = 1
        BY <1>5, <3>1
      <3>3. at[n] = Size(s[n].of) /\ s[n].of # c /\ r[1].of = c
        BY <1>1, <1>2, <3>1 DEF Placed
      <3> QED
        BY <2>2, <3>2, <3>3 DEF Follows
    <2>3. CASE k > n
      <3>1. PICK j \in 1..m : k = n + j /\ j + 1 \in 1..m /\ k + 1 = n + (j + 1)
        <4>1. k - n \in 1..m /\ k = n + (k - n) /\ (k - n) + 1 \in 1..m /\ k + 1 = n + ((k - n) + 1)
          BY <1>3, <2>3
        <4> QED
          BY <4>1
      <3>2. t[k] = r[j] /\ to[k] = j /\ t[k + 1] = r[j + 1] /\ to[k + 1] = j + 1
        BY <1>5, <3>1
      <3>3. r[j].of = c /\ r[j + 1].of = c /\ j # Size(c)
        BY <1>1, <3>1
      <3> QED
        BY <3>2, <3>3 DEF Follows
    <2> QED
      BY <2>1, <2>2, <2>3
  <1>9. to[Len(t)] = Size(t[Len(t)].of)
    <2>1. m \in 1..m
      BY <1>1
    <2>2. t[n + m] = r[m] /\ to[n + m] = m /\ r[m].of = c
      BY <1>1, <1>5, <2>1
    <2> QED
      BY <1>1, <1>3, <2>2
  <1>10. Placed(t, to)
    BY <1>7, <1>8, <1>9 DEF Placed
  <1> QED
    BY <1>1, <1>2, <1>10

-----------------------------------------------------------------------------
(* The inductive invariant.                                                *)

\* The types of the variables; the result is left open, as no step depends on it.
LinkType ==
    /\ host \in {"ready", "sleeping", "receiving"} /\ call \in Calls
    /\ requests \in Seq(Calls) /\ uart \in Seq(LineByte) /\ out \in Seq(LineByte)
    /\ faults \in Nat /\ torn \in BOOLEAN

\* The calls in q are distinct, and none of the bytes of s belongs to one.
Separate(q, s) ==
    /\ \A i, j \in 1..Len(q) : q[i] = q[j] => i = j
    /\ \A i \in 1..Len(q), k \in 1..Len(s) : s[k].of # q[i]

InPlace(s) == \E at : Placed(s, at)

\* No request is one for a response that is under way, and the bytes under way are in their
\* places, until one is lost.
Unmixed == ~torn => Separate(requests, uart \o out) /\ InPlace(uart \o out)

\* Without a fault nothing is under way but the current call and its response.
NothingElse ==
    faults = 0 =>
      /\ host = "ready" => requests = <<>> /\ uart = <<>> /\ out = <<>>
      /\ host = "sleeping" => \/ requests = <<call>> /\ uart = <<>> /\ out = <<>>
                              \/ requests = <<>> /\ uart \o out = Tagged(call)
      /\ host = "receiving" => requests = <<>> /\ out = <<>> /\ uart = Tagged(call)

\* The invariant: Unmixed is for the refinement, NothingElse for OwnResponse.
LinkInv == LinkType /\ Unmixed /\ NothingElse

\* The next call is a call.
LEMMA NextCall == ASSUME NEW c \in Calls PROVE (c + 1) % NumCalls \in Calls
  BY LinkAssumption DEF Calls

\* What is behind the first n bytes received, with what is being sent.
LEMMA RestOfLine ==
  ASSUME NEW s \in Seq(LineByte), NEW t \in Seq(LineByte), NEW n \in 0..Len(s)
  PROVE  SubSeq(s, n + 1, Len(s)) \o t = SubSeq(s \o t, n + 1, Len(s \o t))
  <1>1. SubSeq(s, n + 1, Len(s)) \in Seq(LineByte) /\ s \o t \in Seq(LineByte)
    OBVIOUS
  <1>2. PICK r \in Seq(LineByte), w \in Seq(LineByte) : r = SubSeq(s, n + 1, Len(s)) /\ w = s \o t
    BY <1>1, Zenon
  <1>3. PICK l \in Nat, m \in Nat : l = Len(s) - n /\ m = Len(t)
    <2>1. Len(s) - n \in Nat /\ Len(t) \in Nat
      OBVIOUS
    <2> QED
      BY <2>1, Zenon
  <1>4. Len(r) = l /\ \A k \in 1..l : r[k] = s[k + n]
    BY <1>2, <1>3
  <1>5. Len(w) = n + l + m /\ (\A k \in 1..(n + l) : w[k] = s[k]) /\ \A k \in 1..m : w[n + l + k] = t[k]
    BY <1>2, <1>3
  <1>6. r \o t \in Seq(LineByte) /\ SubSeq(w, n + 1, Len(w)) \in Seq(LineByte)
    BY <1>5
  <1>7. PICK u \in Seq(LineByte), v \in Seq(LineByte) : u = r \o t /\ v = SubSeq(w, n + 1, Len(w))
    BY <1>6, Zenon
  <1>8. Len(u) = l + m /\ (\A k \in 1..l : u[k] = r[k]) /\ \A k \in 1..m : u[l + k] = t[k]
    <2>1. Len(r) = l /\ Len(t) = m
      BY <1>3, <1>4
    <2>2. /\ Len(u) = Len(r) + Len(t)
          /\ \A k \in 1..Len(r) : u[k] = r[k]
          /\ \A k \in 1..Len(t) : u[Len(r) + k] = t[k]
      BY ONLY <1>7, r \in Seq(LineByte), t \in Seq(LineByte), TwoParts
    <2> QED
      BY <2>1, <2>2
  <1>9. Len(v) = l + m /\ \A k \in 1..(l + m) : v[k] = w[k + n]
    BY <1>5, <1>7
  <1>10. ASSUME NEW k \in 1..(l + m) PROVE u[k] = v[k]
    <2>1. CASE k <= l
      <3>1. k \in 1..l /\ k + n \in 1..(n + l)
        BY <2>1
      <3> QED
        BY <1>4, <1>5, <1>8, <1>9, <3>1
    <2>2. CASE ~(k <= l)
      <3>1. PICK j \in 1..m : k = l + j /\ k + n = n + l + j
        <4>1. k - l \in 1..m /\ k = l + (k - l) /\ k + n = n + l + (k - l)
          BY <2>2
        <4> QED
          BY <4>1
      <3> QED
        BY <1>5, <1>8, <1>9, <3>1
    <2> QED
      BY <2>1, <2>2
  <1>11. u = v
    BY <1>8, <1>9, <1>10
  <1> QED
    BY <1>2, <1>7, <1>11

\* A byte that arrives stays where it is in the line.
LEMMA ByteMoves ==
  ASSUME NEW s \in Seq(LineByte), NEW t \in Seq(LineByte), t # <<>>
  PROVE  /\ Append(s, Head(t)) \in Seq(LineByte) /\ Tail(t) \in Seq(LineByte)
         /\ Append(s, Head(t)) \o Tail(t) = s \o t
  OBVIOUS

\* A request is made, answered or lost, and bytes are read.
LEMMA SeparateSteps ==
  ASSUME NEW q \in Seq(Calls), NEW s \in Seq(LineByte), Separate(q, s)
  PROVE  /\ \A c \in Calls :
               ~Contains(q, c) /\ (\A k \in 1..Len(s) : s[k].of # c) => Separate(Append(q, c), s)
         /\ \A n \in 0..Len(s) : Separate(q, SubSeq(s, n + 1, Len(s)))
         /\ q # <<>> => /\ Head(q) \in Calls /\ Tail(q) \in Seq(Calls)
                        /\ Separate(Tail(q), s) /\ Separate(Tail(q), s \o Tagged(Head(q)))
                        /\ \A k \in 1..Len(s) : s[k].of # Head(q)
  <1>1. /\ \A i, j \in 1..Len(q) : q[i] = q[j] => i = j
        /\ \A i \in 1..Len(q), k \in 1..Len(s) : s[k].of # q[i]
    BY DEF Separate
  <1>2. ASSUME NEW c \in Calls, ~Contains(q, c), \A k \in 1..Len(s) : s[k].of # c
        PROVE  Separate(Append(q, c), s)
    <2>1. \A i \in 1..Len(q) : q[i] # c
      BY <1>2 DEF Contains
    <2>2. PICK p \in Seq(Calls) : p = Append(q, c)
      <3>1. Append(q, c) \in Seq(Calls)
        OBVIOUS
      <3> QED
        BY <3>1, Zenon
    <2>3. PICK l \in Nat : l = Len(q)
      OBVIOUS
    <2>4. Len(p) = l + 1 /\ p[l + 1] = c /\ \A i \in 1..l : p[i] = q[i]
      BY <2>2, <2>3
    <2>5. \A i \in 1..(l + 1) : i \in 1..l \/ i = l + 1
      OBVIOUS
    <2>6. \A i, j \in 1..Len(p) : p[i] = p[j] => i = j
      <3> SUFFICES ASSUME NEW i \in 1..Len(p), NEW j \in 1..Len(p), p[i] = p[j] PROVE i = j
        OBVIOUS
      <3>1. (i \in 1..l \/ i = l + 1) /\ (j \in 1..l \/ j = l + 1)
        BY <2>4, <2>5
      <3>2. \A h \in 1..l : p[h] # p[l + 1]
        BY <2>1, <2>3, <2>4
      <3>3. CASE i \in 1..l /\ j \in 1..l
        <4>1. q[i] = q[j] /\ i \in 1..Len(q) /\ j \in 1..Len(q)
          BY <2>3, <2>4, <3>3
        <4> QED
          BY <1>1, <4>1
      <3> QED
        BY <3>1, <3>2, <3>3
    <2>7. \A i \in 1..Len(p), k \in 1..Len(s) : s[k].of # p[i]
      BY <1>1, <1>2, <2>3, <2>4, <2>5, Zenon
    <2> QED
      BY <2>2, <2>6, <2>7 DEF Separate
  <1>3. ASSUME NEW n \in 0..Len(s) PROVE Separate(q, SubSeq(s, n + 1, Len(s)))
    <2>1. PICK t : t = SubSeq(s, n + 1, Len(s))
      OBVIOUS
    <2>2. \A k \in 1..Len(t) : t[k] = s[k + n] /\ k + n \in 1..Len(s)
      BY <2>1
    <2>3. Separate(q, t)
      BY <1>1, <2>2 DEF Separate
    <2> QED
      BY <2>1, <2>3
  <1>4. ASSUME q # <<>>
        PROVE  /\ Head(q) \in Calls /\ Tail(q) \in Seq(Calls)
               /\ Separate(Tail(q), s) /\ Separate(Tail(q), s \o Tagged(Head(q)))
               /\ \A k \in 1..Len(s) : s[k].of # Head(q)
    <2>1. Head(q) \in Calls /\ Tail(q) \in Seq(Calls) /\ Head(q) = q[1] /\ 1 \in 1..Len(q)
      BY <1>4
    <2>2. PICK p \in Seq(Calls), c \in Calls : p = Tail(q) /\ c = Head(q)
      BY <2>1
    <2>3. \A i \in 1..Len(p) : p[i] = q[i + 1] /\ i + 1 \in 1..Len(q)
      BY <1>4, <2>2
    <2>4. \A i, j \in 1..Len(p) : p[i] = p[j] => i = j
      <3> SUFFICES ASSUME NEW i \in 1..Len(p), NEW j \in 1..Len(p), p[i] = p[j] PROVE i = j
        OBVIOUS
      <3>1. i + 1 = j + 1
        BY <1>1, <2>3
      <3> QED
        BY <3>1
    <2>5. \A i \in 1..Len(p) : p[i] # c
      <3> SUFFICES ASSUME NEW i \in 1..Len(p), p[i] = c PROVE FALSE
        OBVIOUS
      <3>1. i + 1 = 1
        BY <1>1, <2>1, <2>2, <2>3
      <3> QED
        BY <3>1
    <2>6. \A i \in 1..Len(p), k \in 1..Len(s) : s[k].of # p[i]
      BY <1>1, <2>3
    <2>7. PICK r \in Seq(LineByte) : r = Tagged(c) /\ \A k \in 1..Len(r) : r[k].of = c
      BY TaggedFacts
    <2>8. \A i \in 1..Len(p), k \in 1..Len(s \o r) : (s \o r)[k].of # p[i]
      <3> SUFFICES ASSUME NEW i \in 1..Len(p), NEW k \in 1..Len(s \o r)
                   PROVE  (s \o r)[k].of # p[i]
        OBVIOUS
      <3>1. (s \o r)[k].of = c \/ \E j \in 1..Len(s) : (s \o r)[k] = s[j]
        BY <2>7, TwoParts
      <3> QED
        BY <2>5, <2>6, <3>1
    <2>9. Separate(p, s) /\ Separate(p, s \o r)
      BY <2>4, <2>6, <2>8 DEF Separate
    <2>10. \A k \in 1..Len(s) : s[k].of # c
      BY <1>1, <2>1, <2>2
    <2> QED
      BY <2>2, <2>7, <2>9, <2>10
  <1> QED
    BY <1>2, <1>3, <1>4

\* The read of a call.
LEMMA ReadFacts ==
  ASSUME LinkType, HostRx
  PROVE  \E n, frame :
            /\ n \in 0..Len(uart)
            /\ BytesOf(frame, uart \o out) /\ Len(frame) = n
            /\ n = Len(uart) \/ n = RxRequest(MaxRxDataLen)
            /\ result' \in Outcomes(frame)
            /\ uart' = SubSeq(uart, n + 1, Len(uart))
            /\ uart' \o out = SubSeq(uart \o out, n + 1, Len(uart \o out))
            /\ host' = "ready" /\ call' = (call + 1) % NumCalls
            /\ UNCHANGED <<requests, out, faults, torn>>
  <1>1. uart \in Seq(LineByte) /\ out \in Seq(LineByte)
    BY DEF LinkType
  <1>2. PICK x : x = RxRequest(MaxRxDataLen)
    OBVIOUS
  <1>3. x \in Nat
    <2>1. MaxRxDataLen \in Nat
      BY LinkAssumption, ByteIsNat
    <2> QED
      BY <1>2, <2>1 DEF RxRequest
  <1>4. /\ \E frame \in {Bytes(Prefix(uart, x))} : \E r \in Outcomes(frame) : ReturnFromCall(r)
        /\ uart' = SubSeq(uart, x + 1, Len(uart))
        /\ UNCHANGED <<requests, out, faults, torn>>
    BY <1>2, Zenon DEF HostRx, Read
  <1>5. PICK frame : frame = Bytes(Prefix(uart, x)) /\ \E r \in Outcomes(frame) : ReturnFromCall(r)
    BY <1>4, Zenon
  <1>6. /\ result' \in Outcomes(frame) /\ host' = "ready" /\ call' = (call + 1) % NumCalls
    BY <1>5, Zenon DEF ReturnFromCall
  <1>7. PICK n \in 0..Len(uart) :
           /\ Prefix(uart, x) = SubSeq(uart, 1, n)
           /\ n = Len(uart) \/ n = x
           /\ SubSeq(uart, x + 1, Len(uart)) = SubSeq(uart, n + 1, Len(uart))
    <2>1. CASE x < Len(uart)
      <3>1. x \in 0..Len(uart) /\ Prefix(uart, x) = SubSeq(uart, 1, x)
        BY <1>1, <1>3, <2>1 DEF Prefix
      <3> QED
        BY <3>1
    <2>2. CASE ~(x < Len(uart))
      <3>1. Len(uart) \in 0..Len(uart) /\ Prefix(uart, x) = SubSeq(uart, 1, Len(uart))
        BY <1>1, <1>3, <2>2 DEF Prefix
      <3>2. SubSeq(uart, x + 1, Len(uart)) = SubSeq(uart, Len(uart) + 1, Len(uart))
        BY <1>1, <1>3, <2>2
      <3> QED
        BY <3>1, <3>2
    <2> QED
      BY <2>1, <2>2
  <1>8. BytesOf(frame, uart \o out) /\ Len(frame) = n
    <2>1. PICK p \in Seq(LineByte) : p = Prefix(uart, x) /\ Len(p) = n /\ \A k \in 1..n : p[k] = uart[k]
      <3>1. SubSeq(uart, 1, n) \in Seq(LineByte)
        BY <1>1
      <3>2. PICK s \in Seq(LineByte) : s = SubSeq(uart, 1, n)
        BY <3>1, Zenon
      <3>3. Len(s) = n /\ \A k \in 1..n : s[k] = uart[k]
        BY <1>1, <3>2
      <3> QED
        BY <1>7, <3>2, <3>3, Zenon
    <2>2. frame = [k \in 1..n |-> p[k].byte]
      BY <1>5, <2>1 DEF Bytes
    <2>3. \A k \in 1..n : p[k].byte \in Byte
      <3>1. \A k \in 1..n : p[k] \in LineByte
        BY <2>1
      <3> QED
        BY <3>1 DEF LineByte
    <2>4. frame \in [1..n -> Byte] /\ n \in Nat
      BY <2>2, <2>3
    <2>5. frame \in Seq(Byte) /\ Len(frame) = n
      BY <2>2, <2>4
    <2>6. \A k \in 1..n : frame[k] = (uart \o out)[k].byte
      <3>1. \A k \in 1..n : k \in 1..Len(uart)
        BY <1>1
      <3> QED
        BY <1>1, <2>1, <2>2, <3>1, TwoParts
    <2>7. n <= Len(uart \o out)
      BY <1>1
    <2> QED
      BY <2>5, <2>6, <2>7 DEF BytesOf
  <1>9. SubSeq(uart, n + 1, Len(uart)) \o out = SubSeq(uart \o out, n + 1, Len(uart \o out))
    BY <1>1, RestOfLine
  <1> QED
    BY <1>2, <1>4, <1>6, <1>7, <1>8, <1>9

\* The variables of the line keep their types.
LEMMA LinkTypeStep == LinkType /\ [LinkNext]_linkVars => LinkType'
  <1> SUFFICES ASSUME LinkType, [LinkNext]_linkVars PROVE LinkType'
    OBVIOUS
  <1>1. /\ host \in {"ready", "sleeping", "receiving"} /\ call \in Calls
        /\ requests \in Seq(Calls) /\ uart \in Seq(LineByte) /\ out \in Seq(LineByte)
        /\ faults \in Nat /\ torn \in BOOLEAN
    BY DEF LinkType
  <1>2. CASE HostTx
    <2>1. Append(requests, call) \in Seq(Calls)
      BY <1>1
    <2> QED
      BY <1>1, <1>2, <2>1 DEF HostTx, RequestArrives, LinkType
  <1>3. CASE HostWakes
    BY <1>1, <1>3 DEF HostWakes, LinkType
  <1>4. CASE HostRx
    <2>1. PICK n \in 0..Len(uart) :
             /\ uart' = SubSeq(uart, n + 1, Len(uart))
             /\ host' = "ready" /\ call' = (call + 1) % NumCalls
             /\ UNCHANGED <<requests, out, faults, torn>>
      BY <1>4, ReadFacts
    <2>2. SubSeq(uart, n + 1, Len(uart)) \in Seq(LineByte)
      BY <1>1
    <2>3. (call + 1) % NumCalls \in Calls
      BY <1>1, NextCall
    <2> QED
      BY <1>1, <2>1, <2>2, <2>3 DEF LinkType
  <1>5. CASE SensorAnswers
    <2>1. Head(requests) \in Calls /\ Tail(requests) \in Seq(Calls)
      BY <1>1, <1>5 DEF SensorAnswers
    <2>2. Tagged(Head(requests)) \in Seq(LineByte)
      BY <2>1, TaggedFacts
    <2> QED
      BY <1>1, <1>5, <2>1, <2>2 DEF SensorAnswers, LinkType
  <1>6. CASE ByteArrives
    <2>1. Append(uart, Head(out)) \in Seq(LineByte) /\ Tail(out) \in Seq(LineByte)
      BY <1>1, <1>6, ByteMoves DEF ByteArrives
    <2> QED
      BY <1>1, <1>6, <2>1 DEF ByteArrives, LinkType
  <1>7. CASE HostTxFails
    <2>1. (call + 1) % NumCalls \in Calls /\ Append(requests, call) \in Seq(Calls)
      BY <1>1, NextCall
    <2>2. requests' \in Seq(Calls)
      BY <1>1, <1>7, <2>1 DEF HostTxFails, RequestArrives
    <2> QED
      BY <1>1, <1>7, <2>1, <2>2 DEF HostTxFails, ReturnFromCall, Fault, LinkType
  <1>8. CASE HostWakesEarly
    BY <1>1, <1>8 DEF HostWakesEarly, Fault, LinkType
  <1>9. CASE ByteIsLost
    <2>1. Tail(out) \in Seq(LineByte)
      BY <1>1, <1>9 DEF ByteIsLost
    <2> QED
      BY <1>1, <1>9, <2>1 DEF ByteIsLost, Fault, LinkType
  <1>10. CASE RequestIsLost
    <2>1. Tail(requests) \in Seq(Calls)
      BY <1>1, <1>10 DEF RequestIsLost
    <2> QED
      BY <1>1, <1>10, <2>1 DEF RequestIsLost, Fault, LinkType
  <1>11. CASE HostRxFails
    <2>1. PICK n \in 0..Len(uart) :
             /\ uart' = SubSeq(uart, n + 1, Len(uart))
             /\ host' = "ready" /\ call' = (call + 1) % NumCalls /\ faults' = faults + 1
             /\ UNCHANGED <<requests, out, torn>>
      BY <1>11 DEF HostRxFails, ReturnFromCall, Fault
    <2>2. SubSeq(uart, n + 1, Len(uart)) \in Seq(LineByte)
      BY <1>1
    <2>3. (call + 1) % NumCalls \in Calls
      BY <1>1, NextCall
    <2> QED
      BY <1>1, <2>1, <2>2, <2>3 DEF LinkType
  <1>12. CASE UNCHANGED linkVars
    BY <1>1, <1>12 DEF linkVars, LinkType
  <1> QED
    BY <1>2, <1>3, <1>4, <1>5, <1>6, <1>7, <1>8, <1>9, <1>10, <1>11, <1>12
       DEF LinkNext, Host, Sensor, Faulty

\* A failing receive takes some of the bytes received.
LEMMA FailingReadFacts ==
  ASSUME LinkType, HostRxFails
  PROVE  \E n \in 0..Len(uart) :
            /\ uart' \o out = SubSeq(uart \o out, n + 1, Len(uart \o out))
            /\ result' = Failed
            /\ UNCHANGED <<requests, out, torn>>
  <1>1. uart \in Seq(LineByte) /\ out \in Seq(LineByte)
    BY DEF LinkType
  <1>2. PICK n \in 0..Len(uart) :
           /\ uart' = SubSeq(uart, n + 1, Len(uart)) /\ result' = Failed
           /\ UNCHANGED <<requests, out, torn>>
    BY DEF HostRxFails, ReturnFromCall
  <1>3. SubSeq(uart, n + 1, Len(uart)) \o out = SubSeq(uart \o out, n + 1, Len(uart \o out))
    BY <1>1, RestOfLine
  <1> QED
    BY <1>2, <1>3

\* Requests and bytes stay in their places until a byte is lost.
LEMMA UnmixedStep == LinkType /\ Unmixed /\ [LinkNext]_linkVars => Unmixed'
  <1> SUFFICES ASSUME LinkType, Unmixed, [LinkNext]_linkVars, ~torn'
               PROVE  Separate(requests', uart' \o out') /\ InPlace(uart' \o out')
    BY DEF Unmixed
  <1>1. /\ call \in Calls /\ requests \in Seq(Calls)
        /\ uart \in Seq(LineByte) /\ out \in Seq(LineByte)
    BY DEF LinkType
  <1>2. PICK s \in Seq(LineByte) : s = uart \o out
    BY <1>1, TwoParts
  <1>3. ASSUME ~torn PROVE Separate(requests, s) /\ InPlace(s)
    BY <1>2, <1>3 DEF Unmixed
  <1>4. CASE RequestArrives /\ UNCHANGED <<out, uart, torn>>
    <2>1. /\ ~Contains(requests, call)
          /\ \A t \in {uart, out} : \A k \in 1..Len(t) : t[k].of # call
          /\ requests' = Append(requests, call) /\ UNCHANGED <<out, uart, torn>>
      BY <1>4 DEF RequestArrives
    <2>2. \A k \in 1..Len(s) : s[k].of # call
      <3>1. /\ \A k \in 1..Len(uart) : uart[k].of # call
            /\ \A k \in 1..Len(out) : out[k].of # call
        BY <2>1
      <3> QED
        BY ONLY <1>1, <1>2, <3>1, ClearLine
    <2>3. Separate(Append(requests, call), s)
      BY <1>1, <1>3, <2>1, <2>2, SeparateSteps
    <2> QED
      BY <1>2, <1>3, <2>1, <2>3
  <1>5. CASE HostRx \/ HostRxFails
    <2>1. PICK n \in 0..Len(uart) :
             /\ uart' \o out = SubSeq(uart \o out, n + 1, Len(uart \o out))
             /\ UNCHANGED <<requests, out, torn>>
      BY <1>5, ReadFacts, FailingReadFacts
    <2>2. n \in 0..Len(s)
      BY <1>1, <1>2
    <2>3. uart' \o out' = SubSeq(s, n + 1, Len(s)) /\ requests' = requests /\ ~torn
      BY <1>2, <2>1
    <2>4. Separate(requests, SubSeq(s, n + 1, Len(s)))
      BY <1>1, <1>3, <2>2, <2>3, SeparateSteps
    <2>5. InPlace(SubSeq(s, n + 1, Len(s)))
      BY <1>3, <2>2, <2>3, PlacedBehind, Zenon DEF InPlace
    <2> QED
      BY <2>3, <2>4, <2>5
  <1>6. CASE SensorAnswers
    <2>1. /\ requests # <<>> /\ out = <<>> /\ out' = Tagged(Head(requests))
          /\ requests' = Tail(requests) /\ UNCHANGED <<uart, torn>>
      BY <1>6 DEF SensorAnswers
    <2>2. s = uart /\ ~torn
      BY <1>1, <1>2, <2>1
    <2>3. /\ Head(requests) \in Calls
          /\ Separate(Tail(requests), s \o Tagged(Head(requests)))
          /\ \A k \in 1..Len(s) : s[k].of # Head(requests)
      BY <1>1, <1>3, <2>1, <2>2, SeparateSteps
    <2>4. InPlace(s \o Tagged(Head(requests)))
      BY <1>3, <2>2, <2>3, PlacedFollowed, Zenon DEF InPlace
    <2> QED
      BY <2>1, <2>2, <2>3, <2>4
  <1>7. CASE ByteArrives
    <2>1. uart' \o out' = s /\ requests' = requests /\ ~torn
      BY <1>1, <1>2, <1>7, ByteMoves DEF ByteArrives
    <2> QED
      BY <1>3, <2>1
  <1>8. CASE RequestIsLost
    <2>1. requests # <<>> /\ requests' = Tail(requests) /\ UNCHANGED <<out, uart, torn>>
      BY <1>8 DEF RequestIsLost
    <2>2. Separate(Tail(requests), s)
      BY <1>1, <1>3, <2>1, SeparateSteps
    <2> QED
      BY <1>2, <1>3, <2>1, <2>2
  <1>9. CASE ByteIsLost
    BY <1>9 DEF ByteIsLost
  <1>10. CASE UNCHANGED <<requests, out, uart, torn>>
    BY <1>2, <1>3, <1>10
  <1>11. CASE HostWakes \/ HostWakesEarly \/ UNCHANGED linkVars
    BY <1>10, <1>11 DEF HostWakes, HostWakesEarly, linkVars
  <1>12. CASE HostTx
    BY <1>4, <1>12 DEF HostTx
  <1>13. CASE HostTxFails
    BY <1>4, <1>10, <1>13 DEF HostTxFails
  <1> QED
    BY <1>5, <1>6, <1>7, <1>8, <1>9, <1>11, <1>12, <1>13 DEF LinkNext, Host, Sensor, Faulty

\* Without a fault a call leaves nothing behind.
LEMMA NothingElseStep == LinkType /\ NothingElse /\ [LinkNext]_linkVars => NothingElse'
  <1> SUFFICES ASSUME LinkType, NothingElse, [LinkNext]_linkVars, faults' = 0
               PROVE  NothingElse'
    BY DEF NothingElse
  <1>1. /\ host \in {"ready", "sleeping", "receiving"} /\ call \in Calls /\ faults \in Nat
        /\ requests \in Seq(Calls) /\ uart \in Seq(LineByte) /\ out \in Seq(LineByte)
    BY DEF LinkType
  <1>2. CASE Fault
    BY <1>1, <1>2 DEF Fault
  <1>3. ASSUME faults = 0
        PROVE  /\ host = "ready" => requests = <<>> /\ uart = <<>> /\ out = <<>>
               /\ host = "sleeping" => \/ requests = <<call>> /\ uart = <<>> /\ out = <<>>
                                       \/ requests = <<>> /\ uart \o out = Tagged(call)
               /\ host = "receiving" => requests = <<>> /\ out = <<>> /\ uart = Tagged(call)
    BY <1>3 DEF NothingElse
  <1>4. CASE HostTx
    <2>1. requests' = <<call'>> /\ uart' = <<>> /\ out' = <<>> /\ host' = "sleeping"
      <3>1. /\ host = "ready" /\ host' = "sleeping" /\ requests' = Append(requests, call)
            /\ UNCHANGED <<call, out, uart, faults>>
        BY <1>4 DEF HostTx, RequestArrives
      <3>2. requests = <<>> /\ uart = <<>> /\ out = <<>>
        BY <1>3, <3>1
      <3>3. Append(<<>>, call) = <<call>>
        OBVIOUS
      <3> QED
        BY <3>1, <3>2, <3>3
    <2> QED
      BY <2>1 DEF NothingElse
  <1>5. CASE HostWakes
    <2>1. /\ host = "sleeping" /\ requests = <<>> /\ out = <<>> /\ host' = "receiving"
          /\ UNCHANGED <<call, requests, out, uart, faults>>
      BY <1>5 DEF HostWakes
    <2>2. uart \o out = uart
      BY <1>1, <2>1
    <2>3. uart = Tagged(call)
      BY <1>3, <2>1, <2>2
    <2>4. requests' = <<>> /\ out' = <<>> /\ uart' = Tagged(call')
      BY <2>1, <2>3
    <2> QED
      BY <2>1, <2>4 DEF NothingElse
  <1>6. CASE HostRx
    <2>1. PICK n \in 0..Len(uart) :
             /\ n = Len(uart) \/ n = RxRequest(MaxRxDataLen)
             /\ uart' = SubSeq(uart, n + 1, Len(uart)) /\ host' = "ready"
             /\ UNCHANGED <<requests, out, faults>>
      BY <1>6, ReadFacts
    <2>2. requests = <<>> /\ out = <<>> /\ uart = Tagged(call)
      BY <1>3, <1>6, <2>1 DEF HostRx
    <2>3. n = Len(uart)
      <3>1. Len(uart) < RxRequest(MaxRxDataLen) /\ Len(uart) \in Nat
        BY <1>1, <2>2, TaggedFacts, LinkAssumption DEF Size, Sent
      <3>2. RxRequest(MaxRxDataLen) \in Nat
        <4>1. MaxRxDataLen \in Nat
          BY LinkAssumption, ByteIsNat
        <4> QED
          BY <4>1 DEF RxRequest
      <3> QED
        BY <2>1, <3>1, <3>2
    <2>4. SubSeq(uart, Len(uart) + 1, Len(uart)) = <<>>
      BY <1>1
    <2>5. requests' = <<>> /\ out' = <<>> /\ uart' = <<>>
      BY <2>1, <2>2, <2>3, <2>4
    <2> QED
      BY <2>1, <2>5 DEF NothingElse
  <1>7. CASE SensorAnswers
    <2>1. /\ requests # <<>> /\ out = <<>> /\ out' = Tagged(Head(requests))
          /\ requests' = Tail(requests) /\ UNCHANGED <<host, call, uart, faults>>
      BY <1>7 DEF SensorAnswers
    <2>2. host = "sleeping" /\ requests = <<call>> /\ uart = <<>>
      BY <1>1, <1>3, <2>1
    <2>3. Head(requests) = call /\ Tail(requests) = <<>>
      BY <2>2
    <2>4. <<>> \o Tagged(call) = Tagged(call)
      BY <1>1, TaggedFacts
    <2>5. host' = "sleeping" /\ requests' = <<>> /\ uart' \o out' = Tagged(call')
      BY <2>1, <2>2, <2>3, <2>4
    <2> QED
      BY <2>5 DEF NothingElse
  <1>8. CASE ByteArrives
    <2>1. /\ out # <<>> /\ uart' = Append(uart, Head(out)) /\ out' = Tail(out)
          /\ UNCHANGED <<host, call, requests, faults>>
      BY <1>8 DEF ByteArrives
    <2>2. host = "sleeping" /\ requests = <<>> /\ uart \o out = Tagged(call)
      BY <1>1, <1>3, <2>1
    <2>3. uart' \o out' = uart \o out
      BY <1>1, <2>1, ByteMoves
    <2>4. host' = "sleeping" /\ requests' = <<>> /\ uart' \o out' = Tagged(call')
      BY <2>1, <2>2, <2>3
    <2> QED
      BY <2>4 DEF NothingElse
  <1>9. CASE UNCHANGED linkVars
    BY <1>9 DEF linkVars, NothingElse
  <1> QED
    BY <1>2, <1>4, <1>5, <1>6, <1>7, <1>8, <1>9
       DEF LinkNext, Host, Sensor, Faulty, HostTxFails, HostWakesEarly, HostRxFails,
           ByteIsLost, RequestIsLost

\* In every behaviour of xcv on a line, the bytes under way are whole responses, the
\* first of which may have been read in part, until one is lost, and none of them
\* belongs to a call that is still to be answered.
THEOREM LinkInvariant == LinkSpec => []LinkInv
  <1>1. LinkInit => LinkInv
    <2> SUFFICES ASSUME LinkInit PROVE LinkInv
      OBVIOUS
    <2>1. /\ host = "ready" /\ call = 0 /\ requests = <<>> /\ out = <<>> /\ uart = <<>>
          /\ faults = 0 /\ torn = FALSE
      BY DEF LinkInit
    <2>2. LinkType
      <3>1. 0 \in Calls
        BY LinkAssumption DEF Calls
      <3>2. <<>> \in Seq(Calls) /\ <<>> \in Seq(LineByte) /\ 0 \in Nat
        OBVIOUS
      <3> QED
        BY <2>1, <3>1, <3>2, Zenon DEF LinkType
    <2>3. uart \o out = <<>> /\ Len(<<>>) = 0
      BY <2>1
    <2>4. Separate(requests, uart \o out) /\ InPlace(uart \o out)
      BY <2>1, <2>3 DEF Separate, InPlace, Placed
    <2>5. NothingElse
      BY <2>1 DEF NothingElse
    <2> QED
      BY <2>2, <2>4, <2>5 DEF LinkInv, Unmixed
  <1>2. LinkInv /\ [LinkNext]_linkVars => LinkInv'
    BY LinkTypeStep, UnmixedStep, NothingElseStep DEF LinkInv
  <1> QED
    BY <1>1, <1>2, PTL DEF LinkSpec

\* As long as nothing was late, lost or failed, each call of sensirion_shdlc_xcv returns its
\* own response: one read takes all of it, and finds it.
THEOREM OwnResponseHolds == LinkSpec => OwnResponse
  <1>1. LinkInv /\ [LinkNext]_linkVars
          => [host = "receiving" /\ host' = "ready" /\ faults' = 0 => result' = call]_linkVars
    <2> SUFFICES ASSUME LinkInv, LinkNext, host = "receiving", host' = "ready", faults' = 0
                 PROVE  result' = call
      OBVIOUS
    <2>1. HostRx /\ faults = 0
      <3>1. ~Fault
        BY DEF LinkInv, LinkType, Fault
      <3>2. HostRx
        BY <3>1 DEF LinkNext, Host, Sensor, Faulty, HostTx, HostWakes, SensorAnswers, ByteArrives,
               HostTxFails, HostWakesEarly, HostRxFails, ByteIsLost, RequestIsLost
      <3> QED
        BY <3>2 DEF HostRx, Read
    <2>2. LinkType /\ call \in Calls /\ uart \in Seq(LineByte) /\ out = <<>> /\ uart = Tagged(call)
      BY <2>1 DEF LinkInv, LinkType, NothingElse
    <2>3. PICK n, frame :
             /\ n \in 0..Len(uart)
             /\ BytesOf(frame, uart \o out) /\ Len(frame) = n
             /\ n = Len(uart) \/ n = RxRequest(MaxRxDataLen)
             /\ result' \in Outcomes(frame)
      BY <2>1, <2>2, ReadFacts
    <2>4. /\ Sent(call) \in Seq(Byte) /\ Len(Sent(call)) = Size(call) /\ Len(uart) = Size(call)
          /\ \A k \in 1..Size(call) : uart[k].byte = Sent(call)[k]
      BY <2>2, SentFacts, TaggedFacts DEF Size
    <2>5. n = Size(call)
      <3>1. Size(call) < RxRequest(MaxRxDataLen) /\ Size(call) \in Nat
        BY <2>2, TaggedFacts, LinkAssumption DEF Size, Sent
      <3>2. RxRequest(MaxRxDataLen) \in Nat
        <4>1. MaxRxDataLen \in Nat
          BY LinkAssumption, ByteIsNat
        <4> QED
          BY <4>1 DEF RxRequest
      <3> QED
        BY <2>3, <2>4, <3>1, <3>2
    <2>6. frame \in Seq(Byte) /\ \A k \in 1..n : frame[k] = uart[k].byte
      <3>1. uart \o out = uart
        BY <2>2
      <3> QED
        BY <2>3, <3>1 DEF BytesOf
    <2>7. IsPrefix(Sent(call), frame)
      <3>1. \A k \in 1..Len(Sent(call)) : Sent(call)[k] = frame[k]
        BY <2>4, <2>5, <2>6
      <3>2. Len(Sent(call)) <= Len(frame)
        BY <2>3, <2>4, <2>5
      <3> QED
        BY <2>4, <2>6, <3>1, <3>2, PartOf
    <2>8. Outcomes(frame) = {call}
      BY <2>2, <2>6, <2>7, WholeIsRead
    <2> QED
      BY <2>3, <2>8
  <1> QED
    BY <1>1, LinkInvariant, PTL DEF LinkSpec, OwnResponse

-----------------------------------------------------------------------------
(* The refinement.                                                         *)

\* Two strings joined, and taken apart again.
LEMMA Rejoined ==
  ASSUME NEW s \in Seq(Calls), NEW t \in Seq(Calls)
  PROVE  /\ s \o t \in Seq(Calls) /\ Len(s \o t) = Len(s) + Len(t)
         /\ \A k \in 1..Len(s) : (s \o t)[k] = s[k]
         /\ \A k \in 1..Len(t) : (s \o t)[Len(s) + k] = t[k]
         /\ SubSeq(s \o t, Len(s) + 1, Len(s \o t)) = t
  <1>1. /\ s \o t \in Seq(Calls) /\ Len(s \o t) = Len(s) + Len(t)
        /\ \A k \in 1..Len(s) : (s \o t)[k] = s[k]
        /\ \A k \in 1..Len(t) : (s \o t)[Len(s) + k] = t[k]
    OBVIOUS
  <1>2. PICK u \in Seq(Calls) : u = s \o t
    BY <1>1, Zenon
  <1>3. SubSeq(u, Len(s) + 1, Len(u)) \in Seq(Calls)
    BY <1>1, <1>2
  <1>4. PICK v \in Seq(Calls) : v = SubSeq(u, Len(s) + 1, Len(u))
    BY <1>3, Zenon
  <1>5. Len(v) = Len(t) /\ \A k \in 1..Len(t) : v[k] = u[k + Len(s)]
    BY <1>1, <1>2, <1>4
  <1>6. \A k \in 1..Len(t) : v[k] = t[k]
    <2> SUFFICES ASSUME NEW k \in 1..Len(t) PROVE v[k] = t[k]
      OBVIOUS
    <2>1. k + Len(s) = Len(s) + k
      OBVIOUS
    <2> QED
      BY <1>1, <1>2, <1>5, <2>1
  <1>7. v = t
    BY <1>5, <1>6
  <1> QED
    BY <1>1, <1>2, <1>4, <1>7

\* A string and its two parts.
LEMMA SplitAt ==
  ASSUME NEW s \in Seq(Calls), NEW n \in 0..Len(s)
  PROVE  /\ SubSeq(s, 1, n) \in Seq(Calls) /\ Len(SubSeq(s, 1, n)) = n
         /\ SubSeq(s, n + 1, Len(s)) \in Seq(Calls) /\ Len(SubSeq(s, n + 1, Len(s))) = Len(s) - n
         /\ SubSeq(s, 1, n) \o SubSeq(s, n + 1, Len(s)) = s
         /\ \A k \in 1..n : SubSeq(s, 1, n)[k] = s[k]
         /\ \A k \in 1..(Len(s) - n) : SubSeq(s, n + 1, Len(s))[k] = s[k + n]
  <1>1. /\ SubSeq(s, 1, n) \in Seq(Calls) /\ Len(SubSeq(s, 1, n)) = n
        /\ \A k \in 1..n : SubSeq(s, 1, n)[k] = s[k]
    OBVIOUS
  <1>2. /\ SubSeq(s, n + 1, Len(s)) \in Seq(Calls) /\ Len(SubSeq(s, n + 1, Len(s))) = Len(s) - n
        /\ \A k \in 1..(Len(s) - n) : SubSeq(s, n + 1, Len(s))[k] = s[k + n]
    OBVIOUS
  <1>3. PICK a \in Seq(Calls), b \in Seq(Calls) :
           a = SubSeq(s, 1, n) /\ b = SubSeq(s, n + 1, Len(s))
    BY <1>1, <1>2, Zenon
  <1>4. PICK u \in Seq(Calls) : u = a \o b
    <2>1. a \o b \in Seq(Calls)
      OBVIOUS
    <2> QED
      BY <2>1, Zenon
  <1>5. /\ Len(u) = Len(s) /\ \A k \in 1..n : u[k] = s[k]
        /\ \A k \in 1..(Len(s) - n) : u[n + k] = s[k + n]
    <2>1. Len(a) = n /\ Len(b) = Len(s) - n
      BY <1>1, <1>2, <1>3
    <2>2. /\ Len(u) = Len(a) + Len(b) /\ \A k \in 1..Len(a) : u[k] = a[k]
          /\ \A k \in 1..Len(b) : u[Len(a) + k] = b[k]
      BY <1>4, Rejoined
    <2>3. (\A k \in 1..n : a[k] = s[k]) /\ \A k \in 1..(Len(s) - n) : b[k] = s[k + n]
      BY <1>1, <1>2, <1>3
    <2>4. Len(u) = Len(s)
      BY <2>1, <2>2
    <2>5. \A k \in 1..n : u[k] = s[k]
      BY <2>1, <2>2, <2>3
    <2>6. \A k \in 1..(Len(s) - n) : u[n + k] = s[k + n]
      BY <2>1, <2>2, <2>3
    <2> QED
      BY <2>4, <2>5, <2>6
  <1>6. \A k \in 1..Len(s) : u[k] = s[k]
    <2> SUFFICES ASSUME NEW k \in 1..Len(s), k > n PROVE u[k] = s[k]
      BY <1>5
    <2>1. k - n \in 1..(Len(s) - n) /\ n + (k - n) = k /\ (k - n) + n = k
      OBVIOUS
    <2>2. u[n + (k - n)] = s[(k - n) + n]
      BY <1>5, <2>1
    <2> QED
      BY <2>1, <2>2
  <1>7. u = s
    BY <1>5, <1>6
  <1> QED
    BY <1>1, <1>2, <1>3, <1>4, <1>7

\* Merged begins as the string does.
LEMMA MergedFirst ==
  ASSUME NEW s \in Seq(Calls), s # <<>>
  PROVE  Merged(s) # <<>> /\ Merged(s)[1] = s[1]
  <1> DEFINE Begins(u) == u # <<>> => Merged(u) # <<>> /\ Merged(u)[1] = u[1]
             T == {u \in Seq(Calls) : Begins(u)}
  <1>1. <<>> \in T
    OBVIOUS
  <1>2. ASSUME NEW u \in Seq(Calls), u \in T, NEW e \in Calls PROVE Append(u, e) \in T
    <2>1. PICK v \in Seq(Calls) : v = Append(u, e)
      <3>1. Append(u, e) \in Seq(Calls)
        OBVIOUS
      <3> QED
        BY <3>1, Zenon
    <2>2. Merged(v) = IF u # <<>> /\ u[Len(u)] = e THEN Merged(u) ELSE Append(Merged(u), e)
      BY <2>1, MergedSteps
    <2>3. PICK r \in Seq(Calls) : r = Merged(u)
      BY MergedSteps
    <2>4. CASE u = <<>>
      <3>1. r = <<>> /\ Merged(v) = Append(r, e)
        BY <2>2, <2>3, <2>4, MergedSteps
      <3>2. Merged(v) # <<>> /\ Merged(v)[1] = e /\ v[1] = e
        BY <2>1, <2>4, <3>1
      <3> QED
        BY <2>1, <3>2
    <2>5. CASE u # <<>>
      <3>1. r # <<>> /\ r[1] = u[1] /\ v[1] = u[1]
        BY <1>2, <2>1, <2>3, <2>5, FirstStays
      <3>2. Merged(v) = r \/ Merged(v) = Append(r, e)
        BY <2>2, <2>3
      <3>3. Append(r, e) # <<>> /\ Append(r, e)[1] = r[1]
        BY <3>1, FirstStays
      <3>4. Merged(v) # <<>> /\ Merged(v)[1] = v[1]
        BY <3>1, <3>2, <3>3
      <3> QED
        BY <2>1, <3>4
    <2> QED
      BY <2>4, <2>5
  <1>3. Seq(Calls) \subseteq T
    <2> HIDE DEF T
    <2> QED
      BY <1>1, <1>2, SequenceInduction
  <1> QED
    BY <1>3

\* What is behind the first n elements, merged, ends the whole merged, and is less of it
\* where no equal ones are taken apart.
LEMMA MergedBehind ==
  ASSUME NEW s \in Seq(Calls), NEW n \in 0..Len(s)
  PROVE  \E a \in Seq(Calls) :
            /\ Merged(s) = a \o Merged(SubSeq(s, n + 1, Len(s)))
            /\ n > 0 /\ (n < Len(s) => s[n] # s[n + 1]) => a # <<>>
  <1>1. PICK p \in Seq(Calls), q \in Seq(Calls) :
           p = SubSeq(s, 1, n) /\ q = SubSeq(s, n + 1, Len(s))
    BY SplitAt
  <1>2. /\ s = p \o q /\ Len(p) = n /\ Len(q) = Len(s) - n
        /\ \A k \in 1..n : p[k] = s[k]
        /\ \A k \in 1..(Len(s) - n) : q[k] = s[k + n]
    BY <1>1, SplitAt
  <1>3. PICK a \in Seq(Calls) : Merged(s) = a \o Merged(q) /\ (Apart(p, q) => a = Merged(p))
    BY <1>2, MergedJoin
  <1>4. ASSUME n > 0, n < Len(s) => s[n] # s[n + 1] PROVE a # <<>>
    <2>1. p # <<>>
      BY <1>2, <1>4
    <2>2. Apart(p, q)
      <3>1. CASE n < Len(s)
        <4>1. n \in 1..n /\ 1 \in 1..(Len(s) - n) /\ 1 + n = n + 1
          BY <1>4, <3>1
        <4>2. p[Len(p)] = s[n] /\ q[1] = s[n + 1]
          BY <1>2, <4>1
        <4> QED
          BY <1>4, <3>1, <4>2 DEF Apart
      <3>2. CASE ~(n < Len(s))
        <4>1. q = <<>>
          BY <1>2, <3>2
        <4> QED
          BY <4>1 DEF Apart
      <3> QED
        BY <3>1, <3>2
    <2> QED
      BY <1>3, <2>1, <2>2, MergedFirst
  <1> QED
    BY <1>1, <1>3, <1>4

\* The open calls, of the bytes in the line and the requests.
OpenOf(s, q) == Merged(Owners(s) \o q)

\* The calls that the bytes of a string belong to,
LEMMA OwnersFacts ==
  ASSUME NEW s \in Seq(LineByte)
  PROVE  /\ Owners(s) \in Seq(Calls) /\ Len(Owners(s)) = Len(s)
         /\ \A k \in 1..Len(s) : Owners(s)[k] = s[k].of
  <1>1. \A k \in 1..Len(s) : s[k].of \in Calls
    <2>1. \A k \in 1..Len(s) : s[k] \in LineByte
      OBVIOUS
    <2> QED
      BY <2>1 DEF LineByte
  <1>2. Owners(s) = [k \in 1..Len(s) |-> s[k].of]
    BY DEF Owners
  <1>3. Owners(s) \in [1..Len(s) -> Calls] /\ Len(s) \in Nat
    BY <1>1, <1>2
  <1> QED
    BY <1>2, <1>3

\* of two strings,
LEMMA OwnersJoin ==
  ASSUME NEW s \in Seq(LineByte), NEW t \in Seq(LineByte)
  PROVE  Owners(s \o t) = Owners(s) \o Owners(t)
  <1>1. PICK u \in Seq(LineByte) : u = s \o t
    BY TwoParts
  <1>2. PICK a \in Seq(Calls), b \in Seq(Calls), c \in Seq(Calls) :
           /\ a = Owners(s) /\ Len(a) = Len(s) /\ \A k \in 1..Len(s) : a[k] = s[k].of
           /\ b = Owners(t) /\ Len(b) = Len(t) /\ \A k \in 1..Len(t) : b[k] = t[k].of
           /\ c = Owners(u) /\ Len(c) = Len(u) /\ \A k \in 1..Len(u) : c[k] = u[k].of
    BY OwnersFacts
  <1>3. PICK d \in Seq(Calls) :
           /\ d = a \o b /\ Len(d) = Len(a) + Len(b)
           /\ \A k \in 1..Len(a) : d[k] = a[k]
           /\ \A k \in 1..Len(b) : d[Len(a) + k] = b[k]
    BY Rejoined, ZenonT(40)
  <1>4. /\ Len(u) = Len(s) + Len(t) /\ Len(d) = Len(c)
        /\ \A k \in 1..Len(s) : u[k] = s[k]
        /\ \A k \in 1..Len(t) : u[Len(s) + k] = t[k]
        /\ \A k \in 1..Len(u) : k \in 1..Len(s) \/ \E j \in 1..Len(t) : k = Len(s) + j
    BY <1>1, <1>2, <1>3, TwoParts
  <1>5. ASSUME NEW k \in 1..Len(c) PROVE d[k] = c[k]
    <2>1. k \in 1..Len(u) /\ c[k] = u[k].of
      BY <1>2
    <2>2. CASE k \in 1..Len(s)
      <3>1. d[k] = s[k].of /\ u[k] = s[k]
        BY <1>2, <1>3, <1>4, <2>2
      <3> QED
        BY <2>1, <3>1
    <2>3. CASE \E j \in 1..Len(t) : k = Len(s) + j
      <3>1. PICK j \in 1..Len(t) : k = Len(s) + j
        BY <2>3
      <3>2. d[k] = b[j] /\ b[j] = t[j].of /\ u[k] = t[j]
        BY <1>2, <1>3, <1>4, <3>1
      <3> QED
        BY <2>1, <3>2
    <2> QED
      BY <1>4, <2>1, <2>2, <2>3
  <1>6. c = d
    BY <1>4, <1>5, SameCalls
  <1> QED
    BY <1>1, <1>2, <1>3, <1>6

\* and of what is left when the first bytes are read.
LEMMA OwnersBehind ==
  ASSUME NEW s \in Seq(LineByte), NEW n \in 0..Len(s), NEW q \in Seq(Calls)
  PROVE  /\ Owners(s) \o q \in Seq(Calls) /\ n \in 0..Len(Owners(s) \o q)
         /\ Owners(SubSeq(s, n + 1, Len(s))) \o q
              = SubSeq(Owners(s) \o q, n + 1, Len(Owners(s) \o q))
  <1>1. SubSeq(s, n + 1, Len(s)) \in Seq(LineByte)
    OBVIOUS
  <1>2. PICK r \in Seq(LineByte) : r = SubSeq(s, n + 1, Len(s))
    BY <1>1, Zenon
  <1>3. PICK l \in Nat : l = Len(s) - n
    <2>1. Len(s) - n \in Nat
      OBVIOUS
    <2> QED
      BY <2>1, Zenon
  <1>4. Len(r) = l /\ Len(s) = n + l /\ \A k \in 1..l : r[k] = s[k + n]
    BY <1>2, <1>3
  <1>5. PICK a \in Seq(Calls), b \in Seq(Calls) :
           /\ a = Owners(s) /\ Len(a) = n + l /\ \A k \in 1..(n + l) : a[k] = s[k].of
           /\ b = Owners(r) /\ Len(b) = l /\ \A k \in 1..l : b[k] = r[k].of
    BY <1>4, OwnersFacts, ZenonT(40)
  <1>6. PICK w \in Seq(Calls) :
           /\ w = a \o q /\ Len(w) = Len(a) + Len(q)
           /\ \A k \in 1..Len(a) : w[k] = a[k]
           /\ \A k \in 1..Len(q) : w[Len(a) + k] = q[k]
    BY Rejoined, ZenonT(40)
  <1>b. PICK v \in Seq(Calls) :
           /\ v = b \o q /\ Len(v) = Len(b) + Len(q)
           /\ \A k \in 1..Len(b) : v[k] = b[k]
           /\ \A k \in 1..Len(q) : v[Len(b) + k] = q[k]
    BY Rejoined, ZenonT(40)
  <1>7. n \in 0..Len(w) /\ Len(w) - n = Len(v)
    BY <1>5, <1>6, <1>b
  <1>8. PICK z \in Seq(Calls) :
           /\ z = SubSeq(w, n + 1, Len(w)) /\ Len(z) = Len(w) - n
           /\ \A k \in 1..(Len(w) - n) : z[k] = w[k + n]
    BY <1>7, SplitAt
  <1>9. ASSUME NEW k \in 1..Len(v) PROVE z[k] = v[k]
    <2>1. z[k] = w[k + n]
      BY <1>7, <1>8
    <2>2. CASE k <= l
      <3>1. k \in 1..l /\ k + n \in 1..(n + l)
        BY <2>2
      <3>2. w[k + n] = s[k + n].of /\ v[k] = s[k + n].of
        BY <1>4, <1>5, <1>6, <1>b, <3>1
      <3> QED
        BY <2>1, <3>2
    <2>3. CASE ~(k <= l)
      <3>1. PICK j \in 1..Len(q) : k = l + j /\ k + n = (n + l) + j
        <4>1. Len(v) = l + Len(q)
          BY <1>5, <1>b
        <4>2. k - l \in 1..Len(q) /\ k = l + (k - l) /\ k + n = (n + l) + (k - l)
          BY <2>3, <4>1
        <4> QED
          BY <4>2
      <3>2. w[(n + l) + j] = q[j] /\ v[l + j] = q[j]
        BY <1>5, <1>6, <1>b
      <3> QED
        BY <2>1, <3>1, <3>2
    <2> QED
      BY <2>2, <2>3
  <1>10. z = v
    BY <1>7, <1>8, <1>9, SameCalls
  <1> QED
    BY <1>2, <1>5, <1>6, <1>b, <1>7, <1>8, <1>10

\* A request opens a call,
LEMMA OpenAsks ==
  ASSUME NEW s \in Seq(LineByte), NEW q \in Seq(Calls), NEW c \in Calls,
         ~Contains(q, c), \A k \in 1..Len(s) : s[k].of # c
  PROVE  OpenOf(s, Append(q, c)) = Append(OpenOf(s, q), c)
  <1>1. PICK a \in Seq(Calls) :
           a = Owners(s) /\ Len(a) = Len(s) /\ \A k \in 1..Len(s) : a[k] = s[k].of
    BY OwnersFacts
  <1>2. PICK w \in Seq(Calls) :
           /\ w = a \o q /\ Len(w) = Len(a) + Len(q)
           /\ \A k \in 1..Len(a) : w[k] = a[k]
           /\ \A k \in 1..Len(q) : w[Len(a) + k] = q[k]
    BY Rejoined
  <1>3. a \o Append(q, c) = Append(w, c)
    BY <1>2, BehindAll
  <1>4. ~(w # <<>> /\ w[Len(w)] = c)
    <2> SUFFICES ASSUME w # <<>> PROVE w[Len(w)] # c
      OBVIOUS
    <2>1. CASE Len(q) = 0
      <3>1. Len(w) \in 1..Len(a) /\ Len(w) \in 1..Len(s)
        BY <1>1, <1>2, <2>1
      <3> QED
        BY <1>1, <1>2, <3>1
    <2>2. CASE Len(q) # 0
      <3>1. Len(q) \in 1..Len(q) /\ w[Len(w)] = q[Len(q)]
        BY <1>2, <2>2
      <3> QED
        BY <3>1 DEF Contains
    <2> QED
      BY <2>1, <2>2
  <1>5. Merged(Append(w, c)) = Append(Merged(w), c)
    BY <1>4, MergedSteps
  <1> QED
    BY <1>1, <1>2, <1>3, <1>5 DEF OpenOf

\* which the answer to it leaves open,
LEMMA OpenAnswers ==
  ASSUME NEW s \in Seq(LineByte), NEW q \in Seq(Calls), q # <<>>
  PROVE  OpenOf(s \o Tagged(Head(q)), Tail(q)) = OpenOf(s, q)
  <1>1. PICK c \in Calls, p \in Seq(Calls) : c = Head(q) /\ p = Tail(q)
    <2>1. Head(q) \in Calls /\ Tail(q) \in Seq(Calls)
      OBVIOUS
    <2> QED
      BY <2>1, Zenon
  <1>3. PICK a \in Seq(Calls) : a = Owners(s)
    BY OwnersFacts
  <1>4. PICK r \in Seq(LineByte) :
           r = Tagged(c) /\ Len(r) >= 2 /\ \A k \in 1..Len(r) : r[k].of = c
    BY TaggedFacts
  <1>5. PICK b \in Seq(Calls) : b = Owners(r) /\ Len(b) = Len(r) /\ \A k \in 1..Len(r) : b[k] = c
    BY <1>4, OwnersFacts, SMTT(40)
  <1>6. b \in Seq({c}) /\ b # <<>>
    <2>1. b # <<>>
      BY <1>4, <1>5
    <2>2. PICK n \in Nat : n = Len(b) /\ b \in [1..n -> Calls]
      OBVIOUS
    <2>3. \A k \in 1..n : b[k] = c
      BY <1>5, <2>2
    <2>4. b \in [1..n -> {c}]
      BY <2>2, <2>3
    <2>5. b \in Seq({c})
      BY <2>4
    <2> QED
      BY <2>1, <2>5
  <1>7. PICK o \in Seq(Calls) : o = <<c>>
    <2>1. <<c>> \in Seq(Calls)
      OBVIOUS
    <2> QED
      BY <2>1, Zenon
  <1>8. PICK x \in Seq(Calls), y \in Seq(Calls) : x = a \o b /\ y = a \o o
    BY Rejoined
  <1>9. Merged(x) = Merged(y)
    BY <1>6, <1>7, <1>8, MergedOfOne
  <1>10. x # <<>> /\ y # <<>> /\ x[Len(x)] = y[Len(y)]
    <2>1. Len(x) = Len(a) + Len(b) /\ x[Len(a) + Len(b)] = b[Len(b)] /\ b[Len(b)] = c /\ Len(b) >= 1
      <3>1. PICK n \in Nat : n = Len(b) /\ n >= 1 /\ n \in 1..n
        BY <1>4, <1>5
      <3>2. b[n] = c
        BY <1>5, <3>1
      <3>3. Len(x) = Len(a) + Len(b) /\ \A k \in 1..Len(b) : x[Len(a) + k] = b[k]
        BY <1>8, Rejoined
      <3> QED
        BY <3>1, <3>2, <3>3
    <2>2. Len(y) = Len(a) + 1 /\ y[Len(a) + 1] = c
      BY <1>7, <1>8
    <2> QED
      BY <2>1, <2>2
  <1>11. Merged(x \o p) = Merged(y \o p)
    BY <1>9, <1>10, SameMerged
  <1>12. y \o p = a \o q
    <2>1. (a \o <<Head(q)>>) \o Tail(q) = a \o q
      BY FirstMoves
    <2> QED
      BY <1>1, <1>7, <1>8, <2>1
  <1>13. Owners(s \o r) = x
    BY <1>3, <1>5, <1>8, OwnersJoin
  <1> QED
    BY <1>1, <1>3, <1>4, <1>11, <1>12, <1>13 DEF OpenOf

\* and which is closed if it is lost.
LEMMA OpenLoses ==
  ASSUME NEW s \in Seq(LineByte), NEW q \in Seq(Calls), Separate(q, s), q # <<>>,
         NEW O, O = OpenOf(s, q)
  PROVE  \E n \in 1..Len(O) : OpenOf(s, Tail(q)) = SubSeq(O, 1, n - 1) \o SubSeq(O, n + 1, Len(O))
  <1>1. PICK c \in Calls, p \in Seq(Calls) : c = Head(q) /\ p = Tail(q)
    BY FirstMoves
  <1>2. /\ \A i, j \in 1..Len(q) : q[i] = q[j] => i = j
        /\ \A i \in 1..Len(q), k \in 1..Len(s) : s[k].of # q[i]
    BY DEF Separate
  <1>3. PICK a \in Seq(Calls) :
           a = Owners(s) /\ Len(a) = Len(s) /\ \A k \in 1..Len(s) : a[k] = s[k].of
    BY OwnersFacts
  <1>4. PICK b \in Seq(Calls) : b = a \o <<c>>
    <2>1. a \o <<c>> \in Seq(Calls)
      OBVIOUS
    <2> QED
      BY <2>1, Zenon
  <1>5. b \o p = a \o q
    BY <1>1, <1>4, FirstMoves
  <1>6. 1 \in 1..Len(q) /\ q[1] = c
    BY <1>1
  <1>7. p # <<>> => p[1] # c /\ \A k \in 1..Len(s) : s[k].of # p[1]
    <2> SUFFICES ASSUME p # <<>> PROVE p[1] # c /\ \A k \in 1..Len(s) : s[k].of # p[1]
      OBVIOUS
    <2>1. 2 \in 1..Len(q) /\ q[2] = p[1]
      BY <1>1
    <2> QED
      BY <1>2, <1>6, <2>1
  <1>8. Apart(b, p)
    <2>1. b[Len(b)] = c
      BY <1>4
    <2> QED
      BY <1>7, <2>1 DEF Apart
  <1>9. Apart(a, p)
    <2>1. CASE a = <<>>
      BY <2>1 DEF Apart
    <2>2. CASE a # <<>>
      <3>1. Len(s) \in 1..Len(s) /\ a[Len(a)] = s[Len(s)].of
        BY <1>3, <2>2
      <3> QED
        BY <1>7, <3>1 DEF Apart
    <2> QED
      BY <2>1, <2>2
  <1>10. PICK u \in Seq(Calls), v \in Seq(Calls) : u = Merged(a) /\ v = Merged(p)
    BY MergedSteps
  <1>11. Merged(b) = Append(u, c)
    <2>1. b = Append(a, c)
      BY <1>4
    <2>2. ~(a # <<>> /\ a[Len(a)] = c)
      <3> SUFFICES ASSUME a # <<>> PROVE a[Len(a)] # c
        OBVIOUS
      <3>1. Len(s) \in 1..Len(s) /\ a[Len(a)] = s[Len(s)].of
        BY <1>3
      <3> QED
        BY <1>2, <1>6, <3>1
    <2> QED
      BY <1>10, <2>1, <2>2, MergedSteps
  <1>12. Merged(b \o p) = Append(u, c) \o v
    <2>1. PICK x \in Seq(Calls) : Merged(b \o p) = x \o Merged(p) /\ (Apart(b, p) => x = Merged(b))
      BY MergedJoin, Zenon
    <2> QED
      BY <1>8, <1>10, <1>11, <2>1
  <1>13. Merged(a \o p) = u \o v
    <2>1. PICK x \in Seq(Calls) : Merged(a \o p) = x \o Merged(p) /\ (Apart(a, p) => x = Merged(a))
      BY MergedJoin, Zenon
    <2> QED
      BY <1>9, <1>10, <2>1
  <1>14. PICK w \in Seq(Calls) : w = Append(u, c)
    <2>1. Append(u, c) \in Seq(Calls)
      OBVIOUS
    <2> QED
      BY <2>1, Zenon
  <1>15. PICK x \in Seq(Calls) : x = w \o v
    BY Rejoined
  <1>16. O = x
    BY <1>3, <1>5, <1>12, <1>14, <1>15 DEF OpenOf
  <1>17. Len(w) = Len(u) + 1 /\ \A k \in 1..Len(u) : w[k] = u[k]
    BY <1>14
  <1>18. /\ Len(x) = Len(w) + Len(v) /\ SubSeq(x, Len(w) + 1, Len(x)) = v
         /\ \A k \in 1..Len(w) : x[k] = w[k]
    BY <1>15, Rejoined
  <1>19. PICK n \in Nat : n = Len(u)
    OBVIOUS
  <1>20. SubSeq(x, 1, n) = u
    <2>1. n \in 0..Len(x)
      BY <1>17, <1>18, <1>19
    <2>2. PICK z \in Seq(Calls) : z = SubSeq(x, 1, n) /\ Len(z) = n /\ \A k \in 1..n : z[k] = x[k]
      BY <2>1, SplitAt
    <2>3. \A k \in 1..n : z[k] = u[k]
      BY <1>17, <1>18, <1>19, <2>2
    <2> QED
      BY <1>19, <2>2, <2>3, SameCalls
  <1>21. n + 1 \in 1..Len(x) /\ (n + 1) - 1 = n /\ (n + 1) + 1 = Len(w) + 1
    BY <1>17, <1>18, <1>19
  <1>22. OpenOf(s, p) = SubSeq(x, 1, (n + 1) - 1) \o SubSeq(x, (n + 1) + 1, Len(x))
    BY <1>3, <1>13, <1>18, <1>20, <1>21 DEF OpenOf
  <1> QED
    BY <1>1, <1>16, <1>21, <1>22

\* What is read first is closed first,
LEMMA OpenReads ==
  ASSUME NEW s \in Seq(LineByte), NEW q \in Seq(Calls), NEW n \in 0..Len(s),
         NEW O, O = OpenOf(s, q)
  PROVE  \E m \in 0..Len(O) : OpenOf(SubSeq(s, n + 1, Len(s)), q) = SubSeq(O, m + 1, Len(O))
  <1>1. PICK w \in Seq(Calls) : w = Owners(s) \o q /\ n \in 0..Len(w)
    BY OwnersBehind
  <1>2. Owners(SubSeq(s, n + 1, Len(s))) \o q = SubSeq(w, n + 1, Len(w))
    BY <1>1, OwnersBehind
  <1>3. PICK v \in Seq(Calls) : v = SubSeq(w, n + 1, Len(w))
    BY <1>1, SplitAt
  <1>4. PICK a \in Seq(Calls) : Merged(w) = a \o Merged(v)
    BY <1>1, <1>3, MergedBehind
  <1>5. PICK b \in Seq(Calls) : b = Merged(v)
    BY MergedSteps
  <1>6. /\ SubSeq(a \o b, Len(a) + 1, Len(a \o b)) = b /\ Len(a) \in 0..Len(a \o b)
    BY Rejoined
  <1> QED
    BY <1>1, <1>2, <1>3, <1>4, <1>5, <1>6 DEF OpenOf

\* and at least one call is if a whole response is read.
LEMMA OpenReturns ==
  ASSUME NEW s \in Seq(LineByte), NEW at, Placed(s, at), s # <<>>, at[1] = 1,
         NEW q \in Seq(Calls), Separate(q, s),
         NEW n \in 0..Len(s), Size(s[1].of) <= n, NEW O, O = OpenOf(s, q)
  PROVE  \E m \in 1..Len(O) :
            O[1] = s[1].of /\ OpenOf(SubSeq(s, n + 1, Len(s)), q) = SubSeq(O, m + 1, Len(O))
  <1>1. PICK c \in Calls : c = s[1].of
    BY FirstRun
  <1>2. PICK z \in Nat : z = Size(c) /\ z >= 2
    BY SentFacts
  <1>3. /\ z <= Len(s) /\ \A k \in 1..z : s[k].of = c
        /\ z < Len(s) => s[z + 1].of # c
    BY <1>1, <1>2, FirstRun
  <1>4. PICK a \in Seq(Calls) :
           a = Owners(s) /\ Len(a) = Len(s) /\ \A k \in 1..Len(s) : a[k] = s[k].of
    BY OwnersFacts
  <1>5. PICK w \in Seq(Calls) :
           /\ w = a \o q /\ Len(w) = Len(a) + Len(q)
           /\ \A k \in 1..Len(a) : w[k] = a[k]
           /\ \A k \in 1..Len(q) : w[Len(a) + k] = q[k]
    BY Rejoined
  <1>6. w # <<>> /\ w[1] = c
    <2>1. 1 \in 1..Len(a)
      BY <1>4
    <2> QED
      BY <1>1, <1>4, <1>5, <2>1
  <1>7. z \in 0..Len(w) /\ z > 0 /\ (z < Len(w) => w[z] # w[z + 1])
    <2>1. w[z] = c
      <3>1. z \in 1..z /\ z \in 1..Len(a)
        BY <1>2, <1>3, <1>4
      <3> QED
        BY <1>3, <1>4, <1>5, <3>1
    <2>2. ASSUME z < Len(w) PROVE w[z + 1] # c
      <3>1. CASE z < Len(s)
        <4>1. z + 1 \in 1..Len(a) /\ z + 1 \in 1..Len(s)
          BY <1>4, <3>1
        <4> QED
          BY <1>3, <1>4, <1>5, <3>1, <4>1
      <3>2. CASE ~(z < Len(s))
        <4>1. z = Len(a) /\ 1 \in 1..Len(q)
          BY <1>3, <1>4, <1>5, <2>2, <3>2
        <4>2. w[z + 1] = q[1]
          BY <1>5, <4>1
        <4>3. 1 \in 1..Len(s)
          BY <1>4, <1>6
        <4> QED
          BY <1>1, <4>1, <4>2 DEF Separate
      <3> QED
        BY <3>1, <3>2
    <2> QED
      BY <1>2, <1>3, <1>4, <1>5, <2>1, <2>2
  <1>8. PICK u \in Seq(Calls) :
           /\ u = SubSeq(w, z + 1, Len(w)) /\ Len(u) = Len(w) - z
           /\ \A k \in 1..(Len(w) - z) : u[k] = w[k + z]
    BY <1>7, SplitAt
  <1>9. PICK d \in Seq(Calls) : Merged(w) = d \o Merged(u) /\ d # <<>>
    BY <1>7, <1>8, MergedBehind
  <1>10. n \in 0..Len(w) /\ Owners(SubSeq(s, n + 1, Len(s))) \o q = SubSeq(w, n + 1, Len(w))
    BY <1>4, <1>5, OwnersBehind
  <1>11. PICK y \in Nat : y = n - z /\ y \in 0..Len(u)
    <2>1. z <= n /\ n <= Len(w) /\ Len(w) \in Nat /\ n \in Nat
      BY <1>1, <1>2, <1>10
    <2>2. n - z \in Nat /\ n - z \in 0..Len(u)
      BY <1>8, <2>1
    <2> QED
      BY <2>2
  <1>12. PICK v \in Seq(Calls) :
            /\ v = SubSeq(w, n + 1, Len(w)) /\ Len(v) = Len(w) - n
            /\ \A k \in 1..(Len(w) - n) : v[k] = w[k + n]
    BY <1>10, SplitAt
  <1>13. SubSeq(u, y + 1, Len(u)) = v
    <2>1. PICK x \in Seq(Calls) :
             /\ x = SubSeq(u, y + 1, Len(u)) /\ Len(x) = Len(u) - y
             /\ \A k \in 1..(Len(u) - y) : x[k] = u[k + y]
      BY <1>11, SplitAt, ZenonT(40)
    <2>2. Len(x) = Len(v)
      BY <1>8, <1>11, <1>12, <2>1
    <2>3. ASSUME NEW k \in 1..Len(x) PROVE x[k] = v[k]
      <3>1. k + y \in 1..(Len(w) - z) /\ (k + y) + z = k + n /\ k \in 1..(Len(w) - n)
        BY <1>8, <1>11, <1>12, <2>1, <2>2
      <3> QED
        BY <1>8, <1>12, <2>1, <3>1
    <2> QED
      BY <2>1, <2>2, <2>3, SameCalls
  <1>14. PICK e \in Seq(Calls) : Merged(u) = e \o Merged(v)
    BY <1>11, <1>13, MergedBehind
  <1>15. PICK t \in Seq(Calls) : t = Merged(v)
    BY MergedSteps
  <1>16. PICK f \in Seq(Calls) : f = d \o e /\ Len(f) = Len(d) + Len(e)
    BY Rejoined
  <1>17. Merged(w) = f \o t
    <2>1. Merged(w) = d \o (e \o t)
      BY <1>9, <1>14, <1>15
    <2>2. SameCallsJoined(d, e, t)
      BY JoinCalls, Zenon
    <2> QED
      BY <1>16, <2>1, <2>2 DEF SameCallsJoined
  <1>18. SubSeq(f \o t, Len(f) + 1, Len(f \o t)) = t /\ Len(f) \in 1..Len(f \o t)
    <2>1. Len(f) >= 1
      BY <1>9, <1>16
    <2> QED
      BY <2>1, Rejoined
  <1>19. Merged(w)[1] = c
    BY <1>6, MergedFirst
  <1> QED
    BY <1>1, <1>4, <1>5, <1>10, <1>12, <1>15, <1>17, <1>18, <1>19 DEF OpenOf

\* The open calls of the mapping.
LEMMA OpenParts ==
  ASSUME NEW s \in Seq(LineByte), NEW t \in Seq(LineByte), NEW q \in Seq(Calls)
  PROVE  /\ Merged(Owners(s) \o Owners(t) \o q) = OpenOf(s \o t, q)
         /\ OpenOf(s \o t, q) \in Seq(Calls)
  <1>1. Owners(s \o t) = Owners(s) \o Owners(t)
    BY OwnersJoin
  <1>2. Owners(s \o t) \in Seq(Calls)
    BY TwoParts, OwnersFacts
  <1>3. Owners(s \o t) \o q \in Seq(Calls)
    BY <1>2, Rejoined
  <1> QED
    BY <1>1, <1>3, MergedSteps DEF OpenOf

\* What reading n bytes of the line s does to the open calls, and what it does
\* when the bytes read are at least those of the first response.
ReadOpen(s, q, n) ==
  \E m \in 0..Len(OpenOf(s, q)) :
     OpenOf(SubSeq(s, n + 1, Len(s)), q) = SubSeq(OpenOf(s, q), m + 1, Len(OpenOf(s, q)))

ReturnOpen(s, q, n) ==
  \E m \in 1..Len(OpenOf(s, q)) :
     /\ OpenOf(s, q)[1] = s[1].of
     /\ OpenOf(SubSeq(s, n + 1, Len(s)), q) = SubSeq(OpenOf(s, q), m + 1, Len(OpenOf(s, q)))

\* OpenReads in these words.
LEMMA OpenReadsOf ==
  ASSUME NEW s \in Seq(LineByte), NEW q \in Seq(Calls), NEW n \in 0..Len(s)
  PROVE  ReadOpen(s, q, n)
  BY OpenReads DEF ReadOpen

\* The same of OpenReturns.
LEMMA OpenReturnsOf ==
  ASSUME NEW s \in Seq(LineByte), NEW at, Placed(s, at), s # <<>>, at[1] = 1,
         NEW q \in Seq(Calls), Separate(q, s), NEW n \in 0..Len(s), Size(s[1].of) <= n
  PROVE  ReturnOpen(s, q, n)
  BY OpenReturns DEF ReturnOpen

\* Every step of the line is one of the exchange, or none.
LEMMA ExchangeStep ==
  LinkInv /\ LinkInv' /\ [LinkNext]_linkVars => [Exchange!Next]_Exchange!vars
  <1> SUFFICES ASSUME LinkInv, LinkInv', [LinkNext]_linkVars
               PROVE  [Exchange!Next]_Exchange!vars
    OBVIOUS
  <1>1. /\ LinkType /\ call \in Calls /\ requests \in Seq(Calls)
        /\ uart \in Seq(LineByte) /\ out \in Seq(LineByte)
        /\ requests' \in Seq(Calls) /\ uart' \in Seq(LineByte) /\ out' \in Seq(LineByte)
    BY DEF LinkInv, LinkType
  <1>2. PICK s \in Seq(LineByte) : s = uart \o out
    BY <1>1, TwoParts
  <1>3. Open = OpenOf(s, requests) /\ Open' = OpenOf(uart' \o out', requests')
    BY <1>1, <1>2, OpenParts DEF Open
  <1>4. PICK o \in Seq(Calls) : o = Open
    BY <1>1, <1>2, <1>3, OpenParts
  <1>5. ASSUME ~torn
        PROVE  Separate(requests, s) /\ InPlace(s)
    BY <1>2, <1>5 DEF LinkInv, Unmixed
  <1>6. CASE torn'
    BY <1>6 DEF Exchange!Next
  <1>7. CASE ~torn' /\ UNCHANGED <<Open, result, torn>>
    BY <1>7 DEF Exchange!vars
  <1>8. ASSUME ~torn', \E m \in 0..Len(o) : Open' = SubSeq(o, m + 1, Len(o)), result' = Failed
        PROVE  Exchange!Next
    BY <1>4, <1>8 DEF Exchange!Next, Exchange!Fail, Exchange!After
  <1>9. ASSUME RequestArrives, UNCHANGED <<out, uart>>
        PROVE  Open' = Append(Open, call)
    <2>1. /\ ~Contains(requests, call)
          /\ \A t \in {uart, out} : \A k \in 1..Len(t) : t[k].of # call
          /\ requests' = Append(requests, call) /\ UNCHANGED <<out, uart>>
      BY <1>9 DEF RequestArrives
    <2>2. \A k \in 1..Len(s) : s[k].of # call
      <3>1. /\ \A k \in 1..Len(uart) : uart[k].of # call
            /\ \A k \in 1..Len(out) : out[k].of # call
        BY <2>1
      <3> QED
        BY ONLY <1>1, <1>2, <3>1, ClearLine
    <2> QED
      BY <1>1, <1>2, <1>3, <2>1, <2>2, OpenAsks
  <1>10. CASE HostTx /\ ~torn'
    <2>1. Open' = Append(Open, call) /\ result' = result
      BY <1>9, <1>10 DEF HostTx
    <2>2. Exchange!Request
      BY <1>1, <2>1 DEF Exchange!Request
    <2> QED
      BY <1>10, <2>2 DEF Exchange!Next
  <1>11. CASE HostTxFails /\ ~torn'
    <2>1. result' = Failed /\ UNCHANGED <<out, uart>>
      BY <1>11 DEF HostTxFails, ReturnFromCall
    <2>2. CASE UNCHANGED requests
      <3>1. Open' = Open
        BY <1>2, <1>3, <2>1, <2>2
      <3>2. 0 \in 0..Len(o) /\ SubSeq(o, 0 + 1, Len(o)) = o
        OBVIOUS
      <3> QED
        BY <1>4, <1>8, <1>11, <2>1, <3>1, <3>2
    <2>3. CASE RequestArrives
      <3>1. Open' = Append(Open, call)
        BY <1>9, <2>1, <2>3
      <3>2. Exchange!FailToRequest
        BY <1>1, <2>1, <3>1 DEF Exchange!FailToRequest
      <3> QED
        BY <1>11, <3>2 DEF Exchange!Next
    <2> QED
      BY <1>11, <2>2, <2>3 DEF HostTxFails
  <1>12. CASE HostRx /\ ~torn'
    <2>1. PICK n, frame :
             /\ n \in 0..Len(uart)
             /\ BytesOf(frame, s) /\ Len(frame) = n
             /\ result' \in Outcomes(frame)
             /\ uart' \o out = SubSeq(s, n + 1, Len(s))
             /\ UNCHANGED <<requests, out, torn>>
      BY <1>1, <1>2, <1>12, ReadFacts
    <2>2. n \in 0..Len(s)
      BY <1>1, <1>2, <2>1
    <2>3. ~torn /\ Open' = OpenOf(SubSeq(s, n + 1, Len(s)), requests)
      BY <1>3, <1>12, <2>1
    <2>4. PICK at : Placed(s, at)
      BY <1>5, <2>3 DEF InPlace
    <2>5. CASE result' = Failed
      <3>1. \E m \in 0..Len(o) : Open' = SubSeq(o, m + 1, Len(o))
        <4>1. ReadOpen(s, requests, n)
          BY ONLY <1>1, <2>2, s \in Seq(LineByte), OpenReadsOf, Zenon
        <4> QED
          BY <1>3, <1>4, <2>3, <4>1 DEF ReadOpen
      <3> QED
        BY <1>8, <1>12, <2>5, <3>1
    <2>6. CASE result' # Failed
      <3>1. /\ s # <<>> /\ at[1] = 1 /\ Size(s[1].of) <= n
            /\ result' = s[1].of
        BY <2>1, <2>4, <2>6, OutcomeOfRead
      <3>2. PICK m \in 1..Len(o) :
               o[1] = s[1].of /\ OpenOf(SubSeq(s, n + 1, Len(s)), requests) = SubSeq(o, m + 1, Len(o))
        <4>1. Separate(requests, s) /\ requests \in Seq(Calls)
          BY <1>1, <1>5, <2>3
        <4>2. ReturnOpen(s, requests, n)
          BY ONLY <2>2, <2>4, <3>1, <4>1, s \in Seq(LineByte), OpenReturnsOf, Zenon
        <4> QED
          BY <1>3, <1>4, <4>2 DEF ReturnOpen
      <3>3. 1 \in 1..Len(o) /\ m \in 1..Len(o)
        BY <3>2
      <3>4. Exchange!Return
        BY <1>4, <2>3, <3>1, <3>2, <3>3 DEF Exchange!Return, Exchange!After
      <3> QED
        BY <1>12, <3>4 DEF Exchange!Next
    <2> QED
      BY <2>5, <2>6
  <1>13. CASE SensorAnswers /\ ~torn'
    <2>1. /\ requests # <<>> /\ out = <<>> /\ out' = Tagged(Head(requests))
          /\ requests' = Tail(requests) /\ UNCHANGED <<result, uart, torn>>
      BY <1>13 DEF SensorAnswers
    <2>2. s = uart
      BY <1>1, <1>2, <2>1
    <2>3. Open' = Open
      BY <1>1, <1>3, <2>1, <2>2, OpenAnswers
    <2> QED
      BY <1>7, <1>13, <2>1, <2>3
  <1>14. CASE ByteArrives /\ ~torn'
    <2>1. uart' \o out' = s /\ UNCHANGED <<requests, result, torn>>
      BY <1>1, <1>2, <1>14, ByteMoves DEF ByteArrives
    <2> QED
      BY <1>3, <1>7, <1>14, <2>1
  <1>15. CASE RequestIsLost /\ ~torn'
    <2>1. requests # <<>> /\ requests' = Tail(requests) /\ UNCHANGED <<result, out, uart, torn>>
      BY <1>15 DEF RequestIsLost
    <2>2. PICK n \in 1..Len(o) :
             OpenOf(s, Tail(requests)) = SubSeq(o, 1, n - 1) \o SubSeq(o, n + 1, Len(o))
      BY <1>1, <1>3, <1>4, <1>5, <1>15, <2>1, OpenLoses, ZenonT(40)
    <2>3. Open' = SubSeq(o, 1, n - 1) \o SubSeq(o, n + 1, Len(o))
      BY <1>2, <1>3, <2>1, <2>2
    <2>4. Exchange!Lose
      BY <1>4, <2>1, <2>3 DEF Exchange!Lose, Exchange!After
    <2> QED
      BY <1>15, <2>4 DEF Exchange!Next
  <1>16. CASE HostRxFails /\ ~torn'
    <2>1. PICK n \in 0..Len(uart) :
             /\ uart' \o out = SubSeq(s, n + 1, Len(s)) /\ result' = Failed
             /\ UNCHANGED <<requests, out, torn>>
      BY <1>1, <1>2, <1>16, FailingReadFacts
    <2>2. n \in 0..Len(s)
      BY <1>1, <1>2
    <2>3. Open' = OpenOf(SubSeq(s, n + 1, Len(s)), requests)
      BY <1>3, <2>1
    <2>4. ReadOpen(s, requests, n)
      BY ONLY <1>1, <2>2, s \in Seq(LineByte), OpenReadsOf, Zenon
    <2>5. \E m \in 0..Len(o) : Open' = SubSeq(o, m + 1, Len(o))
      BY <1>3, <1>4, <2>3, <2>4 DEF ReadOpen
    <2> QED
      BY <1>8, <1>16, <2>1, <2>5
  <1>17. CASE ByteIsLost
    BY <1>6, <1>17 DEF ByteIsLost
  <1>18. CASE (HostWakes \/ HostWakesEarly \/ UNCHANGED linkVars) /\ ~torn'
    <2>1. UNCHANGED <<requests, out, uart, result, torn>>
      BY <1>18 DEF HostWakes, HostWakesEarly, linkVars
    <2> QED
      BY <1>2, <1>3, <1>7, <1>18, <2>1
  <1> QED
    BY <1>6, <1>11, <1>12, <1>13, <1>14, <1>15, <1>17, <1>18, <1>10, <1>16
       DEF LinkNext, Host, Sensor, Faulty

\* Whatever is late, whichever requests are lost, and whichever are answered although
\* their call reported an error, sensirion_shdlc_xcv implements the exchange: until a byte
\* of a response is lost, no call returns a response put together from two, one a second
\* time, or an older one after a newer one.
THEOREM LinkImplementsExchange == LinkSpec => ImplementsExchange
  <1>1. LinkInit => Exchange!Init
    <2> SUFFICES ASSUME LinkInit PROVE Exchange!Init
      OBVIOUS
    <2>1. requests = <<>> /\ out = <<>> /\ uart = <<>> /\ result = Failed /\ torn = FALSE
      BY DEF LinkInit
    <2>2. Open = <<>>
      <3>1. <<>> \in Seq(LineByte) /\ <<>> \in Seq(Calls) /\ Len(<<>>) = 0
        OBVIOUS
      <3>2. Owners(<<>>) \in Seq(Calls) /\ Len(Owners(<<>>)) = 0
        BY <3>1, OwnersFacts
      <3>3. Owners(<<>>) = <<>>
        BY <3>2
      <3>4. <<>> \o <<>> \o <<>> = <<>>
        OBVIOUS
      <3> QED
        BY <2>1, <3>3, <3>4, MergedSteps DEF Open
    <2> QED
      BY <2>1, <2>2 DEF Exchange!Init
  <1> QED
    BY <1>1, LinkInvariant, ExchangeStep, PTL DEF LinkSpec, ImplementsExchange, Exchange!Spec

=============================================================================
