--------------------------- MODULE I2cGpio_proofs ---------------------------
(***************************************************************************)
(* Proofs about the bit-banged I2C master, for any calls, any address of   *)
(* the device and any number of polls.                                     *)
(***************************************************************************)
EXTENDS I2cGpio, SequenceTheorems, TLAPS

-----------------------------------------------------------------------------
(* Bytes and bits.                                                         *)

\* A byte has eight bits.
LEMMA BitsAreBits ==
    ASSUME NEW b \in 0..255
    PROVE  BitsOf(b) \in [1..8 -> {0, 1}] /\ BitsOf(b) \in Seq({0, 1}) /\ Len(BitsOf(b)) = 8
  BY DEF BitsOf

\* The value of its bits is the byte.
LEMMA ValueOfBits ==
    ASSUME NEW b \in 0..255
    PROVE  ValueOf(BitsOf(b)) = b
  <1>1. /\ 2^7 = 128 /\ 2^6 = 64 /\ 2^5 = 32 /\ 2^4 = 16
        /\ 2^3 = 8 /\ 2^2 = 4 /\ 2^1 = 2 /\ 2^0 = 1
    OBVIOUS
  <1>2. /\ BitsOf(b)[1] = (b \div 128) % 2 /\ BitsOf(b)[2] = (b \div 64) % 2
        /\ BitsOf(b)[3] = (b \div 32) % 2  /\ BitsOf(b)[4] = (b \div 16) % 2
        /\ BitsOf(b)[5] = (b \div 8) % 2   /\ BitsOf(b)[6] = (b \div 4) % 2
        /\ BitsOf(b)[7] = (b \div 2) % 2   /\ BitsOf(b)[8] = b % 2
    BY <1>1 DEF BitsOf
  <1> QED
    BY <1>2, SMTT(40) DEF ValueOf

\* The first n bits of a byte.
FirstBits(b, n) == [k \in 1..n |-> BitsOf(b)[k]]

LEMMA FirstBitsStep ==
    ASSUME NEW b \in 0..255
    PROVE  /\ FirstBits(b, 0) = <<>> /\ FirstBits(b, 8) = BitsOf(b)
           /\ \A n \in 0..8 : FirstBits(b, n) \in Seq({0, 1}) /\ Len(FirstBits(b, n)) = n
           /\ \A n \in 1..8 : Append(FirstBits(b, n - 1), BitsOf(b)[n]) = FirstBits(b, n)
           /\ \A a \in {0, 1} : /\ Append(FirstBits(b, 8), a)[9] = a
                                /\ SubSeq(Append(FirstBits(b, 8), a), 1, 8) = BitsOf(b)
  <1>1. BitsOf(b) \in [1..8 -> {0, 1}]
    BY BitsAreBits
  <1>2. FirstBits(b, 0) = <<>>
    BY DEF FirstBits
  <1>3. FirstBits(b, 8) = BitsOf(b)
    BY <1>1 DEF FirstBits
  <1>4. \A n \in 0..8 : FirstBits(b, n) \in Seq({0, 1}) /\ Len(FirstBits(b, n)) = n
    BY <1>1 DEF FirstBits
  <1>5. ASSUME NEW n \in 1..8
        PROVE  Append(FirstBits(b, n - 1), BitsOf(b)[n]) = FirstBits(b, n)
    BY <1>1, <1>5 DEF FirstBits
  <1>6. ASSUME NEW a \in {0, 1}
        PROVE  /\ Append(FirstBits(b, 8), a)[9] = a
               /\ SubSeq(Append(FirstBits(b, 8), a), 1, 8) = BitsOf(b)
    BY <1>1, <1>6 DEF FirstBits
  <1> QED
    BY <1>2, <1>3, <1>4, <1>5, <1>6

\* The calls of sensirion_i2c_gpio_start and of sensirion_i2c_gpio_stop.
LEMMA StartCode ==
    /\ Len(Start) = 4
    /\ Start[1] = "scl1" /\ Start[2] = "wait" /\ Start[3] = "sda0" /\ Start[4] = "scl0"
  BY DEF Start

LEMMA StopCode ==
    Len(Stop) = 3 /\ Stop[1] = "sda0" /\ Stop[2] = "scl1" /\ Stop[3] = "sda1"
  BY DEF Stop

\* The calls of write_byte: four for each of the eight bits, and the answer.
LEMMA WriteCode ==
    ASSUME NEW b
    PROVE  /\ Len(WriteByte(b)) = 38
           /\ \A k \in 1..8 : /\ WriteByte(b)[4 * k - 3] = "scl0"
                              /\ WriteByte(b)[4 * k - 2] = Level(BitsOf(b)[k])
                              /\ WriteByte(b)[4 * k - 1] = "scl1"
                              /\ WriteByte(b)[4 * k] = "wait"
           /\ WriteByte(b)[1] = "scl0"
           /\ WriteByte(b)[33] = "scl0" /\ WriteByte(b)[34] = "sda1"
           /\ WriteByte(b)[35] = "scl1" /\ WriteByte(b)[36] = "wait"
           /\ WriteByte(b)[37] = "sample" /\ WriteByte(b)[38] = "scl0"
  <1>1. Len(WriteByte(b)) = 38
    BY DEF WriteByte, Rounds
  <1>2. \A k \in 1..8 : WriteByte(b)[4 * k - 3] = "scl0"
    BY DEF WriteByte, Rounds
  <1>3. \A k \in 1..8 : WriteByte(b)[4 * k - 2] = Level(BitsOf(b)[k])
    BY DEF WriteByte, Rounds
  <1>4. \A k \in 1..8 : WriteByte(b)[4 * k - 1] = "scl1"
    BY DEF WriteByte, Rounds
  <1>5. \A k \in 1..8 : WriteByte(b)[4 * k] = "wait"
    BY DEF WriteByte, Rounds
  <1>6. WriteByte(b)[1] = "scl0" /\ WriteByte(b)[33] = "scl0" /\ WriteByte(b)[34] = "sda1"
    BY DEF WriteByte, Rounds
  <1>7. WriteByte(b)[35] = "scl1" /\ WriteByte(b)[36] = "wait"
    BY DEF WriteByte, Rounds
  <1>8. WriteByte(b)[37] = "sample" /\ WriteByte(b)[38] = "scl0"
    BY DEF WriteByte, Rounds
  <1> QED
    BY <1>1, <1>2, <1>3, <1>4, <1>5, <1>6, <1>7, <1>8

\* The calls of read_byte, with the level of its answer.
ReadCalls(l) == ReadByte(l = 0)

LEMMA ReadCode ==
    ASSUME NEW l \in {0, 1}
    PROVE  /\ Len(ReadCalls(l)) = 38
           /\ ReadCalls(l)[1] = "sda1"
           /\ \A k \in 1..8 : /\ ReadCalls(l)[4 * k - 2] = "scl1"
                              /\ ReadCalls(l)[4 * k - 1] = "wait"
                              /\ ReadCalls(l)[4 * k] = "sample"
                              /\ ReadCalls(l)[4 * k + 1] = "scl0"
           /\ ReadCalls(l)[34] = Level(l)
           /\ ReadCalls(l)[35] = "scl1" /\ ReadCalls(l)[36] = "wait"
           /\ ReadCalls(l)[37] = "scl0" /\ ReadCalls(l)[38] = "sda1"
  <1>1. Len(ReadCalls(l)) = 38
    BY DEF ReadCalls, ReadByte, Rounds
  <1>2. \A k \in 1..8 : ReadCalls(l)[4 * k - 2] = "scl1"
    BY DEF ReadCalls, ReadByte, Rounds
  <1>3. \A k \in 1..8 : ReadCalls(l)[4 * k - 1] = "wait"
    BY DEF ReadCalls, ReadByte, Rounds
  <1>4. \A k \in 1..8 : ReadCalls(l)[4 * k] = "sample"
    BY DEF ReadCalls, ReadByte, Rounds
  <1>5. \A k \in 1..8 : ReadCalls(l)[4 * k + 1] = "scl0"
    BY DEF ReadCalls, ReadByte, Rounds
  <1>6. ReadCalls(l)[1] = "sda1" /\ ReadCalls(l)[34] = Level(l)
    BY DEF ReadCalls, ReadByte, Rounds, Level
  <1>7. ReadCalls(l)[35] = "scl1" /\ ReadCalls(l)[36] = "wait"
    BY DEF ReadCalls, ReadByte, Rounds
  <1>8. ReadCalls(l)[37] = "scl0" /\ ReadCalls(l)[38] = "sda1"
    BY DEF ReadCalls, ReadByte, Rounds
  <1> QED
    BY <1>1, <1>2, <1>3, <1>4, <1>5, <1>6, <1>7, <1>8

-----------------------------------------------------------------------------
(* The edges of the lines.                                                 *)

Lines == [scl : {0, 1}, sda : {0, 1}]
Low(bit) == [scl |-> 0, sda |-> bit]
High(bit) == [scl |-> 1, sda |-> bit]

\* A line is high if nobody pulls it low.
LEMMA BusLevels ==
    ASSUME NEW a \in Lines, NEW b \in Lines
    PROVE  /\ Bus(a, b).scl = IF a.scl = 1 THEN b.scl ELSE 0
           /\ Bus(a, b).sda = IF a.sda = 1 THEN b.sda ELSE 0
  BY DEF Bus, Lines

\* The call that Drive makes.
LEMMA DriveEdges ==
    ASSUME Drive
    PROVE  /\ Running /\ Step /\ late' = (late \/ StopIsEarly)
           /\ Code[ip] \in {"scl0", "scl1", "sda0", "sda1"}
           /\ UNCHANGED <<request, phase, i, bits, buffer, ret>>
           /\ Code[ip] = "scl0" => Edges([m EXCEPT !.scl = 0], s)
           /\ Code[ip] = "scl1" => Edges([m EXCEPT !.scl = 1], s)
           /\ Code[ip] = "sda0" => Edges([m EXCEPT !.sda = 0], s)
           /\ Code[ip] = "sda1" => Edges([m EXCEPT !.sda = 1], s)
  BY DEF Drive

\* What follows from each way in which the lines change.
LEMMA NoEdge ==
    ASSUME NEW a, NEW b, Edges(a, b),
           \/ Bus(m, s).scl = 0 /\ Bus(a, b).scl = 0
           \/ Bus(m, s) = Bus(a, b) /\ Bus(a, b).scl = 1
    PROVE  m' = a /\ s' = b /\ device' = device /\ seen' = seen
  <1>1. 0 # 1
    OBVIOUS
  <1>2. CASE Bus(m, s).scl = 0 /\ Bus(a, b).scl = 0
    BY <1>1, <1>2, Zenon DEF Edges
  <1>3. CASE Bus(m, s) = Bus(a, b) /\ Bus(a, b).scl = 1
    BY <1>1, <1>3, Zenon DEF Edges
  <1> QED
    BY <1>2, <1>3

LEMMA Rises ==
    ASSUME NEW a, NEW b, Edges(a, b), Bus(m, s).scl = 0, Bus(a, b).scl = 1
    PROVE  m' = a /\ s' = b /\ seen' = seen /\ device' = AfterRise(device, Bus(a, b).sda)
  <1>1. 0 # 1
    OBVIOUS
  <1> QED
    BY <1>1, Zenon DEF Edges

LEMMA Starts ==
    ASSUME NEW a, NEW b, Edges(a, b), Bus(m, s).scl = 1, Bus(m, s).sda = 1,
           Bus(a, b).scl = 1, Bus(a, b).sda = 0
    PROVE  /\ m' = a /\ s' = Released /\ seen' = [seen EXCEPT !.open = TRUE]
           /\ device' = Device("receive", <<>>, request.data, TRUE)
  <1>1. 0 # 1
    OBVIOUS
  <1> QED
    BY <1>1, Zenon DEF Edges

LEMMA Stops ==
    ASSUME NEW a, NEW b, Edges(a, b), Bus(m, s).scl = 1, Bus(m, s).sda = 0,
           Bus(a, b).scl = 1, Bus(a, b).sda = 1
    PROVE  m' = a /\ s' = Released /\ seen' = [seen EXCEPT !.open = FALSE] /\ device' = Idle
  <1>1. 0 # 1
    OBVIOUS
  <1> QED
    BY <1>1, Zenon DEF Edges

LEMMA Falls ==
    ASSUME NEW a, NEW b, Edges(a, b), Bus(m, s).scl = 1, Bus(a, b).scl = 0
    PROVE  m' = a /\ \E r \in AfterFall(device) : \E stretch \in {0, 1} :
               /\ stretch = 0 => r.d.mode # "idle"
               /\ device' = r.d /\ s' = [scl |-> stretch, sda |-> r.sda]
               /\ seen' = [seen EXCEPT !.bytes = @ \o r.new]
  <1>1. 0 # 1
    OBVIOUS
  <1> QED
    BY <1>1, Zenon DEF Edges

\* While the clock is low, or stays as it is, SDA changes without an effect.
LEMMA DataEdge ==
    ASSUME m \in Lines, s \in Lines, NEW a \in Lines, Edges(a, s),
           a = m \/ (m.scl = 0 /\ a.scl = 0)
    PROVE  m' = a /\ s' = s /\ UNCHANGED <<device, seen>>
  <1>1. CASE m.scl = 0 /\ a.scl = 0
    <2>1. Bus(m, s).scl = 0 /\ Bus(a, s).scl = 0
      BY <1>1, BusLevels
    <2> QED
      BY <2>1, NoEdge
  <1>2. CASE a = m
    <2>1. Bus(a, s).scl \in {0, 1}
      BY BusLevels DEF Lines
    <2> QED
      BY <1>2, <2>1, NoEdge
  <1> QED
    BY <1>1, <1>2

\* The master lets the clock rise, and it does unless the device holds it.
LEMMA RisingEdge ==
    ASSUME m \in Lines, s \in Lines, m.scl = 0, Edges([m EXCEPT !.scl = 1], s)
    PROVE  /\ m' = [m EXCEPT !.scl = 1] /\ s' = s /\ UNCHANGED seen
           /\ device' = IF s.scl = 1 THEN AfterRise(device, IF m.sda = 1 THEN s.sda ELSE 0)
                        ELSE device
  <1> DEFINE a == [m EXCEPT !.scl = 1]
  <1>1. a \in Lines /\ a.scl = 1 /\ a.sda = m.sda
    BY DEF Lines
  <1>2. s.scl \in {0, 1}
    BY DEF Lines
  <1> HIDE DEF a
  <1>3. Bus(m, s).scl = 0 /\ Bus(a, s).scl = s.scl
        /\ Bus(a, s).sda = (IF m.sda = 1 THEN s.sda ELSE 0)
    BY <1>1, <1>2, BusLevels
  <1>4. m' = a /\ s' = s /\ seen' = seen
    BY <1>2, <1>3, NoEdge, Rises DEF a
  <1>5. CASE s.scl = 0
    BY <1>3, <1>5, NoEdge DEF a
  <1>6. CASE s.scl = 1
    <2>1. device' = AfterRise(device, Bus(a, s).sda)
      BY <1>3, <1>6, Rises DEF a
    <2> QED
      BY <1>3, <1>4, <1>6, <2>1 DEF a
  <1> QED
    BY <1>2, <1>5, <1>6

\* The device lets the clock rise.
LEMMA StretchEnds ==
    ASSUME m \in Lines, s \in Lines, DeviceReleases
    PROVE  /\ s.scl = 0 /\ s' = [s EXCEPT !.scl = 1] /\ UNCHANGED <<m, seen, master, late>>
           /\ device' = IF m.scl = 1 THEN AfterRise(device, IF m.sda = 1 THEN s.sda ELSE 0)
                        ELSE device
  <1> DEFINE b == [s EXCEPT !.scl = 1]
  <1>1. s.scl = 0 /\ Edges(m, b) /\ UNCHANGED <<master, late>>
    BY DEF DeviceReleases
  <1>2. b \in Lines /\ b.scl = 1 /\ b.sda = s.sda
    BY DEF Lines
  <1> HIDE DEF b
  <1>3. Bus(m, s).scl = 0 /\ Bus(m, b).scl = m.scl
        /\ Bus(m, b).sda = (IF m.sda = 1 THEN s.sda ELSE 0)
    BY <1>1, <1>2, BusLevels DEF Lines
  <1>4. m.scl \in {0, 1}
    BY DEF Lines
  <1>5. m' = m /\ s' = b /\ seen' = seen
    BY <1>1, <1>3, <1>4, NoEdge, Rises
  <1>6. CASE m.scl = 0
    <2>1. device' = device
      BY <1>1, <1>3, <1>6, NoEdge
    <2> QED
      BY <1>1, <1>5, <1>6, <2>1 DEF b
  <1>7. CASE m.scl = 1
    <2>1. device' = AfterRise(device, Bus(m, b).sda)
      BY <1>1, <1>3, <1>7, Rises
    <2> QED
      BY <1>1, <1>3, <1>5, <1>7, <2>1 DEF b
  <1> QED
    BY <1>4, <1>6, <1>7

\* The master pulls the clock low.
LEMMA FallingEdge ==
    ASSUME m \in Lines, s \in Lines, m.scl = 1, s.scl = 1, Edges([m EXCEPT !.scl = 0], s)
    PROVE  /\ m' = [m EXCEPT !.scl = 0]
           /\ \E r \in AfterFall(device) : \E stretch \in {0, 1} :
                  /\ stretch = 0 => r.d.mode # "idle"
                  /\ device' = r.d /\ s' = [scl |-> stretch, sda |-> r.sda]
                  /\ seen' = [seen EXCEPT !.bytes = @ \o r.new]
  <1> DEFINE a == [m EXCEPT !.scl = 0]
  <1>1. a \in Lines /\ a.scl = 0
    BY DEF Lines
  <1>2. Bus(m, s).scl = 1 /\ Bus(a, s).scl = 0
    BY <1>1, BusLevels
  <1> HIDE DEF a
  <1>3. Edges(a, s)
    BY DEF a
  <1> QED
    BY <1>2, <1>3, Falls DEF a

\* SDA changes while the clock is high.
LEMMA StartCondition ==
    ASSUME m = Released, s = Released, Edges([m EXCEPT !.sda = 0], s)
    PROVE  /\ m' = High(0) /\ s' = Released /\ seen' = [seen EXCEPT !.open = TRUE]
           /\ device' = Device("receive", <<>>, request.data, TRUE)
  <1>1. Bus(m, s) = High(1) /\ [m EXCEPT !.sda = 0] = High(0) /\ Bus(High(0), s) = High(0)
    BY DEF Bus, Released, High
  <1>2. Edges(High(0), s)
    BY <1>1
  <1>3. High(1).scl = 1 /\ High(1).sda = 1 /\ High(0).scl = 1 /\ High(0).sda = 0
    BY DEF High
  <1> QED
    BY <1>1, <1>2, <1>3, Starts

LEMMA StopCondition ==
    ASSUME m = High(0), s \in Lines, s.scl = 1, s.sda = 1, Edges([m EXCEPT !.sda = 1], s)
    PROVE  /\ m' = Released /\ s' = Released /\ seen' = [seen EXCEPT !.open = FALSE]
           /\ device' = Idle
  <1>1. Bus(m, s) = High(0) /\ [m EXCEPT !.sda = 1] = High(1) /\ Bus(High(1), s) = High(1)
        /\ Released = High(1)
    BY DEF Bus, Released, High
  <1>2. Edges(High(1), s)
    BY <1>1
  <1>3. High(1).scl = 1 /\ High(1).sda = 1 /\ High(0).scl = 1 /\ High(0).sda = 0
    BY DEF High
  <1> QED
    BY <1>1, <1>2, <1>3, Stops

-----------------------------------------------------------------------------
(* The device at a falling edge.                                           *)

\* States of the device: taking a byte, answering it, sending one (the first
\* of rest), waiting for the answer to it.
Receiving(w, first) == Device("receive", w, request.data, first)
Answering(w, first) == Device("answered", w, request.data, first)
Sending(w, rest)    == Device("transmit", w, rest, FALSE)
Waiting(w, rest)    == Device("sent", w, rest, FALSE)

\* It goes on with a byte that is not complete.
LEMMA MoreToReceive ==
    ASSUME NEW first, NEW w, Len(w) # 8
    PROVE  AfterFall(Receiving(w, first)) =
               {[d |-> Receiving(w, first), sda |-> 1, new |-> <<>>]}
  BY DEF Device, AfterFall, Receiving

\* It answers a byte, and holds SDA low for an acknowledgement.
LEMMA ByteIsAnswered ==
    ASSUME NEW first, NEW w, Len(w) = 8, NEW r \in AfterFall(Receiving(w, first))
    PROVE  \E a \in {0, 1} :
               r = [d |-> Answering(Append(w, a), first), sda |-> a, new |-> <<>>]
  <1>1. Answers(Receiving(w, first)) \subseteq {0, 1}
    BY DEF Answers
  <1>2. AfterFall(Receiving(w, first)) =
            {[d |-> Answering(Append(w, a), first), sda |-> a, new |-> <<>>] :
                 a \in Answers(Receiving(w, first))}
    BY DEF Device, AfterFall, Receiving, Answering
  <1> QED
    BY <1>1, <1>2

\* What it does after the answer.
AfterAnswer(b, a, first) ==
    IF a = 1 THEN Idle
    ELSE IF first /\ b % 2 = 1 THEN Send(request.data) ELSE Receiving(<<>>, FALSE)

LEMMA AnswerIsGiven ==
    ASSUME NEW first, NEW b \in 0..255, NEW a \in {0, 1},
           NEW r \in AfterFall(Answering(Append(FirstBits(b, 8), a), first))
    PROVE  /\ r.new = <<Saw(b, a)>> /\ r.sda = DataLevel(r.d)
           /\ r.d = AfterAnswer(b, a, first)
  <1> DEFINE w == Append(FirstBits(b, 8), a)
             next == AfterAnswer(b, a, first)
  <1>1. ValueOf(SubSeq(w, 1, 8)) = b /\ w[9] = a
    BY FirstBitsStep, ValueOfBits
  <1> HIDE DEF w
  <1>2. AfterFall(Answering(w, first)) =
            {[d |-> next, sda |-> DataLevel(next), new |-> <<Saw(b, a)>>]}
    BY <1>1 DEF Device, AfterFall, AfterAnswer, Answering, Receiving
  <1>3. r \in AfterFall(Answering(w, first))
    BY DEF w
  <1> HIDE DEF next
  <1>4. r.d = next /\ r.sda = DataLevel(next) /\ r.new = <<Saw(b, a)>>
    BY <1>2, <1>3
  <1> QED
    BY <1>4 DEF next

\* The lines it drives in the states between two bytes.
LEMMA DataLevels ==
    /\ DataLevel(Idle) = 1
    /\ \A w, first : DataLevel(Receiving(w, first)) = 1
    /\ \A w, rest : DataLevel(Sending(w, rest)) = w[1] /\ DataLevel(Waiting(w, rest)) = 1
  BY DEF Device, DataLevel, Idle, Receiving, Sending, Waiting

\* It sends the next bit, or waits for the answer after the last.
LEMMA BitIsSent ==
    ASSUME NEW w, NEW rest, NEW r \in AfterFall(Sending(w, rest))
    PROVE  /\ r.new = <<>> /\ r.sda = DataLevel(r.d)
           /\ r.d = IF Tail(w) = <<>> THEN Waiting(<<>>, rest) ELSE Sending(Tail(w), rest)
  <1> DEFINE next == IF Tail(w) = <<>> THEN Waiting(<<>>, rest) ELSE Sending(Tail(w), rest)
  <1>1. AfterFall(Sending(w, rest)) = {[d |-> next, sda |-> DataLevel(next), new |-> <<>>]}
    BY DEF Device, AfterFall, Sending, Waiting
  <1> HIDE DEF next
  <1>2. r.d = next /\ r.sda = DataLevel(next) /\ r.new = <<>>
    BY <1>1
  <1> QED
    BY <1>2 DEF next

\* After a byte it has sent it goes on only if the master acknowledges.
AfterSent(a, rest) ==
    IF a = 1 THEN Idle ELSE Send(IF Len(rest) = 1 THEN <<0>> ELSE Tail(rest))

LEMMA SentByteIsAnswered ==
    ASSUME NEW a \in {0, 1}, NEW rest, NEW r \in AfterFall(Waiting(<<a>>, rest))
    PROVE  /\ r.new = <<Saw(Head(rest), a)>> /\ r.sda = DataLevel(r.d)
           /\ r.d = AfterSent(a, rest)
  <1> DEFINE next == AfterSent(a, rest)
             w == <<a>>
  <1>1. w[1] = a /\ (w = <<1>> <=> a = 1)
    OBVIOUS
  <1> HIDE DEF w
  <1>2. AfterFall(Waiting(w, rest)) =
            {[d |-> next, sda |-> DataLevel(next), new |-> <<Saw(Head(rest), a)>>]}
    BY <1>1 DEF Device, AfterFall, AfterSent, Waiting
  <1> HIDE DEF next
  <1>3. r.d = next /\ r.sda = DataLevel(next) /\ r.new = <<Saw(Head(rest), a)>>
    BY <1>2 DEF w
  <1> QED
    BY <1>3 DEF next

\* At a rising edge it samples, if it is not its turn to send.
LEMMA Samples ==
    ASSUME NEW bit
    PROVE  /\ \A w, first : /\ AfterRise(Receiving(w, first), bit) = Receiving(Append(w, bit), first)
                            /\ AfterRise(Answering(w, first), bit) = Answering(w, first)
           /\ \A w, rest : /\ AfterRise(Sending(w, rest), bit) = Sending(w, rest)
                           /\ AfterRise(Waiting(w, rest), bit) = Waiting(Append(w, bit), rest)
  BY DEF Device, AfterRise, Receiving, Answering, Sending, Waiting

-----------------------------------------------------------------------------
(* The master's calls.                                                     *)

\* One call of a helper, other than a poll that finds the clock low.
Helper == Drive \/ Sample \/ WaitHigh

LEMMA HelperStep ==
    ASSUME Helper, m \in Lines, s \in Lines
    PROVE  /\ ip' = ip + 1 /\ UNCHANGED <<request, phase, i, buffer, ret>>
           /\ Code[ip] \notin {"sample", "wait"} => UNCHANGED bits
           /\ Code[ip] = "scl0" => Edges([m EXCEPT !.scl = 0], s)
           /\ Code[ip] = "scl1" => Edges([m EXCEPT !.scl = 1], s)
           /\ Code[ip] = "sda0" => Edges([m EXCEPT !.sda = 0], s)
           /\ Code[ip] = "sda1" => Edges([m EXCEPT !.sda = 1], s)
           /\ Code[ip] = "sample" =>
                  /\ bits' = Append(bits, IF m.sda = 1 THEN s.sda ELSE 0)
                  /\ UNCHANGED <<m, s, device, seen>>
           /\ Code[ip] = "wait" =>
                  /\ m.scl = 1 /\ s.scl = 1
                  /\ UNCHANGED <<bits, m, s, device, seen>>
  <1>1. CASE Drive
    BY <1>1, DriveEdges DEF Step
  <1>2. CASE Sample
    BY <1>2, BusLevels DEF Sample, Step, SDA
  <1>3. CASE WaitHigh
    <2>1. m.scl = 1 /\ s.scl = 1
      BY <1>3, BusLevels DEF WaitHigh, SCL, Lines
    <2> QED
      BY <1>3, <2>1 DEF WaitHigh, Step
  <1> QED
    BY <1>1, <1>2, <1>3 DEF Helper

-----------------------------------------------------------------------------
(* sensirion_i2c_gpio_write_byte.                                          *)

Seen(bytes) == [open |-> TRUE, bytes |-> bytes]

\* Until the k-th bit of byte b is through: the device has it as soon as the
\* clock is high.
WritesBit(b, first, k) ==
    \/ ip = 4 * k - 2 /\ m.scl = 0 /\ device = Receiving(FirstBits(b, k - 1), first)
    \/ /\ ip = 4 * k - 1 /\ m = Low(BitsOf(b)[k])
       /\ device = Receiving(FirstBits(b, k - 1), first)
    \/ /\ ip = 4 * k /\ m = High(BitsOf(b)[k])
       /\ device = Receiving(FirstBits(b, IF s.scl = 1 THEN k ELSE k - 1), first)
    \/ /\ ip = 4 * k + 1 /\ m = High(BitsOf(b)[k]) /\ s.scl = 1
       /\ device = Receiving(FirstBits(b, k), first)

WritesByte(b, first) ==
    /\ bits = <<>> /\ s.sda = 1
    /\ \/ ip = 1 /\ m.scl = 0 /\ device = Receiving(<<>>, first)
       \/ \E k \in 1..8 : WritesBit(b, first, k)

\* The device answers, and the master reads it.
TakesAnswer(b, first) ==
    \E a \in {0, 1} :
        /\ device = Answering(Append(FirstBits(b, 8), a), first) /\ s.sda = a
        /\ \/ ip = 34 /\ m.scl = 0 /\ bits = <<>>
           \/ ip = 35 /\ m = Low(1) /\ bits = <<>>
           \/ ip = 36 /\ m = Released /\ bits = <<>>
           \/ ip = 37 /\ m = Released /\ s.scl = 1 /\ bits = <<>>
           \/ ip = 38 /\ m = Released /\ s.scl = 1 /\ bits = <<a>>

\* The call is over: the device has let go of the lines, sends, or waits for
\* the next byte.
ByteWritten(b, first, before) ==
    \E a \in {0, 1} :
        /\ ip = 39 /\ bits = <<a>> /\ m = Low(1) /\ s.sda = DataLevel(device)
        /\ seen = Seen(Append(before, Saw(b, a)))
        /\ device = AfterAnswer(b, a, first)
        /\ a = 1 => s = Released

WriteInv(b, first, before) ==
    \/ (WritesByte(b, first) \/ TakesAnswer(b, first)) /\ seen = Seen(before)
    \/ ByteWritten(b, first, before)

\* The device lets go of the clock.
LEMMA StretchInWrite ==
    ASSUME m \in Lines, s \in Lines, NEW b \in 0..255, NEW first \in BOOLEAN, NEW before,
           WriteInv(b, first, before), DeviceReleases
    PROVE  WriteInv(b, first, before)' /\ s' \in Lines
  <1>1. /\ s.scl = 0 /\ s' = [s EXCEPT !.scl = 1] /\ m' = m /\ seen' = seen
        /\ ip' = ip /\ bits' = bits /\ request' = request
        /\ device' = IF m.scl = 1 THEN AfterRise(device, IF m.sda = 1 THEN s.sda ELSE 0)
                     ELSE device
    BY StretchEnds DEF master
  <1>2. s'.scl = 1 /\ s'.sda = s.sda /\ s' \in Lines
    BY <1>1 DEF Lines
  <1>3. \A w, f : Receiving(w, f)' = Receiving(w, f) /\ Answering(w, f)' = Answering(w, f)
    BY <1>1 DEF Receiving, Answering
  <1>4. CASE WritesByte(b, first) /\ seen = Seen(before)
    <2>1. CASE ip = 1 /\ m.scl = 0 /\ device = Receiving(<<>>, first)
      BY <1>1, <1>2, <1>3, <1>4, <2>1 DEF WriteInv, WritesByte
    <2>2. ASSUME NEW k \in 1..8, WritesBit(b, first, k)
          PROVE  WritesBit(b, first, k)'
      <3>1. CASE m.scl = 0
        <4>1. ~(ip = 4 * k /\ m = High(BitsOf(b)[k])) /\ ~(m = High(BitsOf(b)[k]))
          BY <3>1 DEF High
        <4> QED
          BY <1>1, <1>2, <1>3, <2>2, <3>1, <4>1 DEF WritesBit
      <3>2. CASE m.scl # 0
        <4>1. ip = 4 * k /\ m = High(BitsOf(b)[k]) /\ device = Receiving(FirstBits(b, k - 1), first)
          BY <1>1, <2>2, <3>2 DEF WritesBit, Low
        <4>2. m.scl = 1 /\ m.sda = BitsOf(b)[k] /\ BitsOf(b)[k] \in {0, 1}
          BY <4>1, BitsAreBits DEF High
        <4>3. device' = AfterRise(device, BitsOf(b)[k])
          BY <1>1, <1>4, <4>2 DEF WritesByte
        <4>4. AfterRise(Receiving(FirstBits(b, k - 1), first), BitsOf(b)[k])
                  = Receiving(Append(FirstBits(b, k - 1), BitsOf(b)[k]), first)
          BY Samples
        <4>5. Append(FirstBits(b, k - 1), BitsOf(b)[k]) = FirstBits(b, k)
          BY FirstBitsStep
        <4>6. device' = Receiving(FirstBits(b, k), first)
          BY <4>1, <4>3, <4>4, <4>5
        <4> QED
          BY <1>1, <1>2, <1>3, <4>1, <4>6 DEF WritesBit
      <3> QED
        BY <3>1, <3>2
    <2> QED
      BY <1>1, <1>2, <1>4, <2>1, <2>2 DEF WriteInv, WritesByte
  <1>5. CASE TakesAnswer(b, first) /\ seen = Seen(before)
    <2>1. PICK a \in {0, 1} :
              /\ device = Answering(Append(FirstBits(b, 8), a), first) /\ s.sda = a
              /\ \/ ip = 34 /\ m.scl = 0 /\ bits = <<>>
                 \/ ip = 35 /\ m = Low(1) /\ bits = <<>>
                 \/ ip = 36 /\ m = Released /\ bits = <<>>
                 \/ ip = 37 /\ m = Released /\ s.scl = 1 /\ bits = <<>>
                 \/ ip = 38 /\ m = Released /\ s.scl = 1 /\ bits = <<a>>
      BY <1>5 DEF TakesAnswer
    <2>2. device' = device
      BY <1>1, <2>1, Samples
    <2>3. TakesAnswer(b, first)'
      BY <1>1, <1>2, <1>3, <2>1, <2>2 DEF TakesAnswer
    <2> QED
      BY <1>1, <1>2, <1>5, <2>3 DEF WriteInv
  <1>6. CASE ByteWritten(b, first, before)
    <2>1. m.scl = 0
      BY <1>6 DEF ByteWritten, Low
    <2>2. device' = device
      BY <1>1, <2>1
    <2>3. s # Released
      BY <1>1 DEF Released
    <2>4. ByteWritten(b, first, before)'
      BY <1>1, <1>2, <1>3, <1>6, <2>2, <2>3 DEF ByteWritten, AfterAnswer
    <2> QED
      BY <2>4, <1>2 DEF WriteInv
  <1>7. \/ WritesByte(b, first) /\ seen = Seen(before)
        \/ TakesAnswer(b, first) /\ seen = Seen(before)
        \/ ByteWritten(b, first, before)
    BY DEF WriteInv
  <1> QED
    BY <1>2, <1>4, <1>5, <1>6, <1>7

Bytes == Seq([value : 0..255, ack : BOOLEAN])

\* What a falling edge adds to the bytes of the call.
LEMMA SeenStep ==
    ASSUME NEW before \in Bytes, seen = Seen(before),
           NEW new, seen' = [seen EXCEPT !.bytes = @ \o new]
    PROVE  seen' = Seen(before \o new)
  <1>1. seen.bytes = before
    BY DEF Seen
  <1> QED
    BY <1>1 DEF Seen

LEMMA SeenNothing ==
    ASSUME NEW before \in Bytes, seen = Seen(before),
           NEW new, seen' = [seen EXCEPT !.bytes = @ \o new], new = <<>>
    PROVE  seen' = seen
  <1>1. before \o new = before
    BY DEF Bytes
  <1> QED
    BY <1>1, SeenStep

LEMMA SeenByte ==
    ASSUME NEW before \in Bytes, seen = Seen(before), NEW x,
           NEW new, seen' = [seen EXCEPT !.bytes = @ \o new], new = <<x>>
    PROVE  seen' = Seen(Append(before, x))
  <1>1. before \o new = Append(before, x)
    BY DEF Bytes
  <1> QED
    BY <1>1, SeenStep

\* The first bit of the byte it sends next.
LEMMA SendLevel ==
    ASSUME NEW rest \in Seq(0..255), rest # <<>>
    PROVE  /\ Send(rest) = Sending(BitsOf(Head(rest)), rest)
           /\ DataLevel(Send(rest)) = BitsOf(Head(rest))[1]
           /\ DataLevel(Send(rest)) \in {0, 1}
  <1>1. Head(rest) \in 0..255
    <2>1. Len(rest) \in Nat /\ Len(rest) # 0
      OBVIOUS
    <2>2. 1 \in 1..Len(rest)
      BY <2>1
    <2>3. rest[1] \in 0..255
      BY <2>2, ElementOfSeq
    <2> QED
      BY <2>3
  <1>2. BitsOf(Head(rest))[1] \in {0, 1}
    <2>1. BitsOf(Head(rest)) \in [1..8 -> {0, 1}]
      BY <1>1, BitsAreBits
    <2> QED
      BY <2>1
  <1>3. Send(rest) = Sending(BitsOf(Head(rest)), rest)
    BY DEF Send, Sending
  <1> QED
    BY <1>2, <1>3, DataLevels

\* The master's calls: a bit of the byte.
LEMMA BitIsWritten ==
    ASSUME m \in Lines, s \in Lines, NEW b \in 0..255, NEW first \in BOOLEAN,
           NEW before \in Bytes, seen = Seen(before), Code = WriteByte(b), Helper,
           bits = <<>>, s.sda = 1, NEW k \in 1..8, WritesBit(b, first, k)
    PROVE  WriteInv(b, first, before)' /\ m' \in Lines /\ s' \in Lines
  <1> DEFINE v == BitsOf(b)[k]
  <1>1. v \in {0, 1}
    BY BitsAreBits
  <1>2. ip' = ip + 1 /\ request' = request
    BY HelperStep
  <1>3. \A w, f : Receiving(w, f)' = Receiving(w, f) /\ Answering(w, f)' = Answering(w, f)
    BY <1>2 DEF Receiving, Answering
  <1>4. /\ Low(v) \in Lines /\ High(v) \in Lines /\ Low(v).scl = 0 /\ High(v).scl = 1
        /\ Low(v).sda = v /\ High(v).sda = v
    BY <1>1 DEF Low, High, Lines
  <1>5. ASSUME WritesBit(b, first, k)', bits' = bits, s' = s, seen' = seen
        PROVE  WriteInv(b, first, before)' /\ s' \in Lines
    BY <1>5 DEF WriteInv, WritesByte
  <1>6. CASE /\ ip = 4 * k - 2 /\ m.scl = 0
             /\ device = Receiving(FirstBits(b, k - 1), first)
    <2>1. Code[ip] = Level(v)
      <3>1. WriteByte(b)[4 * k - 2] = Level(v)
        BY WriteCode
      <3> QED
        BY <1>6, <3>1
    <2>2. bits' = bits /\ Edges([m EXCEPT !.sda = v], s)
      BY <1>1, <2>1, HelperStep DEF Level
    <2>3. [m EXCEPT !.sda = v] = Low(v)
      BY <1>6 DEF Low, Lines
    <2>4. m' = Low(v) /\ s' = s /\ device' = device /\ seen' = seen
      BY <1>4, <1>6, <2>2, <2>3, DataEdge
    <2>5. WritesBit(b, first, k)'
      BY <1>2, <1>3, <1>6, <2>4 DEF WritesBit
    <2> QED
      BY <1>4, <1>5, <2>2, <2>4, <2>5
  <1>7. CASE /\ ip = 4 * k - 1 /\ m = Low(v)
             /\ device = Receiving(FirstBits(b, k - 1), first)
    <2>1. Code[ip] = "scl1"
      BY <1>7, WriteCode
    <2>2. bits' = bits /\ Edges([m EXCEPT !.scl = 1], s)
      BY <2>1, HelperStep
    <2>3. [m EXCEPT !.scl = 1] = High(v)
      BY <1>7 DEF Low, High
    <2>4. /\ m' = High(v) /\ s' = s /\ seen' = seen
          /\ device' = IF s.scl = 1 THEN AfterRise(device, v) ELSE device
      BY <1>1, <1>4, <1>7, <2>2, <2>3, RisingEdge
    <2>5. AfterRise(device, v) = Receiving(FirstBits(b, k), first)
      <3>1. AfterRise(device, v) = Receiving(Append(FirstBits(b, k - 1), v), first)
        BY <1>7, Samples
      <3> QED
        BY <3>1, FirstBitsStep
    <2>6. WritesBit(b, first, k)'
      BY <1>2, <1>3, <1>7, <2>4, <2>5 DEF WritesBit
    <2> QED
      BY <1>4, <1>5, <2>2, <2>4, <2>6
  <1>8. CASE /\ ip = 4 * k /\ m = High(v)
             /\ device = Receiving(FirstBits(b, IF s.scl = 1 THEN k ELSE k - 1), first)
    <2>1. Code[ip] = "wait"
      BY <1>8, WriteCode
    <2>2. s.scl = 1 /\ UNCHANGED <<bits, m, s, device, seen>>
      BY <2>1, HelperStep
    <2>3. WritesBit(b, first, k)'
      BY <1>2, <1>3, <1>8, <2>2 DEF WritesBit
    <2> QED
      BY <1>5, <2>2, <2>3
  <1>9. CASE /\ ip = 4 * k + 1 /\ m = High(v) /\ s.scl = 1
             /\ device = Receiving(FirstBits(b, k), first)
    <2>1. Code[ip] = "scl0"
      <3>1. CASE k = 8
        <4>1. ip = 33
          BY <1>9, <3>1
        <4> QED
          BY <4>1, WriteCode
      <3>2. CASE k # 8
        <4>1. k + 1 \in 1..8 /\ ip = 4 * (k + 1) - 3
          BY <1>9, <3>2
        <4>2. WriteByte(b)[4 * (k + 1) - 3] = "scl0"
          BY <4>1, WriteCode
        <4> QED
          BY <4>1, <4>2
      <3> QED
        BY <3>1, <3>2
    <2>2. bits' = bits /\ Edges([m EXCEPT !.scl = 0], s)
      BY <2>1, HelperStep
    <2>3. PICK r \in AfterFall(device) : \E stretch \in {0, 1} :
              /\ device' = r.d /\ s' = [scl |-> stretch, sda |-> r.sda]
              /\ seen' = [seen EXCEPT !.bytes = @ \o r.new]
      BY <1>4, <1>9, <2>2, FallingEdge
    <2>4. m' \in Lines /\ m'.scl = 0
      <3>1. m' = [m EXCEPT !.scl = 0]
        BY <1>4, <1>9, <2>2, FallingEdge
      <3> QED
        BY <3>1 DEF Lines
    <2>5. CASE k = 8
      <3>1. Len(FirstBits(b, 8)) = 8
        BY DEF FirstBits
      <3>2. PICK a \in {0, 1} : r = [d |-> Answering(Append(FirstBits(b, 8), a), first),
                                     sda |-> a, new |-> <<>>]
        BY <1>9, <2>3, <2>5, <3>1, ByteIsAnswered
      <3>3. r.d = Answering(Append(FirstBits(b, 8), a), first) /\ r.sda = a /\ r.new = <<>>
        BY <3>2
      <3>4. seen' = seen
        BY <2>3, <3>3, SeenNothing
      <3>5. s' \in Lines /\ s'.sda = a
        BY <2>3, <3>3 DEF Lines
      <3>6. ip' = 34
        BY <1>2, <1>9, <2>5
      <3>7. device' = Answering(Append(FirstBits(b, 8), a), first)'
        BY <1>3, <2>3, <3>3
      <3>8. TakesAnswer(b, first)'
        BY <2>2, <2>4, <3>5, <3>6, <3>7 DEF TakesAnswer
      <3> QED
        BY <2>4, <3>4, <3>5, <3>8 DEF WriteInv
    <2>6. CASE k # 8
      <3>1. Len(FirstBits(b, k)) # 8 /\ k + 1 \in 1..8
        BY <2>6 DEF FirstBits
      <3>2. r = [d |-> Receiving(FirstBits(b, k), first), sda |-> 1, new |-> <<>>]
        BY <1>9, <2>3, <3>1, MoreToReceive
      <3>3. r.d = Receiving(FirstBits(b, k), first) /\ r.sda = 1 /\ r.new = <<>>
        BY <3>2
      <3>4. seen' = seen
        BY <2>3, <3>3, SeenNothing
      <3>5. s' \in Lines /\ s'.sda = 1
        BY <2>3, <3>3 DEF Lines
      <3>6. ip' = 4 * (k + 1) - 2 /\ (k + 1) - 1 = k
        BY <1>2, <1>9
      <3>7. device' = Receiving(FirstBits(b, (k + 1) - 1), first)'
        BY <1>3, <2>3, <3>3, <3>6
      <3>8. WritesBit(b, first, k + 1)'
        BY <2>4, <3>6, <3>7 DEF WritesBit
      <3> QED
        BY <2>2, <2>4, <3>1, <3>4, <3>5, <3>8 DEF WriteInv, WritesByte
    <2> QED
      BY <2>5, <2>6
  <1> QED
    BY <1>6, <1>7, <1>8, <1>9 DEF WritesBit

\* The answer.
LEMMA AnswerIsTaken ==
    ASSUME m \in Lines, s \in Lines, NEW b \in 0..255, NEW first \in BOOLEAN,
           NEW before \in Bytes, seen = Seen(before), Code = WriteByte(b), Helper,
           request.data \in Seq(0..255), first /\ b % 2 = 1 => request.data # <<>>,
           TakesAnswer(b, first)
    PROVE  WriteInv(b, first, before)' /\ m' \in Lines /\ s' \in Lines
  <1>1. ip' = ip + 1 /\ request' = request
    BY HelperStep
  <1>2. \A w, f : Receiving(w, f)' = Receiving(w, f) /\ Answering(w, f)' = Answering(w, f)
    BY <1>1 DEF Receiving, Answering
  <1>3. /\ Low(1) \in Lines /\ Released \in Lines /\ Low(1).scl = 0 /\ Released.scl = 1
        /\ Low(1).sda = 1 /\ Released.sda = 1 /\ [Low(1) EXCEPT !.scl = 1] = Released
        /\ [Released EXCEPT !.scl = 0] = Low(1)
    BY DEF Low, Released, Lines
  <1>4. PICK a \in {0, 1} :
            /\ device = Answering(Append(FirstBits(b, 8), a), first) /\ s.sda = a
            /\ \/ ip = 34 /\ m.scl = 0 /\ bits = <<>>
               \/ ip = 35 /\ m = Low(1) /\ bits = <<>>
               \/ ip = 36 /\ m = Released /\ bits = <<>>
               \/ ip = 37 /\ m = Released /\ s.scl = 1 /\ bits = <<>>
               \/ ip = 38 /\ m = Released /\ s.scl = 1 /\ bits = <<a>>
    BY DEF TakesAnswer
  <1>5. Code[34] = "sda1" /\ Code[35] = "scl1" /\ Code[36] = "wait" /\ Code[37] = "sample"
        /\ Code[38] = "scl0"
    BY WriteCode
  <1>6. ASSUME s' = s, seen' = seen, device' = device,
               \/ ip' = 34 /\ m'.scl = 0 /\ bits' = <<>>
               \/ ip' = 35 /\ m' = Low(1) /\ bits' = <<>>
               \/ ip' = 36 /\ m' = Released /\ bits' = <<>>
               \/ ip' = 37 /\ m' = Released /\ s'.scl = 1 /\ bits' = <<>>
               \/ ip' = 38 /\ m' = Released /\ s'.scl = 1 /\ bits' = <<a>>
        PROVE  WriteInv(b, first, before)' /\ s' \in Lines
    <2>1. device' = Answering(Append(FirstBits(b, 8), a), first)' /\ s'.sda = a
      BY <1>2, <1>4, <1>6
    <2>2. TakesAnswer(b, first)'
      BY <1>6, <2>1 DEF TakesAnswer
    <2> QED
      BY <1>6, <2>2 DEF WriteInv
  <1>7. CASE ip = 34 /\ m.scl = 0 /\ bits = <<>>
    <2>1. bits' = bits /\ Edges([m EXCEPT !.sda = 1], s)
      BY <1>5, <1>7, HelperStep
    <2>2. [m EXCEPT !.sda = 1] = Low(1)
      BY <1>7 DEF Low, Lines
    <2>3. m' = Low(1) /\ s' = s /\ device' = device /\ seen' = seen
      BY <1>3, <1>7, <2>1, <2>2, DataEdge
    <2> QED
      BY <1>1, <1>3, <1>6, <1>7, <2>1, <2>3
  <1>8. CASE ip = 35 /\ m = Low(1) /\ bits = <<>>
    <2>1. bits' = bits /\ Edges([m EXCEPT !.scl = 1], s)
      BY <1>5, <1>8, HelperStep
    <2>2. /\ m' = Released /\ s' = s /\ seen' = seen
          /\ device' = IF s.scl = 1 THEN AfterRise(device, s.sda) ELSE device
      BY <1>3, <1>8, <2>1, RisingEdge
    <2>3. AfterRise(device, s.sda) = device
      BY <1>4, Samples
    <2> QED
      BY <1>1, <1>3, <1>6, <1>8, <2>1, <2>2, <2>3
  <1>9. CASE ip = 36 /\ m = Released /\ bits = <<>>
    <2>1. s.scl = 1 /\ UNCHANGED <<bits, m, s, device, seen>>
      BY <1>5, <1>9, HelperStep
    <2> QED
      BY <1>1, <1>3, <1>6, <1>9, <2>1
  <1>10. CASE ip = 37 /\ m = Released /\ s.scl = 1 /\ bits = <<>>
    <2>1. bits' = Append(bits, s.sda) /\ UNCHANGED <<m, s, device, seen>>
      BY <1>3, <1>5, <1>10, HelperStep
    <2>2. bits' = <<a>>
      BY <1>4, <1>10, <2>1
    <2> QED
      BY <1>1, <1>3, <1>6, <1>10, <2>1, <2>2
  <1>11. CASE ip = 38 /\ m = Released /\ s.scl = 1 /\ bits = <<a>>
    <2>1. bits' = bits /\ Edges([m EXCEPT !.scl = 0], s)
      BY <1>5, <1>11, HelperStep
    <2>2. m' = Low(1) /\ \E r \in AfterFall(device) : \E stretch \in {0, 1} :
              /\ stretch = 0 => r.d.mode # "idle"
              /\ device' = r.d /\ s' = [scl |-> stretch, sda |-> r.sda]
              /\ seen' = [seen EXCEPT !.bytes = @ \o r.new]
      BY <1>3, <1>11, <2>1, FallingEdge
    <2>3. PICK r \in AfterFall(device), stretch \in {0, 1} :
              /\ stretch = 0 => r.d.mode # "idle"
              /\ device' = r.d /\ s' = [scl |-> stretch, sda |-> r.sda]
              /\ seen' = [seen EXCEPT !.bytes = @ \o r.new]
      BY <2>2
    <2>4. /\ r.new = <<Saw(b, a)>> /\ r.sda = DataLevel(r.d)
          /\ r.d = AfterAnswer(b, a, first)
      <3>1. r \in AfterFall(Answering(Append(FirstBits(b, 8), a), first))
        BY <1>4, <2>3
      <3> QED
        BY <3>1, AnswerIsGiven, ZenonT(40)
    <2>5. seen' = Seen(Append(before, Saw(b, a)))
      BY <2>3, <2>4, SeenByte
    <2>6. r.sda \in {0, 1}
      BY <2>4, DataLevels, SendLevel, ZenonT(40) DEF AfterAnswer
    <2>7. ASSUME a = 1
          PROVE  s' = Released
      <3>1. r.d = Idle /\ r.d.mode = "idle"
        BY <2>4, <2>7 DEF AfterAnswer, Idle, Device
      <3>2. stretch = 1 /\ r.sda = 1
        BY <2>3, <2>4, <3>1, DataLevels
      <3> QED
        BY <2>3, <3>2 DEF Released
    <2>8. Send(request.data)' = Send(request.data)
      BY <1>1
    <2>9. s'.sda = DataLevel(device)' /\ s' \in Lines
      BY <2>3, <2>4, <2>6 DEF Lines
    <2>10. ByteWritten(b, first, before)'
      <3>1. ip' = 39 /\ bits' = <<a>> /\ m' = Low(1)
        BY <1>1, <1>11, <2>1, <2>2
      <3>2. device' = AfterAnswer(b, a, first)'
        BY <1>2, <2>3, <2>4, <2>8 DEF AfterAnswer
      <3> QED
        BY <2>5, <2>7, <2>9, <3>1, <3>2 DEF ByteWritten
    <2> QED
      BY <1>3, <2>2, <2>9, <2>10 DEF WriteInv
  <1> QED
    BY <1>4, <1>7, <1>8, <1>9, <1>10, <1>11

LEMMA MasterInWrite ==
    ASSUME m \in Lines, s \in Lines, NEW b \in 0..255, NEW first \in BOOLEAN,
           NEW before \in Bytes, Code = WriteByte(b), Helper, ip # 39,
           request.data \in Seq(0..255), first /\ b % 2 = 1 => request.data # <<>>,
           WriteInv(b, first, before)
    PROVE  WriteInv(b, first, before)' /\ m' \in Lines /\ s' \in Lines
  <1>1. CASE WritesByte(b, first) /\ seen = Seen(before)
    <2>1. CASE ip = 1 /\ m.scl = 0 /\ device = Receiving(<<>>, first)
      <3>1. Code[ip] = "scl0" /\ ip' = 2 /\ request' = request
        <4>1. Code[1] = "scl0"
          BY WriteCode
        <4> QED
          BY <2>1, <4>1, HelperStep
      <3>2. bits' = bits /\ Edges([m EXCEPT !.scl = 0], s)
        BY <3>1, HelperStep
      <3>3. [m EXCEPT !.scl = 0] = m
        BY <2>1 DEF Lines
      <3>4. m' = m /\ s' = s /\ device' = device /\ seen' = seen
        BY <3>2, <3>3, DataEdge
      <3>5. FirstBits(b, 1 - 1) = <<>>
        BY DEF FirstBits
      <3>6. device' = Receiving(FirstBits(b, 1 - 1), first)'
        BY <2>1, <3>1, <3>4, <3>5 DEF Receiving
      <3>7. WritesBit(b, first, 1)'
        BY <2>1, <3>1, <3>4, <3>5, <3>6 DEF WritesBit
      <3>8. WritesByte(b, first)'
        BY <1>1, <3>2, <3>4, <3>7 DEF WritesByte
      <3> QED
        BY <1>1, <3>4, <3>8 DEF WriteInv
    <2>2. CASE \E k \in 1..8 : WritesBit(b, first, k)
      BY <1>1, <2>2, BitIsWritten DEF WritesByte
    <2> QED
      BY <1>1, <2>1, <2>2 DEF WritesByte
  <1>2. CASE TakesAnswer(b, first) /\ seen = Seen(before)
    BY <1>2, AnswerIsTaken
  <1>3. CASE ByteWritten(b, first, before)
    BY <1>3 DEF ByteWritten
  <1> QED
    BY <1>1, <1>2, <1>3 DEF WriteInv

\* The first bit after a byte it has sent.
LEMMA NextIsSent ==
    ASSUME NEW l \in {0, 1}, NEW rest \in Seq(0..255), rest # <<>>
    PROVE  DataLevel(AfterSent(l, rest)) \in {0, 1}
  <1>1. CASE l = 1
    BY <1>1, DataLevels DEF AfterSent
  <1>2. CASE l # 1
    <2> DEFINE next == IF Len(rest) = 1 THEN <<0>> ELSE Tail(rest)
    <2>1. next \in Seq(0..255) /\ next # <<>>
      <3>1. CASE Len(rest) = 1
        <4>1. <<0>> \in Seq(0..255) /\ <<0>> # <<>>
          OBVIOUS
        <4> QED
          BY <3>1, <4>1
      <3>2. CASE Len(rest) # 1
        <4>1. Tail(rest) \in Seq(0..255) /\ Len(Tail(rest)) = Len(rest) - 1
              /\ Len(rest) \in Nat \ {0} /\ Len(<<>>) = 0
          OBVIOUS
        <4>2. Len(Tail(rest)) # Len(<<>>)
          BY <3>2, <4>1
        <4>3. Tail(rest) # <<>>
          BY <4>2
        <4> QED
          BY <3>2, <4>1, <4>3
      <3> QED
        BY <3>1, <3>2
    <2> HIDE DEF next
    <2>2. DataLevel(Send(next)) \in {0, 1}
      BY <2>1, SendLevel
    <2> QED
      BY <1>2, <2>2 DEF AfterSent, next
  <1> QED
    BY <1>1, <1>2

-----------------------------------------------------------------------------
(* sensirion_i2c_gpio_read_byte.                                           *)

\* The bits of a byte from the k-th.
LastBits(b, k) == [n \in 1..(9 - k) |-> BitsOf(b)[n + k - 1]]

LEMMA LastBitsStep ==
    ASSUME NEW b \in 0..255
    PROVE  /\ LastBits(b, 1) = BitsOf(b) /\ Tail(LastBits(b, 8)) = <<>>
           /\ \A k \in 1..8 : LastBits(b, k)[1] = BitsOf(b)[k]
           /\ \A k \in 1..7 : Tail(LastBits(b, k)) = LastBits(b, k + 1)
                              /\ LastBits(b, k + 1) # <<>>
  <1>1. BitsOf(b) \in [1..8 -> {0, 1}]
    BY BitsAreBits
  <1>2. LastBits(b, 1) = BitsOf(b)
    BY <1>1 DEF LastBits
  <1>3. Tail(LastBits(b, 8)) = <<>>
    BY <1>1 DEF LastBits
  <1>4. \A k \in 1..8 : LastBits(b, k)[1] = BitsOf(b)[k]
    BY <1>1 DEF LastBits
  <1>5. ASSUME NEW k \in 1..7
        PROVE  Tail(LastBits(b, k)) = LastBits(b, k + 1) /\ LastBits(b, k + 1) # <<>>
    <2>1. Len(LastBits(b, k)) = 9 - k /\ Len(LastBits(b, k + 1)) = 8 - k
      BY DEF LastBits
    <2>2. Tail(LastBits(b, k)) = LastBits(b, k + 1)
      BY <1>1, <2>1, SMTT(40) DEF LastBits
    <2> QED
      BY <2>1, <2>2
  <1> QED
    BY <1>2, <1>3, <1>4, <1>5

\* Until the k-th bit of byte b, the first of rest, is through: the device
\* holds it for the master to sample.
ReadsBit(b, rest, k) ==
    /\ device = Sending(LastBits(b, k), rest) /\ s.sda = BitsOf(b)[k]
    /\ \/ k = 1 /\ ip = 1 /\ m = Low(1) /\ bits = <<>>
       \/ ip = 4 * k - 2 /\ m = Low(1) /\ bits = FirstBits(b, k - 1)
       \/ ip = 4 * k - 1 /\ m = Released /\ bits = FirstBits(b, k - 1)
       \/ ip = 4 * k /\ m = Released /\ s.scl = 1 /\ bits = FirstBits(b, k - 1)
       \/ ip = 4 * k + 1 /\ m = Released /\ s.scl = 1 /\ bits = FirstBits(b, k)

\* The master answers with level l, and the device reads it.
GivesAnswer(l, b, rest) ==
    /\ bits = BitsOf(b) /\ s.sda = 1
    /\ \/ ip = 34 /\ m = Low(1) /\ device = Waiting(<<>>, rest)
       \/ ip = 35 /\ m = Low(l) /\ device = Waiting(<<>>, rest)
       \/ ip = 36 /\ m = High(l) /\ device = Waiting(IF s.scl = 1 THEN <<l>> ELSE <<>>, rest)
       \/ ip = 37 /\ m = High(l) /\ s.scl = 1 /\ device = Waiting(<<l>>, rest)

\* The byte is complete: the device sends the next, or has let go of the lines.
ByteRead(l, b, rest, before) ==
    /\ \/ ip = 38 /\ m = Low(l)
       \/ ip = 39 /\ m = Low(1)
    /\ bits = BitsOf(b) /\ seen = Seen(Append(before, Saw(b, l)))
    /\ device = AfterSent(l, rest) /\ s.sda = DataLevel(device)
    /\ l = 1 => s = Released

ReadInv(l, b, rest, before) ==
    \/ seen = Seen(before) /\ \E k \in 1..8 : ReadsBit(b, rest, k)
    \/ seen = Seen(before) /\ GivesAnswer(l, b, rest)
    \/ ByteRead(l, b, rest, before)

\* The device lets go of the clock.
LEMMA StretchInRead ==
    ASSUME m \in Lines, s \in Lines, NEW l \in {0, 1}, NEW b \in 0..255, NEW rest, NEW before,
           ReadInv(l, b, rest, before), DeviceReleases
    PROVE  ReadInv(l, b, rest, before)' /\ s' \in Lines
  <1>1. /\ s.scl = 0 /\ s' = [s EXCEPT !.scl = 1] /\ m' = m /\ seen' = seen
        /\ ip' = ip /\ bits' = bits
        /\ device' = IF m.scl = 1 THEN AfterRise(device, IF m.sda = 1 THEN s.sda ELSE 0)
                     ELSE device
    BY StretchEnds DEF master
  <1>2. s'.scl = 1 /\ s'.sda = s.sda /\ s' \in Lines
    BY <1>1 DEF Lines
  <1>3. ASSUME seen = Seen(before), NEW k \in 1..8, ReadsBit(b, rest, k)
        PROVE  ReadInv(l, b, rest, before)'
    <2>1. device' = device
      BY <1>1, <1>3, Samples DEF ReadsBit
    <2>2. ReadsBit(b, rest, k)'
      BY <1>1, <1>2, <1>3, <2>1 DEF ReadsBit
    <2> QED
      BY <1>1, <1>3, <2>2 DEF ReadInv
  <1>4. CASE seen = Seen(before) /\ GivesAnswer(l, b, rest)
    <2>1. Low(1).scl = 0 /\ Low(l).scl = 0 /\ High(l).scl = 1 /\ High(l).sda = l
      BY DEF Low, High
    <2>2. \/ ip = 34 /\ m = Low(1) /\ device = Waiting(<<>>, rest)
          \/ ip = 35 /\ m = Low(l) /\ device = Waiting(<<>>, rest)
          \/ ip = 36 /\ m = High(l) /\ device = Waiting(<<>>, rest)
      BY <1>1, <1>4 DEF GivesAnswer
    <2>3. CASE ip = 36 /\ m = High(l) /\ device = Waiting(<<>>, rest)
      <3>1. device' = AfterRise(Waiting(<<>>, rest), l)
        BY <1>1, <1>4, <2>1, <2>3 DEF GivesAnswer
      <3>2. AfterRise(Waiting(<<>>, rest), l) = Waiting(Append(<<>>, l), rest)
        BY Samples
      <3>3. device' = Waiting(<<l>>, rest)
        BY <3>1, <3>2
      <3>4. GivesAnswer(l, b, rest)'
        BY <1>1, <1>2, <1>4, <2>3, <3>3 DEF GivesAnswer
      <3> QED
        BY <1>1, <1>2, <1>4, <3>4 DEF ReadInv
    <2>4. CASE ip # 36
      <3>1. device' = device
        BY <1>1, <2>1, <2>2, <2>4
      <3>2. GivesAnswer(l, b, rest)'
        BY <1>1, <1>2, <1>4, <2>2, <2>4, <3>1 DEF GivesAnswer
      <3> QED
        BY <1>1, <1>2, <1>4, <3>2 DEF ReadInv
    <2> QED
      BY <2>2, <2>3, <2>4
  <1>5. CASE ByteRead(l, b, rest, before)
    <2>1. m.scl = 0
      BY <1>5 DEF ByteRead, Low
    <2>2. device' = device
      BY <1>1, <2>1
    <2>3. s # Released
      BY <1>1 DEF Released
    <2>4. ByteRead(l, b, rest, before)'
      BY <1>1, <1>2, <1>5, <2>2, <2>3 DEF ByteRead
    <2> QED
      BY <1>2, <2>4 DEF ReadInv
  <1>6. \/ seen = Seen(before) /\ \E k \in 1..8 : ReadsBit(b, rest, k)
        \/ seen = Seen(before) /\ GivesAnswer(l, b, rest)
        \/ ByteRead(l, b, rest, before)
    BY DEF ReadInv
  <1> QED
    BY <1>2, <1>3, <1>4, <1>5, <1>6

\* The master's calls: a bit of the byte.
LEMMA BitIsRead ==
    ASSUME m \in Lines, s \in Lines, NEW l \in {0, 1}, NEW b \in 0..255, NEW rest,
           NEW before \in Bytes, seen = Seen(before), Code = ReadCalls(l), Helper,
           NEW k \in 1..8, ReadsBit(b, rest, k)
    PROVE  ReadInv(l, b, rest, before)' /\ m' \in Lines /\ s' \in Lines
  <1> DEFINE v == BitsOf(b)[k]
  <1>1. v \in {0, 1}
    BY BitsAreBits
  <1>2. ip' = ip + 1
    BY HelperStep
  <1>3. /\ Low(1) \in Lines /\ Released \in Lines /\ Low(1).scl = 0 /\ Released.scl = 1
        /\ Low(1).sda = 1 /\ Released.sda = 1 /\ [Low(1) EXCEPT !.scl = 1] = Released
        /\ [Released EXCEPT !.scl = 0] = Low(1) /\ [Low(1) EXCEPT !.sda = 1] = Low(1)
    BY DEF Low, Released, Lines
  <1>4. device = Sending(LastBits(b, k), rest) /\ s.sda = v
    BY DEF ReadsBit
  <1>5. ASSUME ReadsBit(b, rest, k)', s' = s, seen' = seen
        PROVE  ReadInv(l, b, rest, before)' /\ s' \in Lines
    BY <1>5 DEF ReadInv
  <1>6. CASE k = 1 /\ ip = 1 /\ m = Low(1) /\ bits = <<>>
    <2>1. Code[ip] = "sda1"
      BY <1>6, ReadCode
    <2>2. bits' = bits /\ Edges([m EXCEPT !.sda = 1], s)
      BY <2>1, HelperStep
    <2>3. m' = Low(1) /\ s' = s /\ device' = device /\ seen' = seen
      BY <1>3, <1>6, <2>2, DataEdge
    <2>4. ip' = 4 * k - 2 /\ FirstBits(b, k - 1) = <<>>
      BY <1>2, <1>6 DEF FirstBits
    <2>5. ReadsBit(b, rest, k)'
      BY <1>4, <1>6, <2>2, <2>3, <2>4 DEF ReadsBit
    <2> QED
      BY <1>3, <1>5, <2>3, <2>5
  <1>7. CASE ip = 4 * k - 2 /\ m = Low(1) /\ bits = FirstBits(b, k - 1)
    <2>1. Code[ip] = "scl1"
      BY <1>7, ReadCode
    <2>2. bits' = bits /\ Edges([m EXCEPT !.scl = 1], s)
      BY <2>1, HelperStep
    <2>3. /\ m' = Released /\ s' = s /\ seen' = seen
          /\ device' = IF s.scl = 1 THEN AfterRise(device, s.sda) ELSE device
      BY <1>3, <1>7, <2>2, RisingEdge
    <2>4. AfterRise(device, s.sda) = device
      BY <1>4, Samples
    <2>5. ip' = 4 * k - 1
      BY <1>2, <1>7
    <2>6. ReadsBit(b, rest, k)'
      BY <1>4, <1>7, <2>2, <2>3, <2>4, <2>5 DEF ReadsBit
    <2> QED
      BY <1>3, <1>5, <2>3, <2>6
  <1>8. CASE ip = 4 * k - 1 /\ m = Released /\ bits = FirstBits(b, k - 1)
    <2>1. Code[ip] = "wait"
      BY <1>8, ReadCode
    <2>2. s.scl = 1 /\ UNCHANGED <<bits, m, s, device, seen>>
      BY <2>1, HelperStep
    <2>3. ip' = 4 * k
      BY <1>2, <1>8
    <2>4. ReadsBit(b, rest, k)'
      BY <1>4, <1>8, <2>2, <2>3 DEF ReadsBit
    <2> QED
      BY <1>5, <2>2, <2>4
  <1>9. CASE ip = 4 * k /\ m = Released /\ s.scl = 1 /\ bits = FirstBits(b, k - 1)
    <2>1. Code[ip] = "sample"
      BY <1>9, ReadCode
    <2>2. bits' = Append(bits, v) /\ UNCHANGED <<m, s, device, seen>>
      BY <1>3, <1>4, <1>9, <2>1, HelperStep
    <2>3. bits' = FirstBits(b, k)
      BY <1>9, <2>2, FirstBitsStep
    <2>4. ip' = 4 * k + 1
      BY <1>2, <1>9
    <2>5. ReadsBit(b, rest, k)'
      BY <1>4, <1>9, <2>2, <2>3, <2>4 DEF ReadsBit
    <2> QED
      BY <1>5, <2>2, <2>5
  <1>10. CASE ip = 4 * k + 1 /\ m = Released /\ s.scl = 1 /\ bits = FirstBits(b, k)
    <2>1. Code[ip] = "scl0"
      BY <1>10, ReadCode
    <2>2. bits' = bits /\ Edges([m EXCEPT !.scl = 0], s)
      BY <2>1, HelperStep
    <2>3. m' = Low(1) /\ \E r \in AfterFall(device) : \E stretch \in {0, 1} :
              /\ device' = r.d /\ s' = [scl |-> stretch, sda |-> r.sda]
              /\ seen' = [seen EXCEPT !.bytes = @ \o r.new]
      BY <1>3, <1>10, <2>2, FallingEdge
    <2>4. PICK r \in AfterFall(device), stretch \in {0, 1} :
              /\ device' = r.d /\ s' = [scl |-> stretch, sda |-> r.sda]
              /\ seen' = [seen EXCEPT !.bytes = @ \o r.new]
      BY <2>3
    <2>5. r \in AfterFall(Sending(LastBits(b, k), rest))
      BY <1>4, <2>4
    <2>6. /\ r.new = <<>> /\ r.sda = DataLevel(r.d)
          /\ r.d = IF Tail(LastBits(b, k)) = <<>> THEN Waiting(<<>>, rest)
                   ELSE Sending(Tail(LastBits(b, k)), rest)
      BY <2>5, BitIsSent
    <2>7. seen' = seen
      BY <2>4, <2>6, SeenNothing
    <2>8. CASE k = 8
      <3>1. r.d = Waiting(<<>>, rest)
        BY <2>6, <2>8, LastBitsStep
      <3>2. r.sda = 1
        BY <2>6, <3>1, DataLevels
      <3>3. s'.sda = 1 /\ s' \in Lines
        BY <2>4, <3>2 DEF Lines
      <3>4. ip' = 34 /\ bits' = BitsOf(b)
        <4>1. FirstBits(b, 8) = BitsOf(b)
          BY FirstBitsStep
        <4> QED
          BY <1>2, <1>10, <2>2, <2>8, <4>1
      <3>5. GivesAnswer(l, b, rest)'
        BY <2>3, <2>4, <3>1, <3>3, <3>4 DEF GivesAnswer
      <3> QED
        BY <1>3, <2>3, <2>7, <3>3, <3>5 DEF ReadInv
    <2>9. CASE k # 8
      <3>1. k \in 1..7 /\ k + 1 \in 1..8
        BY <2>9
      <3>2. r.d = Sending(LastBits(b, k + 1), rest)
        BY <2>6, <3>1, LastBitsStep
      <3>3. LastBits(b, k + 1)[1] = BitsOf(b)[k + 1]
        BY <3>1, LastBitsStep
      <3>4. r.sda = BitsOf(b)[k + 1]
        BY <2>6, <3>2, <3>3, DataLevels
      <3>5. BitsOf(b)[k + 1] \in {0, 1}
        BY <3>1, BitsAreBits
      <3>6. s'.sda = BitsOf(b)[k + 1] /\ s' \in Lines
        BY <2>4, <3>4, <3>5 DEF Lines
      <3>7. ip' = 4 * (k + 1) - 2 /\ (k + 1) - 1 = k
        BY <1>2, <1>10
      <3>8. ReadsBit(b, rest, k + 1)'
        BY <1>10, <2>2, <2>3, <2>4, <3>2, <3>6, <3>7 DEF ReadsBit
      <3> QED
        BY <1>3, <2>3, <2>7, <3>1, <3>6, <3>8 DEF ReadInv
    <2> QED
      BY <2>8, <2>9
  <1> QED
    BY <1>6, <1>7, <1>8, <1>9, <1>10 DEF ReadsBit

\* The answer, and the release of SDA after it.
LEMMA AnswerIsRead ==
    ASSUME m \in Lines, s \in Lines, NEW l \in {0, 1}, NEW rest \in Seq(0..255), rest # <<>>,
           NEW before \in Bytes, NEW b, b = Head(rest),
           \/ seen = Seen(before) /\ GivesAnswer(l, b, rest)
           \/ ByteRead(l, b, rest, before) /\ ip = 38,
           Code = ReadCalls(l), Helper
    PROVE  ReadInv(l, b, rest, before)' /\ m' \in Lines /\ s' \in Lines
  <1>1. ip' = ip + 1
    BY HelperStep
  <1>2. /\ Low(1) \in Lines /\ Low(l) \in Lines /\ High(l) \in Lines
        /\ Low(1).scl = 0 /\ Low(l).scl = 0 /\ Low(l).sda = l
        /\ High(l).scl = 1 /\ High(l).sda = l
        /\ [Low(1) EXCEPT !.sda = 0] = Low(0) /\ [Low(1) EXCEPT !.sda = 1] = Low(1)
        /\ [Low(l) EXCEPT !.scl = 1] = High(l) /\ [High(l) EXCEPT !.scl = 0] = Low(l)
        /\ [Low(l) EXCEPT !.sda = 1] = Low(1)
    BY DEF Low, High, Lines
  <1>3. /\ Code[34] = Level(l) /\ Code[35] = "scl1" /\ Code[36] = "wait"
        /\ Code[37] = "scl0" /\ Code[38] = "sda1"
    BY ReadCode, ZenonT(40)
  <1>4. ASSUME GivesAnswer(l, b, rest)', s' = s, seen' = seen, seen = Seen(before)
        PROVE  ReadInv(l, b, rest, before)' /\ s' \in Lines
    BY <1>4 DEF ReadInv
  <1>5. CASE seen = Seen(before) /\ GivesAnswer(l, b, rest)
    <2>1. bits = BitsOf(b) /\ s.sda = 1
      BY <1>5 DEF GivesAnswer
    <2>2. CASE ip = 34 /\ m = Low(1) /\ device = Waiting(<<>>, rest)
      <3>1. bits' = bits /\ (l = 1 => Edges([m EXCEPT !.sda = 1], s))
            /\ (l = 0 => Edges([m EXCEPT !.sda = 0], s))
        BY <1>3, <2>2, HelperStep DEF Level
      <3>2. Edges(Low(l), s)
        BY <1>2, <2>2, <3>1
      <3>3. m' = Low(l) /\ s' = s /\ device' = device /\ seen' = seen
        BY <1>2, <2>2, <3>2, DataEdge
      <3>4. GivesAnswer(l, b, rest)'
        BY <1>1, <2>1, <2>2, <3>1, <3>3 DEF GivesAnswer
      <3> QED
        BY <1>2, <1>4, <1>5, <3>3, <3>4
    <2>3. CASE ip = 35 /\ m = Low(l) /\ device = Waiting(<<>>, rest)
      <3>1. bits' = bits /\ Edges([m EXCEPT !.scl = 1], s)
        BY <1>3, <2>3, HelperStep
      <3>2. /\ m' = High(l) /\ s' = s /\ seen' = seen
            /\ device' = IF s.scl = 1 THEN AfterRise(device, l) ELSE device
        BY <1>2, <2>1, <2>3, <3>1, RisingEdge
      <3>3. AfterRise(device, l) = Waiting(<<l>>, rest)
        <4>1. AfterRise(device, l) = Waiting(Append(<<>>, l), rest)
          BY <2>3, Samples
        <4> QED
          BY <4>1
      <3>4. GivesAnswer(l, b, rest)'
        BY <1>1, <2>1, <2>3, <3>1, <3>2, <3>3 DEF GivesAnswer
      <3> QED
        BY <1>2, <1>4, <1>5, <3>2, <3>4
    <2>4. CASE /\ ip = 36 /\ m = High(l)
               /\ device = Waiting(IF s.scl = 1 THEN <<l>> ELSE <<>>, rest)
      <3>1. s.scl = 1 /\ UNCHANGED <<bits, m, s, device, seen>>
        BY <1>3, <2>4, HelperStep
      <3>2. GivesAnswer(l, b, rest)'
        BY <1>1, <2>1, <2>4, <3>1 DEF GivesAnswer
      <3> QED
        BY <1>4, <1>5, <3>1, <3>2
    <2>5. CASE ip = 37 /\ m = High(l) /\ s.scl = 1 /\ device = Waiting(<<l>>, rest)
      <3>1. bits' = bits /\ Edges([m EXCEPT !.scl = 0], s)
        BY <1>3, <2>5, HelperStep
      <3>2. m' = Low(l) /\ \E r \in AfterFall(device) : \E stretch \in {0, 1} :
                /\ stretch = 0 => r.d.mode # "idle"
                /\ device' = r.d /\ s' = [scl |-> stretch, sda |-> r.sda]
                /\ seen' = [seen EXCEPT !.bytes = @ \o r.new]
        BY <1>2, <2>5, <3>1, FallingEdge
      <3>3. PICK r \in AfterFall(device), stretch \in {0, 1} :
                /\ stretch = 0 => r.d.mode # "idle"
                /\ device' = r.d /\ s' = [scl |-> stretch, sda |-> r.sda]
                /\ seen' = [seen EXCEPT !.bytes = @ \o r.new]
        BY <3>2
      <3>4. r \in AfterFall(Waiting(<<l>>, rest))
        BY <2>5, <3>3
      <3>5. r.new = <<Saw(b, l)>> /\ r.sda = DataLevel(r.d) /\ r.d = AfterSent(l, rest)
        BY <3>4, SentByteIsAnswered
      <3>6. seen' = Seen(Append(before, Saw(b, l)))
        BY <1>5, <3>3, <3>5, SeenByte
      <3>7. r.sda \in {0, 1}
        BY <3>5, NextIsSent
      <3>8. ASSUME l = 1
            PROVE  s' = Released
        <4>1. r.d = Idle /\ r.d.mode = "idle"
          BY <3>5, <3>8 DEF AfterSent, Idle, Device
        <4>2. stretch = 1 /\ r.sda = 1
          BY <3>3, <3>5, <4>1, DataLevels
        <4> QED
          BY <3>3, <4>2 DEF Released
      <3>9. s'.sda = DataLevel(device)' /\ s' \in Lines
        BY <3>3, <3>5, <3>7 DEF Lines
      <3>10. ByteRead(l, b, rest, before)'
        <4>1. ip' = 38 /\ bits' = BitsOf(b) /\ device' = AfterSent(l, rest)
          BY <1>1, <2>1, <2>5, <3>1, <3>3, <3>5
        <4> QED
          BY <3>2, <3>6, <3>8, <3>9, <4>1 DEF ByteRead
      <3> QED
        BY <1>2, <3>2, <3>9, <3>10 DEF ReadInv
    <2> QED
      BY <1>5, <2>2, <2>3, <2>4, <2>5 DEF GivesAnswer
  <1>6. CASE ByteRead(l, b, rest, before) /\ ip = 38
    <2>1. m = Low(l)
      BY <1>6 DEF ByteRead
    <2>2. bits' = bits /\ Edges([m EXCEPT !.sda = 1], s)
      BY <1>3, <1>6, HelperStep
    <2>3. m' = Low(1) /\ s' = s /\ device' = device /\ seen' = seen
      BY <1>2, <2>1, <2>2, DataEdge
    <2>4. ByteRead(l, b, rest, before)'
      BY <1>1, <1>6, <2>2, <2>3 DEF ByteRead
    <2> QED
      BY <1>2, <2>3, <2>4 DEF ReadInv
  <1> QED
    BY <1>5, <1>6

LEMMA MasterInRead ==
    ASSUME m \in Lines, s \in Lines, NEW l \in {0, 1}, NEW rest \in Seq(0..255), rest # <<>>,
           NEW before \in Bytes, NEW b \in 0..255, b = Head(rest), ip # 39,
           Code = ReadCalls(l), Helper, ReadInv(l, b, rest, before)
    PROVE  ReadInv(l, b, rest, before)' /\ m' \in Lines /\ s' \in Lines
  <1>1. ASSUME seen = Seen(before), NEW k \in 1..8, ReadsBit(b, rest, k)
        PROVE  ReadInv(l, b, rest, before)' /\ m' \in Lines /\ s' \in Lines
    BY <1>1, BitIsRead
  <1>2. CASE ~\E k \in 1..8 : seen = Seen(before) /\ ReadsBit(b, rest, k)
    <2>1. \/ seen = Seen(before) /\ GivesAnswer(l, b, rest)
          \/ ByteRead(l, b, rest, before) /\ ip = 38
      BY <1>2 DEF ReadInv, ByteRead
    <2> QED
      BY <2>1, AnswerIsRead
  <1> QED
    BY <1>1, <1>2

-----------------------------------------------------------------------------
(* The master on its own, even after a stretch that it did not wait for.   *)

Phases == {"idle", "start", "address", "data", "stop", "stop2"}

\* It has let go of both lines before it returns, in stop and when start fails.
MasterInv ==
    /\ request \in Requests /\ phase \in Phases /\ ip \in Nat \ {0} /\ m \in Lines
    /\ phase = "idle" => m = Released
    /\ phase = "start" => /\ ip <= 3 => m = Released
                          /\ ip <= 4 => ret = NO_ERROR
                          /\ ret # NO_ERROR => m = Released
    /\ phase \in {"stop", "stop2"} => /\ ip = 3 => m.scl = 1
                                      /\ ip > 3 => m = Released

\* The calls of each helper.
LEMMA Codes ==
    /\ phase = "start" => Code = Start
    /\ phase = "address" => Code = WriteByte(AddressByte)
    /\ phase = "data" /\ request.read => Code = ReadByte(SendAck)
    /\ phase = "data" /\ ~request.read => Code = WriteByte(request.data[i + 1])
    /\ phase \in {"stop", "stop2"} => Code = Stop
  BY DEF Code

LEMMA CodeLength ==
    ASSUME MasterInv, phase # "idle"
    PROVE  Len(Code) \in {3, 4, 38}
  <1>2. Len(ReadByte(SendAck)) = 38
    BY DEF ReadByte, Rounds
  <1>3. \A b : Len(WriteByte(b)) = 38
    BY WriteCode
  <1> QED
    BY <1>2, <1>3, Codes, StartCode, StopCode DEF MasterInv, Phases

LEMMA MasterInit ==
    ASSUME Init
    PROVE  MasterInv
  BY DEF Init, MasterInv, Phases, Released, Lines

LEMMA MasterDrives ==
    ASSUME MasterInv, Drive
    PROVE  MasterInv'
  <1>1. /\ ip' = ip + 1 /\ UNCHANGED <<request, phase, ret>>
        /\ phase # "idle" /\ ip <= Len(Code)
        /\ Code[ip] \in {"scl0", "scl1", "sda0", "sda1"}
    BY DriveEdges DEF Running, Step
  <1>2. /\ Code[ip] = "scl0" => m' = [m EXCEPT !.scl = 0]
        /\ Code[ip] = "scl1" => m' = [m EXCEPT !.scl = 1]
        /\ Code[ip] = "sda0" => m' = [m EXCEPT !.sda = 0]
        /\ Code[ip] = "sda1" => m' = [m EXCEPT !.sda = 1]
    BY DriveEdges DEF Edges
  <1>3. m \in Lines /\ ip \in Nat \ {0} /\ request \in Requests /\ phase \in Phases
    BY DEF MasterInv
  <1>4. m' \in Lines
    BY <1>1, <1>2, <1>3 DEF Lines
  <1>5. CASE phase = "start"
    <2>1. ip \in 1..4 /\ Code = Start
      <3>1. Code = Start
        BY <1>5, Codes
      <3> QED
        BY <1>1, <1>3, <3>1, StartCode
    <2>2. ret = NO_ERROR /\ (ip <= 3 => m = Released)
      BY <1>5, <2>1 DEF MasterInv
    <2>3. ip # 2
      BY <1>1, <2>1, StartCode
    <2>4. ip = 1 => m' = Released
      BY <1>2, <2>1, <2>2, StartCode DEF Released
    <2>5. ip' <= 3 => m' = Released
      BY <1>1, <2>1, <2>3, <2>4
    <2> QED
      BY <1>1, <1>3, <1>4, <1>5, <2>2, <2>5 DEF MasterInv
  <1>6. CASE phase \in {"stop", "stop2"}
    <2>1. ip \in 1..3 /\ Code = Stop
      <3>1. Code = Stop
        BY <1>6, Codes
      <3> QED
        BY <1>1, <1>3, <3>1, StopCode
    <2>2. ip = 2 => m'.scl = 1
      BY <1>2, <1>3, <2>1, StopCode DEF Lines
    <2>3. ip = 3 => m' = Released
      <3>1. ip = 3 => m.scl = 1 /\ m' = [m EXCEPT !.sda = 1]
        BY <1>2, <1>6, <2>1, StopCode DEF MasterInv
      <3> QED
        BY <1>3, <3>1 DEF Lines, Released
    <2> QED
      BY <1>1, <1>3, <1>4, <1>6, <2>1, <2>2, <2>3 DEF MasterInv
  <1> QED
    BY <1>1, <1>3, <1>4, <1>5, <1>6 DEF MasterInv

LEMMA MasterWaits ==
    ASSUME MasterInv, Sample \/ WaitHigh \/ WaitLow
    PROVE  MasterInv'
  <1>1. /\ Running /\ Code[ip] \in {"sample", "wait"} /\ UNCHANGED <<request, phase, m>>
        /\ \/ ip' = ip + 1 /\ ret' = ret
           \/ ip' = ip /\ ret' = ret
           \/ ip' = Len(Code) + 1 /\ Code[ip] = "wait" /\ ret' = I2C_BUS_ERROR
    BY DEF Sample, WaitHigh, WaitLow, Step
  <1>2. ip \in Nat \ {0} /\ ip <= Len(Code) /\ phase # "idle"
    BY <1>1 DEF MasterInv, Running
  <1>3. CASE phase = "start"
    <2>1. ip = 2 /\ Len(Code) = 4
      <3>1. ip \in 1..4 /\ Code = Start
        <4>1. Code = Start
          BY <1>3, Codes
        <4> QED
          BY <1>2, <4>1, StartCode
      <3> QED
        BY <1>1, <3>1, StartCode
    <2>2. m = Released /\ ret = NO_ERROR
      BY <1>3, <2>1 DEF MasterInv
    <2> QED
      BY <1>1, <1>3, <2>1, <2>2 DEF MasterInv
  <1>4. phase \notin {"stop", "stop2"}
    <2>1. SUFFICES ASSUME phase \in {"stop", "stop2"}
                   PROVE  FALSE
      OBVIOUS
    <2>2. ip \in 1..3 /\ Code = Stop
      <3>1. Code = Stop
        BY <2>1, Codes
      <3> QED
        BY <1>2, <3>1, StopCode
    <2> QED
      BY <1>1, <2>2, StopCode
  <1>5. Len(Code) \in Nat \/ ip' # Len(Code) + 1
    BY <1>2, CodeLength
  <1> QED
    BY <1>1, <1>2, <1>3, <1>4, <1>5 DEF MasterInv

LEMMA MasterStep ==
    ASSUME MasterInv, [Next]_vars
    PROVE  MasterInv'
  <1>1. CASE UNCHANGED vars
    BY <1>1 DEF MasterInv, vars
  <1>2. CASE Call
    BY <1>2 DEF Call, MasterInv, Phases, NO_ERROR
  <1>3. CASE Drive
    BY <1>3, MasterDrives
  <1>4. CASE Sample \/ WaitHigh \/ WaitLow
    BY <1>4, MasterWaits
  <1>5. CASE StartReturns
    <2>1. ret # NO_ERROR => m = Released
      BY <1>5 DEF StartReturns, Finished, MasterInv
    <2> QED
      BY <1>5, <2>1 DEF StartReturns, Finished, GoTo, MasterInv, Phases
  <1>6. CASE AddressReturns
    BY <1>6 DEF AddressReturns, GoTo, MasterInv, Phases
  <1>7. CASE WriteReturns
    BY <1>7 DEF WriteReturns, GoTo, MasterInv, Phases
  <1>8. CASE ReadReturns
    BY <1>8 DEF ReadReturns, GoTo, MasterInv, Phases
  <1>9. CASE StopReturns
    <2>1. phase \in {"stop", "stop2"} /\ ip > 3
      BY <1>9, Codes, StopCode DEF StopReturns, Finished
    <2>2. m = Released
      BY <2>1 DEF MasterInv
    <2> QED
      BY <1>9, <2>2 DEF StopReturns, GoTo, MasterInv, Phases
  <1>10. CASE DeviceReleases
    BY <1>10 DEF DeviceReleases, Edges, master, MasterInv
  <1> QED
    BY <1>1, <1>2, <1>3, <1>4, <1>5, <1>6, <1>7, <1>8, <1>9, <1>10 DEF Next, Master

\* The master keeps no line low between calls, not even after a timeout.
THEOREM MasterLetsGo == Spec => []MasterReleases
  <1>1. Init => MasterInv
    BY MasterInit
  <1>2. MasterInv /\ [Next]_vars => MasterInv'
    BY MasterStep
  <1>3. MasterInv => MasterReleases
    BY DEF MasterInv, MasterReleases
  <1> QED
    BY <1>1, <1>2, <1>3, PTL DEF Spec

-----------------------------------------------------------------------------
(* Master and device together, as long as no stretch was too long.         *)

Size == Len(request.data)

\* The n-th byte of the call, and whether it is the one the master refuses.
Nth(n) == IF n = 1 THEN AddressByte ELSE request.data[n - 1]
Refused(n) == request.read /\ n > 1 /\ n = Size + 1

\* The bus after n bytes that went through, and after one that did not.
Passed(n) == [k \in 1..n |-> [value |-> Nth(k), ack |-> ~Refused(k)]]
Failed(n) == Append(Passed(n - 1), Saw(Nth(n), 1))

\* What the device has still to send, and the master's answer.
Rest == [k \in 1..(Size - i) |-> request.data[k + i]]
AckLevel == IF SendAck THEN 0 ELSE 1

Closed(bytes) == [open |-> FALSE, bytes |-> bytes]

AtRest == m = Released /\ s = Released /\ seen = Closed(seen.bytes)

Starting ==
    /\ i = 0 /\ buffer = <<>> /\ seen.bytes = <<>>
    /\ \/ ip \in 1..3 /\ AtRest
       \/ /\ ip = 4 /\ m = High(0) /\ s = Released
          /\ seen = Seen(<<>>) /\ device = Receiving(<<>>, TRUE)
       \/ /\ ip = 5 /\ m = Low(0) /\ s.sda = 1
          /\ seen = Seen(<<>>) /\ device = Receiving(<<>>, TRUE)

Addressing == i = 0 /\ buffer = <<>> /\ WriteInv(AddressByte, TRUE, <<>>)

Writing == i \in 0..(Size - 1) /\ WriteInv(request.data[i + 1], FALSE, Passed(i + 1))

Reading ==
    /\ i \in 0..(Size - 1) /\ buffer = [k \in 1..i |-> request.data[k]]
    /\ ReadInv(AckLevel, request.data[i + 1], Rest, Passed(i + 1))

\* All bytes went through, or the device has refused one.
Ended ==
    \/ /\ ret = NO_ERROR /\ seen.bytes = Passed(Size + 1)
       /\ request.read => buffer = request.data
    \/ /\ ret = NACKED
       /\ \E n \in 1..(Size + 1) : seen.bytes = Failed(n) /\ ~Refused(n)

DataRefused == ret = NACKED /\ ~request.read /\ Len(seen.bytes) > 1

\* The second STOP after a refused byte finds the bus free.
Stopping ==
    /\ Ended /\ (phase = "stop2" => DataRefused)
    /\ \/ ip = 1 /\ m.scl = 0 /\ s.sda = 1 /\ seen = Seen(seen.bytes)
       \/ ip = 1 /\ phase = "stop" /\ AtRest /\ DataRefused
       \/ ip = 2 /\ m.sda = 0 /\ s.sda = 1 /\ seen = Seen(seen.bytes)
       \/ ip = 3 /\ m = High(0) /\ s.sda = 1 /\ seen = Seen(seen.bytes)
       \/ ip = 4 /\ AtRest

Sync ==
    /\ s \in Lines
    /\ phase = "idle" => AtRest /\ ret \in {NO_ERROR, NACKED}
    /\ phase \in {"start", "address", "data"} => ret = NO_ERROR
    /\ phase = "start" => Starting
    /\ phase = "address" => Addressing
    /\ phase = "data" /\ ~request.read => Writing
    /\ phase = "data" /\ request.read => Reading
    /\ phase \in {"stop", "stop2"} => Stopping

SyncInv == MasterInv /\ late \in BOOLEAN /\ (~late => Sync)

LEMMA RequestFacts ==
    ASSUME MasterInv
    PROVE  /\ request.read \in BOOLEAN /\ request.addr \in 0..127
           /\ request.data \in Seq(0..255) /\ Size \in Nat
           /\ request.read => request.data # <<>> /\ Size > 0
           /\ (request.data = <<>>) <=> (Size = 0)
           /\ \A n \in 1..Size : request.data[n] \in 0..255
           /\ AddressByte \in 0..255 /\ (AddressByte % 2 = 1 <=> request.read)
           /\ \A n \in 1..(Size + 1) : Nth(n) \in 0..255
  <1>1. /\ request.read \in BOOLEAN /\ request.addr \in 0..127
        /\ request.data \in Seq(0..255) /\ (request.read => request.data # <<>>)
    BY BusAssumption DEF MasterInv
  <1>2. Size \in Nat /\ ((request.data = <<>>) <=> (Size = 0))
    BY <1>1, EmptySeq DEF Size
  <1>3. \A n \in 1..Size : request.data[n] \in 0..255
    BY <1>1, ElementOfSeq DEF Size
  <1>4. AddressByte \in 0..255 /\ (AddressByte % 2 = 1 <=> request.read)
    <2>1. \A x \in 0..127 : /\ x * 2 + 1 \in 0..255 /\ (x * 2 + 1) % 2 = 1
                            /\ x * 2 + 0 \in 0..255 /\ (x * 2 + 0) % 2 # 1
      OBVIOUS
    <2>2. CASE request.read
      <3>1. AddressByte = request.addr * 2 + 1
        BY <2>2 DEF AddressByte
      <3> QED
        BY <1>1, <2>1, <2>2, <3>1
    <2>3. CASE ~request.read
      <3>1. AddressByte = request.addr * 2 + 0
        BY <2>3 DEF AddressByte
      <3> QED
        BY <1>1, <2>1, <2>3, <3>1
    <2> QED
      BY <2>2, <2>3
  <1>5. ASSUME NEW n \in 1..(Size + 1)
        PROVE  Nth(n) \in 0..255
    <2>1. CASE n = 1
      BY <1>4, <2>1 DEF Nth
    <2>2. CASE n # 1
      <3>1. n - 1 \in 1..Size
        BY <1>2, <2>2
      <3> QED
        BY <1>3, <2>2, <3>1 DEF Nth
    <2> QED
      BY <2>1, <2>2
  <1> QED
    BY <1>1, <1>2, <1>3, <1>4, <1>5

LEMMA PassedIsBytes ==
    ASSUME MasterInv, NEW n \in 0..(Size + 1)
    PROVE  Passed(n) \in Bytes /\ Len(Passed(n)) = n
  <1>1. Size \in Nat /\ \A k \in 1..(Size + 1) : Nth(k) \in 0..255
    BY RequestFacts
  <1>2. \A k \in 1..n : [value |-> Nth(k), ack |-> ~Refused(k)] \in [value : 0..255, ack : BOOLEAN]
    BY <1>1
  <1>3. n \in Nat
    BY <1>1
  <1> QED
    BY <1>2, <1>3 DEF Passed, Bytes

LEMMA PassesOneMore ==
    ASSUME MasterInv, NEW n \in 0..Size, NEW l, (l = 0) <=> ~Refused(n + 1)
    PROVE  Append(Passed(n), Saw(Nth(n + 1), l)) = Passed(n + 1)
  <1>1. Size \in Nat /\ Len(Passed(n)) = n
    BY RequestFacts, PassedIsBytes
  <1>2. Saw(Nth(n + 1), l) = [value |-> Nth(n + 1), ack |-> ~Refused(n + 1)]
    BY DEF Saw
  <1> DEFINE x(k) == [value |-> Nth(k), ack |-> ~Refused(k)]
  <1>3. /\ Passed(n) = [k \in 1..n |-> x(k)] /\ Passed(n + 1) = [k \in 1..(n + 1) |-> x(k)]
        /\ Saw(Nth(n + 1), l) = x(n + 1)
    BY <1>2 DEF Passed
  <1> HIDE DEF x
  <1>4. Append([k \in 1..n |-> x(k)], x(n + 1)) = [k \in 1..(n + 1) |-> x(k)]
    BY <1>1
  <1> QED
    BY <1>3, <1>4

LEMMA RestFacts ==
    ASSUME MasterInv, i \in 0..(Size - 1)
    PROVE  /\ Rest \in Seq(0..255) /\ Rest # <<>> /\ Len(Rest) = Size - i
           /\ Head(Rest) = request.data[i + 1] /\ request.data[i + 1] \in 0..255
           /\ request.data[i + 1] = Nth(i + 2)
           /\ AckLevel \in {0, 1} /\ (AckLevel = 1 <=> i = Size - 1)
  <1>1. Size \in Nat /\ \A n \in 1..Size : request.data[n] \in 0..255
    BY RequestFacts
  <1>2. \A k \in 1..(Size - i) : k + i \in 1..Size
    BY <1>1
  <1>3. Rest \in Seq(0..255) /\ Len(Rest) = Size - i
    BY <1>1, <1>2 DEF Rest
  <1>4. Rest # <<>> /\ Head(Rest) = Rest[1] /\ Rest[1] = request.data[i + 1]
        /\ request.data[i + 1] \in 0..255
    <2>1. 1 \in 1..(Size - i) /\ 1 + i = i + 1 /\ i + 1 \in 1..Size
      BY <1>1
    <2>2. Rest[1] = request.data[1 + i]
      BY <2>1 DEF Rest
    <2>3. Len(Rest) # 0
      BY <1>1, <1>3
    <2>4. Rest # <<>> /\ Head(Rest) = Rest[1]
      BY <1>3, <2>3
    <2> QED
      BY <1>1, <2>1, <2>2, <2>4
  <1>5. request.data[i + 1] = Nth(i + 2)
    BY DEF Nth
  <1>6. AckLevel \in {0, 1} /\ (AckLevel = 1 <=> i = Size - 1)
    BY <1>1 DEF AckLevel, SendAck, Size
  <1> QED
    BY <1>1, <1>3, <1>4, <1>5, <1>6

LEMMA CallKept ==
    ASSUME request' = request
    PROVE  /\ Size' = Size /\ AddressByte' = AddressByte
           /\ \A n : Nth(n)' = Nth(n) /\ Refused(n)' = Refused(n)
                     /\ Passed(n)' = Passed(n) /\ Failed(n)' = Failed(n)
           /\ i' = i => Rest' = Rest /\ AckLevel' = AckLevel
  BY DEF Size, AddressByte, Nth, Refused, Passed, Failed, Rest, AckLevel, SendAck

LEMMA ReadIsCalls ==
    ReadByte(SendAck) = ReadCalls(AckLevel)
  <1>1. CASE SendAck
    BY <1>1 DEF ReadByte, ReadCalls, AckLevel
  <1>2. CASE ~SendAck
    BY <1>2 DEF ReadByte, ReadCalls, AckLevel
  <1> QED
    BY <1>1, <1>2

\* Polls, and returns from nothing, change nothing.
LEMMA SyncKept ==
    ASSUME UNCHANGED <<request, phase, ip, i, bits, buffer, ret, m, s, device, seen>>, Sync
    PROVE  Sync'
  <1>1. /\ Size' = Size /\ AddressByte' = AddressByte /\ Rest' = Rest /\ AckLevel' = AckLevel
        /\ \A n : Nth(n)' = Nth(n) /\ Refused(n)' = Refused(n)
                  /\ Passed(n)' = Passed(n) /\ Failed(n)' = Failed(n)
    BY CallKept
  <1>2. \A w, f : Receiving(w, f)' = Receiving(w, f) /\ Answering(w, f)' = Answering(w, f)
    BY DEF Receiving, Answering
  <1>3. \A b, f, before : WriteInv(b, f, before)' = WriteInv(b, f, before)
    BY DEF WriteInv, WritesByte, WritesBit, TakesAnswer, ByteWritten, AfterAnswer,
           Receiving, Answering
  <1>4. \A l, b, rest, before : ReadInv(l, b, rest, before)' = ReadInv(l, b, rest, before)
    BY DEF ReadInv, ReadsBit, GivesAnswer, ByteRead
  <1>5. AtRest' = AtRest
    BY DEF AtRest
  <1>6. Starting => Starting'
    BY <1>2, <1>5 DEF Starting
  <1>7. Addressing => Addressing'
    BY <1>1, <1>3 DEF Addressing
  <1>8. Writing => Writing'
    BY <1>1, <1>3 DEF Writing
  <1>9. Reading => Reading'
    BY <1>1, <1>4 DEF Reading
  <1>10. Ended => Ended'
    BY <1>1 DEF Ended
  <1>11. Stopping => Stopping'
    BY <1>5, <1>10 DEF Stopping, DataRefused
  <1> QED
    BY <1>5, <1>6, <1>7, <1>8, <1>9, <1>11 DEF Sync

LEMMA DeviceKeepsSync ==
    ASSUME MasterInv, Sync, DeviceReleases
    PROVE  Sync' /\ seen' = seen
  <1>1. m \in Lines /\ s \in Lines
    BY DEF MasterInv, Sync
  <1>2. /\ s.scl = 0 /\ s' = [s EXCEPT !.scl = 1]
        /\ UNCHANGED <<request, phase, ip, polls, i, bits, buffer, ret, m, seen, late>>
        /\ m.scl = 0 => device' = device
    BY <1>1, StretchEnds DEF master
  <1>3. s' \in Lines /\ s'.sda = s.sda /\ s # Released
    BY <1>1, <1>2 DEF Lines, Released
  <1>4. ~AtRest /\ phase # "idle"
    BY <1>3 DEF AtRest, Sync
  <1>5. /\ Size' = Size /\ AddressByte' = AddressByte /\ Rest' = Rest /\ AckLevel' = AckLevel
        /\ \A n : Nth(n)' = Nth(n) /\ Refused(n)' = Refused(n)
                  /\ Passed(n)' = Passed(n) /\ Failed(n)' = Failed(n)
    BY <1>2, CallKept
  <1>6. ASSUME Starting
        PROVE  Starting'
    <2>1. ip = 5 /\ m = Low(0) /\ s.sda = 1 /\ seen = Seen(<<>>) /\ device = Receiving(<<>>, TRUE)
      BY <1>3, <1>4, <1>6 DEF Starting
    <2>2. device' = device
      BY <1>2, <2>1 DEF Low
    <2>3. device' = Receiving(<<>>, TRUE)'
      BY <1>2, <2>1, <2>2 DEF Receiving
    <2> QED
      BY <1>2, <1>3, <1>6, <2>1, <2>3 DEF Starting
  <1>7. ASSUME Addressing
        PROVE  Addressing'
    <2>1. PICK b \in 0..255 : b = AddressByte
      BY RequestFacts
    <2>2. WriteInv(b, TRUE, <<>>)'
      BY <1>1, <1>7, <2>1, StretchInWrite DEF Addressing
    <2> QED
      BY <1>2, <1>5, <1>7, <2>1, <2>2 DEF Addressing
  <1>8. ASSUME Writing
        PROVE  Writing'
    <2>1. PICK b \in 0..255 : b = request.data[i + 1]
      BY <1>8, RestFacts DEF Writing
    <2>2. PICK before : before = Passed(i + 1)
      OBVIOUS
    <2>3. WriteInv(b, FALSE, before)'
      BY <1>1, <1>8, <2>1, <2>2, StretchInWrite DEF Writing
    <2> QED
      BY <1>2, <1>5, <1>8, <2>1, <2>2, <2>3 DEF Writing
  <1>9. ASSUME Reading
        PROVE  Reading'
    <2>1. PICK b \in 0..255 : b = request.data[i + 1]
      BY <1>9, RestFacts DEF Reading
    <2>2. PICK before, rest : before = Passed(i + 1) /\ rest = Rest
      OBVIOUS
    <2>3. PICK l \in {0, 1} : l = AckLevel
      BY <1>9, RestFacts DEF Reading
    <2>4. ReadInv(l, b, rest, before)'
      BY <1>1, <1>9, <2>1, <2>2, <2>3, StretchInRead DEF Reading
    <2> QED
      BY <1>2, <1>5, <1>9, <2>1, <2>2, <2>3, <2>4 DEF Reading
  <1>10. ASSUME Stopping
         PROVE  Stopping'
    <2>1. Ended'
      BY <1>2, <1>5, <1>10 DEF Stopping, Ended
    <2> QED
      BY <1>2, <1>3, <1>4, <1>10, <2>1 DEF Stopping, DataRefused
  <1> QED
    BY <1>2, <1>3, <1>4, <1>6, <1>7, <1>8, <1>9, <1>10 DEF Sync

LEMMA StartSync ==
    ASSUME MasterInv, Sync, phase = "start", Helper, ip <= Len(Code)
    PROVE  /\ Starting' /\ s' \in Lines
           /\ \/ seen' = seen
              \/ seen = Closed(seen.bytes) /\ seen' = Seen(seen.bytes)
  <1>1. m \in Lines /\ s \in Lines /\ Starting
    BY DEF MasterInv, Sync
  <1>2. Code = Start /\ ip <= 4
    BY Codes, StartCode
  <1>3. ip' = ip + 1 /\ UNCHANGED <<request, phase, i, buffer>>
    BY <1>1, HelperStep
  <1>4. /\ ip = 1 => Edges([m EXCEPT !.scl = 1], s)
        /\ ip = 2 => UNCHANGED <<m, s, device, seen>>
        /\ ip = 3 => Edges([m EXCEPT !.sda = 0], s)
        /\ ip = 4 => Edges([m EXCEPT !.scl = 0], s)
    BY <1>1, <1>2, StartCode, HelperStep
  <1>5. CASE ip = 1 /\ AtRest
    <2>1. [m EXCEPT !.scl = 1] = m
      BY <1>5 DEF AtRest, Released
    <2>2. m' = m /\ s' = s /\ device' = device /\ seen' = seen
      BY <1>1, <1>4, <1>5, <2>1, DataEdge
    <2> QED
      BY <1>1, <1>3, <1>5, <2>2 DEF Starting, AtRest
  <1>6. CASE ip = 2 /\ AtRest
    BY <1>1, <1>3, <1>4, <1>6 DEF Starting, AtRest
  <1>7. CASE ip = 3 /\ AtRest
    <2>1. /\ m' = High(0) /\ s' = Released /\ seen' = [seen EXCEPT !.open = TRUE]
          /\ device' = Device("receive", <<>>, request.data, TRUE)
      BY <1>4, <1>7, StartCondition DEF AtRest
    <2>2. device' = Receiving(<<>>, TRUE)'
      BY <1>3, <2>1 DEF Receiving
    <2>3. seen.bytes = <<>> /\ Released \in Lines
      BY <1>1 DEF Starting, Released, Lines
    <2>4. seen' = Seen(<<>>) /\ seen'.bytes = <<>>
      BY <1>7, <2>1, <2>3 DEF AtRest, Closed, Seen
    <2>5. ip' = 4 /\ i' = 0 /\ buffer' = <<>>
      BY <1>1, <1>3, <1>7 DEF Starting
    <2>6. Starting'
      BY <2>1, <2>2, <2>4, <2>5 DEF Starting
    <2>7. seen = Closed(seen.bytes)
      BY <1>7 DEF AtRest
    <2> QED
      BY <2>1, <2>3, <2>4, <2>6, <2>7
  <1>8. CASE ip = 4
    <2>1. m = High(0) /\ s = Released /\ seen = Seen(<<>>) /\ device = Receiving(<<>>, TRUE)
      BY <1>1, <1>8 DEF Starting
    <2>2. m.scl = 1 /\ s.scl = 1 /\ [High(0) EXCEPT !.scl = 0] = Low(0)
      BY <2>1 DEF High, Low, Released
    <2>3. m' = Low(0) /\ \E r \in AfterFall(device) : \E stretch \in {0, 1} :
              /\ stretch = 0 => r.d.mode # "idle"
              /\ device' = r.d /\ s' = [scl |-> stretch, sda |-> r.sda]
              /\ seen' = [seen EXCEPT !.bytes = @ \o r.new]
      BY <1>1, <1>4, <1>8, <2>1, <2>2, FallingEdge
    <2>4. PICK r \in AfterFall(device), stretch \in {0, 1} :
              /\ device' = r.d /\ s' = [scl |-> stretch, sda |-> r.sda]
              /\ seen' = [seen EXCEPT !.bytes = @ \o r.new]
      BY <2>3
    <2>5. r = [d |-> Receiving(<<>>, TRUE), sda |-> 1, new |-> <<>>]
      <3>1. r \in AfterFall(Receiving(<<>>, TRUE))
        BY <2>1, <2>4
      <3>2. Len(<<>>) # 8
        OBVIOUS
      <3> QED
        BY <3>1, <3>2, MoreToReceive
    <2>6. r.d = Receiving(<<>>, TRUE) /\ r.sda = 1 /\ r.new = <<>>
      BY <2>5
    <2>7. seen' = seen
      <3>1. <<>> \in Bytes
        BY DEF Bytes
      <3> QED
        BY <2>1, <2>4, <2>6, <3>1, SeenNothing
    <2>8. s' \in Lines /\ s'.sda = 1
      BY <2>4, <2>6 DEF Lines
    <2>9. device' = Receiving(<<>>, TRUE)'
      BY <1>3, <2>4, <2>6 DEF Receiving
    <2>10. ip' = 5 /\ seen' = Seen(<<>>) /\ i' = 0 /\ buffer' = <<>> /\ seen'.bytes = <<>>
      BY <1>1, <1>3, <1>8, <2>1, <2>7 DEF Starting, Seen
    <2>11. Starting'
      BY <2>3, <2>8, <2>9, <2>10 DEF Starting
    <2> QED
      BY <2>7, <2>8, <2>11
  <1>9. (ip \in 1..3 /\ AtRest) \/ ip = 4
    <2>1. (ip \in 1..3 /\ AtRest) \/ ip = 4 \/ ip = 5
      BY <1>1, Zenon DEF Starting
    <2> QED
      BY <1>2, <2>1
  <1> QED
    BY <1>5, <1>6, <1>7, <1>8, <1>9

\* What the bytes of the call become in one step of a helper.
LEMMA WriteSeen ==
    ASSUME NEW b, NEW first, NEW before, WriteInv(b, first, before), ip # 39,
           WriteInv(b, first, before)'
    PROVE  /\ seen = Seen(before)
           /\ seen' = seen \/ \E a \in {0, 1} : seen' = Seen(Append(before, Saw(b, a)))
  BY DEF WriteInv, ByteWritten

LEMMA ReadSeen ==
    ASSUME NEW l, NEW b, NEW rest, NEW before, ReadInv(l, b, rest, before), ip # 39,
           ip' = ip + 1, ReadInv(l, b, rest, before)'
    PROVE  \/ seen' = seen
           \/ seen = Seen(before) /\ seen' = Seen(Append(before, Saw(b, l)))
  <1>1. CASE ByteRead(l, b, rest, before)
    <2>1. ip = 38 /\ ip' = 39
      BY <1>1 DEF ByteRead
    <2>2. ByteRead(l, b, rest, before)'
      BY <2>1 DEF ReadInv, ReadsBit, GivesAnswer
    <2> QED
      BY <1>1, <2>2 DEF ByteRead
  <1>2. CASE seen = Seen(before)
    BY <1>2 DEF ReadInv, ByteRead
  <1> QED
    BY <1>1, <1>2 DEF ReadInv

LEMMA AddressSync ==
    ASSUME MasterInv, Sync, phase = "address", Helper, ip <= Len(Code)
    PROVE  /\ Addressing' /\ s' \in Lines
           /\ \/ seen' = seen
              \/ /\ seen = Seen(<<>>)
                 /\ \E a \in {0, 1} : seen' = Seen(Append(<<>>, Saw(AddressByte, a)))
  <1>1. m \in Lines /\ s \in Lines /\ Addressing
    BY DEF MasterInv, Sync
  <1>2. Code = WriteByte(AddressByte)
    BY Codes
  <1>3. ip # 39 /\ ip' = ip + 1 /\ UNCHANGED <<request, i, buffer>>
    <2>1. Len(Code) = 38
      BY <1>2, WriteCode
    <2> QED
      BY <1>1, <2>1, HelperStep
  <1>4. PICK b \in 0..255 : b = AddressByte
    BY RequestFacts
  <1>5. /\ request.data \in Seq(0..255) /\ (b % 2 = 1 => request.data # <<>>)
        /\ WriteInv(b, TRUE, <<>>) /\ <<>> \in Bytes /\ Code = WriteByte(b)
    <2>1. request.data \in Seq(0..255) /\ (b % 2 = 1 => request.data # <<>>)
      BY <1>4, RequestFacts
    <2>2. WriteInv(b, TRUE, <<>>)
      BY <1>1, <1>4 DEF Addressing
    <2>3. <<>> \in Bytes /\ Code = WriteByte(b)
      BY <1>2, <1>4 DEF Bytes
    <2> QED
      BY <2>1, <2>2, <2>3
  <1>6. WriteInv(b, TRUE, <<>>)' /\ s' \in Lines
    BY <1>1, <1>3, <1>5, MasterInWrite
  <1>7. Addressing'
    BY <1>1, <1>3, <1>4, <1>6, CallKept DEF Addressing
  <1> QED
    BY <1>3, <1>4, <1>5, <1>6, <1>7, WriteSeen

LEMMA WritingSync ==
    ASSUME MasterInv, Sync, phase = "data", ~request.read, Helper, ip <= Len(Code)
    PROVE  /\ Writing' /\ s' \in Lines
           /\ \/ seen' = seen
              \/ /\ seen = Seen(Passed(i + 1))
                 /\ \E a \in {0, 1} : seen' = Seen(Append(Passed(i + 1), Saw(Nth(i + 2), a)))
  <1>1. m \in Lines /\ s \in Lines /\ Writing
    BY DEF MasterInv, Sync
  <1>2. Code = WriteByte(request.data[i + 1])
    BY Codes
  <1>3. ip # 39 /\ ip' = ip + 1 /\ UNCHANGED <<request, i, buffer>>
    <2>1. Len(Code) = 38
      BY <1>2, WriteCode
    <2> QED
      BY <1>1, <2>1, HelperStep
  <1>4. i \in 0..(Size - 1) /\ Size \in Nat
    BY <1>1, RequestFacts DEF Writing
  <1>5. PICK b \in 0..255 : b = request.data[i + 1] /\ b = Nth(i + 2)
    BY <1>4, RestFacts
  <1>6. PICK before \in Bytes : before = Passed(i + 1)
    BY <1>4, PassedIsBytes
  <1>7. request.data \in Seq(0..255) /\ WriteInv(b, FALSE, before) /\ Code = WriteByte(b)
    BY <1>1, <1>2, <1>5, <1>6, RequestFacts DEF Writing
  <1>8. WriteInv(b, FALSE, before)' /\ s' \in Lines
    BY <1>1, <1>3, <1>7, MasterInWrite
  <1>9. Writing'
    BY <1>1, <1>3, <1>5, <1>6, <1>8, CallKept DEF Writing
  <1>10. /\ seen = Seen(before)
         /\ seen' = seen \/ \E a \in {0, 1} : seen' = Seen(Append(before, Saw(b, a)))
    BY <1>3, <1>7, <1>8, WriteSeen
  <1> QED
    BY <1>5, <1>6, <1>8, <1>9, <1>10

LEMMA ReadingSync ==
    ASSUME MasterInv, Sync, phase = "data", request.read, Helper, ip <= Len(Code)
    PROVE  /\ Reading' /\ s' \in Lines
           /\ \/ seen' = seen
              \/ /\ seen = Seen(Passed(i + 1))
                 /\ seen' = Seen(Append(Passed(i + 1), Saw(Nth(i + 2), AckLevel)))
  <1>1. m \in Lines /\ s \in Lines /\ Reading
    BY DEF MasterInv, Sync
  <1>2. Code = ReadCalls(AckLevel)
    BY Codes, ReadIsCalls
  <1>3. i \in 0..(Size - 1) /\ Size \in Nat
    BY <1>1, RequestFacts DEF Reading
  <1>4. PICK l \in {0, 1} : l = AckLevel
    BY <1>3, RestFacts
  <1>5. ip # 39 /\ ip' = ip + 1 /\ UNCHANGED <<request, i, buffer>>
    <2>1. Len(Code) = 38
      BY <1>2, <1>4, ReadCode
    <2> QED
      BY <1>1, <2>1, HelperStep
  <1>6. PICK b \in 0..255 : b = request.data[i + 1] /\ b = Nth(i + 2)
    BY <1>3, RestFacts
  <1>7. PICK before \in Bytes : before = Passed(i + 1)
    BY <1>3, PassedIsBytes
  <1>8. PICK rest \in Seq(0..255) : rest = Rest /\ rest # <<>> /\ b = Head(rest)
    BY <1>3, <1>6, RestFacts
  <1>9. ReadInv(l, b, rest, before) /\ Code = ReadCalls(l)
    BY <1>1, <1>2, <1>4, <1>6, <1>7, <1>8 DEF Reading
  <1>10. ReadInv(l, b, rest, before)' /\ s' \in Lines
    BY <1>1, <1>5, <1>8, <1>9, MasterInRead
  <1>11. Reading'
    <2>1. Rest' = Rest /\ AckLevel' = AckLevel /\ Passed(i + 1)' = Passed(i + 1) /\ Size' = Size
      BY <1>5, CallKept
    <2> QED
      BY <1>1, <1>4, <1>5, <1>6, <1>7, <1>8, <1>10, <2>1 DEF Reading
  <1>12. \/ seen' = seen
         \/ seen = Seen(before) /\ seen' = Seen(Append(before, Saw(b, l)))
    BY <1>5, <1>9, <1>10, ReadSeen
  <1> QED
    BY <1>4, <1>6, <1>7, <1>10, <1>11, <1>12

LEMMA StopSync ==
    ASSUME MasterInv, Sync, phase \in {"stop", "stop2"}, Helper, ip <= Len(Code), ~late'
    PROVE  /\ Stopping' /\ s' \in Lines
           /\ \/ seen' = seen
              \/ DataRefused /\ seen = Closed(seen.bytes) /\ seen' = Seen(seen.bytes)
              \/ seen = Seen(seen.bytes) /\ seen' = Closed(seen.bytes)
  <1>1. m \in Lines /\ s \in Lines /\ Stopping
    BY DEF MasterInv, Sync
  <1>2. Code = Stop /\ ip <= 3
    BY Codes, StopCode
  <1>3. ip' = ip + 1 /\ UNCHANGED <<request, phase, i, buffer, ret>>
    BY <1>1, HelperStep
  <1>4. /\ ip = 1 => Edges([m EXCEPT !.sda = 0], s)
        /\ ip = 2 => Edges([m EXCEPT !.scl = 1], s)
        /\ ip = 3 => Edges([m EXCEPT !.sda = 1], s)
    BY <1>1, <1>2, StopCode, HelperStep
  <1>5. Ended /\ (phase = "stop2" => DataRefused)
    BY <1>1 DEF Stopping
  <1>6. ASSUME seen'.bytes = seen.bytes
        PROVE  Ended' /\ (phase' = "stop2" => DataRefused') /\ (DataRefused => DataRefused')
    <2>1. Ended'
      BY <1>3, <1>5, <1>6, CallKept DEF Ended
    <2> QED
      BY <1>3, <1>5, <1>6, <2>1 DEF DataRefused
  <1>7. CASE ip = 1 /\ m.scl = 0 /\ s.sda = 1 /\ seen = Seen(seen.bytes)
    <2>1. [m EXCEPT !.sda = 0] = Low(0)
      BY <1>1, <1>7 DEF Low, Lines
    <2>2. Low(0) \in Lines /\ Low(0).scl = 0 /\ Low(0).sda = 0
      BY DEF Low, Lines
    <2>3. m' = Low(0) /\ s' = s /\ seen' = seen
      BY <1>1, <1>4, <1>7, <2>1, <2>2, DataEdge
    <2>4. Stopping'
      BY <1>3, <1>6, <1>7, <2>2, <2>3 DEF Stopping
    <2> QED
      BY <1>1, <2>3, <2>4
  <1>8. CASE ip = 1 /\ phase = "stop" /\ AtRest /\ DataRefused
    <2>1. m' = High(0) /\ s' = Released /\ seen' = [seen EXCEPT !.open = TRUE]
      BY <1>4, <1>8, StartCondition DEF AtRest
    <2>2. seen = Closed(seen.bytes)
      BY <1>8 DEF AtRest
    <2>3. seen' = Seen(seen.bytes)
      BY <2>1, <2>2 DEF Closed, Seen
    <2>4. seen'.bytes = seen.bytes
      BY <2>3 DEF Seen
    <2>5. High(0).sda = 0 /\ Released.sda = 1 /\ Released \in Lines
      BY DEF High, Released, Lines
    <2>6. ip' = 2
      BY <1>3, <1>8
    <2>7. Stopping'
      BY <1>6, <2>1, <2>3, <2>4, <2>5, <2>6 DEF Stopping
    <2> QED
      BY <1>8, <2>1, <2>2, <2>3, <2>5, <2>7
  <1>9. CASE ip = 2 /\ m.sda = 0 /\ s.sda = 1 /\ seen = Seen(seen.bytes)
    <2>1. [m EXCEPT !.scl = 1] = High(0)
      BY <1>1, <1>9 DEF High, Lines
    <2>2. m' = High(0) /\ s' = s /\ seen' = seen
      <3>1. CASE m.scl = 0
        BY <1>1, <1>4, <1>9, <2>1, <3>1, RisingEdge
      <3>2. CASE m.scl # 0
        <4>1. m = High(0)
          BY <1>1, <1>9, <3>2 DEF High, Lines
        <4> QED
          BY <1>1, <1>4, <1>9, <2>1, <4>1, DataEdge
      <3> QED
        BY <3>1, <3>2
    <2>3. Stopping'
      BY <1>3, <1>6, <1>9, <2>2 DEF Stopping
    <2> QED
      BY <1>1, <2>2, <2>3
  <1>10. CASE ip = 3 /\ m = High(0) /\ s.sda = 1 /\ seen = Seen(seen.bytes)
    <2>1. s.scl = 1
      <3>1. Drive /\ Code[ip] = "sda1"
        BY <1>2, <1>10, StopCode DEF Helper, Sample, WaitHigh
      <3>2. SCL # 0
        BY <3>1, DriveEdges DEF StopIsEarly
      <3>3. Bus(m, s).scl = s.scl
        BY <1>1, <1>10, BusLevels DEF High
      <3> QED
        BY <1>1, <3>2, <3>3 DEF SCL, Lines
    <2>2. m' = Released /\ s' = Released /\ seen' = [seen EXCEPT !.open = FALSE]
      BY <1>1, <1>4, <1>10, <2>1, StopCondition
    <2>3. seen' = Closed(seen.bytes)
      BY <1>10, <2>2 DEF Closed, Seen
    <2>4. seen'.bytes = seen.bytes /\ Released \in Lines
      BY <2>3 DEF Closed, Released, Lines
    <2>5. ip' = 4
      BY <1>3, <1>10
    <2>6. AtRest'
      BY <2>2, <2>3, <2>4 DEF AtRest, Released
    <2>7. Stopping'
      BY <1>6, <2>4, <2>5, <2>6 DEF Stopping
    <2> QED
      BY <1>10, <2>2, <2>3, <2>4, <2>7
  <1> QED
    BY <1>1, <1>2, <1>7, <1>8, <1>9, <1>10 DEF Stopping

\* Where a byte begins, where it ends, and where the call goes from there.
LEMMA WriteBegins ==
    ASSUME NEW b, NEW first, NEW before, ip' = 1, bits' = <<>>, m'.scl = 0, s'.sda = 1,
           device' = Receiving(<<>>, first)', seen' = Seen(before)
    PROVE  WriteInv(b, first, before)'
  BY DEF WriteInv, WritesByte

LEMMA ReadBegins ==
    ASSUME NEW l, NEW rest \in Seq(0..255), rest # <<>>, NEW b \in 0..255, b = Head(rest),
           NEW before, ip' = 1, bits' = <<>>, m' = Low(1), seen' = Seen(before),
           device' = Send(rest), s'.sda = DataLevel(device)'
    PROVE  ReadInv(l, b, rest, before)'
  <1>1. Send(rest) = Sending(BitsOf(b), rest) /\ DataLevel(Send(rest)) = BitsOf(b)[1]
    BY SendLevel
  <1>2. BitsOf(b) = LastBits(b, 1)
    BY LastBitsStep
  <1>3. device' = Sending(LastBits(b, 1), rest) /\ s'.sda = BitsOf(b)[1]
    BY <1>1, <1>2
  <1>4. ReadsBit(b, rest, 1)'
    BY <1>3 DEF ReadsBit
  <1> QED
    BY <1>4 DEF ReadInv

LEMMA WriteEnds ==
    ASSUME NEW b, NEW first, NEW before, WriteInv(b, first, before), ip > 38
    PROVE  ByteWritten(b, first, before)
  <1>1. ASSUME NEW k \in 1..8, WritesBit(b, first, k)
        PROVE  FALSE
    BY <1>1 DEF WritesBit
  <1>2. ~WritesByte(b, first)
    BY <1>1 DEF WritesByte
  <1>3. ~TakesAnswer(b, first)
    BY DEF TakesAnswer
  <1> QED
    BY <1>2, <1>3 DEF WriteInv

LEMMA ReadEnds ==
    ASSUME NEW l, NEW b, NEW rest, NEW before, ReadInv(l, b, rest, before), ip > 38
    PROVE  ByteRead(l, b, rest, before) /\ m = Low(1)
  <1>1. ByteRead(l, b, rest, before)
    <2>1. ASSUME NEW k \in 1..8, ReadsBit(b, rest, k)
          PROVE  FALSE
      BY <2>1 DEF ReadsBit
    <2>2. ~GivesAnswer(l, b, rest)
      BY DEF GivesAnswer
    <2> QED
      BY <2>1, <2>2 DEF ReadInv
  <1> QED
    BY <1>1 DEF ByteRead

LEMMA StopBegins ==
    ASSUME ip' = 1, m'.scl = 0, s'.sda = 1, s' \in Lines, seen' = Seen(seen'.bytes), Ended',
           phase' = "stop" \/ (phase' = "stop2" /\ DataRefused')
    PROVE  Sync'
  <1>1. Stopping'
    BY DEF Stopping
  <1> QED
    BY <1>1 DEF Sync

LEMMA StartReturnsSync ==
    ASSUME MasterInv, Sync, StartReturns
    PROVE  Sync' /\ phase' = "address"
  <1>1. phase = "start" /\ ip > 4
    BY Codes, StartCode DEF StartReturns, Finished
  <1>2. Starting /\ ret = NO_ERROR /\ s \in Lines
    BY <1>1 DEF Sync
  <1>3. ip = 5 /\ m = Low(0) /\ s.sda = 1 /\ seen = Seen(<<>>) /\ device = Receiving(<<>>, TRUE)
    <2>1. \/ ip \in 1..3
          \/ ip = 4
          \/ ip = 5 /\ m = Low(0) /\ s.sda = 1 /\ seen = Seen(<<>>) /\ device = Receiving(<<>>, TRUE)
      BY <1>2, Zenon DEF Starting
    <2>2. ip \notin 1..3 /\ ip # 4
      BY <1>1
    <2> QED
      BY <2>1, <2>2
  <1>4. /\ ip' = 1 /\ bits' = <<>> /\ phase' = "address"
        /\ UNCHANGED <<request, i, buffer, ret, m, s, device, seen>>
    BY <1>2 DEF StartReturns, GoTo
  <1>5. device' = Receiving(<<>>, TRUE)'
    BY <1>3, <1>4 DEF Receiving
  <1>6. PICK b : b = AddressByte
    OBVIOUS
  <1>7. m'.scl = 0 /\ s'.sda = 1 /\ seen' = Seen(<<>>)
    BY <1>3, <1>4 DEF Low
  <1>8. WriteInv(b, TRUE, <<>>)'
    BY <1>4, <1>5, <1>7, WriteBegins
  <1>9. AddressByte' = AddressByte
    BY <1>4, CallKept
  <1>10. Addressing'
    BY <1>2, <1>4, <1>6, <1>8, <1>9 DEF Addressing, Starting
  <1> QED
    BY <1>2, <1>4, <1>10 DEF Sync

LEMMA AddressReturnsSync ==
    ASSUME MasterInv, Sync, AddressReturns
    PROVE  Sync' /\ phase' # "idle"
  <1>1. phase = "address" /\ Addressing /\ s \in Lines /\ ip > 38 /\ ret = NO_ERROR
    <2>1. phase = "address" /\ ip > Len(Code)
      BY DEF AddressReturns, Finished
    <2>2. Len(Code) = 38
      BY <2>1, Codes, WriteCode
    <2> QED
      BY <2>1, <2>2 DEF Sync
  <1>2. PICK b \in 0..255 : b = AddressByte
    BY RequestFacts
  <1>3. ByteWritten(b, TRUE, <<>>)
    BY <1>1, <1>2, WriteEnds DEF Addressing
  <1>4. PICK a \in {0, 1} :
            /\ ip = 39 /\ bits = <<a>> /\ m = Low(1) /\ s.sda = DataLevel(device)
            /\ seen = Seen(Append(<<>>, Saw(b, a)))
            /\ device = AfterAnswer(b, a, TRUE) /\ (a = 1 => s = Released)
    BY <1>3 DEF ByteWritten
  <1>5. /\ ret' = a /\ ip' = 1 /\ bits' = <<>>
        /\ phase' = (IF a = 0 /\ request.data # <<>> THEN "data" ELSE "stop")
        /\ UNCHANGED <<request, i, buffer, m, s, device, seen>>
    BY <1>1, <1>4 DEF AddressReturns, Written, GoTo, NO_ERROR
  <1>6. /\ Size' = Size /\ Rest' = Rest /\ AckLevel' = AckLevel
        /\ \A n : Nth(n)' = Nth(n) /\ Refused(n)' = Refused(n)
                  /\ Passed(n)' = Passed(n) /\ Failed(n)' = Failed(n)
    BY <1>5, CallKept
  <1>7. Passed(0) = <<>> /\ b = Nth(1) /\ ~Refused(1) /\ i = 0 /\ buffer = <<>>
    BY <1>1, <1>2 DEF Passed, Nth, Refused, Addressing
  <1>8. m'.scl = 0 /\ m' = Low(1) /\ s' \in Lines
    BY <1>1, <1>4, <1>5 DEF Low
  <1>9. CASE a = 1
    <2>1. seen' = Seen(Failed(1)) /\ seen'.bytes = Failed(1)
      <3>1. Failed(1) = Append(<<>>, Saw(b, 1))
        <4>1. 1 - 1 = 0 /\ Failed(1) = Append(Passed(1 - 1), Saw(Nth(1), 1))
          BY DEF Failed
        <4> QED
          BY <1>7, <4>1
      <3>2. seen' = Seen(Failed(1))
        BY <1>4, <1>5, <1>9, <3>1
      <3> QED
        BY <3>2 DEF Seen
    <2>2. 1 \in 1..(Size + 1)
      BY RequestFacts
    <2>3. Ended'
      BY <1>5, <1>6, <1>7, <1>9, <2>1, <2>2 DEF Ended, NACKED
    <2>4. s'.sda = 1
      BY <1>4, <1>5, <1>9 DEF Released
    <2>5. phase' = "stop"
      BY <1>5, <1>9
    <2>6. seen' = Seen(seen'.bytes)
      BY <2>1
    <2>7. Sync'
      BY <1>5, <1>8, <2>3, <2>4, <2>5, <2>6, StopBegins
    <2> QED
      BY <2>5, <2>7
  <1>10. CASE a = 0
    <2>1. seen' = Seen(Passed(1)) /\ seen'.bytes = Passed(1)
      <3>1. 0 \in 0..Size /\ 0 + 1 = 1
        BY RequestFacts
      <3>2. Append(Passed(0), Saw(Nth(1), 0)) = Passed(1)
        BY <1>7, <3>1, PassesOneMore
      <3>3. seen' = Seen(Passed(1))
        BY <1>4, <1>5, <1>7, <1>10, <3>2
      <3> QED
        BY <3>3 DEF Seen
    <2>2. CASE request.data = <<>>
      <3>1. Size = 0 /\ ~request.read /\ b % 2 # 1
        BY <1>2, <2>2, RequestFacts
      <3>2. Ended'
        BY <1>5, <1>6, <1>10, <2>1, <3>1 DEF Ended, NO_ERROR
      <3>3. s'.sda = 1
        BY <1>4, <1>5, <1>10, <3>1, DataLevels DEF AfterAnswer
      <3>4. phase' = "stop"
        BY <1>5, <2>2
      <3>5. seen' = Seen(seen'.bytes)
        BY <2>1
      <3>6. Sync'
        BY <1>5, <1>8, <3>2, <3>3, <3>4, <3>5, StopBegins
      <3> QED
        BY <3>4, <3>6
    <2>3. CASE request.data # <<>> /\ ~request.read
      <3>1. b % 2 # 1 /\ Size \in Nat /\ Size # 0
        BY <1>2, <2>3, RequestFacts
      <3>2. device = Receiving(<<>>, FALSE)
        BY <1>4, <1>10, <3>1 DEF AfterAnswer
      <3>3. device' = Receiving(<<>>, FALSE)' /\ s'.sda = 1
        BY <1>4, <1>5, <3>2, DataLevels DEF Receiving
      <3>4. PICK c, before : c = request.data[i + 1] /\ before = Passed(i + 1)
        OBVIOUS
      <3>5. seen' = Seen(before)
        BY <1>7, <2>1, <3>4
      <3>6. WriteInv(c, FALSE, before)'
        BY <1>5, <1>8, <3>3, <3>5, WriteBegins
      <3>7. Writing'
        <4>1. i' \in 0..(Size' - 1)
          BY <1>5, <1>6, <1>7, <3>1
        <4>2. request'.data[i' + 1] = c /\ Passed(i + 1)' = before
          BY <1>5, <1>6, <3>4
        <4> QED
          BY <3>6, <4>1, <4>2 DEF Writing
      <3> QED
        BY <1>5, <1>8, <1>10, <2>3, <3>7 DEF Sync, NO_ERROR
    <2>4. CASE request.read
      <3>1. b % 2 = 1 /\ Size \in Nat /\ Size # 0 /\ request.data # <<>>
            /\ request.data \in Seq(0..255)
        BY <1>2, <2>4, RequestFacts
      <3>2. device' = Send(request.data)
        <4>1. AfterAnswer(b, 0, TRUE) = Send(request.data)
          BY <3>1 DEF AfterAnswer
        <4> QED
          BY <1>4, <1>5, <1>10, <4>1
      <3>3. Rest = request.data
        BY <1>7, <3>1 DEF Rest, Size
      <3>4. PICK rest \in Seq(0..255) : rest = Rest /\ rest # <<>>
        BY <3>1, <3>3
      <3>5. PICK c \in 0..255 : c = request.data[i + 1] /\ c = Head(rest)
        <4>1. i \in 0..(Size - 1)
          BY <1>7, <3>1
        <4> QED
          BY <3>4, <4>1, RestFacts
      <3>6. PICK before, l : before = Passed(i + 1) /\ l = AckLevel
        OBVIOUS
      <3>7. seen' = Seen(before) /\ s'.sda = DataLevel(device)' /\ device' = Send(rest)
        <4>1. DataLevel(device)' = DataLevel(device)
          BY <1>5
        <4>2. s'.sda = DataLevel(device)' /\ device' = Send(rest)
          BY <1>4, <1>5, <3>2, <3>3, <3>4, <4>1
        <4>3. i + 1 = 1
          BY <1>7
        <4> QED
          BY <2>1, <3>6, <4>2, <4>3
      <3>8. ReadInv(l, c, rest, before)'
        BY <1>5, <1>8, <3>4, <3>5, <3>7, ReadBegins, ZenonT(40)
      <3>9. buffer' = [k \in 1..i' |-> request'.data[k]]
        BY <1>5, <1>7
      <3>10. Reading'
        BY <1>5, <1>6, <1>7, <3>1, <3>4, <3>5, <3>6, <3>8, <3>9 DEF Reading
      <3> QED
        BY <1>5, <1>8, <1>10, <2>4, <3>1, <3>10 DEF Sync, NO_ERROR
    <2> QED
      BY <2>2, <2>3, <2>4, RequestFacts
  <1> QED
    BY <1>5, <1>9, <1>10

LEMMA WriteReturnsSync ==
    ASSUME MasterInv, Sync, WriteReturns
    PROVE  Sync' /\ phase' # "idle"
  <1>1. phase = "data" /\ ~request.read /\ Writing /\ s \in Lines /\ ip > 38 /\ ret = NO_ERROR
    <2>1. phase = "data" /\ ~request.read /\ ip > Len(Code)
      BY DEF WriteReturns, Finished
    <2>2. Len(Code) = 38
      BY <2>1, Codes, WriteCode
    <2> QED
      BY <2>1, <2>2 DEF Sync
  <1>2. i \in 0..(Size - 1) /\ Size \in Nat
    BY <1>1, RequestFacts DEF Writing
  <1>3. PICK b \in 0..255 : b = request.data[i + 1] /\ b = Nth(i + 2)
    BY <1>2, RestFacts
  <1>4. PICK before \in Bytes : before = Passed(i + 1)
    BY <1>2, PassedIsBytes
  <1>5. ByteWritten(b, FALSE, before)
    BY <1>1, <1>3, <1>4, WriteEnds DEF Writing
  <1>6. PICK a \in {0, 1} :
            /\ ip = 39 /\ bits = <<a>> /\ m = Low(1) /\ s.sda = DataLevel(device)
            /\ seen = Seen(Append(before, Saw(b, a)))
            /\ device = AfterAnswer(b, a, FALSE) /\ (a = 1 => s = Released)
    BY <1>5 DEF ByteWritten
  <1>7. /\ ret' = a /\ i' = i + 1 /\ ip' = 1 /\ bits' = <<>>
        /\ phase' = (IF a # 0 THEN "stop2" ELSE IF i + 1 < Size THEN "data" ELSE "stop")
        /\ UNCHANGED <<request, buffer, m, s, device, seen>>
    BY <1>1, <1>6 DEF WriteReturns, Written, GoTo, NO_ERROR, Size
  <1>8. /\ Size' = Size
        /\ \A n : Nth(n)' = Nth(n) /\ Refused(n)' = Refused(n)
                  /\ Passed(n)' = Passed(n) /\ Failed(n)' = Failed(n)
    BY <1>7, CallKept
  <1>9. m'.scl = 0 /\ s' \in Lines /\ ~Refused(i + 2) /\ i + 2 \in 2..(Size + 1)
    BY <1>1, <1>2, <1>6, <1>7 DEF Low, Refused
  <1>10. CASE a = 1
    <2>1. Failed(i + 2) = Append(before, Saw(b, 1))
      <3>1. (i + 2) - 1 = i + 1
        BY <1>2
      <3>2. Failed(i + 2) = Append(Passed((i + 2) - 1), Saw(Nth(i + 2), 1))
        BY DEF Failed
      <3> QED
        BY <1>3, <1>4, <3>1, <3>2
    <2>2. seen' = Seen(Failed(i + 2))
      BY <1>6, <1>7, <1>10, <2>1
    <2>3. seen'.bytes = Failed(i + 2)
      BY <2>2 DEF Seen
    <2>4. Ended'
      <3>1. i + 2 \in 1..(Size + 1)
        BY <1>9
      <3> QED
        BY <1>7, <1>8, <1>9, <1>10, <2>3, <3>1 DEF Ended, NACKED
    <2>5. Len(Failed(i + 2)) > 1
      <3>1. Len(before) = i + 1
        BY <1>2, <1>4, PassedIsBytes
      <3>2. Len(Append(before, Saw(b, 1))) = i + 2
        BY <1>2, <3>1 DEF Bytes
      <3> QED
        BY <1>2, <2>1, <3>2
    <2>6. phase' = "stop2" /\ DataRefused' /\ seen' = Seen(seen'.bytes)
      BY <1>1, <1>7, <1>10, <2>2, <2>3, <2>5 DEF DataRefused, NACKED
    <2>7. s'.sda = 1
      BY <1>6, <1>7, <1>10 DEF Released
    <2>8. Sync'
      BY <1>7, <1>9, <2>4, <2>6, <2>7, StopBegins
    <2> QED
      BY <2>6, <2>8
  <1>11. CASE a = 0
    <2>1. Append(before, Saw(b, 0)) = Passed(i + 2)
      <3>1. i + 1 \in 0..Size /\ (i + 1) + 1 = i + 2
        BY <1>2
      <3>2. Append(Passed(i + 1), Saw(Nth((i + 1) + 1), 0)) = Passed((i + 1) + 1)
        BY <1>9, <3>1, PassesOneMore
      <3> QED
        BY <1>3, <1>4, <3>1, <3>2
    <2>2. seen' = Seen(Passed(i + 2)) /\ seen'.bytes = Passed(i + 2)
      <3>1. seen' = Seen(Passed(i + 2))
        BY <1>6, <1>7, <1>11, <2>1
      <3> QED
        BY <3>1 DEF Seen
    <2>3. device' = Receiving(<<>>, FALSE)' /\ s'.sda = 1
      <3>1. AfterAnswer(b, 0, FALSE) = Receiving(<<>>, FALSE)
        BY DEF AfterAnswer
      <3>2. Receiving(<<>>, FALSE)' = Receiving(<<>>, FALSE)
        BY <1>7 DEF Receiving
      <3> QED
        BY <1>6, <1>7, <1>11, <3>1, <3>2, DataLevels
    <2>4. CASE i + 1 < Size
      <3>1. PICK c, after : c = request.data[i' + 1] /\ after = Passed(i + 2)
        OBVIOUS
      <3>2. WriteInv(c, FALSE, after)'
        BY <1>7, <1>9, <2>2, <2>3, <3>1, WriteBegins
      <3>3. Writing'
        <4>1. i' \in 0..(Size' - 1) /\ i' + 1 = i + 2
          BY <1>2, <1>7, <1>8, <2>4
        <4>2. request'.data[i' + 1] = c
          BY <1>7, <3>1
        <4>3. Passed(i + 1)' = Passed(i + 2)
          <5>1. Passed(i + 1)' = Passed(i' + 1)
            BY <1>8
          <5> QED
            BY <4>1, <5>1
        <4> QED
          BY <3>1, <3>2, <4>1, <4>2, <4>3 DEF Writing
      <3> QED
        BY <1>1, <1>7, <1>9, <1>11, <2>4, <3>3 DEF Sync, NO_ERROR
    <2>5. CASE ~(i + 1 < Size)
      <3>1. i + 2 = Size + 1
        BY <1>2, <2>5
      <3>2. Ended'
        BY <1>1, <1>7, <1>8, <1>11, <2>2, <3>1 DEF Ended, NO_ERROR
      <3>3. phase' = "stop" /\ seen' = Seen(seen'.bytes)
        BY <1>7, <1>11, <2>2, <2>5
      <3>4. Sync'
        BY <1>7, <1>9, <2>3, <3>2, <3>3, StopBegins
      <3> QED
        BY <3>3, <3>4
    <2> QED
      BY <2>4, <2>5
  <1> QED
    BY <1>10, <1>11

LEMMA ReadReturnsSync ==
    ASSUME MasterInv, Sync, ReadReturns
    PROVE  Sync' /\ phase' # "idle"
  <1>1. phase = "data" /\ request.read /\ Reading /\ s \in Lines /\ ip > 38 /\ ret = NO_ERROR
    <2>1. phase = "data" /\ request.read /\ ip > Len(Code)
      BY DEF ReadReturns, Finished
    <2>2. i \in 0..(Size - 1)
      BY <2>1 DEF Sync, Reading
    <2>3. PICK l \in {0, 1} : l = AckLevel
      BY <2>2, RestFacts
    <2>4. Len(Code) = 38
      <3>1. Code = ReadCalls(l)
        BY <2>1, <2>3, Codes, ReadIsCalls
      <3> QED
        BY <3>1, ReadCode
    <2> QED
      BY <2>1, <2>4 DEF Sync
  <1>2. i \in 0..(Size - 1) /\ Size \in Nat
    BY <1>1, RequestFacts DEF Reading
  <1>3. PICK b \in 0..255 : b = request.data[i + 1] /\ b = Nth(i + 2)
    BY <1>2, RestFacts
  <1>4. PICK before \in Bytes : before = Passed(i + 1)
    BY <1>2, PassedIsBytes
  <1>5. PICK l \in {0, 1} : l = AckLevel /\ (l = 1 <=> i = Size - 1)
    BY <1>2, RestFacts
  <1>6. PICK rest : rest = Rest
    OBVIOUS
  <1>7. ByteRead(l, b, rest, before) /\ m = Low(1)
    <2>1. ReadInv(l, b, rest, before)
      BY <1>1, <1>3, <1>4, <1>5, <1>6 DEF Reading
    <2> QED
      BY <1>1, <2>1, ReadEnds
  <1>8. /\ bits = BitsOf(b) /\ seen = Seen(Append(before, Saw(b, l)))
        /\ device = AfterSent(l, rest) /\ s.sda = DataLevel(device)
        /\ l = 1 => s = Released
    BY <1>7 DEF ByteRead
  <1>9. /\ ret' = NO_ERROR /\ i' = i + 1 /\ ip' = 1 /\ bits' = <<>>
        /\ buffer' = Append(buffer, b)
        /\ phase' = (IF i + 1 < Size THEN "data" ELSE "stop")
        /\ UNCHANGED <<request, m, s, device, seen>>
    <2>1. ValueOf(bits) = b
      BY <1>8, ValueOfBits
    <2> QED
      BY <1>1, <2>1 DEF ReadReturns, GoTo, Size
  <1>10. /\ Size' = Size
         /\ \A n : Nth(n)' = Nth(n) /\ Refused(n)' = Refused(n)
                   /\ Passed(n)' = Passed(n) /\ Failed(n)' = Failed(n)
    BY <1>9, CallKept
  <1>11. m'.scl = 0 /\ m' = Low(1) /\ s' \in Lines
    BY <1>1, <1>7, <1>9 DEF Low
  <1>12. buffer' = [k \in 1..(i + 1) |-> request.data[k]]
    <2> DEFINE x(k) == request.data[k]
    <2>1. buffer = [k \in 1..i |-> x(k)] /\ b = x(i + 1)
      BY <1>1, <1>3 DEF Reading
    <2> HIDE DEF x
    <2>2. Append([k \in 1..i |-> x(k)], x(i + 1)) = [k \in 1..(i + 1) |-> x(k)]
      BY <1>2
    <2>3. buffer' = [k \in 1..(i + 1) |-> x(k)]
      BY <1>9, <2>1, <2>2
    <2> QED
      BY <2>3 DEF x
  <1>13. seen' = Seen(Passed(i + 2)) /\ seen'.bytes = Passed(i + 2)
    <2>1. i + 1 \in 0..Size /\ (i + 1) + 1 = i + 2
      BY <1>2
    <2>2. (l = 0) <=> ~Refused(i + 2)
      BY <1>1, <1>2, <1>5 DEF Refused
    <2>3. Append(Passed(i + 1), Saw(Nth((i + 1) + 1), l)) = Passed((i + 1) + 1)
      BY <2>1, <2>2, PassesOneMore
    <2>4. seen' = Seen(Passed(i + 2))
      BY <1>3, <1>4, <1>8, <1>9, <2>1, <2>3
    <2> QED
      BY <2>4 DEF Seen
  <1>14. CASE i + 1 < Size
    <2>1. l = 0 /\ i' \in 0..(Size - 1) /\ i' + 1 = i + 2 /\ i' = i + 1
      BY <1>2, <1>5, <1>9, <1>14
    <2>2. Rest' = Tail(Rest) /\ Len(Rest) # 1 /\ Tail(Rest) \in Seq(0..255) /\ Tail(Rest) # <<>>
      <3>1. Len(Rest) = Size - i /\ Rest \in Seq(0..255)
        BY <1>2, RestFacts
      <3>2. Rest' = [k \in 1..(Size - (i + 1)) |-> request.data[k + (i + 1)]]
        BY <1>9, <1>10 DEF Rest
      <3>3. Tail(Rest) = [k \in 1..(Len(Rest) - 1) |-> Rest[k + 1]]
        <4>1. Rest # <<>>
          BY <1>2, RestFacts
        <4>2. /\ Tail(Rest) \in Seq(0..255) /\ Len(Tail(Rest)) = Len(Rest) - 1
              /\ \A k \in 1..Len(Tail(Rest)) : Tail(Rest)[k] = Rest[k + 1]
          BY <3>1, <4>1, HeadTailProperties
        <4>3. Tail(Rest) \in [1..Len(Tail(Rest)) -> 0..255]
          BY <4>2, LenProperties
        <4> QED
          BY <4>2, <4>3
      <3>4. \A k \in 1..(Len(Rest) - 1) : Rest[k + 1] = request.data[k + (i + 1)]
        <4>1. ASSUME NEW k \in 1..(Len(Rest) - 1)
              PROVE  Rest[k + 1] = request.data[k + (i + 1)]
          <5>1. k + 1 \in 1..(Size - i) /\ (k + 1) + i = k + (i + 1)
            BY <1>2, <3>1
          <5>2. Rest[k + 1] = request.data[(k + 1) + i]
            BY <5>1 DEF Rest
          <5> QED
            BY <5>1, <5>2
        <4> QED
          BY <4>1
      <3>5. Len(Rest) - 1 = Size - (i + 1)
        BY <1>2, <3>1
      <3>6. Rest' = Tail(Rest)
        BY <3>2, <3>3, <3>4, <3>5
      <3>7. Tail(Rest) \in Seq(0..255) /\ Len(Tail(Rest)) = Len(Rest) - 1 /\ Len(<<>>) = 0
        BY <1>2, <1>14, <3>1
      <3>8. Len(Tail(Rest)) # Len(<<>>) /\ Len(Rest) # 1
        <4>1. Size - i # 1 /\ (Size - i) - 1 # 0
          BY <1>2, <1>14
        <4> QED
          BY <3>1, <3>7, <4>1
      <3>9. Tail(Rest) # <<>>
        BY <3>8
      <3> QED
        BY <3>6, <3>7, <3>8, <3>9
    <2>3. PICK next \in Seq(0..255) : next = Rest' /\ next = Tail(rest) /\ next # <<>>
      BY <1>6, <2>2
    <2>4. device' = Send(next)
      <3>1. AfterSent(0, rest) = Send(next)
        BY <1>6, <2>2, <2>3 DEF AfterSent
      <3> QED
        BY <1>8, <1>9, <2>1, <3>1
    <2>5. s'.sda = DataLevel(device)'
      <3>1. DataLevel(device)' = DataLevel(device)
        BY <1>9
      <3> QED
        BY <1>8, <1>9, <3>1
    <2>6. PICK c \in 0..255 : c = request.data[i + 2] /\ c = Head(next)
      <3>1. i + 2 \in 1..Size
        BY <1>2, <1>14
      <3>2. request.data[i + 2] \in 0..255
        <4>1. \A n \in 1..Size : request.data[n] \in 0..255
          BY RequestFacts
        <4> QED
          BY <3>1, <4>1
      <3>3. Head(next) = next[1]
        BY <2>3
      <3>4. next = [k \in 1..(Size - (i + 1)) |-> request.data[k + (i + 1)]]
        BY <1>9, <1>10, <2>3 DEF Rest
      <3>5. 1 \in 1..(Size - (i + 1)) /\ 1 + (i + 1) = i + 2
        BY <1>2, <1>14
      <3>6. next[1] = request.data[1 + (i + 1)]
        BY <3>4, <3>5
      <3> QED
        BY <3>2, <3>3, <3>5, <3>6
    <2>7. PICK after, k : after = Passed(i + 2) /\ k = AckLevel'
      OBVIOUS
    <2>8. ReadInv(k, c, next, after)'
      BY <1>9, <1>11, <1>13, <2>3, <2>4, <2>5, <2>6, <2>7, ReadBegins, ZenonT(40)
    <2>9. Reading'
      <3>1. request'.data[i' + 1] = c
        BY <1>9, <2>1, <2>6
      <3>2. Passed(i + 1)' = after
        <4>1. Passed(i + 1)' = Passed(i' + 1)
          BY <1>10
        <4> QED
          BY <2>1, <2>7, <4>1
      <3>3. buffer' = [j \in 1..i' |-> request'.data[j]]
        BY <1>9, <1>12
      <3>4. i' \in 0..(Size' - 1)
        BY <1>10, <2>1
      <3> QED
        BY <2>3, <2>7, <2>8, <3>1, <3>2, <3>3, <3>4 DEF Reading
    <2> QED
      BY <1>1, <1>9, <1>11, <1>14, <2>9 DEF Sync
  <1>15. CASE ~(i + 1 < Size)
    <2>1. i + 1 = Size /\ i + 2 = Size + 1 /\ l = 1
      BY <1>2, <1>5, <1>15
    <2>2. buffer' = request.data
      BY <1>12, <2>1, RequestFacts DEF Size
    <2>3. Ended'
      BY <1>9, <1>10, <1>13, <2>1, <2>2 DEF Ended
    <2>4. s'.sda = 1 /\ phase' = "stop" /\ seen' = Seen(seen'.bytes)
      BY <1>8, <1>9, <1>13, <1>15, <2>1 DEF Released
    <2>5. Sync'
      BY <1>9, <1>11, <2>3, <2>4, StopBegins
    <2> QED
      BY <2>4, <2>5
  <1> QED
    BY <1>14, <1>15

LEMMA StopReturnsSync ==
    ASSUME MasterInv, Sync, StopReturns
    PROVE  Sync' /\ Ended /\ seen = Closed(seen.bytes)
  <1>1. phase \in {"stop", "stop2"} /\ ip > 3
    BY Codes, StopCode DEF StopReturns, Finished
  <1>2. Stopping /\ s \in Lines
    BY <1>1 DEF Sync
  <1>3. ip = 4 /\ AtRest /\ Ended /\ (phase = "stop2" => DataRefused)
    BY <1>1, <1>2 DEF Stopping
  <1>4. /\ \/ phase = "stop2" /\ phase' = "stop"
           \/ phase = "stop" /\ phase' = "idle"
        /\ ip' = 1 /\ UNCHANGED <<request, i, buffer, ret, m, s, device, seen>>
    BY DEF StopReturns, GoTo, Finished
  <1>5. AtRest' /\ seen = Closed(seen.bytes)
    BY <1>3, <1>4 DEF AtRest
  <1>6. Ended' /\ (DataRefused => DataRefused')
    BY <1>3, <1>4, CallKept DEF Ended, DataRefused
  <1>7. CASE phase = "stop2"
    <2>1. Stopping'
      BY <1>3, <1>4, <1>5, <1>6, <1>7 DEF Stopping
    <2> QED
      BY <1>2, <1>3, <1>4, <1>5, <1>7, <2>1 DEF Sync
  <1>8. CASE phase = "stop"
    <2>1. ret \in {NO_ERROR, NACKED}
      BY <1>3 DEF Ended
    <2> QED
      BY <1>2, <1>3, <1>4, <1>5, <1>8, <2>1 DEF Sync
  <1> QED
    BY <1>1, <1>7, <1>8

-----------------------------------------------------------------------------
(* The calls as transfers.                                                 *)

LEMMA AckOf ==
    ASSUME NEW v, NEW a
    PROVE  [value |-> v, ack |-> a].ack = a
  OBVIOUS

\* A call that ends with NO_ERROR is complete, any other was abandoned.
LEMMA EndedFacts ==
    ASSUME MasterInv, Ended
    PROVE  /\ seen.bytes # <<>> /\ ret \in {NO_ERROR, NACKED}
           /\ (ret = NO_ERROR) <=> Transfer!Complete(request, seen.bytes)
           /\ ret = NACKED => Transfer!Abandoned
           /\ (ret = NO_ERROR /\ request.read) => buffer = request.data
  <1>1. Size \in Nat
    BY RequestFacts
  <1>2. \A n : /\ Transfer!Nth(request, n) = Nth(n)
               /\ Transfer!Refused(request, n) <=> Refused(n)
    BY DEF Transfer!Nth, Nth, Transfer!AddressByte, AddressByte, Transfer!Refused, Refused, Size
  <1>3. CASE /\ ret = NO_ERROR /\ seen.bytes = Passed(Size + 1)
             /\ request.read => buffer = request.data
    <2>1. Size + 1 \in 0..(Size + 1)
      BY <1>1
    <2>2. Len(seen.bytes) = Size + 1
      BY <1>3, <2>1, PassedIsBytes
    <2>3. \A n \in 1..(Size + 1) : seen.bytes[n] = [value |-> Nth(n), ack |-> ~Refused(n)]
      BY <1>3 DEF Passed
    <2>4. Transfer!Complete(request, seen.bytes)
      BY <1>2, <2>2, <2>3 DEF Transfer!Complete, Size
    <2>5. seen.bytes # <<>>
      BY <1>1, <2>2
    <2> QED
      BY <1>3, <2>4, <2>5 DEF NO_ERROR, NACKED
  <1>4. CASE ret = NACKED /\ \E n \in 1..(Size + 1) : seen.bytes = Failed(n) /\ ~Refused(n)
    <2>1. PICK n \in 1..(Size + 1) : seen.bytes = Failed(n) /\ ~Refused(n)
      BY <1>4
    <2>2. n - 1 \in 0..(Size + 1)
      BY <1>1
    <2>3. Passed(n - 1) \in Bytes /\ Len(Passed(n - 1)) = n - 1
      BY <2>2, PassedIsBytes
    <2>4. Len(seen.bytes) = n /\ seen.bytes[n] = Saw(Nth(n), 1)
      BY <2>1, <2>3 DEF Failed, Bytes
    <2>5. ~seen.bytes[n].ack
      <3>1. seen.bytes[n] = [value |-> Nth(n), ack |-> FALSE]
        <4>1. (1 = 0) = FALSE
          OBVIOUS
        <4> QED
          BY <2>4, <4>1, Zenon DEF Saw
      <3> QED
        BY <3>1
    <2>6. seen.bytes # <<>>
      BY <1>1, <2>4
    <2>7. Transfer!Abandoned
      BY <2>4, <2>5, <2>6 DEF Transfer!Abandoned
    <2>8. ~Transfer!Complete(request, seen.bytes)
      <3> SUFFICES ASSUME Transfer!Complete(request, seen.bytes)
                   PROVE  FALSE
        OBVIOUS
      <3>1. seen.bytes[n] = [value |-> Transfer!Nth(request, n), ack |-> ~Transfer!Refused(request, n)]
        <4>1. n \in 1..Len(seen.bytes)
          BY <1>1, <2>1, <2>4
        <4> QED
          BY <4>1, Zenon DEF Transfer!Complete
      <3>2. seen.bytes[n].ack = ~Transfer!Refused(request, n)
        BY <3>1, AckOf, Zenon
      <3> QED
        BY <1>2, <2>1, <2>5, <3>2, Zenon
    <2> QED
      BY <1>4, <2>6, <2>7, <2>8 DEF NO_ERROR, NACKED
  <1> QED
    BY <1>3, <1>4 DEF Ended

\* A step inside a call that leaves its result and its arguments.
Inside == phase # "idle" /\ phase' # "idle" /\ request' = request /\ ~late /\ ~late'

LEMMA Opens ==
    ASSUME MasterInv, Inside, seen = Closed(seen.bytes), seen' = Seen(seen.bytes),
           seen.bytes = <<>> \/ (Ended /\ DataRefused)
    PROVE  Transfer!Next
  <1>1. seen.bytes = <<>> \/ (Transfer!Abandoned /\ Len(seen.bytes) > 1 /\ ~request.read)
    BY EndedFacts DEF DataRefused
  <1>2. ~seen.open /\ seen'.open /\ seen'.bytes = seen.bytes
    BY DEF Closed, Seen
  <1>3. Transfer!Open
    BY <1>1, <1>2 DEF Transfer!Open, Transfer!Pending, Inside
  <1> QED
    BY <1>3 DEF Transfer!Next, Inside

LEMMA Closes ==
    ASSUME MasterInv, Inside, seen = Seen(seen.bytes), seen' = Closed(seen.bytes), Ended
    PROVE  Transfer!Next
  <1>1. Transfer!Abandoned \/ Transfer!Complete(request, seen.bytes)
    BY EndedFacts
  <1>2. seen.open /\ ~seen'.open /\ seen'.bytes = seen.bytes
    BY DEF Closed, Seen
  <1>3. Transfer!Close
    BY <1>1, <1>2 DEF Transfer!Close, Transfer!Pending, Inside
  <1> QED
    BY <1>3 DEF Transfer!Next, Inside

LEMMA Passes ==
    ASSUME MasterInv, Inside, NEW n \in 1..(Size + 1), NEW l \in {0, 1},
           seen = Seen(Passed(n - 1)), seen' = Seen(Append(Passed(n - 1), Saw(Nth(n), l))),
           request.read /\ n > 1 => (l = 0 <=> ~Refused(n))
    PROVE  Transfer!Next
  <1>1. Size \in Nat /\ Len(Passed(n - 1)) = n - 1
    <2>1. n - 1 \in 0..(Size + 1)
      BY RequestFacts
    <2> QED
      BY <2>1, RequestFacts, PassedIsBytes
  <1>2. /\ Transfer!Nth(request, n) = Nth(n)
        /\ Transfer!Refused(request, n) <=> Refused(n)
    BY DEF Transfer!Nth, Nth, Transfer!AddressByte, AddressByte, Transfer!Refused, Refused, Size
  <1>3. /\ seen.open /\ seen'.open /\ seen.bytes = Passed(n - 1)
        /\ seen'.bytes = Append(seen.bytes, Saw(Nth(n), l))
    BY DEF Seen
  <1>4. Len(seen.bytes) + 1 = n /\ n <= Len(request.data) + 1
    BY <1>1, <1>3 DEF Size
  <1>5. ~Transfer!Abandoned
    <2>1. CASE n = 1
      <3>1. seen.bytes = <<>>
        BY <1>3, <2>1 DEF Passed
      <3> QED
        BY <3>1 DEF Transfer!Abandoned
    <2>2. CASE n # 1
      <3>1. n - 1 \in 1..(n - 1) /\ n - 1 # Size + 1
        BY <1>1, <2>2
      <3>2. seen.bytes[n - 1] = [value |-> Nth(n - 1), ack |-> ~Refused(n - 1)]
        BY <1>3, <3>1 DEF Passed
      <3>3. seen.bytes[n - 1].ack
        <4>1. ~Refused(n - 1)
          BY <3>1 DEF Refused
        <4>2. PICK x : x = seen.bytes[n - 1]
          OBVIOUS
        <4>3. x = [value |-> Nth(n - 1), ack |-> ~Refused(n - 1)]
          BY <3>2, <4>2, Zenon
        <4>4. x.ack = ~Refused(n - 1)
          BY <4>3, AckOf, Zenon
        <4> QED
          BY <4>1, <4>2, <4>4, Zenon
      <3> QED
        BY <1>1, <1>3, <3>3 DEF Transfer!Abandoned
    <2> QED
      BY <2>1, <2>2
  <1>6. seen'.bytes = Append(seen.bytes, [value |-> Transfer!Nth(request, n), ack |-> l = 0])
    BY <1>2, <1>3 DEF Saw
  <1>7. Transfer!Byte
    <2>1. \E a \in BOOLEAN :
              /\ request.read /\ n > 1 => a = ~Transfer!Refused(request, n)
              /\ seen'.bytes = Append(seen.bytes, [value |-> Transfer!Nth(request, n), ack |-> a])
      <3> WITNESS (l = 0) \in BOOLEAN
      <3> QED
        BY <1>2, <1>6
    <2> QED
      BY <1>3, <1>4, <1>5, <2>1 DEF Transfer!Byte, Transfer!Pending, Inside
  <1> QED
    BY <1>7 DEF Transfer!Next, Inside

LEMMA LateStays ==
    ASSUME [Next]_vars, late \in BOOLEAN
    PROVE  late' \in BOOLEAN /\ (late => late')
  <1>1. late' = late \/ late' = (late \/ StopIsEarly) \/ late' = TRUE
    BY Zenon DEF Next, Master, vars, Call, Drive, Sample, WaitHigh, WaitLow, StartReturns,
       AddressReturns, WriteReturns, ReadReturns, StopReturns, DeviceReleases
  <1> QED
    BY <1>1, Zenon

LEMMA InitSync ==
    ASSUME Init
    PROVE  Sync
  BY DEF Init, Sync, AtRest, Closed, Released, Lines, NO_ERROR

LEMMA CallSync ==
    ASSUME MasterInv, Sync, Call
    PROVE  Sync'
  <1>1. AtRest /\ s \in Lines
    BY DEF Call, Sync
  <1>2. /\ phase' = "start" /\ ip' = 1 /\ i' = 0 /\ buffer' = <<>> /\ ret' = NO_ERROR
        /\ UNCHANGED <<m, s>>
    BY DEF Call
  <1>3. seen' = Closed(<<>>) /\ seen'.bytes = <<>>
    <2>1. PICK b : seen = Closed(b)
      BY <1>1 DEF AtRest
    <2>2. seen' = [seen EXCEPT !.bytes = <<>>]
      BY DEF Call
    <2> QED
      BY <2>1, <2>2 DEF Closed
  <1>4. AtRest'
    BY <1>1, <1>2, <1>3 DEF AtRest
  <1>5. Starting'
    BY <1>2, <1>3, <1>4 DEF Starting
  <1> QED
    BY <1>1, <1>2, <1>5 DEF Sync

\* A call of the GPIO layer: the bus is as the helper expects it, and what is
\* seen of it is a step of the transfer.
LEMMA HelperSync ==
    ASSUME MasterInv, Sync, Helper, ~late, ~late'
    PROVE  /\ Sync' /\ Inside
           /\ seen' = seen \/ Transfer!Next
  <1>1. Running
    BY DEF Helper, Drive, Sample, WaitHigh
  <1>2. m \in Lines /\ s \in Lines
    BY DEF MasterInv, Sync
  <1>3. UNCHANGED <<request, phase, i, buffer, ret>>
    BY <1>2, HelperStep
  <1>4. Inside /\ ip <= Len(Code) /\ Size \in Nat
    BY <1>1, <1>3, RequestFacts DEF Running, Inside
  <1>5. CASE phase = "start"
    <2>1. Starting /\ ret = NO_ERROR
      BY <1>5 DEF Sync
    <2>2. /\ Starting' /\ s' \in Lines
          /\ \/ seen' = seen
             \/ seen = Closed(seen.bytes) /\ seen' = Seen(seen.bytes)
      BY <1>4, <1>5, StartSync
    <2>3. Sync'
      BY <1>3, <1>5, <2>1, <2>2 DEF Sync
    <2>4. seen.bytes = <<>>
      BY <2>1 DEF Starting
    <2> QED
      BY <1>4, <2>2, <2>3, <2>4, Opens
  <1>6. CASE phase = "address"
    <2>1. ret = NO_ERROR
      BY <1>6 DEF Sync
    <2>2. /\ Addressing' /\ s' \in Lines
          /\ \/ seen' = seen
             \/ /\ seen = Seen(<<>>)
                /\ \E a \in {0, 1} : seen' = Seen(Append(<<>>, Saw(AddressByte, a)))
      BY <1>4, <1>6, AddressSync
    <2>3. Sync'
      BY <1>3, <1>6, <2>1, <2>2 DEF Sync
    <2>4. CASE /\ seen = Seen(<<>>)
               /\ \E a \in {0, 1} : seen' = Seen(Append(<<>>, Saw(AddressByte, a)))
      <3>1. PICK l \in {0, 1} : seen' = Seen(Append(<<>>, Saw(AddressByte, l)))
        BY <2>4
      <3>2. PICK n \in 1..(Size + 1) : n = 1
        BY <1>4
      <3>3. Passed(n - 1) = <<>> /\ Nth(n) = AddressByte
        BY <3>2 DEF Passed, Nth
      <3>4. seen = Seen(Passed(n - 1)) /\ seen' = Seen(Append(Passed(n - 1), Saw(Nth(n), l)))
        BY <2>4, <3>1, <3>3
      <3>5. Transfer!Next
        BY <1>4, <3>2, <3>4, Passes
      <3> QED
        BY <1>4, <2>3, <3>5
    <2> QED
      BY <1>4, <2>2, <2>3, <2>4
  <1>7. CASE phase = "data" /\ ~request.read
    <2>1. ret = NO_ERROR /\ i \in 0..(Size - 1)
      BY <1>7 DEF Sync, Writing
    <2>2. /\ Writing' /\ s' \in Lines
          /\ \/ seen' = seen
             \/ /\ seen = Seen(Passed(i + 1))
                /\ \E a \in {0, 1} : seen' = Seen(Append(Passed(i + 1), Saw(Nth(i + 2), a)))
      BY <1>4, <1>7, WritingSync
    <2>3. Sync'
      BY <1>3, <1>7, <2>1, <2>2 DEF Sync
    <2>4. CASE /\ seen = Seen(Passed(i + 1))
               /\ \E a \in {0, 1} : seen' = Seen(Append(Passed(i + 1), Saw(Nth(i + 2), a)))
      <3>1. PICK l \in {0, 1} : seen' = Seen(Append(Passed(i + 1), Saw(Nth(i + 2), l)))
        BY <2>4
      <3>2. PICK n \in 1..(Size + 1) : n = i + 2 /\ n - 1 = i + 1
        BY <1>4, <2>1
      <3>3. seen = Seen(Passed(n - 1)) /\ seen' = Seen(Append(Passed(n - 1), Saw(Nth(n), l)))
        BY <2>4, <3>1, <3>2
      <3>4. Transfer!Next
        BY <1>4, <1>7, <3>3, Passes
      <3> QED
        BY <1>4, <2>3, <3>4
    <2> QED
      BY <1>4, <2>2, <2>3, <2>4
  <1>8. CASE phase = "data" /\ request.read
    <2>1. ret = NO_ERROR /\ i \in 0..(Size - 1)
      BY <1>8 DEF Sync, Reading
    <2>2. /\ Reading' /\ s' \in Lines
          /\ \/ seen' = seen
             \/ /\ seen = Seen(Passed(i + 1))
                /\ seen' = Seen(Append(Passed(i + 1), Saw(Nth(i + 2), AckLevel)))
      BY <1>4, <1>8, ReadingSync
    <2>3. Sync'
      BY <1>3, <1>8, <2>1, <2>2 DEF Sync
    <2>4. CASE /\ seen = Seen(Passed(i + 1))
               /\ seen' = Seen(Append(Passed(i + 1), Saw(Nth(i + 2), AckLevel)))
      <3>1. PICK l \in {0, 1} : l = AckLevel
        BY DEF AckLevel
      <3>2. PICK n \in 1..(Size + 1) : n = i + 2 /\ n - 1 = i + 1
        BY <1>4, <2>1
      <3>3. seen = Seen(Passed(n - 1)) /\ seen' = Seen(Append(Passed(n - 1), Saw(Nth(n), l)))
        BY <2>4, <3>1, <3>2
      <3>4. l = 0 <=> ~Refused(n)
        <4>1. CASE i < Size - 1
          BY <1>4, <2>1, <3>1, <3>2, <4>1 DEF AckLevel, SendAck, Size, Refused
        <4>2. CASE ~(i < Size - 1)
          BY <1>4, <1>8, <2>1, <3>1, <3>2, <4>2 DEF AckLevel, SendAck, Size, Refused
        <4> QED
          BY <4>1, <4>2
      <3>5. Transfer!Next
        BY <1>4, <3>3, <3>4, Passes
      <3> QED
        BY <1>4, <2>3, <3>5
    <2> QED
      BY <1>4, <2>2, <2>3, <2>4
  <1>9. CASE phase \in {"stop", "stop2"}
    <2>1. Ended
      BY <1>9 DEF Sync, Stopping
    <2>2. /\ Stopping' /\ s' \in Lines
          /\ \/ seen' = seen
             \/ DataRefused /\ seen = Closed(seen.bytes) /\ seen' = Seen(seen.bytes)
             \/ seen = Seen(seen.bytes) /\ seen' = Closed(seen.bytes)
      BY <1>4, <1>9, StopSync
    <2>3. Sync'
      BY <1>3, <1>9, <2>2 DEF Sync
    <2> QED
      BY <1>4, <2>1, <2>2, <2>3, Opens, Closes
  <1> QED
    BY <1>4, <1>5, <1>6, <1>7, <1>8, <1>9 DEF MasterInv, Phases, Inside

LEMMA WaitSync ==
    ASSUME Sync, WaitLow, ~late'
    PROVE  /\ Sync' /\ phase # "idle"
           /\ UNCHANGED <<request, phase, ip, i, bits, buffer, ret, m, s, device, seen, late>>
  <1>1. UNCHANGED <<request, phase, ip, i, bits, buffer, ret, m, s, device, seen, late>>
    BY DEF WaitLow
  <1> QED
    BY <1>1, SyncKept DEF WaitLow, Running

LEMMA SyncInit == Init => SyncInv
  BY MasterInit, InitSync DEF SyncInv, Init

\* A step of the master or of the device keeps them together.
LEMMA SyncStep ==
    ASSUME SyncInv, [Next]_vars
    PROVE  SyncInv'
  <1>1. MasterInv' /\ late' \in BOOLEAN
    BY MasterStep, LateStays DEF SyncInv
  <1>2. ASSUME ~late'
        PROVE  Sync'
    <2>1. MasterInv /\ Sync /\ ~late
      BY <1>2, LateStays DEF SyncInv
    <2>2. CASE Call
      BY <2>1, <2>2, CallSync
    <2>3. CASE Helper
      BY <1>2, <2>1, <2>3, HelperSync
    <2>4. CASE WaitLow
      BY <1>2, <2>1, <2>4, WaitSync
    <2>5. CASE \/ StartReturns \/ AddressReturns \/ WriteReturns \/ ReadReturns
               \/ StopReturns \/ DeviceReleases
      BY <2>1, <2>5, StartReturnsSync, AddressReturnsSync, WriteReturnsSync,
         ReadReturnsSync, StopReturnsSync, DeviceKeepsSync
    <2>6. CASE UNCHANGED vars
      BY <2>1, <2>6, SyncKept DEF vars
    <2> QED
      BY <2>2, <2>3, <2>4, <2>5, <2>6 DEF Next, Master, Helper
  <1> QED
    BY <1>1, <1>2 DEF SyncInv

\* When a call returns, neither side holds a line, and the bus is closed.
THEOREM BusReturnsFree == Spec => []BusIsFree
  <1>1. Init => SyncInv
    BY SyncInit
  <1>2. SyncInv /\ [Next]_vars => SyncInv'
    BY SyncStep
  <1>3. SyncInv => BusIsFree
    <2> SUFFICES ASSUME SyncInv, phase = "idle", ~late
                 PROVE  m = Released /\ s = Released /\ ~seen.open
      BY DEF BusIsFree
    <2>1. AtRest
      BY DEF SyncInv, Sync
    <2> QED
      BY <2>1 DEF AtRest, Closed
  <1> QED
    BY <1>1, <1>2, <1>3, PTL DEF Spec

\* Every step is a step of the transfer, or one it does not see.
LEMMA TransferStep ==
    ASSUME SyncInv, [Next]_vars
    PROVE  [Transfer!Next]_Transfer!vars
  <1>1. CASE late'
    BY <1>1 DEF Transfer!Next
  <1>2. CASE ~late'
    <2>1. MasterInv /\ Sync /\ ~late /\ late' = late
      BY <1>2, LateStays DEF SyncInv
    <2>2. CASE Call
      <3>1. phase = "idle" /\ ret \in {NO_ERROR, NACKED} /\ seen = Closed(seen.bytes)
        BY <2>1, <2>2 DEF Call, Sync, AtRest
      <3>2. seen'.bytes = <<>> /\ seen'.open = seen.open
        BY <2>2, <3>1 DEF Call, Closed
      <3>3. Transfer!Begin
        BY <2>2, <3>1, <3>2 DEF Call, Transfer!Begin, Transfer!Pending, NO_ERROR, NACKED
      <3> QED
        BY <1>2, <3>3 DEF Transfer!Next
    <2>3. ASSUME Inside, seen' = seen
          PROVE  UNCHANGED Transfer!vars
      BY <2>1, <2>3 DEF Inside, Transfer!vars
    <2>4. CASE Helper
      BY <1>2, <2>1, <2>3, <2>4, HelperSync
    <2>5. CASE WaitLow
      BY <1>2, <2>1, <2>3, <2>5, WaitSync DEF Inside
    <2>6. CASE DeviceReleases
      <3>1. seen' = seen
        BY <2>1, <2>6, DeviceKeepsSync
      <3> QED
        BY <2>6, <3>1 DEF DeviceReleases, master, Transfer!vars
    <2>7. CASE StartReturns \/ AddressReturns \/ WriteReturns \/ ReadReturns
      <3>1. phase # "idle" /\ seen' = seen /\ request' = request
        BY <2>7 DEF StartReturns, AddressReturns, WriteReturns, ReadReturns, Finished
      <3>2. phase' # "idle"
        BY <2>1, <2>7, StartReturnsSync, AddressReturnsSync, WriteReturnsSync, ReadReturnsSync
      <3> QED
        BY <1>2, <2>1, <2>3, <3>1, <3>2 DEF Inside
    <2>8. CASE StopReturns
      <3>1. /\ phase # "idle" /\ UNCHANGED <<request, buffer, ret, seen>>
            /\ phase' \in {"stop", "idle"}
        BY <2>8 DEF StopReturns, Finished, GoTo
      <3>2. Ended /\ seen = Closed(seen.bytes)
        BY <2>1, <2>8, StopReturnsSync
      <3>3. CASE phase' = "idle"
        <4>1. /\ seen.bytes # <<>> /\ ret \in {NO_ERROR, NACKED}
              /\ (ret = NO_ERROR) <=> Transfer!Complete(request, seen.bytes)
              /\ (ret = NO_ERROR /\ request.read) => buffer = request.data
          BY <2>1, <3>2, EndedFacts
        <4>2. ~seen.open
          BY <3>2 DEF Closed
        <4>3. Transfer!Return
          BY <3>1, <3>3, <4>1, <4>2
             DEF Transfer!Return, Transfer!Results, Transfer!Pending, NO_ERROR, NACKED
        <4> QED
          BY <1>2, <4>3 DEF Transfer!Next
      <3>4. CASE phase' = "stop"
        BY <1>2, <2>1, <2>3, <3>1, <3>4 DEF Inside
      <3> QED
        BY <3>1, <3>3, <3>4
    <2>9. CASE UNCHANGED vars
      BY <2>9 DEF vars, Transfer!vars
    <2> QED
      BY <2>2, <2>4, <2>5, <2>6, <2>7, <2>8, <2>9 DEF Next, Master, Helper
  <1> QED
    BY <1>1, <1>2

\* The bit-banged calls implement byte transfers, whatever the device answers
\* and however long it stretches the clock within the limits.
THEOREM TransferImplemented == Spec => ImplementsTransfer
  <1>1. Init => SyncInv
    BY SyncInit
  <1>2. SyncInv /\ [Next]_vars => SyncInv'
    BY SyncStep
  <1>3. Init => Transfer!Init
    BY DEF Init, Transfer!Init, NO_ERROR
  <1>4. SyncInv /\ [Next]_vars => [Transfer!Next]_Transfer!vars
    BY TransferStep
  <1> QED
    BY <1>1, <1>2, <1>3, <1>4, PTL DEF Spec, ImplementsTransfer, Transfer!Spec

=============================================================================
