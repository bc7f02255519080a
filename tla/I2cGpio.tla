------------------------------- MODULE I2cGpio -------------------------------
(***************************************************************************)
(* The bit-banged I2C master of GPIO_bit_banging/sensirion_i2c_hal.c on a  *)
(* bus with one device.  Both lines are wired AND: a line is high if       *)
(* nobody pulls it low.  The master does one call of the GPIO layer per    *)
(* step, SCL_in() releasing the line ("scl1") and SCL_out() pulling it low *)
(* ("scl0"); the sleeps between them are where the device acts.            *)
(*                                                                         *)
(* The device is not part of the repository.  It follows the edges of the  *)
(* lines, acknowledges bytes or does not, sends bytes, and may hold SCL    *)
(* low after any falling edge, for as long as it likes (clock stretching). *)
(***************************************************************************)
EXTENDS Integers, Sequences

CONSTANTS
    Requests,           \* calls: [read : BOOLEAN, addr, data]
    DeviceAddress,
    MaxPolls            \* timeout_cycles - 1, the polls of one wait

ASSUME BusAssumption ==
    /\ MaxPolls \in Nat \ {0} /\ DeviceAddress \in 0..127
    \* a read of no bytes leaves the device sending, see the README
    /\ \A r \in Requests : r.read \in BOOLEAN /\ r.addr \in 0..127
                           /\ r.data \in Seq(0..255) /\ (r.read => r.data # <<>>)

NO_ERROR == 0
NACKED == 1             \* write_byte returns the level of the ninth bit
I2C_BUS_ERROR == 2

VARIABLES
    request,    \* arguments of the running or last call; data is what a write
                \* sends, or what the device sends to a read
    phase,      \* the helper the call is in: "start", "address", "data",
                \* "stop" or "stop2", and "idle" between calls
    ip,         \* next GPIO call of that helper
    polls,      \* polls left in wait_while_clock_stretching
    i,          \* data bytes finished
    bits,       \* bits sampled by the running helper
    buffer,     \* bytes read
    ret,        \* result of the helper, then of the call
    m, s,       \* lines as the master and the device drive them
    device,     \* the device's protocol state
    seen,       \* the bus: between START and STOP or not, and the bytes of
                \* this call with their acknowledgements
    late        \* some stretch has outlasted what the master waits for

vars == <<request, phase, ip, polls, i, bits, buffer, ret, m, s, device, seen, late>>
master == <<request, phase, ip, polls, i, bits, buffer, ret>>

Released == [scl |-> 1, sda |-> 1]

\* the bits of the byte under way, the bytes left to send, and whether the byte
\* is the first of the transfer
Device(mode, w, left, first) ==
    [mode |-> mode, bits |-> w, left |-> left, first |-> first]
Idle == Device("idle", <<>>, <<>>, FALSE)

\* sensirion_i2c_hal_init releases both lines
Init ==
    /\ request \in Requests /\ phase = "idle" /\ ip = 1 /\ polls = MaxPolls
    /\ i = 0 /\ bits = <<>> /\ buffer = <<>> /\ ret = NO_ERROR
    /\ m = Released /\ s = Released /\ device = Idle
    /\ seen = [open |-> FALSE, bytes |-> <<>>] /\ late = FALSE

Bus(a, b) == [scl |-> a.scl * b.scl, sda |-> a.sda * b.sda]
SCL == Bus(m, s).scl
SDA == Bus(m, s).sda

BitsOf(b)  == [k \in 1..8 |-> (b \div 2^(8 - k)) % 2]
ValueOf(w) == 128 * w[1] + 64 * w[2] + 32 * w[3] + 16 * w[4]
                + 8 * w[5] + 4 * w[6] + 2 * w[7] + w[8]

-----------------------------------------------------------------------------
(* The device.                                                             *)

Send(rest) == Device("transmit", BitsOf(Head(rest)), rest, FALSE)
Saw(byte, bit) == [value |-> byte, ack |-> bit = 0]

\* what the device may answer to the eighth bit: 0 acknowledges
Answers(d) ==
    IF d.first /\ ValueOf(d.bits) \div 2 # DeviceAddress THEN {1} ELSE {0, 1}

\* SDA while the device is in state d between two falling edges
DataLevel(d) == IF d.mode = "transmit" THEN d.bits[1] ELSE 1

\* the device after a falling edge of SCL: state, SDA level, bytes completed
AfterFall(d) ==
    CASE d.mode = "receive" /\ Len(d.bits) = 8 ->
            {[d |-> Device("answered", Append(d.bits, a), d.left, d.first),
              sda |-> a, new |-> <<>>] : a \in Answers(d)}
      [] d.mode = "answered" ->
            LET byte == ValueOf(SubSeq(d.bits, 1, 8))
                next == IF d.bits[9] = 1 THEN Idle
                        ELSE IF d.first /\ byte % 2 = 1 THEN Send(d.left)
                        ELSE Device("receive", <<>>, d.left, FALSE)
            IN {[d |-> next, sda |-> DataLevel(next), new |-> <<Saw(byte, d.bits[9])>>]}
      [] d.mode = "transmit" ->
            LET rest == Tail(d.bits)
                next == Device(IF rest = <<>> THEN "sent" ELSE "transmit", rest, d.left, FALSE)
            IN {[d |-> next, sda |-> DataLevel(next), new |-> <<>>]}
      [] d.mode = "sent" ->     \* bits holds the master's answer
            LET rest == IF Len(d.left) = 1 THEN <<0>> ELSE Tail(d.left)
                next == IF d.bits = <<1>> THEN Idle ELSE Send(rest)
            IN {[d |-> next, sda |-> DataLevel(next), new |-> <<Saw(Head(d.left), d.bits[1])>>]}
      [] OTHER -> {[d |-> d, sda |-> 1, new |-> <<>>]}

\* after a rising edge: it samples what the other side sends
AfterRise(d, sda) ==
    IF d.mode \in {"receive", "sent"}
    THEN Device(d.mode, Append(d.bits, sda), d.left, d.first) ELSE d

\* what follows from the lines going from (m, s) to (a, b)
Edges(a, b) ==
    LET old == Bus(m, s)
        new == Bus(a, b)
    IN /\ m' = a
       /\ \/ /\ old.scl = 1 /\ new.scl = 1 /\ old.sda = 1 /\ new.sda = 0
             /\ seen' = [seen EXCEPT !.open = TRUE] /\ s' = Released
             /\ device' = Device("receive", <<>>, request.data, TRUE)
          \/ /\ old.scl = 1 /\ new.scl = 1 /\ old.sda = 0 /\ new.sda = 1
             /\ seen' = [seen EXCEPT !.open = FALSE] /\ s' = Released /\ device' = Idle
          \/ /\ old.scl = 0 /\ new.scl = 1
             /\ device' = AfterRise(device, new.sda) /\ s' = b /\ UNCHANGED seen
          \/ /\ old.scl = 1 /\ new.scl = 0
             /\ \E r \in AfterFall(device) : \E stretch \in {0, 1} :
                    /\ stretch = 0 => r.d.mode # "idle"
                    /\ device' = r.d /\ s' = [scl |-> stretch, sda |-> r.sda]
                    /\ seen' = [seen EXCEPT !.bytes = @ \o r.new]
          \/ /\ old.scl = new.scl /\ (old.scl = 1 => old.sda = new.sda)
             /\ s' = b /\ UNCHANGED <<device, seen>>

\* the device ends a stretch
DeviceReleases ==
    /\ s.scl = 0
    /\ Edges(m, [s EXCEPT !.scl = 1])
    /\ UNCHANGED <<master, late>>

-----------------------------------------------------------------------------
(* The helpers, as sequences of calls of the GPIO layer.                   *)

Start == <<"scl1", "wait", "sda0", "scl0">>
StopHoldsData == <<"sda0", "scl1">>
Stop  == <<"sda0", "scl1", "sda1">>

Level(bit) == IF bit = 1 THEN "sda1" ELSE "sda0"

\* eight rounds of four calls, one after the other
Rounds(calls) == [n \in 1..32 |-> calls[(n + 3) \div 4][((n - 1) % 4) + 1]]

WriteByteNoWait(b) ==
    Rounds([k \in 1..8 |-> <<"scl0", Level(BitsOf(b)[k]), "scl1", "wait">>])
      \o <<"scl0", "sda1", "scl1", "sample", "scl0">>

\* sensirion_i2c_gpio_write_byte; "sample" of the ninth bit is nack
WriteByte(b) ==
    Rounds([k \in 1..8 |-> <<"scl0", Level(BitsOf(b)[k]), "scl1", "wait">>])
      \o <<"scl0", "sda1", "scl1", "wait", "sample", "scl0">>

\* sensirion_i2c_gpio_read_byte
ReadByte(ack) ==
    <<"sda1">> \o Rounds([k \in 1..8 |-> <<"scl1", "wait", "sample", "scl0">>])
      \o <<IF ack THEN "sda0" ELSE "sda1", "scl1", "wait", "scl0", "sda1">>

AddressByte == request.addr * 2 + (IF request.read THEN 1 ELSE 0)

SendAckAlways == TRUE

\* last byte must be NACK'ed
SendAck == i < Len(request.data) - 1

Code ==
    CASE phase = "start"   -> Start
      [] phase = "address" -> WriteByte(AddressByte)
      [] phase = "data"    -> IF request.read THEN ReadByte(SendAck)
                              ELSE WriteByte(request.data[i + 1])
      [] OTHER             -> Stop

-----------------------------------------------------------------------------
(* The master.                                                             *)

Step == ip' = ip + 1 /\ polls' = MaxPolls

Running == phase # "idle" /\ ip <= Len(Code)

\* sensirion_i2c_gpio_stop does not wait for SCL before it releases SDA
StopIsEarly == phase \in {"stop", "stop2"} /\ Code[ip] = "sda1" /\ SCL = 0

Drive ==
    /\ Running /\ Code[ip] \in {"scl0", "scl1", "sda0", "sda1"}
    /\ Edges(CASE Code[ip] = "scl0" -> [m EXCEPT !.scl = 0]
               [] Code[ip] = "scl1" -> [m EXCEPT !.scl = 1]
               [] Code[ip] = "sda0" -> [m EXCEPT !.sda = 0]
               [] Code[ip] = "sda1" -> [m EXCEPT !.sda = 1], s)
    /\ Step
    /\ late' = (late \/ StopIsEarly)
    /\ UNCHANGED <<request, phase, i, bits, buffer, ret>>

\* sensirion_i2c_gpio_SDA_read
Sample ==
    /\ Running /\ Code[ip] = "sample"
    /\ bits' = Append(bits, SDA) /\ Step
    /\ UNCHANGED <<request, phase, i, buffer, ret, m, s, device, seen, late>>

\* one round of wait_while_clock_stretching that finds SCL high
WaitHigh ==
    /\ Running /\ Code[ip] = "wait" /\ SCL = 1
    /\ Step
    /\ UNCHANGED <<request, phase, i, bits, buffer, ret, m, s, device, seen, late>>

WaitLowForever ==
    /\ Running /\ Code[ip] = "wait" /\ SCL = 0
    /\ UNCHANGED vars

\* the same with SCL low; the last poll makes start, write_byte or read_byte
\* return at once
WaitLow ==
    /\ Running /\ Code[ip] = "wait" /\ SCL = 0
    /\ IF polls > 1 THEN polls' = polls - 1 /\ UNCHANGED <<ip, ret, late>>
       ELSE /\ polls' = MaxPolls /\ ip' = Len(Code) + 1 /\ ret' = I2C_BUS_ERROR
            /\ late' = TRUE
    /\ UNCHANGED <<request, phase, i, bits, buffer, m, s, device, seen>>

Call ==
    /\ phase = "idle"
    /\ request' \in Requests /\ phase' = "start" /\ ip' = 1
    /\ i' = 0 /\ bits' = <<>> /\ buffer' = <<>> /\ ret' = NO_ERROR
    /\ seen' = [seen EXCEPT !.bytes = <<>>]
    /\ UNCHANGED <<polls, m, s, device, late>>

GoTo(p) == phase' = p /\ ip' = 1 /\ bits' = <<>>

Finished(p) == phase = p /\ ip > Len(Code)

\* start failed: no STOP
StartReturns ==
    /\ Finished("start")
    /\ GoTo(IF ret = NO_ERROR THEN "address" ELSE "idle")
    /\ UNCHANGED <<request, polls, i, buffer, ret, m, s, device, seen, late>>

\* the result of write_byte
Written == IF ret # NO_ERROR THEN ret ELSE bits[1]

AddressReturns ==
    /\ Finished("address")
    /\ ret' = Written
    /\ GoTo(IF ret' = NO_ERROR /\ request.data # <<>> THEN "data" ELSE "stop")
    /\ UNCHANGED <<request, polls, i, buffer, m, s, device, seen, late>>

\* hal_write stops, breaks, and stops again after a byte that failed
WriteReturns ==
    /\ Finished("data") /\ ~request.read
    /\ ret' = Written /\ i' = i + 1
    /\ GoTo(IF ret' # NO_ERROR THEN "stop2"
            ELSE IF i' < Len(request.data) THEN "data" ELSE "stop")
    /\ UNCHANGED <<request, polls, buffer, m, s, device, seen, late>>

\* hal_read takes whatever read_byte returns, 0xff on a timeout, and goes on
ReadReturns ==
    /\ Finished("data") /\ request.read
    /\ buffer' = Append(buffer, IF ret # NO_ERROR THEN 255 ELSE ValueOf(bits))
    /\ ret' = NO_ERROR /\ i' = i + 1
    /\ GoTo(IF i' < Len(request.data) THEN "data" ELSE "stop")
    /\ UNCHANGED <<request, polls, m, s, device, seen, late>>

StopReturns ==
    /\ \/ Finished("stop2") /\ GoTo("stop")
       \/ Finished("stop") /\ GoTo("idle")
    /\ UNCHANGED <<request, polls, i, buffer, ret, m, s, device, seen, late>>

Master ==
    \/ Call \/ Drive \/ Sample \/ WaitHigh \/ WaitLow
    \/ StartReturns \/ AddressReturns \/ WriteReturns \/ ReadReturns \/ StopReturns

Next == Master \/ DeviceReleases

\* The master is a program that is never stopped; nothing obliges the device to
\* end a stretch.
Spec == Init /\ [][Next]_vars /\ WF_vars(Master)

-----------------------------------------------------------------------------
(* Properties.                                                             *)

\* The bit-banged calls implement byte transfers: no START or STOP inside a
\* byte, no byte after one that was refused, NO_ERROR exactly for a complete
\* transfer, and with it the bytes the device sent, whatever the device answers
\* and stretches within the limits.
Transfer == INSTANCE I2cTransfer WITH
    open   <- seen.open,
    bytes  <- seen.bytes,
    result <- IF phase = "idle" THEN ret ELSE -1,
    data   <- IF phase = "idle" THEN buffer ELSE <<>>
ImplementsTransfer == Transfer!Spec

\* When a call returns, neither side holds a line, and the bus is closed: the
\* next call, of this or of another driver, finds it free.
BusIsFree == phase = "idle" /\ ~late => m = Released /\ s = Released /\ ~seen.open

\* Every call returns, even if the device holds the clock for ever.
EveryCallReturns == []<>(phase = "idle")

\* The master keeps no line low between calls, not even after a timeout.
MasterReleases == phase = "idle" => m = Released

\* "returns 0 on success, error code otherwise" (hal_read): a read that reports
\* no error returns what the device has sent.
Succeeds == phase # "idle" /\ phase' = "idle" /\ ret' = NO_ERROR

ReadIsFaithful == [][Succeeds /\ request.read => buffer' = request.data]_vars

=============================================================================
