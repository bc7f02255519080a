------------------------------ MODULE ShdlcLink ------------------------------
(***************************************************************************)
(* Repeated sensirion_shdlc_xcv calls on a line with a sensor: the call    *)
(* sends a request, sleeps RX_DELAY_US, and reads what the UART has        *)
(* received by then.  Sensor and line run on their own: the response       *)
(* arrives byte by byte, before, during or after the call that asked for   *)
(* it, and the bytes a call does not read are there for the next one.      *)
(*                                                                         *)
(* A response byte carries, for the specification only, the call it        *)
(* belongs to.  A request is one message: ShdlcTx shows that a cut request *)
(* is none for the sensor (IncompleteIsRejected), and ShdlcRx that         *)
(* sensirion_shdlc_rx accepts what IsResponse says (AcceptsExactly).       *)
(*                                                                         *)
(* Late wake-ups, errors of the UART, cut or lost requests and lost bytes  *)
(* are faults, of which a behaviour has at most MaxFaults.                 *)
(***************************************************************************)
EXTENDS ShdlcCodec

CONSTANTS
    NumCalls,       \* call identities 0 .. NumCalls-1, used in turn
    Script,         \* the response of the sensor to each call
    MaxRxDataLen,   \* max_rx_data_len of the calls
    MaxFaults,
    Blocking        \* read() waits for a first byte, as on the Linux UART

Calls   == 0..(NumCalls - 1)
Failed  == -1       \* any error: header and data are to be discarded
Spliced == -2       \* a response the sensor never sent

\* the header fields and the data of a response
Fields(r) == <<r.addr, r.cmd, r.state, Len(r.data)>> \o r.data

ASSUME LinkAssumption ==
    /\ NumCalls \in Nat \ {0} /\ MaxRxDataLen \in Byte /\ MaxFaults \in Nat
    /\ Blocking \in BOOLEAN
    /\ \A c \in Calls : IsAnswer(Script[c])
    \* each response says which call it answers
    /\ \A c, d \in Calls : Fields(Script[c]) = Fields(Script[d]) => c = d
    \* a read asks for more than one response: true of every response whose
    \* bytes are not all escaped, and so of every one without an error state
    /\ \A c \in Calls : Len(Response(Script[c])) < RxRequest(MaxRxDataLen)

\* no response reports an error, and the caller has room for each
ASSUME RoomAssumption ==
    \A c \in Calls : ~StateError(Script[c].state) /\ Len(Script[c].data) <= MaxRxDataLen

VARIABLES
    host,       \* "ready", "sleeping" or "receiving"
    call,       \* the current or, when the host is ready, the next call
    result,     \* of the last call to return: a call's response, or Failed
    requests,   \* requests the sensor has yet to answer
    out,        \* bytes of the response the sensor is sending
    uart,       \* bytes received and not yet read
    faults,
    torn        \* a byte of a response was lost, for the specification only

linkVars == <<host, call, result, requests, out, uart, faults, torn>>

LinkInit ==
    /\ host = "ready" /\ call = 0 /\ result = Failed
    /\ requests = <<>> /\ out = <<>> /\ uart = <<>> /\ faults = 0
    /\ torn = FALSE

Bytes(s) == [k \in 1..Len(s) |-> s[k].byte]

Tagged(c) ==
    LET r == Response(Script[c]) IN [k \in 1..Len(r) |-> [byte |-> r[k], of |-> c]]

\* equal neighbours as one
Merged(s) ==
    FlattenSeq([k \in 1..Len(s) |-> IF k > 1 /\ s[k - 1] = s[k] THEN <<>> ELSE <<s[k]>>])

\* the calls some of whose response is still to be read, oldest first
Owners(s) == [k \in 1..Len(s) |-> s[k].of]
Open == Merged(Owners(uart) \o Owners(out) \o requests)

Fault == faults < MaxFaults /\ faults' = faults + 1

-----------------------------------------------------------------------------
(* The host: sensirion_shdlc_xcv.                                          *)

ReturnFromCall(r) ==
    /\ result' = r
    /\ host' = "ready" /\ call' = (call + 1) % NumCalls

\* The request of the call reaches the sensor.  NumCalls bounds the responses
\* under way: an identity is used again when nothing of its former response is
\* left.
RequestArrives ==
    /\ ~Contains(requests, call)
    /\ \A s \in {uart, out} : \A k \in 1..Len(s) : s[k].of # call
    /\ requests' = Append(requests, call)

\* sensirion_shdlc_tx
HostTx ==
    /\ host = "ready" /\ RequestArrives
    /\ host' = "sleeping"
    /\ UNCHANGED <<call, result, out, uart, faults, torn>>

\* tx is incomplete or reports an error of the UART, and xcv returns without
\* receiving.  The error may follow the last byte: the sensor then answers a
\* call that is over.
HostTxFails ==
    /\ host = "ready" /\ Fault
    /\ ReturnFromCall(Failed)
    /\ UNCHANGED requests \/ RequestArrives
    /\ UNCHANGED <<out, uart, torn>>

\* sensirion_uart_hal_sleep_usec is over, the response having arrived
HostWakes ==
    /\ host = "sleeping" /\ requests = <<>> /\ out = <<>>
    /\ host' = "receiving"
    /\ UNCHANGED <<call, result, requests, out, uart, faults, torn>>

\* the same before the sensor has answered
HostWakesEarly ==
    /\ host = "sleeping" /\ (requests # <<>> \/ out # <<>>) /\ Fault
    /\ host' = "receiving"
    /\ UNCHANGED <<call, result, requests, out, uart, torn>>

\* the call whose response b is: header fields, data and checksum
Original(b) ==
    LET of == {c \in Calls : Fields(Script[c]) = Front(b)}
    IN IF of = {} THEN Spliced ELSE CHOOSE c \in of : TRUE

OutcomesByStop(frame) ==
    IF frame # <<>> /\ frame[1] = SHDLC_START /\ Last(frame) = SHDLC_STOP
    THEN {call} ELSE {Failed}

\* what sensirion_shdlc_rx makes of the bytes read, a set of one element: the
\* length in the header leaves one place for the delimiter
Outcomes(frame) ==
    LET good == {b \in ResponsesIn(UnstuffByte, frame, MaxRxDataLen) : ~StateError(b[3])}
    IN IF good = {} THEN {Failed} ELSE {Original(b) : b \in good}

\* one read of at most n bytes
Read(n) ==
    /\ \E frame \in {Bytes(Prefix(uart, n))} : \E r \in Outcomes(frame) : ReturnFromCall(r)
    /\ uart' = SubSeq(uart, n + 1, Len(uart))
    /\ UNCHANGED <<requests, out, faults, torn>>

HostRxKeepsBytes ==
    /\ host = "receiving" /\ (Blocking => uart # <<>>)
    /\ \E r \in Outcomes(Bytes(Prefix(uart, RxRequest(MaxRxDataLen)))) : ReturnFromCall(r)
    /\ UNCHANGED <<uart, requests, out, faults, torn>>

HostRxReadsUnstuffed ==
    /\ host = "receiving" /\ (Blocking => uart # <<>>)
    /\ Read(7 + MaxRxDataLen)

HostRxUntilAnswered ==
    /\ host = "receiving" /\ uart # <<>>
    /\ Read(RxRequest(MaxRxDataLen))

\* sensirion_shdlc_rx: one read, of at most the bytes of the longest response
HostRx ==
    /\ host = "receiving" /\ (Blocking => uart # <<>>)
    /\ Read(RxRequest(MaxRxDataLen))

\* the UART reports an error instead of what it has taken, which may be nothing
HostRxFails ==
    /\ host = "receiving" /\ Fault
    /\ ReturnFromCall(Failed)
    /\ \E n \in 0..Len(uart) :
           n <= RxRequest(MaxRxDataLen) /\ uart' = SubSeq(uart, n + 1, Len(uart))
    /\ UNCHANGED <<requests, out, torn>>

-----------------------------------------------------------------------------
(* The sensor and the line, which are not part of the repository.          *)

SensorAnswers ==
    /\ requests # <<>> /\ out = <<>>
    /\ out' = Tagged(Head(requests)) /\ requests' = Tail(requests)
    /\ UNCHANGED <<host, call, result, uart, faults, torn>>

ByteArrives ==
    /\ out # <<>>
    /\ uart' = Append(uart, Head(out)) /\ out' = Tail(out)
    /\ UNCHANGED <<host, call, result, requests, faults, torn>>

ByteIsLost ==
    /\ out # <<>> /\ Fault
    /\ out' = Tail(out) /\ torn' = TRUE
    /\ UNCHANGED <<host, call, result, requests, uart>>

RequestIsLost ==
    /\ requests # <<>> /\ Fault
    /\ requests' = Tail(requests)
    /\ UNCHANGED <<host, call, result, out, uart, torn>>

Host   == HostTx \/ HostWakes \/ HostRx
Sensor == SensorAnswers \/ ByteArrives
Faulty == HostTxFails \/ HostWakesEarly \/ HostRxFails \/ ByteIsLost \/ RequestIsLost

LinkNext == Host \/ Sensor \/ Faulty

\* The host is a sequential program that is never stopped, a sleep ends, and a
\* sensor that has a request answers it; nothing makes a fault happen.
LinkSpec ==
    LinkInit /\ [][LinkNext]_linkVars /\ WF_linkVars(Host) /\ WF_linkVars(Sensor)

-----------------------------------------------------------------------------
(* Properties.                                                             *)

\* xcv implements the exchange of ShdlcExchange: whatever is late, whichever
\* requests are lost, and whichever are answered although their call reported
\* an error, it never returns a response put together from two, or one a second
\* time, or an older one after a newer one, as long as every response that the
\* sensor begins arrives in full.
Exchange == INSTANCE ShdlcExchange WITH open <- Open
ImplementsExchange == Exchange!Spec

\* As long as nothing was late, lost or failed, each call returns its own response: no
\* byte of a response is left in the UART for the next call.
OwnResponse ==
    [][host = "receiving" /\ host' = "ready" /\ faults' = 0 => result' = call]_linkVars

\* After the last fault xcv finds back to the frames, with no flush and no
\* check of the command: from some call on each returns its own response.
Resynchronises ==
    <>[](host = "ready" => result = (call + NumCalls - 1) % NumCalls)

\* Every call of xcv returns, with 0 or with an error code.
EveryCallReturns == []<>(host = "ready")

=============================================================================
