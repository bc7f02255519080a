----------------------------- MODULE I2cTransfer -----------------------------
(***************************************************************************)
(* What one call of sensirion_i2c_hal_read or sensirion_i2c_hal_write      *)
(* promises, at the level of bytes: between the call and its return the    *)
(* bus is opened (START) and closed (STOP), the bytes on it are those of   *)
(* the request, in order and none after one that was not acknowledged, and *)
(* the result is NO_ERROR if and only if all of them went through.         *)
(* Nothing is promised once the device is late: once it has stretched the  *)
(* clock for longer than the master waits.                                 *)
(***************************************************************************)
EXTENDS Integers, Sequences

CONSTANT Requests       \* [read : BOOLEAN, addr, data]: the bytes to transfer

VARIABLES
    request,    \* arguments of the call, for a read with the bytes it is sent
    open,       \* between START and STOP
    bytes,      \* bytes transferred: value, and whether the receiver took it
    result,     \* of the last call, or Pending
    data,       \* what the last call has read
    late

vars == <<request, open, bytes, result, data, late>>

Pending == -1
Results == 0..2         \* NO_ERROR, not acknowledged, I2C_BUS_ERROR

Init ==
    /\ request \in Requests /\ open = FALSE /\ bytes = <<>>
    /\ result = 0 /\ data = <<>> /\ late = FALSE

AddressByte(r) == r.addr * 2 + (IF r.read THEN 1 ELSE 0)

\* the n-th byte of a transfer; the master refuses the last byte it reads
Nth(r, n) == IF n = 1 THEN AddressByte(r) ELSE r.data[n - 1]
Refused(r, n) == r.read /\ n > 1 /\ n = Len(r.data) + 1

Complete(r, s) ==
    /\ Len(s) = Len(r.data) + 1
    /\ \A n \in 1..Len(s) : s[n] = [value |-> Nth(r, n), ack |-> ~Refused(r, n)]

\* a byte that the device did not acknowledge ends a transfer
Abandoned == bytes # <<>> /\ ~bytes[Len(bytes)].ack

Begin ==
    /\ result # Pending /\ result' = Pending
    /\ request' \in Requests /\ bytes' = <<>> /\ data' = <<>>
    /\ UNCHANGED open

\* one START, and an empty transaction after a data byte that was refused
Open ==
    /\ result = Pending /\ ~open /\ open' = TRUE
    /\ bytes = <<>> \/ (Abandoned /\ Len(bytes) > 1 /\ ~request.read)
    /\ UNCHANGED <<request, bytes, result, data>>

Close ==
    /\ result = Pending /\ open /\ open' = FALSE
    /\ Abandoned \/ Complete(request, bytes)
    /\ UNCHANGED <<request, bytes, result, data>>

\* a sender goes on only after an acknowledgement
Byte ==
    LET n == Len(bytes) + 1 IN
    /\ result = Pending /\ open /\ ~Abandoned /\ n <= Len(request.data) + 1
    /\ \E a \in BOOLEAN :
           /\ request.read /\ n > 1 => a = ~Refused(request, n)
           /\ bytes' = Append(bytes, [value |-> Nth(request, n), ack |-> a])
    /\ UNCHANGED <<request, open, result, data>>

Return ==
    /\ result = Pending /\ ~open /\ bytes # <<>>
    /\ result' \in Results /\ (result' = 0 <=> Complete(request, bytes))
    /\ result' = 0 /\ request.read => data' = request.data
    /\ UNCHANGED <<request, open, bytes>>

Next == late' \/ (~late' /\ (Begin \/ Open \/ Close \/ Byte \/ Return))

Spec == Init /\ [][Next]_vars

=============================================================================
