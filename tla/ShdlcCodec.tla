----------------------------- MODULE ShdlcCodec -----------------------------
(***************************************************************************)
(* Whole-frame operators: the checksum, byte stuffing of a sequence, and   *)
(* the frame sensirion_shdlc_tx builds.  The response frame is the         *)
(* sensor's side of the protocol, which is not in the repository: it is    *)
(* the frame both receivers expect, one state byte longer than a request.  *)
(***************************************************************************)
EXTENDS ShdlcBytes, SequencesExt

SumBytes(s) == FoldLeft(LAMBDA acc, b : acc + b, 0, s)

\* sensirion_shdlc_checksum: header_sum is the sum of the header bytes
Checksum(header, d) == Not8(Uint8(SumBytes(header) + Len(d) + SumBytes(d)))

\* sensirion_shdlc_stuff_data
StuffData(s) == FoldLeft(LAMBDA acc, b : acc \o StuffByte(b), <<>>, s)

Frame(header, d) ==
    <<SHDLC_START>>
      \o StuffData(header \o <<Len(d)>> \o d \o <<Checksum(header, d)>>)
      \o <<SHDLC_STOP>>

RequestRawCrc(addr, cmd, d) ==
    <<SHDLC_START>> \o StuffData(<<addr, cmd, Len(d)>> \o d)
      \o <<Checksum(<<addr, cmd>>, d), SHDLC_STOP>>

\* the buffer sensirion_shdlc_tx hands to the UART
Request(addr, cmd, d) == Frame(<<addr, cmd>>, d)

\* what a sensor answers: r = [addr, cmd, state, data]
Response(r) == Frame(<<r.addr, r.cmd, r.state>>, r.data)

\* its fields are bytes, and so is the length of its data
IsAnswer(r) ==
    /\ {r.addr, r.cmd, r.state, Len(r.data)} \subseteq Byte
    /\ r.data \in Seq(Byte)

\* 2 + (5 + max_data_len) * 2, the number of bytes both receivers ask for
RxRequest(n) == 2 + (5 + n) * 2

\* the number of bytes a request or its stuffed parts take at most
MaxFrameSize(n) == 2 + (4 + n) * 2

\* 0x7F & state
StateError(state) == state % 128 # 0

Prefix(s, n) == SubSeq(s, 1, IF n < Len(s) THEN n ELSE Len(s))

-----------------------------------------------------------------------------
(* The line.  A delivery is what the UART has for one call of a receiver:   *)
(* what the sensor sent, what happened to it on the way, and the bytes.     *)

\* s is f with another byte at k
ChangedAt(f, s, k) ==
    Len(s) = Len(f) /\ s[k] # f[k] /\ \A j \in 1..Len(f) \ {k} : s[j] = f[j]

\* A response arrives whole, followed by other bytes, cut because its end is late, with
\* one byte changed, or with one byte lost; "any" bytes are those of no response.
IsDelivery(v) ==
    /\ v.bytes \in Seq(Byte)
    /\ v.damage \in {"none", "trailing", "late", "changed", "lost", "any"}
    /\ v.damage # "any" =>
         LET f == Response(v.sent) IN
         /\ IsAnswer(v.sent)
         /\ v.damage \in {"none", "trailing"} => IsPrefix(f, v.bytes)
         /\ v.damage = "late" => IsStrictPrefix(v.bytes, f)
         /\ v.damage = "changed" => \E k \in 1..Len(f) : ChangedAt(f, v.bytes, k)
         /\ v.damage = "lost" => \E k \in 1..Len(f) : v.bytes = RemoveAt(f, k)

\* The damage the checksum can tell.  It is a sum: a header whose bytes move by one, a
\* zero lost or an escape made or broken, keeps it, and is found out because the length
\* is then read as a state, or a state as the length, but not for the lengths 128 and 224
\* and for these error states; nor does the sum tell 7d 7d 5e from 5d 7d 5e.
Noticeable(v) ==
    LET f == Response(v.sent) IN
    /\ v.damage # "any"
    /\ v.damage \in {"changed", "lost"} =>
           Len(v.sent.data) \notin {128, 224} /\ v.sent.state \notin {Len(v.sent.data) + 1, 224}
    /\ v.damage = "changed" =>
           ~\E k \in 1..(Len(f) - 1) :
                f[k] \in {61, 93, 157} /\ f[k + 1] = ESC /\ v.bytes[k] = ESC

-----------------------------------------------------------------------------
(* The reference decoding.  unescape gives the byte an escaped byte stands *)
(* for; it is a parameter because sensirion_shdlc_rx and rx_inplace differ *)
(* in it on the escapes no encoder produces.                               *)

\* the bytes a stuffed body stands for, and whether it ends in an escape
Destuff(unescape(_), body) ==
    FoldLeft(LAMBDA acc, b :
                 IF acc.esc THEN [out |-> Append(acc.out, unescape(b)), esc |-> FALSE]
                 ELSE IF b = ESC THEN [acc EXCEPT !.esc = TRUE]
                 ELSE [acc EXCEPT !.out = Append(@, b)],
             [out |-> <<>>, esc |-> FALSE], body)

\* the destuffed responses frame starts with: a header, as many data bytes as
\* it says and at most limit, and a checksum that brings the sum to 0xff
ResponsesIn(unescape(_), frame, limit) ==
    {b \in {u.out : u \in {v \in {Destuff(unescape, SubSeq(frame, 2, e - 1)) :
                                  e \in {k \in 7..Len(frame) :
                                            frame[1] = SHDLC_START /\ frame[k] = SHDLC_STOP}} :
                            ~v.esc}} :
        /\ Len(b) >= 5 /\ b[4] = Len(b) - 5 /\ b[4] <= limit
        /\ SumBytes(b) % 256 = 255}

IsResponse(unescape(_), frame, limit) == ResponsesIn(unescape, frame, limit) # {}

=============================================================================
