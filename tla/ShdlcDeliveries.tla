--------------------------- MODULE ShdlcDeliveries ---------------------------
(* Lines for the model checking of both receivers: responses with reserved  *)
(* bytes in every field, and each of them whole, followed by other bytes,   *)
(* cut at every position, with every byte replaced by every value, with any *)
(* byte lost; and every short byte string over a small alphabet.            *)
EXTENDS ShdlcCodec

Responses ==
    {[addr |-> 0,   cmd |-> 128, state |-> 0,   data |-> <<>>],
     [addr |-> 125, cmd |-> 17,  state |-> 128, data |-> <<126>>],
     [addr |-> 0,   cmd |-> 3,   state |-> 4,   data |-> <<1, 0>>],
     [addr |-> 1,   cmd |-> 19,  state |-> 0,   data |-> <<125, 93>>],
     [addr |-> 0,   cmd |-> 129, state |-> 0,   data |-> <<0>>],      \* checksum 0x7d
     [addr |-> 224, cmd |-> 49,  state |-> 0,   data |-> <<1, 17>>],
     [addr |-> 2,   cmd |-> 3,   state |-> 0,   data |-> <<93, 126>>],
     [addr |-> 0,   cmd |-> 1,   state |-> 0,   data |-> <<17, 0, 19>>]}

\* every byte is escaped, the length and the checksum too: the frame is as long
\* as the request for 17 data bytes, and as the caller's buffer
Longest == [addr |-> 126, cmd |-> 126, state |-> 126,
            data |-> [k \in 1..17 |-> IF k <= 9 THEN 126 ELSE 17]]

Cut(f)        == {SubSeq(f, 1, n) : n \in 0..(Len(f) - 1)}
Changed(f)    == {[f EXCEPT ![k] = b] : k \in 1..Len(f), b \in Byte} \ {f}
WithoutOne(f) == {RemoveAt(f, k) : k \in 1..Len(f)}
Followed(f)   == {f \o t : t \in {<<0>>, <<SHDLC_STOP>>, f, <<ESC, ESC>>}}

DeliveriesOf(r, kind, lines) == [sent : {r}, damage : {kind}, bytes : lines]

DamagedDeliveries ==
    UNION {LET f == Response(r) IN
               DeliveriesOf(r, "none", {f})
                 \cup DeliveriesOf(r, "trailing", Followed(f))
                 \cup DeliveriesOf(r, "late", Cut(f))
                 \cup DeliveriesOf(r, "changed", IF r = Longest THEN {} ELSE Changed(f))
                 \cup DeliveriesOf(r, "lost", WithoutOne(f)) : r \in Responses \cup {Longest}}

\* an escape, the delimiter, and bytes that make checksums match
Alphabet   == {0, 1, ESC, SHDLC_STOP, 254}
Strings(n) == UNION {[1..m -> Alphabet] : m \in 0..n}
NoResponse == [addr |-> 0, cmd |-> 0, state |-> 0, data |-> <<>>]
StringDeliveries(n) ==
    DeliveriesOf(NoResponse, "any", {<<SHDLC_START>> \o s : s \in Strings(n)})

=============================================================================
