------------------------------- MODULE MCI2cRx -------------------------------
(* Responses for I2cRx, undamaged and damaged, and receive buffers that     *)
(* hold zeros or an earlier copy of the same response.                      *)
EXTENDS I2cRx

Delivery(sent, damage, bytes) ==
    [length |-> Len(sent), sent |-> sent, damage |-> damage, bytes |-> bytes]

\* bits 0 to 23, in the order they are sent, of the word behind element o
Inverted(b, bits) == Number(Xor(BitsOf[b], bits))
Flip(s, o, ks) ==
    LET inByte(n) == {7 - (k % 8) : k \in {x \in ks : x \div 8 = n}}
    IN [s EXCEPT ![o + 1] = Inverted(@, inByte(0)), ![o + 2] = Inverted(@, inByte(1)),
                 ![o + 3] = Inverted(@, inByte(2))]

\* one, two or three bits of a word, or a burst of five to eight
Pairs   == {{a, b} : a, b \in 0..23}
Triples == {{a, b, c} : a, b, c \in 0..23}
Bursts == UNION {{{k, k + w} \cup b : b \in SUBSET ((k + 1)..(k + w - 1))} :
                     k \in 0..16, w \in 4..7}

Offsets(s) == {3 * k : k \in 0..(Len(s) \div 3 - 1)}

Damaged(sent, errors) ==
    LET good == Packed(sent)
        cut(k) == [n \in 1..Len(good) |-> IF n <= k THEN good[n] ELSE 255]
    IN {Delivery(sent, "none", good)}
         \cup {Delivery(sent, "flipped", Flip(good, o, ks)) : o \in Offsets(good), ks \in errors}
         \cup {Delivery(sent, "stopped", cut(3 * k)) : k \in 0..(Len(good) \div 3 - 1)}
         \cup {Delivery(sent, "stuck", [n \in 1..Len(good) |-> 0])}

MCDeliveries ==
    Damaged(<<>>, {}) \cup Damaged(<<190, 239>>, Triples \cup Bursts)
      \cup Damaged(<<128, 0, 102, 102>>, Pairs)
      \cup {[length |-> n, sent |-> <<>>, damage |-> "none", bytes |-> Packed([k \in 1..(n - 1) |-> k])] :
                n \in {1, 3}}

\* the CRC notices all of these: what the theorem about the loop starts from
ASSUME DamageIsNoticed == \A v \in MCDeliveries : Noticed(v)

\* 84 words are 252 bytes on the bus; 86 are 258, of which a uint8_t keeps 2
LongData(n) == [k \in 1..(2 * n) |-> (7 * k) % 256]
MCLongDeliveries ==
    UNION {{Delivery(LongData(n), "none", Packed(LongData(n))),
            Delivery(LongData(n), "flipped", Flip(Packed(LongData(n)), 9, {3}))} : n \in {84, 86}}

\* a buffer of twice the length, in which add_bytes_to_buffer has put words
\* that were written to the sensor before: all but the last byte of LongData
EarlierData(n) == [LongData(n) EXCEPT ![2 * n] = (@ + 1) % 256]
MCLongContents == {Packed(EarlierData(86)) \o [k \in 1..86 |-> 0]}

MCContents == {[k \in 1..LocalBufferSize |-> 0],
            Overwrite([k \in 1..LocalBufferSize |-> 255], 0, Packed(<<128, 0, 102, 102>>))}

=============================================================================
