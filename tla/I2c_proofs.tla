----------------------------- MODULE I2c_proofs ------------------------------
(***************************************************************************)
(* Proofs about sensirion_i2c.c, in three parts.                           *)
(*                                                                         *)
(* The conversions of sensirion_common.c: every value survives the way to  *)
(* bytes and back.                                                         *)
(*                                                                         *)
(* I2cTx, for commands, values, arrays and argument lists of every kind    *)
(* and buffers of every content: the buffer that the add_* functions build *)
(* is a frame the sensor decodes, and the values come back from it; what a *)
(* call reports as sent was delivered; and the offset tells a frame from   *)
(* an error.                                                               *)
(*                                                                         *)
(* I2cRx, for responses of every length, calls of every kind and receive   *)
(* buffers with any content.                                               *)
(***************************************************************************)
EXTENDS I2cTx, I2cRx, SequenceFolds_proofs

\* what is left of a number above its last eight bits
High(v) == v \div 256

\* Cutting a number into its last eight bits and the rest loses nothing.
LEMMA Cut ==
    ASSUME NEW v \in Int
    PROVE  /\ High(v) \in Int /\ Low(v) \in Nat /\ Low(v) < 256
           /\ v = 256 * High(v) + Low(v)
BY SMT DEF Low, High

\* The four bytes of a number are what three cuts leave.
LEMMA FourBytes ==
    ASSUME NEW v \in Int
    PROVE  Uint32ToBytes(v) = <<Low(High(High(High(v)))), Low(High(High(v))), Low(High(v)), Low(v)>>
<1>1. v \div 65536 = High(High(v)) /\ v \div 16777216 = High(High(High(v)))
  BY SMT DEF High
<1> QED
  BY SMT, <1>1 DEF Uint32ToBytes, High

\* A number is its four bytes, the highest of them uncut.
LEMMA Weights ==
    ASSUME NEW v \in Int
    PROVE  /\ v = High(High(High(v))) * 16777216 + Low(High(High(v))) * 65536
                  + Low(High(v)) * 256 + Low(v)
           /\ High(High(High(v))) \in Int
           /\ \A w \in {v, High(v), High(High(v))} : Low(w) \in Nat /\ Low(w) < 256
<1>1. High(v) \in Int
  BY SMT, Cut
<1>2. High(High(v)) \in Int
  BY SMT, Cut, <1>1
<1> QED
  BY SMT, Cut, <1>1, <1>2

\* bytes_to_uint16_t undoes uint16_t_to_bytes for every uint16_t
THEOREM Uint16RoundTrip ==
    ASSUME NEW v \in Nat, v < 65536
    PROVE  BytesToUint16(Uint16ToBytes(v)) = v
BY SMT DEF BytesToUint16, Uint16ToBytes, Low

\* bytes_to_int16_t undoes int16_t_to_bytes for every int16_t, negative ones
\* included
THEOREM Int16RoundTrip ==
    ASSUME NEW v \in Int, -32768 <= v, v < 32768
    PROVE  BytesToInt16(Uint16ToBytes(v)) = v
BY SMT DEF BytesToInt16, BytesToUint16, Uint16ToBytes, Low

\* bytes_to_uint32_t undoes uint32_t_to_bytes for every uint32_t
THEOREM Uint32RoundTrip ==
    ASSUME NEW v \in Nat, v < 4294967296
    PROVE  BytesToUint32(Uint32ToBytes(v)) = v
<1> DEFINE top == High(High(High(v)))
<1>1. top \in Nat /\ top < 256
  BY SMT, Weights
<1>2. Low(top) = top
  BY SMT, <1>1 DEF Low
<1> QED
  BY SMT, <1>2, Weights, FourBytes DEF BytesToUint32

\* The sign of a byte that was cut from a small number gives the number back.
LEMMA Signed ==
    ASSUME NEW c \in Int, -128 <= c, c < 128
    PROVE  Low(c) - (IF Low(c) >= 128 THEN 256 ELSE 0) = c
<1>1. Low(c) = IF c < 0 THEN c + 256 ELSE c
  BY SMT DEF Low
<1> QED
  BY SMT, <1>1

\* bytes_to_int32_t undoes int32_t_to_bytes for every int32_t, and so
\* bytes_to_float undoes float_to_bytes for every float
THEOREM Int32RoundTrip ==
    ASSUME NEW v \in Int, -2147483648 <= v, v < 2147483648
    PROVE  BytesToInt32(Uint32ToBytes(v)) = v
<1> DEFINE c == High(High(High(v)))
           bytes == Uint32ToBytes(v)
<1>1. c \in Int /\ -128 <= c /\ c < 128
  BY SMT, Weights
<1>2. Low(c) - (IF Low(c) >= 128 THEN 256 ELSE 0) = c
  BY SMT, <1>1, Signed
<1>3. /\ bytes[1] = Low(c) /\ bytes[2] = Low(High(High(v)))
      /\ bytes[3] = Low(High(v)) /\ bytes[4] = Low(v)
  BY SMT, FourBytes
<1>4. v = c * 16777216 + bytes[2] * 65536 + bytes[3] * 256 + bytes[4]
  BY SMT, <1>3, Weights
<1>5. bytes[1] - (IF bytes[1] >= 128 THEN 256 ELSE 0) = c
  BY SMT, <1>2, <1>3
<1> HIDE DEF c, bytes
<1>6. (bytes[1] - (IF bytes[1] >= 128 THEN 256 ELSE 0)) * 16777216
         + bytes[2] * 65536 + bytes[3] * 256 + bytes[4] = v
  BY SMT, <1>4, <1>5
<1> QED
  BY SMT, <1>6 DEF BytesToInt32, bytes

\* A value is read from bytes as it was written: two groups of bytes that are
\* read as the same uint16_t are the same.
THEOREM Uint16BytesRoundTrip ==
    ASSUME NEW b1 \in Nat, b1 < 256, NEW b2 \in Nat, b2 < 256
    PROVE  Uint16ToBytes(BytesToUint16(<<b1, b2>>)) = <<b1, b2>>
<1>1. BytesToUint16(<<b1, b2>>) = b1 * 256 + b2
  BY SMT DEF BytesToUint16
<1>2. (b1 * 256 + b2) \div 256 = b1 /\ (b1 * 256 + b2) % 256 = b2 /\ b1 % 256 = b1
  BY SMT
<1> QED
  BY SMT, <1>1, <1>2 DEF Uint16ToBytes, Low

-----------------------------------------------------------------------------
(* Packed, words with their checksums.                                     *)

\* What the bus carries: bytes, checksums among them.
Checks == {Crc(<<b1, b2>>) : b1 \in Byte, b2 \in Byte}
Cell   == Byte \cup Checks

\* Two bytes and their checksum are all on the bus.
LEMMA CellHolds ==
    ASSUME NEW b1 \in Byte, NEW b2 \in Byte
    PROVE  b1 \in Cell /\ b2 \in Cell /\ Crc(<<b1, b2>>) \in Cell
  <1>1. Crc(<<b1, b2>>) \in Checks
    BY DEF Checks
  <1> QED
    BY <1>1 DEF Cell

\* s is the sequences of seqs, all of the length w, one after the other.
IsPaved(s, seqs, w) ==
    /\ Len(s) = w * Len(seqs)
    /\ \A k \in 1..Len(seqs) : \A x \in 1..w : s[w * (k - 1) + x] = seqs[k][x]

\* Sequences of the same length w, two or three, one after the other: the kth
\* ends at w * k.
LEMMA EqualWidths ==
    ASSUME NEW E, NEW w \in {2, 3}, NEW seqs \in Seq(Seq(E)),
           \A k \in 1..Len(seqs) : Len(seqs[k]) = w
    PROVE  FlattenSeq(seqs) \in Seq(E) /\ IsPaved(FlattenSeq(seqs), seqs, w)
  <1> DEFINE n == Len(seqs)
  <1>1. PICK f \in [0..n -> Seq(E)] : IsFlattening(f, seqs) /\ FlattenSeq(seqs) = f[n]
    BY FlattenSteps
  <1>2. \A k \in 1..n : /\ Len(f[k]) = Len(f[k - 1]) + Len(seqs[k])
                        /\ \A x \in 1..Len(seqs[k]) : f[n][Len(f[k - 1]) + x] = seqs[k][x]
    <2>1. f \in [0..Len(seqs) -> Seq(E)] /\ IsFlattening(f, seqs)
      BY <1>1
    <2>2. KeepsParts(f, seqs)
      BY <2>1, FlatteningKeeps
    <2> QED
      BY <2>2 DEF KeepsParts
  <1>3. n \in Nat /\ f[n] \in Seq(E) /\ f[0] = <<>>
    BY <1>1 DEF IsFlattening
  <1>4. \A k \in 1..n : Len(seqs[k]) = w
    OBVIOUS
  <1> HIDE DEF n
  <1> DEFINE S == {k \in Nat : k <= n => Len(f[k]) = w * k}
  <1>5. 0 \in S
    <2>1. Len(f[0]) = 0
      BY <1>3
    <2> QED
      BY <2>1
  <1>6. ASSUME NEW k \in Nat, k \in S PROVE k + 1 \in S
    <2> SUFFICES ASSUME k + 1 <= n PROVE Len(f[k + 1]) = w * (k + 1)
      OBVIOUS
    <2>1. k + 1 \in 1..n /\ (k + 1) - 1 = k /\ k <= n
      BY <1>3
    <2>2. Len(f[k + 1]) = Len(f[k]) + w
      BY <1>2, <1>4, <2>1
    <2>3. Len(f[k]) = w * k
      BY <1>6, <2>1
    <2>4. w * k + w = w * (k + 1)
      <3>1. CASE w = 2
        BY <3>1
      <3>2. CASE w = 3
        BY <3>2
      <3> QED
        BY <3>1, <3>2
    <2> QED
      BY <2>2, <2>3, <2>4
  <1>7. \A k \in 0..n : Len(f[k]) = w * k
    <2>1. Nat \subseteq S
      <3> HIDE DEF S
      <3> QED
        BY <1>5, <1>6, NatSetInduction
    <2>2. \A k \in 0..n : k \in Nat /\ k <= n
      BY <1>3
    <2> QED
      BY <2>1, <2>2
  <1>8. ASSUME NEW k \in 1..n, NEW x \in 1..w
        PROVE  f[n][w * (k - 1) + x] = seqs[k][x]
    <2>0. k - 1 \in 0..n
      BY <1>3
    <2>1. Len(f[k - 1]) = w * (k - 1)
      BY <1>7, <2>0
    <2> QED
      BY <1>2, <1>4, <2>1
  <1>9. Len(f[n]) = w * n
    BY <1>3, <1>7
  <1> QED
    BY <1>1, <1>3, <1>8, <1>9 DEF n, IsPaved

\* Three bytes for two, the third their checksum.
LEMMA PackedWords ==
    ASSUME NEW d \in Seq(Byte)
    PROVE  /\ Packed(d) \in Seq(Cell) /\ Len(Packed(d)) = 3 * (Len(d) \div 2)
           /\ \A k \in 1..(Len(d) \div 2) :
                  /\ Packed(d)[3 * k - 2] = d[2 * k - 1]
                  /\ Packed(d)[3 * k - 1] = d[2 * k]
                  /\ Packed(d)[3 * k] = Crc(<<d[2 * k - 1], d[2 * k]>>)
  <1> DEFINE n       == Len(d) \div 2
             word(k) == <<d[2 * k - 1], d[2 * k], Crc(<<d[2 * k - 1], d[2 * k]>>)>>
             seqs    == [k \in 1..n |-> word(k)]
  <1>1. n \in Nat /\ 2 * n <= Len(d)
    OBVIOUS
  <1>2. ASSUME NEW k \in 1..n PROVE word(k) \in Seq(Cell)
    <2>1. 2 * k - 1 \in 1..Len(d) /\ 2 * k \in 1..Len(d)
      BY <1>1
    <2>2. d[2 * k - 1] \in Byte /\ d[2 * k] \in Byte
      BY <2>1
    <2> DEFINE b1 == d[2 * k - 1]
               b2 == d[2 * k]
               check == Crc(<<b1, b2>>)
    <2>3. b1 \in Byte /\ b2 \in Byte /\ check = Crc(<<b1, b2>>)
      BY <2>2
    <2> HIDE DEF b1, b2, check
    <2>4. b1 \in Cell /\ b2 \in Cell /\ check \in Cell
      BY <2>3, CellHolds
    <2>5. <<b1, b2, check>> \in Seq(Cell)
      BY <2>4
    <2> QED
      BY <2>5 DEF b1, b2, check
  <1>3. seqs \in Seq(Seq(Cell)) /\ Len(seqs) = n
    <2> HIDE DEF word, n
    <2> QED
      BY <1>1, <1>2
  <1>4. \A k \in 1..n : /\ seqs[k] = word(k) /\ Len(seqs[k]) = 3
                        /\ seqs[k][1] = d[2 * k - 1] /\ seqs[k][2] = d[2 * k]
                        /\ seqs[k][3] = Crc(<<d[2 * k - 1], d[2 * k]>>)
    OBVIOUS
  <1>5. Packed(d) = FlattenSeq(seqs)
    BY Zenon DEF Packed
  <1> HIDE DEF seqs, n, word
  <1>6. /\ FlattenSeq(seqs) \in Seq(Cell) /\ Len(FlattenSeq(seqs)) = 3 * n
        /\ \A k \in 1..n : \A x \in 1..3 : FlattenSeq(seqs)[3 * (k - 1) + x] = seqs[k][x]
    <2> DEFINE w == 3
    <2>1. w \in {2, 3} /\ \A k \in 1..Len(seqs) : Len(seqs[k]) = w
      BY <1>3, <1>4
    <2> HIDE DEF w
    <2>2. FlattenSeq(seqs) \in Seq(Cell) /\ IsPaved(FlattenSeq(seqs), seqs, w)
      BY <1>3, <2>1, EqualWidths
    <2> QED
      BY <1>3, <2>2 DEF w, IsPaved
  <1>7. ASSUME NEW k \in 1..n
        PROVE  /\ Packed(d)[3 * k - 2] = d[2 * k - 1]
               /\ Packed(d)[3 * k - 1] = d[2 * k]
               /\ Packed(d)[3 * k] = Crc(<<d[2 * k - 1], d[2 * k]>>)
    <2>1. /\ 3 * (k - 1) + 1 = 3 * k - 2 /\ 3 * (k - 1) + 2 = 3 * k - 1
          /\ 3 * (k - 1) + 3 = 3 * k
      BY <1>1
    <2>2. /\ FlattenSeq(seqs)[3 * (k - 1) + 1] = seqs[k][1]
          /\ FlattenSeq(seqs)[3 * (k - 1) + 2] = seqs[k][2]
          /\ FlattenSeq(seqs)[3 * (k - 1) + 3] = seqs[k][3]
      BY <1>6
    <2> QED
      BY <1>4, <1>5, <2>1, <2>2
  <1> QED
    BY <1>5, <1>6, <1>7 DEF n

-----------------------------------------------------------------------------
(* The bytes of a value: what the add_* functions write and what the       *)
(* conversions of sensirion_common.c write are the same.                   *)

\* Two bytes of a number, the upper one first, as the conversion writes them.
LEMMA TwoBytes ==
    ASSUME NEW v \in Int
    PROVE  /\ BigEndian16(v) \in Seq(Byte) /\ Len(BigEndian16(v)) = 2
           /\ BigEndian16(v)[1] = Low(High(v)) /\ BigEndian16(v)[2] = Low(v)
           /\ Uint16ToBytes(v) = BigEndian16(v)
  <1>1. (v \div 256) % 256 \in Byte /\ v % 256 \in Byte
    BY SMT DEF Byte
  <1> QED
    BY <1>1 DEF BigEndian16, Uint16ToBytes, Low, High

\* u is s and then t.
IsConcat(u, s, t) ==
    /\ Len(u) = Len(s) + Len(t)
    /\ \A k \in 1..Len(s) : u[k] = s[k]
    /\ \A k \in 1..Len(t) : u[Len(s) + k] = t[k]

\* Two sequences, one after the other.
LEMMA ConcatAt ==
    ASSUME NEW E, NEW s \in Seq(E), NEW t \in Seq(E)
    PROVE  s \o t \in Seq(E) /\ IsConcat(s \o t, s, t)
  BY DEF IsConcat

\* Two pairs make four.
LEMMA FourInARow ==
    ASSUME NEW b1, NEW b2, NEW b3, NEW b4
    PROVE  <<b1, b2>> \o <<b3, b4>> = <<b1, b2, b3, b4>>
  <1> DEFINE E == {b1, b2, b3, b4}
             s == <<b1, b2>>
             t == <<b3, b4>>
  <1>1. s \in Seq(E) /\ Len(s) = 2 /\ s[1] = b1 /\ s[2] = b2
    OBVIOUS
  <1>2. t \in Seq(E) /\ Len(t) = 2 /\ t[1] = b3 /\ t[2] = b4
    OBVIOUS
  <1> HIDE DEF E, s, t
  <1>3. /\ s \o t \in Seq(E) /\ Len(s \o t) = 4
        /\ (s \o t)[1] = b1 /\ (s \o t)[2] = b2 /\ (s \o t)[3] = b3 /\ (s \o t)[4] = b4
    <2> DEFINE u == s \o t
    <2>1. u \in Seq(E) /\ IsConcat(u, s, t)
      BY <1>1, <1>2, ConcatAt
    <2> HIDE DEF u
    <2>2. u \in Seq(E) /\ Len(u) = 4
      BY <1>1, <1>2, <2>1 DEF IsConcat
    <2>3. u[1] = b1 /\ u[2] = b2
      BY <1>1, <1>2, <2>1 DEF IsConcat
    <2>4. u[2 + 1] = b3 /\ u[2 + 2] = b4
      BY <1>1, <1>2, <2>1 DEF IsConcat
    <2>5. u[3] = b3 /\ u[4] = b4
      BY <2>4
    <2> QED
      BY <2>2, <2>3, <2>5 DEF u
  <1> DEFINE u == s \o t
  <1> HIDE DEF u
  <1>4. u \in Seq(E) /\ Len(u) = 4 /\ u[1] = b1 /\ u[2] = b2 /\ u[3] = b3 /\ u[4] = b4
    BY <1>3 DEF u
  <1>5. u = <<b1, b2, b3, b4>>
    BY <1>4
  <1> QED
    BY <1>5 DEF u, s, t

\* Two elements of a sequence, one after the other.
LEMMA PairOf ==
    ASSUME NEW E, NEW s \in Seq(E), NEW a \in 1..Len(s), a + 1 <= Len(s)
    PROVE  SubSeq(s, a, a + 1) = <<s[a], s[a + 1]>>
  <1> DEFINE u == SubSeq(s, a, a + 1)
  <1>1. u \in Seq(E) /\ Len(u) = 2
    OBVIOUS
  <1>2. u[1] = s[a + 1 - 1] /\ u[2] = s[a + 2 - 1]
    OBVIOUS
  <1>3. a + 1 - 1 = a /\ a + 2 - 1 = a + 1
    OBVIOUS
  <1> HIDE DEF u
  <1>4. u = <<s[a], s[a + 1]>>
    BY <1>1, <1>2, <1>3
  <1> QED
    BY <1>4 DEF u

\* Four bytes of a number are those of its two halves.
LEMMA FourBytesOf ==
    ASSUME NEW v \in Int
    PROVE  /\ BigEndian32(v) \in Seq(Byte) /\ Len(BigEndian32(v)) = 4
           /\ Uint32ToBytes(v) = BigEndian32(v)
  <1> DEFINE h == (v \div 65536) % 65536
             l == v % 65536
  <1>1. h \in Int /\ l \in Int
    OBVIOUS
  <1>2. /\ (h \div 256) % 256 = Low(v \div 16777216) /\ h % 256 = Low(v \div 65536)
        /\ (l \div 256) % 256 = Low(v \div 256) /\ l % 256 = Low(v)
    BY SMT DEF Low
  <1> HIDE DEF h, l
  <1>3. /\ BigEndian16(h) \in Seq(Byte) /\ BigEndian16(l) \in Seq(Byte)
        /\ Len(BigEndian16(h)) = 2 /\ Len(BigEndian16(l)) = 2
    BY <1>1, TwoBytes
  <1>4. BigEndian32(v) = BigEndian16(h) \o BigEndian16(l)
    BY DEF BigEndian32, h, l
  <1>5. BigEndian16(h) = <<Low(v \div 16777216), Low(v \div 65536)>>
        /\ BigEndian16(l) = <<Low(v \div 256), Low(v)>>
    BY <1>2 DEF BigEndian16
  <1>6. Uint32ToBytes(v) = BigEndian32(v)
    <2> DEFINE b1 == Low(v \div 16777216)
               b2 == Low(v \div 65536)
               b3 == Low(v \div 256)
               b4 == Low(v)
    <2>1. Uint32ToBytes(v) = <<b1, b2, b3, b4>>
      BY DEF Uint32ToBytes
    <2>2. BigEndian32(v) = <<b1, b2>> \o <<b3, b4>>
      BY <1>4, <1>5
    <2> HIDE DEF b1, b2, b3, b4
    <2>3. <<b1, b2>> \o <<b3, b4>> = <<b1, b2, b3, b4>>
      BY FourInARow
    <2> QED
      BY <2>1, <2>2, <2>3
  <1> DEFINE p == BigEndian16(h)
             q == BigEndian16(l)
  <1>7. p \in Seq(Byte) /\ q \in Seq(Byte) /\ Len(p) = 2 /\ Len(q) = 2
    BY <1>3
  <1> HIDE DEF p, q
  <1>8. p \o q \in Seq(Byte) /\ Len(p \o q) = 4
    BY <1>7, ConcatAt DEF IsConcat
  <1> QED
    BY <1>4, <1>6, <1>8 DEF p, q

\* The two bytes of a command or an argument give it back.
LEMMA WordIsBack ==
    ASSUME NEW v \in Nat, v < 65536
    PROVE  Low(High(v)) * 256 + Low(v) = v
  <1>1. High(v) \in Nat /\ High(v) < 256 /\ v = 256 * High(v) + Low(v) /\ Low(v) \in Nat
    BY SMT DEF High, Low
  <1>2. Low(High(v)) = High(v)
    BY SMT, <1>1 DEF Low
  <1> QED
    BY SMT, <1>1, <1>2

-----------------------------------------------------------------------------
(* A frame: the command, and the data in words with their checksums.       *)

FrameLength(d) == 2 + 3 * (Len(d) \div 2)

\* s begins with the command and carries every word of the data d.
Carries(s, cmd, d) ==
    /\ s[1] = Low(High(cmd)) /\ s[2] = Low(cmd)
    /\ \A k \in 1..(Len(d) \div 2) :
           /\ s[3 * k] = d[2 * k - 1] /\ s[3 * k + 1] = d[2 * k]
           /\ s[3 * k + 2] = Crc(<<d[2 * k - 1], d[2 * k]>>)

\* Data is whole words.
Even(d) == Len(d) % 2 = 0

\* The length of a frame tells how many words it has, and it is never the number
\* that means an error.
LEMMA FrameLengths ==
    ASSUME NEW d \in Seq(Byte)
    PROVE  /\ Len(d) \div 2 \in Nat /\ FrameLength(d) \in Nat /\ FrameLength(d) >= 2
           /\ FrameLength(d) # BYTE_NUM_ERROR
           /\ (FrameLength(d) - 2) % 3 = 0 /\ (FrameLength(d) - 2) \div 3 = Len(d) \div 2
           /\ Even(d) => Len(d) = 2 * (Len(d) \div 2)
           /\ Even(d) => FrameLength(d) <= 2 + 3 * Len(d)
  BY SMT DEF FrameLength, BYTE_NUM_ERROR, Even

\* The words of an even number of bytes are those bytes.
LEMMA WordsOfData ==
    ASSUME NEW d \in Seq(Byte), Even(d)
    PROVE  FlattenSeq([k \in 1..(Len(d) \div 2) |-> <<d[2 * k - 1], d[2 * k]>>]) = d
  <1> DEFINE n    == Len(d) \div 2
             seqs == [k \in 1..n |-> <<d[2 * k - 1], d[2 * k]>>]
             w    == 2
  <1>1. n \in Nat /\ Len(d) = 2 * n
    BY FrameLengths
  <1>2. ASSUME NEW k \in 1..n PROVE <<d[2 * k - 1], d[2 * k]>> \in Seq(Byte)
    <2>1. 2 * k - 1 \in 1..Len(d) /\ 2 * k \in 1..Len(d)
      BY <1>1
    <2> QED
      BY <2>1
  <1> HIDE DEF n
  <1>3. seqs \in Seq(Seq(Byte)) /\ Len(seqs) = n
    BY <1>1, <1>2
  <1>4. \A k \in 1..n : Len(seqs[k]) = w /\ seqs[k][1] = d[2 * k - 1] /\ seqs[k][2] = d[2 * k]
    OBVIOUS
  <1>5. w \in {2, 3}
    OBVIOUS
  <1> DEFINE flat == FlattenSeq(seqs)
  <1> HIDE DEF seqs, w
  <1>6. flat \in Seq(Byte) /\ IsPaved(flat, seqs, w)
    BY <1>3, <1>4, <1>5, EqualWidths
  <1> HIDE DEF flat
  <1>7. Len(flat) = Len(d)
    BY <1>1, <1>3, <1>6 DEF IsPaved, w
  <1>8. ASSUME NEW x \in 1..Len(d) PROVE flat[x] = d[x]
    <2> DEFINE k == (x + 1) \div 2
    <2>1. k \in 1..n /\ (x = 2 * k - 1 \/ x = 2 * k)
      BY <1>1
    <2> HIDE DEF k
    <2>2. flat[2 * (k - 1) + 1] = d[2 * k - 1] /\ flat[2 * (k - 1) + 2] = d[2 * k]
      BY <1>3, <1>4, <1>6, <2>1 DEF IsPaved, w
    <2>3. 2 * (k - 1) + 1 = 2 * k - 1 /\ 2 * (k - 1) + 2 = 2 * k
      BY <2>1, <1>1
    <2> QED
      BY <2>1, <2>2, <2>3
  <1>9. flat = d
    BY <1>6, <1>7, <1>8
  <1> QED
    BY <1>9 DEF flat, seqs, n

\* The sensor decodes a frame that carries a command and data: them.
LEMMA FrameIsDecoded ==
    ASSUME NEW s \in Seq(Cell), NEW cmd \in Nat, cmd < 65536, NEW d \in Seq(Byte), Even(d),
           Len(s) = FrameLength(d), Carries(s, cmd, d)
    PROVE  SensorDecodes(Sensor, s) = [cmd |-> cmd, data |-> d]
  <1> DEFINE n == Len(d) \div 2
             m == (Len(s) - 2) \div 3
             word(k) == SubSeq(s, 3 * k, 3 * k + 1)
  <1>1. /\ n \in Nat /\ m = n /\ Len(s) >= 2 /\ (Len(s) - 2) % 3 = 0
        /\ Len(s) = 2 + 3 * n /\ Len(d) = 2 * n
    BY FrameLengths DEF FrameLength
  <1>2. ASSUME NEW k \in 1..n
        PROVE  /\ word(k) = <<d[2 * k - 1], d[2 * k]>>
               /\ s[3 * k + 2] = Crc(word(k))
    <2>1. 3 * k \in 1..Len(s) /\ 3 * k + 1 \in 1..Len(s) /\ 3 * k <= 3 * k + 1
      BY <1>1
    <2>2. /\ s[3 * k] = d[2 * k - 1] /\ s[3 * k + 1] = d[2 * k]
          /\ s[3 * k + 2] = Crc(<<d[2 * k - 1], d[2 * k]>>)
      BY DEF Carries
    <2>3. word(k) = <<s[3 * k], s[3 * k + 1]>>
      <3> DEFINE a == 3 * k
      <3>1. a \in 1..Len(s) /\ a + 1 <= Len(s)
        BY <2>1
      <3> HIDE DEF a
      <3>2. SubSeq(s, a, a + 1) = <<s[a], s[a + 1]>>
        BY <3>1, PairOf
      <3> QED
        BY <3>2 DEF a
    <2> HIDE DEF word, n
    <2> QED
      BY <2>2, <2>3
  <1>3. s[1] * 256 + s[2] = cmd
    BY WordIsBack DEF Carries
  <1>4. [k \in 1..m |-> word(k)] = [k \in 1..n |-> <<d[2 * k - 1], d[2 * k]>>]
    <2> HIDE DEF word, m, n
    <2> QED
      BY <1>1, <1>2
  <1>5. FlattenSeq([k \in 1..m |-> word(k)]) = d
    <2> DEFINE packed == [k \in 1..n |-> <<d[2 * k - 1], d[2 * k]>>]
               taken == [k \in 1..m |-> word(k)]
    <2>1. FlattenSeq(packed) = d
      BY WordsOfData
    <2>2. taken = packed
      BY <1>4
    <2> HIDE DEF packed, taken
    <2>3. FlattenSeq(taken) = d
      BY <2>1, <2>2
    <2> QED
      BY <2>3 DEF taken
  <1>6. Sensor # GeneralCall
    BY DEF Sensor, GeneralCall
  <1>7. \A k \in 1..m : s[3 * k + 2] = Crc(word(k))
    <2> HIDE DEF word, m, n
    <2> QED
      BY <1>1, <1>2
  <1> DEFINE good == /\ Len(s) >= 2 /\ (Len(s) - 2) % 3 = 0
                     /\ \A k \in 1..m : s[3 * k + 2] = Crc(word(k))
             body == [cmd |-> s[1] * 256 + s[2], data |-> FlattenSeq([k \in 1..m |-> word(k)])]
  <1>8. SensorDecodes(Sensor, s) = IF good THEN body ELSE Rejected
    BY <1>6 DEF SensorDecodes
  <1>9. good
    BY <1>1, <1>7
  <1>10. body = [cmd |-> cmd, data |-> d]
    <2> HIDE DEF m, word
    <2> QED
      BY <1>3, <1>5
  <1> HIDE DEF good, body
  <1> QED
    BY <1>8, <1>9, <1>10

-----------------------------------------------------------------------------
(* The buffer holds the frame of the request, up to the offset.            *)

\* Numbers and floats, and the arrays of add_bytes_to_buffer.
Item == [kind : {"uint16", "int16", "uint32", "int32", "float"}, v : Int]
            \cup [kind : {"bytes"}, v : Seq(Byte)]

\* What is kept of a frame: the command, the data and the values it was made of.
Requests == [cmd : Int, data : Seq(Byte), values : Seq(Item), failed : BOOLEAN]

\* A frame is being built, and no add_* call has failed.
Sound == offset # 0 /\ ~request.failed

\* The types of the buffer, the offset and the request.
BufferType ==
    /\ buffer \in Seq(Cell) /\ Len(buffer) = BufferSize
    /\ offset \in Nat /\ request \in Requests

\* An error takes the place of the offset, and a frame that has none is complete
\* up to the offset.
BufferInv ==
    /\ BufferType
    /\ request.failed => offset = BYTE_NUM_ERROR
    /\ Sound => /\ request.cmd \in Commands /\ Even(request.data)
                /\ offset = FrameLength(request.data) /\ offset <= BufferSize
                /\ Carries(buffer, request.cmd, request.data)

\* Overwriting keeps the length of a buffer and what it does not cover.
LEMMA OverwriteKeeps ==
    ASSUME NEW S, NEW b \in Seq(S), NEW d \in Seq(S), NEW o \in Nat
    PROVE  /\ Overwrite(b, o, d) \in Seq(S)
           /\ Len(Overwrite(b, o, d)) = Len(b)
           /\ \A k \in 1..Len(b) :
                  Overwrite(b, o, d)[k] =
                      IF k > o /\ k <= o + Len(d) THEN d[k - o] ELSE b[k]
  <1>1. \A k \in 1..Len(b) :
            (IF k > o /\ k <= o + Len(d) THEN d[k - o] ELSE b[k]) \in S
    <2> SUFFICES ASSUME NEW k \in 1..Len(b)
                 PROVE  (IF k > o /\ k <= o + Len(d) THEN d[k - o] ELSE b[k]) \in S
      OBVIOUS
    <2>1. b[k] \in S
      OBVIOUS
    <2>2. k > o /\ k <= o + Len(d) => d[k - o] \in S
      OBVIOUS
    <2> QED
      BY <2>1, <2>2
  <1>2. Overwrite(b, o, d) \in [1..Len(b) -> S]
    BY <1>1 DEF Overwrite
  <1>3. Len(b) \in Nat
    OBVIOUS
  <1> QED
    BY <1>2, <1>3 DEF Overwrite

\* Bytes are contents of a buffer.
LEMMA BytesAreCells == \A d \in Seq(Byte) : d \in Seq(Cell)
  BY DEF Cell

\* After the command the buffer is a frame without data.
LEMMA CommandStored ==
    ASSUME BufferType, NEW cmd \in Commands, AddCommand(cmd)
    PROVE  BufferInv'
  <1>1. cmd \in Nat /\ cmd < 65536
    BY ArgsAssumption
  <1> DEFINE bytes == BigEndian16(cmd)
  <1>2. /\ bytes \in Seq(Cell) /\ Len(bytes) = 2
        /\ bytes[1] = Low(High(cmd)) /\ bytes[2] = Low(cmd)
    BY <1>1, TwoBytes, BytesAreCells
  <1>3. /\ offset = 0 /\ 0 + Len(bytes) <= BufferSize
        /\ buffer' = Overwrite(buffer, 0, bytes) /\ offset' = 0 + Len(bytes)
        /\ request' = Request(cmd, <<>>, <<>>)
    BY DEF AddCommand, Put
  <1>4. /\ request' \in Requests /\ request'.cmd = cmd /\ request'.data = <<>>
        /\ request'.failed = FALSE
    BY <1>1, <1>3 DEF Requests, Request
  <1> HIDE DEF bytes
  <1>5. offset' = 2 /\ 2 <= BufferSize
    BY <1>2, <1>3
  <1>6. /\ buffer' \in Seq(Cell) /\ Len(buffer') = BufferSize
        /\ \A k \in 1..Len(buffer) :
               buffer'[k] = IF k > 0 /\ k <= 0 + Len(bytes) THEN bytes[k - 0] ELSE buffer[k]
    <2>1. 0 \in Nat /\ buffer \in Seq(Cell) /\ Len(buffer) = BufferSize
      BY DEF BufferType
    <2> QED
      BY <2>1, <1>2, <1>3, OverwriteKeeps
  <1>7. buffer'[1] = Low(High(cmd)) /\ buffer'[2] = Low(cmd)
    <2>1. Len(buffer) = BufferSize /\ BufferSize \in Nat
      BY ArgsAssumption DEF BufferType
    <2>2. 1 \in 1..Len(buffer) /\ 2 \in 1..Len(buffer)
      BY <1>5, <2>1
    <2>3. 1 - 0 = 1 /\ 2 - 0 = 2
      OBVIOUS
    <2> QED
      BY <1>2, <1>6, <2>2, <2>3
  <1>8. Len(<<>>) \div 2 = 0 /\ FrameLength(<<>>) = 2 /\ Even(<<>>)
    BY DEF FrameLength, Even
  <1>9. Carries(buffer', cmd, <<>>)
    BY <1>7, <1>8 DEF Carries
  <1>10. BufferType'
    BY <1>4, <1>5, <1>6 DEF BufferType
  <1> QED
    BY <1>4, <1>5, <1>8, <1>9, <1>10 DEF BufferInv, Sound

\* Words put after the frame are part of it.
LEMMA WordsStored ==
    ASSUME BufferInv, NEW d \in Seq(Byte), Even(d), NEW values \in Seq(Item),
           AddWords(d, values)
    PROVE  /\ BufferInv' /\ request'.data = request.data \o d
           /\ request'.values = request.values \o values
  <1> DEFINE payload == request.data
             cmd     == request.cmd
             more    == payload \o d
             packed  == Packed(d)
             n       == Len(payload) \div 2
             m       == Len(d) \div 2
  <1>1. Building /\ Put(packed)
        /\ request' = [request EXCEPT !.data = @ \o d, !.values = @ \o values]
    BY DEF AddWords
  <1>2. offset # 0 /\ offset # BYTE_NUM_ERROR /\ ~request.failed
    BY <1>1 DEF Building, BufferInv
  <1>3. /\ buffer \in Seq(Cell) /\ Len(buffer) = BufferSize /\ offset \in Nat
        /\ request \in Requests
    BY DEF BufferInv, BufferType
  <1>4. /\ cmd \in Commands /\ Even(payload) /\ offset = FrameLength(payload)
        /\ Carries(buffer, cmd, payload)
    BY <1>2 DEF BufferInv, Sound
  <1>5. payload \in Seq(Byte) /\ request.values \in Seq(Item) /\ cmd \in Int
        /\ request.failed \in BOOLEAN
    BY <1>3 DEF Requests
  <1>6. /\ more \in Seq(Byte) /\ request.values \o values \in Seq(Item)
        /\ IsConcat(more, payload, d)
    BY <1>5, ConcatAt
  <1>7. /\ request' \in Requests /\ request'.cmd = cmd /\ request'.data = more
        /\ request'.values = request.values \o values
        /\ (request'.failed <=> request.failed)
    <2> DEFINE vs == request.values \o values
    <2>1. request' = [request EXCEPT !.data = more, !.values = vs]
      BY <1>1
    <2>2. vs \in Seq(Item)
      BY <1>6
    <2> HIDE DEF more, vs
    <2>3. /\ request'.cmd = request.cmd /\ request'.data = more /\ request'.values = vs
          /\ request'.failed = request.failed
      BY <1>3, <2>1 DEF Requests
    <2>4. request' = [cmd |-> request.cmd, data |-> more, values |-> vs,
                      failed |-> request.failed]
      BY <1>3, <2>1 DEF Requests
    <2>5. request' \in Requests
      BY <1>5, <1>6, <2>2, <2>4 DEF Requests
    <2>6. request'.failed <=> request.failed
      BY <2>3
    <2> QED
      BY <2>3, <2>5, <2>6 DEF vs
  <1>8. /\ n \in Nat /\ m \in Nat /\ Len(payload) = 2 * n /\ Len(d) = 2 * m
        /\ FrameLength(payload) = 2 + 3 * n
    BY <1>4, <1>5, FrameLengths DEF FrameLength
  <1>9. /\ packed \in Seq(Cell) /\ Len(packed) = 3 * m
        /\ \A k \in 1..m : /\ packed[3 * k - 2] = d[2 * k - 1] /\ packed[3 * k - 1] = d[2 * k]
                           /\ packed[3 * k] = Crc(<<d[2 * k - 1], d[2 * k]>>)
    BY PackedWords
  <1>10. /\ offset + Len(packed) <= BufferSize /\ offset' = offset + Len(packed)
         /\ buffer' = Overwrite(buffer, offset, packed)
    BY <1>1 DEF Put
  <1> HIDE DEF payload, cmd, more, packed, n, m
  <1>11. /\ offset = 2 + 3 * n /\ offset' = 2 + 3 * (n + m) /\ offset' <= BufferSize
         /\ BufferSize \in Nat
    BY <1>4, <1>8, <1>9, <1>10, ArgsAssumption
  <1>12. /\ buffer' \in Seq(Cell) /\ Len(buffer') = BufferSize
         /\ \A k \in 1..BufferSize :
                buffer'[k] = IF k > offset /\ k <= offset + Len(packed) THEN packed[k - offset]
                             ELSE buffer[k]
    BY <1>3, <1>9, <1>10, OverwriteKeeps, SMTT(40)
  <1>13. ASSUME NEW k \in 1..offset PROVE buffer'[k] = buffer[k]
    <2>1. k \in 1..BufferSize /\ ~(k > offset)
      BY <1>3, <1>8, <1>11
    <2> QED
      BY <1>12, <2>1
  <1>14. ASSUME NEW k \in 1..(3 * m) PROVE buffer'[offset + k] = packed[k]
    <2>1. /\ offset + k \in 1..BufferSize /\ offset + k > offset
          /\ offset + k <= offset + Len(packed) /\ (offset + k) - offset = k
      BY <1>3, <1>8, <1>9, <1>11
    <2> QED
      BY <1>12, <2>1
  <1>15. Len(more) \div 2 = n + m /\ Even(more) /\ FrameLength(more) = 2 + 3 * (n + m)
    <2>1. Len(more) = 2 * (n + m)
      BY <1>6, <1>8 DEF IsConcat
    <2> QED
      BY <1>8, <2>1 DEF Even, FrameLength
  <1>16. Carries(buffer', cmd, more)
    <2>1. buffer'[1] = Low(High(cmd)) /\ buffer'[2] = Low(cmd)
      <3>1. 1 \in 1..offset /\ 2 \in 1..offset
        BY <1>8, <1>11
      <3> QED
        BY <1>4, <1>13, <3>1 DEF Carries
    <2>2. ASSUME NEW k \in 1..(n + m)
          PROVE  /\ buffer'[3 * k] = more[2 * k - 1] /\ buffer'[3 * k + 1] = more[2 * k]
                 /\ buffer'[3 * k + 2] = Crc(<<more[2 * k - 1], more[2 * k]>>)
      <3>1. CASE k <= n
        <4>1. /\ k \in 1..n /\ 3 * k \in 1..offset /\ 3 * k + 1 \in 1..offset
              /\ 3 * k + 2 \in 1..offset
              /\ 2 * k - 1 \in 1..Len(payload) /\ 2 * k \in 1..Len(payload)
          BY <1>8, <1>11, <3>1
        <4>2. more[2 * k - 1] = payload[2 * k - 1] /\ more[2 * k] = payload[2 * k]
          BY <1>6, <4>1 DEF IsConcat
        <4>3. /\ buffer[3 * k] = payload[2 * k - 1] /\ buffer[3 * k + 1] = payload[2 * k]
              /\ buffer[3 * k + 2] = Crc(<<payload[2 * k - 1], payload[2 * k]>>)
          BY <1>4, <4>1 DEF Carries, n
        <4> QED
          BY <1>13, <4>1, <4>2, <4>3
      <3>2. CASE k > n
        <4> DEFINE l == k - n
        <4>1. l \in 1..m
          BY <1>8, <3>2
        <4>2. /\ 2 * k - 1 = Len(payload) + (2 * l - 1) /\ 2 * k = Len(payload) + 2 * l
              /\ 3 * k = offset + (3 * l - 2) /\ 3 * k + 1 = offset + (3 * l - 1)
              /\ 3 * k + 2 = offset + 3 * l
          BY <1>8, <1>11
        <4> HIDE DEF l
        <4>3. /\ 2 * l - 1 \in 1..Len(d) /\ 2 * l \in 1..Len(d)
              /\ 3 * l - 2 \in 1..(3 * m) /\ 3 * l - 1 \in 1..(3 * m) /\ 3 * l \in 1..(3 * m)
          BY <1>8, <4>1
        <4>4. more[2 * k - 1] = d[2 * l - 1] /\ more[2 * k] = d[2 * l]
          BY <1>6, <4>2, <4>3 DEF IsConcat
        <4>5. /\ buffer'[3 * k] = packed[3 * l - 2] /\ buffer'[3 * k + 1] = packed[3 * l - 1]
              /\ buffer'[3 * k + 2] = packed[3 * l]
          BY <1>14, <4>2, <4>3
        <4> QED
          BY <1>9, <4>1, <4>4, <4>5
      <3>3. k <= n \/ k > n
        BY <1>8
      <3> QED
        BY <3>1, <3>2, <3>3
    <2> QED
      BY <1>15, <2>1, <2>2 DEF Carries
  <1>17. offset' \in Nat
    BY <1>8, <1>11
  <1>18. BufferType'
    BY <1>7, <1>12, <1>17 DEF BufferType
  <1>19. offset' = FrameLength(more)
    BY <1>11, <1>15
  <1>20. ~request'.failed
    BY <1>2, <1>7
  <1>21. BufferInv'
    BY <1>4, <1>7, <1>11, <1>15, <1>16, <1>18, <1>19, <1>20 DEF BufferInv, Sound
  <1> QED
    BY <1>7, <1>21 DEF more, payload

-----------------------------------------------------------------------------
(* What the values of a request are as bytes.                              *)

ItemBytes(a) ==
    IF a.kind = "bytes" THEN a.v
    ELSE IF Short(a) THEN BigEndian16(a.v) ELSE BigEndian32(a.v)

\* Items the add_* functions take.
Valid == {a \in Item : IF a.kind = "bytes" THEN Even(a.v) ELSE InRange(a)}

\* The bytes of each of the values.
Coded(values) == [k \in 1..Len(values) |-> ItemBytes(values[k])]

\* payload is the values, one after the other.
Encodes(values, payload) ==
    /\ values \in Seq(Valid)
    /\ \E f \in [0..Len(values) -> Seq(Byte)] :
           IsFlattening(f, Coded(values)) /\ f[Len(values)] = payload

\* What is in the buffer encodes the values that were added.
ValuesInv == Sound => Encodes(request.values, request.data)

\* An item's bytes are bytes, in whole words.
LEMMA ItemBytesTyped ==
    ASSUME NEW a \in Valid
    PROVE  ItemBytes(a) \in Seq(Byte) /\ Even(ItemBytes(a))
  <1>1. CASE a.kind = "bytes"
    <2>1. a \in [kind : {"bytes"}, v : Seq(Byte)] /\ Even(a.v)
      BY <1>1 DEF Valid, Item
    <2> QED
      BY <1>1, <2>1 DEF ItemBytes
  <1>2. CASE a.kind # "bytes"
    <2>1. a.v \in Int
      BY <1>2 DEF Valid, Item
    <2>2. /\ BigEndian16(a.v) \in Seq(Byte) /\ Len(BigEndian16(a.v)) = 2
          /\ BigEndian32(a.v) \in Seq(Byte) /\ Len(BigEndian32(a.v)) = 4
      BY <2>1, TwoBytes, FourBytesOf
    <2>3. 2 % 2 = 0 /\ 4 % 2 = 0
      OBVIOUS
    <2> QED
      BY <1>2, <2>2, <2>3 DEF ItemBytes, Even
  <1> QED
    BY <1>1, <1>2

\* An add_* call adds the bytes of one item, or refuses them.
Adds == AddUint16 \/ AddUint32 \/ AddBytes \/ AddConverted

\* The array has an odd length: an error replaces the offset.
Refuses ==
    /\ Building /\ offset' = BYTE_NUM_ERROR
    /\ request' = [request EXCEPT !.failed = TRUE]
    /\ UNCHANGED buffer

\* The values of the model are items the functions take.
LEMMA ValuesAreValid ==
    ASSUME NEW a \in Values
    PROVE  /\ a \in Valid /\ a.v \in Int /\ a.kind # "bytes"
           /\ ItemBytes(a) = IF Short(a) THEN BigEndian16(a.v) ELSE BigEndian32(a.v)
           /\ ItemBytes(a) = IF Short(a) THEN Uint16ToBytes(a.v) ELSE Uint32ToBytes(a.v)
  <1>1. /\ a \in [kind : {"uint16", "int16", "uint32", "int32", "float"}, v : Int]
        /\ InRange(a)
    BY ArgsAssumption
  <1>2. a.kind # "bytes" /\ a.v \in Int
    BY <1>1
  <1>3. a \in Valid
    BY <1>1, <1>2 DEF Valid, Item
  <1>4. ItemBytes(a) = IF Short(a) THEN BigEndian16(a.v) ELSE BigEndian32(a.v)
    BY <1>2 DEF ItemBytes
  <1>5. Uint16ToBytes(a.v) = BigEndian16(a.v) /\ Uint32ToBytes(a.v) = BigEndian32(a.v)
    BY <1>2, TwoBytes, FourBytesOf
  <1> QED
    BY <1>2, <1>3, <1>4, <1>5

\* Each add_* function adds the bytes of one item, or refuses.
LEMMA AddsAnItem ==
    ASSUME Adds
    PROVE  Refuses \/ \E a \in Valid : AddWords(ItemBytes(a), <<a>>)
  <1>1. CASE AddUint16
    <2>1. PICK a \in Values : Short(a) /\ AddWords(BigEndian16(a.v), <<a>>)
      BY <1>1 DEF AddUint16
    <2> QED
      BY <2>1, ValuesAreValid
  <1>2. CASE AddUint32
    <2>1. PICK a \in Values : ~Short(a) /\ AddWords(BigEndian32(a.v), <<a>>)
      BY <1>2 DEF AddUint32
    <2> QED
      BY <2>1, ValuesAreValid
  <1>3. ASSUME NEW d, NEW values, AddBytesToBuffer(d, values)
        PROVE  Refuses \/ (Even(d) /\ AddWords(d, values))
    BY <1>3 DEF AddBytesToBuffer, Refuses, Even, SENSIRION_WORD_SIZE
  <1>4. CASE AddBytes
    <2>1. PICK d \in Arrays : AddBytesToBuffer(d, <<[kind |-> "bytes", v |-> d]>>)
      BY <1>4 DEF AddBytes
    <2> DEFINE a == [kind |-> "bytes", v |-> d]
    <2>2. d \in Seq(Byte)
      BY ArgsAssumption
    <2>3. a \in Item /\ a.kind = "bytes" /\ a.v = d
      BY <2>2 DEF Item
    <2>4. Refuses \/ (Even(d) /\ AddWords(d, <<a>>))
      BY <1>3, <2>1
    <2> HIDE DEF a
    <2>5. ItemBytes(a) = d
      BY <2>3 DEF ItemBytes
    <2>6. Even(d) => a \in Valid
      BY <2>3 DEF Valid
    <2> QED
      BY <2>4, <2>5, <2>6
  <1>5. CASE AddConverted
    <2>1. PICK a \in Values :
              AddBytesToBuffer(IF Short(a) THEN Uint16ToBytes(a.v) ELSE Uint32ToBytes(a.v), <<a>>)
      BY <1>5 DEF AddConverted
    <2>2. AddBytesToBuffer(ItemBytes(a), <<a>>)
      BY <2>1, ValuesAreValid
    <2>3. Refuses \/ AddWords(ItemBytes(a), <<a>>)
      BY <1>3, <2>2
    <2> QED
      BY <2>3, ValuesAreValid
  <1> QED
    BY <1>1, <1>2, <1>4, <1>5 DEF Adds

\* A frame without data has no values.
LEMMA NothingEncodes == Encodes(<<>>, <<>>)
  <1> DEFINE f == [k \in 0..0 |-> <<>>]
  <1>1. Coded(<<>>) = [k \in 1..0 |-> ItemBytes(<<>>[k])] /\ 1..0 = {}
    BY EmptyPrefix DEF Coded
  <1>2. f \in [0..0 -> Seq(Byte)] /\ f[0] = <<>>
    OBVIOUS
  <1>3. Len(Coded(<<>>)) = 0
    BY <1>1
  <1> HIDE DEF f
  <1>4. IsFlattening(f, Coded(<<>>))
    BY <1>2, <1>3, EmptyPrefix DEF IsFlattening
  <1>5. <<>> \in Seq(Valid) /\ Len(<<>>) = 0
    OBVIOUS
  <1> QED
    BY <1>2, <1>4, <1>5 DEF Encodes

\* One more item, and its bytes.
LEMMA OneMoreEncodes ==
    ASSUME NEW values, NEW payload, Encodes(values, payload), NEW a \in Valid
    PROVE  Encodes(values \o <<a>>, payload \o ItemBytes(a))
  <1> DEFINE n     == Len(values)
             more  == values \o <<a>>
             bytes == ItemBytes(a)
  <1>1. values \in Seq(Valid) /\ n \in Nat /\ bytes \in Seq(Byte)
    BY ItemBytesTyped DEF Encodes
  <1>2. PICK f \in [0..n -> Seq(Byte)] : IsFlattening(f, Coded(values)) /\ f[n] = payload
    BY DEF Encodes
  <1>3. more \in Seq(Valid) /\ Len(more) = n + 1 /\ more[n + 1] = a
        /\ \A k \in 1..n : more[k] = values[k]
    <2> DEFINE one == <<a>>
    <2>1. one \in Seq(Valid) /\ Len(one) = 1 /\ one[1] = a
      OBVIOUS
    <2> HIDE DEF one
    <2>2. values \o one \in Seq(Valid) /\ IsConcat(values \o one, values, one)
      BY <1>1, <2>1, ConcatAt
    <2> QED
      BY <2>1, <2>2 DEF IsConcat, one
  <1> HIDE DEF more, bytes
  <1> DEFINE g == [k \in 0..(n + 1) |-> IF k = n + 1 THEN payload \o bytes ELSE f[k]]
  <1>4. Len(Coded(values)) = n /\ \A k \in 1..n : Coded(values)[k] = ItemBytes(values[k])
    BY <1>1 DEF Coded
  <1>5. Len(Coded(more)) = n + 1
        /\ \A k \in 1..(n + 1) : Coded(more)[k] = ItemBytes(more[k])
    BY <1>1, <1>3 DEF Coded
  <1>6. f[0] = <<>> /\ \A k \in 1..n : f[k] = f[k - 1] \o ItemBytes(values[k])
    BY <1>2, <1>4 DEF IsFlattening
  <1> HIDE DEF n
  <1>7. payload \in Seq(Byte) /\ payload \o bytes \in Seq(Byte)
    <2>1. n \in 0..n
      BY <1>1
    <2>2. payload \in Seq(Byte)
      BY <1>2, <2>1
    <2> QED
      BY <1>1, <2>2, ConcatAt
  <1>8. g \in [0..(n + 1) -> Seq(Byte)]
    <2>1. ASSUME NEW k \in 0..(n + 1), k # n + 1 PROVE f[k] \in Seq(Byte)
      <3>1. k \in 0..n
        BY <1>1, <2>1
      <3> QED
        BY <1>2, <3>1
    <2> QED
      BY <1>7, <2>1
  <1>9. g[0] = <<>> /\ g[n + 1] = payload \o bytes /\ \A k \in 0..n : g[k] = f[k]
    BY <1>1, <1>6
  <1> HIDE DEF g
  <1>10. ASSUME NEW k \in 1..(n + 1) PROVE g[k] = g[k - 1] \o Coded(more)[k]
    <2>1. CASE k = n + 1
      <3>1. k - 1 = n /\ n \in 0..n
        BY <1>1, <2>1
      <3>2. g[k - 1] = payload
        BY <1>2, <1>9, <3>1
      <3>3. Coded(more)[k] = bytes
        BY <1>3, <1>5, <2>1 DEF bytes
      <3> QED
        BY <1>9, <2>1, <3>2, <3>3
    <2>2. CASE k # n + 1
      <3>1. k \in 1..n /\ k \in 0..n /\ k - 1 \in 0..n
        BY <1>1, <2>2
      <3>2. Coded(more)[k] = ItemBytes(values[k])
        BY <1>3, <1>5, <3>1
      <3> QED
        BY <1>6, <1>9, <3>1, <3>2
    <2> QED
      BY <2>1, <2>2
  <1>11. IsFlattening(g, Coded(more))
    BY <1>5, <1>9, <1>10 DEF IsFlattening
  <1>12. Encodes(more, payload \o bytes)
    BY <1>3, <1>8, <1>9, <1>11 DEF Encodes
  <1> QED
    BY <1>12 DEF more, bytes

-----------------------------------------------------------------------------
(* Reading the values back.                                                *)

\* Every item is read back from its bytes by the conversion for its kind.
LEMMA ItemIsBack ==
    ASSUME NEW a \in Valid
    PROVE  /\ ReadBack(a.kind, ItemBytes(a)) = a.v
           /\ Size(a) = Len(ItemBytes(a)) /\ Size(a) \in Nat
           /\ a = [kind |-> a.kind, v |-> a.v]
  <1>1. ItemBytes(a) \in Seq(Byte)
    BY ItemBytesTyped
  <1>2. CASE a.kind = "bytes"
    <2>1. a \in [kind : {"bytes"}, v : Seq(Byte)]
      BY <1>2 DEF Valid, Item
    <2>2. a.v \in Seq(Byte) /\ Len(a.v) \in Nat /\ a = [kind |-> a.kind, v |-> a.v]
      BY <2>1
    <2>3. ItemBytes(a) = a.v
      BY <1>2 DEF ItemBytes
    <2>4. ReadBack(a.kind, a.v) = a.v
      BY <1>2 DEF ReadBack
    <2>5. Size(a) = Len(a.v)
      BY <1>2 DEF Size, Short
    <2> QED
      BY <2>2, <2>3, <2>4, <2>5
  <1>3. CASE a.kind # "bytes"
    <2>1. /\ a \in [kind : {"uint16", "int16", "uint32", "int32", "float"}, v : Int]
          /\ InRange(a)
      BY <1>3 DEF Valid, Item
    <2>2. a.v \in Int /\ a.kind \in {"uint16", "int16", "uint32", "int32", "float"}
          /\ a = [kind |-> a.kind, v |-> a.v]
      BY <2>1
    <2>3. /\ Uint16ToBytes(a.v) = BigEndian16(a.v) /\ Uint32ToBytes(a.v) = BigEndian32(a.v)
          /\ Len(BigEndian16(a.v)) = 2 /\ Len(BigEndian32(a.v)) = 4
      BY <2>2, TwoBytes, FourBytesOf
    <2>4. CASE a.kind = "uint16"
      <3>1. a.v \in Nat /\ a.v < 65536
        BY <2>1, <2>2, <2>4 DEF InRange
      <3>2. BytesToUint16(Uint16ToBytes(a.v)) = a.v
        BY <3>1, Uint16RoundTrip
      <3> QED
        BY <2>2, <2>3, <2>4, <3>2 DEF ItemBytes, ReadBack, Size, Short
    <2>5. CASE a.kind = "int16"
      <3>1. -32768 <= a.v /\ a.v < 32768
        BY <2>1, <2>2, <2>5 DEF InRange
      <3>2. BytesToInt16(Uint16ToBytes(a.v)) = a.v
        BY <2>2, <3>1, Int16RoundTrip
      <3> QED
        BY <2>2, <2>3, <2>5, <3>2 DEF ItemBytes, ReadBack, Size, Short
    <2>6. CASE a.kind = "uint32"
      <3>1. 0 <= a.v \div 65536 /\ a.v \div 65536 < 65536
        BY <2>1, <2>6 DEF InRange
      <3>2. a.v \in Nat /\ a.v < 4294967296
        BY SMT, <2>2, <3>1
      <3>3. BytesToUint32(Uint32ToBytes(a.v)) = a.v
        BY <3>2, Uint32RoundTrip
      <3> QED
        BY <2>2, <2>3, <2>6, <3>3 DEF ItemBytes, ReadBack, Size, Short
    <2>7. CASE a.kind \in {"int32", "float"}
      <3>1. -32768 <= a.v \div 65536 /\ a.v \div 65536 < 32768
        BY <2>1, <2>7 DEF InRange
      <3>2. -2147483648 <= a.v /\ a.v < 2147483648
        BY SMT, <2>2, <3>1
      <3>3. BytesToInt32(Uint32ToBytes(a.v)) = a.v
        BY <2>2, <3>2, Int32RoundTrip
      <3> QED
        BY <2>2, <2>3, <2>7, <3>3 DEF ItemBytes, ReadBack, Size, Short
    <2> QED
      BY <2>2, <2>4, <2>5, <2>6, <2>7
  <1> QED
    BY <1>2, <1>3

\* What the fold of TotalSize iterates over the prefixes of s.
SizeIteration(iter, s) ==
    iter = [t \in SUBSET DOMAIN s |->
               IF t = {} THEN 0 ELSE iter[t \ {Max(t)}] + Size(s[Max(t)])]

\* What the iteration is on the prefixes of s.
SizePrefixes(iter, s, n) ==
    /\ iter[1..0] = 0
    /\ \A k \in 1..n : iter[1..k] = iter[1..(k - 1)] + Size(s[k])

\* TotalSize is an iteration of it, and there is one for every list of items.
LEMMA SizesIterate ==
  ASSUME NEW s \in Seq(Valid)
  PROVE  \E iter : TotalSize(s) = iter[1..Len(s)] /\ SizePrefixes(iter, s, Len(s))
  <1> DEFINE n == Len(s)
             step == [p \in Nat \X (1..n) |-> p[1] + Size(s[p[2]])]
  <1>1. n \in Nat /\ DOMAIN s = 1..n
    OBVIOUS
  <1>2. step \in [Nat \X (1..n) -> Nat]
    <2>1. ASSUME NEW p \in Nat \X (1..n) PROVE p[1] + Size(s[p[2]]) \in Nat
      <3>1. p[1] \in Nat /\ s[p[2]] \in Valid
        OBVIOUS
      <3>2. Size(s[p[2]]) \in Nat
        BY <3>1, ItemIsBack
      <3> QED
        BY <3>1, <3>2
    <2> QED
      BY <2>1
  <1>3. 0 \in Nat
    OBVIOUS
  <1>4. PICK f \in [SUBSET (1..n) -> Nat] : IsFold(f, step, 0, n)
    <2> HIDE DEF step, n
    <2> QED
      BY <1>1, <1>2, <1>3, FoldExists
  <1>5. SizeIteration(f, s)
    <2>1. ASSUME NEW t \in SUBSET (1..n), t # {}
          PROVE  f[t] = f[t \ {Max(t)}] + Size(s[Max(t)])
      <3>1. Max(t) \in t
        BY <1>1, <2>1, MaxExists
      <3>2. f[t \ {Max(t)}] \in Nat /\ Max(t) \in 1..n
        BY <3>1
      <3> QED
        BY <1>4, <2>1, <3>2 DEF IsFold
    <2> QED
      BY <1>1, <1>4, <2>1 DEF SizeIteration, IsFold
  <1> DEFINE iter == CHOOSE iter : SizeIteration(iter, s)
  <1>6. SizeIteration(iter, s)
    BY <1>5
  <1>7. TotalSize(s) = iter[1..n]
    <2>1. TotalSize(s) = iter[DOMAIN s]
      BY Zenon DEF TotalSize, FoldLeft, MapThenFoldSet, SizeIteration
    <2> QED
      BY <1>1, <2>1
  <1> HIDE DEF iter
  <1>8. iter[1..0] = 0
    BY <1>1, <1>6, EmptyPrefix DEF SizeIteration
  <1>9. ASSUME NEW k \in 1..n PROVE iter[1..k] = iter[1..(k - 1)] + Size(s[k])
    <2> DEFINE t == 1..k
    <2>1. t \in SUBSET DOMAIN s /\ t # {} /\ Max(t) = k /\ t \ {Max(t)} = 1..(k - 1)
      BY <1>1, PrefixStep
    <2> HIDE DEF t
    <2>2. iter[t] = iter[t \ {Max(t)}] + Size(s[Max(t)])
      BY <2>1, <1>6 DEF SizeIteration
    <2> QED
      BY <2>1, <2>2 DEF t
  <1> QED
    BY <1>7, <1>8, <1>9 DEF SizePrefixes

\* The items before the kth take as many bytes as their flattening has.
LEMMA PositionOf ==
    ASSUME NEW values \in Seq(Valid), NEW f \in [0..Len(values) -> Seq(Byte)],
           IsFlattening(f, Coded(values)), NEW k \in 1..Len(values)
    PROVE  TotalSize(SubSeq(values, 1, k - 1)) = Len(f[k - 1])
  <1> DEFINE n == Len(values)
             s == SubSeq(values, 1, k - 1)
             m == k - 1
  <1>1. /\ n \in Nat /\ m \in Nat /\ m \in 0..n /\ s \in Seq(Valid) /\ Len(s) = m
        /\ \A x \in 1..m : x \in 1..n /\ s[x] = values[x]
    OBVIOUS
  <1>2. Coded(values) \in Seq(Seq(Byte)) /\ Len(Coded(values)) = n
        /\ \A x \in 1..n : Coded(values)[x] = ItemBytes(values[x])
    <2>1. \A x \in 1..n : ItemBytes(values[x]) \in Seq(Byte)
      BY ItemBytesTyped
    <2> QED
      BY <2>1 DEF Coded
  <1>3. KeepsParts(f, Coded(values)) /\ f[0] = <<>>
    BY <1>2, FlatteningKeeps DEF IsFlattening
  <1> HIDE DEF n, s, m
  <1>4. PICK g : TotalSize(s) = g[1..m] /\ SizePrefixes(g, s, m)
    BY <1>1, SizesIterate
  <1> DEFINE S == {x \in Nat : x <= m => g[1..x] = Len(f[x])}
  <1>5. 0 \in S
    <2>1. g[1..0] = 0 /\ Len(f[0]) = 0
      BY <1>3, <1>4 DEF SizePrefixes
    <2> QED
      BY <2>1
  <1>6. ASSUME NEW x \in Nat, x \in S PROVE x + 1 \in S
    <2> SUFFICES ASSUME x + 1 <= m PROVE g[1..(x + 1)] = Len(f[x + 1])
      OBVIOUS
    <2>1. x + 1 \in 1..m /\ (x + 1) - 1 = x /\ x <= m
      BY <1>1
    <2>2. x + 1 \in 1..n /\ s[x + 1] = values[x + 1]
      BY <1>1, <2>1
    <2>3. g[1..(x + 1)] = g[1..x] + Size(values[x + 1])
      BY <1>4, <2>1, <2>2 DEF SizePrefixes
    <2>4. Len(f[x + 1]) = Len(f[x]) + Len(ItemBytes(values[x + 1]))
      BY <1>2, <1>3, <2>1, <2>2 DEF KeepsParts
    <2>5. Size(values[x + 1]) = Len(ItemBytes(values[x + 1]))
      <3>1. values[x + 1] \in Valid
        BY <2>2 DEF n
      <3> QED
        BY <3>1, ItemIsBack
    <2>6. g[1..x] = Len(f[x])
      BY <1>6, <2>1
    <2> QED
      BY <2>3, <2>4, <2>5, <2>6
  <1>7. g[1..m] = Len(f[m])
    <2>1. Nat \subseteq S
      <3> HIDE DEF S
      <3> QED
        BY <1>5, <1>6, NatSetInduction
    <2>2. m <= m
      BY <1>1
    <2> QED
      BY <1>1, <2>1, <2>2
  <1> QED
    BY <1>4, <1>7 DEF s, m

\* A sequence is its length and its elements.
LEMMA SameSequence ==
    ASSUME NEW E, NEW s \in Seq(E), NEW t \in Seq(E), Len(s) = Len(t),
           \A x \in 1..Len(t) : s[x] = t[x]
    PROVE  s = t
  OBVIOUS

\* A part of a sequence is what its elements say.
LEMMA PartOf ==
    ASSUME NEW E, NEW s \in Seq(E), NEW b \in Seq(E), NEW p \in Seq(E),
           Len(p) + Len(b) <= Len(s), \A x \in 1..Len(b) : s[Len(p) + x] = b[x]
    PROVE  SubSeq(s, Len(p) + 1, Len(p) + Len(b)) = b
  <1> DEFINE m == Len(p)
             l == Len(b)
             u == SubSeq(s, m + 1, m + l)
  <1>1. m \in Nat /\ l \in Nat /\ Len(s) \in Nat /\ m + l <= Len(s)
    OBVIOUS
  <1> HIDE DEF m, l
  <1>2. u \in Seq(E) /\ Len(u) = l
    BY <1>1
  <1>3. ASSUME NEW x \in 1..l PROVE u[x] = b[x]
    <2>1. u[x] = s[(m + 1) + x - 1]
      BY <1>1
    <2>2. (m + 1) + x - 1 = m + x
      BY <1>1
    <2> QED
      BY <2>1, <2>2 DEF m, l
  <1> HIDE DEF u
  <1>4. u = b
    <2>1. Len(u) = Len(b) /\ \A x \in 1..Len(b) : u[x] = b[x]
      BY <1>2, <1>3 DEF l
    <2> QED
      BY <1>2, <2>1, SameSequence
  <1> QED
    BY <1>4 DEF u, m, l

\* Values are read from their bytes as they were.
LEMMA EncodedIsBack ==
    ASSUME NEW values, NEW payload, Encodes(values, payload)
    PROVE  Converted(values, payload) = values
  <1> DEFINE n == Len(values)
             c == Coded(values)
  <1>1. values \in Seq(Valid) /\ n \in Nat
    BY DEF Encodes
  <1>2. PICK f \in [0..n -> Seq(Byte)] : IsFlattening(f, c) /\ f[n] = payload
    BY DEF Encodes
  <1>3. c \in Seq(Seq(Byte)) /\ Len(c) = n /\ \A k \in 1..n : c[k] = ItemBytes(values[k])
    <2>1. \A k \in 1..n : ItemBytes(values[k]) \in Seq(Byte)
      BY <1>1, ItemBytesTyped
    <2> QED
      BY <1>1, <2>1 DEF Coded
  <1>4. KeepsParts(f, c)
    BY <1>2, <1>3, FlatteningKeeps
  <1> DEFINE at(k)  == TotalSize(SubSeq(values, 1, k - 1))
             got(k) == [kind |-> values[k].kind,
                        v    |-> ReadBack(values[k].kind,
                                          SubSeq(payload, at(k) + 1, at(k) + Size(values[k])))]
  <1>5. Converted(values, payload) = [k \in 1..n |-> got(k)]
    BY Zenon DEF Converted
  <1>6. ASSUME NEW k \in 1..n PROVE got(k) = values[k]
    <2> DEFINE a == values[k]
               b == ItemBytes(a)
               p == f[k - 1]
    <2>1. a \in Valid
      BY <1>1
    <2>2. /\ ReadBack(a.kind, b) = a.v /\ Size(a) = Len(b) /\ Size(a) \in Nat
          /\ a = [kind |-> a.kind, v |-> a.v] /\ b \in Seq(Byte)
      BY <2>1, ItemIsBack, ItemBytesTyped
    <2>3. at(k) = Len(p)
      BY <1>1, <1>2, PositionOf
    <2>4. p \in Seq(Byte) /\ payload \in Seq(Byte)
      <3>1. k - 1 \in 0..n /\ n \in 0..n
        BY <1>1
      <3> QED
        BY <1>2, <3>1
    <2>5. /\ Len(p) + Len(b) <= Len(payload)
          /\ \A x \in 1..Len(b) : payload[Len(p) + x] = b[x]
      <3>1. Len(c) = n /\ f[n] = payload /\ c[k] = b
        BY <1>2, <1>3
      <3> HIDE DEF b, a, c, n
      <3>2. /\ Len(f[k]) = Len(f[k - 1]) + Len(c[k])
            /\ Len(f[k]) <= Len(f[Len(c)])
            /\ \A x \in 1..Len(c[k]) : f[Len(c)][Len(f[k - 1]) + x] = c[k][x]
        <4>1. k \in 1..Len(c)
          BY <3>1
        <4> QED
          BY <1>4, <4>1 DEF KeepsParts
      <3> QED
        BY <3>1, <3>2
    <2> HIDE DEF p, b, a, c, n
    <2>6. SubSeq(payload, Len(p) + 1, Len(p) + Len(b)) = b
      BY <2>2, <2>4, <2>5, PartOf
    <2>7. SubSeq(payload, at(k) + 1, at(k) + Size(a)) = b
      BY <2>2, <2>3, <2>6
    <2> HIDE DEF at
    <2> QED
      BY <2>2, <2>7 DEF a
  <1>7. [k \in 1..n |-> got(k)] = [k \in 1..n |-> values[k]]
    <2> HIDE DEF got, n
    <2> QED
      BY <1>6
  <1>8. [k \in 1..n |-> values[k]] = values
    BY <1>1
  <1> QED
    BY <1>5, <1>7, <1>8

-----------------------------------------------------------------------------
(* Transmissions.                                                          *)

\* The request a transmission was for is encoded in its data.
Encoded(r) == r.data \in Seq(Byte) /\ Encodes(r.values, r.data)

\* A transmission that succeeded delivered what was asked, and that encodes the
\* values.
SentInv ==
    sent.ret = NO_ERROR => SuccessIsDelivered /\ Encoded(sent.request)

\* The inductive invariant: an error replaces the offset, the buffer holds the
\* frame of the request, and what was sent was such a frame.
Inv == BufferInv /\ ValuesInv /\ SentInv

\* All of a frame that the uint8_t count can express is sent when the HAL says so.
LEMMA HalWritesAll ==
    ASSUME NEW s \in Seq(Cell), Len(s) < 256, NEW address, NEW r,
           HalWrite(address, s, Len(s), r), sent'.ret = NO_ERROR
    PROVE  sent'.to = address /\ sent'.wire = s /\ sent'.request = r
  <1>1. HalCount(Len(s)) = Len(s)
    BY DEF HalCount
  <1>2. Prefix(s, Len(s)) = s
    BY DEF Prefix
  <1>3. NO_ERROR # HAL_ERROR
    BY DEF NO_ERROR, HAL_ERROR
  <1>4. sent' = [to |-> address, request |-> r, wire |-> Prefix(s, HalCount(Len(s))),
                 ret |-> NO_ERROR]
        \/ sent'.ret = HAL_ERROR
    BY DEF HalWrite
  <1> QED
    BY <1>1, <1>2, <1>3, <1>4

\* A frame that carries an encoded request is delivered.
LEMMA FrameIsDelivered ==
    ASSUME NEW s \in Seq(Cell), Len(s) < 256, NEW r, r.cmd \in Nat, r.cmd < 65536,
           Encoded(r), Even(r.data), Len(s) = FrameLength(r.data), Carries(s, r.cmd, r.data),
           HalWrite(Sensor, s, Len(s), r)
    PROVE  SentInv'
  <1> SUFFICES ASSUME sent'.ret = NO_ERROR PROVE SuccessIsDelivered' /\ Encoded(sent'.request)
    BY DEF SentInv
  <1>1. sent'.to = Sensor /\ sent'.wire = s /\ sent'.request = r
    BY HalWritesAll
  <1>2. r.data \in Seq(Byte)
    BY DEF Encoded
  <1>3. SensorDecodes(Sensor, s) = [cmd |-> r.cmd, data |-> r.data]
    BY <1>2, FrameIsDecoded
  <1> QED
    BY <1>1, <1>3 DEF SuccessIsDelivered, Asked

\* Arguments as bytes, and as values.
SmallWords(args) == \A k \in 1..Len(args) : args[k] < 65536

\* The bytes write_cmd_with_args makes of its words encode them.
LEMMA WordBytesEncode ==
    ASSUME NEW args \in Seq(Nat), SmallWords(args)
    PROVE  LET values == [k \in 1..Len(args) |-> [kind |-> "uint16", v |-> args[k]]]
           IN  /\ Encodes(values, WordBytes(args)) /\ WordBytes(args) \in Seq(Byte)
               /\ Len(WordBytes(args)) = 2 * Len(args)
  <1> DEFINE n      == Len(args)
             item(k) == [kind |-> "uint16", v |-> args[k]]
             values == [k \in 1..n |-> item(k)]
             seqs   == [k \in 1..n |-> BigEndian16(args[k])]
  <1>1. n \in Nat
    OBVIOUS
  <1>2. ASSUME NEW k \in 1..n
        PROVE  /\ item(k) \in Valid /\ ItemBytes(item(k)) = BigEndian16(args[k])
               /\ BigEndian16(args[k]) \in Seq(Byte) /\ Len(BigEndian16(args[k])) = 2
    <2> DEFINE v == args[k]
               a == [kind |-> "uint16", v |-> v]
    <2>1. v \in Nat /\ v < 65536 /\ v \in Int
      BY DEF SmallWords
    <2> HIDE DEF v
    <2>2. a \in Item /\ a.kind = "uint16" /\ a.v = v
      BY <2>1 DEF Item
    <2> HIDE DEF a
    <2>3. InRange(a) /\ Short(a) /\ a.kind # "bytes"
      BY <2>1, <2>2 DEF InRange, Short
    <2>4. a \in Valid /\ ItemBytes(a) = BigEndian16(v)
      BY <2>2, <2>3 DEF Valid, ItemBytes
    <2>5. BigEndian16(v) \in Seq(Byte) /\ Len(BigEndian16(v)) = 2
      BY <2>1, TwoBytes
    <2> QED
      BY <2>4, <2>5 DEF a, v
  <1> HIDE DEF n, item
  <1>3. values \in Seq(Valid) /\ Len(values) = n /\ \A k \in 1..n : values[k] = item(k)
    BY <1>1, <1>2
  <1>4. seqs \in Seq(Seq(Byte)) /\ Len(seqs) = n
        /\ \A k \in 1..n : seqs[k] = BigEndian16(args[k])
    BY <1>1, <1>2
  <1> HIDE DEF values, seqs
  <1>5. Coded(values) = seqs
    <2>1. Coded(values) = [k \in 1..n |-> ItemBytes(values[k])]
      BY <1>3 DEF Coded
    <2>2. \A k \in 1..n : ItemBytes(values[k]) = BigEndian16(args[k])
      BY <1>2, <1>3
    <2> QED
      BY <2>1, <2>2 DEF seqs
  <1> DEFINE flat == FlattenSeq(seqs)
  <1>6. PICK f \in [0..n -> Seq(Byte)] : IsFlattening(f, seqs) /\ flat = f[n]
    BY <1>4, FlattenSteps
  <1>7. flat \in Seq(Byte) /\ Len(flat) = 2 * n
    <2> DEFINE w == 2
    <2>1. w \in {2, 3} /\ \A k \in 1..Len(seqs) : Len(seqs[k]) = w
      BY <1>2, <1>4
    <2> HIDE DEF w
    <2>2. FlattenSeq(seqs) \in Seq(Byte) /\ IsPaved(FlattenSeq(seqs), seqs, w)
      BY <1>4, <2>1, EqualWidths
    <2> HIDE DEF flat
    <2>3. flat \in Seq(Byte) /\ IsPaved(flat, seqs, w)
      BY <2>2 DEF flat
    <2> QED
      BY <1>4, <2>3 DEF w, IsPaved
  <1>8. WordBytes(args) = flat
    BY DEF WordBytes, seqs, n
  <1> HIDE DEF flat
  <1>9. Encodes(values, flat)
    BY <1>3, <1>5, <1>6 DEF Encodes
  <1> QED
    BY <1>7, <1>8, <1>9 DEF values, item, n

\* A one-shot write of a command and arguments sends a frame.
LEMMA LocalIsSent ==
    ASSUME NEW cmd \in Commands, NEW args \in Seq(Nat), SmallWords(args),
           2 + 3 * Len(args) < 256, WriteLocal(cmd, args)
    PROVE  SentInv' /\ UNCHANGED <<buffer, offset, request>>
  <1> DEFINE wire    == FillCmdSendBuf(cmd, args)
             payload == WordBytes(args)
             values  == [k \in 1..Len(args) |-> [kind |-> "uint16", v |-> args[k]]]
             r       == Request(cmd, payload, values)
             head    == BigEndian16(cmd)
             packed  == Packed(payload)
             n       == Len(args)
  <1>1. HalWrite(Sensor, wire, Len(wire), r) /\ UNCHANGED <<buffer, offset, request>>
    BY DEF WriteLocal
  <1>2. Encodes(values, payload) /\ payload \in Seq(Byte) /\ Len(payload) = 2 * n /\ n \in Nat
    BY WordBytesEncode
  <1>3. cmd \in Nat /\ cmd < 65536 /\ cmd \in Int
    BY ArgsAssumption
  <1>4. r.cmd = cmd /\ r.data = payload /\ r.values = values
    BY DEF Request
  <1>5. /\ head \in Seq(Cell) /\ Len(head) = 2
        /\ head[1] = Low(High(cmd)) /\ head[2] = Low(cmd)
    BY <1>3, TwoBytes, BytesAreCells
  <1>6. wire = head \o packed
    BY DEF FillCmdSendBuf
  <1> HIDE DEF r, values, payload, head, packed, wire, n
  <1>7. Even(payload) /\ Len(payload) \div 2 = n
    BY <1>2 DEF Even
  <1>8. /\ packed \in Seq(Cell) /\ Len(packed) = 3 * n
        /\ \A k \in 1..n : /\ packed[3 * k - 2] = payload[2 * k - 1] /\ packed[3 * k - 1] = payload[2 * k]
                           /\ packed[3 * k] = Crc(<<payload[2 * k - 1], payload[2 * k]>>)
    <2>1. /\ Packed(payload) \in Seq(Cell) /\ Len(Packed(payload)) = 3 * (Len(payload) \div 2)
          /\ \A k \in 1..(Len(payload) \div 2) :
                 /\ Packed(payload)[3 * k - 2] = payload[2 * k - 1]
                 /\ Packed(payload)[3 * k - 1] = payload[2 * k]
                 /\ Packed(payload)[3 * k] = Crc(<<payload[2 * k - 1], payload[2 * k]>>)
      BY <1>2, PackedWords
    <2> QED
      BY <1>7, <2>1 DEF packed
  <1>9. wire \in Seq(Cell) /\ IsConcat(wire, head, packed)
    BY <1>5, <1>6, <1>8, ConcatAt
  <1>10. Len(wire) = 2 + 3 * n /\ Len(wire) < 256 /\ FrameLength(payload) = 2 + 3 * n
    <2>1. Len(wire) = 2 + 3 * n
      BY <1>5, <1>8, <1>9 DEF IsConcat
    <2>2. 2 + 3 * n < 256
      BY DEF n
    <2>3. FrameLength(payload) = 2 + 3 * n
      BY <1>7 DEF FrameLength
    <2> QED
      BY <2>1, <2>2, <2>3
  <1>11. Carries(wire, cmd, payload)
    <2>1. wire[1] = Low(High(cmd)) /\ wire[2] = Low(cmd)
      BY <1>5, <1>9 DEF IsConcat
    <2>2. ASSUME NEW k \in 1..n
          PROVE  /\ wire[3 * k] = payload[2 * k - 1] /\ wire[3 * k + 1] = payload[2 * k]
                 /\ wire[3 * k + 2] = Crc(<<payload[2 * k - 1], payload[2 * k]>>)
      <3>1. /\ 3 * k = 2 + (3 * k - 2) /\ 3 * k + 1 = 2 + (3 * k - 1) /\ 3 * k + 2 = 2 + 3 * k
            /\ 3 * k - 2 \in 1..(3 * n) /\ 3 * k - 1 \in 1..(3 * n) /\ 3 * k \in 1..(3 * n)
        BY <1>2
      <3>2. /\ wire[3 * k] = packed[3 * k - 2] /\ wire[3 * k + 1] = packed[3 * k - 1]
            /\ wire[3 * k + 2] = packed[3 * k]
        BY <1>5, <1>8, <1>9, <3>1 DEF IsConcat
      <3> QED
        BY <1>8, <3>2
    <2> QED
      BY <1>7, <2>1, <2>2 DEF Carries
  <1>12. Encoded(r)
    BY <1>2, <1>4 DEF Encoded
  <1>13. SentInv'
    <2>1. /\ r.cmd \in Nat /\ r.cmd < 65536 /\ Even(r.data)
          /\ Len(wire) = FrameLength(r.data) /\ Carries(wire, r.cmd, r.data)
      BY <1>3, <1>4, <1>7, <1>10, <1>11
    <2>2. /\ wire \in Seq(Cell) /\ Len(wire) < 256 /\ Encoded(r)
          /\ HalWrite(Sensor, wire, Len(wire), r)
      BY <1>1, <1>9, <1>10, <1>12
    <2> QED
      BY <2>1, <2>2, FrameIsDelivered
  <1> QED
    BY <1>1, <1>13

\* write_data sends the frame of the buffer.
LEMMA DataIsSent ==
    ASSUME Inv, BufferSize < 256, WriteData
    PROVE  SentInv' /\ UNCHANGED <<buffer, offset, request>>
  <1> DEFINE s == Prefix(buffer, offset)
             r == request
  <1>1. /\ Building /\ HalWrite(Sensor, s, offset, r)
        /\ UNCHANGED <<buffer, offset, request>>
    BY DEF WriteData
  <1>2. BufferInv /\ ValuesInv /\ BufferType
    BY DEF Inv, BufferInv
  <1>3. Sound
    BY <1>1, <1>2 DEF Building, BufferInv, Sound
  <1>4. /\ r.cmd \in Commands /\ Even(r.data) /\ offset = FrameLength(r.data)
        /\ offset <= BufferSize /\ Carries(buffer, r.cmd, r.data)
    BY <1>2, <1>3 DEF BufferInv
  <1>5. /\ buffer \in Seq(Cell) /\ Len(buffer) = BufferSize /\ offset \in Nat
        /\ r.data \in Seq(Byte) /\ BufferSize \in Nat
    BY <1>2, ArgsAssumption DEF BufferType, Requests
  <1>6. r.cmd \in Nat /\ r.cmd < 65536
    BY <1>4, ArgsAssumption
  <1>7. Encoded(r)
    BY <1>2, <1>3, <1>5 DEF Encoded, ValuesInv
  <1>8. s \in Seq(Cell) /\ Len(s) = offset /\ \A k \in 1..offset : s[k] = buffer[k]
    <2>1. s = SubSeq(buffer, 1, offset)
      <3>1. offset < Len(buffer) \/ offset = Len(buffer)
        BY <1>4, <1>5
      <3> QED
        BY <1>5, <3>1 DEF Prefix
    <2>2. offset <= Len(buffer)
      BY <1>4, <1>5
    <2> HIDE DEF s
    <2> QED
      BY <1>5, <2>1, <2>2
  <1>9. Len(s) < 256
    BY <1>4, <1>5, <1>8
  <1>10. Carries(s, r.cmd, r.data)
    <2> DEFINE n == Len(r.data) \div 2
    <2>1. n \in Nat /\ offset = 2 + 3 * n
      BY <1>4, <1>5, FrameLengths DEF FrameLength
    <2> HIDE DEF n
    <2>2. 1 \in 1..offset /\ 2 \in 1..offset
      BY <2>1
    <2>3. \A k \in 1..n : 3 * k \in 1..offset /\ 3 * k + 1 \in 1..offset /\ 3 * k + 2 \in 1..offset
      BY <2>1
    <2> HIDE DEF s
    <2> QED
      BY <1>4, <1>8, <2>2, <2>3 DEF Carries, n
  <1> HIDE DEF s, r
  <1>11. HalWrite(Sensor, s, Len(s), r)
    BY <1>1, <1>8
  <1>12. SentInv'
    BY <1>4, <1>6, <1>7, <1>8, <1>9, <1>10, <1>11, FrameIsDelivered
  <1> QED
    BY <1>1, <1>12

\* The general call sends its one byte.
LEMMA ResetIsSent ==
    ASSUME GeneralCallReset
    PROVE  SentInv' /\ UNCHANGED <<buffer, offset, request>>
  <1> DEFINE s == <<RESET>>
             r == Request(RESET, <<>>, <<>>)
  <1>1. HalWrite(GeneralCall, s, 1, r) /\ UNCHANGED <<buffer, offset, request>>
    BY DEF GeneralCallReset
  <1>2. s \in Seq(Cell) /\ Len(s) = 1 /\ Len(s) < 256
    <2>1. RESET \in Cell
      BY DEF RESET, Cell, Byte
    <2> QED
      BY <2>1
  <1>3. r.cmd = RESET /\ r.data = <<>> /\ r.values = <<>>
    BY DEF Request
  <1>4. Encoded(r)
    <2>1. <<>> \in Seq(Byte)
      OBVIOUS
    <2> HIDE DEF r
    <2> QED
      BY <1>3, <2>1, NothingEncodes DEF Encoded
  <1>5. SensorDecodes(GeneralCall, s) = [cmd |-> RESET, data |-> <<>>]
    BY DEF SensorDecodes
  <1> HIDE DEF s, r
  <1>6. ASSUME sent'.ret = NO_ERROR PROVE SuccessIsDelivered' /\ Encoded(sent'.request)
    <2>1. HalWrite(GeneralCall, s, Len(s), r)
      BY <1>1, <1>2
    <2>2. sent'.to = GeneralCall /\ sent'.wire = s /\ sent'.request = r
      BY <1>2, <1>6, <2>1, HalWritesAll
    <2> QED
      BY <1>3, <1>4, <1>5, <2>2 DEF SuccessIsDelivered, Asked
  <1> QED
    BY <1>1, <1>6 DEF SentInv

-----------------------------------------------------------------------------
(* The steps.                                                              *)

\* What is built, whatever the size of the buffer.
BuildInv == BufferInv /\ ValuesInv

\* The invariant holds before the first call.
LEMMA InitInv == Init => BuildInv /\ SentInv
  <1> SUFFICES ASSUME Init PROVE BuildInv /\ SentInv
    OBVIOUS
  <1>1. buffer \in [1..BufferSize -> Byte] /\ BufferSize \in Nat
    BY ArgsAssumption DEF Init
  <1>2. buffer \in Seq(Cell) /\ Len(buffer) = BufferSize
    BY <1>1 DEF Cell
  <1>3. NoRequest \in Requests /\ ~NoRequest.failed
    BY DEF NoRequest, Request, Requests
  <1>4. offset = 0 /\ request = NoRequest /\ sent.ret = HAL_ERROR
    BY DEF Init, NotSent
  <1>5. BufferType
    BY <1>2, <1>3, <1>4 DEF BufferType
  <1> QED
    BY <1>3, <1>4, <1>5
    DEF BuildInv, BufferInv, ValuesInv, SentInv, Sound, NO_ERROR, HAL_ERROR

\* A call that transmits nothing delivers nothing.
LEMMA NotSentIsFine == sent' = NotSent => SentInv'
  BY DEF SentInv, NotSent, NO_ERROR, HAL_ERROR

\* Where the buffer is left alone the invariant stays.
LEMMA UnchangedBuild ==
    ASSUME BuildInv, UNCHANGED <<buffer, offset, request>>
    PROVE  BuildInv'
  BY DEF BuildInv, BufferInv, BufferType, ValuesInv, Sound

\* A call that adds to the buffer, or takes it for a new frame.
Builds == (\E cmd \in Commands : AddCommand(cmd)) \/ Adds \/ Restart

\* A call that sends.
Sends == WriteData \/ WriteCmd \/ WriteCmdWithArgs \/ GeneralCallReset

\* Every call that builds a frame keeps the invariant.
LEMMA BuildStep ==
    ASSUME BuildInv, Builds
    PROVE  BuildInv' /\ SentInv'
  <1> USE DEF BuildInv
  <1>1. ASSUME NEW cmd \in Commands, AddCommand(cmd) PROVE BuildInv' /\ SentInv'
    <2>1. BufferInv'
      BY <1>1, CommandStored DEF BufferInv
    <2>2. request' = Request(cmd, <<>>, <<>>) /\ sent' = NotSent
      BY <1>1 DEF AddCommand
    <2>3. request'.data = <<>> /\ request'.values = <<>>
      BY <2>2 DEF Request
    <2>4. ValuesInv'
      BY <2>3, NothingEncodes DEF ValuesInv
    <2> QED
      BY <2>1, <2>2, <2>4, NotSentIsFine
  <1>2. CASE Refuses /\ sent' = NotSent
    <2>1. request \in Requests
      BY DEF BufferInv, BufferType
    <2>2. request' \in Requests /\ request'.failed
      BY <1>2, <2>1 DEF Refuses, Requests
    <2>3. offset' \in Nat /\ offset' = BYTE_NUM_ERROR
      BY <1>2 DEF Refuses, BYTE_NUM_ERROR
    <2>4. BufferType'
      BY <1>2, <2>2, <2>3 DEF Refuses, BufferInv, BufferType
    <2>5. ~Sound'
      BY <2>2 DEF Sound
    <2> QED
      BY <1>2, <2>3, <2>4, <2>5, NotSentIsFine DEF BufferInv, ValuesInv
  <1>3. ASSUME NEW a \in Valid, AddWords(ItemBytes(a), <<a>>) PROVE BuildInv' /\ SentInv'
    <2> DEFINE d  == ItemBytes(a)
               vs == <<a>>
    <2>1. d \in Seq(Byte) /\ Even(d)
      BY ItemBytesTyped
    <2>2. vs \in Seq(Item)
      BY DEF Valid
    <2>3. AddWords(d, vs)
      BY <1>3
    <2> HIDE DEF d, vs
    <2>4. /\ BufferInv' /\ request'.data = request.data \o d
          /\ request'.values = request.values \o vs
      BY <2>1, <2>2, <2>3, WordsStored
    <2>5. Sound /\ sent' = NotSent
      BY <2>3 DEF AddWords, Building, Sound, BufferInv
    <2>6. Encodes(request.values, request.data)
      BY <2>5 DEF ValuesInv
    <2>7. Encodes(request.values \o vs, request.data \o d)
      BY <2>6, OneMoreEncodes DEF d, vs
    <2>8. ValuesInv'
      BY <2>4, <2>7 DEF ValuesInv
    <2> QED
      BY <2>4, <2>5, <2>8, NotSentIsFine
  <1>4. CASE Adds
    <2>1. sent' = NotSent
      BY <1>4 DEF Adds, AddUint16, AddUint32, AddBytes, AddConverted, AddBytesToBuffer, AddWords
    <2>2. Refuses \/ \E a \in Valid : AddWords(ItemBytes(a), <<a>>)
      BY <1>4, AddsAnItem
    <2> QED
      BY <1>2, <1>3, <2>1, <2>2
  <1>5. CASE Restart
    <2>1. offset' = 0 /\ request' = NoRequest /\ sent' = NotSent /\ buffer' = buffer
      BY <1>5 DEF Restart
    <2>2. NoRequest \in Requests /\ ~NoRequest.failed
      BY DEF NoRequest, Request, Requests
    <2>3. BufferType'
      BY <2>1, <2>2 DEF BufferInv, BufferType
    <2>4. ~Sound' /\ ~request'.failed
      BY <2>1, <2>2 DEF Sound
    <2> QED
      BY <2>1, <2>3, <2>4, NotSentIsFine DEF BufferInv, ValuesInv
  <1> QED
    BY <1>1, <1>4, <1>5 DEF Builds

\* A call that sends leaves the frame under construction alone.
LEMMA SendsLeave ==
    ASSUME Sends
    PROVE  UNCHANGED <<buffer, offset, request>>
  BY DEF Sends, WriteData, WriteCmd, WriteCmdWithArgs, WriteLocal, GeneralCallReset

\* What a call reports as sent was delivered.
LEMMA SendStep ==
    ASSUME BuildInv, SentInv, BufferSize < 256, Sends
    PROVE  SentInv'
  <1>1. CASE WriteData
    BY <1>1, DataIsSent DEF Inv, BuildInv
  <1>2. CASE WriteCmd
    <2>1. PICK cmd \in Commands : WriteLocal(cmd, <<>>)
      BY <1>2 DEF WriteCmd
    <2> DEFINE args == <<>>
    <2>2. args \in Seq(Nat) /\ SmallWords(args) /\ 2 + 3 * Len(args) < 256
      BY DEF SmallWords
    <2>3. WriteLocal(cmd, args)
      BY <2>1
    <2> HIDE DEF args
    <2> QED
      BY <2>2, <2>3, LocalIsSent
  <1>3. CASE WriteCmdWithArgs
    <2>1. PICK cmd \in Commands, args \in ArgLists : WriteLocal(cmd, args)
      BY <1>3 DEF WriteCmdWithArgs
    <2>2. args \in Seq(Nat) /\ SmallWords(args)
      BY ArgsAssumption DEF SmallWords
    <2>3. 2 + 3 * Len(args) <= 32
      BY ArgsAssumption DEF SENSIRION_MAX_BUFFER_WORDS
    <2>4. 2 + 3 * Len(args) < 256
      BY <2>2, <2>3
    <2> QED
      BY <2>1, <2>2, <2>4, LocalIsSent
  <1>4. CASE GeneralCallReset
    BY <1>4, ResetIsSent
  <1> QED
    BY <1>1, <1>2, <1>3, <1>4 DEF Sends

\* A step builds or sends.
LEMMA NextCases ==
    ASSUME [Next]_vars
    PROVE  Builds \/ Sends \/ UNCHANGED vars
  BY DEF Next, Builds, Sends, Adds

\* What is built stays a frame, whatever is called.
LEMMA BuildInvariance == BuildInv /\ [Next]_vars => BuildInv'
  <1> SUFFICES ASSUME BuildInv, [Next]_vars PROVE BuildInv'
    OBVIOUS
  <1>1. CASE Builds
    BY <1>1, BuildStep
  <1>2. CASE Sends
    BY <1>2, SendsLeave, UnchangedBuild
  <1>3. CASE UNCHANGED vars
    BY <1>3, UnchangedBuild DEF vars
  <1> QED
    BY <1>1, <1>2, <1>3, NextCases

\* And what is reported as sent was delivered, if the count fits in a byte.
LEMMA SentInvariance ==
    ASSUME BufferSize < 256
    PROVE  BuildInv /\ SentInv /\ [Next]_vars => SentInv'
  <1> SUFFICES ASSUME BuildInv, SentInv, [Next]_vars PROVE SentInv'
    OBVIOUS
  <1>1. CASE Builds
    BY <1>1, BuildStep
  <1>2. CASE Sends
    BY <1>2, SendStep
  <1>3. CASE UNCHANGED vars
    BY <1>3 DEF vars, SentInv, SuccessIsDelivered
  <1> QED
    BY <1>1, <1>2, <1>3, NextCases

-----------------------------------------------------------------------------
(* Theorems.                                                               *)

\* The offset of a frame is never the number that means an error, so that a driver
\* can tell an error of the add_* functions, for every command, value and array.
THEOREM ErrorRecognised == Spec => []ErrorIsRecognisable
  <1>1. BuildInv => ErrorIsRecognisable
    <2> SUFFICES ASSUME BuildInv PROVE ErrorIsRecognisable
      OBVIOUS
    <2>1. request.failed => offset = BYTE_NUM_ERROR
      BY DEF BuildInv, BufferInv
    <2>2. ASSUME ~request.failed, offset = BYTE_NUM_ERROR PROVE FALSE
      <3>1. Sound
        BY <2>2 DEF Sound, BYTE_NUM_ERROR
      <3>2. offset = FrameLength(request.data) /\ request.data \in Seq(Byte)
        BY <3>1 DEF BuildInv, BufferInv, BufferType, Requests
      <3> QED
        BY <2>2, <3>2, FrameLengths
    <2> QED
      BY <2>1, <2>2 DEF ErrorIsRecognisable
  <1> QED
    BY <1>1, InitInv, BuildInvariance, PTL DEF Spec

\* What the HAL reports as written is a frame that the sensor decodes to the
\* command and the data of the caller, whatever the buffer held, as long as its
\* size fits the uint8_t count of the HAL.
THEOREM SuccessDelivers ==
    ASSUME BufferSize < 256
    PROVE  Spec => []SuccessIsDelivered
  <1>1. SentInv => SuccessIsDelivered
    BY DEF SentInv, SuccessIsDelivered
  <1> QED
    BY <1>1, InitInv, BuildInvariance, SentInvariance, PTL DEF Spec

\* Every integer and every float that was sent is read back as it was, and every
\* array, in frames of every composition.
THEOREM ValuesComeBack ==
    ASSUME BufferSize < 256
    PROVE  Spec => []ValuesSurvive
  <1>1. SentInv => ValuesSurvive
    <2> SUFFICES ASSUME SentInv, sent.ret = NO_ERROR
                 PROVE  Converted(sent.request.values, SensorDecodes(sent.to, sent.wire).data)
                            = sent.request.values
      BY DEF ValuesSurvive
    <2>1. SensorDecodes(sent.to, sent.wire) = Asked(sent.request) /\ Encoded(sent.request)
      BY DEF SentInv, SuccessIsDelivered
    <2>2. SensorDecodes(sent.to, sent.wire).data = sent.request.data
      BY <2>1 DEF Asked
    <2> QED
      BY <2>1, <2>2, EncodedIsBack DEF Encoded
  <1> QED
    BY <1>1, InitInv, BuildInvariance, SentInvariance, PTL DEF Spec

-----------------------------------------------------------------------------
(* Reading.                                                                *)

\* A prefix of a byte sequence is one, and not longer than asked for.
LEMMA PrefixTyped ==
    ASSUME NEW s \in Seq(Byte), NEW n \in Nat
    PROVE  /\ Prefix(s, n) \in Seq(Byte)
           /\ n >= Len(s) => Prefix(s, n) = s
  BY DEF Prefix

\* The HAL's count is what was asked for as long as it fits.
LEMMA CountIsModulo ==
    ASSUME NEW n \in Nat
    PROVE  n % 256 \in Nat /\ (n < 256 => n % 256 = n)
  OBVIOUS

-----------------------------------------------------------------------------
(* The loop takes three bytes and stores two, so that both indices are     *)
(* multiples of one count, and the write index never passes the read index.*)

Turns == \E n \in 0..(line.length \div 2) : i = 3 * n /\ j = 2 * n

\* The delivery is one of those checked, and the buffer takes what is asked for.
Fits == line \in Deliveries /\ Len(buf) >= rawLength

\* The inductive invariant behind the type invariant.
ReadInv == TypeOK /\ Turns /\ Fits

\* The response has three bytes for two asked for; size is their number, or less
\* where it does not fit, but not where one read of the HAL takes them.
LEMMA SizeIsNat ==
    ASSUME Fits
    PROVE  /\ line.length \in Nat /\ rawLength = 3 * (line.length \div 2)
           /\ rawLength \in Nat /\ size \in Nat /\ size < 65536
           /\ size = rawLength \/ size = rawLength - 65536
           /\ 2 * (line.length \div 2) <= line.length
           /\ line.bytes \in Seq(Byte) /\ Len(line.bytes) = rawLength
           /\ InOneRead => size = rawLength
  <1>1. /\ line.length \in Nat /\ line.length < 65536
        /\ line.bytes \in Seq(Byte) /\ Len(line.bytes) = RawLength(line.length)
    BY ReadAssumption DEF Fits
  <1>2. rawLength = 3 * (line.length \div 2) /\ size = rawLength % 65536
    BY <1>1 DEF rawLength, size, RawSize, RawLength, SENSIRION_WORD_SIZE, CRC8_LEN
  <1>3. rawLength \in Nat /\ rawLength < 131072 /\ 2 * (line.length \div 2) <= line.length
    BY <1>1, <1>2, SMTT(40)
  <1>4. /\ rawLength % 65536 \in Nat /\ rawLength % 65536 < 65536
        /\ rawLength % 65536 = rawLength \/ rawLength % 65536 = rawLength - 65536
        /\ rawLength < 65536 => rawLength % 65536 = rawLength
    BY ONLY <1>3
  <1> QED
    BY <1>1, <1>2, <1>3, <1>4 DEF rawLength, InOneRead

\* One more turn of the loop stays in a uint16_t and in the bytes of the
\* response.
LEMMA TurnFits ==
    ASSUME NEW m \in Nat, NEW n \in 0..m, NEW l \in Nat, 2 * m <= l,
           NEW s \in Nat, s < 65536, s = 3 * m \/ s = 3 * m - 65536, 3 * n < s
    PROVE  /\ n + 1 \in 0..m /\ 3 * n + 3 <= 3 * m /\ 3 * n + 3 < 65536
           /\ 3 * n + 3 <= s + 1 /\ 2 * n + 2 <= l
  OBVIOUS

\* The invariant holds when a call begins.
LEMMA ReadInitInv == ReadInit => ReadInv
  <1> SUFFICES ASSUME ReadInit PROVE ReadInv
    OBVIOUS
  <1>1. Fits
    BY DEF ReadInit, Fits, rawLength
  <1>2. buf \in Seq(Byte)
    BY ReadAssumption DEF ReadInit
  <1>3. Turns
    BY <1>1, SizeIsNat DEF ReadInit, Turns
  <1>4. TypeOK
    <2>1. i = 0 /\ j = 0 /\ size \in Nat /\ size < 65536 /\ line.length \in Nat
      BY <1>1, SizeIsNat DEF ReadInit
    <2>2. 0 < size => 3 <= rawLength /\ rawLength \in Nat
      BY <1>1, SizeIsNat
    <2>3. i < size => i + 3 <= Len(buf)
      BY <1>1, <1>2, <2>1, <2>2 DEF Fits
    <2>4. call \in Calls /\ line.bytes \in Seq(Byte) /\ data \in Seq(Byte)
      BY <1>1, SizeIsNat DEF ReadInit
    <2> QED
      BY <1>2, <2>1, <2>3, <2>4 DEF ReadInit, TypeOK, NO_ERROR
  <1> QED
    BY <1>1, <1>3, <1>4 DEF ReadInv

\* What one turn of the loop does to the indices and the buffers.
LEMMA CheckWordStores ==
    ASSUME ReadInv, CheckWord, WordIsGood
    PROVE  /\ i + 3 <= rawLength /\ i' = i + 3 /\ j' = j + 2 /\ j <= i
           /\ i' \in Nat /\ i' < 65536 /\ i' <= size + 1 /\ (i' < size => i' + 3 <= rawLength)
           /\ buf' \in Seq(Byte) /\ data' \in Seq(Byte) /\ Len(buf') = Len(buf)
           /\ \A k \in (j + 3)..Len(buf) : buf'[k] = buf[k]
           /\ j' <= line.length /\ Turns' /\ UNCHANGED <<given, sensor, pc, words, ret>>
  <1> USE DEF ReadInv
  <1>1. i < size /\ Store(At(i), At(i + 1)) /\ i' = i + 3 /\ j' = j + 2
        /\ UNCHANGED <<given, sensor, pc, words, ret>>
    BY DEF CheckWord
  <1>2. PICK n \in 0..(line.length \div 2) : i = 3 * n /\ j = 2 * n
    BY DEF Turns
  <1>3. /\ n + 1 \in 0..(line.length \div 2) /\ i + 3 <= rawLength /\ j + 2 <= line.length
        /\ i + 3 \in Nat /\ i + 3 < 65536 /\ i + 3 <= size + 1
        /\ i + 3 < size => (i + 3) + 3 <= rawLength
    <2> DEFINE m == line.length \div 2
    <2>1. /\ m \in Nat /\ n \in 0..m /\ line.length \in Nat /\ 2 * m <= line.length
          /\ size \in Nat /\ size < 65536 /\ rawLength = 3 * m
          /\ size = 3 * m \/ size = 3 * m - 65536
      BY <1>2, SizeIsNat
    <2> HIDE DEF m
    <2>2. 3 * n < size
      BY <1>1, <1>2
    <2>3. /\ n + 1 \in 0..m /\ 3 * n + 3 <= 3 * m /\ 3 * n + 3 < 65536
          /\ 3 * n + 3 <= size + 1 /\ 2 * n + 2 <= line.length
      BY ONLY <2>1, <2>2, TurnFits
    <2>4. 3 * (n + 1) < size => 3 * (n + 1) + 3 <= 3 * m
      BY ONLY <2>1, <2>3, TurnFits
    <2> QED
      BY <1>2, <2>1, <2>3, <2>4 DEF m
  <1>4. i \in Nat /\ j \in Nat /\ j <= i
    BY <1>2
  <1>5. At(i) \in Byte /\ At(i + 1) \in Byte
    <2>1. buf \in Seq(Byte) /\ i + 3 <= Len(buf)
      BY <1>1 DEF TypeOK
    <2>2. i + 1 \in 1..Len(buf) /\ (i + 1) + 1 \in 1..Len(buf)
      BY <2>1, <1>4
    <2> QED
      BY <2>1, <2>2 DEF At
  <1>6. Turns'
    BY <1>1, <1>2, <1>3 DEF Turns, given
  <1>7. buf' \in Seq(Byte) /\ data' \in Seq(Byte) /\ Len(buf') = Len(buf)
        /\ \A k \in (j + 3)..Len(buf) : buf'[k] = buf[k]
    <2>1. <<At(i), At(i + 1)>> \in Seq(Byte) /\ Len(<<At(i), At(i + 1)>>) = 2
      BY <1>5
    <2>2. buf \in Seq(Byte) /\ data \in Seq(Byte)
      BY DEF TypeOK
    <2>3. CASE call = "inplace"
      <3>1. buf' = Overwrite(buf, j, <<At(i), At(i + 1)>>) /\ data' = data
        BY <1>1, <2>3 DEF Store
      <3> DEFINE word == <<At(i), At(i + 1)>>
      <3>2. word \in Seq(Byte) /\ Len(word) = 2
        BY <2>1
      <3> HIDE DEF word
      <3>3. /\ Overwrite(buf, j, word) \in Seq(Byte)
            /\ Len(Overwrite(buf, j, word)) = Len(buf)
            /\ \A k \in 1..Len(buf) :
                   Overwrite(buf, j, word)[k] =
                       IF k > j /\ k <= j + Len(word) THEN word[k - j] ELSE buf[k]
        BY <3>2, <2>2, <1>4, OverwriteKeeps
      <3>4. buf' = Overwrite(buf, j, word)
        BY <3>1 DEF word
      <3>5. \A k \in (j + 3)..Len(buf) : k \in 1..Len(buf) /\ k > j + 2
        BY <2>2, <1>4
      <3>6. \A k \in (j + 3)..Len(buf) : buf'[k] = buf[k]
        BY <3>2, <3>3, <3>4, <3>5, <1>4
      <3> QED
        BY <3>1, <3>3, <3>4, <3>6, <2>2
    <2>4. CASE call # "inplace"
      <3>1. data' = data \o <<At(i), At(i + 1)>> /\ buf' = buf
        BY <1>1, <2>4 DEF Store
      <3> QED
        BY <3>1, <2>1, <2>2
    <2> QED
      BY <2>3, <2>4
  <1> QED
    BY <1>1, <1>3, <1>4, <1>6, <1>7

\* What the HAL puts in the receive buffer.
LEMMA HalReadFills ==
    ASSUME ReadInv, HalRead, pc' = "check"
    PROVE  /\ buf' \in Seq(Byte) /\ Len(buf') = Len(buf)
           /\ InOneRead => \A k \in 1..size : buf'[k] = line.bytes[k]
           /\ UNCHANGED <<given, sensor, data, words, i, j, ret>>
  <1> USE DEF ReadInv
  <1>1. buf' = Overwrite(buf, 0, Prefix(line.bytes, size % 256))
        /\ UNCHANGED <<given, sensor, data, words, i, j, ret>>
    BY DEF HalRead, Return
  <1> DEFINE count == size % 256
  <1>2. count \in Nat /\ (InOneRead => count = size)
    <2>1. size \in Nat /\ (InOneRead => size < 256)
      BY SizeIsNat DEF InOneRead
    <2> QED
      BY <2>1, CountIsModulo
  <1>3. Prefix(line.bytes, count) \in Seq(Byte)
        /\ (InOneRead => Prefix(line.bytes, count) = line.bytes)
    <2>1. line.bytes \in Seq(Byte) /\ (InOneRead => Len(line.bytes) = size)
      BY SizeIsNat
    <2> HIDE DEF count
    <2>2. Prefix(line.bytes, count) \in Seq(Byte)
          /\ (count >= Len(line.bytes) => Prefix(line.bytes, count) = line.bytes)
      BY <1>2, <2>1, PrefixTyped
    <2> QED
      BY <1>2, <2>1, <2>2, SizeIsNat
  <1>4. buf \in Seq(Byte)
    BY DEF TypeOK
  <1>5. /\ Overwrite(buf, 0, Prefix(line.bytes, size % 256)) \in Seq(Byte)
        /\ Len(Overwrite(buf, 0, Prefix(line.bytes, size % 256))) = Len(buf)
        /\ \A k \in 1..Len(buf) :
               Overwrite(buf, 0, Prefix(line.bytes, size % 256))[k] =
                   IF k > 0 /\ k <= 0 + Len(Prefix(line.bytes, size % 256))
                   THEN Prefix(line.bytes, size % 256)[k - 0] ELSE buf[k]
    BY <1>3, <1>4, OverwriteKeeps
  <1>6. ASSUME InOneRead, NEW k \in 1..size
        PROVE  buf'[k] = line.bytes[k]
    <2>1. size \in Nat /\ size = rawLength /\ Len(line.bytes) = size /\ size <= Len(buf)
      BY <1>6, SizeIsNat DEF Fits
    <2>2. k \in 1..Len(buf) /\ k > 0 /\ k <= 0 + Len(line.bytes) /\ k - 0 = k
      BY <1>4, <2>1
    <2>3. Prefix(line.bytes, size % 256) = line.bytes
      BY <1>3, <1>6
    <2> QED
      BY <1>1, <1>5, <2>2, <2>3
  <1> QED
    BY <1>1, <1>5, <1>6

-----------------------------------------------------------------------------

\* Every step of a call keeps it.
LEMMA NextInv == ReadInv /\ [ReadNext]_readVars => ReadInv'
  <1> SUFFICES ASSUME ReadInv, [ReadNext]_readVars PROVE ReadInv'
    OBVIOUS
  <1> USE DEF ReadInv, given, NO_ERROR, CRC_ERROR, BYTE_NUM_ERROR, HAL_ERROR
  <1>1. ASSUME UNCHANGED <<given, buf, data, i, j>>,
               pc' \in {"command", "sleep", "read", "check", "swap", "done"},
               sensor' \in {"earlier", "busy", "ready"}, ret' \in Int
        PROVE  ReadInv'
    <2>1. TypeOK'
      BY <1>1 DEF TypeOK, size
    <2>2. Turns' /\ Fits'
      BY <1>1 DEF Turns, Fits, rawLength
    <2> QED
      BY <2>1, <2>2
  <1>2. pc \in {"command", "sleep", "read", "check", "swap", "done"}
        /\ sensor \in {"earlier", "busy", "ready"} /\ ret \in Int
    BY DEF TypeOK
  <1>3. CASE WriteCommand
    BY <1>1, <1>2, <1>3 DEF WriteCommand
  <1>4. CASE Sleep
    BY <1>1, <1>2, <1>4 DEF Sleep
  <1>5. CASE SensorFinishes
    BY <1>1, <1>2, <1>5 DEF SensorFinishes
  <1>6. CASE OddLength
    BY <1>1, <1>2, <1>6 DEF OddLength, Return
  <1>7. CASE HalRead
    <2>1. CASE Return(HAL_ERROR)
      BY <1>1, <1>2, <2>1 DEF Return
    <2>2. CASE ~Return(HAL_ERROR)
      <3>1. pc' = "check"
        BY <1>7, <2>2 DEF HalRead
      <3>2. buf' \in Seq(Byte) /\ Len(buf') = Len(buf)
            /\ UNCHANGED <<given, sensor, data, words, i, j, ret>>
        BY <1>7, <3>1, HalReadFills
      <3>3. TypeOK'
        BY <3>1, <3>2, <1>2 DEF TypeOK, size
      <3>4. Turns' /\ Fits'
        BY <3>2 DEF Turns, Fits, rawLength
      <3> QED
        BY <3>3, <3>4
    <2> QED
      BY <2>1, <2>2
  <1>8. CASE CheckWord
    <2>1. CASE WordIsGood
      <3>1. /\ i' \in Nat /\ i' < 65536 /\ i' <= size + 1 /\ (i' < size => i' + 3 <= rawLength)
            /\ j' = j + 2
            /\ buf' \in Seq(Byte) /\ data' \in Seq(Byte) /\ Len(buf') = Len(buf)
            /\ j' <= line.length /\ Turns' /\ UNCHANGED <<given, sensor, pc, words, ret>>
        BY <1>8, <2>1, CheckWordStores
      <3>2. i \in Nat /\ j \in Nat
        BY DEF TypeOK
      <3>3. size' = size /\ rawLength' = rawLength
        BY <3>1 DEF size, rawLength
      <3>4. i' <= size' + 1 /\ j' \in 0..line'.length /\ (i' < size' => i' + 3 <= Len(buf'))
        BY <3>1, <3>2, <3>3, SizeIsNat DEF Fits
      <3>5. TypeOK'
        BY <3>1, <3>4, <1>2 DEF TypeOK
      <3>6. Fits'
        BY <3>1, <3>3 DEF Fits
      <3> QED
        BY <3>1, <3>5, <3>6
    <2>2. CASE ~WordIsGood
      BY <1>1, <1>2, <1>8, <2>2 DEF CheckWord, Return
    <2> QED
      BY <2>1, <2>2
  <1>9. CASE CheckDone
    BY <1>1, <1>2, <1>9 DEF CheckDone, Return
  <1>10. CASE SwapWords
    BY <1>1, <1>2, <1>10 DEF SwapWords
  <1>11. CASE UNCHANGED readVars
    BY <1>1, <1>2, <1>11 DEF readVars
  <1> QED
    BY <1>3, <1>4, <1>5, <1>6, <1>7, <1>8, <1>9, <1>10, <1>11 DEF ReadNext

\* So it always holds.
LEMMA InvHolds == ReadSpec => []ReadInv
  BY ReadInitInv, NextInv, PTL DEF ReadSpec

\* Buffers hold bytes, the loop's indices never wrap and every word it checks
\* lies in the buffer, for every length a caller may ask for: those whose number
\* of bytes does not fit the uint8_t of the HAL or the uint16_t of size included.
THEOREM TypeCorrect == ReadSpec => []TypeOK
  <1>1. ReadInv => TypeOK
    BY DEF ReadInv
  <1> QED
    BY <1>1, InvHolds, PTL

-----------------------------------------------------------------------------

\* read_data_inplace never overwrites a byte it has still to check, whatever
\* the response and however long, as long as one read of the HAL can take it.
THEOREM WritingStaysBehind == ReadSpec => []UnreadIsIntact
  <1>1. ReadInit => UnreadIsIntact
    BY DEF ReadInit, UnreadIsIntact
  <1>2. ReadInv /\ UnreadIsIntact /\ [ReadNext]_readVars => UnreadIsIntact'
    <2> SUFFICES ASSUME ReadInv, UnreadIsIntact, [ReadNext]_readVars, pc' = "check", InOneRead'
                 PROVE  \A k \in i'..(size' - 1) : At(k)' = line'.bytes[k + 1]
      BY DEF UnreadIsIntact
    <2>1. i \in Nat /\ size \in Nat
      BY SizeIsNat DEF ReadInv, TypeOK
    <2>2. CASE HalRead
      <3>1. \A k \in 1..size : buf'[k] = line.bytes[k]
        <4>1. UNCHANGED given
          BY <2>2, HalReadFills
        <4>2. InOneRead
          BY <4>1 DEF given, InOneRead, rawLength
        <4> QED
          BY <4>2, <2>2, HalReadFills
      <3>2. i' = i /\ line' = line /\ size' = size
        BY <2>2, HalReadFills DEF given, size
      <3> QED
        BY <3>1, <3>2, <2>1 DEF At
    <2>3. CASE CheckWord
      <3>1. WordIsGood
        BY <2>3 DEF CheckWord, Return
      <3>2. /\ i' = i + 3 /\ j <= i /\ UNCHANGED given
            /\ \A k \in (j + 3)..Len(buf) : buf'[k] = buf[k]
        BY <2>3, <3>1, CheckWordStores
      <3>3. line' = line /\ size' = size /\ InOneRead
        BY <3>2 DEF given, size, InOneRead, rawLength
      <3>4. j \in Nat /\ Len(buf) \in Nat /\ Len(buf) >= size
        BY <3>3, SizeIsNat DEF ReadInv, TypeOK, Fits
      <3>5. \A k \in i..(size - 1) : buf[k + 1] = line.bytes[k + 1]
        BY <2>3, <3>3 DEF UnreadIsIntact, CheckWord, At
      <3> SUFFICES ASSUME NEW k \in (i + 3)..(size - 1)
                   PROVE  buf'[k + 1] = line.bytes[k + 1]
        BY <3>2, <3>3 DEF At
      <3>6. k + 1 \in (j + 3)..Len(buf) /\ k \in i..(size - 1)
        BY <3>2, <3>4, <2>1
      <3> QED
        BY <3>2, <3>5, <3>6
    <2>4. CASE SensorFinishes \/ UNCHANGED readVars
      BY <2>4 DEF SensorFinishes, readVars, given, UnreadIsIntact, At, size,
             InOneRead, rawLength
    <2>5. CASE WriteCommand \/ Sleep \/ OddLength \/ CheckDone \/ SwapWords
      BY <2>5 DEF WriteCommand, Sleep, OddLength, CheckDone, SwapWords, Return
    <2> QED
      BY <2>2, <2>3, <2>4, <2>5 DEF ReadNext
  <1> QED
    BY <1>1, <1>2, InvHolds, PTL DEF ReadSpec

\* A delayed read never returns the answer to an earlier command, whatever
\* the order in which the sensor and the caller move.
THEOREM AnswersAreFresh == ReadSpec => []AnswerIsFresh
  <1> DEFINE AskedFirst ==
        call = "command" /\ (pc # "command" /\ (pc = "done" => ret = NO_ERROR))
            => sensor # "earlier" /\ (pc \in {"check", "swap", "done"} => sensor = "ready")
  <1>1. ReadInit => AskedFirst
    BY DEF ReadInit
  <1>2. ReadInv /\ AskedFirst /\ [ReadNext]_readVars => AskedFirst'
    <2> SUFFICES ASSUME ReadInv, AskedFirst, [ReadNext]_readVars PROVE AskedFirst'
      OBVIOUS
    <2>1. sensor \in {"earlier", "busy", "ready"}
      BY DEF ReadInv, TypeOK
    <2> USE DEF given, NO_ERROR, CRC_ERROR, BYTE_NUM_ERROR, HAL_ERROR
    <2>2. CASE WriteCommand
      BY <2>2 DEF WriteCommand
    <2>3. CASE Sleep \/ SensorFinishes
      BY <2>3 DEF Sleep, SensorFinishes
    <2>4. CASE OddLength \/ HalRead
      BY <2>1, <2>4 DEF OddLength, HalRead, Return
    <2>5. CASE CheckWord \/ CheckDone \/ SwapWords
      BY <2>5 DEF CheckWord, CheckDone, SwapWords, Return
    <2>6. CASE UNCHANGED readVars
      BY <2>6 DEF readVars
    <2> QED
      BY <2>2, <2>3, <2>4, <2>5, <2>6 DEF ReadNext
  <1>3. AskedFirst => AnswerIsFresh
    BY DEF AnswerIsFresh
  <1> QED
    BY <1>1, <1>2, <1>3, InvHolds, PTL DEF ReadSpec

-----------------------------------------------------------------------------
(* What is returned.  How much damage eight bits of CRC notice is a matter *)
(* of TLC's run; here it is a hypothesis about what arrives, and the rest, *)
(* the loop that checks, copies and swaps, is proved for every delivery.   *)

\* Element k of what the caller's buffer holds.
Got(k) == IF call = "inplace" THEN buf[k] ELSE data[k]

\* Whole words are asked for.
EvenLength == line.length % 2 = 0

\* What has been stored is what was sent; the loop ends at the end or at a word
\* that is damaged; the swap makes numbers of what was stored.
Copied ==
    /\ call # "inplace" => Len(data) = j
    /\ \A k \in 1..j : Got(k) = line.sent[k]
    /\ pc \in {"command", "sleep", "read"} => j = 0
    /\ pc # "done" => ret = NO_ERROR
    /\ pc \in {"check", "swap"} => EvenLength
    /\ pc = "swap" \/ (pc = "done" /\ ret = NO_ERROR) => EvenLength /\ j = line.length
    /\ pc = "done" /\ ret = CRC_ERROR => EvenLength /\ line.damage # "none"
    /\ pc = "done" /\ ret = NO_ERROR /\ call \in {"words", "command"} =>
           words = [k \in 1..(j \div 2) |-> data[2 * k - 1] * 256 + data[2 * k]]

\* Nothing is copied when a call begins.
LEMMA CopiedInit == ReadInit => Copied
  BY DEF ReadInit, Copied, NO_ERROR, CRC_ERROR

\* The elements of a sequence of bytes with two more.
LEMMA TwoMore ==
    ASSUME NEW d \in Seq(Byte), NEW x \in Byte, NEW y \in Byte
    PROVE  /\ \A k \in 1..Len(d) : (d \o <<x, y>>)[k] = d[k]
           /\ (d \o <<x, y>>)[Len(d) + 1] = x /\ (d \o <<x, y>>)[Len(d) + 2] = y
  OBVIOUS

\* One turn of the loop stores the word that was sent.
LEMMA TurnCopies ==
    ASSUME ReadInv, UnreadIsIntact, Copied, InOneRead, Noticed(line), CheckWord, WordIsGood
    PROVE  \A k \in 1..j' : Got(k)' = line.sent[k]
  <1>1. PICK n \in 0..(line.length \div 2) : i = 3 * n /\ j = 2 * n
    BY DEF ReadInv, Turns
  <1>2. /\ i + 3 <= size /\ i' = i + 3 /\ j' = j + 2 /\ j <= i
        /\ \A k \in (j + 3)..Len(buf) : buf'[k] = buf[k]
        /\ call' = call /\ line' = line
    BY CheckWordStores, SizeIsNat, SMTT(40) DEF given, ReadInv
  <1>3. n \in Nat /\ size \in Nat /\ n \in 0..(line.length \div 2 - 1)
    BY <1>1, <1>2, SizeIsNat DEF ReadInv
  <1>4. pc = "check" /\ EvenLength
    BY DEF CheckWord, Copied
  <1>5. \A k \in i..(size - 1) : At(k) = line.bytes[k + 1]
    BY <1>4 DEF UnreadIsIntact
  <1>6. At(i) = line.bytes[3 * n + 1] /\ At(i + 1) = line.bytes[3 * n + 2]
        /\ At(i + 2) = line.bytes[3 * n + 3]
    <2>1. i \in i..(size - 1) /\ i + 1 \in i..(size - 1) /\ i + 2 \in i..(size - 1)
      BY <1>1, <1>2, <1>3
    <2>2. At(i) = line.bytes[i + 1] /\ At(i + 1) = line.bytes[(i + 1) + 1]
          /\ At(i + 2) = line.bytes[(i + 2) + 1]
      BY <1>5, <2>1
    <2>3. i + 1 = 3 * n + 1 /\ (i + 1) + 1 = 3 * n + 2 /\ (i + 2) + 1 = 3 * n + 3
      BY <1>1, <1>3
    <2> QED
      BY <2>2, <2>3
  <1>7. PassesCrc(line, n)
    BY <1>6 DEF WordIsGood, PassesCrc, Arrived
  <1>8. At(i) = line.sent[j + 1] /\ At(i + 1) = line.sent[j + 2]
    BY <1>1, <1>3, <1>4, <1>6, <1>7 DEF Noticed, EvenLength
  <1>9. Store(At(i), At(i + 1))
    BY DEF CheckWord
  <1>10. j \in Nat /\ buf \in Seq(Byte) /\ data \in Seq(Byte) /\ j + 2 <= Len(buf)
    BY <1>1, <1>2, <1>3 DEF ReadInv, TypeOK, Fits
  <1> DEFINE a == At(i)
             b == At(i + 1)
  <1>13. a \in Byte /\ b \in Byte
    <2>1. i \in Nat /\ i + 1 \in 1..Len(buf) /\ i + 2 \in 1..Len(buf) /\ (i + 1) + 1 = i + 2
      <3>1. i \in Nat /\ i < size
        BY <1>1, <1>2, <1>3
      <3>2. i + 3 <= Len(buf)
        BY <3>1 DEF ReadInv, TypeOK
      <3> QED
        BY <3>1, <3>2, <1>10
    <2>2. buf[i + 1] \in Byte /\ buf[i + 2] \in Byte
      BY <1>10, <2>1
    <2> QED
      BY <2>1, <2>2 DEF At
  <1> HIDE DEF a, b
  <1>11. CASE call = "inplace"
    <2>1. buf' = Overwrite(buf, j, <<a, b>>)
      BY <1>9, <1>11 DEF Store, a, b
    <2>2. \A k \in 1..Len(buf) :
              buf'[k] = IF k > j /\ k <= j + 2 THEN <<a, b>>[k - j] ELSE buf[k]
      BY <2>1, <1>10 DEF Overwrite
    <2>3. \A k \in 1..j : buf'[k] = buf[k]
      BY <2>2, <1>10
    <2>4. buf'[j + 1] = a /\ buf'[j + 2] = b
      BY <2>2, <1>10
    <2>5. \A k \in 1..j : buf[k] = line.sent[k]
      BY <1>11 DEF Copied, Got
    <2>6. a = line.sent[j + 1] /\ b = line.sent[j + 2]
      BY <1>8 DEF a, b
    <2>7. \A k \in 1..(j + 2) : k \in 1..j \/ k = j + 1 \/ k = j + 2
      BY <1>10
    <2>8. \A k \in 1..(j + 2) : buf'[k] = line.sent[k]
      BY <2>3, <2>4, <2>5, <2>6, <2>7
    <2> QED
      BY <1>2, <1>11, <2>8 DEF Got
  <1>12. CASE call # "inplace"
    <2>1. data' = data \o <<a, b>> /\ Len(data) = j
      BY <1>9, <1>12 DEF Store, Copied, a, b
    <2>2. \A k \in 1..j : data'[k] = data[k]
      BY <2>1, <1>10, <1>13, TwoMore
    <2>3. data'[j + 1] = a /\ data'[j + 2] = b
      BY <2>1, <1>10, <1>13, TwoMore, ZenonT(40)
    <2> QED
      BY <1>2, <1>8, <1>10, <1>12, <2>2, <2>3 DEF Copied, Got, a, b
  <1> QED
    BY <1>11, <1>12


\* A step of the loop copies a word that was sent, or returns an error.
LEMMA CopiedNext ==
    ASSUME ReadInv, UnreadIsIntact, Copied, InOneRead, Noticed(line), [ReadNext]_readVars
    PROVE  Copied'
  <1> USE DEF given, NO_ERROR, CRC_ERROR, BYTE_NUM_ERROR, HAL_ERROR
  <1>1. line.length \in Nat /\ size = 3 * (line.length \div 2)
    BY SizeIsNat DEF ReadInv
  <1>2. CASE WriteCommand \/ Sleep \/ SensorFinishes \/ UNCHANGED readVars
    BY <1>2 DEF WriteCommand, Sleep, SensorFinishes, readVars, Copied, Got, EvenLength
  <1>3. CASE OddLength
    BY <1>3 DEF OddLength, Return, Copied, Got, EvenLength
  <1>4. CASE HalRead
    <2>1. EvenLength /\ pc = "read" /\ j = 0 /\ UNCHANGED <<given, data, words, j>>
          /\ ((pc' = "done" /\ ret' = HAL_ERROR) \/ (pc' = "check" /\ ret' = ret))
      BY <1>4 DEF HalRead, Return, Copied, EvenLength, SENSIRION_WORD_SIZE
    <2> QED
      BY <2>1 DEF Copied, Got, EvenLength
  <1>5. CASE CheckWord /\ WordIsGood
    <2>1. \A k \in 1..j' : Got(k)' = line.sent[k]
      BY <1>5, TurnCopies
    <2>2. j' = j + 2 /\ UNCHANGED <<given, sensor, pc, words, ret>> /\ pc = "check"
      BY <1>5 DEF CheckWord
    <2>3. call # "inplace" => Len(data') = j'
      <3>1. SUFFICES ASSUME call # "inplace" PROVE Len(data') = j + 2
        BY <2>2
      <3>2. data' = data \o <<At(i), At(i + 1)>> /\ Len(data) = j
        BY <1>5, <3>1 DEF CheckWord, Store, Copied
      <3> QED
        BY <3>2 DEF ReadInv, TypeOK
    <2> QED
      BY <2>1, <2>2, <2>3 DEF Copied, EvenLength
  <1>6. CASE CheckWord /\ ~WordIsGood
    <2>1. pc = "check" /\ i < size /\ pc' = "done" /\ ret' = CRC_ERROR /\ EvenLength
          /\ UNCHANGED <<given, buf, data, words, j>>
      BY <1>6 DEF CheckWord, Return, Copied
    <2>2. line.damage # "none"
      <3>1. PICK n \in 0..(line.length \div 2) : i = 3 * n /\ j = 2 * n
        BY DEF ReadInv, Turns
      <3>2. n \in Nat /\ n \in 0..(line.length \div 2 - 1) /\ i \in i..(size - 1)
            /\ i + 1 \in i..(size - 1) /\ i + 2 \in i..(size - 1)
        BY <1>1, <2>1, <3>1
      <3>3. At(i) = line.bytes[i + 1] /\ At(i + 1) = line.bytes[(i + 1) + 1]
            /\ At(i + 2) = line.bytes[(i + 2) + 1]
        BY <2>1, <3>2 DEF UnreadIsIntact
      <3>4. i + 1 = 3 * n + 1 /\ (i + 1) + 1 = 3 * n + 2 /\ (i + 2) + 1 = 3 * n + 3
        BY <3>1, <3>2
      <3>5. ~PassesCrc(line, n)
        BY <1>6, <3>3, <3>4 DEF WordIsGood, PassesCrc, Arrived
      <3> QED
        BY <3>2, <3>5 DEF Noticed
    <2> QED
      BY <2>1, <2>2 DEF Copied, Got, EvenLength
  <1>7. CASE CheckDone
    <2>1. j = line.length
      <3>1. EvenLength /\ i >= size
        BY <1>7 DEF CheckDone, Copied
      <3>2. PICK n \in 0..(line.length \div 2) : i = 3 * n /\ j = 2 * n
        BY DEF ReadInv, Turns
      <3> QED
        BY <1>1, <3>1, <3>2 DEF EvenLength
    <2> QED
      BY <1>7, <2>1 DEF CheckDone, Return, Copied, Got, EvenLength
  <1>8. CASE SwapWords
    BY <1>8 DEF SwapWords, Copied, Got, EvenLength
  <1> QED
    BY <1>2, <1>3, <1>4, <1>5, <1>6, <1>7, <1>8 DEF ReadNext

\* A number that is put together from two bytes has these as its bytes.
LEMMA SwapIsBigEndian ==
    ASSUME NEW a \in Byte, NEW b \in Byte
    PROVE  BigEndian16(a * 256 + b) = <<a, b>>
  <1>1. (a * 256 + b) \div 256 = a /\ (a * 256 + b) % 256 = b /\ a % 256 = a
    BY DEF Byte
  <1> QED
    BY <1>1 DEF BigEndian16

\* A sequence of two elements is made of them.
LEMMA TwoElements ==
    ASSUME NEW s \in Seq(Byte), NEW x \in Byte, NEW y \in Byte, Len(s) = 2, s[1] = x, s[2] = y
    PROVE  s = <<x, y>>
  OBVIOUS

\* All of a sequence, and two of its elements.
LEMMA SubSequences ==
    ASSUME NEW s \in Seq(Byte)
    PROVE  /\ SubSeq(s, 1, Len(s)) = s
           /\ \A k \in 1..Len(s) : k + 1 \in 1..Len(s) => SubSeq(s, k, k + 1) = <<s[k], s[k + 1]>>
  <1>1. SubSeq(s, 1, Len(s)) = s
    OBVIOUS
  <1>2. ASSUME NEW k \in 1..Len(s), k + 1 \in 1..Len(s)
        PROVE  SubSeq(s, k, k + 1) = <<s[k], s[k + 1]>>
    <2>1. s[k] \in Byte /\ s[k + 1] \in Byte
      BY <1>2
    <2>2. SubSeq(s, k, k + 1) \in Seq(Byte) /\ Len(SubSeq(s, k, k + 1)) = 2
      BY <1>2
    <2>3. SubSeq(s, k, k + 1)[1] = s[k] /\ SubSeq(s, k, k + 1)[2] = s[k + 1]
      BY <1>2
    <2> QED
      BY <2>1, <2>2, <2>3, TwoElements
  <1> QED
    BY <1>1, <1>2

\* What a call that is over has returned, from what has been stored.
LEMMA CopiedIsReturned ==
    ASSUME ReadInv, Copied, InOneRead, Noticed(line)
    PROVE  SuccessIsSent /\ CrcErrorKeepsGoodWords /\ WordsAreSent
  <1>1. j \in Nat /\ j <= line.length /\ line.length \in Nat /\ buf \in Seq(Byte) /\ data \in Seq(Byte)
        /\ j <= Len(buf)
    <2>1. PICK n \in 0..(line.length \div 2) : i = 3 * n /\ j = 2 * n
      BY DEF ReadInv, Turns
    <2>2. n \in Nat /\ j <= rawLength /\ rawLength \in Nat
      BY <2>1, SizeIsNat DEF ReadInv
    <2> QED
      BY <2>1, <2>2, SizeIsNat DEF ReadInv, Fits, TypeOK
  <1>2. line.sent \in Seq(Byte) /\ (EvenLength => Len(line.sent) = line.length)
    BY DEF Noticed, EvenLength
  <1>3. EvenLength => Returned = SubSeq(line.sent, 1, j) /\ Len(Returned) = j
    <2> SUFFICES ASSUME EvenLength
                 PROVE  Returned = SubSeq(line.sent, 1, j) /\ Len(Returned) = j
      OBVIOUS
    <2>1. CASE call = "inplace"
      <3>1. \A k \in 1..j : buf[k] = line.sent[k]
        BY <2>1 DEF Copied, Got
      <3>2. SubSeq(buf, 1, j) = SubSeq(line.sent, 1, j) /\ Len(SubSeq(buf, 1, j)) = j
        BY <1>1, <1>2, <3>1
      <3> QED
        BY <2>1, <3>2 DEF Returned
    <2>2. CASE call # "inplace"
      <3>1. Len(data) = j /\ \A k \in 1..j : data[k] = line.sent[k]
        BY <2>2 DEF Copied, Got
      <3>2. data = SubSeq(line.sent, 1, j)
        BY <1>1, <1>2, <3>1
      <3> QED
        BY <2>2, <3>1, <3>2 DEF Returned
    <2> QED
      BY <2>1, <2>2
  <1>4. SuccessIsSent
    <2> SUFFICES ASSUME pc = "done", ret = NO_ERROR
                 PROVE  Len(Returned) = line.length /\ Returned = line.sent
      BY DEF SuccessIsSent
    <2>1. EvenLength /\ j = line.length
      BY DEF Copied
    <2>2. SubSeq(line.sent, 1, Len(line.sent)) = line.sent
      BY <1>2, SubSequences
    <2> QED
      BY <1>2, <1>3, <2>1, <2>2
  <1>5. CrcErrorKeepsGoodWords
    <2> SUFFICES ASSUME pc = "done", ret = CRC_ERROR
                 PROVE  line.damage # "none" /\ Returned = Prefix(line.sent, j)
      BY DEF CrcErrorKeepsGoodWords
    <2>1. EvenLength /\ line.damage # "none"
      BY DEF Copied
    <2> QED
      BY <1>1, <1>2, <1>3, <2>1 DEF Prefix
  <1>6. WordsAreSent
    <2> SUFFICES ASSUME pc = "done", ret = NO_ERROR, call \in {"words", "command"}
                 PROVE  /\ 2 * Len(words) = line.length
                        /\ \A k \in 1..Len(words) :
                               BigEndian16(words[k]) = SubSeq(line.sent, 2 * k - 1, 2 * k)
      BY DEF WordsAreSent
    <2>1. EvenLength /\ j = line.length /\ Len(line.sent) = j /\ Len(data) = j
          /\ \A k \in 1..j : data[k] = line.sent[k]
      BY <1>2 DEF Copied, Got
    <2>2. words = [k \in 1..(j \div 2) |-> data[2 * k - 1] * 256 + data[2 * k]]
      BY DEF Copied
    <2>3. j \div 2 \in Nat /\ 2 * (j \div 2) = j
      BY <1>1, <2>1, SMTT(40) DEF EvenLength
    <2>4. Len(words) = j \div 2
      BY <2>2, <2>3
    <2>5. ASSUME NEW k \in 1..(j \div 2)
          PROVE  BigEndian16(words[k]) = SubSeq(line.sent, 2 * k - 1, 2 * k)
      <3>1. 2 * k - 1 \in 1..j /\ 2 * k \in 1..j
        BY <2>3
      <3>2. line.sent[2 * k - 1] \in Byte /\ line.sent[2 * k] \in Byte
        BY <1>2, <2>1, <3>1
      <3>3. words[k] = line.sent[2 * k - 1] * 256 + line.sent[2 * k]
        BY <2>1, <2>2, <3>1
      <3>4. BigEndian16(words[k]) = <<line.sent[2 * k - 1], line.sent[2 * k]>>
        BY <3>2, <3>3, SwapIsBigEndian
      <3>5. SubSeq(line.sent, 2 * k - 1, 2 * k) = <<line.sent[2 * k - 1], line.sent[2 * k]>>
        <4>1. PICK n \in 1..j : n = 2 * k - 1
          BY <3>1
        <4>2. n + 1 = 2 * k /\ n \in 1..Len(line.sent) /\ n + 1 \in 1..Len(line.sent)
          BY <2>1, <3>1, <4>1
        <4>3. SubSeq(line.sent, n, n + 1) = <<line.sent[n], line.sent[n + 1]>>
          BY <1>2, <2>1, <4>2, SubSequences
        <4> QED
          BY <4>1, <4>2, <4>3
      <3> QED
        BY <3>4, <3>5
    <2> QED
      BY <2>1, <2>3, <2>4, <2>5
  <1> QED
    BY <1>4, <1>5, <1>6

\* All three at once, in every reachable state.
LEMMA ReadsAreTrue ==
    ASSUME \A v \in Deliveries : Noticed(v)
    PROVE  ReadSpec => [](InOneRead => SuccessIsSent /\ CrcErrorKeepsGoodWords /\ WordsAreSent)
  <1>1. ReadInit => (InOneRead => Copied)
    BY CopiedInit
  <1>2. ReadInv /\ UnreadIsIntact /\ (InOneRead => Copied) /\ [ReadNext]_readVars
            => (InOneRead => Copied)'
    <2> SUFFICES ASSUME ReadInv, UnreadIsIntact, InOneRead => Copied,
                        [ReadNext]_readVars, InOneRead'
                 PROVE  Copied'
      OBVIOUS
    <2>1. line' = line
      BY DEF ReadNext, readVars, given, WriteCommand, Sleep, SensorFinishes, OddLength, HalRead,
             CheckWord, CheckDone, SwapWords, Return
    <2>2. InOneRead /\ Noticed(line)
      BY <2>1 DEF InOneRead, rawLength, ReadInv, Fits
    <2> QED
      BY <2>2, CopiedNext
  <1>3. ReadInv /\ (InOneRead => Copied) =>
            (InOneRead => SuccessIsSent /\ CrcErrorKeepsGoodWords /\ WordsAreSent)
    BY CopiedIsReturned DEF ReadInv, Fits
  <1> QED
    BY <1>1, <1>2, <1>3, InvHolds, WritingStaysBehind, PTL DEF ReadSpec

\* If the CRC notices what the line has done, then a read of up to 255 bytes on
\* the bus that returns NO_ERROR has returned what the sensor sent, all of it:
\* for every kind of call, length and stale buffer.
THEOREM ReadsSucceedWithData ==
    ASSUME \A v \in Deliveries : Noticed(v)
    PROVE  ReadSpec => [](InOneRead => SuccessIsSent)
  BY ReadsAreTrue, PTL

\* Under the same hypothesis, the words of read_words and delayed_read_cmd are
\* those the sensor sent, most significant byte first.
THEOREM WordsAreSwapped ==
    ASSUME \A v \in Deliveries : Noticed(v)
    PROVE  ReadSpec => [](InOneRead => WordsAreSent)
  BY ReadsAreTrue, PTL

\* Under the same hypothesis, CRC_ERROR is returned only for a damaged response,
\* and leaves the good words in front of the bad one and nothing of it.
THEOREM BadWordsStayOut ==
    ASSUME \A v \in Deliveries : Noticed(v)
    PROVE  ReadSpec => [](InOneRead => CrcErrorKeepsGoodWords)
  BY ReadsAreTrue, PTL

=============================================================================
