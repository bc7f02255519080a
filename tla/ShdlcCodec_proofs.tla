-------------------------- MODULE ShdlcCodec_proofs --------------------------
(***************************************************************************)
(* What the whole-frame operators compute, for strings of bytes of every   *)
(* length: stuffing leaves no reserved byte but escapes and at most        *)
(* doubles the length; both receivers' decodings undo it; the checksum is  *)
(* the one byte that completes the sum; and a frame holds at most one      *)
(* response, which can end at one place only.  The operators are folds;    *)
(* SequenceFolds_proofs turns them into equations for the empty string and *)
(* for one byte more, and gives induction over strings.                    *)
(***************************************************************************)
EXTENDS ShdlcCodec, SequenceFolds_proofs

-----------------------------------------------------------------------------
(* Bytes and strings of bytes.                                             *)

\* A byte is a number below 256, and stays one when its bits are inverted.
LEMMA ByteIsNat ==
  \A b \in Byte : b \in Nat /\ b <= 255 /\ Not8(b) \in Byte /\ FlipBit5(b) \in Byte
  BY DEF Byte, Not8, FlipBit5

\* Byte arithmetic stays within a byte.
LEMMA Uint8Type == ASSUME NEW n \in Nat PROVE Uint8(n) \in Byte
  BY DEF Uint8, Byte

\* Adding to a sum kept in a byte is adding to the sum.
LEMMA Uint8Adds ==
  ASSUME NEW m \in Nat, NEW n \in Nat
  PROVE  Uint8(Uint8(m) + n) = Uint8(m + n)
  BY DEF Uint8

\* An element of a string of bytes is a byte and a number.
LEMMA Element ==
  ASSUME NEW s \in Seq(Byte), NEW k \in 1..Len(s) PROVE s[k] \in Byte /\ s[k] \in Nat
  <1>1. s[k] \in Byte
    OBVIOUS
  <1> QED
    BY <1>1, ByteIsNat

\* Joining two strings adds their lengths.
LEMMA JoinType ==
  ASSUME NEW s \in Seq(Byte), NEW t \in Seq(Byte)
  PROVE  s \o t \in Seq(Byte) /\ Len(s \o t) = Len(s) + Len(t)
  OBVIOUS

\* Joining two strings keeps the first.
LEMMA FirstOfTwo ==
  ASSUME NEW s \in Seq(Byte), NEW t \in Seq(Byte), NEW k \in 1..Len(s)
  PROVE  (s \o t)[k] = s[k] /\ s[k] \in Byte
  OBVIOUS

\* The second starts behind the first.
LEMMA SecondOfTwo ==
  ASSUME NEW s \in Seq(Byte), NEW t \in Seq(Byte), NEW k \in 1..Len(t)
  PROVE  (s \o t)[Len(s) + k] = t[k]
  OBVIOUS

\* Joining is associative.
LEMMA Regroup ==
  ASSUME NEW s \in Seq(Byte), NEW t \in Seq(Byte), NEW u \in Seq(Byte)
  PROVE  s \o t \in Seq(Byte) /\ (s \o t) \o u = s \o (t \o u)
  OBVIOUS

\* The first byte of the second string may go to the first.
LEMMA HeadMoves ==
  ASSUME NEW s \in Seq(Byte), NEW t \in Seq(Byte), t # <<>>
  PROVE  /\ Append(s, Head(t)) \in Seq(Byte)
         /\ Append(s, Head(t)) \o Tail(t) = s \o t
  OBVIOUS

\* A byte appended to the second of two strings is appended to both.
LEMMA AppendBehind ==
  ASSUME NEW s \in Seq(Byte), NEW t \in Seq(Byte), NEW c \in Byte
  PROVE  Append(s \o t, c) = s \o Append(t, c)
  OBVIOUS

\* The first n bytes of a string.
LEMMA FirstPart ==
  ASSUME NEW s \in Seq(Byte), NEW n \in 0..Len(s)
  PROVE  /\ SubSeq(s, 1, n) \in Seq(Byte) /\ Len(SubSeq(s, 1, n)) = n
         /\ \A k \in 1..n : SubSeq(s, 1, n)[k] = s[k]
  OBVIOUS

\* Strings of one length with the same bytes are the same.
LEMMA SameString ==
  ASSUME NEW s \in Seq(Byte), NEW t \in Seq(Byte), Len(s) = Len(t),
         \A k \in 1..Len(s) : s[k] = t[k]
  PROVE  s = t
  OBVIOUS

\* Behind the header loop the fourth byte is the length of the data.
LEMMA FourthByte ==
  ASSUME NEW h \in Seq(Byte), NEW d \in Seq(Byte), Len(h) = 4
  PROVE  (h \o d)[4] = h[4] /\ h[4] \in Nat
  <1>1. 4 \in 1..Len(h)
    OBVIOUS
  <1> QED
    BY <1>1, FirstOfTwo, ByteIsNat

\* A header with its length field taken out and put back.
LEMMA HeaderSplit ==
  ASSUME NEW h \in Seq(Byte), Len(h) = 4
  PROVE  /\ SubSeq(h, 1, 3) \in Seq(Byte) /\ h[4] \in Byte
         /\ SubSeq(h, 1, 3) \o <<h[4]>> = h
  <1>1. h[4] \in Byte /\ SubSeq(h, 1, 3) \in Seq(Byte) /\ Len(SubSeq(h, 1, 3)) = 3
    <2>1. 4 \in 1..Len(h) /\ 3 \in 0..Len(h)
      OBVIOUS
    <2> QED
      BY <2>1, Element, FirstPart
  <1> DEFINE u == SubSeq(h, 1, 3) \o <<h[4]>>
  <1>2. u \in Seq(Byte) /\ Len(u) = 4
    BY <1>1
  <1>3. \A k \in 1..4 : u[k] = h[k]
    BY <1>1
  <1> HIDE DEF u
  <1>4. u = h
    BY <1>2, <1>3
  <1> QED
    BY <1>1, <1>4 DEF u

\* Where the parts of a string of bytes are.
LEMMA PartsOf ==
  ASSUME NEW g \in Seq(Byte), NEW s \in Seq(Byte), NEW b \in Seq(Byte)
  PROVE  /\ Len(g \o s \o b) = Len(g) + Len(s) + Len(b)
         /\ \A k \in 1..Len(g) : (g \o s \o b)[k] = g[k]
         /\ \A k \in 1..Len(s) : (g \o s \o b)[Len(g) + k] = s[k]
  <1> DEFINE v == g \o s
  <1>1. v \in Seq(Byte) /\ Len(v) = Len(g) + Len(s)
    BY JoinType
  <1>2. /\ \A k \in 1..Len(g) : v[k] = g[k]
        /\ \A k \in 1..Len(s) : v[Len(g) + k] = s[k]
    BY FirstOfTwo, SecondOfTwo
  <1> HIDE DEF v
  <1>3. Len(v \o b) = Len(v) + Len(b) /\ \A k \in 1..Len(v) : (v \o b)[k] = v[k]
    BY <1>1, JoinType, FirstOfTwo
  <1>4. Len(g) \in Nat /\ Len(s) \in Nat
    OBVIOUS
  <1>5. \A k \in 1..Len(g) : k \in 1..Len(v)
    BY <1>1, <1>4
  <1>6. \A k \in 1..Len(s) : Len(g) + k \in 1..Len(v)
    BY <1>1, <1>4
  <1> QED
    BY <1>1, <1>2, <1>3, <1>5, <1>6 DEF v

\* g, s and b, joined, are u.
IsJoined(u, g, s, b) == u = g \o s \o b

\* The same of a string with a name.
LEMMA PartsIn ==
  ASSUME NEW g \in Seq(Byte), NEW s \in Seq(Byte), NEW b \in Seq(Byte),
         NEW u, IsJoined(u, g, s, b)
  PROVE  /\ Len(u) = Len(g) + Len(s) + Len(b)
         /\ \A k \in 1..Len(g) : u[k] = g[k]
         /\ \A k \in 1..Len(s) : u[Len(g) + k] = s[k]
  BY PartsOf DEF IsJoined

\* A response can be taken apart in one way only.
LEMMA PartsAgree ==
  ASSUME NEW g \in Seq(Byte), NEW h \in Seq(Byte), Len(g) = Len(h),
         NEW s \in Seq(Byte), NEW t \in Seq(Byte),
         NEW b \in Seq(Byte), NEW c \in Seq(Byte), Len(b) = Len(c),
         NEW u, IsJoined(u, g, s, b), IsJoined(u, h, t, c)
  PROVE  g = h /\ s = t
  <1>1. /\ Len(u) = Len(g) + Len(s) + Len(b) /\ \A k \in 1..Len(g) : u[k] = g[k]
        /\ \A k \in 1..Len(s) : u[Len(g) + k] = s[k]
    <2>1. Len(u) = Len(g) + Len(s) + Len(b)
      BY PartsIn
    <2>2. \A k \in 1..Len(g) : u[k] = g[k]
      BY PartsIn
    <2>3. \A k \in 1..Len(s) : u[Len(g) + k] = s[k]
      BY PartsIn, SMTT(40)
    <2> QED
      BY <2>1, <2>2, <2>3
  <1>2. /\ Len(u) = Len(h) + Len(t) + Len(c) /\ \A k \in 1..Len(h) : u[k] = h[k]
        /\ \A k \in 1..Len(t) : u[Len(h) + k] = t[k]
    <2>1. Len(u) = Len(h) + Len(t) + Len(c)
      BY PartsIn
    <2>2. \A k \in 1..Len(h) : u[k] = h[k]
      BY PartsIn
    <2>3. \A k \in 1..Len(t) : u[Len(h) + k] = t[k]
      BY PartsIn
    <2> QED
      BY <2>1, <2>2, <2>3
  <1>3. Len(s) = Len(t)
    BY <1>1, <1>2
  <1>4. g = h
    BY <1>1, <1>2, SameString
  <1>5. s = t
    BY <1>1, <1>2, <1>3, SameString
  <1> QED
    BY <1>4, <1>5

-----------------------------------------------------------------------------

\* A stuffed byte is a string of bytes.
LEMMA StuffByteType == ASSUME NEW b \in Byte PROVE StuffByte(b) \in Seq(Byte)
  <1>1. FlipBit5(b) \in Byte /\ ESC \in Byte
    BY DEF FlipBit5, ESC, Byte
  <1> QED
    BY <1>1 DEF StuffByte

\* So is a string with a stuffed byte behind it.
LEMMA StuffingType ==
  ASSUME NEW s \in Seq(Byte), NEW b \in Byte PROVE s \o StuffByte(b) \in Seq(Byte)
  <1>1. StuffByte(b) \in Seq(Byte)
    BY StuffByteType
  <1> QED
    BY <1>1

\* A sum of bytes is a number.
LEMMA SummingType == ASSUME NEW n \in Nat, NEW b \in Byte PROVE n + b \in Nat
  BY DEF Byte

\* What the fold of StuffData iterates over the prefixes of s.
StuffingIteration(iter, s) ==
    iter = [t \in SUBSET DOMAIN s |->
               IF t = {} THEN <<>> ELSE iter[t \ {Max(t)}] \o StuffByte(s[Max(t)])]

\* What the iteration is on the prefixes of s, which is all that counts of it.
StuffingPrefixes(iter, s, n) ==
    /\ iter[1..0] = <<>>
    /\ \A k \in 1..n : iter[1..k] = iter[1..(k - 1)] \o StuffByte(s[k])

\* StuffData is an iteration of it, and there is one for every string of bytes.
LEMMA StuffingIterates ==
  ASSUME NEW s \in Seq(Byte)
  PROVE  \E iter : StuffData(s) = iter[1..Len(s)] /\ StuffingPrefixes(iter, s, Len(s))
  <1> DEFINE n == Len(s)
             step == [p \in Seq(Byte) \X (1..n) |-> p[1] \o StuffByte(s[p[2]])]
  <1>1. n \in Nat /\ DOMAIN s = 1..n
    OBVIOUS
  <1>2. step \in [Seq(Byte) \X (1..n) -> Seq(Byte)]
    <2>1. ASSUME NEW p \in Seq(Byte) \X (1..n) PROVE p[1] \o StuffByte(s[p[2]]) \in Seq(Byte)
      <3>1. p[1] \in Seq(Byte) /\ s[p[2]] \in Byte
        OBVIOUS
      <3> QED
        BY <3>1, StuffingType
    <2> QED
      BY <2>1
  <1>3. <<>> \in Seq(Byte)
    OBVIOUS
  <1>4. PICK f \in [SUBSET (1..n) -> Seq(Byte)] : IsFold(f, step, <<>>, n)
    <2> HIDE DEF step, n
    <2> QED
      BY <1>1, <1>2, <1>3, FoldExists
  <1>5. StuffingIteration(f, s)
    <2>1. ASSUME NEW t \in SUBSET (1..n), t # {}
          PROVE  f[t] = f[t \ {Max(t)}] \o StuffByte(s[Max(t)])
      <3>1. Max(t) \in t
        BY <1>1, <2>1, MaxExists
      <3>2. f[t \ {Max(t)}] \in Seq(Byte) /\ Max(t) \in 1..n
        BY <3>1
      <3> QED
        BY <1>4, <2>1, <3>2 DEF IsFold
    <2> QED
      BY <1>1, <1>4, <2>1 DEF StuffingIteration, IsFold
  <1> DEFINE iter == CHOOSE iter : StuffingIteration(iter, s)
  <1>6. StuffingIteration(iter, s)
    BY <1>5
  <1>7. StuffData(s) = iter[1..n]
    <2>1. StuffData(s) = iter[DOMAIN s]
      BY Zenon DEF StuffData, FoldLeft, MapThenFoldSet, StuffingIteration
    <2> QED
      BY <1>1, <2>1
  <1> HIDE DEF iter
  <1>8. iter[1..0] = <<>>
    BY <1>1, <1>6, EmptyPrefix DEF StuffingIteration
  <1>9. ASSUME NEW k \in 1..n PROVE iter[1..k] = iter[1..(k - 1)] \o StuffByte(s[k])
    <2> DEFINE t == 1..k
    <2>1. t \in SUBSET DOMAIN s /\ t # {} /\ Max(t) = k /\ t \ {Max(t)} = 1..(k - 1)
      BY <1>1, PrefixStep
    <2> HIDE DEF t
    <2>2. iter[t] = iter[t \ {Max(t)}] \o StuffByte(s[Max(t)])
      BY <2>1, <1>6 DEF StuffingIteration
    <2> QED
      BY <2>1, <2>2 DEF t
  <1> QED
    BY <1>7, <1>8, <1>9 DEF StuffingPrefixes

\* Stuffing a string stuffs its bytes, one after the other.
LEMMA StuffingSteps ==
  /\ StuffData(<<>>) = <<>>
  /\ \A s \in Seq(Byte), b \in Byte : StuffData(Append(s, b)) = StuffData(s) \o StuffByte(b)
  <1>1. StuffData(<<>>) = <<>>
    <2>1. <<>> \in Seq(Byte) /\ Len(<<>>) = 0
      OBVIOUS
    <2> QED
      BY <2>1, StuffingIterates DEF StuffingPrefixes
  <1>2. ASSUME NEW s \in Seq(Byte), NEW b \in Byte
        PROVE  StuffData(Append(s, b)) = StuffData(s) \o StuffByte(b)
    <2> DEFINE n == Len(s)
               u == Append(s, b)
    <2>1. /\ n \in Nat /\ u \in Seq(Byte) /\ Len(u) = n + 1 /\ u[n + 1] = b
          /\ \A k \in 1..n : u[k] = s[k]
      OBVIOUS
    <2>2. PICK f : StuffData(s) = f[1..n] /\ StuffingPrefixes(f, s, n)
      BY StuffingIterates
    <2> HIDE DEF u
    <2>3. PICK g : StuffData(u) = g[1..(n + 1)] /\ StuffingPrefixes(g, u, n + 1)
      BY <2>1, StuffingIterates
    <2> HIDE DEF n
    <2>4. f[1..n] = g[1..n]
      <3>1. ASSUME NEW k \in 1..n, f[1..(k - 1)] = g[1..(k - 1)] PROVE f[1..k] = g[1..k]
        <4>1. k \in 1..(n + 1)
          BY <2>1
        <4> QED
          BY <2>1, <2>2, <2>3, <3>1, <4>1 DEF StuffingPrefixes
      <3>2. f[1..0] = g[1..0]
        BY <2>2, <2>3 DEF StuffingPrefixes
      <3> QED
        BY <2>1, <3>1, <3>2, AgreeOnPrefixes
    <2>5. n + 1 \in 1..(n + 1) /\ (n + 1) - 1 = n
      BY <2>1
    <2>6. g[1..(n + 1)] = g[1..n] \o StuffByte(b)
      BY <2>1, <2>3, <2>5 DEF StuffingPrefixes
    <2> QED
      BY <2>2, <2>3, <2>4, <2>6 DEF u
  <1> QED
    BY <1>1, <1>2

\* What the fold of SumBytes iterates over the prefixes of s.
SummingIteration(iter, s) ==
    iter = [t \in SUBSET DOMAIN s |->
               IF t = {} THEN 0 ELSE iter[t \ {Max(t)}] + s[Max(t)]]

\* What the iteration is on the prefixes of s.
SummingPrefixes(iter, s, n) ==
    /\ iter[1..0] = 0
    /\ \A k \in 1..n : iter[1..k] = iter[1..(k - 1)] + s[k]

\* SumBytes is an iteration of it, and there is one for every string of bytes.
LEMMA SummingIterates ==
  ASSUME NEW s \in Seq(Byte)
  PROVE  \E iter : SumBytes(s) = iter[1..Len(s)] /\ SummingPrefixes(iter, s, Len(s))
  <1> DEFINE n == Len(s)
             step == [p \in Nat \X (1..n) |-> p[1] + s[p[2]]]
  <1>1. n \in Nat /\ DOMAIN s = 1..n
    OBVIOUS
  <1>2. step \in [Nat \X (1..n) -> Nat]
    <2>1. ASSUME NEW p \in Nat \X (1..n) PROVE p[1] + s[p[2]] \in Nat
      <3>1. p[1] \in Nat /\ s[p[2]] \in Byte
        OBVIOUS
      <3> QED
        BY <3>1, SummingType
    <2> QED
      BY <2>1
  <1>3. 0 \in Nat
    OBVIOUS
  <1>4. PICK f \in [SUBSET (1..n) -> Nat] : IsFold(f, step, 0, n)
    <2> HIDE DEF step, n
    <2> QED
      BY <1>1, <1>2, <1>3, FoldExists
  <1>5. SummingIteration(f, s)
    <2>1. ASSUME NEW t \in SUBSET (1..n), t # {}
          PROVE  f[t] = f[t \ {Max(t)}] + s[Max(t)]
      <3>1. Max(t) \in t
        BY <1>1, <2>1, MaxExists
      <3>2. f[t \ {Max(t)}] \in Nat /\ Max(t) \in 1..n
        BY <3>1
      <3> QED
        BY <1>4, <2>1, <3>2 DEF IsFold
    <2> QED
      BY <1>1, <1>4, <2>1 DEF SummingIteration, IsFold
  <1> DEFINE iter == CHOOSE iter : SummingIteration(iter, s)
  <1>6. SummingIteration(iter, s)
    BY <1>5
  <1>7. SumBytes(s) = iter[1..n]
    <2>1. SumBytes(s) = iter[DOMAIN s]
      BY Zenon DEF SumBytes, FoldLeft, MapThenFoldSet, SummingIteration
    <2> QED
      BY <1>1, <2>1
  <1> HIDE DEF iter
  <1>8. iter[1..0] = 0
    BY <1>1, <1>6, EmptyPrefix DEF SummingIteration
  <1>9. ASSUME NEW k \in 1..n PROVE iter[1..k] = iter[1..(k - 1)] + s[k]
    <2> DEFINE t == 1..k
    <2>1. t \in SUBSET DOMAIN s /\ t # {} /\ Max(t) = k /\ t \ {Max(t)} = 1..(k - 1)
      BY <1>1, PrefixStep
    <2> HIDE DEF t
    <2>2. iter[t] = iter[t \ {Max(t)}] + s[Max(t)]
      BY <2>1, <1>6 DEF SummingIteration
    <2> QED
      BY <2>1, <2>2 DEF t
  <1> QED
    BY <1>7, <1>8, <1>9 DEF SummingPrefixes

\* The sum of a string is the sum of its bytes.
LEMMA SummingSteps ==
  /\ SumBytes(<<>>) = 0
  /\ \A s \in Seq(Byte), b \in Byte : SumBytes(Append(s, b)) = SumBytes(s) + b
  <1>1. SumBytes(<<>>) = 0
    <2>1. <<>> \in Seq(Byte) /\ Len(<<>>) = 0
      OBVIOUS
    <2> QED
      BY <2>1, SummingIterates DEF SummingPrefixes
  <1>2. ASSUME NEW s \in Seq(Byte), NEW b \in Byte
        PROVE  SumBytes(Append(s, b)) = SumBytes(s) + b
    <2> DEFINE n == Len(s)
               u == Append(s, b)
    <2>1. /\ n \in Nat /\ u \in Seq(Byte) /\ Len(u) = n + 1 /\ u[n + 1] = b
          /\ \A k \in 1..n : u[k] = s[k]
      OBVIOUS
    <2>2. PICK f : SumBytes(s) = f[1..n] /\ SummingPrefixes(f, s, n)
      BY SummingIterates
    <2> HIDE DEF u
    <2>3. PICK g : SumBytes(u) = g[1..(n + 1)] /\ SummingPrefixes(g, u, n + 1)
      BY <2>1, SummingIterates
    <2> HIDE DEF n
    <2>4. f[1..n] = g[1..n]
      <3>1. ASSUME NEW k \in 1..n, f[1..(k - 1)] = g[1..(k - 1)] PROVE f[1..k] = g[1..k]
        <4>1. k \in 1..(n + 1)
          BY <2>1
        <4> QED
          BY <2>1, <2>2, <2>3, <3>1, <4>1 DEF SummingPrefixes
      <3>2. f[1..0] = g[1..0]
        BY <2>2, <2>3 DEF SummingPrefixes
      <3> QED
        BY <2>1, <3>1, <3>2, AgreeOnPrefixes
    <2>5. n + 1 \in 1..(n + 1) /\ (n + 1) - 1 = n
      BY <2>1
    <2>6. g[1..(n + 1)] = g[1..n] + b
      BY <2>1, <2>3, <2>5 DEF SummingPrefixes
    <2> QED
      BY <2>2, <2>3, <2>4, <2>6 DEF u
  <1> QED
    BY <1>1, <1>2

-----------------------------------------------------------------------------

\* What is decoded of the empty string, and what is decoded of any.
Nothing == [out |-> <<>>, esc |-> FALSE]
Decoding == [out : Seq(Byte), esc : BOOLEAN]

\* One byte more, with ue to undo the escape.
DestuffStep(ue, acc, b) ==
    IF acc.esc THEN [out |-> Append(acc.out, ue[b]), esc |-> FALSE]
    ELSE IF b = ESC THEN [acc EXCEPT !.esc = TRUE]
    ELSE [acc EXCEPT !.out = Append(@, b)]

\* The iteration behind Destuff, with ue for its parameter, as a function.
DestuffIteration(iter, s, ue) ==
    iter = [t \in SUBSET DOMAIN s |->
               IF t = {} THEN Nothing ELSE DestuffStep(ue, iter[t \ {Max(t)}], s[Max(t)])]

\* What the iteration is on the prefixes of s.
DestuffPrefixes(iter, s, n, ue) ==
    /\ iter[1..0] = Nothing
    /\ \A k \in 1..n : iter[1..k] = DestuffStep(ue, iter[1..(k - 1)], s[k])

\* u is what is decoded of the whole of s.
IsDestuffed(u, s, ue) ==
    \E iter : u = iter[1..Len(s)] /\ DestuffPrefixes(iter, s, Len(s), ue)

\* A step yields a decoding.
LEMMA DestuffStepType ==
  ASSUME NEW ue \in [Byte -> Byte], NEW acc \in Decoding, NEW b \in Byte
  PROVE  DestuffStep(ue, acc, b) \in Decoding
  <1>1. acc.out \in Seq(Byte) /\ ue[b] \in Byte
    BY DEF Decoding
  <1>2. Append(acc.out, ue[b]) \in Seq(Byte) /\ Append(acc.out, b) \in Seq(Byte)
    BY <1>1
  <1> QED
    BY <1>2 DEF Decoding, DestuffStep

\* There is an iteration for every string of bytes.
LEMMA DestuffIterates ==
  ASSUME NEW s \in Seq(Byte), NEW ue \in [Byte -> Byte]
  PROVE  \E iter : DestuffIteration(iter, s, ue)
  <1> DEFINE n == Len(s)
             step == [p \in Decoding \X (1..n) |-> DestuffStep(ue, p[1], s[p[2]])]
  <1>1. n \in Nat /\ DOMAIN s = 1..n
    OBVIOUS
  <1>2. step \in [Decoding \X (1..n) -> Decoding]
    <2>1. ASSUME NEW p \in Decoding \X (1..n)
          PROVE  DestuffStep(ue, p[1], s[p[2]]) \in Decoding
      <3>1. p[1] \in Decoding /\ s[p[2]] \in Byte
        OBVIOUS
      <3> QED
        BY <3>1, DestuffStepType
    <2> QED
      BY <2>1
  <1>3. Nothing \in Decoding
    BY DEF Nothing, Decoding
  <1>4. PICK f \in [SUBSET (1..n) -> Decoding] : IsFold(f, step, Nothing, n)
    <2> HIDE DEF step, n
    <2> QED
      BY <1>1, <1>2, <1>3, FoldExists
  <1>5. ASSUME NEW t \in SUBSET (1..n), t # {}
        PROVE  f[t] = DestuffStep(ue, f[t \ {Max(t)}], s[Max(t)])
    <2>1. Max(t) \in t
      BY <1>1, <1>5, MaxExists
    <2>2. f[t \ {Max(t)}] \in Decoding /\ Max(t) \in 1..n
      BY <2>1
    <2> QED
      BY <1>4, <1>5, <2>2 DEF IsFold
  <1> QED
    BY <1>1, <1>4, <1>5 DEF DestuffIteration, IsFold

\* An iteration decodes the string.
LEMMA IterationIsDestuffed ==
  ASSUME NEW s \in Seq(Byte), NEW ue, NEW iter, DestuffIteration(iter, s, ue)
  PROVE  IsDestuffed(iter[DOMAIN s], s, ue)
  <1> DEFINE n == Len(s)
  <1>1. n \in Nat /\ DOMAIN s = 1..n
    OBVIOUS
  <1>2. iter[1..0] = Nothing
    BY <1>1, EmptyPrefix DEF DestuffIteration
  <1>3. ASSUME NEW k \in 1..n PROVE iter[1..k] = DestuffStep(ue, iter[1..(k - 1)], s[k])
    <2> DEFINE t == 1..k
    <2>1. t \in SUBSET DOMAIN s /\ t # {} /\ Max(t) = k /\ t \ {Max(t)} = 1..(k - 1)
      BY <1>1, PrefixStep
    <2> HIDE DEF t
    <2>2. iter[t] = DestuffStep(ue, iter[t \ {Max(t)}], s[Max(t)])
      BY <2>1 DEF DestuffIteration
    <2> QED
      BY <2>1, <2>2 DEF t
  <1> QED
    BY <1>1, <1>2, <1>3 DEF DestuffPrefixes, IsDestuffed

\* Decodings of the empty string and of one byte more: the equations that define
\* a decoding.
LEMMA DestuffedSteps ==
  ASSUME NEW ue
  PROVE  /\ \A u : IsDestuffed(u, <<>>, ue) => u = Nothing
         /\ \A s \in Seq(Byte), b \in Byte : \A u, v :
               IsDestuffed(u, s, ue) /\ IsDestuffed(v, Append(s, b), ue)
                  => v = DestuffStep(ue, u, b)
  <1>1. ASSUME NEW u, IsDestuffed(u, <<>>, ue) PROVE u = Nothing
    <2>1. Len(<<>>) = 0
      OBVIOUS
    <2> QED
      BY <1>1, <2>1 DEF IsDestuffed, DestuffPrefixes
  <1>2. ASSUME NEW s \in Seq(Byte), NEW b \in Byte, NEW u, NEW v,
               IsDestuffed(u, s, ue), IsDestuffed(v, Append(s, b), ue)
        PROVE  v = DestuffStep(ue, u, b)
    <2> DEFINE n == Len(s)
               w == Append(s, b)
    <2>1. /\ n \in Nat /\ w \in Seq(Byte) /\ Len(w) = n + 1 /\ w[n + 1] = b
          /\ \A k \in 1..n : w[k] = s[k]
      OBVIOUS
    <2>2. PICK f : u = f[1..n] /\ DestuffPrefixes(f, s, n, ue)
      BY <1>2 DEF IsDestuffed
    <2>3. PICK g : v = g[1..(n + 1)] /\ DestuffPrefixes(g, w, n + 1, ue)
      <3> HIDE DEF w
      <3> QED
        BY <1>2, <2>1 DEF IsDestuffed, w
    <2> HIDE DEF n, w
    <2>4. f[1..n] = g[1..n]
      <3>1. ASSUME NEW k \in 1..n, f[1..(k - 1)] = g[1..(k - 1)] PROVE f[1..k] = g[1..k]
        <4>1. k \in 1..(n + 1)
          BY <2>1
        <4> QED
          BY <2>1, <2>2, <2>3, <3>1, <4>1 DEF DestuffPrefixes
      <3>2. f[1..0] = g[1..0]
        BY <2>2, <2>3 DEF DestuffPrefixes
      <3> QED
        BY <2>1, <3>1, <3>2, AgreeOnPrefixes
    <2>5. n + 1 \in 1..(n + 1) /\ (n + 1) - 1 = n
      BY <2>1
    <2>6. g[1..(n + 1)] = DestuffStep(ue, g[1..n], b)
      BY <2>1, <2>3, <2>5 DEF DestuffPrefixes
    <2> QED
      BY <2>2, <2>3, <2>4, <2>6
  <1> QED
    BY <1>1, <1>2

\* Both receivers undo an escape to a byte.
LEMMA UnescapeType == \A b \in Byte : FlipBit5(b) \in Byte /\ UnstuffByte(b) \in Byte
  BY DEF FlipBit5, UnstuffByte, Byte, Reserved, ESC, SHDLC_STOP

\* The way of sensirion_shdlc_rx_inplace, as a function.
Flip == [b \in Byte |-> FlipBit5(b)]

\* Destuff with FlipBit5 decodes the string.
LEMMA FlipDestuffs ==
  ASSUME NEW s \in Seq(Byte)
  PROVE  IsDestuffed(Destuff(FlipBit5, s), s, Flip)
  <1> DEFINE C(iter) ==
          iter = [t \in SUBSET DOMAIN s |->
                    IF t = {} THEN [out |-> <<>>, esc |-> FALSE]
                    ELSE IF iter[t \ {Max(t)}].esc
                         THEN [out |-> Append(iter[t \ {Max(t)}].out, FlipBit5(s[Max(t)])), esc |-> FALSE]
                    ELSE IF s[Max(t)] = ESC THEN [iter[t \ {Max(t)}] EXCEPT !.esc = TRUE]
                    ELSE [iter[t \ {Max(t)}] EXCEPT !.out = Append(@, s[Max(t)])]]
             chosen == CHOOSE iter : C(iter)
  <1>1. Destuff(FlipBit5, s) = chosen[DOMAIN s]
    BY Zenon DEF Destuff, FoldLeft, MapThenFoldSet
  <1>2. Flip \in [Byte -> Byte]
    BY UnescapeType DEF Flip
  <1>3. ASSUME NEW iter PROVE C(iter) <=> DestuffIteration(iter, s, Flip)
    <2>1. ASSUME NEW t \in SUBSET DOMAIN s, t # {} PROVE Flip[s[Max(t)]] = FlipBit5(s[Max(t)])
      <3>1. t \in SUBSET (1..Len(s)) /\ Len(s) \in Nat
        OBVIOUS
      <3>2. Max(t) \in t
        BY <2>1, <3>1, MaxExists
      <3>3. s[Max(t)] \in Byte
        BY <3>2
      <3> QED
        BY <3>3 DEF Flip
    <2> HIDE DEF Flip
    <2> QED
      BY <2>1 DEF DestuffIteration, DestuffStep, Nothing
  <1> HIDE DEF C
  <1>4. \E iter : C(iter)
    BY <1>2, <1>3, DestuffIterates
  <1>5. C(chosen)
    BY <1>4
  <1> HIDE DEF chosen
  <1>6. DestuffIteration(chosen, s, Flip)
    BY <1>3, <1>5
  <1> QED
    BY <1>1, <1>6, IterationIsDestuffed

\* So it obeys the equations.
LEMMA FlipSteps ==
  /\ Destuff(FlipBit5, <<>>) = Nothing
  /\ \A s \in Seq(Byte), b \in Byte :
        Destuff(FlipBit5, Append(s, b)) = DestuffStep(Flip, Destuff(FlipBit5, s), b)
  <1>1. <<>> \in Seq(Byte)
    OBVIOUS
  <1>2. \A s \in Seq(Byte), b \in Byte : Append(s, b) \in Seq(Byte)
    OBVIOUS
  <1> QED
    BY <1>1, <1>2, FlipDestuffs, DestuffedSteps, ZenonT(40)

\* The way of sensirion_shdlc_rx, as a function.
Table == [b \in Byte |-> UnstuffByte(b)]

\* Destuff with UnstuffByte decodes the string.
LEMMA TableDestuffs ==
  ASSUME NEW s \in Seq(Byte)
  PROVE  IsDestuffed(Destuff(UnstuffByte, s), s, Table)
  <1> DEFINE C(iter) ==
          iter = [t \in SUBSET DOMAIN s |->
                    IF t = {} THEN [out |-> <<>>, esc |-> FALSE]
                    ELSE IF iter[t \ {Max(t)}].esc
                         THEN [out |-> Append(iter[t \ {Max(t)}].out, UnstuffByte(s[Max(t)])), esc |-> FALSE]
                    ELSE IF s[Max(t)] = ESC THEN [iter[t \ {Max(t)}] EXCEPT !.esc = TRUE]
                    ELSE [iter[t \ {Max(t)}] EXCEPT !.out = Append(@, s[Max(t)])]]
             chosen == CHOOSE iter : C(iter)
  <1>1. Destuff(UnstuffByte, s) = chosen[DOMAIN s]
    BY Zenon DEF Destuff, FoldLeft, MapThenFoldSet
  <1>2. Table \in [Byte -> Byte]
    BY UnescapeType DEF Table
  <1>3. ASSUME NEW iter PROVE C(iter) <=> DestuffIteration(iter, s, Table)
    <2>1. ASSUME NEW t \in SUBSET DOMAIN s, t # {} PROVE Table[s[Max(t)]] = UnstuffByte(s[Max(t)])
      <3>1. t \in SUBSET (1..Len(s)) /\ Len(s) \in Nat
        OBVIOUS
      <3>2. Max(t) \in t
        BY <2>1, <3>1, MaxExists
      <3>3. s[Max(t)] \in Byte
        BY <3>2
      <3> QED
        BY <3>3 DEF Table
    <2> HIDE DEF Table
    <2> QED
      BY <2>1 DEF DestuffIteration, DestuffStep, Nothing
  <1> HIDE DEF C
  <1>4. \E iter : C(iter)
    BY <1>2, <1>3, DestuffIterates
  <1>5. C(chosen)
    BY <1>4
  <1> HIDE DEF chosen
  <1>6. DestuffIteration(chosen, s, Table)
    BY <1>3, <1>5
  <1> QED
    BY <1>1, <1>6, IterationIsDestuffed

\* So it obeys the equations, too.
LEMMA TableSteps ==
  /\ Destuff(UnstuffByte, <<>>) = Nothing
  /\ \A s \in Seq(Byte), b \in Byte :
        Destuff(UnstuffByte, Append(s, b)) = DestuffStep(Table, Destuff(UnstuffByte, s), b)
  <1>1. <<>> \in Seq(Byte)
    OBVIOUS
  <1>2. \A s \in Seq(Byte), b \in Byte : Append(s, b) \in Seq(Byte)
    OBVIOUS
  <1> QED
    BY <1>1, <1>2, TableDestuffs, DestuffedSteps
-----------------------------------------------------------------------------
(* What the encoder and the decoder do to a whole string.                  *)

\* The sum of a string is a number, and sums of parts add up.
LEMMA SumOfConcat ==
  ASSUME NEW s \in Seq(Byte), NEW t \in Seq(Byte)
  PROVE  /\ SumBytes(s) \in Nat
         /\ SumBytes(s \o t) = SumBytes(s) + SumBytes(t)
  <1> DEFINE T == {u \in Seq(Byte) : SumBytes(u) \in Nat}
             U == {u \in Seq(Byte) : SumBytes(s \o u) = SumBytes(s) + SumBytes(u)}
  <1>1. \A u \in Seq(Byte) : SumBytes(u) \in Nat
    <2>1. <<>> \in T
      BY SummingSteps
    <2>2. ASSUME NEW u \in Seq(Byte), u \in T, NEW b \in Byte PROVE Append(u, b) \in T
      <3>1. Append(u, b) \in Seq(Byte)
        OBVIOUS
      <3>2. SumBytes(Append(u, b)) \in Nat
        BY <2>2, SummingSteps, SummingType
      <3> QED
        BY <3>1, <3>2
    <2>3. Seq(Byte) \subseteq T
      <3> HIDE DEF T
      <3> QED
        BY <2>1, <2>2, SequenceInduction
    <2> QED
      BY <2>3
  <1>2. <<>> \in U
    <2>1. s \o <<>> = s /\ <<>> \in Seq(Byte)
      OBVIOUS
    <2>2. SumBytes(<<>>) = 0 /\ SumBytes(s) \in Nat
      BY <1>1, SummingSteps
    <2> QED
      BY <2>1, <2>2
  <1>3. ASSUME NEW u \in Seq(Byte), u \in U, NEW b \in Byte PROVE Append(u, b) \in U
    <2>1. s \o Append(u, b) = Append(s \o u, b) /\ s \o u \in Seq(Byte)
          /\ Append(u, b) \in Seq(Byte)
      OBVIOUS
    <2>2. /\ SumBytes(Append(s \o u, b)) = SumBytes(s \o u) + b
          /\ SumBytes(Append(u, b)) = SumBytes(u) + b
      BY <2>1, SummingSteps
    <2>3. SumBytes(s) \in Nat /\ SumBytes(u) \in Nat /\ b \in Nat
      BY <1>1 DEF Byte
    <2>4. SumBytes(s \o u) = SumBytes(s) + SumBytes(u)
      BY <1>3
    <2>5. SumBytes(s \o Append(u, b)) = SumBytes(s) + SumBytes(Append(u, b))
      BY <2>1, <2>2, <2>3, <2>4
    <2> QED
      BY <2>1, <2>5
  <1>4. Seq(Byte) \subseteq U
    <2> HIDE DEF U
    <2> QED
      BY <1>2, <1>3, SequenceInduction
  <1> QED
    BY <1>1, <1>4

\* Between the delimiters nothing reserved is left but escape bytes.
LEMMA StuffedIsTransparent ==
  ASSUME NEW s \in Seq(Byte)
  PROVE  /\ StuffData(s) \in Seq(Byte)
         /\ \A k \in 1..Len(StuffData(s)) : StuffData(s)[k] \notin Reserved \ {ESC}
  <1> DEFINE Plain(u) == \A k \in 1..Len(u) : u[k] \notin Reserved \ {ESC}
             T == {u \in Seq(Byte) : StuffData(u) \in Seq(Byte) /\ Plain(StuffData(u))}
  <1>1. <<>> \in T
    <2>1. <<>> \in Seq(Byte) /\ Plain(<<>>)
      OBVIOUS
    <2> HIDE DEF Plain
    <2> QED
      BY <2>1, StuffingSteps
  <1>2. ASSUME NEW u \in Seq(Byte), u \in T, NEW b \in Byte PROVE Append(u, b) \in T
    <2>1. StuffByte(b) \in Seq(Byte) /\ Plain(StuffByte(b))
      <3>1. CASE b \in Reserved
        <4>1. FlipBit5(b) \notin Reserved
          BY <3>1 DEF Reserved, FlipBit5, ESC, SHDLC_STOP
        <4>2. StuffByte(b) = <<ESC, FlipBit5(b)>>
          BY <3>1 DEF StuffByte
        <4> DEFINE t == <<ESC, FlipBit5(b)>>
        <4>3. t[1] = ESC /\ t[2] = FlipBit5(b) /\ Len(t) = 2 /\ 1..2 = {1, 2}
          OBVIOUS
        <4>4. Plain(t)
          <5> HIDE DEF t
          <5> QED
            BY <4>1, <4>3
        <4> QED
          BY <4>2, <4>4, StuffByteType
      <3>2. CASE b \notin Reserved
        <4>1. StuffByte(b) = <<b>>
          BY <3>2 DEF StuffByte
        <4> QED
          BY <3>2, <4>1
      <3> QED
        BY <3>1, <3>2
    <2> DEFINE t == StuffByte(b)
               v == StuffData(u)
    <2>2. v \in Seq(Byte) /\ t \in Seq(Byte) /\ Plain(v) /\ Plain(t)
      BY <1>2, <2>1
    <2>3. StuffData(Append(u, b)) = v \o t
      BY StuffingSteps
    <2> HIDE DEF t, v
    <2>4. v \o t \in Seq(Byte) /\ Plain(v \o t)
      BY <2>2
    <2>5. Append(u, b) \in Seq(Byte)
      OBVIOUS
    <2> QED
      BY <2>3, <2>4, <2>5
  <1>3. Seq(Byte) \subseteq T
    <2> HIDE DEF T
    <2> QED
      BY <1>1, <1>2, SequenceInduction
  <1> QED
    BY <1>3

\* Both decodings undo the stuffing of one byte.
LEMMA UnescapesStuffed ==
  \A b \in Reserved : /\ b \in Byte /\ FlipBit5(b) \in Byte
                      /\ Flip[FlipBit5(b)] = b /\ Table[FlipBit5(b)] = b
  BY DEF Flip, Table, FlipBit5, UnstuffByte, Byte, Reserved, ESC, SHDLC_STOP


\* One stuffed byte, decoded after anything that does not end in an escape.
LEMMA DestuffStuffedByte ==
  ASSUME NEW s \in Seq(Byte), NEW b \in Byte, NEW out \in Seq(Byte)
  PROVE  /\ Destuff(FlipBit5, s) = [out |-> out, esc |-> FALSE]
               => Destuff(FlipBit5, s \o StuffByte(b)) = [out |-> Append(out, b), esc |-> FALSE]
         /\ Destuff(UnstuffByte, s) = [out |-> out, esc |-> FALSE]
               => Destuff(UnstuffByte, s \o StuffByte(b)) = [out |-> Append(out, b), esc |-> FALSE]
  <1> DEFINE A(o) == [out |-> o, esc |-> FALSE]
  <1>1. CASE b \notin Reserved
    <2>1. s \o StuffByte(b) = Append(s, b)
      BY <1>1 DEF StuffByte
    <2>2. \A ue : DestuffStep(ue, A(out), b) = A(Append(out, b))
      BY <1>1 DEF DestuffStep, Reserved
    <2> HIDE DEF A
    <2>3. /\ Destuff(FlipBit5, s) = A(out) => Destuff(FlipBit5, Append(s, b)) = A(Append(out, b))
          /\ Destuff(UnstuffByte, s) = A(out) => Destuff(UnstuffByte, Append(s, b)) = A(Append(out, b))
      BY <2>2, FlipSteps, TableSteps
    <2> QED
      BY <2>1, <2>3 DEF A
  <1>2. CASE b \in Reserved
    <2> DEFINE c == FlipBit5(b)
               e == [out |-> out, esc |-> TRUE]
               s1 == Append(s, ESC)
    <2>1. c \in Byte /\ ESC \in Byte /\ Flip[c] = b /\ Table[c] = b
      BY <1>2, UnescapesStuffed DEF ESC, Byte
    <2>2. s \o StuffByte(b) = Append(s1, c) /\ s1 \in Seq(Byte)
      <3>1. StuffByte(b) = <<ESC, c>>
        BY <1>2 DEF StuffByte
      <3> HIDE DEF c
      <3> QED
        BY <2>1, <3>1
    <2>3. \A ue : DestuffStep(ue, A(out), ESC) = e
      BY DEF DestuffStep
    <2>4. \A ue : ue[c] = b => DestuffStep(ue, e, c) = A(Append(out, b))
      BY DEF DestuffStep
    <2> HIDE DEF A, e, c
    <2>5. /\ Destuff(FlipBit5, s) = A(out) => Destuff(FlipBit5, s1) = e
          /\ Destuff(UnstuffByte, s) = A(out) => Destuff(UnstuffByte, s1) = e
      BY <2>1, <2>3, FlipSteps, TableSteps
    <2> HIDE DEF s1
    <2>6. /\ Destuff(FlipBit5, s1) = e => Destuff(FlipBit5, Append(s1, c)) = A(Append(out, b))
          /\ Destuff(UnstuffByte, s1) = e => Destuff(UnstuffByte, Append(s1, c)) = A(Append(out, b))
      BY <2>1, <2>2, <2>4, FlipSteps, TableSteps
    <2> QED
      BY <2>2, <2>5, <2>6 DEF A
  <1> QED
    BY <1>1, <1>2

\* Decoding what the encoder made gives back what it was given, for both of the
\* receivers' tables.
LEMMA DestuffStuffed ==
  ASSUME NEW s \in Seq(Byte)
  PROVE  /\ Destuff(FlipBit5, StuffData(s)) = [out |-> s, esc |-> FALSE]
         /\ Destuff(UnstuffByte, StuffData(s)) = [out |-> s, esc |-> FALSE]
  <1> DEFINE T == {u \in Seq(Byte) :
                      /\ Destuff(FlipBit5, StuffData(u)) = [out |-> u, esc |-> FALSE]
                      /\ Destuff(UnstuffByte, StuffData(u)) = [out |-> u, esc |-> FALSE]}
  <1>1. <<>> \in T
    BY StuffingSteps, FlipSteps, TableSteps DEF Nothing
  <1>2. ASSUME NEW u \in Seq(Byte), u \in T, NEW b \in Byte PROVE Append(u, b) \in T
    <2>1. StuffData(Append(u, b)) = StuffData(u) \o StuffByte(b)
      BY StuffingSteps
    <2>2. StuffData(u) \in Seq(Byte)
      BY StuffedIsTransparent
    <2>3. Append(u, b) \in Seq(Byte)
      OBVIOUS
    <2>4. /\ Destuff(FlipBit5, StuffData(u)) = [out |-> u, esc |-> FALSE]
          /\ Destuff(UnstuffByte, StuffData(u)) = [out |-> u, esc |-> FALSE]
      BY <1>2
    <2>5. /\ Destuff(FlipBit5, StuffData(Append(u, b))) = [out |-> Append(u, b), esc |-> FALSE]
          /\ Destuff(UnstuffByte, StuffData(Append(u, b))) = [out |-> Append(u, b), esc |-> FALSE]
      <3> HIDE DEF T
      <3> QED
        BY <2>1, <2>2, <2>4, DestuffStuffedByte
    <2> QED
      BY <2>3, <2>5
  <1>3. Seq(Byte) \subseteq T
    <2> HIDE DEF T
    <2> QED
      BY <1>1, <1>2, SequenceInduction
  <1> QED
    BY <1>3

\* The sum of header, length, data and one byte more.
LEMMA SumOfFrame ==
  ASSUME NEW header \in Seq(Byte), NEW d \in Seq(Byte), Len(d) \in Byte, NEW c \in Byte
  PROVE  /\ header \o <<Len(d)>> \o d \o <<c>> \in Seq(Byte)
         /\ SumBytes(header) + Len(d) + SumBytes(d) \in Nat
         /\ SumBytes(header \o <<Len(d)>> \o d \o <<c>>)
              = SumBytes(header) + Len(d) + SumBytes(d) + c
  <1> DEFINE n == SumBytes(header) + Len(d) + SumBytes(d)
             b == header \o <<Len(d)>> \o d
  <1>1. SumBytes(header) \in Nat /\ SumBytes(d) \in Nat /\ n \in Nat
    BY SumOfConcat DEF Byte
  <1>2. b \in Seq(Byte) /\ SumBytes(b) = n
    <2>1. /\ <<>> \in Seq(Byte) /\ <<Len(d)>> \in Seq(Byte)
          /\ Append(<<>>, Len(d)) = <<Len(d)>>
      OBVIOUS
    <2>2. SumBytes(<<Len(d)>>) = 0 + Len(d)
      BY <2>1, SummingSteps
    <2>3. header \o <<Len(d)>> \in Seq(Byte)
      BY <2>1
    <2>4. SumBytes(header \o <<Len(d)>>) = SumBytes(header) + Len(d)
      <3>1. Len(d) \in Nat
        OBVIOUS
      <3>2. SumBytes(<<Len(d)>>) = Len(d)
        BY <2>2, <3>1
      <3> DEFINE l == <<Len(d)>>
      <3> HIDE DEF l
      <3>3. SumBytes(header \o l) = SumBytes(header) + SumBytes(l)
        BY <2>1, SumOfConcat DEF l
      <3> QED
        BY <3>2, <3>3 DEF l
    <2>5. SumBytes(b) = SumBytes(header \o <<Len(d)>>) + SumBytes(d)
      BY <2>3, SumOfConcat
    <2> QED
      BY <1>1, <2>3, <2>4, <2>5
  <1> HIDE DEF b, n
  <1>3. b \o <<c>> = Append(b, c) /\ Append(b, c) \in Seq(Byte)
    BY <1>2
  <1>4. SumBytes(b \o <<c>>) = n + c
    <2>1. SumBytes(Append(b, c)) = SumBytes(b) + c
      BY <1>2, SummingSteps
    <2> QED
      BY <1>2, <1>3, <2>1
  <1> QED
    BY <1>1, <1>3, <1>4 DEF b, n

\* The checksum is the one byte that brings the sum to 0xff.
LEMMA ChecksumDecides ==
  ASSUME NEW header \in Seq(Byte), NEW d \in Seq(Byte), Len(d) \in Byte
  PROVE  /\ Checksum(header, d) \in Byte
         /\ \A c \in Byte : SumBytes(header \o <<Len(d)>> \o d \o <<c>>) % 256 = 255
                              <=> Checksum(header, d) = c
  <1> DEFINE n == SumBytes(header) + Len(d) + SumBytes(d)
  <1>1. \A c \in Byte : /\ n \in Nat
                        /\ SumBytes(header \o <<Len(d)>> \o d \o <<c>>) = n + c
    BY SumOfFrame
  <1>2. n \in Nat
    <2>1. 0 \in Byte
      BY DEF Byte
    <2> QED
      BY <1>1, <2>1
  <1>3. Checksum(header, d) = 255 - (n % 256)
    BY DEF Checksum, Not8, Uint8
  <1> HIDE DEF n
  <1>4. 255 - (n % 256) \in 0..255
    BY <1>2
  <1>5. ASSUME NEW c \in Byte PROVE (n + c) % 256 = 255 <=> 255 - (n % 256) = c
    <2>1. c \in Nat /\ c <= 255
      BY DEF Byte
    <2> DEFINE r == n % 256
    <2>2. r \in Nat /\ r <= 255
      BY <1>2
    <2>3. PICK q \in Nat : n = 256 * q + r
      <3>1. n = 256 * (n \div 256) + (n % 256) /\ n \div 256 \in Nat
        BY <1>2
      <3> QED
        BY <3>1
    <2> HIDE DEF r
    <2>4. CASE r + c <= 255
      <3>1. (n + c) % 256 = r + c
        BY <2>1, <2>2, <2>3, <2>4
      <3>2. r + c = 255 <=> 255 - r = c
        BY <2>1, <2>2
      <3> QED
        BY <3>1, <3>2 DEF r
    <2>5. CASE r + c > 255
      <3>1. (n + c) % 256 = (r + c) - 256
        BY <2>1, <2>2, <2>3, <2>5
      <3>2. (r + c) - 256 # 255 /\ 255 - r # c
        BY <2>1, <2>2, <2>5
      <3> QED
        BY <3>1, <3>2 DEF r
    <2> QED
      BY <2>1, <2>2, <2>4, <2>5
  <1>6. ASSUME NEW c \in Byte
        PROVE  SumBytes(header \o <<Len(d)>> \o d \o <<c>>) % 256 = 255 <=> Checksum(header, d) = c
    <2>1. SumBytes(header \o <<Len(d)>> \o d \o <<c>>) = n + c
      BY <1>1
    <2> QED
      BY <1>3, <1>5, <2>1
  <1> QED
    BY <1>3, <1>4, <1>6 DEF Byte

\* The sum test of the reference is the checksum test of the code.
LEMMA ChecksumOfStored ==
  ASSUME NEW h \in Seq(Byte), NEW d \in Seq(Byte), NEW crc \in Byte,
         Len(h) = 4, Len(d) = h[4]
  PROVE  /\ h \o d \o <<crc>> \in Seq(Byte) /\ Len(h \o d \o <<crc>>) = 5 + Len(d)
         /\ (h \o d \o <<crc>>)[4] = Len(d)
         /\ SumBytes(h \o d \o <<crc>>) % 256 = 255 <=> Checksum(SubSeq(h, 1, 3), d) = crc
  <1> DEFINE g == SubSeq(h, 1, 3)
  <1>1. g \in Seq(Byte) /\ Len(d) \in Byte /\ g \o <<Len(d)>> = h
    BY HeaderSplit
  <1> HIDE DEF g
  <1>2. SumBytes(g \o <<Len(d)>> \o d \o <<crc>>) % 256 = 255 <=> Checksum(g, d) = crc
    BY <1>1, ChecksumDecides
  <1>3. h \o d \in Seq(Byte) /\ h \o d \o <<crc>> \in Seq(Byte) /\ Len(h \o d) = 4 + Len(d)
    <2>1. h \o d \in Seq(Byte) /\ Len(h \o d) = Len(h) + Len(d)
      BY JoinType
    <2>2. <<crc>> \in Seq(Byte)
      OBVIOUS
    <2> QED
      BY <2>1, <2>2, JoinType
  <1>4. Len(h \o d \o <<crc>>) = 5 + Len(d) /\ Len(d) \in Nat
    <2> DEFINE u == h \o d
    <2>1. u \in Seq(Byte) /\ Len(u) = 4 + Len(d)
      BY <1>3
    <2> HIDE DEF u
    <2>2. Len(u \o <<crc>>) = Len(u) + 1
      BY <2>1
    <2>3. Len(d) \in Nat
      OBVIOUS
    <2>4. Len(u \o <<crc>>) = 5 + Len(d)
      BY <2>1, <2>2, <2>3
    <2> QED
      BY <2>3, <2>4 DEF u
  <1>5. (h \o d \o <<crc>>)[4] = Len(d)
    <2>1. <<crc>> \in Seq(Byte) /\ 4 \in 1..Len(h) /\ 4 \in 1..Len(h \o d)
      BY <1>3, <1>4
    <2>2. (h \o d)[4] = h[4]
      BY <2>1, FirstOfTwo
    <2> DEFINE u == h \o d
               t == <<crc>>
    <2>3. u \in Seq(Byte) /\ t \in Seq(Byte) /\ 4 \in 1..Len(u)
      BY <1>3, <2>1
    <2> HIDE DEF u, t
    <2>4. (u \o t)[4] = u[4]
      BY <2>3, FirstOfTwo
    <2> QED
      BY <2>2, <2>4 DEF u, t
  <1> QED
    BY <1>1, <1>2, <1>3, <1>4, <1>5 DEF g

\* It brings the sum of header, length and data to 0xff.
LEMMA ChecksumCompletes ==
  ASSUME NEW header \in Seq(Byte), NEW d \in Seq(Byte), Len(d) \in Byte
  PROVE  /\ Checksum(header, d) \in Byte
         /\ header \o <<Len(d)>> \o d \o <<Checksum(header, d)>> \in Seq(Byte)
         /\ SumBytes(header \o <<Len(d)>> \o d \o <<Checksum(header, d)>>) % 256 = 255
  <1>1. Checksum(header, d) \in Byte
    BY ChecksumDecides
  <1> QED
    BY <1>1, ChecksumDecides, SumOfFrame


-----------------------------------------------------------------------------
(* Decoding a received frame position by position: D[j] is the decoding of *)
(* the bytes frame[2], ..., frame[j].                                      *)

Run(D, frame, ue) ==
    /\ D[1] = Nothing
    /\ \A j \in 1..(Len(frame) - 1) : D[j + 1] = DestuffStep(ue, D[j], frame[j + 1])

\* the conditions ResponsesIn asks of the position e of the closing delimiter
ResponseAt(D, frame, limit, e) ==
    /\ e \in 7..Len(frame) /\ frame[1] = SHDLC_START /\ frame[e] = SHDLC_STOP
    /\ ~D[e - 1].esc
    /\ Len(D[e - 1].out) >= 5
    /\ D[e - 1].out[4] = Len(D[e - 1].out) - 5 /\ D[e - 1].out[4] <= limit
    /\ SumBytes(D[e - 1].out) % 256 = 255

\* An escape byte is kept back.
LEMMA RunEscape ==
  ASSUME NEW ue \in [Byte -> Byte], NEW frame \in Seq(Byte), NEW D, Run(D, frame, ue),
         NEW j \in 1..(Len(frame) - 1), D[j] \in Decoding, ~D[j].esc, frame[j + 1] = ESC
  PROVE  D[j + 1].esc /\ D[j + 1].out = D[j].out
  BY DEF Run, DestuffStep, Decoding

\* Every other byte is put out.
LEMMA RunEmit ==
  ASSUME NEW ue \in [Byte -> Byte], NEW frame \in Seq(Byte), NEW D, Run(D, frame, ue),
         NEW j \in 1..(Len(frame) - 1), D[j] \in Decoding, D[j].esc \/ frame[j + 1] # ESC
  PROVE  /\ ~D[j + 1].esc
         /\ Len(D[j + 1].out) = Len(D[j].out) + 1
         /\ D[j + 1].out = Append(D[j].out, IF D[j].esc THEN ue[frame[j + 1]] ELSE frame[j + 1])
  <1> DEFINE acc == D[j]
             b == frame[j + 1]
             c == IF acc.esc THEN ue[b] ELSE b
  <1>1. b \in Byte /\ acc.out \in Seq(Byte) /\ acc.esc \in BOOLEAN /\ acc \in Decoding
    BY DEF Decoding
  <1>2. c \in Byte
    BY <1>1
  <1>3. D[j + 1] = DestuffStep(ue, acc, b)
    BY DEF Run
  <1>4. acc.esc \/ b # ESC
    OBVIOUS
  <1> HIDE DEF b, acc
  <1>5. D[j + 1].out = Append(acc.out, c) /\ ~D[j + 1].esc
    BY <1>1, <1>3, <1>4 DEF DestuffStep, Decoding
  <1> HIDE DEF c
  <1>6. Len(Append(acc.out, c)) = Len(acc.out) + 1
    BY <1>1, <1>2
  <1> QED
    BY <1>5, <1>6 DEF acc, b, c

\* One more byte puts out nothing or one byte, and changes nothing put out.
LEMMA RunStep ==
  ASSUME NEW ue \in [Byte -> Byte], NEW frame \in Seq(Byte), NEW D, Run(D, frame, ue),
         NEW j \in 1..(Len(frame) - 1), D[j] \in Decoding
  PROVE  /\ D[j + 1] \in Decoding
         /\ Len(D[j].out) \in Nat /\ Len(D[j + 1].out) \in Nat
         /\ Len(D[j].out) <= Len(D[j + 1].out) /\ Len(D[j + 1].out) <= Len(D[j].out) + 1
         /\ \A k \in 1..Len(D[j].out) : D[j + 1].out[k] = D[j].out[k]
  <1> DEFINE new == D[j + 1]
             acc == D[j]
             b == frame[j + 1]
             c == IF acc.esc THEN ue[b] ELSE b
  <1>1. b \in Byte /\ new = DestuffStep(ue, acc, b) /\ acc \in Decoding
    BY DEF Run
  <1>2. acc.out \in Seq(Byte) /\ acc.esc \in BOOLEAN /\ Len(acc.out) \in Nat
    BY DEF Decoding
  <1>3. c \in Byte
    BY <1>1
  <1>4. CASE ~acc.esc /\ b = ESC
    <2>1. new.out = acc.out
      BY <1>4, RunEscape
    <2> QED
      BY <1>1, <1>2, <2>1, DestuffStepType
  <1>5. CASE acc.esc \/ b # ESC
    <2>1. new.out = Append(acc.out, c)
      BY <1>5, RunEmit
    <2>2. new \in Decoding
      BY <1>1, DestuffStepType
    <2> HIDE DEF c, acc, new
    <2>3. /\ Len(Append(acc.out, c)) = Len(acc.out) + 1
          /\ \A k \in 1..Len(acc.out) : Append(acc.out, c)[k] = acc.out[k]
      BY <1>2, <1>3
    <2>4. /\ Len(acc.out) <= Len(new.out) /\ Len(new.out) <= Len(acc.out) + 1
          /\ Len(new.out) \in Nat
      BY <1>2, <2>1, <2>3
    <2>5. \A k \in 1..Len(acc.out) : new.out[k] = acc.out[k]
      BY <2>1, <2>3
    <2> QED
      BY <1>2, <2>2, <2>4, <2>5 DEF acc, new
  <1> QED
    BY <1>2, <1>4, <1>5

\* What a run has put out stays, and grows by at most one byte per position.
LEMMA RunGrows ==
  ASSUME NEW ue \in [Byte -> Byte], NEW frame \in Seq(Byte), NEW D, Run(D, frame, ue),
         NEW p \in 1..Len(frame), D[p] \in Decoding, NEW q \in p..Len(frame)
  PROVE  /\ D[q] \in Decoding
         /\ Len(D[p].out) \in Nat /\ Len(D[q].out) \in Nat
         /\ Len(D[p].out) <= Len(D[q].out)
         /\ Len(D[q].out) <= Len(D[p].out) + (q - p)
         /\ \A k \in 1..Len(D[p].out) : D[q].out[k] = D[p].out[k]
  <1> DEFINE size(j) == Len(D[j].out)
             Kept(j) == \A k \in 1..size(p) : D[j].out[k] = D[p].out[k]
             Grown(j) == /\ D[j] \in Decoding /\ size(j) \in Nat
                         /\ size(p) <= size(j) /\ size(j) <= size(p) + (j - p)
                         /\ Kept(j)
             S == {n \in Nat : p + n <= Len(frame) => Grown(p + n)}
  <1>0. size(p) \in Nat /\ p \in Nat /\ Len(frame) \in Nat
    BY DEF Decoding
  <1>1. 0 \in S
    BY <1>0
  <1>2. ASSUME NEW n \in Nat, n \in S PROVE n + 1 \in S
    <2> SUFFICES ASSUME p + (n + 1) <= Len(frame) PROVE Grown(p + (n + 1))
      OBVIOUS
    <2> DEFINE j == p + n
    <2>1. j \in 1..(Len(frame) - 1) /\ p + (n + 1) = j + 1 /\ p + n <= Len(frame) /\ j \in Nat
      BY <1>0
    <2>2. Grown(j)
      BY <1>2, <2>1
    <2> HIDE DEF j
    <2>3. /\ D[j + 1] \in Decoding /\ size(j + 1) \in Nat
          /\ size(j) <= size(j + 1) /\ size(j + 1) <= size(j) + 1
          /\ \A k \in 1..size(j) : D[j + 1].out[k] = D[j].out[k]
      <3>1. D[j] \in Decoding
        BY <2>2
      <3> HIDE DEF Grown, S
      <3> QED
        BY <2>1, <3>1, RunStep
    <2>4. Kept(j + 1)
      <3>1. Kept(j) /\ size(j) \in Nat /\ size(p) <= size(j)
        BY <2>2
      <3>2. \A k \in 1..size(p) : k \in 1..size(j)
        <4> HIDE DEF size
        <4> QED
          BY <1>0, <3>1
      <3> HIDE DEF size
      <3> QED
        BY <2>3, <3>1, <3>2
    <2>5. size(p) <= size(j + 1) /\ size(j + 1) <= size(p) + ((j + 1) - p)
      <3>1. size(j) \in Nat /\ size(p) <= size(j) /\ size(j) <= size(p) + (j - p)
        BY <2>2
      <3> HIDE DEF size
      <3> QED
        BY <1>0, <2>1, <2>3, <3>1
    <2> QED
      BY <2>1, <2>3, <2>4, <2>5
  <1> HIDE DEF S
  <1>3. q - p \in S
    BY <1>1, <1>2, NatSetInduction
  <1>4. p + (q - p) = q /\ p + (q - p) <= Len(frame)
    BY <1>0
  <1>5. Grown(p + (q - p))
    BY <1>3, <1>4 DEF S
  <1> HIDE DEF Grown
  <1>6. Grown(q)
    BY <1>4, <1>5
  <1> QED
    BY <1>0, <1>6 DEF Grown


\* A run decodes bytes to bytes.
LEMMA RunType ==
  ASSUME NEW ue \in [Byte -> Byte], NEW frame \in Seq(Byte), NEW D, Run(D, frame, ue),
         NEW q \in 1..Len(frame)
  PROVE  D[q] \in Decoding /\ Len(D[q].out) \in Nat /\ Len(D[q].out) <= q - 1
  <1>1. D[1] \in Decoding /\ D[1].out = <<>> /\ 1 \in 1..Len(frame) /\ q \in Nat
        /\ q \in 1..Len(frame)
    BY DEF Run, Nothing, Decoding
  <1>2. D[q] \in Decoding /\ Len(D[q].out) \in Nat /\ Len(D[q].out) <= Len(D[1].out) + (q - 1)
    BY <1>1, RunGrows
  <1>3. Len(D[1].out) = 0
    BY <1>1
  <1> QED
    BY <1>1, <1>2, <1>3

\* A run without a pending escape at two positions puts out a byte between them.
LEMMA NoMoreAfter ==
  ASSUME NEW ue \in [Byte -> Byte], NEW frame \in Seq(Byte), NEW D, Run(D, frame, ue),
         NEW p \in 1..Len(frame), D[p] \in Decoding, ~D[p].esc,
         NEW q \in p..Len(frame), ~D[q].esc, Len(D[q].out) = Len(D[p].out)
  PROVE  q = p
  <1> SUFFICES ASSUME q # p PROVE FALSE
    OBVIOUS
  <1> DEFINE size(j) == Len(D[j].out)
  <1>1. size(p) \in Nat /\ p \in Nat /\ q \in Nat /\ Len(frame) \in Nat
        /\ p <= q /\ q <= Len(frame) /\ size(q) = size(p)
    BY DEF Decoding
  <1>2. p \in 1..(Len(frame) - 1) /\ p + 1 \in 1..Len(frame) /\ q \in (p + 1)..Len(frame)
    BY <1>1
  <1>3. D[p + 1] \in Decoding /\ size(p + 1) \in Nat
    BY <1>2, RunStep
  <1>4. size(p + 1) <= size(q)
    BY <1>2, <1>3, RunGrows
  <1>5. frame[p + 1] = ESC
    <2> SUFFICES ASSUME frame[p + 1] # ESC PROVE FALSE
      OBVIOUS
    <2>1. size(p + 1) = size(p) + 1
      BY <1>2, RunEmit
    <2> HIDE DEF size
    <2> QED
      BY <1>1, <1>3, <1>4, <2>1
  <1>6. D[p + 1].esc /\ D[p + 1].out = D[p].out
    BY <1>2, <1>5, RunEscape
  <1>7. p + 1 \in 1..(Len(frame) - 1) /\ p + 2 \in 1..Len(frame) /\ (p + 1) + 1 = p + 2
        /\ q \in (p + 2)..Len(frame)
    <2>1. q # p + 1
      BY <1>6
    <2> QED
      BY <1>1, <1>2, <2>1
  <1>8. D[p + 2] \in Decoding /\ size(p + 2) \in Nat
    BY <1>3, <1>7, RunStep
  <1>9. size(p + 2) = size(p + 1) + 1
    BY <1>3, <1>6, <1>7, RunEmit
  <1>10. size(p + 2) <= size(q)
    BY <1>7, <1>8, RunGrows
  <1>11. size(p + 1) = size(p)
    BY <1>6
  <1> HIDE DEF size
  <1> QED
    BY <1>1, <1>8, <1>9, <1>10, <1>11

\* The part of it about one byte.
LEMMA RunKeeps ==
  ASSUME NEW ue \in [Byte -> Byte], NEW frame \in Seq(Byte), NEW D, Run(D, frame, ue),
         NEW p \in 1..Len(frame), D[p] \in Decoding, NEW q \in p..Len(frame),
         NEW k \in 1..Len(D[p].out)
  PROVE  D[q].out[k] = D[p].out[k]
  BY RunGrows

\* Of two positions, the decoding of the earlier one begins that of the later.
LEMMA RunsAgree ==
  ASSUME NEW ue \in [Byte -> Byte], NEW frame \in Seq(Byte), NEW D, Run(D, frame, ue),
         NEW p \in 1..Len(frame), NEW q \in 1..Len(frame),
         NEW k \in Nat, k >= 1, k <= Len(D[p].out), k <= Len(D[q].out)
  PROVE  D[p].out[k] = D[q].out[k]
  <1>1. ASSUME NEW m \in 1..Len(frame), NEW n \in 1..Len(frame), m <= n, k <= Len(D[m].out)
        PROVE  D[n].out[k] = D[m].out[k]
    <2>1. D[m] \in Decoding /\ Len(D[m].out) \in Nat /\ n \in m..Len(frame)
      BY <1>1, RunType
    <2>2. k \in 1..Len(D[m].out)
      BY <1>1, <2>1
    <2> QED
      BY <2>1, <2>2, RunKeeps
  <1>2. p <= q \/ q <= p
    OBVIOUS
  <1> QED
    BY <1>1, <1>2

\* A response can end only behind the position that completes its checksum: the
\* bytes after it would make the response longer than it says.
LEMMA OnlyEnd ==
  ASSUME NEW ue \in [Byte -> Byte], NEW frame \in Seq(Byte), NEW D, Run(D, frame, ue),
         NEW q \in 1..Len(frame), ~D[q].esc, Len(D[q].out) >= 5,
         D[q].out[4] = Len(D[q].out) - 5,
         NEW limit, NEW e, ResponseAt(D, frame, limit, e)
  PROVE  e = q + 1
  <1> DEFINE p == e - 1
             size(j) == Len(D[j].out)
  <1>1. e \in 7..Len(frame) /\ ~D[p].esc /\ size(p) >= 5 /\ D[p].out[4] = size(p) - 5
    BY DEF ResponseAt
  <1>2. p \in 1..Len(frame) /\ p \in Nat /\ q \in Nat /\ e = p + 1
    BY <1>1
  <1> HIDE DEF p
  <1>3. D[p] \in Decoding /\ D[q] \in Decoding /\ size(p) \in Nat /\ size(q) \in Nat
    BY <1>2, RunType
  <1>4. D[p].out[4] = D[q].out[4]
    <2>1. 4 <= size(p) /\ 4 <= size(q)
      BY <1>1, <1>3
    <2> QED
      BY <1>2, <2>1, RunsAgree
  <1>5. size(p) = size(q)
    BY <1>1, <1>3, <1>4
  <1>6. CASE p <= q
    <2>1. q \in p..Len(frame)
      BY <1>2, <1>6
    <2> QED
      BY <1>1, <1>2, <1>3, <1>5, <2>1, NoMoreAfter
  <1>7. CASE q <= p
    <2>1. p \in q..Len(frame)
      BY <1>2, <1>7
    <2> QED
      BY <1>1, <1>2, <1>3, <1>5, <2>1, NoMoreAfter
  <1> QED
    BY <1>2, <1>6, <1>7

\* So a frame holds at most one response.
LEMMA OnlyResponse ==
  ASSUME NEW ue \in [Byte -> Byte], NEW frame \in Seq(Byte), NEW D, Run(D, frame, ue),
         NEW limit, NEW e, NEW f, ResponseAt(D, frame, limit, e), ResponseAt(D, frame, limit, f)
  PROVE  e = f
  <1>1. e \in 7..Len(frame) /\ f \in 7..Len(frame)
    BY DEF ResponseAt
  <1>2. f - 1 \in 1..Len(frame) /\ (f - 1) + 1 = f
    BY <1>1
  <1>3. /\ ~D[f - 1].esc /\ Len(D[f - 1].out) >= 5
        /\ D[f - 1].out[4] = Len(D[f - 1].out) - 5
    BY DEF ResponseAt
  <1> QED
    BY <1>2, <1>3, OnlyEnd

\* Where a response ends, at least its length has been put out, and not more
\* than one byte after the last position but two.
LEMMA EndIsNear ==
  ASSUME NEW ue \in [Byte -> Byte], NEW frame \in Seq(Byte), NEW D, Run(D, frame, ue),
         NEW p \in 1..Len(frame), p >= Len(frame) - 2,
         NEW limit, NEW e, ResponseAt(D, frame, limit, e)
  PROVE  Len(D[e - 1].out) <= Len(D[p].out) + 1
  <1> DEFINE q == e - 1
             size(j) == Len(D[j].out)
  <1>1. q \in 1..Len(frame) /\ q <= Len(frame) - 1 /\ q \in Nat /\ p \in Nat /\ Len(frame) \in Nat
    BY DEF ResponseAt
  <1> HIDE DEF q
  <1>2. D[p] \in Decoding /\ D[q] \in Decoding /\ size(p) \in Nat /\ size(q) \in Nat
    BY <1>1, RunType
  <1>3. CASE p <= q
    <2>1. q \in p..Len(frame)
      BY <1>1, <1>3
    <2>2. size(q) <= size(p) + (q - p)
      BY <1>1, <1>2, <2>1, RunGrows
    <2> HIDE DEF size
    <2>3. size(q) <= size(p) + 1
      BY <1>1, <1>2, <2>2
    <2> QED
      BY <2>3 DEF size, q
  <1>4. CASE q <= p
    <2>1. p \in q..Len(frame)
      BY <1>1, <1>4
    <2>2. size(q) <= size(p)
      BY <1>1, <1>2, <2>1, RunGrows
    <2> HIDE DEF size
    <2>3. size(q) <= size(p) + 1
      BY <1>1, <1>2, <2>2
    <2> QED
      BY <2>3 DEF size, q
  <1> QED
    BY <1>1, <1>3, <1>4

\* A frame that stops inside its header is no response.
LEMMA CutHeader ==
  ASSUME NEW ue \in [Byte -> Byte], NEW frame \in Seq(Byte), NEW D, Run(D, frame, ue),
         NEW p \in 1..Len(frame), p >= Len(frame) - 2, Len(D[p].out) < 4,
         NEW limit, NEW e
  PROVE  ~ResponseAt(D, frame, limit, e)
  <1> SUFFICES ASSUME ResponseAt(D, frame, limit, e) PROVE FALSE
    OBVIOUS
  <1>1. Len(D[e - 1].out) <= Len(D[p].out) + 1
    BY EndIsNear
  <1>2. e - 1 \in 1..Len(frame) /\ Len(D[e - 1].out) >= 5
    BY DEF ResponseAt
  <1>3. Len(D[e - 1].out) \in Nat /\ Len(D[p].out) \in Nat
    BY <1>2, RunType
  <1> QED
    BY <1>1, <1>2, <1>3

\* A frame that stops inside its data is no response.
LEMMA CutData ==
  ASSUME NEW ue \in [Byte -> Byte], NEW frame \in Seq(Byte), NEW D, Run(D, frame, ue),
         NEW p \in 1..Len(frame), p >= Len(frame) - 2,
         Len(D[p].out) >= 4, D[p].out[4] \in Nat, Len(D[p].out) < 4 + D[p].out[4],
         NEW limit, NEW e
  PROVE  ~ResponseAt(D, frame, limit, e)
  <1> SUFFICES ASSUME ResponseAt(D, frame, limit, e) PROVE FALSE
    OBVIOUS
  <1>1. Len(D[e - 1].out) <= Len(D[p].out) + 1
    BY EndIsNear
  <1>2. /\ e - 1 \in 1..Len(frame) /\ Len(D[e - 1].out) >= 5
        /\ D[e - 1].out[4] = Len(D[e - 1].out) - 5
    BY DEF ResponseAt
  <1>3. Len(D[e - 1].out) \in Nat /\ Len(D[p].out) \in Nat
    BY <1>2, RunType
  <1>4. D[e - 1].out[4] = D[p].out[4]
    <2>1. 4 <= Len(D[e - 1].out) /\ 4 <= Len(D[p].out)
      BY <1>2, <1>3
    <2> QED
      BY <1>2, <2>1, RunsAgree, SMTT(40)
  <1> DEFINE a == Len(D[e - 1].out)
             b == Len(D[p].out)
             n == D[p].out[4]
  <1>5. a \in Nat /\ b \in Nat /\ n \in Nat /\ a <= b + 1 /\ b < 4 + n /\ n = a - 5
    BY <1>1, <1>2, <1>3, <1>4
  <1> HIDE DEF a, b, n
  <1> QED
    BY <1>5

\* Data without its checksum at the end of the frame is no response's.
LEMMA CutTail ==
  ASSUME NEW ue \in [Byte -> Byte], NEW frame \in Seq(Byte), NEW D, Run(D, frame, ue),
         NEW p \in 1..Len(frame), p >= Len(frame),
         Len(D[p].out) >= 4, D[p].out[4] \in Nat, Len(D[p].out) < 5 + D[p].out[4],
         NEW limit, NEW e
  PROVE  ~ResponseAt(D, frame, limit, e)
  <1> SUFFICES ASSUME ResponseAt(D, frame, limit, e) PROVE FALSE
    OBVIOUS
  <1> DEFINE q == e - 1
  <1>1. /\ p \in 1..Len(frame) /\ q \in 1..Len(frame) /\ p \in q..Len(frame)
        /\ Len(D[q].out) >= 5 /\ D[q].out[4] = Len(D[q].out) - 5
    BY DEF ResponseAt
  <1> HIDE DEF q
  <1>2. D[q] \in Decoding /\ Len(D[q].out) \in Nat /\ Len(D[p].out) \in Nat
    BY <1>1, RunType
  <1>3. Len(D[q].out) <= Len(D[p].out)
    BY <1>1, <1>2, RunGrows
  <1>4. D[q].out[4] = D[p].out[4]
    <2>1. 4 \in 1..Len(D[q].out) /\ 4 \in 1..Len(D[p].out)
      BY <1>1, <1>2
    <2> QED
      BY <1>1, <1>2, <2>1, RunKeeps
  <1> DEFINE a == Len(D[q].out)
             b == Len(D[p].out)
             n == D[p].out[4]
  <1>5. a \in Nat /\ b \in Nat /\ n \in Nat /\ a <= b /\ b < 5 + n /\ n = a - 5
    BY <1>1, <1>2, <1>3, <1>4
  <1> HIDE DEF a, b, n
  <1> QED
    BY <1>5

\* A frame that announces more data than the limit is no response.
LEMMA OverLimit ==
  ASSUME NEW ue \in [Byte -> Byte], NEW frame \in Seq(Byte), NEW D, Run(D, frame, ue),
         NEW p \in 1..Len(frame), Len(D[p].out) >= 4, D[p].out[4] \in Nat,
         NEW limit \in Nat, limit < D[p].out[4], NEW e
  PROVE  ~ResponseAt(D, frame, limit, e)
  <1> SUFFICES ASSUME ResponseAt(D, frame, limit, e) PROVE FALSE
    OBVIOUS
  <1>1. /\ e - 1 \in 1..Len(frame) /\ Len(D[e - 1].out) >= 5
        /\ D[e - 1].out[4] <= limit
    BY DEF ResponseAt
  <1>2. Len(D[e - 1].out) \in Nat /\ Len(D[p].out) \in Nat
    BY <1>1, RunType
  <1>3. D[e - 1].out[4] = D[p].out[4]
    <2>1. 4 <= Len(D[e - 1].out) /\ 4 <= Len(D[p].out)
      BY <1>1, <1>2
    <2> QED
      BY <1>1, <2>1, RunsAgree
  <1> QED
    BY <1>1, <1>3

\* What is decoded of the first parts of a frame by sensirion_shdlc_rx.
TableDecoding(frame) == [j \in 1..Len(frame) |-> Destuff(UnstuffByte, SubSeq(frame, 2, j))]

\* The decodings of the first parts of a frame by UnstuffByte are a run.
LEMMA TableRun ==
  ASSUME NEW frame \in Seq(Byte), frame # <<>>
  PROVE  Run(TableDecoding(frame), frame, Table)
  <1> DEFINE D == TableDecoding(frame)
             part(j) == SubSeq(frame, 2, j)
  <1>1. Len(frame) \in Nat /\ 1 \in 1..Len(frame)
    OBVIOUS
  <1>2. D[1] = Nothing
    <2>1. part(1) = <<>>
      OBVIOUS
    <2>2. D[1] = Destuff(UnstuffByte, part(1))
      BY <1>1 DEF TableDecoding
    <2> HIDE DEF part, D
    <2> QED
      BY <2>1, <2>2, TableSteps
  <1>3. ASSUME NEW j \in 1..(Len(frame) - 1)
        PROVE  D[j + 1] = DestuffStep(Table, D[j], frame[j + 1])
    <2>1. j \in 1..Len(frame) /\ j + 1 \in 1..Len(frame)
      BY <1>1
    <2>2. part(j) \in Seq(Byte) /\ frame[j + 1] \in Byte
      BY <2>1
    <2>3. part(j + 1) = Append(part(j), frame[j + 1])
      BY <1>1, <2>1
    <2>4. D[j] = Destuff(UnstuffByte, part(j)) /\ D[j + 1] = Destuff(UnstuffByte, part(j + 1))
      BY <2>1 DEF TableDecoding
    <2> HIDE DEF part, D
    <2> QED
      BY <2>2, <2>3, <2>4, TableSteps
  <1> HIDE DEF D
  <1> QED
    BY <1>2, <1>3 DEF Run, D

\* A frame is a response exactly when one of its bytes can close one.
LEMMA TableResponse ==
  ASSUME NEW frame \in Seq(Byte), NEW limit
  PROVE  IsResponse(UnstuffByte, frame, limit)
           <=> \E e : ResponseAt(TableDecoding(frame), frame, limit, e)
  <1> DEFINE D == TableDecoding(frame)
             ends == {k \in 7..Len(frame) : frame[1] = SHDLC_START /\ frame[k] = SHDLC_STOP}
             Good(u) == /\ ~u.esc /\ Len(u.out) >= 5
                        /\ u.out[4] = Len(u.out) - 5 /\ u.out[4] <= limit
                        /\ SumBytes(u.out) % 256 = 255
  <1>1. ASSUME NEW e \in ends PROVE D[e - 1] = Destuff(UnstuffByte, SubSeq(frame, 2, e - 1))
    <2>1. e - 1 \in 1..Len(frame)
      OBVIOUS
    <2> HIDE DEF ends
    <2> QED
      BY <2>1 DEF TableDecoding
  <1>2. IsResponse(UnstuffByte, frame, limit)
          <=> \E e \in ends : Good(Destuff(UnstuffByte, SubSeq(frame, 2, e - 1)))
    <2> DEFINE dec(e) == Destuff(UnstuffByte, SubSeq(frame, 2, e - 1))
               Fits(b) == /\ Len(b) >= 5 /\ b[4] = Len(b) - 5 /\ b[4] <= limit
                          /\ SumBytes(b) % 256 = 255
               R == {b \in {u.out : u \in {v \in {dec(e) : e \in ends} : ~v.esc}} : Fits(b)}
    <2>1. IsResponse(UnstuffByte, frame, limit) <=> R # {}
      BY Zenon DEF IsResponse, ResponsesIn
    <2> HIDE DEF dec, ends, Fits, D
    <2>2. R # {} <=> \E e \in ends : ~dec(e).esc /\ Fits(dec(e).out)
      <3>1. ASSUME R # {} PROVE \E e \in ends : ~dec(e).esc /\ Fits(dec(e).out)
        BY <3>1, Zenon
      <3>2. ASSUME NEW e \in ends, ~dec(e).esc, Fits(dec(e).out) PROVE R # {}
        <4>1. dec(e).out \in R
          BY <3>2
        <4> QED
          BY <4>1
      <3> QED
        BY <3>1, <3>2
    <2> QED
      BY <2>1, <2>2 DEF dec, Fits
  <1>3. ASSUME NEW e PROVE ResponseAt(D, frame, limit, e) <=> e \in ends /\ Good(D[e - 1])
    <2> HIDE DEF D
    <2> QED
      BY DEF ResponseAt
  <1> HIDE DEF D, ends, Good
  <1> QED
    BY <1>1, <1>2, <1>3 DEF D

\* What is decoded of the first parts of a frame by sensirion_shdlc_rx_inplace.
FlipDecoding(frame) == [j \in 1..Len(frame) |-> Destuff(FlipBit5, SubSeq(frame, 2, j))]

\* The decodings of the first parts of a frame by FlipBit5 are a run.
LEMMA FlipRun ==
  ASSUME NEW frame \in Seq(Byte), frame # <<>>
  PROVE  Run(FlipDecoding(frame), frame, Flip)
  <1> DEFINE D == FlipDecoding(frame)
             part(j) == SubSeq(frame, 2, j)
  <1>1. Len(frame) \in Nat /\ 1 \in 1..Len(frame)
    OBVIOUS
  <1>2. D[1] = Nothing
    <2>1. part(1) = <<>>
      OBVIOUS
    <2>2. D[1] = Destuff(FlipBit5, part(1))
      BY <1>1 DEF FlipDecoding
    <2> HIDE DEF part, D
    <2> QED
      BY <2>1, <2>2, FlipSteps
  <1>3. ASSUME NEW j \in 1..(Len(frame) - 1)
        PROVE  D[j + 1] = DestuffStep(Flip, D[j], frame[j + 1])
    <2>1. j \in 1..Len(frame) /\ j + 1 \in 1..Len(frame)
      BY <1>1
    <2>2. part(j) \in Seq(Byte) /\ frame[j + 1] \in Byte
      BY <2>1
    <2>3. part(j + 1) = Append(part(j), frame[j + 1])
      BY <1>1, <2>1
    <2>4. D[j] = Destuff(FlipBit5, part(j)) /\ D[j + 1] = Destuff(FlipBit5, part(j + 1))
      BY <2>1 DEF FlipDecoding
    <2> HIDE DEF part, D
    <2> QED
      BY <2>2, <2>3, <2>4, FlipSteps
  <1> HIDE DEF D
  <1> QED
    BY <1>2, <1>3 DEF Run, D

\* A frame is a response exactly when one of its bytes can close one.
LEMMA FlipResponse ==
  ASSUME NEW frame \in Seq(Byte), NEW limit
  PROVE  IsResponse(FlipBit5, frame, limit)
           <=> \E e : ResponseAt(FlipDecoding(frame), frame, limit, e)
  <1> DEFINE D == FlipDecoding(frame)
             ends == {k \in 7..Len(frame) : frame[1] = SHDLC_START /\ frame[k] = SHDLC_STOP}
             Good(u) == /\ ~u.esc /\ Len(u.out) >= 5
                        /\ u.out[4] = Len(u.out) - 5 /\ u.out[4] <= limit
                        /\ SumBytes(u.out) % 256 = 255
  <1>1. ASSUME NEW e \in ends PROVE D[e - 1] = Destuff(FlipBit5, SubSeq(frame, 2, e - 1))
    <2>1. e - 1 \in 1..Len(frame)
      OBVIOUS
    <2> HIDE DEF ends
    <2> QED
      BY <2>1 DEF FlipDecoding
  <1>2. IsResponse(FlipBit5, frame, limit)
          <=> \E e \in ends : Good(Destuff(FlipBit5, SubSeq(frame, 2, e - 1)))
    <2> DEFINE dec(e) == Destuff(FlipBit5, SubSeq(frame, 2, e - 1))
               Fits(b) == /\ Len(b) >= 5 /\ b[4] = Len(b) - 5 /\ b[4] <= limit
                          /\ SumBytes(b) % 256 = 255
               R == {b \in {u.out : u \in {v \in {dec(e) : e \in ends} : ~v.esc}} : Fits(b)}
    <2>1. IsResponse(FlipBit5, frame, limit) <=> R # {}
      BY Zenon DEF IsResponse, ResponsesIn
    <2> HIDE DEF dec, ends, Fits, D
    <2>2. R # {} <=> \E e \in ends : ~dec(e).esc /\ Fits(dec(e).out)
      <3>1. ASSUME R # {} PROVE \E e \in ends : ~dec(e).esc /\ Fits(dec(e).out)
        BY <3>1, Zenon
      <3>2. ASSUME NEW e \in ends, ~dec(e).esc, Fits(dec(e).out) PROVE R # {}
        <4>1. dec(e).out \in R
          BY <3>2
        <4> QED
          BY <4>1
      <3> QED
        BY <3>1, <3>2
    <2> QED
      BY <2>1, <2>2 DEF dec, Fits
  <1>3. ASSUME NEW e PROVE ResponseAt(D, frame, limit, e) <=> e \in ends /\ Good(D[e - 1])
    <2> HIDE DEF D
    <2> QED
      BY DEF ResponseAt
  <1> HIDE DEF D, ends, Good
  <1> QED
    BY <1>1, <1>2, <1>3 DEF D

\* The parts of a frame around the stuffed bytes m.
LEMMA FrameParts ==
  ASSUME NEW m \in Seq(Byte), NEW f, f = <<SHDLC_START>> \o m \o <<SHDLC_STOP>>
  PROVE  /\ f \in Seq(Byte) /\ Len(f) = Len(m) + 2
         /\ f[1] = SHDLC_START /\ f[Len(f)] = SHDLC_STOP
         /\ \A k \in 2..(Len(f) - 1) : k - 1 \in 1..Len(m) /\ f[k] = m[k - 1]
         /\ SubSeq(f, 2, Len(f) - 1) = m
  <1>1. SHDLC_START \in Byte /\ SHDLC_STOP \in Byte
    BY DEF SHDLC_START, SHDLC_STOP, Byte
  <1>2. f \in Seq(Byte) /\ Len(f) = Len(m) + 2
    BY <1>1
  <1>3. f[1] = SHDLC_START /\ f[Len(f)] = SHDLC_STOP
    BY <1>1, <1>2
  <1>4. ASSUME NEW k \in 2..(Len(f) - 1) PROVE k - 1 \in 1..Len(m) /\ f[k] = m[k - 1]
    BY <1>1, <1>2
  <1>5. SubSeq(f, 2, Len(f) - 1) = m
    <2> DEFINE u == SubSeq(f, 2, Len(f) - 1)
    <2>1. u \in Seq(Byte) /\ Len(u) = Len(m)
      BY <1>2
    <2>2. \A k \in 1..Len(m) : u[k] = m[k]
      BY <1>2, <1>4
    <2> HIDE DEF u
    <2>3. u = m
      BY <2>1, <2>2, SMTT(40)
    <2> QED
      BY <2>3 DEF u
  <1> QED
    BY <1>2, <1>3, <1>4, <1>5


\* Stuffing at most doubles the number of bytes.
LEMMA StuffedLength ==
  ASSUME NEW s \in Seq(Byte)
  PROVE  Len(StuffData(s)) <= 2 * Len(s)
  <1> DEFINE T == {u \in Seq(Byte) : Len(StuffData(u)) <= 2 * Len(u)}
  <1>1. <<>> \in T
    BY StuffingSteps
  <1>2. ASSUME NEW u \in Seq(Byte), u \in T, NEW b \in Byte PROVE Append(u, b) \in T
    <2>1. StuffData(Append(u, b)) = StuffData(u) \o StuffByte(b)
      BY StuffingSteps
    <2>2. StuffData(u) \in Seq(Byte) /\ StuffByte(b) \in Seq(Byte)
      BY StuffedIsTransparent, StuffByteType
    <2>3. Len(StuffByte(b)) <= 2
      BY DEF StuffByte
    <2>4. Len(StuffData(u)) <= 2 * Len(u)
      BY <1>2
    <2>5. Append(u, b) \in Seq(Byte) /\ Len(Append(u, b)) = Len(u) + 1
      OBVIOUS
    <2>6. Len(StuffData(u) \o StuffByte(b)) = Len(StuffData(u)) + Len(StuffByte(b))
      BY <2>2
    <2>7. Len(StuffData(Append(u, b))) <= 2 * Len(Append(u, b))
      BY <2>1, <2>2, <2>3, <2>4, <2>5, <2>6
    <2> QED
      BY <2>5, <2>7
  <1>3. Seq(Byte) \subseteq T
    <2> HIDE DEF T
    <2> QED
      BY <1>1, <1>2, SequenceInduction
  <1> QED
    BY <1>3

\* the bytes of a response before stuffing
Content(r) ==
    <<r.addr, r.cmd, r.state, Len(r.data)>>
      \o r.data \o <<Checksum(<<r.addr, r.cmd, r.state>>, r.data)>>

\* A response is its content, stuffed, between delimiters; the content adds up
\* to 0xff and says its own length.
LEMMA ResponseParts ==
  ASSUME NEW r, IsAnswer(r)
  PROVE  /\ Content(r) \in Seq(Byte)
         /\ Len(Content(r)) = 5 + Len(r.data) /\ Content(r)[4] = Len(r.data)
         /\ SumBytes(Content(r)) % 256 = 255
         /\ Response(r) = <<SHDLC_START>> \o StuffData(Content(r)) \o <<SHDLC_STOP>>
  <1> DEFINE h == <<r.addr, r.cmd, r.state>>
             d == r.data
             c == Checksum(h, d)
  <1>1. /\ h \in Seq(Byte) /\ d \in Seq(Byte) /\ Len(d) \in Byte
        /\ r.addr \in Byte /\ r.cmd \in Byte /\ r.state \in Byte
    BY DEF IsAnswer
  <1>2. /\ c \in Byte /\ h \o <<Len(d)>> \o d \o <<c>> \in Seq(Byte)
        /\ SumBytes(h \o <<Len(d)>> \o d \o <<c>>) % 256 = 255
    <2> HIDE DEF h, d
    <2> QED
      BY <1>1, ChecksumCompletes
  <1>3. Response(r) = <<SHDLC_START>> \o StuffData(h \o <<Len(d)>> \o d \o <<c>>) \o <<SHDLC_STOP>>
    BY DEF Response, Frame
  <1> HIDE DEF c, d
  <1>4. /\ Content(r) = h \o <<Len(d)>> \o d \o <<c>>
        /\ Len(Content(r)) = 5 + Len(d) /\ Content(r)[4] = Len(d)
    <2>1. Content(r) = <<r.addr, r.cmd, r.state, Len(d)>> \o d \o <<c>>
      BY DEF Content, c, d
    <2> DEFINE g == <<r.addr, r.cmd, r.state, Len(d)>>
    <2>2. g \in Seq(Byte) /\ g = h \o <<Len(d)>> /\ Len(g) = 4 /\ g[4] = Len(d)
      BY <1>1
    <2> HIDE DEF g
    <2>3. /\ Len(g \o d \o <<c>>) = 5 + Len(d) /\ (g \o d \o <<c>>)[4] = g[4]
      BY <1>1, <1>2, <2>2
    <2>4. Content(r) = g \o d \o <<c>>
      BY <2>1 DEF g
    <2> QED
      BY <2>2, <2>3, <2>4
  <1> QED
    BY <1>2, <1>3, <1>4 DEF d

\* It fits into what the receivers ask for.
LEMMA ResponseLength ==
  ASSUME NEW r, IsAnswer(r), NEW limit \in Nat, Len(r.data) <= limit
  PROVE  Response(r) \in Seq(Byte) /\ Len(Response(r)) <= RxRequest(limit)
  <1> DEFINE m == StuffData(Content(r))
  <1>1. /\ Content(r) \in Seq(Byte) /\ Len(Content(r)) = 5 + Len(r.data)
        /\ Response(r) = <<SHDLC_START>> \o m \o <<SHDLC_STOP>>
    BY ResponseParts
  <1>2. m \in Seq(Byte) /\ Len(m) <= 2 * Len(Content(r))
    BY <1>1, StuffedLength, StuffedIsTransparent
  <1>3. Len(r.data) \in Nat
    BY DEF IsAnswer
  <1> HIDE DEF m
  <1>4. Response(r) \in Seq(Byte) /\ Len(Response(r)) = Len(m) + 2
    BY <1>1, <1>2, FrameParts
  <1> QED
    BY <1>1, <1>2, <1>3, <1>4 DEF RxRequest

\* The bytes between the delimiters of what begins with a response.
LEMMA ResponseBody ==
  ASSUME NEW r, IsAnswer(r), NEW frame \in Seq(Byte), IsPrefix(Response(r), frame),
         NEW e, e = Len(Response(r))
  PROVE  /\ e \in 2..Len(frame) /\ frame[1] = SHDLC_START /\ frame[e] = SHDLC_STOP
         /\ SubSeq(frame, 2, e - 1) = StuffData(Content(r))
  <1> DEFINE m == StuffData(Content(r))
             f == Response(r)
  <1>1. Content(r) \in Seq(Byte) /\ f = <<SHDLC_START>> \o m \o <<SHDLC_STOP>>
    BY ResponseParts
  <1>2. m \in Seq(Byte)
    BY <1>1, StuffedIsTransparent
  <1> HIDE DEF m, f
  <1>3. /\ f \in Seq(Byte) /\ Len(f) = Len(m) + 2
        /\ f[1] = SHDLC_START /\ f[Len(f)] = SHDLC_STOP
        /\ \A k \in 2..(Len(f) - 1) : k - 1 \in 1..Len(m) /\ f[k] = m[k - 1]
        /\ SubSeq(f, 2, Len(f) - 1) = m
    BY <1>1, <1>2, FrameParts
  <1>4. e = Len(f) /\ e \in Nat /\ e >= 2 /\ e <= Len(frame)
        /\ SubSeq(f, 1, e) = SubSeq(frame, 1, e)
    BY <1>2, <1>3 DEF IsPrefix, f
  <1>5. \A k \in 1..e : frame[k] = f[k]
    <2>1. \A k \in 1..e : SubSeq(f, 1, e)[k] = f[k] /\ SubSeq(frame, 1, e)[k] = frame[k]
      BY <1>3, <1>4
    <2> QED
      BY <1>4, <2>1
  <1>6. SubSeq(frame, 2, e - 1) = m
    <2> DEFINE u == SubSeq(frame, 2, e - 1)
    <2>1. u \in Seq(Byte) /\ Len(u) = Len(m)
      BY <1>2, <1>3, <1>4
    <2>2. \A k \in 1..Len(m) : u[k] = m[k]
      <3> SUFFICES ASSUME NEW k \in 1..Len(m) PROVE u[k] = m[k]
        OBVIOUS
      <3>1. k + 1 \in 2..(e - 1) /\ k + 1 \in 1..e /\ (k + 1) - 1 = k
        BY <1>2, <1>3, <1>4
      <3>2. u[k] = frame[k + 1]
        BY <1>4, <2>1, <3>1
      <3>3. f[k + 1] = m[(k + 1) - 1]
        BY <1>3, <1>4, <3>1
      <3> QED
        BY <1>5, <3>1, <3>2, <3>3
    <2> HIDE DEF u
    <2>3. u = m
      BY <1>2, <2>1, <2>2
    <2> QED
      BY <2>3 DEF u
  <1>7. frame[1] = SHDLC_START /\ frame[e] = SHDLC_STOP
    BY <1>3, <1>4, <1>5
  <1> QED
    BY <1>4, <1>6, <1>7 DEF m

\* What begins with a response is decoded, by UnstuffByte, to its content.
LEMMA TableFinds ==
  ASSUME NEW r, IsAnswer(r), NEW frame \in Seq(Byte), IsPrefix(Response(r), frame),
         NEW limit \in Nat, Len(r.data) <= limit, NEW e, e = Len(Response(r))
  PROVE  /\ ResponseAt(TableDecoding(frame), frame, limit, e)
         /\ TableDecoding(frame)[e - 1].out = Content(r)
  <1> DEFINE D == TableDecoding(frame)
             m == StuffData(Content(r))
  <1>1. /\ e \in 2..Len(frame) /\ frame[1] = SHDLC_START /\ frame[e] = SHDLC_STOP
        /\ SubSeq(frame, 2, e - 1) = m
    BY ResponseBody
  <1>2. /\ Content(r) \in Seq(Byte)
        /\ Len(Content(r)) = 5 + Len(r.data) /\ Content(r)[4] = Len(r.data)
        /\ SumBytes(Content(r)) % 256 = 255
    BY ResponseParts
  <1>3. e - 1 \in 1..Len(frame) /\ frame # <<>>
    BY <1>1
  <1>4. D[e - 1] = Destuff(UnstuffByte, SubSeq(frame, 2, e - 1))
    BY <1>3 DEF TableDecoding
  <1>5. Destuff(UnstuffByte, m) = [out |-> Content(r), esc |-> FALSE]
    BY <1>2, DestuffStuffed
  <1> HIDE DEF D, m
  <1>6. D[e - 1] = [out |-> Content(r), esc |-> FALSE]
    BY <1>1, <1>4, <1>5, Zenon
  <1>7. e \in 7..Len(frame)
    <2>1. Run(D, frame, Table)
      BY <1>3, TableRun DEF D
    <2>2. Len(D[e - 1].out) <= (e - 1) - 1
      BY <1>3, <2>1, RunType, UnescapeType DEF Table
    <2>3. Len(D[e - 1].out) >= 5 /\ Len(D[e - 1].out) \in Nat
      <3>1. Len(r.data) \in Nat
        BY DEF IsAnswer
      <3> QED
        BY <1>2, <1>6, <3>1
    <2> QED
      BY <1>1, <2>2, <2>3
  <1>8. Len(r.data) \in Nat
    BY DEF IsAnswer
  <1>9. ResponseAt(D, frame, limit, e)
    <2> DEFINE out == D[e - 1].out
    <2>1. out = Content(r) /\ ~D[e - 1].esc
      BY <1>6
    <2>2. /\ Len(out) >= 5 /\ out[4] = Len(out) - 5 /\ out[4] <= limit
          /\ SumBytes(out) % 256 = 255
      <3> HIDE DEF out
      <3>1. out[4] = Len(r.data) /\ Len(out) = 5 + Len(r.data) /\ SumBytes(out) % 256 = 255
        BY <1>2, <2>1
      <3> QED
        BY <1>8, <3>1
    <2> QED
      BY <1>1, <1>7, <2>1, <2>2 DEF ResponseAt
  <1> QED
    BY <1>6, <1>9 DEF D

\* What begins with a response is decoded, by FlipBit5, to its content.
LEMMA FlipFinds ==
  ASSUME NEW r, IsAnswer(r), NEW frame \in Seq(Byte), IsPrefix(Response(r), frame),
         NEW limit \in Nat, Len(r.data) <= limit, NEW e, e = Len(Response(r))
  PROVE  /\ ResponseAt(FlipDecoding(frame), frame, limit, e)
         /\ FlipDecoding(frame)[e - 1].out = Content(r)
  <1> DEFINE D == FlipDecoding(frame)
             m == StuffData(Content(r))
  <1>1. /\ e \in 2..Len(frame) /\ frame[1] = SHDLC_START /\ frame[e] = SHDLC_STOP
        /\ SubSeq(frame, 2, e - 1) = m
    BY ResponseBody
  <1>2. /\ Content(r) \in Seq(Byte)
        /\ Len(Content(r)) = 5 + Len(r.data) /\ Content(r)[4] = Len(r.data)
        /\ SumBytes(Content(r)) % 256 = 255
    BY ResponseParts
  <1>3. e - 1 \in 1..Len(frame) /\ frame # <<>>
    BY <1>1
  <1>4. D[e - 1] = Destuff(FlipBit5, SubSeq(frame, 2, e - 1))
    BY <1>3 DEF FlipDecoding
  <1>5. Destuff(FlipBit5, m) = [out |-> Content(r), esc |-> FALSE]
    BY <1>2, DestuffStuffed
  <1> HIDE DEF D, m
  <1>6. D[e - 1] = [out |-> Content(r), esc |-> FALSE]
    BY <1>1, <1>4, <1>5, Zenon
  <1>7. e \in 7..Len(frame)
    <2>1. Run(D, frame, Flip)
      BY <1>3, FlipRun DEF D
    <2>2. Len(D[e - 1].out) <= (e - 1) - 1
      BY <1>3, <2>1, RunType, UnescapeType DEF Flip
    <2>3. Len(D[e - 1].out) >= 5 /\ Len(D[e - 1].out) \in Nat
      <3>1. Len(r.data) \in Nat
        BY DEF IsAnswer
      <3> QED
        BY <1>2, <1>6, <3>1
    <2> QED
      BY <1>1, <2>2, <2>3
  <1>8. Len(r.data) \in Nat
    BY DEF IsAnswer
  <1>9. ResponseAt(D, frame, limit, e)
    <2> DEFINE out == D[e - 1].out
    <2>1. out = Content(r) /\ ~D[e - 1].esc
      BY <1>6
    <2>2. /\ Len(out) >= 5 /\ out[4] = Len(out) - 5 /\ out[4] <= limit
          /\ SumBytes(out) % 256 = 255
      <3> HIDE DEF out
      <3>1. out[4] = Len(r.data) /\ Len(out) = 5 + Len(r.data) /\ SumBytes(out) % 256 = 255
        BY <1>2, <2>1
      <3> QED
        BY <1>8, <3>1
    <2> QED
      BY <1>1, <1>7, <2>1, <2>2 DEF ResponseAt
  <1> QED
    BY <1>6, <1>9 DEF D

\* The bytes received begin with the sensor's response, which fits the request.
LEMMA WholeIsReceived ==
  ASSUME NEW s \in Seq(Byte), NEW r, IsAnswer(r), IsPrefix(Response(r), s),
         NEW limit \in Nat, Len(r.data) <= limit
  PROVE  IsPrefix(Response(r), Prefix(s, RxRequest(limit)))
  <1> DEFINE f == Response(r)
             n == RxRequest(limit)
  <1>1. f \in Seq(Byte) /\ Len(f) <= n /\ n \in Nat
    BY ResponseLength DEF RxRequest
  <1>2. Len(f) <= Len(s) /\ SubSeq(f, 1, Len(f)) = SubSeq(s, 1, Len(f))
    BY DEF IsPrefix
  <1> HIDE DEF f, n
  <1>3. PICK m \in 0..Len(s) : Prefix(s, n) = SubSeq(s, 1, m) /\ Len(f) <= m
    <2> DEFINE m == IF n < Len(s) THEN n ELSE Len(s)
    <2>1. m \in 0..Len(s) /\ Len(f) <= m
      BY <1>1, <1>2
    <2>2. Prefix(s, n) = SubSeq(s, 1, m)
      BY DEF Prefix
    <2> QED
      BY <2>1, <2>2
  <1>4. SubSeq(SubSeq(s, 1, m), 1, Len(f)) = SubSeq(s, 1, Len(f)) /\ Len(SubSeq(s, 1, m)) = m
    BY <1>1, <1>3
  <1> QED
    BY <1>2, <1>3, <1>4 DEF IsPrefix, f, n

-----------------------------------------------------------------------------
(* Damage.                                                                 *)

\* Both ways of decoding at once: ue is Table or Flip.
Decode(ue, s) == IF ue = Table THEN Destuff(UnstuffByte, s) ELSE Destuff(FlipBit5, s)

\* The two unescapings, of the receiver and of the one in place, differ.
LEMMA TwoTables ==
  /\ Table # Flip /\ Table \in [Byte -> Byte] /\ Flip \in [Byte -> Byte]
  /\ \A b \in Byte : Table[b] = UnstuffByte(b) /\ Flip[b] = FlipBit5(b)
  <1>1. /\ Table \in [Byte -> Byte] /\ Flip \in [Byte -> Byte]
        /\ \A b \in Byte : Table[b] = UnstuffByte(b) /\ Flip[b] = FlipBit5(b)
    BY UnescapeType DEF Table, Flip
  <1>2. Table[0] # Flip[0]
    <2>1. 0 \in Byte /\ UnstuffByte(0) = 0 /\ FlipBit5(0) = 32
      BY DEF UnstuffByte, FlipBit5, Byte, Reserved, ESC, SHDLC_STOP
    <2> QED
      BY <1>1, <2>1
  <1> QED
    BY <1>1, <1>2

\* Decoding goes byte by byte and undoes the stuffing.
LEMMA DecodeSteps ==
  ASSUME NEW ue \in {Table, Flip}
  PROVE  /\ Decode(ue, <<>>) = Nothing
         /\ \A s \in Seq(Byte), b \in Byte :
               Decode(ue, Append(s, b)) = DestuffStep(ue, Decode(ue, s), b)
         /\ \A s \in Seq(Byte) : Decode(ue, StuffData(s)) = [out |-> s, esc |-> FALSE]
  <1>1. CASE ue = Table
    BY <1>1, TableSteps, DestuffStuffed DEF Decode
  <1>2. CASE ue = Flip
    BY <1>2, TwoTables, FlipSteps, DestuffStuffed DEF Decode
  <1> QED
    BY <1>1, <1>2

\* Decoding gives bytes.
LEMMA DecodeType ==
  ASSUME NEW ue \in {Table, Flip}, NEW s \in Seq(Byte)
  PROVE  Decode(ue, s) \in Decoding
  <1> DEFINE T == {u \in Seq(Byte) : Decode(ue, u) \in Decoding}
  <1>0. ue \in [Byte -> Byte]
    BY TwoTables
  <1>1. <<>> \in T
    <2>1. <<>> \in Seq(Byte) /\ Nothing \in Decoding
      BY DEF Nothing, Decoding
    <2> QED
      BY <2>1, DecodeSteps
  <1>2. ASSUME NEW u \in Seq(Byte), u \in T, NEW b \in Byte PROVE Append(u, b) \in T
    <2>1. Decode(ue, Append(u, b)) = DestuffStep(ue, Decode(ue, u), b)
      BY DecodeSteps
    <2> QED
      BY <1>0, <1>2, <2>1, DestuffStepType
  <1>3. Seq(Byte) \subseteq T
    <2> HIDE DEF T
    <2> QED
      BY <1>1, <1>2, SequenceInduction
  <1> QED
    BY <1>3

\* u is joined of the two others.
IsTwo(u, a, b) == u = a \o b

\* Behind a string that does not end in an escape decoding starts afresh.
LEMMA DecodeJoins ==
  ASSUME NEW ue \in {Table, Flip}, NEW s \in Seq(Byte), ~Decode(ue, s).esc,
         NEW t \in Seq(Byte)
  PROVE  /\ IsTwo(Decode(ue, s \o t).out, Decode(ue, s).out, Decode(ue, t).out)
         /\ (Decode(ue, s \o t).esc <=> Decode(ue, t).esc)
  <1> DEFINE Joins(u) == /\ Decode(ue, s \o u).out = Decode(ue, s).out \o Decode(ue, u).out
                         /\ (Decode(ue, s \o u).esc <=> Decode(ue, u).esc)
             T == {u \in Seq(Byte) : Joins(u)}
  <1>0. Decode(ue, s) \in Decoding /\ Decode(ue, s).out \in Seq(Byte)
    BY DecodeType DEF Decoding
  <1>1. <<>> \in T
    <2>1. s \o <<>> = s
      OBVIOUS
    <2>2. Decode(ue, <<>>).out = <<>> /\ ~Decode(ue, <<>>).esc
      BY DecodeSteps DEF Nothing
    <2>3. Decode(ue, s).out \o <<>> = Decode(ue, s).out
      BY <1>0
    <2>4. Joins(<<>>)
      BY <2>1, <2>2, <2>3
    <2>5. <<>> \in Seq(Byte)
      OBVIOUS
    <2> HIDE DEF Joins
    <2> QED
      BY <2>4, <2>5
  <1>2. ASSUME NEW u \in Seq(Byte), u \in T, NEW b \in Byte PROVE Append(u, b) \in T
    <2> DEFINE d == Decode(ue, u)
               g == Decode(ue, s \o u)
    <2>1. /\ s \o Append(u, b) = Append(s \o u, b) /\ s \o u \in Seq(Byte)
          /\ Append(u, b) \in Seq(Byte)
      OBVIOUS
    <2>2. /\ Decode(ue, Append(u, b)) = DestuffStep(ue, d, b)
          /\ Decode(ue, s \o Append(u, b)) = DestuffStep(ue, g, b)
      BY <2>1, DecodeSteps, ZenonT(40)
    <2>3. /\ d \in Decoding /\ g \in Decoding /\ ue[b] \in Byte
          /\ g.out = Decode(ue, s).out \o d.out /\ (g.esc <=> d.esc)
      BY <1>2, <2>1, DecodeType, TwoTables
    <2> HIDE DEF d, g
    <2>4. PICK o \in Seq(Byte) : o = Decode(ue, s).out
      BY <1>0
    <2>5. \A c \in Byte : Append(o \o d.out, c) = o \o Append(d.out, c)
      BY <2>3, AppendBehind DEF Decoding
    <2>6. Joins(Append(u, b))
      <3> DEFINE d2 == DestuffStep(ue, d, b)
                 g2 == DestuffStep(ue, g, b)
      <3> SUFFICES g2.out = o \o d2.out /\ (g2.esc <=> d2.esc)
        BY <2>2, <2>4
      <3>1. CASE d.esc
        <4>1. d2 = [out |-> Append(d.out, ue[b]), esc |-> FALSE] /\ g2 = [out |-> Append(g.out, ue[b]), esc |-> FALSE]
          BY <2>3, <3>1 DEF DestuffStep
        <4> HIDE DEF d2, g2
        <4> QED
          BY <2>3, <2>4, <2>5, <4>1
      <3>2. CASE ~d.esc /\ b = ESC
        <4>1. d2 = [d EXCEPT !.esc = TRUE] /\ g2 = [g EXCEPT !.esc = TRUE]
          BY <2>3, <3>2 DEF DestuffStep
        <4>2. d2.esc /\ g2.esc /\ d2.out = d.out /\ g2.out = g.out
          BY <2>3, <4>1 DEF Decoding
        <4> HIDE DEF d2, g2
        <4> QED
          BY <2>3, <2>4, <4>2
      <3>3. CASE ~d.esc /\ b # ESC
        <4>1. /\ d2 = [d EXCEPT !.out = Append(@, b)]
              /\ g2 = [g EXCEPT !.out = Append(@, b)]
          BY <2>3, <3>3 DEF DestuffStep
        <4>2. /\ d2.out = Append(d.out, b) /\ g2.out = Append(g.out, b)
              /\ ~d2.esc /\ ~g2.esc
          BY <2>3, <3>3, <4>1 DEF Decoding
        <4> HIDE DEF d2, g2
        <4> QED
          BY <2>3, <2>4, <2>5, <4>2
      <3> QED
        BY <3>1, <3>2, <3>3
    <2> QED
      BY <2>1, <2>6
  <1>3. Seq(Byte) \subseteq T
    <2> HIDE DEF T
    <2> QED
      BY <1>1, <1>2, SequenceInduction
  <1> QED
    BY <1>3 DEF IsTwo

\* Stuffing a joined string is joining the stuffed ones.
LEMMA StuffJoins ==
  ASSUME NEW s \in Seq(Byte), NEW t \in Seq(Byte)
  PROVE  StuffData(s \o t) = StuffData(s) \o StuffData(t)
  <1> DEFINE T == {u \in Seq(Byte) : StuffData(s \o u) = StuffData(s) \o StuffData(u)}
  <1>1. <<>> \in T
    <2>1. StuffData(s) \in Seq(Byte) /\ s \o <<>> = s
      BY StuffedIsTransparent
    <2> QED
      BY <2>1, StuffingSteps
  <1>2. ASSUME NEW u \in Seq(Byte), u \in T, NEW b \in Byte PROVE Append(u, b) \in T
    <2>1. /\ s \o Append(u, b) = Append(s \o u, b) /\ s \o u \in Seq(Byte)
          /\ Append(u, b) \in Seq(Byte)
      OBVIOUS
    <2>2. /\ StuffData(Append(u, b)) = StuffData(u) \o StuffByte(b)
          /\ StuffData(s \o Append(u, b)) = StuffData(s \o u) \o StuffByte(b)
      BY <2>1, StuffingSteps
    <2>3. StuffData(s) \in Seq(Byte) /\ StuffData(u) \in Seq(Byte) /\ StuffByte(b) \in Seq(Byte)
      BY StuffedIsTransparent, StuffByteType
    <2>4. StuffData(s \o u) = StuffData(s) \o StuffData(u)
      BY <1>2
    <2>5. (StuffData(s) \o StuffData(u)) \o StuffByte(b) = StuffData(s) \o (StuffData(u) \o StuffByte(b))
      BY <2>3, Regroup, SMTT(40)
    <2>6. StuffData(s \o Append(u, b)) = StuffData(s) \o StuffData(Append(u, b))
      BY <2>2, <2>4, <2>5
    <2> QED
      BY <2>1, <2>6
  <1>3. Seq(Byte) \subseteq T
    <2> HIDE DEF T
    <2> QED
      BY <1>1, <1>2, SequenceInduction
  <1> QED
    BY <1>3

\* Every byte of a stuffed string belongs to a byte x that was stuffed.
LEMMA StuffedByteAt ==
  ASSUME NEW m \in Seq(Byte), NEW k \in 1..Len(StuffData(m))
  PROVE  \E a \in Seq(Byte), x \in Byte, b \in Seq(Byte) :
             /\ m = a \o <<x>> \o b
             /\ k - Len(StuffData(a)) \in 1..Len(StuffByte(x))
  <1> DEFINE BytesAt(u, a, x, b, j) == /\ u = a \o <<x>> \o b
                                  /\ j - Len(StuffData(a)) \in 1..Len(StuffByte(x))
             Found(u, j) == \E a \in Seq(Byte), x \in Byte, b \in Seq(Byte) : BytesAt(u, a, x, b, j)
             T == {u \in Seq(Byte) : \A j \in 1..Len(StuffData(u)) : Found(u, j)}
  <1>1. <<>> \in T
    <2>1. <<>> \in Seq(Byte) /\ 1..Len(StuffData(<<>>)) = {}
      BY StuffingSteps
    <2> HIDE DEF Found
    <2> QED
      BY <2>1
  <1>2. ASSUME NEW u \in Seq(Byte), u \in T, NEW c \in Byte PROVE Append(u, c) \in T
    <2> DEFINE v == Append(u, c)
    <2>0. v \in Seq(Byte)
      OBVIOUS
    <2>1. /\ StuffData(v) = StuffData(u) \o StuffByte(c) /\ v \in Seq(Byte)
          /\ StuffData(u) \in Seq(Byte) /\ StuffByte(c) \in Seq(Byte)
      <3>1. StuffData(v) = StuffData(u) \o StuffByte(c)
        BY StuffingSteps
      <3> QED
        BY <2>0, <3>1, StuffedIsTransparent, StuffByteType
    <2>2. Len(StuffData(v)) = Len(StuffData(u)) + Len(StuffByte(c))
      BY <2>1
    <2>3. ASSUME NEW j \in 1..Len(StuffData(v)) PROVE Found(v, j)
      <3>1. CASE j <= Len(StuffData(u))
        <4>1. j \in 1..Len(StuffData(u))
          BY <2>1, <2>3, <3>1
        <4>2. Found(u, j)
          BY <1>2, <4>1
        <4>3. PICK a \in Seq(Byte), x \in Byte, b \in Seq(Byte) : BytesAt(u, a, x, b, j)
          BY <4>2
        <4>4. v = a \o <<x>> \o Append(b, c) /\ Append(b, c) \in Seq(Byte)
          <5>1. u = a \o <<x>> \o b
            BY <4>3
          <5>2. a \o <<x>> \in Seq(Byte)
            OBVIOUS
          <5>3. Append((a \o <<x>>) \o b, c) = (a \o <<x>>) \o Append(b, c)
            BY <5>2, AppendBehind
          <5>4. v = (a \o <<x>>) \o Append(b, c)
            BY <5>1, <5>3
          <5>5. Append(b, c) \in Seq(Byte)
            OBVIOUS
          <5> QED
            BY <5>4, <5>5
        <4>5. BytesAt(v, a, x, Append(b, c), j)
          BY <4>3, <4>4
        <4> HIDE DEF BytesAt, v
        <4> QED
          BY <4>4, <4>5
      <3>2. CASE j > Len(StuffData(u))
        <4>1. v = u \o <<c>> \o <<>> /\ <<>> \in Seq(Byte)
          OBVIOUS
        <4>2. j - Len(StuffData(u)) \in 1..Len(StuffByte(c))
          BY <2>1, <2>2, <2>3, <3>2
        <4>3. BytesAt(v, u, c, <<>>, j)
          BY <4>1, <4>2
        <4> HIDE DEF BytesAt, v
        <4> QED
          BY <4>1, <4>3
      <3>3. j \in Nat /\ Len(StuffData(u)) \in Nat
        BY <2>1, <2>3
      <3>4. j <= Len(StuffData(u)) \/ j > Len(StuffData(u))
        BY <3>3
      <3> HIDE DEF Found, v
      <3> QED
        BY <3>1, <3>2, <3>4
    <2> HIDE DEF Found
    <2> QED
      BY <2>1, <2>3
  <1>3. Seq(Byte) \subseteq T
    <2> HIDE DEF T
    <2> QED
      BY <1>1, <1>2, SequenceInduction
  <1>4. m \in T
    BY <1>3
  <1>5. Found(m, k)
    BY <1>4
  <1> QED
    BY <1>5

\* The bytes of three joined strings, and their sum.
LEMMA ThreeParts ==
  ASSUME NEW a \in Seq(Byte), NEW v \in Seq(Byte), NEW b \in Seq(Byte)
  PROVE  /\ a \o v \o b \in Seq(Byte)
         /\ Len(a \o v \o b) = Len(a) + Len(v) + Len(b)
         /\ \A k \in 1..Len(a) : (a \o v \o b)[k] = a[k]
         /\ \A k \in 1..Len(v) : (a \o v \o b)[Len(a) + k] = v[k]
         /\ \A k \in 1..Len(b) : (a \o v \o b)[Len(a) + Len(v) + k] = b[k]
         /\ SumBytes(a \o v \o b) = SumBytes(a) + SumBytes(v) + SumBytes(b)
         /\ SumBytes(a) \in Nat /\ SumBytes(v) \in Nat /\ SumBytes(b) \in Nat
  <1>1. a \o v \in Seq(Byte) /\ Len(a \o v) = Len(a) + Len(v)
    OBVIOUS
  <1>2. SumBytes(a \o v \o b) = SumBytes(a \o v) + SumBytes(b)
    BY <1>1, SumOfConcat
  <1>3. SumBytes(a \o v) = SumBytes(a) + SumBytes(v) /\ SumBytes(a) \in Nat /\ SumBytes(v) \in Nat
    BY SumOfConcat
  <1>4. SumBytes(b) \in Nat
    BY SumOfConcat
  <1>5. /\ \A k \in 1..Len(a) : (a \o v \o b)[k] = a[k]
        /\ \A k \in 1..Len(v) : (a \o v \o b)[Len(a) + k] = v[k]
    BY PartsOf
  <1>6. \A k \in 1..Len(b) : ((a \o v) \o b)[Len(a \o v) + k] = b[k]
    BY <1>1, SecondOfTwo
  <1> QED
    BY <1>1, <1>2, <1>3, <1>4, <1>5, <1>6



\* The same of a string u that is joined of them.
Parts(u, a, v, b) ==
    /\ u \in Seq(Byte) /\ Len(u) = Len(a) + Len(v) + Len(b)
    /\ \A k \in 1..Len(a) : u[k] = a[k]
    /\ \A k \in 1..Len(v) : u[Len(a) + k] = v[k]
    /\ \A k \in 1..Len(b) : u[Len(a) + Len(v) + k] = b[k]
    /\ SumBytes(u) = SumBytes(a) + SumBytes(v) + SumBytes(b)
    /\ SumBytes(a) \in Nat /\ SumBytes(v) \in Nat /\ SumBytes(b) \in Nat
    /\ Len(a) \in Nat /\ Len(v) \in Nat /\ Len(b) \in Nat

\* Joined strings keep their bytes, one behind the other.
LEMMA JoinedParts ==
  ASSUME NEW a \in Seq(Byte), NEW v \in Seq(Byte), NEW b \in Seq(Byte), NEW u, IsJoined(u, a, v, b)
  PROVE  Parts(u, a, v, b)
  <1>1. u = a \o v \o b
    BY Zenon DEF IsJoined
  <1>2. Len(a) \in Nat /\ Len(v) \in Nat /\ Len(b) \in Nat
    OBVIOUS
  <1>3. Parts(a \o v \o b, a, v, b)
    BY <1>2, ThreeParts, ZenonT(40) DEF Parts
  <1> QED
    BY <1>1, <1>3, Zenon

\* The sums of the shortest strings.
LEMMA ShortSums ==
  ASSUME NEW w \in Seq(Byte)
  PROVE  /\ Len(w) = 0 => SumBytes(w) = 0
         /\ Len(w) = 1 => SumBytes(w) = w[1] /\ w[1] \in Byte
         /\ Len(w) = 2 => SumBytes(w) = w[1] + w[2] /\ w[1] \in Byte /\ w[2] \in Byte
  <1>1. SumBytes(<<>>) = 0 /\ <<>> \in Seq(Byte)
    BY SummingSteps
  <1>2. ASSUME Len(w) = 0 PROVE SumBytes(w) = 0
    <2>1. w = <<>>
      BY <1>2
    <2> QED
      BY <1>1, <2>1
  <1>3. ASSUME NEW t \in Seq(Byte), Len(t) = 1 PROVE SumBytes(t) = t[1] /\ t[1] \in Byte
    <2>1. t[1] \in Byte
      BY <1>3
    <2>2. t = Append(<<>>, t[1])
      BY <1>3, <2>1
    <2>3. SumBytes(Append(<<>>, t[1])) = SumBytes(<<>>) + t[1]
      BY <1>1, <2>1, SummingSteps
    <2>4. SumBytes(t) = 0 + t[1]
      BY <1>1, <2>2, <2>3, Zenon
    <2>5. t[1] \in Nat
      BY <2>1, ByteIsNat
    <2>6. SumBytes(t) = t[1]
      BY ONLY <2>4, <2>5
    <2> QED
      BY <2>1, <2>6
  <1>4. ASSUME Len(w) = 2
        PROVE  SumBytes(w) = w[1] + w[2] /\ w[1] \in Byte /\ w[2] \in Byte
    <2> DEFINE t == SubSeq(w, 1, 1)
    <2>1. t \in Seq(Byte) /\ Len(t) = 1 /\ t[1] = w[1] /\ w[2] \in Byte /\ w = Append(t, w[2])
      BY <1>4
    <2> HIDE DEF t
    <2>2. SumBytes(Append(t, w[2])) = SumBytes(t) + w[2]
      BY <2>1, SummingSteps
    <2>3. SumBytes(t) = t[1] /\ t[1] \in Byte
      BY <1>3, <2>1
    <2> QED
      BY <2>1, <2>2, <2>3, Zenon
  <1> QED
    BY <1>2, <1>3, <1>4

\* A response that has been decoded in full.
Whole(m) == Len(m) >= 5 /\ m[4] = Len(m) - 5 /\ SumBytes(m) % 256 = 255

\* Their sums leave the same checksum.
SameSum(v, w) == (SumBytes(v) - SumBytes(w)) % 256 = 0

\* Sums and differences of a few bytes that are multiples of 256.
LEMMA SmallMultiples ==
  ASSUME NEW n \in (-511)..511, n % 256 = 0 PROVE n = -256 \/ n = 0 \/ n = 256
  OBVIOUS

\* Replaced bytes of another sum are noticed by the checksum.
LEMMA SumNotices ==
  ASSUME NEW a, NEW b, NEW v, NEW w, NEW m, NEW u,
         Parts(m, a, w, b), Parts(u, a, v, b), Whole(m), Whole(u)
  PROVE  SameSum(v, w)
  <1>3. ASSUME NEW p \in Nat, NEW q \in Nat, NEW i \in Nat, NEW j \in Nat,
               (p + i + q) % 256 = 255, (p + j + q) % 256 = 255
        PROVE  (i - j) % 256 = 0
    BY ONLY <1>3, p \in Nat, q \in Nat, i \in Nat, j \in Nat
  <1>4. PICK p \in Nat, i \in Nat, q \in Nat, j \in Nat :
          p = SumBytes(a) /\ i = SumBytes(v) /\ q = SumBytes(b) /\ j = SumBytes(w)
    BY Zenon DEF Parts
  <1>5. (p + i + q) % 256 = 255 /\ (p + j + q) % 256 = 255
    BY <1>4, Zenon DEF Whole, Parts
  <1>6. (i - j) % 256 = 0
    BY <1>3, <1>5
  <1> QED
    BY <1>4, <1>6 DEF SameSum

\* More or fewer bytes behind the length field are noticed by it.
LEMMA LengthNotices ==
  ASSUME NEW a, NEW b, NEW v, NEW w, NEW m, NEW u,
         Parts(m, a, w, b), Parts(u, a, v, b), Whole(m), Whole(u), Len(v) # Len(w)
  PROVE  Len(a) <= 3
  <1> SUFFICES ASSUME ~(Len(a) <= 3) PROVE FALSE
    OBVIOUS
  <1>0. 4 \in 1..Len(a)
    BY DEF Parts
  <1>1. /\ Len(u) = Len(a) + Len(v) + Len(b) /\ u[4] = a[4]
        /\ Len(a) \in Nat /\ Len(v) \in Nat /\ Len(b) \in Nat
    BY <1>0, Zenon DEF Parts
  <1>2. Len(m) = Len(a) + Len(w) + Len(b) /\ m[4] = a[4] /\ Len(w) \in Nat
    BY <1>0, Zenon DEF Parts
  <1>3. m[4] = Len(m) - 5 /\ u[4] = Len(u) - 5
    BY Zenon DEF Whole
  <1> QED
    BY ONLY <1>1, <1>2, <1>3, Len(v) # Len(w)

\* The positions of the bytes, with numbers for the lengths.
BytesAt(u, p, v, n, b, q) ==
    /\ p \in Nat /\ q \in Nat /\ Len(u) = p + n + q
    /\ \A k \in 1..n : u[p + k] = v[k]
    /\ \A k \in 1..q : u[p + n + k] = b[k]

\* Read as a state, the length would be an error, with or without its bit 5.
LengthTells(m) == m[4] \in Byte \ {128, 224}

\* Of the states but 128, only 0 is none of an error.
LEMMA ErrorStates == \A n \in 1..255 : n # 128 => StateError(n)
  <1>1. \A n \in 1..127 : n % 128 = n
    OBVIOUS
  <1>2. \A n \in 129..255 : n % 128 = n - 128
    OBVIOUS
  <1> SUFFICES ASSUME NEW n \in 1..255, n # 128 PROVE n % 128 # 0
    BY DEF StateError
  <1>3. n \in 1..127 \/ n \in 129..255
    OBVIOUS
  <1> QED
    BY <1>1, <1>2, <1>3

\* A lost zero in front of the length field moves the length into the state.
LEMMA LostByteIsNoticed ==
  ASSUME NEW a, NEW b, NEW w \in Seq(Byte), NEW v \in Seq(Byte),
         Len(w) = 1, Len(v) = 0, NEW m, NEW u,
         Parts(m, a, w, b), Parts(u, a, v, b), Whole(m), Whole(u), LengthTells(m)
  PROVE  StateError(u[3])
  <1>1. w[1] = 0
    <2>1. SumBytes(v) = 0 /\ SumBytes(w) = w[1] /\ w[1] \in 0..255
      BY ShortSums, ZenonT(40) DEF Byte
    <2>2. SameSum(v, w)
      BY SumNotices, Zenon
    <2> QED
      <3>1. \A x \in 0..255 : (0 - x) % 256 = 0 => x = 0
        OBVIOUS
      <3>2. (0 - w[1]) % 256 = 0
        BY <2>1, <2>2, Zenon DEF SameSum
      <3> QED
        BY <2>1, <3>1, <3>2, Zenon
  <1>2. Len(a) <= 3
    <2>1. Len(v) # Len(w)
      OBVIOUS
    <2> QED
      BY <2>1, LengthNotices, Zenon
  <1>3. PICK p, q : p = Len(a) /\ q = Len(b) /\ p <= 3
    BY <1>2, Zenon
  <1>4. BytesAt(m, p, w, 1, b, q) /\ BytesAt(u, p, v, 0, b, q)
    <2>1. BytesAt(m, p, w, Len(w), b, q) /\ BytesAt(u, p, v, Len(v), b, q)
      BY <1>3, Zenon DEF Parts, BytesAt
    <2>2. Len(w) = 1 /\ Len(v) = 0
      OBVIOUS
    <2> QED
      BY <2>1, <2>2, Zenon
  <1>5. /\ Len(m) >= 5 /\ m[4] = Len(m) - 5
        /\ Len(u) >= 5 /\ u[4] = Len(u) - 5
    BY Zenon DEF Whole
  <1>6. p + q >= 5 /\ m[4] = p + q - 4 /\ p \in 0..3 /\ q \in Nat
    <2>1. /\ p \in Nat /\ q \in Nat
          /\ Len(m) = p + 1 + q /\ Len(u) = p + 0 + q
      BY <1>4, Zenon DEF BytesAt
    <2> QED
      BY ONLY <1>3, <1>5, <2>1, SMTT(40)
  <1>7. p # 3
    <2>1. m[p + 1] = w[1]
      BY ONLY <1>4 DEF BytesAt
    <2> QED
      BY ONLY <1>1, <1>6, <2>1
  <1>8. 3 - p \in 1..q
    BY ONLY <1>6, <1>7
  <1>9. u[3] = m[4]
    <2>1. u[p + 0 + (3 - p)] = b[3 - p] /\ m[p + 1 + (3 - p)] = b[3 - p]
      BY ONLY <1>4, <1>8 DEF BytesAt
    <2>2. p + 0 + (3 - p) = 3 /\ p + 1 + (3 - p) = 4
      BY ONLY <1>6
    <2> QED
      BY <2>1, <2>2, Zenon
  <1>10. m[4] \in 1..255 /\ m[4] # 128
    BY ONLY <1>6, LengthTells(m) DEF LengthTells, Byte
  <1> QED
    BY <1>9, <1>10, ErrorStates, Zenon

\* An escape in front of a byte that had none: the byte that became it is missing,
\* and the other may have lost or gained 32.
LEMMA EscapeMadeIsNoticed ==
  ASSUME NEW ue \in {Table, Flip}, NEW a, NEW b,
         NEW w \in Seq(Byte), NEW v \in Seq(Byte), Len(w) = 2, Len(v) = 1, v[1] = ue[w[2]],
         NEW m, NEW u, Parts(m, a, w, b), Parts(u, a, v, b), Whole(m), Whole(u),
         LengthTells(m), m[3] # 224
  PROVE  StateError(u[3])
  <1>a. PICK x \in Byte, z \in Byte, c \in Byte : x = w[1] /\ z = w[2] /\ c = v[1] /\ c = ue[z]
    BY ShortSums
  <1>b. x \in 0..255 /\ z \in 0..255 /\ c \in 0..255 /\ (c = z \/ c = z - 32 \/ c = z + 32)
    <2>1. c = UnstuffByte(z) \/ c = FlipBit5(z)
      BY <1>a, TwoTables
    <2>2. c = z \/ c = z - 32 \/ c = z + 32
      BY ONLY <2>1, z \in Byte DEF UnstuffByte, FlipBit5, Byte
    <2> QED
      BY <2>2 DEF Byte
  <1>1. (c - (x + z)) % 256 = 0
    <2>1. SumBytes(v) = c /\ SumBytes(w) = x + z
      BY <1>a, ShortSums
    <2>2. SameSum(v, w)
      BY SumNotices, Zenon
    <2> QED
      BY ONLY <2>1, <2>2 DEF SameSum
  <1>2. Len(a) <= 3
    <2>1. Len(v) # Len(w)
      OBVIOUS
    <2> QED
      BY <2>1, LengthNotices, ZenonT(40)
  <1>3. PICK p, q : p = Len(a) /\ q = Len(b) /\ p <= 3
    BY <1>2, Zenon
  <1>4. BytesAt(m, p, w, 2, b, q) /\ BytesAt(u, p, v, 1, b, q)
    <2>1. BytesAt(m, p, w, Len(w), b, q) /\ BytesAt(u, p, v, Len(v), b, q)
      BY <1>3, Zenon DEF Parts, BytesAt
    <2>2. Len(w) = 2 /\ Len(v) = 1
      OBVIOUS
    <2> QED
      BY <2>1, <2>2, Zenon
  <1>5. /\ Len(m) >= 5 /\ m[4] = Len(m) - 5
        /\ Len(u) >= 5 /\ u[4] = Len(u) - 5
    BY Zenon DEF Whole
  <1>6. /\ p + q >= 4 /\ m[4] = p + q - 3 /\ u[4] = p + q - 4
        /\ m[4] \in 1..255 /\ m[4] # 128 /\ m[4] # 224
        /\ p \in 0..3 /\ q \in Nat
    <2>1. /\ p \in Nat /\ q \in Nat
          /\ Len(m) = p + 2 + q /\ Len(u) = p + 1 + q
      BY <1>4, Zenon DEF BytesAt
    <2>2. /\ p + q >= 4 /\ m[4] = p + q - 3 /\ u[4] = p + q - 4
          /\ p \in 0..3 /\ q \in Nat
      BY ONLY <1>3, <1>5, <2>1, SMTT(40)
    <2> QED
      BY ONLY <2>2, LengthTells(m) DEF LengthTells, Byte
  <1>c. m[p + 1] = x /\ m[p + 2] = z /\ u[p + 1] = c
    <2>1. m[p + 1] = w[1] /\ m[p + 2] = w[2] /\ u[p + 1] = v[1]
      BY ONLY <1>4 DEF BytesAt
    <2> QED
      BY <1>a, <2>1, Zenon
  <1>7. CASE p <= 1
    <2>1. 2 - p \in 1..q
      BY ONLY <1>6, <1>7
    <2>2. u[p + 1 + (2 - p)] = b[2 - p] /\ m[p + 2 + (2 - p)] = b[2 - p]
      BY ONLY <1>4, <2>1 DEF BytesAt
    <2>3. p + 1 + (2 - p) = 3 /\ p + 2 + (2 - p) = 4
      BY ONLY <1>6
    <2>4. u[3] = m[4]
      BY <2>2, <2>3, ZenonT(40)
    <2> QED
      BY <1>6, <2>4, ErrorStates, Zenon
  <1>8. CASE p = 2
    <2>1. u[3] = c /\ m[4] = z /\ m[3] = x
      BY ONLY <1>c, <1>8
    <2>2. ASSUME c % 128 = 0 PROVE FALSE
      <3>1. z \in 1..255 /\ z # 128 /\ (c = 0 \/ c = 128)
        <4>1. \A n \in 0..255 : n % 128 = 0 => n = 0 \/ n = 128
          <5>1. (\A n \in 0..127 : n % 128 = n) /\ (\A n \in 128..255 : n % 128 = n - 128)
            BY ONLY TRUE
          <5> QED
            BY ONLY <5>1
        <4> QED
          BY <1>b, <1>6, <2>1, <2>2, <4>1
      <3>2. CASE c = z
        BY ONLY <3>1, <3>2
      <3>3. CASE c = z - 32
        <4>1. x = 224
          <5>1. c - (x + z) = -32 - x /\ c - (x + z) \in (-511)..511
            BY ONLY <1>b, <3>3
          <5>2. c - (x + z) = -256 \/ c - (x + z) = 0 \/ c - (x + z) = 256
            BY <1>1, <5>1, SmallMultiples
          <5> QED
            BY ONLY <1>b, <5>1, <5>2
        <4> QED
          BY <2>1, <4>1
      <3>4. CASE c = z + 32
        <4>1. z = 96 /\ c = 128
          BY ONLY <3>1, <3>4
        <4>2. FlipBit5(96) = 64 /\ UnstuffByte(96) = 96
          BY ONLY TRUE DEF FlipBit5, UnstuffByte, Reserved, ESC, SHDLC_STOP
        <4>3. c = 64 \/ c = 96
          BY <1>a, <4>1, <4>2, TwoTables
        <4> QED
          BY ONLY <4>1, <4>3
      <3> QED
        BY <1>b, <3>2, <3>3, <3>4
    <2> QED
      BY <2>1, <2>2 DEF StateError
  <1>9. CASE p = 3
    <2>1. m[4] = x /\ u[4] = c /\ c = x - 1
      BY ONLY <1>b, <1>c, <1>6, <1>9
    <2>2. z = 255
      <3>1. c - (x + z) = -1 - z /\ c - (x + z) \in (-511)..511
        BY ONLY <1>b, <2>1
      <3>2. c - (x + z) = -256 \/ c - (x + z) = 0 \/ c - (x + z) = 256
        BY <1>1, <3>1, SmallMultiples
      <3> QED
        BY ONLY <1>b, <3>1, <3>2
    <2>3. FlipBit5(255) = 223 /\ UnstuffByte(255) = 255
      BY ONLY TRUE DEF FlipBit5, UnstuffByte, Reserved, ESC, SHDLC_STOP
    <2>4. c = 223 \/ c = 255
      BY <1>a, <2>2, <2>3, TwoTables
    <2>5. x # 224
      BY <1>6, <2>1, Zenon
    <2> QED
      BY ONLY <1>b, <2>1, <2>4, <2>5
  <1> QED
    BY <1>6, <1>7, <1>8, <1>9

\* An escape that became another byte: the byte behind it is taken as it is.
LEMMA EscapeBrokenIsNoticed ==
  ASSUME NEW a, NEW b, NEW w \in Seq(Byte), NEW v \in Seq(Byte),
         Len(w) = 1, Len(v) = 2, w[1] \in Reserved, v[2] = FlipBit5(w[1]),
         NEW m, NEW u, Parts(m, a, w, b), Parts(u, a, v, b), Whole(m), Whole(u),
         m[3] # m[4] + 1
  PROVE  StateError(u[3])
  <1>a. PICK x \in Byte, c \in Byte, y \in Byte : x = w[1] /\ c = v[1] /\ y = v[2]
    BY ShortSums
  <1>b. \/ x = 17 /\ y = 49
        \/ x = 19 /\ y = 51
        \/ x = 125 /\ y = 93
        \/ x = 126 /\ y = 94
    <2>1. x \in Reserved /\ y = FlipBit5(x)
      BY <1>a
    <2> QED
      BY ONLY <2>1 DEF FlipBit5, Reserved, ESC, SHDLC_STOP
  <1>1. ((c + y) - x) % 256 = 0
    <2>1. SumBytes(v) = c + y /\ SumBytes(w) = x
      BY <1>a, ShortSums
    <2>2. SameSum(v, w)
      BY SumNotices, Zenon
    <2> QED
      BY ONLY <2>1, <2>2 DEF SameSum
  <1>c. c = 32 \/ c = 224
    <2>1. c \in 0..255
      BY DEF Byte
    <2>2. c + y - x \in (-511)..511 /\ c + y - x = (c + y) - x
      BY ONLY <1>b, <2>1
    <2>3. c + y - x = -256 \/ c + y - x = 0 \/ c + y - x = 256
      BY <1>1, <2>2, SmallMultiples
    <2> QED
      BY ONLY <1>b, <2>1, <2>3
  <1>2. Len(a) <= 3
    <2>1. Len(v) # Len(w)
      OBVIOUS
    <2> QED
      BY <2>1, LengthNotices, Zenon
  <1>3. PICK p, q : p = Len(a) /\ q = Len(b) /\ p <= 3
    BY <1>2, Zenon
  <1>4. BytesAt(m, p, w, 1, b, q) /\ BytesAt(u, p, v, 2, b, q)
    <2>1. BytesAt(m, p, w, Len(w), b, q) /\ BytesAt(u, p, v, Len(v), b, q)
      BY <1>3, Zenon DEF Parts, BytesAt
    <2>2. Len(w) = 1 /\ Len(v) = 2
      OBVIOUS
    <2> QED
      BY <2>1, <2>2, Zenon
  <1>5. /\ Len(m) >= 5 /\ m[4] = Len(m) - 5 /\ m[3] # m[4] + 1
        /\ Len(u) >= 5 /\ u[4] = Len(u) - 5
    BY Zenon DEF Whole
  <1>6. /\ p + q >= 4 /\ m[4] = p + q - 4 /\ u[4] = p + q - 3 /\ p \in 0..3 /\ q \in Nat
    <2>1. /\ p \in Nat /\ q \in Nat
          /\ Len(m) = p + 1 + q /\ Len(u) = p + 2 + q
      BY <1>4, Zenon DEF BytesAt
    <2> QED
      BY ONLY <1>3, <1>5, <2>1, SMTT(40)
  <1>d. m[p + 1] = x /\ u[p + 1] = c /\ u[p + 2] = y
    BY ONLY <1>4, <1>a DEF BytesAt
  <1>7. CASE p = 0
    <2>1. 2 \in 1..q
      BY ONLY <1>6, <1>7
    <2>2. u[p + 2 + 2] = b[2] /\ m[p + 1 + 2] = b[2]
      BY ONLY <1>4, <2>1 DEF BytesAt
    <2>3. u[4] = m[3]
      BY ONLY <1>7, <2>2
    <2> QED
      BY ONLY <1>5, <1>6, <1>7, <2>3
  <1>8. CASE p = 1
    <2>1. u[3] = y
      BY ONLY <1>d, <1>8
    <2> QED
      BY ONLY <1>b, <2>1 DEF StateError
  <1>9. CASE p = 2
    <2>1. u[3] = c
      BY ONLY <1>d, <1>9
    <2> QED
      BY ONLY <1>c, <2>1 DEF StateError
  <1>10. CASE p = 3
    <2>1. u[4] = c /\ m[4] = x
      BY ONLY <1>d, <1>10
    <2> QED
      BY ONLY <1>b, <1>c, <1>6, <2>1
  <1> QED
    BY <1>6, <1>7, <1>8, <1>9, <1>10

-----------------------------------------------------------------------------
(* Damaged frames.                                                         *)

\* Decoding by position, for both.
DecodingOf(ue, frame) == [j \in 1..Len(frame) |-> Decode(ue, SubSeq(frame, 2, j))]

\* The bytes d of frame s, between its first delimiter and one at e, are decoded to u,
\* which is all a response asks for.
FoundIn(ue, s, e, d, u) ==
    /\ s[1] = SHDLC_START /\ e \in 7..Len(s) /\ s[e] = SHDLC_STOP
    /\ d = SubSeq(s, 2, e - 1) /\ u = Decode(ue, d).out
    /\ ~Decode(ue, d).esc /\ Whole(u)

\* A response of the reference is found in this sense.
LEMMA ResponseIsFound ==
  ASSUME NEW ue, NEW s \in Seq(Byte), NEW limit, NEW e, ResponseAt(DecodingOf(ue, s), s, limit, e)
  PROVE  FoundIn(ue, s, e, SubSeq(s, 2, e - 1), DecodingOf(ue, s)[e - 1].out)
  <1> DEFINE d == SubSeq(s, 2, e - 1)
  <1>1. e \in 7..Len(s) /\ Len(s) \in Nat
    BY DEF ResponseAt
  <1>2. e - 1 \in 1..Len(s)
    BY <1>1
  <1>3. DecodingOf(ue, s)[e - 1] = Decode(ue, d)
    BY <1>2 DEF DecodingOf
  <1> HIDE DEF d
  <1> QED
    BY <1>1, <1>3, Zenon DEF ResponseAt, FoundIn, Whole, d

\* s is t between two delimiters.
IsFramed(s, t) == s = <<SHDLC_START>> \o t \o <<SHDLC_STOP>>

\* A delimiter at e ends d in it.
EndsIn(t, e, d) == e - 1 \in 1..Len(t) /\ t[e - 1] = SHDLC_STOP /\ d = SubSeq(t, 1, e - 2)

\* Between delimiters, t: a response ends at the last byte or at a delimiter in t.
LEMMA FoundInBody ==
  ASSUME NEW ue, NEW t \in Seq(Byte), NEW s, IsFramed(s, t),
         NEW e, NEW d, NEW u, FoundIn(ue, s, e, d, u)
  PROVE  d = t \/ EndsIn(t, e, d)
  <1>1. /\ s \in Seq(Byte) /\ Len(s) = Len(t) + 2
        /\ \A k \in 2..(Len(s) - 1) : k - 1 \in 1..Len(t) /\ s[k] = t[k - 1]
        /\ SubSeq(s, 2, Len(s) - 1) = t
    BY FrameParts DEF IsFramed
  <1>2. e \in 7..Len(s) /\ s[e] = SHDLC_STOP /\ d = SubSeq(s, 2, e - 1)
    BY DEF FoundIn
  <1> QED
    <2> USE DEF EndsIn
    <2>1. CASE e = Len(s)
      BY <1>1, <1>2, <2>1
    <2>2. CASE e # Len(s)
      <3>1. e \in 2..(Len(s) - 1) /\ e - 1 \in 1..Len(t) /\ s[e] = t[e - 1]
        BY <1>1, <1>2, <2>2
      <3>2. d = SubSeq(t, 1, e - 2)
        <4> DEFINE p == SubSeq(s, 2, e - 1)
                   q == SubSeq(t, 1, e - 2)
        <4>1. p \in Seq(Byte) /\ q \in Seq(Byte) /\ Len(p) = e - 2 /\ Len(q) = e - 2
          BY <1>1, <1>2, <3>1
        <4>2. \A k \in 1..(e - 2) : p[k] = s[k + 1] /\ q[k] = t[k]
          BY <1>1, <1>2, <3>1
        <4>3. \A k \in 1..(e - 2) : s[k + 1] = t[k]
          <5> SUFFICES ASSUME NEW k \in 1..(e - 2) PROVE s[k + 1] = t[k]
            OBVIOUS
          <5>1. k + 1 \in 2..(Len(s) - 1) /\ (k + 1) - 1 = k
            BY <1>2, <3>1
          <5>2. s[k + 1] = t[(k + 1) - 1]
            BY <1>1, <5>1
          <5> QED
            BY <5>1, <5>2
        <4> HIDE DEF p, q
        <4>4. p = q
          BY <4>1, <4>2, <4>3, SameString
        <4> QED
          BY <1>2, <4>4 DEF p, q
      <3> QED
        BY <1>2, <3>1, <3>2
    <2> QED
      BY <2>1, <2>2

\* Damage between stuffed strings: g took the place of what was stuffed.  Delimiters
\* in it make no end, the earlier part of a response being none.
LEMMA FoundAround ==
  ASSUME NEW ue \in {Table, Flip}, NEW a \in Seq(Byte), NEW g \in Seq(Byte), NEW b \in Seq(Byte),
         NEW w \in Seq(Byte), Len(w) > 0, NEW m, Parts(m, a, w, b), Whole(m),
         Len(g) <= 2, Len(g) = 2 /\ g[2] = SHDLC_STOP => g[1] = ESC,
         NEW s, IsFramed(s, StuffData(a) \o g \o StuffData(b)),
         NEW e, NEW d, NEW u, FoundIn(ue, s, e, d, u)
  PROVE  d = StuffData(a) \o g \o StuffData(b)
  <1>1. PICK A \in Seq(Byte) : A = StuffData(a)
    BY StuffedIsTransparent
  <1>2. PICK B \in Seq(Byte) : B = StuffData(b)
    BY StuffedIsTransparent
  <1>3. /\ \A k \in 1..Len(A) : A[k] # SHDLC_STOP
        /\ \A k \in 1..Len(B) : B[k] # SHDLC_STOP
    BY <1>1, <1>2, StuffedIsTransparent DEF Reserved, ESC, SHDLC_STOP
  <1>4. Decode(ue, A) = [out |-> a, esc |-> FALSE]
    BY <1>1, DecodeSteps
  <1>5. PICK t \in Seq(Byte) : t = A \o g \o B
    BY ThreeParts
  <1>6. Parts(t, A, g, B)
    BY <1>5, JoinedParts, Zenon DEF IsJoined
  <1>7. IsFramed(s, t)
    BY <1>1, <1>2, <1>5, Zenon
  <1>8. d = t \/ EndsIn(t, e, d)
    <2>1. FoundIn(ue, s, e, d, u) /\ t \in Seq(Byte)
      OBVIOUS
    <2> QED
      BY ONLY <1>7, <2>1, FoundInBody, Zenon
  <1> SUFFICES ASSUME d # t PROVE FALSE
    BY <1>1, <1>2, <1>5, Zenon
  <1>9. PICK k : k = e - 1 /\ k \in 1..Len(t) /\ t[k] = SHDLC_STOP /\ d = SubSeq(t, 1, k - 1)
    <2>1. e - 2 = (e - 1) - 1
      BY DEF FoundIn
    <2> QED
      BY <1>8, <2>1 DEF EndsIn
  <1>10. PICK p, n, q : p = Len(A) /\ n = Len(g) /\ q = Len(B)
    OBVIOUS
  <1>n. p \in Nat /\ n \in Nat /\ q \in Nat /\ n <= 2
    BY <1>6, <1>10, Zenon DEF Parts
  <1>t. /\ Len(t) = p + n + q
        /\ \A j \in 1..p : t[j] = A[j]
        /\ \A j \in 1..n : t[p + j] = g[j]
        /\ \A j \in 1..q : t[p + n + j] = B[j]
    BY <1>6, <1>10, Zenon DEF Parts
  <1>11. k - p \in 1..n /\ t[k] = g[k - p]
    <2>a. k \in 1..(p + n + q)
      BY <1>9, <1>t, Zenon
    <2>b. /\ \A j \in 1..p : t[j] # SHDLC_STOP
          /\ \A j \in 1..q : t[p + n + j] # SHDLC_STOP
      BY <1>3, <1>10, <1>t, Zenon
    <2>1. k <= p => k \in 1..p
      BY ONLY <1>n, <2>a
    <2>2. k > p + n => k - (p + n) \in 1..q /\ p + n + (k - (p + n)) = k
      BY ONLY <1>n, <2>a
    <2>3. ~(k <= p) /\ ~(k > p + n)
      BY <1>9, <2>1, <2>2, <2>b, Zenon
    <2>4. k - p \in 1..n /\ p + (k - p) = k
      BY ONLY <1>n, <2>3, <2>a
    <2> QED
      BY <1>t, <2>4, Zenon
  <1>12. u = Decode(ue, d).out /\ ~Decode(ue, d).esc /\ Whole(u)
    BY Zenon DEF FoundIn
  <1>k. k \in Nat
    BY <1>9
  <1>13. /\ d \in Seq(Byte) /\ Len(d) = k - 1
         /\ \A j \in 1..(k - 1) : d[j] = t[j]
    <2> DEFINE h == SubSeq(t, 1, k - 1)
    <2>1. h \in Seq(Byte) /\ Len(h) = k - 1 /\ \A j \in 1..(k - 1) : h[j] = t[j]
      <3>1. k \in 1..Len(t)
        BY <1>9
      <3> QED
        BY ONLY <3>1, t \in Seq(Byte)
    <2>2. d = h
      BY <1>9
    <2> HIDE DEF h
    <2> QED
      BY <2>1, <2>2, Zenon
  <1>14. CASE k - p = 1
    <2>a. k - 1 = p
      BY ONLY <1>k, <1>n, <1>14
    <2>1. Len(d) = Len(A) /\ \A j \in 1..Len(d) : d[j] = A[j]
      BY <1>10, <1>13, <1>t, <2>a, Zenon
    <2>2. d = A
      BY <1>13, <2>1, SameString
    <2>3. u = a
      BY <1>4, <1>12, <2>2
    <2>4. Len(a) >= 5 /\ a[4] = Len(a) - 5
      BY <1>12, <2>3, Zenon DEF Whole
    <2>5. /\ Len(m) = Len(a) + Len(w) + Len(b) /\ m[4] = Len(m) - 5
          /\ Len(a) \in Nat /\ Len(w) \in Nat /\ Len(b) \in Nat
          /\ \A j \in 1..Len(a) : m[j] = a[j]
      BY Zenon DEF Parts, Whole
    <2>6. 4 \in 1..Len(a)
      BY ONLY <2>4, <2>5
    <2>7. m[4] = a[4]
      BY <2>5, <2>6, Zenon
    <2> QED
      BY ONLY <2>4, <2>5, <2>7, Len(w) > 0
  <1>15. CASE k - p = 2
    <2>1. n = 2 /\ g[1] = ESC
      <3>1. n = 2
        <4>1. 2 \in 1..n
          BY <1>11, <1>15, Zenon
        <4> QED
          BY ONLY <1>n, <4>1
      <3>2. g[2] = SHDLC_STOP
        BY <1>9, <1>11, <1>15, Zenon
      <3> QED
        BY <1>10, <3>1, <3>2, Zenon
    <2>2. /\ Len(d) = p + 1 /\ \A j \in 1..p : d[j] = A[j]
          /\ d[p + 1] = ESC
      <3>1. k - 1 = p + 1
        BY ONLY <1>k, <1>n, <1>15
      <3>2. 1 \in 1..n /\ p + 1 \in 1..(p + 1) /\ \A j \in 1..p : j \in 1..(p + 1)
        BY ONLY <1>n, <2>1
      <3>3. d[p + 1] = t[p + 1] /\ t[p + 1] = g[1]
        BY <1>t, <1>13, <3>1, <3>2, Zenon
      <3>4. \A j \in 1..p : d[j] = t[j]
        BY <1>13, <3>1, <3>2, Zenon
      <3> QED
        BY <1>t, <1>13, <2>1, <3>1, <3>3, <3>4, Zenon
    <2>3. ESC \in Byte
      BY ONLY TRUE DEF ESC, Byte
    <2>4. PICK h : h = Append(A, ESC)
      OBVIOUS
    <2>5. h \in Seq(Byte) /\ Len(h) = Len(A) + 1 /\ (\A j \in 1..Len(A) : h[j] = A[j])
          /\ h[Len(A) + 1] = ESC
      BY ONLY <2>3, <2>4, A \in Seq(Byte)
    <2>6. \A j \in 1..(p + 1) : d[j] = h[j]
      <3>1. \A j \in 1..(p + 1) : j \in 1..p \/ j = p + 1
        BY ONLY <1>n
      <3> QED
        BY <1>10, <2>2, <2>5, <3>1, Zenon
    <2>7. d = h
      <3>1. Len(d) = Len(h) /\ \A j \in 1..Len(d) : d[j] = h[j]
        BY <1>10, <2>2, <2>5, <2>6, Zenon
      <3> QED
        BY <1>13, <2>5, <3>1, SameString
    <2>8. Decode(ue, d) = DestuffStep(ue, [out |-> a, esc |-> FALSE], ESC)
      <3>1. Decode(ue, Append(A, ESC)) = DestuffStep(ue, Decode(ue, A), ESC)
        BY <2>3, DecodeSteps, Zenon
      <3> QED
        BY <1>4, <2>4, <2>7, <3>1, Zenon
    <2>9. Decode(ue, d).esc
      BY <2>8 DEF DestuffStep
    <2> QED
      BY <1>12, <2>9
  <1> QED
    <2>1. k - p = 1 \/ k - p = 2
      <3>1. k - p \in 1..n
        BY <1>11
      <3> QED
        BY ONLY <1>n, <1>k, <3>1
    <2> QED
      BY <1>14, <1>15, <2>1

\* Appending to a string of one byte.
LEMMA ShortAppends == \A z \in Byte, x \in Byte : Append(<<z>>, x) = <<z, x>>
  <1> SUFFICES ASSUME NEW z \in Byte, NEW x \in Byte PROVE Append(<<z>>, x) = <<z, x>>
    OBVIOUS
  <1>0. <<z>> \in Seq(Byte)
    OBVIOUS
  <1>1. /\ <<z, x>> \in Seq(Byte) /\ Len(<<z, x>>) = 2
        /\ <<z, x>>[1] = z /\ <<z, x>>[2] = x
    OBVIOUS
  <1>2. Append(<<z>>, x) \in Seq(Byte) /\ Len(Append(<<z>>, x)) = 2
    BY <1>0
  <1>3. Append(<<z>>, x)[1] = z
    BY <1>0
  <1>4. Append(<<z>>, x)[2] = x
    BY <1>0
  <1>5. \A k \in 1..2 : k = 1 \/ k = 2
    OBVIOUS
  <1>6. \A k \in 1..Len(<<z, x>>) : Append(<<z>>, x)[k] = <<z, x>>[k]
    BY <1>1, <1>3, <1>4, <1>5, Zenon
  <1> QED
    BY <1>1, <1>2, <1>6, SameString, Zenon

\* What the shortest strings decode to.
LEMMA ShortDecodings ==
  ASSUME NEW ue \in {Table, Flip}, NEW c \in Byte, NEW y \in Byte
  PROVE  /\ Decode(ue, <<>>) = [out |-> <<>>, esc |-> FALSE]
         /\ Decode(ue, <<ESC>>) = [out |-> <<>>, esc |-> TRUE]
         /\ Decode(ue, <<ESC, y>>) = [out |-> <<ue[y]>>, esc |-> FALSE]
         /\ c # ESC => Decode(ue, <<c>>) = [out |-> <<c>>, esc |-> FALSE]
         /\ c # ESC /\ y # ESC => Decode(ue, <<c, y>>) = [out |-> <<c, y>>, esc |-> FALSE]
  <1>1. ESC \in Byte
    BY DEF ESC, Byte
  <1>2. ASSUME NEW z \in Byte
        PROVE  /\ <<>> \in Seq(Byte) /\ <<z>> \in Seq(Byte) /\ Append(<<>>, z) = <<z>>
               /\ \A x \in Byte : Append(<<z>>, x) = <<z, x>>
    <2>1. <<>> \in Seq(Byte) /\ <<z>> \in Seq(Byte)
      OBVIOUS
    <2>2. Append(<<>>, z) = <<z>>
      OBVIOUS
    <2>3. \A x \in Byte : Append(<<z>>, x) = <<z, x>>
      BY ShortAppends
    <2> QED
      BY <2>1, <2>2, <2>3
  <1>3. Decode(ue, <<>>) = [out |-> <<>>, esc |-> FALSE]
    BY DecodeSteps DEF Nothing
  <1>4. ASSUME NEW z \in Byte
        PROVE  Decode(ue, <<z>>) = DestuffStep(ue, [out |-> <<>>, esc |-> FALSE], z)
    <2>1. Decode(ue, Append(<<>>, z)) = DestuffStep(ue, Decode(ue, <<>>), z)
      BY <1>2, DecodeSteps, Zenon
    <2> QED
      BY <1>2, <1>3, <2>1, Zenon
  <1>5. Decode(ue, <<ESC>>) = [out |-> <<>>, esc |-> TRUE]
    <2>1. Decode(ue, <<ESC>>) = DestuffStep(ue, [out |-> <<>>, esc |-> FALSE], ESC)
      BY <1>1, <1>4, Zenon
    <2> QED
      BY <2>1 DEF DestuffStep
  <1>6. ASSUME c # ESC PROVE Decode(ue, <<c>>) = [out |-> <<c>>, esc |-> FALSE]
    <2>1. Decode(ue, <<c>>) = DestuffStep(ue, [out |-> <<>>, esc |-> FALSE], c)
      BY <1>4, Zenon
    <2>2. DestuffStep(ue, [out |-> <<>>, esc |-> FALSE], c) = [out |-> Append(<<>>, c), esc |-> FALSE]
      BY <1>6 DEF DestuffStep
    <2> QED
      BY <1>2, <2>1, <2>2, Zenon
  <1>7. ASSUME NEW z \in Byte
        PROVE  Decode(ue, <<z, y>>) = DestuffStep(ue, Decode(ue, <<z>>), y)
    <2>1. Decode(ue, Append(<<z>>, y)) = DestuffStep(ue, Decode(ue, <<z>>), y)
      BY <1>2, DecodeSteps, Zenon
    <2> QED
      BY <1>2, <2>1, Zenon
  <1>8. Decode(ue, <<ESC, y>>) = [out |-> <<ue[y]>>, esc |-> FALSE]
    <2>1. ue[y] \in Byte
      BY TwoTables
    <2>2. DestuffStep(ue, [out |-> <<>>, esc |-> TRUE], y) = [out |-> Append(<<>>, ue[y]), esc |-> FALSE]
      BY DEF DestuffStep
    <2> QED
      BY <1>1, <1>2, <1>5, <1>7, <2>1, <2>2, Zenon
  <1>9. ASSUME c # ESC, y # ESC PROVE Decode(ue, <<c, y>>) = [out |-> <<c, y>>, esc |-> FALSE]
    <2>1. DestuffStep(ue, [out |-> <<c>>, esc |-> FALSE], y) = [out |-> Append(<<c>>, y), esc |-> FALSE]
      BY <1>9 DEF DestuffStep
    <2> QED
      BY <1>2, <1>6, <1>7, <1>9, <2>1, Zenon
  <1> QED
    BY <1>3, <1>5, <1>6, <1>8, <1>9

\* A string between stuffed ones is decoded as if it stood alone.
LEMMA DecodeAround ==
  ASSUME NEW ue \in {Table, Flip}, NEW a \in Seq(Byte), NEW g \in Seq(Byte), NEW b \in Seq(Byte),
         ~Decode(ue, g).esc
  PROVE  IsJoined(Decode(ue, StuffData(a) \o g \o StuffData(b)).out, a, Decode(ue, g).out, b)
  <1>1. PICK A \in Seq(Byte), B \in Seq(Byte) : A = StuffData(a) /\ B = StuffData(b)
    BY StuffedIsTransparent
  <1>2. Decode(ue, A).out = a /\ ~Decode(ue, A).esc /\ Decode(ue, B).out = b
    BY <1>1, DecodeSteps
  <1>3. /\ Decode(ue, A \o g).out = a \o Decode(ue, g).out
        /\ ~Decode(ue, A \o g).esc
    <2>1. /\ IsTwo(Decode(ue, A \o g).out, Decode(ue, A).out, Decode(ue, g).out)
          /\ (Decode(ue, A \o g).esc <=> Decode(ue, g).esc)
      BY <1>2, DecodeJoins, Zenon
    <2> QED
      BY <1>2, <2>1, Zenon DEF IsTwo
  <1>4. A \o g \in Seq(Byte)
    OBVIOUS
  <1>5. Decode(ue, (A \o g) \o B).out = (a \o Decode(ue, g).out) \o b
    <2>1. IsTwo(Decode(ue, (A \o g) \o B).out, Decode(ue, A \o g).out, Decode(ue, B).out)
      BY <1>3, <1>4, DecodeJoins, Zenon
    <2> QED
      BY <1>2, <1>3, <2>1, Zenon DEF IsTwo
  <1> QED
    BY <1>1, <1>5, Zenon DEF IsJoined

\* With g between stuffed strings, the frame's content is decoded to u.
Redecoded(ue, a, g, b, u) ==
    /\ u = Decode(ue, StuffData(a) \o g \o StuffData(b)).out
    /\ ~Decode(ue, StuffData(a) \o g \o StuffData(b)).esc
    /\ Whole(u)

\* What is decoded keeps its parts.
LEMMA RedecodedParts ==
  ASSUME NEW ue \in {Table, Flip}, NEW a \in Seq(Byte), NEW g \in Seq(Byte), NEW b \in Seq(Byte),
         NEW v \in Seq(Byte), Decode(ue, g) = [out |-> v, esc |-> FALSE],
         NEW u, Redecoded(ue, a, g, b, u)
  PROVE  IsJoined(u, a, v, b) /\ Parts(u, a, v, b) /\ Whole(u)
  <1>1. ~Decode(ue, g).esc /\ Decode(ue, g).out = v
    OBVIOUS
  <1>2. IsJoined(u, a, v, b)
    BY <1>1, DecodeAround, Zenon DEF Redecoded
  <1> QED
    BY <1>2, JoinedParts, Zenon DEF Redecoded

\* The byte x of a content m.
IsAt(m, a, x, b) == IsJoined(m, a, <<x>>, b)

\* A content around one of its bytes.
LEMMA IsAtParts ==
  ASSUME NEW a \in Seq(Byte), NEW x \in Byte, NEW b \in Seq(Byte), NEW m, IsAt(m, a, x, b)
  PROVE  Parts(m, a, <<x>>, b) /\ <<x>> \in Seq(Byte) /\ Len(<<x>>) = 1 /\ <<x>>[1] = x
  <1>1. <<x>> \in Seq(Byte) /\ Len(<<x>>) = 1 /\ <<x>>[1] = x
    OBVIOUS
  <1> QED
    BY <1>1, JoinedParts, Zenon DEF IsAt

\* A byte that is gone, and was not escaped.
LEMMA GoneIsNoticed ==
  ASSUME NEW ue \in {Table, Flip}, NEW a \in Seq(Byte), NEW x \in Byte, NEW b \in Seq(Byte),
         NEW m, IsAt(m, a, x, b), Whole(m), LengthTells(m),
         NEW u, Redecoded(ue, a, <<>>, b, u)
  PROVE  StateError(u[3])
  <1>1. Decode(ue, <<>>) = [out |-> <<>>, esc |-> FALSE]
    BY ShortDecodings
  <1>2. <<>> \in Seq(Byte) /\ Len(<<>>) = 0
    OBVIOUS
  <1>3. Parts(u, a, <<>>, b) /\ Whole(u)
    BY <1>1, <1>2, RedecodedParts, Zenon
  <1>4. Parts(m, a, <<x>>, b) /\ <<x>> \in Seq(Byte) /\ Len(<<x>>) = 1
    BY IsAtParts, Zenon
  <1> QED
    BY <1>2, <1>3, <1>4, LostByteIsNoticed, Zenon

\* Two bytes, when they leave the same checksum, are the same.
LEMMA SameByte ==
  ASSUME NEW x \in Byte, NEW c \in Byte, SameSum(<<c>>, <<x>>)
  PROVE  c = x
  <1>1. SumBytes(<<c>>) = c /\ SumBytes(<<x>>) = x
    <2>1. \A z \in Byte : <<z>> \in Seq(Byte) /\ Len(<<z>>) = 1 /\ <<z>>[1] = z
      OBVIOUS
    <2> QED
      BY <2>1, ShortSums, Zenon
  <1>2. (c - x) % 256 = 0
    BY <1>1, Zenon DEF SameSum
  <1>3. c \in 0..255 /\ x \in 0..255
    BY DEF Byte
  <1>4. c - x \in (-511)..511
    BY ONLY <1>3
  <1>5. c - x = -256 \/ c - x = 0 \/ c - x = 256
    BY <1>2, <1>4, SmallMultiples
  <1> QED
    BY ONLY <1>3, <1>5

\* One byte that stands for itself in place of x.
LEMMA OneIsNoticed ==
  ASSUME NEW ue \in {Table, Flip}, NEW a \in Seq(Byte), NEW x \in Byte, NEW b \in Seq(Byte),
         NEW m, IsAt(m, a, x, b), Whole(m), NEW c \in Byte, c # ESC,
         NEW u, Redecoded(ue, a, <<c>>, b, u)
  PROVE  c = x
  <1>1. Decode(ue, <<c>>) = [out |-> <<c>>, esc |-> FALSE] /\ <<c>> \in Seq(Byte)
    <2>1. <<c>> \in Seq(Byte)
      OBVIOUS
    <2> QED
      BY <2>1, ShortDecodings, Zenon
  <1>2. Parts(u, a, <<c>>, b) /\ Whole(u)
    BY <1>1, RedecodedParts, Zenon
  <1>3. Parts(m, a, <<x>>, b)
    BY IsAtParts, Zenon
  <1>4. SameSum(<<c>>, <<x>>)
    BY <1>2, <1>3, SumNotices, Zenon
  <1> QED
    BY <1>4, SameByte

\* An escape and any byte in place of x.
LEMMA EscapedIsNoticed ==
  ASSUME NEW ue \in {Table, Flip}, NEW a \in Seq(Byte), NEW x \in Byte, NEW b \in Seq(Byte),
         NEW m, IsAt(m, a, x, b), Whole(m), NEW c \in Byte,
         NEW u, Redecoded(ue, a, <<ESC, c>>, b, u)
  PROVE  u = m
  <1>1. PICK z \in Byte : z = ue[c]
    BY TwoTables
  <1>2. Decode(ue, <<ESC, c>>) = [out |-> <<z>>, esc |-> FALSE] /\ <<z>> \in Seq(Byte)
    <2>1. <<z>> \in Seq(Byte)
      OBVIOUS
    <2> QED
      BY <1>1, <2>1, ShortDecodings, Zenon
  <1>3. <<ESC, c>> \in Seq(Byte)
    BY DEF ESC, Byte
  <1>4. IsJoined(u, a, <<z>>, b) /\ Parts(u, a, <<z>>, b) /\ Whole(u)
    BY <1>2, <1>3, RedecodedParts, Zenon
  <1>5. Parts(m, a, <<x>>, b)
    BY IsAtParts, Zenon
  <1>6. SameSum(<<z>>, <<x>>)
    BY <1>4, <1>5, SumNotices, Zenon
  <1>7. z = x
    BY <1>6, SameByte
  <1> QED
    BY <1>4, <1>7, Zenon DEF IsAt, IsJoined

\* The escape of x has become another byte.
LEMMA BrokenIsNoticed ==
  ASSUME NEW ue \in {Table, Flip}, NEW a \in Seq(Byte), NEW x \in Byte, NEW b \in Seq(Byte),
         NEW m, IsAt(m, a, x, b), Whole(m), x \in Reserved, m[3] # m[4] + 1,
         NEW c \in Byte, c # ESC,
         NEW u, Redecoded(ue, a, <<c, FlipBit5(x)>>, b, u)
  PROVE  StateError(u[3])
  <1>1. PICK y \in Byte : y = FlipBit5(x) /\ y # ESC
    <2>1. FlipBit5(x) \in Byte
      BY UnescapeType
    <2>2. FlipBit5(x) # ESC
      BY ONLY x \in Reserved DEF FlipBit5, Reserved, ESC, SHDLC_STOP
    <2> QED
      BY <2>1, <2>2
  <1>2. Decode(ue, <<c, y>>) = [out |-> <<c, y>>, esc |-> FALSE]
    BY <1>1, ShortDecodings
  <1>3. <<c, y>> \in Seq(Byte) /\ Len(<<c, y>>) = 2 /\ <<c, y>>[2] = y
    OBVIOUS
  <1>4. Redecoded(ue, a, <<c, y>>, b, u)
    BY <1>1, Zenon
  <1>5. Parts(u, a, <<c, y>>, b) /\ Whole(u)
    BY <1>2, <1>3, <1>4, RedecodedParts, Zenon
  <1>6. Parts(m, a, <<x>>, b) /\ <<x>> \in Seq(Byte) /\ Len(<<x>>) = 1 /\ <<x>>[1] = x
    BY IsAtParts, Zenon
  <1>7. <<x>>[1] \in Reserved /\ <<c, y>>[2] = FlipBit5(<<x>>[1])
    BY <1>1, <1>3, <1>6, Zenon
  <1> QED
    BY <1>3, <1>5, <1>6, <1>7, EscapeBrokenIsNoticed, Zenon

\* Two bytes as a string.
LEMMA TwoBytes ==
  ASSUME NEW x \in Byte, NEW z \in Byte
  PROVE  /\ <<x>> \in Seq(Byte) /\ Len(<<x>>) = 1 /\ <<x>>[1] = x
         /\ <<x, z>> \in Seq(Byte) /\ Len(<<x, z>>) = 2
         /\ <<x, z>>[1] = x /\ <<x, z>>[2] = z
         /\ SumBytes(<<x, z>>) = x + z
         /\ IsTwo(<<x, z>>, <<x>>, <<z>>)
  <1>1. <<x>> \in Seq(Byte) /\ Len(<<x>>) = 1 /\ <<x>>[1] = x
    OBVIOUS
  <1>2. <<x, z>> \in Seq(Byte) /\ Len(<<x, z>>) = 2 /\ <<x, z>>[1] = x /\ <<x, z>>[2] = z
    OBVIOUS
  <1>3. SumBytes(<<x, z>>) = x + z
    BY <1>2, ShortSums, Zenon
  <1>4. IsTwo(<<x, z>>, <<x>>, <<z>>)
    <2>1. PICK v \in Seq(Byte) : v = <<x>> /\ Len(v) = 1 /\ v[1] = x
      BY <1>1
    <2>2. PICK w \in Seq(Byte) : w = <<z>> /\ Len(w) = 1 /\ w[1] = z
      <3>1. <<z>> \in Seq(Byte) /\ Len(<<z>>) = 1 /\ <<z>>[1] = z
        OBVIOUS
      <3> QED
        BY <3>1, Zenon
    <2>3. /\ v \o w \in Seq(Byte) /\ Len(v \o w) = 2
          /\ (v \o w)[1] = x /\ (v \o w)[2] = z
      BY ONLY <2>1, <2>2, v \in Seq(Byte), w \in Seq(Byte)
    <2>4. \A k \in 1..2 : k = 1 \/ k = 2
      OBVIOUS
    <2>5. \A k \in 1..Len(<<x, z>>) : <<x, z>>[k] = (v \o w)[k]
      BY <1>2, <2>3, <2>4, Zenon
    <2>6. <<x, z>> = v \o w
      BY <1>2, <2>3, <2>5, SameString, Zenon
    <2> QED
      BY <2>1, <2>2, <2>6, Zenon DEF IsTwo
  <1> QED
    BY <1>1, <1>2, <1>3, <1>4

\* The first byte of a string that is stuffed.
LEMMA StuffedHead ==
  ASSUME NEW b \in Seq(Byte), b # <<>>
  PROVE  \E z \in Byte, r \in Seq(Byte) :
             /\ z = b[1] /\ b = <<z>> \o r
             /\ StuffData(b) = StuffByte(z) \o StuffData(r)
  <1>1. PICK z \in Byte : z = b[1]
    OBVIOUS
  <1>2. PICK r : r = Tail(b)
    OBVIOUS
  <1>3. r \in Seq(Byte) /\ b = <<z>> \o r
    BY <1>1, <1>2
  <1>4. <<z>> \in Seq(Byte) /\ <<>> \in Seq(Byte) /\ Append(<<>>, z) = <<z>>
    OBVIOUS
  <1>5. StuffData(b) = StuffData(<<z>>) \o StuffData(r)
    BY <1>3, <1>4, StuffJoins
  <1>6. StuffData(<<z>>) = StuffByte(z)
    <2>1. StuffData(Append(<<>>, z)) = StuffData(<<>>) \o StuffByte(z) /\ StuffData(<<>>) = <<>>
      BY <1>4, StuffingSteps
    <2>2. StuffByte(z) \in Seq(Byte)
      BY StuffByteType
    <2>3. <<>> \o StuffByte(z) = StuffByte(z)
      BY <2>2
    <2> QED
      BY <1>4, <2>1, <2>3, Zenon
  <1> QED
    BY <1>1, <1>3, <1>5, <1>6, Zenon

\* Joining is associative, and adds lengths.  (Same keeps Zenon from rewriting.)
Same(u, v) == u = v

\* The grouping of joined strings does not matter.
LEMMA Regrouping ==
  \A p \in Seq(Byte), q \in Seq(Byte), t \in Seq(Byte) : (p \o q) \o t = p \o (q \o t)
  BY Regroup

\* The same, with the equality as a predicate.
LEMMA Regroups ==
  \A p \in Seq(Byte), q \in Seq(Byte), t \in Seq(Byte) : Same(p \o (q \o t), (p \o q) \o t)
  <1> SUFFICES ASSUME NEW p \in Seq(Byte), NEW q \in Seq(Byte), NEW t \in Seq(Byte)
               PROVE  Same(p \o (q \o t), (p \o q) \o t)
    BY Zenon
  <1>1. (p \o q) \o t = p \o (q \o t)
    BY Regroup
  <1> QED
    BY <1>1, Zenon DEF Same

\* The length of two joined strings.
LEMMA JoinLength ==
  \A s \in Seq(Byte), t \in Seq(Byte) :
      s \o t \in Seq(Byte) /\ Same(Len(s \o t), Len(s) + Len(t))
  <1> SUFFICES ASSUME NEW s \in Seq(Byte), NEW t \in Seq(Byte)
               PROVE  s \o t \in Seq(Byte) /\ Same(Len(s \o t), Len(s) + Len(t))
    BY Zenon
  <1>1. s \o t \in Seq(Byte) /\ Len(s \o t) = Len(s) + Len(t)
    BY JoinType
  <1> QED
    BY <1>1, Zenon DEF Same

\* Bytes of the stuffed rest counted to what stands in front of it.
LEMMA RedecodedMore ==
  ASSUME NEW ue \in {Table, Flip}, NEW a \in Seq(Byte), NEW g \in Seq(Byte), NEW b \in Seq(Byte),
         NEW h \in Seq(Byte), NEW r \in Seq(Byte), IsTwo(StuffData(b), h, StuffData(r)),
         NEW u, Redecoded(ue, a, g, b, u)
  PROVE  /\ Redecoded(ue, a, g \o h, r, u)
         /\ \A k : IsTwo(k, g, h) => Redecoded(ue, a, k, r, u)
  <1>1. PICK A \in Seq(Byte), R \in Seq(Byte) : A = StuffData(a) /\ R = StuffData(r)
    BY StuffedIsTransparent
  <1>2. A \o g \o (h \o R) = A \o (g \o h) \o R
    <2>1. A \o g \in Seq(Byte)
      OBVIOUS
    <2>2. (A \o g) \o (h \o R) = ((A \o g) \o h) \o R
      BY <2>1, Regroup, ZenonT(40)
    <2>3. (A \o g) \o h = A \o (g \o h)
      <3>1. A \in Seq(Byte) /\ g \in Seq(Byte) /\ h \in Seq(Byte)
        OBVIOUS
      <3> QED
        BY ONLY <3>1, Regrouping, ZenonT(40)
    <2> QED
      BY <2>2, <2>3, Zenon
  <1>3. StuffData(a) \o g \o StuffData(b) = StuffData(a) \o (g \o h) \o StuffData(r)
    BY <1>1, <1>2, Zenon DEF IsTwo
  <1>4. Redecoded(ue, a, g \o h, r, u)
    BY <1>3, Zenon DEF Redecoded
  <1> QED
    BY <1>4, Zenon DEF IsTwo

\* An escape where x stood, in front of an escape or of a byte that had none.
LEMMA EscapeIsNoticed ==
  ASSUME NEW ue \in {Table, Flip}, NEW a \in Seq(Byte), NEW x \in Byte, NEW b \in Seq(Byte),
         NEW m, IsAt(m, a, x, b), Whole(m), LengthTells(m), m[3] # 224,
         b # <<>> /\ b[1] \in Reserved => x \notin {61, 93, 157} /\ (ue = Flip => x # ESC),
         NEW u, Redecoded(ue, a, <<ESC>>, b, u)
  PROVE  StateError(u[3])
  <1>1. ESC \in Byte /\ <<ESC>> \in Seq(Byte)
    BY DEF ESC, Byte
  <1>2. CASE b = <<>>
    <2>1. PICK A \in Seq(Byte) : A = StuffData(a)
      BY StuffedIsTransparent
    <2>2. StuffData(b) = <<>>
      BY <1>2, StuffingSteps
    <2>3. A \o <<ESC>> \in Seq(Byte)
      BY <1>1
    <2>4. (A \o <<ESC>>) \o <<>> = A \o <<ESC>>
      BY <2>3
    <2>5. ~Decode(ue, A).esc
      BY <2>1, DecodeSteps
    <2>6. Decode(ue, A \o <<ESC>>).esc <=> Decode(ue, <<ESC>>).esc
      BY <1>1, <2>5, DecodeJoins, Zenon
    <2>7. Decode(ue, <<ESC>>).esc
      <3>1. Decode(ue, <<ESC>>) = [out |-> <<>>, esc |-> TRUE]
        BY <1>1, ShortDecodings, Zenon
      <3> QED
        BY <3>1
    <2> QED
      BY <2>1, <2>2, <2>4, <2>6, <2>7, Zenon DEF Redecoded
  <1>3. CASE b # <<>>
    <2>1. PICK z \in Byte, r \in Seq(Byte) :
            z = b[1] /\ b = <<z>> \o r /\ StuffData(b) = StuffByte(z) \o StuffData(r)
      BY <1>3, StuffedHead
    <2>2. Parts(m, a, <<x, z>>, r)
      <3>1. PICK v \in Seq(Byte), w \in Seq(Byte) : v = <<x>> /\ w = <<z>>
        BY TwoBytes, Zenon
      <3>2. <<x, z>> = v \o w /\ <<x, z>> \in Seq(Byte)
        <4>1. IsTwo(<<x, z>>, <<x>>, <<z>>) /\ <<x, z>> \in Seq(Byte)
          BY TwoBytes, Zenon
        <4> QED
          BY <3>1, <4>1, Zenon DEF IsTwo
      <3>3. a \o v \o (w \o r) = a \o (v \o w) \o r
        <4>1. a \o v \in Seq(Byte)
          BY ONLY a \in Seq(Byte), v \in Seq(Byte)
        <4>2. (a \o v) \o (w \o r) = ((a \o v) \o w) \o r
          BY ONLY <4>1, w \in Seq(Byte), r \in Seq(Byte), Regroup, SMTT(40)
        <4>3. (a \o v) \o w = a \o (v \o w)
          <5>1. Same(a \o (v \o w), (a \o v) \o w)
            BY Regroups, Zenon
          <5> QED
            BY <5>1, Zenon DEF Same
        <4> QED
          BY <4>2, <4>3, Zenon
      <3>4. m = a \o v \o (w \o r)
        BY <2>1, <3>1, Zenon DEF IsAt, IsJoined
      <3>5. IsJoined(m, a, <<x, z>>, r)
        BY <3>2, <3>3, <3>4, Zenon DEF IsJoined
      <3> QED
        BY <3>2, <3>5, JoinedParts, Zenon
    <2>3. CASE z \notin Reserved
      <3>1. StuffByte(z) = <<z>> /\ <<z>> \in Seq(Byte)
        BY <2>3 DEF StuffByte
      <3>2. IsTwo(<<ESC, z>>, <<ESC>>, <<z>>) /\ <<ESC, z>> \in Seq(Byte)
        BY <1>1, TwoBytes, Zenon
      <3>3. Redecoded(ue, a, <<ESC, z>>, r, u)
        <4>1. IsTwo(StuffData(b), <<z>>, StuffData(r))
          BY <2>1, <3>1, Zenon DEF IsTwo
        <4> QED
          BY <1>1, <3>1, <3>2, <4>1, RedecodedMore, Zenon
      <3>4. PICK c \in Byte : c = ue[z]
        BY TwoTables
      <3>5. <<c>> \in Seq(Byte) /\ Len(<<c>>) = 1 /\ <<c>>[1] = c
        BY TwoBytes, Zenon
      <3>6. Decode(ue, <<ESC, z>>) = [out |-> <<c>>, esc |-> FALSE]
        BY <3>4, ShortDecodings, Zenon
      <3>7. Parts(u, a, <<c>>, r) /\ Whole(u)
        BY <3>2, <3>3, <3>5, <3>6, RedecodedParts, ZenonT(40)
      <3>8. /\ <<x, z>> \in Seq(Byte) /\ Len(<<x, z>>) = 2 /\ <<x, z>>[2] = z
        BY TwoBytes, Zenon
      <3>9. <<c>>[1] = ue[<<x, z>>[2]]
        BY <3>4, <3>5, <3>8, Zenon
      <3> QED
        BY <2>2, <3>5, <3>7, <3>8, <3>9, EscapeMadeIsNoticed, ZenonT(40)
    <2>4. CASE z \in Reserved
      <3>1. PICK y \in Byte : y = FlipBit5(z) /\ y # ESC
        <4>1. FlipBit5(z) \in Byte
          BY UnescapeType
        <4>2. FlipBit5(z) # ESC
          BY ONLY <2>4 DEF FlipBit5, Reserved, ESC, SHDLC_STOP
        <4> QED
          BY <4>1, <4>2
      <3>2. StuffByte(z) = <<ESC, y>>
        BY <2>4, <3>1 DEF StuffByte
      <3>3. <<ESC, y>> \in Seq(Byte) /\ <<ESC, ESC>> \in Seq(Byte)
        BY <1>1, TwoBytes, Zenon
      <3>4. PICK g : g = <<ESC>> \o <<ESC, y>>
        OBVIOUS
      <3>5. Redecoded(ue, a, g, r, u)
        <4>1. IsTwo(StuffData(b), <<ESC, y>>, StuffData(r)) /\ IsTwo(g, <<ESC>>, <<ESC, y>>)
          BY <2>1, <3>2, <3>4, Zenon DEF IsTwo
        <4> QED
          BY <1>1, <3>3, <4>1, RedecodedMore, Zenon
      <3>6. PICK c \in Byte : c = ue[ESC]
        BY <1>1, TwoTables
      <3>7. /\ <<c>> \in Seq(Byte) /\ <<c, y>> \in Seq(Byte)
            /\ Len(<<c, y>>) = 2 /\ <<c, y>>[1] = c /\ <<c, y>>[2] = y
        BY TwoBytes, Zenon
      <3>a. g \in Seq(Byte) /\ g = Append(<<ESC, ESC>>, y)
        <4>1. <<ESC>> \o <<ESC>> = <<ESC, ESC>>
          <5>1. IsTwo(<<ESC, ESC>>, <<ESC>>, <<ESC>>)
            BY <1>1, TwoBytes, Zenon
          <5> QED
            BY <5>1, Zenon DEF IsTwo
        <4>2. <<ESC, y>> = Append(<<ESC>>, y)
          BY ShortAppends, <1>1, Zenon
        <4>3. Append(<<ESC>> \o <<ESC>>, y) = <<ESC>> \o Append(<<ESC>>, y)
          BY ONLY <1>1, y \in Byte, AppendBehind
        <4>4. g = Append(<<ESC, ESC>>, y)
          BY <3>4, <4>1, <4>2, <4>3, Zenon
        <4>5. Append(<<ESC, ESC>>, y) \in Seq(Byte)
          BY ONLY <3>3, y \in Byte
        <4> QED
          BY <4>4, <4>5, Zenon
      <3>8. Decode(ue, g) = [out |-> <<c, y>>, esc |-> FALSE]
        <4>1. Decode(ue, <<ESC, ESC>>) = [out |-> <<c>>, esc |-> FALSE]
          BY <1>1, <3>6, ShortDecodings, Zenon
        <4>2. Decode(ue, g) = DestuffStep(ue, [out |-> <<c>>, esc |-> FALSE], y)
          <5>1. Decode(ue, Append(<<ESC, ESC>>, y)) = DestuffStep(ue, Decode(ue, <<ESC, ESC>>), y)
            BY <3>3, DecodeSteps, Zenon
          <5> QED
            BY <3>a, <4>1, <5>1, Zenon
        <4>3. DestuffStep(ue, [out |-> <<c>>, esc |-> FALSE], y)
                = [out |-> Append(<<c>>, y), esc |-> FALSE]
          BY <3>1 DEF DestuffStep
        <4>4. Append(<<c>>, y) = <<c, y>>
          BY ShortAppends, Zenon
        <4> QED
          BY <4>2, <4>3, <4>4, Zenon
      <3>9. Parts(u, a, <<c, y>>, r) /\ Whole(u)
        BY <3>5, <3>7, <3>8, <3>a, RedecodedParts, ZenonT(60)
      <3>10. SameSum(<<c, y>>, <<x, z>>)
        BY <2>2, <3>9, SumNotices, Zenon
      <3>11. ((c + y) - (x + z)) % 256 = 0
        <4>1. SumBytes(<<c, y>>) = c + y
          BY <3>7, ShortSums, Zenon
        <4>2. SumBytes(<<x, z>>) = x + z
          <5>1. <<x, z>> \in Seq(Byte) /\ Len(<<x, z>>) = 2 /\ <<x, z>>[1] = x /\ <<x, z>>[2] = z
            BY TwoBytes, Zenon
          <5> QED
            BY <5>1, ShortSums, Zenon
        <4> QED
          BY <3>10, <4>1, <4>2, Zenon DEF SameSum
      <3>12. x \notin {61, 93, 157} /\ (ue = Flip => x # ESC)
        BY <1>3, <2>1, <2>4
      <3>13. \/ c = 125
             \/ ue = Flip /\ c = 93
        <4>1. FlipBit5(ESC) = 93 /\ UnstuffByte(ESC) = 125
          BY ONLY TRUE DEF FlipBit5, UnstuffByte, Reserved, ESC, SHDLC_STOP
        <4> QED
          BY <1>1, <3>6, <4>1, TwoTables
      <3>14. y = z + 32 \/ y = z - 32
        BY ONLY <2>4, <3>1 DEF FlipBit5, Reserved, ESC, SHDLC_STOP
      <3>15. /\ x \in 0..255 /\ c \in 0..255 /\ y \in 0..255 /\ z \in 0..255
        BY DEF Byte
      <3>16. (c + y) - (x + z) = -256 \/ (c + y) - (x + z) = 0 \/ (c + y) - (x + z) = 256
        <4>1. (c + y) - (x + z) \in (-511)..511
          BY ONLY <3>15
        <4> QED
          BY <3>11, <4>1, SmallMultiples
      <3>17. \/ x = 157 \/ x = 93
             \/ ue = Flip /\ x \in {125, 61}
        BY ONLY <3>13, <3>14, <3>15, <3>16
      <3> QED
        BY <3>12, <3>17 DEF ESC
    <2> QED
      BY <2>3, <2>4
  <1> QED
    BY <1>2, <1>3

-----------------------------------------------------------------------------
(* One byte of a frame replaced by others, or by none.                     *)

\* s is f with the bytes h in place of the byte at k.
Replaced(f, k, h, s) ==
    /\ s \in Seq(Byte) /\ Len(s) = Len(f) - 1 + Len(h)
    /\ \A j \in 1..(k - 1) : s[j] = f[j]
    /\ \A j \in 1..Len(h) : s[k - 1 + j] = h[j]
    /\ \A j \in 1..(Len(f) - k) : s[k - 1 + Len(h) + j] = f[k + j]

\* The parts around the byte stay.
LEMMA ReplacedJoins ==
  ASSUME NEW p \in Seq(Byte), NEW q \in Seq(Byte), NEW z \in Byte, NEW f, IsJoined(f, p, <<z>>, q),
         NEW h \in Seq(Byte), NEW s, Replaced(f, Len(p) + 1, h, s)
  PROVE  IsJoined(s, p, h, q)
  <1>1. PICK v : v = p \o h \o q
    OBVIOUS
  <1>2. IsJoined(v, p, h, q)
    BY <1>1, Zenon DEF IsJoined
  <1>3. Parts(v, p, h, q)
    BY <1>2, JoinedParts, Zenon
  <1>4. Parts(f, p, <<z>>, q) /\ Len(<<z>>) = 1
    <2>1. <<z>> \in Seq(Byte) /\ Len(<<z>>) = 1
      OBVIOUS
    <2> QED
      BY <2>1, JoinedParts, Zenon
  <1>5. PICK a, n, b : a = Len(p) /\ n = Len(h) /\ b = Len(q)
    OBVIOUS
  <1>n. a \in Nat /\ n \in Nat /\ b \in Nat
    BY <1>3, <1>5, Zenon DEF Parts
  <1>6. /\ v \in Seq(Byte) /\ Len(v) = a + n + b
        /\ \A k \in 1..a : v[k] = p[k]
        /\ \A k \in 1..n : v[a + k] = h[k]
        /\ \A k \in 1..b : v[a + n + k] = q[k]
    BY <1>3, <1>5, Zenon DEF Parts
  <1>7. /\ Len(f) = a + 1 + b
        /\ \A k \in 1..a : f[k] = p[k]
        /\ \A k \in 1..b : f[a + 1 + k] = q[k]
    BY <1>4, <1>5, Zenon DEF Parts
  <1>k. PICK k : k = Len(p) + 1
    OBVIOUS
  <1>8. /\ s \in Seq(Byte) /\ Len(s) = Len(f) - 1 + n
        /\ \A j \in 1..(k - 1) : s[j] = f[j]
        /\ \A j \in 1..n : s[k - 1 + j] = h[j]
        /\ \A j \in 1..(Len(f) - k) : s[k - 1 + n + j] = f[k + j]
    <2>1. Replaced(f, k, h, s)
      BY <1>k, Zenon
    <2> QED
      BY <1>5, <2>1, Zenon DEF Replaced
  <1>9. Len(s) = a + n + b /\ Len(f) - k = b /\ k - 1 = a /\ k = a + 1
    BY ONLY <1>n, <1>5, <1>7, <1>8, <1>k
  <1>10. /\ \A j \in 1..a : s[j] = p[j]
         /\ \A j \in 1..n : s[a + j] = h[j]
         /\ \A j \in 1..b : s[a + n + j] = q[j]
    BY <1>7, <1>8, <1>9, ZenonT(40)
  <1>11. \A j \in 1..(a + n + b) : s[j] = v[j]
    <2> SUFFICES ASSUME NEW j \in 1..(a + n + b) PROVE s[j] = v[j]
      OBVIOUS
    <2>1. CASE j \in 1..a
      BY <1>6, <1>10, <2>1, Zenon
    <2>2. CASE j - a \in 1..n
      <3>1. a + (j - a) = j
        BY ONLY <1>n, j \in 1..(a + n + b)
      <3>2. s[a + (j - a)] = v[a + (j - a)]
        BY <1>6, <1>10, <2>2, Zenon
      <3> QED
        BY <3>1, <3>2, Zenon
    <2>3. CASE j - (a + n) \in 1..b
      <3>1. a + n + (j - (a + n)) = j
        BY ONLY <1>n, j \in 1..(a + n + b)
      <3>2. s[a + n + (j - (a + n))] = v[a + n + (j - (a + n))]
        BY <1>6, <1>10, <2>3, Zenon
      <3> QED
        BY <3>1, <3>2, Zenon
    <2>4. j \in 1..a \/ j - a \in 1..n \/ j - (a + n) \in 1..b
      <3>1. j \in 1..(a + n + b)
        OBVIOUS
      <3> QED
        BY ONLY <1>n, <3>1
    <2> QED
      BY <2>1, <2>2, <2>3, <2>4, Zenon
  <1>12. s = v
    <2>1. Len(s) = Len(v) /\ \A j \in 1..Len(s) : s[j] = v[j]
      BY <1>6, <1>9, <1>11, Zenon
    <2> QED
      BY <1>6, <1>8, <2>1, SameString
  <1> QED
    BY <1>2, <1>12, Zenon

\* Nothing but the bytes joined.
LEMMA JoinedOfNone ==
  \A p \in Seq(Byte) : p \o <<>> = p /\ <<>> \o p = p
  OBVIOUS

\* A byte between the delimiters of a frame: the bytes p and q around it, and the byte
\* x of the content that it or it and its escape stand for.
BytesAround(f, k, p, z, q) ==
    p \in Seq(Byte) /\ q \in Seq(Byte) /\ z \in Byte /\ IsJoined(f, p, <<z>>, q) /\ Len(p) + 1 = k

StandsFor(x, v, z, w) ==
    \/ x \notin Reserved /\ v = <<>> /\ z = x /\ w = <<>>
    \/ x \in Reserved /\ v = <<>> /\ z = ESC /\ w = <<FlipBit5(x)>>
    \/ x \in Reserved /\ v = <<ESC>> /\ z = FlipBit5(x) /\ w = <<>>

\* Each byte of a stuffed byte, with what is before and behind it.
LEMMA StuffedParts ==
  ASSUME NEW x \in Byte, NEW j \in 1..Len(StuffByte(x))
  PROVE  \E v \in Seq(Byte), z \in Byte, w \in Seq(Byte) :
             /\ StandsFor(x, v, z, w) /\ Len(v) + 1 = j
             /\ IsJoined(StuffByte(x), v, <<z>>, w)
  <1>1. PICK y \in Byte : y = FlipBit5(x)
    BY UnescapeType
  <1>2. ESC \in Byte
    BY DEF ESC, Byte
  <1>3. \A z \in Byte : <<z>> \in Seq(Byte) /\ Len(<<z>>) = 1
    OBVIOUS
  <1>4. <<>> \in Seq(Byte) /\ Len(<<>>) = 0
    OBVIOUS
  <1>5. CASE x \notin Reserved
    <2>1. StuffByte(x) = <<x>>
      BY <1>5 DEF StuffByte
    <2>2. j = 1 /\ Len(<<>>) + 1 = j
      BY <1>3, <1>4, <2>1
    <2>3. <<>> \o <<x>> \o <<>> = <<x>>
      BY <1>3, <1>4, JoinedOfNone, Zenon
    <2>4. IsJoined(StuffByte(x), <<>>, <<x>>, <<>>)
      BY <2>1, <2>3, Zenon DEF IsJoined
    <2>5. StandsFor(x, <<>>, x, <<>>)
      BY <1>5, Zenon DEF StandsFor
    <2> QED
      BY <1>4, <2>2, <2>4, <2>5, Zenon
  <1>6. CASE x \in Reserved
    <2>1. StuffByte(x) = <<ESC, y>>
      BY <1>1, <1>6 DEF StuffByte
    <2>2. IsTwo(<<ESC, y>>, <<ESC>>, <<y>>) /\ Len(<<ESC, y>>) = 2 /\ <<ESC, y>> \in Seq(Byte)
      BY <1>2, TwoBytes, Zenon
    <2>3. StuffByte(x) = <<ESC>> \o <<y>> /\ StuffByte(x) \in Seq(Byte)
      BY <2>1, <2>2, Zenon DEF IsTwo
    <2>4. <<>> \o <<ESC>> = <<ESC>> /\ StuffByte(x) \o <<>> = StuffByte(x)
      BY <1>2, <1>3, <2>3, JoinedOfNone, Zenon
    <2>5. IsJoined(StuffByte(x), <<>>, <<ESC>>, <<y>>) /\ IsJoined(StuffByte(x), <<ESC>>, <<y>>, <<>>)
      BY <2>3, <2>4, Zenon DEF IsJoined
    <2>6. StandsFor(x, <<>>, ESC, <<y>>) /\ StandsFor(x, <<ESC>>, y, <<>>)
      BY <1>1, <1>6, Zenon DEF StandsFor
    <2>7. j = 1 \/ j = 2
      BY <2>1, <2>2
    <2>8. /\ Len(<<>>) + 1 = 1 /\ Len(<<ESC>>) + 1 = 2
      BY <1>2, <1>3, <1>4
    <2> QED
      BY <1>2, <1>3, <1>4, <2>5, <2>6, <2>7, <2>8, Zenon
  <1> QED
    BY <1>5, <1>6

\* The parts of a frame, joined in another order.
LEMMA SevenParts ==
  ASSUME NEW f \in Seq(Byte), NEW a \in Seq(Byte), NEW v \in Seq(Byte), NEW z \in Seq(Byte),
         NEW w \in Seq(Byte), NEW b \in Seq(Byte), NEW e \in Seq(Byte)
  PROVE  IsJoined(f \o (a \o (v \o z \o w) \o b) \o e, f \o a \o v, z, w \o b \o e)
  <1>1. \A s \in Seq(Byte), t \in Seq(Byte) : s \o t \in Seq(Byte)
    BY JoinType
  <1>2. /\ v \o z \in Seq(Byte) /\ a \o v \in Seq(Byte) /\ w \o b \in Seq(Byte)
        /\ (a \o v) \o z \in Seq(Byte) /\ f \o (a \o v) \in Seq(Byte)
        /\ (f \o (a \o v)) \o z \in Seq(Byte)
    BY <1>1, Zenon
  <1>3. a \o ((v \o z) \o w) = ((a \o v) \o z) \o w
    <2>1. Same(a \o ((v \o z) \o w), (a \o (v \o z)) \o w)
      BY <1>2, Regroups, Zenon
    <2>2. Same(a \o (v \o z), (a \o v) \o z)
      BY Regroups, Zenon
    <2> QED
      BY <2>1, <2>2, Zenon DEF Same
  <1>4. (((a \o v) \o z) \o w) \o b = ((a \o v) \o z) \o (w \o b)
    <2>1. Same(((a \o v) \o z) \o (w \o b), (((a \o v) \o z) \o w) \o b)
      BY <1>2, Regroups, Zenon
    <2> QED
      BY <2>1, Zenon DEF Same
  <1>5. f \o (((a \o v) \o z) \o (w \o b)) = ((f \o (a \o v)) \o z) \o (w \o b)
    <2>1. Same(f \o (((a \o v) \o z) \o (w \o b)), (f \o ((a \o v) \o z)) \o (w \o b))
      BY <1>2, Regroups, Zenon
    <2>2. Same(f \o ((a \o v) \o z), (f \o (a \o v)) \o z)
      BY <1>2, Regroups, Zenon
    <2> QED
      BY <2>1, <2>2, Zenon DEF Same
  <1>6. (((f \o (a \o v)) \o z) \o (w \o b)) \o e = ((f \o (a \o v)) \o z) \o ((w \o b) \o e)
    <2>1. Same(((f \o (a \o v)) \o z) \o ((w \o b) \o e), (((f \o (a \o v)) \o z) \o (w \o b)) \o e)
      BY <1>2, Regroups, Zenon
    <2> QED
      BY <2>1, Zenon DEF Same
  <1>7. f \o (a \o v) = (f \o a) \o v
    <2>1. Same(f \o (a \o v), (f \o a) \o v)
      BY Regroups, Zenon
    <2> QED
      BY <2>1, Zenon DEF Same
  <1> QED
    BY <1>3, <1>4, <1>5, <1>6, <1>7, Zenon DEF IsJoined

\* A byte between the delimiters: the byte x of the content that it stands for, alone or
\* with an escape, and the stuffed rest.
FramePlace(m, f, k, a, x, b, v, z, w) ==
    /\ a \in Seq(Byte) /\ x \in Byte /\ b \in Seq(Byte) /\ IsAt(m, a, x, b)
    /\ v \in Seq(Byte) /\ z \in Byte /\ w \in Seq(Byte) /\ StandsFor(x, v, z, w)
    /\ BytesAround(f, k, <<SHDLC_START>> \o StuffData(a) \o v, z, w \o StuffData(b) \o <<SHDLC_STOP>>)

\* Each byte between the delimiters has its place.
LEMMA FrameByteAt ==
  ASSUME NEW m \in Seq(Byte), NEW f, IsFramed(f, StuffData(m)), NEW k \in 2..(Len(f) - 1)
  PROVE  \E a, x, b, v, z, w : FramePlace(m, f, k, a, x, b, v, z, w)
  <1>1. PICK i : i = k - 1 /\ i \in 1..Len(StuffData(m))
    <2>1. StuffData(m) \in Seq(Byte)
      BY StuffedIsTransparent
    <2>2. k - 1 \in 1..Len(StuffData(m))
      BY <2>1, FrameParts DEF IsFramed
    <2> QED
      BY <2>2
  <1>2. PICK a \in Seq(Byte), x \in Byte, b \in Seq(Byte) :
          m = a \o <<x>> \o b /\ i - Len(StuffData(a)) \in 1..Len(StuffByte(x))
    BY <1>1, StuffedByteAt
  <1>3. PICK A \in Seq(Byte), B \in Seq(Byte), W \in Seq(Byte) :
          A = StuffData(a) /\ B = StuffData(b) /\ W = StuffByte(x)
    BY StuffedIsTransparent, StuffByteType
  <1>4. PICK v \in Seq(Byte), z \in Byte, w \in Seq(Byte) :
          /\ StandsFor(x, v, z, w) /\ Len(v) + 1 = i - Len(A) /\ IsJoined(W, v, <<z>>, w)
    BY <1>2, <1>3, StuffedParts, Zenon
  <1>5. IsAt(m, a, x, b)
    BY <1>2, Zenon DEF IsAt, IsJoined
  <1>6. StuffData(m) = A \o W \o B
    <2>1. <<x>> \in Seq(Byte) /\ <<>> \in Seq(Byte) /\ Append(<<>>, x) = <<x>>
      OBVIOUS
    <2>2. StuffData(<<x>>) = W
      <3>1. StuffData(Append(<<>>, x)) = StuffData(<<>>) \o StuffByte(x) /\ StuffData(<<>>) = <<>>
        BY <2>1, StuffingSteps
      <3> QED
        BY <1>3, <2>1, <3>1, JoinedOfNone, Zenon
    <2>3. PICK ax \in Seq(Byte) : ax = a \o <<x>>
      BY <2>1, JoinType
    <2>4. StuffData(ax) = StuffData(a) \o StuffData(<<x>>)
      BY <2>1, <2>3, StuffJoins
    <2>5. StuffData(ax \o b) = StuffData(ax) \o StuffData(b)
      BY StuffJoins
    <2> QED
      BY <1>2, <1>3, <2>2, <2>3, <2>4, <2>5, Zenon
  <1>7. PICK S \in Seq(Byte), E \in Seq(Byte), Z \in Seq(Byte) :
          S = <<SHDLC_START>> /\ E = <<SHDLC_STOP>> /\ Z = <<z>> /\ Len(S) = 1
    <2>1. SHDLC_START \in Byte /\ SHDLC_STOP \in Byte
      BY DEF SHDLC_START, SHDLC_STOP, Byte
    <2>2. \A c \in Byte : <<c>> \in Seq(Byte) /\ Len(<<c>>) = 1
      OBVIOUS
    <2> QED
      BY <2>1, <2>2, Zenon
  <1>8. IsJoined(f, S \o A \o v, Z, w \o B \o E)
    <2>1. f = S \o (A \o (v \o Z \o w) \o B) \o E
      BY <1>4, <1>6, <1>7, Zenon DEF IsFramed, IsJoined
    <2> QED
      BY <2>1, SevenParts, Zenon
  <1>9. S \o A \o v \in Seq(Byte) /\ w \o B \o E \in Seq(Byte) /\ Len(S \o A \o v) = 1 + Len(A) + Len(v)
    <2>0. /\ S \in Seq(Byte) /\ A \in Seq(Byte) /\ v \in Seq(Byte) /\ Len(S) = 1
          /\ w \in Seq(Byte) /\ B \in Seq(Byte) /\ E \in Seq(Byte)
      BY <1>7
    <2>1. S \o A \in Seq(Byte) /\ w \o B \in Seq(Byte) /\ Same(Len(S \o A), Len(S) + Len(A))
      BY <2>0, JoinLength, Zenon
    <2>2. (S \o A) \o v \in Seq(Byte) /\ Same(Len((S \o A) \o v), Len(S \o A) + Len(v))
      BY <2>0, <2>1, JoinLength, Zenon
    <2>3. (w \o B) \o E \in Seq(Byte)
      BY <2>0, <2>1, JoinLength, Zenon
    <2> QED
      BY <2>0, <2>1, <2>2, <2>3, Zenon DEF Same
  <1>10. Len(S \o A \o v) + 1 = k
    <2>1. Len(A) \in Nat /\ Len(v) \in Nat /\ k \in Int
      BY <1>1
    <2>2. Len(v) + 1 = i - Len(A) /\ i = k - 1 /\ Len(S \o A \o v) = 1 + Len(A) + Len(v)
      BY <1>1, <1>4, <1>9
    <2> QED
      BY ONLY <2>1, <2>2
  <1>11. BytesAround(f, k, S \o A \o v, z, w \o B \o E)
    BY <1>7, <1>8, <1>9, <1>10, Zenon DEF BytesAround
  <1> QED
    BY <1>3, <1>4, <1>5, <1>7, <1>11, Zenon DEF FramePlace

\* Other bytes in its place are other bytes between the same stuffed strings.
LEMMA ReplacedFrame ==
  ASSUME NEW m, NEW f, NEW k, NEW a, NEW x, NEW b, NEW v, NEW z, NEW w,
         FramePlace(m, f, k, a, x, b, v, z, w), NEW h \in Seq(Byte), NEW s, Replaced(f, k, h, s)
  PROVE  IsFramed(s, StuffData(a) \o (v \o h \o w) \o StuffData(b))
  <1>1. /\ a \in Seq(Byte) /\ b \in Seq(Byte) /\ v \in Seq(Byte) /\ w \in Seq(Byte) /\ z \in Byte
    BY Zenon DEF FramePlace
  <1>2. PICK A \in Seq(Byte), B \in Seq(Byte) : A = StuffData(a) /\ B = StuffData(b)
    BY <1>1, StuffedIsTransparent
  <1>3. PICK S \in Seq(Byte), E \in Seq(Byte) : S = <<SHDLC_START>> /\ E = <<SHDLC_STOP>>
    <2>1. SHDLC_START \in Byte /\ SHDLC_STOP \in Byte
      BY DEF SHDLC_START, SHDLC_STOP, Byte
    <2>2. \A c \in Byte : <<c>> \in Seq(Byte)
      OBVIOUS
    <2> QED
      BY <2>1, <2>2, Zenon
  <1>4. BytesAround(f, k, S \o A \o v, z, w \o B \o E)
    BY <1>2, <1>3, Zenon DEF FramePlace
  <1>5. IsJoined(s, S \o A \o v, h, w \o B \o E)
    <2>1. PICK p \in Seq(Byte), q \in Seq(Byte) : p = S \o A \o v /\ q = w \o B \o E
      BY <1>4, Zenon DEF BytesAround
    <2>2. IsJoined(f, p, <<z>>, q) /\ Len(p) + 1 = k
      BY <1>4, <2>1, Zenon DEF BytesAround
    <2>3. Replaced(f, Len(p) + 1, h, s)
      BY <2>2, Zenon
    <2>4. IsJoined(s, p, h, q)
      BY <1>1, <2>2, <2>3, ReplacedJoins, Zenon
    <2> QED
      BY <2>1, <2>4, Zenon
  <1>6. IsJoined(S \o (A \o (v \o h \o w) \o B) \o E, S \o A \o v, h, w \o B \o E)
    BY <1>1, SevenParts, Zenon
  <1>7. s = S \o (A \o (v \o h \o w) \o B) \o E
    BY <1>5, <1>6, Zenon DEF IsJoined
  <1> QED
    BY <1>2, <1>3, <1>7, Zenon DEF IsFramed

\* An escape starts the stuffed rest if its first byte is reserved.
LEMMA NextIsEscape ==
  ASSUME NEW m, NEW f \in Seq(Byte), NEW k \in Nat, NEW a, NEW x, NEW b, NEW v, NEW z, NEW w,
         FramePlace(m, f, k, a, x, b, v, z, w), w = <<>>, b # <<>>, b[1] \in Reserved
  PROVE  Same(f[k + 1], ESC)
  <1>1. b \in Seq(Byte) /\ z \in Byte /\ <<z>> \in Seq(Byte) /\ Len(<<z>>) = 1 /\ <<z>>[1] = z
    <2>1. b \in Seq(Byte) /\ z \in Byte
      BY Zenon DEF FramePlace
    <2>2. \A c \in Byte : <<c>> \in Seq(Byte) /\ Len(<<c>>) = 1 /\ <<c>>[1] = c
      OBVIOUS
    <2> QED
      BY <2>1, <2>2, Zenon
  <1>2. PICK c \in Byte, r \in Seq(Byte) : c = b[1] /\ StuffData(b) = StuffByte(c) \o StuffData(r)
    BY <1>1, StuffedHead, Zenon
  <1>3. PICK y \in Byte : StuffByte(c) = <<ESC, y>>
    BY <1>2, UnescapeType DEF StuffByte
  <1>4. PICK p \in Seq(Byte), q \in Seq(Byte) :
          /\ q = w \o StuffData(b) \o <<SHDLC_STOP>>
          /\ IsJoined(f, p, <<z>>, q) /\ Len(p) + 1 = k
    BY Zenon DEF FramePlace, BytesAround
  <1>5. Parts(f, p, <<z>>, q)
    BY <1>1, <1>4, JoinedParts, Zenon
  <1>6. Len(q) > 0 /\ q[1] = ESC
    <2>1. PICK B \in Seq(Byte), R \in Seq(Byte) : B = StuffData(b) /\ R = StuffData(r)
      BY <1>1, StuffedIsTransparent
    <2>2. PICK e \in Seq(Byte), E \in Seq(Byte) : e = <<ESC, y>> /\ E = <<SHDLC_STOP>>
      <3>1. ESC \in Byte /\ SHDLC_STOP \in Byte
        BY DEF ESC, SHDLC_STOP, Byte
      <3>2. \A d \in Byte : <<d>> \in Seq(Byte) /\ <<d, y>> \in Seq(Byte)
        OBVIOUS
      <3> QED
        BY <3>1, <3>2, Zenon
    <2>3. Len(e) = 2 /\ e[1] = ESC
      BY <2>2
    <2>4. B = e \o R
      BY <1>2, <1>3, <2>1, <2>2, Zenon
    <2>5. Len(B) >= 1 /\ B[1] = ESC
      <3>1. e \in Seq(Byte) /\ R \in Seq(Byte)
        OBVIOUS
      <3>2. Same(Len(e \o R), Len(e) + Len(R))
        BY JoinLength, Zenon
      <3>3. Len(B) = Len(e) + Len(R) /\ Len(R) \in Nat
        <4>1. Len(R) \in Nat
          OBVIOUS
        <4> QED
          BY <2>4, <3>2, <4>1, Zenon DEF Same
      <3>4. (e \o R)[1] = e[1]
        <4>1. 1 \in 1..Len(e)
          BY <2>3
        <4> QED
          BY ONLY <3>1, <4>1, FirstOfTwo
      <3>5. B[1] = ESC
        BY <2>3, <2>4, <3>4, Zenon
      <3> QED
        BY ONLY <2>3, <3>3, <3>5
    <2>6. q = B \o E
      <3>1. <<>> \o B = B
        BY JoinedOfNone, Zenon
      <3> QED
        BY <1>4, <2>1, <2>2, <3>1, Zenon
    <2> QED
      BY ONLY <2>5, <2>6, B \in Seq(Byte), E \in Seq(Byte)
  <1>7. PICK n, l : n = Len(p) /\ l = Len(q)
    OBVIOUS
  <1>8. n \in Nat /\ l \in Nat /\ l > 0 /\ k = n + 1 /\ Len(f) = n + 1 + l
    <2>1. n \in Nat /\ l \in Nat /\ Len(f) = n + 1 + l
      BY <1>1, <1>5, <1>7, Zenon DEF Parts
    <2>2. l > 0 /\ n + 1 = k
      BY <1>4, <1>6, <1>7
    <2> QED
      BY <2>1, <2>2
  <1>9. f[n + 1] = z /\ f[n + 1 + 1] = ESC
    <2>1. 1 \in 1..1 /\ 1 \in 1..l
      BY ONLY <1>8
    <2>2. f[n + 1] = <<z>>[1] /\ f[n + 1 + 1] = q[1]
      BY <1>1, <1>5, <1>7, <2>1, Zenon DEF Parts
    <2> QED
      BY <1>1, <1>6, <2>2, Zenon
  <1> QED
    BY <1>8, <1>9, Zenon DEF Same

\* The byte at its place.
LEMMA ByteAtPlace ==
  ASSUME NEW m, NEW f, NEW k \in Nat, NEW a, NEW x, NEW b, NEW v, NEW z, NEW w,
         FramePlace(m, f, k, a, x, b, v, z, w)
  PROVE  f[k] = z
  <1>1. z \in Byte
    BY Zenon DEF FramePlace
  <1>2. <<z>> \in Seq(Byte) /\ Len(<<z>>) = 1 /\ <<z>>[1] = z
    BY <1>1
  <1>3. PICK p \in Seq(Byte), q \in Seq(Byte) : IsJoined(f, p, <<z>>, q) /\ Len(p) + 1 = k
    BY Zenon DEF FramePlace, BytesAround
  <1>4. Parts(f, p, <<z>>, q)
    BY <1>2, <1>3, JoinedParts, Zenon
  <1>5. 1 \in 1..Len(<<z>>)
    BY <1>2
  <1>6. f[Len(p) + 1] = <<z>>[1]
    BY <1>4, <1>5, Zenon DEF Parts
  <1> QED
    BY <1>2, <1>3, <1>6, Zenon

\* What a response found in the frame is decoded from.
LEMMA FoundIsRedecoded ==
  ASSUME NEW ue \in {Table, Flip}, NEW m, Whole(m),
         NEW a \in Seq(Byte), NEW x \in Byte, NEW b \in Seq(Byte), IsAt(m, a, x, b),
         NEW g \in Seq(Byte), Len(g) <= 2, Len(g) = 2 /\ g[2] = SHDLC_STOP => g[1] = ESC,
         NEW s, IsFramed(s, StuffData(a) \o g \o StuffData(b)),
         NEW e, NEW d, NEW u, FoundIn(ue, s, e, d, u)
  PROVE  Redecoded(ue, a, g, b, u)
  <1>1. Parts(m, a, <<x>>, b) /\ <<x>> \in Seq(Byte) /\ Len(<<x>>) = 1
    BY IsAtParts, Zenon
  <1>2. Len(<<x>>) > 0
    BY <1>1
  <1>3. d = StuffData(a) \o g \o StuffData(b)
    BY <1>1, <1>2, FoundAround, Zenon
  <1> QED
    BY <1>3, Zenon DEF FoundIn, Redecoded

\* One byte of a frame replaced or lost.
LEMMA ReplacedIsNoticed ==
  ASSUME NEW ue \in {Table, Flip}, NEW m \in Seq(Byte), Whole(m),
         LengthTells(m), m[3] \notin {m[4] + 1, 224},
         NEW f \in Seq(Byte), IsFramed(f, StuffData(m)), NEW k \in 2..(Len(f) - 1),
         NEW h \in Seq(Byte), NEW s, Replaced(f, k, h, s),
         \/ h = <<>> /\ ue = Table
         \/ \E c \in Byte : /\ h = <<c>> /\ c # f[k]
                            /\ ~(c = ESC /\ k < Len(f) /\ f[k + 1] = ESC /\ f[k] \in {61, 93, 157}),
         NEW e, NEW d, NEW u, FoundIn(ue, s, e, d, u)
  PROVE  u = m \/ StateError(u[3])
  <1>1. PICK a, x, b, v, z, w : FramePlace(m, f, k, a, x, b, v, z, w)
    BY FrameByteAt, Zenon
  <1>2. /\ a \in Seq(Byte) /\ x \in Byte /\ b \in Seq(Byte) /\ IsAt(m, a, x, b)
        /\ v \in Seq(Byte) /\ z \in Byte /\ w \in Seq(Byte) /\ StandsFor(x, v, z, w)
    BY <1>1, Zenon DEF FramePlace
  <1>3. IsFramed(s, StuffData(a) \o (v \o h \o w) \o StuffData(b))
    BY <1>1, ReplacedFrame, Zenon
  <1>k. k \in Nat
    OBVIOUS
  <1>4. f[k] = z
    BY <1>1, <1>k, ByteAtPlace, Zenon
  <1>5. w = <<>> /\ b # <<>> /\ b[1] \in Reserved => k < Len(f) /\ f[k + 1] = ESC
    <2>1. w = <<>> /\ b # <<>> /\ b[1] \in Reserved => Same(f[k + 1], ESC)
      BY <1>1, <1>k, NextIsEscape, Zenon
    <2>2. k < Len(f)
      BY f \in Seq(Byte), k \in 2..(Len(f) - 1)
    <2> QED
      BY <2>1, <2>2, Zenon DEF Same
  <1>6. ASSUME NEW g \in Seq(Byte), g = v \o h \o w, Len(g) <= 2,
               Len(g) = 2 /\ g[2] = SHDLC_STOP => g[1] = ESC
        PROVE  Redecoded(ue, a, g, b, u)
    BY <1>2, <1>3, <1>6, FoundIsRedecoded, ZenonT(40)
  <1>7. /\ ESC \in Byte /\ ESC \in Reserved
        /\ \A c \in Byte : <<c>> \in Seq(Byte) /\ Len(<<c>>) = 1 /\ Len(<<c>>) <= 2 /\ Len(<<c>>) # 2
        /\ <<>> \in Seq(Byte) /\ Len(<<>>) <= 2 /\ Len(<<>>) # 2
    <2>1. ESC \in Byte /\ ESC \in Reserved
      BY DEF ESC, Byte, Reserved
    <2>2. \A c \in Byte : <<c>> \in Seq(Byte) /\ Len(<<c>>) = 1
      BY TwoBytes, Zenon
    <2>3. <<>> \in Seq(Byte) /\ Len(<<>>) = 0
      OBVIOUS
    <2> QED
      BY <2>1, <2>2, <2>3
  <1>8. \A c \in Byte, y \in Byte :
          <<c, y>> \in Seq(Byte) /\ Len(<<c, y>>) <= 2 /\ <<c, y>>[1] = c /\ <<c, y>>[2] = y
    OBVIOUS
  <1>9. m[3] # 224 /\ m[3] # m[4] + 1
    OBVIOUS
  <1>10. CASE x \notin Reserved /\ v = <<>> /\ z = x /\ w = <<>>
    <2>1. v \o h \o w = h
      <3>1. <<>> \o h = h /\ h \o <<>> = h
        BY JoinedOfNone, Zenon
      <3> QED
        BY <1>10, <3>1, Zenon
    <2>2. CASE h = <<>>
      <3>1. Redecoded(ue, a, <<>>, b, u)
        BY <1>6, <1>7, <2>1, <2>2, Zenon
      <3> QED
        BY <1>2, <3>1, GoneIsNoticed, Zenon
    <2>3. CASE h # <<>>
      <3>1. PICK c \in Byte : /\ h = <<c>> /\ c # x
                              /\ ~(c = ESC /\ k < Len(f) /\ f[k + 1] = ESC /\ x \in {61, 93, 157})
        <4>1. PICK c \in Byte :
                /\ h = <<c>> /\ c # f[k]
                /\ ~(c = ESC /\ k < Len(f) /\ f[k + 1] = ESC /\ f[k] \in {61, 93, 157})
          BY <2>3, Zenon
        <4>2. f[k] = x
          BY <1>4, <1>10, Zenon
        <4> QED
          BY <4>1, <4>2, Zenon
      <3>2. Redecoded(ue, a, <<c>>, b, u)
        BY <1>6, <1>7, <2>1, <3>1, Zenon
      <3>3. CASE c = ESC
        <4>1. Redecoded(ue, a, <<ESC>>, b, u)
          BY <3>2, <3>3, Zenon
        <4>2. b # <<>> /\ b[1] \in Reserved => x \notin {61, 93, 157} /\ (ue = Flip => x # ESC)
          BY <1>5, <1>10, <3>1, <3>3, Zenon
        <4> QED
          BY <1>2, <1>9, <4>1, <4>2, EscapeIsNoticed, Zenon
      <3>4. CASE c # ESC
        <4>1. c = x
          BY <1>2, <3>2, <3>4, OneIsNoticed, Zenon
        <4> QED
          BY <3>1, <4>1, Zenon
      <3> QED
        BY <3>3, <3>4
    <2> QED
      BY <2>2, <2>3
  <1>11. CASE x \in Reserved /\ v = <<>> /\ z = ESC /\ w = <<FlipBit5(x)>>
    <2>1. PICK y \in Byte : y = FlipBit5(x) /\ y # ESC /\ y # SHDLC_STOP /\ y # x
      <3>1. FlipBit5(x) \in Byte
        BY <1>2, UnescapeType
      <3>2. FlipBit5(x) # ESC /\ FlipBit5(x) # SHDLC_STOP /\ FlipBit5(x) # x
        BY ONLY <1>11 DEF FlipBit5, Reserved, ESC, SHDLC_STOP
      <3> QED
        BY <3>1, <3>2
    <2>2. v \o h \o w = h \o <<y>>
      <3>1. <<>> \o h = h
        BY JoinedOfNone, Zenon
      <3> QED
        BY <1>11, <2>1, <3>1, Zenon
    <2>3. CASE h = <<>>
      <3>1. v \o h \o w = <<y>>
        <4>1. <<>> \o <<y>> = <<y>>
          BY <1>7, JoinedOfNone, Zenon
        <4> QED
          BY <2>2, <2>3, <4>1, Zenon
      <3>2. Redecoded(ue, a, <<y>>, b, u)
        BY <1>6, <1>7, <3>1, Zenon
      <3>3. y = x
        BY <1>2, <2>1, <3>2, OneIsNoticed, Zenon
      <3> QED
        BY <2>1, <3>3, Zenon
    <2>4. CASE h # <<>>
      <3>1. PICK c \in Byte : h = <<c>> /\ c # ESC
        BY <1>4, <1>11, <2>4, Zenon
      <3>2. v \o h \o w = <<c, y>>
        <4>1. IsTwo(<<c, y>>, <<c>>, <<y>>)
          BY TwoBytes, Zenon
        <4> QED
          BY <2>2, <3>1, <4>1, Zenon DEF IsTwo
      <3>3. Redecoded(ue, a, <<c, y>>, b, u)
        BY <1>6, <1>8, <2>1, <3>2, Zenon
      <3>4. Redecoded(ue, a, <<c, FlipBit5(x)>>, b, u)
        BY <2>1, <3>3, Zenon
      <3> QED
        BY <1>2, <1>9, <1>11, <3>1, <3>4, BrokenIsNoticed, Zenon
    <2> QED
      BY <2>3, <2>4
  <1>12. CASE x \in Reserved /\ v = <<ESC>> /\ z = FlipBit5(x) /\ w = <<>>
    <2>1. v \o h \o w = <<ESC>> \o h
      <3>1. <<ESC>> \o h \in Seq(Byte)
        BY <1>7, JoinType
      <3>2. (<<ESC>> \o h) \o <<>> = <<ESC>> \o h
        BY <3>1, JoinedOfNone, Zenon
      <3> QED
        BY <1>12, <3>2, Zenon
    <2>2. CASE h = <<>>
      <3>1. ue = Table /\ ue # Flip
        <4>1. Table # Flip
          BY TwoTables
        <4> QED
          BY <2>2, <4>1
      <3>2. v \o h \o w = <<ESC>>
        <4>1. <<ESC>> \o <<>> = <<ESC>>
          BY <1>7, JoinedOfNone, Zenon
        <4> QED
          BY <2>1, <2>2, <4>1, Zenon
      <3>3. Redecoded(ue, a, <<ESC>>, b, u)
        BY <1>6, <1>7, <3>2, Zenon
      <3>4. x \notin {61, 93, 157}
        BY ONLY <1>12 DEF Reserved, ESC, SHDLC_STOP
      <3> QED
        BY <1>2, <1>9, <3>1, <3>3, <3>4, EscapeIsNoticed, Zenon
    <2>3. CASE h # <<>>
      <3>1. PICK c \in Byte : h = <<c>>
        BY <2>3, Zenon
      <3>2. v \o h \o w = <<ESC, c>>
        <4>1. IsTwo(<<ESC, c>>, <<ESC>>, <<c>>)
          BY <1>7, TwoBytes, Zenon
        <4> QED
          BY <2>1, <3>1, <4>1, Zenon DEF IsTwo
      <3>3. Redecoded(ue, a, <<ESC, c>>, b, u)
        BY <1>6, <1>7, <1>8, <3>2, Zenon
      <3> QED
        BY <1>2, <3>3, EscapedIsNoticed, ZenonT(40)
    <2> QED
      BY <2>2, <2>3
  <1> QED
    BY <1>2, <1>10, <1>11, <1>12, Zenon DEF StandsFor

-----------------------------------------------------------------------------
(* A damaged response.                                                     *)

\* A changed byte is a replaced one.
LEMMA ChangedIsReplaced ==
  ASSUME NEW f \in Seq(Byte), NEW s \in Seq(Byte), NEW k \in 1..Len(f), ChangedAt(f, s, k)
  PROVE  s[k] \in Byte /\ s[k] # f[k] /\ Replaced(f, k, <<s[k]>>, s)
  <1>1. Len(s) = Len(f) /\ s[k] # f[k] /\ \A j \in 1..Len(f) : j # k => s[j] = f[j]
    BY DEF ChangedAt
  <1>2. PICK c \in Byte : c = s[k]
    BY <1>1, Element
  <1>3. PICK n \in Nat : n = Len(f)
    OBVIOUS
  <1>4. Len(<<c>>) = 1 /\ <<c>>[1] = c
    OBVIOUS
  <1>5. k \in Nat /\ k >= 1 /\ k <= n
    BY <1>3
  <1>6. \A j \in 1..(k - 1) : s[j] = f[j]
    BY ONLY <1>1, <1>3, <1>5
  <1>7. \A j \in 1..1 : k - 1 + j = k /\ j = 1
    BY ONLY <1>5
  <1>8. \A j \in 1..(n - k) : k - 1 + 1 + j = k + j /\ s[k + j] = f[k + j]
    BY ONLY <1>1, <1>3, <1>5
  <1>9. Len(s) = Len(f) - 1 + 1
    BY <1>1
  <1>10. /\ \A j \in 1..Len(<<c>>) : s[k - 1 + j] = <<c>>[j]
         /\ \A j \in 1..(Len(f) - k) : s[k - 1 + Len(<<c>>) + j] = f[k + j]
    BY <1>2, <1>3, <1>4, <1>7, <1>8, Zenon
  <1>11. Replaced(f, k, <<c>>, s)
    BY <1>4, <1>6, <1>9, <1>10, Zenon DEF Replaced
  <1> QED
    BY <1>1, <1>2, <1>11

\* A lost byte is one replaced by none.
LEMMA LostIsReplaced ==
  ASSUME NEW f \in Seq(Byte), NEW k \in 1..Len(f)
  PROVE  Replaced(f, k, <<>>, RemoveAt(f, k))
  <1>1. PICK n \in Nat : n = Len(f) /\ k \in 1..n
    OBVIOUS
  <1>2. PICK p, q : p = SubSeq(f, 1, k - 1) /\ q = SubSeq(f, k + 1, n)
    OBVIOUS
  <1>3. p \in Seq(Byte) /\ Len(p) = k - 1 /\ \A j \in 1..(k - 1) : p[j] = f[j]
    BY <1>1, <1>2
  <1>4. q \in Seq(Byte) /\ Len(q) = n - k /\ \A j \in 1..(n - k) : q[j] = f[k + j]
    BY <1>1, <1>2
  <1>5. PICK s : s = p \o q
    OBVIOUS
  <1>6. RemoveAt(f, k) = s
    BY <1>1, <1>2, <1>5, Zenon DEF RemoveAt
  <1>7. /\ s \in Seq(Byte) /\ Len(s) = (k - 1) + (n - k)
        /\ \A j \in 1..(k - 1) : s[j] = p[j]
        /\ \A j \in 1..(n - k) : s[(k - 1) + j] = q[j]
    <2>1. p \in Seq(Byte) /\ q \in Seq(Byte) /\ Len(p) = k - 1 /\ Len(q) = n - k
      BY <1>3, <1>4
    <2>2. s \in Seq(Byte) /\ Len(s) = Len(p) + Len(q)
      BY ONLY <1>5, <2>1, JoinType
    <2>3. \A j \in 1..Len(p) : s[j] = p[j]
      BY ONLY <1>5, <2>1, FirstOfTwo
    <2>4. \A j \in 1..Len(q) : s[Len(p) + j] = q[j]
      BY ONLY <1>5, <2>1, SecondOfTwo
    <2> QED
      BY <2>1, <2>2, <2>3, <2>4, Zenon
  <1>8. Len(<<>>) = 0
    OBVIOUS
  <1>9. /\ (k - 1) + (n - k) = n - 1 + 0
        /\ \A j \in 1..0 : s[k - 1 + j] = <<>>[j]
        /\ \A j \in 1..(n - k) : k - 1 + 0 + j = (k - 1) + j
    BY <1>1
  <1>10. Replaced(f, k, <<>>, s)
    <2>1. Len(s) = Len(f) - 1 + Len(<<>>)
      BY <1>1, <1>7, <1>8, <1>9, Zenon
    <2>2. \A j \in 1..(k - 1) : s[j] = f[j]
      BY <1>3, <1>7, Zenon
    <2>3. \A j \in 1..Len(<<>>) : s[k - 1 + j] = <<>>[j]
      BY <1>8, <1>9, Zenon
    <2>4. \A j \in 1..(Len(f) - k) : s[k - 1 + Len(<<>>) + j] = f[k + j]
      <3>1. ASSUME NEW j \in 1..(n - k) PROVE s[k - 1 + 0 + j] = f[k + j]
        <4>1. s[(k - 1) + j] = f[k + j]
          BY <1>4, <1>7, Zenon
        <4> QED
          BY <1>9, <4>1
      <3> QED
        BY <1>1, <1>8, <3>1, Zenon
    <2> QED
      BY <1>7, <2>1, <2>2, <2>3, <2>4, Zenon DEF Replaced
  <1> QED
    BY <1>6, <1>10, Zenon

\* No byte between the delimiters of a frame is one.
LEMMA NoneBetween ==
  ASSUME NEW m \in Seq(Byte), NEW f, IsFramed(f, StuffData(m))
  PROVE  /\ f \in Seq(Byte) /\ f[1] = SHDLC_START /\ f[Len(f)] = SHDLC_STOP
         /\ \A k \in 2..(Len(f) - 1) : f[k] # SHDLC_STOP
  <1>1. PICK t \in Seq(Byte) : t = StuffData(m)
    BY StuffedIsTransparent
  <1>2. f = <<SHDLC_START>> \o t \o <<SHDLC_STOP>>
    BY <1>1, Zenon DEF IsFramed
  <1>3. /\ f \in Seq(Byte) /\ f[1] = SHDLC_START /\ f[Len(f)] = SHDLC_STOP
        /\ \A k \in 2..(Len(f) - 1) : k - 1 \in 1..Len(t) /\ f[k] = t[k - 1]
    BY <1>2, FrameParts
  <1>4. \A k \in 1..Len(t) : t[k] # SHDLC_STOP
    <2>1. SHDLC_STOP \in Reserved \ {ESC}
      BY DEF Reserved, ESC, SHDLC_STOP
    <2> QED
      BY <1>1, <2>1, StuffedIsTransparent
  <1> QED
    BY <1>3, <1>4

\* A delimiter replaced or lost is missed.
LEMMA EdgeIsNoticed ==
  ASSUME NEW ue, NEW m \in Seq(Byte), NEW f, IsFramed(f, StuffData(m)), Len(f) >= 2,
         NEW k, k = 1 \/ k = Len(f), NEW h \in Seq(Byte), NEW s, Replaced(f, k, h, s),
         h = <<>> \/ \E c \in Byte : h = <<c>> /\ c # f[k],
         NEW e, NEW d, NEW u
  PROVE  ~FoundIn(ue, s, e, d, u)
  <1> SUFFICES ASSUME FoundIn(ue, s, e, d, u) PROVE FALSE
    OBVIOUS
  <1>1. /\ f \in Seq(Byte) /\ f[1] = SHDLC_START /\ f[Len(f)] = SHDLC_STOP
        /\ \A j \in 2..(Len(f) - 1) : f[j] # SHDLC_STOP
    BY NoneBetween, Zenon
  <1>2. PICK n \in Nat : n = Len(f) /\ n >= 2 /\ k \in {1, n}
    BY <1>1
  <1>3. s[1] = SHDLC_START /\ e \in 7..Len(s) /\ s[e] = SHDLC_STOP
    BY Zenon DEF FoundIn
  <1>4. /\ Len(s) = n - 1 + Len(h)
        /\ \A j \in 1..(k - 1) : s[j] = f[j]
        /\ \A j \in 1..Len(h) : s[k - 1 + j] = h[j]
        /\ \A j \in 1..(n - k) : s[k - 1 + Len(h) + j] = f[k + j]
    BY <1>2, Zenon DEF Replaced
  <1>5. \/ Len(h) = 0
        \/ Len(h) = 1 /\ h[1] # f[k]
    OBVIOUS
  <1>6. SHDLC_START = SHDLC_STOP
    BY DEF SHDLC_START, SHDLC_STOP
  <1>7. CASE k = 1 /\ Len(h) = 1
    <2>1. s[k - 1 + 1] = h[1] /\ k - 1 + 1 = 1
      BY ONLY <1>4, <1>7
    <2> QED
      BY <1>1, <1>3, <1>5, <1>7, <2>1
  <1>8. CASE k = 1 /\ Len(h) = 0
    <2>1. n >= 8
      BY ONLY <1>2, <1>3, <1>4, <1>8
    <2>2. s[k - 1 + 0 + 1] = f[k + 1] /\ k - 1 + 0 + 1 = 1 /\ k + 1 = 2 /\ 2 \in 2..(n - 1)
      BY ONLY <1>4, <1>8, <2>1
    <2> QED
      BY <1>1, <1>2, <1>3, <1>6, <2>2, Zenon
  <1>9. CASE k = n
    <2>1. CASE e <= n - 1
      <3>1. s[e] = f[e] /\ e \in 2..(n - 1)
        BY ONLY <1>2, <1>3, <1>4, <1>9, <2>1
      <3> QED
        BY <1>1, <1>2, <1>3, <3>1, Zenon
    <2>2. CASE ~(e <= n - 1)
      <3>1. Len(h) = 1 /\ e = n
        <4>1. PICK l : l = Len(h)
          OBVIOUS
        <4>2. (l = 0 \/ l = 1) /\ Len(s) = n - 1 + l
          BY <1>4, <1>5, <4>1, Zenon
        <4>3. l = 1 /\ e = n
          BY ONLY <1>2, <1>3, <2>2, <4>2
        <4> QED
          BY <4>1, <4>3
      <3>2. s[k - 1 + 1] = h[1] /\ k - 1 + 1 = e
        BY ONLY <1>2, <1>4, <1>9, <3>1
      <3> QED
        BY <1>1, <1>2, <1>3, <1>5, <1>9, <3>1, <3>2
    <2> QED
      BY <2>1, <2>2
  <1> QED
    BY <1>2, <1>5, <1>7, <1>8, <1>9

\* A frame whose end is missing holds no response.
LEMMA CutIsNoticed ==
  ASSUME NEW ue, NEW m \in Seq(Byte), NEW f, IsFramed(f, StuffData(m)),
         NEW s \in Seq(Byte), IsStrictPrefix(s, f), NEW e, NEW d, NEW u
  PROVE  ~FoundIn(ue, s, e, d, u)
  <1> SUFFICES ASSUME FoundIn(ue, s, e, d, u) PROVE FALSE
    OBVIOUS
  <1>1. /\ f \in Seq(Byte) /\ \A j \in 2..(Len(f) - 1) : f[j] # SHDLC_STOP
    BY NoneBetween, Zenon
  <1>2. e \in 7..Len(s) /\ s[e] = SHDLC_STOP
    BY Zenon DEF FoundIn
  <1>3. Len(s) < Len(f) /\ \A j \in 1..Len(s) : s[j] = f[j]
    <2>1. IsPrefix(s, f) /\ s # f
      BY DEF IsStrictPrefix
    <2>2. Len(s) <= Len(f) /\ \A j \in 1..Len(s) : s[j] = f[j]
      BY <1>1, <2>1 DEF IsPrefix
    <2>3. Len(s) # Len(f)
      BY <1>1, <2>1, <2>2, SameString
    <2> QED
      BY <1>1, <2>2, <2>3
  <1>4. e \in 2..(Len(f) - 1) /\ s[e] = f[e]
    BY <1>1, <1>2, <1>3
  <1> QED
    BY <1>1, <1>2, <1>4, Zenon

\* One byte of a frame changed or lost.
Damaged(ue, f, s) ==
    \/ \E k \in 1..Len(f) :
          /\ ChangedAt(f, s, k)
          /\ ~(s[k] = ESC /\ k < Len(f) /\ f[k + 1] = ESC /\ f[k] \in {61, 93, 157})
    \/ ue = Table /\ \E k \in 1..Len(f) : s = RemoveAt(f, k)

\* Wherever the damage is, a response that is found is the one that was sent, or it
\* says that the sensor is in an error state.
LEMMA DamageIsNoticed ==
  ASSUME NEW ue \in {Table, Flip}, NEW m \in Seq(Byte), Whole(m),
         LengthTells(m), m[3] \notin {m[4] + 1, 224},
         NEW f, IsFramed(f, StuffData(m)),
         NEW s \in Seq(Byte), Damaged(ue, f, s), NEW e, NEW d, NEW u, FoundIn(ue, s, e, d, u)
  PROVE  u = m \/ StateError(u[3])
  <1>1. f \in Seq(Byte)
    BY NoneBetween, Zenon
  <1>2. \A c \in Byte : <<c>> \in Seq(Byte)
    OBVIOUS
  <1>3. <<>> \in Seq(Byte)
    OBVIOUS
  <1>4. Len(f) >= 2
    <2>1. StuffData(m) \in Seq(Byte)
      BY StuffedIsTransparent
    <2>2. Len(f) = Len(StuffData(m)) + 2
      BY <2>1, FrameParts DEF IsFramed
    <2> QED
      BY <2>1, <2>2
  <1>5. ASSUME NEW k \in 1..Len(f), NEW h \in Seq(Byte), Replaced(f, k, h, s),
               \/ h = <<>> /\ ue = Table
               \/ \E c \in Byte :
                     /\ h = <<c>> /\ c # f[k]
                     /\ ~(c = ESC /\ k < Len(f) /\ f[k + 1] = ESC /\ f[k] \in {61, 93, 157})
        PROVE  u = m \/ StateError(u[3])
    <2>1. h = <<>> \/ \E c \in Byte : h = <<c>> /\ c # f[k]
      BY <1>5, Zenon
    <2>2. CASE k = 1 \/ k = Len(f)
      <3>1. ~FoundIn(ue, s, e, d, u)
        BY ONLY m \in Seq(Byte), IsFramed(f, StuffData(m)), <1>4, h \in Seq(Byte),
                Replaced(f, k, h, s), <2>1, <2>2, EdgeIsNoticed, Zenon
      <3> QED
        BY <3>1
    <2>3. CASE k \in 2..(Len(f) - 1)
      BY <1>1, <1>5, <2>3, ReplacedIsNoticed, Zenon
    <2>4. (k = 1 \/ k = Len(f)) \/ k \in 2..(Len(f) - 1)
      BY <1>1
    <2> QED
      BY <2>2, <2>3, <2>4
  <1>6. CASE \E k \in 1..Len(f) :
               /\ ChangedAt(f, s, k)
               /\ ~(s[k] = ESC /\ k < Len(f) /\ f[k + 1] = ESC /\ f[k] \in {61, 93, 157})
    <2>1. PICK k \in 1..Len(f) :
               /\ ChangedAt(f, s, k)
               /\ ~(s[k] = ESC /\ k < Len(f) /\ f[k + 1] = ESC /\ f[k] \in {61, 93, 157})
      BY <1>6
    <2>2. s[k] \in Byte /\ s[k] # f[k] /\ Replaced(f, k, <<s[k]>>, s)
      BY <1>1, <2>1, ChangedIsReplaced, Zenon
    <2>3. PICK c \in Byte : c = s[k]
      BY <2>2
    <2>4. /\ <<c>> \in Seq(Byte) /\ Replaced(f, k, <<c>>, s) /\ c # f[k]
          /\ ~(c = ESC /\ k < Len(f) /\ f[k + 1] = ESC /\ f[k] \in {61, 93, 157})
      BY <1>2, <2>1, <2>2, <2>3, Zenon
    <2>5. PICK h \in Seq(Byte) : h = <<c>>
      BY <2>4
    <2>6. \E y \in Byte :
            /\ h = <<y>> /\ y # f[k]
            /\ ~(y = ESC /\ k < Len(f) /\ f[k + 1] = ESC /\ f[k] \in {61, 93, 157})
      BY <2>4, <2>5, Zenon
    <2>7. Replaced(f, k, h, s)
      BY <2>4, <2>5
    <2> QED
      BY <1>5, <2>6, <2>7, Zenon
  <1>7. CASE ue = Table /\ \E k \in 1..Len(f) : s = RemoveAt(f, k)
    <2>1. PICK k \in 1..Len(f) : s = RemoveAt(f, k)
      BY <1>7
    <2>2. Replaced(f, k, <<>>, s)
      <3>1. Replaced(f, k, <<>>, RemoveAt(f, k))
        BY <1>1, LostIsReplaced, Zenon
      <3> QED
        BY <2>1, <3>1
    <2> QED
      BY <1>3, <1>5, <1>7, <2>2, Zenon
  <1> QED
    BY <1>6, <1>7, Zenon DEF Damaged

-----------------------------------------------------------------------------
(* What a receiver is handed.                                              *)

\* Position by position, for the two unescapings.
LEMMA TwoDecodings ==
  ASSUME NEW frame
  PROVE  DecodingOf(Table, frame) = TableDecoding(frame) /\ DecodingOf(Flip, frame) = FlipDecoding(frame)
  BY TwoTables DEF DecodingOf, Decode, TableDecoding, FlipDecoding

\* What the receivers rest on.
LEMMA DeliveryFacts ==
  ASSUME NEW v, IsDelivery(v)
  PROVE  /\ v.bytes \in Seq(Byte)
         /\ v.damage \in {"none", "trailing"}
               => IsAnswer(v.sent) /\ IsPrefix(Response(v.sent), v.bytes)
  BY DEF IsDelivery

\* What is found in the first part of the bytes is found in them.
LEMMA FoundInPrefix ==
  ASSUME NEW ue, NEW s \in Seq(Byte), NEW n \in Nat, NEW e, NEW d, NEW u,
         FoundIn(ue, Prefix(s, n), e, d, u)
  PROVE  FoundIn(ue, s, e, d, u)
  <1>1. PICK l \in Nat : l <= Len(s) /\ Prefix(s, n) = SubSeq(s, 1, l)
    BY DEF Prefix
  <1>2. PICK p : p = SubSeq(s, 1, l)
    OBVIOUS
  <1>3. /\ p \in Seq(Byte) /\ Len(p) = l /\ Len(p) <= Len(s)
        /\ \A j \in 1..Len(p) : p[j] = s[j]
    BY <1>1, <1>2
  <1>4. /\ p[1] = SHDLC_START /\ e \in 7..Len(p) /\ p[e] = SHDLC_STOP
        /\ d = SubSeq(p, 2, e - 1) /\ u = Decode(ue, d).out
        /\ ~Decode(ue, d).esc /\ Whole(u)
    BY <1>1, <1>2, Zenon DEF FoundIn
  <1>5. e \in 7..Len(s) /\ s[1] = p[1] /\ s[e] = p[e]
    BY <1>3, <1>4
  <1>6. SubSeq(p, 2, e - 1) = SubSeq(s, 2, e - 1)
    <2>1. PICK v, w : v = SubSeq(p, 2, e - 1) /\ w = SubSeq(s, 2, e - 1)
      OBVIOUS
    <2>2. /\ v \in Seq(Byte) /\ Len(v) = e - 2 /\ \A j \in 1..(e - 2) : v[j] = p[j + 1]
          /\ w \in Seq(Byte) /\ Len(w) = e - 2 /\ \A j \in 1..(e - 2) : w[j] = s[j + 1]
      BY <1>3, <1>4, <2>1
    <2>3. \A j \in 1..(e - 2) : p[j + 1] = s[j + 1]
      BY <1>3, <1>4
    <2>4. v = w
      BY <2>2, <2>3, SameString
    <2> QED
      BY <2>1, <2>4
  <1> QED
    BY <1>4, <1>5, <1>6, Zenon DEF FoundIn

\* And it is a response of the reference.
LEMMA FoundIsResponse ==
  ASSUME NEW ue \in {Table, Flip}, NEW s \in Seq(Byte), NEW e, NEW d, NEW u, FoundIn(ue, s, e, d, u)
  PROVE  ResponseAt(DecodingOf(ue, s), s, 255, e) /\ DecodingOf(ue, s)[e - 1].out = u
  <1>1. /\ s[1] = SHDLC_START /\ e \in 7..Len(s) /\ s[e] = SHDLC_STOP
        /\ d = SubSeq(s, 2, e - 1) /\ u = Decode(ue, d).out /\ ~Decode(ue, d).esc
        /\ Len(u) >= 5 /\ u[4] = Len(u) - 5 /\ SumBytes(u) % 256 = 255
    BY Zenon DEF FoundIn, Whole
  <1>2. e - 1 \in 1..Len(s)
    BY <1>1
  <1>3. DecodingOf(ue, s)[e - 1] = Decode(ue, d)
    BY <1>1, <1>2 DEF DecodingOf
  <1>4. d \in Seq(Byte)
    BY <1>1, SMTT(40)
  <1>5. u \in Seq(Byte)
    BY <1>1, <1>4, DecodeType DEF Decoding
  <1>6. u[4] <= 255
    <2>1. 4 \in 1..Len(u)
      BY <1>1, <1>5
    <2>2. u[4] \in Byte
      BY <1>5, <2>1, Element
    <2> QED
      BY ONLY <2>2, ByteIsNat
  <1> QED
    BY <1>1, <1>3, <1>6, Zenon DEF ResponseAt

\* A content is whole and is what its response frames; its parts.
LEMMA ContentFacts ==
  ASSUME NEW r, IsAnswer(r)
  PROVE  /\ Content(r) \in Seq(Byte) /\ Whole(Content(r))
         /\ Content(r)[4] = Len(r.data) /\ Content(r)[3] = r.state
         /\ IsFramed(Response(r), StuffData(Content(r)))
         /\ <<r.addr, r.cmd, r.state, Len(r.data)>> \in Seq(Byte)
         /\ \E c \in Byte :
               IsJoined(Content(r), <<r.addr, r.cmd, r.state, Len(r.data)>>, r.data, <<c>>)
  <1> DEFINE head == <<r.addr, r.cmd, r.state, Len(r.data)>>
             h == <<r.addr, r.cmd, r.state>>
  <1>1. /\ r.data \in Seq(Byte) /\ Len(r.data) \in Byte /\ h \in Seq(Byte)
        /\ head \in Seq(Byte) /\ Len(head) = 4 /\ head[3] = r.state
    BY DEF IsAnswer
  <1>2. PICK c \in Byte : c = Checksum(h, r.data)
    <2>1. PICK g \in Seq(Byte), d \in Seq(Byte) : g = h /\ d = r.data /\ Len(d) \in Byte
      BY <1>1
    <2>2. g \in Seq(Byte) /\ d \in Seq(Byte) /\ Len(d) \in Byte
      BY <2>1
    <2>3. Checksum(g, d) \in Byte
      BY ONLY <2>2, ChecksumCompletes
    <2> QED
      BY <2>1, <2>3
  <1>3. Content(r) = head \o r.data \o <<c>>
    BY <1>2 DEF Content
  <1> HIDE DEF head, h
  <1>4. IsJoined(Content(r), head, r.data, <<c>>)
    BY <1>3, Zenon DEF IsJoined
  <1>5. Content(r)[3] = r.state
    <2>1. <<c>> \in Seq(Byte) /\ 3 \in 1..Len(head)
      BY <1>1
    <2>2. Parts(Content(r), head, r.data, <<c>>)
      BY <1>1, <1>4, <2>1, JoinedParts, Zenon
    <2>3. \A k \in 1..Len(head) : Content(r)[k] = head[k]
      BY <2>2, Zenon DEF Parts
    <2> QED
      BY <1>1, <2>1, <2>3, Zenon
  <1>6. /\ Content(r) \in Seq(Byte)
        /\ Len(Content(r)) = 5 + Len(r.data) /\ Content(r)[4] = Len(r.data)
        /\ SumBytes(Content(r)) % 256 = 255
        /\ Response(r) = <<SHDLC_START>> \o StuffData(Content(r)) \o <<SHDLC_STOP>>
    BY ResponseParts
  <1>7. Whole(Content(r))
    <2>1. Len(Content(r)) >= 5 /\ Len(r.data) = Len(Content(r)) - 5
      <3>1. PICK n, l : n = Len(Content(r)) /\ l = Len(r.data)
        OBVIOUS
      <3>2. n = 5 + l /\ l \in Byte
        BY <1>1, <1>6, <3>1
      <3>3. l \in Nat
        BY <3>2, ByteIsNat, Zenon
      <3>4. n >= 5 /\ l = n - 5
        BY ONLY <3>2, <3>3
      <3> QED
        BY <3>1, <3>4
    <2> QED
      BY <1>6, <2>1, Zenon DEF Whole
  <1>8. IsFramed(Response(r), StuffData(Content(r)))
    BY <1>6, Zenon DEF IsFramed
  <1> QED
    BY <1>1, <1>4, <1>5, <1>6, <1>7, <1>8, Zenon DEF head

\* The one way to read a content as header, data and checksum.
LEMMA ContentParts ==
  ASSUME NEW r, IsAnswer(r), NEW g \in Seq(Byte), Len(g) = 4, NEW d \in Seq(Byte),
         NEW b \in Byte, IsJoined(Content(r), g, d, <<b>>)
  PROVE  g = <<r.addr, r.cmd, r.state, Len(r.data)>> /\ d = r.data
  <1>1. PICK head \in Seq(Byte) : head = <<r.addr, r.cmd, r.state, Len(r.data)>>
    BY ContentFacts, Zenon
  <1>2. PICK c \in Byte : IsJoined(Content(r), head, r.data, <<c>>)
    BY <1>1, ContentFacts, Zenon
  <1>3. \A x \in Byte : <<x>> \in Seq(Byte) /\ Len(<<x>>) = 1
    OBVIOUS
  <1>4. Len(g) = Len(head) /\ r.data \in Seq(Byte) /\ Len(<<b>>) = Len(<<c>>)
    BY <1>1, <1>3 DEF IsAnswer
  <1>5. g = head /\ d = r.data
    BY <1>2, <1>3, <1>4, PartsAgree, ZenonT(40)
  <1> QED
    BY <1>1, <1>5

\* Whatever happened to a response on its way, within what can be noticed: what is found
\* in the bytes is what was sent, unless it says that the sensor is in an error state.
LEMMA DeliveryIsSent ==
  ASSUME NEW ue \in {Table, Flip}, NEW v, IsDelivery(v), Noticeable(v),
         v.damage = "lost" => ue = Table,
         NEW e, NEW d, NEW u, FoundIn(ue, v.bytes, e, d, u)
  PROVE  u = Content(v.sent) \/ StateError(u[3])
  <1> DEFINE r == v.sent
             f == Response(v.sent)
             s == v.bytes
             m == Content(v.sent)
  <1>1. /\ s \in Seq(Byte) /\ IsAnswer(r)
        /\ v.damage \in {"none", "trailing", "late", "changed", "lost"}
    BY DEF IsDelivery, Noticeable
  <1>2. /\ m \in Seq(Byte) /\ Whole(m) /\ m[4] = Len(r.data) /\ m[3] = r.state
        /\ IsFramed(f, StuffData(m))
    BY <1>1, ContentFacts, Zenon
  <1>3. f \in Seq(Byte)
    BY <1>2, NoneBetween, Zenon
  <1>4. CASE v.damage \in {"none", "trailing"}
    <2>1. IsPrefix(f, s)
      BY <1>4 DEF IsDelivery
    <2>2. PICK e0 : e0 = Len(f)
      OBVIOUS
    <2>3. 255 \in Nat /\ Len(r.data) <= 255
      <3>1. Len(r.data) \in Byte
        BY <1>1 DEF IsAnswer
      <3> QED
        BY ONLY <3>1, ByteIsNat
    <2>4. ResponseAt(DecodingOf(ue, s), s, 255, e0) /\ DecodingOf(ue, s)[e0 - 1].out = m
      <3>1. CASE ue = Table
        <4>1. ResponseAt(TableDecoding(s), s, 255, e0) /\ TableDecoding(s)[e0 - 1].out = m
          BY <1>1, <2>1, <2>2, <2>3, TableFinds
        <4> QED
          BY <3>1, <4>1, TwoDecodings
      <3>2. CASE ue = Flip
        <4>1. ResponseAt(FlipDecoding(s), s, 255, e0) /\ FlipDecoding(s)[e0 - 1].out = m
          BY <1>1, <2>1, <2>2, <2>3, FlipFinds
        <4> QED
          BY <3>2, <4>1, TwoDecodings
      <3> QED
        BY <3>1, <3>2
    <2>5. ResponseAt(DecodingOf(ue, s), s, 255, e) /\ DecodingOf(ue, s)[e - 1].out = u
      BY <1>1, FoundIsResponse
    <2>6. Run(DecodingOf(ue, s), s, ue) /\ ue \in [Byte -> Byte]
      <3>1. s # <<>>
        BY <1>1, <2>5 DEF ResponseAt
      <3> QED
        BY <1>1, <3>1, TableRun, FlipRun, TwoDecodings, TwoTables
    <2>7. e = e0
      BY <1>1, <2>4, <2>5, <2>6, OnlyResponse
    <2> QED
      BY <2>4, <2>5, <2>7
  <1>5. CASE v.damage = "late"
    <2>1. IsStrictPrefix(s, f)
      BY <1>5 DEF IsDelivery
    <2>2. ~FoundIn(ue, s, e, d, u)
      BY <1>1, <1>2, <2>1, CutIsNoticed, Zenon
    <2> QED
      BY <2>2
  <1>6. CASE v.damage \in {"changed", "lost"}
    <2>1. Len(r.data) \notin {128, 224} /\ r.state \notin {Len(r.data) + 1, 224}
      BY <1>6 DEF Noticeable
    <2>2. LengthTells(m) /\ m[3] \notin {m[4] + 1, 224}
      BY <1>1, <1>2, <2>1 DEF LengthTells, IsAnswer
    <2>3. Damaged(ue, f, s)
      <3>1. CASE v.damage = "changed"
        <4>1. PICK k \in 1..Len(f) : ChangedAt(f, s, k)
          BY <3>1 DEF IsDelivery
        <4>2. ~\E j \in 1..(Len(f) - 1) : f[j] \in {61, 93, 157} /\ f[j + 1] = ESC /\ s[j] = ESC
          BY <3>1 DEF Noticeable
        <4>3. k < Len(f) => k \in 1..(Len(f) - 1)
          BY <1>3
        <4>4. ~(s[k] = ESC /\ k < Len(f) /\ f[k + 1] = ESC /\ f[k] \in {61, 93, 157})
          BY <4>2, <4>3, Zenon
        <4>5. \E j \in 1..Len(f) :
                /\ ChangedAt(f, s, j)
                /\ ~(s[j] = ESC /\ j < Len(f) /\ f[j + 1] = ESC /\ f[j] \in {61, 93, 157})
          BY <4>1, <4>4, Zenon
        <4> QED
          BY <4>5, Zenon DEF Damaged
      <3>2. CASE v.damage = "lost"
        <4>1. \E k \in 1..Len(f) : s = RemoveAt(f, k)
          BY <3>2 DEF IsDelivery
        <4> QED
          BY <3>2, <4>1 DEF Damaged
      <3> QED
        BY <1>6, <3>1, <3>2
    <2> QED
      BY <1>1, <1>2, <2>2, <2>3, DamageIsNoticed, ZenonT(40)
  <1> QED
    BY <1>1, <1>4, <1>5, <1>6

\* What a receiver accepts as a response with no error is what was sent.
LEMMA ReceivedIsSent ==
  ASSUME NEW ue \in {Table, Flip}, NEW v, IsDelivery(v), Noticeable(v),
         v.damage = "lost" => ue = Table, NEW n \in Nat,
         NEW limit, NEW e, NEW frame, frame = Prefix(v.bytes, n),
         ResponseAt(DecodingOf(ue, frame), frame, limit, e),
         NEW g \in Seq(Byte), Len(g) = 4, ~StateError(g[3]), NEW d \in Seq(Byte), NEW b \in Byte,
         IsJoined(DecodingOf(ue, frame)[e - 1].out, g, d, <<b>>)
  PROVE  /\ g = <<v.sent.addr, v.sent.cmd, v.sent.state, Len(v.sent.data)>>
         /\ d = v.sent.data
  <1>1. PICK u : u = DecodingOf(ue, frame)[e - 1].out
    OBVIOUS
  <1>2. v.bytes \in Seq(Byte) /\ frame \in Seq(Byte) /\ IsAnswer(v.sent)
    BY DEF IsDelivery, Noticeable, Prefix
  <1>3. FoundIn(ue, frame, e, SubSeq(frame, 2, e - 1), u)
    BY <1>1, <1>2, ResponseIsFound
  <1>4. FoundIn(ue, v.bytes, e, SubSeq(frame, 2, e - 1), u)
    BY <1>2, <1>3, FoundInPrefix, Zenon
  <1>5. u = Content(v.sent) \/ StateError(u[3])
    BY <1>4, DeliveryIsSent, Zenon
  <1>6. u[3] = g[3]
    <2>1. <<b>> \in Seq(Byte) /\ 3 \in 1..Len(g)
      OBVIOUS
    <2>2. IsJoined(u, g, d, <<b>>)
      BY <1>1
    <2>3. Parts(u, g, d, <<b>>)
      BY <2>1, <2>2, JoinedParts, Zenon
    <2>4. \A k \in 1..Len(g) : u[k] = g[k]
      BY <2>3, Zenon DEF Parts
    <2> QED
      BY <2>1, <2>4, Zenon
  <1>7. IsJoined(Content(v.sent), g, d, <<b>>)
    BY <1>1, <1>5, <1>6
  <1> QED
    BY <1>2, <1>7, ContentParts, Zenon

=============================================================================
