------------------------------- MODULE MCI2cTx -------------------------------
(* Arguments for I2cTx: the words and the float of the repository's tests,  *)
(* values whose bytes show a lost sign or a wrong order, arrays of even and *)
(* odd length, and argument lists up to what the local buffer holds.        *)
EXTENDS I2cTx

\* checksums that tests/ expects
ASSUME TestVectors ==
    /\ Crc(<<190, 239>>) = 146      \* 0xBEEF, 0x92
    /\ Crc(<<128, 0>>) = 162        \* 0x8000, 0xA2
    /\ Crc(<<102, 102>>) = 147      \* 0x6666, 0x93

\* every copy in a memory of five bytes: right if the destination lies before
\* the source or apart from it
ASSUME CopyIsRight ==
    LET memory == <<1, 2, 3, 4, 5>> IN
    \A n \in 0..5, source \in 0..5, destination \in 0..5 :
        source + n <= 5 /\ destination + n <= 5 =>
            (\A i \in 1..n : CopyBytes(memory, source, destination, n)[destination + i]
                                = memory[source + i])
                <=> (destination <= source \/ destination >= source + n)

MCCommands   == {0, 4660}                       \* 0x1234
MCValues     == {[kind |-> "uint16", v |-> 48879],                  \* 0xBEEF
                 [kind |-> "int16", v |-> -2],
                 [kind |-> "uint32", v |-> 16909060],               \* 0x01020304
                 [kind |-> "int32", v |-> -559038737],              \* 0xDEADBEEF
                 [kind |-> "float", v |-> 1065353216]}              \* 1.0f
MCArrays     == {<<7>>, <<255, 0>>, <<128, 0, 102, 102>>}
MCArgLists   == {[k \in 1..n |-> (k * 4369) % 65536] : n \in {0, 1, 10}}
MCStale      == {[k \in 1..BufferSize |-> 255]}

=============================================================================
