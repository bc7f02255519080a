----------------------------- MODULE ShdlcBytes -----------------------------
(***************************************************************************)
(* Bytes of the SHDLC protocol: the delimiters, the reserved values that   *)
(* byte stuffing keeps out of a frame body, and the per-byte conversions   *)
(* of sensirion_shdlc.c.  Bytes are the numbers 0..255, as on the wire.    *)
(***************************************************************************)
EXTENDS Integers, Sequences

Byte == 0..255

SHDLC_START == 126              \* 0x7e, the same value closes a frame
SHDLC_STOP  == 126
ESC         == 125              \* 0x7d announces an inverted bit 5

\* XON, XOFF, escape and delimiter: the cases of the stuffing switch.
Reserved == {17, 19, ESC, SHDLC_STOP}

\* data ^ (1 << 5)
FlipBit5(b) == IF (b \div 32) % 2 = 0 THEN b + 32 ELSE b - 32

\* sensirion_shdlc_stuff_byte, one round of sensirion_shdlc_stuff_data
StuffByte(b) == IF b \in Reserved THEN <<ESC, FlipBit5(b)>> ELSE <<b>>

UnstuffSame(b)  == b

\* sensirion_shdlc_unstuff_byte: a table of the four legal escapes, every
\* other byte is kept (the in-place receiver inverts bit 5 of any byte).
UnstuffByte(b) == IF FlipBit5(b) \in Reserved THEN FlipBit5(b) ELSE b

\* a uint8_t result of byte arithmetic, and ~ on a uint8_t
Uint8(n) == n % 256
Not8(b)  == 255 - b

-----------------------------------------------------------------------------
(* Results: NO_ERROR and the negative codes of sensirion_shdlc.h.           *)

NO_ERROR              == 0
ERR_MISSING_START     == -2
ERR_MISSING_STOP      == -3
ERR_CRC_MISMATCH      == -4
ERR_ENCODING_ERROR    == -5
ERR_TX_INCOMPLETE     == -6
ERR_FRAME_TOO_LONG    == -7
ERR_EXECUTION_FAILURE == -8

=============================================================================
