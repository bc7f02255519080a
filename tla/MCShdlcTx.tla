------------------------------ MODULE MCShdlcTx ------------------------------
(* Argument sets for ShdlcTx: reserved bytes in every field, a payload that *)
(* makes the checksum itself a reserved byte, negative 16 and 32 bit values,*)
(* and the float 1.0 (0x3f800000) through its bit pattern.                  *)
EXTENDS ShdlcTx

MCAddresses == {0, 125}
MCCommands  == {128, 17}
\* 0x7e-sum checksums: 255 - (0 + 128 + 1 + 0) = 126, 255 - (17 + 1 + 220) = 17
MCPayloads  == {<<>>, <<0>>, <<220>>, <<19, 126>>}
MCUint8Args == {125}
MCInt16Args == {-2, 4881}                  \* 0xfffe and 0x1311
MCInt32Args == {-1, 2122125587, 1065353216} \* 0xffffffff, 0x7e7d1113, 1.0f
MCHalErrors == {-1}

=============================================================================
