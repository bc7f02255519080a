---------------------------- MODULE MCLinuxI2cHal ----------------------------
(* Three descriptors and three sensors, none of which a kernel driver owns. *)
EXTENDS LinuxI2cHal

MCAddresses == {44, 68, 98}     \* 0x2c, 0x44 and 0x62
MCNone == {}
=============================================================================
