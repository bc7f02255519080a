------------------------------ MODULE MCShdlcRx ------------------------------
(* ShdlcRx on the lines of ShdlcDeliveries. *)
EXTENDS ShdlcRx, ShdlcDeliveries

CONSTANT MaxString          \* length of the strings after the first delimiter

MCDeliveries == DamagedDeliveries \cup StringDeliveries(MaxString)
MCGarbage == {0, ESC, SHDLC_STOP}

=============================================================================
