------------------------------ MODULE MCI2cGpio ------------------------------
(* Transfers of up to three bytes, whose bits tell all eight positions of a *)
(* byte apart, and calls to an address nobody answers.                      *)
EXTENDS I2cGpio

Write(a, d) == [read |-> FALSE, addr |-> a, data |-> d]
Read(a, d)  == [read |-> TRUE,  addr |-> a, data |-> d]

\* bit k of the three bytes, read downwards, is the number k
Positions == <<240, 204, 170>>

MCRequests ==
    {Write(DeviceAddress, <<>>), Write(DeviceAddress, Positions), Write(3, <<90>>),
     Read(DeviceAddress, Positions), Read(DeviceAddress, <<0>>), Read(3, <<129>>)}

=============================================================================
