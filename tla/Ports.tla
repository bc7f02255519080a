-------------------------------- MODULE Ports --------------------------------
(***************************************************************************)
(* The ports of the HALs.  A program is built either with the I2C HAL on a *)
(* vendor's driver, or with the bit-banged I2C HAL on a pin layer, or for  *)
(* Linux user space with i2c-dev and a terminal; never with two of them,   *)
(* because they define the same functions.  The parts it was not built     *)
(* with stay as they were.                                                 *)
(***************************************************************************)
EXTENDS McuI2cHal, GpioPins, LinuxUartHal

VARIABLE build          \* "vendor", "bit-banged" or "linux"

portVars == <<build, mcuVars, pinVars, linuxVars>>

PortsInit ==
    /\ build \in {"vendor", "bit-banged", "linux"}
    /\ McuInit /\ PinsInit /\ LinuxInit
    \* one state of a part the program was not built with is enough
    /\ build # "vendor" => hal = CHOOSE h \in Hals : TRUE
    /\ build # "bit-banged" => /\ layer = CHOOSE l \in PinLayers : TRUE
                               /\ \A line \in Lines : pins[line].latch = 0
    /\ build # "linux" => \A fd \in Fds : files[fd] = "free"

PortsNext ==
    /\ \/ build = "vendor"     /\ McuNext   /\ UNCHANGED <<pinVars, linuxVars>>
       \/ build = "bit-banged" /\ PinsNext  /\ UNCHANGED <<mcuVars, linuxVars>>
       \/ build = "linux"      /\ LinuxNext /\ UNCHANGED <<mcuVars, pinVars>>
    /\ UNCHANGED build

\* a running call of a vendor HAL goes on, see McuI2cHal
PortsSpec == PortsInit /\ [][PortsNext]_portVars /\ WF_mcuVars(build = "vendor" /\ Running)

=============================================================================
