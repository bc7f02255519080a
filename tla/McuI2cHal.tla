------------------------------ MODULE McuI2cHal ------------------------------
(***************************************************************************)
(* The I2C HALs of the microcontroller ports.  Each hands a transfer to    *)
(* its vendor's driver; they differ in how they pass the address, in what  *)
(* they make of the driver's result, in how a bus is selected and in how   *)
(* they sleep.  A program is built with one of them.                       *)
(*                                                                         *)
(* The vendors' drivers are not part of the repository.  A driver sends or *)
(* reads a whole packet, or gives up after a part of it with an error      *)
(* code, always within its own timeouts; a sleeping Zephyr thread may be   *)
(* woken up early.                                                         *)
(***************************************************************************)
EXTENDS Integers

CONSTANTS
    Hals,           \* the ports to check
    TIMEOUT,        \* of the SAMDR port, from the project's configuration
    McuAddresses,   \* of the sensors
    Buses,          \* indices select_bus is called with
    Devices,        \* those of them Zephyr has a device for
    Errors,         \* a vendor driver's error codes: port to set of codes
    Delays,         \* microseconds
    IntBits         \* width of an int32_t: 32, but TLC counts to 2^31 only

ASSUME HalAssumption ==
    /\ Hals \subseteq {"samdr", "samdr_asf", "samd2", "stm32", "nrf5", "mbed",
                       "zephyr", "template"}
    /\ TIMEOUT \in Nat /\ TIMEOUT < 65536
    /\ McuAddresses \subseteq 0..127 /\ Buses \subseteq 0..255 /\ Devices \subseteq 0..9
    \* an error whose low byte is zero would look like success, see the README
    /\ \A h \in Hals : \A e \in Errors[h] : e \in Int /\ e % 256 # 0
    \* Zephyr does not sleep at all for more, see the README
    /\ \A us \in Delays : us \in Nat /\ us < 2^(IntBits - 1)

STATUS_OK   == 0
STATUS_FAIL == -1           \* of Zephyr's build, any value but STATUS_OK
NOT_IMPLEMENTED_ERROR == 31
NoBus == -1

VARIABLES
    hal,            \* the port of this build
    on,             \* the I2C peripheral is enabled
    i2c_dev,        \* the bus transfers go to; only Zephyr's port can choose
    selected,       \* the bus the caller takes for selected
    doing,          \* "idle", "transfer" or "sleep"
    target,         \* address and bus of the transfer that runs or ran last
    op,             \* ... and what it is, "read" or "write"
    timeout,        \* failed attempts of the transfer, a uint16_t
    packet,         \* the packets the driver reported as done for this transfer,
                    \* and where the last one went
    ret,
    held,           \* 1 if the master keeps the bus, after a packet without a STOP
    nap             \* the last sleep: microseconds asked for, left and slept

transferVars == <<doing, target, op, timeout, packet, ret, held>>
mcuVars == <<hal, on, i2c_dev, selected, transferVars, nap>>

-----------------------------------------------------------------------------
(* The ports: whether they shift the address, how often a failed packet is *)
(* repeated, the error returned then (0: the driver's code), and whether   *)
(* free disables the peripheral.  Only Zephyr's select_bus does anything;  *)
(* elsewhere it is missing, or fails without an effect.                    *)

Samdr    == [shifts |-> FALSE, retries |-> TIMEOUT, error |-> -1, disables |-> TRUE]
SamdrAsf == Samdr           \* the same text in a second file
Samd2    == [shifts |-> FALSE, retries |-> 0, error |-> 0, disables |-> FALSE]
Stm32Unshifted == [shifts |-> FALSE, retries |-> 0, error |-> 0, disables |-> FALSE]
Stm32    == [shifts |-> TRUE, retries |-> 0, error |-> 0, disables |-> FALSE]
Nrf5     == [shifts |-> FALSE, retries |-> 0, error |-> 0, disables |-> FALSE]
Mbed     == [shifts |-> TRUE, retries |-> 0, error |-> -1, disables |-> FALSE]
Zephyr   == [shifts |-> FALSE, retries |-> 0, error |-> 0, disables |-> FALSE]
Template == [shifts |-> FALSE, retries |-> 0, error |-> NOT_IMPLEMENTED_ERROR, disables |-> FALSE]

Port == CASE hal = "samdr" -> Samdr   [] hal = "samdr_asf" -> SamdrAsf
          [] hal = "samd2" -> Samd2   [] hal = "stm32" -> Stm32
          [] hal = "nrf5" -> Nrf5     [] hal = "mbed" -> Mbed
          [] hal = "zephyr" -> Zephyr [] OTHER -> Template

\* the address as the port passes it: address << 1
Passed(a) == IF Port.shifts THEN 2 * a ELSE a

\* the drivers of these two take the address with the read bit, the others
\* without
OnTheWire(a) == IF hal \in {"stm32", "mbed"} THEN a \div 2 ELSE a

\* (int8_t)
Int8(n) == ((n + 128) % 256) - 128

-----------------------------------------------------------------------------
Nowhere  == [address |-> NoBus, bus |-> NoBus]
NoPacket == [done |-> 0, to |-> Nowhere]

McuInit ==
    /\ hal \in Hals /\ on = FALSE
    /\ i2c_dev = (IF hal = "zephyr" THEN NoBus ELSE 0)
    /\ selected = (IF hal = "zephyr" THEN NoBus ELSE 0)
    /\ doing = "idle" /\ target = Nowhere /\ timeout = 0 /\ packet = NoPacket /\ ret = 0
    /\ op = "read" /\ held = 0
    /\ nap = [asked |-> 0, left |-> 0, slept |-> 0]

\* sensirion_i2c_hal_init, and sensirion_i2c_enable of the SAMDR port
McuHalInit ==
    /\ doing = "idle" /\ on' = TRUE
    /\ UNCHANGED <<hal, i2c_dev, selected, transferVars, nap>>

\* sensirion_i2c_hal_free, sensirion_i2c_disable of the SAMDR port
McuHalFree ==
    /\ doing = "idle" /\ on
    /\ on' = ~Port.disables
    /\ IF hal = "zephyr" THEN i2c_dev' = NoBus /\ selected' = NoBus
                         ELSE UNCHANGED <<i2c_dev, selected>>
    /\ UNCHANGED <<hal, transferVars, nap>>

\* sensirion_i2c_hal_select_bus of Zephyr.  After an index above 9 the caller may
\* go on with the bus selected before; where there is no device, i2c_dev is NULL
\* and the caller selects again before the next transfer.
SelectBus(bus_idx) ==
    /\ doing = "idle" /\ hal = "zephyr"
    /\ IF bus_idx > 9 THEN UNCHANGED <<i2c_dev, selected>>
       ELSE /\ i2c_dev' = IF bus_idx \in Devices THEN bus_idx ELSE NoBus
            /\ selected' = i2c_dev'
    /\ UNCHANGED <<hal, on, transferVars, nap>>

\* sensirion_i2c_hal_read and write up to the call of the driver
Transfer(a, o) ==
    /\ doing = "idle" /\ on /\ selected # NoBus
    /\ doing' = "transfer" /\ timeout' = 0 /\ packet' = NoPacket
    /\ target' = [address |-> a, bus |-> selected] /\ op' = o
    /\ UNCHANGED <<hal, on, i2c_dev, selected, ret, held, nap>>

Return(result) == doing' = "idle" /\ ret' = result

\* the driver reports the whole packet as done
PacketDone ==
    /\ doing = "transfer" /\ hal # "template"
    /\ packet' = [done |-> packet.done + 1,
                  to |-> [address |-> OnTheWire(Passed(target.address)), bus |-> i2c_dev]]
    /\ held' = (IF hal = "samd2" /\ op = "write" THEN 1 ELSE 0)   \* write_packet_wait_no_stop
    /\ Return(0)
    /\ UNCHANGED <<hal, on, i2c_dev, selected, target, op, timeout, nap>>

PacketFailedNarrow(code) ==       \* a counter too narrow for TIMEOUT
    /\ doing = "transfer" /\ hal # "template"
    /\ timeout' = (timeout + 1) % 2 /\ held' = 0
    /\ IF timeout = Port.retries
       THEN Return(IF Port.error = 0 THEN Int8(code) ELSE Port.error)
       ELSE UNCHANGED <<doing, ret>>
    /\ UNCHANGED <<hal, on, i2c_dev, selected, target, op, packet, nap>>

\* it reports an error: if (timeout++ == TIMEOUT) return -1 in the SAMDR port
PacketFailed(code) ==
    /\ doing = "transfer" /\ hal # "template"
    /\ timeout' = (timeout + 1) % 65536 /\ held' = 0
    /\ IF timeout = Port.retries
       THEN Return(IF Port.error = 0 THEN Int8(code) ELSE Port.error)
       ELSE UNCHANGED <<doing, ret>>
    /\ UNCHANGED <<hal, on, i2c_dev, selected, target, op, packet, nap>>

\* a port that is still to be written
NotImplemented ==
    /\ doing = "transfer" /\ hal = "template"
    /\ Return(NOT_IMPLEMENTED_ERROR)
    /\ UNCHANGED <<hal, on, i2c_dev, selected, target, op, timeout, packet, held, nap>>

-----------------------------------------------------------------------------
(* Sleeping.  HAL_Delay(n) lasts n milliseconds or more, n - 1 in drivers  *)
(* before 1.1.1; the other vendors' delays last as long as asked.          *)

MillisecondsDown(us, old) == us \div 1000 + (IF old THEN 1 ELSE 0)

\* the argument of HAL_Delay
Milliseconds(us, old) ==
    us \div 1000 + (IF us % 1000 > 0 THEN 1 ELSE 0) + (IF old THEN 1 ELSE 0)

\* int32_t remaining = useconds
Int32(us) == IF us < 2^(IntBits - 1) THEN us ELSE us - 2^IntBits

Sleep(us) ==
    /\ doing = "idle" /\ hal # "template"
    /\ \/ /\ hal = "zephyr"
          /\ doing' = "sleep" /\ nap' = [asked |-> us, left |-> Int32(us), slept |-> 0]
       \/ /\ hal = "stm32" /\ UNCHANGED doing
          /\ \E old \in BOOLEAN :
                 nap' = [asked |-> us, left |-> 0,
                         slept |-> 1000 * (Milliseconds(us, old) - IF old THEN 1 ELSE 0)]
       \/ /\ hal \notin {"zephyr", "stm32"} /\ UNCHANGED doing
          /\ nap' = [asked |-> us, left |-> 0, slept |-> us]
    /\ UNCHANGED <<hal, on, i2c_dev, selected, target, op, timeout, packet, ret, held>>

\* while (remaining > 0) remaining = k_usleep(remaining)
SleepOn ==
    /\ doing = "sleep"
    /\ IF nap.left > 0
       THEN /\ \E left \in {0, nap.left \div 2} :
                  nap' = [asked |-> nap.asked, left |-> left,
                          slept |-> nap.slept + nap.left - left]
            /\ UNCHANGED doing
       ELSE doing' = "idle" /\ UNCHANGED nap
    /\ UNCHANGED <<hal, on, i2c_dev, selected, target, op, timeout, packet, ret, held>>

McuNext ==
    \/ McuHalInit \/ McuHalFree \/ \E idx \in Buses : SelectBus(idx)
    \/ \E a \in McuAddresses, o \in {"read", "write"} : Transfer(a, o)
    \/ PacketDone \/ \E code \in Errors[hal] : PacketFailed(code)
    \/ NotImplemented
    \/ \E us \in Delays : Sleep(us)
    \/ SleepOn

Running == PacketDone \/ (\E code \in Errors[hal] : PacketFailed(code)) \/ NotImplemented \/ SleepOn

McuSpec == McuInit /\ [][McuNext]_mcuVars /\ WF_mcuVars(Running)

-----------------------------------------------------------------------------
(* Properties.                                                             *)

McuTypeOK ==
    /\ hal \in Hals /\ on \in BOOLEAN
    /\ i2c_dev \in Buses \cup {0, NoBus} /\ selected \in Buses \cup {0, NoBus}
    /\ doing \in {"idle", "transfer", "sleep"} /\ target.address \in McuAddresses \cup {NoBus}
    /\ timeout \in 0..65535 /\ ret \in -128..127
    /\ packet.done \in Nat /\ op \in {"read", "write"} /\ held \in {0, 1}

\* A transfer returns 0 exactly if the driver reported a packet as done, once,
\* for the address and on the bus the caller asked for: no error code looks
\* like success when it is cut to eight bits, and nothing that was done is
\* done again by the retries.  And the bus is free again, except after a write
\* of the SAMD2 port, which sends no STOP: the read that follows does.
SuccessIsTransferred ==
    doing # "transfer" /\ target # Nowhere =>
        /\ ret = 0 => packet = [done |-> 1, to |-> target]
        /\ ret # 0 => packet.done = 0
        /\ held = 1 => hal = "samd2" /\ op = "write"

\* "The function should delay the execution for at least the given time":
\* with early wake-ups, and with the vendor library that sleeps too short.
SleepsLongEnough == doing = "idle" => nap.slept >= nap.asked

\* The retries end: every transfer and every sleep returns.
EveryCallReturns == doing # "idle" ~> doing = "idle"

=============================================================================
