------------------------------- MODULE MCPorts -------------------------------
(* Every port: the error codes of the vendors' drivers (those of the nRF5   *)
(* beyond a byte, Zephyr's negative), bus indices up to a uint8_t, delays   *)
(* around a millisecond, files for two and a half calls of init_pins, and   *)
(* three sensors on Linux, one of which a kernel driver owns.               *)
EXTENDS Ports

MCHals == {"samdr", "samdr_asf", "samd2", "stm32", "nrf5", "mbed", "zephyr", "template"}
MCErrors == [h \in MCHals |->
                CASE h \in {"samdr", "samdr_asf", "samd2"} -> {18, 30}
                  [] h = "stm32"  -> {1, 2, 3}
                  [] h = "nrf5"   -> {3, 17, 33281, 33282}      \* 0x8201, 0x8202
                  [] h = "zephyr" -> {-5, -134}
                  [] OTHER        -> {1}]
MCBuses  == {0, 1, 9, 10, 255}
MCDelays == {0, 1, 999, 1000, 1001, 20000}
MCPinLayers == {"stm32", "nrf5", "samd2", "mbed", "sysfs"}
MCAddresses == {44, 68, 98}     \* 0x2c, 0x44 and 0x62

=============================================================================
