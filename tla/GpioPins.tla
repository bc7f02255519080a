------------------------------- MODULE GpioPins -------------------------------
(***************************************************************************)
(* The pin layers under the bit-banged I2C HAL.  The HAL needs two open    *)
(* drain lines; each layer makes them from registers, or on Linux from     *)
(* files of sysfs, one access after the other, and the lines show every    *)
(* access.                                                                 *)
(*                                                                         *)
(* The registers and the kernel are not part of the repository.  A pin     *)
(* that is an output drives its latch, unless the latch is high and the    *)
(* pin is open drain.  Every access to a file of sysfs may fail, and then  *)
(* the process exits; the pins stay as they are, and the process that is   *)
(* started next finds them so.                                             *)
(***************************************************************************)
EXTENDS Integers, Sequences

CONSTANTS
    PinLayers,      \* the layers to check
    MaxFiles        \* open files the Linux process may have for its pins

ASSUME PinAssumption ==
    /\ PinLayers \subseteq {"stm32", "nrf5", "samd2", "mbed", "sysfs"}
    /\ MaxFiles \in Nat

Lines == {"SCL", "SDA"}

VARIABLES
    layer,          \* the layer of this build
    pins,           \* line to its pin: direction, output latch, open drain or not
    exported,       \* sysfs: the lines the kernel shows to user space
    openFiles,      \* sysfs: how many files the process has open
    program,        \* "new", "ready" after init, "freed", or "exited"
    todo,           \* accesses the running call has still to make: <<line, access>>
    asked,          \* what the last calls asked of the lines: "low", "released"
    lowered,        \* the lines that were low at some time since the reset
    read            \* the last line read: its result and the level of the line

pinVars == <<layer, pins, exported, openFiles, program, todo, asked, lowered, read>>

-----------------------------------------------------------------------------
(* The layers: the accesses of init_pins, in and out.                      *)

On(line, accesses) == [k \in DOMAIN accesses |-> <<line, accesses[k]>>]

Stm32DrivesHigh ==
    [init |-> On("SDA", <<"input", "high">>) \o On("SCL", <<"input", "high">>),
     in |-> <<"input", "high">>, out |-> <<"output", "low">>]
Stm32Pins ==
    [init |-> On("SDA", <<"input">>) \o On("SCL", <<"input">>),
     in |-> <<"input">>, out |-> <<"output", "low">>]
Nrf5Pins ==             \* one register: the latch is never written
    [init |-> On("SCL", <<"input">>) \o On("SDA", <<"input">>),
     in |-> <<"input">>, out |-> <<"output">>]
Samd2Pins ==
    [init |-> On("SDA", <<"input", "open_drain">>) \o On("SCL", <<"input", "open_drain">>),
     in |-> <<"input", "open_drain">>, out |-> <<"output", "low">>]
MbedPins ==
    [init |-> <<>>, in |-> <<"input", "high">>, out |-> <<"output", "low">>]
SysfsPins ==            \* the kernel takes the direction "out" as out and low
    [init |-> On("SCL", <<"export">>) \o On("SDA", <<"export">>)
              \o On("SCL", <<"open", "open">>) \o On("SDA", <<"open", "open">>),
     in |-> <<"input">>, out |-> <<"output_low", "low">>]

Layer == CASE layer = "stm32" -> Stm32Pins [] layer = "nrf5" -> Nrf5Pins
           [] layer = "samd2" -> Samd2Pins [] layer = "mbed" -> MbedPins
           [] OTHER -> SysfsPins

After(pin, access) ==
    CASE access = "input"      -> [pin EXCEPT !.direction = "in"]
      [] access = "output"     -> [pin EXCEPT !.direction = "out"]
      [] access = "output_low" -> [pin EXCEPT !.direction = "out", !.latch = 0]
      [] access = "low"        -> [pin EXCEPT !.latch = 0]
      [] access = "high"       -> [pin EXCEPT !.latch = 1]
      [] access = "open_drain" -> [pin EXCEPT !.openDrain = TRUE]
      [] OTHER                 -> pin

Drives(pin) ==
    IF pin.direction = "in" \/ (pin.openDrain /\ pin.latch = 1) THEN "released"
    ELSE IF pin.latch = 0 THEN "low" ELSE "high"

-----------------------------------------------------------------------------
\* On the nRF5 the latch has its reset value, because nothing would change it.
PinsInit ==
    /\ layer \in PinLayers
    /\ pins \in [Lines -> [direction : {"in"}, openDrain : {FALSE},
                           latch : IF layer = "nrf5" THEN {0} ELSE {0, 1}]]
    /\ exported = {} /\ openFiles = 0 /\ program = "new" /\ todo = <<>>
    /\ asked = [line \in Lines |-> "nothing"] /\ read = [result |-> 0, level |-> 0]
    /\ lowered = {}

Idle == todo = <<>> /\ program \in {"new", "ready", "freed"}

Released == [line \in Lines |-> "released"]

HalInitLeavesLines ==
    /\ Idle /\ program # "ready"
    /\ todo' = Layer.init
    /\ asked' = Released /\ program' = "ready"
    /\ UNCHANGED <<layer, pins, exported, openFiles, lowered, read>>

\* sensirion_i2c_hal_init over this layer
HalInitPins ==
    /\ Idle /\ program # "ready"
    /\ todo' = Layer.init \o On("SCL", Layer.in) \o On("SDA", Layer.in)
    /\ asked' = Released /\ program' = "ready"
    /\ UNCHANGED <<layer, pins, exported, openFiles, lowered, read>>

\* sensirion_i2c_hal_free: release_pins is empty in every layer
HalFreePins ==
    /\ Idle /\ program = "ready"
    /\ todo' = On("SCL", Layer.in) \o On("SDA", Layer.in)
    /\ asked' = Released /\ program' = "freed"
    /\ UNCHANGED <<layer, pins, exported, openFiles, lowered, read>>

\* sensirion_i2c_gpio_SDA_in, SDA_out, SCL_in and SCL_out
Set(line, level) ==
    /\ Idle /\ program = "ready"
    /\ todo' = On(line, IF level = "low" THEN Layer.out ELSE Layer.in)
    /\ asked' = [asked EXCEPT ![line] = level]
    /\ UNCHANGED <<layer, pins, exported, openFiles, program, lowered, read>>

\* sensirion_i2c_gpio_SDA_read and SCL_read, on a line that another device
\* may pull low; the nRF5 does not connect the input of an output
Read(line) ==
    /\ Idle /\ program = "ready"
    /\ \E other \in {"low", "released"} :
           LET level == IF "low" \in {other, Drives(pins[line])} THEN 0 ELSE 1 IN
           read' = [level |-> level,
                    result |-> IF layer = "nrf5" /\ pins[line].direction = "out" THEN 0
                               ELSE level]
    /\ UNCHANGED <<layer, pins, exported, openFiles, program, todo, asked, lowered>>

\* an access succeeds
Access ==
    /\ todo # <<>>
    /\ LET line   == Head(todo)[1]
           access == Head(todo)[2]
       IN /\ access = "open" => openFiles < MaxFiles
          /\ pins' = [pins EXCEPT ![line] = After(@, access)]
          /\ lowered' = IF Drives(pins'[line]) = "low" THEN lowered \cup {line} ELSE lowered
          /\ exported' = IF access = "export" THEN exported \cup {line} ELSE exported
          /\ openFiles' = IF access = "open" THEN openFiles + 1 ELSE openFiles
    /\ todo' = Tail(todo)
    /\ UNCHANGED <<layer, program, asked, read>>

\* an access fails, here or in a read, and the process exits: open_or_exit,
\* rev_or_exit, write_or_exit and gpio_get_value; or something else ends it
Exit ==
    /\ layer = "sysfs" /\ program # "exited"
    /\ program' = "exited" /\ todo' = <<>> /\ openFiles' = 0
    /\ UNCHANGED <<layer, pins, exported, asked, lowered, read>>

\* the program is started again
Restart ==
    /\ program = "exited" /\ program' = "new"
    /\ asked' = [line \in Lines |-> "nothing"]
    /\ UNCHANGED <<layer, pins, exported, openFiles, todo, lowered, read>>

PinsNext ==
    \/ HalInitPins \/ HalFreePins
    \/ \E line \in Lines : Read(line) \/ \E level \in {"low", "released"} : Set(line, level)
    \/ Access \/ Exit \/ Restart

PinsSpec == PinsInit /\ [][PinsNext]_pinVars

-----------------------------------------------------------------------------
(* Properties.                                                             *)

\* Between two calls the lines are what an open drain line would be: low or
\* released, as the last call asked, whatever the registers held at the start
\* and wherever an earlier process of the program stopped; and a read returns
\* the level of the line.
ActsAsOpenDrain ==
    Idle /\ program # "new" =>
        /\ \A line \in Lines : Drives(pins[line]) = asked[line]
        /\ read.result = read.level

\* No line is driven high against a device that pulls it low.  Two exceptions
\* last for one access: the mbed layer raises its latch when it releases a line,
\* and the latch may have been high before the line was first pulled low.
HighIsBrief ==
    \A line \in Lines : Drives(pins[line]) = "high" =>
        /\ layer = "mbed" \/ line \notin lowered
        /\ todo # <<>> /\ Head(todo) = <<line, "low">>

=============================================================================
