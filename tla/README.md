# Formal verification of embedded-common

This directory holds TLA+ models of Sensirion's *embedded-common* library, the
TLC configurations that check them on small instances, and theorems about them
with proofs that TLAPS checks. Paths below are relative to the repository; line
numbers refer to its source. `PROJECT.json` lists, for machines, the runs, the
mutants that show every property can fail, the source lines of every
definition, the hazards and the theorems.

## 1. The system

embedded-common is the code every Sensirion driver is built on. It has no
threads: each function runs to completion in the driver's task. What makes it
hard is the other side of the wire, a sensor and a line that run on their own,
delay, damage and drop bytes, and buffers and static variables that keep what
earlier calls left in them.

### Inventory

| Component | State | Operations | Interacts with |
|---|---|---|---|
| SHDLC frame builder and transmit, `shdlc/sensirion_shdlc.c:49-141, 209-322` | `struct sensirion_shdlc_buffer`: data, offset, checksum; a stack buffer | `begin_frame`, `add_*_to_frame`, `finish_frame`, `tx_frame`; `tx` | UART HAL `tx` |
| SHDLC receive, `:143-207` | uninitialised stack buffer, loop indices, the caller's header and data | `rx` | UART HAL `rx`, one read |
| SHDLC receive in place, `:324-386` | the caller's buffer, which is frame and result at once | `rx_inplace` | UART HAL `rx`, one read |
| SHDLC transceive, `:104-116` | none of its own; the UART's FIFO between calls | `xcv` = `tx`, sleep 20 ms, `rx` | sensor, line |
| I2C write path, `i2c/sensirion_i2c.c:37-85, 132-148, 173-264` | the driver's buffer and offset; a stack buffer | `add_*_to_buffer`, `write_data`, `fill_cmd_send_buf`, `write_cmd`, `write_cmd_with_args`, `general_call_reset` | I2C HAL `write` |
| I2C read path, `:55-60, 87-130, 150-171, 266-294` | stack buffer, or the caller's buffer read in place | `read_words_as_bytes`, `read_words`, `delayed_read_cmd`, `read_cmd`, `read_data_inplace` | I2C HAL `read`, `write`, `sleep_usec` |
| Linux I2C HAL, `i2c/sample-implementations/linux_user_space/sensirion_i2c_hal.c` | static `i2c_device` and `i2c_address` | `init`, `free`, `read`, `write` | kernel, other files of the process |
| GPIO bit-banged I2C HAL, `i2c/sample-implementations/GPIO_bit_banging/sensirion_i2c_hal.c` | the two lines | `read`, `write`; start, stop, write_byte, read_byte, wait | GPIO layer, device |
| GPIO pin layers (STM32F1, nRF5, SAMD2, mbed, Linux sysfs), same directory | two pins: direction and latch; for sysfs also the files of the process | `init_pins`, `SDA_in`, `SDA_out`, `SDA_read` and the same for SCL; one to four accesses each | registers, sysfs |
| Microcontroller I2C HALs (SAMDR twice, SAMD2, STM32F1, nRF5, mbed, Zephyr, and the template) | the selected bus, a retry counter, a running sleep | `init`, `free`, `select_bus`, `read`, `write`, `sleep_usec` | vendor drivers |
| Linux UART HAL, `shdlc/sample-implementations/linux_user_space/sensirion_uart_hal.c` | static `uart_fd` | `init`, `free`, `tx`, `rx`, `sleep_usec` | tty, other files of the process |
| Byte conversions, `common/sensirion_common.c` | none | bytes to integers and floats and back, `copy_bytes` | drivers |
| HAL templates | none | stubs whose comments are the HAL's contract | |
| Tests and configuration | none | unit tests of the buffer functions, type definitions | |

### What is hard about it, and what makes it correct

* **Bytes in flight** (SHDLC). Delimiters and escapes may be any byte, the
  checksum included, and an escape may be the last byte of anything. Correct
  means: a frame contains no bare delimiter, fits its buffer, and is decoded by
  the sensor to what the caller asked for; a received frame is accepted exactly
  if it is one, and no byte that was not received, or that belongs to an
  earlier frame, takes part in the decision.
* **Responses out of step** (SHDLC `xcv`). One fixed sleep, one read, no flush
  and no comparison of the command: a late response is there for the next
  call. Correct means: no response is returned twice, altered, or put together
  from two; calls and responses find back to each other.
* **Reading what is being overwritten** (`rx_inplace`, `read_data_inplace`).
  Writing must stay behind reading.
* **Eight bits of CRC** (I2C): what is handed out before a bad word must be
  good, an old answer must not be taken for the answer to a command.
* **Cached state** (Linux HALs, Zephyr): the address last set must be the
  kernel's idea of the address, the descriptors must be each HAL's own although
  the kernel gives a closed number to the other one, and a bus selection that
  failed must not leave transfers on another bus.
* **Vendor drivers that fail half way** (SAMDR and the other ports): a packet is
  reported as done once, or an error is, which must still be one in eight bits;
  retries and cut-short sleeps must end, and not too early.
* **Open drain from push-pull pins** (pin layers): the lines must be low or
  released after every call, whatever the registers held, and a process that
  died in the middle of one leaves them to the next.
* **Clock stretching** (GPIO HAL): the device may hold the clock after any
  falling edge, for any time. Correct means: no bit is lost or sampled early,
  every call returns, and the bus is free afterwards.

## 2. Modules

| Module | Models | State and actions |
|---|---|---|
| `ShdlcBytes` | stuffing and unstuffing of one byte, error codes | operators |
| `ShdlcCodec` | checksum, frames, and the *reference* of what a response is (`ResponsesIn`, `IsResponse`) | operators, folds over bytes |
| `ShdlcTx` | builder and one-shot transmit, on one struct that is reused | `buffer`, `offset`, `checksum` of the struct; an action per API function; the UART writes all, a part or nothing |
| `ShdlcRx` | `sensirion_shdlc_rx` | the locals of the function; an action per loop iteration |
| `ShdlcRxInplace` | `sensirion_shdlc_rx_inplace` | the caller's buffer with its stale contents; an action per byte |
| `ShdlcDeliveries` | what lines the receivers are checked on | definitions for the `MC` modules |
| `ShdlcExchange` | *abstract*: what a series of `xcv` calls promises | open calls and the last result |
| `ShdlcLink` | `xcv` against a sensor and a line | host, requests, bytes on the wire, UART FIFO; composes what `ShdlcTx` and `ShdlcRx` establish |
| `I2cCodec` | CRC-8, packed words, big-endian integers | operators |
| `Conversions` | `sensirion_common.c` | operators |
| `I2cTx` | I2C buffer builder and writes, and the values a driver reads back | `buffer`, `offset`; an action per API function |
| `I2cRx` | the four ways to read | receive buffer, indices; an action per word |
| `LinuxI2cHal` | Linux I2C HAL | the two static variables, the process's descriptor table, the kernel's address per open bus |
| `LinuxUartHal` | Linux UART HAL, in the same process | extends `LinuxI2cHal` by `uart_fd` and the terminals that are open |
| `McuI2cHal` | the eight HALs on vendor drivers | selected bus, running transfer or sleep; an action per API function and per result of a driver |
| `I2cTransfer` | *abstract*: one I2C transfer, byte by byte | START/STOP, bytes with acknowledgements, result |
| `I2cGpio` | bit-banged HAL against a device | one action per GPIO call; lines, device's protocol state |
| `GpioPins` | the five pin layers under it | two pins, the accesses a call has still to make; for sysfs files, exits and restarts |
| `Ports` | a program as it is built: on a vendor's driver, bit-banged, or for Linux user space | composes `McuI2cHal`, `GpioPins` and `LinuxUartHal` |
| `MC*` | instances for TLC | |
| `SequenceFolds_proofs` | lemmas: folds over sequences, and induction over their length | |
| `ShdlcCodec_proofs` | lemmas: what stuffing, checksum and both decodings compute for strings of every length | |
| `ShdlcXcv_proofs` | theorems about `ShdlcTx` and `ShdlcLink` | |
| `ShdlcRx_proofs`, `ShdlcRxInplace_proofs`, `I2cGpio_proofs` | theorems about the module each is named after | |
| `I2c_proofs` | theorems about `Conversions`, `I2cTx` and `I2cRx` | |
| `Ports_proofs` | theorems about `LinuxI2cHal`, `LinuxUartHal`, `McuI2cHal`, `GpioPins` and their composition `Ports` | |

How the parts fit: `ShdlcTx` shows that an incomplete request is no request
for the sensor, `ShdlcRx` that `rx` accepts exactly the reference language.
`ShdlcLink` relies on both: a request is one message there, and `rx` is the
reference applied to the bytes one read returned. `ShdlcLink` implements
`ShdlcExchange`, `I2cGpio` implements `I2cTransfer`; in both cases a refinement
mapping is part of the detailed module and the abstract specification is a
property of a run. `I2cTx` and `I2cRx` see the HAL by its contract (all bytes,
or an error), which is what `I2cTransfer`, `LinuxI2cHal` and `McuI2cHal` are
about. `I2cGpio` sees the pin layer by its contract (a line is pulled low or
released), which `GpioPins` is about. `LinuxUartHal` implements `LinuxI2cHal`: to
the I2C HAL the UART HAL is one of the other parts of the process. The three
kinds of build exclude each other, because they define the same functions;
`Ports` chooses one at the start.

Definitions that end in a mutation (`AddByteWide`, `VerdictNoCrc`,
`SelectOnce`, ...) are no part of the models: each stands before the definition
it is a faulty version of, and shows that some property fails with it.

### Correspondence in detail

*ShdlcTx.* `BeginFrame` writes the delimiter raw, and resets offset and
checksum; every `Add*` stuffs its bytes and sums the raw ones, `FinishFrame`
stuffs the inverted sum. Signed arguments are taken modulo 2^16 and 2^32, as the
shifts of the C code do. A driver transmits a finished frame, any number of times
(`TxFrame`), and may begin again on the same struct at any point. `Tx` builds the same frame in another way (checksum over
header and data first, then stuffing), as the code does.

*ShdlcRx.* `At(k)` is a set of values: the received byte, or, behind the end of
what was received, any of `Garbage`, because the stack buffer is uninitialised.
`More` is the loop bound `i < len - 2`, on an integer that may be negative.

*ShdlcRxInplace.* `NextByte` inverts bit 5 of whatever follows an escape, where
`rx` unstuffs four values only: the two receivers accept different languages,
and `IsResponse` takes the unstuffing as a parameter.

*ShdlcLink.* An error of the UART says nothing about what is on the wire:
`HostTxFails` ends the call with or without its request having reached the sensor,
which then answers a call that is over, and `HostRxFails` with or without bytes
having been taken. Only `ERR_TX_INCOMPLETE` means that there is no request.
A byte on the wire carries, for the specification only, the call it belongs to. Call identities are used in turn, again only when nothing of
their former response is left. `torn` records that a byte of a response was
lost. `Open`, the mapping to `ShdlcExchange`, lists the calls whose response may
still be returned: those that bytes on the line belong to, each once, and
those the sensor has yet to answer.

*I2cTx.* Every `add_*` returns the next offset or `BYTE_NUM_ERROR` (4) in the
same result. `HalCount` is the conversion of the length to the `uint8_t` of the
HAL. An argument is a kind and a value, a float its bits; `AddConverted` is a
driver that converts with `sensirion_common.c` and adds the bytes. `Converted` is
the same driver reading its values back from a sensor that echoes them.
`GeneralCallReset` is a transfer to address 0.

*Conversions.* `\div` and `%` give the two's complement bytes of a negative
number, as the casts do; `BytesToInt16` and `BytesToInt32` are the cast back.
`CopyBytes` copies element by element, forwards, also between ranges that
overlap.

*I2cRx.* A call is `"bytes"`, `"words"`, `"command"` (write, delay, read words)
or `"inplace"`. `rawLength` is the number of bytes of the response, `size` what a
`uint16_t` keeps of it, and the HAL is asked for `size % 256`. `SwapWords` is `read_words`' final loop, which makes numbers of
the bytes on either byte order.

*LinuxI2cHal.* `open` gives the lowest free descriptor, other parts of the
process open and close files at any time. An open bus has address 0 until
`ioctl(I2C_SLAVE)` succeeds; it fails for an address in `Owned` (EBUSY). `again`
records, for the specification only, that init was called a second time.

*LinuxUartHal.* `ttys` are the descriptors that are open on the terminal, of the
same table; `LinuxNext` lets the rest of the process close only what it opened
itself. `uart_fd` keeps its number after free, as in the code.

*McuI2cHal.* A port is a record of what it does differently: shifting the
address, retrying, its error, disabling the peripheral in free. A vendor's
driver reports a packet as done or failed (`PacketDone`, `PacketFailed`);
`PacketFailed` counts in a `uint16_t` and gives up when the count *equals* the
limit. `Int8` is the conversion of the driver's result to the `int8_t` of the
HAL. `held` is the bus after the SAMD2 port's write, which sends no STOP.
`SleepOn` is one round of Zephyr's loop over `k_usleep`, which returns what is
left when the thread is woken up. `selected` is for the specification: the bus the
caller takes for selected, which after an index above 9 is the one before.

*GpioPins.* A call puts its accesses in `todo`, and each is a step of its own,
because the lines show each. On sysfs every access may fail, and then the
process exits (`Exit`) and is started again (`Restart`) with the pins as they
were. `lowered` is for the specification.

*I2cGpio.* The helpers are sequences of GPIO calls (`Start`, `Stop`,
`WriteByte(b)`, `ReadByte(ack)`), executed one per step, with the device free to
act between any two of them. `"wait"` is a loop of its own, with `polls` left. A
timeout leaves the helper at once, as the `return` in the code. `late` records,
for the specification only, that a stretch outlasted a wait, or that `stop`
raised SDA while the device was still holding SCL, which `stop` never waits for.

## 3. Model checking

All runs finish within about two minutes with two workers.

| Run | Question | Bounds |
|---|---|---|
| `shdlc_tx` | is every frame transparent, in its buffer, the same from builder and one-shot, and decoded by the sensor as asked? | up to 4 payload bytes; reserved and negative arguments; struct reused |
| `shdlc_rx` | which lines does `rx` accept, and what does it read and write? | 9 responses (reserved bytes in every field; 17 data bytes that are all escaped), whole, with trailing bytes, cut at every place, each byte changed to each of 255 values, each byte lost; all strings of up to 7 bytes after START over {0, 1, 0x7d, 0x7e, 254}; limits 1 and 17 |
| `shdlc_rx_inplace` | the same for `rx_inplace` | the same, strings of up to 6 bytes, five stale buffers per size |
| `shdlc_link` | do calls and responses stay together? | five identities, two faults of any kind in any order: late wake-ups, errors of the UART in sending and receiving, lost requests, lost bytes |
| `shdlc_link_blocking` | *violation*: does `xcv` return on the Linux UART? | four identities, one fault |
| `i2c_tx` | does the sensor decode what was asked, and are the values that come back those that were sent? can the error be told from an offset? | a buffer for a command and three words, stale; a value of each kind, negative and reserved patterns; arrays of 1, 2 and 4 bytes; argument lists of 0, 1 and 10 words |
| `i2c_rx` | is what is returned what was sent, for this command? | up to three words, one to three flipped bits or a burst of 5 to 8 bits per word, bus stuck, sensor busy |
| `i2c_rx_long` | *violation*: and for a read of 86 words? | one read |
| `ports` | vendor ports: is 0 returned for exactly one packet, to the right address and bus? do sleeps last, do calls end? pin layers: are the lines open drain? Linux: own descriptors, own terminal, right address? | all eight ports, three retries, five bus indices of which two have a device, six delays around a millisecond; all five layers, ten files; four descriptors, three sensors of which the kernel owns one |
| `linux_i2c_reinit` | *violation*: right address after free and init? | the Linux I2C HAL alone, no address owned |
| `i2c_gpio` | does the bit-banged HAL implement transfers? does it always return? | reads and writes of 0 to 3 bytes, a silent address, waits of two polls |
| `i2c_gpio_read_timeout` | *violation*: does a read that times out say so? | the same |

Why the bounds are enough. The receivers look at one byte at a time and keep one
bit of history (`unstuff_next`), so that strings that are longer than a minimal
frame (6 bytes after START, one more per escape) reach every combination of
position and history; the long response reaches the sizes of the buffers. In
`shdlc_link` a fault can cut a call off from its response, and two can do so and
damage the next one; a read takes more than one response (`LinkAssumption`), and
the responses are short enough for a read to take two of them. In `i2c_rx` the CRC is linear:
the damage, not the data, decides. In `i2c_gpio` the three data bytes 240, 204
and 170 tell the eight bit positions apart, one poll before a timeout and one
after it are all that `polls` can distinguish, and the device may do anything at
every edge. In `i2c_tx` three words bring values of four bytes to every position
a value can have, next to one of two bytes.

In `ports`, two sensors and the general call address suffice for a cache of one
address; the third one is owned. Four descriptors are one for each HAL and two
for the rest of the process, enough for a number to go round. `TIMEOUT` is 3 where
a project has thousands: the counter must meet the limit, be it near or far,
and that it does for any limit is proved. Ten files are two runs of `init_pins`
(four each) and one that fails half way. Integers of `IntBits` = 16 bits make the
conversion of Zephyr's delay checkable in TLC's 32; the theorem has no such
limit. The error codes include those of the nRF5 that exceed a byte, and
negative ones.

The GPIO run explores the states *after* a timeout too, in which master and
device have lost each other; what is claimed there is only that calls return
and that the master drives no line (`EveryCallReturns`, `MasterReleases`).

### Fairness

`ShdlcLink`: `WF(Host)`, because the host is a sequential program that is never
stopped and whose sleep ends; `WF(Sensor)`, because a sensor that has a request
answers and a UART delivers. Nothing makes a fault happen, and no fault is
required not to. `I2cGpio`: `WF(Master)` only; nothing obliges the device to
ever release the clock. `Ports`: `WF(build = "vendor" /\ Running)`, that is, of a
driver's results and of Zephyr's sleep loop only: the vendors' drivers end
within their own time limits, with whatever result, so that it is the code's
retry loop, not the driver, whose end is in question. `ShdlcRx` and `ShdlcRxInplace` state `WF(Next)`, of a
function that runs to its end; no liveness property is claimed of them (the
bounds of their loops are proved). The other modules state no fairness.

Deadlock is checked except where the modelled function simply ends (`ShdlcRx`,
`ShdlcRxInplace`, `I2cRx`) and in the run about blocking.

### Disagreements between code and documentation

1. `shdlc_link_blocking`: `read()` on the Linux UART blocks
   (`sensirion_uart_hal.c:113`), so that `xcv` never returns when its response
   does not come, although `sensirion_shdlc.h:102` promises an error code and
   `SENSIRION_SHDLC_ERR_NO_DATA` exists for it. The run assumes a terminal's
   default VMIN and VTIME, which the HAL does not set.
2. `i2c_rx_long`: `read_data_inplace` computes the size of the raw data in a
   `uint16_t` and hands it to the HAL as `uint8_t`. For 86 words (258 bytes) two
   bytes are read, the CRCs are checked on old contents of the buffer, and the
   caller gets those with `NO_ERROR`. From 43692 bytes on the size does not fit its
   `uint16_t` either, and only the first words are looked at; the indices of the
   loop never wrap, and stay in the buffer (`TypeCorrect` of `I2c_proofs`).
3. `linux_i2c_reinit`: `i2c_address` survives `free` and `init`. The first
   transfer to the address used before is then made without an `ioctl` on the
   new descriptor, to address 0.
4. `i2c_gpio_read_timeout`: `read_byte` returns 0xFF on a timeout, which
   `hal_read` cannot tell from data: it returns `NO_ERROR` with 0xFF bytes.

The models showed further behaviours that are documented here but are not runs
of their own:

* `write_data` truncates its length to `uint8_t` in the same way as (2): of a
  frame of 257 bytes one is sent, with `NO_ERROR`. (`I2cTx` with a buffer of 260
  bytes and an array of 170 violates `SuccessIsDelivered`.)
* `write_cmd_with_args` has a stack buffer of `SENSIRION_MAX_BUFFER_WORDS` = 32
  *bytes*, enough for 10 arguments, and does not check `num_words`; the
  assumption `ArgsAssumption` makes this the caller's duty. Likewise `word_buf`
  of `read_words_as_bytes` has 64 bytes, room for 21 words (`ReadInit` of `I2cRx`).
* If `ioctl(I2C_SLAVE)` fails, the Linux HAL remembers the address all the same,
  and transfers go to the address set before (`RightOnFirstInit` excludes it).
* The GPIO HAL's `stop` does not wait for SCL: if the device stretches after
  the last byte, SDA rises while SCL is low, there is no STOP, and the call
  returns `NO_ERROR` (`StopIsEarly`). `BusIsFree` and `ImplementsTransfer` are claimed
  up to such a step only (`late`).
* After a data byte that is not acknowledged `hal_write` stops twice: the
  second time is a START and a STOP of an empty transaction. `I2cTransfer` allows
  exactly this (`Open`).
* After a timeout, `start` does not look at SDA: if the device still holds it,
  there is no START, and the device takes the next address byte for data.
* A read of no bytes with the GPIO HAL leaves the device sending, with SDA low if
  its first bit is 0; `BusAssumption` excludes it.
* `rx_inplace` accepts what `rx` refuses: of `7d 5d 7d 31`, with `5d` lost, it
  makes `5d 31` with the same sum.
* The sum of both receivers is blind to damage that keeps it. With data `5d 7e`
  on the wire as `5d 7d 5e`, a first byte changed to `7d` gives `7d 7d 5e`: `rx`
  reads `7d 5e` with the sum of `5d 7e` (`rx_inplace` the same of `3d 7e`). A header
  can move up by one byte, for example of a response of 128 data bytes, the first of
  which is 127, that loses its address byte 0: the length is then read as the
  state, and 128 is no error. A byte in front of an escape that becomes 0x20 or 0xe0,
  or becomes an escape, can move the header the same way where the state is the length
  plus one, or 224, or the length 224. `Noticeable` names these cases, and the theorems
  `DamageIsRefused` show that one byte changed, or lost for `rx`, does nothing else.
* A lost byte
  together with a late answer can splice two responses; `ShdlcExchange` promises
  nothing once a response is `torn`.
* A lost zero byte can turn a good response into `EXECUTION_FAILURE`; an error of
  the UART HAL is reported as `MISSING_START`; `xcv` does not compare
  `rx_header->cmd` with the command it sent.

* The nRF5 port returns the driver's 32-bit error as an `int8_t`
  (`Nordic_nRF5_series/sensirion_i2c_hal.c:96`). The low byte of 0x8200, the code
  the vendor's SDK has for an overrun, is zero: such a transfer looks like a
  success. The SDK is not in the repository; `HalAssumption` takes codes whose low
  byte is not zero, and the theorem `TransfersAreTrue` shows that nothing else is
  missing.
* Zephyr's port hands a NULL device to the driver if the caller goes on after a
  selection that found none. The guard of `Transfer` excludes it.
* Zephyr's port sleeps through a delay of 2^31 microseconds or more without
  sleeping at all: `remaining` is negative. `HalAssumption` excludes it.
* The SAMD2 port's `write` sends no STOP, so that the bus is held until the next
  read (`held` in `SuccessIsTransferred`).
* The mbed pin layer raises its latch when it releases a line, and several layers
  make a pin an output before they set its latch: for the time of one access
  the line may be driven high. `HighIsBrief` says when: with mbed at every falling
  edge, with the others only before the line was first pulled low.
* `release_pins` is empty in every layer; on sysfs four descriptors stay open for
  each `init` (`openFiles`), and after `MaxFiles` the next `init` ends the process.
* The `sleep_usec` of the GPIO layers is no longer at least what was asked: the
  SAMD2 one is empty, and the STM32F1 one waits `us / 1000 + 1` milliseconds, one
  less on old drivers, where the I2C HAL of the same port compensates. They
  decide the bus's speed only; no property is claimed of them.

## 4. Proofs

Fifty-five theorems, on lemmas in eight modules, for every value of the constants that
satisfies the modules' named assumptions. Those about behaviours are proved from
an inductive invariant: the initial states satisfy it, each action preserves it,
it implies the property. The type invariants `TypeOK` of `ShdlcRx`,
`ShdlcRxInplace`, `I2cRx` and `LinuxI2cHal` are proved and need no run.

### Induction over strings of bytes

Frames, checksums and lists of values are folds (`FoldLeft`), and most of what
matters says what a fold computes for *every* string. The induction theorems of
the library have an operator for a parameter, which the provers cannot
instantiate. `SequenceFolds_proofs` goes another way: a set that holds 0 and,
with a number, the next one, holds all numbers (`NatSetInduction`, from the
well-foundedness of < and the smallest element outside the set), and a property of
sequences is turned into a set of lengths. `FoldLeft` chooses a function that obeys
the fold's recursion on the sets of positions; `FoldExists` shows that there is one,
and `AgreeOnPrefixes` that any two agree where it counts. From these follow the
equations for the empty sequence and for one element more, and `SequenceInduction`
does the rest.

`ShdlcCodec_proofs` applies this to the codec: stuffing leaves no reserved byte
but escapes and at most doubles the length, both ways of unstuffing undo it, the
checksum is the one byte that completes the sum, and in a string of bytes a
response can end in at most one place, so that a receiver that stops at the first
delimiter decides as the reference `ResponsesIn` does, which looks at all of them.

The last part of the module is about damage. One byte of a frame changed or lost
leaves the stuffed strings on both sides as they were; what was between them
(`StuffedByteAt`) is a byte, or an escape with its byte, and decodes to none, one or
two bytes, or it takes the first byte behind it along (`EscapeIsNoticed`). So the
decoded string has the parts of the content around others (`Redecoded`, `Parts`), and
as both are `Whole` these have the same sum. Either they have the same length too, and
are equal; or the length field, if it is in front, does not fit (`LengthNotices`); or the
header moved and the length field is where the state was, or the state where the
length was (`LostByteIsNoticed`, `EscapeMadeIsNoticed`, `EscapeBrokenIsNoticed`). A
delimiter that the damage makes ends no response (`FoundAround`), and one that it
takes away leaves none (`EdgeIsNoticed`). `DeliveryIsSent` brings the cases together.

### What is proved

* **`ShdlcXcv_proofs`**, sending (`TypeCorrect`, `FramesAreTransparent`, `FramesFit`,
  `BuilderIsTx`, `SuccessDelivers`, `IncompleteRejects`).
  A byte is stored with or without an escape, so `FitsBuffer` is not inductive
  by itself: `SizeInv` counts two places for every byte still to be stored.
  `Transparent` says of the unfinished frame that it holds no reserved byte but
  escapes, and that none of these is without its byte. For the content, `BuiltInv`:
  what is stored is the stuffed beginning of what was given, the checksum its
  sum, and the pending bytes the rest; the two ways to a frame, builder and `tx`,
  then end in the same bytes (`BuilderMatchesTx`). A frame decodes to its request
  because unstuffing undoes stuffing and no delimiter comes before the last byte; a
  proper beginning of one has no closing delimiter (`IncompleteIsRejected`).
  `IncompleteRejects` has a hypothesis: no error of the UART HAL is -6
  (`ERR_TX_INCOMPLETE`). `sensirion_shdlc_tx` passes the HAL's errors on, and one of
  that number would look like an incomplete transmission, although all bytes may
  be on the wire by then.
* **`ShdlcXcv_proofs`**, `xcv` on a line (`OwnResponseHolds`, `LinkImplementsExchange`),
  from the invariant `LinkInv`. `Unmixed`: until a byte is lost, the bytes under way
  are the end of a response and whole responses behind it (`Placed`), and belong to
  no call that is still to be answered (`Separate`). `NothingElse`: without a fault
  nothing is under way but the current call's request or response. The main step is
  that a read which accepts anything accepts the first response, whole
  (`OutcomeOfRead`). If the bytes begin in the middle of a response, or if the bytes of
  several were taken for one, the first byte would be missing, or delimiters would
  stand inside. `rx` does not look for them there, but they count in the sum:
  decoded with their delimiters, q responses make a whole content only if q is at
  least 51, and of those seven bytes each do not fit into a frame (`IsWholes`,
  `WholesAreNone`). So an accepted read closes the oldest open call, and perhaps
  those behind it, and one that fails closes some of the oldest (`OpenReturns`,
  `OpenReads`); a request that arrives opens its call, whether tx has reported an
  error or not (`OpenAsks`); an answer leaves the open calls as they are (`OpenAnswers`), because
  the request becomes bytes of the same call at the same place.
* **`ShdlcRx_proofs`** (`TypeCorrect`, `ReadsReceivedOnly`, `WritesWithinBuffers`,
  `AcceptsResponses`, `AcceptsWhole`, `DamageIsRefused`). `NoStaleRead` speaks of the moment the
  checksum is read; the invariant `LoopInv` carries the loop bound to it: once a
  header byte has been stored, `i <= len - 2`, and the loops end with `unstuff_next`
  = 0. For `NoOverrun` it keeps that the data loop is entered only after the length
  in the header was compared with the limit. For `AcceptsExactly` the invariant says
  that header and data are the decoding of what the loop has passed, and of every
  early return that no response ends anywhere in what was received. `DamageIsRefused`
  takes it from there: what was found in a damaged frame is what was sent.
* **`ShdlcRxInplace_proofs`** (`TypeCorrect`, `ReadsWithinBuffer`,
  `WritingStaysBehind`, `AcceptsResponses`, `AcceptsWhole`, `DamageIsRefused`). Here nothing compares
  the offset with the received length; it is bounded by what was consumed,
  `offset <= 1 + 2 * (header bytes + data bytes)` (`OffsetInv`), which stays below the
  size the contract asks of the buffer. The write index never passes the read index
  because five header bytes precede the first data byte. So the bytes still to be
  read are those received (`UnreadIsIntact`), and the same argument as for `rx`
  applies, with the other unstuffing; what is read behind the end of what was
  received cannot make a response, because the delimiter must lie within the received
  length, at the offset that reading has reached.
* **`I2c_proofs`**, reading (`TypeCorrect`, `WritingStaysBehind`, `AnswersAreFresh`,
  `ReadsSucceedWithData`, `WordsAreSwapped`, `BadWordsStayOut`).
  After n words `i = 3n` and `j = 2n` (`Turns`), so `j <= i`; the raw response
  fits the buffer (`Fits`). The last three say what a read returns. They take as
  their hypothesis that the CRC notices the damage (`Noticed`), which no sum of
  eight bits does for all damage; the run evaluates it for its own deliveries
  (`DamageIsNoticed`: up to three flipped bits, bursts of up to eight). From it
  follows, for every length below the HAL's limit, that the loop has stored a
  prefix of what was sent (`Copied`), all of it at `NO_ERROR`: a turn checks bytes
  that nothing has overwritten (`UnreadIsIntact`).
* **`I2c_proofs`**, conversions and writing (`Uint16RoundTrip`, `Int16RoundTrip`,
  `Uint32RoundTrip`, `Int32RoundTrip`, `Uint16BytesRoundTrip`; `ErrorRecognised`,
  `SuccessDelivers`, `ValuesComeBack`). The round trips are arithmetic on digits to the base 256,
  including the values above 2^31 that TLC cannot hold. Of the buffer, `BufferInv`
  says that up to the offset it carries the command and the data word by word, each
  with its CRC, and that an error has replaced the offset; `ValuesInv` that the data
  are the bytes of the values that were added, one after the other. A frame's length
  is 2 + 3n and never 4, so that the offset tells it from an error; every value
  is found again at the sum of the sizes before it (`Converted`). The last two
  theorems take a buffer of less than 256 bytes: with more the HAL's count is cut
  (section 3), and `SuccessIsDelivered` is false.
* **`I2cGpio_proofs`** (`MasterLetsGo`, `BusReturnsFree`, `TransferImplemented`).
  `MasterInv` is about the master alone and holds in every behaviour: the calls of
  `stop` release both lines whatever they find, and a `start` that gives up has pulled
  none. The other two need both sides. `Sync` relates the helper the master is in,
  and the call in it that comes next (`ip`), to what the device has made of the edges
  so far: in the k-th round of `write_byte` the device has shifted in the first
  k - 1 bits of this byte (`WriteInv`), in the k-th of `read_byte` it has put out
  the k-th bit and the master holds those before it (`ReadInv`), and the bus has
  seen the bytes of the call up to here, all acknowledged, or up to the refused one
  (`Passed`, `Failed`). A call of the GPIO layer is one step of the master with the
  edge it makes for the device; the lemmas `BitIsWritten`, `AnswerIsTaken`,
  `BitIsRead` and `AnswerIsRead` pass through a round, those named `...ReturnsSync`
  through the end of a helper. The device may hold the clock in between
  (`DeviceKeepsSync`), as long as the master waits long enough: `Sync` is claimed
  only until a wait has given up (`late`), and in such a behaviour the bus need not be
  free. For the refinement each step of the HAL is one step of `I2cTransfer` or
  a stutter (`TransferStep`): a START or a STOP, the ninth clock of a byte, the call
  or its return, whose result and data `EndedFacts` compares with what the bus saw.
* **`Ports_proofs`**, the Linux HALs (`TypeCorrect`, `DescriptorIsOwn`,
  `AddressIsRight`; `TtyIsOwn`, `ImplementsI2cHal`, `I2cHalIsUndisturbed`).
  `CacheIsTrue`: in the first use of the HAL the cached address, unless owned, is
  the kernel's for the open bus. It needs `OwnDescriptor`, or another open could
  reset the address. The UART HAL is a refinement: a step of it opens or closes
  an "other" file, which `LinuxI2cHal` allows to the process, or changes nothing
  there (`UartStepIsOther`); closing needs `OwnTty`, that the number is still the
  terminal's. What is proved of `LinuxI2cHal` then holds in the composition.
* The microcontrollers' HALs (`TransfersAreTrue`, `SleepsLast`, `RetriesAreBounded`).
  While a transfer runs no packet is done and the counter is at most the port's
  limit, which a `uint16_t` holds, so that a test for equality meets it. The time
  left is at least what is asked for less what was slept, and never negative
  (`McuInv`).
* The pin layers (`LinesActAsOpenDrain`, `HighsAreBrief`). Within a call the lines
  are not yet what was asked, so the invariant speaks of the accesses still to come
  (`Pending`): a line that is to be released is an input or will be and never an
  output again; one that is to be low is an output with a low latch or will be, and
  no access raises it (`AsAsked`). An output whose latch is high is lowered by the
  very next access (`NotHigh`, `Rest`). That the calls of the five layers have this
  form is a lemma for each kind of call (`InitCalls`, `InCalls`, `OutCalls`).
* The program (`PortsArePinsAndLinux`, `PortsKeepTheirPromises`): whichever build it
  is, its steps are steps of the parts, and every safety property of the run
  `ports` holds in it.

### Assumptions worth knowing

The assumptions of the modules name what callers and the other side owe. Those the
proofs lean on most:

* `RxAssumption`, `InplaceAssumption`: what a delivery is marked as is what happened to
  it (`IsDelivery`): whole, with any bytes behind it, cut, with one byte changed, with
  one byte lost, or any bytes. `AcceptsWhole` is about the first two, `DamageIsRefused`
  about all but the last, `AcceptsExactly` about all.
* `LinkAssumption`, `RoomAssumption` of `ShdlcLink`: responses to different calls differ,
  none reports an error or is too long for the caller, and a read asks for more than
  one response. The last one does not hold of a response all of whose bytes are
  escaped, and the state, which is 0 or 0x80 without an error, is not.
* `BusAssumption` of `I2cGpio`: addresses have seven bits, and a read asks for at least one
  byte (section 3).
* `ArgsAssumption` of `I2cTx`: commands, words and values are in the ranges of their C
  types (`InRange`).
* `HalAssumption`: a driver's error code is no multiple of 256, which the HAL's `int8_t`
  would cut to 0, and delays are below 2^31.

### What is only model-checked

* Liveness (`EveryCallReturns`, `Resynchronises`), which needs ENABLED.

## 5. Not modelled, and why

* The vendors' drivers and registers, the kernel, the sensors: not part of the
  repository. They are modelled from how the code uses them and marked as
  external in `PROJECT.json`.
* The set-up of the terminal in the Linux UART HAL (`tcsetattr` and its flags):
  configuration without a result that anything depends on. Its blocking `read`
  is the run `shdlc_link_blocking`.
* The templates of the UART and of the pins: stubs that return
  `NOT_IMPLEMENTED_ERROR` or do nothing. The I2C template is a port of
  `McuI2cHal`.
* `sensirion_uart_hal_sleep_usec`, the sleeps of Linux and of the GPIO layers: no
  state. What they must be long enough for is time of the sensor, which
  `ShdlcLink` and `I2cRx` take as too short or long enough.
* Calls after `free` of a HAL other than `init`: outside of its contract.
  Arguments that overflow the local buffers of `write_cmd_with_args` and
  `read_words_as_bytes`: the caller's duty, as an assumption.
* The tests have no behaviour of their own. Their checksums are assumptions of
  `MCI2cTx` (`TestVectors`).

## 6. What could be added

* `sensirion_i2c.c` on `LinuxI2cHal` in one model: drivers of several sensors that
  share a bus, call by call. The two meet in the HAL's contract only, which each
  of them is checked against.
