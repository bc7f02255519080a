---------------------------- MODULE Ports_proofs ----------------------------
(***************************************************************************)
(* Proofs about the ports of the HALs, for every configuration: the HALs   *)
(* for Linux user space, any number of descriptors and addresses; the      *)
(* microcontrollers' I2C HALs, any error codes, delays and retries; the    *)
(* pin layers of the bit-banged HAL, any of them; and the program built    *)
(* with one of these, which is each of them and leaves the others alone.   *)
(***************************************************************************)
EXTENDS Ports, TLAPS

-----------------------------------------------------------------------------
(* The I2C HAL for Linux.                                                  *)

\* A transfer leaves the descriptors alone and sets an address at most for
\* the bus the HAL has open.
LEMMA TransferSetsOwnAddress ==
    ASSUME TypeOK, NEW address \in Addresses \cup {0}, HalTransfer(address)
    PROVE  /\ UNCHANGED <<files, i2c_device, stage, again>>
           /\ i2c_address' = address
           /\ slave' \in [Fds -> Addresses \cup {0}]
  <1>1. slave' = slave \/ slave' = [slave EXCEPT ![i2c_device] = address]
    BY DEF HalTransfer, Select, Ioctl
  <1>2. [slave EXCEPT ![i2c_device] = address] \in [Fds -> Addresses \cup {0}]
    BY DEF TypeOK
  <1>3. slave \in [Fds -> Addresses \cup {0}]
    BY DEF TypeOK
  <1> QED
    BY <1>1, <1>2, <1>3 DEF HalTransfer, Select

\* Opening a descriptor keeps the tables of the process and the kernel typed.
LEMMA OpenIsTyped ==
    ASSUME TypeOK, NEW kind \in {"bus", "other"}, NEW fd \in Fds, OpenAs(kind, fd)
    PROVE  /\ files' \in [Fds -> {"free", "bus", "other"}]
           /\ slave' \in [Fds -> Addresses \cup {0}]
  BY DEF TypeOK, OpenAs

\* One step of the HAL, the process or the kernel keeps the types.
LEMMA StepIsTyped ==
    TypeOK /\ [Next]_vars => TypeOK'
  <1> SUFFICES ASSUME TypeOK, [Next]_vars PROVE TypeOK'
    OBVIOUS
  <1>1. CASE HalInit
    <2>1. CASE \E fd \in Fds : Lowest(fd) /\ OpenAs("bus", fd) /\ i2c_device' = fd
      <3>1. PICK fd \in Fds : OpenAs("bus", fd) /\ i2c_device' = fd
        BY <2>1
      <3> QED
        BY <3>1, <1>1, OpenIsTyped DEF HalInit, TypeOK
    <2>2. CASE i2c_device' = -1 /\ UNCHANGED <<files, slave>>
      BY <2>2, <1>1 DEF HalInit, TypeOK
    <2> QED
      BY <2>1, <2>2, <1>1 DEF HalInit
  <1>2. CASE HalFree
    BY <1>2 DEF HalFree, TypeOK
  <1>3. CASE \E address \in Addresses \cup {0} : HalTransfer(address)
    <2>1. PICK address \in Addresses \cup {0} : HalTransfer(address)
      BY <1>3
    <2> QED
      BY <2>1, TransferSetsOwnAddress DEF TypeOK
  <1>4. CASE OtherOpens
    <2>1. PICK fd \in Fds : OpenAs("other", fd)
      BY <1>4 DEF OtherOpens
    <2> QED
      BY <2>1, <1>4, OpenIsTyped DEF OtherOpens, TypeOK
  <1>5. CASE OtherCloses
    BY <1>5 DEF OtherCloses, TypeOK
  <1>6. CASE UNCHANGED vars
    BY <1>6 DEF vars, TypeOK
  <1> QED
    BY <1>1, <1>2, <1>3, <1>4, <1>5, <1>6 DEF Next

\* The descriptor, the address and the tables have their types in every
\* reachable state of the HAL, the process and the kernel.
THEOREM TypeCorrect == Spec => []TypeOK
  <1>1. Init => TypeOK
    BY DEF Init, TypeOK
  <1>2. TypeOK /\ [Next]_vars => TypeOK'
    BY StepIsTyped
  <1> QED
    BY <1>1, <1>2, PTL DEF Spec

\* One step keeps the HAL's descriptor its own, and its only one.
LEMMA StepKeepsDescriptor ==
    TypeOK /\ OwnDescriptor /\ [Next]_vars => OwnDescriptor'
  <1> SUFFICES ASSUME TypeOK, OwnDescriptor, [Next]_vars PROVE OwnDescriptor'
    OBVIOUS
  <1> USE DEF TypeOK, OwnDescriptor
  <1>1. CASE HalInit
    <2>1. \A fd \in Fds : files[fd] # "bus"
      BY <1>1 DEF HalInit
    <2>2. CASE \E fd \in Fds : Lowest(fd) /\ OpenAs("bus", fd) /\ i2c_device' = fd
      <3>1. PICK fd \in Fds : OpenAs("bus", fd) /\ i2c_device' = fd
        BY <2>2
      <3>2. \A f \in Fds : files'[f] = IF f = fd THEN "bus" ELSE files[f]
        BY <3>1 DEF OpenAs
      <3>3. fd # -1
        BY KernelAssumption DEF Fds
      <3> QED
        BY <3>1, <3>2, <3>3, <2>1, <1>1 DEF HalInit
    <2>3. CASE i2c_device' = -1 /\ UNCHANGED <<files, slave>>
      BY <2>3, <2>1, <1>1 DEF HalInit
    <2> QED
      BY <2>2, <2>3, <1>1 DEF HalInit
  <1>2. CASE HalFree
    <2>1. CASE i2c_device >= 0
      <3>1. \A f \in Fds : files'[f] = IF f = i2c_device THEN "free" ELSE files[f]
        BY <2>1, <1>2 DEF HalFree
      <3>2. i2c_device # -1
        BY <2>1
      <3> QED
        BY <3>1, <3>2, <1>2 DEF HalFree
    <2>2. CASE ~(i2c_device >= 0)
      <3>1. i2c_device = -1
        BY <2>2, KernelAssumption DEF Fds
      <3> QED
        BY <3>1, <2>2, <1>2 DEF HalFree
    <2> QED
      BY <2>1, <2>2
  <1>3. CASE \E address \in Addresses \cup {0} : HalTransfer(address)
    BY <1>3 DEF HalTransfer
  <1>4. CASE OtherOpens
    <2>1. PICK fd \in Fds : Lowest(fd) /\ OpenAs("other", fd)
      BY <1>4 DEF OtherOpens
    <2>2. files[fd] = "free"
      BY <2>1 DEF Lowest, FreeFds
    <2>3. \A f \in Fds : files'[f] = IF f = fd THEN "other" ELSE files[f]
      BY <2>1 DEF OpenAs
    <2> QED
      BY <2>2, <2>3, <1>4 DEF OtherOpens
  <1>5. CASE OtherCloses
    <2>1. PICK fd \in Fds : files[fd] = "other" /\ files' = [files EXCEPT ![fd] = "free"]
      BY <1>5 DEF OtherCloses
    <2>2. \A f \in Fds : files'[f] = IF f = fd THEN "free" ELSE files[f]
      BY <2>1
    <2> QED
      BY <2>1, <2>2, <1>5 DEF OtherCloses
  <1>6. CASE UNCHANGED vars
    BY <1>6 DEF vars
  <1> QED
    BY <1>1, <1>2, <1>3, <1>4, <1>5, <1>6 DEF Next

\* The HAL never uses or closes a descriptor of the rest of the process, and
\* has exactly its own open, whatever fails and whatever the process opens.
THEOREM DescriptorIsOwn == Spec => []OwnDescriptor
  <1>1. Init => OwnDescriptor
    BY DEF Init, OwnDescriptor
  <1>2. TypeOK /\ OwnDescriptor /\ [Next]_vars => OwnDescriptor'
    BY StepKeepsDescriptor
  <1> QED
    BY <1>1, <1>2, TypeCorrect, PTL DEF Spec

-----------------------------------------------------------------------------
(* The address.  The cache is right in the first use of the HAL, for every *)
(* address that the kernel lets it set.                                    *)

\* The cached address is the kernel's for the HAL's bus, and still its
\* initial value before init.
CacheIsTrue ==
    /\ stage = "new" => i2c_address = 0 /\ ~again
    /\ stage = "ready" /\ i2c_device # -1 /\ ~again /\ i2c_address \notin Owned
         => slave[i2c_device] = i2c_address
    /\ RightOnFirstInit

\* A transfer that succeeds went to the address it was given, for any set of
\* addresses, if it was made before a second init and no kernel driver owns the
\* address.
THEOREM AddressIsRight == Spec => []RightOnFirstInit
  <1>1. Init => CacheIsTrue
    BY DEF Init, CacheIsTrue, RightOnFirstInit, RightDevice, NoTransfer
  <1>2. TypeOK /\ OwnDescriptor /\ CacheIsTrue /\ [Next]_vars => CacheIsTrue'
    <2> SUFFICES ASSUME TypeOK, OwnDescriptor, CacheIsTrue, [Next]_vars
                 PROVE  CacheIsTrue'
      OBVIOUS
    <2> USE DEF TypeOK, CacheIsTrue
    <2>1. CASE HalInit
      <3>1. /\ stage' = "ready" /\ RightOnFirstInit'
            /\ ~again' => i2c_address' = 0
        BY <2>1 DEF HalInit, RightOnFirstInit, RightDevice, NoTransfer
      <3>2. CASE \E fd \in Fds : Lowest(fd) /\ OpenAs("bus", fd) /\ i2c_device' = fd
        <4>1. PICK fd \in Fds : OpenAs("bus", fd) /\ i2c_device' = fd
          BY <3>2
        <4>2. slave'[fd] = 0
          BY <4>1 DEF OpenAs
        <4> QED
          BY <4>1, <4>2, <3>1
      <3>3. CASE i2c_device' = -1
        BY <3>3, <3>1
      <3> QED
        BY <3>2, <3>3, <2>1 DEF HalInit
    <2>2. CASE HalFree
      BY <2>2 DEF HalFree, RightOnFirstInit, RightDevice, NoTransfer
    <2>3. CASE \E address \in Addresses \cup {0} : HalTransfer(address)
      <3>1. PICK address \in Addresses \cup {0} : HalTransfer(address)
        BY <2>3
      <3>2. stage = "ready" /\ stage' = "ready" /\ i2c_device' = i2c_device
            /\ again' = again /\ i2c_address' = address
        BY <3>1 DEF HalTransfer, Select
      <3>3. ASSUME i2c_device # -1, ~again, address \notin Owned
            PROVE  slave'[i2c_device] = address
        <4>1. i2c_device \in Fds /\ IsBus(i2c_device)
          BY <3>2, <3>3 DEF OwnDescriptor, IsBus
        <4>2. CASE i2c_address = address
          BY <4>2, <3>1, <3>2, <3>3 DEF HalTransfer, Select
        <4>3. CASE i2c_address # address
          <5>1. slave' = [slave EXCEPT ![i2c_device] = address]
            BY <4>1, <4>3, <3>1, <3>3 DEF HalTransfer, Select, Ioctl
          <5> QED
            BY <5>1, <4>1
        <4> QED
          BY <4>2, <4>3
      <3>4. RightOnFirstInit'
        <4>1. IsBus(i2c_device) => i2c_device # -1
          BY KernelAssumption DEF IsBus, Fds
        <4>2. CASE IsBus(i2c_device) /\ last' = [address |-> address, to |-> slave'[i2c_device]]
          BY <4>1, <4>2, <3>2, <3>3 DEF RightOnFirstInit, RightDevice
        <4>3. CASE last' = [address |-> address, to |-> None]
          BY <4>3 DEF RightOnFirstInit, RightDevice
        <4> QED
          BY <4>2, <4>3, <3>1 DEF HalTransfer
      <3> QED
        BY <3>2, <3>3, <3>4
    <2>4. CASE OtherOpens
      <3>1. PICK fd \in Fds : Lowest(fd) /\ OpenAs("other", fd)
        BY <2>4 DEF OtherOpens
      <3>2. files[fd] = "free"
        BY <3>1 DEF Lowest, FreeFds
      <3>3. \A f \in Fds \ {fd} : slave'[f] = slave[f]
        BY <3>1 DEF OpenAs
      <3>4. stage = "ready" /\ i2c_device # -1 => i2c_device \in Fds \ {fd}
        BY <3>2 DEF OwnDescriptor
      <3> QED
        BY <3>3, <3>4, <2>4 DEF OtherOpens, RightOnFirstInit, RightDevice
    <2>5. CASE OtherCloses
      BY <2>5 DEF OtherCloses, RightOnFirstInit, RightDevice
    <2>6. CASE UNCHANGED vars
      BY <2>6 DEF vars, RightOnFirstInit, RightDevice
    <2> QED
      BY <2>1, <2>2, <2>3, <2>4, <2>5, <2>6 DEF Next
  <1>3. CacheIsTrue => RightOnFirstInit
    BY DEF CacheIsTrue
  <1> QED
    BY <1>1, <1>2, <1>3, TypeCorrect, DescriptorIsOwn, PTL DEF Spec

-----------------------------------------------------------------------------
(* The UART HAL next to the I2C HAL.  To the I2C HAL, every step of the    *)
(* UART HAL is one of the rest of the process: the composition implements  *)
(* LinuxI2cHal, and what is proved there holds here.                       *)

\* Before init the static variable has its initial value.
UartShape ==
    /\ uart_stage \in {"new", "ready", "freed"} /\ uart_fd \in Fds \cup {-1}
    /\ uart_stage = "new" => uart_fd = -1

\* The inductive invariant of both HALs.
UartInv == TypeOK /\ OwnDescriptor /\ OwnTty /\ UartShape

\* Opening the lowest descriptor changes that one, which was free.
LEMMA OpenTakesFree ==
    ASSUME TypeOK, NEW kind \in {"bus", "other"}, NEW fd \in Fds, Lowest(fd), OpenAs(kind, fd)
    PROVE  /\ files[fd] = "free"
           /\ \A f \in Fds : files'[f] = IF f = fd THEN kind ELSE files[f]
  BY DEF TypeOK, Lowest, FreeFds, OpenAs

\* What a UART call does to the files, another part of the process might do.
LEMMA UartStepIsOther ==
    ASSUME UartInv, UartInit \/ UartFree \/ UartTransfer
    PROVE  [Next]_vars
  <1>1. CASE UartInit
    <2>1. CASE \E fd \in Fds : Lowest(fd) /\ OpenAs("other", fd)
      BY <1>1, <2>1 DEF UartInit, OtherOpens, Next
    <2>2. CASE UNCHANGED <<files, slave>>
      BY <1>1, <2>2 DEF UartInit, vars
    <2> QED
      BY <1>1, <2>1, <2>2 DEF UartInit
  <1>2. CASE UartFree
    <2>1. CASE uart_fd \in Fds
      <3>1. uart_fd # -1
        BY <2>1, KernelAssumption DEF Fds
      <3>2. files[uart_fd] = "other"
        BY <1>2, <3>1 DEF UartFree, UartInv, OwnTty
      <3>3. OtherCloses
        BY <1>2, <2>1, <3>2 DEF UartFree, OtherCloses
      <3> QED
        BY <3>3 DEF Next
    <2>2. CASE uart_fd \notin Fds
      BY <1>2, <2>2 DEF UartFree, vars
    <2> QED
      BY <2>1, <2>2
  <1>3. CASE UartTransfer
    BY <1>3 DEF UartTransfer, vars
  <1> QED
    BY <1>1, <1>2, <1>3

\* Every step of the two HALs and the process is one that LinuxI2cHal allows.
LEMMA StepIsI2cStep ==
    ASSUME UartInv, [LinuxNext]_linuxVars
    PROVE  [Next]_vars
  BY UartStepIsOther DEF LinuxNext, linuxVars

\* No step of the I2C HAL touches the terminal, and no step of the UART HAL
\* leaves one behind.
LEMMA StepKeepsTty ==
    ASSUME UartInv, [LinuxNext]_linuxVars
    PROVE  OwnTty'
  <1> USE DEF UartInv
  <1>1. CASE UartInit
    <2>0. ttys = {} /\ uart_stage' = "ready" /\ uart_last' = NoUse
      BY <1>1 DEF UartInit, OwnTty
    <2>1. CASE \E fd \in Fds : /\ Lowest(fd) /\ OpenAs("other", fd)
                               /\ uart_fd' = fd /\ ttys' = ttys \cup {fd}
      <3>1. PICK fd \in Fds : /\ Lowest(fd) /\ OpenAs("other", fd)
                              /\ uart_fd' = fd /\ ttys' = ttys \cup {fd}
        BY <2>1
      <3>2. files'[fd] = "other"
        BY <3>1, OpenTakesFree
      <3>3. fd # -1
        BY KernelAssumption DEF Fds
      <3> QED
        BY <2>0, <3>1, <3>2, <3>3 DEF OwnTty, NoUse
    <2>2. CASE uart_fd' = -1 /\ UNCHANGED ttys
      BY <2>0, <2>2 DEF OwnTty, NoUse
    <2> QED
      BY <1>1, <2>1, <2>2 DEF UartInit
  <1>2. CASE UartFree
    <2>1. ttys' = {} /\ uart_stage' = "freed" /\ uart_last' = NoUse
      BY <1>2 DEF UartFree, OwnTty
    <2> QED
      BY <2>1 DEF OwnTty, NoUse
  <1>3. CASE UartTransfer
    <2>1. UNCHANGED <<uart_fd, ttys, uart_stage, files>>
      BY <1>3 DEF UartTransfer, vars
    <2>2. ~uart_last'.failed => uart_fd # -1 /\ uart_last'.fd = uart_fd /\ uart_stage # "freed"
      BY <1>3 DEF UartTransfer
    <2> QED
      BY <2>1, <2>2 DEF OwnTty, UartShape
  <1>4. CASE Next /\ UNCHANGED uartVars /\ (~OtherCloses \/ \A fd \in ttys : files'[fd] = "other")
    <2>1. \A fd \in ttys : files'[fd] = "other"
      <3>1. \A fd \in ttys : fd \in Fds /\ files[fd] = "other"
        BY DEF OwnTty, UartShape
      <3>2. CASE HalInit \/ OtherOpens
        <4>1. CASE UNCHANGED files
          BY <3>1, <4>1
        <4>2. CASE \E kind \in {"bus", "other"}, fd \in Fds : Lowest(fd) /\ OpenAs(kind, fd)
          <5>1. PICK kind \in {"bus", "other"}, fd \in Fds : Lowest(fd) /\ OpenAs(kind, fd)
            BY <4>2
          <5>2. files[fd] = "free" /\ \A f \in Fds : files'[f] = IF f = fd THEN kind ELSE files[f]
            BY <5>1, OpenTakesFree
          <5> QED
            BY <3>1, <5>2
        <4> QED
          BY <3>2, <4>1, <4>2 DEF HalInit, OtherOpens
      <3>3. CASE HalFree
        <4>1. CASE i2c_device >= 0
          <5>1. \A f \in Fds : files'[f] = IF f = i2c_device THEN "free" ELSE files[f]
            BY <3>3, <4>1 DEF HalFree, TypeOK
          <5>2. i2c_device \in Fds /\ i2c_device # -1
            BY <4>1 DEF TypeOK
          <5>3. files[i2c_device] = "bus"
            BY <3>3, <5>2 DEF HalFree, OwnDescriptor
          <5> QED
            BY <3>1, <5>1, <5>3
        <4>2. CASE ~(i2c_device >= 0)
          BY <3>1, <3>3, <4>2 DEF HalFree
        <4> QED
          BY <4>1, <4>2
      <3>4. CASE \E address \in Addresses \cup {0} : HalTransfer(address)
        BY <3>1, <3>4 DEF HalTransfer
      <3>5. CASE OtherCloses
        BY <1>4, <3>5
      <3> QED
        BY <1>4, <3>2, <3>3, <3>4, <3>5 DEF Next
    <2> QED
      BY <1>4, <2>1 DEF OwnTty, uartVars
  <1>5. CASE UNCHANGED linuxVars
    BY <1>5 DEF linuxVars, uartVars, vars, OwnTty
  <1> QED
    BY <1>1, <1>2, <1>3, <1>4, <1>5 DEF LinuxNext

\* The static variable stays a descriptor.
LEMMA StepKeepsShape ==
    ASSUME UartInv, [LinuxNext]_linuxVars
    PROVE  UartShape'
  <1>1. CASE UartInit
    BY <1>1 DEF UartInv, UartInit, UartShape
  <1>2. CASE UartFree
    BY <1>2 DEF UartInv, UartFree, UartShape
  <1>3. CASE UartTransfer
    BY <1>3 DEF UartInv, UartTransfer, UartShape
  <1>4. CASE UNCHANGED uartVars
    BY <1>4 DEF UartInv, uartVars, UartShape
  <1> QED
    BY <1>1, <1>2, <1>3, <1>4 DEF LinuxNext, linuxVars

\* The inductive invariant holds in every reachable state.
LEMMA LinuxInvariance == LinuxSpec => []UartInv
  <1>1. LinuxInit => UartInv
    <2>1. ASSUME Init PROVE TypeOK /\ OwnDescriptor
      BY <2>1 DEF Init, TypeOK, OwnDescriptor
    <2> QED
      BY <2>1 DEF LinuxInit, UartInv, OwnTty, UartShape, NoUse
  <1>2. UartInv /\ [LinuxNext]_linuxVars => UartInv'
    <2> SUFFICES ASSUME UartInv, [LinuxNext]_linuxVars PROVE UartInv'
      OBVIOUS
    <2>1. [Next]_vars
      BY StepIsI2cStep
    <2>2. TypeOK' /\ OwnDescriptor'
      BY <2>1, StepIsTyped, StepKeepsDescriptor DEF UartInv
    <2> QED
      BY <2>2, StepKeepsTty, StepKeepsShape DEF UartInv
  <1> QED
    BY <1>1, <1>2, PTL DEF LinuxSpec

\* Both HALs in one process: the UART HAL has exactly its own terminal open
\* between init and free, and writes and reads nothing else, for any number of
\* descriptors, whatever the I2C HAL and the rest of the process do.
THEOREM TtyIsOwn == LinuxSpec => []OwnTty
  <1>1. UartInv => OwnTty
    BY DEF UartInv
  <1> QED
    BY <1>1, LinuxInvariance, PTL

\* The process with both HALs implements the one LinuxI2cHal describes: nothing
\* the UART HAL does to the descriptors goes beyond what the rest of a process
\* may do to them.
THEOREM ImplementsI2cHal == LinuxSpec => Spec
  <1>1. LinuxInit => Init
    BY DEF LinuxInit
  <1>2. UartInv /\ [LinuxNext]_linuxVars => [Next]_vars
    BY StepIsI2cStep
  <1> QED
    BY <1>1, <1>2, LinuxInvariance, PTL DEF LinuxSpec, Spec

\* So the I2C HAL keeps its descriptor, and its addresses are right, next to
\* the UART HAL as well.
THEOREM I2cHalIsUndisturbed == LinuxSpec => [](OwnDescriptor /\ RightOnFirstInit)
  BY ImplementsI2cHal, DescriptorIsOwn, AddressIsRight, PTL

-----------------------------------------------------------------------------
(* The microcontroller HALs: a transfer reports success exactly if it was  *)
(* done once and at the right place, and a sleep lasts.                    *)

\* What a running transfer and a running sleep have reached.
TransferInv ==
    doing = "transfer" =>
        /\ packet = NoPacket /\ target = [address |-> target.address, bus |-> i2c_dev]
        /\ target.address \in Nat /\ target # Nowhere /\ timeout <= Port.retries

\* What a sleep still owes, it has not slept yet.
SleepInv ==
    /\ nap \in [asked : Nat, left : Int, slept : Nat]
    /\ nap.asked <= nap.slept + (IF doing = "sleep" THEN nap.left ELSE 0)

\* The inductive invariant of the microcontrollers' HALs.
McuInv ==
    /\ hal \in Hals /\ doing \in {"idle", "transfer", "sleep"} /\ timeout \in Nat
    /\ selected # NoBus => selected = i2c_dev
    /\ held = 1 => hal = "samd2"
    /\ SuccessIsTransferred
    /\ doing = "sleep" => nap.left \in Nat
    /\ TransferInv /\ SleepInv

-----------------------------------------------------------------------------
(* What goes through the casts and the shifts.                             *)

\* An error code whose low byte is not zero is not cut to zero.
LEMMA ErrorStaysError == \A code \in Int : code % 256 # 0 => Int8(code) # 0
  BY DEF Int8

\* The driver takes the address the way the port passes it.
LEMMA AddressArrives == \A a \in Nat : OnTheWire(Passed(a)) = a
  BY DEF OnTheWire, Passed, Port, Samdr, SamdrAsf, Samd2, Stm32, Nrf5, Mbed, Zephyr, Template

\* HAL_Delay gets enough milliseconds, whichever version it is.
LEMMA EnoughMilliseconds ==
    ASSUME NEW us \in Nat, NEW old \in BOOLEAN
    PROVE  LET n == Milliseconds(us, old) - IF old THEN 1 ELSE 0
           IN  n \in Nat /\ 1000 * n >= us
  BY DEF Milliseconds

-----------------------------------------------------------------------------

\* It holds at the start.
LEMMA McuInitInv == McuInit => McuInv
  BY DEF McuInit, McuInv, SuccessIsTransferred, TransferInv, SleepInv, Nowhere, NoBus

\* A step that leaves the transfer and the sleep alone.
LEMMA BetweenTransfers ==
    ASSUME McuInv, doing = "idle", UNCHANGED <<hal, transferVars, nap>>,
           selected' # NoBus => selected' = i2c_dev'
    PROVE  McuInv'
  BY DEF McuInv, SuccessIsTransferred, TransferInv, SleepInv, transferVars

\* Every step of a HAL, its driver or its configuration keeps it.
LEMMA McuNextInv == McuInv /\ [McuNext]_mcuVars => McuInv'
<1> SUFFICES ASSUME McuInv, [McuNext]_mcuVars PROVE McuInv'
  OBVIOUS
<1> USE HalAssumption
<1>1. CASE McuHalInit
  BY <1>1, BetweenTransfers DEF McuHalInit, McuInv
<1>2. CASE McuHalFree
  BY <1>2, BetweenTransfers DEF McuHalFree, McuInv
<1>3. ASSUME NEW idx \in Buses, SelectBus(idx) PROVE McuInv'
  BY <1>3, BetweenTransfers DEF SelectBus, McuInv, NoBus
<1>4. ASSUME NEW a \in McuAddresses, NEW o \in {"read", "write"}, Transfer(a, o) PROVE McuInv'
  <2>1. a \in Nat /\ a # NoBus
    BY DEF NoBus
  <2>2. Port' = Port /\ Port.retries \in Nat
    BY <1>4 DEF Transfer, Port, Samdr, SamdrAsf, Samd2, Stm32, Nrf5, Mbed, Zephyr, Template
  <2>3. TransferInv'
    BY <1>4, <2>1, <2>2 DEF McuInv, Transfer, TransferInv, Nowhere
  <2> QED
    BY <1>4, <2>3 DEF McuInv, Transfer, SleepInv, SuccessIsTransferred
<1>5. CASE PacketDone
  <2>1. OnTheWire(Passed(target.address)) = target.address
    BY <1>5, AddressArrives DEF PacketDone, McuInv, TransferInv
  <2>2. SuccessIsTransferred'
    BY <1>5, <2>1 DEF PacketDone, Return, McuInv, TransferInv, SuccessIsTransferred, NoPacket
  <2> QED
    BY <1>5, <2>2 DEF PacketDone, Return, McuInv, TransferInv, SleepInv
<1>6. ASSUME NEW code \in Errors[hal], PacketFailed(code) PROVE McuInv'
  <2>1. Int8(code) # 0
    BY <1>6, ErrorStaysError DEF McuInv
  <2>2. CASE timeout = Port.retries
    <3>1. doing' = "idle" /\ ret' # 0 /\ packet' = NoPacket /\ held' = 0
      BY <1>6, <2>1, <2>2 DEF PacketFailed, Return, McuInv, TransferInv
    <3> QED
      BY <1>6, <3>1 DEF PacketFailed, McuInv, TransferInv, SleepInv, SuccessIsTransferred, NoPacket
  <2>3. CASE timeout # Port.retries
    <3>1. Port' = Port /\ Port.retries \in Nat /\ Port.retries < 65536
      BY <1>6 DEF PacketFailed, Port, Samdr, SamdrAsf, Samd2, Stm32, Nrf5, Mbed, Zephyr, Template
    <3>2. timeout < Port.retries /\ timeout \in Nat
      BY <1>6, <2>3, <3>1 DEF PacketFailed, McuInv, TransferInv
    <3>3. timeout' = timeout + 1
      BY <1>6, <3>1, <3>2 DEF PacketFailed
    <3> QED
      BY <1>6, <2>3, <3>1, <3>2, <3>3
      DEF PacketFailed, McuInv, TransferInv, SleepInv, SuccessIsTransferred
  <2> QED
    BY <2>2, <2>3
<1>7. CASE NotImplemented
  BY <1>7
  DEF NotImplemented, Return, McuInv, TransferInv, SleepInv, SuccessIsTransferred,
      NoPacket, NOT_IMPLEMENTED_ERROR
<1>8. ASSUME NEW us \in Delays, Sleep(us) PROVE McuInv'
  <2>1. us \in Nat /\ Int32(us) = us
    BY DEF Int32
  <2>2. CASE hal = "zephyr"
    BY <1>8, <2>1, <2>2 DEF Sleep, McuInv, TransferInv, SleepInv, SuccessIsTransferred
  <2>3. CASE hal = "stm32"
    <3>1. PICK old \in BOOLEAN :
              nap' = [asked |-> us, left |-> 0,
                      slept |-> 1000 * (Milliseconds(us, old) - IF old THEN 1 ELSE 0)]
      BY <1>8, <2>3 DEF Sleep
    <3>2. nap' \in [asked : Nat, left : Int, slept : Nat] /\ nap'.left = 0
          /\ nap'.asked <= nap'.slept
      BY <2>1, <3>1, EnoughMilliseconds
    <3> QED
      BY <1>8, <2>3, <3>2 DEF Sleep, McuInv, TransferInv, SleepInv, SuccessIsTransferred
  <2>4. CASE hal \notin {"zephyr", "stm32"}
    BY <1>8, <2>1, <2>4 DEF Sleep, McuInv, TransferInv, SleepInv, SuccessIsTransferred
  <2> QED
    BY <2>2, <2>3, <2>4
<1>9. CASE SleepOn
  <2>1. CASE nap.left > 0
    <3>1. PICK left \in {0, nap.left \div 2} :
              nap' = [asked |-> nap.asked, left |-> left,
                      slept |-> nap.slept + nap.left - left]
      BY <1>9, <2>1 DEF SleepOn
    <3>2. left \in Nat /\ left <= nap.left /\ nap.left \in Nat
      BY <1>9, <2>1 DEF SleepOn, McuInv, SleepInv
    <3>3. nap'.asked = nap.asked /\ nap'.left = left /\ nap'.slept = nap.slept + nap.left - left
      BY <3>1 DEF McuInv, SleepInv
    <3>4. nap.slept + nap.left - left \in Nat
      BY <3>2 DEF McuInv, SleepInv
    <3>5. nap' \in [asked : Nat, left : Int, slept : Nat]
      BY <3>1, <3>2, <3>4 DEF McuInv, SleepInv
    <3>6. nap'.asked <= nap'.slept + nap'.left
      BY <1>9, <3>2, <3>3 DEF McuInv, SleepInv, SleepOn
    <3>7. doing' = "sleep" /\ doing = "sleep"
      BY <1>9, <2>1 DEF SleepOn
    <3>8. SleepInv'
      BY <3>5, <3>6, <3>7 DEF SleepInv
    <3> QED
      BY <1>9, <3>2, <3>3, <3>7, <3>8 DEF SleepOn, McuInv, TransferInv, SuccessIsTransferred
  <2>2. CASE ~(nap.left > 0)
    BY <1>9, <2>2 DEF SleepOn, McuInv, TransferInv, SleepInv, SuccessIsTransferred
  <2> QED
    BY <2>1, <2>2
<1>10. CASE UNCHANGED mcuVars
  BY <1>10
  DEF mcuVars, transferVars, McuInv, TransferInv, SleepInv, SuccessIsTransferred, Port
<1> QED
  BY <1>1, <1>2, <1>3, <1>4, <1>5, <1>6, <1>7, <1>8, <1>9, <1>10 DEF McuNext

\* A transfer returns 0 exactly if the driver has done it once, at the address
\* and on the bus asked for, for every TIMEOUT, address and error code.
THEOREM TransfersAreTrue == McuSpec => []SuccessIsTransferred
<1>1. McuInv => SuccessIsTransferred
  BY DEF McuInv, SuccessIsTransferred
<1> QED
  BY <1>1, McuInitInv, McuNextInv, PTL DEF McuSpec

\* Every sleep lasts as long as asked, for every delay below 2^31 microseconds.
THEOREM SleepsLast == McuSpec => []SleepsLongEnough
<1>1. McuInv => SleepsLongEnough
  BY DEF McuInv, SleepInv, SleepsLongEnough
<1> QED
  BY <1>1, McuInitInv, McuNextInv, PTL DEF McuSpec

\* The driver is tried at most TIMEOUT + 1 times for a transfer.
THEOREM RetriesAreBounded ==
    McuSpec => [](doing = "transfer" => timeout <= Port.retries)
<1>1. McuInv => (doing = "transfer" => timeout <= Port.retries)
  BY DEF McuInv, TransferInv
<1> QED
  BY <1>1, McuInitInv, McuNextInv, PTL DEF McuSpec

-----------------------------------------------------------------------------
(* The pin layers.  A layer's call leaves accesses to be made one by one:  *)
(* what counts is which of them are still to come, and that an access that *)
(* might drive a line high is followed at once by the one that lowers it.  *)

AccessNames == {"export", "open", "input", "output", "output_low", "low", "high", "open_drain"}
Outputs     == {"output", "output_low"}
Pin         == [direction : {"in", "out"}, openDrain : BOOLEAN, latch : {0, 1}]

\* The accesses of a call, or of the rest of one.
Pending(s) == {s[k] : k \in 1..Len(s)}

\* An output is lowered by the next access, except on the nRF5, which never has a
\* high latch; a latch is raised after its line has become an input.
Ordered(s) ==
    /\ layer # "nrf5" =>
           \A k \in 1..Len(s), line \in Lines :
               s[k] = <<line, "output">> => k + 1 \in 1..Len(s) /\ s[k + 1] = <<line, "low">>
    /\ \A k \in 1..Len(s), line \in Lines :
           s[k] = <<line, "high">> => k - 1 \in 1..Len(s) /\ s[k - 1] = <<line, "input">>

\* What each layer never does.
Usual(s) ==
    \A line \in Lines :
        /\ layer # "mbed" => <<line, "high">> \notin Pending(s)
        /\ layer = "sysfs" => <<line, "output">> \notin Pending(s)

\* The accesses of a call.
Calls == {s \in Seq(Lines \X AccessNames) : Ordered(s) /\ Usual(s)}

\* s releases the line, and does nothing else to it.
Releases(s, line) ==
    /\ <<line, "input">> \in Pending(s)
    /\ \A a \in Outputs : <<line, a>> \notin Pending(s)

\* s lowers the line, and does nothing else to it.
Lowers(s, line) ==
    /\ \A a \in {"input", "high"} : <<line, a>> \notin Pending(s)
    /\ \E a \in Outputs : <<line, a>> \in Pending(s)
    /\ layer # "nrf5" => <<line, "low">> \in Pending(s)

\* Two sequences of accesses one after the other.
LEMMA PendingOfBoth ==
    ASSUME NEW E, NEW s \in Seq(E), NEW t \in Seq(E)
    PROVE  Pending(s \o t) = Pending(s) \cup Pending(t)
  <1> DEFINE u == s \o t
  <1>1. /\ u \in Seq(E) /\ Len(u) = Len(s) + Len(t) /\ Len(s) \in Nat /\ Len(t) \in Nat
        /\ \A k \in 1..Len(s) : u[k] = s[k]
        /\ \A k \in 1..Len(t) : u[Len(s) + k] = t[k]
    OBVIOUS
  <1> HIDE DEF u
  <1>2. ASSUME NEW a \in Pending(u) PROVE a \in Pending(s) \cup Pending(t)
    <2>1. PICK k \in 1..Len(u) : a = u[k]
      BY DEF Pending
    <2>2. CASE k <= Len(s)
      <3>1. k \in 1..Len(s)
        BY <1>1, <2>2
      <3> QED
        BY <1>1, <2>1, <3>1 DEF Pending
    <2>3. CASE k > Len(s)
      <3> DEFINE j == k - Len(s)
      <3>1. j \in 1..Len(t) /\ k = Len(s) + j
        BY <1>1, <2>3
      <3> HIDE DEF j
      <3>2. a = t[j]
        BY <1>1, <2>1, <3>1
      <3> QED
        BY <3>1, <3>2 DEF Pending
    <2> QED
      BY <1>1, <2>2, <2>3
  <1>3. ASSUME NEW a \in Pending(s) PROVE a \in Pending(u)
    <2>1. PICK k \in 1..Len(s) : a = s[k]
      BY DEF Pending
    <2>2. k \in 1..Len(u) /\ u[k] = a
      BY <1>1, <2>1
    <2> QED
      BY <2>2 DEF Pending
  <1>4. ASSUME NEW a \in Pending(t) PROVE a \in Pending(u)
    <2>1. PICK k \in 1..Len(t) : a = t[k]
      BY DEF Pending
    <2>2. Len(s) + k \in 1..Len(u) /\ u[Len(s) + k] = a
      BY <1>1, <2>1
    <2> QED
      BY <2>2 DEF Pending
  <1>5. Pending(u) = Pending(s) \cup Pending(t)
    BY <1>2, <1>3, <1>4
  <1> QED
    BY <1>5 DEF u

\* One call's accesses after another's are a call's.
LEMMA CallsCompose ==
    ASSUME NEW s \in Calls, NEW t \in Calls
    PROVE  s \o t \in Calls
  <1> DEFINE u == s \o t
             E == Lines \X AccessNames
  <1>1. s \in Seq(E) /\ t \in Seq(E) /\ Ordered(s) /\ Ordered(t) /\ Usual(s) /\ Usual(t)
    BY DEF Calls
  <1> HIDE DEF E
  <1>2. /\ u \in Seq(E) /\ Len(u) = Len(s) + Len(t) /\ Len(s) \in Nat /\ Len(t) \in Nat
        /\ \A k \in 1..Len(s) : u[k] = s[k]
        /\ \A k \in 1..Len(t) : u[Len(s) + k] = t[k]
    BY <1>1
  <1>3. Pending(u) = Pending(s) \cup Pending(t)
    BY <1>1, PendingOfBoth
  <1> HIDE DEF u
  <1>4. Usual(u)
    BY <1>1, <1>3 DEF Usual
  <1>5. ASSUME layer # "nrf5", NEW k \in 1..Len(u), NEW line \in Lines,
               u[k] = <<line, "output">>
        PROVE  k + 1 \in 1..Len(u) /\ u[k + 1] = <<line, "low">>
    <2>1. CASE k <= Len(s)
      <3>1. k \in 1..Len(s) /\ s[k] = <<line, "output">>
        BY <1>2, <1>5, <2>1
      <3>2. k + 1 \in 1..Len(s) /\ s[k + 1] = <<line, "low">>
        BY <1>1, <1>5, <3>1 DEF Ordered
      <3> QED
        BY <1>2, <3>2
    <2>2. CASE k > Len(s)
      <3> DEFINE j == k - Len(s)
      <3>1. j \in 1..Len(t) /\ k = Len(s) + j /\ k + 1 = Len(s) + (j + 1)
        BY <1>2, <2>2
      <3> HIDE DEF j
      <3>2. t[j] = <<line, "output">>
        BY <1>2, <1>5, <3>1
      <3>3. j + 1 \in 1..Len(t) /\ t[j + 1] = <<line, "low">>
        BY <1>1, <1>5, <3>1, <3>2 DEF Ordered
      <3> QED
        BY <1>2, <3>1, <3>3
    <2> QED
      BY <1>2, <2>1, <2>2
  <1>6. ASSUME NEW k \in 1..Len(u), NEW line \in Lines, u[k] = <<line, "high">>
        PROVE  k - 1 \in 1..Len(u) /\ u[k - 1] = <<line, "input">>
    <2>1. CASE k <= Len(s)
      <3>1. k \in 1..Len(s) /\ s[k] = <<line, "high">>
        BY <1>2, <1>6, <2>1
      <3>2. k - 1 \in 1..Len(s) /\ s[k - 1] = <<line, "input">>
        BY <1>1, <3>1 DEF Ordered
      <3> QED
        BY <1>2, <3>2
    <2>2. CASE k > Len(s)
      <3> DEFINE j == k - Len(s)
      <3>1. j \in 1..Len(t) /\ k = Len(s) + j /\ k - 1 = Len(s) + (j - 1)
        BY <1>2, <2>2
      <3> HIDE DEF j
      <3>2. t[j] = <<line, "high">>
        BY <1>2, <1>6, <3>1
      <3>3. j - 1 \in 1..Len(t) /\ t[j - 1] = <<line, "input">>
        BY <1>1, <3>1, <3>2 DEF Ordered
      <3> QED
        BY <1>2, <3>1, <3>3
    <2> QED
      BY <1>2, <2>1, <2>2
  <1>7. Ordered(u)
    BY <1>5, <1>6 DEF Ordered
  <1> QED
    BY <1>2, <1>4, <1>7 DEF Calls, u, E

\* One access, or two, on one line.
LEMMA OneOn ==
    ASSUME NEW line \in Lines, NEW a \in AccessNames
    PROVE  LET s == On(line, <<a>>)
           IN  /\ s \in Seq(Lines \X AccessNames) /\ Len(s) = 1 /\ s[1] = <<line, a>>
               /\ Pending(s) = {<<line, a>>}
  <1> DEFINE s == On(line, <<a>>)
  <1>1. s \in Seq(Lines \X AccessNames) /\ Len(s) = 1 /\ s[1] = <<line, a>>
    BY DEF On
  <1> HIDE DEF s
  <1>2. Pending(s) = {<<line, a>>}
    BY <1>1, SMTT(40) DEF Pending
  <1> QED
    BY <1>1, <1>2 DEF s

\* One access that neither makes an output nor raises a latch.
LEMMA OneAccess ==
    ASSUME NEW line \in Lines, NEW a \in AccessNames \ {"output", "high"}
    PROVE  On(line, <<a>>) \in Calls /\ Pending(On(line, <<a>>)) = {<<line, a>>}
  <1> DEFINE s == On(line, <<a>>)
  <1>1. s \in Seq(Lines \X AccessNames) /\ Len(s) = 1 /\ s[1] = <<line, a>>
    BY OneOn
  <1>2. Pending(s) = {<<line, a>>}
    BY OneOn
  <1> HIDE DEF s
  <1>3. \A k \in 1..Len(s) : s[k] = <<line, a>>
    BY <1>1
  <1>4. Ordered(s) /\ Usual(s)
    BY <1>2, <1>3 DEF Ordered, Usual
  <1> QED
    BY <1>1, <1>2, <1>4 DEF Calls, s

\* Two accesses: an output is lowered, a latch is raised behind an input.
LEMMA TwoAccesses ==
    ASSUME NEW line \in Lines, NEW a \in AccessNames, NEW b \in AccessNames,
           a # "high", b # "output", a = "output" => b = "low" /\ layer # "sysfs",
           b = "high" => a = "input" /\ layer = "mbed"
    PROVE  /\ On(line, <<a, b>>) \in Calls
           /\ Pending(On(line, <<a, b>>)) = {<<line, a>>, <<line, b>>}
  <1> DEFINE s == On(line, <<a, b>>)
  <1>1. /\ s \in Seq(Lines \X AccessNames) /\ Len(s) = 2
        /\ s[1] = <<line, a>> /\ s[2] = <<line, b>>
    BY DEF On
  <1> HIDE DEF s
  <1>2. Pending(s) = {<<line, a>>, <<line, b>>}
    BY <1>1 DEF Pending
  <1>3. \A k \in 1..Len(s) : (k = 1 /\ s[k] = <<line, a>>) \/ (k = 2 /\ s[k] = <<line, b>>)
    BY <1>1
  <1>4. Usual(s)
    BY <1>2 DEF Usual
  <1>5. ASSUME NEW k \in 1..Len(s), NEW l \in Lines, s[k] = <<l, "output">>
        PROVE  k + 1 \in 1..Len(s) /\ s[k + 1] = <<l, "low">>
    BY <1>1, <1>3, <1>5
  <1>6. ASSUME NEW k \in 1..Len(s), NEW l \in Lines, s[k] = <<l, "high">>
        PROVE  k - 1 \in 1..Len(s) /\ s[k - 1] = <<l, "input">>
    BY <1>1, <1>3, <1>6
  <1>7. Ordered(s)
    BY <1>5, <1>6 DEF Ordered
  <1> QED
    BY <1>1, <1>2, <1>4, <1>7 DEF Calls, s

\* A call may have nothing to access.
LEMMA NoAccess == <<>> \in Calls /\ Pending(<<>>) = {}
  <1>1. <<>> \in Seq(Lines \X AccessNames) /\ Len(<<>>) = 0 /\ 1..0 = {}
    OBVIOUS
  <1>2. Pending(<<>>) = {}
    BY <1>1 DEF Pending
  <1>3. Ordered(<<>>) /\ Usual(<<>>)
    BY <1>1, <1>2 DEF Ordered, Usual
  <1> QED
    BY <1>1, <1>2, <1>3 DEF Calls

\* s makes no line an output.
LeavesInputs(s) == \A line \in Lines, a \in Outputs : <<line, a>> \notin Pending(s)

\* s is about one line.
IsAbout(s, line) == \A l \in Lines, a \in AccessNames : <<l, a>> \in Pending(s) => l = line

\* init_pins of every layer leaves the lines inputs.
LEMMA InitCalls ==
    ASSUME layer \in {"stm32", "nrf5", "samd2", "mbed", "sysfs"}
    PROVE  Layer.init \in Calls /\ LeavesInputs(Layer.init)
  <1> DEFINE E == Lines \X AccessNames
  <1>1. ASSUME NEW s \in Calls, NEW t \in Calls, LeavesInputs(s), LeavesInputs(t)
        PROVE  s \o t \in Calls /\ LeavesInputs(s \o t)
    <2>1. Pending(s \o t) = Pending(s) \cup Pending(t)
      BY PendingOfBoth DEF Calls
    <2> QED
      BY <1>1, <2>1, CallsCompose DEF LeavesInputs
  <1>2. ASSUME NEW line \in Lines
        PROVE  /\ On(line, <<"input">>) \in Calls /\ LeavesInputs(On(line, <<"input">>))
               /\ On(line, <<"export">>) \in Calls /\ LeavesInputs(On(line, <<"export">>))
               /\ On(line, <<"input", "open_drain">>) \in Calls
               /\ LeavesInputs(On(line, <<"input", "open_drain">>))
               /\ On(line, <<"open", "open">>) \in Calls
               /\ LeavesInputs(On(line, <<"open", "open">>))
    <2>1. On(line, <<"input">>) \in Calls
          /\ Pending(On(line, <<"input">>)) = {<<line, "input">>}
      BY OneAccess DEF AccessNames
    <2>2. On(line, <<"export">>) \in Calls
          /\ Pending(On(line, <<"export">>)) = {<<line, "export">>}
      BY OneAccess DEF AccessNames
    <2>3. /\ On(line, <<"input", "open_drain">>) \in Calls
          /\ Pending(On(line, <<"input", "open_drain">>)) =
                 {<<line, "input">>, <<line, "open_drain">>}
      BY TwoAccesses DEF AccessNames
    <2>4. /\ On(line, <<"open", "open">>) \in Calls
          /\ Pending(On(line, <<"open", "open">>)) = {<<line, "open">>, <<line, "open">>}
      BY TwoAccesses DEF AccessNames
    <2> QED
      BY <2>1, <2>2, <2>3, <2>4 DEF LeavesInputs, Outputs
  <1>3. "SCL" \in Lines /\ "SDA" \in Lines
    BY DEF Lines
  <1>4. CASE layer = "stm32"
    <2>1. Layer.init = On("SDA", <<"input">>) \o On("SCL", <<"input">>)
      BY <1>4 DEF Layer, Stm32Pins
    <2> QED
      BY <1>1, <1>2, <1>3, <2>1
  <1>5. CASE layer = "nrf5"
    <2>1. Layer.init = On("SCL", <<"input">>) \o On("SDA", <<"input">>)
      BY <1>5 DEF Layer, Nrf5Pins
    <2> QED
      BY <1>1, <1>2, <1>3, <2>1
  <1>6. CASE layer = "samd2"
    <2>1. Layer.init = On("SDA", <<"input", "open_drain">>) \o On("SCL", <<"input", "open_drain">>)
      BY <1>6 DEF Layer, Samd2Pins
    <2> QED
      BY <1>1, <1>2, <1>3, <2>1
  <1>7. CASE layer = "mbed"
    <2>1. Layer.init = <<>>
      BY <1>7 DEF Layer, MbedPins
    <2> QED
      BY <2>1, NoAccess DEF LeavesInputs
  <1>8. CASE layer = "sysfs"
    <2> DEFINE s1 == On("SCL", <<"export">>)
               s2 == On("SDA", <<"export">>)
               s3 == On("SCL", <<"open", "open">>)
               s4 == On("SDA", <<"open", "open">>)
    <2>1. Layer.init = s1 \o s2 \o s3 \o s4
      BY <1>8 DEF Layer, SysfsPins
    <2>2. /\ s1 \in Calls /\ s2 \in Calls /\ s3 \in Calls /\ s4 \in Calls
          /\ LeavesInputs(s1) /\ LeavesInputs(s2) /\ LeavesInputs(s3) /\ LeavesInputs(s4)
      BY <1>2, <1>3
    <2> HIDE DEF s1, s2, s3, s4
    <2>3. s1 \o s2 \in Calls /\ LeavesInputs(s1 \o s2)
      BY <1>1, <2>2
    <2>4. s1 \o s2 \o s3 \in Calls /\ LeavesInputs(s1 \o s2 \o s3)
      BY <1>1, <2>2, <2>3
    <2> QED
      BY <1>1, <2>1, <2>2, <2>4
  <1> QED
    BY <1>4, <1>5, <1>6, <1>7, <1>8

\* Every layer's in releases its line and nothing else.
LEMMA InCalls ==
    ASSUME layer \in {"stm32", "nrf5", "samd2", "mbed", "sysfs"}, NEW line \in Lines
    PROVE  LET s == On(line, Layer.in)
           IN  s \in Calls /\ LeavesInputs(s) /\ Releases(s, line) /\ IsAbout(s, line)
  <1> DEFINE Right(s) == s \in Calls /\ LeavesInputs(s) /\ Releases(s, line) /\ IsAbout(s, line)
  <1>1. CASE layer \in {"stm32", "nrf5", "sysfs"}
    <2>1. Layer.in = <<"input">>
      BY <1>1 DEF Layer, Stm32Pins, Nrf5Pins, SysfsPins
    <2>2. /\ On(line, <<"input">>) \in Calls
          /\ Pending(On(line, <<"input">>)) = {<<line, "input">>}
      BY OneAccess DEF AccessNames
    <2>3. Right(On(line, <<"input">>))
      BY <2>2 DEF LeavesInputs, Releases, IsAbout, Outputs
    <2> QED
      BY <2>1, <2>3
  <1>2. CASE layer = "samd2"
    <2>1. Layer.in = <<"input", "open_drain">>
      BY <1>2 DEF Layer, Samd2Pins
    <2>2. /\ On(line, <<"input", "open_drain">>) \in Calls
          /\ Pending(On(line, <<"input", "open_drain">>)) =
                 {<<line, "input">>, <<line, "open_drain">>}
      BY TwoAccesses DEF AccessNames
    <2>3. Right(On(line, <<"input", "open_drain">>))
      BY <2>2 DEF LeavesInputs, Releases, IsAbout, Outputs
    <2> QED
      BY <2>1, <2>3
  <1>3. CASE layer = "mbed"
    <2>1. Layer.in = <<"input", "high">>
      BY <1>3 DEF Layer, MbedPins
    <2>2. /\ On(line, <<"input", "high">>) \in Calls
          /\ Pending(On(line, <<"input", "high">>)) = {<<line, "input">>, <<line, "high">>}
      BY <1>3, TwoAccesses DEF AccessNames
    <2>3. Right(On(line, <<"input", "high">>))
      BY <2>2 DEF LeavesInputs, Releases, IsAbout, Outputs
    <2> QED
      BY <2>1, <2>3
  <1> QED
    BY <1>1, <1>2, <1>3

\* Every layer's out lowers its line and nothing else.  The nRF5 has one access
\* for it, and its order is of no interest.
LEMMA OutCalls ==
    ASSUME layer \in {"stm32", "nrf5", "samd2", "mbed", "sysfs"}, NEW line \in Lines
    PROVE  LET s == On(line, Layer.out)
           IN  s \in Calls /\ Lowers(s, line) /\ IsAbout(s, line)
  <1> DEFINE Right(s) == s \in Calls /\ Lowers(s, line) /\ IsAbout(s, line)
  <1>1. CASE layer \in {"stm32", "samd2", "mbed"}
    <2>1. Layer.out = <<"output", "low">>
      BY <1>1 DEF Layer, Stm32Pins, Samd2Pins, MbedPins
    <2>2. /\ On(line, <<"output", "low">>) \in Calls
          /\ Pending(On(line, <<"output", "low">>)) = {<<line, "output">>, <<line, "low">>}
      BY <1>1, TwoAccesses DEF AccessNames
    <2>3. Right(On(line, <<"output", "low">>))
      BY <2>2 DEF Lowers, IsAbout, Outputs
    <2> QED
      BY <2>1, <2>3
  <1>2. CASE layer = "sysfs"
    <2>1. Layer.out = <<"output_low", "low">>
      BY <1>2 DEF Layer, SysfsPins
    <2>2. /\ On(line, <<"output_low", "low">>) \in Calls
          /\ Pending(On(line, <<"output_low", "low">>)) =
                 {<<line, "output_low">>, <<line, "low">>}
      BY TwoAccesses DEF AccessNames
    <2>3. Right(On(line, <<"output_low", "low">>))
      BY <2>2 DEF Lowers, IsAbout, Outputs
    <2> QED
      BY <2>1, <2>3
  <1>3. CASE layer = "nrf5"
    <2> DEFINE s == On(line, <<"output">>)
    <2>1. Layer.out = <<"output">>
      BY <1>3 DEF Layer, Nrf5Pins
    <2>2. /\ s \in Seq(Lines \X AccessNames) /\ Len(s) = 1 /\ s[1] = <<line, "output">>
          /\ Pending(s) = {<<line, "output">>}
      BY OneOn DEF AccessNames
    <2> HIDE DEF s
    <2>3. Pending(s) = {<<line, "output">>} /\ \A k \in 1..Len(s) : s[k] = <<line, "output">>
      BY <2>2
    <2>4. Ordered(s) /\ Usual(s)
      BY <1>3, <2>3 DEF Ordered, Usual
    <2>5. Right(s)
      BY <1>3, <2>2, <2>3, <2>4 DEF Calls, Lowers, IsAbout, Outputs
    <2> QED
      BY <2>1, <2>5 DEF s
  <1> QED
    BY <1>1, <1>2, <1>3


-----------------------------------------------------------------------------
(* The invariant of the pin layers.                                        *)

\* The accesses that are left, of a call that may have been begun.
Rest ==
    /\ todo \in Seq(Lines \X AccessNames) /\ Usual(todo)
    /\ layer # "nrf5" =>
           \A k \in 1..Len(todo), line \in Lines :
               todo[k] = <<line, "output">>
                   => k + 1 \in 1..Len(todo) /\ todo[k + 1] = <<line, "low">>
    /\ \A k \in 1..Len(todo), line \in Lines :
           todo[k] = <<line, "high">> =>
               IF k = 1 THEN pins[line].direction = "in" ELSE todo[k - 1] = <<line, "input">>

\* The types of the variables.
PinTypes ==
    /\ layer \in {"stm32", "nrf5", "samd2", "mbed", "sysfs"}
    /\ pins \in [Lines -> Pin] /\ program \in {"new", "ready", "freed", "exited"}
    /\ asked \in [Lines -> {"nothing", "low", "released"}]
    /\ read.result = read.level

\* What the last call asked of a line is so, or is about to be.
AsAsked(line) ==
    /\ asked[line] \in {"low", "released"}
    /\ asked[line] = "released" =>
           /\ \A a \in Outputs : <<line, a>> \notin Pending(todo)
           /\ pins[line].direction = "in" \/ <<line, "input">> \in Pending(todo)
    /\ asked[line] = "low" =>
           /\ \A a \in {"input", "high"} : <<line, a>> \notin Pending(todo)
           /\ pins[line].direction = "out" \/ \E a \in Outputs : <<line, a>> \in Pending(todo)
           /\ pins[line].latch = 0 \/ <<line, "low">> \in Pending(todo)

\* A pin that might drive its line high is about to be lowered.
NotHigh(line) ==
    /\ pins[line].direction = "out" /\ pins[line].latch = 1 =>
           todo # <<>> /\ Head(todo) = <<line, "low">>
    /\ layer = "nrf5" => pins[line].latch = 0
    /\ layer = "sysfs" /\ pins[line].direction = "out" => pins[line].latch = 0
    /\ layer # "mbed" /\ line \in lowered => pins[line].latch = 0

\* The inductive invariant: between two calls it says that the lines are as asked,
\* and within a call that they will be.
PinsInv ==
    /\ PinTypes /\ Rest
    /\ \A line \in Lines : NotHigh(line)
    /\ program \in {"ready", "freed"} => \A line \in Lines : AsAsked(line)

-----------------------------------------------------------------------------
\* What an access does to its pin.
LEMMA AfterAccess ==
    ASSUME NEW pin \in Pin, NEW access \in AccessNames
    PROVE  /\ After(pin, access) \in Pin
           /\ After(pin, access).direction =
                  IF access = "input" THEN "in"
                  ELSE IF access \in Outputs THEN "out" ELSE pin.direction
           /\ After(pin, access).latch =
                  IF access \in {"low", "output_low"} THEN 0
                  ELSE IF access = "high" THEN 1 ELSE pin.latch
  <1> USE DEF After, Pin, Outputs
  <1>1. CASE access = "input"
    BY <1>1
  <1>2. CASE access = "output"
    BY <1>2
  <1>3. CASE access = "output_low"
    BY <1>3
  <1>4. CASE access = "low"
    BY <1>4
  <1>5. CASE access = "high"
    BY <1>5
  <1>6. CASE access = "open_drain"
    BY <1>6
  <1>7. CASE access \in {"export", "open"}
    BY <1>7
  <1> QED
    BY <1>1, <1>2, <1>3, <1>4, <1>5, <1>6, <1>7 DEF AccessNames

\* The first access of several, and the rest.
LEMMA HeadAndTail ==
    ASSUME NEW E, NEW s \in Seq(E), s # <<>>
    PROVE  /\ Tail(s) \in Seq(E) /\ Len(s) \in Nat /\ Len(s) >= 1 /\ Len(Tail(s)) = Len(s) - 1
           /\ Head(s) = s[1] /\ Head(s) \in E
           /\ \A k \in 1..(Len(s) - 1) : Tail(s)[k] = s[k + 1]
  OBVIOUS

\* What is pending is the first access, and the rest.
LEMMA PendingTail ==
    ASSUME NEW E, NEW s \in Seq(E), s # <<>>
    PROVE  Pending(s) = {Head(s)} \cup Pending(Tail(s))
  <1> DEFINE t == Tail(s)
  <1>1. /\ t \in Seq(E) /\ Len(s) \in Nat /\ Len(s) >= 1 /\ Len(t) = Len(s) - 1
        /\ Head(s) = s[1] /\ \A k \in 1..(Len(s) - 1) : t[k] = s[k + 1]
    BY HeadAndTail
  <1> HIDE DEF t
  <1>2. ASSUME NEW a \in Pending(s), a # Head(s) PROVE a \in Pending(t)
    <2>1. PICK k \in 1..Len(s) : a = s[k]
      BY DEF Pending
    <2>2. k - 1 \in 1..Len(t) /\ t[k - 1] = a
      BY <1>1, <1>2, <2>1
    <2> QED
      BY <2>2 DEF Pending
  <1>3. ASSUME NEW a \in Pending(t) PROVE a \in Pending(s)
    <2>1. PICK k \in 1..Len(t) : a = t[k]
      BY DEF Pending
    <2>2. k + 1 \in 1..Len(s) /\ s[k + 1] = a
      BY <1>1, <2>1
    <2> QED
      BY <2>2 DEF Pending
  <1>4. Head(s) \in Pending(s)
    <2>1. 1 \in 1..Len(s)
      BY <1>1
    <2> QED
      BY <1>1, <2>1 DEF Pending
  <1>5. Pending(s) = {Head(s)} \cup Pending(t)
    BY <1>2, <1>3, <1>4
  <1> QED
    BY <1>5 DEF t

-----------------------------------------------------------------------------

\* The invariant holds at the start, with any latches.
LEMMA PinsInitInv == ASSUME PinsInit PROVE PinsInv
  <1>1. PinTypes
    BY PinAssumption DEF PinsInit, PinTypes, Pin
  <1>2. Len(todo) = 0 /\ 1..Len(todo) = {} /\ todo = <<>>
    BY DEF PinsInit
  <1>3. Rest
    BY <1>2, NoAccess DEF Rest, Calls
  <1>4. \A line \in Lines : pins[line].direction = "in" /\ (layer = "nrf5" => pins[line].latch = 0)
    BY DEF PinsInit
  <1>5. \A line \in Lines : NotHigh(line)
    BY <1>4 DEF NotHigh, PinsInit
  <1> QED
    BY <1>1, <1>3, <1>5 DEF PinsInv, PinsInit

\* A call begins, when the one before has made all its accesses.
LEMMA CallBegins ==
    ASSUME PinsInv, Idle, todo' \in Calls, UNCHANGED <<layer, pins, lowered, read>>,
           program' \in {"ready", "freed"},
           asked' \in [Lines -> {"nothing", "low", "released"}],
           \A line \in Lines : AsAsked(line)'
    PROVE  PinsInv'
  <1>1. todo = <<>>
    BY DEF Idle
  <1>2. PinTypes'
    BY DEF PinsInv, PinTypes
  <1>3. todo' \in Seq(Lines \X AccessNames) /\ Ordered(todo') /\ Usual(todo')
    BY DEF Calls
  <1>4. \A k \in 1..Len(todo') : k - 1 \in 1..Len(todo') => k # 1
    BY <1>3
  <1>5. Rest'
    BY <1>3, <1>4 DEF Ordered, Usual, Rest, Pending
  <1>6. \A line \in Lines : NotHigh(line)'
    BY <1>1 DEF PinsInv, NotHigh
  <1> QED
    BY <1>2, <1>5, <1>6 DEF PinsInv

\* init and free release both lines, whatever init_pins does before.
LEMMA ReleasesBoth ==
    ASSUME layer \in {"stm32", "nrf5", "samd2", "mbed", "sysfs"},
           NEW s \in Calls, LeavesInputs(s)
    PROVE  LET t == s \o On("SCL", Layer.in) \o On("SDA", Layer.in)
           IN  t \in Calls /\ \A line \in Lines : Releases(t, line)
  <1> DEFINE c == On("SCL", Layer.in)
             d == On("SDA", Layer.in)
  <1>1. /\ c \in Calls /\ LeavesInputs(c) /\ Releases(c, "SCL")
        /\ d \in Calls /\ LeavesInputs(d) /\ Releases(d, "SDA")
    BY InCalls DEF Lines
  <1> HIDE DEF c, d
  <1>2. s \o c \in Calls /\ s \o c \o d \in Calls
    BY <1>1, CallsCompose
  <1>3. Pending(s \o c \o d) = Pending(s) \cup Pending(c) \cup Pending(d)
    <2>1. Pending(s \o c) = Pending(s) \cup Pending(c)
      BY <1>1, PendingOfBoth DEF Calls
    <2>2. Pending(s \o c \o d) = Pending(s \o c) \cup Pending(d)
      <3> DEFINE u == s \o c
                 E == Lines \X AccessNames
      <3>1. u \in Seq(E) /\ d \in Seq(E)
        BY <1>1, <1>2 DEF Calls
      <3> HIDE DEF u, E
      <3>2. Pending(u \o d) = Pending(u) \cup Pending(d)
        BY <3>1, PendingOfBoth
      <3> QED
        BY <3>2 DEF u
    <2> QED
      BY <2>1, <2>2
  <1>4. \A line \in Lines : Releases(s \o c \o d, line)
    BY <1>1, <1>3 DEF Releases, LeavesInputs, Lines
  <1> QED
    BY <1>2, <1>4 DEF c, d

\* A call begins that releases both lines: init or free.
LEMMA ReleaseBegins ==
    ASSUME PinsInv, Idle, NEW s \in Calls, LeavesInputs(s),
           todo' = s \o On("SCL", Layer.in) \o On("SDA", Layer.in),
           asked' = Released, program' \in {"ready", "freed"},
           UNCHANGED <<layer, pins, lowered, read>>
    PROVE  PinsInv'
  <1>1. layer \in {"stm32", "nrf5", "samd2", "mbed", "sysfs"}
    BY DEF PinsInv, PinTypes
  <1>2. todo' \in Calls /\ \A line \in Lines : Releases(todo', line)
    BY <1>1, ReleasesBoth
  <1>3. asked' \in [Lines -> {"nothing", "low", "released"}]
        /\ \A line \in Lines : asked'[line] = "released"
    BY DEF Released
  <1>4. \A line \in Lines : AsAsked(line)'
    BY <1>2, <1>3 DEF AsAsked, Releases, Pending
  <1> QED
    BY <1>2, <1>3, <1>4, CallBegins

\* A line is lowered or released: the other one stays as it is.
LEMMA SetBegins ==
    ASSUME PinsInv, NEW line \in Lines, NEW level \in {"low", "released"}, Set(line, level)
    PROVE  PinsInv'
  <1> DEFINE s == On(line, IF level = "low" THEN Layer.out ELSE Layer.in)
  <1>1. layer \in {"stm32", "nrf5", "samd2", "mbed", "sysfs"}
        /\ asked \in [Lines -> {"nothing", "low", "released"}]
    BY DEF PinsInv, PinTypes
  <1>2. /\ Idle /\ todo = <<>> /\ program = "ready" /\ todo' = s
        /\ asked' = [asked EXCEPT ![line] = level]
        /\ UNCHANGED <<layer, pins, lowered, read>> /\ program' = "ready"
    BY DEF Set, Idle
  <1>3. /\ s \in Calls /\ IsAbout(s, line)
        /\ IF level = "low" THEN Lowers(s, line)
           ELSE Releases(s, line)
    BY <1>1, InCalls, OutCalls
  <1> HIDE DEF s
  <1>4. asked' \in [Lines -> {"nothing", "low", "released"}] /\ asked'[line] = level
        /\ \A l \in Lines \ {line} : asked'[l] = asked[l]
    BY <1>1, <1>2
  <1>5. AsAsked(line)'
    <2>1. layer = "nrf5" => pins[line].latch = 0
      BY DEF PinsInv, NotHigh
    <2>2. CASE level = "low"
      BY <1>2, <1>3, <1>4, <2>1, <2>2 DEF AsAsked, Lowers, Pending
    <2>3. CASE level = "released"
      BY <1>2, <1>3, <1>4, <2>3 DEF AsAsked, Releases, Pending
    <2> QED
      BY <2>2, <2>3
  <1>6. ASSUME NEW l \in Lines \ {line} PROVE AsAsked(l)'
    <2>1. \A a \in AccessNames : <<l, a>> \notin Pending(s)
      BY <1>3 DEF IsAbout
    <2>2. AsAsked(l)
      BY <1>2 DEF PinsInv
    <2>3. Pending(todo) = {}
      BY <1>2, NoAccess
    <2>4. /\ asked[l] \in {"low", "released"}
          /\ asked[l] = "released" => pins[l].direction = "in"
          /\ asked[l] = "low" => pins[l].direction = "out" /\ pins[l].latch = 0
      BY <2>2, <2>3 DEF AsAsked
    <2>5. \A a \in Outputs \cup {"input", "high"} : <<l, a>> \notin Pending(todo)'
      BY <1>2, <2>1 DEF Outputs, AccessNames, Pending
    <2> QED
      BY <1>2, <1>4, <2>4, <2>5 DEF AsAsked
  <1>7. \A l \in Lines : AsAsked(l)'
    BY <1>5, <1>6
  <1> QED
    BY <1>2, <1>3, <1>4, <1>7, CallBegins

\* A read returns the level of the line: an output of the nRF5 is low.
LEMMA ReadIsRight ==
    ASSUME PinsInv, NEW line \in Lines, Read(line)
    PROVE  PinsInv'
  <1>1. PICK other \in {"low", "released"} :
            read' = [level |-> IF "low" \in {other, Drives(pins[line])} THEN 0 ELSE 1,
                     result |-> IF layer = "nrf5" /\ pins[line].direction = "out" THEN 0
                                ELSE IF "low" \in {other, Drives(pins[line])} THEN 0 ELSE 1]
    BY DEF Read
  <1>2. layer = "nrf5" /\ pins[line].direction = "out" => Drives(pins[line]) = "low"
    <2>1. layer = "nrf5" => pins[line].latch = 0
      BY DEF PinsInv, NotHigh
    <2> QED
      BY <2>1 DEF Drives
  <1>3. read'.result = read'.level
    BY <1>1, <1>2
  <1>4. UNCHANGED <<layer, pins, program, todo, asked, lowered>>
    BY DEF Read
  <1>5. PinTypes'
    BY <1>3, <1>4 DEF PinsInv, PinTypes
  <1>6. Rest' /\ \A l \in Lines : NotHigh(l)'
    BY <1>4 DEF PinsInv, Rest, Usual, NotHigh, Pending
  <1>7. ASSUME program' \in {"ready", "freed"}, NEW l \in Lines PROVE AsAsked(l)'
    <2>1. AsAsked(l)
      BY <1>4, <1>7 DEF PinsInv
    <2> QED
      BY <1>4, <2>1 DEF AsAsked
  <1> QED
    BY <1>5, <1>6, <1>7 DEF PinsInv

\* The process ends, wherever it is in a call, and is started again.
LEMMA ExitAndRestart ==
    ASSUME PinsInv, Exit \/ Restart
    PROVE  PinsInv'
  <1>1. UNCHANGED <<layer, pins, lowered, read>> /\ program' \in {"exited", "new"}
        /\ asked' \in [Lines -> {"nothing", "low", "released"}]
    BY DEF Exit, Restart, PinsInv, PinTypes
  <1>2. PinTypes'
    BY <1>1 DEF PinsInv, PinTypes
  <1>3. CASE Exit
    <2>1. todo' = <<>> /\ layer = "sysfs" /\ layer' = "sysfs"
      BY <1>3 DEF Exit
    <2>2. Rest'
      BY <2>1, NoAccess DEF Rest, Calls, Usual, Pending
    <2>3. \A line \in Lines : NotHigh(line)'
      BY <1>1, <2>1 DEF PinsInv, NotHigh
    <2> QED
      BY <1>1, <1>2, <2>2, <2>3 DEF PinsInv
  <1>4. CASE Restart
    <2>1. UNCHANGED todo
      BY <1>4 DEF Restart
    <2> QED
      BY <1>1, <1>2, <2>1 DEF PinsInv, Rest, Usual, Pending, NotHigh
  <1> QED
    BY <1>3, <1>4

-----------------------------------------------------------------------------
(* One access, of any layer's calls.                                       *)

\* The pins after an access, of the line it is about and of the other.
LEMMA AccessChanges ==
    ASSUME PinsInv, Access
    PROVE  \E line \in Lines, access \in AccessNames :
               /\ todo # <<>> /\ Head(todo) = <<line, access>> /\ todo' = Tail(todo)
               /\ pins' = [pins EXCEPT ![line] = After(@, access)]
               /\ lowered' = IF Drives(pins'[line]) = "low" THEN lowered \cup {line} ELSE lowered
               /\ UNCHANGED <<layer, program, asked, read>>
  <1>1. todo # <<>> /\ todo \in Seq(Lines \X AccessNames)
    BY DEF Access, PinsInv, Rest
  <1>2. Head(todo) \in Lines \X AccessNames
    BY <1>1, HeadAndTail
  <1>3. PICK line \in Lines, access \in AccessNames : Head(todo) = <<line, access>>
    BY <1>2
  <1>4. Head(todo)[1] = line /\ Head(todo)[2] = access
    BY <1>3
  <1>5. /\ todo' = Tail(todo) /\ UNCHANGED <<layer, program, asked, read>>
        /\ pins' = [pins EXCEPT ![line] = After(@, access)]
        /\ lowered' = IF Drives(pins'[line]) = "low" THEN lowered \cup {line} ELSE lowered
    BY <1>4 DEF Access
  <1> QED
    BY <1>1, <1>3, <1>5

\* What is left after an access is in order, if it was before.
LEMMA AccessKeepsRest ==
    ASSUME PinsInv, NEW line \in Lines, NEW access \in AccessNames,
           todo # <<>>, Head(todo) = <<line, access>>, todo' = Tail(todo), layer' = layer,
           pins' = [pins EXCEPT ![line] = After(@, access)]
    PROVE  Rest'
  <1> DEFINE E == Lines \X AccessNames
  <1>1. /\ todo \in Seq(E) /\ Usual(todo)
        /\ layer # "nrf5" =>
               \A k \in 1..Len(todo), l \in Lines :
                   todo[k] = <<l, "output">> => k + 1 \in 1..Len(todo) /\ todo[k + 1] = <<l, "low">>
        /\ \A k \in 1..Len(todo), l \in Lines :
               todo[k] = <<l, "high">> =>
                   IF k = 1 THEN pins[l].direction = "in" ELSE todo[k - 1] = <<l, "input">>
    BY DEF PinsInv, Rest
  <1> HIDE DEF E
  <1>2. /\ Tail(todo) \in Seq(E) /\ Len(todo) \in Nat /\ Len(todo) >= 1
        /\ Len(Tail(todo)) = Len(todo) - 1 /\ todo[1] = <<line, access>>
        /\ \A k \in 1..(Len(todo) - 1) : Tail(todo)[k] = todo[k + 1]
    BY <1>1, HeadAndTail
  <1> DEFINE t == todo'
             n == Len(todo)
  <1>3. /\ t \in Seq(E) /\ n \in Nat /\ n >= 1 /\ Len(t) = n - 1
        /\ \A k \in 1..(n - 1) : t[k] = todo[k + 1]
    BY <1>2
  <1>4. Usual(t) /\ Usual(todo)'
    <2>1. Pending(todo) = {Head(todo)} \cup Pending(Tail(todo))
      BY <1>1, PendingTail
    <2>2. Pending(t) \subseteq Pending(todo)
      BY <2>1
    <2>3. Usual(t)
      BY <1>1, <2>2 DEF Usual
    <2> QED
      BY <2>3 DEF Usual
  <1> HIDE DEF t, n
  <1>5. ASSUME layer # "nrf5", NEW k \in 1..Len(t), NEW l \in Lines, t[k] = <<l, "output">>
        PROVE  k + 1 \in 1..Len(t) /\ t[k + 1] = <<l, "low">>
    <2>1. k + 1 \in 1..n /\ todo[k + 1] = <<l, "output">>
      BY <1>3, <1>5
    <2>2. k + 2 \in 1..n /\ todo[k + 2] = <<l, "low">>
      BY <1>1, <1>5, <2>1 DEF n
    <2> QED
      BY <1>3, <2>2
  <1>6. ASSUME NEW k \in 1..Len(t), NEW l \in Lines, t[k] = <<l, "high">>
        PROVE  IF k = 1 THEN pins'[l].direction = "in" ELSE t[k - 1] = <<l, "input">>
    <2>1. k + 1 \in 1..n /\ todo[k + 1] = <<l, "high">> /\ k + 1 # 1 /\ (k + 1) - 1 = k
      BY <1>3, <1>6
    <2>2. todo[k] = <<l, "input">>
      BY <1>1, <2>1 DEF n
    <2>3. CASE k = 1
      <3>1. line = l /\ access = "input"
        BY <1>2, <2>2, <2>3
      <3>2. pins \in [Lines -> Pin]
        BY DEF PinsInv, PinTypes
      <3>3. pins'[l] = After(pins[l], "input") /\ pins[l] \in Pin
        BY <3>1, <3>2
      <3>4. pins'[l].direction = "in"
        BY <3>3, AfterAccess DEF AccessNames
      <3> QED
        BY <2>3, <3>4
    <2>4. CASE k # 1
      <3>1. k - 1 \in 1..(n - 1) /\ (k - 1) + 1 = k
        BY <1>3, <2>1, <2>4
      <3> QED
        BY <1>3, <2>2, <2>4, <3>1
    <2> QED
      BY <2>3, <2>4
  <1> QED
    BY <1>3, <1>4, <1>5, <1>6 DEF Rest, t, E

\* The line of the access: what was asked of it is still so, or nearer.
LEMMA AccessKeepsAsked ==
    ASSUME PinsInv, program \in {"ready", "freed"},
           NEW line \in Lines, NEW access \in AccessNames, NEW l \in Lines,
           todo # <<>>, Head(todo) = <<line, access>>, todo' = Tail(todo),
           pins' = [pins EXCEPT ![line] = After(@, access)], asked' = asked
    PROVE  AsAsked(l)'
  <1>1. AsAsked(l) /\ todo \in Seq(Lines \X AccessNames) /\ pins \in [Lines -> Pin]
    BY DEF PinsInv, Rest, PinTypes
  <1>2. Pending(todo) = {<<line, access>>} \cup Pending(todo')
    <2> DEFINE E == Lines \X AccessNames
    <2>1. todo \in Seq(E)
      BY <1>1
    <2> HIDE DEF E
    <2>2. Pending(todo) = {Head(todo)} \cup Pending(Tail(todo))
      BY <2>1, PendingTail
    <2> QED
      BY <2>2
  <1> DEFINE old == pins[l]
             new == pins'[l]
             P   == Pending(todo)
             Q   == Pending(todo')
  <1>3. new = IF l = line THEN After(old, access) ELSE old
    BY <1>1
  <1>4. /\ l = line => new.direction = IF access = "input" THEN "in"
                                       ELSE IF access \in Outputs THEN "out" ELSE old.direction
        /\ l = line => new.latch = IF access \in {"low", "output_low"} THEN 0
                                   ELSE IF access = "high" THEN 1 ELSE old.latch
        /\ l # line => new = old
    <2>1. old \in Pin
      BY <1>1
    <2> HIDE DEF old, new
    <2>2. /\ After(old, access).direction =
                 IF access = "input" THEN "in"
                 ELSE IF access \in Outputs THEN "out" ELSE old.direction
          /\ After(old, access).latch =
                 IF access \in {"low", "output_low"} THEN 0
                 ELSE IF access = "high" THEN 1 ELSE old.latch
      BY <2>1, AfterAccess
    <2> QED
      BY <1>3, <2>2
  <1>5. P = {<<line, access>>} \cup Q
    BY <1>2
  <1>6. /\ asked[l] \in {"low", "released"}
        /\ asked[l] = "released" =>
               /\ \A a \in Outputs : <<l, a>> \notin P
               /\ old.direction = "in" \/ <<l, "input">> \in P
        /\ asked[l] = "low" =>
               /\ \A a \in {"input", "high"} : <<l, a>> \notin P
               /\ old.direction = "out" \/ \E a \in Outputs : <<l, a>> \in P
               /\ old.latch = 0 \/ <<l, "low">> \in P
    BY <1>1 DEF AsAsked
  <1> HIDE DEF P, Q, old, new
  <1>7. ASSUME asked[l] = "released"
        PROVE  /\ \A a \in Outputs : <<l, a>> \notin Q
               /\ new.direction = "in" \/ <<l, "input">> \in Q
    <2>1. l = line => access \notin Outputs
      BY <1>5, <1>6, <1>7
    <2> QED
      BY <1>4, <1>5, <1>6, <1>7, <2>1 DEF Outputs
  <1>8. ASSUME asked[l] = "low"
        PROVE  /\ \A a \in {"input", "high"} : <<l, a>> \notin Q
               /\ new.direction = "out" \/ \E a \in Outputs : <<l, a>> \in Q
               /\ new.latch = 0 \/ <<l, "low">> \in Q
    <2>1. l = line => access \notin {"input", "high"}
      BY <1>5, <1>6, <1>8
    <2>2. new.direction = "out" \/ \E a \in Outputs : <<l, a>> \in Q
      <3>1. CASE old.direction = "out"
        BY <1>4, <2>1, <3>1
      <3>2. CASE \E a \in Outputs : <<l, a>> \in P
        <4>1. PICK a \in Outputs : <<l, a>> \in P
          BY <3>2
        <4>2. CASE l = line /\ access = a
          <5>1. a # "input"
            BY DEF Outputs
          <5> QED
            BY <1>4, <4>2, <5>1
        <4>3. CASE <<l, a>> \in Q
          BY <4>3
        <4> QED
          BY <1>5, <4>1, <4>2, <4>3
      <3> QED
        BY <1>6, <1>8, <3>1, <3>2
    <2>3. new.latch = 0 \/ <<l, "low">> \in Q
      BY <1>4, <1>5, <1>6, <1>8, <2>1
    <2> QED
      BY <1>5, <1>6, <1>8, <2>2, <2>3
  <1> QED
    BY <1>6, <1>7, <1>8 DEF AsAsked, Q, new

\* No access drives a line high that the next one does not lower.
LEMMA AccessIsNotHigh ==
    ASSUME PinsInv, NEW line \in Lines, NEW access \in AccessNames, NEW l \in Lines,
           todo # <<>>, Head(todo) = <<line, access>>, todo' = Tail(todo), layer' = layer,
           pins' = [pins EXCEPT ![line] = After(@, access)],
           lowered' = IF Drives(pins'[line]) = "low" THEN lowered \cup {line} ELSE lowered
    PROVE  NotHigh(l)'
  <1>1. NotHigh(l) /\ todo \in Seq(Lines \X AccessNames) /\ pins \in [Lines -> Pin] /\ Rest
    BY DEF PinsInv, Rest, PinTypes
  <1> DEFINE old == pins[l]
             new == pins'[l]
  <1>2. old \in Pin /\ new = IF l = line THEN After(old, access) ELSE old
    BY <1>1
  <1>3. CASE l # line
    <2>1. new = old /\ (old.direction = "out" /\ old.latch = 1 => FALSE)
      BY <1>1, <1>2, <1>3 DEF NotHigh
    <2>2. l \in lowered' <=> l \in lowered
      BY <1>3
    <2> QED
      BY <1>1, <2>1, <2>2 DEF NotHigh
  <1>4. CASE l = line
    <2>1. /\ new \in Pin
          /\ new.direction = IF access = "input" THEN "in"
                             ELSE IF access \in Outputs THEN "out" ELSE old.direction
          /\ new.latch = IF access \in {"low", "output_low"} THEN 0
                         ELSE IF access = "high" THEN 1 ELSE old.latch
      <3> HIDE DEF old, new
      <3>1. /\ After(old, access) \in Pin
            /\ After(old, access).direction =
                   IF access = "input" THEN "in"
                   ELSE IF access \in Outputs THEN "out" ELSE old.direction
            /\ After(old, access).latch =
                   IF access \in {"low", "output_low"} THEN 0
                   ELSE IF access = "high" THEN 1 ELSE old.latch
        BY <1>2, AfterAccess
      <3> QED
        BY <1>2, <1>4, <3>1
    <2>2. /\ Len(todo) \in Nat /\ Len(todo) >= 1 /\ 1 \in 1..Len(todo)
          /\ todo[1] = <<l, access>> /\ <<l, access>> \in Pending(todo)
      <3> DEFINE E == Lines \X AccessNames
      <3>1. todo \in Seq(E)
        BY <1>1
      <3> HIDE DEF E
      <3>2. Pending(todo) = {Head(todo)} \cup Pending(Tail(todo)) /\ Head(todo) = todo[1]
            /\ Len(todo) \in Nat /\ Len(todo) >= 1
        BY <3>1, PendingTail, HeadAndTail
      <3> QED
        BY <1>4, <3>2
    <2>3. /\ layer # "mbed" => access # "high"
          /\ layer = "sysfs" => access # "output"
      BY <1>1, <2>2 DEF Rest, Usual
    <2>4. access = "high" => old.direction = "in"
      BY <1>1, <2>2 DEF Rest
    <2>5. ASSUME access = "output", layer # "nrf5"
          PROVE  Tail(todo) # <<>> /\ Head(Tail(todo)) = <<l, "low">>
      <3>1. 2 \in 1..Len(todo) /\ todo[2] = <<l, "low">>
        BY <1>1, <2>2, <2>5 DEF Rest
      <3> DEFINE E == Lines \X AccessNames
      <3>2. todo \in Seq(E)
        BY <1>1
      <3> HIDE DEF E
      <3>3. /\ Tail(todo) \in Seq(E) /\ Len(Tail(todo)) = Len(todo) - 1
            /\ \A k \in 1..(Len(todo) - 1) : Tail(todo)[k] = todo[k + 1]
        BY <3>2, HeadAndTail
      <3>4. 1 \in 1..(Len(todo) - 1) /\ 1 + 1 = 2
        BY <2>2, <3>1
      <3>5. Len(Tail(todo)) >= 1 /\ Tail(todo)[1] = <<l, "low">>
        BY <2>2, <3>1, <3>3, <3>4
      <3> DEFINE r == Tail(todo)
      <3>6. r # <<>>
        <4>1. r \in Seq(E) /\ Len(r) >= 1
          BY <3>3, <3>5
        <4> HIDE DEF r
        <4> QED
          BY <4>1
      <3> QED
        BY <3>3, <3>5, <3>6, HeadAndTail
    <2>6. /\ layer = "nrf5" => old.latch = 0
          /\ layer = "sysfs" /\ old.direction = "out" => old.latch = 0
          /\ layer # "mbed" /\ l \in lowered => old.latch = 0
          /\ old.direction = "out" /\ old.latch = 1 => access = "low"
      BY <1>1, <1>4 DEF NotHigh
    <2>7. l \in lowered' /\ l \notin lowered => new.latch = 0
      <3>1. Drives(new) = "low" => new.latch = 0
        BY DEF Drives
      <3> QED
        BY <1>4, <3>1
    <2> HIDE DEF old, new
    <2>8. new.direction = "out" /\ new.latch = 1 => todo' # <<>> /\ Head(todo') = <<l, "low">>
      <3> SUFFICES ASSUME new.direction = "out", new.latch = 1
                   PROVE  Tail(todo) # <<>> /\ Head(Tail(todo)) = <<l, "low">>
        OBVIOUS
      <3>1. access # "low" /\ access # "output_low" /\ access # "input"
        BY <2>1
      <3>2. access # "high"
        BY <2>1, <2>4 DEF Outputs
      <3>3. old.latch = 1
        BY <2>1, <3>1, <3>2
      <3>4. layer # "nrf5" /\ old.direction # "out"
        BY <2>6, <3>1, <3>3
      <3>5. access = "output"
        BY <2>1, <3>1, <3>4 DEF Outputs
      <3> QED
        BY <2>5, <3>4, <3>5
    <2>9. /\ layer = "nrf5" => new.latch = 0
          /\ layer = "sysfs" /\ new.direction = "out" => new.latch = 0
          /\ layer # "mbed" /\ l \in lowered' => new.latch = 0
      BY <1>2, <2>1, <2>3, <2>6, <2>7 DEF Outputs, Pin
    <2> QED
      BY <2>8, <2>9 DEF NotHigh, new
  <1> QED
    BY <1>3, <1>4

\* An access keeps the invariant.
LEMMA AccessKeepsInv ==
    ASSUME PinsInv, Access
    PROVE  PinsInv'
  <1>1. PICK line \in Lines, access \in AccessNames :
            /\ todo # <<>> /\ Head(todo) = <<line, access>> /\ todo' = Tail(todo)
            /\ pins' = [pins EXCEPT ![line] = After(@, access)]
            /\ lowered' = IF Drives(pins'[line]) = "low" THEN lowered \cup {line} ELSE lowered
            /\ UNCHANGED <<layer, program, asked, read>>
    BY AccessChanges
  <1>2. PinTypes'
    <2>1. pins \in [Lines -> Pin]
      BY DEF PinsInv, PinTypes
    <2>2. After(pins[line], access) \in Pin
      BY <2>1, AfterAccess
    <2>3. pins' \in [Lines -> Pin]
      BY <1>1, <2>1, <2>2
    <2> QED
      BY <1>1, <2>3 DEF PinsInv, PinTypes
  <1>3. Rest'
    BY <1>1, AccessKeepsRest
  <1>4. ASSUME NEW l \in Lines PROVE NotHigh(l)'
    BY <1>1, AccessIsNotHigh
  <1>5. ASSUME program' \in {"ready", "freed"}, NEW l \in Lines PROVE AsAsked(l)'
    BY <1>1, <1>5, AccessKeepsAsked
  <1> QED
    BY <1>2, <1>3, <1>4, <1>5 DEF PinsInv

\* The invariant is inductive.
LEMMA PinsNextInv == PinsInv /\ [PinsNext]_pinVars => PinsInv'
  <1> SUFFICES ASSUME PinsInv, [PinsNext]_pinVars PROVE PinsInv'
    OBVIOUS
  <1>0. layer \in {"stm32", "nrf5", "samd2", "mbed", "sysfs"}
    BY DEF PinsInv, PinTypes
  <1>1. CASE HalInitPins
    <2>1. Layer.init \in Calls /\ LeavesInputs(Layer.init)
      BY <1>0, InitCalls
    <2> QED
      BY <1>1, <2>1, ReleaseBegins DEF HalInitPins
  <1>2. CASE HalFreePins
    <2> DEFINE c == On("SCL", Layer.in)
               d == On("SDA", Layer.in)
    <2>1. c \in Calls /\ d \in Calls /\ c \in Seq(Lines \X AccessNames)
          /\ d \in Seq(Lines \X AccessNames)
      BY <1>0, InCalls DEF Lines, Calls
    <2>2. <<>> \in Calls /\ LeavesInputs(<<>>)
      BY NoAccess DEF LeavesInputs
    <2>3. todo' = c \o d /\ Idle /\ asked' = Released /\ program' = "freed"
          /\ UNCHANGED <<layer, pins, lowered, read>>
      BY <1>2 DEF HalFreePins
    <2> HIDE DEF c, d
    <2>4. <<>> \o c = c
      BY <2>1
    <2>5. todo' = <<>> \o c \o d
      BY <2>3, <2>4
    <2> QED
      BY <2>2, <2>3, <2>5, ReleaseBegins DEF c, d
  <1>3. ASSUME NEW line \in Lines, Read(line) PROVE PinsInv'
    BY <1>3, ReadIsRight
  <1>4. ASSUME NEW line \in Lines, NEW level \in {"low", "released"}, Set(line, level)
        PROVE  PinsInv'
    BY <1>4, SetBegins
  <1>5. CASE Access
    BY <1>5, AccessKeepsInv
  <1>6. CASE Exit \/ Restart
    BY <1>6, ExitAndRestart
  <1>7. CASE UNCHANGED pinVars
    <2>1. UNCHANGED <<layer, pins, program, todo, asked, lowered, read>>
      BY <1>7 DEF pinVars
    <2>2. PinTypes'
      BY <2>1 DEF PinsInv, PinTypes
    <2>3. Rest' /\ \A l \in Lines : NotHigh(l)'
      BY <2>1 DEF PinsInv, Rest, Usual, NotHigh, Pending
    <2>4. ASSUME program' \in {"ready", "freed"}, NEW l \in Lines PROVE AsAsked(l)'
      <3>1. AsAsked(l)
        BY <2>1, <2>4 DEF PinsInv
      <3> QED
        BY <2>1, <3>1 DEF AsAsked
    <2> QED
      BY <2>2, <2>3, <2>4 DEF PinsInv
  <1> QED
    BY <1>1, <1>2, <1>3, <1>4, <1>5, <1>6, <1>7 DEF PinsNext

\* So it always holds.
LEMMA PinsInvariance == PinsSpec => []PinsInv
  <1>1. PinsInit => PinsInv
    BY PinsInitInv
  <1> QED
    BY <1>1, PinsNextInv, PTL DEF PinsSpec

\* Between two calls each line is what was last asked of it, low or released,
\* and a read returned its level: for every layer and any number of files, from
\* whatever the registers hold at the start and wherever an earlier process was
\* stopped.
THEOREM LinesActAsOpenDrain == PinsSpec => []ActsAsOpenDrain
  <1>1. ASSUME PinsInv PROVE ActsAsOpenDrain
    <2> SUFFICES ASSUME Idle, program # "new"
                 PROVE  /\ \A line \in Lines : Drives(pins[line]) = asked[line]
                        /\ read.result = read.level
      BY DEF ActsAsOpenDrain
    <2>1. todo = <<>> /\ program \in {"ready", "freed"} /\ Pending(todo) = {}
      BY NoAccess DEF Idle
    <2>2. read.result = read.level
      BY <1>1 DEF PinsInv, PinTypes
    <2>3. ASSUME NEW line \in Lines PROVE Drives(pins[line]) = asked[line]
      <3>1. AsAsked(line)
        BY <1>1, <2>1 DEF PinsInv
      <3>2. /\ asked[line] \in {"low", "released"}
            /\ asked[line] = "released" => pins[line].direction = "in"
            /\ asked[line] = "low" => pins[line].direction = "out" /\ pins[line].latch = 0
        BY <2>1, <3>1 DEF AsAsked
      <3> QED
        BY <3>2 DEF Drives
    <2> QED
      BY <2>2, <2>3
  <1> QED
    BY <1>1, PinsInvariance, PTL

\* A line is driven high at most for one access, which the next one lowers, and
\* on the mbed alone after the line has once been low.
THEOREM HighsAreBrief == PinsSpec => []HighIsBrief
  <1>1. ASSUME PinsInv PROVE HighIsBrief
    <2>1. ASSUME NEW line \in Lines, Drives(pins[line]) = "high"
          PROVE  /\ layer = "mbed" \/ line \notin lowered
                 /\ todo # <<>> /\ Head(todo) = <<line, "low">>
      <3>1. pins[line] \in Pin /\ NotHigh(line)
        BY <1>1 DEF PinsInv, PinTypes
      <3>2. pins[line].direction = "out" /\ pins[line].latch = 1
        BY <2>1, <3>1 DEF Drives, Pin
      <3> QED
        BY <3>1, <3>2 DEF NotHigh
    <2> QED
      BY <2>1 DEF HighIsBrief
  <1> QED
    BY <1>1, PinsInvariance, PTL

-----------------------------------------------------------------------------
(* The program.                                                            *)

\* A step of the program is one of the part it was built with, and the others
\* stand still.
LEMMA PortsStep ==
    ASSUME [PortsNext]_portVars
    PROVE  [McuNext]_mcuVars /\ [PinsNext]_pinVars /\ [LinuxNext]_linuxVars
  BY DEF PortsNext, portVars

\* The bit-banged HAL's pins and the Linux HALs go on in a program as they would
\* alone.
THEOREM PortsArePinsAndLinux == PortsSpec => PinsSpec /\ LinuxSpec
  <1>1. PortsInit => PinsInit /\ LinuxInit
    BY DEF PortsInit
  <1>2. [PortsNext]_portVars => [PinsNext]_pinVars /\ [LinuxNext]_linuxVars
    BY PortsStep
  <1> QED
    BY <1>1, <1>2, PTL DEF PortsSpec, PinsSpec, LinuxSpec

\* A vendor's HAL in a program keeps its invariant.
LEMMA VendorInvariance == PortsSpec => []McuInv
  <1>1. PortsInit => McuInv
    BY McuInitInv DEF PortsInit
  <1>2. McuInv /\ [PortsNext]_portVars => McuInv'
    BY PortsStep, McuNextInv
  <1> QED
    BY <1>1, <1>2, PTL DEF PortsSpec

\* Whatever a program is built with, its ports keep what they promise: a transfer
\* that succeeds was made, a sleep lasts, the lines act as open drain lines, and
\* on Linux both HALs use their own descriptor and the right address.
THEOREM PortsKeepTheirPromises ==
    PortsSpec => [](/\ SuccessIsTransferred /\ SleepsLongEnough
                    /\ ActsAsOpenDrain /\ HighIsBrief
                    /\ OwnDescriptor /\ RightOnFirstInit /\ OwnTty)
  <1>1. McuInv => SuccessIsTransferred /\ SleepsLongEnough
    BY DEF McuInv, SleepInv, SleepsLongEnough
  <1> QED
    BY <1>1, VendorInvariance, PortsArePinsAndLinux, LinesActAsOpenDrain, HighsAreBrief,
       I2cHalIsUndisturbed, TtyIsOwn, PTL

=============================================================================
