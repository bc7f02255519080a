----------------------------- MODULE LinuxI2cHal -----------------------------
(***************************************************************************)
(* The I2C HAL of the Linux user space sample implementation: a file       *)
(* descriptor and the address last set on it, both static variables, next  *)
(* to a process that opens and closes other files, and a kernel that gives *)
(* out the lowest free descriptor and keeps an address per open bus.       *)
(*                                                                         *)
(* The kernel is not part of the repository.  An open bus has address 0    *)
(* until ioctl(I2C_SLAVE) sets another one, which fails for an address     *)
(* that a kernel driver owns.                                              *)
(***************************************************************************)
EXTENDS Integers

CONSTANTS
    MaxFd,          \* the process can have descriptors 0..MaxFd
    Addresses,      \* of the sensors the drivers talk to
    Owned           \* those of them a kernel driver owns

ASSUME KernelAssumption ==
    /\ MaxFd \in Nat /\ Addresses \subseteq 0..127
    /\ Owned \subseteq Addresses

Fds == 0..MaxFd

VARIABLES
    i2c_device, i2c_address,    \* the HAL's static variables
    files,                      \* the process: descriptor to "free", "bus", "other"
    slave,                      \* the kernel: descriptor to address
    stage,                      \* calls so far: "new", "ready" after init, "freed"
    again,                      \* init was called more than once
    last                        \* the last transfer: address asked for, and the
                                \* address the kernel used, None if it failed

vars == <<i2c_device, i2c_address, files, slave, stage, again, last>>

None == -1
NoTransfer == [address |-> None, to |-> None]

Init ==
    /\ i2c_device = -1 /\ i2c_address = 0
    /\ files \in [Fds -> {"free", "other"}] /\ slave = [fd \in Fds |-> 0]
    /\ stage = "new" /\ again = FALSE /\ last = NoTransfer

FreeFds == {fd \in Fds : files[fd] = "free"}
Lowest(fd) == fd \in FreeFds /\ \A other \in FreeFds : fd <= other
IsBus(fd)  == fd \in Fds /\ files[fd] = "bus"

\* open(); an open bus starts with address 0
OpenAs(kind, fd) ==
    /\ files' = [files EXCEPT ![fd] = kind]
    /\ slave' = [slave EXCEPT ![fd] = 0]

InitKeepsDevice ==
    /\ stage \in {"new", "freed"}
    /\ stage' = "ready" /\ again' = (stage = "freed") /\ last' = NoTransfer
    /\ \/ \E fd \in Fds : Lowest(fd) /\ OpenAs("bus", fd) /\ i2c_device' = fd
       \/ UNCHANGED <<i2c_device, files, slave>>
    /\ UNCHANGED i2c_address

\* sensirion_i2c_hal_init; open may fail, and the HAL does not say so
HalInit ==
    /\ stage \in {"new", "freed"}
    /\ stage' = "ready" /\ again' = (stage = "freed") /\ last' = NoTransfer
    /\ \/ \E fd \in Fds : Lowest(fd) /\ OpenAs("bus", fd) /\ i2c_device' = fd
       \/ i2c_device' = -1 /\ UNCHANGED <<files, slave>>
    /\ UNCHANGED i2c_address

\* sensirion_i2c_hal_free; i2c_device keeps its value
HalFree ==
    /\ stage = "ready" /\ stage' = "freed" /\ last' = NoTransfer
    /\ files' = IF i2c_device >= 0
                THEN [files EXCEPT ![i2c_device] = "free"] ELSE files
    /\ UNCHANGED <<i2c_device, i2c_address, slave, again>>

\* ioctl(i2c_device, I2C_SLAVE, address), whose result nobody looks at
Ioctl(address) ==
    slave' = IF IsBus(i2c_device) /\ address \notin Owned
             THEN [slave EXCEPT ![i2c_device] = address] ELSE slave

SelectOnce(address) ==
    /\ IF i2c_address = 0 THEN Ioctl(address) ELSE UNCHANGED slave
    /\ i2c_address' = address

\* the first half of sensirion_i2c_hal_read and of sensirion_i2c_hal_write
Select(address) ==
    /\ IF i2c_address # address THEN Ioctl(address) ELSE UNCHANGED slave
    /\ i2c_address' = address

\* read() or write(): all the bytes to or from the kernel's address, or -1
HalTransfer(address) ==
    /\ stage = "ready"
    /\ Select(address)
    /\ \/ IsBus(i2c_device) /\ last' = [address |-> address, to |-> slave'[i2c_device]]
       \/ last' = [address |-> address, to |-> None]
    /\ UNCHANGED <<i2c_device, files, stage, again>>

\* the rest of the process
OtherOpens ==
    /\ \E fd \in Fds : Lowest(fd) /\ OpenAs("other", fd)
    /\ UNCHANGED <<i2c_device, i2c_address, stage, again, last>>

OtherCloses ==
    /\ \E fd \in Fds : files[fd] = "other" /\ files' = [files EXCEPT ![fd] = "free"]
    /\ UNCHANGED <<i2c_device, i2c_address, slave, stage, again, last>>

Next ==
    \/ HalInit \/ HalFree
    \/ \E address \in Addresses \cup {0} : HalTransfer(address)     \* 0: general call
    \/ OtherOpens \/ OtherCloses

Spec == Init /\ [][Next]_vars

-----------------------------------------------------------------------------
(* Properties.                                                             *)

\* The static variables hold a descriptor and an address.
TypeOK ==
    /\ i2c_device \in Fds \cup {-1} /\ i2c_address \in Addresses \cup {0}
    /\ files \in [Fds -> {"free", "bus", "other"}]
    /\ slave \in [Fds -> Addresses \cup {0}]
    /\ stage \in {"new", "ready", "freed"} /\ again \in BOOLEAN

\* Whatever the process opens meanwhile and however often init fails, the
\* descriptor the HAL reads, writes and closes between init and free is its
\* own, and the process has no other bus open: none is lost by free.
OwnDescriptor ==
    {fd \in Fds : files[fd] = "bus"} =
        IF stage = "ready" /\ i2c_device # -1 THEN {i2c_device} ELSE {}

\* "The bytes in the supplied buffer must be sent to the given address"
\* (hal_write): a transfer that succeeds went to the address it was given.
RightDevice == last.to # None => last.to = last.address

\* It did if the HAL was initialised once and no kernel driver owns the address:
\* sensors may be addressed in any order, the general call included, whatever
\* fails on the way.
RightOnFirstInit == ~again /\ last.address \notin Owned => RightDevice

=============================================================================
