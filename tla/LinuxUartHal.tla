----------------------------- MODULE LinuxUartHal -----------------------------
(***************************************************************************)
(* The UART HAL of the Linux user space sample implementation, in a        *)
(* process that may use the I2C HAL as well: both open and close           *)
(* descriptors of one table, and the kernel gives a number one of them     *)
(* has closed to the other.                                                *)
(*                                                                         *)
(* For LinuxI2cHal the terminal is one of the other files of the process.  *)
(***************************************************************************)
EXTENDS LinuxI2cHal

VARIABLES
    uart_fd,        \* the HAL's static variable
    ttys,           \* the process: descriptors open on the terminal
    uart_stage,     \* calls so far: "new", "ready" after init, "freed"
    uart_last       \* the last call: its result is -1 or another number, and the
                    \* descriptor it wrote to or read from

uartVars  == <<uart_fd, ttys, uart_stage, uart_last>>
linuxVars == <<vars, uartVars>>

NoUse == [failed |-> TRUE, fd |-> None]

LinuxInit ==
    /\ Init
    /\ uart_fd = -1 /\ ttys = {} /\ uart_stage = "new" /\ uart_last = NoUse

UartInitKeepsFd ==
    /\ uart_stage \in {"new", "freed"}
    /\ uart_stage' = "ready" /\ uart_last' = NoUse
    /\ \/ \E fd \in Fds : /\ Lowest(fd) /\ OpenAs("other", fd)
                          /\ uart_fd' = fd /\ ttys' = ttys \cup {fd}
       \/ UNCHANGED <<uart_fd, files, slave, ttys>>
    /\ UNCHANGED <<i2c_device, i2c_address, stage, again, last>>

\* sensirion_uart_hal_init; open may fail, and then init returns -1
UartInit ==
    /\ uart_stage \in {"new", "freed"}
    /\ uart_stage' = "ready" /\ uart_last' = NoUse
    /\ \/ \E fd \in Fds : /\ Lowest(fd) /\ OpenAs("other", fd)
                          /\ uart_fd' = fd /\ ttys' = ttys \cup {fd}
       \/ uart_fd' = -1 /\ UNCHANGED <<files, slave, ttys>>
    /\ UNCHANGED <<i2c_device, i2c_address, stage, again, last>>

\* sensirion_uart_hal_free: close(uart_fd), which fails for -1; uart_fd keeps its
\* value
UartFree ==
    /\ uart_stage = "ready" /\ uart_stage' = "freed" /\ uart_last' = NoUse
    /\ files' = IF uart_fd \in Fds THEN [files EXCEPT ![uart_fd] = "free"] ELSE files
    /\ ttys' = ttys \ {uart_fd}
    /\ UNCHANGED <<uart_fd, i2c_device, i2c_address, slave, stage, again, last>>

\* sensirion_uart_hal_tx and rx: -1 without a descriptor, before init too;
\* write() and read() may fail
UartTransfer ==
    /\ uart_stage # "freed"
    /\ uart_last' \in [failed : IF uart_fd = -1 THEN {TRUE} ELSE BOOLEAN, fd : {uart_fd}]
    /\ UNCHANGED <<uart_fd, ttys, uart_stage, vars>>

\* The rest of the process closes what it opened itself.
LinuxNext ==
    \/ UartInit \/ UartFree \/ UartTransfer
    \/ /\ Next /\ UNCHANGED uartVars
       /\ ~OtherCloses \/ \A fd \in ttys : files'[fd] = "other"

LinuxSpec == LinuxInit /\ [][LinuxNext]_linuxVars

-----------------------------------------------------------------------------
(* Properties.                                                             *)

\* Between its init and free the UART HAL has exactly one terminal open, its
\* own, whatever the I2C HAL and the rest of the process open and close; init
\* and free leak none, and what tx and rx wrote to or read from was this one.
OwnTty ==
    /\ ttys = IF uart_stage = "ready" /\ uart_fd # -1 THEN {uart_fd} ELSE {}
    /\ \A fd \in ttys : files[fd] = "other"
    /\ ~uart_last.failed => uart_last.fd \in ttys

=============================================================================
