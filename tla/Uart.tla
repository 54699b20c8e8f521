-------------------------------- MODULE Uart --------------------------------
(***************************************************************************)
(* The mini UART and the pins (src/src/kernel/peripheral/uart1.cpp and     *)
(* gpio.cpp).  What the code does to them is a sequence of register writes *)
(* and of characters, here a program of tuples; the actions below carry    *)
(* out one of them.  The waits between the writes only pass time.          *)
(***************************************************************************)
EXTENDS Integers, Sequences

CONSTANTS FifoDepth    \* characters the transmitter holds (8)

ASSUME UartAssumption == FifoDepth \in Nat \ {0}

VARIABLES
    mu,       \* registers of the mini UART
    fifo,     \* characters it has not sent
    wire,     \* characters it has sent
    fsel,     \* GPFSEL0 to 5: ten fields each
    gppud,    \* the pull that the next clock sets
    pull      \* the pull of each pin

uartVars == <<mu, fifo, wire, fsel, gppud, pull>>

Pin == 0 .. 53
None == -1

input == 0
alt3  == 7
alt5  == 2

-----------------------------------------------------------------------------
(* gpio.cpp: read a register, replace one field, write it back.            *)
set_function(pin, func) == << <<"fsel", pin, func>> >>

disable_pulling(pin) ==
    << <<"gppud", 0>>, <<"clock", pin>>, <<"clock", None>> >>

pull_up(pin) ==
    << <<"gppud", 2>>, <<"clock", pin>>, <<"gppud", 0>>, <<"clock", None>> >>

(* uart1.cpp:10-25.                                                        *)
M_initOnTooSoon ==
    << <<"mu", "enable", 1>>, <<"mu", "cntl", 3>>, <<"mu", "lcr", 3>>,
       <<"mu", "baud", 270>> >>
    \o set_function(14, alt5) \o set_function(15, alt5)
    \o disable_pulling(14) \o disable_pulling(15)

init ==
    << <<"mu", "enable", 1>>, <<"mu", "cntl", 0>>, <<"mu", "lcr", 3>>,
       <<"mu", "mcr", 0>>, <<"mu", "ier", 0>>, <<"mu", "iir", 198>>,
       <<"mu", "baud", 270>> >>
    \o set_function(14, alt5) \o set_function(15, alt5)
    \o disable_pulling(14) \o disable_pulling(15)
    \o << <<"mu", "cntl", 3>> >>

(* uart::write of a text.                                                  *)
write(text) == [k \in DOMAIN text |-> <<"put", text[k]>>]

-----------------------------------------------------------------------------
(* A register of the mini UART: nothing arrives while it is switched off.  *)
(* Writing the interrupt register with 0xC6 empties the FIFOs.             *)
WriteUart(op) ==
    /\ op[1] = "mu"
    /\ mu' = IF op[2] = "enable" \/ mu.enable = 1
             THEN [mu EXCEPT ![op[2]] = op[3]] ELSE mu
    /\ fifo' = IF op[2] = "iir" /\ mu.enable = 1 THEN << >> ELSE fifo
    /\ UNCHANGED <<wire, fsel, gppud, pull>>

M_WriteFunction(op) ==
    /\ op[1] = "fsel"
    /\ fsel' = [fsel EXCEPT ![op[2] \div 10] =
                  [f \in 0 .. 9 |-> IF f = op[2] % 10 THEN op[3] ELSE 0]]
    /\ UNCHANGED <<mu, fifo, wire, gppud, pull>>

WriteFunction(op) ==
    /\ op[1] = "fsel"
    /\ fsel' = [fsel EXCEPT ![op[2] \div 10][op[2] % 10] = op[3]]
    /\ UNCHANGED <<mu, fifo, wire, gppud, pull>>

(* A pin takes the pull of GPPUD when it is clocked.                       *)
WritePull(op) ==
    /\ \/ op[1] = "gppud" /\ gppud' = op[2] /\ UNCHANGED pull
       \/ /\ op[1] = "clock"
          /\ pull' = IF op[2] = None THEN pull ELSE [pull EXCEPT ![op[2]] = gppud]
          /\ UNCHANGED gppud
    /\ UNCHANGED <<mu, fifo, wire, fsel>>

(* uart1.cpp:36-37: the wait ends when the FIFO has room, and never while  *)
(* the UART is off.  A character written without room is lost.             *)
M_PutAtOnce(op) ==
    /\ op[1] = "put"
    /\ fifo' = Append(fifo, op[2])
    /\ UNCHANGED <<mu, wire, fsel, gppud, pull>>

Put(op) ==
    /\ op[1] = "put"
    /\ mu.enable = 1 /\ Len(fifo) < FifoDepth
    /\ fifo' = Append(fifo, op[2])
    /\ UNCHANGED <<mu, wire, fsel, gppud, pull>>

(* A line end is followed by a carriage return (uart1.cpp:38-40).          *)
M_rest(op) == << >>

rest(op) ==
    IF op[1] = "put" /\ op[2] = "\n" THEN << <<"put", "\r">> >> ELSE << >>

Do(op) == WriteUart(op) \/ WriteFunction(op) \/ WritePull(op) \/ Put(op)

(* The transmitter (external).                                             *)
Transmit ==
    /\ mu.enable = 1 /\ mu.cntl = 3 /\ fifo # << >>
    /\ wire' = Append(wire, Head(fifo))
    /\ fifo' = Tail(fifo)
    /\ UNCHANGED <<mu, fsel, gppud, pull>>
=============================================================================
