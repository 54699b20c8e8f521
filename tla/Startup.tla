------------------------------ MODULE Startup ------------------------------
(***************************************************************************)
(* From the entry of the four cores to the end of kernel_main, or to an    *)
(* exception (src/src/kernel/boot.S, linker.ld, kernel.cpp, exception.cpp),*)
(* over the mini UART and the pins.  Core 0 runs a program: the register   *)
(* writes, characters and calls that are left.  The drivers kernel_main    *)
(* calls are modules of their own; here a call has an outcome and a text   *)
(* it prints, on the same UART.  Where the code writes over its own stack  *)
(* or program, core 0 may be lost: it does nothing any more that this      *)
(* module describes.                                                       *)
(***************************************************************************)
EXTENDS Uart, Format, FiniteSets

CONSTANTS
    Cores,         \* the values of mpidr_el1 & 3
    Machines,      \* what the firmware may leave: [el, cntl, func, left, data, bss]
    HalfDigits,    \* hexadecimal digits of 32 bits (8)
    Faults,        \* syndrome registers of an exception
    Prints,        \* what a driver may print during a call
    Sizes,         \* sizes of a card in MB
    Sectors        \* what the first bytes of a sector may be

(* What n hexadecimal digits can tell apart.                               *)
power[n \in 0 .. 2 * HalfDigits] == IF n = 0 THEN 1 ELSE 16 * power[n - 1]

Half == power[HalfDigits]

ASSUME StartupAssumption ==
    /\ 0 \in Cores
    /\ HalfDigits \in 1 .. 32 /\ Word = Half * Half
    /\ \A f \in Faults : f.abort \in BOOLEAN
         /\ {f.esr, f.elr, f.spsr, f.far} \subseteq 0 .. Word - 1
    /\ Prints \subseteq Seq({"message", "\n"})
    /\ Sizes \subseteq 0 .. (Word \div 2) - 1
    /\ \A buf \in Sectors : buf \in Seq(0 .. 255)
    /\ \A m \in Machines :
         /\ m.el \in 1 .. 3 /\ m.cntl \in Nat /\ m.func \in 0 .. 7
         /\ m.left \in Seq({"firmware"}) /\ Len(m.left) \leq FifoDepth
         /\ m.data \in Nat /\ m.bss \in Nat

VARIABLES
    core,       \* where each core is: "entry", "parked" or "running"
    at,         \* where core 0 is
    el, x0,     \* its exception level, and CurrentEL as it was read
    vbar,       \* _vectors are installed
    ram, x1,    \* the words from __data_start__ on, the one written next
    todo,       \* what is left of the program of core 0
    choice,     \* what the drivers did: the card's size, the sector, the prints
    overrun,    \* a number was longer than the local of write_number
    fault,      \* the exception that was taken
    machine     \* what the firmware left

coreVars == <<core, at, el, x0, vbar, ram, x1>>
vars == <<uartVars, coreVars, todo, choice, overrun, fault, machine>>

Unset == [init |-> << >>, size |-> None, read |-> << >>, sector |-> << >>]
NoFault == [abort |-> FALSE, esr |-> 0, elr |-> 0, spsr |-> 0, far |-> 0]

dataEnd == machine.data
bssEnd  == machine.data + machine.bss

-----------------------------------------------------------------------------
(* The programs.                                                           *)
text(s) == << <<"put", s>> >>

(* kernel.cpp:33-50, up to the card, and init of the card up to its first  *)
(* line (sd.cpp:20-26).                                                    *)
Greeting == <<"Hello, world!", "\n">>
GpioSetUp == <<"EMMC: GPIO set up", "\n">>

pins_of_card == [i \in 1 .. 6 |-> <<"pin", 47 + i>>]

pin_of_card(pin) == set_function(pin, alt3) \o pull_up(pin)

kernel_main == init \o write(Greeting)
               \o << <<"call", "framebuffer">> >>
               \o pins_of_card \o write(GpioSetUp) \o << <<"call", "sd">> >>

(* sd.cpp:102-108: init calls itself when the voltage switch fails, and    *)
(* sets the pins up once more.                                             *)
restart(print) == pins_of_card \o write(GpioSetUp \o print)

(* kernel.cpp:52-82: the card failed, or its size and a sector of its      *)
(* first partition in hexadecimal.  What read returns is not looked at.    *)
FailedText == <<"Failed to initialize SD card", "\n">>
SizeFormat == <<"SD card size: ", "{", "}", "MB", "\n">>
ByteFormat == <<"{", ":", "0", "2", "x", "}", " ">>

size_of_card(size) == << <<"format", SizeFormat, <<size>> >>, <<"call", "read">> >>

outcome(size) == IF size = None THEN write(FailedText) ELSE size_of_card(size)

dump(buf) == [i \in DOMAIN buf |-> <<"byte", i, buf[i]>>]

dump_byte(i, byte) == (IF (i - 1) % 16 = 0 THEN text("\n") ELSE << >>)
                        \o << <<"format", ByteFormat, <<byte>> >> >>

(* exc_handler (exception.cpp:23-69).  Only synchronous exceptions are     *)
(* taken: the kernel runs with the others masked (boot.S:57).              *)
register(r) == << <<"number", r \div Half>>, <<"number", r>> >>

exc_handler(f) ==
    write(<<"Exception: ", "Synchronous", "\n", "Exception class: ", "class">>)
    \o (IF f.abort THEN write(<<", Fault cause: ", "cause", "level">>) ELSE << >>)
    \o text("\n") \o text("ESR_EL1: ")  \o register(f.esr)
    \o text("\n") \o text("ELR_EL1: ")  \o register(f.elr)
    \o text("\n") \o text("SPSR_EL1: ") \o register(f.spsr)
    \o text("\n") \o text("FAR_EL1: ")  \o register(f.far)

-----------------------------------------------------------------------------
Init ==
    /\ machine \in Machines
    /\ core = [c \in Cores |-> "entry"]
    /\ at = "entry" /\ el = machine.el /\ x0 = 0 /\ vbar = FALSE
    /\ ram = [w \in 0 .. bssEnd |-> "junk"] /\ x1 = 0
    /\ mu = [enable |-> IF machine.cntl = 0 THEN 0 ELSE 1, cntl |-> machine.cntl,
             lcr |-> 0, mcr |-> 0, ier |-> 0, iir |-> 0, baud |-> 0]
    /\ fifo = machine.left /\ wire = << >>
    /\ fsel = [r \in 0 .. 5 |-> [f \in 0 .. 9 |-> machine.func]]
    /\ gppud = 0 /\ pull = [p \in Pin |-> 1]
    /\ todo = << >> /\ choice = Unset /\ overrun = FALSE /\ fault = NoFault

(* boot.S:8-17: the others wait for events for ever.                       *)
Enter(c) ==
    /\ core[c] = "entry"
    /\ core' = [core EXCEPT ![c] = IF c = 0 THEN "running" ELSE "parked"]
    /\ at' = IF c = 0 THEN "level" ELSE at
    /\ UNCHANGED <<uartVars, el, x0, vbar, ram, x1, todo, choice, overrun, fault, machine>>

(* boot.S:20-37: EL3 is left for EL2 with x0 as it was, so that EL2 is set *)
(* up next; EL1 skips that.                                                *)
ReadLevel ==
    /\ at = "level"
    /\ x0' = el * 4
    /\ el' = IF el = 3 THEN 2 ELSE el
    /\ at' = IF x0' = 4 THEN "stack" ELSE "setup"
    /\ UNCHANGED <<uartVars, core, vbar, ram, x1, todo, choice, overrun, fault, machine>>

(* boot.S:38-61.                                                           *)
SetUpEl2 ==
    /\ at = "setup"
    /\ vbar' = TRUE
    /\ el' = 1
    /\ at' = "stack"
    /\ UNCHANGED <<uartVars, core, x0, ram, x1, todo, choice, overrun, fault, machine>>

(* boot.S:63-82: both loops write a word before they compare.              *)
CopyData ==
    /\ at \in {"stack", "data"}
    /\ ram' = [ram EXCEPT ![x1] = "image"]
    /\ x1' = IF x1 + 1 < dataEnd THEN x1 + 1 ELSE dataEnd
    /\ at' = IF x1 + 1 < dataEnd THEN "data" ELSE "bss"
    /\ UNCHANGED <<uartVars, core, el, x0, vbar, todo, choice, overrun, fault, machine>>

M_ZeroBssShort ==
    /\ at = "bss"
    /\ ram' = [ram EXCEPT ![x1] = "zero"]
    /\ x1' = x1 + 1
    /\ at' = IF x1 + 2 < bssEnd THEN "bss" ELSE "kernel"
    /\ todo' = IF at' = "kernel" THEN kernel_main ELSE << >>
    /\ UNCHANGED <<uartVars, core, el, x0, vbar, choice, overrun, fault, machine>>

ZeroBss ==
    /\ at = "bss"
    /\ ram' = [ram EXCEPT ![x1] = "zero"]
    /\ x1' = x1 + 1
    /\ at' = IF x1 + 1 < bssEnd THEN "bss" ELSE "kernel"
    /\ todo' = IF at' = "kernel" THEN kernel_main ELSE << >>
    /\ UNCHANGED <<uartVars, core, el, x0, vbar, choice, overrun, fault, machine>>

-----------------------------------------------------------------------------
Running == at \in {"kernel", "handler"} /\ todo # << >>

Lost == at' = "lost" /\ UNCHANGED <<core, el, x0, vbar, ram, x1>>

(* A register write or a character.                                        *)
Write ==
    /\ Running
    /\ Do(Head(todo))
    /\ todo' = rest(Head(todo)) \o Tail(todo)
    /\ UNCHANGED <<coreVars, choice, overrun, fault, machine>>

(* write_number (uart1.cpp:49-53): the local has room for 16 characters.   *)
(* What is longer ends up in what lies above it on the stack.              *)
M_WriteNumberShort ==
    /\ Running /\ Head(todo)[1] = "number"
    /\ LET digitsOf == itos(Head(todo)[2], 16, HalfDigits)
           over     == Len(digitsOf) + 1 > HalfDigits
       IN  /\ todo' = write(digitsOf) \o Tail(todo)
           /\ overrun' = (overrun \/ over)
           /\ UNCHANGED coreVars \/ (over /\ Lost)
    /\ UNCHANGED <<uartVars, choice, fault, machine>>

WriteNumber ==
    /\ Running /\ Head(todo)[1] = "number"
    /\ LET digitsOf == itos(Head(todo)[2], 16, HalfDigits)
           over     == Len(digitsOf) + 1 > 2 * HalfDigits
       IN  /\ todo' = write(digitsOf) \o Tail(todo)
           /\ overrun' = (overrun \/ over)
           /\ UNCHANGED coreVars \/ (over /\ Lost)
    /\ UNCHANGED <<uartVars, choice, fault, machine>>

(* uart::write with arguments (uart1.h:32-37).                             *)
WriteFormat ==
    /\ Running /\ Head(todo)[1] = "format"
    /\ todo' = write(format(Head(todo)[2], Head(todo)[3])) \o Tail(todo)
    /\ UNCHANGED <<uartVars, coreVars, choice, overrun, fault, machine>>

(* One pass of the loop over the pins, and of the loop over the bytes.     *)
SetUpPin ==
    /\ Running /\ Head(todo)[1] = "pin"
    /\ todo' = pin_of_card(Head(todo)[2]) \o Tail(todo)
    /\ UNCHANGED <<uartVars, coreVars, choice, overrun, fault, machine>>

DumpByte ==
    /\ Running /\ Head(todo)[1] = "byte"
    /\ todo' = dump_byte(Head(todo)[2], Head(todo)[3]) \o Tail(todo)
    /\ UNCHANGED <<uartVars, coreVars, choice, overrun, fault, machine>>

(* The drivers (kernel.cpp:41-74), and what they print.  A framebuffer the *)
(* GPU refuses lies at 4096, and clear writes 3 MB from there on, over the *)
(* kernel at 0x80000 (buffer.cpp:17-31, linker.ld:4).                      *)
Call(name) == Running /\ Head(todo)[1] = "call" /\ Head(todo)[2] = name

Framebuffer ==
    /\ Call("framebuffer")
    /\ todo' = Tail(todo)
    /\ UNCHANGED coreVars \/ Lost
    /\ UNCHANGED <<uartVars, choice, overrun, fault, machine>>

InitCard ==
    /\ Call("sd")
    /\ \E print \in Prints, s \in Sizes \cup {None} :
          \/ /\ choice' = [choice EXCEPT !.init = print, !.size = s]
             /\ todo' = write(print) \o outcome(s)
          \/ \E again \in Prints :
                /\ choice' = [choice EXCEPT !.init = print \o GpioSetUp \o again,
                                            !.size = s]
                /\ todo' = write(print) \o restart(again) \o outcome(s)
    /\ UNCHANGED <<uartVars, coreVars, overrun, fault, machine>>

(* A disk whose table has no entry in use has no first partition either,   *)
(* and the call goes through a null device (disk.h:40, partition.h:25).    *)
ReadSector ==
    /\ Call("read")
    /\ \E print \in Prints, buf \in Sectors :
          /\ choice' = [choice EXCEPT !.read = print, !.sector = buf]
          /\ todo' = write(print) \o dump(buf)
    /\ UNCHANGED coreVars \/ Lost
    /\ UNCHANGED <<uartVars, overrun, fault, machine>>

(* boot.S:86-88.                                                           *)
KernelReturns ==
    /\ at = "kernel" /\ todo = << >>
    /\ at' = "wfe"
    /\ UNCHANGED <<uartVars, core, el, x0, vbar, ram, x1, todo, choice, overrun, fault, machine>>

(* An instruction of core 0 at EL1 faults.  The table has entries for the  *)
(* stack pointer the kernel runs with; exc_handler runs with the other, so *)
(* that a second exception finds no entry (boot.S:57, 92-127).             *)
M_FaultReturns ==
    /\ at \in {"stack", "data", "bss", "kernel"}
    /\ \E f \in Faults :
          /\ fault' = f
          /\ todo' = IF vbar THEN exc_handler(f) \o todo ELSE todo
    /\ at' = IF vbar THEN "handler" ELSE "lost"
    /\ UNCHANGED <<uartVars, core, el, x0, vbar, ram, x1, choice, overrun, machine>>

Fault ==
    /\ at \in {"stack", "data", "bss", "kernel"}
    /\ \E f \in Faults :
          /\ fault' = f
          /\ todo' = IF vbar THEN exc_handler(f) ELSE todo
    /\ at' = IF vbar THEN "handler" ELSE "lost"
    /\ UNCHANGED <<uartVars, core, el, x0, vbar, ram, x1, choice, overrun, machine>>

SecondFault ==
    /\ at = "handler"
    /\ at' = "lost"
    /\ UNCHANGED <<uartVars, core, el, x0, vbar, ram, x1, todo, choice, overrun, fault, machine>>

Sends == Transmit /\ UNCHANGED <<coreVars, todo, choice, overrun, fault, machine>>

Core0 == \/ Enter(0) \/ ReadLevel \/ SetUpEl2 \/ CopyData \/ ZeroBss
         \/ Write \/ WriteNumber \/ WriteFormat \/ SetUpPin \/ DumpByte
         \/ Framebuffer \/ InitCard \/ ReadSector \/ KernelReturns

Next == Core0 \/ (\E c \in Cores \ {0} : Enter(c)) \/ Fault \/ SecondFault \/ Sends

Spec == Init /\ [][Next]_vars

(* Core 0 goes on, and the transmitter sends.                              *)
FairSpec == Spec /\ WF_vars(Core0) /\ WF_vars(Sends)

-----------------------------------------------------------------------------
TypeOK ==
    /\ core \in [Cores -> {"entry", "parked", "running"}]
    /\ at \in {"entry", "level", "setup", "stack", "data", "bss", "kernel",
               "handler", "wfe", "lost"}
    /\ el \in 1 .. 3 /\ x0 \in {0, 4, 8, 12} /\ vbar \in BOOLEAN
    /\ ram \in [0 .. bssEnd -> {"junk", "image", "zero"}] /\ x1 \in 0 .. bssEnd + 1
    /\ Len(fifo) \leq FifoDepth /\ gppud \in 0 .. 2
    /\ fsel \in [0 .. 5 -> [0 .. 9 -> 0 .. 7]] /\ pull \in [Pin -> 0 .. 2]
    /\ overrun \in BOOLEAN

(* kernel_main starts on core 0 alone, at EL1, with its data loaded and    *)
(* its bss zero, however large they are, and with the vectors installed    *)
(* unless the firmware started it at EL1 (boot.S:6-84).                    *)
Loaded ==
    at \in {"kernel", "wfe"} =>
        /\ \A c \in Cores : core[c] = "running" => c = 0
        /\ el = 1 /\ (machine.el > 1 => vbar)
        /\ \A w \in 0 .. dataEnd - 1 : ram[w] = "image"
        /\ \A w \in dataEnd .. bssEnd - 1 : ram[w] = "zero"

(* The transmitter is switched on only with its pins, speed and word       *)
(* length set and the pulls off, and none of them changes while it is on   *)
(* (uart1.cpp:10-25).                                                      *)
function(pin) == fsel[pin \div 10][pin % 10]

Line == <<mu.baud, mu.lcr, function(14), function(15), pull[14], pull[15]>>

OnWhenReady ==
    [][/\ mu.cntl # 3 /\ mu'.cntl = 3 => Line = <<270, 3, alt5, alt5, 0, 0>>
       /\ Line' # Line => mu.cntl = 0]_vars

(* A pin is as the firmware left it or as the kernel wants it, whatever    *)
(* was done to the pins it shares a register with (gpio.cpp:13-42).        *)
PinsApart ==
    \A p \in Pin :
        /\ \/ function(p) = machine.func
           \/ p \in {14, 15} /\ function(p) = alt5
           \/ p \in 48 .. 53 /\ function(p) = alt3
        /\ pull[p] # 1 => IF p \in {14, 15} THEN pull[p] = 0
                          ELSE p \in 48 .. 53 /\ pull[p] = 2

(* What goes over the wire: the texts with the carriage returns, and the   *)
(* numbers in as many digits as they need or more, made here from the      *)
(* value and not digit by digit.                                           *)
Numeral(v, base, width) ==
    LET weight[k \in 0 .. v + width] == IF k = 0 THEN 1 ELSE base * weight[k - 1]
        needed == CHOOSE k \in 1 .. v + width :
                     v < weight[k] /\ (k > 1 => v \geq weight[k - 1])
        n      == IF needed > width THEN needed ELSE width
    IN  [k \in 1 .. n |-> Digit[((v \div weight[n - k]) % base) + 1]]

Returned(s) == FlattenSeq([k \in DOMAIN s |->
                   IF s[k] = "\n" THEN <<"\n", "\r">> ELSE <<s[k]>>])

KernelText == Returned(
    Greeting \o GpioSetUp \o choice.init
    \o (IF choice.size = None THEN FailedText
        ELSE <<"SD card size: ">> \o Numeral(choice.size, 10, 1) \o <<"MB", "\n">>)
    \o choice.read
    \o FlattenSeq([i \in DOMAIN choice.sector |->
           (IF (i - 1) % 16 = 0 THEN <<"\n">> ELSE << >>)
             \o Numeral(choice.sector[i], 16, 2) \o <<" ">>]))

(* A register in all its digits.  Where the upper half is not 0 it comes   *)
(* twice: the second call passes all 64 bits, not the lower half.          *)
Shown(r) == IF r < Half THEN Numeral(r, 16, 2 * HalfDigits)
            ELSE Numeral(r \div Half, 16, HalfDigits) \o Numeral(r, 16, HalfDigits)

ReportText(f) == Returned(
    <<"Exception: ", "Synchronous", "\n", "Exception class: ", "class">>
    \o (IF f.abort THEN <<", Fault cause: ", "cause", "level">> ELSE << >>)
    \o <<"\n", "ESR_EL1: ">>  \o Shown(f.esr)
    \o <<"\n", "ELR_EL1: ">>  \o Shown(f.elr)
    \o <<"\n", "SPSR_EL1: ">> \o Shown(f.spsr)
    \o <<"\n", "FAR_EL1: ">>  \o Shown(f.far))

(* The wire has what the kernel and its drivers said, every character once *)
(* and in order, and all of it when it is done; after an exception it has  *)
(* what was said up to there and then the report, and nothing of the       *)
(* kernel any more.  What the firmware left in the FIFO comes before all   *)
(* of it, or not.  A core that is lost may have said anything.             *)
WireIsText ==
    LET sent == wire \o fifo
    IN  at # "lost" => \E n \in 0 .. Len(sent) :
          LET said == SubSeq(sent, n + 1, Len(sent))
          IN  /\ \A k \in DOMAIN sent : sent[k] = "firmware" <=> k \leq n
              /\ at # "handler" => IsPrefix(said, KernelText)
              /\ at = "wfe" => said = KernelText
              /\ at = "handler" => \E m \in 0 .. Len(said) :
                    /\ IsPrefix(SubSeq(said, 1, m), KernelText)
                    /\ IsPrefix(SubSeq(said, m + 1, Len(said)), ReportText(fault))

(* The local of write_number is too small only for a register with all its *)
(* digits: no address the kernel uses has them (uart1.cpp:50).             *)
OverrunOnlyFull ==
    overrun => \E r \in {fault.esr, fault.elr, fault.spsr, fault.far} :
                  r \geq Word \div 16

(* An exception is reported to the end once the UART is set up, unless a   *)
(* second one comes (exception.cpp:23-69).  Before that core 0 waits for   *)
(* ever for a transmitter that is off.                                     *)
Reported ==
    at = "handler" /\ mu.cntl = 3 ~>
        at = "lost" \/ (todo = << >> /\ IsSuffix(ReportText(fault), wire))

(* kernel_main returns, or an exception ends it: no wait for the UART is   *)
(* for ever (uart1.cpp:36), in the kernel or in the handler.               *)
Finishes ==
    /\ at = "kernel" ~> at \in {"wfe", "handler", "lost"}
    /\ Reported
=============================================================================
