# Verification of raspi-3-kernel

TLA+ models of the kernel in `src/`, the TLC configurations that check them on
small instances, and TLAPS proofs of what matters most for every instance.
`PROJECT.json` lists components, runs, the source lines behind every
definition, findings, hazards and theorems.

## The system

The kernel is one thread of control on one core of a Raspberry Pi 3, with no
interrupts, no scheduler and no heap. Its concurrency is with hardware: the SD
host controller and the card, the GPU behind the mailbox and the system timer
all change their registers while the driver polls them.

| component | state | operations | who calls it |
|---|---|---|---|
| EMMC host driver (`peripheral/emmc.cpp`) | `response`, `last_error`, `buffer`, `block_size`; controller registers | `send_command`, `send_app_command`, `reset_command`, `wait_for_interrupt`, `do_data_transfer`, `transfer_block` | SD initialisation, block device |
| SD initialisation (`peripheral/sd.cpp`) | `rca`, `sdhc`, `cfg`, `csd`, `scr`; CONTROL0 | `init`, `parse_csd`, `voltage_switch`, `high_speed_switch` | kernel main |
| SD clock (`sd.cpp:340-430`) | CONTROL1 | `set_clock_rate` | SD initialisation |
| EMMC block device (`device/emmc.cpp`) | `sector_size_` | `read`, `write`, `ioctl` | partitions, MBR parser |
| Disk, partitions, MBR parser (`device/disk.cpp`, `device/partition.h`, `partition/mbr_parser.cpp`) | `part_table`, `part_devs` | `rescan_partitions`, `read`, `write`, `parse_mbr` | kernel main |
| System timer (`peripheral/timer.cpp`) | none | `get_system_timer`, busy waits | everyone |
| Mailbox (`peripheral/mailbox.cpp`, `mailbox/*.h`) | two FIFOs shared with the GPU, the message buffer | `call`, `call_property`, layout of property messages | clock, framebuffer, board info |
| Framebuffer console (`buffer.cpp`) | pixels, cursor | `putc`, `puts`, `clear` | kernel main |
| Property messages (`mailbox/mailbox.h`, `board.h`, `framebuffer.h`) | the words of a message | construction, `get_tag`, and the GPU's walk over the tags | `allocate_framebuffer`, `get_base_clock_rate`, `print_board_info` (which nothing calls) |
| Boot (`boot.S`, `linker.ld`) | exception level, vectors, memory | `_start` | the firmware |
| UART, GPIO (`uart1.cpp`, `gpio.cpp`) | the mini UART, pin functions and pulls | `init`, `write`; `set_function`, `disable_pulling`, `pull_up` | kernel main, exceptions, every driver that reports |
| Formatting (`string.cpp`, `format.cpp`, `format.h`) | caller's buffers | `itos`, `stou`, `format` | UART |
| Exceptions (`exception.cpp`) | none | `exc_handler` | the vectors |
| Kernel main (`kernel.cpp`) | its locals | `kernel_main`: everything above, once, in order | boot |

What makes each of them correct:

- *EMMC host driver*: a read that returned true delivered the block asked for,
  whatever an earlier attempt left behind; commands go out only on a free line;
  a call returns.
- *SD initialisation*: true means the card is selected, under the address the
  driver has, and both sides agree on how they talk; the sequence ends.
- *SD clock*: the divider is changed only while the clock is off, stays in its
  field, and the clock is not above the rate asked for, or on a host before v3
  by less than one part in the divider.
- *EMMC block device*: the bytes at the address, all of them, and no others.
- *Partitions*: a partition is inside the disk and what is read through it is
  its own; a rescan leaves table and devices in step.
- *Timer*: no torn read. *Mailbox*: an answer is the answer to the request.
  *Console*: the cursor stays on the screen, the screen shows the last lines.
- *Property messages*: constructor, GPU and `get_tag` mean the same words by the
  same tag, and the GPU finds the end inside the message.
- *Boot*: one core, at EL1, with data and bss in place, before any C++ runs.
- *UART, formatting, exceptions*: the wire carries what was said, once and in
  order, numbers in full; an exception is reported to its end.

Hard behaviours: the controller acting between any two register accesses
(late, lost and stale interrupt bits), retries of transfers that are still
under way, errors that are cleared before they are looked at, unbounded polls,
a card that was left in any state by the firmware, arithmetic in 32 bits.

## Modules

| module | models | state and actions |
|---|---|---|
| `EmmcHost` | `emmc.cpp:45-217` and the controller with its card | `pc` names the next bus access of the driver; `call` is the call in progress; `intr`, `cmdLine`, `xfer`, `fifo`, `resp`, `card` are the controller's. One action per access (`DatWait`, `CmdWait`, `ClearRead`, `ClearWrite`, `Issue`, `Poll`, `Ack`, `Check`, `Respond`, `Xfer`, `ResetWait`) and one per event of the controller (`Hw...`) |
| `BlockDevice` | what `transfer_block` promises for one block | the abstract specification: `Request`, `ReadOk`, `WriteOk`, `Fail`, and a card that programs or loses a block after the write returned |
| `BlockIo` | `device/emmc.cpp:13-52` | composed with `BlockDevice` (`INSTANCE`): `common_io_op` makes the requests, the device serves them |
| `SdInit` | `sd.cpp:10-322`, `emmc.cpp:7-43` and `92-104`, `device/emmc.cpp:57-62` | one action per command; `csize` is the arithmetic of `parse_csd` on the bytes of the register; `card` is the state machine of the SD specification, `send_command` the outcomes that `EmmcHost` shows a command can have |
| `SdClock` | `sd.cpp:340-430` | the wait, the divider arithmetic and the order of the writes to CONTROL1 |
| `SystemTimer` | `timer.cpp:4-15` | one action per read of a half; the counter ticks in between |
| `Partitions` | `disk.cpp:7-42`, `mbr_parser.cpp:25-57`, `partition.h:16-30` | `part_table` and `part_devs` are the two lists with data and count, `handle` a caller's copy of a device. One action per step of the scan (`RescanPartitions`, `ReadMbr`, `CheckSignature`, `AddEntry`, `WholeDisk`, `AddDevice`, ...), `TakePartition`, and `WriteCard` for a caller that changes sector 0 through the disk |
| `PropertyCall` | `mailbox.h:33-150`, the tags of `framebuffer.h` and `board.h`, `buffer.cpp:7-38`, `kernel.cpp:9-31`, `sd.cpp:324-338` | extends `Mailbox` and adds to each of its steps what happens to the words: `MakeMessage` lays the tags out, `GpuTag` answers one where the GPU stands (`pos`), `ReadTags` takes them with `get_tag` |
| `Format` | `string.cpp`, `format.cpp`, `format.h` | functions only |
| `Uart` | `uart1.cpp`, `gpio.cpp` | `mu`, `fifo`, `fsel`, `gppud`, `pull` are the registers, `wire` what was sent. What the code does to them is a program of register writes and characters (`init`, `write`, `set_function`, ...), and `Do` carries out one of it |
| `Startup` | `boot.S`, `linker.ld:28-65`, `kernel.cpp:32-83`, `exception.cpp` | extends `Uart` and `Format`. One action per part of `_start`; then core 0 runs the program `todo`, in which a number or a format becomes its characters when it is reached, a pin of the card and a byte of the sector become one pass of their loops, and a driver call has an outcome and a text it prints (`Prints`); where the code writes over its own stack or program core 0 goes on or is lost (`Lost`); `Fault` and `SecondFault` at any step |
| `Mailbox` | `mailbox.cpp`, `mailbox.h:183-197` | `outbox` and `inbox` are the FIFOs, `code` the word of each message that the GPU overwrites. The caller's steps end at a wait (`send_message`, `PropertyReturns`, `CallAnswered`, `CallRetries`); `Gpu...` and `GpuSends` are the GPU's |
| `Console` | `buffer.cpp:40-90`, `gpu/buffer.h:40-46` | `screen` by rows of pixels and columns of characters; `PutNewline`, `PutChar` (each with the scroll before it), `clear`. `text` and `line` are history: the same text on paper without end. `screen` is what `pxl` addresses, row by row of the width (`gpu/buffer.h:34`): it is the picture when the GPU answers a pitch of 4 times the width, as it does for the 1024 pixels of `kernel_main` |
| `MCEmmcHost`, `MCBlockIo`, `MCSdClock`, `MCPartitions`, `MCPropertyCall`, `MCStartup` | | constants for TLC |
| `EmmcHostProofs`, `SdInitProofs`, `ClockProofs` (of `SdClock` and `SystemTimer`), `BlockIoProofs`, `PartitionsProofs`, `MailboxProofs` (of `Mailbox` and `PropertyCall`), `ConsoleProofs`, `StartupProofs` (of `Startup`, `Uart` and `Format`) | | theorems |

Operators whose names begin with `M_` are no part of a specification. Each is a
plausible bug in the definition that follows it, kept to see that the
properties of the runs notice it.

`SdInit` asks `SdClock` for a rate and is told whether it got it; `SdClock` takes
its base rate from a constant, and `PropertyCall` shows what
`get_base_clock_rate` makes of the answer behind it. `BlockIo` is composed with
`BlockDevice`, which `EmmcHost` implements.

The controller, the card, the timer, the pins and the GPU are not in the repository. They are
modelled from what the driver relies on and what its error paths are written
for, and are marked external in the map. Two choices deserve a word:

- An error may leave the command or the data line free or held
  (`LinesAfterError`); the SD host standard lets a controller do either until a
  reset, and the driver resets the command line once (after CMD8) and the data
  line never.
- Bit 15 of INTERRUPT (`ack_err` in `emmc.h:85`) is the OR of the error bits, as
  in the standard. It is not in `error_mask`, but it falls with them.

## Runs

| run | asks | instance |
|---|---|---|
| `EmmcHostSingle` | `ReadIntact`, `IssueOnFreeLine`, `StrandedForever`, refinement of `BlockDevice`, `CallReturns` | 2 blocks, 2 contents, 1-block transfers, 2 attempts, 2 polls, lines free or held after an error |
| `EmmcHostMulti` | `BlocksInOrder`: with more blocks than one, the blocks that a read which returned true has taken are those asked for, the first in its place and the others in order, each once | 3 blocks, 2 contents, transfers of up to 3 blocks, 2 attempts, 2 polls, lines freed by an error |
| `EmmcHostSwallowed` | finding: `ResponseIsOwn` | 1 block |
| `SdInit` | types, `Ready`, `Agreed`, `SizeShown`, `Clocked`, `InitReturns` | every card and host version, both configurations, up to 2 polls of power up and 2 damaged commands; 3 sizes, the largest among them, in both forms of the register, blocks of 512 to 2048 bytes |
| `SdClock` | `FieldInMask`, `SlowEnough`, `DividerWhileOff` | the five rates of `sd.h`, eleven base clocks, 0 among them, words of 16 bits |
| `SdClockTooFast` | finding: `NotAboveRate` | the same |
| `SystemTimer` | `NotTorn`, `Monotonic` | halves of 4 values, 4 wraps |
| `BlockIo` | types, `AlignedRead`, `AlignedWrite`, `WritesInside`, all of calls of less than two sectors | 2 sectors of 2 bytes, every address up to the first behind the card, sizes up to 3 bytes |
| `Partitions` | `TableOfMbr`, `InStep`, `OwnSectors` (of a copy of a device of the list, taken since the last scan began, at offsets inside the partition and addresses below the bound of a word) | records of 2 entries out of 5, 3 places in the lists, sectors of 2 bytes, words of 8 values |
| `Mailbox` | `MissedByForeign`, `NeverStuck`, `Answered`, `LateWrites`, `CallReturns`; `TagsAreAnswers` with `EndTagInside`, `RateIsAnswered` | specification `PropSpec` of `PropertyCall`: 2 addresses, with the message of the framebuffer or of the board at one and that of the clock at the other, FIFOs of 2, 2 rounds of `call`, 2 foreign messages, padding of 0 or not |
| `Console` | `ShowsText`, `ShowsTheEnd` | 2 columns, 5 rows of pixels, characters of 2, 2 characters, 5 lines |
| `Startup` | types, `Loaded`, `OnWhenReady`, `PinsApart`, `WireIsText`, `OverrunOnlyFull`, `Finishes` with `Reported` | 2 cores, 3 machines: started at EL1, EL2 or EL3 with the UART off or running, data or bss of 2 words or none; a FIFO of 2 characters, words of 4 hexadecimal digits, drivers that print one line, before and after a restart of `init`, one size of card or none, one of 2 exceptions anywhere and a second one in the report |

The type invariants of `EmmcHost`, `SdClock`, `SystemTimer` (`TimerTypeOK`),
`Partitions`, `Mailbox` and `Console`, and `RestIsBlack`, are in no run: they are
proved for every value of the constants (below). Those of `SdInit`, `BlockIo` and
`Startup` are both checked and proved.

Why the bounds are enough. The retry loop needs a first and a last attempt, a
poll loop a poll that goes on and one that gives up: 2 each. Two contents and
two blocks tell apart a block that is old, wrong or right. A stale bit needs one
transfer before the current one, and calls follow each other without bound. In
`SdInit` nothing but `faults` and `polls` is bounded. Sectors of two bytes have
a byte inside the transfer and one beside it. `SystemTimer` lets the upper half
move up to four times in one call, and the proof covers any number.
`MCPartitions` has unused entries of both kinds, neighbours, and partitions that
end beyond the largest sector or whose end wraps. Two foreign messages come between
a request and its answer, before it or after the call, and the proofs of
`MailboxProofs` hold for any number; with one more than fill both FIFOs the ARM,
waiting for room, and the GPU, waiting for room, wait for ever, which is why
`NeverStuck` states the limit. Five rows of pixels are two rows of characters and half of one, and
five lines scroll the screen three times.
Three blocks in a transfer let
one be missing in the middle with another after it. In `Startup` a FIFO of two
makes the kernel wait between any two characters. A machine has no bss, no
data, or neither, for the loops that store first; one of the exceptions has a
register with all its digits, the only length for which the local of
`write_number` is too short, and so has an upper half that is not 0.
`MCSdClock` also evaluates, as an assumption, that `find_lowest_set_bit` finds
the highest bit (no higher than 7) of every 16-bit number; the proof covers the
bytes, which is what the properties need.

Deadlock is checked but in three places: `EmmcHostSingle`, where the driver may
stay in the loop of `emmc.cpp:47` for good, the run of `SdInit`, where
`init` returns once, and `Startup`, which ends in a loop of `wfe`.

Fairness. `EmmcHost`: the driver is a thread of control that nothing
preempts, so it keeps taking steps (`WF_vars(Driver)`), and the controller ends
every command, with an answer or an error, since it has a command timeout of its
own (`WF_vars(Answer)`). Nothing is assumed of data, of the reset or of callers.
`Mailbox`: the caller goes on when its wait ends (`WF_vars(Caller)`), and the
firmware serves requests (`WF_vars(Gpu)`); no call and no foreign message has to come.
`PropertyCall` assumes the same of its steps.
`Startup`: core 0 goes on (`WF_vars(Core0)`), and the transmitter sends what it has
while it is on (`WF_vars(Sends)`); no exception has to come.
`SdInit`: the sequence goes on (`WF_vars(Next)`); a card powers up after finitely
many polls. No property needs fairness of a fault.

## Findings

- `EmmcHostSwallowed`: `wait_for_interrupt` clears the error bits before it reads
  them (`emmc.cpp:161-164`), so a command that failed returns true with an old
  answer. `ReadIntact`, `Ready` and the refinement hold all the same, because
  the data of a failed command does not come.
- `SdClockTooFast`: for 400 kHz from 200 MHz the divisor is 500 and its upper
  bits are lost (`sd.cpp:398-403`): 409.8 kHz; from 204.8 MHz (512) the
  divider is 0 and the card gets the base clock.

Seen while modelling, without a run of their own:

- on a host before v3 the divider is a power of 2 of 256 at most
  (`sd.cpp:340-356`): the 400 kHz of the identification become 781 kHz from 200 MHz,
  against the comment of line 391. `SlowEnough` says what is left: up to a ratio of
  256 the clock is above the rate by less than one part in the divider;
- `exc_handler` writes the upper half of a register and then the register, not its
  lower half (`exception.cpp:57-58`), so that one above 32 bits is reported with its
  upper half twice; `WireIsText` has it as it is printed (`Shown`);
- a write that ends inside a sector writes what the stack held behind its data
  (`device/emmc.cpp:41-44`): the comment of line 22 promises a buffer for
  unaligned writes, and nothing reads the sector first;
- a retry of `transfer_block` does not wait for the data line (`emmc.cpp:209`), and
  the ready bit of a block is not cleared before the next one is waited for
  (`emmc.cpp:124-125`): from the second block on the driver may read an empty FIFO, and
  the blocks after it are then in a later place than theirs. `BlocksInOrder` holds
  all the same, and nothing in the kernel reads more than one block;
- every version 1 card is given up at `sd.cpp:64`, against the comments of lines
  53 and 58; a lost ACMD6 leaves host and card on different bus widths
  (`sd.cpp:190`); after CMD11 the card signals at 1.8 V and nobody tells the
  controller (`sd.cpp:235-250`); one damaged answer to the ACMD41 that found the
  card ready keeps `init` in the loop of lines 79-89 for good, since the card
  then ignores further ones;
- a read inside a sector returns the bytes at its start (`device/emmc.cpp:30`),
  and an address above 4 GiB is cut to 32 bits (line 28), also for cards
  addressed by sector;
- a card that refuses the access mode is clocked as if it had taken it
  (`sd.cpp:311`); cards with blocks of 1024 bytes show half their size (line 199),
  and the largest `C_SIZE` shows none (line 227);
- nothing keeps an offset inside its partition (`partition.h:25`), the end of a
  partition may wrap to before its start (`mbr_parser.cpp:49`), and with an empty
  table `primary()` returns a device that was never set, or one of the scan
  before (`disk.h:39`);
- `call_property` takes any message for its answer (`mailbox.h:196`): with one
  foreign message the caller reads a message the GPU has not written and leaves,
  and the GPU later writes into its stack frame. `call` copes with it, and nothing
  the kernel uses calls it;
- `allocate_framebuffer` ignores its parameters and looks at no code, so that a
  refused allocation makes a framebuffer at address 4096 (`buffer.cpp:14-32`), and
  `clear` writes 3 MB from there on, over the kernel at `0x80000`; three bytes
  of `request_clock_rate` are never set (`mailbox.h:91`), and `BaseRate` is 0 or right
  only because the GPU knows no such clock; a message of one `set_clock_rate` tag
  would have no room for the end tag (`mailbox.h:127`), but no one sends it;
  `gencmd_request` states 1024 bytes and has 1028 (`board.h:51-56`);
- `write_number` overruns its local for a register of 16 digits (`uart1.cpp:50`);
- the console takes the width for the pitch (`gpu/buffer.h:34`): with any other pitch
  the picture would be skewed;
- an exception before `uart::init` is never seen (the wait of `uart1.cpp:36` does not
  end), one at EL1 when the firmware starts there finds no vectors
  (`boot.S:36-37`), and one inside `exc_handler` finds no entry in the table, which
  has only those for `SP_EL0` (`boot.S:57`, `92-127`);
- both loops of `boot.S:71-82` store a word behind an empty section; `.bss` after
  `.data`, and cleared after it, makes that harmless but for the word behind
  `__bss_end__`;
- `{{` in a format writes one brace and then takes the second for a placeholder
  (`format.h:63-68`), and `format_impl` writes no end when it has run out of
  placeholders; no format of the kernel does either.

## Proofs

TLAPS checks every theorem; the constants are arbitrary under the named
assumption of each module.

- `EmmcHostProofs`. `TypeCorrect`, then `Invariant`: `IInv`, which is `FirstInv`
  (of the first block, in nine parts), `PlaceInv`, `OrderInv` and `BlocksInOrder`. `ReadIntact` is not inductive: that the buffer holds the block
  asked for needs that the FIFO does when a ready bit is seen (`FifoInv`,
  `FreshInv`), that the bit is of this transfer (the clear of line 59 leaves only
  bits that rose after it was read, and by then the data line was free), and
  that a transfer under way is the caller's (`OwnXfer`), also in a retry.
  `ErrorInv` says why a retry finds no transfer it could mistake: a data error
  that is seen has ended it. The first block decides about the others: past it the
  ready bits say nothing, but a read under way stands as many blocks past the first as
  were taken (`PlaceInv`), so that the next one taken is the next of the card
  (`OrderInv`). From `IInv`: `ReadsAreIntact`, `BlocksAreInOrder`, `CommandsOnFreeLine`, `StrandedStays`, and `Refinement` (`MaxNum = 1` is its
  hypothesis: with more blocks the code does not implement the device).
- `SdInitProofs`. The inductive invariant ties each step of the sequence to what
  the card knows by then: its state, the address the driver has of it, the width
  and the mode both sides use, each with how often a command was damaged. From
  it `TypeCorrect`, `ReadyWhenTrue`, `AgreedWhenTrue`, `SizeIsShown` (with the
  arithmetic of `csize` over every value of its bytes) and `ClockedInTime`, for
  any number of polls and damaged commands.
- `ClockProofs`, part 1. `TypeCorrect`, with the polls of each loop below its limit,
  `DividerInMask`, `DividerWrittenWhileOff` and `ClockIsSlowEnough`, for every base
  clock and rate, with `WordBits = 32` where the width matters. For the hosts before v3
  the last needs that `find_lowest_set_bit` finds the highest bit of a byte, which is
  followed through the five halvings of the word.
- `ClockProofs`, part 2. `TimerTypeCorrect`, `ReadsAreNotTorn` and `TimeIsMonotonic`: the
  second pair of reads is not checked again, and need not be: once the upper half
  is past the one at the start of the call, any lower half gives a time in the call.
- `BlockIoProofs`. The invariant says which bytes of the caller, of `overflow` and
  of the card are already the ones of the address, at each of the two transfers.
  All of it is of calls of less than two sectors (`Calls`): those of more send a
  multiple block command, which is never stopped.
  `ReadsAligned` and `WritesAligned` speak of addresses below `Word`, and
  `WritesStayInside` of devices whose addresses all are (`MaxAddress < Word`, as
  in the run): line 28 of `device/emmc.cpp` cuts the address to 32 bits before
  line 30 divides it, and beyond 4 GiB none of the three holds.
- `PartitionsProofs`. `IInv` adds to the four invariants what each list holds
  part way through its loop (the devices made so far are those of the table) and
  that a fresh handle is one of the list. `OwnSectors` needs that a product of
  sectors and their size, plus less than a size, divides back to the sector. It
  speaks of copies taken since the last scan began and of addresses below `Word`; an
  older copy, an offset outside or an address from 4 GiB on reads elsewhere
  (hazards 21, 25, 26 and 28).
- `MailboxProofs`. What decides everything is how many messages are where: as
  long as no caller went without its answer, the caller's request is in exactly
  one place, and there is nothing else of a caller's (`OwnInv`); and always, no more
  messages are on their way than foreign ones have come, and one more while the
  caller waits for its answer (`Backlog`).
  `AnswersAreThere` and `LateWritesAreFew` do not ask whether a caller has gone
  without its answer: they say when that may happen, that its request is then the last
  the GPU has to write, and that the late writes which follow are never more than the
  foreign messages. `Backlog` alone gives the number; which message is the last needs
  that the request of a waiting caller is behind all others (`OwnIsLast`). What is
  said of the tags (`TagsAgree`) holds until a caller has gone on without its answer.
  `ImplementsMailbox`: every step of `PropertyCall` is one of `Mailbox` or leaves it
  alone, so that all of this holds of the calls with their messages. `TagsAgree` and
  `RateIsTrue` need in addition that what the GPU has answered of a message is what
  lies before the place where it stands, and that a message which is not on its way
  is answered to the end or not at all (`Carried`). That the constructor, the GPU
  and `get_tag` find the same offsets is proved for every list of tags the messages may
  have, by induction over a set of numbers (the offsets are a fold).
- `ConsoleProofs`. To `ShowsText` and `RestIsBlack` the inductive invariant adds
  that nothing is put beyond the cursor, that a cursor below the screen is at the
  start of a line, and that the screen is full once it has scrolled. The step
  that matters is the scroll of a screen with rows of pixels below the last row of
  characters: they become part of the last row, and must be black.

- `StartupProofs`, in six parts.
  1. `Where` and `Memory`: where core 0 is, at which level, and that the words below
     `x1` are loaded whichever loop is running. `KernelStartsLoaded` follows for
     sections of any size.
  2. The functions of `Format`. `digits`, `stou` and `format` are recursive functions,
     of which nothing follows until they are shown to exist; each is, by induction over
     a set of numbers (`Induction`, from the well-foundedness of `<`), and what it
     returns is shown to be a text: `ItosIsText`, `StouIsNat`, `FormatIsText` (for
     every format in which a colon is followed by its brace). `DigitsAreFew`: a number
     with more than `k` digits is at least `16^k`.
  3. The programs. `Program` says what `todo` may be: in `kernel_main` what is left of
     `init` after `n` of its 16 operations, with what these have set (`Done(n)`), then
     operations of which none touches the UART's registers or its pins, and which clock
     a pin of the card only right after asking for a pull up (`Later`); in the handler
     characters and numbers of the fault's registers. Neither `OnWhenReady` nor
     `PinsApart` is inductive without it: what a write does depends on those before it.
  4. `Lines` and `Excess`: every write of such a program is `Safe`. From these
     `SwitchedOnWhenReady`, `PinsStayApart` (that replacing one field of a function
     register leaves the other nine, for every pin), `OverrunIsFull` and `TypeCorrect`,
     for any number of cores, every machine the firmware may leave, every size and
     sector, and words of any length.
  5. What the formats say. `ItosIsNumeral`: `itos`, which divides digit by digit,
     returns the numeral of the value, which `Numeral` takes from the weights of the
     places, for every width of a byte; by induction over the digits, with `NestedQuotient` (dividing by the base
     again and again is dividing by a weight) and `Needs` (how many places a value
     needs). `ReportMeans`: a register below 2^32 is its numeral in all digits, since
     the zeros of its upper half are the first of them (`LowRegister`); any other has its
     upper half twice (`Shown`). `SizeTextIs` and `ByteTextIs` carry `format` out over the two formats of
     `kernel_main`.
  6. `WireCarriesText`. A program has a meaning, the text it still has to say
     (`Meant`): a character with its carriage return, a number or a format its text, a
     byte its row, and the call for the card the text of its failure until the card is
     known. The invariant `Spoken` says that what went into the FIFO since the kernel
     runs (`Said`), followed by `Meant(todo)`, is the whole text (`Ahead`); in the
     handler it is a beginning of the kernel's text and then the report (`Reports`).
     An expansion (`WriteNumber`, `WriteFormat`, `DumpByte`, `SetUpPin`) leaves the
     meaning as it is, a `put` moves one character from it to the FIFO, and the
     transmitter moves one from the FIFO to the wire. Two facts make it
     inductive: only `uart::init` empties the FIFO, before anything of the kernel's
     is in it (`Position` of part 3), and a call that decides what is said is the last of the
     program (`Undecided`), so that nothing is said yet that depends on it. What the
     drivers print is of any length and any number of lines (`Prints`), through both
     passes of `init`. Nothing is claimed once core 0 is lost: after a second exception,
     or where it may have gone astray over what the code wrote over (the local of
     `write_number`, the framebuffer at 4096, a partition that is not there).

Only model-checked: liveness (`CallReturns` of both modules, `InitReturns`,
`Reported`, `Finishes`), which is out of the prover's reach, and what
`find_lowest_set_bit` computes of more than a byte. `CallReturns` of `Mailbox` is liveness, so only
`NeverStuck` is proved. Every safety property of a passing run is a theorem.

## Plan

Done: the storage stack from the bus up to partitions, the clock, the timer, the
mailbox and its messages, the console, and the way from the reset to the end of
`kernel_main`; and proofs of every safety property the runs check. Left:
`BlockIo` over partitions, bytes through a `partition_dev`, is the composition that
is still missing; `OwnSectors` says what it would need of the addresses.

## Not modelled

The wording of messages beyond the texts of `Startup`: what a driver prints during
a call is a sequence of messages and line ends, any one of `Prints`. The loop of
`sd.cpp:79` may never end and print for ever; what is on the wire at any time is then
that of a finite print. The names of exception classes;
transfers of two sectors and more through `device/emmc.cpp`; between its accesses,
the words of a block: a block is taken from the FIFO, or put there, in one step
(`emmc.cpp:124-134`); the blocks of a register (`switch_func`, `send_scr`) as data: they are
commands of `SdInit` with an outcome;
`uart::read`, `gpio::pull_down`, `gpio::enable_interrupt` (nothing calls them);
`slab.h`, `bitset.h`, `init.h`, `uart0.h` (nothing uses them); compile-time
templates; the busy waits of the timer, which only pass time; the ioctl calls
that copy an array of bytes out; `tell` and `seek`, which keep a position that
nothing moves; interrupts (the kernel never enables them).
