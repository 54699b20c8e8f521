------------------------------ MODULE EmmcHost ------------------------------
(***************************************************************************)
(* The EMMC host driver (src/src/kernel/peripheral/emmc.cpp) against the   *)
(* SD host controller it drives.  The driver is one thread of control that *)
(* polls; the controller changes the INTERRUPT register, the two inhibit   *)
(* bits of STATUS and its FIFO between any two register accesses.          *)
(*                                                                         *)
(* Every bus access of the driver that the controller can race with is a   *)
(* step of its own; pc names the access that comes next.  The controller   *)
(* and the card behind it are not under src/: they do what the driver      *)
(* relies on (a command is answered or fails, a block is offered, a block  *)
(* is programmed) and what its error paths are written for.                *)
(***************************************************************************)
EXTENDS Naturals, FiniteSets

CONSTANTS
    MaxLba,           \* the card holds the blocks 0..MaxLba
    Data,             \* block contents
    NoBlock,          \* the contents of an empty FIFO or an unwritten buffer
    MaxNum,           \* the largest num a caller of transfer_block passes
    Attempts,         \* send_command calls of transfer_block (4, line 209)
    InhibitLimit,     \* polls of dat_inhibit and of srst_cmd (10000)
    PollLimit,        \* polls of wait_for_interrupt (100000)
    LinesAfterError   \* what an error leaves of a line: "free" or "stuck"

ASSUME EmmcHostAssumption ==
    /\ MaxLba \in Nat
    /\ MaxNum \in Nat \ {0}
    /\ Attempts \in Nat \ {0}
    /\ InhibitLimit \in Nat \ {0}
    /\ PollLimit \in Nat \ {0}
    /\ LinesAfterError \subseteq {"free", "stuck"}
    /\ LinesAfterError # {}
    /\ NoBlock \notin Data

Lba == 0 .. MaxLba

-----------------------------------------------------------------------------
(* The bits of the INTERRUPT register that the driver tests.  cmd_timeout  *)
(* stands for the command errors and data_timeout for the data errors of   *)
(* interrupt::error_mask: the code treats each group alike.                *)

ErrorBits == {"cmd_timeout", "data_timeout"}
IntBits   == {"cmd_done", "read_ready", "write_ready"} \cup ErrorBits

(* reg::interrupt::is_error().  It also tests bit 15 (ack_err), which the  *)
(* SD host controller standard makes the OR of the error bits: it adds     *)
(* nothing to them, and goes when they are cleared.                        *)
is_error(ints) == ints \cap ErrorBits # {}

(* The local all_mask of wait_for_interrupt.                               *)
all_mask(mask) == {mask} \cup ErrorBits

-----------------------------------------------------------------------------
VARIABLES
    \* the driver
    pc,            \* the next bus access, "idle" between two calls
    call,          \* the call in progress, or the last one
    result,        \* "busy", what the call returned, or "none" at first
    tries,         \* the i of transfer_block's loop
    tout,          \* the local tout of the loop being run
    mask,          \* the mask wait_for_interrupt was called with
    blk,           \* the block do_data_transfer is at, from 1
    seen,          \* INTERRUPT as line 59 read it
    buf,           \* the caller's buffer, one entry a block
    response,      \* whose answer response[] holds: "zero", "own" or "old"
    last_timeout,  \* emmc::device::last_timeout
    last_error,    \* emmc::device::last_error
    \* the controller and the card
    intr,          \* the INTERRUPT register
    cmdLine,       \* "free", "busy" or "stuck": cmd_inhibit is # "free"
    xfer,          \* the data transfer in progress: dat_inhibit is # NoXfer
    fifo,          \* the block in the FIFO
    resp,          \* the RESP registers, as response
    srst_cmd,      \* the command reset bit of CONTROL1
    card           \* the blocks of the card

driverVars     == <<pc, call, result, tries, tout, mask, blk, seen, buf,
                    response, last_timeout, last_error>>
controllerVars == <<intr, cmdLine, xfer, fifo, resp, srst_cmd, card>>
vars           == <<driverVars, controllerVars>>

(* One call of the driver's interface.  "command" is send_command of a     *)
(* command with a response and no data, "bare" of one without a response,  *)
(* "app" is send_app_command once the card has an address (rca # 0).  The  *)
(* reads of a register as one block (switch_func, send_scr) are calls of   *)
(* SdInit.                                                                 *)
TransferKinds == {"read", "write"}
OtherKinds    == {"command", "bare", "app", "reset"}

Call(k, l, n, d) == [kind |-> k, lba |-> l, num |-> n, data |-> d]
OtherCall(k)     == Call(k, 0, 0, NoBlock)

ReadCalls  == [kind : {"read"}, lba : Lba, num : 1 .. MaxNum, data : {NoBlock}]
WriteCalls == [kind : {"write"}, lba : Lba, num : 1 .. MaxNum, data : Data]
OtherCalls == [kind : OtherKinds, lba : {0}, num : {0}, data : {NoBlock}]

isdata == call.kind \in TransferKinds
size   == IF call.num = 1 THEN "single" ELSE "multiple"

(* The stages of a data transfer: the command line has it ("claimed"), the *)
(* card moves data ("moving"), a block waits to be read ("full") or asked  *)
(* of the host ("ask"), the host took a block ("drained") or gave one      *)
(* ("staged"), or an error left the line held ("stuck").                   *)
Stages == {"none", "claimed", "moving", "full", "drained", "ask", "staged",
           "stuck"}
NoXfer == [stage |-> "none", op |-> "read", lba |-> 0, size |-> "single"]
XferType == [stage : Stages, op : TransferKinds, lba : Nat,
             size : {"single", "multiple"}]

dat_inhibit == xfer.stage # "none"
cmd_inhibit == cmdLine # "free"

Pcs == {"idle", "dat_wait", "cmd_wait", "clear_read", "clear_write", "issue",
        "poll", "ack", "check", "respond", "xfer", "reset"}

TypeOK ==
    /\ pc \in Pcs
    /\ call \in ReadCalls \cup WriteCalls \cup OtherCalls
    /\ result \in {"none", "busy", "ok", "fail"}
    /\ tries \in 0 .. Attempts - 1
    /\ tout \in Nat
    /\ mask \in {"cmd_done", "read_ready", "write_ready"}
    /\ blk \in 1 .. MaxNum
    /\ seen \in SUBSET IntBits
    /\ buf \in [1 .. MaxNum -> Data \cup {NoBlock}]
    /\ response \in {"zero", "own", "old"}
    /\ last_timeout \in BOOLEAN
    /\ last_error \in SUBSET IntBits
    /\ intr \in SUBSET IntBits
    /\ cmdLine \in {"free", "busy", "stuck"}
    /\ xfer \in XferType
    /\ fifo \in Data \cup {NoBlock}
    /\ xfer.stage \in {"full", "staged"} => fifo \in Data
    /\ resp \in {"zero", "own", "old"}
    /\ srst_cmd \in BOOLEAN
    /\ card \in [Lba -> Data]

Init ==
    /\ pc = "idle"
    /\ call = OtherCall("reset")
    /\ result = "none"
    /\ tries = 0
    /\ tout = 0
    /\ mask = "cmd_done"
    /\ blk = 1
    /\ seen = {}
    /\ buf = [b \in 1 .. MaxNum |-> NoBlock]
    /\ response = "zero"
    /\ last_timeout = FALSE
    /\ last_error = {}
    /\ intr = {}
    /\ cmdLine = "free"
    /\ xfer = NoXfer
    /\ fifo = NoBlock
    /\ resp = "zero"
    /\ srst_cmd = FALSE
    /\ card \in [Lba -> Data]

-----------------------------------------------------------------------------
(* The driver.                                                             *)

Return(r) ==
    /\ pc' = "idle"
    /\ result' = r
    /\ tries' = 0
    /\ tout' = 0
    /\ blk' = 1

(* The entry of wait_for_interrupt(m): lines 145-148.                      *)
Await(m) ==
    /\ pc' = "poll"
    /\ mask' = m
    /\ tout' = 0
    /\ last_timeout' = FALSE
    /\ last_error' = {}

(* send_command returned false: transfer_block tries again (209-213) with  *)
(* no look at the data line, every other caller returns false at once.     *)
M_RetryGoesOn ==
    \/ /\ isdata /\ tries + 1 < Attempts
       /\ pc' = "cmd_wait"
       /\ tries' = tries + 1
       /\ tout' = 0
       /\ UNCHANGED <<result, blk>>
    \/ /\ ~(isdata /\ tries + 1 < Attempts)
       /\ Return("fail")

CommandFailed ==
    \/ /\ isdata /\ tries + 1 < Attempts
       /\ pc' = "cmd_wait"
       /\ tries' = tries + 1
       /\ tout' = 0
       /\ blk' = 1
       /\ UNCHANGED result
    \/ /\ ~(isdata /\ tries + 1 < Attempts)
       /\ Return("fail")

Begin(c) ==
    /\ pc = "idle"
    /\ call' = c
    /\ result' = "busy"
    /\ buf' = [b \in 1 .. MaxNum |-> NoBlock]
    /\ UNCHANGED <<tries, tout, mask, blk, seen, response, last_timeout,
                   last_error, intr, cmdLine, xfer, fifo, resp, card>>

(* transfer_block(lba, buf, num, write) of blocks the card has.            *)
CallTransfer ==
    \E l \in Lba, n \in 1 .. MaxNum, d \in Data :
        /\ l + n - 1 <= MaxLba
        /\ \/ Begin(Call("read", l, n, NoBlock))
           \/ Begin(Call("write", l, n, d))
        /\ pc' = "dat_wait"
        /\ UNCHANGED srst_cmd

(* send_command of a command without data, and send_app_command.           *)
CallCommand ==
    /\ \E k \in {"command", "bare", "app"} : Begin(OtherCall(k))
    /\ pc' = "cmd_wait"
    /\ UNCHANGED srst_cmd

(* reset_command, up to the write of CONTROL1 (line 107).                  *)
CallReset ==
    /\ Begin(OtherCall("reset"))
    /\ pc' = "reset"
    /\ srst_cmd' = TRUE

(* A poll of transfer_block's wait for the data line, lines 176-188.       *)
M_DatWaitUnchecked ==
    /\ pc = "dat_wait"
    /\ pc' = "cmd_wait"
    /\ tout' = 0
    /\ UNCHANGED <<call, result, tries, mask, blk, seen, buf, response,
                   last_timeout, last_error, controllerVars>>

DatWait ==
    /\ pc = "dat_wait"
    /\ \/ /\ ~dat_inhibit
          /\ pc' = "cmd_wait"
          /\ tout' = 0
          /\ UNCHANGED <<result, tries, blk>>
       \/ /\ dat_inhibit /\ tout + 1 < InhibitLimit
          /\ tout' = tout + 1
          /\ UNCHANGED <<pc, result, tries, blk>>
       \/ /\ dat_inhibit /\ tout + 1 >= InhibitLimit
          /\ Return("fail")
    /\ UNCHANGED <<call, mask, seen, buf, response, last_timeout, last_error,
                   controllerVars>>

(* The loop of line 47 ends.  It has no bound: while cmd_inhibit is set    *)
(* the driver stays here.                                                  *)
M_CmdWaitUnchecked ==
    /\ pc = "cmd_wait"
    /\ pc' = "clear_read"
    /\ UNCHANGED <<call, result, tries, tout, mask, blk, seen, buf, response,
                   last_timeout, last_error, controllerVars>>

CmdWait ==
    /\ pc = "cmd_wait"
    /\ ~cmd_inhibit
    /\ pc' = "clear_read"
    /\ UNCHANGED <<call, result, tries, tout, mask, blk, seen, buf, response,
                   last_timeout, last_error, controllerVars>>

(* Line 59, the read of "interrupt = interrupt".                           *)
ClearRead ==
    /\ pc = "clear_read"
    /\ seen' = intr
    /\ pc' = "clear_write"
    /\ UNCHANGED <<call, result, tries, tout, mask, blk, buf, response,
                   last_timeout, last_error, controllerVars>>

(* Line 59, the write: the bits read are cleared, later ones are not.      *)
M_ClearNothing ==
    /\ pc = "clear_write"
    /\ pc' = "issue"
    /\ seen' = {}
    /\ UNCHANGED <<call, result, tries, tout, mask, blk, buf, response,
                   last_timeout, last_error, controllerVars>>

ClearWrite ==
    /\ pc = "clear_write"
    /\ intr' = intr \ seen
    /\ seen' = {}
    /\ pc' = "issue"
    /\ UNCHANGED <<call, result, tries, tout, mask, blk, buf, response,
                   last_timeout, last_error, cmdLine, xfer, fifo, resp,
                   srst_cmd, card>>

(* Lines 60-66: the write of CMDTM.  The controller does not start a data  *)
(* command while the data line is inhibited.                               *)
Stale(r) == IF r = "own" THEN "old" ELSE r

Issue ==
    /\ pc = "issue"
    /\ Await("cmd_done")
    /\ response' = Stale(response)
    /\ resp' = Stale(resp)
    /\ \/ /\ isdata /\ dat_inhibit
          /\ UNCHANGED <<cmdLine, xfer>>
       \/ /\ isdata /\ ~dat_inhibit
          /\ cmdLine' = "busy"
          /\ xfer' = [stage |-> "claimed", op |-> call.kind, lba |-> call.lba,
                      size |-> size]
       \/ /\ ~isdata
          /\ cmdLine' = "busy"
          /\ UNCHANGED xfer
    /\ UNCHANGED <<call, result, tries, blk, seen, buf, intr, fifo, srst_cmd,
                   card>>

(* A poll of wait_for_interrupt, lines 149-159.                            *)
M_PollForever ==
    /\ pc = "poll"
    /\ intr \cap all_mask(mask) # {}
    /\ pc' = IF mask = "cmd_done" THEN "ack" ELSE "check"
    /\ UNCHANGED <<call, result, tries, tout, mask, blk, seen, buf, response,
                   last_timeout, last_error, controllerVars>>

Poll ==
    /\ pc = "poll"
    /\ \/ /\ intr \cap all_mask(mask) # {}
          /\ pc' = IF mask = "cmd_done" THEN "ack" ELSE "check"
          /\ UNCHANGED <<result, tries, tout, blk, last_timeout>>
       \/ /\ intr \cap all_mask(mask) = {} /\ tout + 1 < PollLimit
          /\ tout' = tout + 1
          /\ UNCHANGED <<pc, result, tries, blk, last_timeout>>
       \/ /\ intr \cap all_mask(mask) = {} /\ tout + 1 >= PollLimit
          /\ last_timeout' = TRUE
          /\ CommandFailed
    /\ UNCHANGED <<call, mask, seen, buf, response, last_error,
                   controllerVars>>

(* Lines 161-162, only when the caller left clear at true (cmd_done).      *)
Ack ==
    /\ pc = "ack"
    /\ intr' = intr \ all_mask(mask)
    /\ pc' = "check"
    /\ UNCHANGED <<call, result, tries, tout, mask, blk, seen, buf, response,
                   last_timeout, last_error, cmdLine, xfer, fifo, resp,
                   srst_cmd, card>>

(* Lines 164-172: INTERRUPT is read again, and the error bits cleared.     *)
Check ==
    /\ pc = "check"
    /\ \/ /\ is_error(intr)
          /\ last_error' = intr
          /\ intr' = intr \ all_mask(mask)
          /\ CommandFailed
       \/ /\ ~is_error(intr)
          /\ pc' = IF mask = "cmd_done" THEN "respond" ELSE "xfer"
          /\ UNCHANGED <<result, tries, tout, blk, last_error, intr>>
    /\ UNCHANGED <<call, mask, seen, buf, response, last_timeout, cmdLine,
                   xfer, fifo, resp, srst_cmd, card>>

(* Lines 70-89 after cmd_done, and lines 98-103 after CMD55.               *)
M_RespondNoTransfer ==
    /\ pc = "respond"
    /\ response' = resp
    /\ Return("ok")
    /\ UNCHANGED <<call, mask, seen, buf, last_timeout, last_error,
                   controllerVars>>

Respond ==
    /\ pc = "respond"
    /\ response' = IF call.kind = "bare" THEN response ELSE resp
    /\ \/ /\ isdata
          /\ Await(IF call.kind = "read" THEN "read_ready" ELSE "write_ready")
          /\ UNCHANGED <<call, result, tries, blk>>
       \/ /\ call.kind = "app" /\ response' # "zero"
          /\ call' = OtherCall("command")
          /\ pc' = "cmd_wait"
          /\ UNCHANGED <<result, tries, tout, mask, blk, last_timeout,
                         last_error>>
       \/ /\ ~isdata /\ ~(call.kind = "app" /\ response' # "zero")
          /\ Return(IF call.kind = "app" THEN "fail" ELSE "ok")
          /\ UNCHANGED <<call, mask, last_timeout, last_error>>
    /\ UNCHANGED <<seen, buf, controllerVars>>

(* One block of do_data_transfer, lines 129-141.  The driver does not look *)
(* whether the FIFO is ready: without a block it reads nothing of use, and *)
(* without room what it writes is lost.                                    *)
Xfer ==
    /\ pc = "xfer"
    /\ \/ /\ call.kind = "read"
          /\ buf' = [buf EXCEPT ![blk] = IF xfer.stage = "full" THEN fifo
                                                                ELSE NoBlock]
          /\ fifo' = IF xfer.stage = "full" THEN NoBlock ELSE fifo
          /\ xfer' = IF xfer.stage = "full"
                     THEN [xfer EXCEPT !.stage = "drained"] ELSE xfer
       \/ /\ call.kind = "write"
          /\ fifo' = IF xfer.stage = "ask" THEN call.data ELSE fifo
          /\ xfer' = IF xfer.stage = "ask"
                     THEN [xfer EXCEPT !.stage = "staged"] ELSE xfer
          /\ UNCHANGED buf
    /\ \/ /\ blk < call.num
          /\ blk' = blk + 1
          /\ Await(mask)
          /\ UNCHANGED <<result, tries>>
       \/ /\ blk >= call.num
          /\ Return("ok")
          /\ UNCHANGED <<mask, last_timeout, last_error>>
    /\ UNCHANGED <<call, seen, response, intr, cmdLine, resp, srst_cmd, card>>

(* A poll of reset_command, lines 108-116.                                 *)
ResetWait ==
    /\ pc = "reset"
    /\ \/ /\ ~srst_cmd
          /\ Return("ok")
       \/ /\ srst_cmd /\ tout + 1 < InhibitLimit
          /\ tout' = tout + 1
          /\ UNCHANGED <<pc, result, tries, blk>>
       \/ /\ srst_cmd /\ tout + 1 >= InhibitLimit
          /\ Return("fail")
    /\ UNCHANGED <<call, mask, seen, buf, response, last_timeout, last_error,
                   controllerVars>>

-----------------------------------------------------------------------------
(* The controller and the card (not under src/).                           *)

Stuck == [NoXfer EXCEPT !.stage = "stuck"]
Held(line) == IF line = "stuck" THEN Stuck ELSE NoXfer

(* The card answers: cmd_inhibit falls, cmd_done rises, data may follow.   *)
HwRespond ==
    /\ cmdLine = "busy"
    /\ cmdLine' = "free"
    /\ intr' = intr \cup {"cmd_done"}
    /\ resp' = IF call.kind = "bare" THEN resp ELSE "own"
    /\ xfer' = IF xfer.stage = "claimed"
               THEN [xfer EXCEPT !.stage = "moving"] ELSE xfer
    /\ UNCHANGED <<driverVars, fifo, srst_cmd, card>>

(* The card does not answer, or what it answers is damaged.                *)
HwCmdError ==
    /\ cmdLine = "busy"
    /\ intr' = intr \cup {"cmd_timeout"}
    /\ \E line \in LinesAfterError :
          /\ cmdLine' = line
          /\ xfer' = IF xfer.stage = "claimed" THEN Held(line) ELSE xfer
    /\ UNCHANGED <<driverVars, fifo, resp, srst_cmd, card>>

(* A block the card sent is in the FIFO.                                   *)
HwFill ==
    /\ xfer.stage = "moving" /\ xfer.op = "read" /\ xfer.lba \in Lba
    /\ fifo' = card[xfer.lba]
    /\ xfer' = [xfer EXCEPT !.stage = "full"]
    /\ intr' = intr \cup {"read_ready"}
    /\ UNCHANGED <<driverVars, cmdLine, resp, srst_cmd, card>>

(* The FIFO has room for a block.                                          *)
HwAsk ==
    /\ xfer.stage = "moving" /\ xfer.op = "write" /\ xfer.lba \in Lba
    /\ xfer' = [xfer EXCEPT !.stage = "ask"]
    /\ intr' = intr \cup {"write_ready"}
    /\ UNCHANGED <<driverVars, cmdLine, fifo, resp, srst_cmd, card>>

(* After a block: a multiple block command has no block count (blkcnt_en   *)
(* is off) and is never stopped (no CMD12), so it goes on.                 *)
NextBlock == IF xfer.size = "single" THEN NoXfer
             ELSE [stage |-> "moving", op |-> xfer.op, lba |-> xfer.lba + 1,
                   size |-> xfer.size]

HwDrained ==
    /\ xfer.stage = "drained"
    /\ xfer' = NextBlock
    /\ UNCHANGED <<driverVars, intr, cmdLine, fifo, resp, srst_cmd, card>>

HwProgram ==
    /\ xfer.stage = "staged"
    /\ card' = [card EXCEPT ![xfer.lba] = fifo]
    /\ fifo' = NoBlock
    /\ xfer' = NextBlock
    /\ UNCHANGED <<driverVars, intr, cmdLine, resp, srst_cmd>>

(* A block does not arrive, arrives damaged, or is not programmed.         *)
HwDataError ==
    /\ xfer.stage \in {"moving", "staged"}
    /\ intr' = intr \cup {"data_timeout"}
    /\ fifo' = NoBlock
    /\ \E line \in LinesAfterError : xfer' = Held(line)
    /\ UNCHANGED <<driverVars, cmdLine, resp, srst_cmd, card>>

(* The command circuit is reset: a command in flight is forgotten.         *)
HwReset ==
    /\ srst_cmd
    /\ srst_cmd' = FALSE
    /\ cmdLine' = "free"
    /\ intr' = intr \ {"cmd_done"}
    /\ xfer' = IF xfer.stage = "claimed" THEN Stuck ELSE xfer
    /\ UNCHANGED <<driverVars, fifo, resp, card>>

-----------------------------------------------------------------------------
Driver == \/ DatWait \/ CmdWait \/ ClearRead \/ ClearWrite \/ Issue \/ Poll
          \/ Ack \/ Check \/ Respond \/ Xfer \/ ResetWait
Answer == HwRespond \/ HwCmdError
Controller == \/ Answer \/ HwFill \/ HwAsk \/ HwDrained \/ HwProgram
              \/ HwDataError \/ HwReset
Caller == CallTransfer \/ CallCommand \/ CallReset

Next == Caller \/ Driver \/ Controller

Spec == Init /\ [][Next]_vars

(* The driver never blocks but in the loop of line 47, so it keeps taking  *)
(* steps; the controller answers every command or reports that the card    *)
(* did not (it has a command timeout of its own).  Nothing is assumed of   *)
(* the callers, of the data path or of the reset.                          *)
FairSpec == Spec /\ WF_vars(Driver) /\ WF_vars(Answer)

-----------------------------------------------------------------------------
(* Safety.                                                                 *)

(* A read that returned true gave its caller what the card holds at the    *)
(* block asked for, in the first block of the buffer: whatever was late,   *)
(* lost or retried before (emmc.cpp:124-140, 175-213), no answer to an     *)
(* earlier command, and no block of one, is taken for it.                  *)
ReadIntact ==
    (pc = "idle" /\ result = "ok" /\ call.kind = "read")
        => buf[1] = card[call.lba]

(* The blocks the driver has taken out of the FIFO, up to place n of the   *)
(* buffer.                                                                 *)
Taken(n) == Cardinality({b \in 1 .. n : buf[b] # NoBlock})

(* The ready bit of a block is not cleared before the next one is waited   *)
(* for (emmc.cpp:124-125), so that from the second block on the driver may *)
(* read an empty FIFO: a place of the buffer then has no block, and all    *)
(* later blocks are in a later place than theirs.  But the first is in its *)
(* place, and the ones that are there are those asked for, in the order of *)
(* the card and each once, also after a retry in the middle of a transfer  *)
(* (emmc.cpp:119-142, 209).                                                *)
BlocksInOrder ==
    (pc = "idle" /\ result = "ok" /\ call.kind = "read") =>
        /\ buf[1] # NoBlock
        /\ \A b \in 1 .. call.num :
              buf[b] # NoBlock => buf[b] = card[call.lba + Taken(b) - 1]

(* A send_command that returned true left the answer to its own command in *)
(* response[] (emmc.cpp:66-83), not one of an earlier command.             *)
ResponseIsOwn ==
    (pc = "idle" /\ result = "ok" /\ call.kind \in {"command", "read", "write"})
        => response = "own"

(* CMDTM is never written while the command line is inhibited              *)
(* (emmc.cpp:46-61), although the inhibit bit was read three accesses ago. *)
IssueOnFreeLine == (pc \in {"clear_read", "clear_write", "issue"}) => ~cmd_inhibit

(* A block nobody will come for: the FIFO waits for a host that has given  *)
(* the transfer up, or an error left the line held.                        *)
Stranded ==
    /\ xfer.stage \in {"full", "ask", "stuck"}
    /\ pc \in {"idle", "dat_wait"} \/ ~isdata

(* Nothing in the driver resets the data line (srst_data, emmc.h:124, is   *)
(* never used): a stranded transfer stays, and every transfer_block after  *)
(* it returns false (emmc.cpp:185-188).                                    *)
StrandedForever == [][Stranded =>
                        /\ Stranded'
                        /\ xfer' = xfer
                        /\ (isdata /\ pc # "idle" /\ pc' = "idle")
                             => result' = "fail"]_vars

-----------------------------------------------------------------------------
(* Why these hold: the parts of an inductive invariant.                    *)

(* The driver is between the wait for the data line and the return.        *)
InAttempt == isdata /\ pc \notin {"idle", "dat_wait", "reset"}
Issued    == pc \in {"poll", "ack", "check", "respond", "xfer"}
Active    == xfer.stage \notin {"none", "stuck"}

(* The FIFO of a full stage holds the block the transfer is at, and only   *)
(* a write is asked for blocks.                                            *)
FifoInv ==
    /\ xfer.stage = "full" => /\ xfer.op = "read" /\ xfer.lba \in Lba
                              /\ fifo = card[xfer.lba]
    /\ xfer.stage = "drained" => xfer.op = "read"
    /\ xfer.stage \in {"ask", "staged"} => xfer.op = "write" /\ xfer.lba \in Lba

(* A transfer under way is the caller's own; and until the caller has had  *)
(* a block, also after a retry, it is at the caller's first block.         *)
OwnXfer ==
    /\ InAttempt /\ Active => xfer.op = call.kind
    /\ InAttempt /\ Active /\ blk = 1 =>
          /\ xfer.lba = call.lba
          /\ xfer.stage \notin {"drained", "staged"}
    /\ (pc = "idle" /\ result = "ok" /\ isdata /\ Active) => xfer.op = call.kind

(* A read under way is as many blocks past the first as were taken.        *)
PlaceInv ==
    InAttempt /\ Active /\ call.kind = "read" =>
        xfer.lba + (IF xfer.stage = "drained" THEN 1 ELSE 0)
          = call.lba + Taken(blk - 1)

(* Past the clear of line 59, and until the first block is there, a ready  *)
(* bit is the one of this transfer.                                        *)
FreshInv ==
    /\ InAttempt /\ blk = 1 /\ (pc = "issue" \/ Issued) =>
          /\ "read_ready" \in intr => xfer.stage = "full"
          /\ "write_ready" \in intr => xfer.stage = "ask"
    /\ InAttempt /\ pc = "clear_write" =>
          /\ "read_ready" \in intr \ seen => xfer.stage = "full"
          /\ "write_ready" \in intr \ seen => xfer.stage = "ask"

(* What the driver knows between the poll that ended and the transfer, and *)
(* that a ready bit, once seen, is never cleared before the call returns.  *)
ReadyInv ==
    InAttempt =>
      /\ blk > 1 => pc \in {"poll", "check", "xfer"} /\ mask # "cmd_done"
      /\ pc \in {"ack", "respond"} => mask = "cmd_done"
      /\ pc = "xfer" => mask # "cmd_done"
      /\ Issued /\ mask # "cmd_done" =>
            mask = (IF call.kind = "read" THEN "read_ready" ELSE "write_ready")
      /\ pc = "check" /\ mask # "cmd_done" => intr \cap all_mask(mask) # {}
      /\ pc = "xfer" \/ blk > 1 => mask \in intr

(* After the bits of line 162 are cleared an error means that no transfer  *)
(* is under way; a command in flight is the one of the call.               *)
ErrorInv ==
    InAttempt =>
      /\ (pc \in {"check", "respond"} \/ (Issued /\ mask # "cmd_done"))
            /\ is_error(intr) => ~Active
      /\ Issued /\ cmdLine = "busy" => xfer.stage = "claimed"

(* Once the first block is in the buffer it is the one of the card, and    *)
(* those that came since are the next ones, in order.                      *)
BufInv ==
    (call.kind = "read" /\ InAttempt /\ blk > 1) => buf[1] = card[call.lba]

OrderInv ==
    call.kind = "read" /\ InAttempt =>
        \A b \in 1 .. blk - 1 :
            buf[b] # NoBlock => buf[b] = card[call.lba + Taken(b) - 1]

(* Outside an attempt the locals are reset; a reset is not a transfer.     *)
IdleInv ==
    /\ (pc \in {"idle", "dat_wait", "reset"} \/ ~isdata) => blk = 1
    /\ pc = "reset" => ~isdata
    /\ (result = "busy") <=> (pc # "idle")

FirstInv == /\ FifoInv /\ OwnXfer /\ FreshInv /\ ReadyInv /\ ErrorInv
            /\ BufInv /\ IdleInv /\ IssueOnFreeLine /\ ReadIntact

IInv == FirstInv /\ PlaceInv /\ OrderInv /\ BlocksInOrder

-----------------------------------------------------------------------------
(* Liveness.                                                               *)

(* Every call returns, unless the command line is held for good: then      *)
(* send_command stays in the loop of emmc.cpp:47.                          *)
CallReturns == (pc # "idle") ~> (pc = "idle" \/ cmdLine = "stuck")

-----------------------------------------------------------------------------
(* With single block transfers the driver and the card are a block device. *)

pending == IF xfer.stage = "staged" THEN <<xfer.lba, fifo>> ELSE << >>
request == IF isdata THEN call ELSE OtherCall("other")

BD == INSTANCE BlockDevice WITH
        disk <- card, pending <- pending, req <- request, ret <- result,
        out <- buf[1]

(* Every step of the driver and the controller is one of BlockDevice.      *)
ImplementsBlockDevice == BD!Spec
=============================================================================
