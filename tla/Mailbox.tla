------------------------------ MODULE Mailbox ------------------------------
(***************************************************************************)
(* The mailbox (src/src/kernel/peripheral/mailbox.cpp and                  *)
(* src/include/kernel/mailbox/mailbox.h): two FIFOs between the ARM and    *)
(* the GPU.  A request is the address of a message in the caller's stack;  *)
(* the GPU overwrites the message and sends the address back.              *)
(* call_property takes the next message it is sent for its answer; call    *)
(* goes on until the address is its own, but not for ever.                 *)
(*                                                                         *)
(* Other channels share the FIFO (the enum of mailbox.h:170-178, and what  *)
(* the firmware left there before the kernel started): the GPU may send    *)
(* messages nobody asked for.  Their data is not the address of a message  *)
(* of a caller.                                                            *)
(***************************************************************************)
EXTENDS Integers, Sequences

CONSTANTS
    Buffers,     \* addresses where callers put their messages
    Foreign,     \* the data of a message of another channel
    Depth,       \* messages a FIFO holds (8)
    MaxRetry,    \* max_retry (1000000)
    MaxForeign   \* bound: messages nobody asked for

ASSUME MailboxAssumption ==
    /\ Buffers # {}
    /\ Foreign \notin Buffers
    /\ Depth \in Nat \ {0}
    /\ MaxRetry \in Nat \ {0}
    /\ MaxForeign \in Nat

VARIABLES
    outbox, inbox,       \* the FIFOs to the GPU and from it (external)
    gpu_state, gpu_msg,  \* what the GPU does, and with which message (external)
    code,        \* property_message::code of the message at an address
    pc, kind,    \* the caller: what it waits for, in which function
    msg,         \* the address of its message
    i,           \* the loop variable of call
    result,      \* what the last call returned
    foreign,     \* the messages sent that nobody asked for
    missed       \* some caller has gone on without the answer to its message

gpuVars    == <<outbox, inbox, gpu_state, gpu_msg>>
callerVars == <<pc, kind, msg, i, result, missed>>
vars       == <<gpuVars, code, callerVars, foreign>>

Data == Buffers \cup {Foreign}

TypeOK ==
    /\ outbox \in Seq(Buffers) /\ Len(outbox) \leq Depth
    /\ inbox \in Seq(Data) /\ Len(inbox) \leq Depth
    /\ gpu_state \in {"idle", "working", "answering"}
    /\ gpu_msg \in Buffers
    /\ code \in [Buffers -> {"request", "success", "error"}]
    /\ pc \in {"idle", "full", "empty"}
    /\ kind \in {"call", "call_property"}
    /\ msg \in Buffers
    /\ i \in 0 .. MaxRetry - 1
    /\ result \in BOOLEAN
    /\ foreign \in 0 .. MaxForeign
    /\ missed \in BOOLEAN

Init ==
    /\ outbox = << >> /\ inbox = << >>
    /\ gpu_state = "idle" /\ gpu_msg \in Buffers
    /\ code = [b \in Buffers |-> "request"]
    /\ pc = "idle" /\ kind = "call"
    /\ msg \in Buffers
    /\ i = 0 /\ result = FALSE
    /\ foreign = 0 /\ missed = FALSE

-----------------------------------------------------------------------------
(* A caller makes its message, at an address that may be one of before,    *)
(* and passes it to call (mailbox.cpp:26) or call_property (mailbox.h:193).*)
CallMailbox ==
    /\ pc = "idle"
    /\ \E b \in Buffers :
          /\ msg' = b
          /\ code' = [code EXCEPT ![b] = "request"]
    /\ kind' \in {"call", "call_property"}
    /\ pc' = "full"
    /\ i' = 0
    /\ UNCHANGED <<gpuVars, result, foreign, missed>>

(* The wait of line 13 ends when there is room; only the ARM adds to it.   *)
send_message ==
    /\ pc = "full"
    /\ Len(outbox) < Depth
    /\ outbox' = Append(outbox, msg)
    /\ pc' = "empty"
    /\ UNCHANGED <<inbox, gpu_state, gpu_msg, code, kind, msg, i, result,
                   foreign, missed>>

(* The wait of line 20 ends when there is a message.                       *)
read_message ==
    /\ inbox # << >>
    /\ inbox' = Tail(inbox)

(* mailbox.h:196: whatever it is, it is returned.                          *)
M_PropertyDoesNotWait ==
    /\ pc = "empty" /\ kind = "call_property"
    /\ inbox' = IF inbox = << >> THEN inbox ELSE Tail(inbox)
    /\ missed' = (missed \/ inbox = << >> \/ Head(inbox) # msg)
    /\ pc' = "idle"
    /\ UNCHANGED <<outbox, gpu_state, gpu_msg, code, kind, msg, i, result,
                   foreign>>

PropertyReturns ==
    /\ pc = "empty" /\ kind = "call_property"
    /\ read_message
    /\ missed' = (missed \/ Head(inbox) # msg)
    /\ pc' = "idle"
    /\ UNCHANGED <<outbox, gpu_state, gpu_msg, code, kind, msg, i, result,
                   foreign>>

(* mailbox.cpp:31-33: the answer.                                          *)
M_CallUntilSuccess ==
    /\ pc = "empty" /\ kind = "call"
    /\ read_message
    /\ Head(inbox) = msg
    /\ result' = (code[msg] = "success")
    /\ pc' = IF code[msg] = "success" THEN "idle" ELSE "full"
    /\ UNCHANGED <<outbox, gpu_state, gpu_msg, code, kind, msg, i, foreign,
                   missed>>

CallAnswered ==
    /\ pc = "empty" /\ kind = "call"
    /\ read_message
    /\ Head(inbox) = msg
    /\ result' = (code[msg] = "success")
    /\ pc' = "idle"
    /\ UNCHANGED <<outbox, gpu_state, gpu_msg, code, kind, msg, i, foreign,
                   missed>>

(* mailbox.cpp:30-36: the message of somebody else is dropped.             *)
M_CallTakesFirst ==
    /\ pc = "empty" /\ kind = "call"
    /\ read_message
    /\ Head(inbox) # msg
    /\ pc' = "idle" /\ result' = FALSE /\ missed' = TRUE
    /\ UNCHANGED <<outbox, gpu_state, gpu_msg, code, kind, msg, i, foreign>>

CallRetries ==
    /\ pc = "empty" /\ kind = "call"
    /\ read_message
    /\ Head(inbox) # msg
    /\ \/ /\ i + 1 < MaxRetry
          /\ i' = i + 1
          /\ UNCHANGED <<pc, result, missed>>
       \/ /\ i + 1 = MaxRetry
          /\ pc' = "idle" /\ result' = FALSE /\ missed' = TRUE
          /\ UNCHANGED i
    /\ UNCHANGED <<outbox, gpu_state, gpu_msg, code, kind, msg, foreign>>

-----------------------------------------------------------------------------
(* The GPU takes a request, overwrites the message, sends the address back.*)
GpuTakes ==
    /\ gpu_state = "idle" /\ outbox # << >>
    /\ gpu_state' = "working"
    /\ gpu_msg' = Head(outbox)
    /\ outbox' = Tail(outbox)
    /\ UNCHANGED <<inbox, code, callerVars, foreign>>

GpuWrites ==
    /\ gpu_state = "working"
    /\ \E c \in {"success", "error"} : code' = [code EXCEPT ![gpu_msg] = c]
    /\ gpu_state' = "answering"
    /\ UNCHANGED <<outbox, inbox, gpu_msg, callerVars, foreign>>

GpuAnswers ==
    /\ gpu_state = "answering" /\ Len(inbox) < Depth
    /\ inbox' = Append(inbox, gpu_msg)
    /\ gpu_state' = "idle"
    /\ UNCHANGED <<outbox, gpu_msg, code, callerVars, foreign>>

(* A message of another channel.                                           *)
GpuSends ==
    /\ foreign < MaxForeign /\ Len(inbox) < Depth
    /\ inbox' = Append(inbox, Foreign)
    /\ foreign' = foreign + 1
    /\ UNCHANGED <<outbox, gpu_state, gpu_msg, code, callerVars>>

Caller == send_message \/ PropertyReturns \/ CallAnswered \/ CallRetries
Gpu    == GpuTakes \/ GpuWrites \/ GpuAnswers

Next == CallMailbox \/ Caller \/ Gpu \/ GpuSends

Spec == Init /\ [][Next]_vars

(* Nothing preempts the caller, and the firmware serves its requests.      *)
FairSpec == Spec /\ WF_vars(Caller) /\ WF_vars(Gpu)

-----------------------------------------------------------------------------
(* The messages the GPU has taken or will take and has not written yet,    *)
(* and the last of them.                                                   *)
ToWrite == Len(outbox) + (IF gpu_state = "working" THEN 1 ELSE 0)

LastToWrite == IF outbox = << >> THEN gpu_msg ELSE outbox[Len(outbox)]

(* A caller that goes on with a message the GPU has not written does so    *)
(* only after a message nobody asked for, and leaves its request with the  *)
(* GPU, which will write it then.  call does so only with all its retries  *)
(* used up or when an answer to an earlier message at the same address     *)
(* comes first (mailbox.cpp:30-36, mailbox.h:196).                         *)
Answered ==
    [][pc = "empty" /\ pc' = "idle" /\ code[msg] = "request" =>
          /\ foreign > 0
          /\ ToWrite > 0 /\ LastToWrite = msg
          /\ kind = "call" => Head(inbox) = msg \/ i = MaxRetry - 1]_vars

(* Of the messages the GPU has yet to write only the last is of a caller   *)
(* that waits.  The others are stack frames that are gone: there is none   *)
(* before the first foreign message, and there are never more than foreign *)
(* messages have come, however often calls are given up and repeated       *)
(* (mailbox.cpp:26-37, mailbox.h:193-197).                                 *)
LateWrites ==
    /\ ToWrite \leq foreign + (IF pc = "empty" THEN 1 ELSE 0)
    /\ pc = "empty" /\ ToWrite > 0 => LastToWrite = msg

(* Only a message that nobody asked for makes a caller go on without its   *)
(* answer (mailbox.h:196).                                                 *)
MissedByForeign == missed => foreign > 0

(* The ARM does not wait for room in the FIFO to the GPU while the GPU     *)
(* waits for room in the other one, as long as no more foreign messages    *)
(* come than fill both: every caller takes at least as many messages as it *)
(* sends (mailbox.cpp:10-37).                                              *)
Stuck == /\ pc = "full" /\ Len(outbox) = Depth
         /\ gpu_state = "answering" /\ Len(inbox) = Depth

NeverStuck == foreign \leq 2 * Depth => ~Stuck

(* Every call returns (mailbox.cpp:13 and 20), with that many foreign      *)
(* messages.                                                               *)
CallReturns == pc # "idle" ~> pc = "idle"
=============================================================================
