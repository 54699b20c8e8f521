--------------------------- MODULE EmmcHostProofs ---------------------------
(***************************************************************************)
(* Proofs about EmmcHost, for every card, buffer size, number of attempts  *)
(* and timeout.                                                            *)
(***************************************************************************)
EXTENDS EmmcHost, FiniteSetTheorems, TLAPS

-----------------------------------------------------------------------------
(* The calls and the records the actions build.                            *)

LEMMA CallTypes ==
  /\ \A l \in Lba, n \in 1 .. MaxNum, d \in Data :
        /\ Call("read", l, n, NoBlock) \in ReadCalls
        /\ Call("write", l, n, d) \in WriteCalls
  /\ \A k \in OtherKinds : OtherCall(k) \in OtherCalls
BY DEF Call, OtherCall, ReadCalls, WriteCalls, OtherCalls

LEMMA CallFields ==
  ASSUME TypeOK
  PROVE  /\ isdata => call.num \in 1 .. MaxNum /\ call.lba \in Lba
         /\ call.kind = "write" => call.data \in Data
         /\ call.lba \in Nat
BY EmmcHostAssumption
   DEF EmmcHostAssumption, TypeOK, ReadCalls, WriteCalls, OtherCalls, Lba,
       isdata, TransferKinds, OtherKinds

LEMMA StageChange ==
  ASSUME NEW x \in XferType, NEW s \in Stages
  PROVE  /\ [x EXCEPT !.stage = s] \in XferType
         /\ [x EXCEPT !.stage = s].stage = s
BY DEF XferType

LEMMA NextXfer ==
  ASSUME xfer \in XferType
  PROVE  NextBlock \in XferType /\ NextBlock.stage \in {"none", "moving"}
BY DEF XferType, NextBlock, NoXfer, Stages, TransferKinds

LEMMA NoTransfer ==
  /\ NoXfer \in XferType /\ NoXfer.stage = "none"
  /\ Stuck \in XferType /\ Stuck.stage = "stuck"
BY DEF NoXfer, Stuck, XferType, Stages, TransferKinds

(* A failed attempt leaves the loop of transfer_block in its bounds.       *)
LEMMA FailedTypes ==
  ASSUME TypeOK, CommandFailed
  PROVE  /\ pc' \in Pcs
         /\ result' \in {"none", "busy", "ok", "fail"}
         /\ tries' \in 0 .. Attempts - 1
         /\ tout' \in Nat
         /\ blk' \in 1 .. MaxNum
BY EmmcHostAssumption
   DEF EmmcHostAssumption, TypeOK, CommandFailed, Return, Pcs

-----------------------------------------------------------------------------
(* Every variable keeps its type: the attempts and the blocks of a call    *)
(* stay within the loops of transfer_block and do_data_transfer            *)
(* (emmc.cpp:123, 209), the buffer is not overrun, and a full FIFO holds a *)
(* block.                                                                  *)
THEOREM TypeCorrect == Spec => []TypeOK
<1>1. Init => TypeOK
  <2> SUFFICES ASSUME Init PROVE TypeOK
    OBVIOUS
  <2>1. OtherCall("reset") \in OtherCalls
    BY CallTypes DEF OtherKinds
  <2>2. 1 \in 1 .. MaxNum /\ 0 \in 0 .. Attempts - 1
    BY EmmcHostAssumption DEF EmmcHostAssumption
  <2>3. last_timeout \in BOOLEAN /\ srst_cmd \in BOOLEAN
    BY DEF Init
  <2> QED
    BY <2>1, <2>2, <2>3, NoTransfer DEF Init, TypeOK, Pcs
<1>2. TypeOK /\ [Next]_vars => TypeOK'
  <2> SUFFICES ASSUME TypeOK, [Next]_vars PROVE TypeOK'
    OBVIOUS
  <2>1. CASE CallTransfer
    BY <2>1, CallTypes DEF CallTransfer, Begin, TypeOK, Pcs
  <2>2. CASE CallCommand
    BY <2>2, CallTypes DEF CallCommand, Begin, TypeOK, OtherKinds, Pcs
  <2>3. CASE CallReset
    BY <2>3, CallTypes DEF CallReset, Begin, TypeOK, OtherKinds, Pcs
  <2>4. CASE DatWait
    <3>1. /\ pc' \in Pcs /\ result' \in {"none", "busy", "ok", "fail"}
          /\ tries' \in 0 .. Attempts - 1 /\ tout' \in Nat
          /\ blk' \in 1 .. MaxNum
      BY <2>4, EmmcHostAssumption
         DEF EmmcHostAssumption, TypeOK, DatWait, Return, Pcs
    <3> QED
      BY <2>4, <3>1 DEF DatWait, TypeOK, controllerVars
  <2>5. CASE CmdWait
    BY <2>5 DEF CmdWait, TypeOK, controllerVars, Pcs
  <2>6. CASE ClearRead
    BY <2>6 DEF ClearRead, TypeOK, controllerVars, Pcs
  <2>7. CASE ClearWrite
    BY <2>7 DEF ClearWrite, TypeOK, Pcs
  <2>8. CASE Issue
    <3>1. xfer' \in XferType /\ (xfer' = xfer \/ xfer'.stage = "claimed")
      BY <2>8, CallFields DEF Issue, TypeOK, isdata, size, XferType, Stages
    <3> QED
      BY <2>8, <3>1 DEF Issue, Await, Stale, TypeOK, Pcs
  <2>9. CASE Poll
    <3>1. /\ pc' \in Pcs /\ result' \in {"none", "busy", "ok", "fail"}
          /\ tries' \in 0 .. Attempts - 1 /\ tout' \in Nat
          /\ blk' \in 1 .. MaxNum
      BY <2>9, FailedTypes DEF Poll, TypeOK, Pcs
    <3>2. last_timeout' \in BOOLEAN
      BY <2>9 DEF Poll, TypeOK
    <3> QED
      BY <2>9, <3>1, <3>2 DEF Poll, TypeOK, controllerVars
  <2>10. CASE Ack
    BY <2>10 DEF Ack, TypeOK, Pcs
  <2>11. CASE Check
    <3>1. /\ pc' \in Pcs /\ result' \in {"none", "busy", "ok", "fail"}
          /\ tries' \in 0 .. Attempts - 1 /\ tout' \in Nat
          /\ blk' \in 1 .. MaxNum
      BY <2>11, FailedTypes DEF Check, TypeOK, Pcs
    <3> QED
      BY <2>11, <3>1 DEF Check, TypeOK
  <2>12. CASE Respond
    <3>1. call' \in ReadCalls \cup WriteCalls \cup OtherCalls
      BY <2>12, CallTypes DEF Respond, TypeOK, OtherKinds
    <3>2. /\ pc' \in Pcs /\ result' \in {"none", "busy", "ok", "fail"}
          /\ response' \in {"zero", "own", "old"}
          /\ mask' \in {"cmd_done", "read_ready", "write_ready"}
      BY <2>12 DEF Respond, Await, Return, TypeOK, Pcs
    <3>3. tries' \in 0 .. Attempts - 1 /\ blk' \in 1 .. MaxNum
      BY <2>12, EmmcHostAssumption
         DEF EmmcHostAssumption, Respond, Return, TypeOK
    <3>4. tout' \in Nat /\ last_error' \in SUBSET IntBits
      BY <2>12 DEF Respond, Await, Return, TypeOK
    <3>5. last_timeout' \in BOOLEAN
      BY <2>12 DEF Respond, Await, TypeOK
    <3> QED
      BY <2>12, <3>1, <3>2, <3>3, <3>4, <3>5
         DEF Respond, TypeOK, controllerVars
  <2>13. CASE Xfer
    <3>1. /\ xfer' \in XferType /\ fifo' \in Data \cup {NoBlock}
          /\ xfer'.stage \in {"full", "staged"} => fifo' \in Data
      <4>1. CASE xfer' = xfer /\ fifo' = fifo
        BY <4>1 DEF TypeOK
      <4>2. CASE /\ fifo' = NoBlock
                 /\ xfer' = [xfer EXCEPT !.stage = "drained"]
        BY <4>2, StageChange DEF TypeOK, Stages
      <4>3. CASE /\ call.kind = "write" /\ fifo' = call.data
                 /\ xfer' = [xfer EXCEPT !.stage = "staged"]
        BY <4>3, StageChange, CallFields DEF TypeOK, Stages
      <4> QED
        BY <2>13, <4>1, <4>2, <4>3 DEF Xfer
    <3>2. buf' \in [1 .. MaxNum -> Data \cup {NoBlock}]
      <4>1. \/ buf' = buf
            \/ \E v \in Data \cup {NoBlock} : buf' = [buf EXCEPT ![blk] = v]
        BY <2>13 DEF Xfer, TypeOK
      <4> QED
        BY <4>1 DEF TypeOK
    <3>3. blk' \in 1 .. MaxNum
      BY <2>13, CallFields, EmmcHostAssumption
         DEF EmmcHostAssumption, Xfer, Return, TypeOK, isdata, TransferKinds
    <3>4. /\ pc' \in Pcs /\ result' \in {"none", "busy", "ok", "fail"}
          /\ tout' \in Nat /\ tries' \in 0 .. Attempts - 1
          /\ mask' \in {"cmd_done", "read_ready", "write_ready"}
      BY <2>13, EmmcHostAssumption
         DEF EmmcHostAssumption, Xfer, Await, Return, TypeOK, Pcs
    <3>5. last_error' \in SUBSET IntBits
      BY <2>13 DEF Xfer, Await, TypeOK
    <3>6. last_timeout' \in BOOLEAN
      BY <2>13 DEF Xfer, Await, TypeOK
    <3> QED
      BY <2>13, <3>1, <3>2, <3>3, <3>4, <3>5, <3>6 DEF Xfer, TypeOK
  <2>14. CASE ResetWait
    <3>1. /\ pc' \in Pcs /\ result' \in {"none", "busy", "ok", "fail"}
          /\ tries' \in 0 .. Attempts - 1 /\ tout' \in Nat
          /\ blk' \in 1 .. MaxNum
      BY <2>14, EmmcHostAssumption
         DEF EmmcHostAssumption, TypeOK, ResetWait, Return, Pcs
    <3> QED
      BY <2>14, <3>1 DEF ResetWait, TypeOK, controllerVars
  <2>15. CASE HwRespond
    <3>1. xfer' \in XferType /\ (xfer' = xfer \/ xfer'.stage = "moving")
      BY <2>15, StageChange DEF HwRespond, TypeOK, Stages
    <3> QED
      BY <2>15, <3>1 DEF HwRespond, TypeOK, driverVars, IntBits
  <2>16. CASE HwCmdError
    <3>1. xfer' \in XferType /\ (xfer' = xfer \/ xfer'.stage \in {"none", "stuck"})
      BY <2>16, NoTransfer DEF HwCmdError, TypeOK, Held
    <3> QED
      BY <2>16, <3>1, EmmcHostAssumption
         DEF EmmcHostAssumption, HwCmdError, TypeOK, driverVars, IntBits,
             ErrorBits
  <2>17. CASE HwFill
    <3>1. xfer' \in XferType /\ fifo' \in Data
      BY <2>17, StageChange DEF HwFill, TypeOK, Stages
    <3> QED
      BY <2>17, <3>1 DEF HwFill, TypeOK, driverVars, IntBits
  <2>18. CASE HwAsk
    <3>1. xfer' \in XferType /\ xfer'.stage = "ask"
      BY <2>18, StageChange DEF HwAsk, TypeOK, Stages
    <3> QED
      BY <2>18, <3>1 DEF HwAsk, TypeOK, driverVars, IntBits
  <2>19. CASE HwDrained
    BY <2>19, NextXfer DEF HwDrained, TypeOK, driverVars
  <2>20. CASE HwProgram
    <3>1. card' \in [Lba -> Data]
      BY <2>20 DEF HwProgram, TypeOK
    <3> QED
      BY <2>20, <3>1, NextXfer DEF HwProgram, TypeOK, driverVars
  <2>21. CASE HwDataError
    BY <2>21, NoTransfer
       DEF HwDataError, Held, TypeOK, driverVars, IntBits, ErrorBits
  <2>22. CASE HwReset
    <3>1. xfer' \in XferType /\ (xfer' = xfer \/ xfer'.stage = "stuck")
      BY <2>22, NoTransfer DEF HwReset, TypeOK
    <3> QED
      BY <2>22, <3>1 DEF HwReset, TypeOK, driverVars
  <2>23. CASE UNCHANGED vars
    BY <2>23 DEF vars, driverVars, controllerVars, TypeOK
  <2>24. QED
    BY <2>1, <2>2, <2>3, <2>4, <2>5, <2>6, <2>7, <2>8, <2>9, <2>10, <2>11,
       <2>12, <2>13, <2>14, <2>15, <2>16, <2>17, <2>18, <2>19, <2>20, <2>21,
       <2>22, <2>23
       DEF Next, Caller, Driver, Controller, Answer
<1>3. QED
  BY <1>1, <1>2, PTL DEF Spec

-----------------------------------------------------------------------------
(* Counting the blocks that were taken.                                    *)
LEMMA TakenNone == Taken(0) = 0 /\ Taken(0)' = 0
<1>1. {b \in 1 .. 0 : buf[b] # NoBlock} = {}
  OBVIOUS
<1>2. {b \in 1 .. 0 : buf'[b] # NoBlock} = {}
  OBVIOUS
<1> QED
  BY <1>1, <1>2, FS_EmptySet DEF Taken

LEMMA TakenInNat ==
  ASSUME NEW n \in Nat PROVE Taken(n) \in Nat
<1>1. IsFiniteSet(1 .. n)
  BY FS_Interval
<1>2. IsFiniteSet({b \in 1 .. n : buf[b] # NoBlock})
  BY <1>1, FS_Subset
<1> QED
  BY <1>2, FS_CardinalityType DEF Taken

(* A block put in place n counts there, and not before.                    *)
LEMMA TakenNext ==
  ASSUME NEW n \in 1 .. MaxNum, NEW v, MaxNum \in Nat,
         buf \in [1 .. MaxNum -> Data \cup {NoBlock}],
         buf' = [buf EXCEPT ![n] = v]
  PROVE  /\ \A m \in 0 .. n - 1 : Taken(m)' = Taken(m)
         /\ v = NoBlock => Taken(n)' = Taken(n - 1)
         /\ v # NoBlock => Taken(n)' = Taken(n - 1) + 1
<1> DEFINE S(m) == {b \in 1 .. m : buf[b] # NoBlock}
           T(m) == {b \in 1 .. m : buf'[b] # NoBlock}
<1>1. \A m \in 0 .. n - 1 : T(m) = S(m)
  OBVIOUS
<1>2. buf'[n] = v
  OBVIOUS
<1>3. v = NoBlock => T(n) = S(n - 1)
  BY <1>1, <1>2
<1>4. v # NoBlock => T(n) = S(n - 1) \cup {n}
  BY <1>1, <1>2
<1>5. IsFiniteSet(S(n - 1)) /\ n \notin S(n - 1)
  <2>1. IsFiniteSet(1 .. n - 1)
    BY FS_Interval
  <2> QED
    BY <2>1, FS_Subset
<1>6. \A m \in 0 .. n : Taken(m) = Cardinality(S(m))
                      /\ Taken(m)' = Cardinality(T(m))
  BY DEF Taken
<1> HIDE DEF S, T
<1>7. n - 1 \in 0 .. n /\ n \in 0 .. n /\ n - 1 \in 0 .. n - 1
  OBVIOUS
<1>8. v # NoBlock => Cardinality(T(n)) = Cardinality(S(n - 1)) + 1
  BY <1>4, <1>5, FS_AddElement
<1> QED
  BY <1>1, <1>3, <1>6, <1>7, <1>8

LEMMA TakenSame ==
  ASSUME buf' = buf, NEW n PROVE Taken(n)' = Taken(n)
BY DEF Taken

-----------------------------------------------------------------------------
(* The inductive invariant behind ReadIntact and BlocksInOrder.            *)

LEMMA InvariantInit == Init => IInv
BY DEF Init, IInv, FirstInv, PlaceInv, OrderInv, BlocksInOrder, FifoInv,
       OwnXfer, FreshInv, ReadyInv, ErrorInv, BufInv, IdleInv, IssueOnFreeLine,
       ReadIntact, InAttempt, Issued, Active, isdata, OtherCall, Call, NoXfer,
       TransferKinds

(* The parts that speak of the first block carry themselves.               *)
LEMMA FirstStep ==
  ASSUME TypeOK, TypeOK', FirstInv, [Next]_vars
  PROVE  FirstInv'
<1> USE CallFields, EmmcHostAssumption
    DEF EmmcHostAssumption, TypeOK, FirstInv, FifoInv, OwnXfer, FreshInv, ReadyInv,
        ErrorInv, BufInv, IdleInv, IssueOnFreeLine, ReadIntact, InAttempt,
        Issued, Active, isdata, cmd_inhibit, TransferKinds, OtherKinds,
        XferType, OtherCalls, ReadCalls, WriteCalls, is_error, all_mask,
        ErrorBits
<1>1. CASE CallTransfer
  BY <1>1 DEF CallTransfer, Begin, Call
<1>2. CASE CallCommand
  BY <1>2 DEF CallCommand, Begin, OtherCall, Call
<1>3. CASE CallReset
  BY <1>3 DEF CallReset, Begin, OtherCall, Call
<1>4. CASE DatWait
  BY <1>4 DEF DatWait, Return, controllerVars, dat_inhibit
<1>5. CASE CmdWait
  BY <1>5 DEF CmdWait, controllerVars
<1>6. CASE ClearRead
  BY <1>6 DEF ClearRead, controllerVars
<1>7. CASE ClearWrite
  BY <1>7 DEF ClearWrite
<1>8. CASE Issue
  BY <1>8 DEF Issue, Await, size, dat_inhibit
<1>9. CASE Poll
  BY <1>9 DEF Poll, CommandFailed, Return, controllerVars
<1>10. CASE Ack
  BY <1>10 DEF Ack
<1>11. CASE Check
  BY <1>11 DEF Check, CommandFailed, Return
<1>12. CASE Respond
  BY <1>12 DEF Respond, Await, Return, OtherCall, Call, controllerVars
<1>13. CASE Xfer
  <2>1. FifoInv' /\ OwnXfer' /\ FreshInv'
    BY <1>13 DEF Xfer, Await, Return
  <2>2. ReadyInv' /\ ErrorInv'
    BY <1>13 DEF Xfer, Await, Return
  <2>3. BufInv'
    BY <1>13 DEF Xfer, Await, Return
  <2>4. IdleInv'
    BY <1>13 DEF Xfer, Await, Return
  <2>5. IssueOnFreeLine' /\ ReadIntact'
    BY <1>13 DEF Xfer, Await, Return
  <2> QED
    BY <2>1, <2>2, <2>3, <2>4, <2>5 DEF FirstInv
<1>14. CASE ResetWait
  BY <1>14 DEF ResetWait, Return, controllerVars
<1>15. CASE HwRespond
  BY <1>15 DEF HwRespond, driverVars
<1>16. CASE HwCmdError
  BY <1>16 DEF HwCmdError, driverVars, Held, Stuck, NoXfer
<1>17. CASE HwFill
  BY <1>17 DEF HwFill, driverVars
<1>18. CASE HwAsk
  BY <1>18 DEF HwAsk, driverVars
<1>19. CASE HwDrained
  BY <1>19 DEF HwDrained, driverVars, NextBlock, NoXfer
<1>20. CASE HwProgram
  BY <1>20 DEF HwProgram, driverVars, NextBlock, NoXfer
<1>21. CASE HwDataError
  BY <1>21 DEF HwDataError, driverVars, Held, Stuck, NoXfer
<1>22. CASE HwReset
  BY <1>22 DEF HwReset, driverVars, Stuck, NoXfer
<1>23. CASE UNCHANGED vars
  BY <1>23 DEF vars, driverVars, controllerVars
<1>24. QED
  BY <1>1, <1>2, <1>3, <1>4, <1>5, <1>6, <1>7, <1>8, <1>9, <1>10, <1>11,
     <1>12, <1>13, <1>14, <1>15, <1>16, <1>17, <1>18, <1>19, <1>20, <1>21,
     <1>22, <1>23
     DEF Next, Caller, Driver, Controller, Answer

(* What the parts say of a step that leaves the buffer alone, and of one   *)
(* after which the driver waits for the first block.                       *)
LEMMA NothingTaken ==
  ASSUME TypeOK', FirstInv', blk' = 1
  PROVE  PlaceInv' /\ OrderInv'
BY TakenNone
   DEF TypeOK, XferType, FirstInv, OwnXfer, PlaceInv, OrderInv, InAttempt,
       isdata, TransferKinds

LEMMA SameOrder ==
  ASSUME OrderInv, buf' = buf, card' = card, call' = call, blk' = blk,
         TypeOK, InAttempt
  PROVE  OrderInv'
BY TakenSame DEF OrderInv, TypeOK

LEMMA XferOrder ==
  ASSUME TypeOK, TypeOK', FirstInv, FirstInv', PlaceInv, OrderInv, Xfer
  PROVE  PlaceInv' /\ OrderInv' /\ BlocksInOrder'
<1> USE EmmcHostAssumption DEF EmmcHostAssumption
<1>0. PICK n : n = blk
  OBVIOUS
<1>1. /\ isdata /\ InAttempt /\ n \in 1 .. MaxNum /\ call' = call
      /\ card' = card /\ blk \in 1 .. MaxNum
      /\ call.lba \in Nat /\ xfer.lba \in Nat /\ call.num \in 1 .. MaxNum
  BY <1>0, CallFields DEF Xfer, isdata, InAttempt, TransferKinds, TypeOK, XferType
<1>2. CASE call.kind = "write"
  BY <1>1, <1>2 DEF PlaceInv, OrderInv, BlocksInOrder
<1>3. CASE call.kind = "read"
  <2> DEFINE v == IF xfer.stage = "full" THEN fifo ELSE NoBlock
  <2>1. /\ buf' = [buf EXCEPT ![n] = v]
        /\ buf \in [1 .. MaxNum -> Data \cup {NoBlock}] /\ buf'[n] = v
        /\ \A b \in 1 .. n - 1 : buf'[b] = buf[b]
    BY <1>0, <1>1, <1>3 DEF Xfer, TypeOK
  <2>2. xfer.stage = "full" =>
          /\ v = card[xfer.lba] /\ v # NoBlock
          /\ xfer.lba = call.lba + Taken(n - 1)
    <3>1. xfer.stage = "full" => fifo \in Data /\ Active
      BY DEF TypeOK, Active
    <3> QED
      BY <1>0, <1>1, <1>3, <3>1 DEF FirstInv, FifoInv, PlaceInv
  <2> HIDE DEF v
  <2>3. /\ \A m \in 0 .. n - 1 : Taken(m)' = Taken(m)
        /\ v = NoBlock => Taken(n)' = Taken(n - 1)
        /\ v # NoBlock => Taken(n)' = Taken(n - 1) + 1
    BY <1>1, <2>1, TakenNext
  <2>4. Taken(n - 1) \in Nat
    BY <1>1, TakenInNat
  <2>5. v = NoBlock <=> xfer.stage # "full"
    BY <2>2 DEF v
  <2>6. \A b \in 1 .. n :
          buf'[b] # NoBlock => buf'[b] = card[call.lba + Taken(b)' - 1]
    <3> SUFFICES ASSUME NEW b \in 1 .. n, buf'[b] # NoBlock
                 PROVE  buf'[b] = card[call.lba + Taken(b)' - 1]
      OBVIOUS
    <3>1. CASE b = n
      <4>1. v # NoBlock
        BY <2>1, <3>1
      <4>2. call.lba + Taken(n)' - 1 = xfer.lba
        BY <1>1, <2>2, <2>3, <2>4, <2>5, <4>1
      <4> QED
        BY <2>1, <2>2, <2>5, <3>1, <4>1, <4>2
    <3>2. CASE b # n
      <4>1. b \in 1 .. n - 1 /\ b \in 0 .. n - 1
        BY <1>1, <3>2
      <4> QED
        BY <1>0, <1>1, <1>3, <2>1, <2>3, <4>1 DEF OrderInv
    <3> QED
      BY <3>1, <3>2
  <2>7. CASE blk < call.num
    <3>1. blk' = n + 1 /\ pc' = "poll" /\ result' = result
      BY <1>0, <1>1, <2>7 DEF Xfer, Await
    <3>2. OrderInv'
      BY <1>0, <1>1, <2>6, <3>1 DEF OrderInv
    <3>3. PlaceInv'
      <4>1. CASE xfer.stage = "full"
        <5>1. xfer'.stage = "drained" /\ xfer'.lba = xfer.lba
          BY <1>3, <4>1 DEF Xfer, TypeOK, XferType
        <5>2. Taken(n)' = Taken(n - 1) + 1
          BY <2>3, <2>5, <4>1
        <5>3. blk' - 1 = n
          BY <1>1, <3>1
        <5> QED
          BY <1>1, <2>2, <2>4, <4>1, <5>1, <5>2, <5>3 DEF PlaceInv
      <4>2. CASE xfer.stage # "full"
        <5>1. xfer' = xfer
          BY <1>3, <4>2 DEF Xfer
        <5>2. Taken(n)' = Taken(n - 1)
          BY <2>3, <2>5, <4>2
        <5>3. blk' - 1 = n
          BY <1>1, <3>1
        <5>4. Active' <=> Active
          BY <5>1 DEF Active
        <5> QED
          BY <1>0, <1>1, <2>4, <5>1, <5>2, <5>3, <5>4 DEF PlaceInv
      <4> QED
        BY <4>1, <4>2
    <3>4. BlocksInOrder'
      BY <3>1 DEF BlocksInOrder
    <3> QED
      BY <3>2, <3>3, <3>4
  <2>8. CASE blk >= call.num
    <3>1. blk' = 1 /\ pc' = "idle" /\ result' = "ok"
      BY <1>1, <2>8 DEF Xfer, Return
    <3>2. PlaceInv' /\ OrderInv'
      BY <3>1 DEF PlaceInv, OrderInv, InAttempt
    <3>3. buf'[1] # NoBlock
      <4>1. buf'[1] = card[call.lba]
        BY <1>1, <1>3, <3>1 DEF FirstInv, ReadIntact
      <4> QED
        BY <1>1, <4>1, CallFields DEF TypeOK
    <3>4. \A b \in 1 .. call.num : b \in 1 .. n
      BY <1>0, <1>1, <2>8
    <3> QED
      BY <1>1, <2>6, <3>2, <3>3, <3>4 DEF BlocksInOrder
  <2> QED
    BY <1>1, <2>7, <2>8
<1> QED
  BY <1>1, <1>2, <1>3 DEF isdata, TransferKinds

(* Only do_data_transfer touches the buffer, and only it takes blocks.     *)
LEMMA OrderStep ==
  ASSUME TypeOK, TypeOK', FirstInv, FirstInv', PlaceInv, OrderInv,
         BlocksInOrder, [Next]_vars
  PROVE  PlaceInv' /\ OrderInv' /\ BlocksInOrder'
<1>0. blk' = 1 => PlaceInv' /\ OrderInv'
  BY NothingTaken
<1>1. ASSUME result' # "ok" \/ pc' # "idle" \/ call'.kind # "read"
      PROVE  BlocksInOrder'
  BY <1>1 DEF BlocksInOrder
<1>2. CASE Caller
  <2>1. result' = "busy" /\ (pc' \in {"dat_wait", "reset"}
                              \/ call'.kind \in OtherKinds)
    BY <1>2 DEF Caller, CallTransfer, CallCommand, CallReset, Begin, OtherCall,
                Call, OtherKinds
  <2>2. PlaceInv' /\ OrderInv'
    BY <2>1 DEF PlaceInv, OrderInv, InAttempt, isdata, TransferKinds, OtherKinds
  <2> QED
    BY <1>1, <2>1, <2>2
<1>3. CASE DatWait \/ CmdWait \/ ClearRead \/ ClearWrite \/ Issue \/ Ack
           \/ Respond \/ ResetWait
  <2>1. blk' = 1
    <3>1. blk = 1
      BY <1>3 DEF DatWait, CmdWait, ClearRead, ClearWrite, Issue, Ack, Respond,
                  ResetWait, FirstInv, ReadyInv, IdleInv, InAttempt, TypeOK
    <3> QED
      BY <1>3, <3>1 DEF DatWait, CmdWait, ClearRead, ClearWrite, Issue, Ack,
                        Respond, ResetWait, Await, Return, controllerVars
  <2>2. result' # "ok" \/ pc' # "idle" \/ call'.kind # "read"
    BY <1>3 DEF DatWait, CmdWait, ClearRead, ClearWrite, Issue, Ack, Respond,
                ResetWait, Await, Return, OtherCall, Call, isdata,
                TransferKinds, FirstInv, IdleInv
  <2> QED
    BY <1>0, <1>1, <2>1, <2>2
<1>4. CASE Poll \/ Check
  <2>1. result' # "ok" \/ pc' # "idle"
    BY <1>4 DEF Poll, Check, CommandFailed, Return, FirstInv, IdleInv
  <2>2. CASE CommandFailed
    <3>1. blk' = 1
      BY <2>2 DEF CommandFailed, Return
    <3> QED
      BY <1>0, <1>1, <2>1, <3>1
  <2>3. CASE ~CommandFailed
    <3>1. /\ blk' = blk /\ xfer' = xfer /\ call' = call /\ buf' = buf
          /\ card' = card /\ pc' # "idle"
      BY <1>4, <2>3 DEF Poll, Check, controllerVars
    <3>2. InAttempt <=> InAttempt'
      BY <1>4, <2>3 DEF Poll, Check, InAttempt, isdata
    <3>3. PlaceInv'
      BY <3>1, <3>2, TakenSame DEF PlaceInv, Active
    <3>4. OrderInv'
      BY <3>1, <3>2, TakenSame DEF OrderInv
    <3> QED
      BY <1>1, <2>1, <3>3, <3>4
  <2> QED
    BY <2>2, <2>3
<1>5. CASE Xfer
  BY <1>5, XferOrder
<1>6. CASE Controller
  <2>1. /\ UNCHANGED driverVars
        /\ card' = card \/ HwProgram
    BY <1>6 DEF Controller, Answer, HwRespond, HwCmdError, HwFill, HwAsk,
                HwDrained, HwProgram, HwDataError, HwReset
  <2>2. /\ pc' = pc /\ call' = call /\ result' = result /\ blk' = blk
        /\ buf' = buf
    BY <2>1 DEF driverVars
  <2>3. HwProgram =>
          ~(call.kind = "read" /\ (InAttempt \/ (pc = "idle" /\ result = "ok")))
    BY DEF HwProgram, FirstInv, FifoInv, OwnXfer, Active, isdata, TransferKinds
  <2>4. OrderInv'
    <3>1. InAttempt' <=> InAttempt
      BY <2>2 DEF InAttempt, isdata
    <3>2. CASE call.kind = "read" /\ InAttempt
      <4>1. card' = card
        BY <2>1, <2>3, <3>2
      <4> QED
        BY <2>2, <3>1, <4>1, TakenSame DEF OrderInv
    <3>3. CASE ~(call.kind = "read" /\ InAttempt)
      BY <2>2, <3>1, <3>3 DEF OrderInv
    <3> QED
      BY <3>2, <3>3
  <2>5. BlocksInOrder'
    BY <2>1, <2>2, <2>3, TakenSame DEF BlocksInOrder
  <2>6. PlaceInv'
    <3> SUFFICES ASSUME InAttempt, Active', call.kind = "read"
                 PROVE  xfer'.lba + (IF xfer'.stage = "drained" THEN 1 ELSE 0)
                          = call.lba + Taken(blk - 1)
      BY <2>2, TakenSame DEF PlaceInv, InAttempt, isdata
    <3> DEFINE D(x) == x.lba + (IF x.stage = "drained" THEN 1 ELSE 0)
    <3>0. ~HwProgram
      BY <2>3
    <3>1. Active /\ D(xfer') = D(xfer)
      <4> USE DEF TypeOK, XferType, Active
      <4>1. CASE HwRespond \/ HwCmdError
        BY <4>1 DEF HwRespond, HwCmdError, Held, Stuck, NoXfer
      <4>2. CASE HwFill \/ HwAsk
        BY <4>2 DEF HwFill, HwAsk
      <4>3. CASE HwDrained
        BY <4>3 DEF HwDrained, NextBlock, NoXfer
      <4>5. CASE HwDataError \/ HwReset
        BY <4>5 DEF HwDataError, HwReset, Held, Stuck, NoXfer
      <4> QED
        BY <1>6, <3>0, <4>1, <4>2, <4>3, <4>5 DEF Controller, Answer
    <3> QED
      BY <3>1 DEF PlaceInv
  <2> QED
    BY <2>4, <2>5, <2>6
<1>7. CASE UNCHANGED vars
  BY <1>7, TakenSame DEF vars, driverVars, controllerVars, PlaceInv, OrderInv,
                         BlocksInOrder, InAttempt, Active, isdata
<1> QED
  BY <1>2, <1>3, <1>4, <1>5, <1>6, <1>7 DEF Next, Driver

THEOREM Invariant == Spec => []IInv
<1>1. TypeOK /\ TypeOK' /\ IInv /\ [Next]_vars => IInv'
  BY FirstStep, OrderStep DEF IInv
<1>2. QED
  BY <1>1, InvariantInit, TypeCorrect, PTL DEF Spec

(* However late, lost or failed the earlier commands were, a read that     *)
(* returned true has the block of the card in the buffer's first block     *)
(* (emmc.cpp:119-142, 175-217).                                            *)
THEOREM ReadsAreIntact == Spec => []ReadIntact
<1>1. IInv => ReadIntact
  BY DEF IInv, FirstInv
<1>2. QED
  BY <1>1, Invariant, PTL

(* The blocks a read that returned true has put into the buffer are those  *)
(* asked for, in the order of the card and each once, from the first on;   *)
(* those the driver did not wait for are missing (emmc.cpp:119-142).       *)
THEOREM BlocksAreInOrder == Spec => []BlocksInOrder
<1>1. IInv => BlocksInOrder
  BY DEF IInv
<1>2. QED
  BY <1>1, Invariant, PTL

(* CMDTM is written only while cmd_inhibit is clear, three accesses after  *)
(* line 47 saw it clear (emmc.cpp:46-61).                                  *)
THEOREM CommandsOnFreeLine == Spec => []IssueOnFreeLine
<1>1. IInv => IssueOnFreeLine
  BY DEF IInv, FirstInv
<1>2. QED
  BY <1>1, Invariant, PTL

(* A transfer the driver left behind stays where it is, and makes every    *)
(* later transfer_block return false: no step of the driver resets the     *)
(* data line (emmc.cpp:175-188, emmc.h:124).                               *)
THEOREM StrandedStays == Spec => StrandedForever
<1>1. TypeOK /\ [Next]_vars => [Stranded =>
                                  /\ Stranded'
                                  /\ xfer' = xfer
                                  /\ (isdata /\ pc # "idle" /\ pc' = "idle")
                                       => result' = "fail"]_vars
  <2> SUFFICES ASSUME TypeOK, Next, Stranded
               PROVE  /\ Stranded' /\ xfer' = xfer
                      /\ (isdata /\ pc # "idle" /\ pc' = "idle")
                           => result' = "fail"
    OBVIOUS
  <2> USE DEF Stranded, isdata, TransferKinds, TypeOK, XferType
  <2>1. CASE Caller
    BY <2>1 DEF Caller, CallTransfer, CallCommand, CallReset, Begin, Call,
                OtherCall
  <2>2. CASE DatWait \/ CmdWait \/ ClearRead \/ ClearWrite \/ Issue
    BY <2>2 DEF DatWait, CmdWait, ClearRead, ClearWrite, Issue, Await, Return,
                dat_inhibit, controllerVars
  <2>3. CASE Poll \/ Ack \/ Check \/ Respond \/ Xfer \/ ResetWait
    BY <2>3 DEF Poll, Ack, Check, Respond, Xfer, ResetWait, CommandFailed,
                Await, Return, OtherCall, Call, controllerVars
  <2>4. CASE Controller
    BY <2>4 DEF Controller, Answer, HwRespond, HwCmdError, HwFill, HwAsk,
                HwDrained, HwProgram, HwDataError, HwReset, driverVars
  <2>5. QED
    BY <2>1, <2>2, <2>3, <2>4 DEF Next, Driver
<1>2. QED
  BY <1>1, TypeCorrect, PTL DEF Spec, StrandedForever

-----------------------------------------------------------------------------
(* The refinement.  Its mapping is that of a request of one block, so it   *)
(* is for callers that pass num = 1.                                       *)

BDNext == [BD!Next]_(BD!vars)

LEMMA RefineInit ==
  ASSUME Init PROVE BD!Init
BY EmmcHostAssumption
   DEF EmmcHostAssumption, Init, BD!Init, BD!Other, pending, request, isdata,
       OtherCall, Call, NoXfer, TransferKinds

(* An attempt that failed is a stutter, or the failure of the request.     *)
LEMMA RefineFailed ==
  ASSUME CommandFailed, result = "busy",
         UNCHANGED <<call, buf, xfer, fifo, card>>
  PROVE  BDNext
BY DEF BDNext, CommandFailed, Return, BD!Next, BD!Fail, BD!vars, pending,
       request, isdata

LEMMA RefineStep ==
  ASSUME MaxNum = 1, TypeOK, IInv, [Next]_vars
  PROVE  BDNext
<1> USE DEF BDNext
<1>0. (result = "busy") <=> (pc # "idle")
  BY DEF IInv, FirstInv, IdleInv
<1>1. CASE CallTransfer
  <2>1. request' \in BD!Requests
    BY <1>1 DEF CallTransfer, Begin, Call, request, isdata, TransferKinds,
                BD!Requests
  <2> QED
    BY <1>0, <1>1, <2>1
       DEF CallTransfer, Begin, BD!Next, BD!Request, pending
<1>2. CASE CallCommand \/ CallReset
  <2>1. request' = BD!Other
    BY <1>2 DEF CallCommand, CallReset, Begin, Call, OtherCall, request,
                isdata, TransferKinds, BD!Other
  <2> QED
    BY <1>0, <1>2, <2>1
       DEF CallCommand, CallReset, Begin, BD!Next, BD!Request, pending
<1>3. CASE DatWait
  BY <1>0, <1>3 DEF DatWait, Return, controllerVars, BD!Next, BD!Fail,
                    BD!vars, pending, request, isdata
<1>4. CASE CmdWait \/ ClearRead \/ ClearWrite \/ Ack
  BY <1>4 DEF CmdWait, ClearRead, ClearWrite, Ack, controllerVars, BD!vars,
              pending, request, isdata
<1>5. CASE Issue
  BY <1>5 DEF Issue, Await, BD!vars, pending, request, isdata, dat_inhibit
<1>6. CASE Poll \/ Check
  <2>1. CASE CommandFailed
    BY <1>0, <1>6, <2>1, RefineFailed DEF Poll, Check, controllerVars
  <2>2. CASE UNCHANGED <<result, call, buf, xfer, fifo, card>>
    BY <2>2 DEF BD!vars, pending, request, isdata
  <2> QED
    BY <1>6, <2>1, <2>2 DEF Poll, Check, controllerVars
<1>7. CASE Respond
  <2>1. CASE isdata
    BY <1>7, <2>1 DEF Respond, Await, BD!vars, pending, request, isdata,
                      TransferKinds, controllerVars
  <2>2. CASE ~isdata
    <3>1. request = BD!Other /\ request' = request
      BY <1>7, <2>2 DEF Respond, Return, request, isdata, OtherCall, Call,
                        TransferKinds, BD!Other
    <3> QED
      BY <1>0, <1>7, <2>2, <3>1
         DEF Respond, Return, Await, controllerVars, pending, BD!Next,
             BD!OtherOk, BD!Fail, BD!Other, BD!vars
  <2> QED
    BY <2>1, <2>2
<1>8. CASE Xfer
  <2> USE CallFields
      DEF IInv, FirstInv, TypeOK, ReadyInv, FreshInv, FifoInv, OwnXfer, InAttempt,
          Issued, isdata, TransferKinds, OtherKinds, ReadCalls, WriteCalls,
          OtherCalls
  <2>0. isdata /\ blk = 1 /\ call.num = 1 /\ result' = "ok"
    BY <1>8 DEF Xfer, Return
  <2>1. CASE call.kind = "read"
    <3>1. xfer.stage = "full"
      BY <1>8, <2>0, <2>1 DEF Xfer
    <3>2. fifo = card[call.lba]
      BY <1>8, <2>0, <2>1, <3>1 DEF Xfer, Active
    <3>3. buf' = [buf EXCEPT ![1] = fifo]
      BY <1>8, <2>0, <2>1, <3>1 DEF Xfer
    <3>4. buf'[1] = fifo
      BY <3>3
    <3>5. xfer' = [xfer EXCEPT !.stage = "drained"]
      BY <1>8, <2>1, <3>1 DEF Xfer
    <3>6. xfer'.stage = "drained"
      BY <3>5, StageChange DEF Stages
    <3> QED
      BY <1>0, <1>8, <2>0, <2>1, <3>1, <3>2, <3>4, <3>6
         DEF Xfer, BD!Next, BD!ReadOk, pending, request
  <2>2. CASE call.kind = "write"
    <3>1. xfer.stage = "ask"
      BY <1>8, <2>0, <2>2 DEF Xfer
    <3>2. xfer.lba = call.lba
      BY <1>8, <2>0, <2>2, <3>1 DEF Xfer, Active
    <3>3. /\ xfer' = [xfer EXCEPT !.stage = "staged"]
          /\ fifo' = call.data /\ buf' = buf
      BY <1>8, <2>2, <3>1 DEF Xfer
    <3>4. xfer'.stage = "staged" /\ xfer'.lba = call.lba
      BY <3>2, <3>3, StageChange DEF Stages, XferType
    <3> QED
      BY <1>0, <1>8, <2>0, <2>2, <3>1, <3>3, <3>4
         DEF Xfer, BD!Next, BD!WriteOk, pending, request
  <2> QED
    BY <1>8, <2>1, <2>2 DEF Xfer
<1>9. CASE ResetWait
  <2>1. request = BD!Other /\ request' = BD!Other
    BY <1>9 DEF ResetWait, IInv, FirstInv, IdleInv, request, isdata, OtherCall, Call,
                BD!Other
  <2> QED
    BY <1>0, <1>9, <2>1 DEF ResetWait, Return, controllerVars, BD!Next,
                BD!OtherOk, BD!Fail, BD!vars, pending, BD!Other
<1>10. CASE HwRespond \/ HwCmdError \/ HwFill \/ HwAsk \/ HwDrained \/ HwReset
  <2>1. pending' = pending
    <3>1. CASE xfer.stage = "staged"
      BY <1>10, <3>1 DEF HwRespond, HwCmdError, HwFill, HwAsk, HwDrained,
                         HwReset, pending
    <3>2. CASE xfer.stage # "staged"
      <4>1. xfer'.stage # "staged"
        BY <1>10, <3>2, NextXfer, NoTransfer, StageChange
           DEF HwRespond, HwCmdError, HwFill, HwAsk, HwDrained, HwReset, Held,
               TypeOK, Stages
      <4> QED
        BY <3>2, <4>1 DEF pending
    <3> QED
      BY <3>1, <3>2
  <2> QED
    BY <1>10, <2>1 DEF HwRespond, HwCmdError, HwFill, HwAsk, HwDrained,
                       HwReset, driverVars, request, isdata, BD!vars
<1>11. CASE HwProgram
  <2>1. pending = <<xfer.lba, fifo>> /\ pending' = << >>
    BY <1>11, NextXfer DEF HwProgram, pending, TypeOK
  <2> QED
    BY <1>11, <2>1 DEF HwProgram, driverVars, request, isdata, BD!Next,
                       BD!Program
<1>12. CASE HwDataError
  <2>1. pending' = << >>
    BY <1>12, NoTransfer DEF HwDataError, Held, pending
  <2> QED
    BY <1>12, <2>1 DEF HwDataError, driverVars, request, isdata, BD!Next,
                       BD!Lose, BD!vars
<1>13. CASE UNCHANGED vars
  BY <1>13 DEF vars, driverVars, controllerVars, request, isdata, pending,
               BD!vars
<1>14. QED
  BY <1>1, <1>2, <1>3, <1>4, <1>5, <1>6, <1>7, <1>8, <1>9, <1>10, <1>11,
     <1>12, <1>13 DEF Next, Caller, Driver, Controller, Answer

(* Serving one block at a time, the driver is a block device: a read       *)
(* returns what the card holds, a write that returned true is staged in    *)
(* the card and the only one, a request that returned false changed        *)
(* nothing (emmc.cpp:45-217).                                              *)
THEOREM Refinement ==
  ASSUME MaxNum = 1
  PROVE  Spec => ImplementsBlockDevice
<1>1. Init => BD!Init
  BY RefineInit
<1>2. TypeOK /\ IInv /\ [Next]_vars => [BD!Next]_(BD!vars)
  BY RefineStep DEF BDNext
<1>3. QED
  BY <1>1, <1>2, TypeCorrect, Invariant, PTL
     DEF Spec, ImplementsBlockDevice, BD!Spec
=============================================================================
