---------------------------- MODULE BlockIoProofs ----------------------------
(***************************************************************************)
(* Proofs about BlockIo, for sectors and cards of every size.              *)
(*                                                                         *)
(* What is proved of the bytes of a call is proved of the calls whose      *)
(* address fits in the u32 lba of emmc.cpp:28, as all of the run's do.     *)
(* The lba of any other call is cut to 32 bits before line 30 divides it.  *)
(***************************************************************************)
EXTENDS BlockIo, TLAPS

First == SectorOf(call.address)

(* The call begins at a sector, and its address fits in the u32 lba.       *)
Placed == Aligned /\ call.address < Word

(* The sector of the transfer that is under way, counted from the first.   *)
Step == IF pc = "overflow" THEN blocks ELSE 0

(* The first byte of the buffer that it moves, and how many it moves.      *)
From  == IF pc = "overflow" THEN call.size - overflow_size ELSE 0
Count == IF pc = "overflow" THEN overflow_size ELSE SectorSize

(* The request the device serves, or has served, is the one of the step.   *)
ReqInv ==
    /\ pc \in {"idle", "return"} => ret = "none"
    /\ pc = "blocks" => blocks # 0
    /\ pc = "overflow" => overflow_size # 0
    /\ ret = "ok" => req.kind # "other"
    /\ ret \in {"busy", "ok"} /\ req.kind # "other" =>
          /\ req.kind = IF call.write THEN "write" ELSE "read"
          /\ req.lba \in Addressed(lba + Step)
          /\ call.write =>
                \A o \in 0 .. Count - 1 : req.data[o] = buffer[From + o]

(* A caller that writes passes bytes.                                      *)
BufferInv == call.write => buffer \in [0 .. call.size - 1 -> Byte]

(* The bytes of the buffer that the steps before this one have moved, and  *)
(* those this one moves.                                                   *)
Moved == IF pc = "return" \/ Returned THEN DOMAIN buffer
         ELSE IF pc = "overflow" THEN {i \in DOMAIN buffer : i < From}
         ELSE {}
Moving == {i \in DOMAIN buffer : From <= i /\ i < From + Count}

(* What a read has moved is what the card has, and stays: no write of an   *)
(* earlier call is left that could still change it.                        *)
ReadInv ==
    ~call.write =>
        /\ ret = "ok" => pending = << >> /\ out = disk[req.lba]
        /\ Placed =>
              \A i \in Moved :
                 /\ pending = << >>
                 /\ OnDisk(call.address + i)
                 /\ buffer[i] = DiskByte(call.address + i)

(* Byte b at address a: in the card's hands if the sector is, else on it.  *)
Kept(a, b) ==
    \/ SectorOf(a) \in lost
    \/ IF pending # << >> /\ pending[1] = SectorOf(a)
       THEN pending[2][a % SectorSize] = b
       ELSE OnDisk(a) /\ DiskByte(a) = b

(* What a write has moved is kept, also while its second transfer runs.    *)
WriteInv ==
    call.write /\ Placed =>
        \A i \in Moved \cup (IF ret = "ok" THEN Moving ELSE {}) :
            Kept(call.address + i, buffer[i])

IInv == TypeOK /\ ReqInv /\ BufferInv /\ ReadInv /\ WriteInv

-----------------------------------------------------------------------------
(* Quotient and remainder.                                                 *)
LEMMA Divided ==
  ASSUME NEW k \in Nat \ {0}, NEW q \in Nat, NEW r \in 0 .. k - 1
  PROVE  (k * q + r) \div k = q /\ (k * q + r) % k = r
OBVIOUS

LEMMA Division ==
  ASSUME NEW k \in Nat \ {0}, NEW x \in Nat
  PROVE  /\ x \div k \in Nat /\ x % k \in 0 .. k - 1
         /\ x = k * (x \div k) + (x % k)
OBVIOUS

(* What TypeOK says of a call.                                             *)
LEMMA CallTypes ==
  ASSUME TypeOK
  PROVE  /\ SectorSize \in Nat \ {0} /\ Word \in Nat \ {0}
         /\ call.address \in 0 .. MaxAddress /\ MaxAddress \in Nat
         /\ call.size \in 0 .. 2 * SectorSize - 1
         /\ call.write \in BOOLEAN
         /\ DOMAIN buffer = 0 .. call.size - 1
         /\ byte_access_mode \in BOOLEAN
BY BlockIoAssumption DEF TypeOK, Calls, BlockIoAssumption

(* A call has at most one full block, and what is left over.               *)
LEMMA PartsOf ==
  ASSUME NEW z \in 0 .. 2 * SectorSize - 1
  PROVE  /\ z % SectorSize \in 0 .. SectorSize - 1
         /\ IF z < SectorSize
            THEN z \div SectorSize = 0 /\ z % SectorSize = z
            ELSE z \div SectorSize = 1 /\ z % SectorSize = z - SectorSize
<1>1. SectorSize \in Nat \ {0}
  BY BlockIoAssumption DEF BlockIoAssumption
<1>2. CASE z < SectorSize
  <2>1. z \in 0 .. SectorSize - 1 /\ z = SectorSize * 0 + z
    BY <1>1, <1>2
  <2>2. z \div SectorSize = 0 /\ z % SectorSize = z
    BY <1>1, <2>1, Divided
  <2>3. QED
    BY <1>2, <2>1, <2>2
<1>3. CASE ~(z < SectorSize)
  <2> DEFINE r == z - SectorSize
  <2>1. r \in 0 .. SectorSize - 1 /\ z = SectorSize * 1 + r
    BY <1>1, <1>3
  <2> HIDE DEF r
  <2>2. z \div SectorSize = 1 /\ z % SectorSize = r
    BY <1>1, <2>1, Divided
  <2>3. QED
    BY <1>3, <2>1, <2>2 DEF r
<1>4. QED
  BY <1>2, <1>3

LEMMA Parts ==
  ASSUME TypeOK
  PROVE  /\ overflow_size \in 0 .. SectorSize - 1
         /\ IF call.size < SectorSize
            THEN blocks = 0 /\ overflow_size = call.size
            ELSE blocks = 1 /\ overflow_size = call.size - SectorSize
BY CallTypes, PartsOf DEF blocks, overflow_size

(* Byte i of an aligned call, in its sector and in the card's.             *)
LEMMA Place ==
  ASSUME TypeOK, Aligned, NEW i \in 0 .. call.size - 1
  PROVE  /\ SectorOf(call.address + i)
              = First + (IF i < SectorSize THEN 0 ELSE 1)
         /\ (call.address + i) % SectorSize
              = IF i < SectorSize THEN i ELSE i - SectorSize
         /\ First \in Nat
<1> DEFINE a == call.address
           q == a \div SectorSize
<1>1. /\ SectorSize \in Nat \ {0} /\ a \in Nat /\ i \in Nat
      /\ i < 2 * SectorSize
  BY CallTypes
<1>2. q \in Nat /\ a = SectorSize * q + (a % SectorSize)
  BY <1>1, Division
<1>3. a = SectorSize * q
  BY <1>1, <1>2 DEF Aligned
<1> HIDE DEF a, q
<1>4. CASE i < SectorSize
  <2>1. i \in 0 .. SectorSize - 1 /\ a + i = SectorSize * q + i
    BY <1>1, <1>3, <1>4
  <2>2. (a + i) \div SectorSize = q /\ (a + i) % SectorSize = i
    BY <1>1, <1>2, <2>1, Divided
  <2>3. QED
    BY <1>2, <1>4, <2>2 DEF a, q, SectorOf, First
<1>5. CASE ~(i < SectorSize)
  <2> DEFINE r == i - SectorSize
             p == q + 1
  <2>1. /\ r \in 0 .. SectorSize - 1 /\ p \in Nat
        /\ a + i = SectorSize * p + r
    BY <1>1, <1>2, <1>3, <1>5
  <2> HIDE DEF r, p
  <2>2. (a + i) \div SectorSize = p /\ (a + i) % SectorSize = r
    BY <1>1, <2>1, Divided
  <2>3. QED
    BY <1>2, <1>5, <2>2 DEF a, q, r, p, SectorOf, First
<1>6. QED
  BY <1>4, <1>5

(* The sector a transfer addresses holds bytes of the call; and when the   *)
(* call is aligned it is the next one in order.                            *)
LEMMA Reached ==
  ASSUME TypeOK, NEW l \in Addressed(lba + Step),
         \/ pc = "blocks" /\ blocks # 0
         \/ pc = "overflow" /\ overflow_size # 0
  PROVE  /\ l \in Lba
         /\ Placed => l = First + Step
         /\ call.address < Word =>
               \E i \in DOMAIN buffer : l = SectorOf(call.address + i)
<1>l. l \in Lba
  BY DEF Addressed
<1>h. SUFFICES ASSUME call.address < Word
              PROVE  /\ Aligned => l = First + Step
                     /\ \E i \in DOMAIN buffer : l = SectorOf(call.address + i)
  BY <1>l DEF Placed
<1> DEFINE a == call.address
           z == call.size
           k == Step
           q == a \div SectorSize
           r == a % SectorSize
<1>1. /\ SectorSize \in Nat \ {0} /\ Word \in Nat \ {0}
      /\ a \in Nat /\ a < Word
      /\ z \in Nat /\ DOMAIN buffer = 0 .. z - 1
      /\ byte_access_mode \in BOOLEAN
  BY <1>h, CallTypes
<1>2. k \in {0, 1} /\ z > 0 /\ (k = 1 => z > SectorSize /\ SectorSize > 1)
  BY <1>1, Parts DEF Step
<1>3. q \in Nat /\ r \in 0 .. SectorSize - 1 /\ a = SectorSize * q + r
  BY <1>1, Division
<1>4. a % Word = a
  <2>1. a \in 0 .. Word - 1 /\ a = Word * 0 + a
    BY <1>1
  <2>2. QED
    BY <1>1, <2>1, Divided
<1>5. l \in Lba /\ l \in Nat
  BY BlockIoAssumption DEF Addressed, Lba, BlockIoAssumption
<1>6. IF byte_access_mode THEN l * SectorSize = a + k ELSE l = q + k
  BY <1>4 DEF Addressed, lba
<1> HIDE DEF a, z, k, q, r
<1>7. CASE byte_access_mode
  <2>1. SectorSize * l + 0 = a + k /\ 0 \in 0 .. SectorSize - 1
    BY <1>1, <1>2, <1>5, <1>6, <1>7
  <2>2. (a + k) \div SectorSize = l /\ (a + k) % SectorSize = 0
    BY <1>1, <1>5, <2>1, Divided
  <2>3. k \in 0 .. z - 1
    BY <1>1, <1>2
  <2>4. \E i \in DOMAIN buffer : l = SectorOf(call.address + i)
    BY <1>1, <2>2, <2>3 DEF SectorOf, a
  <2>5. ASSUME r = 0
        PROVE  l = q + k
    <3>1. k \in 0 .. SectorSize - 1 /\ a + k = SectorSize * q + k
      BY <1>1, <1>2, <1>3, <2>5
    <3>2. (a + k) \div SectorSize = q /\ (a + k) % SectorSize = k
      BY <1>1, <1>3, <3>1, Divided
    <3>3. QED
      BY <1>3, <2>2, <3>2
  <2>6. QED
    BY <1>5, <2>4, <2>5 DEF Aligned, a, q, r, k, First, SectorOf
<1>8. CASE ~byte_access_mode
  <2> DEFINE p == q + 1
  <2>1. l = q + k
    BY <1>6, <1>8
  <2>2. k = 0 => l = SectorOf(call.address + 0) /\ 0 \in DOMAIN buffer
    BY <1>1, <1>2, <1>3, <2>1 DEF SectorOf, a, q
  <2>3. ASSUME k = 1
        PROVE  l = SectorOf(call.address + SectorSize)
               /\ SectorSize \in DOMAIN buffer
    <3>1. a + SectorSize = SectorSize * p + r /\ p \in Nat
      BY <1>1, <1>3
    <3>2. l = p
      BY <2>1, <2>3
    <3> HIDE DEF p
    <3>3. (a + SectorSize) \div SectorSize = p
      BY <1>1, <1>3, <3>1, Divided
    <3>4. SectorSize \in 0 .. z - 1
      BY <1>1, <1>2, <2>3
    <3>5. QED
      BY <1>1, <3>2, <3>3, <3>4 DEF SectorOf, a
  <2>4. QED
    BY <1>2, <1>5, <2>1, <2>2, <2>3 DEF Aligned, a, q, r, k, First, SectorOf
<1>9. QED
  BY <1>1, <1>7, <1>8

LEMMA RequestTypes ==
  ASSUME TypeOK, req.kind # "other"
  PROVE  /\ req \in Device!Requests
         /\ req.kind \in {"read", "write"} /\ req.lba \in Lba
         /\ req.kind = "write" => req.data \in Sector
<1>1. req \in Device!Requests
  BY DEF TypeOK, Device!Other
<1>2. QED
  BY <1>1 DEF Device!Requests

-----------------------------------------------------------------------------
LEMMA InitOK == Init => IInv
<1> SUFFICES ASSUME Init
             PROVE  IInv
  OBVIOUS
<1> USE DEF Init, Device!Init
<1>1. SectorSize \in Nat \ {0} /\ MaxAddress \in Nat
  BY BlockIoAssumption DEF BlockIoAssumption
<1>2. call \in Calls /\ call.size = 0 /\ call.write = FALSE
  BY <1>1 DEF Calls
<1>3. /\ buffer \in [0 .. call.size - 1 -> Byte \cup {NoByte}]
      /\ DOMAIN buffer = {}
  <2>1. 0 .. call.size - 1 = {}
    BY <1>2
  <2>2. QED
    BY <2>1 DEF NoBytes
<1>4. result \in -1 .. 2 * SectorSize - 1
  BY <1>1
<1>5. byte_access_mode \in BOOLEAN
  OBVIOUS
<1>6. TypeOK
  BY <1>2, <1>3, <1>4, <1>5 DEF TypeOK
<1>7. ReqInv /\ BufferInv /\ WriteInv
  BY <1>2 DEF ReqInv, BufferInv, WriteInv
<1>8. ReadInv
  BY <1>3 DEF ReadInv, Moved
<1>9. QED
  BY <1>6, <1>7, <1>8 DEF IInv

(* emmc_dev::read or write is called.                                      *)
LEMMA CallIoOK ==
  ASSUME IInv, CallIo
  PROVE  IInv'
<1> DEFINE z == call'.size
<1>1. /\ call' \in Calls /\ z \in 0 .. 2 * SectorSize - 1
      /\ call'.write \in BOOLEAN /\ SectorSize \in Nat \ {0}
  BY BlockIoAssumption DEF CallIo, Calls, BlockIoAssumption
<1>2. buffer' \in IF call'.write THEN [0 .. z - 1 -> Byte]
                  ELSE {[i \in 0 .. z - 1 |-> NoByte]}
  BY DEF CallIo
<1>3. /\ buffer' \in [0 .. z - 1 -> Byte \cup {NoByte}]
      /\ call'.write => buffer' \in [0 .. z - 1 -> Byte]
  BY <1>1, <1>2
<1>4. /\ pc' = IF z \div SectorSize # 0 THEN "blocks"
              ELSE IF z % SectorSize # 0 THEN "overflow" ELSE "return"
      /\ ret' = "none" /\ result' = -1
      /\ UNCHANGED <<disk, pending, req, out, byte_access_mode, lost>>
  BY DEF CallIo, AfterBlocks, blocks, overflow_size
<1>5. pc' = "return" => z = 0
  BY <1>1, <1>4, PartsOf
<1>6. pc' = "overflow" => z - (z % SectorSize) = 0
  BY <1>1, <1>4, PartsOf
<1> HIDE DEF z
<1>7. TypeOK'
  <2>1. result' \in -1 .. 2 * SectorSize - 1
    BY <1>1, <1>4
  <2>2. pc' \in {"idle", "blocks", "overflow", "return"}
    BY <1>4
  <2>3. QED
    BY <1>1, <1>3, <1>4, <2>1, <2>2 DEF IInv, TypeOK, z
<1>8. ReqInv' /\ BufferInv'
  BY <1>3, <1>4 DEF ReqInv, BufferInv, blocks, overflow_size, z
<1>9. Moved' = {}
  <2>1. DOMAIN buffer' = 0 .. z - 1
    BY <1>3
  <2>2. pc' # "idle"
    BY <1>4
  <2>3. CASE pc' = "return"
    <3>1. 0 .. z - 1 = {}
      BY <1>5, <2>3
    <3>2. QED
      BY <2>1, <2>3, <3>1 DEF Moved
  <2>4. CASE pc' = "overflow"
    <3>1. From' = 0
      BY <1>6, <2>4 DEF From, overflow_size, z
    <3>2. \A i \in DOMAIN buffer' : ~(i < 0)
      BY <1>1, <2>1
    <3>3. QED
      BY <2>4, <3>1, <3>2 DEF Moved, Returned
  <2>5. CASE pc' = "blocks"
    BY <2>5 DEF Moved, Returned
  <2>6. QED
    BY <1>4, <2>3, <2>4, <2>5
<1>10. ReadInv' /\ WriteInv'
  BY <1>4, <1>9 DEF ReadInv, WriteInv
<1>11. QED
  BY <1>7, <1>8, <1>10 DEF IInv

-----------------------------------------------------------------------------
(* The request of a step is made with the block it moves.                  *)
LEMMA Requested ==
  ASSUME IInv, NEW block, Transfer(lba + Step, block),
         \A o \in 0 .. Count - 1 : call.write => block[o] = buffer[From + o],
         UNCHANGED <<ioVars, lost>>, pc \in {"blocks", "overflow"}
  PROVE  IInv'
<1> DEFINE a == lba + Step
<1>1. /\ ret' = "busy" /\ out' = NoBlock
      /\ req' \in Device!Requests \cup {Device!Other}
      /\ UNCHANGED <<disk, pending>>
  BY DEF Transfer, Device!Request
<1>2. UNCHANGED <<byte_access_mode, pc, call, buffer, result, lost>>
  BY DEF ioVars
<1>3. req'.kind # "other" =>
        /\ req'.kind = IF call.write THEN "write" ELSE "read"
        /\ req'.lba \in Addressed(a)
        /\ call.write => req'.data = block
  <2>1. CASE Addressed(a) = {}
    BY <2>1 DEF Transfer, Device!Other
  <2>2. CASE Addressed(a) # {}
    <3>1. (CHOOSE l \in Addressed(a) : TRUE) \in Addressed(a)
      BY <2>2
    <3>2. req' = [kind |-> IF call.write THEN "write" ELSE "read",
                  lba  |-> CHOOSE l \in Addressed(a) : TRUE,
                  num  |-> 1,
                  data |-> IF call.write THEN block ELSE NoBlock]
      BY <2>2 DEF Transfer
    <3> HIDE DEF a
    <3>3. QED
      BY <3>1, <3>2
  <2>3. QED
    BY <2>1, <2>2
<1>4. TypeOK'
  BY <1>1, <1>2 DEF IInv, TypeOK
<1>5. ReqInv'
  <2>1. /\ pc' = "blocks" => blocks' # 0
        /\ pc' = "overflow" => overflow_size' # 0
    BY <1>2 DEF IInv, ReqInv, blocks, overflow_size
  <2>2. Addressed(lba + Step)' = Addressed(a)
    BY <1>2 DEF Addressed, lba, Step, blocks
  <2>3. Count' = Count /\ From' = From
    BY <1>2 DEF Count, From, overflow_size
  <2> HIDE DEF a
  <2>4. QED
    BY <1>1, <1>2, <1>3, <2>1, <2>2, <2>3 DEF ReqInv
<1>6. BufferInv'
  BY <1>2 DEF IInv, BufferInv
<1>7. Moved' = Moved
  BY <1>2 DEF Moved, Returned, From, overflow_size
<1>8. ReadInv' /\ WriteInv'
  BY <1>1, <1>2, <1>7 DEF IInv, ReadInv, WriteInv, Placed, Aligned, OnDisk,
     DiskByte, SectorOf, Kept
<1>9. QED
  BY <1>4, <1>5, <1>6, <1>8 DEF IInv

LEMMA TransferBlocksOK ==
  ASSUME IInv, TransferBlocks
  PROVE  IInv'
<1> DEFINE block == [o \in Offset |-> buffer[o]]
<1>1. /\ SectorSize \in Nat \ {0} /\ call.address \in Nat
      /\ Word \in Nat \ {0}
  BY CallTypes DEF IInv
<1>2. lba \in Nat
  BY <1>1, Division DEF lba
<1>3. pc = "blocks" /\ Transfer(lba, block) /\ UNCHANGED <<ioVars, lost>>
  BY DEF TransferBlocks
<1>4. lba + Step = lba /\ From = 0 /\ Count = SectorSize
  BY <1>2, <1>3 DEF Step, From, Count
<1>5. \A o \in 0 .. Count - 1 : block[o] = buffer[From + o]
  BY <1>1, <1>4 DEF Offset
<1> HIDE DEF block
<1>6. QED
  BY <1>3, <1>4, <1>5, Requested

LEMMA TransferOverflowOK ==
  ASSUME IInv, TransferOverflow
  PROVE  IInv'
<1>1. PICK rest \in Sector : Transfer(lba + blocks, OverflowBlock(rest))
  BY DEF TransferOverflow
<1>2. /\ pc = "overflow" /\ UNCHANGED <<ioVars, lost>>
      /\ SectorSize \in Nat \ {0} /\ overflow_size \in 0 .. SectorSize - 1
  BY CallTypes, Parts DEF TransferOverflow, IInv
<1>3. /\ Step = blocks /\ Count = overflow_size
      /\ From = call.size - overflow_size
  BY <1>2 DEF Step, Count, From
<1>4. \A o \in 0 .. Count - 1 :
         call.write => OverflowBlock(rest)[o] = buffer[From + o]
  BY <1>2, <1>3 DEF OverflowBlock, Offset
<1>5. QED
  BY <1>1, <1>2, <1>3, <1>4, Requested

-----------------------------------------------------------------------------
(* A transfer failed, and the call with it.                                *)
LEMMA Failed ==
  ASSUME IInv, pc' = "idle", result' = -1, ret' = "none",
         UNCHANGED <<disk, pending, req, out, byte_access_mode, call, lost,
                     buffer>>
  PROVE  IInv'
<1>1. call.size \in Nat /\ SectorSize \in Nat \ {0}
  BY CallTypes DEF IInv
<1>2. result' \in -1 .. 2 * SectorSize - 1
  BY <1>1
<1>3. TypeOK'
  BY <1>2 DEF IInv, TypeOK
<1>4. ReqInv' /\ BufferInv'
  BY DEF IInv, ReqInv, BufferInv
<1>5. Moved' = {}
  BY <1>1 DEF Moved, Returned
<1>6. ReadInv' /\ WriteInv'
  BY <1>5 DEF ReadInv, WriteInv
<1>7. QED
  BY <1>3, <1>4, <1>6 DEF IInv

LEMMA BlocksDoneOK ==
  ASSUME IInv, BlocksDone
  PROVE  IInv'
<1>1. CASE ret = "fail"
  BY <1>1, Failed DEF BlocksDone
<1>2. CASE ret = "ok"
  <2>1. /\ pc = "blocks" /\ ret' = "none" /\ pc' = AfterBlocks
        /\ buffer' = IF call.write THEN buffer
                     ELSE [i \in DOMAIN buffer |->
                             IF i \in Offset THEN out[i] ELSE buffer[i]]
        /\ UNCHANGED <<disk, pending, req, out, byte_access_mode, call, lost,
                       result>>
    BY <1>2 DEF BlocksDone
  <2>2. /\ SectorSize \in Nat \ {0} /\ call.size \in Nat
        /\ DOMAIN buffer = 0 .. call.size - 1
        /\ call.write \in BOOLEAN
    BY CallTypes DEF IInv
  <2>3. /\ blocks = 1 /\ call.size - overflow_size = SectorSize
        /\ overflow_size \in Nat
    BY <2>1, <2>2, Parts DEF IInv, ReqInv
  <2>4. /\ pc' \in {"overflow", "return"}
        /\ pc' = "overflow" => overflow_size # 0
        /\ pc' = "return" => call.size = SectorSize
    BY <2>1, <2>2, <2>3 DEF AfterBlocks
  <2>5. /\ req.kind = IF call.write THEN "write" ELSE "read"
        /\ req.lba \in Addressed(lba + Step)
        /\ req.lba \in Lba
        /\ Placed => req.lba = First
    <3>1. /\ req.kind = IF call.write THEN "write" ELSE "read"
          /\ req.lba \in Addressed(lba + Step) /\ blocks # 0
      BY <1>2, <2>1 DEF IInv, ReqInv
    <3>2. req.lba \in Lba /\ (Placed => req.lba = First + Step)
      BY <2>1, <3>1, Reached DEF IInv
    <3>3. Step = 0 /\ (Placed => First \in Nat)
      <4>1. call.address \in Nat
        BY CallTypes DEF IInv
      <4>2. QED
        BY <2>1, <2>2, <4>1, Division DEF Step, First, SectorOf
    <3>4. QED
      BY <3>1, <3>2, <3>3
  <2>6. ~call.write => pending = << >> /\ out = disk[req.lba] /\ out \in Sector
    BY <1>2, <2>5 DEF IInv, ReadInv, TypeOK
  <2>7. /\ DOMAIN buffer' = DOMAIN buffer
        /\ buffer' \in [0 .. call.size - 1 -> Byte \cup {NoByte}]
        /\ call.write => buffer' \in [0 .. call.size - 1 -> Byte]
    BY <2>1, <2>2, <2>6 DEF IInv, TypeOK, BufferInv, Sector
  <2>8. TypeOK'
    BY <2>1, <2>4, <2>7 DEF IInv, TypeOK
  <2>9. ReqInv' /\ BufferInv'
    BY <2>1, <2>4, <2>7 DEF ReqInv, BufferInv, overflow_size
  <2>10. Moved' = {i \in DOMAIN buffer : i < SectorSize}
    <3>1. From' = IF pc' = "overflow" THEN SectorSize ELSE 0
      BY <2>1, <2>3 DEF From, overflow_size
    <3>2. pc' = "return" => \A i \in DOMAIN buffer : i < SectorSize
      BY <2>2, <2>4
    <3>3. QED
      BY <2>4, <2>7, <3>1, <3>2 DEF Moved, Returned
  <2>11. ASSUME Placed, NEW i \in DOMAIN buffer, i < SectorSize
         PROVE  /\ SectorOf(call.address + i) = First
                /\ (call.address + i) % SectorSize = i
                /\ i \in Offset
    BY <2>2, <2>11, Place DEF IInv, Placed, Offset
  <2>12. ReadInv'
    <3>1. ASSUME ~call.write, Placed, NEW i \in DOMAIN buffer, i < SectorSize
          PROVE  /\ pending = << >>
                 /\ OnDisk(call.address + i)
                 /\ buffer'[i] = DiskByte(call.address + i)
      <4>1. buffer'[i] = out[i]
        BY <2>1, <2>11, <3>1
      <4>2. QED
        BY <2>5, <2>6, <2>11, <3>1, <4>1 DEF OnDisk, DiskByte
    <3>2. QED
      BY <2>1, <2>10, <3>1 DEF ReadInv, Placed, Aligned, OnDisk, DiskByte,
         SectorOf
  <2>13. WriteInv'
    <3>1. {i \in DOMAIN buffer : i < SectorSize} \subseteq Moving
      BY <2>1, <2>2 DEF Moving, From, Count
    <3>2. ASSUME call.write, Placed, NEW i \in Moved'
          PROVE  Kept(call.address + i, buffer[i])
      BY <1>2, <2>10, <3>1, <3>2 DEF IInv, WriteInv
    <3>3. QED
      BY <2>1, <3>2 DEF WriteInv, Placed, Aligned, Kept, OnDisk, DiskByte,
         SectorOf
  <2>14. QED
    BY <2>8, <2>9, <2>12, <2>13 DEF IInv
<1>3. QED
  BY <1>1, <1>2 DEF BlocksDone

LEMMA OverflowDoneOK ==
  ASSUME IInv, OverflowDone
  PROVE  IInv'
<1>1. CASE ret = "fail"
  BY <1>1, Failed DEF OverflowDone
<1>2. CASE ret = "ok"
  <2>1. /\ pc = "overflow" /\ ret' = "none" /\ pc' = "return"
        /\ buffer' = IF call.write THEN buffer
                     ELSE [i \in DOMAIN buffer |->
                             IF i < From THEN buffer[i] ELSE out[i - From]]
        /\ UNCHANGED <<disk, pending, req, out, byte_access_mode, call, lost,
                       result>>
    BY <1>2 DEF OverflowDone, From
  <2>2. /\ SectorSize \in Nat \ {0} /\ call.size \in Nat
        /\ DOMAIN buffer = 0 .. call.size - 1
        /\ call.write \in BOOLEAN
    BY CallTypes DEF IInv
  <2>3. /\ overflow_size \in 0 .. SectorSize - 1
        /\ From = IF call.size < SectorSize THEN 0 ELSE SectorSize
        /\ Step = IF call.size < SectorSize THEN 0 ELSE 1
        /\ call.size = From + overflow_size /\ From \in Nat
    <3>1. /\ overflow_size \in 0 .. SectorSize - 1
          /\ IF call.size < SectorSize
             THEN blocks = 0 /\ overflow_size = call.size
             ELSE blocks = 1 /\ overflow_size = call.size - SectorSize
      BY Parts DEF IInv
    <3>2. From = call.size - overflow_size /\ Step = blocks
      BY <2>1 DEF From, Step
    <3> DEFINE z == call.size
               v == overflow_size
               f == From
    <3>3. /\ z \in Nat /\ v \in Nat /\ f = z - v
          /\ v = IF z < SectorSize THEN z ELSE z - SectorSize
      BY <2>2, <3>1, <3>2
    <3> HIDE DEF z, v, f
    <3>4. /\ f = IF z < SectorSize THEN 0 ELSE SectorSize
          /\ z = f + v /\ f \in Nat
      BY <2>2, <3>3
    <3>5. QED
      BY <3>1, <3>2, <3>4 DEF z, v, f
  <2>4. /\ req.kind = IF call.write THEN "write" ELSE "read"
        /\ req.lba \in Lba
        /\ Placed => req.lba = First + Step
    <3>1. /\ req.kind = IF call.write THEN "write" ELSE "read"
          /\ req.lba \in Addressed(lba + Step) /\ overflow_size # 0
      BY <1>2, <2>1 DEF IInv, ReqInv
    <3>2. QED
      BY <2>1, <3>1, Reached DEF IInv
  <2>5. ~call.write => pending = << >> /\ out = disk[req.lba] /\ out \in Sector
    BY <1>2, <2>4 DEF IInv, ReadInv, TypeOK
  <2>6. ASSUME NEW i \in DOMAIN buffer, ~(i < From)
        PROVE  i - From \in Offset
    BY <2>2, <2>3, <2>6 DEF Offset
  <2>7. /\ DOMAIN buffer' = DOMAIN buffer
        /\ buffer' \in [0 .. call.size - 1 -> Byte \cup {NoByte}]
        /\ call.write => buffer' \in [0 .. call.size - 1 -> Byte]
    BY <2>1, <2>2, <2>5, <2>6 DEF IInv, TypeOK, BufferInv, Sector
  <2>8. TypeOK'
    BY <2>1, <2>7 DEF IInv, TypeOK
  <2>9. ReqInv' /\ BufferInv'
    BY <2>1, <2>7 DEF ReqInv, BufferInv
  <2>10. Moved' = DOMAIN buffer
    BY <2>1, <2>7 DEF Moved
  <2>11. ASSUME Placed, NEW i \in DOMAIN buffer, ~(i < From)
         PROVE  /\ SectorOf(call.address + i) = First + Step
                /\ (call.address + i) % SectorSize = i - From
    BY <2>2, <2>3, <2>11, Place DEF IInv, Placed
  <2>12. ReadInv'
    <3>1. ASSUME ~call.write, Placed, NEW i \in DOMAIN buffer
          PROVE  /\ pending = << >>
                 /\ OnDisk(call.address + i)
                 /\ buffer'[i] = DiskByte(call.address + i)
      <4>1. CASE i < From
        <5>1. i \in Moved
          BY <2>1, <4>1 DEF Moved
        <5>2. buffer'[i] = buffer[i]
          BY <2>1, <3>1, <4>1
        <5>3. QED
          BY <3>1, <5>1, <5>2 DEF IInv, ReadInv
      <4>2. CASE ~(i < From)
        <5>1. buffer'[i] = out[i - From]
          BY <2>1, <3>1, <4>2
        <5>2. QED
          BY <2>4, <2>5, <2>11, <3>1, <4>2, <5>1 DEF OnDisk, DiskByte
      <4>3. QED
        BY <4>1, <4>2
    <3>2. QED
      BY <2>1, <2>10, <3>1 DEF ReadInv, Placed, Aligned, OnDisk, DiskByte,
         SectorOf
  <2>13. WriteInv'
    <3>1. ASSUME NEW i \in DOMAIN buffer
          PROVE  i \in Moved \cup Moving
      BY <2>1, <2>2, <2>3 DEF Moved, Moving, Count
    <3>2. ASSUME call.write, Placed, NEW i \in Moved'
          PROVE  Kept(call.address + i, buffer[i])
      BY <1>2, <2>10, <3>1, <3>2 DEF IInv, WriteInv
    <3>3. QED
      BY <2>1, <3>2 DEF WriteInv, Placed, Aligned, Kept, OnDisk, DiskByte,
         SectorOf
  <2>14. QED
    BY <2>8, <2>9, <2>12, <2>13 DEF IInv
<1>3. QED
  BY <1>1, <1>2 DEF OverflowDone

LEMMA ReturnOK ==
  ASSUME IInv, Return
  PROVE  IInv'
<1>1. /\ pc = "return" /\ pc' = "idle" /\ result' = call.size
      /\ UNCHANGED <<disk, pending, req, ret, out, byte_access_mode, call,
                     buffer, lost>>
  BY DEF Return, deviceVars
<1>2. call.size \in -1 .. 2 * SectorSize - 1
  BY CallTypes DEF IInv
<1>3. TypeOK'
  BY <1>1, <1>2 DEF IInv, TypeOK
<1>4. ReqInv' /\ BufferInv'
  BY <1>1 DEF IInv, ReqInv, BufferInv
<1>5. Moved' = Moved /\ ret # "ok"
  BY <1>1 DEF IInv, ReqInv, Moved, Returned
<1>6. ReadInv' /\ WriteInv'
  BY <1>1, <1>5 DEF IInv, ReadInv, WriteInv, Placed, Aligned, OnDisk,
     DiskByte, SectorOf, Kept
<1>7. QED
  BY <1>3, <1>4, <1>6 DEF IInv

-----------------------------------------------------------------------------
LEMMA DeviceAnswersOK ==
  ASSUME IInv, DeviceAnswers
  PROVE  IInv'
<1>1. UNCHANGED <<byte_access_mode, pc, call, buffer, result, lost, req>>
  BY DEF DeviceAnswers, ioVars, Device!ReadOk, Device!Fail, Device!Program
<1>2. /\ Moved' = Moved /\ BufferInv' /\ call.write \in BOOLEAN
      /\ Addressed(lba + Step)' = Addressed(lba + Step)
      /\ Count' = Count /\ From' = From
      /\ blocks' = blocks /\ overflow_size' = overflow_size
  BY <1>1, CallTypes DEF IInv, BufferInv, Moved, Returned, Addressed, lba,
     Step, Count, From, blocks, overflow_size
<1>3. CASE Device!ReadOk
  <2>1. /\ ret = "busy" /\ req.kind = "read" /\ pending = << >>
        /\ out' = disk[req.lba] /\ ret' = "ok"
        /\ UNCHANGED <<disk, pending>>
    BY <1>3 DEF Device!ReadOk
  <2>2. req.lba \in Lba
    BY <2>1, RequestTypes DEF IInv
  <2>3. ~call.write /\ pc \notin {"idle", "return"}
    BY <2>1 DEF IInv, ReqInv
  <2>4. out' \in Sector
    BY <2>1, <2>2 DEF IInv, TypeOK
  <2>5. TypeOK'
    BY <1>1, <2>1, <2>4 DEF IInv, TypeOK
  <2>6. ReqInv'
    BY <1>1, <1>2, <2>1, <2>3 DEF IInv, ReqInv
  <2>7. ReadInv' /\ WriteInv'
    BY <1>1, <1>2, <2>1, <2>3 DEF IInv, ReadInv, WriteInv, Placed, Aligned,
       OnDisk, DiskByte, SectorOf
  <2>8. QED
    BY <1>2, <2>5, <2>6, <2>7 DEF IInv
<1>4. CASE Device!Fail
  <2>1. ret = "busy" /\ ret' = "fail" /\ UNCHANGED <<disk, pending, out>>
    BY <1>4 DEF Device!Fail
  <2>2. TypeOK'
    BY <1>1, <2>1 DEF IInv, TypeOK
  <2>3. ReqInv'
    BY <1>1, <1>2, <2>1 DEF IInv, ReqInv
  <2>4. ReadInv' /\ WriteInv'
    BY <1>1, <1>2, <2>1 DEF IInv, ReadInv, WriteInv, Placed, Aligned, OnDisk,
       DiskByte, SectorOf, Kept
  <2>5. QED
    BY <1>2, <2>2, <2>3, <2>4 DEF IInv
<1>5. CASE Device!Program
  <2>1. /\ pending # << >> /\ pending' = << >>
        /\ disk' = [disk EXCEPT ![pending[1]] = pending[2]]
        /\ UNCHANGED <<ret, out>>
    BY <1>5 DEF Device!Program
  <2>2. /\ pending[1] \in Lba /\ pending[2] \in Sector
        /\ disk \in [Lba -> Sector]
    BY <2>1 DEF IInv, TypeOK
  <2>3. disk' \in [Lba -> Sector]
    BY <2>1, <2>2
  <2>4. TypeOK'
    BY <1>1, <2>1, <2>3 DEF IInv, TypeOK
  <2>5. ReqInv'
    BY <1>1, <1>2, <2>1 DEF IInv, ReqInv
  <2>6. ReadInv'
    BY <1>1, <1>2, <2>1 DEF IInv, ReadInv, Placed, Aligned
  <2>7. ASSUME NEW a, NEW v, Kept(a, v)
        PROVE  Kept(a, v)'
    BY <1>1, <2>1, <2>2, <2>7 DEF Kept, OnDisk, DiskByte, SectorOf
  <2>8. WriteInv'
    <3>1. Moving' = Moving /\ ret' = ret
      BY <1>1, <1>2, <2>1 DEF Moving
    <3>2. ASSUME call.write, Placed,
                 NEW i \in Moved \cup (IF ret = "ok" THEN Moving ELSE {})
          PROVE  Kept(call.address + i, buffer[i])'
      <4>1. Kept(call.address + i, buffer[i])
        BY <3>2 DEF IInv, WriteInv
      <4>2. QED
        BY <1>1, <2>7, <4>1
    <3>3. QED
      BY <1>1, <1>2, <3>1, <3>2 DEF WriteInv, Placed, Aligned
  <2>9. QED
    BY <1>2, <2>4, <2>5, <2>6, <2>8 DEF IInv
<1>6. QED
  BY <1>3, <1>4, <1>5 DEF DeviceAnswers

(* The card takes the block of a write: its sector is no longer lost, and  *)
(* what earlier transfers of the call moved is in other sectors.           *)
LEMMA DeviceTakesOK ==
  ASSUME IInv, DeviceTakes
  PROVE  IInv'
<1>1. /\ ret = "busy" /\ req.kind = "write" /\ pending = << >>
      /\ pending' = <<req.lba, req.data>> /\ ret' = "ok"
      /\ lost' = lost \ {req.lba}
      /\ UNCHANGED <<disk, req, out, byte_access_mode, pc, call, buffer,
                     result>>
  BY DEF DeviceTakes, Device!WriteOk, ioVars
<1>2. /\ Moved' = Moved /\ Moving' = Moving /\ BufferInv'
      /\ Addressed(lba + Step)' = Addressed(lba + Step)
      /\ Count' = Count /\ From' = From
      /\ blocks' = blocks /\ overflow_size' = overflow_size
  BY <1>1 DEF IInv, BufferInv, Moved, Moving, Returned, Addressed, lba,
     Step, Count, From, blocks, overflow_size
<1>3. /\ call.write /\ pc \in {"blocks", "overflow"}
      /\ pc = "blocks" => blocks # 0
      /\ pc = "overflow" => overflow_size # 0
      /\ req.lba \in Addressed(lba + Step)
      /\ \A o \in 0 .. Count - 1 : req.data[o] = buffer[From + o]
  BY <1>1, CallTypes DEF IInv, ReqInv, TypeOK
<1>4. req.lba \in Lba /\ req.data \in Sector
  BY <1>1, RequestTypes DEF IInv
<1>5. Placed => req.lba = First + Step
  BY <1>3, Reached DEF IInv
<1>6. TypeOK'
  BY <1>1, <1>4 DEF IInv, TypeOK
<1>7. ReqInv'
  BY <1>1, <1>2, <1>3 DEF IInv, ReqInv
<1>8. ReadInv'
  BY <1>1, <1>3 DEF ReadInv
<1>9. /\ SectorSize \in Nat \ {0} /\ call.size \in Nat
      /\ DOMAIN buffer = 0 .. call.size - 1
      /\ From = IF pc = "overflow" /\ ~(call.size < SectorSize)
                THEN SectorSize ELSE 0
      /\ Step = IF pc = "overflow" /\ ~(call.size < SectorSize)
                THEN 1 ELSE 0
      /\ Count \in 0 .. SectorSize
  <2>1. /\ SectorSize \in Nat \ {0} /\ call.size \in Nat
        /\ DOMAIN buffer = 0 .. call.size - 1
        /\ overflow_size \in 0 .. SectorSize - 1
        /\ IF call.size < SectorSize
           THEN blocks = 0 /\ overflow_size = call.size
           ELSE blocks = 1 /\ overflow_size = call.size - SectorSize
    BY CallTypes, Parts DEF IInv
  <2> DEFINE v == overflow_size
             b == blocks
             z == call.size
  <2>2. /\ From = IF pc = "overflow" THEN z - v ELSE 0
        /\ Step = IF pc = "overflow" THEN b ELSE 0
        /\ Count = IF pc = "overflow" THEN v ELSE SectorSize
    BY DEF From, Step, Count
  <2> HIDE DEF v, b, z
  <2>3. QED
    BY <2>1, <2>2 DEF v, b, z
<1>10. ASSUME Placed, NEW i \in Moving
       PROVE  Kept(call.address + i, buffer[i])'
  <2>1. /\ i \in DOMAIN buffer /\ i - From \in 0 .. Count - 1
        /\ i - From \in 0 .. SectorSize - 1 /\ From + (i - From) = i
    BY <1>9 DEF Moving
  <2>2. /\ SectorOf(call.address + i) = req.lba
        /\ (call.address + i) % SectorSize = i - From
    BY <1>5, <1>9, <1>10, <2>1, Place DEF IInv, Placed
  <2>3. req.data[i - From] = buffer[i]
    BY <1>3, <2>1
  <2>4. QED
    BY <1>1, <2>2, <2>3 DEF Kept, SectorOf
<1>11. ASSUME Placed, NEW i \in Moved
       PROVE  Kept(call.address + i, buffer[i])'
  <2>1. Kept(call.address + i, buffer[i])
    BY <1>3, <1>11 DEF IInv, WriteInv
  <2>2. pc = "overflow" /\ i \in DOMAIN buffer /\ i < From
    BY <1>3, <1>11 DEF Moved, Returned
  <2>3. SectorOf(call.address + i) = First /\ Step = 1 /\ First \in Nat
    BY <1>9, <1>11, <2>2, Place DEF IInv, Placed
  <2>4. SectorOf(call.address + i) # req.lba
    BY <1>5, <1>11, <2>3
  <2>5. QED
    BY <1>1, <2>1, <2>4 DEF Kept, OnDisk, DiskByte, SectorOf
<1>12. WriteInv'
  BY <1>1, <1>2, <1>10, <1>11 DEF WriteInv, Placed, Aligned
<1>13. QED
  BY <1>2, <1>6, <1>7, <1>8, <1>12 DEF IInv

(* The card loses what it took.                                            *)
LEMMA DeviceLosesOK ==
  ASSUME IInv, DeviceLoses
  PROVE  IInv'
<1>1. /\ pending # << >> /\ pending' = << >>
      /\ lost' = lost \cup {pending[1]}
      /\ UNCHANGED <<disk, req, ret, out, byte_access_mode, pc, call, buffer,
                     result>>
  BY DEF DeviceLoses, Device!Lose, ioVars
<1>2. pending[1] \in Lba
  BY <1>1 DEF IInv, TypeOK
<1>3. /\ Moved' = Moved /\ Moving' = Moving /\ BufferInv'
      /\ Addressed(lba + Step)' = Addressed(lba + Step)
      /\ Count' = Count /\ From' = From
      /\ blocks' = blocks /\ overflow_size' = overflow_size
  BY <1>1 DEF IInv, BufferInv, Moved, Moving, Returned, Addressed, lba,
     Step, Count, From, blocks, overflow_size
<1>4. TypeOK'
  BY <1>1, <1>2 DEF IInv, TypeOK
<1>5. ReqInv'
  BY <1>1, <1>3 DEF IInv, ReqInv
<1>6. ReadInv'
  BY <1>1, <1>3 DEF IInv, ReadInv, Placed, Aligned
<1>7. ASSUME NEW a, NEW v, Kept(a, v)
      PROVE  Kept(a, v)'
  BY <1>1, <1>7 DEF Kept, OnDisk, DiskByte, SectorOf
<1>8. WriteInv'
  <2>1. ASSUME call.write, Placed,
               NEW i \in Moved \cup (IF ret = "ok" THEN Moving ELSE {})
        PROVE  Kept(call.address + i, buffer[i])'
    <3>1. Kept(call.address + i, buffer[i])
      BY <2>1 DEF IInv, WriteInv
    <3>2. QED
      BY <1>1, <1>7, <3>1
  <2>2. QED
    BY <1>1, <1>3, <2>1 DEF WriteInv, Placed, Aligned
<1>9. QED
  BY <1>3, <1>4, <1>5, <1>6, <1>8 DEF IInv

-----------------------------------------------------------------------------
(* The strengthened invariant holds in every reachable state.              *)
THEOREM Invariant == Spec => []IInv
<1>1. IInv /\ [Next]_vars => IInv'
  <2> SUFFICES ASSUME IInv, [Next]_vars
               PROVE  IInv'
    OBVIOUS
  <2>1. CASE UNCHANGED vars
    <3>1. UNCHANGED <<disk, pending, req, ret, out, byte_access_mode, pc,
                      call, buffer, result, lost>>
      BY <2>1 DEF vars, deviceVars, ioVars
    <3>2. TypeOK' /\ BufferInv'
      BY <3>1 DEF IInv, TypeOK, BufferInv
    <3>3. /\ Moved' = Moved /\ Moving' = Moving
          /\ Addressed(lba + Step)' = Addressed(lba + Step)
          /\ Count' = Count /\ From' = From
          /\ blocks' = blocks /\ overflow_size' = overflow_size
      BY <3>1 DEF Moved, Moving, Returned, Addressed, lba, Step, Count, From,
         blocks, overflow_size
    <3>4. ReqInv'
      BY <3>1, <3>3 DEF IInv, ReqInv
    <3>5. ReadInv' /\ WriteInv'
      BY <3>1, <3>3 DEF IInv, ReadInv, WriteInv, Placed, Aligned, OnDisk,
         DiskByte, SectorOf, Kept
    <3>6. QED
      BY <3>2, <3>4, <3>5 DEF IInv
  <2>2. CASE Next
    BY <2>2, CallIoOK, TransferBlocksOK, BlocksDoneOK, TransferOverflowOK,
       OverflowDoneOK, ReturnOK, DeviceAnswersOK, DeviceTakesOK, DeviceLosesOK
       DEF Next
  <2>3. QED
    BY <2>1, <2>2
<1>2. QED
  BY <1>1, InitOK, PTL DEF Spec

(* Every variable of the call and of the device keeps to its values.       *)
THEOREM TypeCorrect == Spec => []TypeOK
<1>1. IInv => TypeOK
  BY DEF IInv
<1>2. QED
  BY <1>1, Invariant, PTL

(* An aligned read of less than two sectors that returned its size         *)
(* returned what the card has there (emmc.cpp:25-48).                      *)
THEOREM ReadsAligned == Spec => [](call.address < Word => AlignedRead)
<1>1. IInv => (call.address < Word => AlignedRead)
  BY DEF IInv, ReadInv, Placed, Moved, AlignedRead
<1>2. QED
  BY <1>1, Invariant, PTL

(* An aligned write of less than two sectors that returned its size has    *)
(* every byte of it on the card or in its hands, but for the sectors the   *)
(* card lost (emmc.cpp:33-51).                                             *)
THEOREM WritesAligned == Spec => [](call.address < Word => AlignedWrite)
<1>1. IInv => (call.address < Word => AlignedWrite)
  <2>1. ASSUME NEW a, NEW v, Kept(a, v)
        PROVE  Holds(a, v)
    BY <2>1 DEF Kept, Holds
  <2>2. QED
    BY <2>1 DEF IInv, WriteInv, Placed, Moved, AlignedWrite
<1>2. QED
  BY <1>1, Invariant, PTL

(* The card is asked to write only sectors that hold bytes of the call,    *)
(* aligned or not (emmc.cpp:28-44).                                        *)
THEOREM WritesStayInside ==
  ASSUME MaxAddress < Word
  PROVE  Spec => WritesInside
<1> DEFINE Inside == pending' \notin {pending, << >>} =>
                       /\ call.write
                       /\ pending'[1] \in {SectorOf(call.address + i) :
                                             i \in DOMAIN buffer}
<1>1. IInv /\ [Next]_vars => [Inside]_vars
  <2> SUFFICES ASSUME IInv, Next, pending' \notin {pending, << >>}
               PROVE  /\ call.write
                      /\ pending'[1] \in {SectorOf(call.address + i) :
                                            i \in DOMAIN buffer}
    OBVIOUS
  <2>1. DeviceTakes
    BY DEF Next, CallIo, TransferBlocks, TransferOverflow, Transfer,
       BlocksDone, OverflowDone, Return, DeviceAnswers, DeviceLoses,
       deviceVars, Device!Request, Device!ReadOk, Device!Fail,
       Device!Program, Device!Lose
  <2>2. /\ ret = "busy" /\ req.kind = "write"
        /\ pending' = <<req.lba, req.data>>
    BY <2>1 DEF DeviceTakes, Device!WriteOk
  <2>3. /\ call.write
        /\ req.lba \in Addressed(lba + Step)
        /\ \/ pc = "blocks" /\ blocks # 0
           \/ pc = "overflow" /\ overflow_size # 0
    BY <2>2, CallTypes DEF IInv, ReqInv, TypeOK
  <2>4. call.address < Word
    BY CallTypes DEF IInv
  <2>5. \E i \in DOMAIN buffer : req.lba = SectorOf(call.address + i)
    BY <2>3, <2>4, Reached DEF IInv
  <2>6. QED
    BY <2>2, <2>3, <2>5
<1>2. QED
  BY <1>1, Invariant, PTL DEF Spec, WritesInside

=============================================================================
