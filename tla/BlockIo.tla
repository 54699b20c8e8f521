------------------------------- MODULE BlockIo -------------------------------
(***************************************************************************)
(* emmc_dev::read and write (src/src/kernel/device/emmc.cpp:13-52): bytes  *)
(* at a byte address, out of transfer_block.  The device underneath is the *)
(* BlockDevice that EmmcHost implements; here it serves the requests that  *)
(* common_io_op makes.                                                     *)
(*                                                                         *)
(* Sizes stay below two sectors: blocks is 0 or 1.  With more the driver   *)
(* sends a multiple block command, which is never stopped; EmmcHost models *)
(* what comes of that.                                                     *)
(***************************************************************************)
EXTENDS Integers

CONSTANTS
    SectorSize,   \* device->block_size (512)
    MaxLba,       \* the card holds the sectors 0..MaxLba
    Word,         \* values of a u32: the local lba wraps there
    MaxAddress,   \* the largest address a caller passes
    Byte,         \* values of a byte
    NoByte,       \* a byte of the caller's buffer that nobody wrote
    NoBlock       \* no block, for BlockDevice

ASSUME BlockIoAssumption ==
    /\ SectorSize \in Nat \ {0}
    /\ MaxLba \in Nat
    /\ Word \in Nat \ {0}
    /\ MaxAddress \in Nat
    /\ NoByte \notin Byte

Lba    == 0 .. MaxLba
Offset == 0 .. SectorSize - 1
Sector == [Offset -> Byte]

VARIABLES
    disk, pending, req, ret, out,   \* as in BlockDevice
    byte_access_mode,  \* device->byte_access_mode: lba is a byte address
    pc,                \* the next transfer, "idle" between two calls
    call,              \* the arguments of the call, or of the last one
    buffer,            \* the caller's buffer
    result,            \* what the last call returned, -1 while one runs
    lost               \* the sectors whose last block the card took and lost

deviceVars == <<disk, pending, req, ret, out>>
ioVars     == <<byte_access_mode, pc, call, buffer, result>>
vars       == <<deviceVars, ioVars, lost>>

Device == INSTANCE BlockDevice WITH Data <- Sector

Calls == [address : 0 .. MaxAddress, size : 0 .. 2 * SectorSize - 1,
          write : BOOLEAN]

NoBytes == [i \in {} |-> NoByte]

TypeOK ==
    /\ disk \in [Lba -> Sector]
    /\ pending \in {<< >>} \cup (Lba \X Sector)
    /\ req \in Device!Requests \cup {Device!Other}
    /\ ret \in {"none", "busy", "ok", "fail"}
    /\ out \in Sector \cup {NoBlock}
    /\ byte_access_mode \in BOOLEAN
    /\ pc \in {"idle", "blocks", "overflow", "return"}
    /\ call \in Calls
    /\ buffer \in [0 .. call.size - 1 -> Byte \cup {NoByte}]
    /\ result \in -1 .. 2 * SectorSize - 1
    /\ lost \subseteq Lba

Init ==
    /\ Device!Init
    /\ byte_access_mode \in BOOLEAN
    /\ pc = "idle"
    /\ call = [address |-> 0, size |-> 0, write |-> FALSE]
    /\ buffer = NoBytes
    /\ result = -1
    /\ lost = {}

-----------------------------------------------------------------------------
(* The locals of common_io_op, lines 25-30.                                *)
overflow_size == call.size % SectorSize
blocks        == call.size \div SectorSize
lba           == IF byte_access_mode THEN call.address % Word
                 ELSE (call.address % Word) \div SectorSize

(* Where the card looks for argument a of a data command: a byte address   *)
(* has to be the first of a sector.  No sector: the command fails.         *)
Addressed(a) ==
    IF byte_access_mode
    THEN {l \in Lba : l * SectorSize = a}
    ELSE {l \in Lba : l = a}

(* transfer_block(a, block, 1, write) is called: it is under way while ret *)
(* is "busy".                                                              *)
Transfer(a, block) ==
    /\ ret # "busy"
    /\ Device!Request
    /\ req' = IF Addressed(a) = {} THEN Device!Other
              ELSE [kind |-> IF call.write THEN "write" ELSE "read",
                    lba  |-> CHOOSE l \in Addressed(a) : TRUE,
                    num  |-> 1,
                    data |-> IF call.write THEN block ELSE NoBlock]

(* The step the call goes on with, once the full blocks are done.          *)
AfterBlocks == IF overflow_size # 0 THEN "overflow" ELSE "return"

(* emmc_dev::read or write, up to line 33.  The caller of write passes its *)
(* bytes, the caller of read a buffer to fill.                             *)
CallIo ==
    /\ pc = "idle"
    /\ call' \in Calls
    /\ buffer' \in IF call'.write THEN [0 .. call'.size - 1 -> Byte]
                   ELSE {[i \in 0 .. call'.size - 1 |-> NoByte]}
    /\ result' = -1
    /\ pc' = IF blocks' # 0 THEN "blocks" ELSE AfterBlocks'
    /\ ret' = "none"
    /\ UNCHANGED <<disk, pending, req, out, byte_access_mode, lost>>

(* Line 34: the call of transfer_block for the full blocks.                *)
TransferBlocks ==
    /\ pc = "blocks" /\ ret = "none"
    /\ Transfer(lba, [o \in Offset |-> buffer[o]])
    /\ UNCHANGED <<ioVars, lost>>

(* It returned, lines 34-40.                                               *)
BlocksDone ==
    /\ pc = "blocks" /\ ret \in {"ok", "fail"}
    /\ \/ /\ ret = "fail"
          /\ result' = -1
          /\ pc' = "idle"
          /\ UNCHANGED buffer
       \/ /\ ret = "ok"
          /\ buffer' = IF call.write THEN buffer
                       ELSE [i \in DOMAIN buffer |->
                               IF i \in Offset THEN out[i] ELSE buffer[i]]
          /\ pc' = AfterBlocks
          /\ UNCHANGED result
    /\ ret' = "none"
    /\ UNCHANGED <<disk, pending, req, out, byte_access_mode, call, lost>>

(* Lines 41-44: the rest of a write is put at the start of overflow, which *)
(* is transferred whole.  What else it holds nobody has initialised.       *)
M_OverflowFromStart(rest) ==
    [o \in Offset |-> IF call.write /\ o < overflow_size
                      THEN buffer[o] ELSE rest[o]]

OverflowBlock(rest) ==
    [o \in Offset |-> IF call.write /\ o < overflow_size
                      THEN buffer[call.size - overflow_size + o] ELSE rest[o]]

M_OverflowPastEnd ==
    /\ pc = "overflow" /\ ret = "none"
    /\ \E rest \in Sector : Transfer(lba + blocks + 1, OverflowBlock(rest))
    /\ UNCHANGED <<ioVars, lost>>

TransferOverflow ==
    /\ pc = "overflow" /\ ret = "none"
    /\ \E rest \in Sector : Transfer(lba + blocks, OverflowBlock(rest))
    /\ UNCHANGED <<ioVars, lost>>

(* It returned, lines 44-49.                                               *)
M_CopyFromBufferStart ==
    /\ pc = "overflow" /\ ret \in {"ok", "fail"}
    /\ \/ /\ ret = "fail"
          /\ result' = -1
          /\ pc' = "idle"
          /\ UNCHANGED buffer
       \/ /\ ret = "ok"
          /\ buffer' = IF call.write THEN buffer
                       ELSE [i \in DOMAIN buffer |->
                               IF i < overflow_size THEN out[i]
                                                    ELSE buffer[i]]
          /\ pc' = "return"
          /\ UNCHANGED result
    /\ ret' = "none"
    /\ UNCHANGED <<disk, pending, req, out, byte_access_mode, call, lost>>

M_CopyWholeSector ==
    /\ pc = "overflow" /\ ret \in {"ok", "fail"}
    /\ \/ /\ ret = "fail"
          /\ result' = -1
          /\ pc' = "idle"
          /\ UNCHANGED buffer
       \/ /\ ret = "ok"
          /\ buffer' = IF call.write THEN buffer
                       ELSE [i \in 0 .. call.size - overflow_size
                                        + SectorSize - 1 |->
                               IF i < call.size - overflow_size THEN buffer[i]
                               ELSE out[i - (call.size - overflow_size)]]
          /\ pc' = "return"
          /\ UNCHANGED result
    /\ ret' = "none"
    /\ UNCHANGED <<disk, pending, req, out, byte_access_mode, call, lost>>

OverflowDone ==
    /\ pc = "overflow" /\ ret \in {"ok", "fail"}
    /\ \/ /\ ret = "fail"
          /\ result' = -1
          /\ pc' = "idle"
          /\ UNCHANGED buffer
       \/ /\ ret = "ok"
          /\ buffer' = IF call.write THEN buffer
                       ELSE [i \in DOMAIN buffer |->
                               IF i < call.size - overflow_size THEN buffer[i]
                               ELSE out[i - (call.size - overflow_size)]]
          /\ pc' = "return"
          /\ UNCHANGED result
    /\ ret' = "none"
    /\ UNCHANGED <<disk, pending, req, out, byte_access_mode, call, lost>>

Return ==     \* line 51
    /\ pc = "return"
    /\ result' = call.size
    /\ pc' = "idle"
    /\ UNCHANGED <<deviceVars, byte_access_mode, call, buffer, lost>>

(* The device serves the request, and programs or loses what it took, also *)
(* after the call.                                                         *)
DeviceAnswers ==
    /\ \/ Device!ReadOk
       \/ Device!Fail
       \/ Device!Program
    /\ UNCHANGED <<ioVars, lost>>

DeviceTakes ==
    /\ Device!WriteOk
    /\ lost' = lost \ {req.lba}
    /\ UNCHANGED ioVars

DeviceLoses ==
    /\ Device!Lose
    /\ lost' = lost \cup {pending[1]}
    /\ UNCHANGED ioVars

Next == \/ CallIo \/ TransferBlocks \/ BlocksDone \/ TransferOverflow
        \/ OverflowDone \/ Return \/ DeviceAnswers \/ DeviceTakes
        \/ DeviceLoses

Spec == Init /\ [][Next]_vars

-----------------------------------------------------------------------------
SectorOf(a)  == a \div SectorSize
DiskByte(a)  == disk[SectorOf(a)][a % SectorSize]
OnDisk(a)    == SectorOf(a) \in Lba
Aligned      == call.address % SectorSize = 0
Returned     == pc = "idle" /\ result = call.size

(* A read of less than two sectors, at a sector boundary, that returned    *)
(* its size returned exactly the bytes of the card there, the rest of a    *)
(* sector included (emmc.cpp:25-48).                                       *)
AlignedRead ==
    (Returned /\ ~call.write /\ Aligned /\ call.size > 0)
        => \A i \in DOMAIN buffer :
              /\ OnDisk(call.address + i)
              /\ buffer[i] = DiskByte(call.address + i)

(* The card is asked to write only sectors that hold bytes of the call,    *)
(* also when the card takes the second transfer after the first was lost   *)
(* (emmc.cpp:28-44).                                                       *)
WritesInside ==
    [][pending' \notin {pending, << >>} =>
         /\ call.write
         /\ pending'[1] \in {SectorOf(call.address + i) : i \in DOMAIN buffer}
      ]_vars

(* Byte b is on the card at address a, or the card has it in its hands.    *)
Holds(a, b) ==
    \/ SectorOf(a) \in lost
    \/ /\ pending # << >> /\ pending[1] = SectorOf(a)
       /\ pending[2][a % SectorSize] = b
    \/ OnDisk(a) /\ DiskByte(a) = b

(* A write of less than two sectors, at a sector boundary, that returned   *)
(* its size has every byte of it on the card or in its hands, at its       *)
(* address, unless the card lost the sector (emmc.cpp:33-51).              *)
AlignedWrite ==
    (Returned /\ call.write /\ Aligned)
        => \A i \in DOMAIN buffer : Holds(call.address + i, buffer[i])
=============================================================================
