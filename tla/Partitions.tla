----------------------------- MODULE Partitions -----------------------------
(***************************************************************************)
(* The partitions of a disk: rescan_partitions                             *)
(* (src/src/kernel/device/disk.cpp:7-42) with parse_mbr                    *)
(* (src/src/kernel/partition/mbr_parser.cpp:25-57), and the partition_dev  *)
(* objects made from the table (src/include/kernel/device/partition.h).    *)
(*                                                                         *)
(* A caller keeps a copy of a partition_dev, as kernel_main does with      *)
(* primary(), while sector 0 is written through the disk and the disk is   *)
(* scanned again.  The disk is an emmc_dev, whose ioctl always has a       *)
(* sector count (device/emmc.cpp:56-58): the early return of disk.cpp:26   *)
(* is not reached.                                                         *)
(***************************************************************************)
EXTENDS Integers, FiniteSets

CONSTANTS
    Word,           \* values of a u32
    SectorSize,     \* sector_size(), bytes in a sector (512)
    SectorCount,    \* what ioctl_get_sector_count answers
    Entries,        \* partition entries in a master boot record (4)
    MaxPartitions,  \* the capacity of the two lists (16)
    Cards,          \* what sector 0 may hold
    NoDev           \* a partition_dev that was never set: device is null

Index == 0 .. MaxPartitions - 1
Slot  == 0 .. Entries - 1
U32   == 0 .. Word - 1

(* struct mbr, as far as parse_mbr looks: whether the signature is 0xAA55, *)
(* and of an entry its type (0 or another), lba_start and sectors.         *)
Entry == [type : {0, 1}, start : U32, sectors : U32]
Mbr   == [signed : BOOLEAN, entries : [Slot -> Entry]]

ASSUME PartitionsAssumption ==
    /\ Word \in Nat \ {0}
    /\ SectorSize \in Nat \ {0}
    /\ SectorCount \in U32
    /\ MaxPartitions \in Nat \ {0}
    /\ Entries \in 1 .. MaxPartitions
    /\ Cards \subseteq Mbr

VARIABLES
    card,        \* sector 0 of the card (external)
    pc,          \* where rescan_partitions is, "idle" outside
    mbr,         \* the local of parse_mbr
    i,           \* the loop variable of either loop
    part_table,  \* the list of partitions: data and count
    part_devs,   \* the list of partition devices: data and count
    handle,      \* the caller's copy of a partition_dev
    fresh        \* no scan has begun since the caller took it

vars == <<card, pc, mbr, i, part_table, part_devs, handle, fresh>>

Partition == [start_sector : U32, end_sector : U32]
Device    == [start : Nat, end : Nat, part : Index, number : Index]

TypeOK ==
    /\ card \in Mbr
    /\ pc \in {"idle", "read", "signature", "entries", "whole", "devs"}
    /\ mbr \in Mbr
    /\ i \in 0 .. MaxPartitions
    /\ part_table \in [data : [Index -> Partition], count : 0 .. MaxPartitions]
    /\ part_devs \in [data  : [Index -> Device \cup {NoDev}],
                      count : 0 .. MaxPartitions]
    /\ handle \in Device \cup {NoDev}
    /\ fresh \in BOOLEAN

(* list::add writes at count, and does not look at the capacity: beyond it *)
(* something else in memory is overwritten.                                *)
add(list, value) ==
    [data  |-> [k \in DOMAIN list.data |->
                  IF k = list.count THEN value ELSE list.data[k]],
     count |-> list.count + 1]

clear(list) == [list EXCEPT !.count = 0]

NoPartitions ==
    [data  |-> [k \in Index |-> [start_sector |-> 0, end_sector |-> 0]],
     count |-> 0]

Init ==
    /\ card \in Cards
    /\ pc = "idle"
    /\ mbr = card
    /\ i = 0
    /\ part_table = NoPartitions
    /\ part_devs = [data |-> [k \in Index |-> NoDev], count |-> 0]
    /\ handle = NoDev
    /\ fresh = FALSE

-----------------------------------------------------------------------------
(* ioctl_rescan_partitions, to disk.cpp:11.                                *)
RescanPartitions ==
    /\ pc = "idle"
    /\ part_table' = NoPartitions
    /\ pc' = "read"
    /\ fresh' = FALSE
    /\ UNCHANGED <<card, mbr, i, part_devs, handle>>

(* mbr_parser.cpp:31: the read fails, or gets what the card holds.         *)
ReadMbr ==
    /\ pc = "read"
    /\ \/ /\ pc' = "whole"
          /\ UNCHANGED mbr
       \/ /\ mbr' = card
          /\ pc' = "signature"
    /\ UNCHANGED <<card, i, part_table, part_devs, handle, fresh>>

CheckSignature ==     \* mbr_parser.cpp:35
    /\ pc = "signature"
    /\ pc' = IF mbr.signed THEN "entries" ELSE "whole"
    /\ i' = 0
    /\ UNCHANGED <<card, mbr, part_table, part_devs, handle, fresh>>

InUse(item) == item.type # 0 /\ item.sectors # 0

PartitionOf(item) ==
    [start_sector |-> item.start,
     end_sector   |-> (item.start + item.sectors) % Word]

(* One round of the loop of mbr_parser.cpp:39-54.                          *)
M_AddEveryEntry ==
    /\ pc = "entries" /\ i \in Slot
    /\ part_table' = IF mbr.entries[i].type # 0
                     THEN add(part_table, PartitionOf(mbr.entries[i]))
                     ELSE part_table
    /\ i' = i + 1
    /\ UNCHANGED <<card, pc, mbr, part_devs, handle, fresh>>

AddEntry ==
    /\ pc = "entries" /\ i \in Slot
    /\ part_table' = IF InUse(mbr.entries[i])
                     THEN add(part_table, PartitionOf(mbr.entries[i]))
                     ELSE part_table
    /\ i' = i + 1
    /\ UNCHANGED <<card, pc, mbr, part_devs, handle, fresh>>

(* disk.cpp:38, after a parser that found its table or the fallback.       *)
StartDevices ==
    /\ part_devs' = clear(part_devs)
    /\ i' = 0
    /\ pc' = "devs"

EntriesDone ==
    /\ pc = "entries" /\ i \notin Slot
    /\ StartDevices
    /\ UNCHANGED <<card, mbr, part_table, handle, fresh>>

(* disk.cpp:22-35: no parser found a table, the whole disk is a partition. *)
M_WholeDiskWithoutDevice ==
    /\ pc = "whole"
    /\ part_table' = add(part_table, [start_sector |-> 0,
                                      end_sector   |-> SectorCount])
    /\ pc' = "idle"
    /\ UNCHANGED <<card, mbr, i, part_devs, handle, fresh>>

WholeDisk ==
    /\ pc = "whole"
    /\ part_table' = add(part_table, [start_sector |-> 0,
                                      end_sector   |-> SectorCount])
    /\ StartDevices
    /\ UNCHANGED <<card, mbr, handle, fresh>>

(* The constructor of partition_dev, partition.h:16-20: start and end are  *)
(* computed once, part points into the table.                              *)
M_StartInSectors(n) ==
    [start  |-> part_table.data[n].start_sector,
     end    |-> part_table.data[n].end_sector * SectorSize,
     part   |-> n,
     number |-> n]

partition_dev(n) ==
    [start  |-> part_table.data[n].start_sector * SectorSize,
     end    |-> part_table.data[n].end_sector * SectorSize,
     part   |-> n,
     number |-> n]

(* One round of the loop of disk.cpp:39-41.                                *)
AddDevice ==
    /\ pc = "devs" /\ i < part_table.count
    /\ part_devs' = add(part_devs, partition_dev(i))
    /\ i' = i + 1
    /\ UNCHANGED <<card, pc, mbr, part_table, handle, fresh>>

DevicesDone ==
    /\ pc = "devs" /\ i \geq part_table.count
    /\ pc' = "idle"
    /\ UNCHANGED <<card, mbr, i, part_table, part_devs, handle, fresh>>

(* auto part = dev.partition(n): a copy.  primary() does not ask whether   *)
(* there is a partition (disk.h:35-41).                                    *)
TakePartition ==
    /\ pc = "idle"
    /\ \E n \in Index :
          /\ n = 0 \/ n < part_devs.count
          /\ handle' = part_devs.data[n]
          /\ fresh' = (n < part_devs.count)
    /\ UNCHANGED <<card, pc, mbr, i, part_table, part_devs>>

(* Someone writes sector 0, through the disk.                              *)
WriteCard ==
    /\ pc = "idle"
    /\ card' \in Cards
    /\ UNCHANGED <<pc, mbr, i, part_table, part_devs, handle, fresh>>

Next == \/ RescanPartitions \/ ReadMbr \/ CheckSignature \/ AddEntry
        \/ EntriesDone \/ WholeDisk \/ AddDevice \/ DevicesDone
        \/ TakePartition \/ WriteCard

Spec == Init /\ [][Next]_vars

-----------------------------------------------------------------------------
UsedBefore(n) == {k \in Slot : k < n /\ InUse(mbr.entries[k])}

(* The table is the entries in use, in their order and none twice, however *)
(* often the disk was scanned before: entry k comes after those in use     *)
(* before it (mbr_parser.cpp:39-54).                                       *)
TableOfMbr ==
    pc = "entries" =>
        /\ part_table.count = Cardinality(UsedBefore(i))
        /\ \A k \in UsedBefore(i) :
              part_table.data[Cardinality(UsedBefore(k))]
                  = PartitionOf(mbr.entries[k])

(* Between two scans the devices are those of the table, one for each      *)
(* partition, also after scans of other tables and scans that failed       *)
(* (disk.cpp:7-42).                                                        *)
InStep ==
    pc = "idle" =>
        /\ part_devs.count = part_table.count
        /\ \A k \in Index :
              k < part_devs.count => part_devs.data[k] = partition_dev(k)

(* partition_dev::read and write, over the driver's sector of an address:  *)
(* what common_io_op asks of a card that is addressed by sector            *)
(* (partition.h:24-32, device/emmc.cpp:28-30).                             *)
sector(dev, offset) == ((offset + dev.start) % Word) \div SectorSize

(* What ioctl tells through a copy: of the partition, what the table now   *)
(* holds where part points (block.cpp:4-18); the rest is asked of the disk *)
(* (device/emmc.cpp:57-62).                                                *)
ioctl(dev, request) ==
    CASE request = "partition_start"  -> part_table.data[dev.part].start_sector
      [] request = "partition_end"    -> part_table.data[dev.part].end_sector
      [] request = "partition_number" -> dev.number
      [] request = "sector_count"     -> SectorCount
      [] request = "sector_size"      -> SectorSize

(* Until the next scan begins, a read or write through a caller's copy     *)
(* stays in the partition that ioctl reports, for offsets below its size   *)
(* and addresses below 2^32: start is in bytes, part in sectors            *)
(* (partition.h:16-32).  The code checks neither of these, nor that the    *)
(* copy is not of an earlier scan: what it does then is not in this.       *)
OwnSectors ==
    fresh => LET first == ioctl(handle, "partition_start")
                 end   == ioctl(handle, "partition_end")
             IN  \A offset \in 0 .. (end - first) * SectorSize - 1 :
                    handle.start + offset < Word =>
                        sector(handle, offset) \in first .. end - 1
=============================================================================
