-------------------------- MODULE PartitionsProofs --------------------------
(* Proofs about Partitions, for lists of any capacity, master boot records *)
(* of any number of entries and any contents of sector 0.                  *)
EXTENDS Partitions, FiniteSetTheorems, TLAPS

List(Value) == [data : [Index -> Value], count : 0 .. MaxPartitions]

(* What list::add does while there is room.                                *)
LEMMA AddToList ==
  ASSUME NEW Value, NEW list \in List(Value), NEW value \in Value,
         list.count < MaxPartitions
  PROVE  /\ add(list, value) \in List(Value)
         /\ add(list, value).count = list.count + 1
         /\ add(list, value).data[list.count] = value
         /\ \A k \in Index : k # list.count =>
               add(list, value).data[k] = list.data[k]
<1>1. MaxPartitions \in Nat
  BY PartitionsAssumption DEF PartitionsAssumption
<1>2. /\ list.data \in [Index -> Value] /\ list.count \in Index
      /\ DOMAIN list.data = Index
  BY <1>1 DEF List, Index
<1> DEFINE d == [k \in DOMAIN list.data |->
                   IF k = list.count THEN value ELSE list.data[k]]
<1>3. d \in [Index -> Value]
  BY <1>2
<1>4. list.count + 1 \in 0 .. MaxPartitions
  BY <1>1, <1>2 DEF Index
<1>5. add(list, value) = [data |-> d, count |-> list.count + 1]
  BY DEF add
<1>6. d[list.count] = value /\ \A k \in Index : k # list.count =>
                                  d[k] = list.data[k]
  BY <1>2
<1> HIDE DEF d
<1>7. QED
  BY <1>3, <1>4, <1>5, <1>6 DEF List

LEMMA ClearList ==
  ASSUME NEW Value, NEW list \in List(Value)
  PROVE  clear(list) \in List(Value) /\ clear(list).count = 0
<1>1. MaxPartitions \in Nat
  BY PartitionsAssumption DEF PartitionsAssumption
<1>2. QED
  BY <1>1 DEF List, clear

-----------------------------------------------------------------------------
(* The entries in use before n: finitely many, no more than n, and one     *)
(* more after each of them.                                                *)
LEMMA UsedCount ==
  ASSUME NEW n \in 0 .. Entries
  PROVE  /\ IsFiniteSet(UsedBefore(n))
         /\ Cardinality(UsedBefore(n)) \in 0 .. n
<1>1. Entries \in Nat /\ n \in Int
  BY PartitionsAssumption DEF PartitionsAssumption
<1>2. IsFiniteSet(0 .. n - 1) /\ Cardinality(0 .. n - 1) = n
  BY <1>1, FS_Interval
<1>3. UsedBefore(n) \in SUBSET (0 .. n - 1)
  BY <1>1 DEF UsedBefore, Slot
<1>4. IsFiniteSet(UsedBefore(n)) /\ Cardinality(UsedBefore(n)) \leq n
  BY <1>2, <1>3, FS_Subset
<1>5. Cardinality(UsedBefore(n)) \in Nat
  BY <1>4, FS_CardinalityType
<1>6. QED
  BY <1>1, <1>4, <1>5

LEMMA UsedNext ==
  ASSUME NEW n \in Slot
  PROVE  /\ UsedBefore(n + 1) = IF InUse(mbr.entries[n])
                                THEN UsedBefore(n) \cup {n}
                                ELSE UsedBefore(n)
         /\ InUse(mbr.entries[n]) =>
               Cardinality(UsedBefore(n + 1)) = Cardinality(UsedBefore(n)) + 1
<1>1. Entries \in Nat /\ n \in 0 .. Entries /\ Slot \subseteq Int
  BY PartitionsAssumption DEF PartitionsAssumption, Slot
<1>2. UsedBefore(n + 1) = IF InUse(mbr.entries[n])
                          THEN UsedBefore(n) \cup {n} ELSE UsedBefore(n)
  <2> HIDE DEF InUse
  <2>1. \A k \in Slot : k < n + 1 <=> k < n \/ k = n
    BY <1>1
  <2> QED
    BY <1>1, <2>1 DEF UsedBefore
<1>3. n \notin UsedBefore(n)
  BY <1>1 DEF UsedBefore
<1>4. QED
  BY <1>1, <1>2, <1>3, UsedCount, FS_AddElement

LEMMA UsedGrows ==
  ASSUME NEW n \in 0 .. Entries, NEW k \in UsedBefore(n)
  PROVE  Cardinality(UsedBefore(k)) < Cardinality(UsedBefore(n))
<1>1. Entries \in Nat /\ k \in Slot /\ k < n /\ InUse(mbr.entries[k])
  BY PartitionsAssumption DEF PartitionsAssumption, UsedBefore
<1>2. k \in 0 .. Entries /\ k + 1 \in 0 .. Entries /\ k \in Int
  BY <1>1 DEF Slot
<1>3. Cardinality(UsedBefore(k + 1)) = Cardinality(UsedBefore(k)) + 1
  BY <1>1, UsedNext
<1>4. UsedBefore(k + 1) \in SUBSET UsedBefore(n)
  <2> HIDE DEF InUse
  <2> QED BY <1>1, <1>2 DEF UsedBefore, Slot
<1>5. Cardinality(UsedBefore(k + 1)) \leq Cardinality(UsedBefore(n))
  BY <1>4, UsedCount, FS_Subset
<1>6. Cardinality(UsedBefore(k)) \in Nat /\ Cardinality(UsedBefore(n)) \in Nat
  BY <1>2, UsedCount
<1>7. QED
  BY <1>3, <1>5, <1>6
-----------------------------------------------------------------------------
(* What holds during a scan: the table is filled from empty, a device is   *)
(* made of each of its partitions in turn.                                 *)
ScanInv ==
    /\ pc \in {"read", "signature", "whole"} => part_table.count = 0
    /\ pc = "entries" => i \leq Entries

DevsInv ==
    pc = "devs" =>
        /\ part_devs.count = i
        /\ i \leq part_table.count
        /\ \A k \in Index : k < i => part_devs.data[k] = partition_dev(k)

(* A fresh copy is the device of a partition of the table.                 *)
HandleInv ==
    fresh => /\ pc = "idle"
             /\ \E n \in Index : n < part_table.count
                                 /\ handle = partition_dev(n)

IInv == TypeOK /\ ScanInv /\ TableOfMbr /\ DevsInv /\ InStep /\ HandleInv

LEMMA TypesOfLists ==
  TypeOK => /\ part_table \in List(Partition)
            /\ part_devs \in List(Device \cup {NoDev})
            /\ part_table.count \in 0 .. MaxPartitions
            /\ part_devs.count \in 0 .. MaxPartitions
            /\ MaxPartitions \in Nat
BY PartitionsAssumption DEF PartitionsAssumption, TypeOK, List

LEMMA PartitionTypes ==
  /\ \A item \in Entry : PartitionOf(item) \in Partition
  /\ [start_sector |-> 0, end_sector |-> SectorCount] \in Partition
<1>1. Word \in Nat \ {0} /\ SectorCount \in U32
  BY PartitionsAssumption DEF PartitionsAssumption
<1>2. ASSUME NEW item \in Entry PROVE PartitionOf(item) \in Partition
  <2>1. item.start \in U32 /\ item.sectors \in Nat
    BY <1>1 DEF Entry, U32
  <2>2. (item.start + item.sectors) % Word \in U32
    BY <1>1, <2>1 DEF U32
  <2> QED BY <2>1, <2>2 DEF PartitionOf, Partition
<1>3. 0 \in U32
  BY <1>1 DEF U32
<1> QED BY <1>1, <1>2, <1>3 DEF Partition

LEMMA DeviceType ==
  ASSUME TypeOK, NEW n \in Index
  PROVE  partition_dev(n) \in Device
<1>1. part_table.data[n] \in Partition
  BY DEF TypeOK
<1>2. /\ part_table.data[n].start_sector \in Nat
      /\ part_table.data[n].end_sector \in Nat
  BY <1>1 DEF Partition, U32
<1>3. SectorSize \in Nat
  BY PartitionsAssumption DEF PartitionsAssumption
<1>4. /\ part_table.data[n].start_sector * SectorSize \in Nat
      /\ part_table.data[n].end_sector * SectorSize \in Nat
  BY <1>2, <1>3
<1> QED BY <1>4 DEF partition_dev, Device

LEMMA InitInv == Init => IInv
<1> SUFFICES ASSUME Init PROVE IInv
  OBVIOUS
<1>1. /\ Word \in Nat \ {0} /\ MaxPartitions \in Nat \ {0}
      /\ Cards \subseteq Mbr
  BY PartitionsAssumption DEF PartitionsAssumption
<1>2. NoPartitions \in List(Partition) /\ NoPartitions.count = 0
  BY <1>1 DEF NoPartitions, List, Partition, U32
<1>3. TypeOK
  BY <1>1, <1>2 DEF Init, TypeOK, List
<1>4. InStep
  BY <1>2 DEF Init, InStep, Index
<1> QED
  BY <1>3, <1>4 DEF Init, IInv, ScanInv, TableOfMbr, DevsInv, HandleInv
-----------------------------------------------------------------------------
LEMMA TableUnchanged ==
  ASSUME part_table' = part_table
  PROVE  \A n \in Index : partition_dev(n)' = partition_dev(n)
BY DEF partition_dev

(* A scan leaves no copy fresh, and outside of one the table stays.        *)
LEMMA HandleStep ==
  ASSUME HandleInv, part_table' = part_table, pc' = pc,
         UNCHANGED <<handle, fresh>>
  PROVE  HandleInv'
BY TableUnchanged DEF HandleInv

LEMMA NotFresh ==
  ASSUME HandleInv, pc # "idle", fresh' = fresh, TypeOK
  PROVE  HandleInv'
BY DEF HandleInv, TypeOK

LEMMA AddEntryInv == IInv /\ AddEntry => IInv'
<1> SUFFICES ASSUME IInv, AddEntry PROVE IInv'
  OBVIOUS
<1> DEFINE item == mbr.entries[i]
           used == Cardinality(UsedBefore(i))
<1>1. /\ Entries \in 1 .. MaxPartitions /\ MaxPartitions \in Nat
      /\ i \in Slot /\ i \in 0 .. Entries /\ i + 1 \in 0 .. Entries
      /\ i < MaxPartitions
  BY PartitionsAssumption DEF PartitionsAssumption, AddEntry, Slot
<1>2. pc = "entries" /\ pc' = "entries" /\ mbr' = mbr /\ i' = i + 1
  BY DEF AddEntry
<1>3. item \in Entry /\ PartitionOf(item) \in Partition
  <2>1. item \in Entry
    BY <1>1 DEF IInv, TypeOK, Mbr
  <2> QED BY <2>1, PartitionTypes
<1>4. used \in 0 .. i /\ part_table.count = used /\ used < MaxPartitions
      /\ used \in Index
  BY <1>1, <1>2, UsedCount DEF IInv, TableOfMbr, Index
<1>5. \/ InUse(item) /\ part_table' = add(part_table, PartitionOf(item))
      \/ ~InUse(item) /\ part_table' = part_table
  BY DEF AddEntry
<1>6. part_table \in List(Partition)
  BY TypesOfLists DEF IInv
<1>7. ASSUME InUse(item)
      PROVE  /\ part_table' \in List(Partition)
             /\ part_table'.count = used + 1
             /\ part_table'.data[used] = PartitionOf(item)
             /\ \A k \in Index : k # used =>
                   part_table'.data[k] = part_table.data[k]
  <2>1. part_table' = add(part_table, PartitionOf(item))
    BY <1>5, <1>7
  <2> HIDE DEF used, item
  <2> QED BY <1>3, <1>4, <1>6, <2>1, AddToList
<1>8. TypeOK'
  <2>1. part_table' \in List(Partition)
    BY <1>5, <1>6, <1>7
  <2> QED BY <1>1, <2>1 DEF IInv, TypeOK, AddEntry, List
<1>9. TableOfMbr'
  <2>1. /\ UsedBefore(i)' = UsedBefore(i + 1)
        /\ \A n : UsedBefore(n)' = UsedBefore(n)
    BY <1>2 DEF UsedBefore
  <2>2. part_table'.count = Cardinality(UsedBefore(i + 1))
    <3>1. CASE InUse(item)
      BY <1>1, <1>7, <3>1, UsedNext
    <3>2. CASE ~InUse(item)
      BY <1>1, <1>4, <1>5, <3>2, UsedNext
    <3> QED BY <3>1, <3>2
  <2>3. ASSUME NEW k \in UsedBefore(i + 1)
        PROVE  part_table'.data[Cardinality(UsedBefore(k))]
                  = PartitionOf(mbr.entries[k])
    <3>1. CASE k \in UsedBefore(i)
      <4>1. Cardinality(UsedBefore(k)) < used
        BY <1>1, <3>1, UsedGrows
      <4>2. k \in 0 .. Entries
        BY <1>1, <3>1 DEF UsedBefore, Slot
      <4>3. Cardinality(UsedBefore(k)) \in Index
        BY <1>1, <1>4, <4>1, <4>2, UsedCount DEF Index
      <4>4. part_table.data[Cardinality(UsedBefore(k))]
              = PartitionOf(mbr.entries[k])
        BY <1>2, <3>1 DEF IInv, TableOfMbr
      <4> HIDE DEF used
      <4>5. Cardinality(UsedBefore(k)) # part_table.count
        BY <1>4, <4>1, <4>3 DEF Index
      <4>6. part_table'.data[Cardinality(UsedBefore(k))]
              = part_table.data[Cardinality(UsedBefore(k))]
        <5> HIDE DEF item
        <5> QED BY <1>4, <1>5, <1>7, <4>3, <4>5
      <4> QED BY <4>4, <4>6
    <3>2. CASE k \notin UsedBefore(i)
      <4>1. InUse(item) /\ k = i
        BY <1>1, <3>2, UsedNext
      <4> QED
        BY <1>7, <4>1
    <3> QED BY <3>1, <3>2
  <2> QED BY <1>2, <2>1, <2>2, <2>3 DEF TableOfMbr
<1>10. ScanInv' /\ DevsInv' /\ InStep'
  BY <1>1, <1>2 DEF ScanInv, DevsInv, InStep
<1>11. HandleInv'
  BY <1>2, NotFresh DEF IInv, AddEntry
<1> QED
  BY <1>8, <1>9, <1>10, <1>11 DEF IInv

LEMMA AddDeviceInv == IInv /\ AddDevice => IInv'
<1> SUFFICES ASSUME IInv, AddDevice PROVE IInv'
  OBVIOUS
<1>1. /\ pc = "devs" /\ pc' = "devs" /\ i < part_table.count /\ i' = i + 1
      /\ part_devs' = add(part_devs, partition_dev(i))
      /\ part_table' = part_table
  BY DEF AddDevice
<1>2. /\ part_devs \in List(Device \cup {NoDev})
      /\ part_table.count \in 0 .. MaxPartitions
      /\ MaxPartitions \in Nat
      /\ i \in 0 .. MaxPartitions
  BY TypesOfLists DEF IInv, TypeOK
<1>3. /\ part_devs.count = i /\ i \in Index
      /\ \A k \in Index : k < i => part_devs.data[k] = partition_dev(k)
  BY <1>1, <1>2 DEF IInv, DevsInv, Index
<1>4. partition_dev(i) \in Device
  BY <1>3, DeviceType DEF IInv
<1>5. /\ part_devs' \in List(Device \cup {NoDev})
      /\ part_devs'.count = i + 1
      /\ part_devs'.data[i] = partition_dev(i)
      /\ \A k \in Index : k # i => part_devs'.data[k] = part_devs.data[k]
  BY <1>1, <1>2, <1>3, <1>4, AddToList DEF Index
<1>6. TypeOK'
  BY <1>2, <1>3, <1>5 DEF IInv, TypeOK, AddDevice, List, Index
<1>7. DevsInv'
  <2>1. \A k \in Index : partition_dev(k)' = partition_dev(k)
    BY <1>1, TableUnchanged
  <2>2. \A k \in Index : k < i + 1 => k < i \/ k = i
    BY <1>3 DEF Index
  <2>3. \A k \in Index : k < i + 1 => part_devs'.data[k] = partition_dev(k)
    BY <1>3, <1>5, <2>2
  <2> QED BY <1>1, <1>2, <1>5, <2>1, <2>3 DEF DevsInv
<1>8. ScanInv' /\ TableOfMbr' /\ InStep'
  BY <1>1 DEF ScanInv, TableOfMbr, InStep
<1>9. HandleInv'
  BY <1>1, NotFresh DEF IInv, AddDevice
<1> QED
  BY <1>6, <1>7, <1>8, <1>9 DEF IInv

(* Starting on the devices: none is left of the scan before.               *)
LEMMA StartDevicesInv ==
  ASSUME IInv, StartDevices, part_table' \in List(Partition), pc # "idle",
         UNCHANGED <<card, mbr, handle, fresh>>
  PROVE  IInv'
<1>1. /\ part_devs \in List(Device \cup {NoDev}) /\ MaxPartitions \in Nat
  BY TypesOfLists DEF IInv
<1>2. /\ part_devs' \in List(Device \cup {NoDev})
      /\ part_devs'.count = 0 /\ pc' = "devs" /\ i' = 0
  BY <1>1, ClearList DEF StartDevices
<1>3. part_table'.count \in Nat /\ \A k \in Index : ~(k < 0)
  BY <1>1 DEF List, Index
<1>4. TypeOK'
  BY <1>1, <1>2 DEF IInv, TypeOK, List
<1>5. DevsInv'
  BY <1>2, <1>3 DEF DevsInv
<1>6. ScanInv' /\ TableOfMbr' /\ InStep'
  BY <1>2 DEF ScanInv, TableOfMbr, InStep
<1>7. HandleInv'
  BY NotFresh DEF IInv
<1> QED
  BY <1>4, <1>5, <1>6, <1>7 DEF IInv

LEMMA EntriesDoneInv == IInv /\ EntriesDone => IInv'
BY StartDevicesInv, TypesOfLists DEF EntriesDone, IInv

LEMMA WholeDiskInv == IInv /\ WholeDisk => IInv'
<1> SUFFICES ASSUME IInv, WholeDisk PROVE IInv'
  OBVIOUS
<1> DEFINE whole == [start_sector |-> 0, end_sector |-> SectorCount]
<1>1. /\ part_table \in List(Partition) /\ part_table.count = 0
      /\ 0 < MaxPartitions /\ whole \in Partition
      /\ part_table' = add(part_table, whole)
  BY PartitionsAssumption, TypesOfLists, PartitionTypes
  DEF PartitionsAssumption, IInv, ScanInv, WholeDisk
<1> HIDE DEF whole
<1>2. part_table' \in List(Partition)
  BY <1>1, AddToList
<1> QED
  BY <1>2, StartDevicesInv DEF WholeDisk

LEMMA CheckSignatureInv == IInv /\ CheckSignature => IInv'
<1> SUFFICES ASSUME IInv, CheckSignature PROVE IInv'
  OBVIOUS
<1>1. /\ pc = "signature" /\ pc' \in {"entries", "whole"} /\ i' = 0
      /\ UNCHANGED <<card, mbr, part_table, part_devs, handle, fresh>>
  BY DEF CheckSignature
<1>2. Entries \in Nat /\ MaxPartitions \in Nat
  BY PartitionsAssumption DEF PartitionsAssumption
<1>3. TypeOK'
  BY <1>1, <1>2 DEF IInv, TypeOK
<1>4. UsedBefore(i)' = {}
  <2>1. \A k \in Slot : ~(k < 0)
    BY <1>2 DEF Slot
  <2> QED BY <1>1, <2>1 DEF UsedBefore
<1>5. part_table'.count = 0
  BY <1>1 DEF IInv, ScanInv
<1>6. TableOfMbr'
  BY <1>4, <1>5, FS_EmptySet DEF TableOfMbr
<1>7. ScanInv' /\ DevsInv' /\ InStep'
  BY <1>1, <1>2, <1>5 DEF ScanInv, DevsInv, InStep
<1>8. HandleInv'
  BY <1>1, NotFresh DEF IInv
<1> QED
  BY <1>3, <1>6, <1>7, <1>8 DEF IInv

LEMMA RescanInv == IInv /\ RescanPartitions => IInv'
<1> SUFFICES ASSUME IInv, RescanPartitions PROVE IInv'
  OBVIOUS
<1>1. Word \in Nat \ {0} /\ MaxPartitions \in Nat
  BY PartitionsAssumption DEF PartitionsAssumption
<1>2. NoPartitions \in List(Partition) /\ NoPartitions.count = 0
  BY <1>1 DEF NoPartitions, List, Partition, U32
<1>3. TypeOK'
  BY <1>2 DEF IInv, TypeOK, RescanPartitions, List
<1> QED
  BY <1>2, <1>3
  DEF RescanPartitions, IInv, ScanInv, TableOfMbr, DevsInv, InStep, HandleInv

LEMMA ReadMbrInv == IInv /\ ReadMbr => IInv'
<1> SUFFICES ASSUME IInv, ReadMbr PROVE IInv'
  OBVIOUS
<1>1. /\ pc = "read" /\ pc' \in {"whole", "signature"} /\ mbr' \in {mbr, card}
      /\ UNCHANGED <<card, i, part_table, part_devs, handle, fresh>>
  BY DEF ReadMbr
<1>2. TypeOK'
  BY <1>1 DEF IInv, TypeOK
<1>3. HandleInv'
  BY <1>1, NotFresh DEF IInv
<1> QED
  BY <1>1, <1>2, <1>3 DEF IInv, ScanInv, TableOfMbr, DevsInv, InStep

LEMMA DevicesDoneInv == IInv /\ DevicesDone => IInv'
<1> SUFFICES ASSUME IInv, DevicesDone PROVE IInv'
  OBVIOUS
<1>1. /\ pc = "devs" /\ pc' = "idle" /\ i \geq part_table.count
      /\ UNCHANGED <<card, mbr, i, part_table, part_devs, handle, fresh>>
  BY DEF DevicesDone
<1>2. TypeOK'
  BY <1>1 DEF IInv, TypeOK
<1>3. InStep'
  <2>1. /\ part_devs.count = i /\ i \leq part_table.count
        /\ \A k \in Index : k < i => part_devs.data[k] = partition_dev(k)
    BY <1>1 DEF IInv, DevsInv
  <2>2. i = part_table.count
    BY <1>1, <2>1, TypesOfLists DEF IInv, TypeOK
  <2>3. \A k \in Index : partition_dev(k)' = partition_dev(k)
    BY <1>1, TableUnchanged
  <2> QED BY <1>1, <2>1, <2>2, <2>3 DEF InStep
<1>4. HandleInv'
  BY <1>1, NotFresh DEF IInv
<1> QED
  BY <1>1, <1>2, <1>3, <1>4 DEF IInv, ScanInv, TableOfMbr, DevsInv

LEMMA TakePartitionInv == IInv /\ TakePartition => IInv'
<1> SUFFICES ASSUME IInv, TakePartition PROVE IInv'
  OBVIOUS
<1>1. PICK n \in Index : handle' = part_devs.data[n]
                         /\ fresh' = (n < part_devs.count)
  BY DEF TakePartition
<1>2. /\ pc = "idle"
      /\ UNCHANGED <<card, pc, mbr, i, part_table, part_devs>>
  BY DEF TakePartition
<1>3. TypeOK'
  BY <1>1, <1>2 DEF IInv, TypeOK
<1>4. \A k \in Index : partition_dev(k)' = partition_dev(k)
  BY <1>2, TableUnchanged
<1>5. /\ part_devs.count = part_table.count
      /\ \A k \in Index :
            k < part_devs.count => part_devs.data[k] = partition_dev(k)
  BY <1>2 DEF IInv, InStep
<1>6. HandleInv'
  BY <1>1, <1>2, <1>4, <1>5 DEF HandleInv
<1>7. InStep'
  BY <1>2, <1>4, <1>5 DEF InStep
<1> QED
  BY <1>2, <1>3, <1>6, <1>7 DEF IInv, ScanInv, TableOfMbr, DevsInv

LEMMA CardOrNothing ==
  ASSUME IInv, card' \in Mbr,
         UNCHANGED <<pc, mbr, i, part_table, part_devs, handle, fresh>>
  PROVE  IInv'
<1>1. /\ \A k \in Index : partition_dev(k)' = partition_dev(k)
      /\ \A n : UsedBefore(n)' = UsedBefore(n)
      /\ UsedBefore(i)' = UsedBefore(i)
  BY TableUnchanged DEF UsedBefore
<1>2. TypeOK' /\ ScanInv'
  BY DEF IInv, TypeOK, ScanInv
<1>3. TableOfMbr'
  BY <1>1 DEF IInv, TableOfMbr
<1>4. DevsInv' /\ InStep' /\ HandleInv'
  BY <1>1, HandleStep DEF IInv, DevsInv, InStep
<1> QED
  BY <1>2, <1>3, <1>4 DEF IInv

LEMMA WriteCardInv == IInv /\ WriteCard => IInv'
BY CardOrNothing, PartitionsAssumption DEF WriteCard, PartitionsAssumption

(* The inductive invariant: the lists stay in their capacity, the table is *)
(* that of the record, the devices are those of the table.                 *)
THEOREM Invariant == Spec => []IInv
<1>1. IInv /\ [Next]_vars => IInv'
  <2> SUFFICES ASSUME IInv, [Next]_vars PROVE IInv'
    OBVIOUS
  <2>1. CASE RescanPartitions BY <2>1, RescanInv
  <2>2. CASE ReadMbr          BY <2>2, ReadMbrInv
  <2>3. CASE CheckSignature   BY <2>3, CheckSignatureInv
  <2>4. CASE AddEntry         BY <2>4, AddEntryInv
  <2>5. CASE EntriesDone      BY <2>5, EntriesDoneInv
  <2>6. CASE WholeDisk        BY <2>6, WholeDiskInv
  <2>7. CASE AddDevice        BY <2>7, AddDeviceInv
  <2>8. CASE DevicesDone      BY <2>8, DevicesDoneInv
  <2>9. CASE TakePartition    BY <2>9, TakePartitionInv
  <2>10. CASE WriteCard       BY <2>10, WriteCardInv
  <2>11. CASE UNCHANGED vars
    BY <2>11, CardOrNothing DEF vars, IInv, TypeOK
  <2> QED
    BY <2>1, <2>2, <2>3, <2>4, <2>5, <2>6, <2>7, <2>8, <2>9, <2>10, <2>11
    DEF Next
<1> QED
  BY <1>1, InitInv, PTL DEF Spec

(* The lists of disk_device never outgrow their arrays, although list::add *)
(* does not look (list.h:36-38).                                           *)
THEOREM ListsInBounds == Spec => []TypeOK
BY Invariant, PTL DEF IInv

(* The partitions of a record are its entries in use, in order.            *)
THEOREM TableIsOfMbr == Spec => []TableOfMbr
BY Invariant, PTL DEF IInv

(* Between two scans the devices are those of the table.                   *)
THEOREM DevicesInStep == Spec => []InStep
BY Invariant, PTL DEF IInv

-----------------------------------------------------------------------------
LEMMA Scale ==
  ASSUME NEW a \in Nat, NEW b \in Nat, a < b
  PROVE  a * SectorSize + SectorSize \leq b * SectorSize
<1>1. PICK d \in Nat : b = a + 1 + d
  <2>1. b - a - 1 \in Nat /\ b = a + 1 + (b - a - 1)
    OBVIOUS
  <2> QED BY <2>1
<1>2. SectorSize \in Nat /\ d * SectorSize \in Nat
  BY PartitionsAssumption DEF PartitionsAssumption
<1>3. b * SectorSize = a * SectorSize + SectorSize + d * SectorSize
  BY <1>1, <1>2
<1>4. a * SectorSize \in Nat
  BY <1>2
<1> QED
  BY <1>2, <1>3, <1>4

(* A byte between two sector boundaries is in a sector between them.       *)
LEMMA SectorBetween ==
  ASSUME NEW s \in Nat, NEW e \in Nat, NEW a \in Nat,
         s * SectorSize \leq a, a < e * SectorSize
  PROVE  a \div SectorSize \in s .. e - 1
<1> DEFINE q == a \div SectorSize
           r == a % SectorSize
           x == q * SectorSize
           y == s * SectorSize
           z == e * SectorSize
<1>1. SectorSize \in Nat \ {0}
  BY PartitionsAssumption DEF PartitionsAssumption
<1>2. q \in Nat /\ r \in 0 .. SectorSize - 1 /\ a = x + r
  BY <1>1
<1>3. x \in Nat /\ y \in Nat /\ z \in Nat
  <2> HIDE DEF q
  <2> QED BY <1>1, <1>2
<1>4. y \leq a /\ a < z
  OBVIOUS
<1>5. /\ q < s => x + SectorSize \leq y
      /\ e \leq q => z \leq x
  <2>1. e \in Nat /\ s \in Nat /\ q \in Nat
    BY <1>2
  <2>2. q < s => x + SectorSize \leq y
    BY <2>1, Scale
  <2>3. e < q => z + SectorSize \leq x
    BY <2>1, Scale
  <2> HIDE DEF q
  <2>4. e = q => z = x
    OBVIOUS
  <2> HIDE DEF x, y, z
  <2> QED BY <1>1, <1>3, <2>1, <2>2, <2>3, <2>4
<1> HIDE DEF q, r, x, y, z
<1>6. s \leq q /\ q < e
  BY <1>1, <1>2, <1>3, <1>4, <1>5
<1>7. q \in s .. e - 1
  BY <1>2, <1>6
<1> QED
  BY <1>7 DEF q

LEMMA OwnSectorsInv == IInv => OwnSectors
<1> SUFFICES ASSUME IInv, fresh PROVE OwnSectors
  BY DEF OwnSectors
<1>1. PICK n \in Index : handle = partition_dev(n)
  BY DEF IInv, HandleInv
<1> DEFINE p == part_table.data[n]
           s == p.start_sector
           e == p.end_sector
<1>2. p \in Partition
  BY DEF IInv, TypeOK
<1>3. s \in Nat /\ e \in Nat
  BY <1>2 DEF Partition, U32
<1>4. handle.part = n /\ handle.start = s * SectorSize
  BY <1>1 DEF partition_dev
<1>5. SectorSize \in Nat /\ Word \in Nat \ {0}
  BY PartitionsAssumption DEF PartitionsAssumption
<1> HIDE DEF p, s, e
<1>6. ASSUME NEW offset \in 0 .. (e - s) * SectorSize - 1,
             handle.start + offset < Word
      PROVE  sector(handle, offset) \in s .. e - 1
  <2> DEFINE a == s * SectorSize
             z == e * SectorSize
             d == (e - s) * SectorSize
  <2>1. a \in Nat /\ z \in Nat /\ d \in Int /\ d = z - a
    BY <1>3, <1>5
  <2>2. offset \in 0 .. d - 1 /\ a + offset < Word /\ handle.start = a
    BY <1>4, <1>6
  <2>3. a + offset \in Nat /\ a \leq a + offset /\ a + offset < z
    <3> HIDE DEF a, z, d
    <3> QED BY <2>1, <2>2
  <2>4. (offset + handle.start) % Word = a + offset
    <3> HIDE DEF a, z, d
    <3> QED BY <1>5, <2>1, <2>2, <2>3
  <2>5. (a + offset) \div SectorSize \in s .. e - 1
    BY <1>3, <2>3, SectorBetween
  <2> QED BY <2>4, <2>5 DEF sector
<1>7. s = ioctl(handle, "partition_start") /\ e = ioctl(handle, "partition_end")
  BY <1>4 DEF ioctl, p, s, e
<1> QED
  BY <1>6, <1>7 DEF OwnSectors

(* Until the next scan begins a caller's copy reads and writes in its      *)
(* partition only, for offsets inside it and addresses below Word.         *)
THEOREM CopiesReadOwnSectors == Spec => []OwnSectors
BY Invariant, OwnSectorsInv, PTL
=============================================================================
