--------------------------- MODULE Storage_proofs ---------------------------
(***************************************************************************)
(* Theorems about Storage for every set of partition starts, every size of *)
(* a new volume and any number of resets.                                  *)
(***************************************************************************)
EXTENDS Storage, TLAPS

(***************************************************************************)
(* The inductive invariant                                                 *)
(***************************************************************************)

Formatting == {"mkfs", "mbr", "vbr", "area"}
Searching  == {"sector0", "partition"}

\* How far fatfs_init is: f_mkfs runs between the two mounts, and a volume is
\* there only at the end.
Progress ==
    /\ pc = "link" => mounts = 0
    /\ pc = "mount" => mounts \in {0, 1}
    /\ pc \in {"initialize"} \cup Searching => mounts \in {1, 2}
    /\ pc \in Formatting => mounts = 1
    /\ volume # NoVolume => pc = "running"
    /\ pc \in {"mbr", "vbr"} => wsect = 0
    /\ pc = "area" => wsect < AreaSectors
    /\ pc \in Searching \cup Formatting => is_initialized

\* No two partitions in one place.
Distinct == \A k, l \in Entries : k # l => card.br[k] = 0 \/ card.br[k] # card.br[l]

\* The loop over the entries has passed entry k by.
Skipped(k) == BootSectorOf(k) \in {"boot", "none"} \/ card.br[k] \in unread

\* What find_volume knows: the entries before i hold no volume it could read,
\* and what it could not read is one of them.
Search ==
    /\ pc \in {"initialize", "sector0"} => unread = {}
    /\ pc = "partition" =>
         /\ card.sector0 = "boot"
         /\ \A k \in 1..(i - 1) : Skipped(k)
         /\ \A s \in unread : s # 0 /\ \E k \in 1..(i - 1) : s = card.br[k]
    /\ pc \in {"mkfs", "mbr"} /\ HasVolume =>
         /\ 0 \notin unread /\ card.br[4] \notin unread
         /\ \A s \in FirstOffered : s \in unread

\* The partition table of f_mkfs, then the boot sector of its volume.
Partitioned == card.sector0 = "boot" /\ card.br[1] = MkfsStart
Formatted   == Partitioned /\ card.vbr[MkfsStart] = "fat"

Remount ==
    /\ pc = "vbr" => Partitioned
    /\ pc = "area" => Formatted
    /\ mounts = 2 \/ (pc = "mount" /\ mounts = 1) => is_initialized /\ Formatted

\* The volumes that can be mounted are whole.
Whole ==
    /\ card.sector0 = "fat" => 0 \in card.whole
    /\ \A k \in Entries : card.br[k] # 0 /\ card.vbr[card.br[k]] = "fat"
                            => card.br[k] \in card.whole
    /\ card.vbr[MkfsStart] = "fat" => MkfsStart \in card.whole

WholeUnlessCut == cut \/ pc = "area" \/ Whole

\* f_mkfs leaves no other entry in the table.
OneEntry == pc \in {"vbr", "area"} => \A k \in Entries \ {1} : card.br[k] = 0

IInv ==
    /\ TypeOK
    /\ Progress /\ Distinct /\ Search /\ Remount /\ OneEntry
    /\ WholeUnlessCut /\ HalfFormattedOnlyIfCut /\ RunsOnFirstVolume

(***************************************************************************)
(* What a card offers                                                      *)
(***************************************************************************)

\* A card offers a volume when a file system covers it or a partition holds one.
LEMMA VolumesOffered ==
    HasVolume <=> \/ card.sector0 = "fat"
                  \/ card.sector0 = "boot" /\ \E k \in Entries : Offers(k)
BY DEF HasVolume, WholeCard, SectorsWhere

\* The first volume is the covering file system or the first partition offered.
LEMMA FirstVolume ==
    \A s : s \in FirstOffered <=>
             \/ s = 0 /\ card.sector0 = "fat"
             \/ card.sector0 = "boot" /\ \E k \in Entries : First(k) /\ s = card.br[k]
BY DEF FirstOffered, WholeCard, SectorsWhere

\* What a card offers depends on the card only.
LEMMA SameCard ==
    ASSUME card' = card
    PROVE  /\ HasVolume' <=> HasVolume
           /\ FirstOffered' = FirstOffered
           /\ \A k : BootSectorOf(k)' = BootSectorOf(k)
BY DEF HasVolume, FirstOffered, WholeCard, SectorsWhere, First, Offers, BootSectorOf

\* The kinds of the sectors the search meets.
LEMMA Sectors ==
    ASSUME TypeOK, NEW k \in Entries
    PROVE  /\ card.sector0 \in Kinds /\ card.br[k] \in Starts \cup {0}
           /\ card.br[k] # 0 => card.vbr[card.br[k]] \in Kinds
           /\ BootSectorOf(k) \in Kinds
BY DEF TypeOK, Cards, BootSectorOf, Kinds

(***************************************************************************)
(* Types                                                                   *)
(***************************************************************************)

\* Power-on gives every variable a value of its type.
LEMMA InitTyped == Init => TypeOK
<1> SUFFICES ASSUME Init PROVE TypeOK
  OBVIOUS
<1>1. card \in Cards
  BY DEF Init, InitialCards
<1>2. is_initialized \in BOOLEAN /\ faulty \in BOOLEAN /\ cut \in BOOLEAN
  BY Zenon DEF Init, PowerOn
<1>3. mounts \in 0..2 /\ i \in Entries /\ wsect \in 0..AreaSectors /\ resets \in 0..MaxResets
  BY StorageAssumption DEF Init, PowerOn, Entries
<1>4. QED
  BY <1>1, <1>2, <1>3 DEF Init, PowerOn, TypeOK

\* What f_mkfs makes of the card is a card.
LEMMA CardUpdates ==
    ASSUME card \in Cards
    PROVE  NewTable \in Cards /\ NewBoot \in Cards /\ NewArea \in Cards
<1> USE StorageAssumption DEF Cards, Kinds
<1>1. [k \in Entries |-> IF k = 1 THEN MkfsStart ELSE 0] \in [Entries -> Starts \cup {0}]
  OBVIOUS
<1>2. NewTable \in Cards
  BY <1>1 DEF NewTable
<1>3. [card.vbr EXCEPT ![MkfsStart] = "fat"] \in [Starts -> Kinds]
  OBVIOUS
<1>4. NewBoot \in Cards
  BY <1>3 DEF NewBoot
<1>5. NewArea \in Cards
  BY DEF NewArea
<1>6. QED
  BY <1>2, <1>4, <1>5

\* The results of f_mount lead to a place in fatfs_init.
LEMMA AfterMountType ==
    \A res : AfterMount(res) \in {"running", "mkfs", "halted"}
BY DEF AfterMount

\* Every step of the boot keeps the types.
LEMMA StepTyped == TypeOK /\ Progress /\ [Next]_vars => TypeOK'
<1> SUFFICES ASSUME TypeOK, Progress, [Next]_vars PROVE TypeOK'
  OBVIOUS
<1> USE StorageAssumption
<1>1. CASE FATFS_LinkDriver
  BY <1>1 DEF FATFS_LinkDriver, history, TypeOK
<1>2. CASE f_mount
  BY <1>2 DEF f_mount, driver, TypeOK, Progress
<1>3. CASE disk_initialize
  BY <1>3, AfterMountType DEF disk_initialize, SD_initialize, Fails, driver, TypeOK
<1>4. CASE CheckSector0
  <2>1. unread' \subseteq Starts \cup {0} /\ faulty' \in BOOLEAN
    BY <1>4 DEF CheckSector0, check_fs, TypeOK
  <2>2. volume' \in Starts \cup {0, NoVolume}
    BY <1>4 DEF CheckSector0, Mounted, Fails, TypeOK
  <2>3. pc' \in {"partition", "running", "mkfs", "halted"}
    BY <1>4, AfterMountType DEF CheckSector0, Mounted, Fails
  <2>4. QED
    BY <1>4, <2>1, <2>2, <2>3 DEF CheckSector0, driver, TypeOK, Entries
<1>5. CASE CheckPartition
  <2>1. card.br[i] \in Starts \cup {0}
    BY Sectors DEF TypeOK
  <2>2. unread' \subseteq Starts \cup {0} /\ faulty' \in BOOLEAN
    BY <1>5, <2>1 DEF CheckPartition, CheckEmpty, CheckUsed, check_fs, TypeOK
  <2>3. i' \in Entries
    BY <1>5 DEF CheckPartition, NextEntry, TypeOK, Entries
  <2>4. volume' \in Starts \cup {0, NoVolume}
    BY <1>5, <2>1 DEF CheckPartition, Mounted, Fails, TypeOK
  <2>5. pc' \in {"partition", "running", "mkfs", "halted"}
    BY <1>5, AfterMountType DEF CheckPartition, Mounted, Fails
  <2>6. QED
    BY <1>5, <2>2, <2>3, <2>4, <2>5 DEF CheckPartition, driver, TypeOK
<1>6. CASE f_mkfs
  BY <1>6 DEF f_mkfs, driver, history, TypeOK
<1>7. CASE WriteMBR
  <2>1. card' \in Cards /\ pc' \in {"vbr", "halted"} /\ faulty' \in BOOLEAN
    BY <1>7, CardUpdates DEF WriteMBR, disk_write, TypeOK
  <2>2. QED
    BY <1>7, <2>1 DEF WriteMBR, driver, TypeOK
<1>8. CASE WriteVBR
  <2>1. card' \in Cards /\ pc' \in {"area", "halted"} /\ faulty' \in BOOLEAN
    BY <1>8, CardUpdates DEF WriteVBR, disk_write, TypeOK
  <2>2. QED
    BY <1>8, <2>1 DEF WriteVBR, driver, TypeOK
<1>9. CASE WriteArea
  <2>1. wsect' \in 0..AreaSectors
    BY <1>9 DEF WriteArea, TypeOK, Progress
  <2>2. card' \in Cards /\ pc' \in {"mount", "area", "halted"} /\ faulty' \in BOOLEAN
    BY <1>9, CardUpdates DEF WriteArea, disk_write, TypeOK
  <2>3. QED
    BY <1>9, <2>1, <2>2 DEF WriteArea, driver, TypeOK
<1>10. CASE Reset
  <2>1. resets' \in 0..MaxResets
    BY <1>10 DEF Reset, TypeOK
  <2>2. cut' \in BOOLEAN
    BY <1>10 DEF Reset, TypeOK
  <2>3. is_initialized' \in BOOLEAN /\ faulty' \in BOOLEAN
    BY <1>10, Zenon DEF Reset
  <2>4. mounts' \in 0..2 /\ i' \in Entries /\ wsect' \in 0..AreaSectors
    BY <1>10 DEF Reset, Entries
  <2>5. QED
    BY <1>10, <2>1, <2>2, <2>3, <2>4 DEF Reset, TypeOK
<1>11. CASE UNCHANGED vars
  BY <1>11 DEF vars, driver, history, TypeOK
<1>12. QED
  BY <1>1, <1>2, <1>3, <1>4, <1>5, <1>6, <1>7, <1>8, <1>9, <1>10, <1>11
     DEF Next, fatfs_init

(***************************************************************************)
(* The course of the boot                                                  *)
(***************************************************************************)

\* Formatting follows the first mount only, and after the second everything
\* runs on.
LEMMA AfterMountFacts ==
    /\ AfterMount("OK") = "running"
    /\ \A res : AfterMount(res) = "mkfs" => mounts # 2 /\ res = "NO_FILESYSTEM"
    /\ \A res : AfterMount(res) = "running" /\ res # "OK" => mounts = 2
BY DEF AfterMount

\* At power-on nothing has been searched, mounted or formatted.
LEMMA InitProgress == Init => Progress /\ Distinct /\ Search /\ Remount /\ OneEntry
<1> SUFFICES ASSUME Init PROVE Progress /\ Distinct /\ Search /\ Remount /\ OneEntry
  OBVIOUS
<1>1. Progress
  BY DEF Init, PowerOn, Progress, Searching, Formatting
<1>2. Distinct
  BY DEF Init, InitialCards, Distinct
<1>3. Search /\ Remount /\ OneEntry
  BY DEF Init, PowerOn, Search, Remount, OneEntry
<1>4. QED
  BY <1>1, <1>2, <1>3

\* Every step keeps the bookkeeping of the search: the place in fatfs_init, the
\* entry being checked and the mounts so far agree.
LEMMA StepProgress == TypeOK /\ Progress /\ [Next]_vars => Progress'
<1> SUFFICES ASSUME TypeOK, Progress, [Next]_vars PROVE Progress'
  OBVIOUS
<1> USE StorageAssumption, AfterMountFacts, AfterMountType DEF Progress, Searching, Formatting
<1>1. CASE FATFS_LinkDriver
  BY <1>1 DEF FATFS_LinkDriver
<1>2. CASE f_mount
  BY <1>2 DEF f_mount, driver
<1>3. CASE disk_initialize
  BY <1>3 DEF disk_initialize, SD_initialize, Fails, driver, TypeOK
<1>4. CASE CheckSector0
  BY <1>4 DEF CheckSector0, Mounted, Fails, driver
<1>5. CASE CheckPartition
  BY <1>5 DEF CheckPartition, Mounted, Fails, driver
<1>6. CASE f_mkfs
  BY <1>6 DEF f_mkfs, driver
<1>7. CASE WriteMBR
  BY <1>7 DEF WriteMBR, disk_write, driver
<1>8. CASE WriteVBR
  BY <1>8 DEF WriteVBR, disk_write, driver
<1>9. CASE WriteArea
  BY <1>9 DEF WriteArea, AreaDone, disk_write, driver, TypeOK
<1>10. CASE Reset
  BY <1>10 DEF Reset
<1>11. CASE UNCHANGED vars
  BY <1>11 DEF vars, driver
<1>12. QED
  BY <1>1, <1>2, <1>3, <1>4, <1>5, <1>6, <1>7, <1>8, <1>9, <1>10, <1>11
     DEF Next, fatfs_init

\* The writes of f_mkfs, as what they do to the fields of the card.
LEMMA CardFields ==
    ASSUME card \in Cards
    PROVE  /\ NewTable.sector0 = "boot" /\ NewTable.whole = card.whole \ {0}
           /\ NewTable.vbr = card.vbr
           /\ NewTable.br[1] = MkfsStart /\ \A k \in Entries \ {1} : NewTable.br[k] = 0
           /\ NewBoot.sector0 = card.sector0 /\ NewBoot.br = card.br
           /\ NewBoot.vbr[MkfsStart] = "fat"
           /\ NewArea.sector0 = card.sector0 /\ NewArea.br = card.br
           /\ NewArea.vbr = card.vbr /\ NewArea.whole = {MkfsStart}
<1> USE StorageAssumption DEF Cards
<1>1. /\ NewTable.sector0 = "boot" /\ NewTable.whole = card.whole \ {0}
      /\ NewTable.vbr = card.vbr
      /\ NewTable.br = [k \in Entries |-> IF k = 1 THEN MkfsStart ELSE 0]
  BY DEF NewTable
<1>2. NewTable.br[1] = MkfsStart /\ \A k \in Entries \ {1} : NewTable.br[k] = 0
  BY <1>1 DEF Entries
<1>3. NewBoot.sector0 = card.sector0 /\ NewBoot.br = card.br
  BY DEF NewBoot
<1>4. NewBoot.vbr = [card.vbr EXCEPT ![MkfsStart] = "fat"]
  BY DEF NewBoot
<1>5. NewBoot.vbr[MkfsStart] = "fat"
  BY <1>4
<1>6. /\ NewArea.sector0 = card.sector0 /\ NewArea.br = card.br
      /\ NewArea.vbr = card.vbr /\ NewArea.whole = {MkfsStart}
  BY DEF NewArea
<1>7. QED
  BY <1>1, <1>2, <1>3, <1>5, <1>6

\* Only the writes of f_mkfs change the card.
CardKept == FATFS_LinkDriver \/ f_mount \/ disk_initialize \/ CheckSector0
            \/ CheckPartition \/ f_mkfs \/ Reset \/ UNCHANGED vars

\* Only the writes of f_mkfs change the card.
LEMMA CardKeptSame == CardKept => card' = card
BY DEF CardKept, FATFS_LinkDriver, f_mount, disk_initialize, CheckSector0,
       CheckPartition, f_mkfs, Reset, vars

\* The steps of the boot, apart by whether they touch the card.
LEMMA Steps == [Next]_vars <=> CardKept \/ WriteMBR \/ WriteVBR \/ WriteArea
BY DEF Next, fatfs_init, CardKept

Table == Distinct /\ OneEntry /\ Remount

\* The partition table keeps its shape: entries apart from each other, and the
\* single entry of a table f_mkfs wrote.
LEMMA StepTable ==
    TypeOK /\ Progress /\ Progress' /\ Table /\ [Next]_vars => Table'
<1> SUFFICES ASSUME TypeOK, Progress, Progress', Table, [Next]_vars PROVE Table'
  OBVIOUS
<1>0. card \in Cards
  BY DEF TypeOK
<1>1. CASE CardKept
  <2>1. card' = card
    BY <1>1, CardKeptSame
  <2>2. Distinct'
    BY <2>1 DEF Table, Distinct
  <2>3. OneEntry'
    BY <1>1, <2>1, AfterMountType DEF CardKept, FATFS_LinkDriver, f_mount,
       disk_initialize, CheckSector0, CheckPartition, f_mkfs, Reset, vars, Mounted,
       Fails, Table, OneEntry
  <2>4. Remount'
    <3> USE <2>1, AfterMountType DEF Table, Remount, Partitioned, Formatted, Progress,
            Searching, Formatting
    <3>1. CASE FATFS_LinkDriver
      BY <3>1 DEF FATFS_LinkDriver
    <3>2. CASE f_mount
      BY <3>2 DEF f_mount, driver
    <3>3. CASE disk_initialize
      BY <3>3 DEF disk_initialize, SD_initialize, Fails, driver
    <3>4. CASE CheckSector0
      BY <3>4 DEF CheckSector0, Mounted, Fails, driver
    <3>5. CASE CheckPartition
      BY <3>5 DEF CheckPartition, Mounted, Fails, driver
    <3>6. CASE f_mkfs
      BY <3>6 DEF f_mkfs, driver
    <3>7. CASE Reset
      BY <3>7 DEF Reset
    <3>8. CASE UNCHANGED vars
      BY <3>8 DEF vars, driver
    <3>9. QED
      BY <1>1, <3>1, <3>2, <3>3, <3>4, <3>5, <3>6, <3>7, <3>8 DEF CardKept
  <2>5. QED
    BY <2>2, <2>3, <2>4 DEF Table
<1>2. CASE WriteMBR
  <2>1. card' \in {card, NewTable} /\ pc' \in {"vbr", "halted"}
    BY <1>2 DEF WriteMBR, disk_write
  <2>2. pc' = "vbr" => card' = NewTable
    BY <1>2 DEF WriteMBR, disk_write
  <2>3. Distinct'
    BY <2>1, <1>0, CardFields DEF Table, Distinct, Entries
  <2>4. mounts' = 1
    BY <1>2 DEF WriteMBR, Progress, Formatting
  <2>5. OneEntry' /\ Remount'
    BY <2>1, <2>2, <2>4, <1>0, CardFields DEF OneEntry, Remount, Partitioned
  <2>6. QED
    BY <2>3, <2>5 DEF Table
<1>3. CASE WriteVBR
  <2>1. card' \in {card, NewBoot} /\ pc' \in {"area", "halted"} /\ pc = "vbr"
    BY <1>3 DEF WriteVBR, disk_write
  <2>2. pc' = "area" => card' = NewBoot
    BY <1>3 DEF WriteVBR, disk_write
  <2>3. card'.br = card.br
    BY <2>1, <1>0, CardFields
  <2>4. Distinct' /\ OneEntry'
    BY <2>1, <2>3 DEF Table, Distinct, OneEntry
  <2>5. mounts' = 1
    BY <1>3 DEF WriteVBR, Progress, Formatting
  <2>6. Remount'
    BY <2>1, <2>2, <2>5, <1>0, CardFields DEF Table, Remount, Partitioned, Formatted
  <2>7. QED
    BY <2>4, <2>6 DEF Table
<1>4. CASE WriteArea
  <2>1. card' \in {card, NewArea} /\ pc' \in {"area", "mount", "halted"} /\ pc = "area"
    BY <1>4 DEF WriteArea, disk_write
  <2>2. card'.br = card.br /\ card'.vbr = card.vbr /\ card'.sector0 = card.sector0
    BY <2>1, <1>0, CardFields
  <2>3. Distinct' /\ OneEntry'
    BY <2>1, <2>2 DEF Table, Distinct, OneEntry
  <2>4. mounts' = 1 /\ is_initialized'
    BY <1>4 DEF WriteArea, Progress, Formatting, driver
  <2>5. Remount'
    BY <2>1, <2>2, <2>4 DEF Table, Remount, Partitioned, Formatted
  <2>6. QED
    BY <2>3, <2>5 DEF Table
<1>5. QED
  BY <1>1, <1>2, <1>3, <1>4, Steps

(***************************************************************************)
(* Whole volumes                                                           *)
(***************************************************************************)

\* What find_volume mounts is what a FAT boot sector was read from.
LEMMA MountedFat ==
    ASSUME TypeOK, [Next]_vars, volume' # volume, volume' # NoVolume
    PROVE  /\ card' = card /\ cut' = cut /\ pc' = "running"
           /\ \/ volume' = 0 /\ card.sector0 = "fat"
              \/ volume' = card.br[i] /\ card.br[i] # 0 /\ card.vbr[card.br[i]] = "fat"
<1>1. CheckSector0 \/ CheckPartition
  BY DEF Next, fatfs_init, FATFS_LinkDriver, f_mount, disk_initialize, Fails, f_mkfs,
     WriteMBR, WriteVBR, WriteArea, Reset, vars
<1>2. CASE CheckSector0
  <2>1. volume' = 0 /\ pc' = AfterMount("OK") /\ card.sector0 = "fat"
    BY <1>2 DEF CheckSector0, check_fs, Mounted, Fails
  <2>2. QED
    BY <1>2, <2>1, AfterMountFacts DEF CheckSector0
<1>3. CASE CheckPartition
  <2>1. volume' = card.br[i] /\ pc' = AfterMount("OK")
    BY <1>3 DEF CheckPartition, Mounted, Fails
  <2>2. card.br[i] # 0 /\ card.vbr[card.br[i]] = "fat" /\ pc = "partition"
    BY <1>3 DEF CheckPartition, CheckEmpty, CheckUsed, check_fs, Mounted, Fails
  <2>3. QED
    BY <1>3, <2>1, <2>2, AfterMountFacts DEF CheckPartition
<1>4. QED
  BY <1>1, <1>2, <1>3

\* A card as found is not half formatted.
LEMMA InitWhole == Init => WholeUnlessCut /\ HalfFormattedOnlyIfCut
<1> SUFFICES ASSUME Init PROVE WholeUnlessCut /\ HalfFormattedOnlyIfCut
  OBVIOUS
<1>1. card \in Cards /\ card.whole = {s \in Starts : card.vbr[s] = "fat"}
                                     \cup {s \in {0} : card.sector0 = "fat"}
  BY DEF Init, InitialCards
<1>2. \A k \in Entries : card.br[k] \in Starts \cup {0}
  BY <1>1 DEF Cards
<1>3. Whole
  BY <1>1, <1>2, StorageAssumption DEF Whole
<1>4. QED
  BY <1>3 DEF WholeUnlessCut, HalfFormattedOnlyIfCut, Init, PowerOn

\* A format that reaches its last sector leaves a whole volume, and one that
\* does not is recorded as cut short.
LEMMA StepWhole ==
    TypeOK /\ Progress /\ Table /\ WholeUnlessCut /\ [Next]_vars => WholeUnlessCut'
<1> SUFFICES ASSUME TypeOK, Progress, Table, WholeUnlessCut, [Next]_vars
             PROVE  WholeUnlessCut'
  OBVIOUS
<1>0. card \in Cards
  BY DEF TypeOK
<1>1. CASE Reset
  BY <1>1 DEF Reset, WholeUnlessCut, Whole
<1>2. CASE CardKept /\ ~Reset
  <2>1. card' = card
    BY <1>2, CardKeptSame
  <2>2. cut' = cut
    BY <1>2 DEF CardKept, FATFS_LinkDriver, f_mount, disk_initialize, CheckSector0,
       CheckPartition, f_mkfs, history, vars
  <2>3. pc = "area" => pc' = "area"
    BY <1>2 DEF CardKept, FATFS_LinkDriver, f_mount, disk_initialize, CheckSector0,
       CheckPartition, f_mkfs, vars
  <2>4. QED
    BY <2>1, <2>2, <2>3 DEF WholeUnlessCut, Whole
<1>3. CASE WriteMBR
  <2>1. card' \in {card, NewTable} /\ cut' = cut /\ pc = "mbr"
    BY <1>3 DEF WriteMBR, disk_write
  <2>2. ASSUME card' = NewTable, Whole PROVE Whole'
    <3>1. \A k \in Entries : card'.br[k] # 0 => card'.br[k] = MkfsStart
      BY <2>2, <1>0, CardFields DEF Entries
    <3>2. MkfsStart # 0
      BY StorageAssumption
    <3>3. QED
      BY <2>2, <3>1, <3>2, <1>0, CardFields DEF Whole
  <2>3. QED
    BY <2>1, <2>2 DEF WholeUnlessCut, Whole
<1>4. CASE WriteVBR
  <2>1. pc' = "area" \/ cut'
    BY <1>4 DEF WriteVBR, disk_write
  <2>2. QED
    BY <2>1 DEF WholeUnlessCut
<1>5. CASE WriteArea
  <2>1. pc' = "area" \/ cut' \/ card' = NewArea
    BY <1>5 DEF WriteArea, disk_write
  <2>2. ASSUME card' = NewArea PROVE Whole'
    <3>1. card.sector0 = "boot" /\ card.br[1] = MkfsStart
          /\ \A k \in Entries \ {1} : card.br[k] = 0
      BY <1>5 DEF WriteArea, Table, Remount, OneEntry, Formatted, Partitioned
    <3>2. QED
      BY <2>2, <3>1, <1>0, CardFields DEF Whole, Entries
  <2>3. QED
    BY <2>1, <2>2 DEF WholeUnlessCut
<1>6. QED
  BY <1>1, <1>2, <1>3, <1>4, <1>5, Steps

\* Every step keeps that a half formatted card is recorded as cut short.
LEMMA StepHalfFormatted ==
    /\ TypeOK /\ Progress /\ Progress' /\ WholeUnlessCut /\ HalfFormattedOnlyIfCut
    /\ [Next]_vars
    => HalfFormattedOnlyIfCut'
<1> SUFFICES ASSUME TypeOK, Progress, Progress', WholeUnlessCut, HalfFormattedOnlyIfCut,
                    [Next]_vars, volume' # NoVolume
             PROVE  volume' \in card'.whole \/ cut'
  BY DEF HalfFormattedOnlyIfCut
<1>1. CASE volume' = volume
  <2>1. pc = "running"
    BY <1>1 DEF Progress
  <2>2. ~WriteMBR /\ ~WriteVBR /\ ~WriteArea
    BY <2>1 DEF WriteMBR, WriteVBR, WriteArea
  <2>3. card' = card
    BY <2>2, Steps, CardKeptSame
  <2>4. ~Reset
    BY <1>1, <2>1 DEF Reset, Progress
  <2>5. cut' = cut
    BY <2>1, <2>4 DEF Next, fatfs_init, FATFS_LinkDriver, f_mount, disk_initialize,
       CheckSector0, CheckPartition, f_mkfs, WriteMBR, WriteVBR, WriteArea, history, vars
  <2>6. QED
    BY <1>1, <2>3, <2>5 DEF HalfFormattedOnlyIfCut
<1>2. CASE volume' # volume
  <2>1. pc # "area"
    BY <1>2 DEF Next, fatfs_init, FATFS_LinkDriver, f_mount, disk_initialize,
       CheckSector0, CheckPartition, f_mkfs, WriteMBR, WriteVBR, WriteArea, Reset, vars
  <2>2. i \in Entries
    BY DEF TypeOK
  <2>3. QED
    BY <1>2, <2>1, <2>2, MountedFat DEF WholeUnlessCut, Whole
<1>3. QED
  BY <1>1, <1>2

(***************************************************************************)
(* The search                                                              *)
(***************************************************************************)

\* The outcome of a check that was not an error is the kind of the sector.
LEMMA CheckedKind ==
    ASSUME TypeOK, NEW fmt, fmt # "error",
           CheckEmpty(i, fmt) \/ CheckUsed(i, fmt)
    PROVE  fmt = BootSectorOf(i) /\ unread' = unread
BY DEF CheckEmpty, CheckUsed, check_fs, BootSectorOf

\* A check that failed is remembered.
LEMMA CheckedError ==
    ASSUME TypeOK, CheckEmpty(i, "error") \/ CheckUsed(i, "error")
    PROVE  card.br[i] # 0 /\ unread' = unread \cup {card.br[i]}
<1>1. CheckUsed(i, "error")
  BY DEF CheckEmpty
<1>2. card.br[i] # 0 /\ card.vbr[card.br[i]] \in Kinds
  BY <1>1, Sectors DEF CheckUsed, TypeOK
<1>3. QED
  BY <1>1, <1>2 DEF CheckUsed, check_fs, Kinds

\* Every step keeps what the search knows: each entry passed over held no volume
\* or gave an error that is remembered.
LEMMA StepSearch ==
    TypeOK /\ Progress /\ Distinct /\ Search /\ [Next]_vars => Search'
<1> SUFFICES ASSUME TypeOK, Progress, Distinct, Search, [Next]_vars PROVE Search'
  OBVIOUS
<1> USE DEF Search
<1>1. CASE FATFS_LinkDriver
  BY <1>1 DEF FATFS_LinkDriver
<1>2. CASE f_mount
  BY <1>2 DEF f_mount
<1>3. CASE disk_initialize
  <2>1. pc' # "mkfs" /\ pc' \in {"sector0", "running", "mkfs", "halted"}
    BY <1>3, AfterMountFacts, AfterMountType DEF disk_initialize, Fails
  <2>2. unread' = {}
    BY <1>3 DEF disk_initialize
  <2>3. QED
    BY <2>1, <2>2
<1>4. CASE CheckSector0
  <2>1. unread = {} /\ card' = card /\ i' = 1
    BY <1>4 DEF CheckSector0
  <2>2. pc' \in {"partition", "running", "mkfs", "halted"}
    BY <1>4, AfterMountType DEF CheckSector0, Mounted, Fails
  <2>3. pc' = "partition" => card.sector0 = "boot" /\ unread' = {}
    BY <1>4, <2>1, AfterMountType DEF CheckSector0, check_fs, Mounted, Fails
  <2>4. pc' = "mkfs" => card.sector0 \in {"bad", "none"}
    BY <1>4, AfterMountFacts DEF CheckSector0, check_fs, Mounted, Fails
  <2>5. pc' = "mkfs" => ~HasVolume'
    BY <2>1, <2>4, VolumesOffered, SameCard
  <2>6. QED
    BY <2>1, <2>2, <2>3, <2>5
<1>5. CASE CheckPartition
  <2> DEFINE Seen(fmt) == CheckEmpty(i, fmt) \/ CheckUsed(i, fmt)
  <2>1. pc = "partition" /\ card' = card /\ i \in Entries
    BY <1>5 DEF CheckPartition, TypeOK
  <2>2. PICK fmt \in Kinds \cup {"error"} :
          /\ Seen(fmt)
          /\ \/ fmt = "fat" /\ Mounted(card.br[i]) /\ UNCHANGED i
             \/ fmt = "bad" /\ Fails("NO_FILESYSTEM") /\ UNCHANGED i
             \/ /\ fmt \in {"boot", "none", "error"} /\ i < 4
                /\ NextEntry /\ UNCHANGED <<pc, volume>>
             \/ fmt = "error" /\ i = 4 /\ Fails("DISK_ERR") /\ UNCHANGED i
             \/ fmt \in {"boot", "none"} /\ i = 4 /\ Fails("NO_FILESYSTEM") /\ UNCHANGED i
    BY <1>5 DEF CheckPartition
  <2>3. fmt # "error" => fmt = BootSectorOf(i) /\ unread' = unread
    BY <2>2, CheckedKind
  <2>4. fmt = "error" => card.br[i] # 0 /\ unread' = unread \cup {card.br[i]}
    BY <2>2, CheckedError
  <2>5. CASE pc' = "partition"
    <3>1. i' = i + 1 /\ fmt \in {"boot", "none", "error"}
      BY <2>2, <2>5, AfterMountType DEF Mounted, Fails, NextEntry
    <3>2. \A k \in 1..i : Skipped(k)'
      BY <2>1, <2>3, <2>4, <3>1, SameCard DEF Skipped, Entries
    <3>3. \A s \in unread' : s # 0 /\ \E k \in 1..i : s = card.br[k]
      BY <2>1, <2>3, <2>4, <3>1 DEF Entries
    <3>4. QED
      BY <2>1, <2>5, <3>1, <3>2, <3>3 DEF Entries
  <2>6. CASE pc' = "mkfs"
    <3>1. /\ fmt \in {"bad", "boot", "none"} /\ fmt = BootSectorOf(i) /\ unread' = unread
          /\ fmt = "bad" \/ i = 4
      BY <2>1, <2>2, <2>3, <2>6, AfterMountFacts DEF Mounted, Fails
    <3>2. 0 \notin unread
      BY <2>1
    <3>3. card.br[4] \notin unread
      <4>1. SUFFICES ASSUME card.br[4] \in unread PROVE FALSE
        OBVIOUS
      <4>2. PICK k \in 1..(i - 1) : card.br[4] = card.br[k] /\ card.br[4] # 0
        BY <2>1, <4>1
      <4>3. k \in Entries /\ 4 \in Entries /\ k # 4
        BY <2>1 DEF Entries
      <4>4. QED
        BY <4>2, <4>3 DEF Distinct
    <3>4. \A s \in FirstOffered : s \in unread
      <4>1. TAKE s \in FirstOffered
      <4>2. PICK k \in Entries : First(k) /\ s = card.br[k]
        BY <2>1, FirstVolume
      <4>3. BootSectorOf(k) = "fat" /\ \A j \in 1..(k - 1) : BootSectorOf(j) # "bad"
        BY <4>2 DEF First, Offers
      <4>4. k \in 1..(i - 1)
        BY <2>1, <3>1, <4>3 DEF Entries
      <4>5. Skipped(k)
        BY <2>1, <4>4
      <4>6. QED
        BY <4>2, <4>3, <4>5 DEF Skipped
    <3>5. QED
      BY <2>1, <2>6, <3>1, <3>2, <3>3, <3>4, SameCard
  <2>7. CASE pc' \in {"running", "halted"}
    BY <2>7
  <2>8. QED
    BY <2>1, <2>2, <2>5, <2>6, <2>7, AfterMountType DEF Mounted, Fails
<1>6. CASE f_mkfs
  BY <1>6, SameCard DEF f_mkfs, history
<1>7. CASE WriteMBR
  BY <1>7 DEF WriteMBR, disk_write
<1>8. CASE WriteVBR
  BY <1>8 DEF WriteVBR, disk_write
<1>9. CASE WriteArea
  BY <1>9 DEF WriteArea, disk_write
<1>10. CASE Reset
  BY <1>10 DEF Reset
<1>11. CASE UNCHANGED vars
  BY <1>11, SameCard DEF vars, driver, history, Skipped
<1>12. QED
  BY <1>1, <1>2, <1>3, <1>4, <1>5, <1>6, <1>7, <1>8, <1>9, <1>10, <1>11
     DEF Next, fatfs_init

(***************************************************************************)
(* What the application runs on                                            *)
(***************************************************************************)

\* Of the steps that reach the end of the boot, a mount reaches it with the
\* first volume that could be read; a failure reaches it after a format only.
LEMMA StepRuns ==
    /\ TypeOK /\ Progress /\ Table /\ Search /\ RunsOnFirstVolume /\ [Next]_vars
    => RunsOnFirstVolume'
<1> SUFFICES ASSUME TypeOK, Progress, Table, Search, RunsOnFirstVolume, [Next]_vars,
                    pc' = "running"
             PROVE  \/ volume' \in FirstOffered'
                    \/ volume' \in Starts /\ unread' # {} /\ card'.vbr[volume'] = "fat"
                    \/ volume' = NoVolume /\ mounts' = 2 /\ unread' # {}
  BY DEF RunsOnFirstVolume
<1>1. CASE disk_initialize
  <2>1. pc = "initialize" /\ ~is_initialized /\ pc' = AfterMount("NOT_READY")
    BY <1>1 DEF disk_initialize, SD_initialize, Fails
  <2>2. mounts = 2
    BY <2>1, AfterMountFacts
  <2>3. QED
    BY <2>1, <2>2 DEF Table, Remount
<1>2. CASE CheckSector0
  <2>1. /\ card' = card /\ mounts' = mounts /\ pc = "sector0"
        /\ volume = NoVolume /\ mounts \in {1, 2}
    BY <1>2 DEF CheckSector0, Progress, Searching
  <2>2. CASE card.sector0 = "fat" /\ Mounted(0)
    <3>1. 0 \in FirstOffered
      BY <2>2, FirstVolume
    <3>2. QED
      BY <2>1, <2>2, <3>1, SameCard DEF Mounted
  <2>3. CASE unread' = unread \cup {0} /\ Fails("DISK_ERR")
    BY <2>1, <2>3, AfterMountFacts DEF Fails
  <2>4. CASE card.sector0 \in {"bad", "none"} /\ Fails("NO_FILESYSTEM")
    <3>1. mounts = 2
      BY <2>4, AfterMountFacts DEF Fails
    <3>2. QED
      BY <2>4, <3>1 DEF Table, Remount, Formatted, Partitioned
  <2>5. QED
    <3>1. card.sector0 \in Kinds
      BY DEF TypeOK, Cards
    <3>2. QED
      BY <1>2, <2>2, <2>3, <2>4, <3>1 DEF CheckSector0, check_fs, Kinds
<1>3. CASE CheckPartition
  <2>1. /\ card' = card /\ mounts' = mounts /\ pc = "partition" /\ i \in Entries
        /\ volume = NoVolume /\ mounts \in {1, 2} /\ card.sector0 = "boot"
        /\ \A k \in 1..(i - 1) : Skipped(k)
    BY <1>3 DEF CheckPartition, Progress, Searching, Search, TypeOK
  <2>2. PICK fmt \in Kinds \cup {"error"} :
          /\ CheckEmpty(i, fmt) \/ CheckUsed(i, fmt)
          /\ \/ fmt = "fat" /\ Mounted(card.br[i])
             \/ fmt \in {"bad", "boot", "none"} /\ Fails("NO_FILESYSTEM")
             \/ fmt = "error" /\ Fails("DISK_ERR")
    BY <1>3, <2>1 DEF CheckPartition
  <2>3. fmt # "error" => fmt = BootSectorOf(i) /\ unread' = unread
    BY <2>2, CheckedKind
  <2>4. fmt = "error" => unread' # {}
    BY <2>2, CheckedError
  <2>5. CASE fmt = "fat" /\ Mounted(card.br[i])
    <3>1. card.br[i] \in Starts /\ card.vbr[card.br[i]] = "fat" /\ unread' = unread
      BY <2>1, <2>3, <2>5, Sectors DEF BootSectorOf
    <3>2. CASE unread = {}
      <4>1. \A k \in 1..(i - 1) : BootSectorOf(k) \in {"boot", "none"}
        BY <2>1, <3>2 DEF Skipped
      <4>2. First(i)
        BY <2>3, <2>5, <4>1 DEF First, Offers
      <4>3. card.br[i] \in FirstOffered
        BY <2>1, <4>2, FirstVolume
      <4>4. QED
        BY <2>1, <2>5, <4>3, SameCard DEF Mounted
    <3>3. CASE unread # {}
      BY <2>1, <2>5, <3>1, <3>3 DEF Mounted
    <3>4. QED
      BY <3>2, <3>3
  <2>6. CASE \E res : res # "OK" /\ Fails(res) /\ fmt # "fat"
    <3>1. mounts = 2 /\ volume' = NoVolume
      BY <2>1, <2>6, AfterMountFacts DEF Fails
    <3>2. BootSectorOf(1) = "fat"
      BY <3>1, StorageAssumption DEF Table, Remount, Formatted, Partitioned, BootSectorOf
    <3>3. unread' # {}
      <4>1. CASE fmt # "error"
        <5>1. i # 1
          BY <2>3, <2>6, <3>2, <4>1
        <5>2. Skipped(1)
          BY <2>1, <5>1 DEF Entries
        <5>3. QED
          BY <2>3, <3>2, <4>1, <5>2 DEF Skipped
      <4>2. QED
        BY <2>4, <4>1
    <3>4. QED
      BY <2>1, <3>1, <3>3
  <2>7. QED
    BY <2>2, <2>5, <2>6
<1>4. CASE UNCHANGED vars
  BY <1>4, SameCard DEF vars, history, RunsOnFirstVolume
<1>5. QED
  BY <1>1, <1>2, <1>3, <1>4 DEF Next, fatfs_init, FATFS_LinkDriver, f_mount, f_mkfs,
     WriteMBR, WriteVBR, WriteArea, disk_write, Reset

(***************************************************************************)
(* The theorems                                                            *)
(***************************************************************************)

\* The initial states satisfy the inductive invariant.
LEMMA InitEstablishes == Init => IInv
<1>1. Init => RunsOnFirstVolume
  BY DEF Init, PowerOn, RunsOnFirstVolume
<1>2. QED
  BY <1>1, InitTyped, InitProgress, InitWhole DEF IInv

\* Every step keeps the inductive invariant.
LEMMA StepKeeps == IInv /\ [Next]_vars => IInv'
<1> SUFFICES ASSUME IInv, [Next]_vars PROVE IInv'
  OBVIOUS
<1>1. TypeOK' /\ Progress'
  BY StepTyped, StepProgress DEF IInv
<1>2. Distinct' /\ OneEntry' /\ Remount'
  BY <1>1, StepTable DEF IInv, Table
<1>3. Search' /\ RunsOnFirstVolume'
  BY StepSearch, StepRuns DEF IInv, Table
<1>4. WholeUnlessCut' /\ HalfFormattedOnlyIfCut'
  BY <1>1, StepWhole, StepHalfFormatted DEF IInv, Table
<1>5. QED
  BY <1>1, <1>2, <1>3, <1>4 DEF IInv

\* The inductive invariant holds in every reachable state.
LEMMA Invariance == Spec => []IInv
BY InitEstablishes, StepKeeps, PTL DEF Spec

\* Every variable keeps its type; the loop over the partition table never
\* leaves it, and a new volume gets no more sectors than it has.
THEOREM TypeCorrect == Spec => []TypeOK
<1>1. IInv => TypeOK
  BY DEF IInv
<1>2. QED
  BY <1>1, Invariance, PTL

\* fatfs_init formats a card that offers a volume only when the read error of
\* its boot sector, or of an earlier one's, was forgotten.
THEOREM FormatsOnlyWhatItCouldNotRead == Spec => []FormatsOnlyAfterForgottenError
<1>1. IInv => FormatsOnlyAfterForgottenError
  BY DEF IInv, Search, FormatsOnlyAfterForgottenError
<1>2. QED
  BY <1>1, Invariance, PTL

\* A volume without a FAT of its own is mounted only after a format that was
\* cut short.
THEOREM FormatsAreWhole == Spec => []HalfFormattedOnlyIfCut
<1>1. IInv => HalfFormattedOnlyIfCut
  BY DEF IInv
<1>2. QED
  BY <1>1, Invariance, PTL

\* The application runs on the first volume that could be read, or on none
\* only after a format.
THEOREM ApplicationVolume == Spec => []RunsOnFirstVolume
<1>1. IInv => RunsOnFirstVolume
  BY DEF IInv
<1>2. QED
  BY <1>1, Invariance, PTL
=============================================================================
