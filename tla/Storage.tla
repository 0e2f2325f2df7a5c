------------------------------ MODULE Storage ------------------------------
(***************************************************************************)
(* fatfs_init (User/init.c) and what it calls to bring the SD card up:     *)
(* f_mount, find_volume, check_fs and f_mkfs of FatFs, the disk table of   *)
(* diskio.c and the SD driver below it.  main() runs it once after every   *)
(* reset, before the scheduler starts, so nothing interleaves with it but  *)
(* failures of the card and resets.                                        *)
(*                                                                         *)
(* A sector is known by what check_fs and the checks behind it make of it: *)
(*   "fat"   a FAT boot sector with a usable BPB                           *)
(*   "bad"   a FAT boot sector whose BPB find_volume rejects               *)
(*   "boot"  a boot sector that is not FAT: a partition table when it is   *)
(*           sector 0, a foreign file system in a partition                *)
(*   "none"  no boot sector signature                                      *)
(* f_mkfs writes the partition table, the boot sector of the new volume,   *)
(* then its FAT and root directory sector by sector.  The copies of FAT32  *)
(* (backup boot sector, FSINFO) are written without looking at the result  *)
(* and decide nothing here.                                                *)
(***************************************************************************)
EXTENDS Naturals, FiniteSets

CONSTANTS
    Starts,       \* sectors a partition may start at
    MkfsStart,    \* the one f_mkfs puts its partition at (63 in the code)
    NoVolume,     \* fs.fs_type = 0: nothing mounted
    AreaSectors,  \* bound: FAT and root directory sectors of a new volume
    MaxResets     \* bound: resets

ASSUME StorageAssumption ==
    /\ Starts \subseteq Nat \ {0} /\ IsFiniteSet(Starts)
    /\ MkfsStart \in Starts /\ NoVolume \notin Starts \cup {0}
    /\ AreaSectors \in Nat \ {0} /\ MaxResets \in Nat

VARIABLES
    card,            \* what the SD card holds
    pc,              \* where fatfs_init is
    mounts,          \* f_mount calls with a file system object in this boot
    is_initialized,  \* disk.is_initialized[0]
    Stat,            \* the driver's status: "noinit" or "ready"
    volume,          \* where the mounted volume starts (fs.volbase), or NoVolume
    i,               \* the partition table entry find_volume is at
    wsect,           \* FAT and root directory sectors f_mkfs has written
    unread,          \* history: sectors whose reading failed in this search
    faulty,          \* history: the card or a transfer has failed in this boot
    cut,             \* history: an f_mkfs ended between the boot sector of the
                     \* new volume and the last sector of its root directory
    resets

driver  == <<is_initialized, Stat>>
history == <<unread, faulty, cut, resets>>
vars == <<card, pc, mounts, driver, volume, i, wsect, history>>

Kinds    == {"fat", "bad", "boot", "none"}
Entries  == 1..4                     \* of the partition table
Cards    == [sector0 : Kinds, br : [Entries -> Starts \cup {0}],
             vbr : [Starts -> Kinds], whole : SUBSET (Starts \cup {0}),
             big : BOOLEAN]

\* A volume is whole when its FAT and root directory are the ones its boot
\* sector describes.  Cards come with whole volumes, no two in one place; a
\* card that is not big has too few sectors for f_mkfs.
InitialCards ==
    {c \in Cards :
        /\ c.sector0 # "boot" => \A k \in Entries : c.br[k] = 0
        /\ \A k, l \in Entries : k # l => c.br[k] = 0 \/ c.br[k] # c.br[l]
        /\ c.whole = {s \in Starts : c.vbr[s] = "fat"}
                     \cup {s \in {0} : c.sector0 = "fat"}}

\* The volatile state at a reset.
PowerOn ==
    /\ pc = "link" /\ mounts = 0
    /\ is_initialized = FALSE /\ Stat = "noinit"
    /\ volume = NoVolume /\ i = 1 /\ wsect = 0
    /\ unread = {} /\ faulty = FALSE

Init == card \in InitialCards /\ PowerOn /\ cut = FALSE /\ resets = 0

-----------------------------------------------------------------------------
\* Mutants of AfterMount: every failure formats the card, and a failure other
\* than a missing file system does not stop the boot.
AfterMountFormats(res) == IF res = "OK" \/ mounts = 2 THEN "running" ELSE "mkfs"
AfterMountRunsOn(res) ==
    IF res = "NO_FILESYSTEM" /\ mounts = 1 THEN "mkfs" ELSE "running"

\* What fatfs_init does with the result of f_mount.  The second f_mount, after
\* formatting, is not looked at.
AfterMount(res) ==
    CASE res = "OK" \/ mounts = 2            -> "running"
      [] res = "NO_FILESYSTEM" /\ mounts # 2 -> "mkfs"
      [] OTHER                               -> "halted"

Mounted(s) == volume' = s /\ pc' = AfterMount("OK")
Fails(res) == pc' = AfterMount(res) /\ UNCHANGED volume

FATFS_LinkDriver ==
    /\ pc = "link" /\ pc' = "mount" /\ is_initialized' = FALSE
    /\ UNCHANGED <<card, mounts, Stat, volume, i, wsect, history>>

\* f_mount clears the object, so find_volume always searches.
f_mount ==
    /\ pc = "mount" /\ pc' = "initialize"
    /\ mounts' = mounts + 1 /\ volume' = NoVolume /\ unread' = {}
    /\ UNCHANGED <<card, driver, i, wsect, faulty, cut, resets>>

\* The drive counts as initialised before the attempt and whatever its result.
SD_initialize(ok) ==
    /\ ~is_initialized /\ is_initialized' = TRUE
    /\ Stat' = IF ok THEN "ready" ELSE "noinit"

disk_initialize ==
    /\ pc = "initialize"
    /\ \/ is_initialized /\ pc' = "sector0" /\ UNCHANGED <<driver, volume, faulty>>
       \/ SD_initialize(TRUE) /\ pc' = "sector0" /\ UNCHANGED <<volume, faulty>>
       \/ SD_initialize(FALSE) /\ Fails("NOT_READY") /\ faulty' = TRUE
    /\ UNCHANGED <<card, mounts, i, wsect, unread, cut, resets>>

\* check_fs reads the sector: its kind, or "error" when the read fails.
check_fs(sect, kind, fmt) ==
    \/ fmt = kind /\ UNCHANGED <<unread, faulty>>
    \/ fmt = "error" /\ unread' = unread \cup {sect} /\ faulty' = TRUE

CheckSector0 ==
    /\ pc = "sector0" /\ i' = 1
    /\ \E fmt \in Kinds \cup {"error"} :
        /\ check_fs(0, card.sector0, fmt)
        /\ \/ fmt = "fat" /\ Mounted(0)
           \/ fmt = "boot" /\ pc' = "partition" /\ UNCHANGED volume
           \/ fmt = "error" /\ Fails("DISK_ERR")
           \/ fmt \in {"bad", "none"} /\ Fails("NO_FILESYSTEM")
    /\ UNCHANGED <<card, mounts, driver, wsect, cut, resets>>

\* The loop over the entries ends at the first FAT boot sector or with the
\* fourth entry; only the result of the last check outlives it.
CheckEmpty(k, fmt) == card.br[k] = 0 /\ fmt = "none" /\ UNCHANGED <<unread, faulty>>
CheckUsed(k, fmt)  == card.br[k] # 0 /\ check_fs(card.br[k], card.vbr[card.br[k]], fmt)

\* Mutant of NextEntry: ++i is missing.
SameEntry == UNCHANGED i

NextEntry == i' = i + 1

CheckPartition ==
    /\ pc = "partition"
    /\ \E fmt \in Kinds \cup {"error"} :
        /\ CheckEmpty(i, fmt) \/ CheckUsed(i, fmt)
        /\ \/ fmt = "fat" /\ Mounted(card.br[i]) /\ UNCHANGED i
           \/ fmt = "bad" /\ Fails("NO_FILESYSTEM") /\ UNCHANGED i
           \/ /\ fmt \in {"boot", "none", "error"} /\ i < 4
              /\ NextEntry /\ UNCHANGED <<pc, volume>>
           \/ fmt = "error" /\ i = 4 /\ Fails("DISK_ERR") /\ UNCHANGED i
           \/ fmt \in {"boot", "none"} /\ i = 4 /\ Fails("NO_FILESYSTEM") /\ UNCHANGED i
    /\ UNCHANGED <<card, mounts, driver, wsect, cut, resets>>

-----------------------------------------------------------------------------
\* f_mkfs up to its first write: the drive is initialised already, and a card
\* that is too small is refused.
f_mkfs ==
    /\ pc = "mkfs" /\ pc' = IF card.big THEN "mbr" ELSE "halted"
    /\ wsect' = 0
    /\ UNCHANGED <<card, mounts, driver, volume, i, history>>

\* Mutant of disk_write: the caller does not look at the result.
disk_write_unchecked(new, next) ==
    \/ card' = new /\ pc' = next /\ UNCHANGED faulty
    \/ card' \in {card, new} /\ pc' = next /\ faulty' = TRUE

\* SD_write: a write reported as failed may have reached the card.
disk_write(new, next) ==
    \/ card' = new /\ pc' = next /\ UNCHANGED faulty
    \/ card' \in {card, new} /\ pc' = "halted" /\ faulty' = TRUE

\* The card with the new partition table, with the boot sector of the new
\* volume, and with its FAT and root directory.
NewTable == [card EXCEPT !.sector0 = "boot", !.whole = @ \ {0},
               !.br = [k \in Entries |-> IF k = 1 THEN MkfsStart ELSE 0]]
NewBoot  == [card EXCEPT !.vbr[MkfsStart] = "fat", !.whole = {}]
NewArea  == [card EXCEPT !.whole = {MkfsStart}]

WriteMBR ==
    /\ pc = "mbr" /\ disk_write(NewTable, "vbr")
    /\ UNCHANGED <<mounts, driver, volume, i, wsect, unread, cut, resets>>

WriteVBR ==
    /\ pc = "vbr" /\ disk_write(NewBoot, "area")
    /\ cut' = (cut \/ pc' = "halted")
    /\ UNCHANGED <<mounts, driver, volume, i, wsect, unread, resets>>

\* Mutant of AreaDone: one sector more than the volume has.
AreaDoneLate(n) == n > AreaSectors

AreaDone(n) == n = AreaSectors

\* One sector of the FAT or the root directory; CTRL_SYNC after the last one
\* succeeds with the driver ready, and fatfs_init unmounts and mounts again.
WriteArea ==
    /\ pc = "area" /\ wsect' = wsect + 1
    /\ IF AreaDone(wsect')
       THEN disk_write(NewArea, "mount")
       ELSE disk_write(card, "area")
    /\ cut' = (cut \/ pc' = "halted")
    /\ UNCHANGED <<mounts, driver, volume, i, unread, resets>>

\* A reset, a power failure included, at any moment.
Reset ==
    /\ resets < MaxResets /\ resets' = resets + 1
    /\ pc' = "link" /\ mounts' = 0
    /\ is_initialized' = FALSE /\ Stat' = "noinit"
    /\ volume' = NoVolume /\ i' = 1 /\ wsect' = 0
    /\ unread' = {} /\ faulty' = FALSE
    /\ cut' = (cut \/ pc = "area")
    /\ UNCHANGED card

fatfs_init == \/ FATFS_LinkDriver \/ f_mount \/ disk_initialize
              \/ CheckSector0 \/ CheckPartition
              \/ f_mkfs \/ WriteMBR \/ WriteVBR \/ WriteArea

Next == fatfs_init \/ Reset

Spec == Init /\ [][Next]_vars

\* main() runs alone; nothing makes a reset happen.
FairSpec == Spec /\ WF_vars(fatfs_init)

-----------------------------------------------------------------------------
TypeOK ==
    /\ card \in Cards
    /\ pc \in {"link", "mount", "initialize", "sector0", "partition", "mkfs",
               "mbr", "vbr", "area", "running", "halted"}
    /\ mounts \in 0..2 /\ is_initialized \in BOOLEAN /\ Stat \in {"noinit", "ready"}
    /\ volume \in Starts \cup {0, NoVolume}
    /\ i \in Entries /\ wsect \in 0..AreaSectors
    /\ unread \subseteq Starts \cup {0}
    /\ faulty \in BOOLEAN /\ cut \in BOOLEAN /\ resets \in 0..MaxResets

\* The volumes a card offers, said without the search: the file system that
\* covers the card, or those of the partitions before any unusable one.
BootSectorOf(k) == IF card.br[k] = 0 THEN "none" ELSE card.vbr[card.br[k]]
SectorsWhere(P(_)) == {card.br[k] : k \in {j \in Entries : card.sector0 = "boot" /\ P(j)}}
Offers(k) == /\ BootSectorOf(k) = "fat"
             /\ \A j \in 1..(k - 1) : BootSectorOf(j) # "bad"
First(k)  == Offers(k) /\ \A j \in 1..(k - 1) : ~Offers(j)
WholeCard == {s \in {0} : card.sector0 = "fat"}
HasVolume == WholeCard \cup SectorsWhere(Offers) # {}
FirstOffered == WholeCard \cup SectorsWhere(First)

\* init.c: if there is no file system, format and create one.  The card is
\* formatted only when it offers no volume.
FormatsOnlyBlankCard == pc = "mbr" => ~HasVolume

\* The one way a volume is formatted over: the read of its boot sector, or of
\* an earlier one, failed, and a later entry that could be read made
\* find_volume forget the error (ff.c, the loop over br[]).
FormatsOnlyAfterForgottenError ==
    pc = "mbr" /\ HasVolume =>
        /\ 0 \notin unread /\ card.br[4] \notin unread
        /\ \A s \in FirstOffered : s \in unread

\* A volume whose FAT or root directory is not its own is mounted only after a
\* format that a reset or a write error cut short: a boot that formats the
\* card and goes on has written all of it.
HalfFormattedOnlyIfCut == volume # NoVolume => volume \in card.whole \/ cut

\* What the application starts with: the first volume the card offers, unless
\* sectors could not be read, or, after a format only, no volume at all.
RunsOnFirstVolume ==
    pc = "running" =>
        \/ volume \in FirstOffered
        \/ volume \in Starts /\ unread # {} /\ card.vbr[volume] = "fat"
        \/ volume = NoVolume /\ mounts = 2 /\ unread # {}

\* While no read or write fails, a card large enough to be formatted takes the
\* boot to the scheduler: the search and the format end.
GoodCardBoots == pc = "link" ~> (pc = "running" \/ faulty \/ ~card.big)
=============================================================================
