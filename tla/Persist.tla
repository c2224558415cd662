------------------------------ MODULE Persist ------------------------------
(***************************************************************************)
(* kernel/persist.c: the user files of ramfs saved to a block device in the *)
(* AOS2 format and restored at boot, AOS1 images being rewritten as AOS2.   *)
(* Sector 0 is the superblock; each file is a meta sector followed by its   *)
(* data sectors.  A sync overwrites the previous image in place, file by    *)
(* file, and the superblock last.                                          *)
(*                                                                         *)
(* One step is one sector write, or the reading of one file.  Power may be  *)
(* lost between any two steps and any transfer may fail.  A sector is       *)
(* written whole or not at all.  One chunk of data fills one sector; a      *)
(* data sector read as meta shows a size out of range.  Distinct data have  *)
(* distinct CRCs.                                                          *)
(***************************************************************************)
EXTENDS Ramfs

CONSTANTS
    Paths,             \* user paths
    Contents,          \* data user programs write
    DiskSectors,       \* number of sectors of the device
    FirstImages,       \* devices at the first boot, with the files they hold
    MAX_WRITES, MAX_SYNCS, MAX_BOOTS   \* bounds of the exploration

VARIABLES
    files,     \* the table of ramfs.c
    disk,      \* the sectors of the device
    pc,        \* "boot", "load", "meta", "data", "run"
    sup,       \* superblock persist_load read
    idx,       \* file the loop is at
    sector,    \* next sector of the loop
    copied,    \* data sectors of the file already written
    rolling,   \* running checksum
    outcome,   \* how the last boot ended, until user programs write
    saved,     \* files of the last complete sync
    doubt,     \* saved, and what syncs cut short since then tried to save;
               \*   migrating an image not in doubt must leave both alone
    synced,    \* files that were on the device at first or given to a sync
    writes, syncs, boots

vars == <<files, disk, pc, sup, idx, sector, copied, rolling, outcome, saved, doubt, synced, writes, syncs, boots>>

\* A sector without a known format.
Blank == [kind |-> "blank"]

AOS1 == 1
AOS2 == 2

Super(version, count, checksum) ==
    [kind |-> "super", version |-> version, count |-> count, checksum |-> checksum]

Meta(file) == [kind |-> "meta", path |-> file.path, size |-> Len(file.data), crc |-> file.data]

Data(chunk) == [kind |-> "data", chunk |-> chunk]

\* rolling ^= crc32; rolling ^= size: what occurs twice cancels out.
Xor(s, token) == IF token \in s THEN s \ {token} ELSE s \cup {token}

\* What a sequence of files contributes.
Tokens(fs) == {<<"crc", fs[i].data>> : i \in DOMAIN fs} \cup {<<"size", Len(fs[i].data)>> : i \in DOMAIN fs}

Roll(s, meta) == Xor(Xor(s, <<"crc", meta.crc>>), <<"size", meta.size>>)

Sectors == 0 .. DiskSectors - 1

\* Where the meta sectors of the first k files are: each behind the data of
\* the file before it.
Offsets(fs, at, k) ==
    /\ DOMAIN at = 1 .. k
    /\ \A i \in 1 .. k : at[i] = IF i = 1 THEN 1 ELSE at[i - 1] + 1 + Len(fs[i - 1].data)

\* A file is on the device, its data behind its meta sector.
Stored(d, file, at) ==
    /\ at + Len(file.data) \in Sectors
    /\ d[at] = Meta(file)
    /\ \A k \in DOMAIN file.data : d[at + k] = Data(file.data[k])

InPlace(d, fs) ==
    \E at \in [DOMAIN fs -> Sectors] :
        Offsets(fs, at, Len(fs)) /\ \A i \in DOMAIN fs : Stored(d, fs[i], at[i])

\* The running checksum before each of the first k files.
Sums(fs, sum, k) ==
    /\ DOMAIN sum = 1 .. k
    /\ \A i \in 1 .. k : sum[i] = IF i = 1 THEN {} ELSE Roll(sum[i - 1], Meta(fs[i - 1]))

\* Data as programs write it; the files they may have.
Chunks == UNION {{data[k] : k \in DOMAIN data} : data \in Contents}
UserFiles == [path : Paths, data : Seq(Chunks)]

\* Files that fit the table and can be read back.
Loadable(fs) ==
    /\ Len(SysFiles) + Len(fs) <= RAMFS_MAX_FILES
    /\ \A i \in DOMAIN fs : Len(fs[i].data) \in 1 .. RAMFS_FILE_SIZE - 1
    /\ \A i, j \in DOMAIN fs : fs[i].path = fs[j].path => i = j

\* A device that was never used, or as a sync of either format leaves it.
FirstImage(image) ==
    /\ image.files \in Seq(UserFiles) /\ Loadable(image.files)
    /\ \/ image.files = <<>> /\ image.disk = [s \in Sectors |-> Blank]
       \/ /\ image.disk = [s \in Sectors |-> image.disk[s]]
          /\ \E version \in {AOS1, AOS2} : \E sum \in [1 .. Len(image.files) + 1 -> SUBSET Tokens(image.files)] :
                 /\ Sums(image.files, sum, Len(image.files) + 1)
                 /\ image.disk[0] = Super(version, Len(image.files), IF version = AOS2 THEN sum[Len(sum)] ELSE {})
          /\ InPlace(image.disk, image.files)
          /\ \A s \in Sectors : image.disk[s].kind = "meta" =>
                 \E i \in DOMAIN image.files : image.disk[s] = Meta(image.files[i])

ASSUME PersistAssumption ==
    /\ RAMFS_FILE_SIZE \in Nat \ {0} /\ DiskSectors \in Nat \ {0}
    /\ Len(SysFiles) <= RAMFS_MAX_FILES
    /\ \A i \in DOMAIN SysFiles : Len(SysFiles[i].data) \in 0 .. RAMFS_FILE_SIZE - 1
    /\ \A i, j \in DOMAIN SysFiles : SysFiles[i].path = SysFiles[j].path => i = j
    /\ \A p \in Paths : ~is_sys_path(p)
    /\ Contents \subseteq Seq(Chunks)
    /\ \A image \in FirstImages : FirstImage(image)

Init ==
    /\ files = ramfs_init
    /\ pc = "boot"
    /\ sup = Blank
    /\ idx = 1 /\ sector = 1 /\ copied = 0 /\ rolling = {}
    /\ outcome = "none"
    /\ \E image \in FirstImages :
           /\ disk = image.disk /\ saved = image.files /\ doubt = {image.files}
           /\ synced = {image.files[i] : i \in DOMAIN image.files}
    /\ writes = 0 /\ syncs = 0 /\ boots = 1

Ghosts == <<saved, doubt, synced>>
\* What a sync is given.
Given(fs) == synced' = synced \cup {fs[i] : i \in DOMAIN fs}
Bounds == <<writes, syncs, boots>>

-----------------------------------------------------------------------------
(* persist_load                                                            *)

\* The kernel goes on with whatever the table holds.
BootEnds(result) ==
    /\ pc' = "run"
    /\ outcome' = result
    /\ UNCHANGED <<sup, idx, sector, copied, rolling>>

\* Slip: the checksum goes on from the previous load or sync.
StartLoopKeepsRolling == idx' = 1 /\ sector' = 1 /\ copied' = 0 /\ rolling' = rolling

StartLoop == idx' = 1 /\ sector' = 1 /\ copied' = 0 /\ rolling' = {}

ReadSuper ==
    /\ pc = "boot"
    /\ \/ /\ disk[0] = Blank
          /\ BootEnds("ok")
          /\ UNCHANGED files
       \/ /\ disk[0] # Blank
          /\ sup' = disk[0]
          /\ files' = ramfs_clear_user(files)
          /\ StartLoop
          /\ pc' = "load"
          /\ UNCHANGED outcome
    /\ UNCHANGED <<disk, Ghosts, Bounds>>

\* A meta sector that passes the size test, with its data on the device.
GoodMeta ==
    /\ sector \in Sectors
    /\ disk[sector].kind = "meta"
    /\ disk[sector].size \in 1 .. RAMFS_FILE_SIZE
    /\ sector + disk[sector].size \in Sectors

ReadData == [k \in 1 .. disk[sector].size |->
                LET s == disk[sector + k] IN IF s.kind = "data" THEN s.chunk ELSE s]

\* Slip: the CRC of the data is not compared.
CrcUnchecked == TRUE

\* AOS1 meta has no CRC.
CrcMatches == sup.version = AOS1 \/ ReadData = disk[sector].crc

LoadFile ==
    /\ pc = "load" /\ idx <= sup.count
    /\ \/ /\ GoodMeta /\ CrcMatches
          /\ PutAccepts(files, disk[sector].path, ReadData)
          /\ files' = ramfs_put(files, disk[sector].path, ReadData)
          /\ rolling' = IF sup.version = AOS2 THEN Roll(rolling, disk[sector]) ELSE rolling
          /\ idx' = idx + 1
          /\ sector' = sector + 1 + disk[sector].size
          /\ UNCHANGED <<pc, sup, copied, outcome>>
       \/ /\ ~(GoodMeta /\ CrcMatches /\ PutAccepts(files, disk[sector].path, ReadData))
          /\ BootEnds("corrupt")
          /\ UNCHANGED files
    /\ UNCHANGED <<disk, Ghosts, Bounds>>

\* virtio_blk_read_sector fails: EIO, what was restored so far stays.
ReadFails ==
    /\ pc = "boot" \/ (pc = "load" /\ idx <= sup.count)
    /\ BootEnds("eio")
    /\ UNCHANGED <<files, disk, Ghosts, Bounds>>

\* Begin persist_sync on the table as it is.
BeginSync == StartLoop /\ pc' = "meta"

LoadEnds ==
    /\ pc = "load" /\ idx > sup.count
    /\ \/ /\ sup.version = AOS2
          /\ BootEnds(IF rolling = sup.checksum THEN "ok" ELSE "corrupt")
          /\ UNCHANGED <<doubt, synced>>
       \/ /\ sup.version = AOS1          \* persist_migrate
          /\ BeginSync
          /\ doubt' = IF doubt = {saved} THEN doubt ELSE doubt \cup {ramfs_user(files)}
          /\ Given(ramfs_user(files))
          /\ outcome' = "migrating"
          /\ UNCHANGED sup
    /\ UNCHANGED <<files, disk, saved, Bounds>>

-----------------------------------------------------------------------------
(* persist_sync                                                            *)

agent_sync ==
    /\ pc = "run" /\ syncs < MAX_SYNCS
    /\ syncs' = syncs + 1
    /\ BeginSync
    /\ doubt' = doubt \cup {ramfs_user(files)}
    /\ Given(ramfs_user(files))
    /\ outcome' = "used"
    /\ UNCHANGED <<files, disk, sup, saved, writes, boots>>

\* The file ramfs_user_get(idx) returns; none are left at the end of the loop.
Saving == ramfs_user(files)[idx]

\* Slip: the loop ends one file early.
AllSavedEarly == idx >= Len(ramfs_user(files))

AllSaved == idx > Len(ramfs_user(files))

\* The sector persist_sync writes next, and what it writes there.
Target == IF AllSaved THEN 0 ELSE sector

Written ==
    IF AllSaved THEN Super(AOS2, Len(ramfs_user(files)), rolling)
    ELSE IF pc = "meta" THEN Meta(Saving) ELSE Data(Saving.data[copied + 1])

WriteSector == Target \in Sectors /\ disk' = [disk EXCEPT ![Target] = Written]

\* persist_file_sectors(size) data sectors follow the meta sector.
NextSector ==
    /\ sector' = sector + 1
    /\ IF copied' = Len(Saving.data)
       THEN idx' = idx + 1 /\ pc' = "meta"
       ELSE idx' = idx /\ pc' = "data"

SyncMeta ==
    /\ pc = "meta" /\ ~AllSaved
    /\ WriteSector
    /\ rolling' = Roll(rolling, Meta(Saving))
    /\ copied' = 0
    /\ NextSector
    /\ UNCHANGED <<files, sup, outcome, Ghosts, Bounds>>

SyncData ==
    /\ pc = "data"
    /\ WriteSector
    /\ copied' = copied + 1
    /\ NextSector
    /\ UNCHANGED <<files, sup, rolling, outcome, Ghosts, Bounds>>

SyncReturns(result) ==
    /\ pc' = "run"
    /\ outcome' = IF outcome = "migrating" THEN result ELSE outcome

SyncSuper ==
    /\ pc = "meta" /\ AllSaved
    /\ WriteSector
    /\ IF outcome = "migrating" /\ doubt = {saved}
       THEN UNCHANGED Ghosts
       ELSE saved' = ramfs_user(files) /\ doubt' = {ramfs_user(files)} /\ UNCHANGED synced
    /\ SyncReturns("ok")
    /\ UNCHANGED <<files, sup, idx, sector, copied, rolling, Bounds>>

\* virtio_blk_write_sector fails: on an error the sector is as it was, on a
\* timeout the device may still have written it.
WriteFails ==
    /\ pc \in {"meta", "data"}
    /\ UNCHANGED disk \/ WriteSector
    /\ SyncReturns("eio")
    /\ UNCHANGED <<files, sup, idx, sector, copied, rolling, Ghosts, Bounds>>

-----------------------------------------------------------------------------
(* User programs and power                                                 *)

ToolWrite(path, data) ==
    /\ pc = "run" /\ writes < MAX_WRITES
    /\ writes' = writes + 1
    /\ files' = ramfs_write(files, path, data)
    /\ outcome' = "used"
    /\ UNCHANGED <<disk, pc, sup, idx, sector, copied, rolling, Ghosts, syncs, boots>>

\* Power is lost, or the machine is restarted: only the device survives.
Restart ==
    /\ boots < MAX_BOOTS
    /\ boots' = boots + 1
    /\ files' = ramfs_init
    /\ pc' = "boot"
    /\ outcome' = "none"
    /\ UNCHANGED <<disk, sup, idx, sector, copied, rolling, Ghosts, writes, syncs>>

Next ==
    \/ ReadSuper \/ LoadFile \/ ReadFails \/ LoadEnds
    \/ agent_sync \/ SyncMeta \/ SyncData \/ SyncSuper \/ WriteFails
    \/ \E p \in Paths, d \in Contents : ToolWrite(p, d)
    \/ Restart

Spec == Init /\ [][Next]_vars
-----------------------------------------------------------------------------
\* Type invariant: the table holds files of known paths (two slots never the
\* same path), and the loops of persist.c stay within the table and device.
TypeOK ==
    /\ \A i \in Slots : files[i] # NoFile =>
           /\ files[i].path \in Paths \/ is_sys_path(files[i].path)
           /\ Len(files[i].data) < RAMFS_FILE_SIZE
           /\ Named(files, files[i].path) = {i}
    /\ DOMAIN disk = Sectors
    /\ pc \in {"boot", "load", "meta", "data", "run"}
    /\ outcome \in {"none", "ok", "corrupt", "eio", "migrating", "used"}
    /\ idx \in 1 .. RAMFS_MAX_FILES + 1
    /\ sector \in 1 .. DiskSectors
    /\ copied \in 0 .. RAMFS_FILE_SIZE - 1
    /\ saved \in doubt

\* What a completed sync saved comes back: unless a later sync was cut short
\* while it was saving something else, a boot that meets no device error
\* finds the image valid and restores exactly the saved files, in order.  A
\* migration cut short at any sector, and a repeated sync, lose nothing.
\* Migrating an image in doubt counts as a sync of what the boot has read.
RestoresLastSync ==
    doubt = {saved} =>
        /\ outcome # "corrupt"
        /\ outcome = "ok" => ramfs_user(files) = saved

\* A boot from an AOS2 image that reports success has restored only whole
\* files: each is the file of that path as some sync was given it, never the
\* path of one with the data of another, whatever order power losses left the
\* sectors in.
RestoredFilesWhole ==
    outcome = "ok" /\ sup # Blank /\ sup.version = AOS2 =>
        \A i \in DOMAIN ramfs_user(files) : ramfs_user(files)[i] \in synced

\* A boot that reports success has restored the files of one sync, not a mix
\* of two.  persist.c does not promise this: AOS1 has no checksum, and that
\* of AOS2 does not tell which path goes with which contents.
RestoredFromOneSync == outcome = "ok" => ramfs_user(files) \in doubt

\* The superblock is the commit point: the step that changes it finds every
\* file already in place on the device, data behind its meta sector.
SuperLast == [][disk'[0] # disk[0] => InPlace(disk, ramfs_user(files))]_vars

\* A boot that fails to restore the image leaves no user files: the kernel
\* says it goes on with a fresh ramfs.
FreshOnFailure == outcome \in {"corrupt", "eio"} => ramfs_user(files) = <<>>

\* The state invariants of this module: shapes, and boots that restore whole
\* files only.
PersistInv == TypeOK /\ RestoredFilesWhole
=============================================================================
