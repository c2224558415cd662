--------------------------- MODULE PersistProofs ---------------------------
(***************************************************************************)
(* Persistence, for every table, device, file and first image: what a       *)
(* completed sync saved is what the next boot restores, the superblock is   *)
(* the commit point, and a boot accepts whole files only.                   *)
(***************************************************************************)
EXTENDS PersistBase

-----------------------------------------------------------------------------
(* The loop of persist_sync, and what every step keeps.                     *)

\* The loop goes on behind the sector just written.
LEMMA Advance ==
  ASSUME Base, pc \in {"meta", "data"}, ~AllSaved, WriteSector, NextSector, files' = files, synced' = synced,
         copied' \in 0 .. Len(Saving.data), sector = Pos(Users, idx) + copied', rolling' = Sum(Users, idx + 1),
         Partly(disk', Saving, Pos(Users, idx), copied')
  PROVE  SyncInv'
<1>1. idx \in 1 .. Len(Users) /\ Saving = Users[idx] /\ AllSynced
  BY Zenon, SavingIs DEF Base, SyncInv
<1>2. IsFiles(Users) /\ Len(Users) \in Nat
  BY Zenon, UsersAre DEF Base, IsFiles
<1>3. idx \in 1 .. Len(Users) + 1 /\ idx + 1 \in 1 .. Len(Users) + 1 /\ idx + 1 - 1 = idx
  BY <1>1, <1>2
<1>4. Pos(Users, idx) \in Nat /\ Len(Saving.data) \in Nat
  BY Zenon, <1>1, <1>2, <1>3, PosApart, FileSizes
<1>5. Target = sector /\ Target \in Sectors
  BY Zenon, Writes, WritesWhat
<1>6. Pos(Users, idx) <= sector /\ sector \in Nat
  BY <1>4
<1>7. \A s \in Sectors : s # sector => disk'[s] = disk[s]
  BY Zenon, <1>5, Writes
<1>8. StoredTo(disk, Users, idx - 1)
  BY Zenon DEF Base, SyncInv
<1>9. StoredTo(disk', Users, idx - 1)
  BY Zenon, <1>2, <1>3, <1>6, <1>7, <1>8, BehindKept
<1>10. Users' = Users /\ AllSynced'
  BY Zenon, <1>1 DEF Users, AllSynced
<1>11. sector' = sector + 1
  BY Zenon DEF NextSector
<1>12. CASE copied' = Len(Saving.data)
  <2>1. idx' = idx + 1 /\ pc' = "meta"
    BY Zenon, <1>12 DEF NextSector
  <2>2. Stored(disk', Users[idx], Pos(Users, idx))
    <3>1. DOMAIN Saving.data = 1 .. Len(Saving.data)
      <4>1. IsData(Saving.data)
        BY Zenon, SavingIs DEF UserFile
      <4>2. PICK S : Saving.data \in Seq(S)
        BY Zenon, <4>1 DEF IsData
      <4> QED
        BY <4>2
    <3>2. Pos(Users, idx) + Len(Saving.data) \in Sectors
      BY Zenon, <1>5, <1>12
    <3> QED
      BY Zenon, <1>1, <1>12, <3>1, <3>2 DEF Stored, Partly
  <2>3. StoredTo(disk', Users, idx)
    <3>1. SUFFICES ASSUME NEW i \in 1 .. idx PROVE Stored(disk', Users[i], Pos(Users, i))
      BY Zenon DEF StoredTo
    <3>2. CASE i = idx
      BY Zenon, <2>2, <3>2
    <3>3. CASE i # idx
      <4>1. i \in 1 .. idx - 1
        BY <1>1, <1>2, <3>3
      <4> QED
        BY Zenon, <1>9, <4>1 DEF StoredTo
    <3> QED
      BY Zenon, <3>2, <3>3
  <2>4. sector' = Pos(Users, idx + 1)
    <3>1. Pos(Users, idx + 1) = Pos(Users, idx) + 1 + Len(Saving.data)
      BY Zenon, <1>1, <1>2, PosStep
    <3>2. sector' = Pos(Users, idx) + Len(Saving.data) + 1
      BY Zenon, <1>11, <1>12
    <3> QED
      BY <1>4, <3>1, <3>2
  <2>5. idx' - 1 = idx /\ idx' \in 1 .. Len(Users) + 1
    BY <1>1, <1>2, <2>1
  <2>6. StoredTo(disk', Users', idx' - 1)
    BY Zenon, <1>10, <2>3, <2>5
  <2>7. sector' = Pos(Users', idx') /\ rolling' = Sum(Users', idx') /\ idx' \in 1 .. Len(Users') + 1
    BY Zenon, <1>10, <2>1, <2>4, <2>5
  <2> QED
    BY Zenon, <1>10, <2>1, <2>6, <2>7 DEF SyncInv
<1>13. CASE copied' # Len(Saving.data)
  <2>1. idx' = idx /\ pc' = "data"
    BY Zenon, <1>13 DEF NextSector
  <2>2. copied' < Len(Saving.data) /\ idx <= Len(Users)
    BY <1>1, <1>2, <1>4, <1>13
  <2>3. sector' = Pos(Users, idx) + 1 + copied'
    BY <1>4, <1>11
  <2> QED
    BY Zenon, <1>1, <1>3, <1>9, <1>10, <2>1, <2>2, <2>3 DEF SyncInv
<1> QED
  BY Zenon, <1>12, <1>13

\* A sync starts with the first file, behind the superblock.
LEMMA SyncBegins ==
  ASSUME TableInv, BeginSync, files' = files, Given(ramfs_user(files))
  PROVE  SyncInv'
<1>1. Users' = Users /\ IsFiles(Users) /\ Len(Users) \in Nat
  BY Zenon, UsersAre DEF Users, IsFiles
<1>2. AllSynced'
  BY Zenon, <1>1 DEF AllSynced, Given, Users
<1>3. idx' = 1 /\ sector' = 1 /\ rolling' = {} /\ pc' = "meta"
  BY Zenon DEF BeginSync, StartLoop
<1>4. sector' = Pos(Users, 1) /\ rolling' = Sum(Users, 1)
  BY Zenon, <1>1, <1>3, PosStep, SumStep
<1>5. idx' \in 1 .. Len(Users) + 1 /\ 1 .. idx' - 1 = {}
  BY <1>1, <1>3
<1>6. StoredTo(disk', Users, idx' - 1)
  BY Zenon, <1>5 DEF StoredTo
<1> QED
  BY Zenon, <1>1, <1>2, <1>3, <1>4, <1>5, <1>6 DEF SyncInv

\* The loop of persist_sync keeps its place.
LEMMA SyncStep == ASSUME Base, [Next]_vars PROVE SyncInv'
<1>1. SyncInv /\ TableInv
  BY Zenon DEF Base
<1>2. ASSUME pc' \notin {"meta", "data"} PROVE SyncInv'
  BY Zenon, <1>2 DEF SyncInv
<1>3. CASE ReadSuper \/ LoadFile \/ ReadFails
  <2>1. pc' \in {"load", "run"}
    BY Zenon, <1>3 DEF ReadSuper, LoadFile, ReadFails, BootEnds
  <2> QED
    BY Zenon, <1>2, <2>1
<1>4. CASE LoadEnds
  BY Zenon, <1>1, <1>2, <1>4, SyncBegins DEF LoadEnds, BootEnds
<1>5. CASE agent_sync
  BY Zenon, <1>1, <1>5, SyncBegins DEF agent_sync
<1>6. CASE SyncMeta
  <2>1. pc = "meta" /\ ~AllSaved /\ WriteSector /\ NextSector /\ copied' = 0 /\ files' = files /\ synced' = synced
    BY Zenon, <1>6 DEF SyncMeta, Ghosts
  <2>2. Saving = Users[idx] /\ idx \in 1 .. Len(Users) /\ Len(Saving.data) \in Nat /\ IsFiles(Users)
    BY <1>1, <2>1, SavingIs, UsersAre, Sizes
  <2>3. sector = Pos(Users, idx) /\ rolling = Sum(Users, idx)
    BY Zenon, <1>1, <2>1 DEF SyncInv
  <2>4. rolling' = Sum(Users, idx + 1)
    BY Zenon, <1>6, <2>2, <2>3, SumStep DEF SyncMeta
  <2>5. disk'[sector] = Meta(Saving)
    BY Zenon, <2>1, Writes, WritesWhat
  <2>6. Partly(disk', Saving, Pos(Users, idx), copied')
    <3>1. 1 .. copied' = {}
      BY <2>1
    <3> QED
      BY Zenon, <2>3, <2>5, <3>1 DEF Partly
  <2>7. copied' \in 0 .. Len(Saving.data) /\ sector = Pos(Users, idx) + copied'
    <3>1. Pos(Users, idx) \in Nat
      BY <2>2, <2>3 DEF Base, Shapes
    <3> QED
      BY <2>1, <2>2, <2>3, <3>1
  <2> QED
    BY Zenon, <2>1, <2>4, <2>6, <2>7, Advance
<1>7. CASE SyncData
  <2>1. pc = "data" /\ WriteSector /\ NextSector /\ copied' = copied + 1 /\ files' = files /\ synced' = synced
    BY Zenon, <1>7 DEF SyncData, Ghosts
  <2>2. /\ idx \in 1 .. Len(Users) + 1 /\ idx <= Len(Users) /\ Len(Users) \in Nat
        /\ copied < Len(Users[idx].data) /\ sector = Pos(Users, idx) + 1 + copied
        /\ rolling = Sum(Users, idx + 1) /\ Partly(disk, Users[idx], Pos(Users, idx), copied)
    BY Zenon, <1>1, <2>1, UsersAre DEF SyncInv, IsFiles
  <2>3. ~AllSaved
    <3>1. idx # Len(Users) + 1
      BY <2>2
    <3> QED
      BY Zenon, <2>1, <3>1, SavingIs
  <2>4. Saving = Users[idx] /\ Len(Saving.data) \in Nat /\ IsFiles(Users)
    BY <1>1, <2>1, <2>3, SavingIs, UsersAre, Sizes
  <2>5. copied \in Nat /\ Pos(Users, idx) \in Nat
    <3>1. copied \in Nat
      BY Sizes DEF Base, Shapes
    <3> QED
      BY Zenon, <2>2, <2>4, <3>1, PosApart
  <2>6. copied' \in 0 .. Len(Saving.data)
    <3>1. copied < Len(Saving.data)
      BY Zenon, <2>2, <2>4
    <3> QED
      BY <2>1, <2>4, <2>5, <3>1
  <2>7. sector = Pos(Users, idx) + copied'
    BY <2>1, <2>2, <2>5
  <2>8. /\ Target = sector /\ disk'[sector] = Data(Saving.data[copied'])
        /\ \A s \in Sectors : s # sector => disk'[s] = disk[s]
    BY Zenon, <2>1, <2>3, Writes, WritesWhat
  <2>9. sector \in Sectors
    BY Zenon, <2>1, <2>8, Writes
  <2>10. Partly(disk', Saving, Pos(Users, idx), copied')
    <3>1. ASSUME NEW k \in Nat, k <= copied PROVE Pos(Users, idx) + k \in Sectors /\ Pos(Users, idx) + k # sector
      BY <2>1, <2>5, <2>7, <2>9, <3>1, Sizes DEF Sectors
    <3>2. disk'[Pos(Users, idx)] = Meta(Saving)
      <4>1. Pos(Users, idx) \in Sectors /\ Pos(Users, idx) # sector
        BY <2>1, <2>5, <2>7, <2>9, Sizes DEF Sectors
      <4> QED
        BY Zenon, <2>2, <2>4, <2>8, <4>1 DEF Partly
    <3>3. ASSUME NEW j \in 1 .. copied' PROVE disk'[Pos(Users, idx) + j] = Data(Saving.data[j])
      <4>1. CASE j = copied'
        BY Zenon, <2>7, <2>8, <4>1
      <4>2. CASE j # copied'
        <5>1. j \in 1 .. copied /\ j \in Nat /\ j <= copied
          BY <2>1, <2>5, <4>2
        <5>2. Pos(Users, idx) + j \in Sectors /\ Pos(Users, idx) + j # sector
          BY Zenon, <3>1, <5>1
        <5> QED
          BY Zenon, <2>2, <2>4, <2>8, <5>1, <5>2 DEF Partly
      <4> QED
        BY Zenon, <4>1, <4>2
    <3> QED
      BY Zenon, <3>2, <3>3 DEF Partly
  <2>11. rolling' = Sum(Users, idx + 1)
    BY Zenon, <1>7, <2>2 DEF SyncData
  <2> QED
    BY Zenon, <2>1, <2>3, <2>6, <2>7, <2>10, <2>11, Advance
<1>8. CASE SyncSuper \/ WriteFails \/ Restart \/ \E p \in Paths, d \in Contents : ToolWrite(p, d)
  <2>1. pc' \in {"run", "boot"}
    BY Zenon, <1>8 DEF SyncSuper, WriteFails, Restart, ToolWrite, SyncReturns
  <2> QED
    BY Zenon, <1>2, <2>1
<1>9. CASE UNCHANGED vars
  BY Zenon, <1>1, <1>9 DEF vars, SyncInv, AllSynced, Users
<1> QED
  BY Zenon, <1>3, <1>4, <1>5, <1>6, <1>7, <1>8, <1>9 DEF Next

\* The invariant of all steps.
LEMMA BaseHolds == Spec => []Base
<1>1. Init => Base
  BY Zenon, BaseInit
<1>2. Base /\ [Next]_vars => Base'
  <2> SUFFICES ASSUME Base, [Next]_vars PROVE Base'
    OBVIOUS
  <2>1. Shapes'
    BY Zenon, ShapesStep
  <2>2. TableInv'
    BY Zenon, TableStep
  <2>3. DiskInv'
    BY Zenon, DiskStep
  <2>4. LoadInv'
    BY Zenon, LoadStep
  <2>5. SyncInv'
    BY Zenon, SyncStep
  <2> QED
    BY Zenon, <2>1, <2>2, <2>3, <2>4, <2>5 DEF Base
<1> QED
  BY <1>1, <1>2, PTL DEF Spec

\* The table keeps one slot for each path, the loops of persist.c stay within
\* table and device, and a boot from an AOS2 image that reports success has
\* restored only files a sync was given, path and data together.
THEOREM WholeFiles == Spec => []PersistInv
<1>1. Base => PersistInv
  <2> SUFFICES ASSUME Base PROVE PersistInv
    OBVIOUS
  <2>1. PICK m : Packed(files, m)
    BY Zenon DEF Base, TableInv
  <2>2. ASSUME NEW i \in Slots, files[i] # NoFile
        PROVE  /\ files[i].path \in Paths \/ is_sys_path(files[i].path)
               /\ Len(files[i].data) < RAMFS_FILE_SIZE
               /\ Named(files, files[i].path) = {i}
    <3>1. i \in 1 .. Len(SysFiles) + m /\ m \in Nat
      BY Zenon, <2>1, <2>2, PackedSlots DEF Packed
    <3>2. Named(files, files[i].path) = {i}
      BY Zenon, <2>1, <2>2, NamedOnce
    <3>3. CASE i \in 1 .. Len(SysFiles)
      <4>1. files[i] = SysFiles[i]
        BY Zenon, <2>1, <3>3 DEF Packed
      <4>2. is_sys_path(files[i].path) /\ Len(files[i].data) \in 0 .. RAMFS_FILE_SIZE - 1
        BY Zenon, <3>3, <4>1, Seeded
      <4>3. Len(files[i].data) < RAMFS_FILE_SIZE
        BY <4>2, Sizes
      <4> QED
        BY Zenon, <3>2, <4>2, <4>3
    <3>4. CASE i \notin 1 .. Len(SysFiles)
      <4>1. i \in Len(SysFiles) + 1 .. Len(SysFiles) + m
        BY <3>1, <3>4, Sizes
      <4>2. files[i].path \in Paths /\ Len(files[i].data) \in 0 .. RAMFS_FILE_SIZE - 1
        BY Zenon, <2>1, <4>1 DEF Packed, UserFile
      <4>3. Len(files[i].data) < RAMFS_FILE_SIZE
        BY <4>2, Sizes
      <4> QED
        BY Zenon, <3>2, <4>2, <4>3
    <3> QED
      BY Zenon, <3>3, <3>4
  <2>3. DOMAIN disk = Sectors
    BY Zenon DEF Base, DiskInv
  <2>4. TypeOK
    BY Zenon, <2>2, <2>3 DEF TypeOK, Base, Shapes
  <2>5. RestoredFilesWhole
    BY Zenon DEF RestoredFilesWhole, Base, LoadInv, AllSynced, FromAOS2, Users
  <2> QED
    BY Zenon, <2>4, <2>5 DEF PersistInv
<1> QED
  BY <1>1, BaseHolds, PTL

\* The superblock is the commit point of persist_sync: a step that changes it
\* finds every user file whole on the device.
THEOREM SuperblockLast == Spec => SuperLast
<1>1. Base /\ [Next]_vars => (disk'[0] # disk[0] => InPlace(disk, ramfs_user(files)))
  <2> SUFFICES ASSUME Base, [Next]_vars, disk'[0] # disk[0] PROVE InPlace(disk, Users)
    BY Zenon DEF Users
  <2>1. ASSUME pc \in {"meta", "data"}, WriteSector PROVE InPlace(disk, Users)
    <3>1. 0 \in Sectors
      BY Sizes DEF Sectors
    <3>2. AllSaved
      BY Zenon, <2>1, <3>1, Writes, WritesWhat
    <3>3. idx = Len(Users) + 1 /\ IsFiles(Users) /\ Len(Users) \in Nat
      BY Zenon, <2>1, <3>2, SavingIs, UsersAre DEF Base, IsFiles
    <3>4. idx - 1 = Len(Users)
      BY <3>3
    <3>5. StoredTo(disk, Users, Len(Users))
      BY Zenon, <2>1, <3>4 DEF Base, SyncInv
    <3> QED
      BY Zenon, <3>3, <3>5, InPlacePositions
  <2>2. \/ UNCHANGED disk
        \/ pc \in {"meta", "data"} /\ WriteSector
    BY Zenon DEF Next, ReadSuper, LoadFile, ReadFails, LoadEnds, agent_sync, SyncMeta, SyncData, SyncSuper,
                 WriteFails, ToolWrite, Restart, vars
  <2> QED
    BY Zenon, <2>1, <2>2
<1> QED
  BY <1>1, BaseHolds, PTL DEF Spec, SuperLast

-----------------------------------------------------------------------------
(* What a completed sync saved is what a boot restores.                     *)

\* No data a program writes is larger than a file: ramfs_write refuses such a
\* size after it has made an empty file, which persist_load does not accept.
ContentsFit == \A d \in Contents : Len(d) < RAMFS_FILE_SIZE

\* User files are not empty.
NoneEmpty(fs) == \A i \in Slots \ (1 .. Len(SysFiles)) : fs[i] # NoFile => Len(fs[i].data) \in Nat \ {0}

Kept(fs) == IsFiles(fs) /\ Loadable(fs)

\* No sync that tried to save something else was cut short.
Certain == doubt = {saved}

\* The device holds an image of fs.
ImageOf(d, fs) ==
    \/ d[0] = Blank /\ fs = <<>>
    \/ /\ StoredTo(d, fs, Len(fs))
       /\ \E version \in {AOS1, AOS2} : \E c :
              d[0] = Super(version, Len(fs), c) /\ (version = AOS2 => c = Sum(fs, Len(fs) + 1))

\* persist_load has restored the files of fs before idx.
Restored(fs) ==
    /\ sup = disk[0]
    /\ idx \in 1 .. Len(fs) + 1
    /\ Packed(files, idx - 1) /\ \A k \in 1 .. idx - 1 : files[Len(SysFiles) + k] = fs[k]
    /\ sector = Pos(fs, idx)
    /\ sup.version = AOS2 => rolling = Sum(fs, idx)

SavedInv ==
    /\ NoneEmpty(files) /\ Kept(saved)
    /\ pc \in {"meta", "data"} => outcome \in {"used", "migrating"}
    /\ Certain =>
           /\ ImageOf(disk, saved)
           /\ pc = "load" => Restored(saved)
           /\ pc \in {"meta", "data"} => Users = saved
           /\ outcome # "corrupt"
           /\ outcome = "ok" => Users = saved

\* The files of a table without empty ones can be read back.
LEMMA UsersKept == ASSUME TableInv, NoneEmpty(files) PROVE Kept(Users)
<1>1. PICK m : Packed(files, m) /\ Len(Users) = m
  BY Zenon, UsersAre
<1>2. m \in Nat /\ Len(SysFiles) + m <= RAMFS_MAX_FILES
  BY Zenon, <1>1 DEF Packed
<1>3. IsFiles(Users) /\ DOMAIN Users = 1 .. m
  BY Zenon, <1>1, UsersAre
<1>4. ASSUME NEW k \in 1 .. m
      PROVE  /\ Len(SysFiles) + k \in Slots \ (1 .. Len(SysFiles)) /\ Len(SysFiles) + k \in 1 .. Len(SysFiles) + m
             /\ Users[k] = files[Len(SysFiles) + k] /\ UserFile(Users[k])
  <2>1. Len(SysFiles) + k \in Slots /\ Users[k] = files[Len(SysFiles) + k] /\ UserFile(Users[k])
    BY Zenon, <1>1, <1>3, PackedFiles DEF Users, IsFiles
  <2>2. Len(SysFiles) + k \notin 1 .. Len(SysFiles) /\ Len(SysFiles) + k \in 1 .. Len(SysFiles) + m
    BY <1>2, Sizes
  <2> QED
    BY Zenon, <2>1, <2>2
<1>5. ASSUME NEW k \in 1 .. m PROVE Len(Users[k].data) \in 1 .. RAMFS_FILE_SIZE - 1
  <2>1. Len(Users[k].data) \in Nat \ {0}
    BY Zenon, <1>4, UserFileIsUser DEF NoneEmpty
  <2>2. Len(Users[k].data) \in 0 .. RAMFS_FILE_SIZE - 1
    BY Zenon, <1>4 DEF UserFile
  <2> QED
    BY <2>1, <2>2, Sizes
<1>6. ASSUME NEW j \in 1 .. m, NEW k \in 1 .. m, Users[j].path = Users[k].path PROVE j = k
  <2>1. /\ Len(SysFiles) + j \in 1 .. Len(SysFiles) + m /\ Len(SysFiles) + k \in 1 .. Len(SysFiles) + m
        /\ files[Len(SysFiles) + j].path = files[Len(SysFiles) + k].path
    BY Zenon, <1>4, <1>6
  <2>2. \A h, i \in 1 .. Len(SysFiles) + m : files[h].path = files[i].path => h = i
    BY Zenon, <1>1 DEF Packed
  <2>3. Len(SysFiles) + j = Len(SysFiles) + k
    BY Zenon, <2>1, <2>2
  <2> QED
    BY <1>2, <2>3, Sizes
<1> QED
  BY Zenon, <1>1, <1>2, <1>3, <1>5, <1>6 DEF Kept, Loadable

\* No step makes an empty file.
LEMMA NoneEmptyStep == ASSUME ContentsFit, Base, NoneEmpty(files), [Next]_vars PROVE NoneEmpty(files')
<1>1. CASE files' = files
  BY Zenon, <1>1
<1>2. CASE files' = ramfs_init
  <2>1. \A i \in Slots \ (1 .. Len(SysFiles)) : ramfs_init[i] = NoFile
    BY Sizes DEF ramfs_init, Slots
  <2> QED
    BY Zenon, <1>2, <2>1 DEF NoneEmpty
<1>3. CASE GoodMeta /\ PutAccepts(files, disk[sector].path, ReadData) /\ files' = ramfs_put(files, disk[sector].path, ReadData)
  <2>1. PICK m : Packed(files, m)
    BY Zenon DEF Base, TableInv
  <2>2. disk[sector].path \in Paths /\ IsData(ReadData)
    BY Zenon, <1>3, ReadsFile DEF UserFile
  <2>3. \A i \in Slots : files'[i] \in {files[i], File(disk[sector].path, ReadData)}
    BY Zenon, <1>3, <2>1, <2>2, PutPacked
  <2>4. Len(ReadData) \in Nat \ {0}
    BY <1>3, Sizes DEF PutAccepts
  <2>5. File(disk[sector].path, ReadData).data = ReadData
    BY Zenon, FileNotFree
  <2>6. ASSUME NEW i \in Slots \ (1 .. Len(SysFiles)), files'[i] # NoFile PROVE Len(files'[i].data) \in Nat \ {0}
    <3>1. CASE files'[i] = files[i]
      BY Zenon, <2>6, <3>1 DEF NoneEmpty
    <3>2. CASE files'[i] = File(disk[sector].path, ReadData)
      BY Zenon, <2>4, <2>5, <3>2
    <3> QED
      BY Zenon, <2>3, <2>6, <3>1, <3>2
  <2> QED
    BY Zenon, <2>6 DEF NoneEmpty
<1>4. CASE \E p \in Paths, d \in Contents : ToolWrite(p, d)
  <2>1. PICK p \in Paths, d \in Contents : files' = ramfs_write(files, p, d)
    BY Zenon, <1>4 DEF ToolWrite
  <2>2. IsData(d) /\ Len(d) < RAMFS_FILE_SIZE
    BY Zenon, PersistAssumption DEF IsData, ContentsFit
  <2>3. PICK m : Packed(files, m)
    BY Zenon DEF Base, TableInv
  <2>4. \A i \in Slots : files'[i] = files[i] \/ Len(files'[i].data) \in Nat \ {0}
    BY Zenon, <2>1, <2>2, <2>3, WritePacked
  <2> QED
    BY Zenon, <2>4 DEF NoneEmpty
<1>5. CASE ReadSuper
  BY Zenon, <1>1, <1>2, <1>5, InitPacked DEF ReadSuper, Base, TableInv
<1>6. CASE LoadFile
  BY Zenon, <1>1, <1>3, <1>6 DEF LoadFile
<1>7. CASE ReadFails \/ LoadEnds \/ agent_sync \/ SyncMeta \/ SyncData \/ SyncSuper \/ WriteFails
  BY Zenon, <1>1, <1>7 DEF ReadFails, LoadEnds, agent_sync, SyncMeta, SyncData, SyncSuper, WriteFails
<1>8. CASE Restart
  BY Zenon, <1>2, <1>8 DEF Restart
<1>9. CASE UNCHANGED vars
  BY Zenon, <1>1, <1>9 DEF vars
<1> QED
  BY Zenon, <1>4, <1>5, <1>6, <1>7, <1>8, <1>9 DEF Next

\* The superblock commits what the loop has put in place.
LEMMA Committed ==
  ASSUME Base, pc \in {"meta", "data"}, AllSaved, WriteSector
  PROVE  ImageOf(disk', Users)
<1>1. idx = Len(Users) + 1 /\ IsFiles(Users) /\ Len(Users) \in Nat
  BY Zenon, SavingIs, UsersAre DEF Base, IsFiles
<1>2. SyncInv
  BY Zenon DEF Base
<1>3. pc = "meta"
  <2>1. ~(idx <= Len(Users))
    BY <1>1
  <2> QED
    BY Zenon, <1>2, <2>1 DEF SyncInv
<1>4. rolling = Sum(Users, Len(Users) + 1)
  BY Zenon, <1>1, <1>2, <1>3 DEF SyncInv
<1>5. StoredTo(disk, Users, Len(Users))
  <2>1. idx - 1 = Len(Users)
    BY <1>1
  <2> QED
    BY Zenon, <1>2, <2>1 DEF SyncInv
<1>6. 0 \in Sectors
  BY Sizes DEF Sectors
<1>7. disk'[0] = Super(AOS2, Len(Users), rolling) /\ \A s \in Sectors : s # 0 => disk'[s] = disk[s]
  BY Zenon, <1>6, Writes, WritesWhat
<1>8. StoredTo(disk', Users, Len(Users))
  <2>1. SUFFICES ASSUME NEW i \in 1 .. Len(Users) PROVE Stored(disk', Users[i], Pos(Users, i))
    BY Zenon DEF StoredTo
  <2>2. Stored(disk, Users[i], Pos(Users, i))
    BY Zenon, <1>5 DEF StoredTo
  <2>3. Pos(Users, i) \in Nat \ {0} /\ Len(Users[i].data) \in Nat
    <3>1. i \in 1 .. Len(Users) + 1
      BY <1>1
    <3> QED
      BY Zenon, <1>1, <3>1, PosApart, FileSizes
  <2>4. 0 \notin Pos(Users, i) .. Pos(Users, i) + Len(Users[i].data)
    BY <2>3
  <2> QED
    BY Zenon, <1>1, <1>7, <2>2, <2>4, StoredKept
<1> QED
  BY Zenon, <1>4, <1>7, <1>8 DEF ImageOf

\* Saving again what is on the device changes nothing but the superblock.
LEMMA SavedAgain ==
  ASSUME Base, pc \in {"meta", "data"}, WriteSector, ImageOf(disk, Users)
  PROVE  ImageOf(disk', Users)
<1>1. CASE AllSaved
  BY Zenon, <1>1, Committed
<1>2. CASE ~AllSaved
  <2>1. /\ idx \in 1 .. Len(Users) /\ Saving = Users[idx] /\ UserFile(Saving)
        /\ IsFiles(Users) /\ Len(Users) \in Nat
    BY Zenon, <1>2, SavingIs, UsersAre DEF Base, IsFiles
  <2>2. Users # <<>>
    BY <2>1
  <2>3. StoredTo(disk, Users, Len(Users))
    BY Zenon, <2>2 DEF ImageOf
  <2>4. Stored(disk, Users[idx], Pos(Users, idx))
    BY Zenon, <2>1, <2>3 DEF StoredTo
  <2>5. Target = sector /\ SyncInv
    BY Zenon, <1>2, WritesWhat DEF Base
  <2>6. Written = disk[sector]
    <3>1. CASE pc = "meta"
      BY Zenon, <1>2, <2>1, <2>4, <2>5, <3>1, WritesWhat DEF SyncInv, Stored
    <3>2. CASE pc = "data"
      <4>1. copied < Len(Saving.data) /\ sector = Pos(Users, idx) + 1 + copied
        BY Zenon, <2>1, <2>5, <3>2 DEF SyncInv
      <4>2. /\ DOMAIN Saving.data = 1 .. Len(Saving.data) /\ Len(Saving.data) \in Nat
            /\ Pos(Users, idx) \in Sectors
        BY Zenon, <2>1, <2>4, StoredSectors
      <4>3. copied \in Nat /\ Pos(Users, idx) \in Nat
        BY <4>2, Sizes DEF Base, Shapes, Sectors
      <4>4. copied + 1 \in DOMAIN Saving.data /\ sector = Pos(Users, idx) + (copied + 1)
        BY <4>1, <4>2, <4>3
      <4>5. disk[sector] = Data(Saving.data[copied + 1])
        BY Zenon, <2>1, <2>4, <4>4 DEF Stored
      <4> QED
        BY Zenon, <1>2, <3>2, <4>5, WritesWhat
    <3> QED
      BY Zenon, <3>1, <3>2
  <2>7. \A s \in Sectors : disk'[s] = disk[s]
    BY Zenon, <2>5, <2>6, Writes
  <2>8. disk' = disk
    BY Zenon, <2>7, Writes DEF Base, DiskInv
  <2> QED
    BY Zenon, <2>8
<1> QED
  BY Zenon, <1>1, <1>2

\* What persist_load finds at its place in an image: the next file, as saved.
LEMMA ReadsSaved ==
  ASSUME Base, Kept(saved), StoredTo(disk, saved, Len(saved)), Restored(saved), idx <= Len(saved)
  PROVE  /\ idx \in 1 .. Len(saved) /\ UserFile(saved[idx])
         /\ GoodMeta /\ disk[sector] = Meta(saved[idx]) /\ ReadData = saved[idx].data
<1> DEFINE file == saved[idx]
<1>1. IsFiles(saved) /\ Len(saved) \in Nat /\ idx \in 1 .. Len(saved) + 1
  BY Zenon DEF Kept, IsFiles, Restored
<1>2. idx \in 1 .. Len(saved)
  BY <1>1
<1>3. Stored(disk, file, sector) /\ sector = Pos(saved, idx)
  BY Zenon, <1>2 DEF StoredTo, Restored
<1>4. /\ DOMAIN file.data = 1 .. Len(file.data) /\ Len(file.data) \in Nat
      /\ sector \in Sectors
  BY Zenon, <1>1, <1>2, <1>3, StoredSectors
<1>5. UserFile(file)
  BY Zenon, <1>1, <1>2 DEF IsFiles
<1>6. DOMAIN saved = 1 .. Len(saved)
  BY Zenon, <1>1 DEF IsFiles
<1>7. Len(file.data) \in 1 .. RAMFS_FILE_SIZE - 1
  BY Zenon, <1>2, <1>6 DEF Kept, Loadable
<1> HIDE DEF file
<1>8. disk[sector] = Meta(file) /\ sector + Len(file.data) \in Sectors
  BY Zenon, <1>3 DEF Stored
<1>9. disk[sector].kind = "meta" /\ disk[sector].size = Len(file.data)
  BY Zenon, <1>8, SectorFields
<1>10. disk[sector].size \in 1 .. RAMFS_FILE_SIZE
  BY <1>7, <1>9, Sizes
<1>11. GoodMeta
  BY Zenon, <1>4, <1>8, <1>9, <1>10 DEF GoodMeta
<1>12. ASSUME NEW k \in 1 .. Len(file.data) PROVE ReadData[k] = file.data[k]
  <2>1. disk[sector + k] = Data(file.data[k])
    BY Zenon, <1>3, <1>4 DEF Stored
  <2>2. disk[sector + k].kind = "data" /\ disk[sector + k].chunk = file.data[k]
    BY ZenonT(60), <2>1, SectorFields
  <2>3. k \in 1 .. disk[sector].size
    BY Zenon, <1>9
  <2> QED
    BY Zenon, <2>2, <2>3 DEF ReadData
<1>13. file.data = [k \in 1 .. Len(file.data) |-> file.data[k]]
  <2>1. PICK S : file.data \in Seq(S)
    BY Zenon, <1>5 DEF UserFile, IsData
  <2> QED
    BY <2>1
<1>14. ReadData = [k \in 1 .. Len(file.data) |-> ReadData[k]]
  BY Zenon, <1>9 DEF ReadData
<1>15. ReadData = file.data
  BY Zenon, <1>12, <1>13, <1>14
<1> QED
  BY Zenon, <1>2, <1>5, <1>8, <1>11, <1>15 DEF file

\* The table has room for it,
LEMMA AcceptsSaved ==
  ASSUME Base, Kept(saved), Restored(saved), idx \in 1 .. Len(saved)
  PROVE  Named(files, saved[idx].path) = {} /\ PutAccepts(files, saved[idx].path, saved[idx].data)
<1>1. /\ IsFiles(saved) /\ Len(saved) \in Nat /\ Packed(files, idx - 1)
      /\ \A k \in 1 .. idx - 1 : files[Len(SysFiles) + k] = saved[k]
  BY Zenon DEF Kept, IsFiles, Restored
<1>2. DOMAIN saved = 1 .. Len(saved) /\ UserFile(saved[idx])
  BY Zenon, <1>1 DEF IsFiles
<1>3. /\ Len(SysFiles) + Len(saved) <= RAMFS_MAX_FILES
      /\ Len(saved[idx].data) \in 1 .. RAMFS_FILE_SIZE - 1
      /\ \A i, j \in 1 .. Len(saved) : saved[i].path = saved[j].path => i = j
  BY Zenon, <1>2 DEF Kept, Loadable
<1>4. Len(SysFiles) + (idx - 1) = Len(SysFiles) + idx - 1 /\ idx \in Nat
  BY <1>1, Sizes
<1>5. Named(files, saved[idx].path) = {}
  <2>1. SUFFICES ASSUME NEW i \in Slots, files[i] # NoFile, files[i].path = saved[idx].path PROVE FALSE
    BY Zenon DEF Named
  <2>2. i \in 1 .. Len(SysFiles) + (idx - 1)
    BY Zenon, <1>1, <2>1, PackedSlots
  <2>3. CASE i \in 1 .. Len(SysFiles)
    <3>1. files[i] = SysFiles[i]
      BY Zenon, <1>1, <2>3 DEF Packed
    <3> QED
      BY Zenon, <1>2, <2>1, <2>3, <3>1, Seeded DEF UserFile
  <2>4. CASE i \notin 1 .. Len(SysFiles)
    <3>1. PICK k \in 1 .. idx - 1 : i = Len(SysFiles) + k
      <4>1. i - Len(SysFiles) \in 1 .. idx - 1 /\ i = Len(SysFiles) + (i - Len(SysFiles))
        BY <1>4, <2>2, <2>4, Sizes
      <4> QED
        BY Zenon, <4>1
    <3>2. k \in 1 .. Len(saved) /\ k # idx
      BY <1>1
    <3> QED
      BY Zenon, <1>1, <1>3, <2>1, <3>1, <3>2
  <2> QED
    BY Zenon, <2>3, <2>4
<1>6. FreeSlots(files) # {}
  <2>1. Len(SysFiles) + idx \in Len(SysFiles) + (idx - 1) + 1 .. RAMFS_MAX_FILES
    BY <1>1, <1>3, Sizes
  <2> QED
    BY Zenon, <1>1, <2>1, PackedSlots
<1>7. HasSlotFor(files, saved[idx].path)
  BY Zenon, <1>6 DEF HasSlotFor
<1> QED
  BY Zenon, <1>3, <1>5, <1>7 DEF PutAccepts

\* and gets it behind the others.
LEMMA RestoresNext ==
  ASSUME Base, Kept(saved), Restored(saved), idx \in 1 .. Len(saved), UserFile(saved[idx]),
         files' = ramfs_put(files, saved[idx].path, saved[idx].data)
  PROVE  Packed(files', idx) /\ \A k \in 1 .. idx : files'[Len(SysFiles) + k] = saved[k]
<1>1. /\ Packed(files, idx - 1)
      /\ \A k \in 1 .. idx - 1 : files[Len(SysFiles) + k] = saved[k]
  BY Zenon DEF Restored
<1>2. idx \in Nat \ {0} /\ Len(saved) \in Nat
  BY DEF Kept, IsFiles
<1>3. idx - 1 + 1 = idx /\ Len(SysFiles) + (idx - 1) + 1 = Len(SysFiles) + idx
  BY <1>2, Sizes
<1>4. Named(files, saved[idx].path) = {} /\ PutAccepts(files, saved[idx].path, saved[idx].data)
  BY Zenon, AcceptsSaved
<1>5. saved[idx].path \in Paths /\ IsData(saved[idx].data) /\ File(saved[idx].path, saved[idx].data) = saved[idx]
  BY Zenon DEF UserFile
<1>6. /\ Packed(files', idx - 1 + 1)
      /\ files' = [files EXCEPT ![Len(SysFiles) + (idx - 1) + 1] = File(saved[idx].path, saved[idx].data)]
  <2>1. PICK path, data : path = saved[idx].path /\ data = saved[idx].data
    BY Zenon
  <2>2. PICK m : m = idx - 1
    BY Zenon
  <2>3. path \in Paths /\ IsData(data) /\ Packed(files, m) /\ Named(files, path) = {} /\ PutAccepts(files, path, data)
    BY Zenon, <1>1, <1>4, <1>5, <2>1, <2>2
  <2>4. Packed(ramfs_put(files, path, data), m + 1) /\ ramfs_put(files, path, data) = [files EXCEPT ![Len(SysFiles) + m + 1] = File(path, data)]
    BY <2>3, PutPacked
  <2> QED
    BY Zenon, <2>1, <2>2, <2>4
<1>7. Packed(files', idx) /\ files' = [files EXCEPT ![Len(SysFiles) + idx] = saved[idx]]
  BY Zenon, <1>3, <1>5, <1>6
<1>8. files = [i \in Slots |-> files[i]] /\ Len(SysFiles) + idx \in Slots
  <2>1. Len(SysFiles) + idx <= RAMFS_MAX_FILES
    BY Zenon, <1>7 DEF Packed
  <2>2. Len(SysFiles) + idx \in Slots
    BY <1>2, <2>1, Sizes DEF Slots
  <2> QED
    BY Zenon, <1>1, <2>2 DEF Packed
<1>9. ASSUME NEW k \in 1 .. idx PROVE files'[Len(SysFiles) + k] = saved[k]
  <2>1. CASE k = idx
    BY Zenon, <1>7, <1>8, <2>1
  <2>2. CASE k # idx
    <3>1. k \in 1 .. idx - 1 /\ Len(SysFiles) + k # Len(SysFiles) + idx /\ Len(SysFiles) + k \in Slots
      BY SMTT(60), <1>2, <1>8, <2>2, Sizes DEF Slots
    <3> QED
      BY Zenon, <1>1, <1>7, <1>8, <3>1
  <2> QED
    BY Zenon, <2>1, <2>2
<1> QED
  BY Zenon, <1>7, <1>9

\* A table that holds fs behind the seeded files has fs as its user files.
LEMMA UsersOf ==
  ASSUME NEW fs, IsFiles(fs), Packed(files, Len(fs)), \A k \in 1 .. Len(fs) : files[Len(SysFiles) + k] = fs[k]
  PROVE  Users = fs
<1>1. Users = [k \in 1 .. Len(fs) |-> files[Len(SysFiles) + k]]
  BY Zenon, PackedUser DEF Users
<1>2. fs = [k \in 1 .. Len(fs) |-> fs[k]]
  BY Zenon DEF IsFiles
<1> QED
  BY Zenon, <1>1, <1>2

\* The invariant of saved files holds at the first boot.
LEMMA SavedInit == ASSUME Init PROVE SavedInv
<1>1. PICK image \in FirstImages : disk = image.disk /\ saved = image.files /\ doubt = {image.files}
  BY Zenon DEF Init
<1>2. IsFiles(saved) /\ Loadable(saved) /\ Len(saved) \in Nat
  BY Zenon, <1>1, FirstFiles DEF IsFiles
<1>3. pc = "boot" /\ outcome = "none" /\ files = ramfs_init
  BY Zenon DEF Init
<1>4. NoneEmpty(files)
  <2>1. \A i \in Slots \ (1 .. Len(SysFiles)) : ramfs_init[i] = NoFile
    BY Sizes DEF ramfs_init, Slots
  <2> QED
    BY Zenon, <1>3, <2>1 DEF NoneEmpty
<1>5. ImageOf(disk, saved)
  <2>1. CASE image.files = <<>> /\ image.disk = [s \in Sectors |-> Blank]
    <3>1. 0 \in Sectors
      BY Sizes DEF Sectors
    <3> QED
      BY Zenon, <1>1, <2>1, <3>1 DEF ImageOf
  <2>2. CASE /\ \E version \in {AOS1, AOS2} : \E sum \in [1 .. Len(saved) + 1 -> SUBSET Tokens(saved)] :
                 /\ Sums(saved, sum, Len(saved) + 1)
                 /\ disk[0] = Super(version, Len(saved), IF version = AOS2 THEN sum[Len(sum)] ELSE {})
             /\ InPlace(disk, saved)
    <3>1. PICK version \in {AOS1, AOS2} : \E sum \in [1 .. Len(saved) + 1 -> SUBSET Tokens(saved)] :
                 /\ Sums(saved, sum, Len(saved) + 1)
                 /\ disk[0] = Super(version, Len(saved), IF version = AOS2 THEN sum[Len(sum)] ELSE {})
      BY Zenon, <2>2
    <3>2. PICK sum \in [1 .. Len(saved) + 1 -> SUBSET Tokens(saved)] :
                 /\ Sums(saved, sum, Len(saved) + 1)
                 /\ disk[0] = Super(version, Len(saved), IF version = AOS2 THEN sum[Len(sum)] ELSE {})
      BY Zenon, <3>1
    <3>3. Len(sum) = Len(saved) + 1
      BY <1>2, <3>2
    <3>4. sum[Len(sum)] = Sum(saved, Len(saved) + 1)
      BY Zenon, <1>2, <3>2, <3>3, SumsUnique
    <3>5. StoredTo(disk, saved, Len(saved))
      BY Zenon, <1>2, <2>2, InPlacePositions
    <3> QED
      BY Zenon, <3>2, <3>4, <3>5 DEF ImageOf
  <2> QED
    BY Zenon, <1>1, <2>1, <2>2, PersistAssumption DEF FirstImage
<1> QED
  BY Zenon, <1>2, <1>3, <1>4, <1>5 DEF SavedInv, Kept

\* The superblock of an image in use counts its files.
LEMMA ImageSuper ==
  ASSUME NEW fs, ImageOf(disk, fs), disk[0] # Blank
  PROVE  /\ StoredTo(disk, fs, Len(fs)) /\ disk[0].count = Len(fs)
         /\ disk[0].version \in {AOS1, AOS2} /\ (disk[0].version = AOS2 => disk[0].checksum = Sum(fs, Len(fs) + 1))
<1>1. PICK version \in {AOS1, AOS2} : \E c :
          disk[0] = Super(version, Len(fs), c) /\ (version = AOS2 => c = Sum(fs, Len(fs) + 1))
  BY Zenon DEF ImageOf
<1>2. PICK c : disk[0] = Super(version, Len(fs), c) /\ (version = AOS2 => c = Sum(fs, Len(fs) + 1))
  BY Zenon, <1>1
<1>3. disk[0].count = Len(fs) /\ disk[0].version = version /\ disk[0].checksum = c
  <2>1. /\ Super(version, Len(fs), c).count = Len(fs) /\ Super(version, Len(fs), c).version = version
        /\ Super(version, Len(fs), c).checksum = c
    BY DEF Super
  <2> QED
    BY Zenon, <1>2, <2>1
<1> QED
  BY Zenon, <1>2, <1>3 DEF ImageOf

\* A file read from the image goes to its place.
LEMMA LoadFileSaved ==
  ASSUME Base, SavedInv, Certain, LoadFile
  PROVE  pc' = "load" /\ outcome' = "none" /\ Restored(saved)'
<1>1. pc = "load" /\ Kept(saved) /\ ImageOf(disk, saved) /\ Restored(saved) /\ sup # Blank /\ outcome = "none"
  BY Zenon DEF SavedInv, LoadFile, Base, LoadInv
<1>2. sup = disk[0] /\ disk[0] # Blank
  BY Zenon, <1>1 DEF Restored
<1>3. StoredTo(disk, saved, Len(saved)) /\ sup.count = Len(saved)
  BY Zenon, <1>1, <1>2, ImageSuper
<1>4. idx <= Len(saved)
  BY Zenon, <1>3 DEF LoadFile
<1>5. /\ idx \in 1 .. Len(saved) /\ UserFile(saved[idx])
      /\ GoodMeta /\ disk[sector] = Meta(saved[idx]) /\ ReadData = saved[idx].data
  BY Zenon, <1>1, <1>3, <1>4, ReadsSaved
<1>6. disk[sector].path = saved[idx].path /\ disk[sector].size = Len(saved[idx].data) /\ disk[sector].crc = saved[idx].data
  BY Zenon, <1>5, SectorFields
<1>7. CrcMatches /\ PutAccepts(files, disk[sector].path, ReadData)
  BY Zenon, <1>1, <1>5, <1>6, AcceptsSaved DEF CrcMatches
<1>8. /\ files' = ramfs_put(files, saved[idx].path, saved[idx].data)
      /\ rolling' = IF sup.version = AOS2 THEN Roll(rolling, Meta(saved[idx])) ELSE rolling
      /\ idx' = idx + 1 /\ sector' = sector + 1 + Len(saved[idx].data)
      /\ pc' = pc /\ sup' = sup /\ outcome' = outcome /\ disk' = disk /\ saved' = saved
  BY Zenon, <1>5, <1>6, <1>7 DEF LoadFile, Ghosts
<1>9. Packed(files', idx) /\ \A k \in 1 .. idx : files'[Len(SysFiles) + k] = saved[k]
  BY Zenon, <1>1, <1>5, <1>8, RestoresNext
<1>10. Len(saved) \in Nat /\ IsFiles(saved)
  BY Zenon, <1>1 DEF Kept, IsFiles
<1>11. idx' - 1 = idx /\ idx' \in 1 .. Len(saved) + 1
  BY <1>5, <1>8, <1>10
<1>12. sector = Pos(saved, idx) /\ (sup.version = AOS2 => rolling = Sum(saved, idx))
  BY Zenon, <1>1 DEF Restored
<1>13. Pos(saved, idx + 1) = Pos(saved, idx) + 1 + Len(saved[idx].data) /\ Sum(saved, idx + 1) = Roll(Sum(saved, idx), Meta(saved[idx]))
  BY Zenon, <1>5, <1>10, PosStep, SumStep
<1>14. sector' = Pos(saved', idx') /\ (sup'.version = AOS2 => rolling' = Sum(saved', idx'))
  BY Zenon, <1>8, <1>12, <1>13
<1>15. Packed(files', idx' - 1) /\ \A k \in 1 .. idx' - 1 : files'[Len(SysFiles) + k] = saved'[k]
  BY Zenon, <1>8, <1>9, <1>11
<1> QED
  BY Zenon, <1>1, <1>2, <1>8, <1>11, <1>14, <1>15 DEF Restored

\* At its end the load has restored the saved files.
LEMMA LoadEndsSaved ==
  ASSUME Base, SavedInv, Certain, LoadEnds
  PROVE  Users = saved /\ (sup.version = AOS2 => rolling = sup.checksum)
<1>1. pc = "load" /\ Kept(saved) /\ ImageOf(disk, saved) /\ Restored(saved) /\ sup # Blank
  BY Zenon DEF SavedInv, LoadEnds, Base, LoadInv
<1>2. sup = disk[0] /\ disk[0] # Blank /\ idx \in 1 .. Len(saved) + 1
  BY Zenon, <1>1 DEF Restored
<1>3. sup.count = Len(saved) /\ (sup.version = AOS2 => sup.checksum = Sum(saved, Len(saved) + 1))
  BY Zenon, <1>1, <1>2, ImageSuper
<1>4. IsFiles(saved) /\ Len(saved) \in Nat /\ idx > Len(saved)
  BY Zenon, <1>1, <1>3 DEF Kept, IsFiles, LoadEnds
<1>5. idx = Len(saved) + 1 /\ idx - 1 = Len(saved)
  BY <1>2, <1>4
<1>6. Packed(files, Len(saved)) /\ \A k \in 1 .. Len(saved) : files[Len(SysFiles) + k] = saved[k]
  BY Zenon, <1>1, <1>5 DEF Restored
<1>7. Users = saved
  BY Zenon, <1>4, <1>6, UsersOf
<1>8. sup.version = AOS2 => rolling = sup.checksum
  BY Zenon, <1>1, <1>3, <1>5 DEF Restored
<1> QED
  BY Zenon, <1>7, <1>8

\* A load starts with an empty table at the first file.
LEMMA LoadBegins ==
  ASSUME Base, SavedInv, ReadSuper, disk[0] # Blank
  PROVE  pc' = "load" /\ outcome' = "none" /\ Restored(saved)'
<1>1. pc = "boot" /\ files = ramfs_init /\ outcome = "none"
  BY Zenon DEF ReadSuper, Base, TableInv, LoadInv
<1>2. /\ files' = ramfs_init /\ pc' = "load" /\ sup' = disk[0] /\ disk' = disk /\ idx' = 1 /\ sector' = 1
      /\ rolling' = {} /\ outcome' = "none" /\ saved' = saved
  BY Zenon, <1>1, InitPacked DEF ReadSuper, StartLoop, Ghosts
<1>3. IsFiles(saved) /\ Len(saved) \in Nat
  BY Zenon DEF SavedInv, Kept, IsFiles
<1>4. idx' \in 1 .. Len(saved) + 1 /\ idx' - 1 = 0 /\ 1 .. idx' - 1 = {}
  BY <1>2, <1>3
<1>5. Packed(files', idx' - 1) /\ \A k \in 1 .. idx' - 1 : files'[Len(SysFiles) + k] = saved'[k]
  BY Zenon, <1>2, <1>4, InitPacked
<1>6. sector' = Pos(saved, 1) /\ rolling' = Sum(saved, 1)
  BY Zenon, <1>2, <1>3, PosStep, SumStep
<1>7. sup' = disk'[0] /\ idx' \in 1 .. Len(saved') + 1 /\ sector' = Pos(saved', idx') /\ rolling' = Sum(saved', idx')
  BY Zenon, <1>2, <1>4, <1>6
<1> QED
  BY Zenon, <1>2, <1>5, <1>7 DEF Restored

\* Every step keeps what was saved within reach of the next boot.
LEMMA SavedStep == ASSUME ContentsFit, Base, SavedInv, [Next]_vars PROVE SavedInv'
<1>1. NoneEmpty(files') /\ Kept(saved)
  BY Zenon, NoneEmptyStep DEF SavedInv
<1>2. Kept(Users) /\ saved \in doubt
  BY Zenon, UsersKept DEF SavedInv, Base, Shapes
<1>3. ASSUME saved' = saved, pc' \notin {"load", "meta", "data"}, Certain' => ImageOf(disk', saved),
             outcome' \notin {"ok", "corrupt"}
      PROVE  SavedInv'
  BY Zenon, <1>1, <1>3 DEF SavedInv
<1>4. ASSUME disk' = disk, saved' = saved, doubt' = doubt PROVE (Certain <=> Certain') /\ (Certain' => ImageOf(disk', saved))
  BY Zenon, <1>4 DEF Certain, SavedInv
<1>5. CASE ReadSuper
  <2>1. disk' = disk /\ saved' = saved /\ doubt' = doubt
    BY Zenon, <1>5 DEF ReadSuper, Ghosts
  <2>2. CASE disk[0] = Blank
    <3>1. files' = ramfs_init /\ pc' = "run" /\ outcome' = "ok"
      BY Zenon, <1>5, <2>2 DEF ReadSuper, BootEnds, Base, TableInv
    <3>2. Users' = <<>>
      BY Zenon, <3>1, NoUsers DEF Users
    <3>3. Certain => saved = <<>>
      <4>1. \A v, n, c : disk[0] # Super(v, n, c)
        BY <2>2 DEF Super, Blank
      <4> QED
        BY Zenon, <4>1 DEF SavedInv, ImageOf
    <3> QED
      BY Zenon, <1>1, <1>4, <2>1, <3>1, <3>2, <3>3 DEF SavedInv
  <2>3. CASE disk[0] # Blank
    <3>1. pc' = "load" /\ outcome' = "none" /\ Restored(saved)'
      BY Zenon, <1>5, <2>3, LoadBegins
    <3> QED
      BY Zenon, <1>1, <1>4, <2>1, <3>1 DEF SavedInv
  <2> QED
    BY Zenon, <2>2, <2>3
<1>6. CASE LoadFile
  <2>1. disk' = disk /\ saved' = saved /\ doubt' = doubt /\ pc' \in {"load", "run"}
    BY Zenon, <1>6 DEF LoadFile, Ghosts, BootEnds
  <2>2. CASE Certain
    <3>1. pc' = "load" /\ outcome' = "none" /\ Restored(saved)'
      BY Zenon, <1>6, <2>2, LoadFileSaved
    <3> QED
      BY Zenon, <1>1, <1>4, <2>1, <3>1 DEF SavedInv
  <2>3. CASE ~Certain
    BY Zenon, <1>1, <1>4, <2>1, <2>3 DEF SavedInv
  <2> QED
    BY Zenon, <2>2, <2>3
<1>7. CASE ReadFails
  <2>1. disk' = disk /\ saved' = saved /\ doubt' = doubt /\ pc' = "run" /\ outcome' = "eio"
    BY Zenon, <1>7 DEF ReadFails, Ghosts, BootEnds
  <2> QED
    BY Zenon, <1>3, <1>4, <2>1
<1>8. CASE LoadEnds
  <2>1. disk' = disk /\ saved' = saved /\ files' = files /\ Users' = Users
    BY Zenon, <1>8 DEF LoadEnds, Users
  <2>2. CASE sup.version = AOS2 /\ BootEnds(IF rolling = sup.checksum THEN "ok" ELSE "corrupt") /\ UNCHANGED <<doubt, synced>>
    <3>1. pc' = "run" /\ doubt' = doubt /\ outcome' = IF rolling = sup.checksum THEN "ok" ELSE "corrupt"
      BY Zenon, <2>2 DEF BootEnds
    <3>2. Certain => outcome' = "ok" /\ Users = saved
      BY Zenon, <1>8, <2>2, <3>1, LoadEndsSaved
    <3> QED
      BY Zenon, <1>1, <1>4, <2>1, <3>1, <3>2 DEF SavedInv
  <2>3. CASE BeginSync /\ outcome' = "migrating" /\ doubt' = IF doubt = {saved} THEN doubt ELSE doubt \cup {ramfs_user(files)}
    <3>1. pc' = "meta" /\ outcome' = "migrating"
      BY Zenon, <2>3 DEF BeginSync
    <3>2. CASE Certain
      <4>1. doubt' = doubt /\ Users = saved
        BY Zenon, <1>8, <2>3, <3>2, LoadEndsSaved DEF Certain
      <4> QED
        BY Zenon, <1>1, <1>4, <2>1, <3>1, <4>1 DEF SavedInv
    <3>3. CASE ~Certain
      <4>1. PICK g \in doubt : g # saved
        BY Zenon, <1>2, <3>3 DEF Certain
      <4>2. g \in doubt'
        BY Zenon, <2>3, <3>3, <4>1 DEF Certain
      <4>3. ~Certain'
        BY Zenon, <2>1, <4>1, <4>2 DEF Certain
      <4> QED
        BY Zenon, <1>1, <2>1, <3>1, <4>3 DEF SavedInv
    <3> QED
      BY Zenon, <3>2, <3>3
  <2> QED
    BY Zenon, <1>8, <2>2, <2>3 DEF LoadEnds
<1>9. CASE agent_sync
  <2>1. /\ disk' = disk /\ saved' = saved /\ Users' = Users /\ pc' = "meta" /\ outcome' = "used"
        /\ doubt' = doubt \cup {Users}
    BY Zenon, <1>9 DEF agent_sync, BeginSync, Users
  <2>2. Certain' => Certain /\ Users = saved
    BY Zenon, <1>2, <2>1 DEF Certain
  <2> QED
    BY Zenon, <1>1, <2>1, <2>2 DEF SavedInv
<1>10. CASE SyncMeta \/ SyncData
  <2>1. /\ pc \in {"meta", "data"} /\ pc' \in {"meta", "data"} /\ WriteSector /\ outcome' = outcome
        /\ saved' = saved /\ doubt' = doubt /\ Users' = Users
    BY Zenon, <1>10 DEF SyncMeta, SyncData, NextSector, Ghosts, Users
  <2>2. outcome \in {"used", "migrating"} /\ (Certain <=> Certain')
    BY Zenon, <2>1 DEF SavedInv, Certain
  <2>3. Certain => Users = saved /\ ImageOf(disk', saved)
    BY Zenon, <2>1, SavedAgain DEF SavedInv
  <2> QED
    BY Zenon, <1>1, <2>1, <2>2, <2>3 DEF SavedInv
<1>11. CASE SyncSuper
  <2>1. pc = "meta" /\ AllSaved /\ WriteSector /\ pc' = "run" /\ Users' = Users /\ outcome' # "corrupt"
    BY Zenon, <1>11 DEF SyncSuper, SyncReturns, Users, SavedInv
  <2>2. ImageOf(disk', Users)
    BY Zenon, <2>1, Committed
  <2>3. saved' = Users
    BY Zenon, <1>11 DEF SyncSuper, Ghosts, SavedInv, Certain, Users
  <2> QED
    BY Zenon, <1>1, <1>2, <2>1, <2>2, <2>3 DEF SavedInv
<1>12. CASE WriteFails
  <2>1. /\ pc \in {"meta", "data"} /\ pc' = "run" /\ saved' = saved /\ doubt' = doubt
        /\ disk' = disk \/ WriteSector
    BY Zenon, <1>12 DEF WriteFails, SyncReturns, Ghosts
  <2>2. outcome' \in {"eio", "used"}
    BY Zenon, <1>12, <2>1 DEF WriteFails, SyncReturns, SavedInv
  <2>3. Certain' => ImageOf(disk', saved)
    BY Zenon, <2>1, SavedAgain DEF SavedInv, Certain
  <2> QED
    BY Zenon, <1>3, <2>1, <2>2, <2>3
<1>13. CASE Restart \/ \E p \in Paths, d \in Contents : ToolWrite(p, d)
  <2>1. disk' = disk /\ saved' = saved /\ doubt' = doubt /\ pc' \in {"boot", "run"} /\ outcome' \in {"none", "used"}
    BY Zenon, <1>13 DEF Restart, ToolWrite, Ghosts
  <2> QED
    BY Zenon, <1>3, <1>4, <2>1
<1>14. CASE UNCHANGED vars
  BY Zenon, <1>1, <1>14 DEF vars, SavedInv, Certain, Restored, Users
<1> QED
  BY Zenon, <1>5, <1>6, <1>7, <1>8, <1>9, <1>10, <1>11, <1>12, <1>13, <1>14 DEF Next

\* What a completed sync saved comes back, when programs write no data larger
\* than a file: a boot that meets no device error restores exactly the files
\* of the last complete sync unless a later one was cut short while saving
\* something else; migrations and repeated syncs cut short lose nothing.
THEOREM SavedComesBack == ASSUME ContentsFit PROVE Spec => []RestoresLastSync
<1>1. Init => SavedInv
  BY Zenon, SavedInit
<1>2. Base /\ SavedInv /\ [Next]_vars => SavedInv'
  BY Zenon, SavedStep
<1>3. SavedInv => RestoresLastSync
  BY Zenon DEF SavedInv, RestoresLastSync, Certain, Users
<1> QED
  BY <1>1, <1>2, <1>3, BaseHolds, PTL DEF Spec
=============================================================================
