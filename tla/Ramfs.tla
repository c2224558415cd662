------------------------------- MODULE Ramfs -------------------------------
(***************************************************************************)
(* The in-memory file system of kernel/ramfs.c: a fixed table of slots,     *)
(* each free or holding a path and its data.  The operators take a table    *)
(* and return the table the call leaves behind, also when the call fails.   *)
(*                                                                         *)
(* Data is a sequence of chunks; its length is the size of the file.  All   *)
(* callers write at offset 0, so the offset is left out.                    *)
(***************************************************************************)
EXTENDS Naturals, Sequences, FiniteSetsExt

CONSTANTS
    RAMFS_MAX_FILES,   \* slots of the table
    RAMFS_FILE_SIZE,   \* chunks a slot has room for, the closing NUL included
    SysFiles           \* the sequence of files ramfs_init seeds under /sys

\* A path: the directory, whose it is, and the name; other modules may use
\* model values for paths.
Path(root, id, name) == [root |-> root, id |-> id, name |-> name]

Slots == 1 .. RAMFS_MAX_FILES

\* A file as the table and the disk hold it.
File(path, data) == [path |-> path, data |-> data]

\* A free slot: used is 0.
NoFile == [used |-> FALSE]

ASSUME RamfsAssumption ==
    /\ RAMFS_MAX_FILES \in Nat
    /\ Len(SysFiles) \in Nat /\ DOMAIN SysFiles = 1 .. Len(SysFiles)
    /\ \A i \in DOMAIN SysFiles : SysFiles[i] = File(SysFiles[i].path, SysFiles[i].data)

is_sys_path(path) == \E i \in DOMAIN SysFiles : SysFiles[i].path = path

Named(fs, path) == {i \in Slots : fs[i] # NoFile /\ fs[i].path = path}

FreeSlots(fs) == {i \in Slots : fs[i] = NoFile}

\* lookup(path, 1): the slot of the path, or the first free one.
SlotFor(fs, path) ==
    IF Named(fs, path) # {} THEN Min(Named(fs, path)) ELSE Min(FreeSlots(fs))

HasSlotFor(fs, path) == Named(fs, path) \cup FreeSlots(fs) # {}

Lookup(fs, path) ==
    IF Named(fs, path) # {} THEN fs ELSE [fs EXCEPT ![SlotFor(fs, path)] = File(path, <<>>)]

ramfs_init == [i \in Slots |-> IF i <= Len(SysFiles) THEN SysFiles[i] ELSE NoFile]

\* ramfs_read of a whole file; <<>> for one that is missing or empty.
ramfs_read(fs, path) == IF Named(fs, path) = {} THEN <<>> ELSE fs[Min(Named(fs, path))].data

ramfs_path_exists(fs, path) == Named(fs, path) # {}

\* How the callers measure a file: one byte is read at offset 0, then at 1, 2
\* and so on until nothing comes back, so an empty file counts as one byte.
\* 0 stands for a file that is missing.
FileSize(fs, path) ==
    IF ~ramfs_path_exists(fs, path) THEN 0
    ELSE IF Len(ramfs_read(fs, path)) = 0 THEN 1 ELSE Len(ramfs_read(fs, path))

\* The new data replaces the start of the old and never shortens it; a
\* refused size has already created the file.
ramfs_write(fs, path, data) ==
    IF Len(data) = 0 \/ ~HasSlotFor(fs, path)
    THEN fs
    ELSE LET made == Lookup(fs, path)
             slot == SlotFor(fs, path)
             tail == SubSeq(made[slot].data, Len(data) + 1, Len(made[slot].data))
         IN  IF Len(data) >= RAMFS_FILE_SIZE
             THEN made
             ELSE [made EXCEPT ![slot].data = data \o tail]

\* ramfs_put returns 0 in these cases and changes nothing in the others.
PutAccepts(fs, path, data) == Len(data) \in 1 .. RAMFS_FILE_SIZE - 1 /\ HasSlotFor(fs, path)

ramfs_put(fs, path, data) ==
    IF PutAccepts(fs, path, data)
    THEN [fs EXCEPT ![SlotFor(fs, path)] = File(path, data)]
    ELSE fs

IsUser(file) == file # NoFile /\ ~is_sys_path(file.path)

ramfs_clear_user(fs) == [i \in Slots |-> IF IsUser(fs[i]) THEN NoFile ELSE fs[i]]

UserSlots(fs) == {i \in Slots : IsUser(fs[i])}

\* The order in which a loop over the table meets the slots of a set.
Rising(at, S) ==
    /\ \A j, k \in DOMAIN at : j < k => at[j] < at[k]
    /\ S = {at[k] : k \in DOMAIN at}

\* The number of user files, and the files ramfs_user_get(0..count-1) return,
\* in that order.
ramfs_user_count(fs) ==
    LET U == UserSlots(fs)
    IN  CHOOSE n \in 0 .. RAMFS_MAX_FILES : \E at \in [1 .. n -> U] : Rising(at, U)

ramfs_user(fs) ==
    LET U  == UserSlots(fs)
        n  == ramfs_user_count(fs)
        at == CHOOSE at \in [1 .. n -> U] : Rising(at, U)
    IN  [k \in 1 .. n |-> fs[at[k]]]
=============================================================================
