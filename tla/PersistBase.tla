---------------------------- MODULE PersistBase ----------------------------
(***************************************************************************)
(* What persistence works on, for every table, device and sequence of       *)
(* files: the table of ramfs.c, whose user files follow the seeded ones     *)
(* without a gap, and where the files of a sync are on the device, with the *)
(* checksum before each of them.  Then the invariant of table, device and   *)
(* boot, which every step keeps.                                           *)
(***************************************************************************)
EXTENDS Persist, WellFoundedInduction, TLAPS

-----------------------------------------------------------------------------
(* The table of ramfs.c.  Files are never removed one by one, so the user    *)
(* files follow the seeded ones without a gap.                              *)

\* A sequence of anything: the garbage an AOS1 load may read included.
IsData(data) == \E S : data \in Seq(S)

\* A file of a user, as the table holds it.
UserFile(f) ==
    /\ f = File(f.path, f.data) /\ f.path \in Paths
    /\ IsData(f.data) /\ Len(f.data) \in 0 .. RAMFS_FILE_SIZE - 1

\* The first m slots behind the seeded files are taken, the others free.
Packed(fs, m) ==
    /\ m \in Nat /\ Len(SysFiles) + m <= RAMFS_MAX_FILES
    /\ fs = [i \in Slots |-> fs[i]]
    /\ \A i \in 1 .. Len(SysFiles) : fs[i] = SysFiles[i]
    /\ \A i \in Len(SysFiles) + 1 .. Len(SysFiles) + m : UserFile(fs[i])
    /\ \A i \in Len(SysFiles) + m + 1 .. RAMFS_MAX_FILES : fs[i] = NoFile
    /\ \A i, j \in 1 .. Len(SysFiles) + m : fs[i].path = fs[j].path => i = j

\* < is well-founded on the naturals, so that Min of FiniteSetsExt is the
\* least element of a set of them that is not empty.
LEMMA MinOfNaturals ==
  ASSUME NEW S \in SUBSET Nat, S # {}
  PROVE  Min(S) \in S /\ \A y \in S : Min(S) <= y
<1> DEFINE R == OpToRel(<, Nat)
<1>1. IsWellFoundedOn(R, Nat)
  BY Zenon, NatLessThanWellFounded
<1>2. \A x, y \in Nat : y < x => <<y, x>> \in R
  BY DEF OpToRel
<1> HIDE DEF R
<1>3. PICK x \in S : \A y \in S : ~(<<y, x>> \in R)
  BY Zenon, <1>1, WFMin
<1>4. x \in Nat /\ \A y \in S : y \in Nat /\ ~(y < x)
  BY Zenon, <1>2, <1>3
<1>5. \A y \in S : x <= y
  BY <1>4
<1> QED
  BY Zenon, <1>5 DEF Min

\* A slot that holds a file is not free.
LEMMA FileNotFree == \A path, data : File(path, data) # NoFile /\ File(path, data).path = path /\ File(path, data).data = data
<1>1. \A path, data : "path" \in DOMAIN File(path, data)
  BY DEF File
<1>2. "path" \notin DOMAIN NoFile
  BY DEF NoFile
<1>3. \A path, data : File(path, data).path = path /\ File(path, data).data = data
  BY DEF File
<1> QED
  BY Zenon, <1>1, <1>2, <1>3

\* The order in which a loop meets the numbers behind a is the order of the
\* numbers.
LEMMA RisingInterval ==
  ASSUME NEW a \in Nat, NEW m \in Nat, NEW d \in Nat,
         NEW at \in [1 .. d -> a + 1 .. a + m], Rising(at, a + 1 .. a + m)
  PROVE  d = m /\ \A k \in 1 .. m : at[k] = a + k
<1> DEFINE Off == {k \in 1 .. d : at[k] # a + k}
<1>1. \A k \in 1 .. d : at[k] \in a + 1 .. a + m /\ at[k] \in Nat
  OBVIOUS
<1>2. \A j, k \in 1 .. d : j < k => at[j] < at[k]
  BY Zenon DEF Rising
<1>3. \A v \in a + 1 .. a + m : \E k \in 1 .. d : at[k] = v
  BY Zenon DEF Rising
<1>4. Off = {}
  <2> SUFFICES ASSUME Off # {} PROVE FALSE
    BY Zenon
  <2>1. PICK k \in Off : \A y \in Off : k <= y
    <3>1. Off \in SUBSET Nat
      OBVIOUS
    <3> QED
      BY Zenon, <3>1, MinOfNaturals
  <2>2. k \in 1 .. d /\ at[k] # a + k
    OBVIOUS
  <2>3. \A j \in 1 .. d : j < k => at[j] = a + j
    BY <2>1, <2>2
  <2>4. at[k] > a + k
    <3>1. CASE k = 1
      BY <3>1, <2>2, <1>1
    <3>2. CASE k # 1
      <4>1. k - 1 \in 1 .. d /\ k - 1 < k
        BY <3>2, <2>2
      <4>2. at[k - 1] = a + (k - 1) /\ at[k - 1] < at[k]
        BY Zenon, <4>1, <2>2, <2>3, <1>2
      <4>3. at[k] \in Nat /\ at[k] # a + k /\ k \in Nat
        BY <1>1, <2>2
      <4>4. a + (k - 1) < at[k]
        BY Zenon, <4>2
      <4> HIDE DEF Off
      <4> QED
        BY <4>4, <4>3
    <3> QED
      BY Zenon, <3>1, <3>2
  <2>5. a + k \in a + 1 .. a + m
    BY <2>4, <1>1, <2>2
  <2>6. PICK j \in 1 .. d : at[j] = a + k
    BY Zenon, <2>5, <1>3
  <2>7. CASE j < k
    BY <2>7, <2>3, <2>6, <2>2
  <2>8. CASE j = k
    BY Zenon, <2>8, <2>6, <2>2
  <2>9. CASE k < j
    BY <2>9, <2>4, <2>6, <2>2, <1>2, <1>1
  <2> QED
    BY <2>2, <2>7, <2>8, <2>9
<1>5. \A k \in 1 .. d : at[k] = a + k
  BY Zenon, <1>4
<1> HIDE DEF Off
<1>6. d <= m
  <2>1. CASE d = 0
    BY <2>1
  <2>2. CASE d # 0
    BY <2>2, <1>5, <1>1
  <2> QED
    BY Zenon, <2>1, <2>2
<1>7. m <= d
  <2>1. CASE m = 0
    BY <2>1
  <2>2. CASE m # 0
    <3>1. a + m \in a + 1 .. a + m
      BY <2>2
    <3>2. PICK k \in 1 .. d : at[k] = a + m
      BY Zenon, <3>1, <1>3
    <3> QED
      BY <3>2, <1>5
  <2> QED
    BY Zenon, <2>1, <2>2
<1> QED
  BY <1>5, <1>6, <1>7

\* The numbers of the table, as the provers need them.
LEMMA Sizes ==
  /\ RAMFS_MAX_FILES \in Nat /\ RAMFS_FILE_SIZE \in Nat \ {0} /\ DiskSectors \in Nat \ {0}
  /\ Len(SysFiles) \in Nat /\ Len(SysFiles) <= RAMFS_MAX_FILES /\ DOMAIN SysFiles = 1 .. Len(SysFiles)
  BY Zenon, RamfsAssumption, PersistAssumption

\* What the seeded files are.
LEMMA Seeded ==
  /\ \A i \in 1 .. Len(SysFiles) :
        /\ SysFiles[i] = File(SysFiles[i].path, SysFiles[i].data) /\ SysFiles[i] # NoFile
        /\ is_sys_path(SysFiles[i].path) /\ ~IsUser(SysFiles[i])
        /\ Len(SysFiles[i].data) \in 0 .. RAMFS_FILE_SIZE - 1
  /\ \A i, j \in 1 .. Len(SysFiles) : SysFiles[i].path = SysFiles[j].path => i = j
  /\ \A i \in 1 .. Len(SysFiles), p \in Paths : SysFiles[i].path # p
<1>1. \A i \in DOMAIN SysFiles : SysFiles[i] = File(SysFiles[i].path, SysFiles[i].data)
  BY Zenon, RamfsAssumption
<1>2. \A i \in DOMAIN SysFiles : SysFiles[i] # NoFile
  BY <1>1, FileNotFree
<1>3. \A i \in DOMAIN SysFiles : is_sys_path(SysFiles[i].path)
  BY Zenon DEF is_sys_path
<1>4. \A i \in DOMAIN SysFiles, p \in Paths : SysFiles[i].path # p
  BY Zenon, <1>3, PersistAssumption
<1>5. \A i \in DOMAIN SysFiles : ~IsUser(SysFiles[i])
  BY Zenon, <1>3 DEF IsUser
<1> QED
  BY Zenon, <1>1, <1>2, <1>3, <1>4, <1>5, PersistAssumption, Sizes

\* A user's file is one to IsUser.
LEMMA UserFileIsUser == \A f : UserFile(f) => IsUser(f) /\ f # NoFile
  BY Zenon, FileNotFree, PersistAssumption DEF UserFile, IsUser

\* The slots of the user files are those behind the seeded ones.
LEMMA PackedSlots ==
  ASSUME NEW fs, NEW m, Packed(fs, m)
  PROVE  /\ UserSlots(fs) = Len(SysFiles) + 1 .. Len(SysFiles) + m
         /\ FreeSlots(fs) = Len(SysFiles) + m + 1 .. RAMFS_MAX_FILES
         /\ \A i \in Slots : fs[i] # NoFile <=> i \in 1 .. Len(SysFiles) + m
<1> DEFINE n == Len(SysFiles)
<1>1. n \in Nat /\ m \in Nat /\ RAMFS_MAX_FILES \in Nat /\ n + m <= RAMFS_MAX_FILES
  BY Zenon, Sizes DEF Packed
<1>2. \A i \in 1 .. n : fs[i] # NoFile /\ ~IsUser(fs[i])
  BY Zenon, Seeded DEF Packed
<1>3. \A i \in n + 1 .. n + m : fs[i] # NoFile /\ IsUser(fs[i])
  BY Zenon, UserFileIsUser DEF Packed
<1>4. \A i \in n + m + 1 .. RAMFS_MAX_FILES : fs[i] = NoFile /\ ~IsUser(fs[i])
  BY Zenon DEF Packed, IsUser
<1> HIDE DEF n
<1>5. \A i \in Slots : i \in 1 .. n \/ i \in n + 1 .. n + m \/ i \in n + m + 1 .. RAMFS_MAX_FILES
  BY <1>1 DEF Slots
<1>6. \A i : i \in n + 1 .. n + m \/ i \in n + m + 1 .. RAMFS_MAX_FILES => i \in Slots
  BY <1>1 DEF Slots
<1>7. \A i \in Slots : i \in n + 1 .. n + m <=> IsUser(fs[i])
  BY Zenon, <1>2, <1>3, <1>4, <1>5
<1>8. \A i \in Slots : i \in n + m + 1 .. RAMFS_MAX_FILES <=> fs[i] = NoFile
  BY Zenon, <1>2, <1>3, <1>4, <1>5
<1>9. \A i \in Slots : i \in 1 .. n + m <=> ~(i \in n + m + 1 .. RAMFS_MAX_FILES)
  BY <1>1 DEF Slots
<1>10. UserSlots(fs) = n + 1 .. n + m /\ FreeSlots(fs) = n + m + 1 .. RAMFS_MAX_FILES
  BY Zenon, <1>6, <1>7, <1>8 DEF UserSlots, FreeSlots
<1> QED
  BY Zenon, <1>8, <1>9, <1>10 DEF n

\* ramfs_user lists them in the order of the table.
LEMMA PackedUser ==
  ASSUME NEW fs, NEW m, Packed(fs, m)
  PROVE  ramfs_user(fs) = [k \in 1 .. m |-> fs[Len(SysFiles) + k]]
<1> DEFINE n == Len(SysFiles)
           I == n + 1 .. n + m
           c == CHOOSE d \in 0 .. RAMFS_MAX_FILES : \E x \in [1 .. d -> I] : Rising(x, I)
           at == CHOOSE x \in [1 .. ramfs_user_count(fs) -> UserSlots(fs)] : Rising(x, UserSlots(fs))
<1>1. n \in Nat /\ m \in Nat /\ RAMFS_MAX_FILES \in Nat /\ n + m <= RAMFS_MAX_FILES
  BY Zenon, Sizes DEF Packed
<1>2. UserSlots(fs) = I
  BY Zenon, PackedSlots
<1>3. ramfs_user_count(fs) = c
  BY Zenon, <1>2 DEF ramfs_user_count
<1> HIDE DEF n
<1>4. \E x \in [1 .. m -> I] : Rising(x, I)
  <2> DEFINE up == [k \in 1 .. m |-> n + k]
  <2>1. up \in [1 .. m -> I]
    BY <1>1
  <2>2. Rising(up, I)
    <3>1. \A j, k \in 1 .. m : j < k => n + j < n + k
      BY <1>1
    <3>2. \A v \in I : v - n \in 1 .. m /\ n + (v - n) = v
      BY <1>1
    <3>3. \A k \in 1 .. m : n + k \in I
      BY <1>1
    <3>4. DOMAIN up = 1 .. m /\ \A k \in 1 .. m : up[k] = n + k
      BY Zenon
    <3> HIDE DEF I, up
    <3>5. I = {up[k] : k \in 1 .. m}
      <4>1. \A v \in I : \E k \in 1 .. m : v = up[k]
        BY Zenon, <3>2, <3>4
      <4>2. \A k \in 1 .. m : up[k] \in I
        BY Zenon, <3>3, <3>4
      <4> QED
        BY Zenon, <4>1, <4>2
    <3> QED
      BY Zenon, <3>1, <3>4, <3>5 DEF Rising
  <2> HIDE DEF up, I
  <2> QED
    BY Zenon, <2>1, <2>2
<1>5. m \in 0 .. RAMFS_MAX_FILES
  BY <1>1
<1> HIDE DEF I
<1>6. c \in 0 .. RAMFS_MAX_FILES /\ \E x \in [1 .. c -> I] : Rising(x, I)
  BY Zenon, <1>4, <1>5
<1> HIDE DEF c
<1>7. \A d \in Nat : \A x \in [1 .. d -> I] : Rising(x, I) => d = m /\ \A k \in 1 .. m : x[k] = n + k
  <2>1. n \in Nat /\ m \in Nat
    BY Zenon, <1>1
  <2> QED
    BY Zenon, <2>1, RisingInterval DEF I
<1>8. c \in Nat
  BY <1>1, <1>6
<1>9. c = m
  BY Zenon, <1>6, <1>7, <1>8
<1>10. ramfs_user(fs) = [k \in 1 .. ramfs_user_count(fs) |-> fs[at[k]]]
  BY Zenon DEF ramfs_user
<1>11. at \in [1 .. m -> I] /\ Rising(at, I)
  <2>1. \E x \in [1 .. ramfs_user_count(fs) -> UserSlots(fs)] : Rising(x, UserSlots(fs))
    BY Zenon, <1>2, <1>3, <1>4, <1>9
  <2>2. at \in [1 .. ramfs_user_count(fs) -> UserSlots(fs)] /\ Rising(at, UserSlots(fs))
    BY Zenon, <2>1
  <2> HIDE DEF at
  <2> QED
    BY Zenon, <1>2, <1>3, <1>9, <2>2
<1> HIDE DEF at
<1>12. \A k \in 1 .. m : at[k] = n + k
  BY Zenon, <1>1, <1>7, <1>11
<1> QED
  BY Zenon, <1>3, <1>9, <1>10, <1>12 DEF n

\* lookup in such a table: the slot of the path, or the first free one.
LEMMA PackedLookup ==
  ASSUME NEW fs, NEW m, Packed(fs, m), NEW path \in Paths
  PROVE  /\ Named(fs, path) # {} =>
                /\ SlotFor(fs, path) \in Len(SysFiles) + 1 .. Len(SysFiles) + m
                /\ fs[SlotFor(fs, path)].path = path
         /\ Named(fs, path) = {} /\ HasSlotFor(fs, path) =>
                SlotFor(fs, path) = Len(SysFiles) + m + 1 /\ Len(SysFiles) + m + 1 <= RAMFS_MAX_FILES
<1> DEFINE n == Len(SysFiles)
<1>1. n \in Nat /\ m \in Nat /\ RAMFS_MAX_FILES \in Nat /\ n + m <= RAMFS_MAX_FILES
  BY Zenon, Sizes DEF Packed
<1>2. Named(fs, path) \in SUBSET Nat /\ FreeSlots(fs) \in SUBSET Nat
  BY Sizes DEF Named, FreeSlots, Slots
<1>3. ASSUME Named(fs, path) # {}
      PROVE  SlotFor(fs, path) \in n + 1 .. n + m /\ fs[SlotFor(fs, path)].path = path
  <2> DEFINE s == SlotFor(fs, path)
  <2>1. s \in Named(fs, path)
    BY Zenon, <1>2, <1>3, MinOfNaturals DEF SlotFor
  <2> HIDE DEF s
  <2>2. s \in Slots /\ fs[s] # NoFile /\ fs[s].path = path
    BY Zenon, <2>1 DEF Named
  <2>3. s \in 1 .. n + m
    BY Zenon, <2>2, PackedSlots
  <2>4. s \notin 1 .. n
    BY Zenon, <2>2, Seeded DEF Packed
  <2> HIDE DEF n
  <2>5. s \in n + 1 .. n + m
    BY <1>1, <2>3, <2>4
  <2> QED
    BY Zenon, <2>2, <2>5 DEF s
<1>4. ASSUME Named(fs, path) = {}, HasSlotFor(fs, path)
      PROVE  SlotFor(fs, path) = n + m + 1 /\ n + m + 1 <= RAMFS_MAX_FILES
  <2>1. FreeSlots(fs) # {}
    BY Zenon, <1>4 DEF HasSlotFor
  <2>2. FreeSlots(fs) = n + m + 1 .. RAMFS_MAX_FILES
    BY Zenon, PackedSlots
  <2>3. SlotFor(fs, path) = Min(FreeSlots(fs))
    BY Zenon, <1>4 DEF SlotFor
  <2> DEFINE s == SlotFor(fs, path)
  <2>4. s \in FreeSlots(fs) /\ \A y \in FreeSlots(fs) : s <= y
    BY Zenon, <1>2, <2>1, <2>3, MinOfNaturals
  <2> HIDE DEF n, s
  <2>5. s \in n + m + 1 .. RAMFS_MAX_FILES /\ \A y \in n + m + 1 .. RAMFS_MAX_FILES : s <= y
    BY Zenon, <2>2, <2>4
  <2>6. s = n + m + 1 /\ n + m + 1 <= RAMFS_MAX_FILES
    BY <1>1, <2>5
  <2> QED
    BY Zenon, <2>6 DEF s
<1> QED
  BY Zenon, <1>3, <1>4

\* A path that lookup does not find is that of no slot in use.
LEMMA NotNamed ==
  ASSUME NEW fs, NEW m, Packed(fs, m), NEW path, Named(fs, path) = {}
  PROVE  \A i \in 1 .. Len(SysFiles) + m : fs[i].path # path
<1>1. \A i \in 1 .. Len(SysFiles) + m : i \in Slots
  BY Sizes DEF Packed, Slots
<1> QED
  BY Zenon, <1>1, PackedSlots DEF Named

\* Each path has one slot.
LEMMA NamedOnce ==
  ASSUME NEW fs, NEW m, Packed(fs, m), NEW i \in Slots, fs[i] # NoFile
  PROVE  Named(fs, fs[i].path) = {i}
<1>1. i \in 1 .. Len(SysFiles) + m
  BY Zenon, PackedSlots
<1>2. \A j \in Named(fs, fs[i].path) : j \in 1 .. Len(SysFiles) + m /\ fs[j].path = fs[i].path
  BY Zenon, PackedSlots DEF Named
<1>3. \A j \in Named(fs, fs[i].path) : j = i
  BY Zenon, <1>1, <1>2 DEF Packed
<1>4. i \in Named(fs, fs[i].path)
  BY Zenon DEF Named
<1> QED
  BY Zenon, <1>3, <1>4

\* Writing over the file of a path leaves the table packed,
LEMMA PackedReplace ==
  ASSUME NEW fs, NEW m, Packed(fs, m), NEW f, UserFile(f),
         NEW s \in Len(SysFiles) + 1 .. Len(SysFiles) + m, fs[s].path = f.path
  PROVE  Packed([fs EXCEPT ![s] = f], m)
<1> DEFINE n == Len(SysFiles)
           gs == [fs EXCEPT ![s] = f]
<1>1. n \in Nat /\ m \in Nat /\ RAMFS_MAX_FILES \in Nat /\ n + m <= RAMFS_MAX_FILES
  BY Zenon, Sizes DEF Packed
<1>2. gs = [i \in Slots |-> gs[i]] /\ \A i \in Slots : gs[i] = IF i = s THEN f ELSE fs[i]
  BY Zenon DEF Packed
<1>3. \A i \in Slots : gs[i].path = fs[i].path
  BY Zenon, <1>2
<1> HIDE DEF gs, n
<1>4. s \notin 1 .. n /\ s \notin n + m + 1 .. RAMFS_MAX_FILES
  BY <1>1 DEF n
<1>5. \A i : i \in 1 .. n \/ i \in n + 1 .. n + m \/ i \in n + m + 1 .. RAMFS_MAX_FILES \/ i \in 1 .. n + m => i \in Slots
  BY <1>1 DEF Slots
<1>6. \A i \in 1 .. n : gs[i] = SysFiles[i]
  BY Zenon, <1>2, <1>4, <1>5 DEF Packed, n
<1>7. \A i \in n + 1 .. n + m : UserFile(gs[i])
  BY Zenon, <1>2, <1>5 DEF Packed, n
<1>8. \A i \in n + m + 1 .. RAMFS_MAX_FILES : gs[i] = NoFile
  BY Zenon, <1>2, <1>4, <1>5 DEF Packed, n
<1>9. \A i, j \in 1 .. n + m : gs[i].path = gs[j].path => i = j
  BY Zenon, <1>3, <1>5 DEF Packed, n
<1> QED
  BY Zenon, <1>1, <1>2, <1>6, <1>7, <1>8, <1>9 DEF Packed, n, gs

\* and so does a file of a new path in the first free slot.
LEMMA PackedAdd ==
  ASSUME NEW fs, NEW m, Packed(fs, m), NEW f, UserFile(f), Named(fs, f.path) = {},
         NEW s, s = Len(SysFiles) + m + 1, s <= RAMFS_MAX_FILES
  PROVE  Packed([fs EXCEPT ![s] = f], m + 1)
<1> DEFINE n == Len(SysFiles)
           gs == [fs EXCEPT ![s] = f]
<1>1. n \in Nat /\ m \in Nat /\ RAMFS_MAX_FILES \in Nat /\ n + m <= RAMFS_MAX_FILES
  BY Zenon, Sizes DEF Packed
<1>2. gs = [i \in Slots |-> gs[i]] /\ \A i \in Slots : gs[i] = IF i = s THEN f ELSE fs[i]
  BY Zenon DEF Packed
<1>3. \A i \in 1 .. n + m : fs[i].path # f.path
  BY Zenon, NotNamed
<1> HIDE DEF gs, n
<1>4. /\ s \notin 1 .. n /\ s \notin n + m + 2 .. RAMFS_MAX_FILES /\ s \notin 1 .. n + m /\ s \in Slots
      /\ m + 1 \in Nat /\ n + (m + 1) <= RAMFS_MAX_FILES /\ n + (m + 1) + 1 = n + m + 2
  BY <1>1 DEF n, Slots
<1>5. \A i : i \in 1 .. n \/ i \in n + 1 .. n + m \/ i \in n + m + 2 .. RAMFS_MAX_FILES \/ i \in 1 .. n + m => i \in Slots
  BY <1>1 DEF Slots
<1>6. \A i \in 1 .. n : gs[i] = SysFiles[i]
  BY Zenon, <1>2, <1>4, <1>5 DEF Packed, n
<1>7. \A i \in n + 1 .. n + (m + 1) : UserFile(gs[i])
  <2>1. \A i \in n + 1 .. n + (m + 1) : i = s \/ (i \in n + 1 .. n + m /\ i # s)
    BY <1>1 DEF n
  <2> QED
    BY Zenon, <2>1, <1>2, <1>4, <1>5 DEF Packed, n
<1>8. \A i \in n + m + 2 .. RAMFS_MAX_FILES : gs[i] = NoFile
  <2>1. \A i \in n + m + 2 .. RAMFS_MAX_FILES : i \in n + m + 1 .. RAMFS_MAX_FILES
    BY <1>1
  <2> QED
    BY Zenon, <2>1, <1>2, <1>4, <1>5 DEF Packed, n
<1>9. \A i, j \in 1 .. n + (m + 1) : gs[i].path = gs[j].path => i = j
  <2>1. \A i \in 1 .. n + (m + 1) : i = s \/ (i \in 1 .. n + m /\ i # s)
    BY <1>1 DEF n
  <2>2. \A i \in 1 .. n + m : gs[i].path = fs[i].path
    BY Zenon, <1>2, <1>4, <1>5
  <2>3. gs[s].path = f.path
    BY Zenon, <1>2, <1>4
  <2>4. \A i, j \in 1 .. n + m : gs[i].path = gs[j].path => i = j
    BY Zenon, <2>2 DEF Packed, n
  <2>5. \A i \in 1 .. n + m : gs[i].path # gs[s].path
    BY Zenon, <2>2, <2>3, <1>3
  <2> QED
    BY Zenon, <2>1, <2>4, <2>5
<1>10. \A i \in n + (m + 1) + 1 .. RAMFS_MAX_FILES : gs[i] = NoFile
  BY Zenon, <1>4, <1>8
<1> QED
  BY Zenon, <1>2, <1>4, <1>6, <1>7, <1>9, <1>10 DEF Packed, n, gs

\* A file made of a user's path and data that fit.
LEMMA MakeUserFile ==
  ASSUME NEW path \in Paths, NEW data, IsData(data), Len(data) \in 0 .. RAMFS_FILE_SIZE - 1
  PROVE  UserFile(File(path, data)) /\ File(path, data).path = path /\ File(path, data).data = data
  BY Zenon, FileNotFree DEF UserFile

\* What ramfs_put leaves: a packed table whose slots are as they were but for
\* the file that was put; a new path is added behind the others.
LEMMA PutPacked ==
  ASSUME NEW fs, NEW m, Packed(fs, m), NEW path \in Paths, NEW data, IsData(data), PutAccepts(fs, path, data)
  PROVE  /\ Packed(ramfs_put(fs, path, data), m) \/ Packed(ramfs_put(fs, path, data), m + 1)
         /\ \A i \in Slots : ramfs_put(fs, path, data)[i] \in {fs[i], File(path, data)}
         /\ Named(fs, path) = {} =>
                /\ Packed(ramfs_put(fs, path, data), m + 1)
                /\ ramfs_put(fs, path, data) = [fs EXCEPT ![Len(SysFiles) + m + 1] = File(path, data)]
<1> DEFINE s == SlotFor(fs, path)
           f == File(path, data)
           gs == ramfs_put(fs, path, data)
<1>1. gs = [fs EXCEPT ![s] = f]
  BY Zenon DEF ramfs_put
<1>2. UserFile(f) /\ f.path = path
  <2>1. Len(data) \in 0 .. RAMFS_FILE_SIZE - 1
    BY Sizes DEF PutAccepts
  <2> QED
    BY Zenon, <2>1, MakeUserFile
<1>3. \A i \in Slots : gs[i] \in {fs[i], f}
  <2>1. \A i \in Slots : gs[i] = IF i = s THEN f ELSE fs[i]
    BY Zenon, <1>1 DEF Packed
  <2> QED
    BY Zenon, <2>1
<1> HIDE DEF s, f, gs
<1>4. CASE Named(fs, path) # {}
  <2>1. s \in Len(SysFiles) + 1 .. Len(SysFiles) + m /\ fs[s].path = f.path
    BY Zenon, <1>2, <1>4, PackedLookup DEF s
  <2>2. Packed([fs EXCEPT ![s] = f], m)
    BY Zenon, <1>2, <2>1, PackedReplace
  <2> QED
    BY Zenon, <1>1, <1>3, <1>4, <2>2 DEF gs, f
<1>5. CASE Named(fs, path) = {}
  <2>1. s = Len(SysFiles) + m + 1 /\ s <= RAMFS_MAX_FILES
    BY Zenon, <1>5, PackedLookup DEF s, PutAccepts
  <2>2. Packed([fs EXCEPT ![s] = f], m + 1)
    BY Zenon, <1>2, <1>5, <2>1, PackedAdd
  <2> QED
    BY Zenon, <1>1, <1>3, <2>1, <2>2 DEF gs, f
<1> QED
  BY Zenon, <1>4, <1>5

\* New data over the start of the old: a sequence as long as the longer.
LEMMA Overwritten ==
  ASSUME NEW data, IsData(data), NEW old, IsData(old)
  PROVE  LET new == data \o SubSeq(old, Len(data) + 1, Len(old))
         IN  IsData(new) /\ Len(new) = IF Len(old) <= Len(data) THEN Len(data) ELSE Len(old)
<1>1. PICK S : data \in Seq(S)
  BY Zenon DEF IsData
<1>2. PICK R : old \in Seq(R)
  BY Zenon DEF IsData
<1> DEFINE T == S \cup R
           tail == SubSeq(old, Len(data) + 1, Len(old))
<1>3. data \in Seq(T) /\ old \in Seq(T)
  BY <1>1, <1>2
<1> HIDE DEF T
<1>4. Len(data) \in Nat /\ Len(old) \in Nat
  BY <1>3
<1>5. tail \in Seq(T) /\ Len(tail) = IF Len(old) <= Len(data) THEN 0 ELSE Len(old) - Len(data)
  BY <1>3, <1>4
<1> HIDE DEF tail
<1>6. data \o tail \in Seq(T) /\ Len(data \o tail) = Len(data) + Len(tail)
  <2>1. tail \in Seq(T)
    BY Zenon, <1>5
  <2>2. data \o tail \in Seq(T)
    BY <1>3, <2>1
  <2>3. Len(data \o tail) = Len(data) + Len(tail)
    BY <1>3, <2>1
  <2> QED
    BY Zenon, <2>2, <2>3
<1>7. Len(data \o tail) = IF Len(old) <= Len(data) THEN Len(data) ELSE Len(old)
  BY <1>4, <1>5, <1>6
<1> QED
  BY Zenon, <1>6, <1>7 DEF IsData, tail

\* What ramfs_write leaves: a packed table; a file it has written to is not
\* empty unless the size was refused.
LEMMA WritePacked ==
  ASSUME NEW fs, NEW m, Packed(fs, m), NEW path \in Paths, NEW data, IsData(data)
  PROVE  LET gs == ramfs_write(fs, path, data)
         IN  /\ Packed(gs, m) \/ Packed(gs, m + 1)
             /\ Len(data) < RAMFS_FILE_SIZE => \A i \in Slots : gs[i] = fs[i] \/ Len(gs[i].data) \in Nat \ {0}
<1> DEFINE made == Lookup(fs, path)
           s    == SlotFor(fs, path)
           new  == data \o SubSeq(made[s].data, Len(data) + 1, Len(made[s].data))
           gs   == ramfs_write(fs, path, data)
<1>1. Len(data) \in Nat
  BY DEF IsData
<1>2. CASE Len(data) = 0 \/ ~HasSlotFor(fs, path)
  BY Zenon, <1>2 DEF ramfs_write
<1>3. CASE ~(Len(data) = 0 \/ ~HasSlotFor(fs, path))
  <2>1. PICK k \in {m, m + 1} :
            /\ Packed(made, k)
            /\ s \in Len(SysFiles) + 1 .. Len(SysFiles) + k /\ made[s].path = path
            /\ \A i \in Slots : i = s \/ made[i] = fs[i]
    <3>1. CASE Named(fs, path) # {}
      BY Zenon, <3>1, PackedLookup DEF Lookup
    <3>2. CASE Named(fs, path) = {}
      <4> DEFINE f == File(path, <<>>)
      <4>1. made = [fs EXCEPT ![s] = f]
        BY Zenon, <3>2 DEF Lookup
      <4>2. UserFile(f) /\ f.path = path
        <5>1. <<>> \in Seq({}) /\ Len(<<>>) \in 0 .. RAMFS_FILE_SIZE - 1
          BY Sizes
        <5> QED
          BY Zenon, <5>1, MakeUserFile DEF IsData
      <4> HIDE DEF f, made, s
      <4>3. s = Len(SysFiles) + m + 1 /\ s <= RAMFS_MAX_FILES
        BY Zenon, <1>3, <3>2, PackedLookup DEF s
      <4>4. Packed(made, m + 1)
        BY Zenon, <3>2, <4>1, <4>2, <4>3, PackedAdd
      <4>5. s \in Slots /\ s \in Len(SysFiles) + 1 .. Len(SysFiles) + (m + 1)
        BY <4>3, Sizes DEF Slots, Packed
      <4>6. \A i \in Slots : made[i] = IF i = s THEN f ELSE fs[i]
        BY Zenon, <4>1 DEF Packed
      <4> QED
        BY Zenon, <4>2, <4>4, <4>5, <4>6
    <3> QED
      BY Zenon, <3>1, <3>2
  <2> HIDE DEF made, s
  <2>2. UserFile(made[s]) /\ s \in Slots
    <3>1. s \in Slots
      BY <2>1, Sizes DEF Packed, Slots
    <3> QED
      BY Zenon, <2>1, <3>1 DEF Packed
  <2>3. CASE Len(data) >= RAMFS_FILE_SIZE
    <3>1. gs = made
      BY Zenon, <1>3, <2>3 DEF ramfs_write, made
    <3>2. ~(Len(data) < RAMFS_FILE_SIZE)
      BY <1>1, <2>3, Sizes
    <3> QED
      BY Zenon, <2>1, <3>1, <3>2
  <2>4. CASE ~(Len(data) >= RAMFS_FILE_SIZE)
    <3>1. gs = [made EXCEPT ![s].data = new]
      BY Zenon, <1>3, <2>4 DEF ramfs_write, made, s
    <3>2. IsData(made[s].data) /\ Len(made[s].data) \in 0 .. RAMFS_FILE_SIZE - 1 /\ made[s] = File(path, made[s].data)
      BY Zenon, <2>1, <2>2 DEF UserFile
    <3>3. IsData(new) /\ Len(new) = IF Len(made[s].data) <= Len(data) THEN Len(data) ELSE Len(made[s].data)
      BY Zenon, <3>2, Overwritten
    <3>4. [made[s] EXCEPT !.data = new] = File(path, new)
      <4> DEFINE old == made[s].data
      <4>1. made[s] = File(path, old)
        BY Zenon, <3>2
      <4> HIDE DEF old, new
      <4> QED
        BY <4>1 DEF File
    <3> HIDE DEF new, gs
    <3>5. gs = [made EXCEPT ![s] = File(path, new)]
      BY Zenon, <3>1, <3>4
    <3>6. Len(new) \in 0 .. RAMFS_FILE_SIZE - 1 /\ Len(new) \in Nat \ {0}
      BY <1>1, <1>3, <2>4, <3>2, <3>3, Sizes
    <3>7. UserFile(File(path, new)) /\ File(path, new).path = path /\ File(path, new).data = new
      BY Zenon, <3>3, <3>6, MakeUserFile
    <3>8. Packed(gs, k)
      BY Zenon, <2>1, <3>5, <3>7, PackedReplace
    <3>9. \A i \in Slots : gs[i] = IF i = s THEN File(path, new) ELSE made[i]
      BY Zenon, <2>1, <3>5 DEF Packed
    <3> QED
      BY Zenon, <2>1, <3>6, <3>7, <3>8, <3>9 DEF gs
  <2> QED
    BY Zenon, <2>3, <2>4
<1> QED
  BY Zenon, <1>2, <1>3

-----------------------------------------------------------------------------
(* Where the files of a sync are on the device, and the checksum before each *)
(* of them: Offsets and Sums have exactly one solution.                     *)

\* A sequence of user files.
IsFiles(fs) ==
    /\ Len(fs) \in Nat /\ fs = [k \in 1 .. Len(fs) |-> fs[k]]
    /\ \A k \in 1 .. Len(fs) : UserFile(fs[k])

Positions(fs) == CHOOSE at : Offsets(fs, at, Len(fs) + 1)
Pos(fs, k) == Positions(fs)[k]

Checksums(fs) == CHOOSE sum : Sums(fs, sum, Len(fs) + 1)
Sum(fs, k) == Checksums(fs)[k]

\* The sizes of the files are natural numbers.
LEMMA FileSizes ==
  ASSUME NEW fs, IsFiles(fs)
  PROVE  Len(fs) \in Nat /\ \A k \in 1 .. Len(fs) : Len(fs[k].data) \in Nat
  BY Sizes DEF IsFiles, UserFile

\* There are offsets for every number of files,
LEMMA OffsetsExist ==
  ASSUME NEW fs, IsFiles(fs)
  PROVE  \A k \in 1 .. Len(fs) + 1 : \E at : Offsets(fs, at, k)
<1> DEFINE N == Len(fs) + 1
           Bad == {k \in 1 .. N : ~ \E at : Offsets(fs, at, k)}
<1>1. N \in Nat
  BY FileSizes
<1> HIDE DEF N
<1> SUFFICES ASSUME Bad # {} PROVE FALSE
  BY Zenon DEF N
<1>2. PICK k \in Bad : \A y \in Bad : k <= y
  <2>1. Bad \in SUBSET Nat
    BY <1>1
  <2> QED
    BY Zenon, <2>1, MinOfNaturals
<1>3. k \in 1 .. N /\ ~ \E at : Offsets(fs, at, k)
  BY Zenon, <1>2
<1>4. CASE k = 1
  <2> DEFINE at == [i \in 1 .. 1 |-> 1]
  <2>1. DOMAIN at = 1 .. 1 /\ \A i \in 1 .. 1 : i = 1 /\ at[i] = 1
    OBVIOUS
  <2> HIDE DEF at
  <2>2. Offsets(fs, at, 1)
    BY Zenon, <2>1 DEF Offsets
  <2> QED
    BY Zenon, <1>3, <1>4, <2>2
<1>5. CASE k # 1
  <2>1. k - 1 \in 1 .. N /\ ~(k <= k - 1) /\ k \in Nat /\ k - 1 \in 1 .. k - 1
    BY <1>1, <1>3, <1>5
  <2>2. PICK at : Offsets(fs, at, k - 1)
    BY Zenon, <1>2, <2>1
  <2> DEFINE next == at[k - 1] + 1 + Len(fs[k - 1].data)
             bt == [i \in 1 .. k |-> IF i = k THEN next ELSE at[i]]
  <2>3. DOMAIN bt = 1 .. k /\ \A i \in 1 .. k : bt[i] = IF i = k THEN next ELSE at[i]
    BY Zenon
  <2> HIDE DEF bt
  <2>4. \A i \in 1 .. k - 1 : i # k /\ i \in 1 .. k /\ (i # 1 => i - 1 \in 1 .. k - 1 /\ i - 1 \in 1 .. k /\ i - 1 # k)
    BY <2>1
  <2>5. \A i \in 1 .. k : i = k \/ i \in 1 .. k - 1
    BY <2>1
  <2>6. \A i \in 1 .. k - 1 : bt[i] = at[i] /\ (i # 1 => bt[i - 1] = at[i - 1])
    BY Zenon, <2>3, <2>4
  <2>7. \A i \in 1 .. k - 1 : bt[i] = IF i = 1 THEN 1 ELSE bt[i - 1] + 1 + Len(fs[i - 1].data)
    BY Zenon, <2>2, <2>6 DEF Offsets
  <2>8. bt[k] = bt[k - 1] + 1 + Len(fs[k - 1].data) /\ k \in 1 .. k
    <3>1. k \in 1 .. k
      BY <2>1
    <3> QED
      BY Zenon, <2>1, <2>3, <2>6, <3>1
  <2>9. \A i \in 1 .. k : bt[i] = IF i = 1 THEN 1 ELSE bt[i - 1] + 1 + Len(fs[i - 1].data)
    BY Zenon, <1>5, <2>5, <2>7, <2>8
  <2>10. Offsets(fs, bt, k)
    BY Zenon, <2>3, <2>9 DEF Offsets
  <2> QED
    BY Zenon, <1>3, <2>10
<1> QED
  BY Zenon, <1>4, <1>5

\* and so there is a position for each file, behind the data of the one before.
LEMMA PosStep ==
  ASSUME NEW fs, IsFiles(fs)
  PROVE  /\ Offsets(fs, Positions(fs), Len(fs) + 1)
         /\ Pos(fs, 1) = 1
         /\ \A k \in 1 .. Len(fs) : Pos(fs, k + 1) = Pos(fs, k) + 1 + Len(fs[k].data)
<1>1. Len(fs) + 1 \in 1 .. Len(fs) + 1 /\ 1 \in 1 .. Len(fs) + 1
  BY FileSizes
<1>2. Offsets(fs, Positions(fs), Len(fs) + 1)
  BY Zenon, <1>1, OffsetsExist DEF Positions
<1>3. \A k \in 1 .. Len(fs) : k + 1 \in 1 .. Len(fs) + 1 /\ k + 1 # 1 /\ (k + 1) - 1 = k
  BY FileSizes
<1>4. \A k \in 1 .. Len(fs) : Pos(fs, k + 1) = Pos(fs, k) + 1 + Len(fs[k].data)
  BY Zenon, <1>2, <1>3 DEF Offsets, Pos
<1>5. Pos(fs, 1) = 1
  BY Zenon, <1>1, <1>2 DEF Offsets, Pos
<1> QED
  BY Zenon, <1>2, <1>4, <1>5

\* Positions are sector numbers behind the superblock, and what one file
\* occupies ends before the next one begins.
LEMMA PosApart ==
  ASSUME NEW fs, IsFiles(fs)
  PROVE  /\ \A k \in 1 .. Len(fs) + 1 : Pos(fs, k) \in Nat \ {0}
         /\ \A k \in 1 .. Len(fs), j \in 1 .. Len(fs) + 1 : k < j => Pos(fs, k) + Len(fs[k].data) < Pos(fs, j)
<1> DEFINE N == Len(fs)
           P(k) == Pos(fs, k)
           L(k) == Len(fs[k].data)
<1>1. N \in Nat /\ (\A k \in 1 .. N : L(k) \in Nat) /\ P(1) = 1 /\ \A k \in 1 .. N : P(k + 1) = P(k) + 1 + L(k)
  BY Zenon, FileSizes, PosStep
<1> HIDE DEF N, P, L
<1>2. \A k \in 1 .. N + 1 : P(k) \in Nat \ {0}
  <2> DEFINE Bad == {k \in 1 .. N + 1 : P(k) \notin Nat \ {0}}
  <2> SUFFICES ASSUME Bad # {} PROVE FALSE
    BY Zenon
  <2>1. PICK k \in Bad : \A y \in Bad : k <= y
    <3>1. Bad \in SUBSET Nat
      BY <1>1
    <3> QED
      BY ZenonT(60), <3>1, MinOfNaturals
  <2>2. k \in 1 .. N + 1 /\ P(k) \notin Nat \ {0} /\ k # 1
    <3>1. P(1) \in Nat \ {0}
      BY <1>1
    <3> QED
      BY Zenon, <2>1, <3>1
  <2>3. k - 1 \in 1 .. N /\ k - 1 \in 1 .. N + 1 /\ ~(k <= k - 1) /\ (k - 1) + 1 = k
    BY <1>1, <2>2
  <2>4. P(k - 1) \in Nat \ {0}
    BY Zenon, <2>1, <2>3
  <2>5. P(k) = P(k - 1) + 1 + L(k - 1) /\ L(k - 1) \in Nat
    BY Zenon, <1>1, <2>3
  <2> QED
    BY <2>2, <2>4, <2>5
<1>3. ASSUME NEW k \in 1 .. N
      PROVE  \A j \in 1 .. N + 1 : k < j => P(k) + L(k) < P(j)
  <2> DEFINE Bad == {j \in 1 .. N + 1 : k < j /\ ~(P(k) + L(k) < P(j))}
  <2> SUFFICES ASSUME Bad # {} PROVE FALSE
    BY Zenon
  <2>1. PICK j \in Bad : \A y \in Bad : j <= y
    <3>1. Bad \in SUBSET Nat
      BY <1>1
    <3> QED
      BY Zenon, <3>1, MinOfNaturals
  <2>2. j \in 1 .. N + 1 /\ k < j /\ ~(P(k) + L(k) < P(j))
    BY Zenon, <2>1
  <2>3. j - 1 \in 1 .. N /\ j - 1 \in 1 .. N + 1 /\ ~(j <= j - 1) /\ (j - 1) + 1 = j /\ (k < j - 1 \/ k = j - 1) /\ k \in 1 .. N + 1
    BY <1>1, <2>2
  <2>4. P(j) = P(j - 1) + 1 + L(j - 1) /\ L(j - 1) \in Nat /\ P(j - 1) \in Nat /\ P(k) \in Nat /\ L(k) \in Nat
    BY <1>1, <1>2, <2>3
  <2>5. k < j - 1 => P(k) + L(k) < P(j - 1)
    BY Zenon, <2>1, <2>3
  <2>6. CASE k < j - 1
    BY <2>2, <2>4, <2>5, <2>6
  <2>7. CASE k = j - 1
    <3>1. P(j) = P(k) + 1 + L(k)
      BY Zenon, <2>4, <2>7
    <3> QED
      BY <2>2, <2>4, <3>1
  <2> QED
    BY Zenon, <2>3, <2>6, <2>7
<1> QED
  BY Zenon, <1>2, <1>3 DEF N, P, L

\* Offsets determines the positions.
LEMMA OffsetsUnique ==
  ASSUME NEW fs, IsFiles(fs), NEW k \in 0 .. Len(fs) + 1, NEW at, Offsets(fs, at, k)
  PROVE  \A i \in 1 .. k : at[i] = Pos(fs, i)
<1> DEFINE Bad == {i \in 1 .. k : at[i] # Pos(fs, i)}
<1> SUFFICES ASSUME Bad # {} PROVE FALSE
  BY Zenon
<1>1. Len(fs) \in Nat /\ k \in Nat
  BY FileSizes
<1>2. PICK i \in Bad : \A y \in Bad : i <= y
  <2>1. Bad \in SUBSET Nat
    BY <1>1
  <2> QED
    BY Zenon, <2>1, MinOfNaturals
<1>3. i \in 1 .. k /\ at[i] # Pos(fs, i) /\ i # 1
  BY Zenon, <1>2, PosStep DEF Offsets
<1>4. i - 1 \in 1 .. k /\ i - 1 \in 1 .. Len(fs) /\ ~(i <= i - 1) /\ (i - 1) + 1 = i
  BY <1>1, <1>3
<1>5. at[i - 1] = Pos(fs, i - 1)
  BY Zenon, <1>2, <1>4
<1>6. at[i] = at[i - 1] + 1 + Len(fs[i - 1].data)
  BY Zenon, <1>3 DEF Offsets
<1>7. Pos(fs, i) = Pos(fs, i - 1) + 1 + Len(fs[i - 1].data)
  BY Zenon, <1>4, PosStep
<1> QED
  BY Zenon, <1>3, <1>5, <1>6, <1>7

\* The first k files are on the device.
StoredTo(d, fs, k) == \A i \in 1 .. k : Stored(d, fs[i], Pos(fs, i))

\* InPlace in terms of the positions.
LEMMA InPlacePositions ==
  ASSUME NEW fs, IsFiles(fs), NEW d
  PROVE  InPlace(d, fs) <=> StoredTo(d, fs, Len(fs))
<1>1. DOMAIN fs = 1 .. Len(fs) /\ Len(fs) \in Nat
  BY Zenon DEF IsFiles
<1>2. Len(fs) \in 0 .. Len(fs) + 1
  BY <1>1
<1>3. ASSUME InPlace(d, fs) PROVE StoredTo(d, fs, Len(fs))
  <2>1. PICK at : Offsets(fs, at, Len(fs)) /\ \A i \in DOMAIN fs : Stored(d, fs[i], at[i])
    BY Zenon, <1>3 DEF InPlace
  <2>2. \A i \in 1 .. Len(fs) : at[i] = Pos(fs, i)
    BY Zenon, <1>2, <2>1, OffsetsUnique
  <2> QED
    BY Zenon, <1>1, <2>1, <2>2 DEF StoredTo
<1>4. ASSUME StoredTo(d, fs, Len(fs)) PROVE InPlace(d, fs)
  <2> DEFINE at == [i \in 1 .. Len(fs) |-> Pos(fs, i)]
  <2>1. \A i \in 1 .. Len(fs) : at[i] = Pos(fs, i)
    BY Zenon
  <2>2. \A i \in 1 .. Len(fs) : i \in 1 .. Len(fs) + 1 /\ (i # 1 => i - 1 \in 1 .. Len(fs))
    BY <1>1
  <2>3. at \in [DOMAIN fs -> Sectors]
    <3>1. \A i \in 1 .. Len(fs) : Pos(fs, i) + Len(fs[i].data) \in Sectors
      BY Zenon, <1>4 DEF StoredTo, Stored
    <3>2. \A i \in 1 .. Len(fs) : Pos(fs, i) \in Nat /\ Len(fs[i].data) \in Nat
      BY <2>2, PosApart, FileSizes
    <3>3. \A p, l \in Nat : p + l \in Sectors => p \in Sectors
      BY Sizes DEF Sectors
    <3> QED
      BY Zenon, <1>1, <3>1, <3>2, <3>3
  <2>4. Offsets(fs, at, Len(fs))
    <3>1. \A i \in 1 .. Len(fs) : Pos(fs, i) = IF i = 1 THEN 1 ELSE Pos(fs, i - 1) + 1 + Len(fs[i - 1].data)
      BY Zenon, <2>2, PosStep DEF Offsets, Pos
    <3> QED
      BY Zenon, <2>1, <2>2, <3>1 DEF Offsets
  <2>5. \A i \in DOMAIN fs : Stored(d, fs[i], at[i])
    BY Zenon, <1>1, <1>4, <2>1 DEF StoredTo
  <2> QED
    BY Zenon, <2>3, <2>4, <2>5 DEF InPlace
<1> QED
  BY Zenon, <1>3, <1>4

\* The same of the running checksum: one exists for every number of files,
LEMMA SumsExist ==
  ASSUME NEW fs, IsFiles(fs)
  PROVE  \A k \in 1 .. Len(fs) + 1 : \E sum : Sums(fs, sum, k)
<1> DEFINE N == Len(fs) + 1
           Bad == {k \in 1 .. N : ~ \E sum : Sums(fs, sum, k)}
<1>1. N \in Nat
  BY FileSizes
<1> HIDE DEF N
<1> SUFFICES ASSUME Bad # {} PROVE FALSE
  BY Zenon DEF N
<1>2. PICK k \in Bad : \A y \in Bad : k <= y
  <2>1. Bad \in SUBSET Nat
    BY <1>1
  <2> QED
    BY Zenon, <2>1, MinOfNaturals
<1>3. k \in 1 .. N /\ ~ \E sum : Sums(fs, sum, k)
  BY Zenon, <1>2
<1>4. CASE k = 1
  <2> DEFINE sum == [i \in 1 .. 1 |-> {}]
  <2>1. DOMAIN sum = 1 .. 1 /\ \A i \in 1 .. 1 : i = 1 /\ sum[i] = {}
    OBVIOUS
  <2> HIDE DEF sum
  <2>2. Sums(fs, sum, 1)
    BY Zenon, <2>1 DEF Sums
  <2> QED
    BY Zenon, <1>3, <1>4, <2>2
<1>5. CASE k # 1
  <2>1. k - 1 \in 1 .. N /\ ~(k <= k - 1) /\ k \in Nat /\ k - 1 \in 1 .. k - 1
    BY <1>1, <1>3, <1>5
  <2>2. PICK sum : Sums(fs, sum, k - 1)
    BY Zenon, <1>2, <2>1
  <2> DEFINE next == Roll(sum[k - 1], Meta(fs[k - 1]))
             more == [i \in 1 .. k |-> IF i = k THEN next ELSE sum[i]]
  <2>3. DOMAIN more = 1 .. k /\ \A i \in 1 .. k : more[i] = IF i = k THEN next ELSE sum[i]
    BY Zenon
  <2> HIDE DEF more
  <2>4. \A i \in 1 .. k - 1 : i # k /\ i \in 1 .. k /\ (i # 1 => i - 1 \in 1 .. k - 1 /\ i - 1 \in 1 .. k /\ i - 1 # k)
    BY <2>1
  <2>5. \A i \in 1 .. k : i = k \/ i \in 1 .. k - 1
    BY <2>1
  <2>6. \A i \in 1 .. k - 1 : more[i] = sum[i] /\ (i # 1 => more[i - 1] = sum[i - 1])
    BY Zenon, <2>3, <2>4
  <2>7. \A i \in 1 .. k - 1 : more[i] = IF i = 1 THEN {} ELSE Roll(more[i - 1], Meta(fs[i - 1]))
    BY Zenon, <2>2, <2>6 DEF Sums
  <2>8. more[k] = Roll(more[k - 1], Meta(fs[k - 1])) /\ k \in 1 .. k
    <3>1. k \in 1 .. k
      BY <2>1
    <3> QED
      BY Zenon, <2>1, <2>3, <2>6, <3>1
  <2>9. \A i \in 1 .. k : more[i] = IF i = 1 THEN {} ELSE Roll(more[i - 1], Meta(fs[i - 1]))
    BY Zenon, <1>5, <2>5, <2>7, <2>8
  <2>10. Sums(fs, more, k)
    BY Zenon, <2>3, <2>9 DEF Sums
  <2> QED
    BY Zenon, <1>3, <2>10
<1> QED
  BY Zenon, <1>4, <1>5

\* it starts empty and takes one file after the other,
LEMMA SumStep ==
  ASSUME NEW fs, IsFiles(fs)
  PROVE  /\ Sum(fs, 1) = {}
         /\ \A k \in 1 .. Len(fs) : Sum(fs, k + 1) = Roll(Sum(fs, k), Meta(fs[k]))
<1>1. Len(fs) + 1 \in 1 .. Len(fs) + 1 /\ 1 \in 1 .. Len(fs) + 1
  BY FileSizes
<1>2. Sums(fs, Checksums(fs), Len(fs) + 1)
  BY Zenon, <1>1, SumsExist DEF Checksums
<1>3. \A k \in 1 .. Len(fs) : k + 1 \in 1 .. Len(fs) + 1 /\ k + 1 # 1 /\ (k + 1) - 1 = k
  BY FileSizes
<1>4. \A k \in 1 .. Len(fs) : Sum(fs, k + 1) = Roll(Sum(fs, k), Meta(fs[k]))
  BY Zenon, <1>2, <1>3 DEF Sums, Sum
<1>5. Sum(fs, 1) = {}
  BY Zenon, <1>1, <1>2 DEF Sums, Sum
<1> QED
  BY Zenon, <1>4, <1>5

\* and there is only one.
LEMMA SumsUnique ==
  ASSUME NEW fs, IsFiles(fs), NEW sum, Sums(fs, sum, Len(fs) + 1)
  PROVE  sum[Len(fs) + 1] = Sum(fs, Len(fs) + 1)
<1> DEFINE N == Len(fs) + 1
           Bad == {i \in 1 .. N : sum[i] # Sum(fs, i)}
<1>1. Len(fs) \in Nat /\ N \in 1 .. N
  BY FileSizes
<1> HIDE DEF N
<1> SUFFICES ASSUME Bad # {} PROVE FALSE
  BY Zenon, <1>1 DEF N
<1>2. PICK i \in Bad : \A y \in Bad : i <= y
  <2>1. Bad \in SUBSET Nat
    BY <1>1 DEF N
  <2> QED
    BY Zenon, <2>1, MinOfNaturals
<1>3. i \in 1 .. N /\ sum[i] # Sum(fs, i) /\ i # 1
  BY Zenon, <1>2, SumStep DEF Sums, N
<1>4. i - 1 \in 1 .. N /\ i - 1 \in 1 .. Len(fs) /\ ~(i <= i - 1) /\ (i - 1) + 1 = i
  BY <1>1, <1>3 DEF N
<1>5. sum[i - 1] = Sum(fs, i - 1)
  BY Zenon, <1>2, <1>4
<1>6. sum[i] = Roll(sum[i - 1], Meta(fs[i - 1]))
  BY Zenon, <1>3 DEF Sums, N
<1>7. Sum(fs, i) = Roll(Sum(fs, i - 1), Meta(fs[i - 1]))
  BY Zenon, <1>4, SumStep
<1> QED
  BY Zenon, <1>3, <1>5, <1>6, <1>7

\* The fields of sectors.
LEMMA SectorFields ==
  /\ \A f : /\ Meta(f).kind = "meta" /\ Meta(f).path = f.path
            /\ Meta(f).size = Len(f.data) /\ Meta(f).crc = f.data
  /\ \A chunk : Data(chunk).kind = "data" /\ Data(chunk).chunk = chunk
  /\ \A v, n, c : /\ Super(v, n, c).kind = "super" /\ Super(v, n, c).version = v
                  /\ Super(v, n, c).count = n /\ Super(v, n, c).checksum = c
  /\ Blank.kind = "blank"
  BY DEF Meta, Data, Super, Blank

\* The files of a packed table.
LEMMA PackedFiles ==
  ASSUME NEW fs, NEW m, Packed(fs, m)
  PROVE  /\ IsFiles(ramfs_user(fs)) /\ Len(ramfs_user(fs)) = m /\ DOMAIN ramfs_user(fs) = 1 .. m
         /\ \A k \in 1 .. m : Len(SysFiles) + k \in Slots /\ ramfs_user(fs)[k] = fs[Len(SysFiles) + k]
         /\ m \in 0 .. RAMFS_MAX_FILES
<1> DEFINE u == ramfs_user(fs)
           n == Len(SysFiles)
<1>1. u = [k \in 1 .. m |-> fs[n + k]]
  BY Zenon, PackedUser
<1>2. n \in Nat /\ m \in Nat /\ RAMFS_MAX_FILES \in Nat /\ n + m <= RAMFS_MAX_FILES
  BY Zenon, Sizes DEF Packed
<1> HIDE DEF u
<1>3. DOMAIN u = 1 .. m /\ \A k \in 1 .. m : u[k] = fs[n + k]
  BY Zenon, <1>1
<1>4. u = [k \in 1 .. m |-> u[k]]
  BY Zenon, <1>1, <1>3
<1>5. Len(u) = m
  BY <1>2, <1>4
<1>6. \A k \in 1 .. m : n + k \in n + 1 .. n + m /\ n + k \in Slots
  BY <1>2 DEF Slots
<1>7. \A k \in 1 .. m : UserFile(u[k])
  BY Zenon, <1>3, <1>6 DEF Packed
<1>8. m \in 0 .. RAMFS_MAX_FILES
  BY <1>2
<1>9. IsFiles(u)
  BY Zenon, <1>2, <1>4, <1>5, <1>7 DEF IsFiles
<1> QED
  BY Zenon, <1>3, <1>5, <1>6, <1>8, <1>9 DEF u

\* The table at boot holds the seeded files, and clearing it changes nothing.
LEMMA InitPacked == Packed(ramfs_init, 0) /\ ramfs_clear_user(ramfs_init) = ramfs_init
<1> DEFINE fs == ramfs_init
           n == Len(SysFiles)
<1>1. fs = [i \in Slots |-> fs[i]] /\ \A i \in Slots : fs[i] = IF i <= n THEN SysFiles[i] ELSE NoFile
  BY Zenon DEF ramfs_init
<1>2. n \in Nat /\ RAMFS_MAX_FILES \in Nat /\ n <= RAMFS_MAX_FILES
  BY Zenon, Sizes
<1> HIDE DEF fs, n
<1>3. \A i \in 1 .. n : i \in Slots /\ i <= n
  BY <1>2 DEF Slots
<1>4. \A i \in n + 0 + 1 .. RAMFS_MAX_FILES : i \in Slots /\ ~(i <= n)
  BY <1>2 DEF Slots
<1>5. 0 \in Nat /\ n + 0 <= RAMFS_MAX_FILES /\ (\A i \in n + 1 .. n + 0 : FALSE) /\ n + 0 = n
  BY <1>2
<1>6. \A i \in 1 .. n : fs[i] = SysFiles[i]
  BY Zenon, <1>1, <1>3
<1>7. \A i \in n + 0 + 1 .. RAMFS_MAX_FILES : fs[i] = NoFile
  BY Zenon, <1>1, <1>4
<1>8. \A i, j \in 1 .. n : fs[i].path = fs[j].path => i = j
  BY Zenon, <1>6, Seeded DEF n
<1>9. Packed(fs, 0)
  BY Zenon, <1>1, <1>5, <1>6, <1>7, <1>8 DEF Packed, n
<1>10. UserSlots(fs) = {}
  BY Zenon, <1>5, <1>9, PackedSlots DEF n
<1>11. \A i \in Slots : ~IsUser(fs[i])
  BY Zenon, <1>10 DEF UserSlots
<1>12. ramfs_clear_user(fs) = fs
  BY Zenon, <1>1, <1>11 DEF ramfs_clear_user
<1> QED
  BY Zenon, <1>9, <1>12 DEF fs

\* A function on 1 .. n is a sequence.
LEMMA FunctionIsData ==
  ASSUME NEW n \in Nat, NEW f, f = [k \in 1 .. n |-> f[k]]
  PROVE  IsData(f) /\ Len(f) = n
<1> DEFINE S == {f[k] : k \in 1 .. n}
<1>1. f \in [1 .. n -> S]
  OBVIOUS
<1> HIDE DEF S
<1>2. f \in Seq(S) /\ Len(f) = n
  BY <1>1
<1> QED
  BY Zenon, <1>2 DEF IsData

\* The table at boot has no user files.
LEMMA NoUsers == ramfs_user(ramfs_init) = <<>> /\ DOMAIN ramfs_user(ramfs_init) = {} /\ Len(ramfs_user(ramfs_init)) = 0
<1>1. ramfs_user(ramfs_init) = [k \in 1 .. 0 |-> ramfs_init[Len(SysFiles) + k]]
  BY Zenon, InitPacked, PackedUser
<1>2. Len(ramfs_user(ramfs_init)) = 0 /\ DOMAIN ramfs_user(ramfs_init) = 1 .. 0
  BY Zenon, InitPacked, PackedFiles
<1>3. ramfs_user(ramfs_init) = <<>>
  BY <1>1
<1> QED
  BY <1>2, <1>3

\* What a file occupies: sectors of the device behind the superblock.
LEMMA StoredSectors ==
  ASSUME NEW fs, IsFiles(fs), NEW i \in 1 .. Len(fs), NEW d, Stored(d, fs[i], Pos(fs, i))
  PROVE  /\ DOMAIN fs[i].data = 1 .. Len(fs[i].data) /\ Len(fs[i].data) \in Nat
         /\ Pos(fs, i) \in Sectors \ {0} /\ \A k \in DOMAIN fs[i].data : Pos(fs, i) + k \in Sectors \ {0}
<1>1. UserFile(fs[i])
  BY Zenon DEF IsFiles
<1>2. IsData(fs[i].data)
  BY Zenon, <1>1 DEF UserFile
<1>3. PICK S : fs[i].data \in Seq(S)
  BY Zenon, <1>2 DEF IsData
<1>4. DOMAIN fs[i].data = 1 .. Len(fs[i].data) /\ Len(fs[i].data) \in Nat
  BY <1>3
<1>5. Pos(fs, i) \in Nat \ {0}
  <2>1. i \in 1 .. Len(fs) + 1
    BY FileSizes
  <2> QED
    BY Zenon, <2>1, PosApart
<1>6. Pos(fs, i) + Len(fs[i].data) \in Sectors
  BY Zenon DEF Stored
<1>7. \A p \in Nat \ {0}, n \in Nat : p + n \in Sectors => p \in Sectors \ {0} /\ \A k \in 1 .. n : p + k \in Sectors \ {0}
  BY Sizes DEF Sectors
<1> QED
  BY Zenon, <1>4, <1>5, <1>6, <1>7

\* A file stays in place when its sectors stay as they are.
LEMMA StoredKept ==
  ASSUME NEW fs, IsFiles(fs), NEW i \in 1 .. Len(fs), NEW d, NEW e, Stored(d, fs[i], Pos(fs, i)),
         \A s \in Sectors : s \in Pos(fs, i) .. Pos(fs, i) + Len(fs[i].data) => e[s] = d[s]
  PROVE  Stored(e, fs[i], Pos(fs, i))
<1>1. /\ DOMAIN fs[i].data = 1 .. Len(fs[i].data) /\ Len(fs[i].data) \in Nat
      /\ Pos(fs, i) \in Sectors /\ \A k \in DOMAIN fs[i].data : Pos(fs, i) + k \in Sectors
  BY Zenon, StoredSectors
<1>2. Pos(fs, i) \in Nat
  BY <1>1, Sizes DEF Sectors
<1>3. Pos(fs, i) \in Pos(fs, i) .. Pos(fs, i) + Len(fs[i].data)
  BY <1>1, <1>2
<1>4. e[Pos(fs, i)] = d[Pos(fs, i)]
  BY Zenon, <1>1, <1>3
<1>5. ASSUME NEW k \in DOMAIN fs[i].data PROVE e[Pos(fs, i) + k] = d[Pos(fs, i) + k]
  <2>1. Pos(fs, i) + k \in Pos(fs, i) .. Pos(fs, i) + Len(fs[i].data)
    BY <1>1, <1>2
  <2> QED
    BY Zenon, <1>1, <2>1
<1> QED
  BY Zenon, <1>4, <1>5 DEF Stored

\* The files in front of the one being written stay in place.
LEMMA BehindKept ==
  ASSUME NEW fs, IsFiles(fs), NEW n \in 1 .. Len(fs) + 1, NEW d, NEW e, StoredTo(d, fs, n - 1),
         NEW t \in Nat, Pos(fs, n) <= t, \A s \in Sectors : s # t => e[s] = d[s]
  PROVE  StoredTo(e, fs, n - 1)
<1>1. SUFFICES ASSUME NEW i \in 1 .. n - 1 PROVE Stored(e, fs[i], Pos(fs, i))
  BY Zenon DEF StoredTo
<1>2. i \in 1 .. Len(fs) /\ i < n /\ i \in 1 .. Len(fs) + 1
  BY FileSizes
<1>3. Stored(d, fs[i], Pos(fs, i))
  BY Zenon DEF StoredTo
<1>4. Pos(fs, i) + Len(fs[i].data) < Pos(fs, n) /\ Pos(fs, i) \in Nat /\ Pos(fs, n) \in Nat /\ Len(fs[i].data) \in Nat
  BY Zenon, <1>2, PosApart, FileSizes
<1>5. ASSUME NEW s \in Sectors, s \in Pos(fs, i) .. Pos(fs, i) + Len(fs[i].data) PROVE e[s] = d[s]
  <2>1. s # t
    BY <1>4, <1>5
  <2> QED
    BY Zenon, <2>1
<1> QED
  BY Zenon, <1>2, <1>3, <1>5, StoredKept

-----------------------------------------------------------------------------
(* The invariant of all steps.                                             *)

Users == ramfs_user(files)

\* All the user files of the table were given to a sync.
AllSynced == \A k \in DOMAIN Users : Users[k] \in synced

KnownSuper(s) ==
    s = Blank \/ \E version \in {AOS1, AOS2}, count \in 0 .. RAMFS_MAX_FILES : \E c : s = Super(version, count, c)

FromAOS2 == sup # Blank /\ sup.version = AOS2

Shapes ==
    /\ pc \in {"boot", "load", "meta", "data", "run"}
    /\ outcome \in {"none", "ok", "corrupt", "eio", "migrating", "used"}
    /\ idx \in 1 .. RAMFS_MAX_FILES + 1 /\ sector \in 1 .. DiskSectors
    /\ copied \in 0 .. RAMFS_FILE_SIZE - 1
    /\ saved \in doubt

TableInv ==
    /\ \E m : Packed(files, m)
    /\ pc = "boot" => files = ramfs_init

\* Every meta sector is that of a file given to a sync.
DiskInv ==
    /\ disk = [s \in Sectors |-> disk[s]]
    /\ KnownSuper(disk[0]) /\ KnownSuper(sup)
    /\ \A s \in Sectors \ {0} : disk[s].kind = "meta" => \E f \in synced : disk[s] = Meta(f)
    /\ \A f \in synced : UserFile(f)

\* What an AOS2 image has given so far are such files.
LoadInv ==
    /\ pc \in {"boot", "load"} => outcome = "none"
    /\ pc = "load" => sup # Blank
    /\ outcome = "migrating" => sup # Blank /\ sup.version = AOS1
    /\ (pc = "load" \/ outcome = "ok") /\ FromAOS2 => AllSynced

\* The part of the current file that is on the device, behind its k-th sector.
Partly(d, file, at, k) == d[at] = Meta(file) /\ \A j \in 1 .. k : d[at + j] = Data(file.data[j])

\* Where the loop of persist_sync is: the files before idx are in place, and
\* sector and rolling are what the files so far make them.
SyncInv ==
    pc \in {"meta", "data"} =>
        /\ AllSynced
        /\ idx \in 1 .. Len(Users) + 1
        /\ StoredTo(disk, Users, idx - 1)
        /\ pc = "meta" => sector = Pos(Users, idx) /\ rolling = Sum(Users, idx)
        /\ pc = "data" =>
               /\ idx <= Len(Users) /\ copied < Len(Users[idx].data)
               /\ sector = Pos(Users, idx) + 1 + copied /\ rolling = Sum(Users, idx + 1)
               /\ Partly(disk, Users[idx], Pos(Users, idx), copied)

Base == Shapes /\ TableInv /\ DiskInv /\ LoadInv /\ SyncInv

\* The user files of the table are a sequence of files.
LEMMA UsersAre ==
  ASSUME TableInv
  PROVE  /\ IsFiles(Users) /\ DOMAIN Users = 1 .. Len(Users) /\ Len(Users) \in 0 .. RAMFS_MAX_FILES
         /\ \E m : Packed(files, m) /\ Len(Users) = m
  BY Zenon, PackedFiles DEF TableInv, Users

\* The files of a first image.
LEMMA FirstFiles ==
  ASSUME NEW image \in FirstImages
  PROVE  /\ IsFiles(image.files) /\ Loadable(image.files) /\ DOMAIN image.files = 1 .. Len(image.files)
         /\ Len(image.files) \in 0 .. RAMFS_MAX_FILES
<1> DEFINE fs == image.files
<1>1. FirstImage(image)
  BY Zenon, PersistAssumption
<1>2. fs \in Seq(UserFiles) /\ Loadable(fs)
  BY Zenon, <1>1 DEF FirstImage
<1> HIDE DEF fs
<1>3. Len(fs) \in Nat /\ fs = [k \in 1 .. Len(fs) |-> fs[k]] /\ DOMAIN fs = 1 .. Len(fs) /\ \A k \in 1 .. Len(fs) : fs[k] \in UserFiles
  BY <1>2
<1>4. ASSUME NEW k \in 1 .. Len(fs) PROVE UserFile(fs[k])
  <2> DEFINE f == fs[k]
  <2>1. f \in [path : Paths, data : Seq(Chunks)] /\ Len(f.data) \in 1 .. RAMFS_FILE_SIZE - 1
    BY Zenon, <1>2, <1>3 DEF UserFiles, Loadable
  <2> HIDE DEF f
  <2>2. f = File(f.path, f.data) /\ f.path \in Paths /\ f.data \in Seq(Chunks)
    BY <2>1 DEF File
  <2>3. Len(f.data) \in 0 .. RAMFS_FILE_SIZE - 1
    BY <2>1, Sizes
  <2> QED
    BY Zenon, <2>2, <2>3 DEF UserFile, IsData, f
<1>5. Len(fs) \in 0 .. RAMFS_MAX_FILES
  BY <1>2, <1>3, Sizes DEF Loadable
<1> QED
  BY Zenon, <1>2, <1>3, <1>4, <1>5 DEF IsFiles, fs

\* The invariant holds at the first boot.
LEMMA BaseInit == ASSUME Init PROVE Base
<1>1. PICK image \in FirstImages :
          /\ disk = image.disk /\ saved = image.files /\ doubt = {image.files}
          /\ synced = {image.files[i] : i \in DOMAIN image.files}
  BY Zenon DEF Init
<1>2. FirstImage(image)
  BY Zenon, PersistAssumption
<1>3. 0 \in Sectors
  BY Sizes DEF Sectors
<1>4. Shapes
  <2>1. 1 \in 1 .. RAMFS_MAX_FILES + 1 /\ 1 \in 1 .. DiskSectors /\ 0 \in 0 .. RAMFS_FILE_SIZE - 1
    BY Sizes
  <2> QED
    BY Zenon, <1>1, <2>1 DEF Init, Shapes
<1>5. TableInv
  BY Zenon, InitPacked DEF Init, TableInv
<1>6. \A f \in synced : UserFile(f)
  BY Zenon, <1>1, FirstFiles DEF IsFiles
<1>7. KnownSuper(sup)
  BY Zenon DEF Init, KnownSuper
<1>8. CASE image.files = <<>> /\ image.disk = [s \in Sectors |-> Blank]
  <2>1. \A s \in Sectors : disk[s] = Blank
    BY Zenon, <1>1, <1>8
  <2>2. disk = [s \in Sectors |-> disk[s]]
    BY Zenon, <1>1, <1>8
  <2>3. Blank.kind # "meta"
    BY SectorFields
  <2> QED
    BY Zenon, <1>3, <1>4, <1>5, <1>6, <1>7, <2>1, <2>2, <2>3 DEF Base, DiskInv, KnownSuper, LoadInv, SyncInv, Init
<1>9. CASE ~(image.files = <<>> /\ image.disk = [s \in Sectors |-> Blank])
  <2>1. PICK version \in {AOS1, AOS2} : \E c : disk[0] = Super(version, Len(image.files), c)
    BY Zenon, <1>1, <1>2, <1>9 DEF FirstImage
  <2>2. KnownSuper(disk[0])
    BY Zenon, <2>1, FirstFiles DEF KnownSuper
  <2>3. disk = [s \in Sectors |-> disk[s]]
    BY Zenon, <1>1, <1>2, <1>9 DEF FirstImage
  <2>4. \A s \in Sectors : disk[s].kind = "meta" => \E f \in synced : disk[s] = Meta(f)
    BY Zenon, <1>1, <1>2, <1>9 DEF FirstImage
  <2> QED
    BY Zenon, <1>4, <1>5, <1>6, <1>7, <2>2, <2>3, <2>4 DEF Base, DiskInv, LoadInv, SyncInv, Init
<1> QED
  BY Zenon, <1>8, <1>9

\* What persist_load reads of a file: the meta sector is that of a file given
\* to a sync, and data that matches its CRC makes it that file.
LEMMA ReadsFile ==
  ASSUME Base, GoodMeta
  PROVE  \E f \in synced :
            /\ disk[sector] = Meta(f) /\ UserFile(f) /\ disk[sector].path = f.path
            /\ IsData(ReadData) /\ Len(ReadData) = Len(f.data)
            /\ ReadData = disk[sector].crc => File(disk[sector].path, ReadData) = f
<1>1. sector \in Sectors \ {0}
  BY Sizes DEF GoodMeta, Base, Shapes, Sectors
<1>2. PICK f \in synced : disk[sector] = Meta(f)
  BY Zenon, <1>1 DEF GoodMeta, Base, DiskInv
<1>3. UserFile(f)
  BY Zenon, <1>2 DEF Base, DiskInv
<1>4. disk[sector].size = Len(f.data) /\ disk[sector].path = f.path /\ disk[sector].crc = f.data
  BY Zenon, <1>2, SectorFields
<1>5. Len(f.data) \in Nat
  BY <1>3, Sizes DEF UserFile
<1>6. ReadData = [k \in 1 .. Len(f.data) |-> ReadData[k]]
  BY Zenon, <1>4 DEF ReadData
<1>7. IsData(ReadData) /\ Len(ReadData) = Len(f.data)
  BY Zenon, <1>5, <1>6, FunctionIsData
<1>8. ReadData = disk[sector].crc => File(disk[sector].path, ReadData) = f
  BY Zenon, <1>3, <1>4 DEF UserFile
<1> QED
  BY Zenon, <1>2, <1>3, <1>4, <1>7, <1>8

\* The table stays packed.
LEMMA TableStep == ASSUME Base, [Next]_vars PROVE TableInv'
<1>1. PICK m : Packed(files, m)
  BY Zenon DEF Base, TableInv
<1>2. ASSUME files' = files, pc' = "boot" => pc = "boot" PROVE TableInv'
  BY Zenon, <1>1, <1>2 DEF Base, TableInv
<1>3. ASSUME files' = ramfs_init PROVE TableInv'
  BY Zenon, <1>3, InitPacked DEF TableInv
<1>4. CASE ReadSuper
  <2>1. CASE disk[0] = Blank
    BY Zenon, <1>2, <1>4, <2>1 DEF ReadSuper, BootEnds
  <2>2. CASE disk[0] # Blank
    BY Zenon, <1>3, <1>4, <2>2, InitPacked DEF ReadSuper, Base, TableInv
  <2> QED
    BY Zenon, <2>1, <2>2
<1>5. CASE LoadFile
  <2>1. CASE GoodMeta /\ CrcMatches /\ PutAccepts(files, disk[sector].path, ReadData)
    <3>1. files' = ramfs_put(files, disk[sector].path, ReadData) /\ pc' = "load"
      BY Zenon, <1>5, <2>1 DEF LoadFile
    <3>2. disk[sector].path \in Paths /\ IsData(ReadData)
      BY Zenon, <2>1, ReadsFile DEF UserFile
    <3>3. \E k : Packed(files', k)
      BY Zenon, <1>1, <2>1, <3>1, <3>2, PutPacked
    <3> QED
      BY Zenon, <3>1, <3>3 DEF TableInv
  <2>2. CASE ~(GoodMeta /\ CrcMatches /\ PutAccepts(files, disk[sector].path, ReadData))
    BY Zenon, <1>2, <1>5, <2>2 DEF LoadFile, BootEnds
  <2> QED
    BY Zenon, <2>1, <2>2
<1>6. CASE ReadFails \/ LoadEnds \/ agent_sync
  BY Zenon, <1>2, <1>6 DEF ReadFails, LoadEnds, agent_sync, BootEnds, BeginSync
<1>7. CASE SyncMeta \/ SyncData \/ SyncSuper \/ WriteFails
  BY Zenon, <1>2, <1>7 DEF SyncMeta, SyncData, SyncSuper, WriteFails, SyncReturns, NextSector
<1>8. CASE \E p \in Paths, d \in Contents : ToolWrite(p, d)
  <2>1. PICK p \in Paths, d \in Contents : ToolWrite(p, d)
    BY Zenon, <1>8
  <2>2. IsData(d)
    BY Zenon, PersistAssumption DEF IsData
  <2>3. \E k : Packed(files', k)
    BY Zenon, <1>1, <2>1, <2>2, WritePacked DEF ToolWrite
  <2> QED
    BY Zenon, <2>1, <2>3 DEF ToolWrite, TableInv
<1>9. CASE Restart
  BY Zenon, <1>3, <1>9 DEF Restart
<1>10. CASE UNCHANGED vars
  BY Zenon, <1>2, <1>10 DEF vars
<1> QED
  BY Zenon, <1>4, <1>5, <1>6, <1>7, <1>8, <1>9, <1>10 DEF Next

\* What a sync writes: a sector of the device, as Target and Written say.
LEMMA Writes ==
  ASSUME Base, WriteSector
  PROVE  /\ disk' = [s \in Sectors |-> disk'[s]] /\ Target \in Sectors
         /\ \A s \in Sectors : disk'[s] = IF s = Target THEN Written ELSE disk[s]
  BY Zenon DEF WriteSector, Base, DiskInv

\* Before the end of the loop Saving is one of the user files, and AllSaved is
\* about the loop's index.
LEMMA SavingIs ==
  ASSUME Base, pc \in {"meta", "data"}
  PROVE  /\ AllSaved <=> idx = Len(Users) + 1
         /\ ~AllSaved => /\ idx \in 1 .. Len(Users) /\ Saving = Users[idx] /\ Saving \in synced
                         /\ UserFile(Saving) /\ Len(Saving.data) \in 0 .. RAMFS_FILE_SIZE - 1
<1>1. TableInv /\ SyncInv /\ DiskInv
  BY Zenon DEF Base
<1>2. DOMAIN Users = 1 .. Len(Users) /\ Len(Users) \in Nat
  BY <1>1, UsersAre DEF IsFiles
<1>3. idx \in 1 .. Len(Users) + 1 /\ AllSynced
  BY Zenon, <1>1 DEF SyncInv
<1>4. AllSaved <=> idx > Len(Users)
  BY Zenon DEF AllSaved, Users
<1>5. AllSaved <=> idx = Len(Users) + 1
  BY <1>2, <1>3, <1>4
<1>6. ~AllSaved => idx \in 1 .. Len(Users)
  BY <1>2, <1>3, <1>4
<1>7. Saving = Users[idx]
  BY Zenon DEF Saving, Users
<1>8. ~AllSaved => Saving \in synced
  BY Zenon, <1>2, <1>3, <1>6, <1>7 DEF AllSynced
<1> QED
  BY Zenon, <1>1, <1>5, <1>6, <1>7, <1>8 DEF DiskInv, UserFile

\* The superblock is written when all files are, and only then.
LEMMA WritesWhat ==
  ASSUME Base, pc \in {"meta", "data"}
  PROVE  /\ AllSaved => Target = 0 /\ Written = Super(AOS2, Len(Users), rolling)
         /\ ~AllSaved => Target = sector /\ Target # 0
         /\ ~AllSaved /\ pc = "meta" => Written = Meta(Saving)
         /\ ~AllSaved /\ pc = "data" => Written = Data(Saving.data[copied + 1])
<1>1. sector # 0
  BY Sizes DEF Base, Shapes
<1>2. pc = "data" => pc # "meta"
  OBVIOUS
<1> QED
  BY Zenon, <1>1, <1>2 DEF Target, Written, Users

\* The sectors written are known ones.
LEMMA DiskWritten ==
  ASSUME Base, pc \in {"meta", "data"}, WriteSector, synced' = synced, sup' = sup
  PROVE  DiskInv'
<1>1. DiskInv /\ TableInv
  BY Zenon DEF Base
<1>2. disk' = [s \in Sectors |-> disk'[s]] /\ Target \in Sectors /\ 0 \in Sectors
  <2>1. 0 \in Sectors
    BY Sizes DEF Sectors
  <2> QED
    BY Zenon, <2>1, Writes
<1>3. \A s \in Sectors : disk'[s] = IF s = Target THEN Written ELSE disk[s]
  BY Zenon, Writes
<1>4. CASE AllSaved
  <2>1. Target = 0 /\ Written = Super(AOS2, Len(Users), rolling)
    BY Zenon, <1>4, WritesWhat
  <2>2. disk'[0] = Super(AOS2, Len(Users), rolling)
    BY Zenon, <1>2, <1>3, <2>1
  <2>3. Len(Users) \in 0 .. RAMFS_MAX_FILES
    BY Zenon, <1>1, UsersAre
  <2>4. KnownSuper(disk'[0])
    BY Zenon, <2>2, <2>3 DEF KnownSuper
  <2>5. \A s \in Sectors \ {0} : disk'[s] = disk[s]
    BY Zenon, <1>3, <2>1
  <2> QED
    BY Zenon, <1>1, <1>2, <2>4, <2>5 DEF DiskInv
<1>5. CASE ~AllSaved
  <2>1. Target # 0
    BY Zenon, <1>5, WritesWhat
  <2>2. disk'[0] = disk[0]
    BY Zenon, <1>2, <1>3, <2>1
  <2>3. Written.kind = "meta" => \E f \in synced : Written = Meta(f)
    <3>1. CASE pc = "meta"
      BY Zenon, <1>5, <3>1, WritesWhat, SavingIs
    <3>2. CASE pc = "data"
      <4>1. PICK chunk : Written = Data(chunk)
        BY Zenon, <1>5, <3>2, WritesWhat
      <4>2. Written.kind = "data"
        BY Zenon, <4>1, SectorFields
      <4> QED
        BY <4>2
    <3> QED
      BY Zenon, <3>1, <3>2
  <2>4. \A s \in Sectors \ {0} : disk'[s].kind = "meta" => \E f \in synced : disk'[s] = Meta(f)
    BY Zenon, <1>1, <1>3, <2>3 DEF DiskInv
  <2> QED
    BY Zenon, <1>1, <1>2, <2>2, <2>4 DEF DiskInv
<1> QED
  BY Zenon, <1>4, <1>5

\* Every step keeps the device as DiskInv says.
LEMMA DiskStep == ASSUME Base, [Next]_vars PROVE DiskInv'
<1>1. DiskInv /\ TableInv
  BY Zenon DEF Base
<1>2. ASSUME disk' = disk, synced' = synced, sup' = sup \/ sup' = disk[0] PROVE DiskInv'
  BY Zenon, <1>1, <1>2 DEF DiskInv
<1>3. ASSUME disk' = disk, Given(Users), sup' = sup PROVE DiskInv'
  <2>1. \A f \in synced' : f \in synced \/ \E k \in 1 .. Len(Users) : f = Users[k]
    BY Zenon, <1>1, <1>3, UsersAre DEF Given
  <2>2. \A f \in synced' : UserFile(f)
    BY Zenon, <1>1, <2>1, UsersAre DEF IsFiles, DiskInv
  <2>3. \A f \in synced : f \in synced'
    BY Zenon, <1>3 DEF Given
  <2> QED
    BY Zenon, <1>1, <1>3, <2>2, <2>3 DEF DiskInv
<1>4. CASE ReadSuper
  BY Zenon, <1>2, <1>4 DEF ReadSuper, BootEnds, Ghosts
<1>5. CASE LoadFile
  BY Zenon, <1>2, <1>5 DEF LoadFile, BootEnds, Ghosts
<1>6. CASE ReadFails
  BY Zenon, <1>2, <1>6 DEF ReadFails, BootEnds, Ghosts
<1>7. CASE LoadEnds
  BY Zenon, <1>2, <1>3, <1>7 DEF LoadEnds, BootEnds, Users
<1>8. CASE agent_sync
  BY Zenon, <1>3, <1>8 DEF agent_sync, Users
<1>9. CASE SyncMeta \/ SyncData
  BY Zenon, <1>9, DiskWritten DEF SyncMeta, SyncData, Ghosts
<1>10. CASE SyncSuper
  BY Zenon, <1>10, DiskWritten DEF SyncSuper, Ghosts
<1>11. CASE WriteFails
  BY Zenon, <1>2, <1>11, DiskWritten DEF WriteFails, Ghosts
<1>12. CASE \E p \in Paths, d \in Contents : ToolWrite(p, d)
  BY Zenon, <1>2, <1>12 DEF ToolWrite, Ghosts
<1>13. CASE Restart
  BY Zenon, <1>2, <1>13 DEF Restart, Ghosts
<1>14. CASE UNCHANGED vars
  BY Zenon, <1>2, <1>14 DEF vars
<1> QED
  BY Zenon, <1>4, <1>5, <1>6, <1>7, <1>8, <1>9, <1>10, <1>11, <1>12, <1>13, <1>14 DEF Next

\* A sector just behind what the loop has written is within the device.
LEMMA NextWithin ==
  ASSUME Base, pc \in {"meta", "data"}, ~AllSaved, WriteSector, NextSector,
         copied' \in 0 .. Len(Saving.data)
  PROVE  /\ sector' \in 1 .. DiskSectors /\ idx' \in 1 .. RAMFS_MAX_FILES + 1
         /\ copied' \in 0 .. RAMFS_FILE_SIZE - 1 /\ pc' \in {"meta", "data"}
<1>1. sector \in Sectors
  BY Zenon, Writes, WritesWhat
<1>2. sector' = sector + 1 /\ idx' \in {idx, idx + 1} /\ pc' \in {"meta", "data"}
  BY Zenon DEF NextSector
<1>3. idx \in 1 .. Len(Users) /\ Len(Saving.data) \in 0 .. RAMFS_FILE_SIZE - 1
  BY Zenon, SavingIs
<1>4. Len(Users) \in 0 .. RAMFS_MAX_FILES
  BY Zenon, UsersAre DEF Base
<1>5. sector \in 1 .. DiskSectors
  BY Zenon DEF Base, Shapes
<1>6. sector' \in 1 .. DiskSectors
  BY <1>1, <1>2, <1>5, Sizes DEF Sectors
<1>7. idx' \in 1 .. RAMFS_MAX_FILES + 1
  BY <1>2, <1>3, <1>4, Sizes
<1>8. copied' \in 0 .. RAMFS_FILE_SIZE - 1
  BY <1>3, Sizes
<1> QED
  BY Zenon, <1>2, <1>6, <1>7, <1>8

\* The counters stay within the table and the device.
LEMMA ShapesStep == ASSUME Base, [Next]_vars PROVE Shapes'
<1>1. Shapes
  BY Zenon DEF Base
<1> DEFINE Same == idx' = idx /\ sector' = sector /\ copied' = copied
           Begun == idx' = 1 /\ sector' = 1 /\ copied' = 0
           Places == idx' \in 1 .. RAMFS_MAX_FILES + 1 /\ sector' \in 1 .. DiskSectors /\ copied' \in 0 .. RAMFS_FILE_SIZE - 1
           Marks == /\ pc' \in {"boot", "load", "meta", "data", "run"}
                    /\ outcome' \in {"none", "ok", "corrupt", "eio", "migrating", "used"}
                    /\ saved' \in doubt'
<1>2. Same => Places
  BY Zenon, <1>1 DEF Shapes
<1>3. Begun => Places
  BY Sizes
<1>4. Places /\ Marks => Shapes'
  BY Zenon DEF Shapes
<1>5. CASE ReadSuper
  <2>1. CASE disk[0] = Blank
    BY Zenon, <1>1, <1>2, <1>4, <1>5, <2>1 DEF ReadSuper, BootEnds, Ghosts, Shapes
  <2>2. CASE disk[0] # Blank
    BY Zenon, <1>1, <1>3, <1>4, <1>5, <2>2 DEF ReadSuper, StartLoop, Ghosts, Shapes
  <2> QED
    BY Zenon, <2>1, <2>2
<1>6. CASE LoadFile
  <2>1. CASE GoodMeta /\ CrcMatches /\ PutAccepts(files, disk[sector].path, ReadData)
    <3>1. idx' = idx + 1 /\ sector' = sector + 1 + disk[sector].size /\ copied' = copied
      BY Zenon, <1>6, <2>1 DEF LoadFile
    <3>2. Marks
      BY Zenon, <1>1, <1>6, <2>1 DEF LoadFile, Ghosts, Shapes
    <3>3. PICK v \in {AOS1, AOS2}, n \in 0 .. RAMFS_MAX_FILES : \E c : sup = Super(v, n, c)
      BY Zenon, <1>6 DEF LoadFile, Base, DiskInv, LoadInv, KnownSuper
    <3>4. idx <= n
      <4>1. PICK c : sup = Super(v, n, c)
        BY Zenon, <3>3
      <4>2. sup.count = n
        BY <4>1 DEF Super
      <4> QED
        BY Zenon, <1>6, <4>2 DEF LoadFile
    <3>5. disk[sector].size \in Nat \ {0} /\ sector + disk[sector].size \in Sectors
      BY <2>1, Sizes DEF GoodMeta
    <3>6. idx' \in 1 .. RAMFS_MAX_FILES + 1
      BY <1>1, <3>1, <3>3, <3>4, Sizes DEF Shapes
    <3>7. sector' \in 1 .. DiskSectors
      <4>1. sector \in Nat \ {0}
        BY <1>1, Sizes DEF Shapes
      <4>2. PICK z \in Nat : z = disk[sector].size
        BY Zenon, <3>5
      <4>3. sector + z \in Sectors /\ sector' = sector + 1 + z
        BY Zenon, <3>1, <3>5, <4>2
      <4>4. sector + z <= DiskSectors - 1
        BY <4>3, <4>1, Sizes DEF Sectors
      <4> QED
        BY <4>1, <4>3, <4>4, Sizes
    <3>8. copied' \in 0 .. RAMFS_FILE_SIZE - 1
      BY Zenon, <1>1, <3>1 DEF Shapes
    <3> QED
      BY Zenon, <1>4, <3>2, <3>6, <3>7, <3>8
  <2>2. CASE ~(GoodMeta /\ CrcMatches /\ PutAccepts(files, disk[sector].path, ReadData))
    BY Zenon, <1>1, <1>2, <1>4, <1>6, <2>2 DEF LoadFile, BootEnds, Ghosts, Shapes
  <2> QED
    BY Zenon, <2>1, <2>2
<1>7. CASE ReadFails
  BY Zenon, <1>1, <1>2, <1>4, <1>7 DEF ReadFails, BootEnds, Ghosts, Shapes
<1>8. CASE LoadEnds
  <2>1. CASE BootEnds(IF rolling = sup.checksum THEN "ok" ELSE "corrupt") /\ UNCHANGED <<doubt, synced>>
    BY Zenon, <1>1, <1>2, <1>4, <1>8, <2>1 DEF LoadEnds, BootEnds, Shapes
  <2>2. CASE BeginSync /\ outcome' = "migrating" /\ doubt' = IF doubt = {saved} THEN doubt ELSE doubt \cup {ramfs_user(files)}
    BY Zenon, <1>1, <1>3, <1>4, <1>8, <2>2 DEF LoadEnds, BeginSync, StartLoop, Shapes
  <2> QED
    BY Zenon, <1>8, <2>1, <2>2 DEF LoadEnds
<1>9. CASE agent_sync
  BY Zenon, <1>1, <1>3, <1>4, <1>9 DEF agent_sync, BeginSync, StartLoop, Shapes
<1>10. CASE SyncMeta
  <2>1. copied' \in 0 .. Len(Saving.data)
    <3>1. Len(Saving.data) \in Nat
      BY <1>10, SavingIs, Sizes DEF SyncMeta
    <3>2. copied' = 0
      BY Zenon, <1>10 DEF SyncMeta
    <3> QED
      BY <3>1, <3>2
  <2>2. Places /\ pc' \in {"meta", "data"}
    BY Zenon, <1>10, <2>1, NextWithin DEF SyncMeta
  <2>3. Marks
    BY Zenon, <1>1, <1>10, <2>2 DEF SyncMeta, Ghosts, Shapes
  <2> QED
    BY Zenon, <1>4, <2>2, <2>3
<1>11. CASE SyncData
  <2>1. pc = "data" /\ SyncInv /\ TableInv
    BY Zenon, <1>11 DEF SyncData, Base
  <2>2. idx <= Len(Users) /\ copied < Len(Users[idx].data) /\ idx \in 1 .. Len(Users) + 1 /\ Len(Users) \in Nat
    <3>1. Len(Users) \in Nat
      BY Zenon, <2>1, UsersAre DEF IsFiles
    <3> QED
      BY Zenon, <2>1, <3>1 DEF SyncInv
  <2>3. ~AllSaved
    <3>1. idx # Len(Users) + 1
      BY <2>2
    <3> QED
      BY Zenon, <2>1, <3>1, SavingIs
  <2>4. copied' \in 0 .. Len(Saving.data)
    <3>1. Len(Saving.data) \in Nat /\ Saving = Users[idx]
      BY <2>1, <2>3, SavingIs, Sizes
    <3>2. copied' = copied + 1 /\ copied < Len(Saving.data) /\ copied \in 0 .. RAMFS_FILE_SIZE - 1
      BY Zenon, <1>1, <1>11, <2>2, <3>1 DEF SyncData, Shapes
    <3> QED
      BY <3>1, <3>2, Sizes
  <2>5. Places /\ pc' \in {"meta", "data"}
    BY Zenon, <1>11, <2>3, <2>4, NextWithin DEF SyncData
  <2>6. Marks
    BY Zenon, <1>1, <1>11, <2>5 DEF SyncData, Ghosts, Shapes
  <2> QED
    BY Zenon, <1>4, <2>5, <2>6
<1>12. CASE SyncSuper
  <2>1. saved' \in doubt'
    BY Zenon, <1>1, <1>12 DEF SyncSuper, Ghosts, Shapes
  <2>2. Marks
    BY Zenon, <1>1, <1>12, <2>1 DEF SyncSuper, SyncReturns, Shapes
  <2> QED
    BY Zenon, <1>2, <1>4, <1>12, <2>2 DEF SyncSuper
<1>13. CASE WriteFails
  <2>1. Marks
    BY Zenon, <1>1, <1>13 DEF WriteFails, SyncReturns, Ghosts, Shapes
  <2> QED
    BY Zenon, <1>2, <1>4, <1>13, <2>1 DEF WriteFails
<1>14. CASE \E p \in Paths, d \in Contents : ToolWrite(p, d)
  BY Zenon, <1>1, <1>2, <1>4, <1>14 DEF ToolWrite, Ghosts, Shapes
<1>15. CASE Restart
  BY Zenon, <1>1, <1>2, <1>4, <1>15 DEF Restart, Ghosts, Shapes
<1>16. CASE UNCHANGED vars
  BY Zenon, <1>1, <1>2, <1>4, <1>16 DEF vars, Shapes
<1> QED
  BY Zenon, <1>5, <1>6, <1>7, <1>8, <1>9, <1>10, <1>11, <1>12, <1>13, <1>14, <1>15, <1>16 DEF Next

\* What an AOS2 image gives is what a sync was given.
LEMMA LoadsSynced ==
  ASSUME Base, AllSynced, GoodMeta, PutAccepts(files, disk[sector].path, ReadData), ReadData = disk[sector].crc,
         files' = ramfs_put(files, disk[sector].path, ReadData), synced' = synced
  PROVE  AllSynced'
<1>1. PICK m : Packed(files, m)
  BY Zenon DEF Base, TableInv
<1>2. PICK f \in synced : f.path \in Paths /\ disk[sector].path = f.path /\ IsData(ReadData) /\ File(disk[sector].path, ReadData) = f
  BY Zenon, ReadsFile DEF UserFile
<1>3. /\ Packed(files', m) \/ Packed(files', m + 1)
      /\ \A i \in Slots : files'[i] \in {files[i], f}
  BY Zenon, <1>1, <1>2, PutPacked
<1>4. PICK n : Packed(files', n) /\ n \in {m, m + 1}
  BY Zenon, <1>3
<1>5. SUFFICES ASSUME NEW k \in DOMAIN ramfs_user(files') PROVE ramfs_user(files')[k] \in synced
  BY Zenon DEF AllSynced, Users
<1>6. k \in 1 .. n /\ Len(SysFiles) + k \in Slots /\ ramfs_user(files')[k] = files'[Len(SysFiles) + k]
  BY Zenon, <1>4, <1>5, PackedFiles
<1>7. CASE files'[Len(SysFiles) + k] = f
  BY Zenon, <1>6, <1>7
<1>8. CASE files'[Len(SysFiles) + k] # f
  <2>1. files'[Len(SysFiles) + k] = files[Len(SysFiles) + k]
    BY Zenon, <1>3, <1>6, <1>8
  <2>2. UserFile(files'[Len(SysFiles) + k])
    BY Zenon, <1>4, <1>6, PackedFiles DEF IsFiles
  <2>3. files[Len(SysFiles) + k] # NoFile
    BY Zenon, <2>1, <2>2, UserFileIsUser
  <2>4. Len(SysFiles) + k \in 1 .. Len(SysFiles) + m
    BY Zenon, <1>1, <1>6, <2>3, PackedSlots
  <2>5. k \in 1 .. m
    BY SMTT(60), <1>1, <1>4, <1>6, <2>4, Sizes DEF Packed
  <2>6. k \in DOMAIN Users /\ Users[k] = files[Len(SysFiles) + k]
    BY Zenon, <1>1, <2>5, PackedFiles DEF Users
  <2> QED
    BY Zenon, <1>6, <2>1, <2>6 DEF AllSynced
<1> QED
  BY Zenon, <1>7, <1>8

\* A boot that goes through an AOS2 image has files of syncs only.
LEMMA LoadStep == ASSUME Base, [Next]_vars PROVE LoadInv'
<1>1. LoadInv
  BY Zenon DEF Base
<1>2. ASSUME files' = files, sup' = sup, synced' = synced PROVE (AllSynced <=> AllSynced') /\ (FromAOS2 <=> FromAOS2')
  BY Zenon, <1>2 DEF AllSynced, Users, FromAOS2
<1>3. ASSUME files' = ramfs_init PROVE AllSynced'
  BY Zenon, <1>3, NoUsers DEF AllSynced, Users
<1>4. CASE ReadSuper
  <2>1. pc = "boot" /\ files = ramfs_init
    BY Zenon, <1>4 DEF ReadSuper, Base, TableInv
  <2>2. CASE disk[0] = Blank
    <3>1. files' = ramfs_init /\ pc' = "run" /\ outcome' = "ok"
      BY Zenon, <1>4, <2>1, <2>2 DEF ReadSuper, BootEnds
    <3> QED
      BY <1>3, <3>1 DEF LoadInv
  <2>3. CASE disk[0] # Blank
    <3>1. files' = ramfs_init /\ pc' = "load" /\ sup' # Blank /\ outcome' = "none"
      BY Zenon, <1>1, <1>4, <2>1, <2>3, InitPacked DEF ReadSuper, LoadInv
    <3> QED
      BY Zenon, <1>3, <3>1 DEF LoadInv
  <2> QED
    BY Zenon, <2>2, <2>3
<1>5. CASE LoadFile
  <2>1. pc = "load" /\ outcome = "none" /\ sup # Blank /\ sup' = sup /\ synced' = synced
    BY Zenon, <1>1, <1>5 DEF LoadFile, LoadInv, BootEnds, Ghosts
  <2>2. CASE GoodMeta /\ CrcMatches /\ PutAccepts(files, disk[sector].path, ReadData)
    <3>1. pc' = "load" /\ outcome' = "none" /\ files' = ramfs_put(files, disk[sector].path, ReadData)
      BY Zenon, <1>5, <2>1, <2>2 DEF LoadFile
    <3>2. ASSUME FromAOS2' PROVE AllSynced'
      <4>1. sup.version = AOS2 /\ FromAOS2 /\ AOS1 # AOS2
        BY <2>1, <3>2 DEF FromAOS2, AOS1, AOS2
      <4>2. ReadData = disk[sector].crc
        BY Zenon, <2>2, <4>1 DEF CrcMatches
      <4>3. AllSynced
        BY Zenon, <1>1, <2>1, <4>1 DEF LoadInv
      <4> QED
        BY Zenon, <2>1, <2>2, <3>1, <4>2, <4>3, LoadsSynced
    <3> QED
      BY Zenon, <2>1, <3>1, <3>2 DEF LoadInv
  <2>3. CASE ~(GoodMeta /\ CrcMatches /\ PutAccepts(files, disk[sector].path, ReadData))
    <3>1. pc' = "run" /\ outcome' = "corrupt"
      BY Zenon, <1>5, <2>3 DEF LoadFile, BootEnds
    <3> QED
      BY <3>1 DEF LoadInv
  <2> QED
    BY Zenon, <2>2, <2>3
<1>6. CASE ReadFails
  <2>1. pc' = "run" /\ outcome' = "eio"
    BY Zenon, <1>6 DEF ReadFails, BootEnds
  <2> QED
    BY <2>1 DEF LoadInv
<1>7. CASE LoadEnds
  <2>1. pc = "load" /\ sup # Blank /\ sup' = sup /\ files' = files
    BY Zenon, <1>1, <1>7 DEF LoadEnds, LoadInv, BootEnds
  <2>2. CASE sup.version = AOS2 /\ BootEnds(IF rolling = sup.checksum THEN "ok" ELSE "corrupt") /\ UNCHANGED <<doubt, synced>>
    <3>1. pc' = "run" /\ outcome' \in {"ok", "corrupt"} /\ synced' = synced
      BY Zenon, <2>2 DEF BootEnds
    <3>2. FromAOS2' => AllSynced'
      BY Zenon, <1>1, <1>2, <2>1, <3>1 DEF LoadInv
    <3> QED
      BY <3>1, <3>2 DEF LoadInv
  <2>3. CASE sup.version = AOS1 /\ BeginSync /\ outcome' = "migrating"
    BY Zenon, <2>1, <2>3 DEF LoadInv, BeginSync
  <2> QED
    BY Zenon, <1>7, <2>2, <2>3 DEF LoadEnds
<1>8. CASE agent_sync
  <2>1. pc' = "meta" /\ outcome' = "used"
    BY Zenon, <1>8 DEF agent_sync, BeginSync
  <2> QED
    BY <2>1 DEF LoadInv
<1>9. CASE SyncMeta \/ SyncData
  <2>1. pc' \in {"meta", "data"} /\ outcome' = outcome /\ sup' = sup /\ files' = files /\ synced' = synced
    BY Zenon, <1>9 DEF SyncMeta, SyncData, NextSector, Ghosts
  <2> QED
    BY Zenon, <1>1, <1>2, <2>1 DEF LoadInv
<1>10. CASE SyncSuper \/ WriteFails
  <2>1. pc' = "run" /\ outcome' \in {"ok", "eio", outcome} /\ sup' = sup /\ files' = files
    BY Zenon, <1>10 DEF SyncSuper, WriteFails, SyncReturns
  <2>2. synced' = synced
    BY Zenon, <1>10 DEF SyncSuper, WriteFails, Ghosts
  <2>3. CASE outcome = "migrating"
    <3>1. sup' # Blank /\ sup'.version = AOS1 /\ AOS1 # AOS2
      BY <1>1, <2>1, <2>3 DEF LoadInv, AOS1, AOS2
    <3>2. outcome' \in {"ok", "eio"} /\ ~FromAOS2'
      BY Zenon, <1>10, <2>3, <3>1 DEF SyncSuper, WriteFails, SyncReturns, FromAOS2
    <3> QED
      BY Zenon, <2>1, <3>1, <3>2 DEF LoadInv
  <2>4. CASE outcome # "migrating"
    <3>1. outcome' = outcome
      BY Zenon, <1>10, <2>4 DEF SyncSuper, WriteFails, SyncReturns
    <3> QED
      BY Zenon, <1>1, <1>2, <2>1, <2>2, <2>4, <3>1 DEF LoadInv
  <2> QED
    BY Zenon, <2>3, <2>4
<1>11. CASE \E p \in Paths, d \in Contents : ToolWrite(p, d)
  <2>1. pc' = "run" /\ outcome' = "used"
    BY Zenon, <1>11 DEF ToolWrite
  <2> QED
    BY <2>1 DEF LoadInv
<1>12. CASE Restart
  <2>1. pc' = "boot" /\ outcome' = "none"
    BY Zenon, <1>12 DEF Restart
  <2> QED
    BY <2>1 DEF LoadInv
<1>13. CASE UNCHANGED vars
  BY Zenon, <1>1, <1>13 DEF vars, LoadInv, AllSynced, FromAOS2, Users
<1> QED
  BY Zenon, <1>4, <1>5, <1>6, <1>7, <1>8, <1>9, <1>10, <1>11, <1>12, <1>13 DEF Next
=============================================================================
