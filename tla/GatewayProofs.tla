--------------------------- MODULE GatewayProofs ---------------------------
(***************************************************************************)
(* What the gateway guarantees for any agents, capabilities, tools, texts    *)
(* and limits: which files a call may change, that the audit logs hold the   *)
(* newest calls, that a loaded policy is in force, and that the sessions     *)
(* stay within their quota.                                                 *)
(*                                                                         *)
(* One inductive invariant, GateInv, carries all of it.  The lemmas before it *)
(* say what each call of ramfs.c, policy.c, session.c and audit.c does to a  *)
(* table of files; the loops of policy_load and line_start_at are recursive  *)
(* functions, met through one lemma on a function that runs a loop.          *)
(***************************************************************************)
EXTENDS Gateway, WellFoundedInduction, FiniteSetTheorems, TLAPS

-----------------------------------------------------------------------------
(* Sequences                                                               *)

IsSeq(d) == \E S : d \in Seq(S)

\* A sequence has a length and is given by its elements.
LEMMA SeqShape ==
  ASSUME NEW d, IsSeq(d)
  PROVE  Len(d) \in Nat /\ DOMAIN d = 1 .. Len(d) /\ d = [i \in 1 .. Len(d) |-> d[i]]
<1>1. PICK S : d \in Seq(S)
  BY Zenon DEF IsSeq
<1> QED
  BY <1>1

\* So that two of one length with the same elements are one.
LEMMA SeqSame ==
  ASSUME NEW d, NEW e, IsSeq(d), IsSeq(e), Len(d) = Len(e), \A i \in 1 .. Len(d) : d[i] = e[i]
  PROVE  d = e
<1>1. d = [i \in 1 .. Len(d) |-> d[i]] /\ e = [i \in 1 .. Len(d) |-> e[i]]
  BY Zenon, SeqShape
<1>2. [i \in 1 .. Len(d) |-> d[i]] = [i \in 1 .. Len(d) |-> e[i]]
  BY Zenon
<1> QED
  BY Zenon, <1>1, <1>2

\* Anything given by its elements from 1 on is a sequence.
LEMMA SeqByElements ==
  ASSUME NEW n \in Nat, NEW f, f = [i \in 1 .. n |-> f[i]]
  PROVE  IsSeq(f) /\ Len(f) = n
<1> DEFINE S == {f[i] : i \in 1 .. n}
<1>1. f \in [1 .. n -> S]
  BY Zenon
<1>2. f \in Seq(S)
  BY <1>1
<1>3. DOMAIN f = 1 .. n
  BY Zenon
<1> HIDE DEF S
<1>4. Len(f) = n
  BY <1>2, <1>3
<1> QED
  BY Zenon, <1>2, <1>4 DEF IsSeq

\* The empty sequence.
LEMMA SeqEmpty == IsSeq(<<>>) /\ Len(<<>>) = 0
<1>1. <<>> \in Seq({})
  OBVIOUS
<1> QED
  BY <1>1, Zenon DEF IsSeq

\* A sequence of one element.
LEMMA SeqOne ==
  ASSUME NEW x
  PROVE  IsSeq(<<x>>) /\ Len(<<x>>) = 1 /\ <<x>>[1] = x
<1>1. <<x>> \in Seq({x})
  OBVIOUS
<1>2. IsSeq(<<x>>)
  BY Zenon, <1>1 DEF IsSeq
<1> QED
  BY <1>2

\* Two sequences, one behind the other.
LEMMA SeqConcat ==
  ASSUME NEW d, NEW e, IsSeq(d), IsSeq(e)
  PROVE  /\ IsSeq(d \o e) /\ Len(d \o e) = Len(d) + Len(e)
         /\ \A i \in 1 .. Len(d) : (d \o e)[i] = d[i]
         /\ \A i \in 1 .. Len(e) : (d \o e)[Len(d) + i] = e[i]
<1>1. PICK S : d \in Seq(S)
  BY Zenon DEF IsSeq
<1>2. PICK T : e \in Seq(T)
  BY Zenon DEF IsSeq
<1> DEFINE U == S \cup T
<1>3. d \in Seq(U) /\ e \in Seq(U)
  BY <1>1, <1>2
<1> HIDE DEF U
<1>4. d \o e \in Seq(U)
  BY <1>3
<1>5. IsSeq(d \o e)
  BY Zenon, <1>4 DEF IsSeq
<1> QED
  BY <1>3, <1>5

\* A sequence with an element behind it.
LEMMA SeqAppend ==
  ASSUME NEW d, NEW x, IsSeq(d)
  PROVE  /\ IsSeq(Append(d, x)) /\ Len(Append(d, x)) = Len(d) + 1
         /\ \A i \in 1 .. Len(d) : Append(d, x)[i] = d[i]
         /\ Append(d, x)[Len(d) + 1] = x
<1>1. PICK S : d \in Seq(S)
  BY Zenon DEF IsSeq
<1> DEFINE U == S \cup {x}
<1>2. d \in Seq(U) /\ x \in U
  BY <1>1
<1> HIDE DEF U
<1>3. Append(d, x) \in Seq(U)
  BY <1>2
<1>4. IsSeq(Append(d, x))
  BY Zenon, <1>3 DEF IsSeq
<1> QED
  BY <1>2, <1>4

\* A part of a sequence that ends within it.
LEMMA SeqPart ==
  ASSUME NEW d, IsSeq(d), NEW m \in Nat, m >= 1, NEW n \in Nat, n <= Len(d)
  PROVE  /\ IsSeq(SubSeq(d, m, n)) /\ Len(SubSeq(d, m, n)) = IF m <= n THEN n - m + 1 ELSE 0
         /\ \A i \in 1 .. n - m + 1 : SubSeq(d, m, n)[i] = d[m + i - 1]
<1>1. PICK S : d \in Seq(S)
  BY Zenon DEF IsSeq
<1>2. SubSeq(d, m, n) \in Seq(S)
  BY <1>1
<1>3. IsSeq(SubSeq(d, m, n))
  BY Zenon, <1>2 DEF IsSeq
<1> QED
  BY <1>1, <1>3

-----------------------------------------------------------------------------
(* What the calls of ramfs.c do: a call that succeeds fills or rewrites the  *)
(* slot of its path, and one that is refused half-way has created the file.  *)

\* A file as a slot holds it: text that leaves room for the closing NUL.
GoodFile(file) ==
    \E path, data : IsSeq(data) /\ Len(data) < RAMFS_FILE_SIZE /\ file = File(path, data)

\* A table: every slot is free or holds a file, and no path has two.
IsTable(fs) ==
    /\ fs = [i \in Slots |-> fs[i]]
    /\ \A i \in Slots : fs[i] # NoFile => GoodFile(fs[i])
    /\ \A i, j \in Slots : fs[i] # NoFile /\ fs[j] # NoFile /\ fs[i].path = fs[j].path => i = j

\* The slots that differ in gs hold files of the given paths, which were there
\* before or have taken a free slot.
ChangesOnly(fs, gs, paths) ==
    \A i \in Slots : gs[i] # fs[i] =>
        gs[i] # NoFile /\ gs[i].path \in paths /\ (fs[i] = NoFile \/ fs[i].path = gs[i].path)

\* gs is fs with this data under the path.
Sets(fs, gs, path, data) ==
    \E s \in Slots :
        /\ s \in Named(fs, path) \/ (Named(fs, path) = {} /\ fs[s] = NoFile)
        /\ gs = [fs EXCEPT ![s] = File(path, data)]

\* A slot in use holds the path and the data it was given.
LEMMA FileFields ==
  ASSUME NEW path, NEW data
  PROVE  File(path, data) # NoFile /\ File(path, data).path = path /\ File(path, data).data = data
BY DEF File, NoFile

\* < is well-founded on the naturals, so that Min of FiniteSetsExt is the
\* least element of a set of them that is not empty.
LEMMA MinOfNaturals ==
  ASSUME NEW S \in SUBSET Nat, S # {}
  PROVE  Min(S) \in S /\ \A y \in S : Min(S) <= y
<1> DEFINE R == OpToRel(<, Nat)
<1>1. IsWellFoundedOn(R, Nat)
  BY Zenon, NatLessThanWellFounded
<1>2. \A x, y \in Nat : y < x => <<y, x>> \in R
  BY DEF OpToRel
<1> HIDE DEF R
<1>3. PICK x \in S : \A y \in S : ~(<<y, x>> \in R)
  BY Zenon, <1>1, WFMin
<1>4. x \in Nat /\ \A y \in S : y \in Nat /\ ~(y < x)
  BY Zenon, <1>2, <1>3
<1>5. \A y \in S : x <= y
  BY <1>4
<1> QED
  BY Zenon, <1>5 DEF Min

\* lookup finds the slot of a path that has one, and else a free one.
LEMMA SlotFacts ==
  ASSUME NEW fs, NEW path, HasSlotFor(fs, path)
  PROVE  LET s == SlotFor(fs, path)
         IN  s \in Slots /\ (s \in Named(fs, path) \/ (Named(fs, path) = {} /\ fs[s] = NoFile))
<1>1. Named(fs, path) \in SUBSET Nat /\ FreeSlots(fs) \in SUBSET Nat
  BY RamfsAssumption DEF Named, FreeSlots, Slots
<1>2. CASE Named(fs, path) # {}
  BY Zenon, <1>1, <1>2, MinOfNaturals DEF SlotFor, Named
<1>3. CASE Named(fs, path) = {}
  <2>1. SlotFor(fs, path) \in FreeSlots(fs)
    BY Zenon, <1>1, <1>3, MinOfNaturals DEF SlotFor, HasSlotFor
  <2> QED
    BY Zenon, <1>3, <2>1 DEF FreeSlots
<1> QED
  BY Zenon, <1>2, <1>3

\* The file of a path is the one in its slot.
LEMMA NamedOne ==
  ASSUME NEW fs, IsTable(fs), NEW path, NEW s \in Named(fs, path)
  PROVE  Named(fs, path) = {s} /\ ramfs_path_exists(fs, path) /\ ramfs_read(fs, path) = fs[s].data
<1>1. Named(fs, path) = {s}
  BY Zenon DEF IsTable, Named
<1>2. Min({s}) = s
  <2>1. s \in Nat
    BY RamfsAssumption DEF Named, Slots
  <2>2. {s} \in SUBSET Nat /\ {s} # {}
    BY Zenon, <2>1
  <2> QED
    BY Zenon, <2>2, MinOfNaturals
<1> QED
  BY Zenon, <1>1, <1>2 DEF ramfs_path_exists, ramfs_read

\* What ramfs_read returns is text, and leaves room for the closing NUL.
LEMMA ReadIsText ==
  ASSUME NEW fs, IsTable(fs), NEW path
  PROVE  LET d == ramfs_read(fs, path)
         IN  IsSeq(d) /\ Len(d) \in Nat /\ Len(d) < RAMFS_FILE_SIZE
<1>1. CASE Named(fs, path) = {}
  <2>1. 0 < RAMFS_FILE_SIZE
    BY SessionSizes
  <2> QED
    BY Zenon, <1>1, <2>1, SeqEmpty, SeqShape DEF ramfs_read
<1>2. CASE Named(fs, path) # {}
  <2>1. PICK s : s \in Named(fs, path)
    BY Zenon, <1>2
  <2>2. ramfs_read(fs, path) = fs[s].data /\ GoodFile(fs[s])
    <3>1. ramfs_read(fs, path) = fs[s].data
      BY Zenon, <2>1, NamedOne
    <3>2. GoodFile(fs[s])
      BY Zenon, <2>1 DEF Named, IsTable
    <3> QED
      BY Zenon, <3>1, <3>2
  <2>3. PICK p, d : IsSeq(d) /\ Len(d) < RAMFS_FILE_SIZE /\ fs[s] = File(p, d)
    BY Zenon, <2>2 DEF GoodFile
  <2>4. fs[s].data = d
    BY ZenonT(60), <2>3, FileFields
  <2> QED
    BY Zenon, <2>2, <2>3, <2>4, SeqShape
<1> QED
  BY Zenon, <1>1, <1>2

\* A file that is set is read back, and no other file is touched.
LEMMA SetsFacts ==
  ASSUME NEW fs, IsTable(fs), NEW gs, NEW path, NEW data, Sets(fs, gs, path, data),
         IsSeq(data), Len(data) < RAMFS_FILE_SIZE
  PROVE  /\ IsTable(gs) /\ ChangesOnly(fs, gs, {path})
         /\ ramfs_path_exists(gs, path) /\ ramfs_read(gs, path) = data
<1>1. PICK s \in Slots :
         /\ s \in Named(fs, path) \/ (Named(fs, path) = {} /\ fs[s] = NoFile)
         /\ gs = [fs EXCEPT ![s] = File(path, data)]
  BY Zenon DEF Sets
<1>2. gs = [i \in Slots |-> gs[i]] /\ gs[s] = File(path, data) /\ \A i \in Slots : i # s => gs[i] = fs[i]
  BY Zenon, <1>1 DEF IsTable
<1>3. gs[s] # NoFile /\ gs[s].path = path /\ gs[s].data = data /\ GoodFile(gs[s])
  <2>1. gs[s] # NoFile /\ gs[s].path = path /\ gs[s].data = data
    BY <1>2, FileFields
  <2>2. GoodFile(gs[s])
    BY Zenon, <1>2 DEF GoodFile
  <2> QED
    BY Zenon, <2>1, <2>2
<1>4. \A i \in Slots : i # s /\ fs[i] # NoFile => fs[i].path # path
  <2>1. CASE s \in Named(fs, path)
    <3>1. Named(fs, path) = {s}
      BY Zenon, <2>1, NamedOne
    <3> QED
      BY Zenon, <3>1 DEF Named
  <2>2. CASE Named(fs, path) = {}
    BY Zenon, <2>2 DEF Named
  <2> QED
    BY Zenon, <1>1, <2>1, <2>2
<1>5. \A i \in Slots : gs[i] # NoFile => GoodFile(gs[i])
  BY Zenon, <1>2, <1>3 DEF IsTable
<1>6. ASSUME NEW i \in Slots, NEW j \in Slots, gs[i] # NoFile, gs[j] # NoFile, gs[i].path = gs[j].path
      PROVE  i = j
  BY Zenon, <1>2, <1>3, <1>4, <1>6 DEF IsTable
<1>7. IsTable(gs)
  BY Zenon, <1>2, <1>5, <1>6 DEF IsTable
<1>8. ChangesOnly(fs, gs, {path})
  BY Zenon, <1>1, <1>2, <1>3 DEF ChangesOnly, Named
<1>9. s \in Named(gs, path)
  BY Zenon, <1>3 DEF Named
<1> QED
  BY Zenon, <1>3, <1>7, <1>8, <1>9, NamedOne

\* The files of the paths a change is not about stay as they are, and so does
\* a table without a free slot.
LEMMA OtherFiles ==
  ASSUME NEW fs, IsTable(fs), NEW gs, IsTable(gs), NEW P, ChangesOnly(fs, gs, P), NEW path, path \notin P
  PROVE  /\ ramfs_path_exists(gs, path) = ramfs_path_exists(fs, path)
         /\ ramfs_read(gs, path) = ramfs_read(fs, path)
<1>1. \A i \in Slots : gs[i] # NoFile /\ gs[i].path = path => gs[i] = fs[i]
  BY Zenon DEF ChangesOnly
<1>2. \A i \in Slots : fs[i] # NoFile /\ fs[i].path = path => gs[i] = fs[i]
  BY Zenon DEF ChangesOnly
<1>3. Named(gs, path) = Named(fs, path)
  BY Zenon, <1>1, <1>2 DEF Named
<1>4. CASE Named(fs, path) = {}
  BY Zenon, <1>3, <1>4 DEF ramfs_path_exists, ramfs_read
<1>5. ASSUME NEW s \in Named(fs, path)
      PROVE  /\ ramfs_path_exists(gs, path) = ramfs_path_exists(fs, path)
             /\ ramfs_read(gs, path) = ramfs_read(fs, path)
  <2>1. gs[s] = fs[s]
    BY Zenon, <1>2 DEF Named
  <2>2. s \in Named(gs, path)
    BY Zenon, <1>3
  <2>3. ramfs_path_exists(fs, path) /\ ramfs_read(fs, path) = fs[s].data
    BY Zenon, NamedOne
  <2>4. ramfs_path_exists(gs, path) /\ ramfs_read(gs, path) = gs[s].data
    BY Zenon, <2>2, NamedOne
  <2> QED
    BY Zenon, <2>1, <2>3, <2>4 DEF ramfs_path_exists
<1> QED
  BY Zenon, <1>4, <1>5

\* No call frees a slot.
LEMMA NoSlotFreed ==
  ASSUME NEW fs, NEW gs, NEW P, ChangesOnly(fs, gs, P)
  PROVE  FreeSlots(gs) \subseteq FreeSlots(fs)
BY Zenon DEF ChangesOnly, FreeSlots

\* ramfs_put sets the file or does nothing.
LEMMA PutSets ==
  ASSUME NEW fs, NEW path, NEW data
  PROVE  IF PutAccepts(fs, path, data) THEN Sets(fs, ramfs_put(fs, path, data), path, data)
         ELSE ramfs_put(fs, path, data) = fs
<1>1. CASE PutAccepts(fs, path, data)
  <2>1. HasSlotFor(fs, path)
    BY Zenon, <1>1 DEF PutAccepts
  <2> QED
    BY Zenon, <1>1, <2>1, SlotFacts DEF ramfs_put, Sets
<1>2. CASE ~PutAccepts(fs, path, data)
  BY Zenon, <1>2 DEF ramfs_put
<1> QED
  BY Zenon, <1>1, <1>2

\* What is left in a file when data is written over the old contents.
Over(old, data) == data \o SubSeq(old, Len(data) + 1, Len(old))

\* ramfs_write puts new data over the start of the old.
LEMMA OverFacts ==
  ASSUME NEW old, NEW data, IsSeq(old), IsSeq(data)
  PROVE  /\ IsSeq(Over(old, data))
         /\ Len(Over(old, data)) = IF Len(old) > Len(data) THEN Len(old) ELSE Len(data)
         /\ \A i \in 1 .. Len(data) : Over(old, data)[i] = data[i]
         /\ Len(old) <= Len(data) => Over(old, data) = data
<1> DEFINE m == Len(data) + 1
           rest == SubSeq(old, m, Len(old))
<1>1. Len(old) \in Nat /\ Len(data) \in Nat
  BY Zenon, SeqShape
<1>2. m \in Nat /\ m >= 1 /\ Len(old) <= Len(old)
  BY <1>1
<1> HIDE DEF m
<1>3. IsSeq(rest) /\ Len(rest) = IF m <= Len(old) THEN Len(old) - m + 1 ELSE 0
  BY ZenonT(60), <1>1, <1>2, SeqPart
<1>4. Over(old, data) = data \o rest
  BY Zenon DEF Over, m
<1> HIDE DEF rest
<1>5. /\ IsSeq(data \o rest) /\ Len(data \o rest) = Len(data) + Len(rest)
      /\ \A i \in 1 .. Len(data) : (data \o rest)[i] = data[i]
  BY Zenon, <1>3, SeqConcat
<1>6. Len(Over(old, data)) = IF Len(old) > Len(data) THEN Len(old) ELSE Len(data)
  BY <1>1, <1>3, <1>4, <1>5 DEF m
<1>7. Len(old) <= Len(data) => Len(Over(old, data)) = Len(data)
  BY <1>1, <1>6
<1> QED
  BY Zenon, <1>4, <1>5, <1>6, <1>7, SeqSame

\* ramfs_write writes over the file or does nothing; a size it refuses it
\* refuses when the file is there.
LEMMA WriteSets ==
  ASSUME NEW fs, IsTable(fs), NEW path, NEW data
  PROVE  LET w == ramfs_write(fs, path, data)
             old == ramfs_read(fs, path)
         IN  IF Len(data) # 0 /\ HasSlotFor(fs, path) /\ ~(Len(data) >= RAMFS_FILE_SIZE)
             THEN Sets(fs, w, path, Over(old, data))
             ELSE w = fs \/ (Sets(fs, w, path, <<>>) /\ old = <<>>)
<1> DEFINE made == Lookup(fs, path)
           s    == SlotFor(fs, path)
           old  == ramfs_read(fs, path)
           w    == ramfs_write(fs, path, data)
<1>1. CASE ~(Len(data) # 0 /\ HasSlotFor(fs, path))
  BY Zenon, <1>1 DEF ramfs_write
<1>2. CASE Len(data) # 0 /\ HasSlotFor(fs, path)
  <2>1. s \in Slots /\ (s \in Named(fs, path) \/ (Named(fs, path) = {} /\ fs[s] = NoFile))
    BY Zenon, <1>2, SlotFacts
  <2>2. w = IF Len(data) >= RAMFS_FILE_SIZE THEN made
            ELSE [made EXCEPT ![s].data = data \o SubSeq(made[s].data, Len(data) + 1, Len(made[s].data))]
    BY Zenon, <1>2 DEF ramfs_write
  <2>3. ASSUME s \in Named(fs, path)
        PROVE  made = fs /\ made[s] = File(path, old)
    <3>1. made = fs
      BY Zenon, <2>3 DEF Lookup
    <3>2. old = fs[s].data
      BY Zenon, <2>3, NamedOne
    <3>3. fs[s].path = path /\ GoodFile(fs[s])
      BY Zenon, <2>3 DEF Named, IsTable
    <3>4. PICK p, d : fs[s] = File(p, d)
      BY Zenon, <3>3 DEF GoodFile
    <3> HIDE DEF made, s, old
    <3>5. fs[s] = File(path, old)
      BY <3>2, <3>3, <3>4, FileFields
    <3> QED
      BY Zenon, <3>1, <3>5
  <2>4. ASSUME Named(fs, path) = {}
        PROVE  made = [fs EXCEPT ![s] = File(path, old)] /\ old = <<>>
    BY Zenon, <2>4 DEF Lookup, ramfs_read
  <2> HIDE DEF made, s, old, w
  <2>5. made[s] = File(path, old) /\ (made = fs \/ (Sets(fs, made, path, <<>>) /\ old = <<>>))
    <3>1. CASE s \in Named(fs, path)
      BY Zenon, <2>3, <3>1
    <3>2. CASE Named(fs, path) = {} /\ fs[s] = NoFile
      <4>1. made[s] = File(path, old)
        BY Zenon, <2>1, <2>4, <3>2 DEF IsTable
      <4> QED
        BY Zenon, <2>1, <2>4, <3>2, <4>1 DEF Sets
    <3> QED
      BY Zenon, <2>1, <3>1, <3>2
  <2>6. CASE Len(data) >= RAMFS_FILE_SIZE
    BY Zenon, <2>2, <2>5, <2>6 DEF w, old
  <2>7. CASE ~(Len(data) >= RAMFS_FILE_SIZE)
    <3> DEFINE new == Over(old, data)
    <3>1. made[s].data = old
      BY <2>5, FileFields
    <3>2. w = [made EXCEPT ![s].data = new]
      BY Zenon, <2>2, <2>7, <3>1 DEF Over
    <3> HIDE DEF new
    <3>3. [made[s] EXCEPT !.data = new] = File(path, new)
      BY <2>5 DEF File
    <3>4. w = [made EXCEPT ![s] = File(path, new)]
      BY Zenon, <3>2, <3>3
    <3>5. w = [fs EXCEPT ![s] = File(path, new)]
      <4>1. CASE made = fs
        BY Zenon, <3>4, <4>1
      <4>2. CASE made = [fs EXCEPT ![s] = File(path, old)]
        BY ZenonT(60), <3>4, <4>2 DEF IsTable
      <4> QED
        BY Zenon, <2>1, <2>3, <2>4, <4>1, <4>2
    <3>6. Sets(fs, w, path, new)
      BY Zenon, <2>1, <3>5 DEF Sets
    <3> QED
      BY Zenon, <1>2, <2>7, <3>6 DEF w, new, old
  <2> QED
    BY Zenon, <2>6, <2>7
<1> QED
  BY Zenon, <1>1, <1>2

\* At most one call of ramfs_put or ramfs_write, for a path, gives gs.
OneFile(fs, path, gs) ==
    gs = fs \/ \E d : IsSeq(d) /\ (gs = ramfs_put(fs, path, d) \/ gs = ramfs_write(fs, path, d))

\* Whatever such a call does, and whether it succeeds or is refused half-way,
\* it leaves a table and the files of the other paths.
LEMMA OneFileChanges ==
  ASSUME NEW fs, IsTable(fs), NEW path, NEW gs, OneFile(fs, path, gs)
  PROVE  IsTable(gs) /\ ChangesOnly(fs, gs, {path})
<1>1. ChangesOnly(fs, fs, {path})
  BY Zenon DEF ChangesOnly
<1>2. ASSUME NEW d, IsSeq(d), gs = ramfs_put(fs, path, d)
      PROVE  IsTable(gs) /\ ChangesOnly(fs, gs, {path})
  <2>1. CASE PutAccepts(fs, path, d)
    <3>1. Len(d) < RAMFS_FILE_SIZE
      BY <2>1, SessionSizes DEF PutAccepts
    <3> QED
      BY Zenon, <1>2, <2>1, <3>1, PutSets, SetsFacts
  <2>2. CASE ~PutAccepts(fs, path, d)
    BY Zenon, <1>1, <1>2, <2>2, PutSets
  <2> QED
    BY Zenon, <2>1, <2>2
<1>3. ASSUME NEW d, IsSeq(d), gs = ramfs_write(fs, path, d)
      PROVE  IsTable(gs) /\ ChangesOnly(fs, gs, {path})
  <2> DEFINE old == ramfs_read(fs, path)
             fits == Len(d) # 0 /\ HasSlotFor(fs, path) /\ ~(Len(d) >= RAMFS_FILE_SIZE)
  <2>1. IsSeq(old) /\ Len(old) \in Nat /\ Len(old) < RAMFS_FILE_SIZE
    BY Zenon, ReadIsText
  <2>2. CASE fits
    <3>1. Sets(fs, gs, path, Over(old, d))
      BY Zenon, <1>3, <2>2, WriteSets
    <3> HIDE DEF old
    <3>2. Len(d) \in Nat /\ ~(Len(d) >= RAMFS_FILE_SIZE)
      BY Zenon, <1>3, <2>2, SeqShape
    <3>3. IsSeq(Over(old, d)) /\ Len(Over(old, d)) = IF Len(old) > Len(d) THEN Len(old) ELSE Len(d)
      BY Zenon, <1>3, <2>1, OverFacts
    <3>4. Len(Over(old, d)) < RAMFS_FILE_SIZE
      BY <2>1, <3>2, <3>3, SessionSizes
    <3> QED
      BY Zenon, <3>1, <3>3, <3>4, SetsFacts
  <2>3. CASE ~fits
    <3>1. gs = fs \/ Sets(fs, gs, path, <<>>)
      BY Zenon, <1>3, <2>3, WriteSets
    <3>2. IsSeq(<<>>) /\ Len(<<>>) < RAMFS_FILE_SIZE
      BY SeqEmpty, SessionSizes
    <3> QED
      BY Zenon, <1>1, <3>1, <3>2, SetsFacts
  <2> QED
    BY Zenon, <2>2, <2>3
<1> QED
  BY Zenon, <1>1, <1>2, <1>3 DEF OneFile

\* Changes made one after the other touch the paths of both.
LEMMA ChangesCompose ==
  ASSUME NEW fs, NEW gs, NEW hs, NEW P, NEW Q, ChangesOnly(fs, gs, P), ChangesOnly(gs, hs, Q)
  PROVE  ChangesOnly(fs, hs, P \cup Q)
<1> SUFFICES ASSUME NEW i \in Slots, hs[i] # fs[i]
             PROVE  /\ hs[i] # NoFile /\ hs[i].path \in P \cup Q
                    /\ fs[i] = NoFile \/ fs[i].path = hs[i].path
  BY Zenon DEF ChangesOnly
<1>1. CASE hs[i] = gs[i]
  BY Zenon, <1>1 DEF ChangesOnly
<1>2. CASE gs[i] = fs[i]
  BY Zenon, <1>2 DEF ChangesOnly
<1>3. CASE hs[i] # gs[i] /\ gs[i] # fs[i]
  BY Zenon, <1>3 DEF ChangesOnly
<1> QED
  BY Zenon, <1>1, <1>2, <1>3

\* The table ramfs_init sets up, with its seeded files in front.
LEMMA InitIsTable == IsTable(ramfs_init)
<1> DEFINE fs == ramfs_init
<1>1. fs = [i \in Slots |-> fs[i]] /\ \A i \in Slots : fs[i] = IF i <= Len(SysFiles) THEN SysFiles[i] ELSE NoFile
  BY Zenon DEF ramfs_init
<1>2. \A i \in Slots : i <= Len(SysFiles) => i \in DOMAIN SysFiles
  BY RamfsAssumption DEF Slots
<1>3. ASSUME NEW i \in DOMAIN SysFiles PROVE GoodFile(SysFiles[i])
  <2>1. IsSeq(SysFiles[i].data) /\ Len(SysFiles[i].data) < RAMFS_FILE_SIZE
    BY Zenon, GatewayAssumption DEF IsSeq
  <2> QED
    BY Zenon, <2>1, RamfsAssumption DEF GoodFile
<1> HIDE DEF fs
<1>4. \A i \in Slots : fs[i] # NoFile => i \in DOMAIN SysFiles /\ fs[i] = SysFiles[i]
  BY Zenon, <1>1, <1>2
<1>5. \A i, j \in DOMAIN SysFiles : SysFiles[i].path = SysFiles[j].path => i = j
  BY Zenon, GatewayAssumption
<1>6. \A i \in Slots : fs[i] # NoFile => GoodFile(fs[i])
  BY Zenon, <1>3, <1>4
<1>7. \A i, j \in Slots : fs[i] # NoFile /\ fs[j] # NoFile /\ fs[i].path = fs[j].path => i = j
  BY Zenon, <1>4, <1>5
<1> QED
  BY Zenon, <1>1, <1>6, <1>7 DEF IsTable, fs

-----------------------------------------------------------------------------
(* policy.c                                                                *)

\* The lists are within their bounds, and no tool is denied twice.
PolicyOk(p) ==
    /\ p = [deny |-> p.deny, net_allow |-> p.net_allow, net_restrict |-> p.net_restrict]
    /\ IsSeq(p.deny) /\ Len(p.deny) <= POLICY_DENY_MAX
    /\ IsSeq(p.net_allow) /\ Len(p.net_allow) <= POLICY_NET_ALLOW_MAX
    /\ \A i, j \in 1 .. Len(p.deny) : p.deny[i] = p.deny[j] => i = j

\* The elements of a list.
LEMMA RangeOfSeq ==
  ASSUME NEW d, IsSeq(d)
  PROVE  Range(d) = {d[i] : i \in 1 .. Len(d)}
BY Zenon, SeqShape DEF Range

\* An element appended to a list is added to its elements.
LEMMA RangeOfAppend ==
  ASSUME NEW d, NEW x, IsSeq(d)
  PROVE  Range(Append(d, x)) = Range(d) \cup {x}
<1> DEFINE e == Append(d, x)
<1>0. Len(d) \in Nat
  BY Zenon, SeqShape
<1>1. /\ IsSeq(e) /\ Len(e) = Len(d) + 1 /\ \A i \in 1 .. Len(d) : e[i] = d[i]
      /\ e[Len(d) + 1] = x
  BY SeqAppend
<1> HIDE DEF e
<1>2. \A i : i \in 1 .. Len(e) <=> i \in 1 .. Len(d) \/ i = Len(d) + 1
  BY <1>0, <1>1
<1>3. Range(d) = {d[i] : i \in 1 .. Len(d)} /\ Range(e) = {e[i] : i \in 1 .. Len(e)}
  BY Zenon, <1>1, RangeOfSeq
<1> QED
  BY Zenon, <1>1, <1>2, <1>3 DEF e

\* A new entry of the deny list.
LEMMA DenyEntry ==
  ASSUME NEW p, PolicyOk(p), NEW tool, tool \notin Range(p.deny), ~(Len(p.deny) >= POLICY_DENY_MAX)
  PROVE  /\ PolicyOk([p EXCEPT !.deny = Append(@, tool)])
         /\ [p EXCEPT !.deny = Append(@, tool)].deny = Append(p.deny, tool)
<1> DEFINE d == p.deny
           e == Append(d, tool)
           q == [p EXCEPT !.deny = Append(@, tool)]
<1>1. q.deny = e /\ q.net_allow = p.net_allow /\ q.net_restrict = p.net_restrict
      /\ q = [deny |-> q.deny, net_allow |-> q.net_allow, net_restrict |-> q.net_restrict]
  BY DEF PolicyOk
<1>2. IsSeq(d) /\ Len(d) \in Nat /\ Range(d) = {d[i] : i \in 1 .. Len(d)}
  BY Zenon, SeqShape, RangeOfSeq DEF PolicyOk
<1>3. /\ IsSeq(e) /\ Len(e) = Len(d) + 1 /\ \A i \in 1 .. Len(d) : e[i] = d[i]
      /\ e[Len(d) + 1] = tool
  BY ZenonT(60), <1>2, SeqAppend
<1>4. \A i \in 1 .. Len(d) : d[i] # tool
  BY Zenon, <1>2
<1>5. \A i, j \in 1 .. Len(d) : d[i] = d[j] => i = j
  BY Zenon DEF PolicyOk
<1> HIDE DEF d, e
<1>6. \A i, j \in 1 .. Len(e) : e[i] = e[j] => i = j
  BY <1>2, <1>3, <1>4, <1>5
<1>7. Len(e) <= POLICY_DENY_MAX
  BY <1>2, <1>3, GatewayAssumption DEF d
<1> HIDE DEF q
<1>8. PolicyOk(q)
  BY Zenon, <1>1, <1>3, <1>6, <1>7 DEF PolicyOk
<1> QED
  BY Zenon, <1>1, <1>8 DEF q, e, d

\* A rule to deny a tool adds it, unless it may not be denied, is there
\* already or finds the list full.
LEMMA DenyFacts ==
  ASSUME NEW p, PolicyOk(p), NEW tool
  PROVE  LET q == policy_deny_tool(p, tool).pol
         IN  /\ PolicyOk(q)
             /\ Len(p.deny) >= POLICY_DENY_MAX => q = p
             /\ IF tool \in Undeniable THEN q = p
                ELSE Range(q.deny) = Range(p.deny) \cup {tool} \/ (q = p /\ Len(p.deny) >= POLICY_DENY_MAX)
<1> DEFINE q == policy_deny_tool(p, tool).pol
<1>0. \A rc, x : Ruled(rc, x).pol = x
  BY Zenon DEF Ruled
<1>1. CASE tool \in Undeniable \/ deny_has(p, tool) \/ Len(p.deny) >= POLICY_DENY_MAX
  <2>1. q = p
    BY Zenon, <1>0, <1>1 DEF policy_deny_tool
  <2> HIDE DEF q
  <2> QED
    BY Zenon, <1>1, <2>1 DEF deny_has, q
<1>2. CASE ~(tool \in Undeniable \/ deny_has(p, tool) \/ Len(p.deny) >= POLICY_DENY_MAX)
  <2>1. q = [p EXCEPT !.deny = Append(@, tool)]
    BY Zenon, <1>0, <1>2 DEF policy_deny_tool
  <2> HIDE DEF q
  <2>2. PolicyOk(q) /\ q.deny = Append(p.deny, tool)
    BY Zenon, <1>2, <2>1, DenyEntry DEF deny_has
  <2>3. Range(q.deny) = Range(p.deny) \cup {tool}
    BY Zenon, <2>2, RangeOfAppend DEF PolicyOk
  <2> QED
    BY Zenon, <1>2, <2>2, <2>3 DEF q
<1> QED
  BY Zenon, <1>1, <1>2

\* The other rules leave the deny list alone.
LEMMA NetFacts ==
  ASSUME NEW p, PolicyOk(p), NEW x
  PROVE  /\ PolicyOk(policy_net_add_allow(p, x).pol) /\ policy_net_add_allow(p, x).pol.deny = p.deny
         /\ PolicyOk(policy_net_set_restrict(p, x).pol) /\ policy_net_set_restrict(p, x).pol.deny = p.deny
<1>0. \A rc, y : Ruled(rc, y).pol = y
  BY Zenon DEF Ruled
<1>1. /\ PolicyOk([p EXCEPT !.net_restrict = x]) /\ [p EXCEPT !.net_restrict = x].deny = p.deny
  <2> DEFINE q == [p EXCEPT !.net_restrict = x]
  <2>1. q.deny = p.deny /\ q.net_allow = p.net_allow
        /\ q = [deny |-> q.deny, net_allow |-> q.net_allow, net_restrict |-> q.net_restrict]
    BY DEF PolicyOk
  <2> HIDE DEF q
  <2>2. PolicyOk(q)
    BY Zenon, <2>1 DEF PolicyOk
  <2> QED
    BY Zenon, <2>1, <2>2 DEF q
<1>2. ASSUME ~(Len(p.net_allow) >= POLICY_NET_ALLOW_MAX)
      PROVE  /\ PolicyOk([p EXCEPT !.net_allow = Append(@, x)])
             /\ [p EXCEPT !.net_allow = Append(@, x)].deny = p.deny
  <2> DEFINE q == [p EXCEPT !.net_allow = Append(@, x)]
             e == Append(p.net_allow, x)
  <2>0. p = [deny |-> p.deny, net_allow |-> p.net_allow, net_restrict |-> p.net_restrict]
    BY Zenon DEF PolicyOk
  <2>1. q.deny = p.deny /\ q.net_allow = e
        /\ q = [deny |-> q.deny, net_allow |-> q.net_allow, net_restrict |-> q.net_restrict]
    BY SMTT(60), <2>0
  <2>2. IsSeq(e) /\ Len(e) = Len(p.net_allow) + 1 /\ Len(p.net_allow) \in Nat
    BY Zenon, SeqAppend, SeqShape DEF PolicyOk
  <2> HIDE DEF q, e
  <2>3. Len(e) <= POLICY_NET_ALLOW_MAX
    BY <1>2, <2>2, GatewayAssumption
  <2>4. PolicyOk(q)
    BY Zenon, <2>1, <2>2, <2>3 DEF PolicyOk
  <2> QED
    BY Zenon, <2>1, <2>4 DEF q
<1>3. policy_net_set_restrict(p, x).pol = [p EXCEPT !.net_restrict = x]
  BY Zenon, <1>0 DEF policy_net_set_restrict
<1>4. PolicyOk(policy_net_add_allow(p, x).pol) /\ policy_net_add_allow(p, x).pol.deny = p.deny
  <2>1. CASE x \in Range(p.net_allow) \/ Len(p.net_allow) >= POLICY_NET_ALLOW_MAX
    <3>1. policy_net_add_allow(p, x).pol = p
      BY Zenon, <1>0, <2>1 DEF policy_net_add_allow
    <3> QED
      BY Zenon, <3>1
  <2>2. CASE ~(x \in Range(p.net_allow) \/ Len(p.net_allow) >= POLICY_NET_ALLOW_MAX)
    <3>1. policy_net_add_allow(p, x).pol = [p EXCEPT !.net_allow = Append(@, x)]
      BY Zenon, <1>0, <2>2 DEF policy_net_add_allow
    <3> QED
      BY Zenon, <1>2, <2>2, <3>1
  <2> QED
    BY Zenon, <2>1, <2>2
<1> QED
  BY Zenon, <1>1, <1>3, <1>4

\* A line of a policy file: only a rule to deny a tool changes the deny list,
\* and it adds that tool unless the list is full.
DenyLine(line) == line[1] = "deny" /\ line[2] \notin Undeniable

\* policy_parse_line keeps the lists good and denies what its line names.
LEMMA LineFacts ==
  ASSUME NEW p, PolicyOk(p), NEW line
  PROVE  LET q == policy_parse_line(p, line)
         IN  /\ PolicyOk(q)
             /\ ~DenyLine(line) \/ Len(p.deny) >= POLICY_DENY_MAX => q.deny = p.deny
             /\ DenyLine(line) => \/ Range(q.deny) = Range(p.deny) \cup {line[2]}
                                  \/ q = p /\ Len(p.deny) >= POLICY_DENY_MAX
<1> DEFINE q == policy_parse_line(p, line)
<1>1. CASE line[1] = "deny"
  <2>1. q = policy_deny_tool(p, line[2]).pol
    BY Zenon, <1>1 DEF policy_parse_line
  <2>2. /\ PolicyOk(q)
        /\ Len(p.deny) >= POLICY_DENY_MAX => q = p
        /\ IF line[2] \in Undeniable THEN q = p
           ELSE \/ Range(q.deny) = Range(p.deny) \cup {line[2]}
                \/ q = p /\ Len(p.deny) >= POLICY_DENY_MAX
    BY Zenon, <2>1, DenyFacts
  <2> QED
    BY Zenon, <1>1, <2>2 DEF DenyLine
<1>2. CASE line[1] = "allow"
  <2>1. q = policy_net_add_allow(p, line[2]).pol /\ line[1] # "deny"
    BY <1>2 DEF policy_parse_line
  <2> QED
    BY ZenonT(60), <2>1, NetFacts DEF DenyLine
<1>3. CASE line[1] = "restrict"
  <2>1. q = policy_net_set_restrict(p, line[2]).pol /\ line[1] # "deny"
    BY <1>3 DEF policy_parse_line
  <2> QED
    BY Zenon, <2>1, NetFacts DEF DenyLine
<1>4. CASE line[1] # "deny" /\ line[1] # "allow" /\ line[1] # "restrict"
  <2>1. q = p
    BY <1>4 DEF policy_parse_line
  <2> QED
    BY Zenon, <1>4, <2>1 DEF DenyLine
<1> QED
  BY Zenon, <1>1, <1>2, <1>3, <1>4

\* The first entry of a tool removed: the others move up and stay distinct, so
\* that the tool is not denied any more.
LEMMA AllowFacts ==
  ASSUME NEW p, PolicyOk(p), NEW tool
  PROVE  LET q == policy_allow_tool(p, tool).pol
         IN  PolicyOk(q) /\ ~deny_has(q, tool)
<1> DEFINE d == p.deny
           at == Min({i \in DOMAIN p.deny : p.deny[i] = tool})
           closed == [i \in 1 .. Len(p.deny) - 1 |-> p.deny[IF i < at THEN i ELSE i + 1]]
           q == policy_allow_tool(p, tool).pol
<1>0. \A rc, y : Ruled(rc, y).pol = y
  BY Zenon DEF Ruled
<1>1. q = IF deny_has(p, tool) THEN [p EXCEPT !.deny = closed] ELSE p
  BY Zenon, <1>0 DEF policy_allow_tool
<1>2. CASE ~deny_has(p, tool)
  <2>1. q = p
    BY Zenon, <1>1, <1>2
  <2> QED
    BY Zenon, <1>2, <2>1
<1>3. CASE deny_has(p, tool)
  <2>1. IsSeq(d) /\ Len(d) \in Nat /\ DOMAIN d = 1 .. Len(d) /\ Range(d) = {d[i] : i \in 1 .. Len(d)}
    BY Zenon, SeqShape, RangeOfSeq DEF PolicyOk
  <2>2. at \in 1 .. Len(d) /\ d[at] = tool
    <3> DEFINE A == {i \in 1 .. Len(d) : d[i] = tool}
    <3>1. A # {} /\ A \in SUBSET Nat
      <4>1. tool \in Range(d)
        BY Zenon, <1>3 DEF deny_has
      <4>2. \A i \in 1 .. Len(d) : i \in Nat
        BY <2>1
      <4> QED
        BY Zenon, <2>1, <4>1, <4>2
    <3>2. Min(A) \in A
      BY Zenon, <3>1, MinOfNaturals
    <3> QED
      BY Zenon, <2>1, <3>2
  <2>3. \A i, j \in 1 .. Len(d) : d[i] = d[j] => i = j
    BY Zenon DEF PolicyOk
  <2>4. closed = [i \in 1 .. Len(d) - 1 |-> closed[i]]
    BY Zenon
  <2>5. \A i \in 1 .. Len(d) - 1 : closed[i] = d[IF i < at THEN i ELSE i + 1]
    BY Zenon
  <2>6. q.deny = closed /\ q.net_allow = p.net_allow
        /\ q = [deny |-> q.deny, net_allow |-> q.net_allow, net_restrict |-> q.net_restrict]
    <3>1. p = [deny |-> p.deny, net_allow |-> p.net_allow, net_restrict |-> p.net_restrict]
      BY Zenon DEF PolicyOk
    <3>2. q = [p EXCEPT !.deny = closed]
      BY Zenon, <1>1, <1>3
    <3> HIDE DEF closed, q
    <3> QED
      BY <3>1, <3>2
  <2> HIDE DEF closed, at, q
  <2>7. Len(d) - 1 \in Nat
    BY <2>1, <2>2
  <2>8. IsSeq(closed) /\ Len(closed) = Len(d) - 1
    BY Zenon, <2>4, <2>7, SeqByElements
  <2>9. \A i, j \in 1 .. Len(closed) : closed[i] = closed[j] => i = j
    <3> DEFINE up(i) == IF i < at THEN i ELSE i + 1
    <3>1. ASSUME NEW i \in 1 .. Len(closed), NEW j \in 1 .. Len(closed)
          PROVE  up(i) \in 1 .. Len(d) /\ (up(i) = up(j) => i = j) /\ up(i) # at
      BY <2>1, <2>2, <2>8
    <3>2. \A i \in 1 .. Len(closed) : closed[i] = d[up(i)]
      BY Zenon, <2>5, <2>8
    <3> HIDE DEF up, d
    <3> QED
      BY Zenon, <2>3, <3>1, <3>2
  <2>10. \A i \in 1 .. Len(closed) : closed[i] # tool
    <3> DEFINE up(i) == IF i < at THEN i ELSE i + 1
    <3>1. ASSUME NEW i \in 1 .. Len(closed)
          PROVE  up(i) \in 1 .. Len(d) /\ up(i) # at
      BY <2>1, <2>2, <2>8
    <3>2. \A i \in 1 .. Len(closed) : closed[i] = d[up(i)]
      BY Zenon, <2>5, <2>8
    <3> HIDE DEF up, d
    <3> QED
      BY Zenon, <2>2, <2>3, <3>1, <3>2
  <2>11. ~deny_has(q, tool)
    <3>1. Range(closed) = {closed[i] : i \in 1 .. Len(closed)}
      BY Zenon, <2>8, RangeOfSeq
    <3> QED
      BY Zenon, <2>6, <2>10, <3>1 DEF deny_has
  <2>12. Len(closed) <= POLICY_DENY_MAX
    <3>1. Len(d) <= POLICY_DENY_MAX
      BY Zenon DEF PolicyOk
    <3> HIDE DEF d
    <3> QED
      BY <2>1, <2>8, <3>1, GatewayAssumption
  <2>13. PolicyOk(q)
    <3>1. IsSeq(p.net_allow) /\ Len(p.net_allow) <= POLICY_NET_ALLOW_MAX
      BY Zenon DEF PolicyOk
    <3> QED
      BY Zenon, <2>6, <2>8, <2>9, <2>12, <3>1 DEF PolicyOk
  <2> QED
    BY Zenon, <2>11, <2>13 DEF q
<1> QED
  BY Zenon, <1>2, <1>3

-----------------------------------------------------------------------------
(* Loops over a text                                                       *)

\* A set of numbers with 0, and with the successor of each of its elements
\* below n, holds all numbers up to n.
LEMMA UpTo ==
  ASSUME NEW n \in Nat, NEW T, 0 \in T, \A m \in 0 .. n - 1 : m \in T => m + 1 \in T
  PROVE  \A m \in 0 .. n : m \in T
<1> DEFINE Out == {m \in 0 .. n : m \notin T}
<1> SUFFICES ASSUME Out # {} PROVE FALSE
  OBVIOUS
<1>1. Out \in SUBSET Nat
  OBVIOUS
<1>2. PICK x \in Out : \A y \in Out : x <= y
  BY Zenon, <1>1, MinOfNaturals
<1>3. x \in Nat /\ x # 0 /\ x \in 0 .. n /\ x \notin T
  BY <1>1
<1>4. x - 1 \in 0 .. n - 1 /\ x - 1 \in 0 .. n /\ ~(x <= x - 1) /\ (x - 1) + 1 = x
  BY <1>3
<1>5. x - 1 \notin Out
  BY Zenon, <1>2, <1>4
<1>6. x - 1 \in T
  BY Zenon, <1>4, <1>5
<1> QED
  BY Zenon, <1>3, <1>4, <1>6

\* A step of the loop of policy_load over the lines of a file, or of the loop
\* of line_start_at over the bytes of a log.
Loop(loop, text, m, v) ==
    IF loop = "policy_load" THEN policy_parse_line(v, text[m]) ELSE LineEnd(text, v)

\* The states of a loop up to step n.
Run(f, loop, text, x, n) ==
    f = [m \in 0 .. n |-> f[m]] /\ f[0] = x /\ \A m \in 1 .. n : f[m] = Loop(loop, text, m, f[m - 1])

\* Each loop has a run of any number of steps.
LEMMA LoopRuns ==
  ASSUME NEW loop, NEW text, NEW x, NEW n \in Nat
  PROVE  \E f : Run(f, loop, text, x, n)
<1> DEFINE T == {k \in Nat : \E f : Run(f, loop, text, x, k)}
<1>1. 0 \in T
  <2> DEFINE f == [m \in 0 .. 0 |-> x]
  <2>1. f = [m \in 0 .. 0 |-> f[m]] /\ f[0] = x /\ 1 .. 0 = {}
    OBVIOUS
  <2> HIDE DEF f
  <2>2. Run(f, loop, text, x, 0)
    BY Zenon, <2>1 DEF Run
  <2> QED
    BY Zenon, <2>2
<1>2. ASSUME NEW k \in 0 .. n - 1, k \in T PROVE k + 1 \in T
  <2>1. k \in Nat /\ k + 1 \in Nat
    OBVIOUS
  <2>2. PICK f : Run(f, loop, text, x, k)
    BY <1>2, Zenon
  <2> DEFINE g == [m \in 0 .. k + 1 |-> IF m = k + 1 THEN Loop(loop, text, k + 1, f[k]) ELSE f[m]]
  <2>3. g = [m \in 0 .. k + 1 |-> g[m]]
    BY Zenon
  <2>4. 0 \in 0 .. k + 1 /\ 0 # k + 1
    BY <2>1
  <2>5. g[0] = x
    BY Zenon, <2>2, <2>4 DEF Run
  <2>6. ASSUME NEW m \in 1 .. k + 1 PROVE g[m] = Loop(loop, text, m, g[m - 1])
    <3>1. CASE m = k + 1
      <4>1. m \in 0 .. k + 1 /\ m - 1 = k /\ k \in 0 .. k + 1 /\ k # k + 1
        BY <2>1, <3>1
      <4>2. g[k] = f[k]
        BY <4>1, Zenon
      <4> QED  BY <3>1, <4>1, <4>2, Zenon
    <3>2. CASE m # k + 1
      <4>1. m \in 1 .. k /\ m \in 0 .. k + 1 /\ m - 1 \in 0 .. k + 1 /\ m - 1 # k + 1
        BY <2>1, <3>2
      <4>2. f[m] = Loop(loop, text, m, f[m - 1])
        BY <2>2, <4>1, Zenon DEF Run
      <4>3. g[m] = f[m] /\ g[m - 1] = f[m - 1]
        BY <3>2, <4>1, Zenon
      <4> QED  BY <4>2, <4>3, Zenon
    <3> QED  BY <3>1, <3>2, Zenon
  <2> HIDE DEF g
  <2>7. Run(g, loop, text, x, k + 1)
    BY Zenon, <2>3, <2>5, <2>6 DEF Run
  <2> QED  BY Zenon, <2>1, <2>7
<1> HIDE DEF T
<1>3. \A k \in 0 .. n : k \in T
  BY Zenon, <1>1, <1>2, UpTo
<1>4. n \in 0 .. n
  OBVIOUS
<1> QED
  BY Zenon, <1>3, <1>4 DEF T

\* The recursive function of the model is such a run.
LEMMA LoadRuns ==
  ASSUME NEW p, NEW lines, IsSeq(lines)
  PROVE  \E f : /\ Run(f, "policy_load", lines, [p EXCEPT !.deny = <<>>], Len(lines))
                /\ LoadLines(p, lines) = f[Len(lines)]
<1> DEFINE x == [p EXCEPT !.deny = <<>>]
           N == Len(lines)
           Is(f) == f = [n \in 0 .. N |-> IF n = 0 THEN x ELSE policy_parse_line(f[n - 1], lines[n])]
           load == CHOOSE f : Is(f)
<1>1. LoadLines(p, lines) = load[N]
  BY Zenon DEF LoadLines
<1>2. N \in Nat
  BY Zenon, SeqShape
<1> HIDE DEF x, N
<1>3. PICK f : Run(f, "policy_load", lines, x, N)
  BY Zenon, <1>2, LoopRuns
<1>4. \A n \in 0 .. N : n = 0 \/ n \in 1 .. N
  BY <1>2
<1>5. \A n \in 0 .. N : f[n] = IF n = 0 THEN x ELSE policy_parse_line(f[n - 1], lines[n])
  BY Zenon, <1>3, <1>4 DEF Run, Loop
<1>6. Is(f)
  <2>1. f = [n \in 0 .. N |-> f[n]]
    BY Zenon, <1>3 DEF Run
  <2> QED
    BY Zenon, <1>5, <2>1
<1>7. Is(load)
  BY Zenon, <1>6
<1> HIDE DEF load
<1>8. load = [n \in 0 .. N |-> load[n]] /\ \A n \in 0 .. N : load[n] = IF n = 0 THEN x ELSE policy_parse_line(load[n - 1], lines[n])
  BY Zenon, <1>7
<1>9. 0 \in 0 .. N /\ \A n \in 1 .. N : n \in 0 .. N /\ n # 0
  BY <1>2
<1>10. Run(load, "policy_load", lines, x, N)
  BY Zenon, <1>8, <1>9 DEF Run, Loop
<1> QED
  BY Zenon, <1>1, <1>10 DEF x, N

\* The loop of line_start_at runs, and its last value is the result.
LEMMA LineRuns ==
  ASSUME NEW data, NEW n \in Nat, n # 0
  PROVE  \E f : Run(f, "line_start_at", data, 0, n) /\ line_start_at(data, n) = f[n]
<1> DEFINE Is(f) == f = [k \in 0 .. n |-> IF k = 0 THEN 0 ELSE LineEnd(data, f[k - 1])]
           start == CHOOSE f : Is(f)
<1>0. ~(n <= 0)
  OBVIOUS
<1>1. line_start_at(data, n) = start[n]
  BY Zenon, <1>0 DEF line_start_at
<1>2. \A v, k : Loop("line_start_at", data, k, v) = LineEnd(data, v)
  BY DEF Loop
<1>3. PICK f : Run(f, "line_start_at", data, 0, n)
  BY Zenon, LoopRuns
<1>4. \A k \in 0 .. n : k = 0 \/ k \in 1 .. n
  OBVIOUS
<1>5. \A k \in 0 .. n : f[k] = IF k = 0 THEN 0 ELSE LineEnd(data, f[k - 1])
  BY Zenon, <1>2, <1>3, <1>4 DEF Run
<1>6. Is(f)
  <2>1. f = [k \in 0 .. n |-> f[k]]
    BY Zenon, <1>3 DEF Run
  <2> QED
    BY Zenon, <1>5, <2>1
<1>7. Is(start)
  BY Zenon, <1>6
<1> HIDE DEF start
<1>8. start = [k \in 0 .. n |-> start[k]] /\ \A k \in 0 .. n : start[k] = IF k = 0 THEN 0 ELSE LineEnd(data, start[k - 1])
  BY Zenon, <1>7
<1>9. 0 \in 0 .. n /\ \A k \in 1 .. n : k \in 0 .. n /\ k # 0
  OBVIOUS
<1>10. Run(start, "line_start_at", data, 0, n)
  BY Zenon, <1>2, <1>8, <1>9 DEF Run
<1> QED
  BY Zenon, <1>1, <1>10

\* What a policy file denies.
NamedTools(lines) == {l[2] : l \in {k \in Range(lines) : k[1] = "deny"}} \ Undeniable

\* Loading a file: whatever the lists were, the tools denied are among those it
\* names, and are all of them unless the list is full.
LEMMA LoadFacts ==
  ASSUME NEW p, PolicyOk(p), NEW lines, IsSeq(lines)
  PROVE  LET q == LoadLines(p, lines)
         IN  /\ PolicyOk(q) /\ Range(q.deny) \subseteq NamedTools(lines)
             /\ Range(q.deny) = NamedTools(lines) \/ Len(q.deny) >= POLICY_DENY_MAX
<1> DEFINE N == Len(lines)
           x == [p EXCEPT !.deny = <<>>]
           some(k) == {lines[i][2] : i \in {j \in 1 .. k : DenyLine(lines[j])}}
           Good(q, k) == /\ PolicyOk(q) /\ Range(q.deny) \subseteq some(k)
                         /\ Range(q.deny) = some(k) \/ Len(q.deny) >= POLICY_DENY_MAX
<1>1. N \in Nat /\ Range(lines) = {lines[i] : i \in 1 .. N}
  BY Zenon, SeqShape, RangeOfSeq
<1>2. PICK f : Run(f, "policy_load", lines, x, N) /\ LoadLines(p, lines) = f[N]
  BY Zenon, LoadRuns
<1>3. Good(x, 0)
  <2>1. x.deny = <<>> /\ x.net_allow = p.net_allow
        /\ x = [deny |-> x.deny, net_allow |-> x.net_allow, net_restrict |-> x.net_restrict]
    <3>1. p = [deny |-> p.deny, net_allow |-> p.net_allow, net_restrict |-> p.net_restrict]
      BY Zenon DEF PolicyOk
    <3> QED
      BY <3>1
  <2> HIDE DEF x
  <2>2. IsSeq(x.deny) /\ Len(x.deny) = 0 /\ 0 <= POLICY_DENY_MAX /\ 1 .. 0 = {}
    BY <2>1, SeqEmpty, GatewayAssumption
  <2>3. PolicyOk(x)
    <3>1. IsSeq(p.net_allow) /\ Len(p.net_allow) <= POLICY_NET_ALLOW_MAX
      BY Zenon DEF PolicyOk
    <3> QED
      BY Zenon, <2>1, <2>2, <3>1 DEF PolicyOk
  <2>4. Range(x.deny) = {} /\ some(0) = {}
    <3>1. Range(x.deny) = {x.deny[i] : i \in 1 .. Len(x.deny)}
      BY Zenon, <2>2, RangeOfSeq
    <3> QED
      BY <2>2, <3>1
  <2> QED
    BY Zenon, <2>3, <2>4
<1>4. ASSUME NEW k \in 0 .. N - 1, Good(f[k], k) PROVE Good(f[k + 1], k + 1)
  <2>1. k + 1 \in 1 .. N /\ (k + 1) - 1 = k /\ \A j : j \in 1 .. k + 1 <=> j \in 1 .. k \/ j = k + 1
    BY <1>1
  <2>2. f[k + 1] = policy_parse_line(f[k], lines[k + 1])
    BY Zenon, <1>2, <2>1 DEF Run, Loop
  <2>3. some(k + 1) = some(k) \cup {t \in {lines[k + 1][2]} : DenyLine(lines[k + 1])}
    <3>1. \A t : t \in some(k + 1) <=> \E j \in 1 .. k + 1 : DenyLine(lines[j]) /\ t = lines[j][2]
      BY Zenon
    <3>2. \A t : t \in some(k) <=> \E j \in 1 .. k : DenyLine(lines[j]) /\ t = lines[j][2]
      BY Zenon
    <3> HIDE DEF some
    <3> QED
      BY ZenonT(60), <2>1, <3>1, <3>2
  <2> DEFINE line == lines[k + 1]
             q == f[k]
             r == f[k + 1]
             S == some(k)
             U == some(k + 1)
  <2> HIDE DEF line, q, r, S, U, some
  <2>4. PolicyOk(q) /\ Range(q.deny) \subseteq S /\ (Range(q.deny) = S \/ Len(q.deny) >= POLICY_DENY_MAX)
    BY Zenon, <1>4 DEF q, S
  <2>5. /\ PolicyOk(r)
        /\ ~DenyLine(line) \/ Len(q.deny) >= POLICY_DENY_MAX => r.deny = q.deny
        /\ DenyLine(line) => \/ Range(r.deny) = Range(q.deny) \cup {line[2]}
                             \/ r = q /\ Len(q.deny) >= POLICY_DENY_MAX
    BY Zenon, <2>2, <2>4, LineFacts DEF line, q, r
  <2>6. (DenyLine(line) => U = S \cup {line[2]}) /\ (~DenyLine(line) => U = S)
    BY Zenon, <2>3 DEF line, S, U
  <2>7. CASE ~DenyLine(line)
    BY Zenon, <2>4, <2>5, <2>6, <2>7 DEF r, U
  <2>8. CASE DenyLine(line) /\ r = q /\ Len(q.deny) >= POLICY_DENY_MAX
    BY Zenon, <2>4, <2>5, <2>6, <2>8 DEF r, U
  <2>9. CASE DenyLine(line) /\ Range(r.deny) = Range(q.deny) \cup {line[2]}
    <3>1. Range(q.deny) = S => Range(r.deny) = U
      BY Zenon, <2>6, <2>9
    <3>2. Range(r.deny) \subseteq U
      BY Zenon, <2>4, <2>6, <2>9
    <3>3. CASE Range(q.deny) = S
      BY Zenon, <2>5, <3>1, <3>2, <3>3 DEF r, U
    <3>4. CASE Len(q.deny) >= POLICY_DENY_MAX
      <4>1. Len(r.deny) >= POLICY_DENY_MAX
        BY Zenon, <2>5, <3>4
      <4> QED
        BY Zenon, <2>5, <3>2, <4>1 DEF r, U
    <3> QED
      BY Zenon, <2>4, <3>3, <3>4
  <2> QED
    BY Zenon, <2>5, <2>7, <2>8, <2>9
<1> HIDE DEF Good
<1>5. Good(f[N], N)
  <2> DEFINE T == {k \in 0 .. N : Good(f[k], k)}
  <2>1. 0 \in T
    <3>1. 0 \in 0 .. N
      BY <1>1
    <3> QED
      BY Zenon, <1>2, <1>3, <3>1 DEF Run
  <2>2. \A k \in 0 .. N - 1 : k \in T => k + 1 \in T
    <3>1. \A k \in 0 .. N - 1 : k + 1 \in 0 .. N
      BY <1>1
    <3> QED
      BY Zenon, <1>4, <3>1
  <2> HIDE DEF T
  <2>3. \A k \in 0 .. N : k \in T
    BY Zenon, <1>1, <2>1, <2>2, UpTo
  <2>4. N \in 0 .. N
    BY <1>1
  <2> QED
    BY Zenon, <2>3, <2>4 DEF T
<1>6. some(N) = NamedTools(lines)
  <2>1. \A t : t \in some(N) <=> \E j \in 1 .. N : DenyLine(lines[j]) /\ t = lines[j][2]
    BY Zenon
  <2>2. \A t : t \in NamedTools(lines) <=> \E l \in Range(lines) : l[1] = "deny" /\ t = l[2] /\ t \notin Undeniable
    BY Zenon DEF NamedTools
  <2>3. \A l : l \in Range(lines) <=> \E j \in 1 .. N : l = lines[j]
    BY Zenon, <1>1
  <2> HIDE DEF some
  <2>4. ASSUME NEW t, t \in some(N) PROVE t \in NamedTools(lines)
    <3>1. PICK j \in 1 .. N : DenyLine(lines[j]) /\ t = lines[j][2]
      BY Zenon, <2>1, <2>4
    <3> QED
      BY Zenon, <2>2, <2>3, <3>1 DEF DenyLine
  <2>5. ASSUME NEW t, t \in NamedTools(lines) PROVE t \in some(N)
    <3>1. PICK l \in Range(lines) : l[1] = "deny" /\ t = l[2] /\ t \notin Undeniable
      BY Zenon, <2>2, <2>5
    <3>2. PICK j \in 1 .. N : l = lines[j]
      BY Zenon, <2>3
    <3>3. DenyLine(lines[j]) /\ t = lines[j][2]
      BY Zenon, <3>1, <3>2 DEF DenyLine
    <3> QED
      BY Zenon, <2>1, <3>3
  <2> QED
    BY Zenon, <2>4, <2>5
<1> QED
  BY Zenon, <1>2, <1>5, <1>6 DEF Good

-----------------------------------------------------------------------------
(* session.c                                                               *)

\* The end of the line behind byte i: the first newline there is, or the last
\* byte.
LEMMA LineEndFacts ==
  ASSUME NEW d, IsSeq(d), NEW i \in 0 .. Len(d)
  PROVE  LET e == LineEnd(d, i)
         IN  /\ e \in i .. Len(d) /\ (i < Len(d) => e > i)
             /\ e \in Newlines(d) \/ e = Len(d)
             /\ \A j \in Newlines(d) : j > i => e <= j
<1> DEFINE E == {j \in Newlines(d) : j > i} \cup {Len(d)}
           e == LineEnd(d, i)
<1>1. Len(d) \in Nat /\ DOMAIN d = 1 .. Len(d)
  BY Zenon, SeqShape
<1>2. Newlines(d) \subseteq 1 .. Len(d)
  BY Zenon, <1>1 DEF Newlines
<1>3. E \in SUBSET Nat /\ E # {}
  BY <1>1, <1>2
<1>4. e \in E /\ \A j \in E : e <= j
  BY Zenon, <1>3, MinOfNaturals DEF LineEnd
<1> HIDE DEF e
<1>5. \A j \in Newlines(d) : j > i => e <= j
  BY Zenon, <1>4
<1>6. e \in Newlines(d) \/ e = Len(d)
  BY Zenon, <1>4
<1>7. e \in i .. Len(d) /\ (i < Len(d) => e > i)
  BY <1>1, <1>2, <1>4
<1> QED
  BY Zenon, <1>5, <1>6, <1>7 DEF e

\* Where lines start: within the log, and behind its first line.
LEMMA LineStarts ==
  ASSUME NEW d, IsSeq(d), NEW n \in Nat, n # 0
  PROVE  line_start_at(d, n) \in LineEnd(d, 0) .. Len(d)
<1> DEFINE first == LineEnd(d, 0)
<1>1. Len(d) \in Nat
  BY Zenon, SeqShape
<1>2. PICK f : Run(f, "line_start_at", d, 0, n) /\ line_start_at(d, n) = f[n]
  BY Zenon, LineRuns
<1>3. f[0] = 0 /\ \A m \in 1 .. n : f[m] = LineEnd(d, f[m - 1])
  BY ZenonT(60), <1>2 DEF Run, Loop
<1>4. 0 \in 0 .. Len(d)
  BY <1>1
<1>5. first \in 0 .. Len(d)
  BY Zenon, <1>4, LineEndFacts
<1> HIDE DEF first
<1> DEFINE T == {k \in 0 .. n : f[k] \in 0 .. Len(d) /\ (k # 0 => f[k] >= first)}
<1>6. 0 \in T
  BY <1>3, <1>4
<1>7. ASSUME NEW k \in 0 .. n - 1, k \in T PROVE k + 1 \in T
  <2>1. k + 1 \in 1 .. n /\ (k + 1) - 1 = k /\ k + 1 \in 0 .. n
    OBVIOUS
  <2>2. f[k] \in 0 .. Len(d) /\ (k # 0 => f[k] >= first)
    BY Zenon, <1>7
  <2>3. f[k + 1] = LineEnd(d, f[k])
    BY Zenon, <1>3, <2>1
  <2>4. f[k + 1] \in f[k] .. Len(d)
    BY Zenon, <2>2, <2>3, LineEndFacts
  <2>5. CASE k = 0
    <3>1. f[k + 1] = first
      BY Zenon, <1>3, <2>3, <2>5 DEF first
    <3> QED
      BY <1>5, <2>1, <3>1
  <2>6. CASE k # 0
    BY <1>1, <1>5, <2>1, <2>2, <2>4, <2>6
  <2> QED
    BY Zenon, <2>5, <2>6
<1> HIDE DEF T
<1>8. \A k \in 0 .. n : k \in T
  BY Zenon, <1>6, <1>7, UpTo
<1>9. n \in 0 .. n
  OBVIOUS
<1>10. f[n] \in 0 .. Len(d) /\ f[n] >= first
  BY Zenon, <1>8, <1>9 DEF T
<1> QED
  BY <1>1, <1>2, <1>5, <1>10 DEF first

\* A log is empty, or its first line and the rest are within bounds that an
\* append, which counts the old log twice, and a compaction both keep.
FirstLine(d, f) ==
    /\ f \in 1 .. Len(d) /\ d[f] = NL /\ \A j \in 1 .. f - 1 : d[j] # NL
    /\ f <= SUMMARY_MAX + 1
    /\ (Len(d) - f) + SUMMARY_MAX + 1 <= TENANT_SESSION_QUOTA

SessionOk(d) == d = <<>> \/ \E f : FirstLine(d, f)

\* Such a log is within the quota.
LEMMA SessionFits ==
  ASSUME NEW d, IsSeq(d), SessionOk(d)
  PROVE  Len(d) <= TENANT_SESSION_QUOTA
<1>1. Len(d) \in Nat
  BY Zenon, SeqShape
<1>2. CASE d = <<>>
  BY <1>2, SeqEmpty, SessionSizes
<1>3. ASSUME NEW f, FirstLine(d, f) PROVE Len(d) <= TENANT_SESSION_QUOTA
  BY <1>1, <1>3, SessionSizes DEF FirstLine
<1> QED
  BY Zenon, <1>2, <1>3 DEF SessionOk

\* The first line of a log stays its first line when more is appended.
LEMMA AppendKeepsOk ==
  ASSUME NEW old, IsSeq(old), SessionOk(old), NEW text \in Texts, text # <<>>,
         2 * Len(old) + Len(text) + 1 <= TENANT_SESSION_QUOTA
  PROVE  SessionOk(old \o Append(text, NL))
<1> DEFINE line == Append(text, NL)
           new == old \o line
           n == Len(text)
<1>1. IsSeq(text) /\ n \in Nat /\ Len(old) \in Nat
  BY Zenon, SeqShape, GatewayAssumption DEF IsSeq
<1>2. n <= SUMMARY_MAX /\ n + 2 * SUMMARY_MAX <= TENANT_SESSION_QUOTA
  BY Zenon, GatewayAssumption
<1>3. /\ IsSeq(line) /\ Len(line) = n + 1 /\ line[n + 1] = NL
  BY Zenon, <1>1, SeqAppend
<1> HIDE DEF line
<1>4. /\ IsSeq(new) /\ Len(new) = Len(old) + Len(line)
      /\ \A i \in 1 .. Len(old) : new[i] = old[i]
      /\ \A i \in 1 .. Len(line) : new[Len(old) + i] = line[i]
  BY <1>3, SeqConcat
<1>5. 2 * Len(old) + n + 1 <= TENANT_SESSION_QUOTA
  OBVIOUS
<1> HIDE DEF new, n
<1>6. CASE old = <<>>
  <2> DEFINE f == LineEnd(new, 0)
  <2>1. Len(old) = 0
    BY Zenon, <1>6, SeqEmpty
  <2>2. Len(new) = n + 1 /\ new[n + 1] = NL /\ n + 1 \in 1 .. Len(new) /\ 0 \in 0 .. Len(new) /\ 0 < Len(new)
    BY <1>1, <1>3, <1>4, <2>1
  <2>3. /\ f \in 0 .. Len(new) /\ f > 0
        /\ f \in Newlines(new) \/ f = Len(new)
        /\ \A j \in Newlines(new) : j > 0 => f <= j
    BY Zenon, <1>4, <2>2, LineEndFacts
  <2>4. DOMAIN new = 1 .. Len(new)
    BY Zenon, <1>4, SeqShape
  <2> HIDE DEF f
  <2>5. new[f] = NL
    BY Zenon, <2>2, <2>3 DEF Newlines
  <2>6. f \in 1 .. Len(new)
    BY <1>1, <2>2, <2>3
  <2>7. ASSUME NEW j \in 1 .. f - 1 PROVE new[j] # NL
    <3>1. j \in 1 .. Len(new) /\ j > 0 /\ ~(f <= j)
      BY <1>1, <2>2, <2>6
    <3> QED
      BY Zenon, <2>3, <2>4, <3>1 DEF Newlines
  <2>8. f <= SUMMARY_MAX + 1 /\ (Len(new) - f) + SUMMARY_MAX + 1 <= TENANT_SESSION_QUOTA
    BY <1>1, <1>2, <2>2, <2>6, SessionSizes
  <2> QED
    BY Zenon, <2>5, <2>6, <2>7, <2>8 DEF SessionOk, FirstLine, new, line
<1>7. ASSUME NEW f, FirstLine(old, f) PROVE SessionOk(new)
  <2>1. /\ f \in 1 .. Len(old) /\ old[f] = NL /\ \A j \in 1 .. f - 1 : old[j] # NL
        /\ f <= SUMMARY_MAX + 1
    BY Zenon, <1>7 DEF FirstLine
  <2>2. f \in 1 .. Len(new) /\ \A j \in 1 .. f - 1 : j \in 1 .. Len(old)
    BY <1>1, <1>3, <1>4, <2>1
  <2>3. new[f] = NL /\ \A j \in 1 .. f - 1 : new[j] # NL
    BY Zenon, <1>4, <2>1, <2>2
  <2>4. (Len(new) - f) + SUMMARY_MAX + 1 <= TENANT_SESSION_QUOTA
    BY <1>1, <1>2, <1>3, <1>4, <1>5, <2>1, SessionSizes
  <2> QED
    BY Zenon, <2>1, <2>2, <2>3, <2>4 DEF SessionOk, FirstLine
<1> QED
  BY Zenon, <1>6, <1>7 DEF SessionOk, new, line

\* The summary: some text without a newline, of at most SUMMARY_MAX bytes.
LEMMA SummaryFacts ==
  ASSUME NEW d, IsSeq(d), NEW start \in 0 .. Len(d)
  PROVE  LET s == Summary(d, start)
         IN  /\ IsSeq(s) /\ Len(s) = IF 1 + start < SUMMARY_MAX THEN 1 + start ELSE SUMMARY_MAX
             /\ \A i \in 1 .. Len(s) : s[i] # NL
<1> DEFINE g == [i \in 1 .. start |-> IF d[i] = NL THEN SEMI ELSE d[i]]
           text == <<SUMMARY>> \o g
           n == IF Len(text) < SUMMARY_MAX THEN Len(text) ELSE SUMMARY_MAX
           s == Summary(d, start)
<1>1. start \in Nat
  BY SeqShape
<1>2. g = [i \in 1 .. start |-> g[i]] /\ \A i \in 1 .. start : g[i] # NL
  BY Zenon, SessionSizes
<1> HIDE DEF g
<1>3. IsSeq(g) /\ Len(g) = start
  BY Zenon, <1>1, <1>2, SeqByElements
<1>4. IsSeq(<<SUMMARY>>) /\ Len(<<SUMMARY>>) = 1 /\ <<SUMMARY>>[1] = SUMMARY
  BY Zenon, SeqOne
<1>5. /\ IsSeq(text) /\ Len(text) = 1 + start
      /\ \A i \in 1 .. 1 : text[i] = <<SUMMARY>>[i]
      /\ \A i \in 1 .. start : text[1 + i] = g[i]
  BY <1>3, <1>4, SeqConcat
<1>6. s = SubSeq(text, 1, n)
  BY Zenon DEF Summary, g
<1> HIDE DEF text, s
<1>7. n \in Nat /\ n <= Len(text) /\ n >= 1
  BY <1>1, <1>5, SessionSizes
<1>8. n = IF 1 + start < SUMMARY_MAX THEN 1 + start ELSE SUMMARY_MAX
  BY Zenon, <1>5
<1> HIDE DEF n
<1>9. 1 \in Nat /\ 1 >= 1 /\ n - 1 + 1 = n /\ (1 <= n) /\ \A i \in 1 .. n : 1 + i - 1 = i
  BY <1>7
<1>10. /\ IsSeq(s) /\ Len(s) = n /\ \A i \in 1 .. n : s[i] = text[i]
  <2>1. /\ IsSeq(SubSeq(text, 1, n)) /\ Len(SubSeq(text, 1, n)) = IF 1 <= n THEN n - 1 + 1 ELSE 0
        /\ \A i \in 1 .. n - 1 + 1 : SubSeq(text, 1, n)[i] = text[1 + i - 1]
    BY <1>5, <1>7, <1>9, SeqPart
  <2> QED
    BY Zenon, <1>6, <1>9, <2>1
<1>11. ASSUME NEW i \in 1 .. n PROVE text[i] # NL
  <2>1. CASE i = 1
    <3>1. text[i] = SUMMARY
      BY <1>4, <1>5, <2>1
    <3> QED
      BY Zenon, <3>1, SessionSizes
  <2>2. CASE i # 1
    <3>1. i - 1 \in 1 .. start /\ 1 + (i - 1) = i
      BY <1>1, <1>5, <1>7, <2>2
    <3> QED
      BY ZenonT(60), <1>2, <1>5, <3>1
  <2> QED
    BY Zenon, <2>1, <2>2
<1> QED
  BY Zenon, <1>8, <1>10, <1>11 DEF s

\* A compaction may lengthen the log, and keeps it within its bounds: the new
\* first line is the summary, and what is behind it has not grown.
LEMMA CompactKeepsOk ==
  ASSUME NEW d, IsSeq(d), d # <<>>, SessionOk(d), NEW n \in Nat, n # 0
  PROVE  LET start == line_start_at(d, n)
             new == Summary(d, start) \o <<NL>> \o SubSeq(d, start + 1, Len(d))
         IN  /\ IsSeq(new) /\ Len(new) # 0 /\ ~(Len(new) >= RAMFS_FILE_SIZE)
             /\ SessionOk(Over(d, new))
<1> DEFINE start == line_start_at(d, n)
           s == Summary(d, start)
           rest == SubSeq(d, start + 1, Len(d))
           top == s \o <<NL>>
           new == top \o rest
           e == Over(d, new)
<1>1. Len(d) \in Nat /\ DOMAIN d = 1 .. Len(d)
  BY Zenon, SeqShape
<1>2. PICK f : FirstLine(d, f)
  BY Zenon DEF SessionOk
<1>3. f \in 1 .. Len(d) /\ d[f] = NL /\ (\A j \in 1 .. f - 1 : d[j] # NL)
  BY Zenon, <1>2 DEF FirstLine
<1>31. f <= SUMMARY_MAX + 1 /\ (Len(d) - f) + SUMMARY_MAX + 1 <= TENANT_SESSION_QUOTA
  BY Zenon, <1>2 DEF FirstLine
<1>32. /\ SUMMARY_MAX \in Nat /\ RAMFS_FILE_SIZE \in Nat /\ TENANT_SESSION_QUOTA \in Nat
       /\ TENANT_SESSION_QUOTA < RAMFS_FILE_SIZE
  BY SessionSizes
<1>34. Len(d) \in Nat
  BY Zenon, <1>1
<1>33. f \in Nat /\ f >= 1 /\ f <= Len(d)
  BY <1>1, <1>3
<1>4. start \in f .. Len(d)
  <2> DEFINE l == LineEnd(d, 0)
  <2>1. 0 \in 0 .. Len(d) /\ 0 < Len(d)
    BY <1>1, <1>3
  <2>2. l \in 0 .. Len(d) /\ l > 0 /\ (l \in Newlines(d) \/ l = Len(d))
    BY Zenon, <2>1, LineEndFacts
  <2>22. l \in 0 .. Len(d) /\ l > 0
    BY Zenon, <2>2
  <2>3. start \in l .. Len(d)
    BY Zenon, LineStarts
  <2> HIDE DEF l, start
  <2>4. l >= f
    <3> SUFFICES ASSUME ~(l >= f) PROVE FALSE
      OBVIOUS
    <3>1. l \in 1 .. f - 1 /\ l # Len(d)
      BY <1>34, <1>33, <2>22
    <3> QED
      BY Zenon, <1>3, <2>2, <3>1 DEF Newlines
  <2>5. l \in Nat
    BY <1>34, <2>22
  <2> QED
    BY <1>1, <1>33, <2>3, <2>4, <2>5
<1> HIDE DEF start
<1>5. start \in 0 .. Len(d) /\ start + 1 \in Nat /\ start + 1 >= 1 /\ Len(d) <= Len(d) /\ start \in Nat
  BY <1>1, <1>33, <1>4
<1>6. /\ IsSeq(s) /\ Len(s) = IF 1 + start < SUMMARY_MAX THEN 1 + start ELSE SUMMARY_MAX
      /\ \A i \in 1 .. Len(s) : s[i] # NL
  BY Zenon, <1>5, SummaryFacts
<1>7. IsSeq(rest) /\ Len(rest) = IF start + 1 <= Len(d) THEN Len(d) - (start + 1) + 1 ELSE 0
  BY Zenon, <1>1, <1>5, SeqPart
<1>8. IsSeq(<<NL>>) /\ Len(<<NL>>) = 1 /\ <<NL>>[1] = NL
  BY Zenon, SeqOne
<1> HIDE DEF s, rest
<1>9. /\ IsSeq(top) /\ Len(top) = Len(s) + 1
      /\ \A i \in 1 .. Len(s) : top[i] = s[i]
      /\ \A i \in 1 .. 1 : top[Len(s) + i] = <<NL>>[i]
  BY <1>6, <1>8, SeqConcat
<1> HIDE DEF top
<1>10. /\ IsSeq(new) /\ Len(new) = Len(top) + Len(rest)
       /\ \A i \in 1 .. Len(top) : new[i] = top[i]
  BY <1>7, <1>9, SeqConcat
<1> HIDE DEF new
<1>11. /\ IsSeq(e) /\ Len(e) = IF Len(d) > Len(new) THEN Len(d) ELSE Len(new)
       /\ \A i \in 1 .. Len(new) : e[i] = new[i]
  BY Zenon, <1>10, OverFacts
<1> HIDE DEF e
<1> DEFINE f2 == Len(top)
<1>12. /\ Len(s) \in Nat /\ Len(rest) = Len(d) - start /\ f2 = Len(s) + 1 /\ Len(new) = f2 + (Len(d) - start)
       /\ f2 <= SUMMARY_MAX + 1 /\ f2 >= f
  <2>1. Len(s) = IF 1 + start < SUMMARY_MAX THEN 1 + start ELSE SUMMARY_MAX
    BY Zenon, <1>6
  <2>2. Len(top) = Len(s) + 1 /\ Len(new) = Len(top) + Len(rest)
    BY Zenon, <1>9, <1>10
  <2>3. Len(s) \in Nat /\ Len(s) <= SUMMARY_MAX /\ Len(s) + 1 >= f
    BY <1>1, <1>31, <1>32, <1>33, <1>4, <1>5, <2>1
  <2>4. Len(rest) = Len(d) - start
    <3>1. Len(rest) = IF start + 1 <= Len(d) THEN Len(d) - (start + 1) + 1 ELSE 0
      BY Zenon, <1>7
    <3> QED
      BY <1>34, <1>5, <3>1
  <2> QED
    BY <1>32, <2>2, <2>3, <2>4
<1> HIDE DEF f2
<1>13. /\ f2 \in 1 .. Len(e) /\ f2 \in 1 .. Len(top) /\ f2 \in 1 .. Len(new)
       /\ (Len(e) - f2) + SUMMARY_MAX + 1 <= TENANT_SESSION_QUOTA
       /\ Len(new) # 0 /\ ~(Len(new) >= RAMFS_FILE_SIZE)
  <2>1. f2 \in Nat /\ Len(top) = f2
    BY <1>12 DEF f2
  <2>2. Len(e) = IF Len(d) > Len(new) THEN Len(d) ELSE Len(new)
    BY Zenon, <1>11
  <2> QED
    BY SMTT(60), <1>1, <1>31, <1>32, <1>33, <1>4, <1>5, <1>12, <2>1, <2>2
<1>14. e[f2] = NL
  <2>1. top[Len(s) + 1] = NL
    BY <1>8, <1>9
  <2> QED
    BY Zenon, <1>10, <1>11, <1>12, <1>13, <2>1
<1>15. ASSUME NEW j \in 1 .. f2 - 1 PROVE e[j] # NL
  <2>1. j \in 1 .. Len(s) /\ j \in 1 .. Len(top) /\ j \in 1 .. Len(new)
    BY <1>12, <1>13 DEF f2
  <2> QED
    BY Zenon, <1>6, <1>9, <1>10, <1>11, <2>1
<1>16. FirstLine(e, f2)
  BY Zenon, <1>12, <1>13, <1>14, <1>15 DEF FirstLine
<1> QED
  BY Zenon, <1>10, <1>13, <1>16 DEF SessionOk, e, new, top, s, rest, start

-----------------------------------------------------------------------------
(* audit.c                                                                 *)

\* Two sequences end with the same n elements.
LastSame(u, v, n) ==
    /\ n <= Len(u) /\ n <= Len(v)
    /\ \A k \in 0 .. n - 1 : u[Len(u) - k] = v[Len(v) - k]

\* A log with m lines of mark in front of its lines, which are the newest calls.
LogOk(log, t, m) ==
    (m = 1 => IsMark(log[1])) /\ Len(log) - m >= 1 /\ LastSame(log, t, Len(log) - m)

\* The log of agent a, to which the calls t were given: a log that is there
\* holds the newest of them, and is not there only if none were given or ramfs
\* had no slot for it.
AuditOk(fs, a, t) ==
    LET path == audit_path_for(a)
        log  == ramfs_read(fs, path)
    IN  /\ IsSeq(t) /\ Len(t) <= AUDIT_QUOTA_BYTES /\ \A i \in 1 .. Len(t) : ~IsMark(t[i])
        /\ Len(log) <= AUDIT_QUOTA_BYTES
        /\ IF ramfs_path_exists(fs, path) THEN \E m \in {0, 1} : LogOk(log, t, m)
           ELSE t = <<>> \/ FreeSlots(fs) = {}

\* A change of other files keeps the log.
LEMMA AuditKept ==
  ASSUME NEW fs, IsTable(fs), NEW gs, IsTable(gs), NEW P, ChangesOnly(fs, gs, P),
         NEW a, audit_path_for(a) \notin P, NEW t, AuditOk(fs, a, t)
  PROVE  AuditOk(gs, a, t)
<1> DEFINE path == audit_path_for(a)
<1>1. ramfs_path_exists(gs, path) = ramfs_path_exists(fs, path) /\ ramfs_read(gs, path) = ramfs_read(fs, path)
  BY OtherFiles
<1>2. FreeSlots(gs) \subseteq FreeSlots(fs)
  BY Zenon, NoSlotFreed
<1> HIDE DEF path
<1> QED
  BY Zenon, <1>1, <1>2 DEF AuditOk, path

\* The calls given to tool_audit_log, of which the newest are remembered.
Given(t, x) ==
    LET all == Append(t, x) IN IF Len(all) > AUDIT_QUOTA_BYTES THEN Tail(all) ELSE all

\* The trail with a call more, its oldest dropped when it is full.
LEMMA GivenFacts ==
  ASSUME NEW t, IsSeq(t), Len(t) <= AUDIT_QUOTA_BYTES, NEW x
  PROVE  /\ IsSeq(Given(t, x)) /\ Len(Given(t, x)) <= AUDIT_QUOTA_BYTES
         /\ Len(Given(t, x)) = IF Len(t) < AUDIT_QUOTA_BYTES THEN Len(t) + 1 ELSE AUDIT_QUOTA_BYTES
         /\ LastSame(Given(t, x), Append(t, x), Len(Given(t, x)))
<1> DEFINE all == Append(t, x)
           g == Given(t, x)
           Q == AUDIT_QUOTA_BYTES
<1>1. Len(t) \in Nat /\ IsSeq(all) /\ Len(all) = Len(t) + 1
  BY SeqShape, SeqAppend
<1>2. Q \in Nat /\ Q >= 1
  BY AuditSizes
<1> HIDE DEF all
<1>3. CASE ~(Len(all) > Q)
  <2>1. g = all
    BY Zenon, <1>3 DEF Given, all
  <2>2. Len(all) = (IF Len(t) < Q THEN Len(t) + 1 ELSE Q) /\ Len(all) <= Q /\ Len(all) <= Len(all)
    BY <1>1, <1>2, <1>3
  <2> QED
    BY Zenon, <1>1, <2>1, <2>2 DEF LastSame, all
<1>4. CASE Len(all) > Q
  <2> HIDE DEF Q
  <2>1. Len(all) = Q + 1 /\ Len(t) = Q
    BY <1>1, <1>2, <1>4 DEF Q
  <2>2. g = Tail(all)
    BY Zenon, <1>4 DEF Given, all, Q
  <2>3. IsSeq(Tail(all)) /\ Len(Tail(all)) = Q /\ \A i \in 1 .. Q : Tail(all)[i] = all[i + 1]
    <3>1. PICK S : all \in Seq(S)
      BY Zenon, <1>1 DEF IsSeq
    <3>2. all # <<>>
      BY <1>2, <2>1
    <3>3. Tail(all) \in Seq(S) /\ Len(Tail(all)) = Len(all) - 1
      BY <3>1, <3>2
    <3>4. \A i \in 1 .. Q : Tail(all)[i] = all[i + 1]
      BY <1>2, <2>1, <3>1, <3>2
    <3> QED
      BY <1>2, <2>1, <3>3, <3>4 DEF IsSeq
  <2>4. LastSame(Tail(all), all, Q)
    <3>1. Q <= Len(Tail(all)) /\ Q <= Len(all)
      BY <1>2, <2>1, <2>3
    <3>2. ASSUME NEW k \in 0 .. Q - 1 PROVE Tail(all)[Len(Tail(all)) - k] = all[Len(all) - k]
      <4>1. Q - k \in 1 .. Q /\ (Q - k) + 1 = (Q + 1) - k
        BY <1>2
      <4> QED
        BY Zenon, <2>1, <2>3, <4>1
    <3> QED
      BY Zenon, <3>1, <3>2 DEF LastSame
  <2>5. ~(Len(t) < Q) /\ Q <= Q
    BY <1>2, <2>1
  <2> QED
    BY Zenon, <2>2, <2>3, <2>4, <2>5 DEF all, Q
<1> QED
  BY Zenon, <1>3, <1>4

\* A line written to both ends both.
LEMMA BothEnd ==
  ASSUME NEW u, NEW v, IsSeq(u), IsSeq(v), NEW n \in Nat, LastSame(u, v, n), NEW x
  PROVE  LastSame(Append(u, x), Append(v, x), n + 1)
<1> DEFINE p == Append(u, x)
           q == Append(v, x)
<1>1. Len(u) \in Nat /\ Len(v) \in Nat /\ n <= Len(u) /\ n <= Len(v)
  BY Zenon, SeqShape DEF LastSame
<1>2. Len(p) = Len(u) + 1 /\ p[Len(u) + 1] = x /\ \A i \in 1 .. Len(u) : p[i] = u[i]
  BY SeqAppend
<1>3. Len(q) = Len(v) + 1 /\ q[Len(v) + 1] = x /\ \A i \in 1 .. Len(v) : q[i] = v[i]
  BY SeqAppend
<1> HIDE DEF p, q
<1>4. n + 1 <= Len(p) /\ n + 1 <= Len(q)
  BY <1>1, <1>2, <1>3
<1>5. ASSUME NEW k \in 0 .. (n + 1) - 1 PROVE p[Len(p) - k] = q[Len(q) - k]
  <2>1. CASE k = 0
    <3>1. (Len(u) + 1) - k = Len(u) + 1 /\ (Len(v) + 1) - k = Len(v) + 1
      BY <1>1, <2>1
    <3> QED
      BY Zenon, <1>2, <1>3, <3>1
  <2>2. CASE k # 0
    <3>1. /\ k - 1 \in 0 .. n - 1
          /\ Len(u) - (k - 1) \in 1 .. Len(u) /\ (Len(u) + 1) - k = Len(u) - (k - 1)
          /\ Len(v) - (k - 1) \in 1 .. Len(v) /\ (Len(v) + 1) - k = Len(v) - (k - 1)
      BY <1>1, <2>2
    <3>2. u[Len(u) - (k - 1)] = v[Len(v) - (k - 1)]
      BY Zenon, <3>1 DEF LastSame
    <3> QED
      BY Zenon, <1>2, <1>3, <3>1, <3>2
  <2> QED
    BY Zenon, <2>1, <2>2
<1> QED
  BY Zenon, <1>4, <1>5 DEF LastSame, p, q

\* What ends like a sequence that ends like a third ends like the third.
LEMMA EndsCompose ==
  ASSUME NEW u, NEW v, NEW w, NEW n \in Nat, NEW m \in Nat, n <= m, LastSame(u, v, n), LastSame(v, w, m), Len(w) \in Nat
  PROVE  LastSame(u, w, n)
<1>1. n <= Len(u) /\ n <= Len(v) /\ m <= Len(v) /\ m <= Len(w)
  BY Zenon DEF LastSame
<1>2. n <= Len(w)
  BY <1>1
<1>3. ASSUME NEW k \in 0 .. n - 1 PROVE u[Len(u) - k] = w[Len(w) - k]
  <2>1. k \in 0 .. m - 1
    OBVIOUS
  <2> QED
    BY Zenon, <2>1 DEF LastSame
<1> QED
  BY Zenon, <1>1, <1>2, <1>3 DEF LastSame

\* So a call written to the log of an agent and given to its trail.
LEMMA LineEnds ==
  ASSUME NEW log, IsSeq(log), NEW t, IsSeq(t), Len(t) <= AUDIT_QUOTA_BYTES,
         NEW n \in Nat, LastSame(log, t, n), n + 1 <= AUDIT_QUOTA_BYTES, NEW x
  PROVE  LastSame(Append(log, x), Given(t, x), n + 1)
<1> DEFINE u == Append(log, x)
           v == Append(t, x)
           w == Given(t, x)
<1>1. n + 1 \in Nat /\ Len(t) \in Nat /\ n <= Len(t) /\ AUDIT_QUOTA_BYTES \in Nat
  BY SeqShape, AuditSizes DEF LastSame
<1>2. LastSame(u, v, n + 1)
  BY Zenon, BothEnd
<1>3. Len(w) = (IF Len(t) < AUDIT_QUOTA_BYTES THEN Len(t) + 1 ELSE AUDIT_QUOTA_BYTES) /\ LastSame(w, v, Len(w))
  BY Zenon, GivenFacts
<1>4. Len(v) = Len(t) + 1
  BY SeqAppend
<1> HIDE DEF u, v, w
<1>5. Len(w) \in Nat /\ n + 1 <= Len(w) /\ Len(v) \in Nat
  BY <1>1, <1>3, <1>4
<1>6. LastSame(v, w, Len(w))
  <2>1. Len(w) <= Len(w) /\ Len(w) <= Len(v)
    BY <1>1, <1>3, <1>4, <1>5
  <2> QED
    BY Zenon, <1>3, <2>1 DEF LastSame
<1>7. LastSame(u, w, n + 1)
  BY Zenon, <1>1, <1>2, <1>5, <1>6, EndsCompose
<1> QED
  BY Zenon, <1>7 DEF u, w

\* The length of a log is what audit_usage measures: the log is not there or
\* not empty.  A line is written if the log has room and ramfs a slot.
LEMMA AuditWriteIs ==
  ASSUME NEW fs, IsTable(fs), NEW a, NEW line,
         ramfs_path_exists(fs, audit_path_for(a)) => Len(ramfs_read(fs, audit_path_for(a))) # 0
  PROVE  LET path == audit_path_for(a)
             log  == ramfs_read(fs, path)
             r    == audit_write(fs, a, line)
         IN  IF Len(log) + 1 <= AUDIT_QUOTA_BYTES /\ HasSlotFor(fs, path)
             THEN r.rc = "OK" /\ Sets(fs, r.files, path, Append(log, line))
             ELSE r.rc = "ENOSPC" /\ r.files = fs
<1> DEFINE path == audit_path_for(a)
           log  == ramfs_read(fs, path)
           new  == Append(log, line)
           r    == audit_write(fs, a, line)
<1>1. IsSeq(log) /\ Len(log) \in Nat
  BY Zenon, ReadIsText
<1>2. Len(new) = Len(log) + 1
  BY <1>1, SeqAppend
<1>3. audit_usage(fs, a) = Len(log)
  <2>1. CASE ramfs_path_exists(fs, path)
    BY Zenon, <2>1 DEF audit_usage, FileSize
  <2>2. CASE ~ramfs_path_exists(fs, path)
    <3>1. log = <<>> /\ audit_usage(fs, a) = 0
      BY Zenon, <2>2 DEF audit_usage, FileSize, ramfs_read, ramfs_path_exists
    <3> QED
      BY Zenon, <3>1, SeqEmpty
  <2> QED
    BY Zenon, <2>1, <2>2
<1>4. PutAccepts(fs, path, new) <=> Len(new) \in 1 .. RAMFS_FILE_SIZE - 1 /\ HasSlotFor(fs, path)
  BY Zenon DEF PutAccepts
<1>5. Len(log) + 1 <= AUDIT_QUOTA_BYTES => Len(log) + 1 \in 1 .. RAMFS_FILE_SIZE - 1
  BY <1>1, AuditSizes, SessionSizes
<1>6. audit_allow_append(fs, a, 1) <=> Len(log) + 1 <= AUDIT_QUOTA_BYTES
  BY Zenon, <1>3 DEF audit_allow_append
<1>7. r = IF ~audit_allow_append(fs, a, 1) \/ ~PutAccepts(fs, path, new)
          THEN Result("ENOSPC", fs) ELSE Result("OK", ramfs_put(fs, path, new))
  BY Zenon DEF audit_write
<1>8. \A rc, gs : Result(rc, gs).rc = rc /\ Result(rc, gs).files = gs
  BY Zenon DEF Result
<1>9. PutAccepts(fs, path, new) => Sets(fs, ramfs_put(fs, path, new), path, new)
  BY Zenon, PutSets
<1> HIDE DEF r, new, log, path
<1>10. IF Len(log) + 1 <= AUDIT_QUOTA_BYTES /\ HasSlotFor(fs, path)
       THEN r.rc = "OK" /\ Sets(fs, r.files, path, new)
       ELSE r.rc = "ENOSPC" /\ r.files = fs
  <2>1. CASE Len(log) + 1 <= AUDIT_QUOTA_BYTES /\ HasSlotFor(fs, path)
    <3>1. r = Result("OK", ramfs_put(fs, path, new)) /\ PutAccepts(fs, path, new)
      BY Zenon, <1>2, <1>4, <1>5, <1>6, <1>7, <2>1
    <3> QED
      BY Zenon, <1>8, <1>9, <2>1, <3>1
  <2>2. CASE ~(Len(log) + 1 <= AUDIT_QUOTA_BYTES /\ HasSlotFor(fs, path))
    <3>1. r = Result("ENOSPC", fs)
      BY Zenon, <1>4, <1>6, <1>7, <2>2
    <3> QED
      BY Zenon, <1>8, <2>2, <3>1
  <2> QED
    BY Zenon, <2>1, <2>2
<1> QED
  BY Zenon, <1>10 DEF r, new, log, path

\* A compaction of a log with more lines than are kept sets the mark and the
\* newest lines.
LEMMA CompactIs ==
  ASSUME NEW fs, IsTable(fs), NEW a, NEW keep \in Nat,
         ~(Len(ramfs_read(fs, audit_path_for(a))) <= Kept(keep))
  PROVE  LET path == audit_path_for(a)
             log  == ramfs_read(fs, path)
         IN  \E new : /\ Sets(fs, audit_compact(fs, a, keep).files, path, new)
                      /\ IsSeq(new) /\ Len(new) = Kept(keep) + 1 /\ IsMark(new[1])
                      /\ LastSame(new, log, Kept(keep))
<1> DEFINE path == audit_path_for(a)
           log  == ramfs_read(fs, path)
           K    == Kept(keep)
           from == Len(log) - K + 1
           part == SubSeq(log, from, Len(log))
           new  == <<Mark(K)>> \o part
<1>1. IsSeq(log) /\ Len(log) \in Nat /\ Len(log) < RAMFS_FILE_SIZE
  BY Zenon, ReadIsText
<1>2. K \in Nat /\ K >= 1
  BY AuditSizes DEF Kept
<1>3. audit_compact(fs, a, keep).files = ramfs_put(fs, path, new)
  BY Zenon DEF audit_compact, Result
<1> HIDE DEF K, log
<1>4. K < Len(log)
  BY <1>1, <1>2 DEF K, log
<1>5. from \in Nat /\ from >= 1 /\ Len(log) <= Len(log) /\ from <= Len(log) /\ Len(log) - from + 1 = K
  BY <1>1, <1>2, <1>4
<1> HIDE DEF from
<1>6. /\ IsSeq(part) /\ Len(part) = K
      /\ \A i \in 1 .. K : part[i] = log[from + i - 1]
  <2>1. /\ IsSeq(part) /\ Len(part) = IF from <= Len(log) THEN Len(log) - from + 1 ELSE 0
        /\ \A i \in 1 .. Len(log) - from + 1 : part[i] = log[from + i - 1]
    BY <1>1, <1>5, SeqPart
  <2> QED
    BY Zenon, <1>5, <2>1
<1>7. IsSeq(<<Mark(K)>>) /\ Len(<<Mark(K)>>) = 1 /\ <<Mark(K)>>[1] = Mark(K)
  BY Zenon, SeqOne
<1> HIDE DEF part
<1>8. /\ IsSeq(new) /\ Len(new) = 1 + K
      /\ \A i \in 1 .. 1 : new[i] = <<Mark(K)>>[i]
      /\ \A i \in 1 .. K : new[1 + i] = part[i]
  BY <1>6, <1>7, SeqConcat
<1> HIDE DEF new
<1>9. IsMark(new[1])
  <2>1. new[1] = Mark(K)
    BY <1>7, <1>8
  <2>2. Mark(K)[1] = "compact"
    BY DEF Mark
  <2> QED
    BY Zenon, <2>1, <2>2 DEF IsMark
<1>10. LastSame(new, log, K)
  <2>1. K <= Len(new) /\ K <= Len(log)
    BY <1>1, <1>2, <1>4, <1>8
  <2>2. ASSUME NEW k \in 0 .. K - 1 PROVE new[Len(new) - k] = log[Len(log) - k]
    <3>1. K - k \in 1 .. K /\ 1 + (K - k) = Len(new) - k /\ from + (K - k) - 1 = Len(log) - k
      BY <1>1, <1>2, <1>8 DEF from
    <3>2. new[1 + (K - k)] = part[K - k] /\ part[K - k] = log[from + (K - k) - 1]
      BY Zenon, <1>6, <1>8, <3>1
    <3> QED
      BY Zenon, <3>1, <3>2
  <2> QED
    BY Zenon, <2>1, <2>2 DEF LastSame
<1>11. Named(fs, path) # {}
  <2>1. log # <<>>
    BY <1>2, <1>4, SeqEmpty
  <2> QED
    BY Zenon, <2>1 DEF ramfs_read, log
<1>12. PutAccepts(fs, path, new)
  <2>1. Len(new) \in 1 .. RAMFS_FILE_SIZE - 1
    BY <1>1, <1>2, <1>4, <1>8, SessionSizes
  <2> QED
    BY Zenon, <1>11, <2>1 DEF PutAccepts, HasSlotFor
<1>13. Sets(fs, audit_compact(fs, a, keep).files, path, new)
  BY Zenon, <1>3, <1>12, PutSets
<1>14. Len(new) = K + 1
  BY <1>2, <1>8
<1> QED
  BY Zenon, <1>8, <1>9, <1>10, <1>13, <1>14 DEF K, log

\* A log that is set to the newest calls.
LEMMA AuditSetOk ==
  ASSUME NEW fs, IsTable(fs), NEW gs, NEW a, NEW new, Sets(fs, gs, audit_path_for(a), new),
         IsSeq(new), Len(new) <= AUDIT_QUOTA_BYTES,
         NEW t, IsSeq(t), Len(t) <= AUDIT_QUOTA_BYTES, \A i \in 1 .. Len(t) : ~IsMark(t[i]),
         NEW m \in {0, 1}, LogOk(new, t, m)
  PROVE  IsTable(gs) /\ ChangesOnly(fs, gs, {audit_path_for(a)}) /\ AuditOk(gs, a, t)
<1> DEFINE path == audit_path_for(a)
<1>1. Len(new) < RAMFS_FILE_SIZE
  BY SeqShape, AuditSizes, SessionSizes
<1>2. IsTable(gs) /\ ChangesOnly(fs, gs, {path}) /\ ramfs_path_exists(gs, path) /\ ramfs_read(gs, path) = new
  BY ZenonT(60), <1>1, SetsFacts
<1> QED
  BY Zenon, <1>2 DEF AuditOk

\* A compaction keeps the newest calls.
LEMMA AuditCompactOk ==
  ASSUME NEW fs, IsTable(fs), NEW a, NEW keep \in Nat, NEW t, AuditOk(fs, a, t)
  PROVE  LET gs == audit_compact(fs, a, keep).files
         IN  IsTable(gs) /\ ChangesOnly(fs, gs, {audit_path_for(a)}) /\ AuditOk(gs, a, t)
<1> DEFINE path == audit_path_for(a)
           log  == ramfs_read(fs, path)
           K    == Kept(keep)
           gs   == audit_compact(fs, a, keep).files
<1>1. CASE Len(log) <= K
  <2>1. gs = fs
    BY Zenon, <1>1 DEF audit_compact, Result
  <2> QED
    BY Zenon, <2>1 DEF ChangesOnly
<1>2. CASE ~(Len(log) <= K)
  <2>1. PICK new : /\ Sets(fs, gs, path, new) /\ IsSeq(new) /\ Len(new) = K + 1 /\ IsMark(new[1])
                   /\ LastSame(new, log, K)
    BY Zenon, <1>2, CompactIs
  <2>2. IsSeq(log) /\ Len(log) \in Nat /\ K \in Nat /\ K >= 1
    BY ReadIsText, AuditSizes DEF Kept
  <2>3. /\ IsSeq(t) /\ Len(t) <= AUDIT_QUOTA_BYTES /\ \A i \in 1 .. Len(t) : ~IsMark(t[i])
    BY Zenon DEF AuditOk
  <2>4. Len(log) <= AUDIT_QUOTA_BYTES
    BY Zenon DEF AuditOk
  <2>5. ramfs_path_exists(fs, path)
    <3>1. log # <<>>
      BY <1>2, <2>2, SeqEmpty
    <3> QED
      BY Zenon, <3>1 DEF ramfs_read, ramfs_path_exists
  <2>6. PICK m \in {0, 1} : LogOk(log, t, m)
    BY Zenon, <2>5 DEF AuditOk
  <2>7. LastSame(log, t, Len(log) - m) /\ Len(t) \in Nat
    BY Zenon, <2>3, <2>6, SeqShape DEF LogOk
  <2> HIDE DEF K, log, gs
  <2>8. /\ Len(log) - m \in Nat /\ K <= Len(log) - m /\ Len(new) <= AUDIT_QUOTA_BYTES
        /\ Len(new) - 1 >= 1 /\ Len(new) - 1 = K
    BY <1>2, <2>1, <2>2, <2>4, AuditSizes
  <2>9. LastSame(new, t, K)
    BY Zenon, <2>1, <2>2, <2>7, <2>8, EndsCompose
  <2>10. LogOk(new, t, 1)
    BY Zenon, <2>1, <2>8, <2>9 DEF LogOk
  <2>11. 1 \in {0, 1}
    OBVIOUS
  <2> QED
    BY Zenon, <2>1, <2>3, <2>8, <2>10, <2>11, AuditSetOk DEF gs
<1> QED
  BY Zenon, <1>1, <1>2

\* No mark is given to a trail that has none.
LEMMA GivenNoMark ==
  ASSUME NEW t, IsSeq(t), Len(t) <= AUDIT_QUOTA_BYTES, \A i \in 1 .. Len(t) : ~IsMark(t[i]), NEW x, ~IsMark(x)
  PROVE  \A i \in 1 .. Len(Given(t, x)) : ~IsMark(Given(t, x)[i])
<1> DEFINE g == Given(t, x)
           all == Append(t, x)
<1> SUFFICES ASSUME NEW i \in 1 .. Len(g) PROVE ~IsMark(g[i])
  BY Zenon
<1>1. IsSeq(g) /\ LastSame(g, all, Len(g))
  BY Zenon, GivenFacts
<1>2. Len(g) \in Nat /\ Len(t) \in Nat
  BY Zenon, <1>1, SeqShape
<1>3. Len(all) = Len(t) + 1 /\ (\A j \in 1 .. Len(t) : all[j] = t[j]) /\ all[Len(t) + 1] = x
  BY SeqAppend
<1>4. Len(g) <= Len(all) /\ \A k \in 0 .. Len(g) - 1 : g[Len(g) - k] = all[Len(all) - k]
  BY Zenon, <1>1 DEF LastSame
<1> HIDE DEF g, all
<1> DEFINE k == Len(g) - i
           j == Len(all) - k
<1>5. k \in 0 .. Len(g) - 1 /\ Len(g) - k = i
  BY <1>2
<1>6. g[i] = all[j]
  BY Zenon, <1>4, <1>5
<1>7. j \in 1 .. Len(t) \/ j = Len(t) + 1
  <2>1. Len(all) = Len(t) + 1 /\ Len(g) <= Len(all)
    BY Zenon, <1>3, <1>4
  <2> QED
    BY <1>2, <2>1
<1> HIDE DEF k, j
<1> QED
  BY Zenon, <1>3, <1>6, <1>7

\* A line that is written to the log.
LEMMA AuditWriteOk ==
  ASSUME NEW fs, IsTable(fs), NEW a, NEW t, AuditOk(fs, a, t), NEW x, ~IsMark(x), NEW gs,
         Sets(fs, gs, audit_path_for(a), Append(ramfs_read(fs, audit_path_for(a)), x)),
         Len(ramfs_read(fs, audit_path_for(a))) + 1 <= AUDIT_QUOTA_BYTES
  PROVE  IsTable(gs) /\ ChangesOnly(fs, gs, {audit_path_for(a)}) /\ AuditOk(gs, a, Given(t, x))
<1> DEFINE path == audit_path_for(a)
           log  == ramfs_read(fs, path)
           new  == Append(log, x)
           g    == Given(t, x)
<1>1. IsSeq(log) /\ Len(log) \in Nat
  BY Zenon, ReadIsText
<1>2. IsSeq(t) /\ Len(t) <= AUDIT_QUOTA_BYTES /\ \A i \in 1 .. Len(t) : ~IsMark(t[i])
  BY Zenon DEF AuditOk
<1>3. IsSeq(g) /\ Len(g) <= AUDIT_QUOTA_BYTES /\ \A i \in 1 .. Len(g) : ~IsMark(g[i])
  <2>1. IsSeq(g) /\ Len(g) <= AUDIT_QUOTA_BYTES
    BY ZenonT(60), <1>2, GivenFacts
  <2> QED
    BY Zenon, <1>2, <2>1, GivenNoMark
<1>4. IsSeq(new) /\ Len(new) = Len(log) + 1 /\ \A i \in 1 .. Len(log) : new[i] = log[i]
  BY <1>1, SeqAppend
<1>5. PICK m \in {0, 1} : /\ m = 1 => IsMark(log[1]) /\ Len(log) >= 1
                          /\ Len(log) - m \in Nat /\ LastSame(log, t, Len(log) - m)
  <2>1. CASE ramfs_path_exists(fs, path)
    <3>1. PICK m \in {0, 1} : LogOk(log, t, m)
      BY Zenon, <2>1 DEF AuditOk
    <3>2. (m = 1 => IsMark(log[1])) /\ Len(log) - m >= 1 /\ LastSame(log, t, Len(log) - m)
      BY Zenon, <3>1 DEF LogOk
    <3> HIDE DEF log
    <3>3. Len(log) - m \in Nat /\ Len(log) >= 1
      BY <1>1, <3>2
    <3> QED
      BY Zenon, <3>2, <3>3
  <2>2. CASE ~ramfs_path_exists(fs, path)
    <3>1. log = <<>>
      BY Zenon, <2>2 DEF ramfs_read, ramfs_path_exists
    <3>2. 0 \in {0, 1} /\ Len(log) - 0 = 0 /\ 0 \in Nat /\ 0 # 1
      BY <3>1
    <3> HIDE DEF log
    <3>3. LastSame(log, t, 0)
      <4>1. Len(t) \in Nat /\ 0 <= Len(t) /\ 0 <= Len(log) /\ 0 .. 0 - 1 = {}
        BY SMTT(60), <1>1, <1>2, SeqShape
      <4> QED
        BY Zenon, <4>1 DEF LastSame
    <3> QED
      BY Zenon, <3>2, <3>3
  <2> QED
    BY Zenon, <2>1, <2>2
<1> HIDE DEF log, g
<1> DEFINE n == Len(log) - m
<1>6. n + 1 <= AUDIT_QUOTA_BYTES /\ Len(new) - m = n + 1 /\ n + 1 >= 1 /\ Len(new) <= AUDIT_QUOTA_BYTES
  BY <1>1, <1>4, <1>5, AuditSizes DEF log
<1> HIDE DEF n
<1>7. LastSame(new, g, n + 1)
  <2>1. n \in Nat /\ LastSame(log, t, n)
    BY Zenon, <1>5 DEF n
  <2> QED
    BY Zenon, <1>1, <1>2, <1>6, <2>1, LineEnds DEF g
<1>8. m = 1 => IsMark(new[1])
  <2>1. Len(log) >= 1 => 1 \in 1 .. Len(log)
    BY <1>1
  <2> HIDE DEF new
  <2> QED
    BY Zenon, <1>4, <1>5, <2>1
<1>9. LogOk(new, g, m)
  BY Zenon, <1>6, <1>7, <1>8 DEF LogOk
<1>10. Sets(fs, gs, path, new)
  BY Zenon DEF log
<1> HIDE DEF new
<1> QED
  BY Zenon, <1>3, <1>4, <1>6, <1>9, <1>10, AuditSetOk DEF g

\* A call that is logged: the log is compacted if it is full, so that only a
\* log without a slot of ramfs misses the line.
LEMMA AuditLogOk ==
  ASSUME NEW fs, IsTable(fs), NEW a, NEW rc, NEW t, AuditOk(fs, a, t)
  PROVE  LET gs == tool_audit_log(fs, a, rc)
         IN  IsTable(gs) /\ ChangesOnly(fs, gs, {audit_path_for(a)}) /\ AuditOk(gs, a, Given(t, <<"rc", rc>>))
<1> DEFINE path  == audit_path_for(a)
           log   == ramfs_read(fs, path)
           x     == <<"rc", rc>>
           first == audit_write(fs, a, x)
           hs    == audit_compact(fs, a, AUDIT_KEEP).files
           log2  == ramfs_read(hs, path)
           gs    == tool_audit_log(fs, a, rc)
           Good(us, u) == IsTable(us) /\ ChangesOnly(fs, us, {path}) /\ AuditOk(us, a, u)
<1>1. ~IsMark(x)
  BY DEF IsMark
<1>2. gs = IF first.rc = "ENOSPC" THEN audit_write(hs, a, x).files ELSE first.files
  BY Zenon DEF tool_audit_log
<1>3. IsSeq(log) /\ Len(log) \in Nat /\ AUDIT_KEEP \in Nat /\ AUDIT_QUOTA_BYTES \in Nat
  BY ReadIsText, AuditSizes
<1> HIDE DEF x
<1>4. ASSUME NEW us, NEW u, AuditOk(us, a, u), IsTable(us)
      PROVE  ramfs_path_exists(us, path) => Len(ramfs_read(us, path)) # 0
  <2> DEFINE l == ramfs_read(us, path)
  <2> SUFFICES ASSUME ramfs_path_exists(us, path) PROVE Len(l) # 0
    BY Zenon
  <2>1. PICK m \in {0, 1} : LogOk(l, u, m)
    BY Zenon, <1>4 DEF AuditOk
  <2>2. Len(l) - m >= 1 /\ Len(l) \in Nat
    BY Zenon, <1>4, <2>1, ReadIsText DEF LogOk
  <2> HIDE DEF l
  <2> QED
    BY <2>2
<1>5. IF Len(log) + 1 <= AUDIT_QUOTA_BYTES /\ HasSlotFor(fs, path)
      THEN first.rc = "OK" /\ Sets(fs, first.files, path, Append(log, x))
      ELSE first.rc = "ENOSPC" /\ first.files = fs
  BY Zenon, <1>4, AuditWriteIs
<1>6. Good(hs, t)
  BY Zenon, <1>3, AuditCompactOk
<1>7. IF Len(log2) + 1 <= AUDIT_QUOTA_BYTES /\ HasSlotFor(hs, path)
      THEN Sets(hs, audit_write(hs, a, x).files, path, Append(log2, x))
      ELSE audit_write(hs, a, x).files = hs
  <2> HIDE DEF hs
  <2>1. IsTable(hs) /\ AuditOk(hs, a, t)
    BY Zenon, <1>6
  <2>2. ramfs_path_exists(hs, path) => Len(log2) # 0
    BY Zenon, <1>4, <2>1
  <2> QED
    BY Zenon, <2>1, <2>2, AuditWriteIs
<1> HIDE DEF first
<1>8. CASE Len(log) + 1 <= AUDIT_QUOTA_BYTES /\ HasSlotFor(fs, path)
  <2>1. gs = first.files /\ Sets(fs, first.files, path, Append(log, x))
    BY Zenon, <1>2, <1>5, <1>8
  <2>2. Good(gs, Given(t, x))
    BY Zenon, <1>1, <1>8, <2>1, AuditWriteOk
  <2> QED
    BY Zenon, <2>2 DEF x
<1>9. CASE ~(Len(log) + 1 <= AUDIT_QUOTA_BYTES)
  <2>1. gs = audit_write(hs, a, x).files
    BY Zenon, <1>2, <1>5, <1>9
  <2>2. Kept(AUDIT_KEEP) = AUDIT_KEEP
    BY AuditSizes DEF Kept
  <2>3. ~(Len(log) <= Kept(AUDIT_KEEP))
    BY <1>3, <1>9, <2>2, AuditSizes
  <2>4. PICK new : Sets(fs, hs, path, new) /\ IsSeq(new) /\ Len(new) = Kept(AUDIT_KEEP) + 1
    BY Zenon, <1>3, <2>3, CompactIs
  <2>5. Len(new) + 1 <= AUDIT_QUOTA_BYTES /\ Len(new) < RAMFS_FILE_SIZE
    BY <2>2, <2>4, AuditSizes, SessionSizes
  <2>6. ramfs_path_exists(hs, path) /\ log2 = new
    BY ZenonT(60), <2>4, <2>5, SetsFacts
  <2>7. HasSlotFor(hs, path)
    BY Zenon, <2>6 DEF HasSlotFor, ramfs_path_exists
  <2>8. Sets(hs, gs, path, Append(log2, x)) /\ Len(log2) + 1 <= AUDIT_QUOTA_BYTES
    BY Zenon, <1>7, <2>1, <2>5, <2>6, <2>7
  <2>9. IsTable(gs) /\ ChangesOnly(hs, gs, {path}) /\ AuditOk(gs, a, Given(t, x))
    BY Zenon, <1>1, <1>6, <2>8, AuditWriteOk
  <2>10. ChangesOnly(fs, gs, {path} \cup {path})
    BY Zenon, <1>6, <2>9, ChangesCompose
  <2>11. {path} \cup {path} = {path}
    BY Zenon
  <2> QED
    BY Zenon, <2>9, <2>10, <2>11 DEF x
<1>10. CASE ~HasSlotFor(fs, path)
  <2>1. gs = audit_write(hs, a, x).files
    BY Zenon, <1>2, <1>5, <1>10
  <2>2. Named(fs, path) = {} /\ FreeSlots(fs) = {}
    BY Zenon, <1>10 DEF HasSlotFor
  <2>3. log = <<>> /\ ~ramfs_path_exists(fs, path)
    BY Zenon, <2>2 DEF ramfs_read, ramfs_path_exists
  <2>4. Len(log) <= Kept(AUDIT_KEEP)
    BY <2>3, SeqEmpty, AuditSizes DEF Kept
  <2>5. hs = fs
    BY Zenon, <2>4 DEF audit_compact, Result
  <2>6. gs = fs
    BY Zenon, <1>7, <1>10, <2>1, <2>5
  <2>7. IsSeq(t) /\ Len(t) <= AUDIT_QUOTA_BYTES /\ Len(log) <= AUDIT_QUOTA_BYTES
        /\ \A i \in 1 .. Len(t) : ~IsMark(t[i])
    BY Zenon DEF AuditOk
  <2>8. IsSeq(Given(t, x)) /\ Len(Given(t, x)) <= AUDIT_QUOTA_BYTES
    BY Zenon, <2>7, GivenFacts
  <2>9. \A i \in 1 .. Len(Given(t, x)) : ~IsMark(Given(t, x)[i])
    BY Zenon, <1>1, <2>7, GivenNoMark
  <2>10. AuditOk(fs, a, Given(t, x))
    BY Zenon, <2>2, <2>3, <2>7, <2>8, <2>9 DEF AuditOk
  <2> QED
    BY Zenon, <2>6, <2>10 DEF ChangesOnly, x
<1> QED
  BY Zenon, <1>8, <1>9, <1>10

\* What AuditTrail says of the log of one agent.
LEMMA TrailKept ==
  ASSUME NEW fs, IsTable(fs), NEW a, NEW t, AuditOk(fs, a, t)
  PROVE  LET lines == Lines(audit_tail(fs, a))
             kept == Len(t) - Len(lines)
         IN  /\ kept >= 0 /\ lines = SubSeq(t, kept + 1, Len(t))
             /\ t # <<>> /\ lines = <<>> => FreeSlots(fs) = {}
<1> DEFINE path  == audit_path_for(a)
           log   == ramfs_read(fs, path)
           lines == Lines(log)
           kept  == Len(t) - Len(lines)
<1>1. IsSeq(log) /\ Len(log) \in Nat
  BY Zenon, ReadIsText
<1>2. IsSeq(t) /\ \A i \in 1 .. Len(t) : ~IsMark(t[i])
  BY Zenon DEF AuditOk
<1>3. Len(t) \in Nat
  BY Zenon, <1>2, SeqShape
<1>4. audit_tail(fs, a) = log
  BY Zenon DEF audit_tail
<1>5. PICK m \in {0, 1} : /\ m = 1 => IsMark(log[1])
                          /\ Len(log) - m \in Nat /\ LastSame(log, t, Len(log) - m)
                          /\ Len(log) - m = 0 => t = <<>> \/ FreeSlots(fs) = {}
  <2>1. CASE ramfs_path_exists(fs, path)
    <3>1. PICK m \in {0, 1} : LogOk(log, t, m)
      BY Zenon, <2>1 DEF AuditOk
    <3>2. (m = 1 => IsMark(log[1])) /\ Len(log) - m >= 1 /\ LastSame(log, t, Len(log) - m)
      BY Zenon, <3>1 DEF LogOk
    <3> HIDE DEF log
    <3>3. Len(log) - m \in Nat /\ Len(log) - m # 0
      BY <1>1, <3>2
    <3> QED
      BY Zenon, <3>2, <3>3
  <2>2. CASE ~ramfs_path_exists(fs, path)
    <3>1. log = <<>> /\ (t = <<>> \/ FreeSlots(fs) = {})
      BY Zenon, <2>2 DEF ramfs_read, ramfs_path_exists, AuditOk
    <3>2. 0 \in {0, 1} /\ Len(log) - 0 = 0 /\ 0 \in Nat /\ 0 # 1
      BY <3>1
    <3> HIDE DEF log
    <3>3. LastSame(log, t, 0)
      <4>1. 0 <= Len(t) /\ 0 <= Len(log) /\ 0 .. 0 - 1 = {}
        BY <1>1, <1>3
      <4> QED
        BY Zenon, <4>1 DEF LastSame
    <3> QED
      BY Zenon, <3>1, <3>2, <3>3
  <2> QED
    BY Zenon, <2>1, <2>2
<1> HIDE DEF log
<1> DEFINE n == Len(log) - m
<1>6. n \in Nat /\ n <= Len(log) /\ n <= Len(t) /\ \A k \in 0 .. n - 1 : log[Len(log) - k] = t[Len(t) - k]
  BY Zenon, <1>5 DEF LastSame
<1>7. IsSeq(lines) /\ Len(lines) = n /\ \A i \in 1 .. n : lines[i] = log[m + i]
  <2>1. CASE m = 0
    <3>1. Len(log) = n /\ \A i \in 1 .. n : m + i = i
      BY <1>1, <2>1
    <3>2. lines = log
      <4> SUFFICES ASSUME log # <<>> PROVE ~IsMark(log[1])
        BY Zenon DEF Lines
      <4>1. Len(log) # 0
        BY <1>1 DEF IsSeq
      <4>2. n - 1 \in 0 .. n - 1 /\ Len(log) - (n - 1) = 1 /\ Len(t) - (n - 1) \in 1 .. Len(t)
        BY <1>1, <1>3, <1>6, <3>1, <4>1
      <4> HIDE DEF n
      <4> QED
        BY Zenon, <1>2, <1>6, <4>2
    <3> HIDE DEF n
    <3> QED
      BY Zenon, <1>1, <3>1, <3>2
  <2>2. CASE m = 1
    <3>1. Len(log) = n + 1 /\ \A i \in 1 .. n : m + i = i + 1
      BY <1>1, <2>2
    <3> HIDE DEF n
    <3>2. log # <<>>
      BY <1>6, <3>1, SeqEmpty
    <3>3. lines = Tail(log)
      BY Zenon, <1>5, <2>2, <3>2 DEF Lines
    <3>4. PICK S : log \in Seq(S)
      BY Zenon, <1>1 DEF IsSeq
    <3>5. Tail(log) \in Seq(S) /\ Len(Tail(log)) = n
      BY <1>6, <3>1, <3>2, <3>4
    <3>6. \A i \in 1 .. n : Tail(log)[i] = log[i + 1]
      BY <1>6, <3>1, <3>2, <3>4
    <3> HIDE DEF lines
    <3> QED
      BY Zenon, <3>1, <3>3, <3>5, <3>6 DEF IsSeq
  <2> QED
    BY Zenon, <2>1, <2>2
<1>8. n + m = Len(log)
  BY <1>1
<1> HIDE DEF n, lines
<1>9. kept = Len(t) - n /\ kept >= 0 /\ kept + 1 \in Nat /\ kept + 1 >= 1 /\ Len(t) <= Len(t)
  BY <1>3, <1>6, <1>7
<1> HIDE DEF kept
<1> DEFINE part == SubSeq(t, kept + 1, Len(t))
<1>10. /\ IsSeq(part) /\ Len(part) = IF kept + 1 <= Len(t) THEN Len(t) - (kept + 1) + 1 ELSE 0
       /\ \A i \in 1 .. Len(t) - (kept + 1) + 1 : part[i] = t[(kept + 1) + i - 1]
  BY <1>2, <1>3, <1>9, SeqPart
<1> HIDE DEF part
<1>11. Len(part) = n /\ Len(t) - (kept + 1) + 1 = n
  BY <1>3, <1>6, <1>9, <1>10
<1>12. ASSUME NEW i \in 1 .. n PROVE lines[i] = part[i]
  <2>1. n - i \in 0 .. n - 1 /\ Len(log) - (n - i) = m + i /\ Len(t) - (n - i) = (kept + 1) + i - 1
    BY <1>1, <1>3, <1>6, <1>8, <1>9
  <2>2. lines[i] = log[m + i] /\ log[m + i] = t[(kept + 1) + i - 1]
    BY Zenon, <1>6, <1>7, <2>1
  <2>3. part[i] = t[(kept + 1) + i - 1]
    BY Zenon, <1>10, <1>11
  <2> QED
    BY Zenon, <2>2, <2>3
<1>13. lines = part
  BY ZenonT(60), <1>7, <1>10, <1>11, <1>12, SeqSame
<1>14. t # <<>> /\ lines = <<>> => FreeSlots(fs) = {}
  <2> SUFFICES ASSUME t # <<>>, lines = <<>> PROVE FreeSlots(fs) = {}
    BY Zenon
  <2>1. n = 0
    BY Zenon, <1>7, SeqEmpty
  <2> QED
    BY Zenon, <1>5, <2>1 DEF n
<1> QED
  BY Zenon, <1>4, <1>9, <1>13, <1>14 DEF part, kept, lines, log

\* Whatever a log holds, a compaction and a line more leave a table in which
\* only that file has changed.
LEMMA AuditFileOnly ==
  ASSUME NEW fs, IsTable(fs), NEW a
  PROVE  /\ \A keep \in Nat : LET gs == audit_compact(fs, a, keep).files
                               IN  IsTable(gs) /\ ChangesOnly(fs, gs, {audit_path_for(a)})
         /\ \A rc : LET gs == tool_audit_log(fs, a, rc)
                    IN  IsTable(gs) /\ ChangesOnly(fs, gs, {audit_path_for(a)})
<1> DEFINE path == audit_path_for(a)
           Same(hs, gs) == IsTable(gs) /\ ChangesOnly(hs, gs, {path})
<1>1. ASSUME NEW hs, IsTable(hs), NEW line
      PROVE  Same(hs, audit_write(hs, a, line).files)
  <2> DEFINE new == Append(ramfs_read(hs, path), line)
  <2>1. IsSeq(new)
    <3>1. IsSeq(ramfs_read(hs, path))
      BY Zenon, <1>1, ReadIsText
    <3> QED
      BY Zenon, <3>1, SeqAppend
  <2>2. OneFile(hs, path, audit_write(hs, a, line).files)
    BY Zenon, <2>1 DEF audit_write, Result, OneFile
  <2> HIDE DEF path
  <2> QED
    BY Zenon, <1>1, <2>2, OneFileChanges
<1>2. ASSUME NEW keep \in Nat
      PROVE  Same(fs, audit_compact(fs, a, keep).files)
  <2> DEFINE log == ramfs_read(fs, path)
             gs  == audit_compact(fs, a, keep).files
  <2>1. IsSeq(log) /\ Len(log) \in Nat /\ Len(log) < RAMFS_FILE_SIZE
    BY Zenon, ReadIsText
  <2>2. CASE Len(log) <= Kept(keep)
    <3>1. gs = fs
      BY Zenon, <2>2 DEF audit_compact, Result
    <3> QED
      BY Zenon, <3>1 DEF ChangesOnly
  <2>3. CASE ~(Len(log) <= Kept(keep))
    <3>1. PICK new : Sets(fs, gs, path, new) /\ IsSeq(new) /\ Len(new) = Kept(keep) + 1
      BY Zenon, <2>3, CompactIs
    <3>2. Kept(keep) \in Nat
      BY AuditSizes DEF Kept
    <3> HIDE DEF log, gs, path
    <3>3. Len(new) < RAMFS_FILE_SIZE
      BY <2>1, <2>3, <3>1, <3>2, SessionSizes
    <3> QED
      BY Zenon, <3>1, <3>3, SetsFacts DEF gs
  <2> QED
    BY Zenon, <2>2, <2>3
<1>3. ASSUME NEW rc
      PROVE  Same(fs, tool_audit_log(fs, a, rc))
  <2> DEFINE x  == <<"rc", rc>>
             hs == audit_compact(fs, a, AUDIT_KEEP).files
             gs == audit_write(hs, a, x).files
  <2>1. tool_audit_log(fs, a, rc) \in {audit_write(fs, a, x).files, gs}
    BY Zenon DEF tool_audit_log
  <2>2. AUDIT_KEEP \in Nat
    BY AuditSizes
  <2>3. Same(fs, hs)
    BY Zenon, <1>2, <2>2
  <2> HIDE DEF hs
  <2>4. Same(hs, gs) /\ Same(fs, audit_write(fs, a, x).files)
    BY Zenon, <1>1, <2>3
  <2> HIDE DEF path, gs, x
  <2>5. ChangesOnly(fs, gs, {path} \cup {path})
    BY Zenon, <2>3, <2>4, ChangesCompose
  <2>6. {path} \cup {path} = {path}
    BY Zenon
  <2> QED
    BY Zenon, <2>1, <2>4, <2>5, <2>6
<1> QED
  BY Zenon, <1>2, <1>3

-----------------------------------------------------------------------------
(* The gateway                                                             *)

\* The session of a is written by session.c alone, and its audit log by the
\* gateway: no storage service and no package is given the path.
OwnSession(a) == build_session_path(a) \notin UserPaths \cup PackagePaths

OwnLog(a) == audit_path_for(a) \notin PackagePaths

\* A counter of each agent, within its limit.
IsCount(f, max) == f = [a \in Agents |-> f[a]] /\ \A a \in Agents : f[a] \in 0 .. max

\* The state a call finds and leaves: the audit logs hold the newest calls, no
\* tool is denied twice, the session logs are within the bounds an append and
\* a compaction keep, and the counters within theirs.
AuditsOk(fs, t) == t = [a \in Agents |-> t[a]] /\ \A a \in Agents : OwnLog(a) => AuditOk(fs, a, t[a])

SessionsOk(fs) == \A a \in Agents : OwnSession(a) => SessionOk(ramfs_read(fs, build_session_path(a)))

StateOk(fs, t, p, ic, ib) ==
    /\ IsTable(fs) /\ AuditsOk(fs, t) /\ SessionsOk(fs) /\ PolicyOk(p)
    /\ IsCount(ic, QUOTA_IPC_MAX) /\ IsCount(ib, MSG_CAPACITY)

GateInv == StateOk(files, trail, pol, ipc_count, inbox) /\ IsCount(tool_count, QUOTA_TOOL_MAX)

\* What OwnFilesOnly says of the paths a call may change, and those a package
\* may be installed to by the tools for it.
OwnPath(a, p) ==
    \/ p.id = a /\ p.root \in {"agent", "ns", "session", "audit"}
    \/ p = FLEET_CACHE
    \/ agent_has_cap(a, "SVC_STORAGE") /\ p.root \in {"agent", "session"}

Installing(tool) == tool \in {"OTA", "CATALOG"}

MayTouch(a, tool, p) == OwnPath(a, p) \/ (Installing(tool) /\ p \in PackagePaths)

\* A call made by a: its changes are in files it may change, and it keeps the
\* invariant.
GoodCall(a) ==
    /\ call'.agent = a
    /\ \A p \in TouchedPaths : OwnPath(a, p) \/ (call'.installs /\ agent_has_cap(a, "FS") /\ p \in PackagePaths)
    /\ GateInv'

\* The paths the tools build for an agent are its own, and differ.
LEMMA OwnPaths ==
  ASSUME NEW a
  PROVE  /\ OwnPath(a, audit_path_for(a)) /\ OwnPath(a, build_session_path(a))
         /\ OwnPath(a, namespace_file_for(a, "secret")) /\ OwnPath(a, FLEET_CACHE)
<1>1. \A root, name : Path(root, a, name).id = a /\ Path(root, a, name).root = root
  BY Zenon DEF Path
<1> QED
  BY Zenon, <1>1 DEF OwnPath, audit_path_for, build_session_path, namespace_file_for

\* The roots of the paths the tools build; two agents never share a path.
LEMMA PathRoots ==
  ASSUME NEW a, NEW b
  PROVE  /\ audit_path_for(a).root = "audit" /\ build_session_path(a).root = "session"
         /\ namespace_file_for(a, "secret").root = "ns" /\ FLEET_CACHE.root = "agent"
         /\ POLICY_ACTIVE.root = "sys"
         /\ audit_path_for(a) = audit_path_for(b) => a = b
         /\ build_session_path(a) = build_session_path(b) => a = b
         /\ audit_path_for(a) # build_session_path(b)
BY DEF Path, audit_path_for, build_session_path, namespace_file_for, FLEET_CACHE, POLICY_ACTIVE

\* A change of other files keeps the logs of all agents.
LEMMA AuditsKept ==
  ASSUME NEW fs, IsTable(fs), NEW gs, IsTable(gs), NEW p, ChangesOnly(fs, gs, {p}),
         p.root # "audit" \/ p \in PackagePaths, NEW t, AuditsOk(fs, t)
  PROVE  AuditsOk(gs, t)
<1>1. ASSUME NEW a \in Agents, OwnLog(a) PROVE AuditOk(gs, a, t[a])
  <2>1. audit_path_for(a) \notin {p}
    BY Zenon, <1>1, PathRoots DEF OwnLog
  <2>2. AuditOk(fs, a, t[a])
    BY Zenon, <1>1 DEF AuditsOk
  <2> QED
    BY Zenon, <2>1, <2>2, AuditKept
<1> QED
  BY Zenon, <1>1 DEF AuditsOk

\* A change of other files keeps the sessions of all agents.
LEMMA SessionsKept ==
  ASSUME NEW fs, IsTable(fs), NEW gs, IsTable(gs), NEW p, ChangesOnly(fs, gs, {p}),
         p.root # "session" \/ p \in UserPaths \cup PackagePaths, SessionsOk(fs)
  PROVE  SessionsOk(gs)
<1> SUFFICES ASSUME NEW a \in Agents, OwnSession(a)
             PROVE  SessionOk(ramfs_read(gs, build_session_path(a)))
  BY Zenon DEF SessionsOk
<1>1. build_session_path(a) \notin {p}
  BY Zenon, PathRoots DEF OwnSession
<1>2. ramfs_read(gs, build_session_path(a)) = ramfs_read(fs, build_session_path(a))
  BY <1>1, OtherFiles
<1> QED
  BY Zenon, <1>2 DEF SessionsOk

\* A call that is logged adds a line to the caller's log and to its trail.
LEMMA LogKeeps ==
  ASSUME NEW fs, NEW p, NEW ic, NEW ib, StateOk(fs, trail, p, ic, ib), NEW a \in Agents, NEW rc, Log(fs, a, rc)
  PROVE  /\ StateOk(files', trail', p, ic, ib)
         /\ ChangesOnly(fs, files', {audit_path_for(a)})
<1> DEFINE x == <<"rc", rc>>
           path == audit_path_for(a)
<1>1. IsTable(fs) /\ AuditsOk(fs, trail) /\ SessionsOk(fs) /\ PolicyOk(p)
      /\ IsCount(ic, QUOTA_IPC_MAX) /\ IsCount(ib, MSG_CAPACITY)
  BY Zenon DEF StateOk
<1>2. trail = [b \in Agents |-> trail[b]] /\ \A b \in Agents : OwnLog(b) => AuditOk(fs, b, trail[b])
  BY Zenon, <1>1 DEF AuditsOk
<1>3. files' = tool_audit_log(fs, a, rc) /\ trail' = [trail EXCEPT ![a] = Given(trail[a], x)]
  BY Zenon DEF Log, Given
<1> HIDE DEF x
<1>4. trail' = [b \in Agents |-> IF b = a THEN Given(trail[a], x) ELSE trail[b]]
  BY Zenon, <1>2, <1>3
<1>5. /\ IsTable(files') /\ ChangesOnly(fs, files', {path})
      /\ OwnLog(a) => AuditOk(files', a, Given(trail[a], x))
  <2>1. IsTable(files') /\ ChangesOnly(fs, files', {path})
    BY Zenon, <1>1, <1>3, AuditFileOnly
  <2>2. ASSUME OwnLog(a) PROVE AuditOk(files', a, Given(trail[a], x))
    BY Zenon, <1>1, <1>2, <1>3, <2>2, AuditLogOk DEF x
  <2> QED
    BY Zenon, <2>1, <2>2
<1>6. AuditsOk(files', trail')
  <2>1. ASSUME NEW b \in Agents, OwnLog(b) PROVE AuditOk(files', b, trail'[b])
    <3>1. CASE b = a
      BY Zenon, <1>4, <1>5, <2>1, <3>1
    <3>2. CASE b # a
      <4>1. audit_path_for(b) \notin {path}
        BY Zenon, <3>2, PathRoots
      <4>2. AuditOk(files', b, trail[b])
        BY Zenon, <1>1, <1>2, <1>5, <2>1, <4>1, AuditKept
      <4> QED
        BY Zenon, <1>4, <3>2, <4>2
    <3> QED
      BY Zenon, <3>1, <3>2
  <2>2. trail' = [b \in Agents |-> trail'[b]]
    BY Zenon, <1>4
  <2> QED
    BY Zenon, <2>1, <2>2 DEF AuditsOk
<1>7. path.root # "session"
  BY Zenon, PathRoots
<1>8. SessionsOk(files')
  BY Zenon, <1>1, <1>5, <1>7, SessionsKept
<1> QED
  BY Zenon, <1>1, <1>5, <1>6, <1>8 DEF StateOk

\* A call is refused, or it has passed the check of its arguments, has quota
\* left if it is metered, and the agent has the capability of the tool.
LEMMA GatePasses ==
  ASSUME NEW a, NEW tool, NEW cmd, NEW check, NEW e, tool_dispatch(a, tool, cmd, check, e)
  PROVE  \/ \E rc : Refused(a, tool, rc)
         \/ /\ Ran(a, tool, cmd, e) /\ check = "OK" /\ MayUse(a, tool)
            /\ Metered(tool, cmd) => tool_count[a] < QUOTA_TOOL_MAX
BY Zenon DEF tool_dispatch, OverQuota, quota_tool_allow

\* The tools that install packages need the capability for files.
LEMMA InstallersHaveFs ==
  ASSUME NEW a, NEW tool, Installing(tool), MayUse(a, tool)
  PROVE  agent_has_cap(a, "FS")
<1>1. tool_table["OTA"] = "FS" /\ tool_table["CATALOG"] = "FS"
  BY DEF tool_table
<1> QED
  BY Zenon, <1>1 DEF Installing, MayUse

\* A call more of one agent that is below its limit.
LEMMA CountUp ==
  ASSUME NEW f, NEW max \in Nat, IsCount(f, max), NEW a \in Agents, NEW k \in Nat, f[a] + k <= max
  PROVE  IsCount([f EXCEPT ![a] = @ + k], max)
<1> DEFINE g == [f EXCEPT ![a] = f[a] + k]
<1>1. g = [b \in Agents |-> IF b = a THEN f[a] + k ELSE f[b]]
  BY Zenon DEF IsCount
<1>2. f[a] + k \in 0 .. max
  BY DEF IsCount
<1> HIDE DEF g
<1>3. \A b \in Agents : g[b] \in 0 .. max
  BY Zenon, <1>1, <1>2 DEF IsCount
<1>4. g = [b \in Agents |-> g[b]]
  BY Zenon, <1>1
<1> QED
  BY Zenon, <1>3, <1>4 DEF IsCount, g

\* A tool that, when its check passes, leaves a good state and changes only
\* files the agent may change makes a good call of the dispatch around it.
LEMMA DispatchGood ==
  ASSUME GateInv, NEW a \in Agents, NEW tool, NEW cmd, NEW check, NEW e, NEW P,
         check = "OK" => /\ StateOk(e.files, trail, e.pol, e.ipc, e.inbox)
                         /\ ChangesOnly(files, e.files, P) /\ \A p \in P : MayTouch(a, tool, p),
         tool_dispatch(a, tool, cmd, check, e)
  PROVE  GoodCall(a)
<1> DEFINE log == {audit_path_for(a)}
<1>1. \A p \in log : OwnPath(a, p)
  BY Zenon, OwnPaths
<1>2. StateOk(files, trail, pol, ipc_count, inbox) /\ IsCount(tool_count, QUOTA_TOOL_MAX)
  BY Zenon DEF GateInv
<1>3. ASSUME NEW rc, Refused(a, tool, rc)
      PROVE  GoodCall(a)
  <2>1. Log(files, a, rc) /\ call'.agent = a
        /\ UNCHANGED <<pol, tool_count, ipc_count, inbox, remote_enabled>>
    BY Zenon, <1>3 DEF Refused, Called
  <2>2. StateOk(files', trail', pol, ipc_count, inbox) /\ ChangesOnly(files, files', log)
    BY Zenon, <1>2, <2>1, LogKeeps
  <2>3. TouchedPaths \subseteq log
    BY Zenon, <2>2 DEF ChangesOnly, TouchedPaths
  <2> HIDE DEF log
  <2>4. GateInv'
    BY Zenon, <1>2, <2>1, <2>2 DEF GateInv
  <2> QED
    BY Zenon, <1>1, <2>1, <2>3, <2>4 DEF GoodCall
<1>4. ASSUME check = "OK", Metered(tool, cmd) => tool_count[a] < QUOTA_TOOL_MAX, MayUse(a, tool), Ran(a, tool, cmd, e)
      PROVE  GoodCall(a)
  <2>1. /\ StateOk(e.files, trail, e.pol, e.ipc, e.inbox)
        /\ ChangesOnly(files, e.files, P) /\ \A p \in P : MayTouch(a, tool, p)
    BY Zenon, <1>4
  <2>2. call'.agent = a /\ pol' = e.pol /\ ipc_count' = e.ipc /\ inbox' = e.inbox
        /\ (Installing(tool) => call'.installs)
    BY Zenon, <1>4 DEF Ran, Called, Installing
  <2>3. tool_count' = IF Metered(tool, cmd) THEN [tool_count EXCEPT ![a] = @ + 1] ELSE tool_count
    BY Zenon, <1>4 DEF Ran
  <2>4. Log(e.files, a, e.rc) \/ (files' = e.files /\ trail' = trail)
    BY Zenon, <1>4 DEF Ran
  <2>5. StateOk(files', trail', e.pol, e.ipc, e.inbox) /\ ChangesOnly(files, files', P \cup log)
    <3>1. CASE files' = e.files /\ trail' = trail
      BY Zenon, <2>1, <3>1 DEF ChangesOnly
    <3>2. CASE Log(e.files, a, e.rc)
      <4>1. StateOk(files', trail', e.pol, e.ipc, e.inbox) /\ ChangesOnly(e.files, files', log)
        BY Zenon, <2>1, <3>2, LogKeeps
      <4> QED
        BY Zenon, <2>1, <4>1, ChangesCompose
    <3> QED
      BY Zenon, <2>4, <3>1, <3>2
  <2>6. TouchedPaths \subseteq P \cup log
    BY Zenon, <2>5 DEF ChangesOnly, TouchedPaths
  <2> HIDE DEF log
  <2>7. IsCount(tool_count', QUOTA_TOOL_MAX)
    <3>1. CASE Metered(tool, cmd)
      <4>1. tool_count[a] + 1 <= QUOTA_TOOL_MAX /\ QUOTA_TOOL_MAX \in Nat /\ 1 \in Nat
        <5>1. tool_count[a] \in 0 .. QUOTA_TOOL_MAX /\ tool_count[a] < QUOTA_TOOL_MAX
          BY Zenon, <1>2, <1>4, <3>1 DEF IsCount
        <5>2. QUOTA_TOOL_MAX \in Nat
          BY Zenon, GatewayAssumption
        <5> QED
          BY <5>1, <5>2
      <4>2. IsCount([tool_count EXCEPT ![a] = @ + 1], QUOTA_TOOL_MAX)
        BY Zenon, <1>2, <4>1, CountUp
      <4> QED
        BY ZenonT(60), <2>3, <3>1, <4>2
    <3>2. CASE ~Metered(tool, cmd)
      BY Zenon, <1>2, <2>3, <3>2
    <3> QED
      BY Zenon, <3>1, <3>2
  <2>8. GateInv'
    BY Zenon, <2>2, <2>5, <2>7 DEF GateInv
  <2>9. \A p \in P : OwnPath(a, p) \/ (call'.installs /\ agent_has_cap(a, "FS") /\ p \in PackagePaths)
    BY Zenon, <1>4, <2>1, <2>2, InstallersHaveFs DEF MayTouch
  <2> QED
    BY ZenonT(60), <1>1, <2>2, <2>6, <2>8, <2>9 DEF GoodCall
<1>5. CASE \E rc : Refused(a, tool, rc)
  BY Zenon, <1>3, <1>5
<1>6. CASE /\ Ran(a, tool, cmd, e) /\ check = "OK" /\ MayUse(a, tool)
           /\ Metered(tool, cmd) => tool_count[a] < QUOTA_TOOL_MAX
  BY Zenon, <1>4, <1>6
<1>7. tool_dispatch(a, tool, cmd, check, e)
  OBVIOUS
<1> HIDE DEF log
<1>8. \/ \E rc : Refused(a, tool, rc)
      \/ /\ Ran(a, tool, cmd, e) /\ check = "OK" /\ MayUse(a, tool)
         /\ Metered(tool, cmd) => tool_count[a] < QUOTA_TOOL_MAX
  BY Zenon, <1>7, GatePasses
<1> QED
  BY Zenon, <1>5, <1>6, <1>8

-----------------------------------------------------------------------------
(* The tools                                                               *)

\* A tool that leaves the files as they are.
LEMMA QuietGood ==
  ASSUME GateInv, NEW a \in Agents, NEW tool, NEW cmd, NEW check, NEW e, e.files = files,
         PolicyOk(e.pol), IsCount(e.ipc, QUOTA_IPC_MAX), IsCount(e.inbox, MSG_CAPACITY),
         tool_dispatch(a, tool, cmd, check, e)
  PROVE  GoodCall(a)
<1>1. StateOk(e.files, trail, e.pol, e.ipc, e.inbox)
  BY Zenon DEF GateInv, StateOk
<1> DEFINE P == {}
<1>2. ChangesOnly(files, e.files, P) /\ \A p \in P : MayTouch(a, tool, p)
  BY Zenon DEF ChangesOnly
<1> HIDE DEF P
<1> QED
  BY Zenon, <1>1, <1>2, DispatchGood

\* One that changes nothing at all.
Quiet(e) == e.files = files /\ e.pol = pol /\ e.ipc = ipc_count /\ e.inbox = inbox

\* A tool that only answers makes a good call.
LEMMA AnswerGood ==
  ASSUME GateInv, NEW a \in Agents, NEW tool, NEW cmd, NEW check, NEW e, Quiet(e),
         tool_dispatch(a, tool, cmd, check, e)
  PROVE  GoodCall(a)
BY Zenon, QuietGood DEF GateInv, StateOk, Quiet

\* A file that is no log of the gateway and no session of session.c.
PlainFile(p) ==
    /\ p.root # "audit" \/ p \in PackagePaths
    /\ p.root # "session" \/ p \in UserPaths \cup PackagePaths

\* One that may write one such file.
LEMMA OneFileGood ==
  ASSUME GateInv, NEW a \in Agents, NEW tool, NEW cmd, NEW check, NEW e, NEW p,
         OneFile(files, p, e.files), e.pol = pol, e.ipc = ipc_count, e.inbox = inbox,
         check = "OK" => MayTouch(a, tool, p) /\ PlainFile(p),
         tool_dispatch(a, tool, cmd, check, e)
  PROVE  GoodCall(a)
<1>1. /\ IsTable(files) /\ AuditsOk(files, trail) /\ SessionsOk(files) /\ PolicyOk(pol)
      /\ IsCount(ipc_count, QUOTA_IPC_MAX) /\ IsCount(inbox, MSG_CAPACITY)
  BY Zenon DEF GateInv, StateOk
<1>2. IsTable(e.files) /\ ChangesOnly(files, e.files, {p})
  BY Zenon, <1>1, OneFileChanges
<1>3. ASSUME check = "OK" PROVE StateOk(e.files, trail, e.pol, e.ipc, e.inbox)
  <2>1. AuditsOk(e.files, trail)
    BY Zenon, <1>1, <1>2, <1>3, AuditsKept DEF PlainFile
  <2>2. SessionsOk(e.files)
    BY Zenon, <1>1, <1>2, <1>3, SessionsKept DEF PlainFile
  <2> QED
    BY Zenon, <1>1, <1>2, <2>1, <2>2 DEF StateOk
<1> DEFINE P == {p}
<1>4. ChangesOnly(files, e.files, P) /\ (check = "OK" => \A q \in P : MayTouch(a, tool, q))
  BY Zenon, <1>2
<1> HIDE DEF P
<1> QED
  BY Zenon, <1>3, <1>4, DispatchGood

\* What the effect of a tool holds besides what it changes.
LEMMA EffectFields ==
  /\ \A rc : Quiet(Answer(rc))
  /\ \A r : /\ WithFiles(r).files = r.files /\ WithFiles(r).pol = pol
            /\ WithFiles(r).ipc = ipc_count /\ WithFiles(r).inbox = inbox
  /\ \A r : /\ WithPolicy(r).files = files /\ WithPolicy(r).pol = r.pol
            /\ WithPolicy(r).ipc = ipc_count /\ WithPolicy(r).inbox = inbox
<1>1. \A rc : Quiet(Answer(rc))
  BY Zenon DEF Answer, Now, Quiet
<1>2. \A r : /\ WithFiles(r).files = r.files /\ WithFiles(r).pol = pol
             /\ WithFiles(r).ipc = ipc_count /\ WithFiles(r).inbox = inbox
  BY Zenon DEF WithFiles, Now
<1>3. \A r : /\ WithPolicy(r).files = files /\ WithPolicy(r).pol = r.pol
             /\ WithPolicy(r).ipc = ipc_count /\ WithPolicy(r).inbox = inbox
  BY Zenon DEF WithPolicy, Now
<1> QED
  BY Zenon, <1>1, <1>2, <1>3

\* Tools that answer and change nothing.
LEMMA AnswersGood ==
  ASSUME GateInv, NEW a \in Agents,
         \/ DeviceTool(a) \/ ReadTool(a) \/ run_session_read(a) \/ run_tenant(a)
         \/ fleet_ingest(a) \/ run_remote(a) \/ run_mesh(a)
  PROVE  GoodCall(a)
<1>1. \A rc : Quiet(Answer(rc))
  BY Zenon, EffectFields
<1>2. CASE DeviceTool(a)
  BY Zenon, <1>1, <1>2, AnswerGood DEF DeviceTool
<1>3. CASE ReadTool(a)
  BY Zenon, <1>1, <1>3, AnswerGood DEF ReadTool, run_read
<1>4. CASE run_session_read(a) \/ run_tenant(a)
  BY Zenon, <1>1, <1>4, AnswerGood DEF run_session_read, run_tenant
<1>5. CASE run_mesh(a) \/ fleet_ingest(a)
  BY Zenon, <1>1, <1>5, AnswerGood DEF run_mesh, fleet_ingest
<1>6. CASE run_remote(a)
  <2>1. \A on : Quiet([Now EXCEPT !.remote = on])
    BY Zenon DEF Now, Quiet
  <2> QED
    BY ZenonT(60), <1>1, <1>6, <2>1, AnswerGood DEF run_remote
<1> QED
  BY Zenon, <1>2, <1>3, <1>4, <1>5, <1>6

\* The policy tool: whatever rule or file it is given, no tool is denied twice.
LEMMA PolicyToolGood ==
  ASSUME GateInv, NEW a \in Agents, run_policy(a)
  PROVE  GoodCall(a)
<1>1. IsTable(files) /\ PolicyOk(pol) /\ IsCount(ipc_count, QUOTA_IPC_MAX) /\ IsCount(inbox, MSG_CAPACITY)
  BY Zenon DEF GateInv, StateOk
<1>2. ASSUME NEW r, PolicyOk(r.pol), NEW cmd, tool_dispatch(a, "POLICY", cmd, "OK", WithPolicy(r))
      PROVE  GoodCall(a)
  <2>1. /\ WithPolicy(r).files = files /\ WithPolicy(r).pol = r.pol
        /\ WithPolicy(r).ipc = ipc_count /\ WithPolicy(r).inbox = inbox
    BY Zenon, EffectFields
  <2> QED
    BY Zenon, <1>1, <1>2, <2>1, QuietGood
<1>3. ASSUME NEW p PROVE PolicyOk(policy_load(files, pol, p).pol)
  <2>1. IsSeq(ramfs_read(files, p))
    BY Zenon, <1>1, ReadIsText
  <2>2. PolicyOk(LoadLines(pol, ramfs_read(files, p)))
    BY Zenon, <1>1, <2>1, LoadFacts
  <2>3. \A rc, q : Ruled(rc, q).pol = q
    BY Zenon DEF Ruled
  <2> QED
    BY Zenon, <1>1, <2>2, <2>3 DEF policy_load
<1>4. ASSUME NEW t PROVE PolicyOk(policy_deny_tool(pol, t).pol)
  BY Zenon, <1>1, DenyFacts
<1>5. ASSUME NEW t PROVE PolicyOk(policy_allow_tool(pol, t).pol)
  BY Zenon, <1>1, AllowFacts
<1>6. ASSUME NEW t PROVE PolicyOk(policy_net_add_allow(pol, t).pol) /\ PolicyOk(policy_net_set_restrict(pol, t).pol)
  BY Zenon, <1>1, NetFacts
<1> QED
  BY Zenon, <1>2, <1>3, <1>4, <1>5, <1>6 DEF run_policy

\* The quota tool: as many messages as the sender's quota and the receiver's
\* inbox leave, or one that is not charged.
LEMMA BurnKeeps ==
  ASSUME IsCount(ipc_count, QUOTA_IPC_MAX), IsCount(inbox, MSG_CAPACITY),
         NEW a \in Agents, NEW b \in Agents, NEW count \in Nat
  PROVE  LET e == quota_burn_ipc(a, b, count)
         IN  e.files = files /\ e.pol = pol /\ IsCount(e.ipc, QUOTA_IPC_MAX) /\ IsCount(e.inbox, MSG_CAPACITY)
<1> DEFINE S == {count, QUOTA_IPC_MAX - ipc_count[a], MSG_CAPACITY - inbox[b]}
           n == Min(S)
           e == quota_burn_ipc(a, b, count)
           ic == [ipc_count EXCEPT ![a] = @ + n]
           ib == [inbox EXCEPT ![b] = @ + n]
<1>1. QUOTA_IPC_MAX \in Nat /\ MSG_CAPACITY \in Nat
  BY Zenon, GatewayAssumption
<1>2. ipc_count[a] \in 0 .. QUOTA_IPC_MAX /\ inbox[b] \in 0 .. MSG_CAPACITY
  BY Zenon DEF IsCount
<1>3. S \in SUBSET Nat /\ S # {}
  BY <1>1, <1>2
<1>4. n \in S /\ \A y \in S : n <= y
  BY Zenon, <1>3, MinOfNaturals
<1>5. n \in Nat /\ n <= QUOTA_IPC_MAX - ipc_count[a] /\ n <= MSG_CAPACITY - inbox[b]
  BY Zenon, <1>3, <1>4
<1> HIDE DEF n
<1>6. ipc_count[a] + n <= QUOTA_IPC_MAX /\ inbox[b] + n <= MSG_CAPACITY
  BY <1>1, <1>2, <1>5
<1>7. IsCount(ic, QUOTA_IPC_MAX) /\ IsCount(ib, MSG_CAPACITY)
  BY Zenon, <1>1, <1>5, <1>6, CountUp
<1>8. CASE ~agent_has_cap(a, "SEND")
  <2>1. \E rc : e = Answer(rc)
    BY Zenon, <1>8 DEF quota_burn_ipc
  <2>2. Quiet(e)
    BY Zenon, <2>1, EffectFields
  <2> QED
    BY Zenon, <2>2 DEF Quiet
<1>9. CASE agent_has_cap(a, "SEND")
  <2>1. \E rc : e = [Sent(a, b, n) EXCEPT !.rc = rc]
    BY Zenon, <1>9 DEF quota_burn_ipc, n
  <2>2. Sent(a, b, n) = [Now EXCEPT !.inbox = ib, !.ipc = ic]
    BY DEF Sent, Now
  <2>3. e.files = files /\ e.pol = pol /\ e.ipc = ic /\ e.inbox = ib
    BY <2>1, <2>2 DEF Now
  <2> QED
    BY Zenon, <1>7, <2>3
<1> QED
  BY Zenon, <1>8, <1>9

\* quota_notify keeps the counters within their limits.
LEMMA NotifyKeeps ==
  ASSUME IsCount(ipc_count, QUOTA_IPC_MAX), IsCount(inbox, MSG_CAPACITY), NEW a \in Agents, NEW b \in Agents
  PROVE  LET e == quota_notify(a, b)
         IN  e.files = files /\ e.pol = pol /\ IsCount(e.ipc, QUOTA_IPC_MAX) /\ IsCount(e.inbox, MSG_CAPACITY)
<1> DEFINE e == quota_notify(a, b)
           ib == [inbox EXCEPT ![b] = @ + 1]
<1>1. CASE \E rc : e = Answer(rc)
  <2>1. Quiet(e)
    BY Zenon, <1>1, EffectFields
  <2> QED
    BY Zenon, <2>1 DEF Quiet
<1>2. CASE e = [Now EXCEPT !.inbox[b] = @ + 1] /\ inbox[b] # MSG_CAPACITY
  <2>1. inbox[b] \in 0 .. MSG_CAPACITY /\ MSG_CAPACITY \in Nat
    BY Zenon, GatewayAssumption DEF IsCount
  <2>2. inbox[b] + 1 <= MSG_CAPACITY /\ 1 \in Nat
    BY <1>2, <2>1
  <2>3. IsCount(ib, MSG_CAPACITY)
    BY Zenon, <2>1, <2>2, CountUp
  <2>4. e = [Now EXCEPT !.inbox = ib]
    BY <1>2 DEF Now
  <2>5. e.files = files /\ e.pol = pol /\ e.ipc = ipc_count /\ e.inbox = ib
    BY <2>4 DEF Now
  <2> QED
    BY Zenon, <2>3, <2>5
<1> QED
  BY Zenon, <1>1, <1>2 DEF quota_notify

\* The quota tool makes a good call.
LEMMA QuotaToolGood ==
  ASSUME GateInv, NEW a \in Agents, run_quota(a)
  PROVE  GoodCall(a)
<1>1. PolicyOk(pol) /\ IsCount(ipc_count, QUOTA_IPC_MAX) /\ IsCount(inbox, MSG_CAPACITY)
  BY Zenon DEF GateInv, StateOk
<1> DEFINE Ok(e) == e.files = files /\ e.pol = pol /\ IsCount(e.ipc, QUOTA_IPC_MAX) /\ IsCount(e.inbox, MSG_CAPACITY)
<1>2. ASSUME NEW e, Ok(e), NEW cmd, tool_dispatch(a, "QUOTA", cmd, "OK", e)
      PROVE  GoodCall(a)
  BY Zenon, <1>1, <1>2, QuietGood
<1>3. \A rc : Ok(Answer(rc))
  BY Zenon, <1>1, EffectFields DEF Quiet
<1>4. \A n \in 1 .. 2 : n \in Nat
  OBVIOUS
<1>5. \A b \in Agents : \A n \in 1 .. 2 : Ok(quota_burn_ipc(a, b, n))
  BY Zenon, <1>1, <1>4, BurnKeeps
<1>6. \A b \in Agents : Ok(quota_notify(a, b))
  BY Zenon, <1>1, NotifyKeeps
<1> HIDE DEF Ok
<1> QED
  BY Zenon, <1>2, <1>3, <1>5, <1>6 DEF run_quota

\* The write tool: a path that passes policy_fs_write is the agent's own, or
\* one a storage service may write; never an audit log.
LEMMA WriteToolGood ==
  ASSUME GateInv, NEW a \in Agents, WriteTool(a)
  PROVE  GoodCall(a)
<1>1. PICK p \in UserPaths, d \in Contents :
         tool_dispatch(a, "WRITE", "", Permitted(p, policy_fs_write(a, p)), run_write(a, p, d))
  BY Zenon DEF WriteTool
<1>2. IsSeq(d)
  BY Zenon, GatewayAssumption DEF IsSeq
<1> DEFINE e == run_write(a, p, d)
<1>3. OneFile(files, p, e.files) /\ e.pol = pol /\ e.ipc = ipc_count /\ e.inbox = inbox
  BY Zenon, <1>2 DEF run_write, Answer, Now, OneFile
<1>4. Permitted(p, policy_fs_write(a, p)) = "OK" =>
         MayTouch(a, "WRITE", p) /\ PlainFile(p)
  <2> SUFFICES ASSUME Permitted(p, policy_fs_write(a, p)) = "OK"
               PROVE  MayTouch(a, "WRITE", p) /\ PlainFile(p)
    BY Zenon
  <2>1. policy_fs_write(a, p)
    BY Zenon DEF Permitted
  <2>2. OwnPath(a, p) /\ p.root # "audit"
    BY Zenon, <2>1 DEF policy_fs_write, namespace_path_ok, storage_path_ok, OwnPath
  <2> QED
    BY Zenon, <2>2 DEF MayTouch, PlainFile
<1> HIDE DEF e
<1> QED
  BY Zenon, <1>1, <1>3, <1>4, OneFileGood DEF e

\* Private homes and telemetry.
LEMMA HomesGood ==
  ASSUME GateInv, NEW a \in Agents, run_namespace(a) \/ fleet_push(a)
  PROVE  GoodCall(a)
<1>1. CASE run_namespace(a)
  <2>1. ASSUME NEW d \in Contents, tool_dispatch(a, "NAMESPACE", "WRITE", "OK", namespace_write_secret(a, d))
        PROVE  GoodCall(a)
    <3> DEFINE p == namespace_file_for(a, "secret")
               e == namespace_write_secret(a, d)
    <3>1. IsSeq(d)
      BY Zenon, GatewayAssumption DEF IsSeq
    <3>2. OneFile(files, p, e.files) /\ e.pol = pol /\ e.ipc = ipc_count /\ e.inbox = inbox
      BY Zenon, <3>1 DEF namespace_write_secret, Answer, Now, OneFile
    <3>3. MayTouch(a, "NAMESPACE", p) /\ PlainFile(p)
      BY Zenon, OwnPaths, PathRoots DEF MayTouch, PlainFile
    <3> HIDE DEF e, p
    <3> QED
      BY Zenon, <2>1, <3>2, <3>3, OneFileGood DEF e
  <2>2. ASSUME NEW rc, tool_dispatch(a, "NAMESPACE", "PROBE", "OK", Answer(rc))
        PROVE  GoodCall(a)
    BY Zenon, <2>2, EffectFields, AnswerGood
  <2> QED
    BY Zenon, <1>1, <2>1, <2>2 DEF run_namespace
<1>2. CASE fleet_push(a)
  <2> DEFINE json == <<<<"json">>>>
             e == IF PutAccepts(files, FLEET_CACHE, json)
                  THEN [Now EXCEPT !.files = ramfs_put(files, FLEET_CACHE, json)] ELSE Answer("ENOSPC")
  <2>1. tool_dispatch(a, "FLEET", "PUSH", "OK", e)
    BY Zenon, <1>2 DEF fleet_push
  <2>2. IsSeq(json)
    BY Zenon, SeqOne
  <2> HIDE DEF json
  <2>3. OneFile(files, FLEET_CACHE, e.files) /\ e.pol = pol /\ e.ipc = ipc_count /\ e.inbox = inbox
    BY Zenon, <2>2 DEF Answer, Now, OneFile
  <2>4. MayTouch(a, "FLEET", FLEET_CACHE) /\ PlainFile(FLEET_CACHE)
    BY Zenon, OwnPaths, PathRoots DEF MayTouch, PlainFile
  <2> HIDE DEF e
  <2> QED
    BY ZenonT(60), <2>1, <2>3, <2>4, OneFileGood
<1> QED
  BY Zenon, <1>1, <1>2

\* The audit tool: a compaction with any number of lines to keep.
LEMMA AuditToolGood ==
  ASSUME GateInv, NEW a \in Agents, run_audit(a)
  PROVE  GoodCall(a)
<1>1. /\ IsTable(files) /\ AuditsOk(files, trail) /\ SessionsOk(files) /\ PolicyOk(pol)
      /\ IsCount(ipc_count, QUOTA_IPC_MAX) /\ IsCount(inbox, MSG_CAPACITY)
  BY Zenon DEF GateInv, StateOk
<1> DEFINE path == audit_path_for(a)
<1>2. ASSUME NEW keep \in Nat, tool_dispatch(a, "AUDIT", "COMPACT", "OK", WithFiles(audit_compact(files, a, keep)))
      PROVE  GoodCall(a)
  <2> DEFINE r == audit_compact(files, a, keep)
             e == WithFiles(r)
             P == {path}
  <2>1. e.files = r.files /\ e.pol = pol /\ e.ipc = ipc_count /\ e.inbox = inbox
    BY Zenon, EffectFields
  <2>2. /\ IsTable(r.files) /\ ChangesOnly(files, r.files, P)
        /\ OwnLog(a) => AuditOk(r.files, a, trail[a])
    <3>1. IsTable(r.files) /\ ChangesOnly(files, r.files, P)
      BY Zenon, <1>1, <1>2, AuditFileOnly
    <3>2. ASSUME OwnLog(a) PROVE AuditOk(r.files, a, trail[a])
      <4>1. AuditOk(files, a, trail[a])
        BY Zenon, <1>1, <3>2 DEF AuditsOk
      <4> QED
        BY Zenon, <1>1, <1>2, <4>1, AuditCompactOk
    <3> QED
      BY Zenon, <3>1, <3>2
  <2> HIDE DEF e, r
  <2>3. AuditsOk(r.files, trail)
    <3>1. ASSUME NEW b \in Agents, OwnLog(b) PROVE AuditOk(r.files, b, trail[b])
      <4>1. CASE b = a
        BY Zenon, <2>2, <3>1, <4>1
      <4>2. CASE b # a
        <5>1. audit_path_for(b) \notin P
          BY Zenon, <4>2, PathRoots
        <5>2. AuditOk(files, b, trail[b])
          BY Zenon, <1>1, <3>1 DEF AuditsOk
        <5> HIDE DEF P
        <5> QED
          BY ZenonT(60), <1>1, <2>2, <5>1, <5>2, AuditKept
      <4> QED
        BY Zenon, <4>1, <4>2
    <3> QED
      BY Zenon, <1>1, <3>1 DEF AuditsOk
  <2>4. SessionsOk(r.files)
    <3>1. path.root # "session"
      BY Zenon, PathRoots
    <3> QED
      BY ZenonT(60), <1>1, <2>2, <3>1, SessionsKept
  <2>5. StateOk(e.files, trail, e.pol, e.ipc, e.inbox)
    BY ZenonT(60), <1>1, <2>1, <2>2, <2>3, <2>4 DEF StateOk
  <2>6. ChangesOnly(files, e.files, P) /\ \A p \in P : MayTouch(a, "AUDIT", p)
    BY ZenonT(60), <2>1, <2>2, OwnPaths DEF MayTouch
  <2> HIDE DEF P
  <2> QED
    BY Zenon, <1>2, <2>5, <2>6, DispatchGood DEF e, r
<1>3. ASSUME NEW rc, tool_dispatch(a, "AUDIT", "PROBE", "OK", Answer(rc))
      PROVE  GoodCall(a)
  BY ZenonT(60), <1>3, EffectFields, AnswerGood
<1>4. \A keep \in {0, AUDIT_KEEP, AUDIT_KEEP_MAX + 1} : keep \in Nat
  BY AuditSizes
<1> QED
  BY ZenonT(60), <1>2, <1>3, <1>4 DEF run_audit

\* The log of one agent is not that of another.
LEMMA OtherSessions ==
  ASSUME NEW fs, IsTable(fs), NEW gs, IsTable(gs), NEW a, NEW b, b # a,
         ChangesOnly(fs, gs, {build_session_path(a)})
  PROVE  SessionOk(ramfs_read(fs, build_session_path(b))) => SessionOk(ramfs_read(gs, build_session_path(b)))
<1>1. build_session_path(b) \notin {build_session_path(a)}
  BY Zenon, PathRoots
<1>2. ramfs_read(gs, build_session_path(b)) = ramfs_read(fs, build_session_path(b))
  BY <1>1, OtherFiles
<1> QED
  BY Zenon, <1>2

\* A session tool: it may set the log of the agent to one that is good again,
\* and push a message to the agent.
LEMMA SessionToolGood ==
  ASSUME GateInv, NEW a \in Agents, NEW tool, NEW check, NEW e,
         OneFile(files, build_session_path(a), e.files), e.pol = pol, e.ipc = ipc_count,
         IsCount(e.inbox, MSG_CAPACITY),
         SessionOk(ramfs_read(files, build_session_path(a)))
             => SessionOk(ramfs_read(e.files, build_session_path(a))),
         tool_dispatch(a, tool, "", check, e)
  PROVE  GoodCall(a)
<1> DEFINE path == build_session_path(a)
           P == {path}
<1>1. /\ IsTable(files) /\ AuditsOk(files, trail) /\ SessionsOk(files) /\ PolicyOk(pol)
      /\ IsCount(ipc_count, QUOTA_IPC_MAX)
  BY Zenon DEF GateInv, StateOk
<1>2. IsTable(e.files) /\ ChangesOnly(files, e.files, P)
  BY Zenon, <1>1, OneFileChanges
<1>3. AuditsOk(e.files, trail)
  <2>1. path.root # "audit"
    BY Zenon, PathRoots
  <2> QED
    BY Zenon, <1>1, <1>2, <2>1, AuditsKept
<1>4. SessionsOk(e.files)
  <2> SUFFICES ASSUME NEW b \in Agents, OwnSession(b)
               PROVE  SessionOk(ramfs_read(e.files, build_session_path(b)))
    BY Zenon DEF SessionsOk
  <2>1. SessionOk(ramfs_read(files, build_session_path(b)))
    BY Zenon, <1>1 DEF SessionsOk
  <2>2. CASE b = a
    BY Zenon, <2>1, <2>2
  <2>3. CASE b # a
    BY ZenonT(60), <1>1, <1>2, <2>1, <2>3, OtherSessions
  <2> QED
    BY Zenon, <2>2, <2>3
<1>5. StateOk(e.files, trail, e.pol, e.ipc, e.inbox)
  BY ZenonT(60), <1>1, <1>2, <1>3, <1>4 DEF StateOk
<1>6. \A p \in P : MayTouch(a, tool, p)
  BY Zenon, OwnPaths DEF MayTouch
<1> HIDE DEF P
<1> QED
  BY ZenonT(60), <1>2, <1>5, <1>6, DispatchGood

\* Appending to a session: the old log counts twice, which leaves room for a
\* summary.
LEMMA AppendGood ==
  ASSUME GateInv, NEW a \in Agents, run_session_append(a)
  PROVE  GoodCall(a)
<1>1. PICK text \in Texts, given \in BOOLEAN :
         tool_dispatch(a, "SESSION_APPEND", "", policy_session(given), WithFiles(session_append(files, a, text)))
  BY Zenon DEF run_session_append
<1> DEFINE path == build_session_path(a)
           old  == ramfs_read(files, path)
           line == Append(text, NL)
           new  == old \o line
           r    == session_append(files, a, text)
           e    == WithFiles(r)
           w    == ramfs_write(files, path, new)
<1>2. IsTable(files) /\ IsCount(inbox, MSG_CAPACITY)
  BY Zenon DEF GateInv, StateOk
<1>3. e.files = r.files /\ e.pol = pol /\ e.ipc = ipc_count /\ e.inbox = inbox
  BY Zenon, EffectFields
<1>4. IsSeq(text)
  BY Zenon, GatewayAssumption DEF IsSeq
<1>5. IsSeq(old) /\ Len(old) \in Nat /\ Len(text) \in Nat
  BY ZenonT(60), <1>2, <1>4, ReadIsText, SeqShape
<1>6. IsSeq(line) /\ Len(line) = Len(text) + 1
  BY <1>4, SeqAppend
<1>7. IsSeq(new) /\ Len(new) = Len(old) + Len(line)
  <2> HIDE DEF old, line
  <2> QED
    BY <1>5, <1>6, SeqConcat
<1>8. \/ r.files = files
      \/ /\ r.files = w /\ text # <<>> /\ SessionAllows(files, a, old, line)
         /\ ~(Len(old) + Len(line) >= RAMFS_FILE_SIZE) /\ HasSlotFor(files, path)
  BY Zenon DEF session_append, Result
<1>9. OneFile(files, path, r.files)
  BY Zenon, <1>7, <1>8 DEF OneFile
<1>10. ASSUME SessionOk(old) PROVE SessionOk(ramfs_read(r.files, path))
  <2>1. CASE r.files = files
    BY Zenon, <1>10, <2>1
  <2>2. CASE /\ r.files = w /\ text # <<>> /\ SessionAllows(files, a, old, line)
             /\ ~(Len(old) + Len(line) >= RAMFS_FILE_SIZE) /\ HasSlotFor(files, path)
    <3>1. tenant_session_usage(files, a) + (Len(old) + Len(line)) <= TENANT_SESSION_QUOTA
      BY Zenon, <2>2 DEF SessionAllows, tenant_session_allow
    <3>2. tenant_session_usage(files, a) \in Nat /\ tenant_session_usage(files, a) >= Len(old)
      <4>1. tenant_session_usage(files, a) =
              IF ~ramfs_path_exists(files, path) THEN 0 ELSE IF Len(old) = 0 THEN 1 ELSE Len(old)
        BY Zenon DEF tenant_session_usage, FileSize
      <4>2. ~ramfs_path_exists(files, path) => Len(old) = 0
        BY Zenon, SeqEmpty DEF ramfs_read, ramfs_path_exists
      <4> HIDE DEF old, path
      <4> QED
        BY <1>5, <4>1, <4>2
    <3>3. 2 * Len(old) + Len(text) + 1 <= TENANT_SESSION_QUOTA
      <4> HIDE DEF old
      <4> QED
        BY <1>5, <1>6, <3>1, <3>2, SessionSizes
    <3>4. SessionOk(new)
      BY ZenonT(60), <1>5, <1>10, <2>2, <3>3, AppendKeepsOk
    <3>5. Len(new) # 0 /\ ~(Len(new) >= RAMFS_FILE_SIZE) /\ Len(new) < RAMFS_FILE_SIZE /\ Len(old) <= Len(new)
      <4>1. ~(Len(old) + Len(line) >= RAMFS_FILE_SIZE)
        BY Zenon, <2>2
      <4> HIDE DEF old, new
      <4> QED
        BY <1>5, <1>6, <1>7, <4>1, SessionSizes
    <3>6. Sets(files, w, path, Over(old, new))
      BY Zenon, <1>2, <2>2, <3>5, WriteSets
    <3>7. Over(old, new) = new
      <4> HIDE DEF old, new
      <4> QED
        BY ZenonT(60), <1>5, <1>7, <3>5, OverFacts
    <3>8. Sets(files, w, path, new)
      BY ZenonT(60), <3>6, <3>7
    <3> HIDE DEF old, new, w, path
    <3>9. ramfs_read(w, path) = new
      BY ZenonT(60), <1>2, <1>7, <3>5, <3>8, SetsFacts
    <3> QED
      BY Zenon, <2>2, <3>4, <3>9
  <2> QED
    BY Zenon, <1>8, <2>1, <2>2
<1> HIDE DEF e, r, old, path
<1> QED
  BY ZenonT(60), <1>1, <1>2, <1>3, <1>9, <1>10, SessionToolGood DEF e, r, old, path

\* The number of lines of a log.
LinesCounted == \A d : IsSeq(d) => count_lines(d) \in Nat /\ (d = <<>> => count_lines(d) = 0)

\* What a compaction writes is text.
LEMMA CompactedIsText ==
  ASSUME NEW d, IsSeq(d), NEW n \in Nat, n # 0
  PROVE  LET start == line_start_at(d, n)
         IN  IsSeq(Summary(d, start) \o <<NL>> \o SubSeq(d, start + 1, Len(d)))
<1> DEFINE start == line_start_at(d, n)
           s == Summary(d, start)
           rest == SubSeq(d, start + 1, Len(d))
<1>1. Len(d) \in Nat
  BY Zenon, SeqShape
<1>2. start \in 0 .. Len(d)
  <2> DEFINE l == LineEnd(d, 0)
  <2>1. 0 \in 0 .. Len(d)
    BY <1>1
  <2>2. l \in 0 .. Len(d)
    BY Zenon, <2>1, LineEndFacts
  <2>3. start \in l .. Len(d)
    BY Zenon, LineStarts
  <2> HIDE DEF l, start
  <2> QED
    BY SMTT(60), <1>1, <2>2, <2>3
<1> HIDE DEF start
<1>3. start + 1 \in Nat /\ start + 1 >= 1 /\ Len(d) <= Len(d)
  BY <1>1, <1>2
<1>4. IsSeq(s) /\ IsSeq(<<NL>>)
  BY ZenonT(60), <1>2, SummaryFacts, SeqOne
<1>5. IsSeq(rest)
  BY ZenonT(60), <1>1, <1>3, SeqPart
<1> HIDE DEF s, rest
<1>6. IsSeq(s \o <<NL>>)
  BY <1>4, SeqConcat
<1>7. IsSeq(s \o <<NL>> \o rest)
  BY Zenon, <1>5, <1>6, SeqConcat
<1> QED
  BY Zenon, <1>7 DEF s, rest, start

\* Compacting a session, with the summary pushed to the agent's own inbox.
LEMMA CompactGood ==
  ASSUME LinesCounted, GateInv, NEW a \in Agents, run_session_compact(a)
  PROVE  GoodCall(a)
<1> DEFINE path == build_session_path(a)
           d    == ramfs_read(files, path)
           room == inbox[a] < MSG_CAPACITY
           r(keep) == session_compact(files, a, keep, room)
           due(keep) == CompactionDue(files, a, keep)
           e(keep) == [WithFiles(r(keep)) EXCEPT !.inbox[a] = IF due(keep) /\ room THEN @ + 1 ELSE @]
<1>1. PICK keep \in 0 .. 2 : tool_dispatch(a, "SESSION_COMPACT", "", policy_session(keep # 0), e(keep))
  BY Zenon DEF run_session_compact
<1>2. IsTable(files) /\ IsCount(inbox, MSG_CAPACITY)
  BY Zenon DEF GateInv, StateOk
<1>3. IsSeq(d)
  BY Zenon, <1>2, ReadIsText
<1>4. count_lines(d) \in Nat /\ (d = <<>> => count_lines(d) = 0)
  BY Zenon, <1>3 DEF LinesCounted
<1> DEFINE n == count_lines(d) - keep
           start == line_start_at(d, n)
           new == Summary(d, start) \o <<NL>> \o SubSeq(d, start + 1, Len(d))
           w == ramfs_write(files, path, new)
<1>5. due(keep) => n \in Nat /\ n # 0 /\ d # <<>>
  <2>1. due(keep) <=> count_lines(d) > keep
    BY Zenon DEF CompactionDue
  <2> HIDE DEF d
  <2> QED
    BY <1>4, <2>1
<1>6. r(keep).files = IF due(keep) THEN w ELSE files
  BY Zenon DEF session_compact, Result, Compacted
<1>7. /\ e(keep).files = r(keep).files /\ e(keep).pol = pol /\ e(keep).ipc = ipc_count
      /\ e(keep).inbox = [inbox EXCEPT ![a] = IF due(keep) /\ room THEN @ + 1 ELSE @]
  <2> HIDE DEF r, due, room
  <2> QED
    BY Zenon DEF WithFiles, Now
<1> HIDE DEF e, r, n, start
<1>8. IsCount(e(keep).inbox, MSG_CAPACITY)
  <2>1. inbox[a] \in 0 .. MSG_CAPACITY /\ MSG_CAPACITY \in Nat
    BY Zenon, <1>2, GatewayAssumption DEF IsCount
  <2>2. CASE due(keep) /\ room
    <3>1. inbox[a] + 1 <= MSG_CAPACITY /\ 1 \in Nat
      BY <2>1, <2>2
    <3>2. e(keep).inbox = [inbox EXCEPT ![a] = @ + 1]
      BY Zenon, <1>7, <2>2
    <3>3. IsCount([inbox EXCEPT ![a] = @ + 1], MSG_CAPACITY)
      BY ZenonT(60), <1>2, <2>1, <3>1, CountUp
    <3> QED
      BY Zenon, <3>2, <3>3
  <2>3. CASE ~(due(keep) /\ room)
    <3>1. e(keep).inbox = [inbox EXCEPT ![a] = inbox[a]]
      BY Zenon, <1>7, <2>3
    <3>2. e(keep).inbox = inbox
      BY Zenon, <1>2, <3>1 DEF IsCount
    <3> QED
      BY Zenon, <1>2, <3>2
  <2> QED
    BY Zenon, <2>2, <2>3
<1>9. OneFile(files, path, r(keep).files)
  <2>1. CASE due(keep)
    <3>1. IsSeq(new)
      BY ZenonT(60), <1>3, <1>5, <2>1, CompactedIsText DEF start
    <3> QED
      BY ZenonT(60), <1>6, <2>1, <3>1 DEF OneFile
  <2>2. CASE ~due(keep)
    BY Zenon, <1>6, <2>2 DEF OneFile
  <2> QED
    BY Zenon, <2>1, <2>2
<1>10. ASSUME SessionOk(d) PROVE SessionOk(ramfs_read(r(keep).files, path))
  <2>1. CASE due(keep)
    <3>1. IsSeq(new) /\ Len(new) # 0 /\ ~(Len(new) >= RAMFS_FILE_SIZE) /\ SessionOk(Over(d, new))
      BY ZenonT(60), <1>3, <1>5, <1>10, <2>1, CompactKeepsOk DEF start
    <3>2. Named(files, path) # {}
      BY Zenon, <1>5, <2>1 DEF ramfs_read
    <3>3. HasSlotFor(files, path)
      BY Zenon, <3>2 DEF HasSlotFor
    <3> HIDE DEF new
    <3>4. Sets(files, w, path, Over(d, new))
      BY ZenonT(60), <1>2, <3>1, <3>3, WriteSets
    <3> HIDE DEF d, w, path
    <3>5. IsSeq(Over(d, new)) /\ Len(Over(d, new)) < RAMFS_FILE_SIZE
      <4>1. IsSeq(Over(d, new))
        BY Zenon, <1>3, <3>1, OverFacts
      <4>2. Len(Over(d, new)) <= TENANT_SESSION_QUOTA /\ Len(Over(d, new)) \in Nat
        BY ZenonT(60), <3>1, <4>1, SessionFits, SeqShape
      <4>3. Len(Over(d, new)) < RAMFS_FILE_SIZE
        BY <4>2, SessionSizes
      <4> QED
        BY Zenon, <4>1, <4>3
    <3>6. ramfs_read(w, path) = Over(d, new)
      BY ZenonT(60), <1>2, <3>4, <3>5, SetsFacts
    <3> QED
      BY ZenonT(60), <1>6, <2>1, <3>1, <3>6
  <2>2. CASE ~due(keep)
    BY Zenon, <1>6, <1>10, <2>2
  <2> QED
    BY Zenon, <2>1, <2>2
<1> HIDE DEF d, path
<1> QED
  BY ZenonT(60), <1>1, <1>7, <1>8, <1>9, <1>10, SessionToolGood DEF d, path

\* What installing packages keeps from one file to the next.
InstallOk(r) ==
    /\ IsTable(r.files) /\ AuditsOk(r.files, trail) /\ SessionsOk(r.files)
    /\ ChangesOnly(files, r.files, PackagePaths)

\* One more file of a package or of the catalog's records, whether ramfs takes
\* it or not.
LEMMA PutKeeps ==
  ASSUME NEW r, InstallOk(r), NEW p \in PackagePaths, NEW d, IsSeq(d)
  PROVE  InstallOk(Put(r, p, d))
<1> DEFINE gs == Put(r, p, d).files
<1>1. OneFile(r.files, p, gs)
  BY Zenon DEF Put, Result, OneFile
<1> HIDE DEF gs
<1>2. /\ IsTable(r.files) /\ AuditsOk(r.files, trail) /\ SessionsOk(r.files)
      /\ ChangesOnly(files, r.files, PackagePaths)
  BY Zenon DEF InstallOk
<1>3. IsTable(gs) /\ ChangesOnly(r.files, gs, {p})
  BY Zenon, <1>1, <1>2, OneFileChanges
<1>4. AuditsOk(gs, trail) /\ SessionsOk(gs)
  BY Zenon, <1>2, <1>3, AuditsKept, SessionsKept
<1>5. PackagePaths \cup {p} = PackagePaths
  BY Zenon
<1>6. ChangesOnly(files, gs, PackagePaths \cup {p})
  BY Zenon, <1>2, <1>3, ChangesCompose
<1>7. ChangesOnly(files, gs, PackagePaths)
  BY Zenon, <1>5, <1>6
<1> QED
  BY Zenon, <1>3, <1>4, <1>7 DEF InstallOk, gs

\* What packages, the catalog and its records write, and where.
LEMMA PackageFiles ==
  /\ \A pkg \in Packages : pkg.install_path \in PackagePaths /\ IsSeq(pkg.elf)
  /\ \A entry \in Entries :
        /\ entry.install_path \in PackagePaths /\ entry.backup \in PackagePaths
        /\ entry.package.install_path \in PackagePaths /\ IsSeq(entry.package.elf)
  /\ {OTA_PATH_CHANNEL, CATALOG_PATH_ACTIVE, CATALOG_PATH_ROLLBACK} \subseteq PackagePaths
  /\ \A x : IsSeq(<<x>>)
<1>1. \A pkg \in Packages \cup {entry.package : entry \in Entries} : IsSeq(pkg.elf)
  BY Zenon, GatewayAssumption DEF IsSeq
<1>2. \A x : IsSeq(<<x>>)
  BY Zenon, SeqOne
<1> QED
  BY Zenon, <1>1, <1>2 DEF PackagePaths

\* Installing and rolling back, whichever step of several is refused.
LEMMA InstallsKeep ==
  ASSUME InstallOk(Result("OK", files)), NEW recorded, NEW accepted
  PROVE  /\ \A pkg \in Packages : InstallOk(ota_apply_package(Result("OK", files), pkg, accepted))
         /\ InstallOk(ota_channel_set(files))
         /\ \A entry \in Entries : /\ InstallOk(catalog_install(files, entry, recorded, accepted))
                                   /\ InstallOk(catalog_rollback(files, entry, recorded))
<1>1. ASSUME NEW r, InstallOk(r), NEW k, k.install_path \in PackagePaths, IsSeq(k.elf)
      PROVE  InstallOk(ota_apply_package(r, k, accepted))
  <2>1. InstallOk(Put(r, k.install_path, k.elf))
    BY Zenon, <1>1, PutKeeps
  <2>2. InstallOk(Result("EPERM", r.files))
    BY Zenon, <1>1 DEF InstallOk, Result
  <2> QED
    BY Zenon, <2>1, <2>2 DEF ota_apply_package
<1>2. \A r : InstallOk(r) => /\ InstallOk(Put(r, CATALOG_PATH_ACTIVE, <<<<"active">>>>))
                             /\ InstallOk(Put(r, CATALOG_PATH_ROLLBACK, <<<<"rollback">>>>))
  BY Zenon, PutKeeps, PackageFiles
<1>3. ASSUME NEW r, InstallOk(r), NEW q, NEW p \in PackagePaths
      PROVE  InstallOk(Put(r, p, ramfs_read(r.files, q)))
  <2>1. IsSeq(ramfs_read(r.files, q))
    BY Zenon, <1>3, ReadIsText DEF InstallOk
  <2> QED
    BY Zenon, <1>3, <2>1, PutKeeps
<1>4. \A pkg \in Packages : InstallOk(ota_apply_package(Result("OK", files), pkg, accepted))
  BY Zenon, <1>1, PackageFiles
<1>5. InstallOk(ota_channel_set(files))
  BY Zenon, PutKeeps, PackageFiles DEF ota_channel_set
<1>6. ASSUME NEW entry \in Entries PROVE InstallOk(catalog_install(files, entry, recorded, accepted))
  <2> DEFINE start == Result("OK", files)
             noted == IF recorded THEN Put(start, CATALOG_PATH_ROLLBACK, <<<<"rollback">>>>) ELSE start
             saved == IF ramfs_read(files, entry.install_path) = <<>> THEN start
                      ELSE Put(noted, entry.backup, ramfs_read(noted.files, entry.install_path))
             done  == ota_apply_package(saved, entry.package, accepted)
  <2>1. InstallOk(noted)
    BY Zenon, <1>2
  <2> HIDE DEF noted
  <2>2. InstallOk(saved)
    BY Zenon, <1>3, <2>1, PackageFiles
  <2> HIDE DEF saved
  <2>3. InstallOk(done)
    BY Zenon, <1>1, <2>2, PackageFiles
  <2> HIDE DEF done
  <2>4. catalog_install(files, entry, recorded, accepted) = Put(done, CATALOG_PATH_ACTIVE, <<<<"active">>>>)
    BY Zenon DEF catalog_install, done, saved, noted
  <2> QED
    BY Zenon, <1>2, <2>3, <2>4
<1>7. ASSUME NEW entry \in Entries PROVE InstallOk(catalog_rollback(files, entry, recorded))
  <2> DEFINE old == ramfs_read(files, entry.backup)
             to  == IF recorded THEN entry.install_path ELSE entry.backup
             r   == Put(Result("OK", files), to, old)
  <2>1. InstallOk(Result("ENOENT", files))
    BY Zenon DEF InstallOk, Result
  <2>2. InstallOk(r)
    <3>1. to \in PackagePaths
      BY Zenon, PackageFiles
    <3>2. Result("OK", files).files = files
      BY Zenon DEF Result
    <3> HIDE DEF to
    <3> QED
      BY Zenon, <1>3, <3>1, <3>2
  <2> HIDE DEF r
  <2>3. InstallOk(Put(r, CATALOG_PATH_ACTIVE, <<<<"active">>>>))
    BY Zenon, <1>2, <2>2
  <2> QED
    BY Zenon, <2>1, <2>3 DEF catalog_rollback, r, to, old
<1> QED
  BY Zenon, <1>4, <1>5, <1>6, <1>7

\* The tools that install packages.
LEMMA PackagesGood ==
  ASSUME GateInv, NEW a \in Agents, run_ota(a) \/ run_catalog(a)
  PROVE  GoodCall(a)
<1>1. StateOk(files, trail, pol, ipc_count, inbox)
  BY Zenon DEF GateInv
<1>2. InstallOk(Result("OK", files))
  BY Zenon, <1>1 DEF StateOk, InstallOk, Result, ChangesOnly
<1>3. ASSUME NEW tool, Installing(tool), NEW cmd, NEW r, InstallOk(r),
             tool_dispatch(a, tool, cmd, "OK", WithFiles(r))
      PROVE  GoodCall(a)
  <2> DEFINE e == WithFiles(r)
  <2>1. e.files = r.files /\ e.pol = pol /\ e.ipc = ipc_count /\ e.inbox = inbox
    BY Zenon, EffectFields
  <2> HIDE DEF e
  <2>2. StateOk(e.files, trail, e.pol, e.ipc, e.inbox) /\ ChangesOnly(files, e.files, PackagePaths)
    BY Zenon, <1>1, <1>3, <2>1 DEF StateOk, InstallOk
  <2>3. \A p \in PackagePaths : MayTouch(a, tool, p)
    BY Zenon, <1>3 DEF MayTouch
  <2> QED
    BY Zenon, <1>3, <2>2, <2>3, DispatchGood DEF e
<1>4. CASE run_ota(a)
  BY Zenon, <1>2, <1>3, <1>4, InstallsKeep DEF run_ota, Installing
<1>5. CASE run_catalog(a)
  BY Zenon, <1>2, <1>3, <1>5, InstallsKeep DEF run_catalog, Installing
<1> QED
  BY Zenon, <1>4, <1>5

\* Messages: sent within the quota and the capacity of the inbox, and received.
LEMMA MessagesGood ==
  ASSUME GateInv, NEW a \in Agents, agent_recv(a) \/ \E b \in Agents : agent_send(a, b)
  PROVE  GoodCall(a)
<1>1. StateOk(files, trail, pol, ipc_count, inbox) /\ IsCount(tool_count, QUOTA_TOOL_MAX)
  BY Zenon DEF GateInv
<1>2. IsCount(ipc_count, QUOTA_IPC_MAX) /\ IsCount(inbox, MSG_CAPACITY)
  BY Zenon, <1>1 DEF StateOk
<1>3. QUOTA_IPC_MAX \in Nat /\ MSG_CAPACITY \in Nat /\ 1 \in Nat
  BY Zenon, GatewayAssumption
<1>4. /\ call'.agent = a
      /\ UNCHANGED <<files, pol, tool_count, remote_enabled, trail>>
  <2>1. Called(a, "none") /\ UNCHANGED <<files, pol, tool_count, remote_enabled, trail>>
    BY Zenon DEF agent_recv, agent_send
  <2> QED
    BY Zenon, <2>1 DEF Called
<1>5. TouchedPaths = {}
  BY Zenon, <1>4 DEF TouchedPaths
<1>6. IsCount(ipc_count', QUOTA_IPC_MAX) /\ IsCount(inbox', MSG_CAPACITY)
  <2>1. CASE agent_recv(a)
    <3>1. inbox[a] \in 0 .. MSG_CAPACITY /\ inbox[a] > 0
      BY ZenonT(60), <1>2, <2>1 DEF agent_recv, IsCount
    <3>2. inbox[a] - 1 \in 0 .. MSG_CAPACITY
      BY <1>3, <3>1
    <3>3. inbox' = [inbox EXCEPT ![a] = inbox[a] - 1] /\ ipc_count' = ipc_count
      BY Zenon, <2>1 DEF agent_recv
    <3>4. inbox' = [b \in Agents |-> IF b = a THEN inbox[a] - 1 ELSE inbox[b]]
      BY Zenon, <1>2, <3>3 DEF IsCount
    <3>5. inbox' = [b \in Agents |-> inbox'[b]] /\ \A b \in Agents : inbox'[b] \in 0 .. MSG_CAPACITY
      BY ZenonT(60), <1>2, <3>2, <3>4 DEF IsCount
    <3> QED
      BY ZenonT(60), <1>2, <3>3, <3>5 DEF IsCount
  <2>2. CASE \E b \in Agents : agent_send(a, b)
    <3>1. PICK b \in Agents : agent_send(a, b)
      BY Zenon, <2>2
    <3>2. /\ ipc_count[a] \in 0 .. QUOTA_IPC_MAX /\ ipc_count[a] < QUOTA_IPC_MAX
          /\ inbox[b] \in 0 .. MSG_CAPACITY /\ inbox[b] < MSG_CAPACITY
      BY ZenonT(60), <1>2, <3>1 DEF agent_send, IsCount
    <3>3. ipc_count[a] + 1 <= QUOTA_IPC_MAX /\ inbox[b] + 1 <= MSG_CAPACITY
      BY <1>3, <3>2
    <3>4. inbox' = [inbox EXCEPT ![b] = @ + 1] /\ ipc_count' = [ipc_count EXCEPT ![a] = @ + 1]
      BY Zenon, <3>1 DEF agent_send
    <3> QED
      BY ZenonT(60), <1>2, <1>3, <3>3, <3>4, CountUp
  <2> QED
    BY Zenon, <2>1, <2>2
<1>7. GateInv'
  BY Zenon, <1>1, <1>4, <1>6 DEF GateInv, StateOk
<1> QED
  BY Zenon, <1>4, <1>5, <1>7 DEF GoodCall

\* Every step is a good call of some agent.
LEMMA StepGood ==
  ASSUME LinesCounted, GateInv, Next
  PROVE  \E a \in Agents : GoodCall(a)
<1>1. PICK a \in Agents, kind \in mix.kinds : Make(a, kind)
  BY Zenon DEF Next
<1>2. CASE \/ DeviceTool(a) \/ ReadTool(a) \/ run_session_read(a) \/ run_tenant(a)
           \/ fleet_ingest(a) \/ run_remote(a) \/ run_mesh(a)
  BY Zenon, <1>2, AnswersGood
<1>3. CASE WriteTool(a) \/ run_session_append(a) \/ run_session_compact(a) \/ run_audit(a)
  BY ZenonT(60), <1>3, WriteToolGood, AppendGood, CompactGood, AuditToolGood
<1>4. CASE run_namespace(a) \/ run_quota(a) \/ run_policy(a) \/ fleet_push(a)
  BY ZenonT(60), <1>4, HomesGood, QuotaToolGood, PolicyToolGood
<1>5. CASE agent_recv(a) \/ \E b \in Agents : agent_send(a, b)
  BY Zenon, <1>5, MessagesGood
<1>6. CASE run_ota(a) \/ run_catalog(a)
  BY Zenon, <1>6, PackagesGood
<1> QED
  BY ZenonT(60), <1>1, <1>2, <1>3, <1>4, <1>5, <1>6 DEF Make

-----------------------------------------------------------------------------
(* Counting lines and tools                                                *)

\* The newlines that do not end a text.
Ends(d) == {i \in Newlines(d) : i < Len(d)}

\* The lines are counted, and in a text that is not empty are one more than the
\* newlines that do not end it.
LEMMA CountFacts ==
  ASSUME NEW d, IsSeq(d)
  PROVE  /\ IsFiniteSet(Ends(d)) /\ Cardinality(Ends(d)) \in Nat
         /\ d = <<>> => count_lines(d) = 0
         /\ d # <<>> => count_lines(d) = Cardinality(Ends(d)) + 1
<1> DEFINE N == Newlines(d)
           E == Ends(d)
           L == Len(d)
<1>1. L \in Nat /\ DOMAIN d = 1 .. L
  BY Zenon, SeqShape
<1>2. IsFiniteSet(1 .. L)
  <2>1. 1 \in Int /\ L \in Int
    BY <1>1
  <2> QED
    BY Zenon, <2>1, FS_Interval
<1>3. N \in SUBSET (1 .. L) /\ E \in SUBSET (1 .. L)
  BY Zenon, <1>1 DEF Newlines, Ends
<1>4. IsFiniteSet(N) /\ IsFiniteSet(E)
  BY ZenonT(60), <1>2, <1>3, FS_Subset
<1>5. Cardinality(N) \in Nat /\ Cardinality(E) \in Nat
  BY Zenon, <1>4, FS_CardinalityType
<1>6. count_lines(d) = Cardinality(N) + (IF d # <<>> /\ d[L] # NL THEN 1 ELSE 0)
  BY Zenon DEF count_lines
<1>7. ASSUME d = <<>> PROVE count_lines(d) = 0
  <2>1. N = {}
    BY <1>1, <1>3, <1>7
  <2>2. Cardinality(N) = 0
    BY Zenon, <2>1, FS_EmptySet
  <2> QED
    BY <1>6, <1>7, <2>2
<1>8. ASSUME d # <<>> PROVE count_lines(d) = Cardinality(E) + 1
  <2>1. L # 0
    BY <1>8 DEF IsSeq
  <2>2. L \in DOMAIN d
    BY <1>1, <2>1
  <2>3. CASE d[L] = NL
    <3>1. N = E \cup {L} /\ L \notin E
      <4>1. (\A i \in 1 .. L : i < L \/ i = L) /\ ~(L < L)
        <5> HIDE DEF L
        <5> QED
          BY <1>1
      <4> QED
        BY ZenonT(60), <1>1, <2>2, <2>3, <4>1 DEF Newlines, Ends
    <3>2. Cardinality(N) = Cardinality(E) + 1
      BY ZenonT(60), <1>4, <3>1, FS_AddElement
    <3> HIDE DEF N, E, L
    <3> QED
      BY SMTT(60), <1>5, <1>6, <2>3, <3>2
  <2>4. CASE d[L] # NL
    <3>1. N = E
      <4>1. \A i \in 1 .. L : i < L \/ i = L
        <5> HIDE DEF L
        <5> QED
          BY <1>1
      <4> QED
        BY ZenonT(60), <1>1, <2>4, <4>1 DEF Newlines, Ends
    <3> QED
      BY ZenonT(60), <1>6, <1>8, <2>4, <3>1
  <2> QED
    BY Zenon, <2>3, <2>4
<1> QED
  BY ZenonT(60), <1>4, <1>5, <1>7, <1>8

\* count_lines counts, and finds no line in an empty text.
LEMMA LinesAreCounted == LinesCounted
<1> SUFFICES ASSUME NEW d, IsSeq(d)
             PROVE  count_lines(d) \in Nat /\ (d = <<>> => count_lines(d) = 0)
  BY Zenon DEF LinesCounted
<1>1. /\ Cardinality(Ends(d)) \in Nat /\ (d = <<>> => count_lines(d) = 0)
      /\ d # <<>> => count_lines(d) = Cardinality(Ends(d)) + 1
  BY Zenon, CountFacts
<1> QED
  BY <1>1

\* The loop of line_start_at passes one newline a time: behind as many as do
\* not end the text, the last line starts.
LEMMA LastLineStart ==
  ASSUME NEW d, IsSeq(d), Cardinality(Ends(d)) # 0
  PROVE  LET s == line_start_at(d, Cardinality(Ends(d)))
         IN  s \in Ends(d) /\ \A j \in Ends(d) : j <= s
<1> DEFINE E == Ends(d)
           n == Cardinality(E)
           To(i) == {j \in E : j <= i}
<1>1. Len(d) \in Nat /\ DOMAIN d = 1 .. Len(d) /\ IsFiniteSet(E) /\ n \in Nat /\ n # 0
  BY Zenon, SeqShape, CountFacts
<1>2. \A j \in E : j \in Newlines(d) /\ j \in 1 .. Len(d) /\ j < Len(d)
  BY Zenon, <1>1 DEF Ends, Newlines
<1>3. PICK f : Run(f, "line_start_at", d, 0, n) /\ line_start_at(d, n) = f[n]
  BY Zenon, <1>1, LineRuns
<1>4. f[0] = 0 /\ \A m \in 1 .. n : f[m] = LineEnd(d, f[m - 1])
  <2>1. \A v, k : Loop("line_start_at", d, k, v) = LineEnd(d, v)
    BY DEF Loop
  <2> QED
    BY ZenonT(60), <1>3, <2>1 DEF Run
<1> HIDE DEF E, n
<1>5. \A i : To(i) \in SUBSET E /\ IsFiniteSet(To(i)) /\ (Cardinality(E) = Cardinality(To(i)) => E = To(i))
  <2>1. \A i : To(i) \in SUBSET E
    BY Zenon
  <2> HIDE DEF To
  <2> QED
    BY ZenonT(60), <1>1, <2>1, FS_Subset
<1>6. To(0) = {} /\ Cardinality(To(0)) = 0
  <2>1. To(0) = {}
    <3>1. \A j \in 1 .. Len(d) : ~(j <= 0)
      BY <1>1
    <3> QED
      BY ZenonT(60), <1>2, <3>1
  <2> HIDE DEF To
  <2> QED
    BY Zenon, <2>1, FS_EmptySet
<1> DEFINE T == {m \in 0 .. n : f[m] \in {0} \cup E /\ Cardinality(To(f[m])) = m}
<1>7. 0 \in T
  <2>1. 0 \in 0 .. n
    BY <1>1
  <2> HIDE DEF To
  <2> QED
    BY ZenonT(60), <1>4, <1>6, <2>1
<1>8. ASSUME NEW m \in 0 .. n - 1, m \in T PROVE m + 1 \in T
  <2> DEFINE i == f[m]
             x == f[m + 1]
  <2>1. i \in {0} \cup E /\ Cardinality(To(i)) = m
    BY Zenon, <1>8
  <2>2. m + 1 \in 1 .. n /\ (m + 1) - 1 = m /\ m + 1 \in 0 .. n /\ m # n /\ m \in Nat
    BY <1>1
  <2>3. x = LineEnd(d, i)
    BY Zenon, <1>4, <2>2
  <2>4. i \in 0 .. Len(d)
    BY <1>1, <1>2, <2>1
  <2> HIDE DEF i, x
  <2>5. PICK j \in E : ~(j <= i)
    <3>1. To(i) # E
      BY Zenon, <2>1, <2>2 DEF n
    <3> QED
      BY Zenon, <3>1
  <2>6. j \in Newlines(d) /\ j \in 1 .. Len(d) /\ j < Len(d)
    BY Zenon, <1>2
  <2>7. j > i /\ i < Len(d)
    BY SMTT(60), <1>1, <2>4, <2>5, <2>6
  <2>8. x \in i .. Len(d) /\ x > i /\ (x \in Newlines(d) \/ x = Len(d)) /\ \A k \in Newlines(d) : k > i => x <= k
    BY ZenonT(60), <2>3, <2>4, <2>7, LineEndFacts
  <2>9. x <= j
    BY ZenonT(60), <2>6, <2>7, <2>8
  <2>10. x \in Nat /\ x # Len(d) /\ x < Len(d) /\ x > i
    <3>1. x \in i .. Len(d) /\ x > i /\ Len(d) \in Nat /\ j \in 1 .. Len(d) /\ j < Len(d)
      BY ZenonT(60), <1>1, <2>6, <2>8
    <3> QED
      BY SMTT(60), <2>4, <2>9, <3>1
  <2>11. x \in E
    BY ZenonT(60), <2>8, <2>10 DEF E, Ends
  <2>12. To(x) = To(i) \cup {x} /\ x \notin To(i)
    <3>1. ~(x <= i) /\ x <= x
      <4>1. Len(d) \in Nat
        BY Zenon, <1>1
      <4> QED
        BY SMTT(60), <2>4, <2>10, <4>1
    <3>2. ASSUME NEW k \in E PROVE k <= x <=> k <= i \/ k = x
      <4>1. k \in Newlines(d) /\ k \in 1 .. Len(d)
        BY Zenon, <1>2
      <4>2. k > i => x <= k
        BY ZenonT(60), <2>8, <4>1
      <4>3. k \in Nat /\ i \in Nat
        BY SMTT(60), <1>1, <2>4, <4>1
      <4> QED
        BY SMTT(60), <2>10, <4>2, <4>3
    <3> QED
      BY ZenonT(60), <2>11, <3>1, <3>2
  <2> HIDE DEF To
  <2>13. Cardinality(To(x)) = m + 1
    BY ZenonT(60), <1>5, <2>1, <2>12, FS_AddElement
  <2> QED
    BY ZenonT(60), <2>2, <2>11, <2>13 DEF x
<1>9. n \in T
  <2> HIDE DEF T
  <2>1. \A m \in 0 .. n : m \in T
    BY ZenonT(60), <1>1, <1>7, <1>8, UpTo
  <2>2. n \in 0 .. n
    BY <1>1
  <2> QED
    BY Zenon, <2>1, <2>2
<1>10. E = To(f[n])
  <2>1. Cardinality(To(f[n])) = Cardinality(E)
    BY Zenon, <1>9 DEF n
  <2> QED
    BY Zenon, <1>5, <2>1
<1>11. f[n] # 0
  <2>1. Cardinality(To(f[n])) # 0
    BY Zenon, <1>1, <1>9
  <2> HIDE DEF To
  <2> QED
    BY Zenon, <1>6, <2>1
<1> QED
  BY ZenonT(60), <1>3, <1>9, <1>10, <1>11 DEF E, n

\* The last line starts behind the last newline that does not end the log.
LEMMA LastLineFrom ==
  ASSUME NEW d, IsSeq(d)
  PROVE  LET s == line_start_at(d, count_lines(d) - 1)
         IN  /\ s \in Nat /\ s + 1 = IF Ends(d) = {} THEN 1 ELSE Max(Ends(d)) + 1
             /\ d # <<>> => s < Len(d)
<1> DEFINE E == Ends(d)
           n == Cardinality(E)
           c == count_lines(d)
           s == line_start_at(d, c - 1)
<1>1. Len(d) \in Nat /\ DOMAIN d = 1 .. Len(d) /\ IsFiniteSet(E) /\ n \in Nat
  BY Zenon, SeqShape, CountFacts
<1>2. (d = <<>> => c = 0) /\ (d # <<>> => c = n + 1)
  BY Zenon, CountFacts
<1>3. d # <<>> => Len(d) # 0
  BY DEF IsSeq
<1>4. CASE E = {}
  <2>1. n = 0
    BY ZenonT(60), <1>4, FS_EmptySet
  <2> HIDE DEF n, c
  <2>2. c - 1 <= 0
    BY <1>2, <2>1
  <2>3. s = 0
    BY Zenon, <2>2 DEF line_start_at
  <2>4. 0 \in Nat /\ 0 + 1 = 1 /\ (d # <<>> => 0 < Len(d))
    BY <1>1, <1>3
  <2> HIDE DEF E, s
  <2> QED
    BY ZenonT(60), <1>4, <2>3, <2>4 DEF E, s, c
<1>5. CASE E # {}
  <2>1. n # 0
    BY ZenonT(60), <1>1, <1>5, FS_EmptySet
  <2>2. \A j \in E : j \in 1 .. Len(d) /\ j < Len(d)
    BY Zenon, <1>1 DEF Ends, Newlines
  <2>3. d # <<>>
    BY SMTT(60), <1>1, <1>5, <2>2
  <2>4. c - 1 = n
    <3> HIDE DEF n, c
    <3> QED
      BY <1>1, <1>2, <2>3
  <2>5. s \in E /\ \A j \in E : j <= s
    BY ZenonT(60), <2>1, <2>4, LastLineStart
  <2> HIDE DEF E, s
  <2>6. \A j \in E : j \in Nat
    BY <1>1, <2>2
  <2>7. \A j \in E : s >= j
    BY <2>5, <2>6
  <2>8. Max(E) \in E /\ \A j \in E : Max(E) >= j
    BY Zenon, <2>5, <2>7 DEF Max
  <2>9. Max(E) = s
    BY <2>5, <2>6, <2>8
  <2> QED
    BY ZenonT(60), <1>5, <2>2, <2>5, <2>6, <2>9 DEF E, s, c
<1> QED
  BY Zenon, <1>4, <1>5

\* session_read of one line and session_tail agree, but for a last newline.
LEMMA TailAgrees ==
  ASSUME NEW fs, IsTable(fs), NEW a
  PROVE  session_read(fs, a, 1) \in {session_tail(fs, a), Append(session_tail(fs, a), NL)}
<1> DEFINE d == ramfs_read(fs, build_session_path(a))
           L == Len(d)
           s == line_start_at(d, count_lines(d) - 1)
           upto == IF L \in Newlines(d) THEN L - 1 ELSE L
           read == SubSeq(d, s + 1, L)
           tail == SubSeq(d, s + 1, upto)
<1>1. IsSeq(d) /\ L \in Nat
  BY Zenon, ReadIsText
<1>2. s \in Nat /\ (s + 1 = IF Ends(d) = {} THEN 1 ELSE Max(Ends(d)) + 1) /\ (d # <<>> => s < L)
  BY ZenonT(60), <1>1, LastLineFrom
<1>3. ~(1 <= 0)
  OBVIOUS
<1>4. session_read(fs, a, 1) = read
  BY Zenon, <1>3 DEF session_read
<1>5. session_tail(fs, a) = tail
  BY Zenon, <1>2 DEF session_tail, Ends
<1>6. CASE L \notin Newlines(d)
  BY Zenon, <1>4, <1>5, <1>6
<1>7. CASE L \in Newlines(d)
  <2>1. d[L] = NL /\ L \in DOMAIN d
    BY Zenon, <1>7 DEF Newlines
  <2>2. L # 0 /\ d # <<>>
    <3>1. DOMAIN d = 1 .. L
      BY ZenonT(60), <1>1, SeqShape
    <3>2. L # 0
      <4> HIDE DEF L
      <4> QED
        BY SMTT(60), <1>1, <2>1, <3>1
    <3> QED
      BY Zenon, <3>2, SeqEmpty
  <2> HIDE DEF d, s, L
  <2>3. s \in Nat /\ L \in Nat /\ s < L /\ s + 1 \in Nat /\ s + 1 >= 1 /\ L - 1 \in Nat /\ L - 1 <= L /\ L <= L
    BY <1>1, <1>2, <2>2
  <2> DEFINE part == SubSeq(d, s + 1, L - 1)
             whole == SubSeq(d, s + 1, L)
             end == Append(part, NL)
  <2>4. /\ IsSeq(part) /\ Len(part) = IF s + 1 <= L - 1 THEN (L - 1) - (s + 1) + 1 ELSE 0
        /\ \A i \in 1 .. (L - 1) - (s + 1) + 1 : part[i] = d[(s + 1) + i - 1]
    BY ZenonT(60), <1>1, <2>3, SeqPart DEF L
  <2>5. /\ IsSeq(whole) /\ Len(whole) = IF s + 1 <= L THEN L - (s + 1) + 1 ELSE 0
        /\ \A i \in 1 .. L - (s + 1) + 1 : whole[i] = d[(s + 1) + i - 1]
    BY ZenonT(60), <1>1, <2>3, SeqPart DEF L
  <2>6. /\ IsSeq(end) /\ Len(end) = Len(part) + 1
        /\ \A i \in 1 .. Len(part) : end[i] = part[i]
        /\ end[Len(part) + 1] = NL
    BY ZenonT(60), <2>4, SeqAppend
  <2> HIDE DEF part, whole, end
  <2>7. /\ Len(part) = L - s - 1 /\ Len(end) = L - s /\ Len(whole) = L - s
    BY SMTT(60), <2>3, <2>4, <2>5, <2>6
  <2>8. ASSUME NEW i \in 1 .. Len(end) PROVE end[i] = whole[i]
    <3>1. i \in 1 .. L - (s + 1) + 1 /\ (s + 1) + i - 1 = s + i
      BY <2>3, <2>7
    <3>2. whole[i] = d[s + i]
      BY ZenonT(60), <2>5, <3>1
    <3>3. CASE i = L - s
      <4>1. i = Len(part) + 1 /\ s + i = L
        BY SMTT(60), <2>3, <2>7, <3>3
      <4> QED
        BY ZenonT(60), <2>1, <2>6, <3>2, <4>1
    <3>4. CASE i # L - s
      <4>1. i \in 1 .. Len(part) /\ i \in 1 .. (L - 1) - (s + 1) + 1
        BY SMTT(60), <2>3, <2>7, <3>4
      <4> QED
        BY ZenonT(60), <2>4, <2>6, <3>1, <3>2, <4>1
    <3> QED
      BY ZenonT(60), <3>3, <3>4
  <2>9. Len(end) = Len(whole)
    BY Zenon, <2>7
  <2>10. end = whole
    BY ZenonT(60), <2>5, <2>6, <2>8, <2>9, SeqSame
  <2> QED
    BY ZenonT(60), <1>4, <1>5, <1>7, <2>10 DEF part, whole, end, d, s, L
<1> QED
  BY Zenon, <1>6, <1>7

\* The deny list has no entry twice, so that it is as long as it has elements.
LEMMA DenyCounts ==
  ASSUME NEW p, PolicyOk(p)
  PROVE  IsFiniteSet(Range(p.deny)) /\ Cardinality(Range(p.deny)) = Len(p.deny)
<1> DEFINE d == p.deny
           I == 1 .. Len(d)
<1>1. IsSeq(d) /\ \A i, j \in I : d[i] = d[j] => i = j
  BY Zenon DEF PolicyOk
<1>2. Len(d) \in Nat /\ d = [i \in I |-> d[i]] /\ Range(d) = {d[i] : i \in I}
  BY ZenonT(60), <1>1, SeqShape, RangeOfSeq
<1>3. IsFiniteSet(I) /\ Cardinality(I) = Len(d)
  <2>1. 1 \in Int /\ Len(d) \in Int
    BY <1>2
  <2>2. IsFiniteSet(I) /\ Cardinality(I) = IF 1 > Len(d) THEN 0 ELSE Len(d) - 1 + 1
    BY Zenon, <2>1, FS_Interval
  <2> HIDE DEF I
  <2> QED
    BY SMTT(60), <1>2, <2>2
<1> HIDE DEF I
<1>4. d \in [I -> Range(d)]
  BY Zenon, <1>2
<1>5. d \in Surjection(I, Range(d)) /\ d \in Injection(I, Range(d))
  BY Zenon, <1>1, <1>2, <1>4 DEF Surjection, Injection, IsInjective
<1>6. IsFiniteSet(Range(d)) /\ Cardinality(Range(d)) = Cardinality(I)
  BY Zenon, <1>3, <1>5, FS_Surjection
<1> QED
  BY ZenonT(60), <1>3, <1>6

\* A policy file that fits the deny list is in force once it is loaded.
LEMMA LoadInForce ==
  ASSUME NEW fs, IsTable(fs), NEW p, PolicyOk(p), NEW path, ramfs_path_exists(fs, path),
         Cardinality(NamedTools(ramfs_read(fs, path))) <= POLICY_DENY_MAX
  PROVE  Range(policy_load(fs, p, path).pol.deny) = NamedTools(ramfs_read(fs, path))
<1> DEFINE lines == ramfs_read(fs, path)
           q == LoadLines(p, lines)
           named == NamedTools(lines)
           I == 1 .. Len(lines)
           g == [i \in I |-> lines[i][2]]
<1>1. policy_load(fs, p, path).pol = q
  BY Zenon DEF policy_load, Ruled
<1>2. IsSeq(lines) /\ Len(lines) \in Nat
  BY Zenon, ReadIsText
<1>3. PolicyOk(q) /\ Range(q.deny) \subseteq named /\ (Range(q.deny) = named \/ Len(q.deny) >= POLICY_DENY_MAX)
  BY Zenon, <1>2, LoadFacts
<1>4. Cardinality(Range(q.deny)) = Len(q.deny) /\ Len(q.deny) \in Nat /\ Len(q.deny) <= POLICY_DENY_MAX
  BY Zenon, <1>3, DenyCounts, SeqShape DEF PolicyOk
<1>5. IsFiniteSet(named)
  <2>1. Range(lines) = {lines[i] : i \in I}
    BY Zenon, <1>2, RangeOfSeq
  <2>2. IsFiniteSet(I)
    <3>1. 1 \in Int /\ Len(lines) \in Int
      BY <1>2
    <3> QED
      BY Zenon, <3>1, FS_Interval
  <2> HIDE DEF I
  <2> DEFINE R == {g[i] : i \in I}
  <2>3. g \in Surjection(I, R)
    BY Zenon DEF Surjection
  <2>4. named \in SUBSET R
    BY Zenon, <2>1 DEF NamedTools
  <2> HIDE DEF R, g
  <2>5. IsFiniteSet(R)
    BY Zenon, <2>2, <2>3, FS_Surjection
  <2> QED
    BY Zenon, <2>4, <2>5, FS_Subset
<1>6. Cardinality(Range(q.deny)) <= Cardinality(named) /\ (Cardinality(named) = Cardinality(Range(q.deny)) => named = Range(q.deny))
  <2>1. Range(q.deny) \in SUBSET named
    BY Zenon, <1>3
  <2> QED
    BY Zenon, <1>5, <2>1, FS_Subset
<1>7. Cardinality(named) \in Nat /\ Cardinality(named) <= POLICY_DENY_MAX /\ POLICY_DENY_MAX \in Nat
  BY ZenonT(60), <1>5, FS_CardinalityType, GatewayAssumption
<1> HIDE DEF q, named
<1>8. Len(q.deny) >= POLICY_DENY_MAX => Cardinality(named) = Cardinality(Range(q.deny))
  BY <1>4, <1>6, <1>7
<1> QED
  BY Zenon, <1>1, <1>3, <1>6, <1>8 DEF named

-----------------------------------------------------------------------------
(* The theorems                                                            *)

\* At first there are only files of the system.
LEMMA SeededFiles ==
  ASSUME NEW fs, fs = policy_seed(ramfs_init)
  PROVE  IsTable(fs) /\ \A path : path.root # "sys" => Named(fs, path) = {}
<1>1. \A i \in Slots : ramfs_init[i] # NoFile => ramfs_init[i].path.root = "sys"
  <2>1. \A i \in Slots : ramfs_init[i] = IF i <= Len(SysFiles) THEN SysFiles[i] ELSE NoFile
    BY Zenon DEF ramfs_init
  <2>2. \A i \in Slots : i <= Len(SysFiles) => i \in DOMAIN SysFiles
    BY RamfsAssumption DEF Slots
  <2> QED
    BY Zenon, <2>1, <2>2, GatewayAssumption
<1>2. IsTable(fs) /\ \A i \in Slots : fs[i] # ramfs_init[i] => fs[i].path = POLICY_ACTIVE
  <2>1. CASE fs = ramfs_init
    BY Zenon, <2>1, InitIsTable
  <2>2. CASE fs # ramfs_init
    <3>1. fs = ramfs_put(ramfs_init, POLICY_ACTIVE, SeedPolicy)
      BY Zenon, <2>2 DEF policy_seed
    <3>2. PutAccepts(ramfs_init, POLICY_ACTIVE, SeedPolicy)
      BY ZenonT(60), <2>2, <3>1 DEF ramfs_put
    <3>3. Sets(ramfs_init, fs, POLICY_ACTIVE, SeedPolicy)
      BY ZenonT(60), <3>1, <3>2, PutSets
    <3>4. IsSeq(SeedPolicy)
      BY Zenon, GatewayAssumption DEF IsSeq
    <3>5. Len(SeedPolicy) < RAMFS_FILE_SIZE
      <4>1. Len(SeedPolicy) \in 1 .. RAMFS_FILE_SIZE - 1 /\ RAMFS_FILE_SIZE \in Nat
        BY ZenonT(60), <3>2, SessionSizes DEF PutAccepts
      <4> QED
        BY <4>1
    <3>6. IsTable(fs) /\ ChangesOnly(ramfs_init, fs, {POLICY_ACTIVE})
      BY ZenonT(60), <3>3, <3>4, <3>5, InitIsTable, SetsFacts
    <3> QED
      BY Zenon, <3>6 DEF ChangesOnly
  <2> QED
    BY Zenon, <2>1, <2>2
<1>3. \A i \in Slots : fs[i] # NoFile => fs[i].path.root = "sys"
  BY ZenonT(60), <1>1, <1>2, PathRoots
<1> QED
  BY Zenon, <1>2, <1>3 DEF Named

\* The invariant holds from the seeded files on and is kept by every call.
LEMMA GateInductive ==
  /\ Init => GateInv
  /\ GateInv /\ [Next]_vars => GateInv'
<1>1. ASSUME Init PROVE GateInv
  <2>1. IsTable(files) /\ \A path : path.root # "sys" => Named(files, path) = {}
    BY ZenonT(60), <1>1, SeededFiles DEF Init
  <2>2. \A path : path.root # "sys" => ~ramfs_path_exists(files, path) /\ ramfs_read(files, path) = <<>>
    BY Zenon, <2>1 DEF ramfs_path_exists, ramfs_read
  <2>3. AuditsOk(files, trail)
    <3>1. trail = [a \in Agents |-> trail[a]] /\ \A a \in Agents : trail[a] = <<>>
      BY ZenonT(60), <1>1 DEF Init
    <3>2. IsSeq(<<>>) /\ Len(<<>>) <= AUDIT_QUOTA_BYTES /\ 1 .. Len(<<>>) = {}
      BY SeqEmpty, AuditSizes
    <3>3. ASSUME NEW a PROVE AuditOk(files, a, <<>>)
      <4>1. ~ramfs_path_exists(files, audit_path_for(a)) /\ ramfs_read(files, audit_path_for(a)) = <<>>
        BY ZenonT(60), <2>2, PathRoots
      <4> QED
        BY ZenonT(60), <3>2, <4>1 DEF AuditOk
    <3> QED
      BY ZenonT(60), <3>1, <3>3 DEF AuditsOk
  <2>4. SessionsOk(files)
    BY ZenonT(60), <2>2, PathRoots DEF SessionsOk, SessionOk
  <2>5. PolicyOk(pol)
    <3>1. pol = policy_init
      BY Zenon, <1>1 DEF Init
    <3>2. /\ policy_init.deny = <<>> /\ policy_init.net_allow = <<>>
          /\ policy_init = [deny |-> policy_init.deny, net_allow |-> policy_init.net_allow,
                            net_restrict |-> policy_init.net_restrict]
      BY Zenon DEF policy_init
    <3>3. IsSeq(<<>>) /\ Len(<<>>) <= POLICY_DENY_MAX /\ Len(<<>>) <= POLICY_NET_ALLOW_MAX /\ 1 .. Len(<<>>) = {}
      <4>1. POLICY_DENY_MAX \in Nat /\ POLICY_NET_ALLOW_MAX \in Nat
        BY Zenon, GatewayAssumption
      <4> QED
        BY SeqEmpty, <4>1
    <3> QED
      BY ZenonT(60), <3>1, <3>2, <3>3 DEF PolicyOk
  <2>6. IsCount(ipc_count, QUOTA_IPC_MAX) /\ IsCount(inbox, MSG_CAPACITY) /\ IsCount(tool_count, QUOTA_TOOL_MAX)
    <3>1. QUOTA_IPC_MAX \in Nat /\ MSG_CAPACITY \in Nat /\ QUOTA_TOOL_MAX \in Nat
      BY Zenon, GatewayAssumption
    <3>2. 0 \in 0 .. QUOTA_IPC_MAX /\ 0 \in 0 .. MSG_CAPACITY /\ 0 \in 0 .. QUOTA_TOOL_MAX
      BY <3>1
    <3> QED
      BY Zenon, <1>1, <3>2 DEF Init, IsCount
  <2> QED
    BY ZenonT(60), <2>1, <2>3, <2>4, <2>5, <2>6 DEF GateInv, StateOk
<1>2. ASSUME GateInv, [Next]_vars PROVE GateInv'
  <2>1. CASE Next
    BY ZenonT(60), <1>2, <2>1, StepGood, LinesAreCounted DEF GoodCall
  <2>2. CASE UNCHANGED vars
    BY Zenon, <1>2, <2>2 DEF vars, GateInv
  <2> QED
    BY ZenonT(60), <1>2, <2>1, <2>2
<1> QED
  BY ZenonT(60), <1>1, <1>2

\* The counters are within their limits and no path has two slots.
LEMMA GateTypes ==
  ASSUME GateInv
  PROVE  TypeOK
<1>1. IsTable(files) /\ PolicyOk(pol) /\ IsCount(ipc_count, QUOTA_IPC_MAX)
      /\ IsCount(inbox, MSG_CAPACITY) /\ IsCount(tool_count, QUOTA_TOOL_MAX)
  BY Zenon DEF GateInv, StateOk
<1>2. ASSUME NEW i \in Slots, files[i] # NoFile
      PROVE  Named(files, files[i].path) = {i} /\ Len(files[i].data) < RAMFS_FILE_SIZE
  <2> DEFINE path == files[i].path
  <2>1. i \in Named(files, path)
    BY Zenon, <1>2 DEF Named
  <2>2. Named(files, path) = {i} /\ ramfs_read(files, path) = files[i].data
    BY ZenonT(60), <1>1, <2>1, NamedOne
  <2>3. Len(ramfs_read(files, path)) < RAMFS_FILE_SIZE
    BY ZenonT(60), <1>1, ReadIsText
  <2> QED
    BY ZenonT(60), <2>2, <2>3
<1> QED
  BY Zenon, <1>1, <1>2 DEF TypeOK, PolicyOk, IsCount

\* The session logs are within their quota.
LEMMA SessionsWithinQuota ==
  ASSUME GateInv
  PROVE  SessionWithinQuota
<1> SUFFICES ASSUME NEW a \in Agents, OwnSession(a)
             PROVE  tenant_session_usage(files, a) <= TENANT_SESSION_QUOTA
  BY Zenon DEF SessionWithinQuota, OwnSession
<1> DEFINE path == build_session_path(a)
           d == ramfs_read(files, path)
<1>1. IsTable(files) /\ SessionOk(d)
  BY Zenon DEF GateInv, StateOk, SessionsOk
<1>2. IsSeq(d) /\ Len(d) \in Nat
  BY Zenon, <1>1, ReadIsText
<1>3. Len(d) <= TENANT_SESSION_QUOTA
  BY Zenon, <1>1, <1>2, SessionFits
<1>4. tenant_session_usage(files, a) \in {0, 1, Len(d)}
  BY Zenon DEF tenant_session_usage, FileSize
<1>5. 0 <= TENANT_SESSION_QUOTA /\ 1 <= TENANT_SESSION_QUOTA
  BY SessionSizes
<1> HIDE DEF d
<1> QED
  BY ZenonT(60), <1>3, <1>4, <1>5

\* An agent that is not a storage service changes only files of its own,
\* through whichever tool (policy_fs_write and the paths the tools build);
\* telemetry apart, and packages, which run_ota and run_catalog install where
\* they say for an agent with CAP_FS.  An audit log, a private home or a system
\* file of another is changed by packages that name it alone.
THEOREM Isolation == Spec => OwnFilesOnly
<1>1. GateInv /\ [Next]_vars =>
        [calls' # calls =>
           \A p \in TouchedPaths :
               \/ p.id = call'.agent /\ p.root \in {"agent", "ns", "session", "audit"}
               \/ p = FLEET_CACHE
               \/ agent_has_cap(call'.agent, "SVC_STORAGE") /\ p.root \in {"agent", "session"}
               \/ call'.installs /\ agent_has_cap(call'.agent, "FS") /\ p \in PackagePaths]_vars
  BY Zenon, StepGood, LinesAreCounted DEF GoodCall, OwnPath
<1> QED
  BY <1>1, GateInductive, PTL DEF Spec, OwnFilesOnly

\* No call is missing from the middle or the end of an audit log, whatever
\* audit_write and audit_compact did to it and whenever a slot ran out, unless
\* a package names the log as the place to install to.
THEOREM NewestCallsLogged == Spec => []AuditTrail
<1>1. GateInv => AuditTrail
  <2> SUFFICES ASSUME GateInv, NEW a \in Agents, OwnLog(a)
               PROVE  LET lines == Lines(audit_tail(files, a))
                          kept == Len(trail[a]) - Len(lines)
                      IN  /\ kept >= 0 /\ lines = SubSeq(trail[a], kept + 1, Len(trail[a]))
                          /\ trail[a] # <<>> /\ lines = <<>> => FreeSlots(files) = {}
    BY Zenon DEF AuditTrail, OwnLog
  <2>1. IsTable(files) /\ AuditOk(files, a, trail[a])
    BY ZenonT(60) DEF GateInv, StateOk, AuditsOk
  <2> QED
    BY ZenonT(60), <2>1, TrailKept
<1> QED
  BY <1>1, GateInductive, PTL DEF Spec

\* A policy file that fits the deny list is in force once policy_load has read
\* it, whatever was denied before, and policy_allow_tool lifts a denial.
THEOREM PolicyEnforced == Spec => []PolicyInForce
<1>1. GateInv => PolicyInForce
  <2> SUFFICES ASSUME GateInv PROVE PolicyInForce
    OBVIOUS
  <2>1. IsTable(files) /\ PolicyOk(pol)
    BY Zenon DEF GateInv, StateOk
  <2>2. LoadedPolicyInForce
    BY Zenon, <2>1, LoadInForce DEF LoadedPolicyInForce, NamedTools
  <2>3. AllowLifts
    BY Zenon, <2>1, AllowFacts DEF AllowLifts
  <2> QED
    BY Zenon, <2>2, <2>3 DEF PolicyInForce
<1> QED
  BY <1>1, GateInductive, PTL DEF Spec

\* session_append and session_compact keep every session log within its quota,
\* if no storage service and no package is given its path; session_read and session_tail
\* agree on the last line; every counter is within its limit.
THEOREM SessionsInBounds == Spec => []GatewayInv
<1>1. GateInv => GatewayInv
  <2> SUFFICES ASSUME GateInv PROVE GatewayInv
    OBVIOUS
  <2>1. TailIsLastLine
    <3>1. IsTable(files)
      BY Zenon DEF GateInv, StateOk
    <3> QED
      BY ZenonT(60), <3>1, TailAgrees DEF TailIsLastLine
  <2> QED
    BY ZenonT(60), <2>1, GateTypes, SessionsWithinQuota DEF GatewayInv
<1> QED
  BY <1>1, GateInductive, PTL DEF Spec
=============================================================================
