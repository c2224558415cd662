---------------------------- MODULE MemoryProofs ----------------------------
(***************************************************************************)
(* Proofs about Memory: frames are apart, pages are private, programs are  *)
(* loaded whole and faults are mended, for every heap, page and stack size *)
(* and any number of agents.                                               *)
(*                                                                         *)
(* The steps of Next are of six kinds (Kind).  Each kind keeps MemInv; and *)
(* each operation, whichever of its outcomes it has, is of one of the      *)
(* kinds.  So an invariant is looked at six times and not once per         *)
(* operation and outcome.  The library's theorems come in last: what the   *)
(* loader's loops need of them, WellOrdered, is an assumption until then.  *)
(***************************************************************************)
EXTENDS Memory, TLAPS

-----------------------------------------------------------------------------
(* What a step does to the memory: the kinds of steps                      *)

\* The sizes are numbers, and no slot is numbered like nobody.
LEMMA Sizes ==
  /\ HEAP_SIZE \in Nat \ {0} /\ PT_PAGES \in Nat \ {0} /\ HEAP_PAGES \in Nat \ {0}
  /\ PAGE_BYTES \in Nat \ {0} /\ PAGE \in Nat \ {0} /\ STACK \in Nat /\ MAX_STEPS \in Nat
  /\ Agents \subseteq Nat /\ None \notin Agents /\ None \notin Nat
BY MemorySizes DEF None

Segments == [vaddr : Nat, memsz : Nat, filesz : Nat, cut : BOOLEAN]

Bytes == [0 .. PAGE_BYTES - 1 -> Nat]

Tables == UNION {[D -> Bytes] : D \in SUBSET Int}

Images == [rc : {"OK", "ENOSPC", "EINVAL"}, ptr : 0 .. HEAP_SIZE, tab : Tables]

Keeps(t, u) == DOMAIN t \subseteq DOMAIN u /\ \A v \in DOMAIN t : u[v] = t[v]

\* The pages of a segment from the first on, n of them, are mapped and filled.
Holds(tab, seg, n) ==
    \A j \in 0 .. n - 1 :
        LET vp == (seg.vaddr \div PAGE_BYTES) + j IN vp \in DOMAIN tab /\ tab[vp] = PageOf(seg, vp)

\* The type of what TypeOK leaves out.
Fields ==
    /\ heap_mapped \in [Agents -> Nat]
    /\ program \in [Agents -> Seq(Segments)] /\ shared \in Tables

Types == TypeOK /\ Fields

\* The agent that runs, and its heap.
LEMMA CurFacts ==
  ASSUME Types
  PROVE  /\ cur # None => cur \in Agents /\ cur \in Live /\ state[cur] = "RUNNABLE"
         /\ \A a \in Agents : heap[a] \in [Pages -> Entries] /\ heap_mapped[a] \in Nat
         /\ \A a \in Agents, k \in Pages :
               /\ heap[a][k] \in Entries
               /\ heap[a][k].pa \in -1 .. HEAP_SIZE /\ heap[a][k].w \in BOOLEAN
               /\ Mapped(heap[a][k]) => heap[a][k].pa \in 0 .. HEAP_SIZE
<1>1. cur # None => cur \in Agents /\ cur \in Live /\ state[cur] = "RUNNABLE"
  BY Zenon DEF Types, TypeOK, Live
<1>2. \A a \in Agents : heap[a] \in [Pages -> Entries] /\ heap_mapped[a] \in Nat
  BY Zenon DEF Types, Fields, TypeOK
<1>3. \A a \in Agents, k \in Pages : heap[a][k] \in Entries
  BY Zenon, <1>2
<1>4. \A e \in Entries : /\ e.pa \in -1 .. HEAP_SIZE /\ e.w \in BOOLEAN
                         /\ Mapped(e) => e.pa \in 0 .. HEAP_SIZE
  BY Sizes DEF Entries, Mapped, None
<1> QED  BY Zenon, <1>1, <1>2, <1>3, <1>4

Counters == heap_ptr' \in heap_ptr .. HEAP_SIZE /\ pt_next' \in 0 .. PT_PAGES /\ steps' \in 0 .. MAX_STEPS

\* No memory changes hands; the agent that runs may stop.
Quiet ==
    /\ UNCHANGED <<stack, tf, heap, heap_mapped, mem, tlb, val, loose>>
    /\ \/ UNCHANGED <<state, cur>>
       \/ cur # None /\ state' = [state EXCEPT ![cur] = "ZOMBIE"] /\ cur' = None

\* A slot is occupied, with a stack and a trap frame behind it of what was free.
Enters ==
    /\ UNCHANGED <<mem, cur, tlb>>
    /\ \E a \in Agents \ Live : \E s, prog :
          /\ Occupy(a, s, prog)
          /\ s.stack \in Nat /\ s.tf \in Nat /\ heap_ptr <= s.stack
          /\ s.stack + STACK <= s.tf /\ s.tf < heap_ptr'

\* The processor looks a translation up, drops one or all.
Looks ==
    /\ UNCHANGED <<heap_ptr, state, stack, tf, heap, heap_mapped, mem, val, loose>>
    /\ \/ cur' = cur /\ \E k \in Pages : tlb' = [tlb EXCEPT ![k] = Unmapped]
       \/ cur' = cur /\ cur # None /\ \E k \in Pages : tlb' = [tlb EXCEPT ![k] = heap[cur][k]]
       \/ cur' \in Live /\ tlb' = [k \in Pages |-> Unmapped]

\* A store to page k.
Stores(k, v) ==
    LET e == Translation(k, TRUE)
    IN  /\ cur # None /\ Mapped(e) /\ e.w
        /\ tlb' = [tlb EXCEPT ![k] = e]
        /\ mem' = [mem EXCEPT ![e.pa] = v]
        /\ val' = [val EXCEPT ![cur][k] = v]
        /\ loose' = IF e = heap[cur][k] THEN loose
                    ELSE loose \cup {<<cur, j>> : j \in {i \in Pages : e.pa \in {heap[cur][i].pa, tlb[i].pa}}}
        /\ UNCHANGED <<heap_ptr, state, stack, tf, heap, heap_mapped, cur>>

\* Page k of the agent that runs gets a frame of its own.
Gets(k, p) ==
    /\ cur # None /\ p + PAGE <= heap_ptr'
    /\ heap' = [heap EXCEPT ![cur] = [heap[cur] EXCEPT ![k] = pte(p, TRUE)]]
    /\ heap_mapped' = [heap_mapped EXCEPT ![cur] =
                          IF Mapped(heap[cur][k]) THEN heap_mapped[cur] ELSE heap_mapped[cur] + 1]
    /\ mem' = IF Mapped(heap[cur][k]) THEN [mem EXCEPT ![p] = mem[heap[cur][k].pa]] ELSE mem
    /\ UNCHANGED <<state, stack, tf, cur, tlb, val, loose>>

\* Page dst of the agent that runs is put on the frame of src.
Aliases(dst, src) ==
    /\ cur # None /\ dst # src /\ Mapped(heap[cur][src])
    /\ Mapped(heap[cur][dst]) => heap[cur][dst].pa = heap[cur][src].pa
    /\ heap' = [heap EXCEPT ![cur] = Aliased(heap[cur], dst, src)]
    /\ heap_mapped' = [heap_mapped EXCEPT ![cur] = CountAlias(cur, dst)]
    /\ val' = [val EXCEPT ![cur][dst] = val[cur][src]]
    /\ loose' = IF <<cur, src>> \in loose THEN loose \cup {<<cur, dst>>} ELSE loose
    /\ UNCHANGED <<heap_ptr, state, stack, tf, mem, cur, tlb>>

\* What was loaded stays, and a program that enters was loaded whole.
Loads ==
    /\ shared' \in Tables /\ Keeps(shared, shared')
    /\ program' \in [Agents -> Seq(Segments)]
    /\ \A a \in Agents : a \in Live' =>
          \/ a \in Live /\ program'[a] = program[a]
          \/ \A i \in DOMAIN program'[a] :
                Holds(shared', program'[a][i], SegmentPages(program'[a][i]))

Kind ==
    /\ Counters /\ Loads
    /\ \/ Quiet \/ Enters \/ Looks
       \/ \E k \in Pages, v \in Values : Stores(k, v)
       \/ \E k \in Pages, p \in heap_ptr .. HEAP_SIZE : Gets(k, p)
       \/ \E dst, src \in Pages : Aliases(dst, src)

\* Occupying a slot changes that slot alone.
EntersSlot(a, s, prog) ==
    /\ stack'[a] = s.stack /\ tf'[a] = s.tf /\ heap_mapped'[a] = 0 /\ program'[a] = prog
    /\ heap'[a] = [k \in Pages |-> Unmapped] /\ val'[a] = [k \in Pages |-> 0]

SlotKept(b) ==
    /\ stack'[b] = stack[b] /\ tf'[b] = tf[b] /\ heap'[b] = heap[b] /\ val'[b] = val[b]
    /\ heap_mapped'[b] = heap_mapped[b] /\ program'[b] = program[b] /\ state'[b] = state[b]

OthersKept(a) == \A b \in Agents : b # a => SlotKept(b)

LoosePages(a) == {k \in Pages : <<a, k>> \in loose}

\* What Occupy leaves: one more agent lives, its slot is as new, and the others are as
\* they were.
LEMMA OccupyFacts ==
  ASSUME Types, NEW a \in Agents, NEW s, NEW prog, Occupy(a, s, prog)
  PROVE  /\ Live' = Live \cup {a}
         /\ EntersSlot(a, s, prog)
         /\ OthersKept(a)
         /\ LoosePages(a)' = {} /\ \A b \in Agents : b # a => LoosePages(b)' = LoosePages(b)
<1>1. /\ DOMAIN state = Agents /\ DOMAIN stack = Agents /\ DOMAIN tf = Agents /\ DOMAIN heap = Agents
      /\ DOMAIN val = Agents /\ DOMAIN heap_mapped = Agents /\ DOMAIN program = Agents
  BY Zenon DEF Types, TypeOK, Fields
<1>2. Live' = Live \cup {a}
  BY Zenon, <1>1 DEF Occupy, Live
<1>3. loose' = {p \in loose : p[1] # a}
  BY Zenon DEF Occupy
<1>4. EntersSlot(a, s, prog)
  BY Zenon, <1>1 DEF Occupy, EntersSlot
<1>5. OthersKept(a)
  BY Zenon, <1>1 DEF Occupy, SlotKept, OthersKept
<1>6. \A b, k : <<b, k>>[1] = b
  BY Zenon
<1>7. LoosePages(a)' = {} /\ \A b \in Agents : b # a => LoosePages(b)' = LoosePages(b)
  BY Zenon, <1>3, <1>6 DEF LoosePages
<1> QED  BY Zenon, <1>2, <1>4, <1>5, <1>7

\* A step in which no one enters keeps the agents that live, and what runs.
LEMMA LiveKept ==
  ASSUME Types, \/ UNCHANGED state
                \/ cur # None /\ state' = [state EXCEPT ![cur] = "ZOMBIE"]
  PROVE  Live' \subseteq Live
<1>1. DOMAIN state = Agents
  BY Zenon DEF Types, TypeOK
<1>2. CASE UNCHANGED state
  BY Zenon, <1>2 DEF Live
<1>3. CASE cur # None /\ state' = [state EXCEPT ![cur] = "ZOMBIE"]
  <2>1. \A a \in Agents : state'[a] = "RUNNABLE" => state[a] = "RUNNABLE"
    BY <1>1, <1>3
  <2> QED  BY Zenon, <2>1 DEF Live
<1> QED  BY Zenon, <1>2, <1>3

-----------------------------------------------------------------------------
(* What holds in every state                                               *)

\* Stacks, trap frames and pages of heaps lie below the pointer of the
\* allocator, the trap frame behind the stack.
Below ==
    \A a \in Live :
        /\ stack[a] \in Nat /\ stack[a] + STACK <= tf[a] /\ tf[a] < heap_ptr
        /\ \A k \in Pages : Mapped(heap[a][k]) => heap[a][k].pa + PAGE <= heap_ptr

FrameInv == Below /\ OwnFrames

\* What is not handed out yet was never written, and a page that is not mapped
\* was never stored to.
Untouched ==
    /\ \A f \in heap_ptr .. HEAP_SIZE : mem[f] = 0
    /\ \A a \in Live, k \in Pages : ~Mapped(heap[a][k]) => val[a][k] = 0

\* A page that may be written has its frame to itself.
Alone ==
    \A a \in Live, k, i \in Pages :
        heap[a][k].w => Mapped(heap[a][k]) /\ (i # k => heap[a][i].pa # heap[a][k].pa)

\* A translation the processor keeps is of a page that is mapped; its frame is no
\* page's that may be written, except that very page's, and no other agent's.
Recalled ==
    cur # None =>
        \A k \in Pages : Mapped(tlb[k]) =>
            /\ Mapped(heap[cur][k]) /\ tlb[k].pa < heap_ptr
            /\ \A i \in Pages : i # k /\ heap[cur][i].w => heap[cur][i].pa # tlb[k].pa
            /\ \A b \in Live, i \in Pages : b # cur => heap[b][i].pa # tlb[k].pa

CowInv == Untouched /\ Alone /\ Recalled /\ CowPrivate

\* The pages of what was loaded into an agent are in the tables.
LoaderInv ==
    \A a \in Live : \A i \in DOMAIN program[a] :
        Holds(shared, program[a][i], SegmentPages(program[a][i]))

\* What holds of the memory in every state that can be reached.
MemInv == Types /\ HeapCounted /\ FrameInv /\ CowInv /\ LoaderInv

-----------------------------------------------------------------------------
(* Types are kept by every kind of step                                    *)

\* Entries of a page table.
LEMMA EntryTypes ==
  /\ Unmapped \in Entries /\ ~Mapped(Unmapped) /\ Unmapped.pa = None /\ Unmapped.w = FALSE
  /\ \A p \in 0 .. HEAP_SIZE, w \in BOOLEAN :
        pte(p, w) \in Entries /\ Mapped(pte(p, w)) /\ pte(p, w).pa = p /\ pte(p, w).w = w
BY Sizes DEF Entries, Unmapped, pte, Mapped, None

\* The types, at the start.
LEMMA TypesInit ==
  ASSUME Init
  PROVE  Types
<1>1. heap_ptr \in 0 .. HEAP_SIZE /\ pt_next \in 0 .. PT_PAGES /\ steps \in 0 .. MAX_STEPS
  BY Sizes DEF Init
<1>2. None \in -1 .. HEAP_SIZE
  BY Sizes DEF None
<1>3. stack \in [Agents -> -1 .. HEAP_SIZE] /\ tf \in [Agents -> -1 .. HEAP_SIZE]
  BY <1>2, Zenon DEF Init
<1>4. heap \in [Agents -> [Pages -> Entries]] /\ tlb \in [Pages -> Entries]
  BY Zenon, EntryTypes DEF Init
<1>5. TypeOK
  BY Zenon, <1>1, <1>3, <1>4 DEF Init, TypeOK
<1>6. shared \in Tables
  <2>1. <<>> \in [{} -> Bytes]
    OBVIOUS
  <2>2. {} \in SUBSET Int
    OBVIOUS
  <2> QED  BY Zenon, <2>1, <2>2 DEF Init, Tables
<1>7. <<>> \in Seq(Segments) /\ 0 \in Nat
  OBVIOUS
<1> QED  BY Zenon, <1>5, <1>6, <1>7 DEF Init, Types, Fields

\* The part of the type that a step's kind decides.
Shape ==
    /\ state \in [Agents -> {"UNUSED", "RUNNABLE", "ZOMBIE"}]
    /\ stack \in [Agents -> -1 .. HEAP_SIZE] /\ tf \in [Agents -> -1 .. HEAP_SIZE]
    /\ heap \in [Agents -> [Pages -> Entries]] /\ heap_mapped \in [Agents -> Nat]
    /\ mem \in [0 .. HEAP_SIZE -> Values \cup {0}] /\ val \in [Agents -> [Pages -> Values \cup {0}]]
    /\ cur \in Live \cup {None} /\ tlb \in [Pages -> Entries] /\ loose \subseteq Agents \X Pages

\* The types, over a step.
LEMMA TypesStep ==
  ASSUME Types, Kind
  PROVE  Types'
<1>1. /\ heap_ptr \in 0 .. HEAP_SIZE /\ heap_ptr' \in heap_ptr .. HEAP_SIZE
      /\ pt_next' \in 0 .. PT_PAGES /\ steps' \in 0 .. MAX_STEPS
      /\ shared' \in Tables /\ program' \in [Agents -> Seq(Segments)]
  BY Zenon DEF Kind, Counters, Loads, Types, TypeOK
<1>2. heap_ptr' \in 0 .. HEAP_SIZE
  BY Sizes, <1>1
<1>3. Shape
  BY Zenon DEF Types, TypeOK, Fields, Shape
<1>4. /\ cur # None => cur \in Agents
      /\ \A a \in Agents, k \in Pages : heap[a][k] \in Entries
      /\ \A a \in Agents : heap[a] \in [Pages -> Entries] /\ heap_mapped[a] \in Nat
  BY Zenon, CurFacts
<1> SUFFICES Shape'
  BY Zenon, <1>1, <1>2 DEF Types, TypeOK, Fields, Shape
<1>5. CASE Quiet
  <2>1. CASE UNCHANGED <<state, cur>>
    <3>1. Live' = Live
      BY Zenon, <2>1 DEF Live
    <3> QED  BY Zenon, <1>3, <1>5, <2>1, <3>1 DEF Quiet, Shape
  <2>2. CASE cur # None /\ state' = [state EXCEPT ![cur] = "ZOMBIE"] /\ cur' = None
    BY Zenon, <1>3, <1>4, <1>5, <2>2 DEF Quiet, Shape
  <2> QED  BY Zenon, <1>5, <2>1, <2>2 DEF Quiet
<1>6. CASE Enters
  <2> PICK a \in Agents \ Live : \E s, prog :
          /\ Occupy(a, s, prog)
          /\ s.stack \in Nat /\ s.tf \in Nat /\ heap_ptr <= s.stack
          /\ s.stack + STACK <= s.tf /\ s.tf < heap_ptr'
    BY Zenon, <1>6 DEF Enters
  <2> PICK s, prog :
          /\ Occupy(a, s, prog)
          /\ s.stack \in Nat /\ s.tf \in Nat /\ heap_ptr <= s.stack
          /\ s.stack + STACK <= s.tf /\ s.tf < heap_ptr'
    OBVIOUS
  <2>1. s.stack \in -1 .. HEAP_SIZE /\ s.tf \in -1 .. HEAP_SIZE /\ 0 \in Nat
    <3>1. HEAP_SIZE \in Nat /\ STACK \in Nat /\ heap_ptr' \in Int /\ heap_ptr' <= HEAP_SIZE
      BY Sizes, <1>2
    <3>2. \A x, y \in Nat : x + STACK <= y /\ y < heap_ptr' => x \in -1 .. HEAP_SIZE /\ y \in -1 .. HEAP_SIZE
      BY <3>1
    <3> QED  BY Zenon, <3>2
  <2>2. a \in Agents
    BY Zenon
  <2>3. Live' = Live \cup {a}
    BY Zenon, <2>2, OccupyFacts
  <2>4. [k \in Pages |-> Unmapped] \in [Pages -> Entries] /\ [k \in Pages |-> 0] \in [Pages -> Values \cup {0}]
    BY Zenon, EntryTypes
  <2>5. UNCHANGED <<mem, cur, tlb>>
    BY Zenon, <1>6 DEF Enters
  <2>6. loose' \subseteq loose
    BY Zenon DEF Occupy
  <2>7. /\ state' \in [Agents -> {"UNUSED", "RUNNABLE", "ZOMBIE"}]
        /\ stack' \in [Agents -> -1 .. HEAP_SIZE] /\ tf' \in [Agents -> -1 .. HEAP_SIZE]
        /\ heap_mapped' \in [Agents -> Nat]
    BY Zenon, <1>3, <2>1 DEF Occupy, Shape
  <2>8. heap' \in [Agents -> [Pages -> Entries]] /\ val' \in [Agents -> [Pages -> Values \cup {0}]]
    BY Zenon, <1>3, <2>4 DEF Occupy, Shape
  <2> QED  BY Zenon, <1>3, <2>3, <2>5, <2>6, <2>7, <2>8 DEF Shape
<1>7. CASE Looks
  <2>1. Live' = Live
    BY Zenon, <1>7 DEF Looks, Live
  <2>2. tlb' \in [Pages -> Entries]
    BY ZenonT(60), <1>3, <1>4, <1>7, EntryTypes DEF Looks, Shape
  <2>3. cur' \in Live' \cup {None}
    BY Zenon, <1>3, <1>7, <2>1 DEF Looks, Shape
  <2> QED  BY Zenon, <1>3, <1>7, <2>2, <2>3 DEF Looks, Shape
<1>8. CASE \E k \in Pages, v \in Values : Stores(k, v)
  <2> PICK k \in Pages, v \in Values : Stores(k, v)
    BY Zenon, <1>8
  <2> DEFINE e == Translation(k, TRUE)
  <2>1. e \in Entries
    BY Zenon, <1>3, <1>4 DEF Translation, Stores, Shape
  <2>2. /\ cur # None /\ tlb' = [tlb EXCEPT ![k] = e] /\ mem' = [mem EXCEPT ![e.pa] = v]
        /\ val' = [val EXCEPT ![cur][k] = v]
        /\ loose' \subseteq loose \cup {<<cur, j>> : j \in Pages}
        /\ UNCHANGED <<state, stack, tf, heap, heap_mapped, cur>>
    BY Zenon DEF Stores
  <2> HIDE DEF e
  <2>3. Live' = Live
    BY Zenon, <2>2 DEF Live
  <2>4. tlb' \in [Pages -> Entries] /\ mem' \in [0 .. HEAP_SIZE -> Values \cup {0}]
    BY Zenon, <1>3, <2>1, <2>2 DEF Shape
  <2>5. val' \in [Agents -> [Pages -> Values \cup {0}]]
    <3>1. [val[cur] EXCEPT ![k] = v] \in [Pages -> Values \cup {0}]
      BY Zenon, <1>3, <1>4, <2>2 DEF Shape
    <3> QED  BY Zenon, <1>3, <2>2, <3>1 DEF Shape
  <2>6. loose' \subseteq Agents \X Pages
    <3>1. loose \subseteq Agents \X Pages /\ cur \in Agents
      BY Zenon, <1>3, <1>4, <2>2 DEF Shape
    <3> QED  BY <2>2, <3>1
  <2> QED  BY Zenon, <1>3, <2>2, <2>3, <2>4, <2>5, <2>6 DEF Shape
<1>9. CASE \E k \in Pages, p \in heap_ptr .. HEAP_SIZE : Gets(k, p)
  <2> PICK k \in Pages, p \in heap_ptr .. HEAP_SIZE : Gets(k, p)
    BY Zenon, <1>9
  <2>1. p \in 0 .. HEAP_SIZE
    BY <1>1
  <2>2. Live' = Live /\ cur # None /\ UNCHANGED <<state, stack, tf, cur, tlb, val, loose>>
    BY Zenon DEF Gets, Live
  <2>3. heap' \in [Agents -> [Pages -> Entries]]
    <3>1. [heap[cur] EXCEPT ![k] = pte(p, TRUE)] \in [Pages -> Entries]
      BY Zenon, <1>4, <2>1, <2>2, EntryTypes
    <3> QED  BY Zenon, <1>3, <3>1 DEF Shape, Gets
  <2>4. heap_mapped' \in [Agents -> Nat]
    <3>1. (IF Mapped(heap[cur][k]) THEN heap_mapped[cur] ELSE heap_mapped[cur] + 1) \in Nat
      BY <1>4, <2>2
    <3> QED  BY Zenon, <1>3, <3>1 DEF Shape, Gets
  <2>5. mem' \in [0 .. HEAP_SIZE -> Values \cup {0}]
    BY Zenon, <1>3, <1>4, <2>2, CurFacts DEF Shape, Gets
  <2> QED  BY Zenon, <1>3, <2>2, <2>3, <2>4, <2>5 DEF Shape
<1>10. CASE \E dst, src \in Pages : Aliases(dst, src)
  <2> PICK dst \in Pages, src \in Pages : Aliases(dst, src)
    BY Zenon, <1>10
  <2>1. Live' = Live /\ cur # None /\ UNCHANGED <<state, stack, tf, mem, cur, tlb>>
    BY Zenon DEF Aliases, Live
  <2>2. heap[cur][src].pa \in 0 .. HEAP_SIZE
    BY Zenon, <1>4, <2>1, CurFacts DEF Aliases
  <2>3. heap' \in [Agents -> [Pages -> Entries]]
    <3>1. Aliased(heap[cur], dst, src) \in [Pages -> Entries]
      BY Zenon, <1>4, <2>1, <2>2, EntryTypes DEF Aliased
    <3> QED  BY Zenon, <1>3, <3>1 DEF Shape, Aliases
  <2>4. heap_mapped' \in [Agents -> Nat]
    <3>1. CountAlias(cur, dst) \in Nat
      BY <1>4, <2>1 DEF CountAlias
    <3> QED  BY Zenon, <1>3, <3>1 DEF Shape, Aliases
  <2>5. val' \in [Agents -> [Pages -> Values \cup {0}]]
    <3>1. val[cur][src] \in Values \cup {0}
      BY Zenon, <1>3, <1>4, <2>1 DEF Shape
    <3>2. [val[cur] EXCEPT ![dst] = val[cur][src]] \in [Pages -> Values \cup {0}]
      BY Zenon, <1>3, <1>4, <2>1, <3>1 DEF Shape
    <3> QED  BY Zenon, <1>3, <3>2 DEF Shape, Aliases
  <2>6. loose' \subseteq Agents \X Pages
    <3>1. loose \subseteq Agents \X Pages /\ cur \in Agents /\ loose' \subseteq loose \cup {<<cur, dst>>}
      BY Zenon, <1>3, <1>4, <2>1 DEF Shape, Aliases
    <3> QED  BY <3>1
  <2> QED  BY Zenon, <1>3, <2>1, <2>3, <2>4, <2>5, <2>6 DEF Shape
<1> QED
  BY Zenon, <1>5, <1>6, <1>7, <1>8, <1>9, <1>10 DEF Kind

-----------------------------------------------------------------------------
(* Frames are apart                                                        *)

\* Nobody's memory changes.
Still == UNCHANGED <<stack, tf, heap, heap_mapped>> /\ Live' \subseteq Live

\* Steps that map nothing and let no one in.
LEMMA StillKinds ==
  ASSUME Types, Quiet \/ Looks \/ \E k \in Pages, v \in Values : Stores(k, v)
  PROVE  Still
<1>1. CASE Quiet
  BY Zenon, <1>1, LiveKept DEF Quiet, Still
<1>2. CASE Looks
  BY Zenon, <1>2, LiveKept DEF Looks, Still
<1>3. CASE \E k \in Pages, v \in Values : Stores(k, v)
  BY Zenon, <1>3, LiveKept DEF Stores, Still
<1> QED  BY Zenon, <1>1, <1>2, <1>3

\* A page gets a frame: which entries change, and how.
LEMMA GetsFacts ==
  ASSUME Types, NEW k \in Pages, NEW p \in heap_ptr .. HEAP_SIZE, Gets(k, p)
  PROVE  /\ cur \in Agents /\ cur \in Live /\ cur' = cur /\ Live' = Live
         /\ p \in 0 .. HEAP_SIZE /\ heap_ptr <= p
         /\ \A b \in Agents : b # cur => heap'[b] = heap[b]
         /\ \A i \in Pages : i # k => heap'[cur][i] = heap[cur][i]
         /\ heap'[cur][k].pa = p /\ heap'[cur][k].w = TRUE /\ Mapped(heap'[cur][k])
<1>1. cur \in Agents /\ cur \in Live /\ cur' = cur /\ Live' = Live
  BY Zenon, CurFacts DEF Gets, Live
<1>2. heap_ptr \in 0 .. HEAP_SIZE
  BY Zenon DEF Types, TypeOK
<1>3. p \in 0 .. HEAP_SIZE /\ heap_ptr <= p
  BY Sizes, <1>2
<1>4. heap' = [heap EXCEPT ![cur] = [heap[cur] EXCEPT ![k] = pte(p, TRUE)]]
  BY Zenon DEF Gets
<1>5. DOMAIN heap = Agents /\ DOMAIN heap[cur] = Pages
  BY Zenon, <1>1, CurFacts DEF Types, TypeOK
<1>6. /\ \A b \in Agents : b # cur => heap'[b] = heap[b]
      /\ \A i \in Pages : i # k => heap'[cur][i] = heap[cur][i]
      /\ heap'[cur][k] = pte(p, TRUE)
  BY Zenon, <1>1, <1>4, <1>5
<1> QED  BY Zenon, <1>1, <1>3, <1>6, EntryTypes

\* A page is aliased: which entries change, and how.
LEMMA AliasFacts ==
  ASSUME Types, NEW dst \in Pages, NEW src \in Pages, Aliases(dst, src)
  PROVE  /\ cur \in Agents /\ cur \in Live /\ cur' = cur /\ Live' = Live
         /\ \A b \in Agents : b # cur => heap'[b] = heap[b]
         /\ \A i \in Pages : i # dst /\ i # src => heap'[cur][i] = heap[cur][i]
         /\ \A i \in {dst, src} :
               heap'[cur][i].pa = heap[cur][src].pa /\ heap'[cur][i].w = FALSE /\ Mapped(heap'[cur][i])
<1>1. cur \in Agents /\ cur \in Live /\ cur' = cur /\ Live' = Live
  BY Zenon, CurFacts DEF Aliases, Live
<1>2. heap[cur][src].pa \in 0 .. HEAP_SIZE
  BY Zenon, <1>1, CurFacts DEF Aliases
<1>3. heap' = [heap EXCEPT ![cur] = Aliased(heap[cur], dst, src)]
  BY Zenon DEF Aliases
<1>4. DOMAIN heap = Agents /\ DOMAIN heap[cur] = Pages
  BY Zenon, <1>1, CurFacts DEF Types, TypeOK
<1>5. heap'[cur] = Aliased(heap[cur], dst, src) /\ \A b \in Agents : b # cur => heap'[b] = heap[b]
  BY Zenon, <1>1, <1>3, <1>4
<1>6. /\ \A i \in Pages : i # dst /\ i # src => heap'[cur][i] = heap[cur][i]
      /\ \A i \in {dst, src} : heap'[cur][i] = pte(heap[cur][src].pa, FALSE)
  <2> DEFINE e == pte(heap[cur][src].pa, FALSE)
  <2>1. heap'[cur] = [[heap[cur] EXCEPT ![src] = e] EXCEPT ![dst] = e]
    BY <1>5 DEF Aliased
  <2> HIDE DEF e
  <2>2. heap'[cur] = [i \in Pages |-> IF i = dst THEN e ELSE [heap[cur] EXCEPT ![src] = e][i]]
    BY <1>4, <2>1
  <2>3. \A i \in Pages : [heap[cur] EXCEPT ![src] = e][i] = IF i = src THEN e ELSE heap[cur][i]
    BY Zenon, <1>4
  <2>4. ASSUME NEW i \in Pages PROVE heap'[cur][i] = IF i = dst THEN e ELSE IF i = src THEN e ELSE heap[cur][i]
    BY Zenon, <2>2, <2>3
  <2>5. \A i \in Pages : i # dst /\ i # src => heap'[cur][i] = heap[cur][i]
    BY Zenon, <2>4
  <2>6. heap'[cur][dst] = e /\ heap'[cur][src] = e
    BY Zenon, <2>4
  <2> QED  BY Zenon, <2>5, <2>6 DEF e
<1>7. LET e == pte(heap[cur][src].pa, FALSE) IN e.pa = heap[cur][src].pa /\ e.w = FALSE /\ Mapped(e)
  BY Zenon, <1>2, EntryTypes
<1>8. \A i \in {dst, src} :
         heap'[cur][i].pa = heap[cur][src].pa /\ heap'[cur][i].w = FALSE /\ Mapped(heap'[cur][i])
  BY Zenon, <1>6, <1>7
<1> QED  BY Zenon, <1>1, <1>5, <1>6, <1>8

Units(a) == HeapUnits(a) \cup StackUnits(a) \cup {tf[a]}

\* The units of a heap are those of its pages.
LEMMA HeapUnit ==
  \A a, u : u \in HeapUnits(a) <=>
      \E k \in Pages : Mapped(heap[a][k]) /\ u \in heap[a][k].pa .. heap[a][k].pa + PAGE - 1
BY Zenon DEF HeapUnits

\* What lies below the pointer is a number, and the pointer does not go back.
LEMMA UnitsBelow ==
  ASSUME Types, FrameInv, Counters
  PROVE  /\ \A a \in Live : \A u \in Units(a) : u \in Nat /\ u < heap_ptr /\ u < heap_ptr'
         /\ \A u \in Nat : u < heap_ptr => ~(heap_ptr <= u)
<1>1. heap_ptr \in Int /\ heap_ptr' \in Int /\ heap_ptr <= heap_ptr'
  BY Sizes DEF Types, TypeOK, Counters
<1>2. ASSUME NEW a \in Live, NEW u \in Units(a) PROVE u \in Nat /\ u < heap_ptr
  <2>1. u < heap_ptr
    BY Zenon DEF FrameInv, OwnFrames, Units
  <2>2. CASE u \in HeapUnits(a)
    <3>1. PICK k \in Pages : Mapped(heap[a][k]) /\ u \in heap[a][k].pa .. heap[a][k].pa + PAGE - 1
      BY Zenon, <2>2, HeapUnit
    <3>2. heap[a][k].pa \in 0 .. HEAP_SIZE
      BY Zenon, <3>1, CurFacts DEF Live
    <3> QED  BY Sizes, <2>1, <3>1, <3>2
  <2>3. CASE u \in StackUnits(a)
    BY Sizes, <2>1, <2>3 DEF StackUnits, FrameInv, Below
  <2>4. CASE u = tf[a]
    <3>1. stack[a] \in Nat /\ stack[a] + STACK <= tf[a] /\ tf[a] \in -1 .. HEAP_SIZE
      BY Zenon DEF FrameInv, Below, Types, TypeOK, Live
    <3> QED  BY Sizes, <2>1, <2>4, <3>1
  <2> QED  BY Zenon, <2>2, <2>3, <2>4 DEF Units
<1>3. \A u \in Nat : u < heap_ptr => u < heap_ptr' /\ ~(heap_ptr <= u)
  BY <1>1
<1> QED  BY Zenon, <1>2, <1>3

\* No agent's memory grows but x's heap, by units of N that were not handed out.
Grows(x, N) ==
    /\ \A u \in N : heap_ptr <= u /\ u < heap_ptr'
    /\ \A a \in Live' :
          /\ a \in Live /\ stack'[a] = stack[a] /\ tf'[a] = tf[a]
          /\ HeapUnits(a)' \subseteq HeapUnits(a) \cup N
          /\ a # x => HeapUnits(a)' \subseteq HeapUnits(a)

\* Frames stay apart when one agent's heap grows by a frame that was free.
LEMMA GrownApart ==
  ASSUME Types, FrameInv, Counters, NEW x, NEW N, Grows(x, N)
  PROVE  OwnFrames'
<1>1. /\ \A a \in Live : \A u \in Units(a) : u < heap_ptr' /\ ~(heap_ptr <= u)
  BY Zenon, UnitsBelow
<1>2. \A a \in Live' : StackUnits(a)' = StackUnits(a) /\ tf'[a] = tf[a] /\ a \in Live
  BY Zenon DEF Grows, StackUnits
<1>3. \A a \in Live' : /\ HeapUnits(a)' \subseteq HeapUnits(a) \cup N
                       /\ a # x => HeapUnits(a)' \subseteq HeapUnits(a)
  BY Zenon DEF Grows
<1>4. \A u \in N : heap_ptr <= u /\ u < heap_ptr'
  BY Zenon DEF Grows
<1>5. /\ \A a \in Live : HeapUnits(a) \cap (StackUnits(a) \cup {tf[a]}) = {} /\ tf[a] \notin StackUnits(a)
      /\ \A a, b \in Live : a # b => Units(a) \cap Units(b) = {}
  BY Zenon DEF FrameInv, OwnFrames, Units
<1>6. ASSUME NEW a \in Live'
      PROVE  /\ HeapUnits(a)' \cap (StackUnits(a)' \cup {tf'[a]}) = {}
             /\ tf'[a] \notin StackUnits(a)'
             /\ \A u \in HeapUnits(a)' \cup StackUnits(a)' \cup {tf'[a]} : u < heap_ptr'
  <2>1. /\ a \in Live /\ StackUnits(a)' = StackUnits(a) /\ tf'[a] = tf[a]
        /\ HeapUnits(a)' \subseteq HeapUnits(a) \cup N
    BY Zenon, <1>2, <1>3
  <2>2. \A u \in HeapUnits(a) \cup StackUnits(a) \cup {tf[a]} : u < heap_ptr' /\ u \notin N
    BY Zenon, <1>1, <1>4, <2>1 DEF Units
  <2>3. \A u \in HeapUnits(a)' \cup StackUnits(a)' \cup {tf'[a]} : u < heap_ptr'
    BY Zenon, <1>4, <2>1, <2>2
  <2>4. HeapUnits(a) \cap (StackUnits(a) \cup {tf[a]}) = {} /\ tf[a] \notin StackUnits(a)
    BY Zenon, <1>5, <2>1
  <2> QED  BY Zenon, <2>1, <2>2, <2>3, <2>4
<1>7. ASSUME NEW a \in Live', NEW b \in Live', a # b
      PROVE  (HeapUnits(a)' \cup StackUnits(a)' \cup {tf'[a]}) \cap (HeapUnits(b)' \cup StackUnits(b)' \cup {tf'[b]}) = {}
  <2>1. \/ HeapUnits(a)' \cup StackUnits(a)' \cup {tf'[a]} \subseteq Units(a)
        \/ HeapUnits(b)' \cup StackUnits(b)' \cup {tf'[b]} \subseteq Units(b)
    BY Zenon, <1>2, <1>3, <1>7 DEF Units
  <2>2. /\ HeapUnits(a)' \cup StackUnits(a)' \cup {tf'[a]} \subseteq Units(a) \cup N
        /\ HeapUnits(b)' \cup StackUnits(b)' \cup {tf'[b]} \subseteq Units(b) \cup N
    BY Zenon, <1>2, <1>3 DEF Units
  <2>3. Units(a) \cap Units(b) = {} /\ Units(a) \cap N = {} /\ Units(b) \cap N = {}
    BY Zenon, <1>1, <1>2, <1>4, <1>5, <1>7
  <2> QED  BY Zenon, <2>1, <2>2, <2>3
<1> QED  BY Zenon, <1>6, <1>7 DEF OwnFrames

\* A slot is occupied with what was not handed out.
LEMMA EnteredApart ==
  ASSUME Types, FrameInv, Counters, NEW c \in Agents \ Live, NEW s, NEW prog, Occupy(c, s, prog),
         s.stack \in Nat, s.tf \in Nat, heap_ptr <= s.stack, s.stack + STACK <= s.tf, s.tf < heap_ptr'
  PROVE  OwnFrames'
<1>0. c \in Agents
  BY Zenon
<1>1. Live' = Live \cup {c} /\ EntersSlot(c, s, prog) /\ OthersKept(c)
  BY Zenon, <1>0, OccupyFacts
<1>2. /\ \A a \in Live : \A u \in Units(a) : u < heap_ptr' /\ ~(heap_ptr <= u)
  BY Zenon, UnitsBelow
<1>3. ASSUME NEW a \in Live
      PROVE  a # c /\ HeapUnits(a)' = HeapUnits(a) /\ StackUnits(a)' = StackUnits(a) /\ tf'[a] = tf[a]
  <2>1. a \in Agents /\ a # c
    BY Zenon DEF Live
  <2>2. heap'[a] = heap[a] /\ stack'[a] = stack[a] /\ tf'[a] = tf[a]
    BY Zenon, <1>1, <2>1 DEF OthersKept, SlotKept
  <2> QED  BY Zenon, <2>1, <2>2 DEF HeapUnits, StackUnits
<1>4. HeapUnits(c)' = {}
  <2>1. heap'[c] = [k \in Pages |-> Unmapped]
    BY Zenon, <1>1 DEF EntersSlot
  <2>2. {k \in Pages : Mapped(heap'[c][k])} = {}
    BY Zenon, <2>1, EntryTypes
  <2> QED  BY Zenon, <2>2 DEF HeapUnits
<1>5. StackUnits(c)' = s.stack .. s.stack + STACK - 1 /\ tf'[c] = s.tf
  BY Zenon, <1>1 DEF EntersSlot, StackUnits
<1>6. \A u \in StackUnits(c)' \cup {tf'[c]} : heap_ptr <= u /\ u < heap_ptr'
  <2>1. heap_ptr \in Int /\ heap_ptr' \in Int /\ STACK \in Nat
    BY Sizes DEF Types, TypeOK, Counters
  <2> QED  BY <1>5, <2>1
<1>7. tf'[c] \notin StackUnits(c)'
  <2>1. STACK \in Nat
    BY Sizes
  <2> QED  BY <1>5, <2>1
<1>8. /\ \A a \in Live : HeapUnits(a) \cap (StackUnits(a) \cup {tf[a]}) = {} /\ tf[a] \notin StackUnits(a)
      /\ \A a, b \in Live : a # b => Units(a) \cap Units(b) = {}
  BY Zenon DEF FrameInv, OwnFrames, Units
<1>9. ASSUME NEW a \in Live'
      PROVE  /\ HeapUnits(a)' \cap (StackUnits(a)' \cup {tf'[a]}) = {}
             /\ tf'[a] \notin StackUnits(a)'
             /\ \A u \in HeapUnits(a)' \cup StackUnits(a)' \cup {tf'[a]} : u < heap_ptr'
  <2>1. CASE a \in Live
    BY ZenonT(60), <1>2, <1>3, <1>8, <2>1 DEF Units
  <2>2. CASE a = c
    BY Zenon, <1>4, <1>6, <1>7, <2>2
  <2> QED  BY Zenon, <1>1, <2>1, <2>2
<1>10. ASSUME NEW a \in Live', NEW b \in Live', a # b
       PROVE  (HeapUnits(a)' \cup StackUnits(a)' \cup {tf'[a]}) \cap (HeapUnits(b)' \cup StackUnits(b)' \cup {tf'[b]}) = {}
  <2>1. CASE a \in Live /\ b \in Live
    BY Zenon, <1>3, <1>8, <1>10, <2>1 DEF Units
  <2>2. CASE a = c /\ b \in Live
    BY Zenon, <1>2, <1>3, <1>4, <1>6, <2>2 DEF Units
  <2>3. CASE a \in Live /\ b = c
    BY Zenon, <1>2, <1>3, <1>4, <1>6, <2>3 DEF Units
  <2> QED  BY Zenon, <1>1, <1>10, <2>1, <2>2, <2>3
<1> QED  BY Zenon, <1>9, <1>10 DEF OwnFrames

\* Frames stay apart over a step.
LEMMA FrameStep ==
  ASSUME Types, FrameInv, Kind
  PROVE  FrameInv'
<1>1. Counters
  BY Zenon DEF Kind
<1>2. heap_ptr \in Int /\ heap_ptr' \in Int /\ heap_ptr <= heap_ptr' /\ PAGE \in Nat /\ HEAP_SIZE \in Nat
  BY Sizes, <1>1 DEF Types, TypeOK, Counters
<1>3. ASSUME NEW a \in Live
      PROVE  /\ stack[a] \in Nat /\ stack[a] + STACK <= tf[a] /\ tf[a] < heap_ptr'
             /\ \A k \in Pages : Mapped(heap[a][k]) => heap[a][k].pa + PAGE <= heap_ptr'
  <2>1. /\ stack[a] \in Nat /\ stack[a] + STACK <= tf[a] /\ tf[a] < heap_ptr
        /\ \A k \in Pages : Mapped(heap[a][k]) => heap[a][k].pa + PAGE <= heap_ptr
    BY Zenon DEF FrameInv, Below
  <2>2. tf[a] \in Int /\ \A k \in Pages : heap[a][k].pa \in -1 .. HEAP_SIZE
    BY SMTT(60), CurFacts DEF Types, TypeOK, Live
  <2>3. \A k \in Pages : heap[a][k].pa + PAGE \in Int
    BY <1>2, <2>2
  <2>4. \A x \in Int : (x < heap_ptr => x < heap_ptr') /\ (x <= heap_ptr => x <= heap_ptr')
    BY <1>2
  <2> QED  BY Zenon, <2>1, <2>2, <2>3, <2>4
<1>4. CASE Quiet \/ Looks \/ \E k \in Pages, v \in Values : Stores(k, v)
  <2>1. Still
    BY Zenon, <1>4, StillKinds
  <2>2. Grows(None, {})
    BY Zenon, <2>1 DEF Still, Grows, HeapUnits
  <2>3. OwnFrames'
    BY Zenon, <1>1, <2>2, GrownApart
  <2>4. Below'
    BY Zenon, <1>3, <2>1 DEF Still, Below
  <2> QED  BY Zenon, <2>3, <2>4 DEF FrameInv
<1>5. CASE Enters
  <2> PICK c \in Agents \ Live : \E s, prog :
          /\ Occupy(c, s, prog)
          /\ s.stack \in Nat /\ s.tf \in Nat /\ heap_ptr <= s.stack
          /\ s.stack + STACK <= s.tf /\ s.tf < heap_ptr'
    BY Zenon, <1>5 DEF Enters
  <2> PICK s, prog :
          /\ Occupy(c, s, prog)
          /\ s.stack \in Nat /\ s.tf \in Nat /\ heap_ptr <= s.stack
          /\ s.stack + STACK <= s.tf /\ s.tf < heap_ptr'
    OBVIOUS
  <2>1. OwnFrames'
    BY Zenon, <1>1, EnteredApart
  <2>2. c \in Agents
    BY Zenon
  <2>3. Live' = Live \cup {c} /\ EntersSlot(c, s, prog) /\ OthersKept(c)
    BY Zenon, <2>2, OccupyFacts
  <2>4. \A a \in Live : a \in Agents /\ a # c
    BY Zenon DEF Live
  <2>5. \A k \in Pages : ~Mapped(heap'[c][k])
    BY Zenon, <2>3, EntryTypes DEF EntersSlot
  <2>6. Below'
    BY ZenonT(60), <1>3, <2>3, <2>4, <2>5 DEF EntersSlot, OthersKept, SlotKept, Below
  <2> QED  BY Zenon, <2>1, <2>6 DEF FrameInv
<1>6. CASE \E k \in Pages, p \in heap_ptr .. HEAP_SIZE : Gets(k, p)
  <2> PICK k \in Pages, p \in heap_ptr .. HEAP_SIZE : Gets(k, p)
    BY Zenon, <1>6
  <2>1. /\ cur \in Agents /\ cur \in Live /\ Live' = Live
        /\ p \in 0 .. HEAP_SIZE /\ heap_ptr <= p
        /\ \A b \in Agents : b # cur => heap'[b] = heap[b]
        /\ \A i \in Pages : i # k => heap'[cur][i] = heap[cur][i]
        /\ heap'[cur][k].pa = p
    BY Zenon, GetsFacts
  <2>2. UNCHANGED <<stack, tf>> /\ p + PAGE <= heap_ptr'
    BY Zenon DEF Gets
  <2> DEFINE N == p .. p + PAGE - 1
  <2>3. \A u \in N : heap_ptr <= u /\ u < heap_ptr'
    BY <1>2, <2>1, <2>2
  <2>0. PICK x : x = cur
    BY Zenon
  <2>4. HeapUnits(x)' \subseteq HeapUnits(x) \cup N
    <3> SUFFICES ASSUME NEW i \in Pages, Mapped(heap'[x][i]),
                        NEW u \in heap'[x][i].pa .. heap'[x][i].pa + PAGE - 1
                 PROVE  u \in HeapUnits(x) \cup N
      BY Zenon DEF HeapUnits
    <3>1. CASE i = k
      BY Zenon, <2>0, <2>1, <3>1
    <3>2. CASE i # k
      <4>1. heap'[x][i] = heap[x][i]
        BY Zenon, <2>0, <2>1, <3>2
      <4> QED  BY Zenon, <4>1, HeapUnit
    <3> QED  BY Zenon, <3>1, <3>2
  <2>5. \A a \in Live : a \in Agents
    BY Zenon DEF Live
  <2>6. \A a \in Live : a # x => HeapUnits(a)' = HeapUnits(a)
    BY Zenon, <2>0, <2>1, <2>5 DEF HeapUnits
  <2> HIDE DEF N
  <2>7. Grows(x, N)
    <3>1. \A a \in Live : /\ HeapUnits(a)' \subseteq HeapUnits(a) \cup N
                          /\ a # x => HeapUnits(a)' \subseteq HeapUnits(a)
      BY Zenon, <2>4, <2>6
    <3> QED  BY Zenon, <2>1, <2>2, <2>3, <3>1 DEF Grows
  <2>8. OwnFrames'
    BY Zenon, <1>1, <2>7, GrownApart
  <2>9. Below'
    BY ZenonT(60), <1>3, <2>1, <2>2, <2>5 DEF Below
  <2> QED  BY Zenon, <2>8, <2>9 DEF FrameInv
<1>7. CASE \E dst, src \in Pages : Aliases(dst, src)
  <2> PICK dst \in Pages, src \in Pages : Aliases(dst, src)
    BY Zenon, <1>7
  <2>1. /\ cur \in Agents /\ cur \in Live /\ Live' = Live
        /\ \A b \in Agents : b # cur => heap'[b] = heap[b]
        /\ \A i \in Pages : i # dst /\ i # src => heap'[cur][i] = heap[cur][i]
        /\ \A i \in {dst, src} : heap'[cur][i].pa = heap[cur][src].pa
        /\ Mapped(heap[cur][src])
    BY Zenon, AliasFacts DEF Aliases
  <2>2. UNCHANGED <<stack, tf>>
    BY Zenon DEF Aliases
  <2>3. \A i \in Pages : \E j \in Pages :
           Mapped(heap'[cur][i]) => Mapped(heap[cur][j]) /\ heap'[cur][i].pa = heap[cur][j].pa
    BY Zenon, <2>1
  <2>0. PICK x : x = cur
    BY Zenon
  <2>4. HeapUnits(x)' \subseteq HeapUnits(x)
    <3> SUFFICES ASSUME NEW i \in Pages, Mapped(heap'[x][i]),
                        NEW u \in heap'[x][i].pa .. heap'[x][i].pa + PAGE - 1
                 PROVE  u \in HeapUnits(x)
      BY Zenon DEF HeapUnits
    <3>1. PICK j \in Pages : Mapped(heap[x][j]) /\ heap'[x][i].pa = heap[x][j].pa
      BY Zenon, <2>0, <2>3
    <3> QED  BY Zenon, <3>1, HeapUnit
  <2>5. \A a \in Live : a \in Agents
    BY Zenon DEF Live
  <2>6. ASSUME NEW a \in Live PROVE HeapUnits(a)' \subseteq HeapUnits(a)
    <3>1. CASE a = x
      BY Zenon, <2>4, <3>1
    <3>2. CASE a # x
      BY Zenon, <2>0, <2>1, <2>5, <3>2 DEF HeapUnits
    <3> QED  BY Zenon, <3>1, <3>2
  <2>7. Grows(None, {})
    BY Zenon, <2>1, <2>2, <2>6 DEF Grows
  <2>8. OwnFrames'
    BY Zenon, <1>1, <2>7, GrownApart
  <2>9. \A k \in Pages : Mapped(heap'[cur][k]) => heap'[cur][k].pa + PAGE <= heap_ptr'
    BY Zenon, <1>3, <2>1, <2>3
  <2>10. Below'
    BY ZenonT(60), <1>3, <2>1, <2>2, <2>5, <2>9 DEF Below
  <2> QED  BY Zenon, <2>8, <2>10 DEF FrameInv
<1> QED  BY Zenon, <1>4, <1>5, <1>6, <1>7 DEF Kind

-----------------------------------------------------------------------------
(* What is loaded stays                                                    *)

\* What is mapped and filled is so in tables that keep what was there.
LEMMA HoldsOn ==
  ASSUME NEW t, NEW u, NEW seg, NEW n, Keeps(t, u), Holds(t, seg, n)
  PROVE  Holds(u, seg, n)
BY Zenon DEF Keeps, Holds

\* The pages of loaded programs stay mapped over a step.
LEMMA LoaderStep ==
  ASSUME Types, LoaderInv, Kind
  PROVE  LoaderInv'
<1>1. Loads
  BY Zenon DEF Kind
<1>2. Keeps(shared, shared')
  BY Zenon, <1>1 DEF Loads
<1> SUFFICES ASSUME NEW a \in Live', NEW i \in DOMAIN program'[a]
             PROVE  Holds(shared', program'[a][i], SegmentPages(program'[a][i]))
  BY Zenon DEF LoaderInv
<1>3. a \in Agents
  BY Zenon DEF Live
<1>4. CASE a \in Live /\ program'[a] = program[a]
  <2>1. Holds(shared, program[a][i], SegmentPages(program[a][i]))
    BY Zenon, <1>4 DEF LoaderInv
  <2> QED  BY Zenon, <1>2, <1>4, <2>1, HoldsOn
<1> QED  BY Zenon, <1>1, <1>3, <1>4 DEF Loads

-----------------------------------------------------------------------------
(* Pages are private                                                       *)

\* Frames in use are below the pointer, and no other agent's.
LEMMA FrameFacts ==
  ASSUME Types, FrameInv
  PROVE  /\ \A a \in Live, k \in Pages : Mapped(heap[a][k]) => heap[a][k].pa < heap_ptr
         /\ \A a \in Live, k \in Pages : \A p \in Int : heap_ptr <= p => heap[a][k].pa # p
         /\ \A a, b \in Live, k, i \in Pages :
               a # b /\ Mapped(heap[a][k]) => heap[b][i].pa # heap[a][k].pa
<1>1. \A a \in Live : a \in Agents
  BY Zenon DEF Live
<1>2. \A a \in Live, k \in Pages : heap[a][k].pa \in -1 .. HEAP_SIZE
  BY Zenon, <1>1, CurFacts
<1>3. PAGE \in Nat \ {0} /\ HEAP_SIZE \in Nat /\ heap_ptr \in 0 .. HEAP_SIZE
  BY Sizes DEF Types, TypeOK
<1>4. ASSUME NEW a \in Live, NEW k \in Pages, Mapped(heap[a][k])
      PROVE  heap[a][k].pa < heap_ptr /\ heap[a][k].pa \in HeapUnits(a)
  <2>1. heap[a][k].pa + PAGE <= heap_ptr
    BY Zenon, <1>4 DEF FrameInv, Below
  <2>2. heap[a][k].pa < heap_ptr /\ heap[a][k].pa \in heap[a][k].pa .. heap[a][k].pa + PAGE - 1
    BY <1>2, <1>3, <2>1
  <2> QED  BY Zenon, <1>4, <2>2, HeapUnit
<1>5. ASSUME NEW a \in Live, NEW k \in Pages, NEW p \in Int, heap_ptr <= p PROVE heap[a][k].pa # p
  <2>1. CASE Mapped(heap[a][k])
    BY <1>2, <1>3, <1>4, <1>5, <2>1
  <2>2. CASE ~Mapped(heap[a][k])
    BY <1>3, <1>5, <2>2 DEF Mapped, None
  <2> QED  BY <2>1, <2>2
<1>6. ASSUME NEW a \in Live, NEW b \in Live, NEW k \in Pages, NEW i \in Pages, a # b, Mapped(heap[a][k])
      PROVE  heap[b][i].pa # heap[a][k].pa
  <2>1. HeapUnits(a) \cap HeapUnits(b) = {}
    BY Zenon, <1>6 DEF FrameInv, OwnFrames
  <2>2. CASE Mapped(heap[b][i])
    BY Zenon, <1>4, <1>6, <2>1, <2>2
  <2>3. CASE ~Mapped(heap[b][i])
    BY Zenon, <1>6, <2>3 DEF Mapped
  <2> QED  BY Zenon, <2>2, <2>3
<1> QED  BY Zenon, <1>4, <1>5, <1>6

\* What is not handed out after a step was not handed out before it.
LEMMA PointerGrows ==
  ASSUME Types, Counters
  PROVE  /\ \A f \in heap_ptr' .. HEAP_SIZE : f \in heap_ptr .. HEAP_SIZE
         /\ \A x \in Int : x < heap_ptr => x < heap_ptr'
         /\ heap_ptr \in Int
BY Sizes DEF Types, TypeOK, Counters

\* Translations are entries.
LEMMA TlbTypes ==
  ASSUME Types, NEW k \in Pages
  PROVE  tlb[k].pa \in Int
<1>1. tlb[k] \in Entries
  BY Zenon DEF Types, TypeOK
<1> QED  BY <1>1 DEF Entries

\* Nothing is touched.
LEMMA CowQuiet ==
  ASSUME Types, CowInv, Counters, Quiet
  PROVE  CowInv'
<1>1. /\ UNCHANGED <<heap, mem, tlb, val, loose>> /\ (cur' = cur \/ cur' = None)
      /\ Live' \subseteq Live
  BY Zenon, LiveKept DEF Quiet
<1>2. Untouched'
  BY Zenon, <1>1, PointerGrows DEF CowInv, Untouched
<1>3. Alone'
  BY Zenon, <1>1 DEF CowInv, Alone
<1>4. Recalled'
  BY Zenon, <1>1, PointerGrows, TlbTypes DEF CowInv, Recalled
<1>5. CowPrivate'
  BY Zenon, <1>1 DEF CowInv, CowPrivate
<1> QED  BY Zenon, <1>2, <1>3, <1>4, <1>5 DEF CowInv

\* An agent that enters has no page mapped, and none that is loose.
LEMMA CowEnters ==
  ASSUME Types, CowInv, Counters, Enters
  PROVE  CowInv'
<1> PICK c \in Agents \ Live : \E s, prog : Occupy(c, s, prog)
  BY Zenon DEF Enters
<1> PICK s, prog : Occupy(c, s, prog)
  OBVIOUS
<1>1. UNCHANGED <<mem, cur, tlb>> /\ c \in Agents /\ c \notin Live
  BY Zenon DEF Enters
<1>2. /\ Live' = Live \cup {c} /\ EntersSlot(c, s, prog) /\ OthersKept(c)
      /\ LoosePages(c)' = {} /\ \A b \in Agents : b # c => LoosePages(b)' = LoosePages(b)
  BY Zenon, <1>1, OccupyFacts
<1>3. \A k \in Pages : heap'[c][k] = Unmapped /\ val'[c][k] = 0
  BY Zenon, <1>2 DEF EntersSlot
<1>4. \A a \in Live : a \in Agents /\ a # c /\ heap'[a] = heap[a] /\ val'[a] = val[a]
  BY Zenon, <1>1, <1>2 DEF OthersKept, SlotKept, Live
<1>5. \A a \in Live, k \in Pages : <<a, k>> \in loose' <=> <<a, k>> \in loose
  BY Zenon, <1>2, <1>4 DEF LoosePages
<1>6. cur # None => cur \in Live
  BY Zenon, CurFacts
<1>7. \A f \in heap_ptr' .. HEAP_SIZE : f \in heap_ptr .. HEAP_SIZE
  BY Zenon, PointerGrows
<1>8. \A k \in Pages : tlb[k].pa < heap_ptr => tlb[k].pa < heap_ptr'
  BY Zenon, PointerGrows, TlbTypes
<1>9. \A k \in Pages : heap'[c][k].pa = None /\ heap'[c][k].w = FALSE /\ ~Mapped(heap'[c][k])
  BY Zenon, <1>3, EntryTypes
<1>10. Untouched'
  <2>1. \A f \in heap_ptr' .. HEAP_SIZE : mem'[f] = 0
    BY Zenon, <1>1, <1>7 DEF CowInv, Untouched
  <2>2. \A a \in Live, k \in Pages : ~Mapped(heap'[a][k]) => val'[a][k] = 0
    BY ZenonT(60), <1>4 DEF CowInv, Untouched
  <2>3. \A k \in Pages : ~Mapped(heap'[c][k]) => val'[c][k] = 0
    BY Zenon, <1>3
  <2> QED  BY Zenon, <1>2, <2>1, <2>2, <2>3 DEF Untouched
<1>11. Alone'
  <2>1. ASSUME NEW a \in Live, NEW k \in Pages, NEW i \in Pages
        PROVE  heap'[a][k].w => Mapped(heap'[a][k]) /\ (i # k => heap'[a][i].pa # heap'[a][k].pa)
    <3>1. heap'[a] = heap[a]
      BY Zenon, <1>4
    <3>2. heap[a][k].w => Mapped(heap[a][k]) /\ (i # k => heap[a][i].pa # heap[a][k].pa)
      BY Zenon DEF CowInv, Alone
    <3> QED  BY Zenon, <3>1, <3>2
  <2>2. \A k \in Pages : ~heap'[c][k].w
    BY Zenon, <1>9
  <2> QED  BY Zenon, <1>2, <2>1, <2>2 DEF Alone
<1>12. Recalled'
  <2> SUFFICES ASSUME cur' # None, NEW k \in Pages, Mapped(tlb'[k])
               PROVE  /\ Mapped(heap'[cur'][k]) /\ tlb'[k].pa < heap_ptr'
                      /\ \A i \in Pages : i # k /\ heap'[cur'][i].w => heap'[cur'][i].pa # tlb'[k].pa
                      /\ \A b \in Live', i \in Pages : b # cur' => heap'[b][i].pa # tlb'[k].pa
    BY Zenon DEF Recalled
  <2>1. /\ Mapped(heap[cur][k]) /\ tlb[k].pa < heap_ptr
        /\ \A i \in Pages : i # k /\ heap[cur][i].w => heap[cur][i].pa # tlb[k].pa
        /\ \A b \in Live, i \in Pages : b # cur => heap[b][i].pa # tlb[k].pa
    BY Zenon, <1>1 DEF CowInv, Recalled
  <2>2. heap'[cur] = heap[cur] /\ tlb[k].pa < heap_ptr'
    BY Zenon, <1>1, <1>4, <1>6, <1>8, <2>1
  <2>3. \A i \in Pages : heap'[c][i].pa # tlb'[k].pa
    BY Zenon, <1>9 DEF Mapped
  <2>4. \A b \in Live, i \in Pages : b # cur => heap'[b][i].pa # tlb[k].pa
    BY Zenon, <1>4, <2>1
  <2>5. \A b \in Live', i \in Pages : b # cur => heap'[b][i].pa # tlb[k].pa
    BY Zenon, <1>1, <1>2, <2>3, <2>4
  <2> QED  BY Zenon, <1>1, <2>1, <2>2, <2>5
<1>13. CowPrivate'
  <2>1. ASSUME NEW a \in Live, NEW k \in Pages
        PROVE  Mapped(heap'[a][k]) /\ <<a, k>> \notin loose' => mem'[heap'[a][k].pa] = val'[a][k]
    <3>1. heap'[a] = heap[a] /\ val'[a] = val[a] /\ (<<a, k>> \in loose' <=> <<a, k>> \in loose)
      BY Zenon, <1>4, <1>5
    <3>2. Mapped(heap[a][k]) /\ <<a, k>> \notin loose => mem[heap[a][k].pa] = val[a][k]
      BY Zenon DEF CowInv, CowPrivate
    <3> QED  BY Zenon, <1>1, <3>1, <3>2
  <2>2. cur # None => \A k \in Pages :
           Mapped(tlb[k]) /\ <<cur, k>> \notin loose' => mem[tlb[k].pa] = val'[cur][k]
    BY Zenon, <1>4, <1>5, <1>6 DEF CowInv, CowPrivate
  <2> QED  BY Zenon, <1>1, <1>2, <1>9, <2>1, <2>2 DEF CowPrivate
<1> QED  BY Zenon, <1>10, <1>11, <1>12, <1>13 DEF CowInv

\* A translation that is looked up is the table's.
LEMMA CowLooks ==
  ASSUME Types, FrameInv, CowInv, Counters, Looks
  PROVE  CowInv'
<1>1. UNCHANGED <<heap_ptr, heap, mem, val, loose>> /\ Live' = Live
  BY Zenon, LiveKept DEF Looks, Live
<1>2. Untouched' /\ Alone'
  BY ZenonT(60), <1>1 DEF CowInv, Untouched, Alone
<1>3. \A a \in Live, k \in Pages :
         Mapped(heap'[a][k]) /\ <<a, k>> \notin loose' => mem'[heap'[a][k].pa] = val'[a][k]
  BY Zenon, <1>1 DEF CowInv, CowPrivate
<1>4. tlb \in [Pages -> Entries]
  BY Zenon DEF Types, TypeOK
<1>5. cur # None => cur \in Live
  BY Zenon, CurFacts
<1> DEFINE Good(t, k) == Mapped(t) =>
               /\ Mapped(heap[cur][k]) /\ t.pa < heap_ptr
               /\ \A i \in Pages : i # k /\ heap[cur][i].w => heap[cur][i].pa # t.pa
               /\ \A b \in Live, i \in Pages : b # cur => heap[b][i].pa # t.pa
               /\ <<cur, k>> \notin loose => mem[t.pa] = val[cur][k]
<1>6. ASSUME cur # None, NEW k \in Pages PROVE Good(tlb[k], k) /\ Good(heap[cur][k], k)
  <2>1. Good(tlb[k], k)
    BY Zenon, <1>6 DEF CowInv, Recalled, CowPrivate
  <2>2. ASSUME Mapped(heap[cur][k])
        PROVE  /\ heap[cur][k].pa < heap_ptr
               /\ \A b \in Live, i \in Pages : b # cur => heap[b][i].pa # heap[cur][k].pa
    BY Zenon, <1>5, <1>6, <2>2, FrameFacts
  <2>3. \A i \in Pages : i # k /\ heap[cur][i].w => heap[cur][i].pa # heap[cur][k].pa
    BY Zenon, <1>5, <1>6 DEF CowInv, Alone
  <2>4. Mapped(heap[cur][k]) /\ <<cur, k>> \notin loose => mem[heap[cur][k].pa] = val[cur][k]
    BY Zenon, <1>5, <1>6 DEF CowInv, CowPrivate
  <2> QED  BY Zenon, <2>1, <2>2, <2>3, <2>4
<1>7. \A k \in Pages : Good(Unmapped, k)
  BY Zenon, EntryTypes
<1> HIDE DEF Good
<1>8. (cur' = cur /\ cur # None /\ \A k \in Pages : Good(tlb'[k], k)) \/ cur' = None \/ \A k \in Pages : ~Mapped(tlb'[k])
  <2>1. CASE cur' = cur /\ \E k \in Pages : tlb' = [tlb EXCEPT ![k] = Unmapped]
    <3> PICK j \in Pages : tlb' = [tlb EXCEPT ![j] = Unmapped]
      BY Zenon, <2>1
    <3>1. \A k \in Pages : tlb'[k] = tlb[k] \/ tlb'[k] = Unmapped
      BY Zenon, <1>4
    <3> QED  BY Zenon, <1>6, <1>7, <2>1, <3>1
  <2>2. CASE cur' = cur /\ cur # None /\ \E k \in Pages : tlb' = [tlb EXCEPT ![k] = heap[cur][k]]
    <3> PICK j \in Pages : tlb' = [tlb EXCEPT ![j] = heap[cur][j]]
      BY Zenon, <2>2
    <3>1. \A k \in Pages : tlb'[k] = tlb[k] \/ tlb'[k] = heap[cur][k]
      BY Zenon, <1>4
    <3> QED  BY Zenon, <1>6, <2>2, <3>1
  <2>3. CASE tlb' = [k \in Pages |-> Unmapped]
    BY Zenon, <2>3, EntryTypes
  <2> QED  BY Zenon, <2>1, <2>2, <2>3 DEF Looks
<1>9. Recalled' /\ CowPrivate'
  <2>1. CASE cur' = cur /\ cur # None /\ \A k \in Pages : Good(tlb'[k], k)
    <3>1. Recalled'
      BY ZenonT(60), <1>1, <2>1 DEF Recalled, Good
    <3>2. CowPrivate'
      BY Zenon, <1>1, <1>3, <2>1 DEF CowPrivate, Good
    <3> QED  BY Zenon, <3>1, <3>2
  <2>2. CASE cur' = None \/ \A k \in Pages : ~Mapped(tlb'[k])
    BY Zenon, <1>1, <1>3, <2>2 DEF Recalled, CowPrivate
  <2> QED  BY Zenon, <1>8, <2>1, <2>2
<1> QED  BY Zenon, <1>2, <1>9 DEF CowInv

\* A store goes to the page's own frame, or by a translation that is out of date:
\* then every page of that frame is loose.
LEMMA CowStores ==
  ASSUME Types, FrameInv, CowInv, Counters, NEW k \in Pages, NEW v \in Values, Stores(k, v)
  PROVE  CowInv'
<1> DEFINE e == Translation(k, TRUE)
<1>1. cur # None /\ cur \in Live /\ cur \in Agents
  BY Zenon, CurFacts DEF Stores
<1>2. /\ Mapped(e) /\ e.w
      /\ tlb' = [tlb EXCEPT ![k] = e]
      /\ mem' = [mem EXCEPT ![e.pa] = v]
      /\ val' = [val EXCEPT ![cur][k] = v]
      /\ loose' = IF e = heap[cur][k] THEN loose
                  ELSE loose \cup {<<cur, j>> : j \in {i \in Pages : e.pa \in {heap[cur][i].pa, tlb[i].pa}}}
      /\ heap_ptr' = heap_ptr /\ heap' = heap /\ cur' = cur
  BY Zenon DEF Stores
<1>3. e = heap[cur][k] \/ e = tlb[k]
  BY Zenon DEF Translation
<1> HIDE DEF e
<1>4. Live' = Live
  BY Zenon, LiveKept DEF Stores, Live
<1>5. /\ tlb'[k] = e /\ (\A i \in Pages : i # k => tlb'[i] = tlb[i])
      /\ val'[cur][k] = v /\ \A a \in Agents, i \in Pages : (a # cur \/ i # k) => val'[a][i] = val[a][i]
      /\ \A f \in 0 .. HEAP_SIZE : f # e.pa => mem'[f] = mem[f]
  <2>1. /\ tlb \in [Pages -> Entries] /\ val \in [Agents -> [Pages -> Values \cup {0}]]
        /\ mem \in [0 .. HEAP_SIZE -> Values \cup {0}]
    BY Zenon DEF Types, TypeOK
  <2>2. val[cur] \in [Pages -> Values \cup {0}]
    BY Zenon, <1>1, <2>1
  <2>3. val' = [val EXCEPT ![cur] = [val[cur] EXCEPT ![k] = v]]
    BY Zenon, <1>2
  <2>4. val'[cur] = [val[cur] EXCEPT ![k] = v] /\ \A a \in Agents : a # cur => val'[a] = val[a]
    BY Zenon, <1>1, <2>1, <2>3
  <2> QED  BY ZenonT(60), <1>2, <2>1, <2>2, <2>4
<1>6. tlb[k] \in Entries /\ heap[cur][k] \in Entries
  BY Zenon, <1>1, CurFacts DEF Types, TypeOK
<1>7. e.pa \in 0 .. HEAP_SIZE /\ mem'[e.pa] = v
  <2>1. mem \in [0 .. HEAP_SIZE -> Values \cup {0}]
    BY Zenon DEF Types, TypeOK
  <2>2. e.pa \in 0 .. HEAP_SIZE
    BY <1>2, <1>3, <1>6, Sizes DEF Entries, Mapped, None
  <2> QED  BY Zenon, <1>2, <2>1, <2>2
<1>8. /\ Mapped(heap[cur][k]) /\ e.pa < heap_ptr
      /\ \A i \in Pages : i # k /\ heap[cur][i].w => heap[cur][i].pa # e.pa
      /\ \A b \in Live, i \in Pages : b # cur => heap[b][i].pa # e.pa
  <2>1. CASE e = tlb[k]
    BY Zenon, <1>1, <1>2, <2>1 DEF CowInv, Recalled
  <2>2. CASE e = heap[cur][k]
    <3>1. Mapped(heap[cur][k])
      BY Zenon, <1>2, <2>2
    <3>2. /\ heap[cur][k].pa < heap_ptr
          /\ \A b \in Live, i \in Pages : b # cur => heap[b][i].pa # heap[cur][k].pa
      BY Zenon, <1>1, <3>1, FrameFacts
    <3>3. \A i \in Pages : i # k /\ heap[cur][i].w => heap[cur][i].pa # heap[cur][k].pa
      BY Zenon, <1>1 DEF CowInv, Alone
    <3> QED  BY Zenon, <2>2, <3>1, <3>2, <3>3
  <2> QED  BY Zenon, <1>3, <2>1, <2>2
\* Which pages are of the frame stored to: only k, or all of them loose.
<1>9. \A i \in Pages : <<cur, i>> \notin loose' /\ i # k =>
         <<cur, i>> \notin loose /\ heap[cur][i].pa # e.pa /\ (Mapped(tlb[i]) => tlb[i].pa # e.pa)
  <2>1. CASE e = heap[cur][k]
    <3>1. loose' = loose /\ heap[cur][k].w
      BY Zenon, <1>2, <2>1
    <3>2. \A i \in Pages : i # k => heap[cur][i].pa # heap[cur][k].pa
      BY Zenon, <1>1, <3>1 DEF CowInv, Alone
    <3>3. \A i \in Pages : i # k /\ Mapped(tlb[i]) => heap[cur][k].pa # tlb[i].pa
      BY Zenon, <1>1, <3>1 DEF CowInv, Recalled
    <3> QED  BY Zenon, <2>1, <3>1, <3>2, <3>3
  <2>2. CASE e # heap[cur][k]
    <3>1. loose' = loose \cup {<<cur, j>> : j \in {i \in Pages : e.pa \in {heap[cur][i].pa, tlb[i].pa}}}
      BY Zenon, <1>2, <2>2
    <3> QED  BY Zenon, <3>1
  <2> QED  BY Zenon, <2>1, <2>2
<1>10. <<cur, k>> \notin loose' => e = heap[cur][k]
  <2>1. ASSUME e # heap[cur][k] PROVE <<cur, k>> \in loose'
    <3>1. loose' = loose \cup {<<cur, j>> : j \in {i \in Pages : e.pa \in {heap[cur][i].pa, tlb[i].pa}}}
      BY Zenon, <1>2, <2>1
    <3>2. e.pa = tlb[k].pa
      BY Zenon, <1>3, <2>1
    <3> QED  BY Zenon, <3>1, <3>2
  <2> QED  BY Zenon, <2>1
<1>11. heap' = heap /\ cur' = cur
  BY Zenon, <1>2
<1>12. loose \subseteq loose'
  BY Zenon, <1>2
<1>13. \A a \in Live, i \in Pages : a \in Agents /\ heap[a][i].pa \in -1 .. HEAP_SIZE /\ (Mapped(heap[a][i]) => heap[a][i].pa \in 0 .. HEAP_SIZE)
  BY Zenon, CurFacts DEF Live
<1>14. Untouched'
  <2>1. \A f \in heap_ptr' .. HEAP_SIZE : mem'[f] = 0
    <3> SUFFICES ASSUME NEW f \in heap_ptr .. HEAP_SIZE PROVE mem'[f] = 0
      BY Zenon, <1>2
    <3>1. mem[f] = 0
      BY Zenon DEF CowInv, Untouched
    <3>2. heap_ptr \in 0 .. HEAP_SIZE
      BY Zenon DEF Types, TypeOK
    <3>3. f \in 0 .. HEAP_SIZE /\ f # e.pa
      BY <1>7, <1>8, <3>2, Sizes
    <3> QED  BY Zenon, <1>5, <3>1, <3>3
  <2>2. \A a \in Live, i \in Pages : ~Mapped(heap'[a][i]) => val'[a][i] = 0
    <3> SUFFICES ASSUME NEW a \in Live, NEW i \in Pages, ~Mapped(heap[a][i]) PROVE val'[a][i] = 0
      BY Zenon, <1>11
    <3>1. val[a][i] = 0
      BY Zenon DEF CowInv, Untouched
    <3>2. val'[a][i] = val[a][i]
      BY Zenon, <1>5, <1>8, <1>13
    <3> QED  BY Zenon, <3>1, <3>2
  <2> QED  BY Zenon, <1>4, <2>1, <2>2 DEF Untouched
<1>15. Alone'
  BY Zenon, <1>2, <1>4 DEF CowInv, Alone
<1>16. Recalled'
  <2> SUFFICES ASSUME NEW i \in Pages, Mapped(tlb'[i])
               PROVE  /\ Mapped(heap[cur][i]) /\ tlb'[i].pa < heap_ptr
                      /\ \A j \in Pages : j # i /\ heap[cur][j].w => heap[cur][j].pa # tlb'[i].pa
                      /\ \A b \in Live, j \in Pages : b # cur => heap[b][j].pa # tlb'[i].pa
    BY Zenon, <1>2, <1>4 DEF Recalled
  <2>1. CASE i = k
    BY Zenon, <1>5, <1>8, <2>1
  <2>2. CASE i # k
    <3>1. tlb'[i] = tlb[i]
      BY Zenon, <1>5, <2>2
    <3> QED  BY Zenon, <1>1, <3>1 DEF CowInv, Recalled
  <2> QED  BY Zenon, <2>1, <2>2
<1>17. CowPrivate'
  <2>1. ASSUME NEW a \in Live, NEW i \in Pages, Mapped(heap[a][i]), <<a, i>> \notin loose'
        PROVE  mem'[heap[a][i].pa] = val'[a][i]
    <3>1. CASE a = cur /\ i = k
      BY Zenon, <1>5, <1>7, <1>10, <2>1, <3>1
    <3>2. CASE ~(a = cur /\ i = k)
      <4>1. heap[a][i].pa # e.pa /\ <<a, i>> \notin loose
        BY Zenon, <1>8, <1>9, <1>12, <2>1, <3>2
      <4>2. mem[heap[a][i].pa] = val[a][i]
        BY Zenon, <2>1, <4>1 DEF CowInv, CowPrivate
      <4>3. mem'[heap[a][i].pa] = mem[heap[a][i].pa] /\ val'[a][i] = val[a][i]
        BY Zenon, <1>5, <1>13, <2>1, <3>2, <4>1
      <4> QED  BY Zenon, <4>2, <4>3
    <3> QED  BY Zenon, <3>1, <3>2
  <2>2. ASSUME NEW i \in Pages, Mapped(tlb'[i]), <<cur, i>> \notin loose'
        PROVE  mem'[tlb'[i].pa] = val'[cur][i]
    <3>1. CASE i = k
      BY Zenon, <1>5, <1>7, <3>1
    <3>2. CASE i # k
      <4>1. tlb'[i] = tlb[i] /\ val'[cur][i] = val[cur][i]
        BY Zenon, <1>1, <1>5, <3>2
      <4>2. <<cur, i>> \notin loose /\ tlb[i].pa # e.pa
        BY Zenon, <1>9, <2>2, <3>2, <4>1
      <4>3. mem[tlb[i].pa] = val[cur][i]
        BY Zenon, <1>1, <2>2, <4>1, <4>2 DEF CowInv, CowPrivate
      <4>4. tlb[i] \in Entries
        BY Zenon DEF Types, TypeOK
      <4>5. tlb[i].pa \in 0 .. HEAP_SIZE
        BY <2>2, <4>1, <4>4, Sizes DEF Entries, Mapped, None
      <4> QED  BY Zenon, <1>5, <4>1, <4>2, <4>3, <4>5
    <3> QED  BY Zenon, <3>1, <3>2
  <2>3. \A a \in Live', i \in Pages :
           Mapped(heap'[a][i]) /\ <<a, i>> \notin loose' => mem'[heap'[a][i].pa] = val'[a][i]
    BY Zenon, <1>4, <1>11, <2>1
  <2>4. \A i \in Pages : Mapped(tlb'[i]) /\ <<cur', i>> \notin loose' => mem'[tlb'[i].pa] = val'[cur'][i]
    BY Zenon, <1>11, <2>2
  <2> QED  BY Zenon, <2>3, <2>4 DEF CowPrivate
<1> QED  BY Zenon, <1>14, <1>15, <1>16, <1>17 DEF CowInv

\* A page that gets a frame keeps what it reads as: the frame holds zero, or the
\* copy vm_cow_break makes.
LEMMA CowGets ==
  ASSUME Types, FrameInv, CowInv, Counters, NEW k \in Pages, NEW p \in heap_ptr .. HEAP_SIZE, Gets(k, p)
  PROVE  CowInv'
<1>1. /\ cur \in Agents /\ cur \in Live /\ cur' = cur /\ Live' = Live
      /\ p \in 0 .. HEAP_SIZE /\ heap_ptr <= p
      /\ \A b \in Agents : b # cur => heap'[b] = heap[b]
      /\ \A i \in Pages : i # k => heap'[cur][i] = heap[cur][i]
      /\ heap'[cur][k].pa = p /\ heap'[cur][k].w = TRUE /\ Mapped(heap'[cur][k])
  BY Zenon, GetsFacts
<1>2. cur # None /\ p + PAGE <= heap_ptr' /\ tlb' = tlb /\ val' = val /\ loose' = loose
  BY Zenon DEF Gets
<1>3. mem' = IF Mapped(heap[cur][k]) THEN [mem EXCEPT ![p] = mem[heap[cur][k].pa]] ELSE mem
  BY Zenon DEF Gets
<1>4. mem \in [0 .. HEAP_SIZE -> Values \cup {0}]
  BY Zenon DEF Types, TypeOK
<1>5. /\ \A f \in 0 .. HEAP_SIZE : f # p => mem'[f] = mem[f]
      /\ mem'[p] = IF Mapped(heap[cur][k]) THEN mem[heap[cur][k].pa] ELSE mem[p]
  BY Zenon, <1>1, <1>3, <1>4
<1>6. \A a \in Live, i \in Pages :
         /\ a \in Agents /\ heap[a][i].pa # p /\ (Mapped(heap[a][i]) => heap[a][i].pa \in 0 .. HEAP_SIZE)
         /\ (a # cur \/ i # k) => heap'[a][i] = heap[a][i]
  <2>1. p \in Int
    BY <1>1
  <2>2. \A a \in Live, i \in Pages : heap[a][i].pa # p
    BY Zenon, <1>1, <2>1, FrameFacts
  <2>3. \A a \in Live : a \in Agents
    BY Zenon DEF Live
  <2>4. \A a \in Live, i \in Pages : Mapped(heap[a][i]) => heap[a][i].pa \in 0 .. HEAP_SIZE
    BY Zenon, <2>3, CurFacts
  <2> QED  BY Zenon, <1>1, <2>2, <2>3, <2>4
<1>7. Untouched'
  <2>1. ASSUME NEW f \in heap_ptr' .. HEAP_SIZE PROVE mem'[f] = 0
    <3>1. f \in heap_ptr .. HEAP_SIZE
      BY Zenon, PointerGrows
    <3>2. mem[f] = 0
      BY Zenon, <3>1 DEF CowInv, Untouched
    <3>3. heap_ptr \in 0 .. HEAP_SIZE /\ heap_ptr' \in heap_ptr .. HEAP_SIZE
      BY Zenon DEF Types, TypeOK, Counters
    <3>4. f \in 0 .. HEAP_SIZE /\ f # p
      BY <1>1, <1>2, <3>3, Sizes
    <3> QED  BY Zenon, <1>5, <3>2, <3>4
  <2>2. ASSUME NEW a \in Live, NEW i \in Pages, ~Mapped(heap'[a][i]) PROVE val'[a][i] = 0
    <3>1. heap'[a][i] = heap[a][i]
      BY Zenon, <1>1, <1>6, <2>2
    <3> QED  BY Zenon, <1>2, <2>2, <3>1 DEF CowInv, Untouched
  <2> QED  BY Zenon, <1>1, <2>1, <2>2 DEF Untouched
<1>8. Alone'
  <2> SUFFICES ASSUME NEW a \in Live, NEW i \in Pages, NEW j \in Pages, heap'[a][i].w
               PROVE  Mapped(heap'[a][i]) /\ (j # i => heap'[a][j].pa # heap'[a][i].pa)
    BY Zenon, <1>1 DEF Alone
  <2>1. CASE a = cur /\ i = k
    BY ZenonT(60), <1>1, <1>6, <2>1
  <2>2. CASE ~(a = cur /\ i = k)
    <3>1. heap'[a][i] = heap[a][i]
      BY Zenon, <1>6, <2>2
    <3>2. Mapped(heap[a][i]) /\ (j # i => heap[a][j].pa # heap[a][i].pa)
      BY Zenon, <3>1 DEF CowInv, Alone
    <3>3. heap'[a][j] = heap[a][j] \/ heap'[a][j].pa = p
      BY Zenon, <1>1, <1>6
    <3>4. heap[a][i].pa # p
      BY Zenon, <1>6
    <3>5. CASE heap'[a][j] = heap[a][j]
      BY Zenon, <3>1, <3>2, <3>5
    <3>6. CASE heap'[a][j].pa = p
      BY Zenon, <3>1, <3>2, <3>4, <3>6
    <3> QED  BY Zenon, <3>3, <3>5, <3>6
  <2> QED  BY Zenon, <2>1, <2>2
<1>9. \A i \in Pages : Mapped(tlb[i]) => tlb[i].pa # p /\ tlb[i].pa < heap_ptr' /\ tlb[i].pa \in 0 .. HEAP_SIZE
  <2> SUFFICES ASSUME NEW i \in Pages, Mapped(tlb[i])
               PROVE  tlb[i].pa # p /\ tlb[i].pa < heap_ptr' /\ tlb[i].pa \in 0 .. HEAP_SIZE
    BY Zenon
  <2>1. tlb[i].pa < heap_ptr
    BY Zenon, <1>2 DEF CowInv, Recalled
  <2>2. tlb[i] \in Entries
    BY Zenon DEF Types, TypeOK
  <2>3. tlb[i].pa \in 0 .. HEAP_SIZE
    BY <2>2, Sizes DEF Entries, Mapped, None
  <2>4. tlb[i].pa < heap_ptr'
    BY Zenon, <2>1, PointerGrows, TlbTypes
  <2>5. tlb[i].pa # p
    BY <1>1, <2>1, <2>3, PointerGrows
  <2> QED  BY Zenon, <2>3, <2>4, <2>5
<1>10. Recalled'
  <2> SUFFICES ASSUME NEW i \in Pages, Mapped(tlb[i])
               PROVE  /\ Mapped(heap'[cur][i]) /\ tlb[i].pa < heap_ptr'
                      /\ \A j \in Pages : j # i /\ heap'[cur][j].w => heap'[cur][j].pa # tlb[i].pa
                      /\ \A b \in Live, j \in Pages : b # cur => heap'[b][j].pa # tlb[i].pa
    BY Zenon, <1>1, <1>2 DEF Recalled
  <2>1. /\ Mapped(heap[cur][i])
        /\ \A j \in Pages : j # i /\ heap[cur][j].w => heap[cur][j].pa # tlb[i].pa
        /\ \A b \in Live, j \in Pages : b # cur => heap[b][j].pa # tlb[i].pa
    BY Zenon, <1>2 DEF CowInv, Recalled
  <2>2. Mapped(heap'[cur][i]) /\ tlb[i].pa < heap_ptr'
    BY Zenon, <1>1, <1>9, <2>1
  <2>3. ASSUME NEW j \in Pages, j # i, heap'[cur][j].w PROVE heap'[cur][j].pa # tlb[i].pa
    <3>1. CASE j = k
      BY Zenon, <1>1, <1>9, <3>1
    <3>2. CASE j # k
      <4>1. heap'[cur][j] = heap[cur][j]
        BY Zenon, <1>1, <3>2
      <4> QED  BY Zenon, <2>1, <2>3, <4>1
    <3> QED  BY Zenon, <3>1, <3>2
  <2>4. ASSUME NEW b \in Live, NEW j \in Pages, b # cur PROVE heap'[b][j].pa # tlb[i].pa
    <3>1. heap'[b][j] = heap[b][j]
      BY Zenon, <1>6, <2>4
    <3> QED  BY Zenon, <2>1, <2>4, <3>1
  <2> QED  BY Zenon, <2>2, <2>3, <2>4
<1>11. CowPrivate'
  <2>1. ASSUME NEW a \in Live, NEW i \in Pages, Mapped(heap'[a][i]), <<a, i>> \notin loose
        PROVE  mem'[heap'[a][i].pa] = val[a][i]
    <3>1. CASE a = cur /\ i = k
      <4>1. CASE Mapped(heap[cur][k])
        BY ZenonT(60), <1>1, <1>5, <2>1, <3>1, <4>1 DEF CowInv, CowPrivate
      <4>2. CASE ~Mapped(heap[cur][k])
        <5>1. mem[p] = 0 /\ val[cur][k] = 0
          BY Zenon, <1>1, <4>2 DEF CowInv, Untouched
        <5>2. mem'[p] = mem[p]
          BY Zenon, <1>5, <4>2
        <5> QED  BY Zenon, <1>1, <3>1, <5>1, <5>2
      <4> QED  BY Zenon, <4>1, <4>2
    <3>2. CASE ~(a = cur /\ i = k)
      <4>1. heap'[a][i] = heap[a][i]
        BY Zenon, <1>6, <3>2
      <4>2. mem[heap[a][i].pa] = val[a][i]
        BY Zenon, <2>1, <4>1 DEF CowInv, CowPrivate
      <4>3. mem'[heap[a][i].pa] = mem[heap[a][i].pa]
        BY Zenon, <1>5, <1>6, <2>1, <4>1
      <4> QED  BY Zenon, <4>1, <4>2, <4>3
    <3> QED  BY Zenon, <3>1, <3>2
  <2>2. ASSUME NEW i \in Pages, Mapped(tlb[i]), <<cur, i>> \notin loose
        PROVE  mem'[tlb[i].pa] = val[cur][i]
    <3>1. mem[tlb[i].pa] = val[cur][i]
      BY Zenon, <1>2, <2>2 DEF CowInv, CowPrivate
    <3> QED  BY Zenon, <1>5, <1>9, <2>2, <3>1
  <2>3. \A a \in Live', i \in Pages :
           Mapped(heap'[a][i]) /\ <<a, i>> \notin loose' => mem'[heap'[a][i].pa] = val'[a][i]
    BY ZenonT(60), <1>1, <1>2, <2>1
  <2>4. \A i \in Pages : Mapped(tlb'[i]) /\ <<cur', i>> \notin loose' => mem'[tlb'[i].pa] = val'[cur'][i]
    BY Zenon, <1>1, <1>2, <2>2
  <2> QED  BY Zenon, <2>3, <2>4 DEF CowPrivate
<1> QED  BY Zenon, <1>7, <1>8, <1>10, <1>11 DEF CowInv

\* A page that is aliased reads as the page it shares the frame of, and neither
\* may be written.
LEMMA CowAliases ==
  ASSUME Types, FrameInv, CowInv, NEW dst \in Pages, NEW src \in Pages, Aliases(dst, src)
  PROVE  CowInv'
<1>1. /\ cur \in Agents /\ cur \in Live /\ cur' = cur /\ Live' = Live
      /\ \A b \in Agents : b # cur => heap'[b] = heap[b]
      /\ \A i \in Pages : i # dst /\ i # src => heap'[cur][i] = heap[cur][i]
      /\ \A i \in {dst, src} :
            heap'[cur][i].pa = heap[cur][src].pa /\ heap'[cur][i].w = FALSE /\ Mapped(heap'[cur][i])
  BY Zenon, AliasFacts
<1>2. /\ cur # None /\ dst # src /\ Mapped(heap[cur][src])
      /\ Mapped(heap[cur][dst]) => heap[cur][dst].pa = heap[cur][src].pa
      /\ heap_ptr' = heap_ptr /\ mem' = mem /\ tlb' = tlb
  BY Zenon DEF Aliases
<1>3. loose \subseteq loose' /\ (<<cur, dst>> \notin loose' => <<cur, src>> \notin loose)
  <2>1. loose' = IF <<cur, src>> \in loose THEN loose \cup {<<cur, dst>>} ELSE loose
    BY Zenon DEF Aliases
  <2> QED  BY Zenon, <2>1
<1>4. /\ val'[cur][dst] = val[cur][src]
      /\ \A a \in Agents, i \in Pages : (a # cur \/ i # dst) => val'[a][i] = val[a][i]
  <2>1. val \in [Agents -> [Pages -> Values \cup {0}]] /\ val[cur] \in [Pages -> Values \cup {0}]
    BY Zenon, <1>1 DEF Types, TypeOK
  <2>2. val' = [val EXCEPT ![cur] = [val[cur] EXCEPT ![dst] = val[cur][src]]]
    BY Zenon DEF Aliases
  <2>3. val'[cur] = [val[cur] EXCEPT ![dst] = val[cur][src]] /\ \A a \in Agents : a # cur => val'[a] = val[a]
    BY Zenon, <1>1, <2>1, <2>2
  <2> QED  BY Zenon, <2>1, <2>3
<1>5. \A a \in Live, i \in Pages :
         a \in Agents /\ ((a # cur \/ (i # dst /\ i # src)) => heap'[a][i] = heap[a][i])
  BY Zenon, <1>1 DEF Live
<1>6. Untouched'
  <2>1. \A f \in heap_ptr' .. HEAP_SIZE : mem'[f] = 0
    BY Zenon, <1>2 DEF CowInv, Untouched
  <2>2. ASSUME NEW a \in Live, NEW i \in Pages, ~Mapped(heap'[a][i]) PROVE val'[a][i] = 0
    <3>1. ~(a = cur /\ i \in {dst, src})
      BY Zenon, <1>1, <2>2
    <3>2. heap'[a][i] = heap[a][i] /\ val'[a][i] = val[a][i]
      BY Zenon, <1>4, <1>5, <3>1
    <3> QED  BY Zenon, <2>2, <3>2 DEF CowInv, Untouched
  <2> QED  BY Zenon, <1>1, <2>1, <2>2 DEF Untouched
<1>7. Alone'
  <2> SUFFICES ASSUME NEW a \in Live, NEW i \in Pages, NEW j \in Pages, heap'[a][i].w
               PROVE  Mapped(heap'[a][i]) /\ (j # i => heap'[a][j].pa # heap'[a][i].pa)
    BY Zenon, <1>1 DEF Alone
  <2>1. ~(a = cur /\ i \in {dst, src})
    BY Zenon, <1>1
  <2>2. heap'[a][i] = heap[a][i]
    BY Zenon, <1>5, <2>1
  <2>3. Mapped(heap[a][i]) /\ \A n \in Pages : n # i => heap[a][n].pa # heap[a][i].pa
    BY Zenon, <2>2 DEF CowInv, Alone
  <2>4. CASE a = cur /\ j \in {dst, src}
    <3>1. heap'[a][j].pa = heap[a][src].pa /\ src # i
      BY Zenon, <1>1, <2>1, <2>4
    <3> QED  BY Zenon, <2>2, <2>3, <3>1
  <2>5. CASE ~(a = cur /\ j \in {dst, src})
    <3>1. heap'[a][j] = heap[a][j]
      BY Zenon, <1>5, <2>5
    <3> QED  BY Zenon, <2>2, <2>3, <3>1
  <2> QED  BY Zenon, <2>4, <2>5
<1>8. Recalled'
  <2> SUFFICES ASSUME NEW i \in Pages, Mapped(tlb[i])
               PROVE  /\ Mapped(heap'[cur][i]) /\ tlb[i].pa < heap_ptr
                      /\ \A j \in Pages : j # i /\ heap'[cur][j].w => heap'[cur][j].pa # tlb[i].pa
                      /\ \A b \in Live, j \in Pages : b # cur => heap'[b][j].pa # tlb[i].pa
    BY ZenonT(60), <1>1, <1>2 DEF Recalled
  <2>1. /\ Mapped(heap[cur][i]) /\ tlb[i].pa < heap_ptr
        /\ \A j \in Pages : j # i /\ heap[cur][j].w => heap[cur][j].pa # tlb[i].pa
        /\ \A b \in Live, j \in Pages : b # cur => heap[b][j].pa # tlb[i].pa
    BY Zenon, <1>2 DEF CowInv, Recalled
  <2>2. Mapped(heap'[cur][i])
    BY Zenon, <1>1, <2>1
  <2>3. ASSUME NEW j \in Pages, j # i, heap'[cur][j].w PROVE heap'[cur][j].pa # tlb[i].pa
    <3>1. heap'[cur][j] = heap[cur][j]
      BY Zenon, <1>1, <2>3
    <3> QED  BY Zenon, <2>1, <2>3, <3>1
  <2>4. ASSUME NEW b \in Live, NEW j \in Pages, b # cur PROVE heap'[b][j].pa # tlb[i].pa
    <3>1. heap'[b][j] = heap[b][j]
      BY Zenon, <1>5, <2>4
    <3> QED  BY Zenon, <2>1, <2>4, <3>1
  <2> QED  BY Zenon, <2>1, <2>2, <2>3, <2>4
<1>9. CowPrivate'
  <2>1. ASSUME NEW a \in Live, NEW i \in Pages, Mapped(heap'[a][i]), <<a, i>> \notin loose'
        PROVE  mem[heap'[a][i].pa] = val'[a][i]
    <3>1. CASE a = cur /\ i \in {dst, src}
      <4>1. <<cur, src>> \notin loose
        BY Zenon, <1>3, <2>1, <3>1
      <4>2. mem[heap[cur][src].pa] = val[cur][src]
        BY Zenon, <1>1, <1>2, <4>1 DEF CowInv, CowPrivate
      <4>3. val'[a][i] = val[cur][src]
        BY Zenon, <1>1, <1>2, <1>4, <3>1
      <4> QED  BY Zenon, <1>1, <3>1, <4>2, <4>3
    <3>2. CASE ~(a = cur /\ i \in {dst, src})
      <4>1. heap'[a][i] = heap[a][i] /\ val'[a][i] = val[a][i] /\ <<a, i>> \notin loose
        BY Zenon, <1>3, <1>4, <1>5, <2>1, <3>2
      <4> QED  BY ZenonT(60), <2>1, <4>1 DEF CowInv, CowPrivate
    <3> QED  BY Zenon, <3>1, <3>2
  <2>2. ASSUME NEW i \in Pages, Mapped(tlb[i]), <<cur, i>> \notin loose'
        PROVE  mem[tlb[i].pa] = val'[cur][i]
    <3>1. mem[tlb[i].pa] = val[cur][i] /\ <<cur, i>> \notin loose
      BY Zenon, <1>2, <1>3, <2>2 DEF CowInv, CowPrivate
    <3>2. CASE i = dst
      <4>1. Mapped(heap[cur][dst])
        BY Zenon, <1>2, <2>2, <3>2 DEF CowInv, Recalled
      <4>2. mem[heap[cur][dst].pa] = val[cur][dst]
        BY Zenon, <1>1, <3>1, <3>2, <4>1 DEF CowInv, CowPrivate
      <4>3. <<cur, src>> \notin loose
        BY Zenon, <1>3, <2>2, <3>2
      <4>4. mem[heap[cur][src].pa] = val[cur][src]
        BY Zenon, <1>1, <1>2, <4>3 DEF CowInv, CowPrivate
      <4> QED  BY Zenon, <1>2, <1>4, <3>1, <3>2, <4>1, <4>2, <4>4
    <3>3. CASE i # dst
      BY Zenon, <1>1, <1>4, <3>1, <3>3
    <3> QED  BY Zenon, <3>2, <3>3
  <2>3. \A a \in Live', i \in Pages :
           Mapped(heap'[a][i]) /\ <<a, i>> \notin loose' => mem'[heap'[a][i].pa] = val'[a][i]
    BY ZenonT(60), <1>1, <1>2, <2>1
  <2>4. \A i \in Pages : Mapped(tlb'[i]) /\ <<cur', i>> \notin loose' => mem'[tlb'[i].pa] = val'[cur'][i]
    BY Zenon, <1>1, <1>2, <2>2
  <2> QED  BY Zenon, <2>3, <2>4 DEF CowPrivate
<1> QED  BY Zenon, <1>6, <1>7, <1>8, <1>9 DEF CowInv

\* Every step keeps pages private.
LEMMA CowStep ==
  ASSUME Types, FrameInv, CowInv, Kind
  PROVE  CowInv'
<1>1. Counters
  BY Zenon DEF Kind
<1>2. CASE Quiet
  BY Zenon, <1>1, <1>2, CowQuiet
<1>3. CASE Enters
  BY Zenon, <1>1, <1>3, CowEnters
<1>4. CASE Looks
  BY Zenon, <1>1, <1>4, CowLooks
<1>5. CASE \E k \in Pages, v \in Values : Stores(k, v)
  BY Zenon, <1>1, <1>5, CowStores
<1>6. CASE \E k \in Pages, p \in heap_ptr .. HEAP_SIZE : Gets(k, p)
  BY Zenon, <1>1, <1>6, CowGets
<1>7. CASE \E dst, src \in Pages : Aliases(dst, src)
  BY Zenon, <1>7, CowAliases
<1> QED  BY Zenon, <1>2, <1>3, <1>4, <1>5, <1>6, <1>7 DEF Kind

\* At the start there is no agent, and every frame holds zero.
LEMMA InvInit ==
  ASSUME Init
  PROVE  HeapCounted /\ FrameInv /\ CowInv /\ LoaderInv
<1>1. Live = {} /\ cur = None
  BY DEF Init, Live
<1>2. HeapCounted /\ LoaderInv
  BY Zenon, <1>1 DEF HeapCounted, LoaderInv
<1>3. FrameInv
  BY Zenon, <1>1 DEF FrameInv, Below, OwnFrames
<1>4. \A f \in heap_ptr .. HEAP_SIZE : mem[f] = 0
  BY DEF Init
<1>5. CowInv
  BY Zenon, <1>1, <1>4 DEF CowInv, Untouched, Alone, Recalled, CowPrivate
<1> QED  BY Zenon, <1>2, <1>3, <1>5

-----------------------------------------------------------------------------
(* mem.c: what is handed out lies between the old pointer and the new one  *)

\* The rest of a division.
LEMMA Division ==
  ASSUME NEW x \in Int, NEW d \in Nat \ {0}
  PROVE  /\ x \div d \in Int /\ x % d \in 0 .. d - 1
         /\ x = d * (x \div d) + (x % d)
         /\ x \in Nat => x \div d \in Nat
<1>1. x \div d \in Int /\ x % d \in 0 .. d - 1
  OBVIOUS
<1>2. \A y, m \in Int : m > 0 => y = m * (y \div m) + (y % m)
  BY Z3
<1>3. ASSUME x \in Nat PROVE x \div d \in Nat
  <2> DEFINE q == x \div d
             r == x % d
  <2>1. q \in Int /\ r \in 0 .. d - 1 /\ x = q * d + r
    <3>1. d \in Int /\ d > 0
      OBVIOUS
    <3>2. x = d * q + r
      BY Zenon, <1>2, <3>1
    <3>3. q \in Int /\ r \in 0 .. d - 1
      BY Zenon, <1>1
    <3> HIDE DEF q, r
    <3> QED  BY <3>2, <3>3
  <2> HIDE DEF q, r
  <2> SUFFICES ASSUME q < 0 PROVE FALSE
    BY <2>1 DEF q
  <2>2. q * d <= -d
    BY <2>1
  <2> QED  BY <1>3, <2>1, <2>2
<1>4. d \in Int /\ d > 0
  OBVIOUS
<1>5. x = d * (x \div d) + (x % d)
  BY Zenon, <1>2, <1>4
<1> QED  BY Zenon, <1>1, <1>3, <1>5

\* A quotient grows with what is divided.
LEMMA DivisionGrows ==
  ASSUME NEW x \in Int, NEW y \in Int, NEW d \in Nat \ {0}, x <= y
  PROVE  x \div d <= y \div d /\ (x + d <= y => (x \div d) + 1 <= y \div d)
<1> DEFINE a == x \div d
           b == y \div d
           r == x % d
           s == y % d
<1>1. /\ a \in Int /\ b \in Int /\ r \in 0 .. d - 1 /\ s \in 0 .. d - 1
      /\ x = d * a + r /\ y = d * b + s
  BY Zenon, Division
<1> HIDE DEF a, b, r, s
<1>2. d * (a - b) = s - r + x - y
  BY <1>1
<1>3. a <= b
  <2> SUFFICES ASSUME b < a PROVE FALSE
    BY <1>1
  <2>1. d * (a - b) >= d
    BY <1>1
  <2> QED  BY <1>1, <1>2, <2>1
<1>4. ASSUME x + d <= y PROVE a + 1 <= b
  <2> SUFFICES ASSUME b <= a PROVE FALSE
    BY <1>1
  <2>1. d * (a - b) >= 0
    BY <1>1
  <2> QED  BY <1>1, <1>2, <1>4, <2>1
<1> QED  BY <1>3, <1>4 DEF a, b

\* kalloc_page rounds up, to the same number where that starts a page.
LEMMA RoundUpFacts ==
  ASSUME NEW p \in Nat
  PROVE  /\ RoundUp(p) \in Nat /\ p <= RoundUp(p)
         /\ \E q \in Nat : RoundUp(p) = q * PAGE
         /\ \A q \in Nat : p = q * PAGE => RoundUp(p) = p
<1>1. PAGE \in Nat /\ PAGE > 0
  BY Sizes
<1> DEFINE q == (p + PAGE - 1) \div PAGE
           r == (p + PAGE - 1) % PAGE
<1>2. q \in Nat /\ r \in 0 .. PAGE - 1 /\ p + PAGE - 1 = PAGE * q + r
  <2>1. p + PAGE - 1 \in Nat /\ p + PAGE - 1 \in Int /\ PAGE \in Nat \ {0}
    BY <1>1
  <2> QED  BY Zenon, <2>1, Division
<1>3. RoundUp(p) = q * PAGE
  BY DEF RoundUp
<1> HIDE DEF q, r
<1>4. q * PAGE \in Nat /\ p <= q * PAGE
  BY <1>1, <1>2
<1>5. ASSUME NEW s \in Nat, p = s * PAGE PROVE q = s
  <2>1. (s - q) * PAGE = r - (PAGE - 1)
    BY <1>1, <1>2, <1>5
  <2>2. s - q \in Int /\ r - (PAGE - 1) <= 0 /\ r - (PAGE - 1) > -PAGE
    BY <1>1, <1>2
  <2>3. s - q <= 0
    BY <1>1, <2>1, <2>2
  <2>4. s - q > -1
    BY <1>1, <2>1, <2>2
  <2> QED  BY <1>2, <2>3, <2>4
<1> QED
  BY Zenon, <1>2, <1>3, <1>4, <1>5

\* kalloc: nothing and the pointer as it was, or n units from the pointer on.
LEMMA KallocFacts ==
  ASSUME NEW p \in 0 .. HEAP_SIZE, NEW n \in Nat
  PROVE  LET g == kalloc(p, n)
         IN  /\ g.ptr \in p .. HEAP_SIZE
             /\ g.at # None => g.at = p /\ p \in Nat /\ p + n = g.ptr
BY Sizes DEF kalloc, None

\* kalloc_page: nothing and the pointer as it was, or a page.
LEMMA KallocPageFacts ==
  ASSUME NEW p \in 0 .. HEAP_SIZE
  PROVE  LET g == kalloc_page(p)
         IN  /\ g.ptr \in p .. HEAP_SIZE
             /\ g.at # None => /\ g.at \in p .. HEAP_SIZE /\ g.at + PAGE = g.ptr
                               /\ \E q \in Nat : g.ptr = q * PAGE
             /\ g.at = None => g.ptr = p
<1>1. /\ PAGE \in Nat \ {0} /\ HEAP_SIZE \in Nat
      /\ RoundUp(p) \in Nat /\ p <= RoundUp(p)
  BY Sizes, RoundUpFacts
<1>2. PICK q \in Nat : RoundUp(p) = q * PAGE
  BY RoundUpFacts
<1>3. RoundUp(p) + PAGE = (q + 1) * PAGE /\ q + 1 \in Nat
  BY <1>1, <1>2
<1>4. CASE RoundUp(p) + PAGE > HEAP_SIZE
  BY <1>1, <1>4 DEF kalloc_page, None
<1>5. CASE ~(RoundUp(p) + PAGE > HEAP_SIZE)
  <2>1. kalloc_page(p) = [at |-> RoundUp(p), ptr |-> RoundUp(p) + PAGE]
    BY <1>5, Zenon DEF kalloc_page
  <2>2. RoundUp(p) \in p .. HEAP_SIZE /\ RoundUp(p) + PAGE \in p .. HEAP_SIZE /\ RoundUp(p) # None
    BY <1>1, <1>5 DEF None
  <2> HIDE DEF kalloc_page
  <2> QED  BY <1>3, <2>1, <2>2
<1> QED
  BY <1>4, <1>5

\* agent_setup_stack: the stack and behind it the trap frame, of what was free;
\* an attempt that fails takes some of it as well.
LEMMA SetupFacts ==
  ASSUME NEW p \in 0 .. HEAP_SIZE, pt_next \in 0 .. PT_PAGES
  PROVE  LET s == agent_setup_stack(p)
         IN  /\ s.ok \in BOOLEAN /\ s.ptr \in p .. HEAP_SIZE /\ s.pts \in 0 .. PT_PAGES
             /\ s.ok => /\ s.stack \in Nat /\ s.tf \in Nat /\ p <= s.stack
                        /\ s.stack + STACK <= s.tf /\ s.tf < s.ptr
<1> DEFINE guard == kalloc_page(p)
           stk   == kalloc(guard.ptr, STACK)
           frame == kalloc(stk.ptr, 1)
           root  == vm_create_agent_pt(pt_next)
           way   == vm_map_user_stack(root.pts)
           s     == agent_setup_stack(p)
<1>1. /\ guard.ptr \in p .. HEAP_SIZE
      /\ guard.at # None => \E q \in Nat : guard.ptr = q * PAGE
  BY KallocPageFacts
<1>2. guard.ptr \in 0 .. HEAP_SIZE /\ STACK \in Nat /\ 1 \in Nat
  BY <1>1, Sizes
<1>3. /\ stk.ptr \in guard.ptr .. HEAP_SIZE
      /\ stk.at # None => stk.at = guard.ptr /\ stk.ptr = guard.ptr + STACK
  <2> HIDE DEF guard
  <2> QED  BY <1>2, KallocFacts
<1>4. stk.ptr \in 0 .. HEAP_SIZE
  <2> HIDE DEF guard, stk
  <2> QED  BY <1>2, <1>3
<1>5. /\ frame.ptr \in stk.ptr .. HEAP_SIZE
      /\ frame.at # None => frame.at = stk.ptr /\ frame.ptr = stk.ptr + 1
  <2> HIDE DEF stk
  <2> QED  BY <1>2, <1>4, KallocFacts
<1>6. /\ root.pts \in 0 .. PT_PAGES /\ way.pts \in 0 .. PT_PAGES /\ PT_PAGES \in 0 .. PT_PAGES
  BY Sizes DEF vm_create_agent_pt, vm_map_user_stack, pt_alloc
<1>7. \/ s = Setup(FALSE, p, pt_next, None, None)
      \/ s = Setup(FALSE, guard.ptr, pt_next, None, None)
      \/ s = Setup(FALSE, stk.ptr, PT_PAGES, None, None)
      \/ s = Setup(FALSE, stk.ptr, way.pts, None, None)
      \/ /\ s = Setup(TRUE, frame.ptr, way.pts, RoundUp(stk.at), frame.at)
         /\ guard.at # None /\ stk.at # None /\ frame.at # None
  BY Zenon DEF agent_setup_stack
<1> HIDE DEF guard, stk, frame, root, way, s
<1>8. guard.at # None /\ stk.at # None => RoundUp(stk.at) = guard.ptr
  BY SMTT(60), <1>1, <1>2, <1>3, RoundUpFacts
<1> SUFFICES /\ s.ok \in BOOLEAN /\ s.ptr \in p .. HEAP_SIZE /\ s.pts \in 0 .. PT_PAGES
             /\ s.ok => /\ s.stack \in Nat /\ s.tf \in Nat /\ p <= s.stack
                        /\ s.stack + STACK <= s.tf /\ s.tf < s.ptr
  BY DEF s
<1>9. CASE s.ok
  <2>1. /\ s = Setup(TRUE, frame.ptr, way.pts, guard.ptr, frame.at)
        /\ guard.at # None /\ stk.at # None /\ frame.at # None
    BY <1>7, <1>8, <1>9 DEF Setup
  <2> QED  BY SMTT(60), <1>1, <1>2, <1>3, <1>4, <1>5, <1>6, <2>1 DEF Setup
<1>10. CASE ~s.ok
  <2>1. \E q \in {p, guard.ptr, stk.ptr}, n \in {pt_next, PT_PAGES, way.pts} : s = Setup(FALSE, q, n, None, None)
    BY <1>7, <1>10 DEF Setup
  <2> QED  BY SMTT(60), <1>1, <1>2, <1>3, <1>4, <1>6, <2>1 DEF Setup
<1> QED  BY <1>9, <1>10

-----------------------------------------------------------------------------
(* vm.c: what becomes of an agent's heap                                   *)

\* No page was given, though the allocator may have lost one.
Spared(a, h) ==
    /\ h.ents = heap[a] /\ h.n = heap_mapped[a]
    /\ h.ptr \in heap_ptr .. HEAP_SIZE /\ h.pts \in 0 .. PT_PAGES

\* A page that was not mapped, or was shared, is now on a frame no one else has.
Given(a, k, h) ==
    /\ h.ok /\ h.ptr \in heap_ptr .. HEAP_SIZE /\ h.pts \in 0 .. PT_PAGES
    /\ \E p \in heap_ptr .. HEAP_SIZE :
          p + PAGE <= h.ptr /\ h.ents = [heap[a] EXCEPT ![k] = pte(p, TRUE)]
    /\ h.n = IF Mapped(heap[a][k]) THEN heap_mapped[a] ELSE heap_mapped[a] + 1

\* A fresh page, from the allocator's facts.
LEMMA FreshPage ==
  ASSUME Types, NEW p, p = kalloc_page(heap_ptr)
  PROVE  /\ p.ptr \in heap_ptr .. HEAP_SIZE /\ heap_ptr \in heap_ptr .. HEAP_SIZE
         /\ p.at # None => p.at \in heap_ptr .. HEAP_SIZE /\ p.at + PAGE <= p.ptr
<1>1. heap_ptr \in 0 .. HEAP_SIZE
  BY Zenon DEF Types, TypeOK
<1>2. /\ p.ptr \in heap_ptr .. HEAP_SIZE
      /\ p.at # None => p.at \in heap_ptr .. HEAP_SIZE /\ p.at + PAGE = p.ptr
  BY <1>1, KallocPageFacts
<1> QED  BY Sizes, <1>1, <1>2

\* vm_heap_map_page: it maps the page to a fresh frame, or changes no entry.
LEMMA MapCases ==
  ASSUME Types, NEW a \in Agents, NEW k \in Pages
  PROVE  LET h == vm_heap_map_page(a, k)
         IN  \/ Spared(a, h) /\ h.ok \in BOOLEAN /\ (h.ok => Mapped(heap[a][k]))
             \/ Given(a, k, h) /\ ~Mapped(heap[a][k])
<1> DEFINE p == kalloc_page(heap_ptr)
           t == vm_walk(a)
           h == vm_heap_map_page(a, k)
<1>1. /\ p.ptr \in heap_ptr .. HEAP_SIZE /\ heap_ptr \in heap_ptr .. HEAP_SIZE
      /\ p.at # None => p.at \in heap_ptr .. HEAP_SIZE /\ p.at + PAGE <= p.ptr
  BY Zenon, FreshPage
<1>2. pt_next \in 0 .. PT_PAGES
  BY Zenon DEF Types, TypeOK
<1>3. t.pts \in 0 .. PT_PAGES
  BY Sizes, <1>2 DEF vm_walk, pt_alloc
<1>4. \/ Mapped(heap[a][k]) /\ h = Same(a, TRUE)
      \/ h = Same(a, FALSE)
      \/ h = [Same(a, FALSE) EXCEPT !.ptr = p.ptr]
      \/ /\ ~Mapped(heap[a][k]) /\ p.at # None
         /\ h = Heap(TRUE, p.ptr, t.pts, [heap[a] EXCEPT ![k] = pte(p.at, TRUE)], heap_mapped[a] + 1)
  BY Zenon DEF vm_heap_map_page
<1> HIDE DEF p, t, h
<1>5. CASE Mapped(heap[a][k]) /\ h = Same(a, TRUE)
  BY <1>1, <1>2, <1>5 DEF Same, Heap, Spared, h
<1>6. CASE h = Same(a, FALSE)
  BY <1>1, <1>2, <1>6 DEF Same, Heap, Spared, h
<1>7. CASE h = [Same(a, FALSE) EXCEPT !.ptr = p.ptr]
  BY <1>1, <1>2, <1>7 DEF Same, Heap, Spared, h
<1>8. CASE /\ ~Mapped(heap[a][k]) /\ p.at # None
           /\ h = Heap(TRUE, p.ptr, t.pts, [heap[a] EXCEPT ![k] = pte(p.at, TRUE)], heap_mapped[a] + 1)
  <2>1. /\ h.ok = TRUE /\ h.ptr = p.ptr /\ h.pts = t.pts /\ h.n = heap_mapped[a] + 1
        /\ h.ents = [heap[a] EXCEPT ![k] = pte(p.at, TRUE)]
    BY <1>8 DEF Heap
  <2>2. Given(a, k, h)
    BY Zenon, <1>1, <1>3, <1>8, <2>1 DEF Given
  <2> QED  BY Zenon, <1>8, <2>2 DEF h
<1> QED  BY ZenonT(60), <1>4, <1>5, <1>6, <1>7, <1>8

\* vm_heap_fault, whichever of its two ways it takes.
LEMMA FaultCases ==
  ASSUME Types, NEW a \in Agents, NEW k \in Pages, NEW write \in BOOLEAN
  PROVE  LET h == vm_heap_fault(a, k, write)
         IN  \/ Spared(a, h) /\ h.ok = FALSE
             \/ Given(a, k, h)
<1> DEFINE p == kalloc_page(heap_ptr)
           h == vm_heap_fault(a, k, write)
<1>1. /\ p.ptr \in heap_ptr .. HEAP_SIZE /\ heap_ptr \in heap_ptr .. HEAP_SIZE
      /\ p.at # None => p.at \in heap_ptr .. HEAP_SIZE /\ p.at + PAGE <= p.ptr
  BY Zenon, FreshPage
<1>2. pt_next \in 0 .. PT_PAGES
  BY Zenon DEF Types, TypeOK
<1>3. \/ ~Mapped(heap[a][k]) /\ h = vm_heap_map_page(a, k)
      \/ h = Same(a, FALSE)
      \/ /\ Mapped(heap[a][k]) /\ p.at # None
         /\ h = [Same(a, TRUE) EXCEPT !.ptr = p.ptr, !.ents[k] = pte(p.at, TRUE)]
  BY Zenon DEF vm_heap_fault, vm_cow_break
<1> HIDE DEF p, h
<1>4. CASE ~Mapped(heap[a][k]) /\ h = vm_heap_map_page(a, k)
  BY Zenon, <1>4, MapCases DEF h
<1>5. CASE h = Same(a, FALSE)
  BY <1>1, <1>2, <1>5 DEF Same, Heap, Spared, h
<1>6. CASE /\ Mapped(heap[a][k]) /\ p.at # None
           /\ h = [Same(a, TRUE) EXCEPT !.ptr = p.ptr, !.ents[k] = pte(p.at, TRUE)]
  <2>1. /\ h.ok = TRUE /\ h.ptr = p.ptr /\ h.pts = pt_next /\ h.n = heap_mapped[a]
        /\ h.ents = [heap[a] EXCEPT ![k] = pte(p.at, TRUE)]
    BY <1>6 DEF Same, Heap
  <2>2. Given(a, k, h)
    BY Zenon, <1>1, <1>2, <1>6, <2>1 DEF Given
  <2> QED  BY Zenon, <2>2 DEF h
<1> QED  BY ZenonT(60), <1>3, <1>4, <1>5, <1>6

\* A fault that vm_heap_fault mends leaves the page mapped and writable, and no
\* translation the processor keeps stands in the way.
LEMMA MendedFault ==
  ASSUME Types, tlb' = tlb, cur' # None, NEW k \in Pages, NEW write \in BOOLEAN, fault(k, write)
  PROVE  Permitted(k, write)'
<1> DEFINE h == vm_heap_fault(cur, k, write)
<1>1. cur # None /\ cur \in Agents /\ ~Permitted(k, write)
  BY Zenon, CurFacts DEF fault
<1>2. heap' = [heap EXCEPT ![cur] = h.ents]
  BY Zenon DEF fault, Apply
<1>3. (h.ok /\ cur' = cur) \/ (~h.ok /\ cur' = None)
  BY Zenon DEF fault
<1>4. (Spared(cur, h) /\ h.ok = FALSE) \/ Given(cur, k, h)
  BY Zenon, <1>1, FaultCases
<1> HIDE DEF h
<1>5. Given(cur, k, h) /\ cur' = cur
  BY Zenon, <1>3, <1>4 DEF Given
<1>6. PICK p \in heap_ptr .. HEAP_SIZE : h.ents = [heap[cur] EXCEPT ![k] = pte(p, TRUE)]
  BY Zenon, <1>5 DEF Given
<1>7. heap[cur] \in [Pages -> Entries] /\ heap \in [Agents -> [Pages -> Entries]]
  BY Zenon, <1>1 DEF Types, TypeOK
<1>8. heap'[cur][k] = pte(p, TRUE)
  BY Zenon, <1>1, <1>2, <1>6, <1>7
<1>9. heap_ptr \in 0 .. HEAP_SIZE
  BY Zenon DEF Types, TypeOK
<1>10. p \in 0 .. HEAP_SIZE
  BY <1>9, Sizes
<1>11. Mapped(heap'[cur'][k]) /\ heap'[cur'][k].w
  BY Zenon, <1>5, <1>8, <1>10, EntryTypes
<1>12. ~Kept(k, write)
  BY Zenon, <1>1 DEF Permitted, Translation, Kept
<1>13. ~(Mapped(tlb'[k]) /\ (write => tlb'[k].w))
  BY Zenon, <1>12 DEF Kept
<1> QED  BY Zenon, <1>11, <1>13 DEF Permitted, Translation, Kept

-----------------------------------------------------------------------------
(* Every operation is of one of the kinds: system calls, faults and accesses *)

\* Tables, and what adding a page makes of one.
LEMMA TableFacts ==
  ASSUME NEW tab \in Tables
  PROVE  /\ DOMAIN tab \subseteq Int /\ Keeps(tab, tab)
         /\ \A vp \in Int, page \in Bytes :
               LET u == vm_map_page(tab, vp, page)
               IN  /\ u \in Tables /\ vp \in DOMAIN u /\ u[vp] = page
                   /\ vp \notin DOMAIN tab => Keeps(tab, u)
<1>1. PICK D \in SUBSET Int : tab \in [D -> Bytes]
  BY Zenon DEF Tables
<1>2. DOMAIN tab = D /\ \A v \in D : tab[v] \in Bytes
  BY <1>1, Zenon
<1>3. DOMAIN tab \subseteq Int /\ Keeps(tab, tab)
  BY <1>2, Zenon DEF Keeps
<1>4. ASSUME NEW vp \in Int, NEW page \in Bytes
      PROVE  LET u == vm_map_page(tab, vp, page)
             IN  /\ u \in Tables /\ vp \in DOMAIN u /\ u[vp] = page
                 /\ vp \notin DOMAIN tab => Keeps(tab, u)
  <2> DEFINE u == vm_map_page(tab, vp, page)
  <2>1. u = [v \in D \cup {vp} |-> IF v = vp THEN page ELSE tab[v]]
    BY <1>2, Zenon DEF vm_map_page
  <2>2. D \cup {vp} \in SUBSET Int
    BY Zenon
  <2>3. u \in [D \cup {vp} -> Bytes]
    BY <1>2, <2>1, Zenon
  <2>4. u \in Tables
    BY <2>2, <2>3, Zenon DEF Tables
  <2>5. DOMAIN u = D \cup {vp} /\ u[vp] = page
    BY <2>1, Zenon
  <2>6. vp \notin DOMAIN tab => Keeps(tab, u)
    BY <1>2, <2>1, <2>5, Zenon DEF Keeps
  <2> QED  BY <2>4, <2>5, <2>6, Zenon
<1> QED  BY <1>3, <1>4, Zenon

\* The counters, where only the bound on the steps is used.
LEMMA CountersKept ==
  ASSUME Types, UNCHANGED alloc, UNCHANGED steps \/ Call
  PROVE  Counters
BY Sizes DEF Types, TypeOK, alloc, Call, Counters

\* The counters, where a system call allocates.
LEMMA CallCounters ==
  ASSUME Types, Call, heap_ptr' \in heap_ptr .. HEAP_SIZE, pt_next' \in 0 .. PT_PAGES
  PROVE  Counters
BY Sizes DEF Types, TypeOK, Call, Counters

\* A step that loads nothing, and lets no one in.
LEMMA NothingLoaded ==
  ASSUME Types, UNCHANGED <<shared, program>>, Live' \subseteq Live
  PROVE  Loads
<1>1. shared \in Tables /\ program \in [Agents -> Seq(Segments)]
  BY Zenon DEF Types, Fields
<1>2. Keeps(shared, shared)
  BY Zenon, <1>1, TableFacts
<1> QED  BY Zenon, <1>1, <1>2 DEF Loads

\* agent_heap_map maps a page, or changes nothing.
LEMMA MapKind ==
  ASSUME Types, NEW k \in Pages, agent_heap_map(k)
  PROVE  Kind
<1> DEFINE h == vm_heap_map_page(cur, k)
<1>1. /\ Call /\ cur # None /\ Apply(cur, h)
      /\ UNCHANGED <<state, mem, tlb, val, loose>> /\ UNCHANGED others
  BY Zenon DEF agent_heap_map
<1>2. cur \in Agents
  BY Zenon, <1>1, CurFacts
<1>3. \/ Spared(cur, h)
      \/ Given(cur, k, h) /\ ~Mapped(heap[cur][k])
  BY Zenon, <1>2, MapCases
<1> HIDE DEF h
<1>4. /\ heap' = [heap EXCEPT ![cur] = h.ents] /\ heap_mapped' = [heap_mapped EXCEPT ![cur] = h.n]
      /\ heap_ptr' = h.ptr /\ pt_next' = h.pts /\ UNCHANGED <<stack, tf, shared, program, cur>>
  BY Zenon, <1>1 DEF Apply, others
<1>5. Counters
  BY Zenon, <1>1, <1>3, <1>4, CallCounters DEF Spared, Given
<1>6. Loads
  BY Zenon, <1>1, <1>4, LiveKept, NothingLoaded
<1>7. CASE Spared(cur, h)
  <2>1. heap' = heap /\ heap_mapped' = heap_mapped
    BY Zenon, <1>4, <1>7 DEF Spared, Types, Fields, TypeOK
  <2>2. Quiet
    BY Zenon, <1>1, <1>4, <2>1 DEF Quiet
  <2> QED  BY Zenon, <1>5, <1>6, <2>2 DEF Kind
<1>8. CASE Given(cur, k, h) /\ ~Mapped(heap[cur][k])
  <2>1. PICK p \in heap_ptr .. HEAP_SIZE : p + PAGE <= h.ptr /\ h.ents = [heap[cur] EXCEPT ![k] = pte(p, TRUE)]
    BY Zenon, <1>8 DEF Given
  <2>2. Gets(k, p)
    BY Zenon, <1>1, <1>4, <1>8, <2>1 DEF Gets, Given
  <2> QED  BY Zenon, <1>5, <1>6, <2>2 DEF Kind
<1> QED  BY Zenon, <1>3, <1>7, <1>8

\* agent_heap_cow aliases a page, or changes nothing.
LEMMA CowKind ==
  ASSUME Types, NEW dst \in Pages, NEW src \in Pages, agent_heap_cow(dst, src)
  PROVE  Kind
<1> DEFINE h == vm_heap_cow_alias(cur, dst, src)
<1>1. /\ Call /\ cur # None /\ Apply(cur, h) /\ UNCHANGED <<state, mem, tlb>> /\ UNCHANGED others
      /\ val' = IF h.ok THEN [val EXCEPT ![cur][dst] = val[cur][src]] ELSE val
      /\ loose' = IF h.ok /\ <<cur, src>> \in loose THEN loose \cup {<<cur, dst>>} ELSE loose
  BY Zenon DEF agent_heap_cow
<1>2. \/ h = Same(cur, FALSE)
      \/ /\ dst # src /\ Mapped(heap[cur][src])
         /\ Mapped(heap[cur][dst]) => heap[cur][dst].pa = heap[cur][src].pa
         /\ h = [Same(cur, TRUE) EXCEPT !.ents = Aliased(heap[cur], dst, src), !.n = CountAlias(cur, dst)]
  BY Zenon DEF vm_heap_cow_alias
<1> HIDE DEF h
<1>3. /\ heap' = [heap EXCEPT ![cur] = h.ents] /\ heap_mapped' = [heap_mapped EXCEPT ![cur] = h.n]
      /\ heap_ptr' = h.ptr /\ pt_next' = h.pts /\ UNCHANGED <<stack, tf, shared, program, cur>>
  BY Zenon, <1>1 DEF Apply, others
<1>4. h.ptr = heap_ptr /\ h.pts = pt_next
  <2>1. CASE h = Same(cur, FALSE)
    BY <2>1 DEF Same, Heap
  <2>2. CASE h = [Same(cur, TRUE) EXCEPT !.ents = Aliased(heap[cur], dst, src), !.n = CountAlias(cur, dst)]
    BY <2>2 DEF Same, Heap
  <2> QED  BY Zenon, <1>2, <2>1, <2>2
<1>5. Counters
  BY Zenon, <1>1, <1>3, <1>4, CountersKept DEF alloc
<1>6. Loads
  BY Zenon, <1>1, <1>3, LiveKept, NothingLoaded
<1>7. CASE h = Same(cur, FALSE)
  <2>1. h.ok = FALSE /\ h.ents = heap[cur] /\ h.n = heap_mapped[cur]
    BY <1>7 DEF Same, Heap
  <2>2. heap' = heap /\ heap_mapped' = heap_mapped
    BY Zenon, <1>3, <2>1 DEF Types, Fields, TypeOK
  <2>3. Quiet
    BY Zenon, <1>1, <1>3, <2>1, <2>2 DEF Quiet
  <2> QED  BY Zenon, <1>5, <1>6, <2>3 DEF Kind
<1>8. CASE /\ dst # src /\ Mapped(heap[cur][src])
           /\ Mapped(heap[cur][dst]) => heap[cur][dst].pa = heap[cur][src].pa
           /\ h = [Same(cur, TRUE) EXCEPT !.ents = Aliased(heap[cur], dst, src), !.n = CountAlias(cur, dst)]
  <2>1. h.ok = TRUE /\ h.ents = Aliased(heap[cur], dst, src) /\ h.n = CountAlias(cur, dst)
    BY <1>8 DEF Same, Heap
  <2>2. Aliases(dst, src)
    BY Zenon, <1>1, <1>3, <1>4, <1>8, <2>1 DEF Aliases
  <2> QED  BY Zenon, <1>5, <1>6, <2>2 DEF Kind
<1> QED  BY Zenon, <1>2, <1>7, <1>8

\* A step that leaves the tables and the allocator alone.
LEMMA NoMemory ==
  ASSUME Types, UNCHANGED alloc, UNCHANGED steps \/ Call, UNCHANGED <<state, shared, program>>
  PROVE  Counters /\ Loads
BY Zenon, CountersKept, LiveKept, NothingLoaded

\* read: the translation is one the processor had, or is looked up.
LEMMA ReadKind ==
  ASSUME Types, NEW k \in Pages, read(k)
  PROVE  Kind
<1>1. /\ cur # None /\ tlb' = [tlb EXCEPT ![k] = Translation(k, FALSE)]
      /\ UNCHANGED <<state, heap, heap_mapped, mem, val, loose, steps>> /\ UNCHANGED alloc
      /\ UNCHANGED <<stack, tf, shared, program, cur>>
  BY Zenon DEF read, Touch, others
<1>2. Counters /\ Loads
  BY Zenon, <1>1, NoMemory
<1>3. Translation(k, FALSE) = tlb[k] \/ Translation(k, FALSE) = heap[cur][k]
  BY Zenon DEF Translation
<1>4. CASE Translation(k, FALSE) = tlb[k]
  <2>1. tlb' = tlb
    BY Zenon, <1>1, <1>4 DEF Types, TypeOK
  <2> QED  BY Zenon, <1>1, <1>2, <2>1 DEF Kind, Quiet
<1>5. CASE Translation(k, FALSE) = heap[cur][k]
  <2>1. Looks
    BY Zenon, <1>1, <1>5 DEF Looks, alloc
  <2> QED  BY Zenon, <1>2, <2>1 DEF Kind
<1> QED  BY Zenon, <1>3, <1>4, <1>5

\* store, from an agent's code or from copy_to_user.
LEMMA StoreKind ==
  ASSUME Types, NEW k \in Pages, NEW v \in Values, store(k, v)
  PROVE  Kind
<1>1. /\ Call /\ cur # None /\ Permitted(k, TRUE) /\ Touch(k, TRUE)
      /\ UNCHANGED <<state, heap, heap_mapped>> /\ UNCHANGED alloc
      /\ UNCHANGED <<stack, tf, shared, program, cur>>
  BY Zenon DEF store, others
<1>2. Counters /\ Loads
  BY Zenon, <1>1, NoMemory
<1>3. Stores(k, v)
  BY Zenon, <1>1 DEF store, Stores, Permitted, Touch, alloc
<1> QED  BY Zenon, <1>2, <1>3 DEF Kind

\* copy_to_user stores, or refuses.
LEMMA CopyKind ==
  ASSUME Types, NEW k \in Pages, NEW v \in Values, copy_to_user(k, v)
  PROVE  Kind
<1>1. CASE store(k, v)
  BY Zenon, <1>1, StoreKind
<1>2. CASE /\ Call
           /\ UNCHANGED <<state, heap, heap_mapped, mem, tlb, val, loose>> /\ UNCHANGED others /\ UNCHANGED alloc
  <2>1. UNCHANGED <<stack, tf, shared, program, cur>>
    BY Zenon, <1>2 DEF others
  <2>2. Counters /\ Loads
    BY Zenon, <1>2, <2>1, NoMemory
  <2>3. Quiet
    BY Zenon, <1>2, <2>1 DEF Quiet
  <2> QED  BY Zenon, <2>2, <2>3 DEF Kind
<1> QED  BY Zenon, <1>1, <1>2 DEF copy_to_user

\* A page fault gives the page a frame, or ends the agent.
LEMMA FaultKind ==
  ASSUME Types, NEW k \in Pages, NEW write \in BOOLEAN, fault(k, write)
  PROVE  Kind
<1> DEFINE h == vm_heap_fault(cur, k, write)
<1>1. /\ cur # None /\ Apply(cur, h)
      /\ UNCHANGED <<stack, tf, shared, program, tlb, val, loose, steps>>
      /\ mem' = IF Mapped(heap[cur][k]) /\ h.ok THEN [mem EXCEPT ![h.ents[k].pa] = mem[heap[cur][k].pa]] ELSE mem
      /\ IF h.ok THEN UNCHANGED <<state, cur>>
         ELSE state' = [state EXCEPT ![cur] = "ZOMBIE"] /\ cur' = None
  BY Zenon DEF fault
<1>2. cur \in Agents
  BY Zenon, <1>1, CurFacts
<1>3. \/ Spared(cur, h) /\ h.ok = FALSE
      \/ Given(cur, k, h)
  BY Zenon, <1>2, FaultCases
<1> HIDE DEF h
<1>4. /\ heap' = [heap EXCEPT ![cur] = h.ents] /\ heap_mapped' = [heap_mapped EXCEPT ![cur] = h.n]
      /\ heap_ptr' = h.ptr /\ pt_next' = h.pts
  BY Zenon, <1>1 DEF Apply
<1>5. steps \in 0 .. MAX_STEPS
  BY Zenon DEF Types, TypeOK
<1>6. Counters
  BY Zenon, <1>1, <1>3, <1>4, <1>5 DEF Spared, Given, Counters
<1>7. Loads
  BY Zenon, <1>1, LiveKept, NothingLoaded
<1>8. CASE Spared(cur, h) /\ h.ok = FALSE
  <2>1. heap' = heap /\ heap_mapped' = heap_mapped
    BY Zenon, <1>4, <1>8 DEF Spared, Types, Fields, TypeOK
  <2>2. Quiet
    BY Zenon, <1>1, <1>8, <2>1 DEF Quiet
  <2> QED  BY Zenon, <1>6, <1>7, <2>2 DEF Kind
<1>9. CASE Given(cur, k, h)
  <2>1. PICK p \in heap_ptr .. HEAP_SIZE : p + PAGE <= h.ptr /\ h.ents = [heap[cur] EXCEPT ![k] = pte(p, TRUE)]
    BY Zenon, <1>9 DEF Given
  <2>2. h.ents[k].pa = p
    <3>1. h.ents[k] = pte(p, TRUE)
      BY Zenon, <1>2, <2>1, CurFacts
    <3> QED  BY <3>1 DEF pte
  <2>3. /\ h.ok /\ h.n = IF Mapped(heap[cur][k]) THEN heap_mapped[cur] ELSE heap_mapped[cur] + 1
    BY Zenon, <1>9 DEF Given
  <2>4. Gets(k, p)
    BY Zenon, <1>1, <1>4, <2>1, <2>2, <2>3 DEF Gets
  <2> QED  BY Zenon, <1>6, <1>7, <2>4 DEF Kind
<1> QED  BY Zenon, <1>3, <1>8, <1>9

-----------------------------------------------------------------------------
(* elfload.c: a page of a segment, and the bytes of one that is mapped whole *)

\* What loading makes of an image: it takes more of the heap, and maps more.
Further(im, jm) == jm \in Images /\ im.ptr <= jm.ptr /\ Keeps(im.tab, jm.tab)

\* Nothing that is mapped is lost on the way.
LEMMA KeepsOn ==
  ASSUME NEW t, NEW u, NEW w, Keeps(t, u), Keeps(u, w)
  PROVE  Keeps(t, w)
BY Zenon DEF Keeps

\* Loading goes further step by step.
LEMMA FurtherOn ==
  ASSUME NEW im \in Images, NEW jm, NEW km, Further(im, jm), Further(jm, km)
  PROVE  Further(im, km)
<1>1. Keeps(im.tab, km.tab)
  BY Zenon, KeepsOn DEF Further
<1>2. im.ptr \in Int /\ jm.ptr \in Int /\ km.ptr \in Int /\ im.ptr <= jm.ptr /\ jm.ptr <= km.ptr
  BY DEF Further, Images
<1> QED  BY <1>1, <1>2 DEF Further

\* Loading nothing goes no step back.
LEMMA FurtherSelf ==
  ASSUME NEW im \in Images
  PROVE  Further(im, im)
BY DEF Further, Images, Keeps

\* A page of a segment is bytes.
LEMMA PageOfBytes ==
  ASSUME NEW seg \in Segments, NEW vp \in Int
  PROVE  PageOf(seg, vp) \in Bytes
<1>1. PAGE_BYTES \in Nat /\ seg.vaddr \in Nat /\ seg.filesz \in Nat
  BY Sizes DEF Segments
<1>2. \A addr \in Int : SegmentByte(seg, addr) \in Nat
  BY <1>1 DEF SegmentByte
<1>3. vp * PAGE_BYTES \in Int
  BY <1>1
<1>4. \A i \in 0 .. PAGE_BYTES - 1 : vp * PAGE_BYTES + i \in Int
  BY SMTT(60), <1>1, <1>3
<1> QED  BY <1>2, <1>4, Zenon DEF PageOf, Bytes

\* One page: on success it is mapped, and filled from the file.
LEMMA MapPageFacts ==
  ASSUME NEW im \in Images, NEW seg \in Segments, NEW vp \in Int
  PROVE  LET jm == MapPage(im, seg, vp)
         IN  /\ Further(im, jm)
             /\ jm.rc = "OK" => vp \in DOMAIN jm.tab /\ jm.tab[vp] = PageOf(seg, vp)
<1> DEFINE p == kalloc_page(im.ptr)
           page == PageOf(seg, vp)
           u == vm_map_page(im.tab, vp, page)
           jm == MapPage(im, seg, vp)
<1>1. im.ptr \in 0 .. HEAP_SIZE /\ im.tab \in Tables
  BY DEF Images
<1>2. p.ptr \in im.ptr .. HEAP_SIZE
  BY <1>1, KallocPageFacts
<1>3. im.ptr <= p.ptr /\ p.ptr \in 0 .. HEAP_SIZE
  <2> HIDE DEF p
  <2> QED  BY Sizes, <1>1, <1>2
<1>4. page \in Bytes
  BY Zenon, PageOfBytes
<1>5. /\ u \in Tables /\ vp \in DOMAIN u /\ u[vp] = page
      /\ vp \notin DOMAIN im.tab => Keeps(im.tab, u)
      /\ Keeps(im.tab, im.tab)
  BY Zenon, <1>1, <1>4, TableFacts
<1>6. \/ jm = Image("ENOSPC", p.ptr, im.tab)
      \/ vp \notin DOMAIN im.tab /\ jm = Image("OK", p.ptr, u)
  BY Zenon DEF MapPage
<1> HIDE DEF p, page, u, jm
<1>7. CASE jm = Image("ENOSPC", p.ptr, im.tab)
  BY SMTT(60), <1>1, <1>3, <1>5, <1>7 DEF Image, Images, Further, jm
<1>8. CASE vp \notin DOMAIN im.tab /\ jm = Image("OK", p.ptr, u)
  BY <1>3, <1>5, <1>8 DEF Image, Images, Further, jm, page
<1> QED  BY <1>6, <1>7, <1>8

\* How many pages a segment has.
LEMMA SegmentSize ==
  ASSUME NEW seg \in Segments
  PROVE  LET first == seg.vaddr \div PAGE_BYTES
             n == SegmentPages(seg)
         IN  first \in Nat /\ n \in Nat
<1> DEFINE first == seg.vaddr \div PAGE_BYTES
           end == seg.vaddr + seg.memsz + PAGE_BYTES - 1
           next == end \div PAGE_BYTES
<1>1. /\ seg.vaddr \in Nat /\ seg.vaddr \in Int /\ end \in Int /\ seg.vaddr <= end
      /\ PAGE_BYTES \in Nat \ {0}
  BY Sizes DEF Segments
<1>2. first \in Nat /\ next \in Int
  BY Zenon, <1>1, Division
<1>3. first <= next
  BY Zenon, <1>1, DivisionGrows
<1>4. SegmentPages(seg) = next - first
  BY Zenon DEF SegmentPages
<1> HIDE DEF first, next
<1>5. SegmentPages(seg) \in Nat
  BY <1>2, <1>3, <1>4
<1> QED  BY Zenon, <1>2, <1>5 DEF first

\* Every address of a segment whose pages are mapped and filled reads as its
\* byte of the file, or as zero behind the file's part.
LEMMA HeldBytes ==
  ASSUME NEW tab, NEW seg \in Segments, Holds(tab, seg, SegmentPages(seg)),
         NEW addr \in seg.vaddr .. seg.vaddr + seg.memsz - 1
  PROVE  /\ addr \div PAGE_BYTES \in DOMAIN tab
         /\ tab[addr \div PAGE_BYTES][addr % PAGE_BYTES] =
                IF addr < seg.vaddr + seg.filesz THEN addr - seg.vaddr + 1 ELSE 0
<1> DEFINE first == seg.vaddr \div PAGE_BYTES
           end == seg.vaddr + seg.memsz + PAGE_BYTES - 1
           next == end \div PAGE_BYTES
           vp == addr \div PAGE_BYTES
           off == addr % PAGE_BYTES
           n == SegmentPages(seg)
<1>1. /\ seg.vaddr \in Nat /\ seg.memsz \in Nat /\ seg.filesz \in Nat
      /\ seg.vaddr \in Int /\ addr \in Int /\ end \in Int
      /\ PAGE_BYTES \in Nat \ {0}
      /\ seg.vaddr <= addr /\ addr + PAGE_BYTES <= end /\ addr <= end
  BY Sizes DEF Segments
<1>2. vp \in Int /\ off \in 0 .. PAGE_BYTES - 1 /\ addr = PAGE_BYTES * vp + off
  BY Zenon, <1>1, Division
<1>3. first \in Int /\ next \in Int /\ first <= vp /\ vp + 1 <= next
  BY Zenon, <1>1, Division, DivisionGrows
<1>4. n = next - first
  BY Zenon DEF SegmentPages
<1> HIDE DEF next, vp, off
<1>5. vp - first \in 0 .. n - 1 /\ first + (vp - first) = vp
  <2> HIDE DEF first, n
  <2> QED  BY <1>2, <1>3, <1>4
<1>6. PICK j \in 0 .. n - 1 : first + j = vp
  BY Zenon, <1>5
<1>7. vp \in DOMAIN tab /\ tab[vp] = PageOf(seg, vp)
  BY Zenon, <1>6 DEF Holds
<1>8. PageOf(seg, vp)[off] = SegmentByte(seg, vp * PAGE_BYTES + off)
  BY Zenon, <1>2 DEF PageOf
<1>9. vp * PAGE_BYTES + off = addr
  BY <1>1, <1>2
<1>10. SegmentByte(seg, addr) = IF addr < seg.vaddr + seg.filesz THEN addr - seg.vaddr + 1 ELSE 0
  BY <1>1 DEF SegmentByte
<1> QED  BY Zenon, <1>7, <1>8, <1>9, <1>10 DEF vp, off

\* So every address of them reads as it should.
LEMMA LoaderHolds ==
  ASSUME Types, LoaderInv
  PROVE  LoadedImage
<1> SUFFICES ASSUME NEW a \in Live, NEW i \in DOMAIN program[a], NEW seg, seg = program[a][i],
                    NEW addr \in seg.vaddr .. seg.vaddr + seg.memsz - 1
             PROVE  /\ addr \div PAGE_BYTES \in DOMAIN shared
                    /\ shared[addr \div PAGE_BYTES][addr % PAGE_BYTES] =
                           IF addr < seg.vaddr + seg.filesz THEN addr - seg.vaddr + 1 ELSE 0
  BY Zenon DEF LoadedImage
<1>1. program[a] \in Seq(Segments)
  BY Zenon DEF Types, Fields, Live
<1>2. seg \in Segments
  BY <1>1
<1>3. Holds(shared, seg, SegmentPages(seg))
  BY Zenon DEF LoaderInv
<1> QED  BY Zenon, <1>2, <1>3, HeldBytes

-----------------------------------------------------------------------------
(* Induction over numbers, and recursive functions                         *)

\* Every set of numbers that is not empty has a least element.
WellOrdered == \A S \in SUBSET Nat : S # {} => \E x \in S : \A y \in S : x <= y

\* A set of numbers with 0, and with the successor of each of its elements
\* below n, holds all numbers up to n.
LEMMA UpTo ==
  ASSUME WellOrdered, NEW n \in Nat, NEW T, 0 \in T,
         \A m \in 0 .. n - 1 : m \in T => m + 1 \in T
  PROVE  \A m \in 0 .. n : m \in T
<1> DEFINE Out == {m \in 0 .. n : m \notin T}
<1> SUFFICES ASSUME Out # {} PROVE FALSE
  OBVIOUS
<1>1. Out \subseteq Nat
  OBVIOUS
<1>2. PICK x \in Out : \A y \in Out : x <= y
  BY Zenon, <1>1 DEF WellOrdered
<1>3. x \in Nat /\ x # 0 /\ x \in 0 .. n /\ x \notin T
  BY <1>1
<1>4. x - 1 \in 0 .. n - 1 /\ x - 1 \in 0 .. n /\ ~(x <= x - 1) /\ (x - 1) + 1 = x
  BY <1>3
<1>5. x - 1 \notin Out
  BY Zenon, <1>2, <1>4
<1>6. x - 1 \in T
  BY Zenon, <1>4, <1>5
<1> QED
  BY Zenon, <1>3, <1>4, <1>6

\* f starts with x and goes on from m - 1 to m as G says.
Solves(f, n, S, x, G) ==
    f \in [0 .. n -> S] /\ f[0] = x /\ \A m \in 1 .. n : f[m] = G[m][f[m - 1]]

\* A function given for 0 and from each number to the next exists.
LEMMA Recursion ==
  ASSUME WellOrdered, NEW n \in Nat, NEW S, NEW x \in S, NEW G \in [1 .. n -> [S -> S]]
  PROVE  \E f : Solves(f, n, S, x, G)
<1> DEFINE Is(f, k) == f[0] = x /\ \A m \in 1 .. k : f[m] = G[m][f[m - 1]]
           T == {k \in Nat : \E f \in [0 .. k -> S] : Is(f, k)}
<1>1. 0 \in T
  <2> DEFINE f == [m \in 0 .. 0 |-> x]
  <2>1. f \in [0 .. 0 -> S]
    OBVIOUS
  <2>2. Is(f, 0)
    OBVIOUS
  <2> HIDE DEF f, Is
  <2> QED  BY <2>1, <2>2
<1>2. ASSUME NEW k \in 0 .. n - 1, k \in T PROVE k + 1 \in T
  <2>1. k \in Nat /\ k + 1 \in Nat /\ k + 1 \in 1 .. n
    OBVIOUS
  <2>2. PICK f \in [0 .. k -> S] : Is(f, k)
    BY <1>2, Zenon
  <2> DEFINE g == [m \in 0 .. k + 1 |-> IF m = k + 1 THEN G[k + 1][f[k]] ELSE f[m]]
  <2>3. f[k] \in S
    BY <2>1
  <2>4. G[k + 1][f[k]] \in S
    BY <2>1, <2>3, Zenon
  <2>5. g \in [0 .. k + 1 -> S]
    BY SMTT(60), <2>1, <2>4
  <2>6. Is(g, k + 1)
    <3>0. 0 \in 0 .. k + 1 /\ 0 # k + 1
      BY <2>1
    <3> SUFFICES ASSUME NEW m \in 1 .. k + 1
                 PROVE  g[m] = G[m][g[m - 1]]
      BY Zenon, <2>2, <3>0
    <3>1. CASE m = k + 1
      <4>1. m \in 0 .. k + 1 /\ m - 1 = k /\ k \in 0 .. k + 1 /\ k # k + 1
        BY <2>1, <3>1
      <4>2. g[k] = f[k]
        BY <4>1, Zenon
      <4> QED  BY <3>1, <4>1, <4>2, Zenon
    <3>2. CASE m # k + 1
      <4>1. m \in 1 .. k /\ m \in 0 .. k + 1 /\ m - 1 \in 0 .. k + 1 /\ m - 1 # k + 1
        BY <2>1, <3>2
      <4>2. f[m] = G[m][f[m - 1]]
        BY <2>2, <4>1, Zenon
      <4>3. g[m] = f[m] /\ g[m - 1] = f[m - 1]
        BY <3>2, <4>1, Zenon
      <4> QED  BY <4>2, <4>3, Zenon
    <3> QED  BY <3>1, <3>2
  <2> HIDE DEF g, Is
  <2> QED  BY <2>1, <2>5, <2>6, Zenon
<1> HIDE DEF T
<1>3. \A k \in 0 .. n : k \in T
  BY Zenon, <1>1, <1>2, UpTo
<1>4. n \in 0 .. n
  OBVIOUS
<1> QED
  BY Zenon, <1>3, <1>4 DEF T, Solves

-----------------------------------------------------------------------------
(* elfload.c and agent.c: loading and creating                             *)

\* A segment: its pages one after the other, until one cannot be had.
LEMMA SegmentFacts ==
  ASSUME WellOrdered, NEW im \in Images, NEW seg \in Segments
  PROVE  LET jm == elf_map_segment(im, seg)
         IN  /\ Further(im, jm)
             /\ jm.rc = "OK" => Holds(jm.tab, seg, SegmentPages(seg))
<1> DEFINE first == seg.vaddr \div PAGE_BYTES
           N == SegmentPages(seg)
           G == [n \in 1 .. N |-> [jm \in Images |->
                   IF jm.rc = "OK" THEN MapPage(jm, seg, first + n - 1) ELSE jm]]
           Is(f) == f = [n \in 0 .. N |->
                           IF n = 0 THEN im
                           ELSE IF f[n - 1].rc = "OK" THEN MapPage(f[n - 1], seg, first + n - 1) ELSE f[n - 1]]
           up == CHOOSE f : Is(f)
<1>1. first \in Nat /\ N \in Nat
  BY Zenon, SegmentSize
<1>2. elf_map_segment(im, seg) = up[N]
  BY Zenon DEF elf_map_segment
<1> HIDE DEF first, N
<1>3. \A n \in 1 .. N : first + n - 1 \in Int
  BY <1>1
<1>4. G \in [1 .. N -> [Images -> Images]]
  <2>1. ASSUME NEW n \in 1 .. N, NEW jm \in Images
        PROVE  (IF jm.rc = "OK" THEN MapPage(jm, seg, first + n - 1) ELSE jm) \in Images
    BY Zenon, <1>3, MapPageFacts DEF Further
  <2> QED  BY <2>1, Zenon
<1>5. PICK f : Solves(f, N, Images, im, G)
  <2> HIDE DEF G
  <2> QED  BY Zenon, <1>1, <1>4, Recursion
<1>6. Is(f)
  <2>0. \A n \in 0 .. N : n = 0 \/ n \in 1 .. N
    BY <1>1
  <2> SUFFICES ASSUME NEW n \in 1 .. N
               PROVE  f[n] =
                         IF f[n - 1].rc = "OK" THEN MapPage(f[n - 1], seg, first + n - 1) ELSE f[n - 1]
    <3>1. f = [n \in 0 .. N |-> f[n]] /\ f[0] = im
      BY Zenon, <1>5 DEF Solves
    <3> HIDE DEF G
    <3> QED  BY Zenon, <2>0, <3>1
  <2>1. n - 1 \in 0 .. N /\ n \in 1 .. N
    BY <1>1
  <2>2. f[n - 1] \in Images
    BY Zenon, <1>5, <2>1 DEF Solves
  <2>3. f[n] = G[n][f[n - 1]]
    BY Zenon, <1>5 DEF Solves
  <2> QED  BY Zenon, <2>2, <2>3
<1>7. Is(up)
  BY <1>6, Zenon
<1> HIDE DEF G, up
<1>8. up[0] = im /\ \A n \in 0 .. N - 1 :
         up[n + 1] = IF up[n].rc = "OK" THEN MapPage(up[n], seg, first + n) ELSE up[n]
  <2>1. \A n \in 0 .. N - 1 : n + 1 \in 0 .. N /\ n + 1 # 0 /\ n + 1 - 1 = n /\ first + (n + 1) - 1 = first + n
    BY <1>1
  <2>2. 0 \in 0 .. N
    BY <1>1
  <2>3. \A m \in 0 .. N :
           up[m] = IF m = 0 THEN im
                   ELSE IF up[m - 1].rc = "OK" THEN MapPage(up[m - 1], seg, first + m - 1) ELSE up[m - 1]
    BY Zenon, <1>7
  <2>4. up[0] = im
    BY Zenon, <2>2, <2>3
  <2>5. ASSUME NEW n \in 0 .. N - 1
        PROVE  up[n + 1] = IF up[n].rc = "OK" THEN MapPage(up[n], seg, first + n) ELSE up[n]
    <3>1. PICK m \in 0 .. N : m = n + 1 /\ m # 0 /\ m - 1 = n /\ first + m - 1 = first + n
      BY <2>1
    <3> QED  BY Zenon, <2>3, <3>1
  <2> QED  BY Zenon, <2>4, <2>5
<1> DEFINE T == {n \in 0 .. N : /\ Further(im, up[n])
                                /\ up[n].rc = "OK" => Holds(up[n].tab, seg, n)}
<1>9. 0 \in T
  <2>1. 0 \in 0 .. N /\ 0 .. 0 - 1 = {}
    BY <1>1
  <2>2. Holds(up[0].tab, seg, 0)
    BY ZenonT(60), <2>1 DEF Holds
  <2> QED  BY Zenon, <1>8, <2>1, <2>2, FurtherSelf
<1>10. ASSUME NEW n \in 0 .. N - 1, n \in T PROVE n + 1 \in T
  <2>1. n \in Nat /\ n + 1 \in 0 .. N /\ first + n \in Int
    BY <1>1
  <2>2. up[n] \in Images /\ Further(im, up[n])
    BY Zenon, <1>10 DEF Further
  <2>3. CASE up[n].rc # "OK"
    <3>1. up[n + 1] = up[n]
      BY Zenon, <1>8, <2>3
    <3> QED  BY Zenon, <2>1, <2>2, <2>3, <3>1
  <2>4. CASE up[n].rc = "OK"
    <3> DEFINE jm == MapPage(up[n], seg, first + n)
    <3>1. up[n + 1] = jm
      BY Zenon, <1>8, <2>4
    <3>2. /\ Further(up[n], jm)
          /\ jm.rc = "OK" => first + n \in DOMAIN jm.tab /\ jm.tab[first + n] = PageOf(seg, first + n)
      BY Zenon, <2>1, <2>2, MapPageFacts
    <3> HIDE DEF jm
    <3>3. Further(im, jm)
      BY Zenon, <2>2, <3>2, FurtherOn
    <3>4. Holds(jm.tab, seg, n)
      BY Zenon, <1>10, <2>4, <3>2, HoldsOn DEF Further
    <3>5. \A j \in 0 .. n + 1 - 1 : j \in 0 .. n - 1 \/ j = n
      BY <2>1
    <3>6. jm.rc = "OK" => Holds(jm.tab, seg, n + 1)
      <4> SUFFICES ASSUME jm.rc = "OK", NEW j \in 0 .. n + 1 - 1
                   PROVE  first + j \in DOMAIN jm.tab /\ jm.tab[first + j] = PageOf(seg, first + j)
        BY DEF Holds, first
      <4>1. CASE j = n
        BY Zenon, <3>2, <4>1
      <4>2. CASE j \in 0 .. n - 1
        BY Zenon, <3>4, <4>2 DEF Holds, first
      <4> QED  BY <3>5, <4>1, <4>2
    <3> QED  BY Zenon, <2>1, <3>1, <3>3, <3>6
  <2> QED  BY <2>3, <2>4
<1> HIDE DEF T
<1>11. \A n \in 0 .. N : n \in T
  BY Zenon, <1>1, <1>9, <1>10, UpTo
<1>12. N \in 0 .. N
  BY <1>1
<1>13. N \in T
  BY Zenon, <1>11, <1>12
<1> QED  BY Zenon, <1>2, <1>13 DEF T, N

\* A program: its segments one after the other; what is loaded of one that
\* fails stays where it is.
LEMMA LoadFacts ==
  ASSUME WellOrdered, NEW ptr \in 0 .. HEAP_SIZE, NEW tab \in Tables, NEW prog \in Seq(Segments)
  PROVE  LET jm == elf_load_into_agent(ptr, tab, prog)
         IN  /\ jm \in Images /\ ptr <= jm.ptr /\ Keeps(tab, jm.tab)
             /\ jm.rc = "OK" => \A i \in 1 .. Len(prog) :
                   Holds(jm.tab, prog[i], SegmentPages(prog[i]))
<1> DEFINE N == Len(prog)
           im == Image("OK", ptr, tab)
           Goes(jm, n) == IF jm.rc # "OK" THEN jm
                          ELSE IF prog[n].cut THEN [jm EXCEPT !.rc = "EINVAL"]
                          ELSE elf_map_segment(jm, prog[n])
           G == [n \in 1 .. N |-> [jm \in Images |-> Goes(jm, n)]]
           Is(f) == f = [n \in 0 .. N |-> IF n = 0 THEN im ELSE Goes(f[n - 1], n)]
           up == CHOOSE f : Is(f)
<1>1. N \in Nat /\ \A n \in 1 .. N : prog[n] \in Segments
  OBVIOUS
<1>2. elf_load_into_agent(ptr, tab, prog) = up[N]
  BY Zenon DEF elf_load_into_agent
<1>3. im \in Images /\ im.ptr = ptr /\ im.tab = tab
  BY DEF Image, Images
<1> HIDE DEF N, im
<1>4. ASSUME NEW jm \in Images, NEW n \in 1 .. N
      PROVE  /\ Further(jm, Goes(jm, n))
             /\ Goes(jm, n).rc = "OK" =>
                   /\ jm.rc = "OK"
                   /\ Holds(Goes(jm, n).tab, prog[n], SegmentPages(prog[n]))
  <2>1. CASE jm.rc # "OK"
    BY Zenon, <2>1, FurtherSelf
  <2>2. CASE jm.rc = "OK" /\ prog[n].cut
    <3> DEFINE km == [jm EXCEPT !.rc = "EINVAL"]
    <3>1. Goes(jm, n) = km
      BY Zenon, <2>2
    <3>2. km \in Images /\ km.ptr = jm.ptr /\ km.tab = jm.tab /\ km.rc # "OK"
      BY DEF Images
    <3>3. Further(jm, km)
      BY Zenon, <3>2, FurtherSelf DEF Further
    <3> HIDE DEF km
    <3> QED  BY Zenon, <3>1, <3>2, <3>3
  <2>3. CASE jm.rc = "OK" /\ ~prog[n].cut
    <3>1. Goes(jm, n) = elf_map_segment(jm, prog[n])
      BY Zenon, <2>3
    <3> QED  BY Zenon, <1>1, <2>3, <3>1, SegmentFacts
  <2> QED  BY Zenon, <2>1, <2>2, <2>3
<1>5. \A jm \in Images, n \in 1 .. N : Goes(jm, n) \in Images
  BY Zenon, <1>4 DEF Further
<1> HIDE DEF Goes
<1>6. G \in [1 .. N -> [Images -> Images]]
  BY Zenon, <1>5
<1>7. PICK f : Solves(f, N, Images, im, G)
  <2> HIDE DEF G
  <2> QED  BY Zenon, <1>1, <1>3, <1>6, Recursion
<1>8. Is(f)
  <2>1. \A n \in 0 .. N : n = 0 \/ n \in 1 .. N
    BY <1>1
  <2>2. f = [n \in 0 .. N |-> f[n]] /\ f[0] = im
    BY Zenon, <1>7 DEF Solves
  <2>3. ASSUME NEW n \in 1 .. N PROVE f[n] = Goes(f[n - 1], n)
    <3>1. n - 1 \in 0 .. N
      BY <1>1
    <3>2. f[n - 1] \in Images /\ f[n] = G[n][f[n - 1]]
      BY Zenon, <1>7, <3>1 DEF Solves
    <3> QED  BY Zenon, <3>2
  <2> HIDE DEF G
  <2> QED  BY Zenon, <2>1, <2>2, <2>3
<1>9. Is(up)
  BY Zenon, <1>8
<1> HIDE DEF G, up
<1>10. up[0] = im /\ \A n \in 0 .. N - 1 : up[n + 1] = Goes(up[n], n + 1)
  <2>1. \A n \in 0 .. N - 1 : n + 1 \in 0 .. N /\ n + 1 # 0 /\ n + 1 - 1 = n
    BY <1>1
  <2>2. 0 \in 0 .. N
    BY <1>1
  <2>3. \A m \in 0 .. N : up[m] = IF m = 0 THEN im ELSE Goes(up[m - 1], m)
    BY Zenon, <1>9
  <2>4. up[0] = im
    BY Zenon, <2>2, <2>3
  <2>5. ASSUME NEW n \in 0 .. N - 1 PROVE up[n + 1] = Goes(up[n], n + 1)
    <3>1. PICK m \in 0 .. N : m = n + 1 /\ m # 0 /\ m - 1 = n
      BY <2>1
    <3> QED  BY Zenon, <2>3, <3>1
  <2> QED  BY Zenon, <2>4, <2>5
<1> DEFINE Whole(i, t) == Holds(t, prog[i], SegmentPages(prog[i]))
           T == {n \in 0 .. N : /\ Further(im, up[n])
                                /\ up[n].rc = "OK" => \A i \in 1 .. n : Whole(i, up[n].tab)}
<1>11. 0 \in T
  <2>1. 0 \in 0 .. N /\ 1 .. 0 = {}
    BY <1>1
  <2> HIDE DEF Whole
  <2> QED  BY Zenon, <1>3, <1>10, <2>1, FurtherSelf
<1>12. ASSUME NEW n \in 0 .. N - 1, n \in T PROVE n + 1 \in T
  <2>1. n \in Nat /\ n + 1 \in 0 .. N /\ n + 1 \in 1 .. N
    BY <1>1
  <2>2. up[n] \in Images /\ Further(im, up[n])
    BY Zenon, <1>12 DEF Further
  <2> DEFINE jm == up[n + 1]
  <2>3. /\ Further(up[n], jm)
        /\ jm.rc = "OK" => up[n].rc = "OK" /\ Whole(n + 1, jm.tab)
    BY Zenon, <1>4, <1>10, <2>1, <2>2
  <2> HIDE DEF jm
  <2>4. Further(im, jm)
    BY Zenon, <1>3, <2>2, <2>3, FurtherOn
  <2>5. \A i \in 1 .. n : Whole(i, up[n].tab) => Whole(i, jm.tab)
    BY Zenon, <2>3, HoldsOn DEF Further
  <2>6. \A i \in 1 .. n + 1 : i \in 1 .. n \/ i = n + 1
    BY <2>1
  <2> HIDE DEF Whole
  <2>7. jm.rc = "OK" => \A i \in 1 .. n + 1 : Whole(i, jm.tab)
    BY Zenon, <1>12, <2>3, <2>5, <2>6
  <2> QED  BY Zenon, <2>1, <2>4, <2>7 DEF jm
<1> HIDE DEF T
<1>13. \A n \in 0 .. N : n \in T
  BY Zenon, <1>1, <1>11, <1>12, UpTo
<1>14. N \in 0 .. N
  BY <1>1
<1>15. N \in T
  BY Zenon, <1>13, <1>14
<1> QED  BY Zenon, <1>2, <1>3, <1>15 DEF T, N, Further

\* The slot that is chosen is free.
LEMMA SlotFree ==
  ASSUME WellOrdered, Types, Free # {}
  PROVE  agent_alloc_id \in Agents \ Live
<1>1. Free \subseteq Nat
  BY Zenon, Sizes DEF Free
<1>2. \E x \in Free : \A y \in Free : x <= y
  BY Zenon, <1>1 DEF WellOrdered
<1>3. agent_alloc_id \in Free
  BY Zenon, <1>2 DEF agent_alloc_id
<1> QED  BY Zenon, <1>3 DEF Free, Live

\* The kinds of the steps that create an agent.
LEMMA CreateKind ==
  ASSUME WellOrdered, Types, NEW named \in BOOLEAN, agent_create(named)
  PROVE  Kind
<1> DEFINE s == agent_setup_stack(heap_ptr)
<1>1. heap_ptr \in 0 .. HEAP_SIZE /\ pt_next \in 0 .. PT_PAGES
  BY Zenon DEF Types, TypeOK
<1>2. /\ s.ptr \in heap_ptr .. HEAP_SIZE /\ s.pts \in 0 .. PT_PAGES
      /\ s.ok => /\ s.stack \in Nat /\ s.tf \in Nat /\ heap_ptr <= s.stack
                 /\ s.stack + STACK <= s.tf /\ s.tf < s.ptr
  BY Zenon, <1>1, SetupFacts
<1>3. /\ Call /\ Free # {} /\ heap_ptr' = s.ptr /\ pt_next' = s.pts
      /\ \/ s.ok /\ Occupy(agent_alloc_id, s, <<>>)
         \/ UNCHANGED <<state, stack, tf, heap, heap_mapped, program, val, loose>>
      /\ UNCHANGED <<shared, mem, cur, tlb>>
  BY Zenon DEF agent_create
<1> HIDE DEF s
<1>4. Counters
  BY Zenon, <1>2, <1>3, CallCounters
<1>5. CASE s.ok /\ Occupy(agent_alloc_id, s, <<>>)
  <2>1. agent_alloc_id \in Agents \ Live
    BY Zenon, <1>3, SlotFree
  <2>2. PICK id \in Agents : \E r : Occupy(id, r, <<>>)
    BY Zenon, <1>5, <2>1
  <2> PICK t : Occupy(id, t, <<>>)
    BY Zenon, <2>2
  <2>3. Enters
    BY Zenon, <1>2, <1>3, <1>5, <2>1 DEF Enters
  <2>4. program \in [Agents -> Seq(Segments)] /\ shared \in Tables
    BY Zenon DEF Types, Fields
  <2>5. program' = [program EXCEPT ![id] = <<>>] /\ state' = [state EXCEPT ![id] = "RUNNABLE"]
    BY Zenon DEF Occupy
  <2>6. <<>> \in Seq(Segments) /\ DOMAIN <<>> = {}
    OBVIOUS
  <2>7. Keeps(shared, shared)
    BY Zenon, <2>4, TableFacts
  <2>8. \A a \in Agents : a \in Live' => a = id \/ (a \in Live /\ program'[a] = program[a])
    <3>1. Live' = Live \cup {id} /\ OthersKept(id)
      BY Zenon, OccupyFacts
    <3> QED  BY Zenon, <3>1 DEF OthersKept, SlotKept
  <2>9. \A i \in DOMAIN program'[id] : FALSE
    <3>1. EntersSlot(id, t, <<>>)
      BY Zenon, OccupyFacts
    <3> QED  BY Zenon, <2>6, <3>1 DEF EntersSlot
  <2>10. Loads
    <3>1. program' \in [Agents -> Seq(Segments)]
      BY Zenon, <2>4, <2>5, <2>6
    <3> QED  BY Zenon, <1>3, <2>4, <2>7, <2>8, <2>9, <3>1 DEF Loads
  <2> QED  BY Zenon, <1>4, <2>3, <2>10 DEF Kind
<1>6. CASE UNCHANGED <<state, stack, tf, heap, heap_mapped, program, val, loose>>
  <2>1. Quiet
    BY Zenon, <1>3, <1>6 DEF Quiet
  <2>2. Live' \subseteq Live
    BY Zenon, <1>6 DEF Live
  <2>3. Loads
    BY Zenon, <1>3, <1>6, <2>2, NothingLoaded
  <2> QED  BY Zenon, <1>4, <2>1, <2>3 DEF Kind
<1> QED  BY Zenon, <1>3, <1>5, <1>6

\* Loading a program: whatever comes of it, the pages in the shared tables stay.
LEMMA LoadKind ==
  ASSUME WellOrdered, Types, NEW prog \in Programs, NEW named \in BOOLEAN, agent_load_from_path(prog, named)
  PROVE  Kind
<1> DEFINE elf == kalloc(heap_ptr, 1)
           s   == agent_setup_loaded(elf.ptr)
           im  == elf_load_into_agent(s.ptr, shared, prog)
           same == UNCHANGED <<state, stack, tf, heap, heap_mapped, program, val, loose>>
<1>1. heap_ptr \in 0 .. HEAP_SIZE /\ pt_next \in 0 .. PT_PAGES /\ shared \in Tables
  BY Zenon DEF Types, TypeOK, Fields
<1>2. prog \in Seq(Segments)
  BY Zenon, MemorySizes DEF Segments
<1>3. elf.ptr \in heap_ptr .. HEAP_SIZE /\ elf.ptr \in 0 .. HEAP_SIZE
  <2>1. elf.ptr \in heap_ptr .. HEAP_SIZE
    BY <1>1, KallocFacts
  <2> HIDE DEF elf
  <2> QED  BY <1>1, <2>1
<1>4. /\ s.ptr \in elf.ptr .. HEAP_SIZE /\ s.pts \in 0 .. PT_PAGES
      /\ s.ok => /\ s.stack \in Nat /\ s.tf \in Nat /\ elf.ptr <= s.stack
                 /\ s.stack + STACK <= s.tf /\ s.tf < s.ptr
  <2> HIDE DEF elf
  <2> QED  BY Zenon, <1>1, <1>3, SetupFacts DEF agent_setup_loaded
<1>5. s.ptr \in 0 .. HEAP_SIZE /\ s.ptr \in heap_ptr .. HEAP_SIZE
  <2> HIDE DEF elf, s
  <2> QED  BY <1>1, <1>3, <1>4
<1>6. /\ im \in Images /\ s.ptr <= im.ptr /\ Keeps(shared, im.tab)
      /\ im.rc = "OK" => \A i \in 1 .. Len(prog) :
             Holds(im.tab, prog[i], SegmentPages(prog[i]))
  <2> HIDE DEF elf, s
  <2> QED  BY Zenon, <1>1, <1>2, <1>5, LoadFacts
<1>7. /\ Call /\ UNCHANGED <<mem, cur, tlb>>
      /\ \/ heap_ptr' = elf.ptr /\ UNCHANGED <<pt_next, shared>> /\ same
         \/ pt_next' = s.pts /\ ~s.ok /\ heap_ptr' = s.ptr /\ shared' = shared /\ same
         \/ pt_next' = s.pts /\ s.ok /\ heap_ptr' = kfree(im.ptr) /\ shared' = im.tab /\ same
         \/ /\ pt_next' = s.pts /\ s.ok /\ heap_ptr' = kfree(im.ptr) /\ shared' = im.tab
            /\ Free # {} /\ im.rc = "OK" /\ Occupy(agent_alloc_id, s, prog)
  BY Zenon DEF agent_load_from_path
<1> HIDE DEF elf, s, im
<1>8. im.tab \in Tables /\ kfree(im.ptr) = im.ptr /\ im.ptr \in heap_ptr .. HEAP_SIZE
  BY <1>1, <1>5, <1>6 DEF Images, kfree
<1>9. Keeps(shared, shared)
  BY Zenon, <1>1, TableFacts
<1>10. /\ heap_ptr' \in heap_ptr .. HEAP_SIZE /\ pt_next' \in 0 .. PT_PAGES
       /\ shared' \in Tables /\ Keeps(shared, shared')
  BY Zenon, <1>1, <1>3, <1>4, <1>5, <1>6, <1>7, <1>8, <1>9
<1>11. Counters
  BY Zenon, <1>7, <1>10, CallCounters
<1>12. program \in [Agents -> Seq(Segments)]
  BY Zenon DEF Types, Fields
<1>13. CASE same
  <2>1. Quiet
    BY Zenon, <1>7, <1>13 DEF Quiet
  <2>2. Live' = Live
    BY Zenon, <1>13 DEF Live
  <2>3. Loads
    BY Zenon, <1>10, <1>12, <1>13, <2>2 DEF Loads
  <2> QED  BY Zenon, <1>11, <2>1, <2>3 DEF Kind
<1>14. CASE /\ s.ok /\ heap_ptr' = kfree(im.ptr) /\ shared' = im.tab
            /\ Free # {} /\ im.rc = "OK" /\ Occupy(agent_alloc_id, s, prog)
  <2>1. agent_alloc_id \in Agents \ Live
    BY Zenon, <1>14, SlotFree
  <2>2. PICK id \in Agents : \E r : Occupy(id, r, prog)
    BY Zenon, <1>14, <2>1
  <2> PICK t : Occupy(id, t, prog)
    BY Zenon, <2>2
  <2>3. /\ s.stack \in Nat /\ s.tf \in Nat /\ heap_ptr <= s.stack
        /\ s.stack + STACK <= s.tf /\ s.tf < heap_ptr'
    <3>1. /\ s.stack \in Nat /\ s.tf \in Nat /\ elf.ptr <= s.stack
          /\ s.stack + STACK <= s.tf /\ s.tf < s.ptr
      BY Zenon, <1>4, <1>14
    <3>2. heap_ptr' = im.ptr /\ s.ptr <= im.ptr
      BY Zenon, <1>6, <1>8, <1>14
    <3>3. heap_ptr \in Nat /\ elf.ptr \in Nat /\ s.ptr \in Nat /\ im.ptr \in Nat /\ heap_ptr <= elf.ptr
      BY SMTT(60), Sizes, <1>1, <1>3, <1>5, <1>8
    <3> QED  BY <3>1, <3>2, <3>3, Sizes
  <2>4. Enters
    BY Zenon, <1>7, <1>14, <2>1, <2>3 DEF Enters
  <2>5. program' = [program EXCEPT ![id] = prog]
    BY Zenon DEF Occupy
  <2>6. \A a \in Agents : a \in Live' => a = id \/ (a \in Live /\ program'[a] = program[a])
    <3>1. Live' = Live \cup {id} /\ OthersKept(id)
      BY Zenon, OccupyFacts
    <3> QED  BY Zenon, <3>1 DEF OthersKept, SlotKept
  <2>7. \A i \in DOMAIN program'[id] :
           Holds(shared', program'[id][i], SegmentPages(program'[id][i]))
    <3>1. program'[id] = prog
      BY Zenon, <1>12, <2>5
    <3>2. DOMAIN prog = 1 .. Len(prog)
      BY <1>2
    <3> QED  BY Zenon, <1>6, <1>14, <3>1, <3>2
  <2>8. Loads
    <3>1. program' \in [Agents -> Seq(Segments)]
      BY Zenon, <1>2, <1>12, <2>5
    <3> QED  BY Zenon, <1>10, <2>6, <2>7, <3>1 DEF Loads
  <2> QED  BY Zenon, <1>11, <2>4, <2>8 DEF Kind
<1> QED  BY Zenon, <1>7, <1>13, <1>14

\* Every step is of one of the kinds.
LEMMA StepKind ==
  ASSUME WellOrdered, Types, [Next]_vars
  PROVE  Kind
<1>1. CASE \E named \in BOOLEAN : agent_create(named)
  BY Zenon, <1>1, CreateKind
<1>2. CASE \E named \in BOOLEAN : \E prog \in Programs : agent_load_from_path(prog, named)
  BY Zenon, <1>2, LoadKind
<1>3. CASE \E k \in Pages : agent_heap_map(k)
  BY Zenon, <1>3, MapKind
<1>4. CASE \E k \in Pages : read(k)
  BY Zenon, <1>4, ReadKind
<1>5. CASE \E k \in Pages : evict(k)
  <2> PICK k \in Pages : evict(k)
    BY Zenon, <1>5
  <2>1. Counters /\ Loads
    BY Zenon, NoMemory DEF evict, others
  <2>2. Looks
    BY Zenon DEF evict, others, alloc, Looks
  <2> QED  BY Zenon, <2>1, <2>2 DEF Kind
<1>6. CASE \E k, src \in Pages : agent_heap_cow(k, src)
  BY Zenon, <1>6, CowKind
<1>7. CASE \E k \in Pages, v \in Values : store(k, v)
  BY Zenon, <1>7, StoreKind
<1>8. CASE \E k \in Pages, v \in Values : copy_to_user(k, v)
  BY Zenon, <1>8, CopyKind
<1>9. CASE \E k \in Pages, write \in BOOLEAN : fault(k, write)
  BY Zenon, <1>9, FaultKind
<1>10. CASE \E a \in Agents : schedule(a)
  <2> PICK a \in Agents : schedule(a)
    BY Zenon, <1>10
  <2>1. Counters /\ Loads
    BY Zenon, NoMemory DEF schedule
  <2>2. Looks
    BY Zenon DEF schedule, alloc, Looks, Live
  <2> QED  BY Zenon, <2>1, <2>2 DEF Kind
<1>11. CASE agent_exit
  <2>1. Call /\ UNCHANGED alloc /\ UNCHANGED <<shared, program>> /\ Quiet
    BY Zenon, <1>11 DEF agent_exit, Quiet
  <2>2. Counters
    BY Zenon, <2>1, CountersKept
  <2>3. Loads
    BY Zenon, <1>11, <2>1, LiveKept, NothingLoaded DEF agent_exit
  <2> QED  BY Zenon, <2>1, <2>2, <2>3 DEF Kind
<1>12. CASE UNCHANGED vars
  <2>1. Quiet /\ UNCHANGED alloc /\ UNCHANGED <<state, shared, program, steps>>
    BY Zenon, <1>12 DEF vars, alloc, Quiet
  <2>2. Counters /\ Loads
    BY Zenon, <2>1, NoMemory
  <2> QED  BY Zenon, <2>1, <2>2 DEF Kind
<1> QED
  BY Zenon, <1>1, <1>2, <1>3, <1>4, <1>5, <1>6, <1>7, <1>8, <1>9, <1>10, <1>11, <1>12 DEF Next

-----------------------------------------------------------------------------
(* The library's facts, and the pages that are counted                     *)

INSTANCE FiniteSetTheorems

\* The library's theorem on the numbers below each other says the same.
LEMMA Least == WellOrdered
<1> DEFINE R == OpToRel(<, Nat)
<1>1. IsWellFoundedOn(R, Nat)
  BY Zenon, NatLessThanWellFounded
<1>2. \A x, y \in Nat : y < x => <<y, x>> \in R
  BY DEF OpToRel
<1> HIDE DEF R
<1> SUFFICES ASSUME NEW S \in SUBSET Nat, S # {} PROVE \E x \in S : \A y \in S : x <= y
  BY Zenon DEF WellOrdered
<1>3. PICK x \in S : \A y \in S : ~(<<y, x>> \in R)
  BY ZenonT(60), <1>1, WFMin
<1>4. x \in Nat /\ \A y \in S : y \in Nat /\ ~(y < x)
  BY ZenonT(60), <1>2, <1>3
<1>5. \A y \in S : x <= y
  BY <1>4
<1> QED  BY Zenon, <1>5

MappedPages(a) == {k \in Pages : Mapped(heap[a][k])}

\* Every kind of step keeps heap_mapped the number of pages that are mapped.
LEMMA CountedStep ==
  ASSUME Types, HeapCounted, Kind
  PROVE  HeapCounted'
<1>1. \A a \in Live : heap_mapped[a] = Cardinality(MappedPages(a))
  BY Zenon DEF HeapCounted, MappedPages
<1>2. \A a \in Agents : IsFiniteSet(MappedPages(a))
  <2>1. IsFiniteSet(Pages)
    <3>1. 0 \in Int /\ HEAP_PAGES - 1 \in Int
      BY Sizes
    <3> QED  BY ZenonT(60), <3>1, FS_Interval DEF Pages
  <2>2. \A a \in Agents : MappedPages(a) \subseteq Pages
    BY Zenon DEF MappedPages
  <2> QED  BY ZenonT(60), <2>1, <2>2, FS_Subset
<1> SUFFICES ASSUME NEW a \in Live' PROVE heap_mapped'[a] = Cardinality(MappedPages(a)')
  BY Zenon DEF HeapCounted, MappedPages
<1>3. DOMAIN heap_mapped = Agents /\ a \in Agents
  BY Zenon DEF Types, Fields, Live
<1>4. CASE Quiet \/ Looks \/ \E k \in Pages, v \in Values : Stores(k, v)
  <2>1. Still
    BY Zenon, <1>4, StillKinds
  <2>2. MappedPages(a)' = MappedPages(a)
    BY Zenon, <2>1 DEF Still, MappedPages
  <2> QED  BY ZenonT(60), <1>1, <2>1, <2>2 DEF Still
<1>5. CASE Enters
  <2> PICK b \in Agents \ Live : \E s, prog : Occupy(b, s, prog)
    BY ZenonT(60), <1>5 DEF Enters
  <2> PICK s, prog : Occupy(b, s, prog)
    OBVIOUS
  <2>1. b \in Agents
    BY Zenon
  <2>2. Live' = Live \cup {b} /\ EntersSlot(b, s, prog) /\ OthersKept(b)
    BY ZenonT(60), <2>1, OccupyFacts
  <2>3. CASE a = b
    <3>1. MappedPages(a)' = {}
      BY ZenonT(60), <2>2, <2>3, EntryTypes DEF EntersSlot, MappedPages
    <3> QED  BY ZenonT(60), <2>2, <2>3, <3>1, FS_EmptySet DEF EntersSlot
  <2>4. CASE a # b
    <3>1. MappedPages(a)' = MappedPages(a) /\ a \in Live /\ heap_mapped'[a] = heap_mapped[a]
      BY Zenon, <1>3, <2>2, <2>4 DEF OthersKept, SlotKept, MappedPages
    <3> QED  BY Zenon, <1>1, <3>1
  <2> QED  BY ZenonT(60), <2>3, <2>4
<1>6. CASE \E k \in Pages, p \in heap_ptr .. HEAP_SIZE : Gets(k, p)
  <2> PICK k \in Pages, p \in heap_ptr .. HEAP_SIZE : Gets(k, p)
    BY Zenon, <1>6
  <2>1. /\ cur \in Agents /\ cur \in Live /\ Live' = Live
        /\ \A b \in Agents : b # cur => heap'[b] = heap[b]
        /\ \A i \in Pages : i # k => heap'[cur][i] = heap[cur][i]
        /\ Mapped(heap'[cur][k])
    BY Zenon, GetsFacts
  <2>2. heap_mapped' = [heap_mapped EXCEPT ![cur] =
                          IF Mapped(heap[cur][k]) THEN heap_mapped[cur] ELSE heap_mapped[cur] + 1]
    BY Zenon DEF Gets
  <2>3. CASE a = cur
    <3>1. MappedPages(a)' = MappedPages(a) \cup {k}
      BY Zenon, <2>1, <2>3 DEF MappedPages
    <3>2. k \in MappedPages(a) <=> Mapped(heap[cur][k])
      BY Zenon, <2>3 DEF MappedPages
    <3>3. heap_mapped'[a] = IF Mapped(heap[cur][k]) THEN heap_mapped[a] ELSE heap_mapped[a] + 1
      BY ZenonT(60), <1>3, <2>2, <2>3
    <3> QED  BY ZenonT(60), <1>1, <1>2, <2>1, <2>3, <3>1, <3>2, <3>3, FS_AddElement
  <2>4. CASE a # cur
    <3>1. MappedPages(a)' = MappedPages(a) /\ heap_mapped'[a] = heap_mapped[a]
      BY ZenonT(60), <1>3, <2>1, <2>2, <2>4 DEF MappedPages
    <3> QED  BY ZenonT(60), <1>1, <2>1, <3>1
  <2> QED  BY ZenonT(60), <2>3, <2>4
<1>7. CASE \E dst, src \in Pages : Aliases(dst, src)
  <2> PICK dst \in Pages, src \in Pages : Aliases(dst, src)
    BY Zenon, <1>7
  <2>1. /\ cur \in Agents /\ cur \in Live /\ Live' = Live
        /\ \A b \in Agents : b # cur => heap'[b] = heap[b]
        /\ \A i \in Pages : i # dst /\ i # src => heap'[cur][i] = heap[cur][i]
        /\ Mapped(heap'[cur][dst]) /\ Mapped(heap'[cur][src]) /\ Mapped(heap[cur][src])
    BY ZenonT(60), AliasFacts DEF Aliases
  <2>2. heap_mapped' = [heap_mapped EXCEPT ![cur] = CountAlias(cur, dst)]
    BY Zenon DEF Aliases
  <2>3. CASE a = cur
    <3>1. MappedPages(a)' = MappedPages(a) \cup {dst}
      BY ZenonT(60), <2>1, <2>3 DEF MappedPages
    <3>2. dst \in MappedPages(a) <=> Mapped(heap[cur][dst])
      BY Zenon, <2>3 DEF MappedPages
    <3>3. heap_mapped'[a] = IF Mapped(heap[cur][dst]) THEN heap_mapped[a] ELSE heap_mapped[a] + 1
      BY ZenonT(60), <1>3, <2>2, <2>3 DEF CountAlias
    <3> QED  BY ZenonT(60), <1>1, <1>2, <2>1, <2>3, <3>1, <3>2, <3>3, FS_AddElement
  <2>4. CASE a # cur
    <3>1. MappedPages(a)' = MappedPages(a) /\ heap_mapped'[a] = heap_mapped[a]
      BY ZenonT(60), <1>3, <2>1, <2>2, <2>4 DEF MappedPages
    <3> QED  BY ZenonT(60), <1>1, <2>1, <3>1
  <2> QED  BY ZenonT(60), <2>3, <2>4
<1> QED  BY ZenonT(60), <1>4, <1>5, <1>6, <1>7 DEF Kind

-----------------------------------------------------------------------------
(* The theorems                                                            *)

\* The invariant is kept by every step.
LEMMA MemInvStep ==
  ASSUME MemInv, [Next]_vars
  PROVE  MemInv'
<1>1. Types /\ HeapCounted /\ FrameInv /\ CowInv /\ LoaderInv
  BY Zenon DEF MemInv
<1>2. Kind
  BY ZenonT(60), <1>1, Least, StepKind
<1>3. Types'
  BY ZenonT(60), <1>1, <1>2, TypesStep
<1>4. HeapCounted'
  BY ZenonT(60), <1>1, <1>2, CountedStep
<1>5. FrameInv'
  BY Zenon, <1>1, <1>2, FrameStep
<1>6. CowInv'
  BY Zenon, <1>1, <1>2, CowStep
<1>7. LoaderInv'
  BY Zenon, <1>1, <1>2, LoaderStep
<1> QED  BY ZenonT(60), <1>3, <1>4, <1>5, <1>6, <1>7 DEF MemInv

\* The invariant holds of every state the memory can reach.
LEMMA MemInvHolds == Spec => []MemInv
<1>1. Init => MemInv
  BY Zenon, TypesInit, InvInit DEF MemInv
<1>2. MemInv /\ [Next]_vars => MemInv'
  BY Zenon, MemInvStep
<1> QED  BY <1>1, <1>2, PTL DEF Spec

\* kalloc and kalloc_page hand out frames that overlap nothing: the stacks, the
\* trap frames and the heap pages of the agents that live are apart, across agents
\* and within one, and heap_mapped counts the pages that are mapped.  For any heap
\* size, page size, stack size and number of agents.
THEOREM FramesApart == Spec => []MemoryInv
<1>1. MemInv => MemoryInv
  BY Zenon DEF MemInv, Types, FrameInv, MemoryInv
<1> QED  BY <1>1, MemInvHolds, PTL

\* agent_heap_cow and vm_cow_break: a page reads as what was last written to it, or
\* to the page it was aliased from before that, through the tables and through every
\* translation the processor still keeps, unless a store went through a translation
\* that was out of date.
THEOREM PagesPrivate == Spec => []CowPrivate
<1>1. MemInv => CowPrivate
  BY Zenon DEF MemInv, CowInv
<1> QED  BY <1>1, MemInvHolds, PTL

\* elf_load_into_agent: every address of every segment of a program that was loaded
\* holds its byte of the file, or zero behind the file's part, and stays so whatever
\* is loaded later.
THEOREM ProgramsWhole == Spec => []LoadedImage
<1>1. MemInv => LoadedImage
  BY Zenon, LoaderHolds DEF MemInv
<1> QED  BY <1>1, MemInvHolds, PTL

\* vm_heap_fault and trap_handler: when the agent goes on after a fault, the access
\* it retries is allowed, so no fault comes back.
THEOREM FaultsMended == Spec => FaultMended
<1>1. MemInv /\ [Next]_vars =>
         [UNCHANGED <<tlb, steps>> /\ cur' # None =>
             \A k \in Pages, write \in BOOLEAN : fault(k, write) => Permitted(k, write)']_vars
  BY Zenon, MendedFault DEF MemInv
<1> QED  BY <1>1, MemInvHolds, PTL DEF Spec, FaultMended
=============================================================================
