------------------------------- MODULE Memory -------------------------------
(***************************************************************************)
(* The memory of the agents on one RISC-V hart: the kernel's allocator,     *)
(* which never takes anything back, the page tables, the heap that is       *)
(* mapped on demand and can be aliased copy-on-write, and the loader.       *)
(*                                                                         *)
(* A page is PAGE units of the kernel's heap.  Stacks and heaps lie in a     *)
(* part of the address space each agent has tables of its own for; programs *)
(* that are loaded lie where vm_create_agent_pt copied the kernel's root     *)
(* entry, so the tables there are one for all.  The processor may keep a    *)
(* translation until vm_activate flushes it.  A page of a heap holds one     *)
(* value, a page of a program PAGE_BYTES bytes.                              *)
(***************************************************************************)
EXTENDS Integers, FiniteSets, Sequences

CONSTANTS
    Agents,       \* slots agent_alloc_id chooses from
    HEAP_SIZE,    \* units of the kernel's heap
    PAGE,         \* units of a page
    STACK,        \* units of a stack
    PT_PAGES,     \* page tables
    HEAP_PAGES,   \* pages of an agent's heap
    PAGE_BYTES,   \* bytes of a page, for the loader
    Programs,     \* files that can be loaded: sequences of segments
    Values,       \* what agents write
    MAX_STEPS     \* bound of the exploration: system calls and stores

ASSUME MemorySizes ==
    /\ {HEAP_SIZE, PT_PAGES, HEAP_PAGES, PAGE_BYTES, PAGE} \subseteq Nat \ {0}
    /\ STACK \in Nat /\ STACK % PAGE = 0
    /\ Agents \subseteq Nat /\ 0 \notin Values /\ MAX_STEPS \in Nat
    /\ Programs \subseteq Seq([vaddr : Nat, memsz : Nat, filesz : Nat, cut : BOOLEAN])

VARIABLES
    heap_ptr,     \* the bump pointer
    pt_next,      \* page tables in use
    state,        \* of each slot: UNUSED, RUNNABLE, ZOMBIE
    stack,        \* where the stack of an agent is
    tf,           \* where its trap frame is
    heap,         \* its heap: the entry of each page
    heap_mapped,  \* a->heap_mapped
    shared,       \* the tables all agents share: pages of loaded programs
    program,      \* what was loaded into an agent, <<>> for a built-in one
    mem,          \* what each page frame holds
    cur,          \* the agent that runs
    tlb,          \* translations the processor keeps
    val,          \* what each page of a heap should read as
    loose,        \* pages a store reached through a translation that was out of date
    steps

alloc == <<heap_ptr, pt_next>>
vars == <<heap_ptr, pt_next, state, stack, tf, heap, heap_mapped, shared, program, mem, cur, tlb, val, loose, steps>>

Pages == 0 .. HEAP_PAGES - 1
None == -1
Unmapped == [pa |-> None, w |-> FALSE]
pte(pa, w) == [pa |-> pa, w |-> w]
Mapped(e) == e.pa # None

-----------------------------------------------------------------------------
(* mem.c                                                                   *)

kalloc(ptr, n) == IF ptr + n > HEAP_SIZE THEN [at |-> None, ptr |-> ptr] ELSE [at |-> ptr, ptr |-> ptr + n]

\* Slip: the pointer is rounded down, into what was allocated before.
RoundDown(ptr) == (ptr \div PAGE) * PAGE

RoundUp(ptr) == ((ptr + PAGE - 1) \div PAGE) * PAGE

kalloc_page(ptr) ==
    LET p == RoundUp(ptr)
    IN  IF p + PAGE > HEAP_SIZE THEN [at |-> None, ptr |-> ptr] ELSE [at |-> p, ptr |-> p + PAGE]

kfree(ptr) == ptr

-----------------------------------------------------------------------------
(* Creating an agent                                                       *)

\* n page tables, of a pool nothing returns to; what is left of it is used up
\* by an attempt that fails.
pt_alloc(pts, n) == IF pts + n > PT_PAGES THEN [ok |-> FALSE, pts |-> PT_PAGES] ELSE [ok |-> TRUE, pts |-> pts + n]

\* A root table, and two tables on the way to the stack.
vm_create_agent_pt(pts) == pt_alloc(pts, 1)
vm_map_user_stack(pts) == pt_alloc(pts, 2)

\* What setting up an agent leaves of the allocator, and where stack and trap
\* frame are; it stops at the first thing that cannot be had and gives
\* nothing back.
Setup(ok, ptr, pts, s, t) == [ok |-> ok, ptr |-> ptr, pts |-> pts, stack |-> s, tf |-> t]

agent_setup_stack(ptr) ==
    LET guard == kalloc_page(ptr)
        stk   == kalloc(guard.ptr, STACK)
        frame == kalloc(stk.ptr, 1)
        root  == vm_create_agent_pt(pt_next)
        way   == vm_map_user_stack(root.pts)
        failed(p, n) == Setup(FALSE, p, n, None, None)
    IN  IF guard.at = None THEN failed(ptr, pt_next)
        ELSE IF stk.at = None THEN failed(guard.ptr, pt_next)
        ELSE IF ~root.ok \/ ~way.ok THEN failed(stk.ptr, PT_PAGES)
        ELSE IF frame.at = None THEN failed(stk.ptr, way.pts)
        ELSE Setup(TRUE, frame.ptr, way.pts, RoundUp(stk.at), frame.at)

\* agent_alloc_id: the first slot nobody uses.
Free == {a \in Agents : state[a] # "RUNNABLE"}

agent_alloc_id == CHOOSE a \in Free : \A b \in Free : a <= b

\* The slot is taken over with an empty heap.
Occupy(a, s, prog) ==
    /\ state' = [state EXCEPT ![a] = "RUNNABLE"]
    /\ stack' = [stack EXCEPT ![a] = s.stack]
    /\ tf' = [tf EXCEPT ![a] = s.tf]
    /\ heap' = [heap EXCEPT ![a] = [k \in Pages |-> Unmapped]]
    /\ heap_mapped' = [heap_mapped EXCEPT ![a] = 0]
    /\ program' = [program EXCEPT ![a] = prog]
    /\ val' = [val EXCEPT ![a] = [k \in Pages |-> 0]]
    /\ loose' = {p \in loose : p[1] # a}

Call == steps < MAX_STEPS /\ steps' = steps + 1

\* The name is looked at last: an agent that cannot be named leaves what was
\* allocated for it behind.
agent_create(named) ==
    /\ Call /\ Free # {}
    /\ LET s == agent_setup_stack(heap_ptr)
       IN  /\ heap_ptr' = s.ptr /\ pt_next' = s.pts
           /\ IF s.ok /\ named THEN Occupy(agent_alloc_id, s, <<>>)
              ELSE UNCHANGED <<state, stack, tf, heap, heap_mapped, program, val, loose>>
    /\ UNCHANGED <<shared, mem, cur, tlb>>

-----------------------------------------------------------------------------
(* Loading a program: elfload.c                                            *)

\* Slip: a segment is taken to start with its page.
SegmentByteFromPageStart(seg, addr) ==
    LET off == addr - (seg.vaddr \div PAGE_BYTES) * PAGE_BYTES
    IN  IF off < seg.filesz THEN off + 1 ELSE 0

\* A byte of a page a segment covers: byte i of the file is i + 1, the rest of
\* the page is zero.
SegmentByte(seg, addr) ==
    LET off == addr - seg.vaddr
    IN  IF off >= 0 /\ off < seg.filesz THEN off + 1 ELSE 0

\* How many pages there are from the one a segment starts in to the one it ends in.
SegmentPages(seg) ==
    ((seg.vaddr + seg.memsz + PAGE_BYTES - 1) \div PAGE_BYTES) - (seg.vaddr \div PAGE_BYTES)

PageOf(seg, vp) == [i \in 0 .. PAGE_BYTES - 1 |-> SegmentByte(seg, vp * PAGE_BYTES + i)]

\* The pages of a segment are allocated and mapped one after the other into
\* tables that exist already; the first that cannot be had, or whose place is
\* taken, ends it.
Image(rc, ptr, tab) == [rc |-> rc, ptr |-> ptr, tab |-> tab]

vm_map_page(tab, vp, page) == [v \in DOMAIN tab \cup {vp} |-> IF v = vp THEN page ELSE tab[v]]

MapPage(im, seg, vp) ==
    LET p == kalloc_page(im.ptr)
    IN  IF p.at = None \/ vp \in DOMAIN im.tab THEN Image("ENOSPC", p.ptr, im.tab)
        ELSE Image("OK", p.ptr, vm_map_page(im.tab, vp, PageOf(seg, vp)))

elf_map_segment(im, seg) ==
    LET first == seg.vaddr \div PAGE_BYTES
        upto[n \in 0 .. SegmentPages(seg)] ==
            IF n = 0 THEN im
            ELSE LET before == upto[n - 1]
                 IN  IF before.rc = "OK" THEN MapPage(before, seg, first + n - 1) ELSE before
    IN  upto[SegmentPages(seg)]

\* A segment beyond the end of the file ends it as well, with what came
\* before it mapped.
elf_load_into_agent(ptr, tab, prog) ==
    LET upto[n \in 0 .. Len(prog)] ==
            IF n = 0 THEN Image("OK", ptr, tab)
            ELSE LET im == upto[n - 1]
                 IN  IF im.rc # "OK" THEN im
                     ELSE IF prog[n].cut THEN [im EXCEPT !.rc = "EINVAL"]
                     ELSE elf_map_segment(im, prog[n])
    IN  upto[Len(prog)]

agent_setup_loaded(ptr) == agent_setup_stack(ptr)

\* The file is read into memory, the agent set up, the segments mapped, the
\* name looked at.
agent_load_from_path(prog, named) ==
    /\ Call
    /\ LET elf == kalloc(heap_ptr, 1)
           s   == agent_setup_loaded(elf.ptr)
           im  == elf_load_into_agent(s.ptr, shared, prog)
       IN  IF elf.at = None \/ Free = {}
           THEN /\ heap_ptr' = elf.ptr
                /\ UNCHANGED <<pt_next, shared, state, stack, tf, heap, heap_mapped, program, val, loose>>
           ELSE /\ pt_next' = s.pts
                /\ heap_ptr' = IF s.ok THEN kfree(im.ptr) ELSE s.ptr
                /\ shared' = IF s.ok THEN im.tab ELSE shared
                /\ IF s.ok /\ im.rc = "OK" /\ named THEN Occupy(agent_alloc_id, s, prog)
                   ELSE UNCHANGED <<state, stack, tf, heap, heap_mapped, program, val, loose>>
    /\ UNCHANGED <<mem, cur, tlb>>

-----------------------------------------------------------------------------
(* The heap: vm.c.  Each operator gives what becomes of the agent's entries, *)
(* its count and the allocator.                                             *)

Heap(ok, ptr, pts, ents, n) == [ok |-> ok, ptr |-> ptr, pts |-> pts, ents |-> ents, n |-> n]
Same(a, ok) == Heap(ok, heap_ptr, pt_next, heap[a], heap_mapped[a])

\* vm_map_user_page reaches the page through a table of its own, made for the
\* first page of the heap.
NeedsTable(a) == \A k \in Pages : ~Mapped(heap[a][k])

vm_walk(a) == pt_alloc(pt_next, IF NeedsTable(a) THEN 1 ELSE 0)

vm_heap_map_page(a, k) ==
    LET p == kalloc_page(heap_ptr)
    IN  IF Mapped(heap[a][k]) THEN Same(a, TRUE)
        ELSE IF heap_mapped[a] >= HEAP_PAGES \/ p.at = None THEN Same(a, FALSE)
        ELSE IF ~vm_walk(a).ok THEN [Same(a, FALSE) EXCEPT !.ptr = p.ptr]
        ELSE Heap(TRUE, p.ptr, vm_walk(a).pts, [heap[a] EXCEPT ![k] = pte(p.at, TRUE)], heap_mapped[a] + 1)

\* Slip: the source stays writable.
AliasKeepsSource(ents, dst, src) == [ents EXCEPT ![dst] = pte(ents[src].pa, FALSE)]

Aliased(ents, dst, src) ==
    [ents EXCEPT ![src] = pte(ents[src].pa, FALSE), ![dst] = pte(ents[src].pa, FALSE)]

CountAlias(a, dst) == IF Mapped(heap[a][dst]) THEN heap_mapped[a] ELSE heap_mapped[a] + 1

vm_heap_cow_alias(a, dst, src) ==
    IF \/ dst = src \/ ~Mapped(heap[a][src])
       \/ Mapped(heap[a][dst]) /\ heap[a][dst].pa # heap[a][src].pa
       \/ ~Mapped(heap[a][dst]) /\ heap_mapped[a] >= HEAP_PAGES
    THEN Same(a, FALSE)
    ELSE [Same(a, TRUE) EXCEPT !.ents = Aliased(heap[a], dst, src), !.n = CountAlias(a, dst)]

\* Slip: the copy is mapped as the page was.
BreakReadOnly(a, k) ==
    LET p == kalloc_page(heap_ptr)
    IN  IF p.at = None THEN Same(a, FALSE)
        ELSE [Same(a, TRUE) EXCEPT !.ptr = p.ptr, !.ents[k] = pte(p.at, FALSE)]

\* The page gets a frame of its own, with what the shared one holds.
vm_cow_break(a, k) ==
    LET p == kalloc_page(heap_ptr)
    IN  IF p.at = None THEN Same(a, FALSE)
        ELSE [Same(a, TRUE) EXCEPT !.ptr = p.ptr, !.ents[k] = pte(p.at, TRUE)]

vm_heap_fault(a, k, write) ==
    IF ~Mapped(heap[a][k]) THEN vm_heap_map_page(a, k)
    ELSE IF write /\ ~heap[a][k].w THEN vm_cow_break(a, k)
    ELSE Same(a, FALSE)

Apply(a, h) ==
    /\ heap' = [heap EXCEPT ![a] = h.ents]
    /\ heap_mapped' = [heap_mapped EXCEPT ![a] = h.n]
    /\ heap_ptr' = h.ptr /\ pt_next' = h.pts

others == <<stack, tf, shared, program, cur>>

agent_heap_map(k) ==
    /\ Call /\ cur # None
    /\ Apply(cur, vm_heap_map_page(cur, k))
    /\ UNCHANGED <<state, mem, tlb, val, loose>> /\ UNCHANGED others

\* The aliased page reads as its source does; no translation is flushed.
agent_heap_cow(dst, src) ==
    /\ Call /\ cur # None
    /\ LET h == vm_heap_cow_alias(cur, dst, src)
       IN  /\ Apply(cur, h)
           /\ val' = IF h.ok THEN [val EXCEPT ![cur][dst] = val[cur][src]] ELSE val
           /\ loose' = IF h.ok /\ <<cur, src>> \in loose THEN loose \cup {<<cur, dst>>} ELSE loose
    /\ UNCHANGED <<state, mem, tlb>> /\ UNCHANGED others

-----------------------------------------------------------------------------
(* Running                                                                 *)

\* The translation an access uses: one the processor kept if that allows the
\* access, else the one in the tables, looked up again as the emulator the
\* kernel runs on does.
Kept(k, write) == Mapped(tlb[k]) /\ (write => tlb[k].w)
Translation(k, write) == IF Kept(k, write) THEN tlb[k] ELSE heap[cur][k]
Permitted(k, write) == LET e == Translation(k, write) IN Mapped(e) /\ (write => e.w)

Touch(k, write) == tlb' = [tlb EXCEPT ![k] = Translation(k, write)]

read(k) ==
    /\ cur # None /\ Permitted(k, FALSE)
    /\ Touch(k, FALSE)
    /\ UNCHANGED <<state, heap, heap_mapped, mem, val, loose, steps>> /\ UNCHANGED others /\ UNCHANGED alloc

\* A store through a translation the tables no longer hold reaches every page
\* that is on the frame by now or is read through one that is.
store(k, v) ==
    /\ Call /\ cur # None /\ Permitted(k, TRUE)
    /\ Touch(k, TRUE)
    /\ LET pa == Translation(k, TRUE).pa
       IN  /\ mem' = [mem EXCEPT ![pa] = v]
           /\ loose' = IF Translation(k, TRUE) = heap[cur][k] THEN loose
                       ELSE loose \cup {<<cur, j>> : j \in {i \in Pages : pa \in {heap[cur][i].pa, tlb[i].pa}}}
    /\ val' = [val EXCEPT ![cur][k] = v]
    /\ UNCHANGED <<state, heap, heap_mapped>> /\ UNCHANGED others /\ UNCHANGED alloc

\* A page fault: the handler mends it, or the agent exits.
fault(k, write) ==
    /\ cur # None /\ ~Permitted(k, write)
    /\ UNCHANGED <<stack, tf, shared, program, tlb, val, loose, steps>>
    /\ LET h == vm_heap_fault(cur, k, write)
       IN  /\ Apply(cur, h)
           /\ mem' = IF Mapped(heap[cur][k]) /\ h.ok THEN [mem EXCEPT ![h.ents[k].pa] = mem[heap[cur][k].pa]] ELSE mem
           /\ IF h.ok THEN UNCHANGED <<state, cur>>
              ELSE state' = [state EXCEPT ![cur] = "ZOMBIE"] /\ cur' = None

\* copy_to_user: vm_user_check asks the tables, and a page that is shared or
\* not mapped yet is EFAULT.
vm_user_check(a, k) == heap[a][k].w

copy_to_user(k, v) ==
    /\ cur # None
    /\ IF vm_user_check(cur, k) THEN store(k, v)
       ELSE /\ Call
            /\ UNCHANGED <<state, heap, heap_mapped, mem, tlb, val, loose>> /\ UNCHANGED others /\ UNCHANGED alloc

\* The processor drops a translation.
evict(k) ==
    /\ Mapped(tlb[k])
    /\ tlb' = [tlb EXCEPT ![k] = Unmapped]
    /\ UNCHANGED <<state, heap, heap_mapped, mem, val, loose, steps>> /\ UNCHANGED others /\ UNCHANGED alloc

\* vm_activate.
schedule(a) ==
    /\ state[a] = "RUNNABLE" /\ a # cur
    /\ cur' = a
    /\ tlb' = [k \in Pages |-> Unmapped]
    /\ UNCHANGED <<state, stack, tf, shared, program, heap, heap_mapped, mem, val, loose, steps>> /\ UNCHANGED alloc

agent_exit ==
    /\ Call /\ cur # None
    /\ state' = [state EXCEPT ![cur] = "ZOMBIE"]
    /\ cur' = None
    /\ UNCHANGED <<stack, tf, shared, program, heap, heap_mapped, mem, tlb, val, loose>> /\ UNCHANGED alloc

-----------------------------------------------------------------------------
Init ==
    /\ heap_ptr = 0 /\ pt_next = 0
    /\ state = [a \in Agents |-> "UNUSED"]
    /\ stack = [a \in Agents |-> None] /\ tf = stack
    /\ heap = [a \in Agents |-> [k \in Pages |-> Unmapped]]
    /\ heap_mapped = [a \in Agents |-> 0]
    /\ shared = <<>> /\ program = [a \in Agents |-> <<>>]
    /\ mem = [f \in 0 .. HEAP_SIZE |-> 0]
    /\ cur = None /\ tlb = [k \in Pages |-> Unmapped]
    /\ val = [a \in Agents |-> [k \in Pages |-> 0]]
    /\ loose = {} /\ steps = 0

Next ==
    \/ \E named \in BOOLEAN : agent_create(named) \/ \E prog \in Programs : agent_load_from_path(prog, named)
    \/ \E k \in Pages :
          \/ agent_heap_map(k) \/ read(k) \/ evict(k)
          \/ \E src \in Pages : agent_heap_cow(k, src)
          \/ \E v \in Values : store(k, v) \/ copy_to_user(k, v)
          \/ \E write \in BOOLEAN : fault(k, write)
    \/ \E a \in Agents : schedule(a)
    \/ agent_exit

Spec == Init /\ [][Next]_vars
-----------------------------------------------------------------------------
(* Properties                                                              *)

Live == {a \in Agents : state[a] = "RUNNABLE"}
Entries == [pa : -1 .. HEAP_SIZE, w : BOOLEAN]

TypeOK ==
    /\ heap_ptr \in 0 .. HEAP_SIZE /\ pt_next \in 0 .. PT_PAGES
    /\ state \in [Agents -> {"UNUSED", "RUNNABLE", "ZOMBIE"}]
    /\ stack \in [Agents -> -1 .. HEAP_SIZE] /\ tf \in [Agents -> -1 .. HEAP_SIZE]
    /\ heap \in [Agents -> [Pages -> Entries]]
    /\ mem \in [0 .. HEAP_SIZE -> Values \cup {0}] /\ val \in [Agents -> [Pages -> Values \cup {0}]]
    /\ cur \in Live \cup {None}
    /\ tlb \in [Pages -> Entries]
    /\ loose \subseteq Agents \X Pages
    /\ steps \in 0 .. MAX_STEPS

\* agent_heap_cow: a page reads as what was last written to it, or to the page
\* it was aliased from before that, whatever happens to the pages it shares a
\* frame with; a page not written yet reads as zero though vm_heap_map_page
\* clears nothing, since no frame is used twice.  Excepted are pages reached by a
\* store through a translation that agent_heap_cow should have flushed.
CowPrivate ==
    /\ \A a \in Live, k \in Pages :
          Mapped(heap[a][k]) /\ <<a, k>> \notin loose => mem[heap[a][k].pa] = val[a][k]
    /\ cur # None =>
          \A k \in Pages : Mapped(tlb[k]) /\ <<cur, k>> \notin loose => mem[tlb[k].pa] = val[cur][k]

HeapUnits(a) == UNION {heap[a][k].pa .. heap[a][k].pa + PAGE - 1 : k \in {i \in Pages : Mapped(heap[a][i])}}
StackUnits(a) == stack[a] .. stack[a] + STACK - 1

\* What kalloc and kalloc_page hand out overlaps nothing: stacks, trap frames and
\* heaps of the agents that live are apart from each other, across agents and
\* within one.
OwnFrames ==
    /\ \A a \in Live :
          /\ HeapUnits(a) \cap (StackUnits(a) \cup {tf[a]}) = {}
          /\ tf[a] \notin StackUnits(a)
          /\ \A u \in HeapUnits(a) \cup StackUnits(a) \cup {tf[a]} : u < heap_ptr
    /\ \A a, b \in Live :
          a # b => (HeapUnits(a) \cup StackUnits(a) \cup {tf[a]}) \cap (HeapUnits(b) \cup StackUnits(b) \cup {tf[b]}) = {}

\* A fault vm_heap_fault says it has mended does not come back: the access is
\* allowed when the agent retries it.  (No fault is a system call or flushes.)
FaultMended ==
    [][UNCHANGED <<tlb, steps>> /\ cur' # None =>
          \A k \in Pages, write \in BOOLEAN : fault(k, write) => Permitted(k, write)']_vars

\* heap_mapped counts the pages that are mapped, aliases included, so the limit
\* on it is a limit on pages.
HeapCounted ==
    \A a \in Live : heap_mapped[a] = Cardinality({k \in Pages : Mapped(heap[a][k])})

\* elf_map_segment: every address of a segment of a program that was loaded
\* holds its byte of the file, or zero behind the end of the file's part, with
\* segments that start and end within a page.
LoadedImage ==
    \A a \in Live : \A i \in DOMAIN program[a] :
        LET seg == program[a][i]
        IN  \A addr \in seg.vaddr .. seg.vaddr + seg.memsz - 1 :
                /\ addr \div PAGE_BYTES \in DOMAIN shared
                /\ shared[addr \div PAGE_BYTES][addr % PAGE_BYTES] =
                       IF addr < seg.vaddr + seg.filesz THEN addr - seg.vaddr + 1 ELSE 0

\* docs/SYSCALL.md on agent_load: the agent gets page tables of its own.  What
\* can be loaded into empty tables can then be loaded whatever was loaded before.
LoadsIntoOwnTables ==
    [][\A prog \in Programs :
          agent_load_from_path(prog, TRUE) /\ Free # {} /\ kalloc(heap_ptr, 1).at # None =>
              LET s == agent_setup_loaded(kalloc(heap_ptr, 1).ptr)
              IN  s.ok /\ elf_load_into_agent(s.ptr, <<>>, prog).rc = "OK" => state' # state]_vars

\* The state invariants of allocation: what is handed out overlaps nothing, and
\* the pages counted are the pages mapped.
MemoryInv == TypeOK /\ HeapCounted /\ OwnFrames
=============================================================================
