# OpenAgentOS: a TLA+ development

This directory models parts of the OpenAgentOS kernel in TLA+, model-checks
them with TLC on small instances, and proves most of their safety properties
with TLAPS for all instances. `PROJECT.json` lists the components, the runs, the
source lines each definition stands for, the hazards and the theorems.

## The system

OpenAgentOS is a small kernel (RISC-V with several harts, x86-64 with one) that
runs *agents*: user programs in a fixed table of slots. Its parts, their state
and how they meet:

| Part | State | Operations | Meets |
|---|---|---|---|
| Mailbox (`ipc.c`) | two rings per agent, one global lock | init, push, pop, compact | agents, scheduler (inbox counts), sessions (summaries) |
| Scheduler, agents (`sched.c`, `agent.c`, `trap_handler.c`, `smp.c`) | slot table, current agent and run queue per hart, lock, pending kicks | create, exit, destroy, yield, send, receive, notify, wait, halt | mailbox, traps, timer |
| ramfs (`ramfs.c`) | table of files | write, put, clear, enumerate | every kernel log, tools, persistence |
| Persistence (`persist.c`, `virtio_blk.c`) | sectors | load, migrate, sync | ramfs, boot |
| Tool gateway (`tool.c`, `quota.c`, `policy.c`, `audit.c`) | counters, lists, log | dispatch: quota, policy, capability, check, run, audit, charge | ramfs, network, sessions |
| Sessions, tenants, namespaces | logs in ramfs, limits | append, tail, compact, allow | ramfs, mailbox |
| Service RPC (`user/agent_svc.c`, `*_svc.c`) | request ids, receive buffer, deferred message, shared by all agents of an image | read, write, llm, serve | mailbox, scheduler |
| OTA, catalog | active and rollback records, packages | verify, apply, install, roll back | ramfs, persistence |
| Virtual memory, heap | page tables, bump pointer | map, fault, alias, break copy-on-write | agents |
| Network stack, TLS, HTTP, model client | one TCP connection, ARP, DHCP, DNS | connect, send, receive, close | device, tools, fleet |
| VirtIO drivers | rings, buffers, one request buffer | submit, wait, time out, poll, refill | persistence, network, display, input |
| Kernels and their agents (`kernel_*.c`, `demo_*.c`, consoles) | what each image starts | pipelines, commands, loading | services, scheduler |

What makes these hard is listed as hazards in `PROJECT.json`: unlocked tests and
publications seen by another hart, mail preferred to the run queue, lost kicks,
a lock initialised lazily, an image overwritten in place, loads and syncs that
fail half-way, devices that answer after the timeout, translations the processor
kept, messages and segments out of order, calls that wait for ever.

## Modules

| Module | Models | Notes |
|---|---|---|
| `MsgTypes`, `Mailbox` | what a mailbox promises | two bounded FIFO queues, steer first, compaction keeps the newest behind a summary; each operation is one step |
| `Msgbox` | `kernel/ipc.c` | statement by statement, several harts, the lock and its lazy initialisation, `msgbox_init` without the lock |
| `Sched` | `sched.c`, `agent.c`, `trap_handler.c`, `smp.c` | steps cut where another hart sees a half-done update |
| `Ramfs` | `ramfs.c` | operators on the slot table, what a refused call leaves behind included |
| `Persist` | `persist.c`, the caller's view of `virtio_blk.c` | one step per sector written or file read |
| `Audit`, `Session`, `Policy` over `Ramfs` | `audit.c`; `session.c` and `tenant.c`; `policy.c` | operators: each call maps the files and lists before it to those after it |
| `Gateway` over these | `tool.c`, `quota.c`, `namespace.c`, `fleet.c`, `remote.c`, `mesh.c` | one action per tool, each passing the whole gateway |
| `Catalog` over `Ramfs` | `ota.c`, `catalog.c` | one action per call |
| `Virtio` | `virtio*.c`, `arch/x86/virtio_pci_*.c` | driver and device interleave; the device is external |
| `Memory` | `mem.c`, `vm.c`, `elfload.c`, the allocating part of `agent.c`, the page faults of `trap_handler.c` | one hart, with the translations it keeps |
| `Netstack`, `Net` | `netstack.c`; `tls_client.c`, `http.c`, `llm*.c`, `fleet.c`, `remote.c` | `Netstack` is what a frame does to the statics, `Net` the calls that wait by polling |
| `AgentPrograms` | `kernel_*.c`, `demo_*.c`, `orch_pipeline.c`, `console_svc.c`, `shell_svc.c`, `worker_load.c` | each agent as a list of instructions, each kernel as what it starts |
| `Services` over it | `agent_svc.c`, the service agents | one action per access to a variable the agents share |
| `MC...` | | instances for TLC |
| `MsgboxProofs` | | proofs about `Msgbox`, its refinement of `Mailbox` included |
| `SchedProofs`, `SchedQueueProofs` | | proofs about `Sched`: types, homes and contexts; the lock and the run queues |
| `PersistBase`, `PersistProofs` | | proofs about `Persist`: the table, the image and what every step keeps; the theorems |
| `GatewayProofs` | | proofs about `Gateway` with `Ramfs`, `Audit`, `Session` and `Policy` |
| `VirtioProofs` | | proofs about `Virtio` |
| `MemoryProofs` | | proofs about `Memory` |

Definitions marked *Slip* are wrong on purpose: each replaces one definition
to show that a property notices the mistake. They take part in no specification.

**Msgbox.** `pc[h]` is the statement hart `h` executes next; `call`, `local` and
`ret` are its arguments, its copies and its result. Payloads are identities,
the text of a summary is the number of messages dropped.

**Sched.** `state`, `home_cpu`, `running_cpu`, `inbox` are the fields of a slot.
Register contents are the number of the program they belong to: `code[h]` for
the hart, `frame[f]` for a trapframe, `tf[s]` the trapframe of a slot. So
"the wrong context was loaded or saved" is visible. The critical section of
`schedule_trap` is cut at its pick and commit, `agent_create` at each
publication, `sched_notify_runnable` between its unlocked test and its update.
Mailboxes are counts here; their contents are `Msgbox`. Memory is sequentially
consistent. `sched_lock_init_once` is its three statements: the test, the
initialisation of the lock and the flag. `OrderedSpec` leaves out the runs in which
a hart is about to initialise the lock while another is in the section it
protects (`FirstUseAlone`), which nothing in the code prevents. The timer is armed by the first YIELD or EXIT that returns, on the
hart that makes it, and for no other hart; `TimerTrap` is a YIELD it forces.

**Persist.** `files` is the table of `ramfs.c`, `disk` the sectors. `saved`,
`doubt` and `synced` only observe: the files of the last complete sync, what
later syncs that were cut short tried to save, and every file any sync tried to
save or the first image held. `Restart` may happen between any two
steps. A failed write may have been carried out (a timeout). CRCs do not
collide, sectors are written whole, a data sector read as meta shows a size out
of range. The superblock checksum is a set of tokens in which what occurs twice
cancels, as in an exclusive or.

**Gateway.** A tool call runs in the trap handler of one hart and is one step:
quota, policy, capability, argument check, the tool, its line in the audit log,
the charge; the first of these that refuses gives the answer. `trail` and `call`
only observe. Files are sequences of lines or tokens, so that what `ramfs_write`
leaves behind a shorter text is there. Tools that only talk to a device or the
network give any answer they may give. Of a package and a catalog entry there is
where they install and what; `Catalog` has the rest.

**Catalog.** A package is a manifest and the pieces of a program; it may be cut
short, changed after signing or made for another channel. A signature is the
program it was made for. Each parse of a package takes a piece of the heap for
good; how much is left is any number. `through` only observes which programs were
installed.

**Virtio.** `q[i]` has the four indices of a ring: the driver's `avail` and
`last_used`, the device's `used` and its position `seen`. The device reads a
request when it takes it, answers in order, late or never, and may fail. `clean`
only observes whether the device owed nothing when the call read the used index;
the submission is a later step, so that completions may land in between.

**Memory.** A frame is a position of the bump allocator, so a second use of one
would show. `tlb` is what the processor may still use; it walks the tables
again when a kept translation forbids the access. `val` only observes what each
page should read as, `loose` which pages a store reached through a translation
that should have been flushed.

**Net.** `stack` is the calls in progress, each with the place it waits at;
`net` the statics. A frame in flight may be lost, delivered, delivered twice or
overtaken. `net.site` is what does not change: whether there is a device, an API
key and an x86 gateway, how DHCP answers. A device that is slow (`net.up`) is
given up by `virtio_net_send_frame` with the frame in its queue, so that a send
that failed may be answered. `net.late` and `net.disorder` only observe that a
frame of an earlier exchange, or one out of order, was accepted. TLS is external:
it reads the units of a connection in order or fails. Whether the policy lets a
host through is `Gateway`'s; here it may deny any.

**Services.** All agents of a kernel are one image, so `statics` (the request
numbers, the number awaited, the receive buffer, the deferred message) are
shared, and the timer switches agents anywhere. The stages of a call are actions;
a service, which shares nothing but its mailbox, receives, serves and answers in
one. `ghost` only observes overlap, lost messages and steering. Any step of any
agent may come next; which one must is `Picked`, after `pick_next`. Copies of a
message are atomic, `agent_spawn` does not fail, and a second agent of a name
starts when the first has ended.

## Runs

| Run | Shows |
|---|---|
| `msgbox_two_harts` | two harts push, pop, compact and re-initialise; the first operation of the system and each `msgbox_init` have the box to themselves (`OrderedSpec`): exclusion, consistent rings, refinement of `Mailbox` |
| `sched_one_hart` | create, message, destroy, recycle: own context, nothing gone runs, fairness up to waiting mail |
| `sched_two_harts` | init spawns workers and recycles their slots: no double run, lock exclusion, nothing runnable is forgotten |
| `sched_halts` | the same with fewer programs: shutdown when the boot hart armed the timer |
| `persist_restore` | a completed sync is restored exactly, migration and repeated sync may be cut anywhere, only whole files are accepted, the superblock is written last |
| `gateway` | two agents and every tool: an audit log no package is installed over is a suffix of the calls, session logs keep their quota through compaction, a loaded policy is in force, a spent quota binds whatever tool is tried next, files are changed by their owners or a package only |
| `catalog` | two programs, good and bad packages: only signed programs are installed, failures keep the program (one exception leaves it in the backup), records are true and rollback restores what they say while one program uses the catalog |
| `virtio` | seven drivers, indices that wrap: a call gets its own answer if the device owed nothing, frames come once and in order, buffers are conserved up to runts, every call returns, a driver that is polled keeps receiving until runts have used up its pool |
| `memory` | what is allocated never overlaps, aliased pages are private once written, a mended fault does not come back, a loaded program is what its file says |
| `net` | a model query, fetches, ingest and remote console, with a device, a slow one or none, over a link that loses, repeats, delays and reorders: frames go to the right station, names and answers are right up to late frames, a connection that carried a request is released, every call but a handshake ends |
| `services` | eight kernels under the scheduler's preference for mail: answers belong to their calls, pages to their URLs, callers are ordered by messages, calls return and pipelines end up to the exceptions they name, services stop |
| `services_overlap` (violated) | two workers of the storage demo: one reads back something other than it wrote |

`PersistInv`, `GatewayInv`, `CatalogInv`, `VirtioInv`, `MemoryInv`, `NetInv` and
`ServicesInv` are the type invariant of their module and the safety invariants
that belong with it; `PolicyInForce` and `AnswersRight` are two each. Their
conjuncts are defined and explained one by one.

The violated run is a disagreement between the code and its README; the finding
in `PROJECT.json` quotes both.

### Bounds

* Mailboxes: capacities 2 and 1. Both rings fill, empty and wrap, and `keep` is
  taken below, inside and above the range.
* Scheduler: four slots, of which slot 0 is never allocated, so three agents;
  three frames belong to the slots at boot, so `MAX_PROGS` of 5 allows two
  creations and 6 allows three. With init on hart 0 and `id % ncpu` as home,
  recycling a slot of the *other* hart takes three, which is what
  `sched_two_harts` has (1.67 million states). `sched_halts` has two: only a slot
  of hart 0 is recycled there. With three it passes too, in 8 minutes.
* Persistence: two user files of one or two sectors, three writes, two syncs,
  three boots, on a blank, an AOS1 and an AOS2 device. Files grow, move on the
  device and change order; an image is cut, repaired and cut again. Two larger
  instances pass as well: from the AOS1 image with three syncs and four boots
  (12 million states), and three files of one sector from an AOS2 image (5.2
  million states); `MCPersist` keeps their starting points.
* Gateway: three calls of any kind by two agents, and four to six of the kinds
  that share the policy, an agent's logs, an inbox or the packages (192,820
  states). With five calls of sessions, audit and devices together, six with
  sessions and messages, four with devices and packages, it passes too (274,494
  states). One package is a file of the application, one is installed over the
  log of the service. Limits are so small that these calls reach them: four tool
  calls, two messages, one file each, three lines of audit, two denied tools, seven slots of ramfs. A
  session has room for 8 tokens, a summary for 3 and a line for up to 2: the
  proportions of the code, where a line (188 bytes) and two summaries (222) fit
  the quota (640). An agent makes up to four session calls.
* Catalog: six calls; ten slots, room for all but the last file of an
  installation, so that installations fail half-way; with and without a record
  of the version in force to start with (48,324 states).
* Virtio: rings of two slots, indices modulo four: five requests, four frames and
  six input events wrap them. The device may be three requests behind.
* Memory: 24 units, eight page tables, two slots, five calls or stores: both
  run out, slots are used again, an alias is aliased (324,020 states).
* Net: answers of three units, a receive buffer of one and a caller's buffer of
  two, so that both fill; a station of the subnet besides the gateway. Nine
  plans (261,076 states): one or two calls with a device, of which four with one
  that is slow from time to time and one of these with the x86 station and a DHCP
  server of either kind; all calls without a device; a query without a key. The
  longer plans keep a device that is never slow, for the size of the run.
* Services: queues of two, three lines typed (two in the orchestrator's console),
  a quota of four requests (the code has four), two polls of the keyboard.
* `CHECK_DEADLOCK FALSE` is set where all agents may have ended or the bounds on
  calls are used up.

### Fairness

* `Sched`: kernel code on a hart is weakly fair: interrupts are off in the kernel
  and its loops are bounded. `TimerTrap` is strongly fair: on the hart that has the
  timer, a program that comes back to user mode again and again is preempted.
  Before the timer is armed, and on the other hart, nothing is assumed. Nothing is
  assumed about which calls programs make either.
* `Virtio`: a call or a poll in progress goes on. Nothing is assumed of the device;
  `CallReturns` rests on the counters of the waiting loops. Nobody has to poll: the
  network is polled inside the waiting loops of `netstack.c` and `tls_client.c`, the
  keyboard by a tool call. `KeepsReceiving` takes "polled again and again, whenever
  something waits" as a hypothesis of its own.
* `Net`: the kernel goes on and a loop that counts its turns ends. No frame has
  to arrive.
* `Services`: what `pick_next` gives. Of the agents that hold mail the one in the
  lowest slot goes on if it can (`MailFirst`), also if it never takes that mail; the
  others get nothing meanwhile. When nobody holds mail, some agent in a call and
  some agent between calls go on, which is less than the run queue gives. Every
  program traps again and again, so no timer is needed for this. Nobody has to
  type: the console at its prompt need not take a step.

## Proofs

Every safety property a passing run checks is proved, except those of `Catalog`,
`Net` and `Services` and `QuotasBind` of `Gateway`. "For every" leaves out what holds of all rows: any system
calls, tools and programs the module has, in any order, as often as they like.

| Theorem | Property | For every | Provided |
|---|---|---|---|
| `MsgboxProofs!TypeCorrect` | `TypeOK` | number of harts, capacity, set of messages | |
| `MsgboxProofs!MutualExclusion` | `BoxExclusion` | the same | `Serialized` |
| `MsgboxProofs!RingsConsistent` | `RingConsistent` | the same | `Serialized` |
| `MsgboxProofs!Refinement` | `Linearizable`: `Msgbox` implements `Mailbox` | the same | `Serialized` |
| `SchedProofs!TypeCorrect` | `TypeOK` | number of slots, harts and programs | |
| `SchedProofs!NoDoubleRunUnderInit` | `NoDoubleRun` | the same | `InitSpawns` |
| `SchedProofs!OneHartOwnContext` | `OwnContext` | number of slots and programs | `OneHart` |
| `SchedProofs!OneHartGoneStaysGone` | `GoneNeverRuns` | the same | `OneHart` |
| `SchedQueueProofs!LockExcludes` | `LockExclusion` | number of slots and programs | `FirstUseAlone`, at most two harts |
| `SchedQueueProofs!RunnableAlwaysQueued` | `RunnableQueued` | number of slots, harts and programs | `FirstUseAlone`, `InitSpawns` |
| `PersistProofs!WholeFiles` | `PersistInv` | table, device, file contents, first image | |
| `PersistProofs!SuperblockLast` | `SuperLast` | the same | |
| `PersistProofs!SavedComesBack` | `RestoresLastSync` | the same | `ContentsFit` |
| `GatewayProofs!Isolation` | `OwnFilesOnly` | agents, capabilities, paths, contents, texts, packages, limits | |
| `GatewayProofs!NewestCallsLogged` | `AuditTrail` | the same | |
| `GatewayProofs!PolicyEnforced` | `PolicyInForce` | the same | |
| `GatewayProofs!SessionsInBounds` | `GatewayInv` | the same | |
| `VirtioProofs!CallGetsOwnAnswer` | `OwnAnswer` | ring size and width of the indices | |
| `VirtioProofs!QueuesInOrder` | `VirtioInv` | the same | |
| `MemoryProofs!FramesApart` | `MemoryInv` | heap, page, stack and table sizes, agents, programs | |
| `MemoryProofs!PagesPrivate` | `CowPrivate` | the same | |
| `MemoryProofs!ProgramsWhole` | `LoadedImage` | the same | |
| `MemoryProofs!FaultsMended` | `FaultMended` | the same | |

### What is assumed

The named ASSUMEs on constants: `CapacityAssumption`, `KeepsAssumption`,
`OpsAssumption`, `InitedAssumption` (mailboxes), `SizeAssumption`,
`BootAssumption`, `ProgramAssumption` (scheduler), `RamfsAssumption`,
`PersistAssumption`, `SessionSizes`, `AuditSizes`, `GatewayAssumption`,
`VirtioSizes`, `MemorySizes`. They say that sizes are numbers, that text is a
sequence, that seeded files have different paths, and how the limits of the code
relate: an audit log has room for its kept lines, the mark and one more; a line
and two summaries fit the session quota; a ring is shorter than its index range.

The conditions of the table, which the code does not enforce:

* `Serialized`: the lock was initialised before the harts ran and no box is
  re-initialised, or there is one hart.
* `InitSpawns`: only init creates agents, nobody is destroyed, init sends no
  message before the scheduler runs, and the agents of the boot live on hart 0.
  This is what the SMP build does.
* `FirstUseAlone`: no hart is about to initialise the scheduler's lock while another
  is in the section it protects (`OrderedSpec`).
* `OneHart`: one hart, and no agent destroys itself.
* At most two harts: a hart that shuts the machine down from `schedule_trap`
  releases the lock twice; the second release may be another hart's lock, and
  the argument that nobody enters then counts the harts.
* `ContentsFit`: no write is refused for its size (see `MCOversize` below).

### The inductive invariants

*Msgbox.* Mutual exclusion is not inductive: the invariant adds where a hart with
the lock can be (`Control`) and that the lock is taken exactly then (`LockInv`).
`RingInv` adds the relation of tail and count at each statement inside an
operation. The refinement maps each ring to the queue it holds, where an
operation part way through has not taken effect; its lemmas are about the ring
order under push and pop modulo the capacity.

*Sched.* No double run holds because an agent is run only by its home hart.
`HomeInv` says that the current agent, the picked one and all queued ones are at
home where they are, that only init on hart 0 is inside `agent_create`, and that
a slot whose home is still to be set is used by nobody. `RunInv` adds to it and
to the lock where a RUNNABLE agent is at each step of a pick, a commit, a notify
and a creation, and that a shutdown finds none; it claims nothing once the
machine is halted. `ContextInv`, for one hart, says that a trapframe holds the
program it was made for, that no two slots share one, and what the hart has
loaded at each statement between two agents.

*Persist.* `Base` (`PersistBase`) says that user files follow the seeded ones in
the table without a gap, that each sector holds what its place in the sequence
of files being saved says up to where the loop is, and that the running checksum
is the sum over these; so an image the boot accepts has each file at the place
where a sync put one. `SavedInv` adds, while nothing is in doubt, that the
device holds an image of `saved` whichever step the next power loss hits: the
sectors a repeated sync rewrites are rewritten with what they hold.

*Gateway.* `GateInv` has one part per file or list. The table: no path in two
slots, text that fits. Audit logs: behind a mark, the newest calls of `trail`; a
log that is missing means that nothing was called or that ramfs is full, and
ramfs never frees a slot. Policy: no tool is denied twice, so that an allow lifts
the only entry and the list is full only with as many tools as the file may
name. Sessions: the log is empty, or its *first line* is at most a summary long
and the rest leaves room for one (`FirstLine`). This is what makes compaction,
which is never checked against the quota, safe: it replaces at least the first
line by a summary, and `ramfs_write` leaves the old bytes behind a shorter text.
An append keeps it because it counts the old log twice. The parts for logs and
sessions are about those no package is installed over and, for sessions, no
storage service writes (`OwnLog`, `OwnSession`). Each tool is shown to be a good
call (`GoodCall`), which keeps all parts and touches only what `MayTouch` allows.

*Virtio.* `RingInv` describes the request queue from the read of the used index to
the end of a call that found the device owing nothing; `PoolInv` which positions of a receive queue hold
which frames, with indices as remainders of positions that only grow.

*Memory.* The steps are of six kinds and each kind keeps `MemInv`: stacks, trap
frames and pages lie below the bump pointer, and nothing above it was ever
written; a page that may be written has its frame to itself; the frame of a
translation the processor keeps is no other writable page's and no other
agent's; the pages of every loaded program are in the shared tables with what
its file says.

### What stays with TLC

* Liveness (`QueueFair`, `HaltsOnTimer`, `CallReturns`, `KeepsReceiving`,
  `PipelineEnds`, `ServicesStop`): out of the prover's reach.
* `CatalogInv`, `RollbackRestores`, `FailureKeepsProgram`: not proved. The
  invariant relates two records, a package and an installed program over up to
  four files, and would need the table lemmas of `GatewayProofs` for a call that
  fails after any of them.
* `QuotasBind`: not proved. It counts the files of an agent's home over the whole
  table, before and after each of the tools that create one.
* `NetInv`, `AnswerRight`, `ConnectionReleased`, `AnswersRight`, `ServicesInv`: not
  proved. They hold of particular calls and particular agents' programs, not for
  every value of a constant, so that a proof would say little more than the run.
* What a recursive definition computes for every input needs induction with an
  operator as parameter, which these provers cannot instantiate. Loops are met
  another way: a loop is a recursive *function*, a lemma proves with
  well-founded sets that the function exists and takes its steps, and a second
  one that a *set* of turns that has the first and with each the next has all.
  The pages and segments of the loader, `policy_load` and `line_start_at` are
  proved like this; the positions and checksums of the files of a sync are chosen
  functions that are shown to exist in the same way.

## Seen and not listed as runs

These were found with TLC on the modules as they are, by changing one
configuration or leaving out the condition a property names.

Mailboxes and scheduler:

* `BoxExclusion`, `Spec` instead of `OrderedSpec`: two harts make the first call of
  the system together; the one that initialises the lock late releases it under
  the other (11 states).
* `Linearizable`, the same with the lock initialised: `msgbox_init` takes no lock
  and resets tail and count between the two updates of a push, which leaves a
  count of one with the tail at zero.
* `NoDoubleRun`, `Spawners` all slots, no messages: an agent on hart 1 recycles the
  slot of init; it is RUNNABLE before its home moves, and both harts run it.
* `LockExclusion`, `Spec` instead of `OrderedSpec`: both harts find the lock
  uninitialised; one initialises and takes it, the other initialises it again,
  which frees it, and both pick (12 states).
* `OwnContext` and `GoneNeverRuns`, one hart with `destroy_self` among the calls: an
  agent that destroys itself goes on in user mode until its next call (5 states),
  and a creation may use its slot meanwhile.
* `QueueFair` without its condition on the timer: before the first YIELD or EXIT
  returns, and always on the hart that does not have the timer, a program that
  never makes a call keeps its hart.
* `GoneNeverRuns`, two harts: a notify tests for ZOMBIE before the exit of its
  target and writes RUNNABLE after it.
* `OwnContext`, two harts: a worker exits on hart 1; before that hart is in the
  scheduler, init on hart 0 recycles the slot. Hart 1 finds its own slot
  RUNNABLE, picks it as an agent that goes on, and returns to the program that
  exited. It takes three creations.
* `EveryAgentRuns`, one hart, `Started` `TwoServices`: an agent with unread mail is
  picked before queued agents for ever.
* `HaltsWhenDone`: with one hart `kernel_sched_ready` stays 0 and the shutdown path
  is never taken. With two, the last worker kicks hart 0 between its last test
  and `smp_ipi_clear` on entry to `smp_cpu_wait`: the kick is lost, hart 1 has
  the timer, hart 0 sleeps for ever. `HaltsOnTimer` excludes this case.

Files:

* `RestoresLastSync`, `Contents` `MCOversize`: a write refused for its size leaves
  an empty file, and the synced image is accepted by no later boot.
* `RestoredFromOneSync`: the checksum does not cover paths. A sync rewrites the
  first meta sector with another path and the same contents and is cut there;
  the boot accepts the image.
* `FreshOnFailure`: `kernel_persist2.c` reports "using fresh ramfs" when a load
  fails, but the files restored before the failure stay, and the next sync
  replaces the image by them.
* AOS1 images carry no checksum. When the load of one fails with a device error
  and a later sync is cut short, the next boot reads the mix of old and new
  sectors as files and migrates it. So `RestoredFilesWhole` speaks of AOS2
  images only, and the migration of an image in doubt counts as a sync of what
  the boot has read: neither it nor `RestoresLastSync` says anything about that
  mix.
* `FailureKeepsProgram` without its exception: without a record of the version in
  force, and with one free slot, which the backup takes, `catalog_install` applies
  the package and answers ENOSPC from `catalog_set_active` (2 states). No record
  says what was installed, and `catalog_rollback` finds nothing to go back to.
* `AuditTrail` and `OwnFilesOnly` without their conditions on packages: `ota_apply_package`
  and `catalog_install` write wherever the package says, an audit log or another
  agent's home included, and test no quota on files.
* `RollbackRestores` without its condition: the two records of the catalog hold one
  line. Installing a second program drops the first one's (4 states).

Memory:

* `CowPrivate` without `loose`: `vm_heap_cow_alias` flushes nothing, and a store
  through a writable translation the processor kept changes both pages.
* `LoadsIntoOwnTables`: `docs/SYSCALL.md` gives each loaded agent its own page
  tables; programs lie in tables all agents share, and a second load of a
  program finds its pages mapped and fails.

Devices:

* `OwnAnswer` with `clean` taken when the request is submitted: a transfer times out,
  the next one skips what the device has used so far, the late completion comes,
  and the new request is submitted after it. The wait ends at once with the old
  completion (12 states).
* A frame not longer than its header keeps its buffer: `KeepsReceiving` fails without
  its condition on the number of runts.

Network:

* `LlmReturns`: the loop of the TLS handshake has no limit and takes every failure
  to read for a reason to wait, so a model query never returns when the peer
  falls silent.
* `AnswerRight` without `disorder`, `NameRight` without `late`: segments are appended
  without comparing sequence numbers, a FIN that carries data clears it, and all
  DNS queries have one identifier.
* `ConnectionReleased` without its exception: `net_http_get` looks at the port when it
  makes up the request, after it has connected, and returns EINVAL for port zero
  without closing. `tcp_connect` returns EIO and leaves the connection waiting when
  the SYN was not sent in time; the answer to it, polled while a later call
  resolves another station, establishes it. The next `tcp_connect` drops either.
* `Reachable` for the gateway itself: `arp_resolve` remembers it for ever, `ip_send`
  only the station resolved last.
* The scan of the options in a DHCP answer starts at the cookie, so the lease is
  not found and the static address is used.

Services:

* `CallReturns` and `PipelineEnds` without the first case of `Hogged`: `/compact` leaves
  a summary in the console's mailbox, where it stays while the console polls for a
  line. `pick_next` prefers it to every agent without mail: after `/run orch` the
  planner never starts, or the worker never sends its request, until someone types
  a command that makes a call.
* `CallReturns` without the second case of `Hogged`: a message that is not the
  awaited answer goes to the deferred slot and is taken from it again at once, so the call never looks
  at its mailbox. `/compact`, which leaves a summary in the console's mailbox,
  followed by `/echo` is enough, and so is steering the display. Then the answer
  waits in the mailbox, and the caller is preferred to agents without mail too.
* `/quit orch` typed while a pipeline runs is taken by the loop of
  `orch_run_pipeline` and dropped: init and the services never stop.
* `PipelineEnds` without `lost`: the planner's last message finds init's queue full.
* The edge kernel never finishes its demo: `llm_worker` asks the backend `faux`,
  which answers "ok" to any prompt that is not one of its two sums, and init
  expects "High temperature" and exits.
* The production network service answers `err:quota` to its last allowed request
  if that one fails.

Read in the code and left out of the properties: quota counters are not
reset when a slot is used again; `policy_load` drops rules beyond
`POLICY_DENY_MAX`; `ramfs`, the page table pool and the network statics have no
lock, and the models have one caller at a time; `url_to_cache_path` maps
different URLs to one path, which `CachePath` excludes.

## Not modelled

* x86 paging: `CR0.PG` is never set, so no translation ever happens.
* The start of the secondary harts, device registers and PCI capabilities,
  drawing, printing, line editing, the text of JSON lines and help.
* mbedtls and all cryptography: checksums, hashes and signatures do not collide.
* The fixed order of tool calls in the demos of one agent: the tools are actions
  that come in any order.
* Weak memory: the harts are sequentially consistent.
* Concurrency inside `Gateway`, `Catalog`, `Memory` and `Net`: the kernels that use
  them run these calls on one hart.

Proofs that would come next: the invariants of `Catalog`, `LockExclusion` for
any number of harts, and `CallServed` of `Services` while callers do not overlap.
