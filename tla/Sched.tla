-------------------------------- MODULE Sched --------------------------------
(* kernel/sched.c with the life cycle of kernel/agent.c, the trap entry and  *)
(* exit of arch/riscv/trap_handler.c and the waiting and kicking of smp.c:   *)
(* every hart runs user programs, traps, and multiplexes the agent slots.    *)
(* The steps are cut where another hart can see a half-done update: the      *)
(* critical section of schedule_trap at its pick and its commit, agent_create*)
(* at each unlocked publication, sched_notify_runnable at its unlocked test. *)
EXTENDS Integers, Sequences, FiniteSets

CONSTANTS
    MAX_AGENTS,      \* slots 0..MAX_AGENTS-1; slot 0 is never allocated
    NCPU,            \* online harts; hart 0 is the boot hart
    Started,         \* the services kmain started, in order
    Ops,             \* the system calls programs make besides yield
    Spawners,        \* the slots whose programs hold CAP_SPAWN
    SendsEarly,      \* may a program send to an id before its create returned
    INBOX_CAPACITY,  \* bound on a mailbox
    MAX_SENDS,       \* bound on messages sent
    MAX_PROGS        \* bound on programs ever started

Slots == 0..MAX_AGENTS - 1
Harts == 0..NCPU - 1
InitSlot == 1
NoAgent == -1
NoCpu == -1
NoFrame == 0
Progs == 1..MAX_PROGS
AllOps == {"exit", "send", "recv", "create", "destroy", "destroy_self"}

ASSUME SizeAssumption ==
    /\ MAX_AGENTS \in Nat /\ MAX_AGENTS > 1
    /\ NCPU \in Nat /\ NCPU > 0
    /\ MAX_PROGS \in Nat /\ MAX_PROGS >= MAX_AGENTS - 1
    /\ INBOX_CAPACITY \in Nat /\ MAX_SENDS \in Nat
ASSUME BootAssumption ==
    /\ Started \in Seq(Slots \ {0, InitSlot})
    /\ \A i, j \in 1..Len(Started) : Started[i] = Started[j] => i = j
ASSUME ProgramAssumption ==
    /\ Ops \subseteq AllOps /\ Spawners \subseteq Slots
    /\ SendsEarly \in BOOLEAN

VARIABLES
    state, home_cpu, running_cpu, inbox,  \* fields of agents[s]; inbox: count
    tf,           \* tf[s]: the trapframe agents[s].tf points to
    frame,        \* frame[f]: the program whose registers trapframe f holds
    progs,        \* programs started so far; each has the frame of its number
    gone,         \* programs that have called agent_exit or were destroyed
    sent,         \* messages sent so far
    cpu_current, cpu_rq, rr_next, sched_lock, sched_lock_inited, kernel_sched_ready,
    ipi,          \* ipi[h]: software interrupt pending
    timer,        \* the hart whose timer interrupts are enabled
    pc,           \* pc[h]: what hart h does next
    code,         \* code[h]: the program in its registers or trapped on it
    arg           \* arg[h]: the agent its kernel code works on (id, target, next)

agentVars == <<state, home_cpu, running_cpu>>
frameVars == <<tf, frame, progs>>
schedVars == <<cpu_rq, rr_next, sched_lock>>
onceVars == <<sched_lock_inited, kernel_sched_ready, timer>>
vars == <<state, home_cpu, running_cpu, inbox, tf, frame, progs, gone, sent,
          cpu_current, cpu_rq, rr_next, sched_lock, sched_lock_inited,
          kernel_sched_ready, ipi, timer, pc, code, arg>>

Goto(h, label) == pc' = [pc EXCEPT ![h] = label]
IsStarted(s) == \E i \in 1..Len(Started) : Started[i] = s

-----------------------------------------------------------------------------
(* The system as kmain leaves it (agent_init, agent_start_kernel,            *)
(* agent_start_service): every home is hart 0, init CREATED, the services    *)
(* queued, hart 0 about to call scheduler_run_first and the others in        *)
(* sched_cpu_run_loop.  The sched_notify_runnable of a started service is    *)
(* the first use of the lock; without services, as in the SMP build, nobody  *)
(* has used it yet.                                                          *)
Init ==
    /\ state = [s \in Slots |-> IF s = InitSlot THEN "CREATED"
                                ELSE IF IsStarted(s) THEN "RUNNABLE"
                                ELSE "UNUSED"]
    /\ home_cpu = [s \in Slots |-> 0]
    /\ running_cpu = [s \in Slots |-> NoCpu]
    /\ inbox = [s \in Slots |-> 0]
    /\ tf = [s \in Slots |-> IF s = InitSlot \/ IsStarted(s) THEN s ELSE NoFrame]
    /\ frame = [f \in Progs |-> f]
    /\ progs = MAX_AGENTS - 1
    /\ gone = {}
    /\ sent = 0
    /\ cpu_current = [h \in Harts |-> NoAgent]
    /\ cpu_rq = [h \in Harts |-> IF h = 0 THEN Started ELSE <<>>]
    /\ rr_next = 0
    /\ sched_lock = FALSE
    /\ sched_lock_inited = (Len(Started) > 0)
    /\ kernel_sched_ready = FALSE /\ timer = NoCpu
    /\ ipi = [h \in Harts |-> FALSE]
    /\ pc = [h \in Harts |-> IF h = 0 THEN "boot" ELSE "once"]
    /\ code = [h \in Harts |-> InitSlot]
    /\ arg = [h \in Harts |-> InitSlot]

(* scheduler_run_first: sched_start when several harts are online; only      *)
(* sched_start sets kernel_sched_ready.                                      *)
scheduler_run_first(h) ==
    /\ pc[h] = "boot"
    /\ kernel_sched_ready' = (NCPU > 1)
    /\ home_cpu' = [home_cpu EXCEPT ![InitSlot] = IF NCPU > 1 THEN 0 ELSE @]
    /\ running_cpu' = [running_cpu EXCEPT ![InitSlot] = h]
    /\ state' = [state EXCEPT ![InitSlot] = "RUNNING"]
    /\ cpu_current' = [cpu_current EXCEPT ![h] = InitSlot]
    /\ Goto(h, "switch")
    /\ UNCHANGED <<inbox, frameVars, gone, sent, schedVars, sched_lock_inited, ipi,
                   timer, code, arg>>

-----------------------------------------------------------------------------
(* The helpers of sched.c.                                                   *)
(* Slip: a ZOMBIE slot with mail left counts as runnable.                    *)
SelectableZombie(s) == state[s] \notin {"UNUSED", "CREATED", "RUNNING"}

sched_agent_selectable(s) ==
    state[s] \notin {"UNUSED", "ZOMBIE", "CREATED", "RUNNING"}
sched_agent_has_inbox(s) == state[s] \notin {"UNUSED", "ZOMBIE", "CREATED"}

InQueue(q, s) == \E i \in 1..Len(q) : q[i] = s
(* Slip: the agent is put in front of those that wait.                       *)
RqAddInFront(q, s) == IF InQueue(q, s) THEN q ELSE <<s>> \o q

sched_rq_add_locked(q, s) ==
    IF InQueue(q, s) \/ Len(q) >= MAX_AGENTS THEN q ELSE Append(q, s)
(* The first entry with this id goes, the later ones move up.                *)
sched_rq_remove_locked(q, s) ==
    IF ~InQueue(q, s) THEN q
    ELSE LET i == CHOOSE k \in 1..Len(q) :
                    q[k] = s /\ \A j \in 1..k - 1 : q[j] # s
         IN  [j \in 1..Len(q) - 1 |-> IF j < i THEN q[j] ELSE q[j + 1]]

sched_has_runnable ==
    \E s \in Slots : /\ sched_agent_selectable(s)
                     /\ state[s] = "RUNNABLE" \/ inbox[s] > 0
sched_system_done ==
    /\ \A s \in Slots \ {0} : state[s] \in {"UNUSED", "ZOMBIE"}
    /\ ~sched_has_runnable

smp_kick_others(h) == ipi' = [k \in Harts |-> ipi[k] \/ k # h]

(* kernel_halt shuts the machine down.                                       *)
kernel_halt == pc' = [k \in Harts |-> "halted"]

(* trapframe_store: the registers go to the frame the slot points to now.    *)
trapframe_store(h) ==
    LET s == cpu_current[h]
    IN  frame' = IF s = NoAgent \/ tf[s] = NoFrame THEN frame
                 ELSE [frame EXCEPT ![tf[s]] = code[h]]

-----------------------------------------------------------------------------
(* schedule_trap, and sched_cpu_run_loop, which is the same loop on a hart   *)
(* that has no current agent.                                                *)

(* sched_lock_init_once, on the way to the lock from schedule_trap or        *)
(* sched_cpu_run_loop ("once") and from sched_notify_runnable: three         *)
(* statements that nothing makes one.  The flag is never cleared, so a test  *)
(* that is bound to find it set is no step of its own (IfInited).            *)
IfInited(label, once) == IF sched_lock_inited THEN label ELSE once

TestInited(h) ==
    /\ pc[h] \in {"once", "notify_once"}
    /\ Goto(h, IF pc[h] = "once" THEN IfInited("acquire", "lock_init")
                                 ELSE IfInited("notify_lock", "notify_init"))
    /\ UNCHANGED <<agentVars, inbox, frameVars, gone, sent, cpu_current,
                   schedVars, onceVars, ipi, code, arg>>
spinlock_init(h) ==
    /\ pc[h] \in {"lock_init", "notify_init"}
    /\ sched_lock' = FALSE
    /\ Goto(h, IF pc[h] = "lock_init" THEN "set_inited" ELSE "notify_set")
    /\ UNCHANGED <<agentVars, inbox, frameVars, gone, sent, cpu_current, cpu_rq,
                   rr_next, onceVars, ipi, code, arg>>
SetInited(h) ==
    /\ pc[h] \in {"set_inited", "notify_set"}
    /\ sched_lock_inited' = TRUE
    /\ Goto(h, IF pc[h] = "set_inited" THEN "acquire" ELSE "notify_lock")
    /\ UNCHANGED <<agentVars, inbox, frameVars, gone, sent, cpu_current,
                   schedVars, kernel_sched_ready, timer, ipi, code, arg>>
sched_lock_init_once(h) == TestInited(h) \/ spinlock_init(h) \/ SetInited(h)

(* Slip: the lock word is set without looking at its old value.              *)
RequeueUntested(h) ==
    /\ pc[h] = "acquire"
    /\ sched_lock' = TRUE
    /\ trapframe_store(h)
    /\ Goto(h, "pick")
    /\ UNCHANGED <<agentVars, inbox, tf, progs, gone, sent, cpu_current, cpu_rq,
                   rr_next, onceVars, ipi, code, arg>>

(* Take the lock, save the trapped registers, requeue the current agent.     *)
Requeue(h) ==
    /\ pc[h] = "acquire" /\ ~sched_lock
    /\ sched_lock' = TRUE
    /\ trapframe_store(h)
    /\ LET s == cpu_current[h] IN
       IF s # NoAgent /\ state[s] = "RUNNING"
       THEN /\ state' = [state EXCEPT ![s] = "RUNNABLE"]
            /\ running_cpu' = [running_cpu EXCEPT ![s] = NoCpu]
            /\ cpu_rq' = [cpu_rq EXCEPT ![home_cpu[s]] =
                                        sched_rq_add_locked(@, s)]
       ELSE UNCHANGED <<state, running_cpu, cpu_rq>>
    /\ Goto(h, "pick")
    /\ UNCHANGED <<home_cpu, inbox, tf, progs, gone, sent, cpu_current, rr_next,
                   onceVars, ipi, code, arg>>

(* Slip: an agent with mail is taken whatever its home hart is.              *)
MailSlotsAnyHome(h) == {s \in Slots : sched_agent_has_inbox(s) /\ inbox[s] > 0}

(* pick_next, first loop: the lowest slot of this hart that has mail.        *)
MailSlots(h) == {s \in Slots : /\ sched_agent_has_inbox(s)
                               /\ home_cpu[s] = h /\ inbox[s] > 0}
PickMail(h) ==
    /\ pc[h] = "pick"
    /\ \E s \in MailSlots(h) :
         /\ \A t \in MailSlots(h) : s <= t
         /\ state' = [state EXCEPT ![s] = "RUNNABLE"]
         /\ running_cpu' = [running_cpu EXCEPT ![s] = NoCpu]
         /\ arg' = [arg EXCEPT ![h] = s]
    /\ Goto(h, "commit")
    /\ UNCHANGED <<home_cpu, inbox, frameVars, gone, sent, cpu_current,
                   schedVars, onceVars, ipi, code>>

(* pick_from_runqueues: the first entry of the queue that is runnable; the   *)
(* home of the slot is not looked at.                                        *)
Eligible(h) == {i \in 1..Len(cpu_rq[h]) :
                  /\ state[cpu_rq[h][i]] = "RUNNABLE"
                  /\ running_cpu[cpu_rq[h][i]] < 0}
PickQueued(h) ==
    /\ pc[h] = "pick" /\ MailSlots(h) = {}
    /\ \E i \in Eligible(h) : /\ \A j \in Eligible(h) : i <= j
                              /\ arg' = [arg EXCEPT ![h] = cpu_rq[h][i]]
    /\ Goto(h, "commit")
    /\ UNCHANGED <<agentVars, inbox, frameVars, gone, sent, cpu_current,
                   schedVars, onceVars, ipi, code>>

(* pick_next, last loop: a runnable slot of this hart from rr_next round.    *)
ScanSlots(h) == {s \in Slots : /\ sched_agent_selectable(s)
                               /\ home_cpu[s] = h /\ state[s] = "RUNNABLE"}
Turn(s) == (s + MAX_AGENTS - rr_next) % MAX_AGENTS
(* Slip: rr_next is not wrapped.                                             *)
PickScannedUnwrapped(h) ==
    /\ pc[h] = "pick" /\ MailSlots(h) = {} /\ Eligible(h) = {}
    /\ \E s \in ScanSlots(h) : /\ \A t \in ScanSlots(h) : Turn(s) <= Turn(t)
                               /\ arg' = [arg EXCEPT ![h] = s]
                               /\ rr_next' = s + 1
    /\ Goto(h, "commit")
    /\ UNCHANGED <<agentVars, inbox, frameVars, gone, sent, cpu_current, cpu_rq,
                   sched_lock, onceVars, ipi, code>>

PickScanned(h) ==
    /\ pc[h] = "pick" /\ MailSlots(h) = {} /\ Eligible(h) = {}
    /\ \E s \in ScanSlots(h) : /\ \A t \in ScanSlots(h) : Turn(s) <= Turn(t)
                               /\ arg' = [arg EXCEPT ![h] = s]
                               /\ rr_next' = (s + 1) % MAX_AGENTS
    /\ Goto(h, "commit")
    /\ UNCHANGED <<agentVars, inbox, frameVars, gone, sent, cpu_current, cpu_rq,
                   sched_lock, onceVars, ipi, code>>

NothingToPick(h) == MailSlots(h) = {} /\ Eligible(h) = {} /\ ScanSlots(h) = {}

(* Nothing to run: release the lock and wait.                                *)
PickNone(h) ==
    /\ pc[h] = "pick" /\ NothingToPick(h)
    /\ ~(kernel_sched_ready /\ sched_system_done)
    /\ sched_lock' = FALSE
    /\ Goto(h, "wait")
    /\ UNCHANGED <<agentVars, inbox, frameVars, gone, sent, cpu_current, cpu_rq,
                   rr_next, onceVars, ipi, code, arg>>

(* Nothing will ever run: release the lock; schedule_trap releases it twice. *)
PickDone(h) ==
    /\ pc[h] = "pick" /\ NothingToPick(h)
    /\ kernel_sched_ready /\ sched_system_done
    /\ sched_lock' = FALSE
    /\ Goto(h, IF cpu_current[h] = NoAgent THEN "done" ELSE "release_again")
    /\ UNCHANGED <<agentVars, inbox, frameVars, gone, sent, cpu_current, cpu_rq,
                   rr_next, onceVars, ipi, code, arg>>

ReleaseAgain(h) ==
    /\ pc[h] = "release_again"
    /\ sched_lock' = FALSE
    /\ Goto(h, "done")
    /\ UNCHANGED <<agentVars, inbox, frameVars, gone, sent, cpu_current, cpu_rq,
                   rr_next, onceVars, ipi, code, arg>>

sched_halt_if_done(h) ==
    /\ pc[h] = "done"
    /\ IF h = 0 THEN kernel_halt ELSE Goto(h, "parked")
    /\ UNCHANGED <<agentVars, inbox, frameVars, gone, sent, cpu_current,
                   schedVars, onceVars, ipi, code, arg>>

(* Slip: the registers are saved after the current agent has been changed.   *)
CommitSavesLate(h) ==
    LET s == arg[h] IN
    /\ pc[h] = "commit"
    /\ cpu_current' = [cpu_current EXCEPT ![h] = s]
    /\ state' = [state EXCEPT ![s] = "RUNNING"]
    /\ running_cpu' = [running_cpu EXCEPT ![s] = h]
    /\ cpu_rq' = [cpu_rq EXCEPT ![home_cpu[s]] = sched_rq_remove_locked(@, s)]
    /\ sched_lock' = FALSE
    /\ frame' = [frame EXCEPT ![tf[s]] = code[h]]
    /\ Goto(h, "sret")
    /\ UNCHANGED <<home_cpu, inbox, tf, progs, gone, sent, rr_next, onceVars,
                   ipi, code, arg>>

(* Make the picked slot current and release the lock.                        *)
Commit(h) ==
    LET s == arg[h] IN
    /\ pc[h] = "commit"
    /\ cpu_current' = [cpu_current EXCEPT ![h] = s]
    /\ state' = [state EXCEPT ![s] = "RUNNING"]
    /\ running_cpu' = [running_cpu EXCEPT ![s] = h]
    /\ cpu_rq' = [cpu_rq EXCEPT ![home_cpu[s]] = sched_rq_remove_locked(@, s)]
    /\ sched_lock' = FALSE
    /\ IF tf[s] = NoFrame THEN kernel_halt
       ELSE Goto(h, IF cpu_current[h] = NoAgent THEN "switch" ELSE "sret")
    /\ UNCHANGED <<home_cpu, inbox, frameVars, gone, sent, rr_next,
                   onceVars, ipi, code, arg>>

(* The return to user mode: next->tf is read after the lock is released and  *)
(* the registers are loaded from it.                                         *)
LoadFrame(h) ==
    LET f == tf[cpu_current[h]] IN
    IF f = NoFrame THEN kernel_halt /\ UNCHANGED code
    ELSE Goto(h, "user") /\ code' = [code EXCEPT ![h] = frame[f]]
switch_to_agent(h) ==
    /\ pc[h] = "switch"
    /\ LoadFrame(h)
    /\ UNCHANGED <<agentVars, inbox, frameVars, gone, sent, cpu_current,
                   schedVars, onceVars, ipi, arg>>
(* On the way out of a yield or an exit the first hart to get here arms its  *)
(* timer; on the way out of a fatal page fault nobody does.                  *)
maybe_arm_timer(h) == timer' = timer \/ (timer = NoCpu /\ timer' = h)
sret(h) ==
    /\ pc[h] = "sret"
    /\ LoadFrame(h)
    /\ maybe_arm_timer(h)
    /\ UNCHANGED <<agentVars, inbox, frameVars, gone, sent, cpu_current,
                   schedVars, sched_lock_inited, kernel_sched_ready, ipi, arg>>

-----------------------------------------------------------------------------
(* smp_cpu_wait: clear the pending interrupt, poll for runnable agents, then *)
(* sleep until an interrupt.                                                 *)
EnterWait(h) ==
    /\ pc[h] = "wait"
    /\ ipi' = [ipi EXCEPT ![h] = FALSE]
    /\ Goto(h, "poll")
    /\ UNCHANGED <<agentVars, inbox, frameVars, gone, sent, cpu_current,
                   schedVars, onceVars, code, arg>>

Poll(h) ==
    /\ pc[h] = "poll"
    /\ Goto(h, IF sched_has_runnable THEN "acquire" ELSE "wfi")
    /\ UNCHANGED <<agentVars, inbox, frameVars, gone, sent, cpu_current,
                   schedVars, onceVars, ipi, code, arg>>

Wakeup(h) ==
    /\ pc[h] = "wfi" /\ ipi[h]
    /\ ipi' = [ipi EXCEPT ![h] = FALSE]
    /\ Goto(h, "acquire")
    /\ UNCHANGED <<agentVars, inbox, frameVars, gone, sent, cpu_current,
                   schedVars, onceVars, code, arg>>

(* The timer wakes the hart that armed it.                                   *)
TimerWakeup(h) ==
    /\ pc[h] = "wfi" /\ timer = h
    /\ Goto(h, "acquire")
    /\ UNCHANGED <<agentVars, inbox, frameVars, gone, sent, cpu_current,
                   schedVars, onceVars, ipi, code, arg>>

(* trap_handler, SCAUSE_SSI: a kick that arrives in user mode.               *)
SsiTrap(h) ==
    /\ pc[h] = "user" /\ ipi[h]
    /\ ipi' = [ipi EXCEPT ![h] = FALSE]
    /\ UNCHANGED <<agentVars, inbox, frameVars, gone, sent, cpu_current,
                   schedVars, onceVars, pc, code, arg>>

-----------------------------------------------------------------------------
(* System calls.  trap_handler copies the registers of the trapped program;  *)
(* a call that does not reschedule ends in SyscallReturn.                    *)
(* SYS_AGENT_YIELD, at the program's will, and a timer interrupt in user     *)
(* mode, which comes on the hart that armed the timer.                       *)
Yield(h) ==
    /\ pc[h] = "user"
    /\ trapframe_store(h)
    /\ Goto(h, IfInited("acquire", "once"))
    /\ UNCHANGED <<agentVars, inbox, tf, progs, gone, sent, cpu_current,
                   schedVars, onceVars, ipi, code, arg>>
TimerTrap(h) == timer = h /\ Yield(h)

(* SYS_AGENT_EXIT, and a fatal page fault in user mode.                      *)
agent_exit(h) ==
    /\ pc[h] = "user" /\ "exit" \in Ops
    /\ LET s == cpu_current[h] IN
       /\ state' = [state EXCEPT ![s] = "ZOMBIE"]
       /\ running_cpu' = [running_cpu EXCEPT ![s] = NoCpu]
    /\ gone' = gone \cup {code[h]}
    /\ smp_kick_others(h)
    /\ trapframe_store(h)
    /\ Goto(h, IfInited("acquire", "once"))
    /\ UNCHANGED <<home_cpu, inbox, tf, progs, sent, cpu_current, schedVars,
                   onceVars, code, arg>>

(* Any call that changes nothing here: errors, EAGAIN, the other calls.      *)
PlainCall(h) ==
    /\ pc[h] = "user"
    /\ Goto(h, "sysret")
    /\ UNCHANGED <<agentVars, inbox, frameVars, gone, sent, cpu_current,
                   schedVars, onceVars, ipi, code, arg>>

(* A program knows an id once the agent_create that made it has returned.    *)
Creating(s) == \E k \in Harts : /\ arg[k] = s
                               /\ pc[k] \in {"setup", "publish", "place"}
(* agent_send: a full mailbox is an error; a ZOMBIE slot is a valid target.  *)
agent_send(h, d) ==
    /\ pc[h] = "user" /\ "send" \in Ops /\ sent < MAX_SENDS
    /\ state[d] # "UNUSED" /\ (SendsEarly \/ ~Creating(d))
    /\ inbox[d] < INBOX_CAPACITY
    /\ inbox' = [inbox EXCEPT ![d] = @ + 1]
    /\ sent' = sent + 1
    /\ arg' = [arg EXCEPT ![h] = d]
    /\ Goto(h, "notify")
    /\ UNCHANGED <<agentVars, frameVars, gone, cpu_current, schedVars,
                   onceVars, ipi, code>>

agent_recv(h) ==
    /\ pc[h] = "user" /\ "recv" \in Ops
    /\ LET s == cpu_current[h] IN
       /\ inbox[s] > 0
       /\ inbox' = [inbox EXCEPT ![s] = @ - 1]
    /\ Goto(h, "sysret")
    /\ UNCHANGED <<agentVars, frameVars, gone, sent, cpu_current, schedVars,
                   onceVars, ipi, code, arg>>

(* agent_destroy: only the state changes, without the lock.                  *)
agent_destroy(h, d) ==
    /\ pc[h] = "user"
    /\ (IF d = cpu_current[h] THEN "destroy_self" ELSE "destroy") \in Ops
    /\ state[d] # "UNUSED"
    /\ state' = [state EXCEPT ![d] = "ZOMBIE"]
    /\ gone' = gone \cup ({tf[d]} \ {NoFrame})
    /\ Goto(h, "sysret")
    /\ UNCHANGED <<home_cpu, running_cpu, inbox, frameVars, sent, cpu_current,
                   schedVars, onceVars, ipi, code, arg>>

-----------------------------------------------------------------------------
(* Slip: a ZOMBIE is woken like any other agent.                             *)
NotifyTestNothing(h) ==
    /\ pc[h] = "notify"
    /\ Goto(h, IfInited("notify_lock", "notify_once"))
    /\ UNCHANGED <<agentVars, inbox, frameVars, gone, sent, cpu_current,
                   schedVars, onceVars, ipi, code, arg>>

(* sched_notify_runnable: the test for ZOMBIE is made before the lock is     *)
(* taken.                                                                    *)
NotifyTest(h) ==
    /\ pc[h] = "notify"
    /\ Goto(h, IF state[arg[h]] = "ZOMBIE" THEN "sysret"
               ELSE IfInited("notify_lock", "notify_once"))
    /\ UNCHANGED <<agentVars, inbox, frameVars, gone, sent, cpu_current,
                   schedVars, onceVars, ipi, code, arg>>

(* Slip: the state is set but the agent is not queued.                       *)
NotifyUnqueued(h) ==
    /\ pc[h] = "notify_lock" /\ ~sched_lock
    /\ state' = [state EXCEPT ![arg[h]] = "RUNNABLE"]
    /\ running_cpu' = [running_cpu EXCEPT ![arg[h]] = NoCpu]
    /\ smp_kick_others(h)
    /\ Goto(h, "sysret")
    /\ UNCHANGED <<home_cpu, inbox, frameVars, gone, sent, cpu_current,
                   schedVars, onceVars, code, arg>>

Notify(h) ==
    LET s == arg[h] IN
    /\ pc[h] = "notify_lock" /\ ~sched_lock
    /\ state' = [state EXCEPT ![s] = "RUNNABLE"]
    /\ running_cpu' = [running_cpu EXCEPT ![s] = NoCpu]
    /\ cpu_rq' = [cpu_rq EXCEPT ![home_cpu[s]] = sched_rq_add_locked(@, s)]
    /\ smp_kick_others(h)
    /\ Goto(h, "sysret")
    /\ UNCHANGED <<home_cpu, inbox, frameVars, gone, sent, cpu_current, rr_next,
                   sched_lock, onceVars, code, arg>>

(* agent_create, step by step: agent_alloc_id and the cleared tf of          *)
(* agent_setup_stack; its new trapframe; RUNNABLE; home, running_cpu and     *)
(* mailbox; sched_notify_runnable.                                           *)
Free == {s \in Slots \ {0} : state[s] \in {"UNUSED", "ZOMBIE"}}
agent_alloc_id(h) ==
    /\ pc[h] = "user" /\ "create" \in Ops /\ cpu_current[h] \in Spawners
    /\ progs < MAX_PROGS
    /\ \E s \in Free : /\ \A t \in Free : s <= t
                      /\ arg' = [arg EXCEPT ![h] = s]
                      /\ tf' = [tf EXCEPT ![s] = NoFrame]
    /\ Goto(h, "setup")
    /\ UNCHANGED <<agentVars, inbox, frame, progs, gone, sent, cpu_current,
                   schedVars, onceVars, ipi, code>>

agent_setup_stack(h) ==
    /\ pc[h] = "setup" /\ progs < MAX_PROGS
    /\ progs' = progs + 1
    /\ frame' = [frame EXCEPT ![progs + 1] = progs + 1]
    /\ tf' = [tf EXCEPT ![arg[h]] = progs + 1]
    /\ Goto(h, "publish")
    /\ UNCHANGED <<agentVars, inbox, gone, sent, cpu_current, schedVars,
                   onceVars, ipi, code, arg>>

(* Out of memory before the frame is set, or a bad name after it.            *)
CreateFails(h) ==
    /\ pc[h] \in {"setup", "publish"}
    /\ Goto(h, "sysret")
    /\ UNCHANGED <<agentVars, inbox, frameVars, gone, sent, cpu_current,
                   schedVars, onceVars, ipi, code, arg>>

Publish(h) ==
    /\ pc[h] = "publish"
    /\ state' = [state EXCEPT ![arg[h]] = "RUNNABLE"]
    /\ Goto(h, "place")
    /\ UNCHANGED <<home_cpu, running_cpu, inbox, frameVars, gone, sent,
                   cpu_current, schedVars, onceVars, ipi, code, arg>>

Place(h) ==
    LET s == arg[h] IN
    /\ pc[h] = "place"
    /\ home_cpu' = [home_cpu EXCEPT ![s] = s % NCPU]
    /\ running_cpu' = [running_cpu EXCEPT ![s] = NoCpu]
    /\ inbox' = [inbox EXCEPT ![s] = 0]
    /\ Goto(h, "notify")
    /\ UNCHANGED <<state, frameVars, gone, sent, cpu_current, schedVars,
                   onceVars, ipi, code, arg>>

(* The end of handle_ecall: store the registers, trapframe_sync, resume.     *)
SyscallReturn(h) ==
    /\ pc[h] = "sysret"
    /\ trapframe_store(h)
    /\ IF tf[cpu_current[h]] = NoFrame THEN kernel_halt ELSE Goto(h, "user")
    /\ arg' = [arg EXCEPT ![h] = cpu_current[h]]
    /\ UNCHANGED <<agentVars, inbox, tf, progs, gone, sent, cpu_current,
                   schedVars, onceVars, ipi, code>>

-----------------------------------------------------------------------------
schedule_trap(h) ==
    \/ Requeue(h) \/ PickMail(h) \/ PickQueued(h) \/ PickScanned(h)
    \/ PickNone(h) \/ PickDone(h) \/ ReleaseAgain(h) \/ sched_halt_if_done(h)
    \/ Commit(h) \/ switch_to_agent(h) \/ sret(h)
smp_cpu_wait(h) == EnterWait(h) \/ Poll(h) \/ Wakeup(h) \/ TimerWakeup(h)
sched_notify_runnable(h) == NotifyTest(h) \/ Notify(h)
agent_create(h) == \/ agent_setup_stack(h) \/ CreateFails(h)
                   \/ Publish(h) \/ Place(h)
Kernel(h) == \/ scheduler_run_first(h) \/ schedule_trap(h) \/ smp_cpu_wait(h)
             \/ sched_notify_runnable(h) \/ agent_create(h) \/ SyscallReturn(h)
             \/ sched_lock_init_once(h)
Program(h) == \/ PlainCall(h) \/ agent_exit(h) \/ agent_recv(h)
              \/ agent_alloc_id(h)
              \/ \E d \in Slots : agent_send(h, d) \/ agent_destroy(h, d)

Next == \E h \in Harts : \/ Kernel(h) \/ Yield(h) \/ Program(h)
                        \/ SsiTrap(h)

Spec == Init /\ [][Next]_vars

(* Nothing orders the first uses of the lock: a hart that has found it       *)
(* uninitialised and stops there frees it under whoever has taken it since.  *)
(* The behaviours in which that does not happen: no hart is about to         *)
(* initialise the lock while another is in the section it protects.          *)
FirstUseAlone == \A h, k \in Harts :
    pc[h] \in {"lock_init", "notify_init"} => pc[k] \notin {"pick", "commit"}
OrderedSpec == Init /\ [][Next /\ FirstUseAlone']_vars

(* Kernel code runs on, and once the timer of a hart is armed it catches a   *)
(* program that keeps returning to user mode there.  A program on a hart     *)
(* without timer may keep it: nothing makes it yield.                        *)
Fairness == \A h \in Harts : WF_vars(Kernel(h)) /\ SF_vars(TimerTrap(h))
FairSpec == OrderedSpec /\ Fairness

-----------------------------------------------------------------------------
Labels == {"boot", "once", "lock_init", "set_inited", "notify_once", "notify_init",
           "notify_set", "acquire", "pick", "commit", "release_again", "done",
           "sret", "switch", "wait", "poll", "wfi", "user", "notify", "notify_lock", "setup",
           "publish", "place", "sysret", "halted", "parked"}
States == {"UNUSED", "CREATED", "RUNNABLE", "RUNNING", "ZOMBIE"}

AgentTypes ==
    /\ state \in [Slots -> States] /\ home_cpu \in [Slots -> Harts]
    /\ running_cpu \in [Slots -> Harts \cup {NoCpu}]
    /\ inbox \in [Slots -> Nat] /\ sent \in Nat
FrameTypes ==
    /\ tf \in [Slots -> Progs \cup {NoFrame}] /\ frame \in [Progs -> Progs]
    /\ progs \in 0..MAX_PROGS /\ gone \subseteq Progs
SchedTypes ==
    /\ cpu_current \in [Harts -> Slots \cup {NoAgent}]
    /\ cpu_rq \in [Harts -> Seq(Slots)] /\ rr_next \in Slots
    /\ sched_lock \in BOOLEAN /\ sched_lock_inited \in BOOLEAN
    /\ kernel_sched_ready \in BOOLEAN
    /\ timer \in Harts \cup {NoCpu} /\ ipi \in [Harts -> BOOLEAN]
HartTypes ==
    /\ pc \in [Harts -> Labels] /\ code \in [Harts -> Progs]
    /\ arg \in [Harts -> Slots]

(* The variables have their types: every slot, hart and frame named by the   *)
(* scheduler state exists.                                                   *)
TypeOK == AgentTypes /\ FrameTypes /\ SchedTypes /\ HartTypes

(* No slot is executed by two harts at once: per-CPU run queues and the      *)
(* home_cpu affinity keep an agent on one hart.                              *)
Executing(h, s) == cpu_current[h] = s /\ pc[h] \notin {"once", "lock_init", "set_inited",
                     "acquire", "pick", "commit", "release_again", "done", "wait", "poll",
                     "wfi", "parked", "halted"}
NoDoubleRun == \A s \in Slots : \A h, k \in Harts :
                  Executing(h, s) /\ Executing(k, s) => h = k

(* agent_exit does not return, and a destroyed agent never runs again: the   *)
(* program in user mode is none of those that have gone.                     *)
GoneNeverRuns == \A h \in Harts : pc[h] = "user" => code[h] \notin gone

(* Every program runs in the slot, and with the frame, that agent_create     *)
(* gave it: no context of another program is loaded or saved there.          *)
OwnContext == \A h \in Harts : pc[h] = "user" => code[h] = tf[cpu_current[h]]

(* No agent is forgotten: while the machine runs, outside critical sections  *)
(* a RUNNABLE agent is on the run queue of its home hart unless a notify of  *)
(* it is under way.                                                          *)
RunnableQueued ==
    ~sched_lock /\ pc[0] # "halted" => \A s \in Slots :
        state[s] = "RUNNABLE" =>
            \/ InQueue(cpu_rq[home_cpu[s]], s)
            \/ \E k \in Harts : arg[k] = s /\ pc[k] \in {"place", "notify",
                   "notify_once", "notify_init", "notify_set", "notify_lock"}

(* The scheduler lock excludes: one hart at a time picks and commits,        *)
(* although schedule_trap releases the lock twice on the way to shutdown and *)
(* several harts may find it uninitialised (FirstUseAlone).                  *)
LockExclusion == \A h, k \in Harts :
    pc[h] \in {"pick", "commit"} /\ pc[k] \in {"pick", "commit"} => h = k

(* RUNNABLE agents are scheduled in turn: each of them gets its hart.        *)
EveryAgentRuns == \A s \in Slots :
    state[s] = "RUNNABLE" ~> state[s] # "RUNNABLE"

(* ... once the timer is armed, unless an agent of the same hart has mail    *)
(* waiting.                                                                  *)
QueueFair == \A s \in Slots :
    (state[s] = "RUNNABLE" /\ timer = home_cpu[s])
        ~> (state[s] # "RUNNABLE" \/ MailSlots(home_cpu[s]) # {})

(* When every agent has exited, the boot hart shuts the machine down.        *)
HaltsWhenDone ==
    (\A s \in Slots : state[s] \in {"UNUSED", "ZOMBIE"}) ~> pc[0] = "halted"

(* ... and it does so when the boot hart is the one with the timer.          *)
HaltsOnTimer ==
    (timer = 0 /\ \A s \in Slots : state[s] \in {"UNUSED", "ZOMBIE"})
        ~> pc[0] = "halted"

=============================================================================
