----------------------------- MODULE SchedProofs -----------------------------
(* Proofs about Sched: the types, with the fact that a hart working for an   *)
(* agent has one; that no slot is executed by two harts; and, on one hart,   *)
(* that every program runs with its own trapframe.                           *)
EXTENDS Sched, TLAPS

USE SizeAssumption, BootAssumption, ProgramAssumption

(* The labels of a hart that is in user mode or works for its agent.         *)
Busy == {"sret", "switch", "user", "notify", "notify_once", "notify_init", "notify_set",
         "notify_lock", "setup", "publish", "place", "sysret"}
HasCurrent == \A h \in Harts : pc[h] \in Busy => cpu_current[h] \in Slots

TypeInv == TypeOK /\ HasCurrent

(* sched_rq_add_locked and sched_rq_remove_locked make queues of queues, and *)
(* put nothing into a queue but the agent added.                             *)
LEMMA AddQueue ==
    ASSUME NEW q \in Seq(Slots), NEW s \in Slots
    PROVE  /\ sched_rq_add_locked(q, s) \in Seq(Slots)
           /\ \A t : InQueue(sched_rq_add_locked(q, s), t) => InQueue(q, t) \/ t = s
BY DEF sched_rq_add_locked, InQueue

LEMMA RemoveQueue ==
    ASSUME NEW q \in Seq(Slots), NEW s \in Slots
    PROVE  /\ sched_rq_remove_locked(q, s) \in Seq(Slots)
           /\ \A t : InQueue(sched_rq_remove_locked(q, s), t) => InQueue(q, t)
<1>1. CASE ~InQueue(q, s)
  BY <1>1 DEF sched_rq_remove_locked
<1>2. CASE InQueue(q, s)
  <2> DEFINE i == CHOOSE k \in 1..Len(q) : q[k] = s /\ \A j \in 1..k - 1 : q[j] # s
             r == [j \in 1..Len(q) - 1 |-> IF j < i THEN q[j] ELSE q[j + 1]]
  <2>1. sched_rq_remove_locked(q, s) = r
    BY <1>2 DEF sched_rq_remove_locked
  <2>2. Len(q) - 1 \in Nat
    BY <1>2 DEF InQueue
  <2> HIDE DEF i
  <2>3. r \in [1..Len(q) - 1 -> Slots]
    BY <2>2
  <2>4. r \in Seq(Slots) /\ Len(r) = Len(q) - 1
    BY <2>2, <2>3
  <2>5. \A t : InQueue(r, t) => InQueue(q, t)
    BY <2>2, <2>4 DEF InQueue
  <2> QED BY <2>1, <2>4, <2>5
<1> QED BY <1>1, <1>2

(* What the constants give: the init slot, the boot hart and the results of  *)
(* the modulo operations exist.                                              *)
LEMMA Constants ==
    /\ InitSlot \in Slots /\ InitSlot \in Progs /\ 0 \in Slots /\ 0 \in Harts
    /\ \A s \in Slots : s % NCPU \in Harts /\ (s + 1) % MAX_AGENTS \in Slots
    /\ \A s \in Slots : s # 0 => s \in Progs
    /\ NoAgent \notin Slots
BY DEF Slots, Harts, Progs, InitSlot, NoAgent

(* The types hold initially and every step keeps them.                       *)
LEMMA TypeInit == Init => TypeInv
<1> SUFFICES ASSUME Init PROVE TypeInv
  OBVIOUS
<1> USE Constants DEF Init
<1>1. AgentTypes
  BY DEF AgentTypes, States, NoCpu
<1>2. FrameTypes
  <2>1. tf \in [Slots -> Progs \cup {NoFrame}]
    BY DEF IsStarted
  <2>2. MAX_AGENTS - 1 \in 0..MAX_PROGS
    BY SizeAssumption
  <2> QED BY <2>1, <2>2 DEF FrameTypes
<1>3. SchedTypes
  <2>1. Started \in Seq(Slots) /\ <<>> \in Seq(Slots)
    BY BootAssumption
  <2>2. cpu_rq \in [Harts -> Seq(Slots)]
    BY <2>1
  <2>3. sched_lock_inited \in BOOLEAN
    OBVIOUS
  <2> QED BY Zenon, <2>2, <2>3 DEF SchedTypes
<1>4. HartTypes /\ HasCurrent
  BY DEF HartTypes, HasCurrent, Busy, Labels
<1> QED BY Zenon, <1>1, <1>2, <1>3, <1>4 DEF TypeInv, TypeOK

LEMMA TypeNext == TypeInv /\ [Next]_vars => TypeInv'
<1> SUFFICES ASSUME TypeInv, [Next]_vars PROVE TypeInv'
  OBVIOUS
<1> USE DEF TypeInv, TypeOK, agentVars, frameVars, schedVars, onceVars, Goto, IfInited
<1>0. CASE UNCHANGED vars
  BY Zenon, <1>0 DEF vars, AgentTypes, FrameTypes, SchedTypes, HartTypes, HasCurrent
<1>1. ASSUME NEW h \in Harts, Kernel(h) \/ Yield(h) \/ Program(h) \/ SsiTrap(h)
      PROVE  TypeInv'
  <2>1. CASE scheduler_run_first(h)
    <3>1. AgentTypes'
      BY Zenon, <2>1, Constants DEF scheduler_run_first, AgentTypes, States
    <3>2. FrameTypes'
      BY Zenon, <2>1 DEF scheduler_run_first, FrameTypes
    <3>3. kernel_sched_ready' \in BOOLEAN
      BY <2>1 DEF scheduler_run_first
    <3>4. cpu_current' \in [Harts -> Slots \cup {NoAgent}]
      BY Zenon, <2>1, Constants DEF scheduler_run_first, SchedTypes
    <3>5. SchedTypes'
      BY Zenon, <2>1, <3>3, <3>4 DEF scheduler_run_first, SchedTypes
    <3>6. HartTypes'
      BY Zenon, <2>1 DEF scheduler_run_first, HartTypes, Labels
    <3>7. HasCurrent'
      BY Zenon, <2>1, Constants DEF scheduler_run_first, HasCurrent, Busy, SchedTypes, HartTypes
    <3> QED BY Zenon, <3>1, <3>2, <3>5, <3>6, <3>7
  <2>2. CASE Requeue(h)
    <3>1. AgentTypes'
      BY Zenon, <2>2 DEF Requeue, AgentTypes, States
    <3>2. FrameTypes'
      BY Zenon, <2>2 DEF Requeue, trapframe_store, FrameTypes, SchedTypes, HartTypes
    <3>3. cpu_rq' \in [Harts -> Seq(Slots)]
      <4>1. CASE cpu_rq' = cpu_rq
        BY Zenon, <4>1 DEF SchedTypes
      <4>2. CASE cpu_rq' # cpu_rq
        <5> DEFINE s == cpu_current[h]
        <5>1. /\ s \in Slots
              /\ cpu_rq' = [cpu_rq EXCEPT ![home_cpu[s]] =
                                          sched_rq_add_locked(@, s)]
          BY Zenon, <2>2, <4>2 DEF Requeue, SchedTypes
        <5>2. home_cpu[s] \in Harts /\ cpu_rq[home_cpu[s]] \in Seq(Slots)
          BY Zenon, <5>1 DEF AgentTypes, SchedTypes
        <5>3. sched_rq_add_locked(cpu_rq[home_cpu[s]], s) \in Seq(Slots)
          BY Zenon, <5>1, <5>2, AddQueue
        <5> QED BY Zenon, <5>1, <5>2, <5>3 DEF SchedTypes
      <4> QED BY Zenon, <4>1, <4>2
    <3>4. SchedTypes'
      BY Zenon, <2>2, <3>3 DEF Requeue, SchedTypes
    <3>5. HartTypes' /\ HasCurrent'
      BY Zenon, <2>2 DEF Requeue, HartTypes, Labels, HasCurrent, Busy, SchedTypes
    <3> QED BY Zenon, <3>1, <3>2, <3>4, <3>5
  <2>3. CASE PickMail(h)
    <3>1. PICK s \in Slots : /\ state' = [state EXCEPT ![s] = "RUNNABLE"]
                             /\ running_cpu' = [running_cpu EXCEPT ![s] = NoCpu]
                             /\ arg' = [arg EXCEPT ![h] = s]
      BY Zenon, <2>3 DEF PickMail, MailSlots
    <3>2. AgentTypes'
      BY Zenon, <2>3, <3>1 DEF PickMail, AgentTypes, States
    <3>3. FrameTypes' /\ SchedTypes'
      BY Zenon, <2>3 DEF PickMail, FrameTypes, SchedTypes
    <3>4. HartTypes' /\ HasCurrent'
      BY Zenon, <2>3, <3>1 DEF PickMail, HartTypes, Labels, HasCurrent, Busy, SchedTypes
    <3> QED BY Zenon, <3>2, <3>3, <3>4
  <2>4. CASE PickQueued(h)
    <3>1. PICK i \in 1..Len(cpu_rq[h]) : arg' = [arg EXCEPT ![h] = cpu_rq[h][i]]
      BY Zenon, <2>4 DEF PickQueued, Eligible
    <3>2. cpu_rq[h][i] \in Slots
      BY <3>1 DEF SchedTypes
    <3>3. HartTypes' /\ HasCurrent'
      BY Zenon, <2>4, <3>1, <3>2 DEF PickQueued, HartTypes, Labels, HasCurrent, Busy,
                           SchedTypes
    <3> QED BY Zenon, <2>4, <3>3 DEF PickQueued, AgentTypes, FrameTypes, SchedTypes
  <2>5. CASE PickScanned(h)
    <3>1. PICK s \in Slots : /\ arg' = [arg EXCEPT ![h] = s]
                             /\ rr_next' = (s + 1) % MAX_AGENTS
      BY Zenon, <2>5 DEF PickScanned, ScanSlots
    <3>2. SchedTypes'
      BY Zenon, <2>5, <3>1, Constants DEF PickScanned, SchedTypes
    <3>3. HartTypes' /\ HasCurrent'
      BY Zenon, <2>5, <3>1 DEF PickScanned, HartTypes, Labels, HasCurrent, Busy, SchedTypes
    <3> QED BY Zenon, <2>5, <3>2, <3>3 DEF PickScanned, AgentTypes, FrameTypes
  <2>6. CASE PickNone(h)
    BY Zenon, <2>6 DEF PickNone,
       AgentTypes, FrameTypes, SchedTypes, HartTypes, HasCurrent, Busy, Labels, States
  <2>7. CASE PickDone(h)
    BY Zenon, <2>7 DEF PickDone,
       AgentTypes, FrameTypes, SchedTypes, HartTypes, HasCurrent, Busy, Labels, States
  <2>8. CASE ReleaseAgain(h)
    BY Zenon, <2>8 DEF ReleaseAgain,
       AgentTypes, FrameTypes, SchedTypes, HartTypes, HasCurrent, Busy, Labels, States
  <2>9. CASE sched_halt_if_done(h)
    <3>1. HartTypes'
      BY Zenon, <2>9 DEF sched_halt_if_done, kernel_halt, HartTypes, Labels
    <3>2. \A k \in Harts : pc'[k] \in Busy => pc[k] \in Busy
      BY ZenonT(60), <2>9 DEF sched_halt_if_done, kernel_halt, HartTypes, Busy
    <3>3. HasCurrent'
      BY Zenon, <2>9, <3>2 DEF sched_halt_if_done, HasCurrent
    <3> QED BY Zenon, <2>9, <3>1, <3>3 DEF sched_halt_if_done, AgentTypes, FrameTypes,
                                 SchedTypes
  <2>10. CASE Commit(h)
    <3>1. AgentTypes'
      BY Zenon, <2>10 DEF Commit, AgentTypes, States, HartTypes
    <3>2. FrameTypes'
      BY Zenon, <2>10 DEF Commit, FrameTypes
    <3>3. cpu_rq' \in [Harts -> Seq(Slots)]
      BY Zenon, <2>10, RemoveQueue DEF Commit, SchedTypes, AgentTypes, HartTypes
    <3>4. SchedTypes'
      BY Zenon, <2>10, <3>3 DEF Commit, SchedTypes, HartTypes
    <3>5. HartTypes'
      BY Zenon, <2>10 DEF Commit, kernel_halt, HartTypes, Labels
    <3>6. HasCurrent'
      BY ZenonT(60), <2>10 DEF Commit, kernel_halt, HasCurrent, Busy, SchedTypes, HartTypes
    <3> QED BY Zenon, <3>1, <3>2, <3>4, <3>5, <3>6
  <2>11. CASE switch_to_agent(h)
    <3>1. cpu_current[h] \in Slots
      BY Zenon, <2>11 DEF switch_to_agent, HasCurrent, Busy
    <3>2. HartTypes'
      <4>1. CASE tf[cpu_current[h]] = NoFrame
        BY Zenon, <2>11, <4>1 DEF switch_to_agent, LoadFrame, kernel_halt, HartTypes, Labels
      <4>2. CASE tf[cpu_current[h]] # NoFrame
        <5>1. frame[tf[cpu_current[h]]] \in Progs
          BY Zenon, <3>1, <4>2 DEF FrameTypes
        <5> QED BY Zenon, <2>11, <4>2, <5>1 DEF switch_to_agent, LoadFrame, HartTypes, Labels
      <4> QED BY Zenon, <4>1, <4>2
    <3>3. HasCurrent'
      BY ZenonT(60), <2>11, <3>1 DEF switch_to_agent, LoadFrame, kernel_halt, HasCurrent, Busy, HartTypes,
                     SchedTypes
    <3> QED BY Zenon, <2>11, <3>2, <3>3 DEF switch_to_agent, AgentTypes, FrameTypes, SchedTypes
  <2>12. CASE sret(h)
    <3>1. cpu_current[h] \in Slots
      BY Zenon, <2>12 DEF sret, HasCurrent, Busy
    <3>2. HartTypes'
      <4>1. CASE tf[cpu_current[h]] = NoFrame
        BY Zenon, <2>12, <4>1 DEF sret, LoadFrame, kernel_halt, HartTypes, Labels
      <4>2. CASE tf[cpu_current[h]] # NoFrame
        <5>1. frame[tf[cpu_current[h]]] \in Progs
          BY Zenon, <3>1, <4>2 DEF FrameTypes
        <5> QED BY Zenon, <2>12, <4>2, <5>1 DEF sret, LoadFrame, HartTypes, Labels
      <4> QED BY Zenon, <4>1, <4>2
    <3>3. HasCurrent'
      BY ZenonT(60), <2>12, <3>1 DEF sret, LoadFrame, kernel_halt, HasCurrent, Busy, HartTypes,
                     SchedTypes
    <3> QED BY Zenon, <2>12, <3>2, <3>3 DEF sret, maybe_arm_timer, AgentTypes, FrameTypes, SchedTypes
  <2>13. CASE EnterWait(h)
    BY Zenon, <2>13 DEF EnterWait,
       AgentTypes, FrameTypes, SchedTypes, HartTypes, HasCurrent, Busy, Labels, States
  <2>14. CASE Poll(h)
    BY Zenon, <2>14 DEF Poll,
       AgentTypes, FrameTypes, SchedTypes, HartTypes, HasCurrent, Busy, Labels, States
  <2>15. CASE Wakeup(h)
    BY Zenon, <2>15 DEF Wakeup,
       AgentTypes, FrameTypes, SchedTypes, HartTypes, HasCurrent, Busy, Labels, States
  <2>16. CASE TimerWakeup(h)
    BY Zenon, <2>16 DEF TimerWakeup,
       AgentTypes, FrameTypes, SchedTypes, HartTypes, HasCurrent, Busy, Labels, States
  <2>17. CASE SsiTrap(h)
    BY Zenon, <2>17 DEF SsiTrap,
       AgentTypes, FrameTypes, SchedTypes, HartTypes, HasCurrent, Busy, Labels, States
  <2>18. CASE Yield(h)
    BY Zenon, <2>18 DEF Yield, trapframe_store,
       AgentTypes, FrameTypes, SchedTypes, HartTypes, HasCurrent, Busy, Labels, States
  <2>19. CASE PlainCall(h)
    BY Zenon, <2>19 DEF PlainCall,
       AgentTypes, FrameTypes, SchedTypes, HartTypes, HasCurrent, Busy, Labels, States
  <2>20. CASE agent_exit(h)
    BY ZenonT(60), <2>20 DEF agent_exit, trapframe_store, smp_kick_others,
       AgentTypes, FrameTypes, SchedTypes, HartTypes, HasCurrent, Busy, Labels, States
  <2>21. CASE agent_recv(h)
    <3>1. cpu_current[h] \in Slots
      BY Zenon, <2>21 DEF agent_recv, HasCurrent, Busy
    <3>2. inbox' \in [Slots -> Nat]
      BY <2>21, <3>1 DEF agent_recv, AgentTypes
    <3> QED BY Zenon, <2>21, <3>2 DEF agent_recv, AgentTypes, FrameTypes, SchedTypes,
                           HartTypes, HasCurrent, Busy, Labels
  <2>22. CASE NotifyTest(h)
    BY Zenon, <2>22 DEF NotifyTest,
       AgentTypes, FrameTypes, SchedTypes, HartTypes, HasCurrent, Busy, Labels, States
  <2>23. CASE Notify(h)
    <3>1. AgentTypes'
      BY Zenon, <2>23 DEF Notify, AgentTypes, States, HartTypes
    <3>2. SchedTypes'
      BY Zenon, <2>23, AddQueue DEF Notify, smp_kick_others, SchedTypes, AgentTypes, HartTypes
    <3> QED BY Zenon, <2>23, <3>1, <3>2 DEF Notify, FrameTypes, HartTypes, HasCurrent, Busy,
                                 Labels
  <2>24. CASE agent_alloc_id(h)
    <3>1. PICK s \in Slots : /\ arg' = [arg EXCEPT ![h] = s]
                             /\ tf' = [tf EXCEPT ![s] = NoFrame]
      BY Zenon, <2>24 DEF agent_alloc_id, Free
    <3>2. FrameTypes'
      BY Zenon, <2>24, <3>1 DEF agent_alloc_id, FrameTypes
    <3>3. HartTypes' /\ HasCurrent'
      BY Zenon, <2>24, <3>1 DEF agent_alloc_id, HartTypes, Labels, HasCurrent, Busy
    <3> QED BY Zenon, <2>24, <3>2, <3>3 DEF agent_alloc_id, AgentTypes, SchedTypes
  <2>25. CASE agent_setup_stack(h)
    <3>1. progs + 1 \in Progs /\ progs + 1 \in 0..MAX_PROGS
      BY <2>25 DEF agent_setup_stack, FrameTypes, Progs
    <3>2. arg[h] \in Slots
      BY Zenon DEF HartTypes
    <3>3. FrameTypes'
      BY Zenon, <2>25, <3>1, <3>2 DEF agent_setup_stack, FrameTypes
    <3> QED BY Zenon, <2>25, <3>3 DEF agent_setup_stack, AgentTypes, SchedTypes, HartTypes,
                           HasCurrent, Busy, Labels
  <2>26. CASE CreateFails(h)
    BY Zenon, <2>26 DEF CreateFails,
       AgentTypes, FrameTypes, SchedTypes, HartTypes, HasCurrent, Busy, Labels, States
  <2>27. CASE Publish(h)
    BY Zenon, <2>27 DEF Publish,
       AgentTypes, FrameTypes, SchedTypes, HartTypes, HasCurrent, Busy, Labels, States
  <2>28. CASE Place(h)
    <3>1. arg[h] \in Slots /\ arg[h] % NCPU \in Harts
      BY Zenon, Constants DEF HartTypes
    <3>2. AgentTypes'
      BY Zenon, <2>28, <3>1 DEF Place, AgentTypes
    <3> QED BY Zenon, <2>28, <3>2 DEF Place, FrameTypes, SchedTypes, HartTypes, HasCurrent,
                           Busy, Labels
  <2>29. CASE SyscallReturn(h)
    <3>1. HartTypes'
      BY Zenon, <2>29 DEF SyscallReturn, kernel_halt, HartTypes, Labels, HasCurrent, Busy
    <3>2. HasCurrent'
      BY ZenonT(60), <2>29 DEF SyscallReturn, kernel_halt, HartTypes, HasCurrent, Busy
    <3>3. FrameTypes'
      BY Zenon, <2>29 DEF SyscallReturn, trapframe_store, FrameTypes, HartTypes, SchedTypes
    <3> QED BY Zenon, <2>29, <3>1, <3>2, <3>3 DEF SyscallReturn, AgentTypes, SchedTypes
  <2>30. ASSUME NEW d \in Slots, agent_send(h, d) PROVE TypeInv'
    <3>1. AgentTypes'
      BY <2>30 DEF agent_send, AgentTypes
    <3> QED BY Zenon, <2>30, <3>1 DEF agent_send, FrameTypes, SchedTypes, HartTypes,
                           HasCurrent, Busy, Labels
  <2>31. ASSUME NEW d \in Slots, agent_destroy(h, d) PROVE TypeInv'
    BY Zenon, <2>31 DEF agent_destroy,
       AgentTypes, FrameTypes, SchedTypes, HartTypes, HasCurrent, Busy, Labels, States
  <2>32. CASE sched_lock_init_once(h)
    <3>1. HartTypes' /\ HasCurrent'
      BY ZenonT(60), <2>32 DEF sched_lock_init_once, TestInited, spinlock_init, SetInited,
         HartTypes, Labels, HasCurrent, Busy
    <3> QED BY Zenon, <2>32, <3>1 DEF sched_lock_init_once, TestInited, spinlock_init,
         SetInited, AgentTypes, FrameTypes, SchedTypes
  <2> QED
    BY Zenon, <1>1, <2>1, <2>2, <2>3, <2>4, <2>5, <2>6, <2>7, <2>8, <2>9,
       <2>10, <2>11, <2>12, <2>13, <2>14, <2>15, <2>16, <2>17, <2>18,
       <2>19, <2>20, <2>21, <2>22, <2>23, <2>24, <2>25, <2>26, <2>27,
       <2>28, <2>29, <2>30, <2>31, <2>32 DEF Kernel, Program, schedule_trap,
       smp_cpu_wait, sched_notify_runnable, agent_create
<1> QED BY Zenon, <1>0, <1>1 DEF Next

LEMMA TypeInvariant == Spec => []TypeInv
<1>1. Init => TypeInv
  BY Zenon, TypeInit
<1>2. TypeInv /\ [Next]_vars => TypeInv'
  BY Zenon, TypeNext
<1> QED BY <1>1, <1>2, PTL DEF Spec

(* Sched is type correct for any number of harts, slots, services and        *)
(* programs: every slot, hart and trapframe the scheduler names exists, in   *)
(* particular the rr_next and s % NCPU computations stay in range.           *)
THEOREM TypeCorrect == Spec => []TypeOK
BY TypeInvariant, PTL DEF TypeInv

-----------------------------------------------------------------------------
(* Under the discipline of the SMP build no slot is executed by two harts:   *)
(* the home hart of a slot decides who runs it, and it never moves while any *)
(* hart can still run the slot.                                              *)

(* The discipline: only init, which runs on the boot hart, creates agents;   *)
(* nothing is destroyed; an id is used once its create has returned; and the *)
(* services kmain started sit in slots whose home would be the boot hart.    *)
InitSpawns ==
    /\ Spawners = {InitSlot}
    /\ "destroy" \notin Ops /\ "destroy_self" \notin Ops
    /\ ~SendsEarly
    /\ \A i \in 1..Len(Started) : Started[i] % NCPU = 0

InCreate == {"setup", "publish", "place"}
Holding == {"commit", "notify", "notify_once", "notify_init", "notify_set", "notify_lock"}

(* A slot whose first agent_create has not set its home yet.                 *)
Fresh(s) == s # InitSlot /\ home_cpu[s] # s % NCPU
(* ... is used by no hart, and free or about to be placed.                   *)
Unused(s) ==
    /\ home_cpu[s] = 0
    /\ state[s] = "UNUSED" \/ (pc[0] = "place" /\ arg[0] = s)
    /\ \A k \in Harts : /\ cpu_current[k] # s
                        /\ ~InQueue(cpu_rq[k], s)
                        /\ pc[k] \in Holding => arg[k] # s

CurrentHome == \A k \in Harts : cpu_current[k] \in Slots => home_cpu[cpu_current[k]] = k
PickedHome == \A k \in Harts : pc[k] = "commit" => home_cpu[arg[k]] = k
QueuedHome == \A k \in Harts : \A s \in Slots :
                 InQueue(cpu_rq[k], s) => home_cpu[s] = k
CreatorIsInit == \A k \in Harts : pc[k] \in InCreate =>
                    k = 0 /\ cpu_current[k] = InitSlot /\ arg[k] # InitSlot
FreshUnused == \A s \in Slots : Fresh(s) => Unused(s)
InitAlive == \A k \in Harts :
    cpu_current[k] = InitSlot /\ pc[k] \in Busy => state[InitSlot] \notin {"UNUSED", "ZOMBIE"}
InitHome == home_cpu[InitSlot] = 0 /\ \A k \in Harts : pc[k] = "boot" => k = 0

Live == /\ CurrentHome /\ PickedHome /\ QueuedHome /\ CreatorIsInit
        /\ FreshUnused /\ InitAlive /\ InitHome
Halted == \A k \in Harts : pc[k] = "halted"
HomeInv == Halted \/ Live

(* What a step of hart h that takes it to label l leaves of the homes: no    *)
(* home moves, what h runs or is about to run has its home here, and a slot  *)
(* whose home is not set yet stays unused.                                   *)
Moves(h, l) ==
    /\ pc' = [pc EXCEPT ![h] = l] /\ home_cpu' = home_cpu
    /\ pc[h] # "place" /\ l # "boot"
    /\ \A k \in Harts : k # h => cpu_current'[k] = cpu_current[k] /\ arg'[k] = arg[k]
Runs(h) ==
    cpu_current'[h] \in Slots => home_cpu[cpu_current'[h]] = h /\ ~Fresh(cpu_current'[h])
Holds(h, l) ==
    /\ l = "commit" => home_cpu[arg'[h]] = h
    /\ l \in InCreate => h = 0 /\ cpu_current'[h] = InitSlot /\ arg'[h] # InitSlot
    /\ l \in Holding => ~Fresh(arg'[h])
Queues == \A k \in Harts : \A t \in Slots :
    InQueue(cpu_rq'[k], t) => InQueue(cpu_rq[k], t) \/ (home_cpu[t] = k /\ ~Fresh(t))
Leaves(h, l) == \A t \in Slots : Fresh(t) /\ state[t] = "UNUSED" =>
    state'[t] = "UNUSED" \/ (l = "place" /\ h = 0 /\ arg'[h] = t)
SparesInit(h, l) ==
    /\ cpu_current[h] # InitSlot /\ state[InitSlot] \notin {"UNUSED", "ZOMBIE"} =>
         state'[InitSlot] \notin {"UNUSED", "ZOMBIE"}
    /\ l \in Busy /\ cpu_current'[h] = InitSlot =>
         state'[InitSlot] \notin {"UNUSED", "ZOMBIE"}

(* Such a step keeps the invariant.                                          *)
LEMMA HomesKept ==
    ASSUME TypeInv, Live, NEW h \in Harts, NEW l \in Labels, Moves(h, l), Runs(h),
           Holds(h, l), Queues, Leaves(h, l), SparesInit(h, l)
    PROVE  Live'
<1> USE DEF Moves, HartTypes, TypeInv, TypeOK
<1>0. \A k \in Harts : pc'[k] = IF k = h THEN l ELSE pc[k]
  OBVIOUS
<1>1. CurrentHome'
  BY Zenon DEF CurrentHome, Runs, Live
<1>2. PickedHome'
  BY Zenon, <1>0 DEF PickedHome, Holds, Live
<1>3. QueuedHome'
  BY Zenon DEF QueuedHome, Queues, Live
<1>4. CreatorIsInit'
  BY ZenonT(60), <1>0 DEF CreatorIsInit, Holds, Live
<1>5. FreshUnused'
  <2> SUFFICES ASSUME NEW t \in Slots, Fresh(t), Unused(t) PROVE Unused(t)'
    BY Zenon DEF FreshUnused, Fresh, Live
  <2>1. home_cpu'[t] = 0
    BY Zenon DEF Unused
  <2>2. state'[t] = "UNUSED" \/ (pc'[0] = "place" /\ arg'[0] = t)
    BY Zenon, <1>0, Constants DEF Unused, Leaves
  <2>3. \A k \in Harts : cpu_current'[k] # t
    BY Zenon DEF Unused, Runs
  <2>4. \A k \in Harts : ~InQueue(cpu_rq'[k], t)
    BY Zenon DEF Unused, Queues
  <2>5. \A k \in Harts : pc'[k] \in Holding => arg'[k] # t
    BY ZenonT(60), <1>0 DEF Unused, Holds
  <2> QED BY Zenon, <2>1, <2>2, <2>3, <2>4, <2>5 DEF Unused
<1>6. InitAlive'
  <2> SUFFICES ASSUME NEW k \in Harts, cpu_current'[k] = InitSlot, pc'[k] \in Busy
               PROVE  state'[InitSlot] \notin {"UNUSED", "ZOMBIE"}
    BY Zenon DEF InitAlive
  <2>1. CASE k = h
    BY Zenon, <2>1, <1>0 DEF SparesInit
  <2>2. CASE k # h
    <3>1. cpu_current[k] = InitSlot /\ pc[k] \in Busy
      BY Zenon, <2>2, <1>0
    <3>2. home_cpu[InitSlot] = k
      BY Zenon, <3>1, Constants DEF Live, CurrentHome
    <3>3. cpu_current[h] # InitSlot
      BY Zenon, <2>2, <3>2, Constants DEF Live, CurrentHome
    <3> QED BY Zenon, <3>1, <3>3 DEF SparesInit, Live, InitAlive
  <2> QED BY Zenon, <2>1, <2>2
<1>7. InitHome'
  BY Zenon, <1>0 DEF InitHome, Live
<1> QED BY Zenon, <1>1, <1>2, <1>3, <1>4, <1>5, <1>6, <1>7 DEF Live

(* A slot that a hart runs, has queued or holds has its home set, and so has *)
(* one that is in use and not being created.                                 *)
LEMMA InUse ==
    ASSUME TypeInv, Live
    PROVE  /\ \A k \in Harts : cpu_current[k] \in Slots => ~Fresh(cpu_current[k])
           /\ \A k \in Harts : \A t \in Slots : InQueue(cpu_rq[k], t) => ~Fresh(t)
           /\ \A k \in Harts : pc[k] \in Holding => ~Fresh(arg[k])
           /\ \A t \in Slots : /\ state[t] # "UNUSED"
                               /\ pc[0] = "place" => arg[0] # t
                               => ~Fresh(t)
BY Zenon DEF TypeInv, TypeOK, HartTypes, SchedTypes, Live, FreshUnused, Unused


(* Quiet steps: a hart moves on without touching an agent, to a label that   *)
(* names no agent.                                                           *)
LEMMA QuietStep ==
    ASSUME TypeInv, Live, NEW h \in Harts, NEW l \in Labels,
           pc[h] # "place", l \notin InCreate \cup Holding \cup {"boot"},
           l \in Busy => pc[h] \in Busy, pc' = [pc EXCEPT ![h] = l],
           UNCHANGED <<state, home_cpu, cpu_current, cpu_rq, arg>>
    PROVE  Live'
<1>1. Moves(h, l) /\ Queues /\ Leaves(h, l)
  BY Zenon DEF Moves, Queues, Leaves
<1>2. Runs(h)
  BY Zenon, InUse DEF Runs, Live, CurrentHome
<1>3. Holds(h, l)
  BY Zenon DEF Holds, InCreate, Holding
<1>4. SparesInit(h, l)
  BY Zenon DEF SparesInit, Live, InitAlive
<1> QED BY Zenon, <1>1, <1>2, <1>3, <1>4, HomesKept

(* The steps that only move a hart on, or stop them all.                     *)
LEMMA QuietSteps ==
    ASSUME TypeInv, Live, NEW h \in Harts,
           \/ PickNone(h) \/ PickDone(h) \/ ReleaseAgain(h) \/ sched_halt_if_done(h)
           \/ switch_to_agent(h) \/ sret(h) \/ smp_cpu_wait(h) \/ SsiTrap(h)
           \/ Yield(h) \/ PlainCall(h) \/ agent_recv(h) \/ CreateFails(h)
           \/ sched_lock_init_once(h) /\ pc[h] \notin Holding
    PROVE  HomeInv'
<1> DEFINE Quiet(l) == /\ pc' = [pc EXCEPT ![h] = l]
                       /\ UNCHANGED <<state, home_cpu, cpu_current, cpu_rq, arg>>
<1>1. ASSUME NEW l \in {"wait", "done", "release_again", "parked", "poll", "acquire", "wfi",
                        "once", "lock_init", "set_inited"},
             pc[h] # "place", Quiet(l)
      PROVE  HomeInv'
  <2>1. l \in Labels /\ l \notin InCreate \cup Holding \cup {"boot"} /\ l \notin Busy
    BY Zenon, <1>1 DEF Labels, InCreate, Holding, Busy
  <2> QED BY Zenon, <1>1, <2>1, QuietStep DEF HomeInv
<1>2. ASSUME NEW l \in {"user", "sysret"}, pc[h] # "place", pc[h] \in Busy, Quiet(l)
      PROVE  HomeInv'
  <2>1. l \in Labels /\ l \notin InCreate \cup Holding \cup {"boot"}
    BY Zenon, <1>2 DEF Labels, InCreate, Holding
  <2> QED BY Zenon, <1>2, <2>1, QuietStep DEF HomeInv
<1>3. kernel_halt => HomeInv'
  BY Zenon DEF kernel_halt, HomeInv, Halted
<1> USE DEF Goto, agentVars, schedVars
<1>4. CASE PickNone(h) \/ PickDone(h) \/ ReleaseAgain(h)
  BY Zenon, <1>1, <1>4 DEF PickNone, PickDone, ReleaseAgain
<1>5. CASE sched_halt_if_done(h)
  BY Zenon, <1>1, <1>3, <1>5 DEF sched_halt_if_done
<1>6. CASE switch_to_agent(h) \/ sret(h)
  BY Zenon, <1>2, <1>3, <1>6 DEF switch_to_agent, sret, LoadFrame, Busy
<1>7. CASE smp_cpu_wait(h)
  BY Zenon, <1>1, <1>7 DEF smp_cpu_wait, EnterWait, Poll, Wakeup, TimerWakeup
<1>8. CASE SsiTrap(h)
  <2>1. pc' = [pc EXCEPT ![h] = "user"]
    BY Zenon, <1>8 DEF SsiTrap, TypeInv, TypeOK, HartTypes
  <2> QED BY Zenon, <1>2, <1>8, <2>1 DEF SsiTrap, Busy
<1>9. CASE Yield(h)
  BY Zenon, <1>1, <1>9 DEF Yield, IfInited
<1>10. CASE PlainCall(h) \/ agent_recv(h) \/ CreateFails(h)
  BY Zenon, <1>2, <1>10 DEF PlainCall, agent_recv, CreateFails, Busy
<1>11. CASE sched_lock_init_once(h) /\ pc[h] \notin Holding
  <2>1. pc[h] \in {"once", "lock_init", "set_inited"}
    BY Zenon, <1>11 DEF sched_lock_init_once, TestInited, spinlock_init, SetInited, Holding
  <2>2. \E l \in {"acquire", "lock_init", "set_inited"} : Quiet(l)
    BY Zenon, <1>11, <2>1 DEF sched_lock_init_once, TestInited, spinlock_init, SetInited, IfInited
  <2> QED BY Zenon, <1>1, <2>1, <2>2
<1> QED BY Zenon, <1>4, <1>5, <1>6, <1>7, <1>8, <1>9, <1>10, <1>11

(* The scheduler: the first agent, requeueing, picking and committing.       *)
LEMMA SchedulerSteps ==
    ASSUME TypeInv, Live, NEW h \in Harts,
           \/ scheduler_run_first(h) \/ Requeue(h) \/ PickMail(h) \/ PickQueued(h)
           \/ PickScanned(h) \/ Commit(h)
    PROVE  HomeInv'
<1> USE DEF Goto, agentVars, schedVars, TypeInv, TypeOK
<1>1. CASE scheduler_run_first(h)
  <2>1. h = 0 /\ home_cpu[InitSlot] = 0 /\ ~Fresh(InitSlot) /\ InitSlot \in Slots
    BY Zenon, <1>1, Constants DEF scheduler_run_first, Live, InitHome, Fresh
  <2>2. home_cpu' = home_cpu /\ cpu_current'[h] = InitSlot /\ state'[InitSlot] = "RUNNING"
    BY Zenon, <1>1, <2>1 DEF scheduler_run_first, AgentTypes, SchedTypes
  <2>3. Moves(h, "switch") /\ Queues
    BY Zenon, <1>1, <2>2 DEF scheduler_run_first, Moves, Queues, SchedTypes
  <2>4. Runs(h) /\ Holds(h, "switch") /\ SparesInit(h, "switch")
    BY Zenon, <2>1, <2>2 DEF Runs, Holds, InCreate, Holding, SparesInit
  <2>5. Leaves(h, "switch")
    BY Zenon, <1>1, <2>1 DEF scheduler_run_first, Leaves, AgentTypes
  <2> QED BY Zenon, <2>3, <2>4, <2>5, HomesKept DEF Labels, HomeInv
<1>2. CASE Requeue(h)
  <2> DEFINE s == cpu_current[h]
  <2>1. s \in Slots => home_cpu[s] = h /\ ~Fresh(s)
    BY Zenon, InUse DEF Live, CurrentHome
  <2>2. Moves(h, "pick") /\ Runs(h)
    BY Zenon, <1>2, <2>1 DEF Requeue, Moves, Runs
  <2>3. Holds(h, "pick") /\ state' \in {state, [state EXCEPT ![s] = "RUNNABLE"]}
    BY Zenon, <1>2 DEF Requeue, Holds, InCreate, Holding
  <2>4. SparesInit(h, "pick") /\ Leaves(h, "pick")
    BY Zenon, <2>1, <2>3, Constants DEF SparesInit, Leaves, Busy, AgentTypes
  <2>5. Queues
    <3>1. CASE cpu_rq' = cpu_rq
      BY Zenon, <3>1 DEF Queues
    <3>2. CASE cpu_rq' # cpu_rq
      <4>1. s \in Slots /\ cpu_rq' = [cpu_rq EXCEPT ![home_cpu[s]] = sched_rq_add_locked(@, s)]
        BY Zenon, <1>2, <3>2 DEF Requeue, SchedTypes
      <4> QED BY Zenon, <2>1, <4>1, AddQueue DEF Queues, SchedTypes
    <3> QED BY Zenon, <3>1, <3>2
  <2> QED BY Zenon, <2>2, <2>3, <2>4, <2>5, HomesKept DEF Labels, HomeInv
<1>3. ASSUME NEW s \in Slots, pc[h] = "pick", home_cpu[s] = h, ~Fresh(s),
             arg' = [arg EXCEPT ![h] = s], pc' = [pc EXCEPT ![h] = "commit"],
             state' \in {state, [state EXCEPT ![s] = "RUNNABLE"]},
             UNCHANGED <<home_cpu, cpu_current, cpu_rq>>
      PROVE  HomeInv'
  <2>1. Moves(h, "commit") /\ Queues
    BY Zenon, <1>3 DEF Moves, Queues, HartTypes
  <2>2. Runs(h) /\ Holds(h, "commit")
    BY Zenon, <1>3, InUse DEF Runs, Holds, InCreate, Live, CurrentHome, HartTypes
  <2>3. SparesInit(h, "commit") /\ Leaves(h, "commit")
    BY Zenon, <1>3, Constants DEF SparesInit, Leaves, Busy, AgentTypes
  <2> QED BY Zenon, <2>1, <2>2, <2>3, HomesKept DEF Labels, HomeInv
<1>4. \A s \in Slots : pc[h] = "pick" /\ home_cpu[s] = h /\ state[s] # "UNUSED" => ~Fresh(s)
  BY Zenon DEF Live, FreshUnused, Unused
<1>5. CASE PickMail(h)
  <2>1. PICK s \in MailSlots(h) : /\ state' = [state EXCEPT ![s] = "RUNNABLE"]
                                  /\ arg' = [arg EXCEPT ![h] = s]
    BY Zenon, <1>5 DEF PickMail
  <2>2. s \in Slots /\ home_cpu[s] = h /\ state[s] # "UNUSED"
    BY Zenon DEF MailSlots, sched_agent_has_inbox
  <2> QED BY Zenon, <1>3, <1>4, <1>5, <2>1, <2>2 DEF PickMail
<1>6. CASE PickQueued(h)
  <2>1. PICK i \in Eligible(h) : arg' = [arg EXCEPT ![h] = cpu_rq[h][i]]
    BY Zenon, <1>6 DEF PickQueued
  <2>2. cpu_rq[h][i] \in Slots /\ InQueue(cpu_rq[h], cpu_rq[h][i])
    BY DEF Eligible, InQueue, SchedTypes
  <2>3. home_cpu[cpu_rq[h][i]] = h /\ ~Fresh(cpu_rq[h][i])
    BY Zenon, <2>2, InUse DEF Live, QueuedHome
  <2> QED BY Zenon, <1>3, <1>6, <2>1, <2>2, <2>3 DEF PickQueued
<1>7. CASE PickScanned(h)
  <2>1. PICK s \in ScanSlots(h) : arg' = [arg EXCEPT ![h] = s]
    BY Zenon, <1>7 DEF PickScanned
  <2>2. s \in Slots /\ home_cpu[s] = h /\ state[s] # "UNUSED"
    BY Zenon DEF ScanSlots
  <2> QED BY Zenon, <1>3, <1>4, <1>7, <2>1, <2>2 DEF PickScanned
<1>8. CASE Commit(h)
  <2> DEFINE s == arg[h]
  <2>1. s \in Slots /\ home_cpu[s] = h /\ ~Fresh(s)
    BY Zenon, <1>8, InUse DEF Commit, Live, PickedHome, Holding, HartTypes
  <2>2. cpu_current'[h] = s /\ state' = [state EXCEPT ![s] = "RUNNING"]
    BY Zenon, <1>8 DEF Commit, SchedTypes
  <2>3. Queues
    BY Zenon, <1>8, <2>1, RemoveQueue DEF Commit, Queues, SchedTypes
  <2>4. ASSUME NEW l \in {"switch", "sret"}, pc' = [pc EXCEPT ![h] = l]
        PROVE  HomeInv'
    <3>1. Moves(h, l)
      BY Zenon, <1>8, <2>4 DEF Commit, Moves, SchedTypes
    <3>2. Runs(h) /\ Holds(h, l)
      BY Zenon, <2>1, <2>2, <2>4 DEF Runs, Holds, InCreate, Holding
    <3>3. SparesInit(h, l) /\ Leaves(h, l)
      BY Zenon, <2>1, <2>2, Constants DEF SparesInit, Leaves, AgentTypes
    <3> QED BY Zenon, <2>3, <2>4, <3>1, <3>2, <3>3, HomesKept DEF Labels, HomeInv
  <2>5. kernel_halt => HomeInv'
    BY Zenon DEF kernel_halt, HomeInv, Halted
  <2> QED BY Zenon, <1>8, <2>4, <2>5 DEF Commit
<1> QED BY Zenon, <1>1, <1>2, <1>5, <1>6, <1>7, <1>8

(* The calls, under the discipline.                                          *)
LEMMA CallSteps ==
    ASSUME InitSpawns, TypeInv, Live, NEW h \in Harts,
           \/ agent_exit(h) \/ \E d \in Slots : agent_send(h, d) \/ agent_destroy(h, d)
           \/ NotifyTest(h) \/ Notify(h) \/ SyscallReturn(h)
           \/ agent_alloc_id(h) \/ agent_setup_stack(h) \/ Publish(h)
           \/ sched_lock_init_once(h) /\ pc[h] \in Holding
    PROVE  HomeInv'
<1> USE DEF Goto, agentVars, schedVars, TypeInv, TypeOK
<1>1. CASE agent_exit(h)
  <2> DEFINE s == cpu_current[h]
  <2>1. s \in Slots /\ home_cpu[s] = h /\ ~Fresh(s)
    BY Zenon, <1>1, InUse DEF agent_exit, HasCurrent, Busy, Live, CurrentHome
  <2>2. PICK l \in {"acquire", "once"} : Moves(h, l) /\ Runs(h) /\ Queues
    BY Zenon, <1>1, <2>1 DEF agent_exit, Moves, Runs, Queues, IfInited
  <2>3. Holds(h, l) /\ state' = [state EXCEPT ![s] = "ZOMBIE"]
    BY Zenon, <1>1 DEF agent_exit, Holds, InCreate, Holding
  <2>4. SparesInit(h, l) /\ Leaves(h, l)
    BY Zenon, <2>1, <2>3, Constants DEF SparesInit, Leaves, Busy, AgentTypes
  <2>5. l \in Labels
    BY Zenon DEF Labels
  <2> QED BY Zenon, <2>2, <2>3, <2>4, <2>5, HomesKept DEF HomeInv
<1>2. ASSUME NEW l \in Labels, pc[h] \in Busy \ {"place"}, pc' = [pc EXCEPT ![h] = l],
             l # "boot", Holds(h, l), \A k \in Harts : k # h => arg'[k] = arg[k],
             UNCHANGED <<state, home_cpu, cpu_current, cpu_rq>>
      PROVE  HomeInv'
  <2>1. Moves(h, l) /\ Queues /\ Leaves(h, l)
    BY Zenon, <1>2 DEF Moves, Queues, Leaves
  <2>2. Runs(h) /\ SparesInit(h, l)
    BY Zenon, <1>2, InUse DEF Runs, SparesInit, Live, CurrentHome, InitAlive
  <2> QED BY Zenon, <1>2, <2>1, <2>2, HomesKept DEF HomeInv
<1>3. CASE SyscallReturn(h)
  <2>1. Holds(h, "user")
    BY Zenon DEF Holds, InCreate, Holding
  <2>2. kernel_halt => HomeInv'
    BY Zenon DEF kernel_halt, HomeInv, Halted
  <2> QED BY Zenon, <1>3, <1>2, <2>1, <2>2 DEF SyscallReturn, Busy, Labels, HartTypes
<1>4. ASSUME NEW d \in Slots, agent_send(h, d) PROVE HomeInv'
  <2>1. ~Fresh(d)
    BY Zenon, <1>4, InUse, Constants DEF agent_send, InitSpawns, Creating
  <2>2. Holds(h, "notify")
    BY Zenon, <1>4, <2>1 DEF agent_send, Holds, InCreate, HartTypes
  <2> QED BY Zenon, <1>2, <1>4, <2>2 DEF agent_send, Busy, Labels, HartTypes
<1>5. ASSUME NEW d \in Slots, agent_destroy(h, d) PROVE HomeInv'
  BY Zenon, <1>5 DEF agent_destroy, InitSpawns
<1>6. CASE NotifyTest(h)
  <2>1. ~Fresh(arg[h]) /\ arg' = arg
    BY Zenon, <1>6, InUse DEF NotifyTest, Holding
  <2>2. Holds(h, "sysret") /\ Holds(h, "notify_lock") /\ Holds(h, "notify_once")
    BY Zenon, <2>1 DEF Holds, InCreate, Holding
  <2> QED BY Zenon, <1>2, <1>6, <2>1, <2>2 DEF NotifyTest, Busy, Labels, IfInited
<1>7. CASE Notify(h)
  <2> DEFINE s == arg[h]
  <2>1. s \in Slots /\ ~Fresh(s)
    BY Zenon, <1>7, InUse DEF Notify, Holding, HartTypes
  <2>2. Moves(h, "sysret") /\ Holds(h, "sysret")
    BY Zenon, <1>7 DEF Notify, Moves, Holds, InCreate, Holding
  <2>3. Runs(h)
    BY Zenon, <1>7, InUse DEF Notify, Runs, Live, CurrentHome
  <2>4. Queues
    BY Zenon, <1>7, <2>1, AddQueue DEF Notify, Queues, SchedTypes, AgentTypes
  <2>5. SparesInit(h, "sysret") /\ Leaves(h, "sysret")
    BY Zenon, <1>7, <2>1, Constants DEF Notify, SparesInit, Leaves, AgentTypes, Live, InitAlive, Busy
  <2> QED BY Zenon, <2>2, <2>3, <2>4, <2>5, HomesKept DEF Labels, HomeInv
<1>8. CASE agent_alloc_id(h)
  <2>1. cpu_current[h] = InitSlot /\ h = 0
    BY Zenon, <1>8, Constants DEF agent_alloc_id, InitSpawns, Live, CurrentHome, InitHome
  <2>2. PICK s \in Slots : state[s] \in {"UNUSED", "ZOMBIE"} /\ arg' = [arg EXCEPT ![h] = s]
    BY Zenon, <1>8 DEF agent_alloc_id, Free
  <2>3. s # InitSlot
    BY Zenon, <1>8, <2>1, <2>2 DEF agent_alloc_id, Live, InitAlive, Busy
  <2>4. Holds(h, "setup")
    BY Zenon, <1>8, <2>1, <2>2, <2>3 DEF agent_alloc_id, Holds, Holding, HartTypes
  <2> QED BY Zenon, <1>2, <1>8, <2>2, <2>4 DEF agent_alloc_id, Busy, Labels, HartTypes
<1>9. CASE agent_setup_stack(h)
  <2>1. Holds(h, "publish")
    BY Zenon, <1>9 DEF agent_setup_stack, Holds, Holding, InCreate, Live, CreatorIsInit
  <2> QED BY Zenon, <1>2, <1>9, <2>1 DEF agent_setup_stack, Busy, Labels
<1>10. CASE Publish(h)
  <2>1. h = 0 /\ cpu_current[h] = InitSlot /\ arg[h] # InitSlot /\ arg[h] \in Slots
    BY Zenon, <1>10 DEF Publish, Live, CreatorIsInit, InCreate, HartTypes
  <2>2. Moves(h, "place") /\ Queues
    BY Zenon, <1>10 DEF Publish, Moves, Queues
  <2>3. Runs(h) /\ Holds(h, "place")
    BY Zenon, <1>10, <2>1, InUse DEF Publish, Runs, Holds, Holding, Live, CurrentHome
  <2>4. SparesInit(h, "place") /\ Leaves(h, "place")
    BY Zenon, <1>10, <2>1, Constants DEF Publish, SparesInit, Leaves, AgentTypes, Live, InitAlive, Busy
  <2> QED BY Zenon, <2>2, <2>3, <2>4, HomesKept DEF Labels, HomeInv
<1>11. CASE sched_lock_init_once(h) /\ pc[h] \in Holding
  <2>1. ~Fresh(arg[h]) /\ arg' = arg
    BY Zenon, <1>11, InUse DEF sched_lock_init_once, TestInited, spinlock_init, SetInited
  <2>2. \A l \in {"notify_init", "notify_set", "notify_lock"} : Holds(h, l)
    BY Zenon, <2>1 DEF Holds, InCreate
  <2>3. pc[h] \in {"notify_once", "notify_init", "notify_set"}
    BY Zenon, <1>11 DEF sched_lock_init_once, TestInited, spinlock_init, SetInited, Holding
  <2>4. \E l \in {"notify_init", "notify_set", "notify_lock"} : pc' = [pc EXCEPT ![h] = l]
    BY Zenon, <1>11, <2>3 DEF sched_lock_init_once, TestInited, spinlock_init, SetInited, IfInited
  <2>5. UNCHANGED <<state, home_cpu, cpu_current, cpu_rq>>
    BY Zenon, <1>11 DEF sched_lock_init_once, TestInited, spinlock_init, SetInited
  <2> QED BY Zenon, <1>2, <2>1, <2>2, <2>3, <2>4, <2>5 DEF Busy, Labels
<1> QED BY Zenon, <1>1, <1>3, <1>4, <1>5, <1>6, <1>7, <1>8, <1>9, <1>10, <1>11

(* The one step that moves a home: the slot is still unused, or was placed   *)
(* there before.                                                             *)
LEMMA PlaceStep ==
    ASSUME TypeInv, Live, NEW h \in Harts, Place(h)
    PROVE  HomeInv'
<1> USE DEF TypeInv, TypeOK, Goto, frameVars, schedVars, onceVars
<1>c. h = 0 /\ arg[h] # InitSlot /\ arg[h] \in Slots /\ arg[h] % NCPU \in Harts
  BY Zenon, Constants DEF Place, Live, CreatorIsInit, InCreate, HartTypes
<1>k. \A t \in Slots : \/ home_cpu'[t] = home_cpu[t] /\ t # arg[h]
                       \/ t = arg[h] /\ home_cpu'[t] = t % NCPU
  BY Zenon, <1>c DEF Place, AgentTypes
<1>m. home_cpu' = home_cpu \/ Unused(arg[h])
  BY Zenon, <1>c DEF Place, Live, FreshUnused, Fresh, AgentTypes
<1>1. CurrentHome'
  BY ZenonT(60), <1>k, <1>m, <1>c DEF Place, Live, CurrentHome, SchedTypes,
     AgentTypes, HartTypes, Unused
<1>2. PickedHome'
  BY ZenonT(60), <1>k, <1>m, <1>c DEF Place, Live, PickedHome, HartTypes,
     AgentTypes, Unused, Holding
<1>3. QueuedHome'
  BY <1>k, <1>m, <1>c, SMTT(40) DEF Place, Live, QueuedHome, SchedTypes,
     AgentTypes, HartTypes, Unused
<1>4. CreatorIsInit'
  BY Zenon DEF Place, Live, CreatorIsInit, InCreate, HartTypes, SchedTypes
<1>5. FreshUnused'
  <2> SUFFICES ASSUME NEW t \in Slots, Fresh(t)' PROVE Unused(t)'
    BY Zenon DEF FreshUnused
  <2>1. t # arg[h] /\ home_cpu'[t] = home_cpu[t]
    BY Zenon, <1>k DEF Fresh
  <2>2. Unused(t)
    BY Zenon, <2>1 DEF Fresh, Live, FreshUnused
  <2>3. state[t] = "UNUSED"
    BY Zenon, <2>1, <2>2, <1>c DEF Unused
  <2>4. state'[t] = "UNUSED"
    BY Zenon, <2>1, <2>3 DEF Place, AgentTypes
  <2>5. \A k \in Harts : /\ cpu_current'[k] # t
                         /\ ~InQueue(cpu_rq'[k], t)
    BY Zenon, <2>2 DEF Place, Unused, InQueue
  <2>6. \A k \in Harts : pc'[k] \in Holding => arg'[k] # t
    BY Zenon, <2>2, <2>1 DEF Place, Unused, Holding, HartTypes
  <2> QED BY Zenon, <2>1, <2>2, <2>4, <2>5, <2>6 DEF Unused, InQueue
<1>6. InitAlive'
  BY Zenon DEF Place, Live, InitAlive, Busy, HartTypes, SchedTypes,
     AgentTypes
<1>7. InitHome'
  BY ZenonT(60), <1>c, <1>k, Constants DEF Place, Live, InitHome, HartTypes,
     AgentTypes
<1> QED BY Zenon, <1>1, <1>2, <1>3, <1>4, <1>5, <1>6, <1>7 DEF Live, HomeInv

(* Every step keeps the invariant.                                           *)
LEMMA HomeStep ==
    ASSUME InitSpawns, TypeInv, Live, NEW h \in Harts,
           Kernel(h) \/ Yield(h) \/ Program(h) \/ SsiTrap(h)
    PROVE  HomeInv'
BY Zenon, QuietSteps, SchedulerSteps, CallSteps, PlaceStep
   DEF Kernel, Program, schedule_trap, sched_notify_runnable, agent_create

(* It holds at boot: the services of kmain are queued on the boot hart.      *)
LEMMA HomeInit == InitSpawns /\ Init => HomeInv
<1> SUFFICES ASSUME InitSpawns, Init PROVE Live
  BY Zenon DEF HomeInv
<1> USE Constants DEF Init
<1>1. CurrentHome /\ PickedHome /\ CreatorIsInit /\ InitAlive /\ InitHome
  BY DEF CurrentHome, PickedHome, CreatorIsInit, InitAlive, InitHome, InCreate, Busy,
         NoAgent, Slots
<1>2. \A k \in Harts : \A s \in Slots : InQueue(cpu_rq[k], s) => k = 0 /\ IsStarted(s)
  BY DEF InQueue, IsStarted
<1>3. QueuedHome
  BY Zenon, <1>2 DEF QueuedHome
<1>4. \A s \in Slots : Fresh(s) => ~IsStarted(s)
  BY Zenon DEF Fresh, IsStarted, InitSpawns
<1>5. FreshUnused
  <2>1. SUFFICES ASSUME NEW s \in Slots, Fresh(s) PROVE Unused(s)
    BY Zenon DEF FreshUnused
  <2>2. s # InitSlot /\ ~IsStarted(s) /\ s # NoAgent
    BY Zenon, <1>4, <2>1 DEF Fresh
  <2>3. home_cpu[s] = 0 /\ state[s] = "UNUSED"
    BY Zenon, <2>1, <2>2
  <2>4. ASSUME NEW k \in Harts PROVE cpu_current[k] # s /\ ~InQueue(cpu_rq[k], s) /\ pc[k] \notin Holding
    BY Zenon, <1>2, <2>1, <2>2 DEF Holding
  <2> QED
    BY Zenon, <2>3, <2>4 DEF Unused
<1> QED BY Zenon, <1>1, <1>3, <1>5 DEF Live

(* It is inductive, given the types.                                         *)
LEMMA HomeNext == InitSpawns /\ TypeInv /\ HomeInv /\ [Next]_vars => HomeInv'
<1> SUFFICES ASSUME InitSpawns, TypeInv, HomeInv, [Next]_vars PROVE HomeInv'
  OBVIOUS
<1>1. CASE UNCHANGED vars
  BY ZenonT(60), <1>1 DEF vars, HomeInv, Halted, Live, CurrentHome, PickedHome, QueuedHome,
      CreatorIsInit, FreshUnused, Fresh, Unused, InitAlive, InitHome
<1>2. ASSUME NEW h \in Harts, Kernel(h) \/ Yield(h) \/ Program(h) \/ SsiTrap(h)
      PROVE  HomeInv'
  <2>1. pc[h] # "halted"
    BY Zenon, <1>2 DEF Kernel, Program, schedule_trap, smp_cpu_wait,
        sched_notify_runnable, agent_create, scheduler_run_first, Requeue,
        PickMail, PickQueued, PickScanned, PickNone, PickDone, ReleaseAgain,
        sched_halt_if_done, Commit, switch_to_agent, sret, EnterWait, Poll,
        Wakeup, TimerWakeup, SsiTrap, Yield, PlainCall, agent_exit, agent_recv,
        agent_send, agent_destroy, NotifyTest, Notify, agent_alloc_id,
        agent_setup_stack, CreateFails, Publish, Place, SyscallReturn,
        sched_lock_init_once, TestInited, spinlock_init, SetInited
  <2> QED BY Zenon, <1>2, <2>1, HomeStep DEF HomeInv, Halted
<1> QED BY Zenon, <1>1, <1>2 DEF Next

(* The home hart decides: a hart only executes slots whose home it is.       *)
LEMMA HomeDecides == TypeInv /\ HomeInv => NoDoubleRun
<1> SUFFICES ASSUME TypeInv, HomeInv, NEW s \in Slots, NEW h \in Harts,
                    NEW k \in Harts, Executing(h, s), Executing(k, s)
             PROVE  h = k
  BY Zenon DEF NoDoubleRun
<1>1. ~Halted
  BY Zenon DEF Executing, Halted
<1> QED BY Zenon, <1>1 DEF HomeInv, Live, CurrentHome, Executing

(* No agent is executed by two harts at once (home_cpu affinity and per-CPU  *)
(* queues of sched.c), for any number of harts, slots and messages, as long  *)
(* as only init creates agents, nobody destroys one or sends to one that is  *)
(* still being created, and no boot service sits in a slot of another hart.  *)
THEOREM NoDoubleRunUnderInit == ASSUME InitSpawns PROVE Spec => []NoDoubleRun
<1>1. Init => HomeInv
  BY Zenon, HomeInit
<1>2. TypeInv /\ HomeInv /\ [Next]_vars => HomeInv'
  BY Zenon, HomeNext
<1>3. TypeInv /\ HomeInv => NoDoubleRun
  BY Zenon, HomeDecides
<1>4. Spec => []TypeInv
  BY Zenon, TypeInvariant
<1> QED BY <1>1, <1>2, <1>3, <1>4, PTL DEF Spec

-----------------------------------------------------------------------------
(* On a machine with one hart every program runs with its own trapframe, and *)
(* none runs after it has exited or was destroyed, as long as no program     *)
(* destroys itself.                                                          *)

OneHart == NCPU = 1 /\ "destroy_self" \notin Ops

Dead(s) == state[s] \in {"UNUSED", "ZOMBIE"}

(* A trapframe holds the program it was made for; no two slots share one; a  *)
(* slot in use has one, and its program has not gone.                        *)
OwnFrames == \A f \in Progs : frame[f] = f
OneSlot == \A s, t \in Slots : tf[s] # NoFrame /\ tf[s] = tf[t] => s = t
OldFrames == (\A s \in Slots : tf[s] <= progs) /\ \A p \in gone : p <= progs
LiveFrames == \A s \in Slots : ~Dead(s) => tf[s] # NoFrame /\ tf[s] \notin gone
FrameInv == OwnFrames /\ OneSlot /\ OldFrames /\ LiveFrames

(* The hart: its current agent is in use while it works for it, and from the *)
(* load of a frame to the commit of the next one its registers are the       *)
(* program of the current slot.                                              *)
Loading == {"boot", "switch", "sret", "halted"}
CurrentInv ==
    /\ pc[0] = "boot" => ~Dead(InitSlot)
    /\ pc[0] # "boot" => cpu_current[0] \in Slots
    /\ pc[0] \in Busy => ~Dead(cpu_current[0])
    /\ pc[0] \notin Loading => code[0] = tf[cpu_current[0]]
(* The slot it works on: what it commits or wakes is in use, what it creates *)
(* is not, until its new frame is published.                                 *)
TargetInv ==
    /\ pc[0] \in {"commit", "place", "notify_once", "notify_init", "notify_set", "notify_lock"}
         => ~Dead(arg[0])
    /\ pc[0] = "notify" => state[arg[0]] # "UNUSED"
    /\ pc[0] \in {"setup", "publish"} => Dead(arg[0])
    /\ pc[0] = "publish" => tf[arg[0]] # NoFrame /\ tf[arg[0]] \notin gone

ContextInv == FrameInv /\ CurrentInv /\ TargetInv

-----------------------------------------------------------------------------
(* trapframe_store writes what the frame of the current slot already holds.  *)
LEMMA StoreKeeps ==
    ASSUME TypeInv, FrameInv, CurrentInv, pc[0] \notin Loading, trapframe_store(0)
    PROVE  frame' = frame
<1>1. cpu_current[0] \in Slots /\ code[0] = tf[cpu_current[0]]
  BY Zenon DEF CurrentInv, Loading
<1>2. CASE tf[cpu_current[0]] = NoFrame
  BY Zenon, <1>2 DEF trapframe_store
<1>3. CASE tf[cpu_current[0]] # NoFrame
  <2> DEFINE f == tf[cpu_current[0]]
  <2>1. f \in Progs /\ frame[f] = f /\ frame \in [Progs -> Progs]
    BY Zenon, <1>1, <1>3 DEF TypeInv, TypeOK, FrameTypes, FrameInv, OwnFrames
  <2>2. frame' = frame \/ frame' = [frame EXCEPT ![f] = f]
    BY Zenon, <1>1 DEF trapframe_store
  <2> HIDE DEF f
  <2> QED BY <2>1, <2>2
<1> QED BY Zenon, <1>2, <1>3

(* The frames are as they should be after a step that changes none of them   *)
(* and gives life to no slot whose program has gone.                         *)
LEMMA FramesKept ==
    ASSUME FrameInv, UNCHANGED <<tf, frame, progs>>, \A p \in gone' : p <= progs,
           \A s \in Slots : ~Dead(s)' => tf[s] # NoFrame /\ tf[s] \notin gone'
    PROVE  FrameInv'
BY Zenon DEF FrameInv, OwnFrames, OneSlot, OldFrames, LiveFrames

(* A step that changes no state, no frame and not the current agent.         *)
TargetLabels == {"commit", "place", "notify_once", "notify_init", "notify_set", "notify_lock",
                 "notify", "setup", "publish"}
Quiet(l) ==
    /\ UNCHANGED <<state, tf, frame, progs, gone, cpu_current>>
    /\ pc[0] # "boot" /\ pc'[0] = l /\ l # "boot"
    /\ l \in Busy => pc[0] \in Busy
    /\ l \notin Loading => \/ pc[0] \notin Loading /\ UNCHANGED code
                           \/ code'[0] = tf[cpu_current[0]]
    /\ l \in TargetLabels => TargetInv'

LEMMA QuietKeeps ==
    ASSUME ContextInv, NEW l, Quiet(l)
    PROVE  ContextInv'
<1>1. FrameInv'
  BY Zenon DEF ContextInv, Quiet, FrameInv, OwnFrames, OneSlot, OldFrames, LiveFrames, Dead
<1>2. CurrentInv'
  BY Zenon DEF ContextInv, Quiet, CurrentInv, Dead
<1>3. TargetInv'
  BY Zenon DEF Quiet, TargetInv, TargetLabels
<1> QED BY Zenon, <1>1, <1>2, <1>3 DEF ContextInv

(* The hart that goes to a label is there.                                   *)
LEMMA ToLabel == TypeInv => \A l : (Goto(0, l) => pc'[0] = l) /\ (kernel_halt => pc'[0] = "halted")
BY Zenon, Constants DEF TypeInv, TypeOK, HartTypes, Goto, kernel_halt

-----------------------------------------------------------------------------
(* The scheduler.                                                            *)
LEMMA QuietScheduler ==
    ASSUME TypeInv, ContextInv,
           \/ PickQueued(0) \/ PickScanned(0) \/ PickNone(0) \/ PickDone(0)
           \/ ReleaseAgain(0) \/ sched_halt_if_done(0) \/ smp_cpu_wait(0)
           \/ switch_to_agent(0) \/ sret(0)
    PROVE  ContextInv'
<1> USE DEF agentVars, frameVars
<1>1. ASSUME PickQueued(0) \/ PickScanned(0) PROVE Quiet("commit")
  <2>1. \E s \in Slots : state[s] = "RUNNABLE" /\ arg' = [arg EXCEPT ![0] = s]
    <3>1. CASE PickQueued(0)
      <4>1. PICK i \in Eligible(0) : arg' = [arg EXCEPT ![0] = cpu_rq[0][i]]
        BY Zenon, <3>1 DEF PickQueued
      <4>2. cpu_rq[0][i] \in Slots
        BY <4>1, Constants DEF Eligible, TypeInv, TypeOK, SchedTypes
      <4> QED BY Zenon, <4>1, <4>2 DEF Eligible
    <3>2. CASE PickScanned(0)
      BY Zenon, <3>2 DEF PickScanned, ScanSlots
    <3> QED BY Zenon, <1>1, <3>1, <3>2
  <2>2. state[arg'[0]] = "RUNNABLE"
    BY Zenon, <2>1, Constants DEF TypeInv, TypeOK, HartTypes
  <2>3. /\ UNCHANGED <<state, tf, frame, progs, gone, cpu_current, code>>
        /\ pc[0] = "pick" /\ pc'[0] = "commit"
    BY Zenon, <1>1, ToLabel DEF PickQueued, PickScanned
  <2>4. TargetInv'
    BY Zenon, <2>2, <2>3 DEF TargetInv, Dead
  <2> QED BY Zenon, <2>3, <2>4 DEF Quiet, Busy, Loading
<1>2. ASSUME PickNone(0) \/ PickDone(0) \/ ReleaseAgain(0) \/ sched_halt_if_done(0)
             \/ smp_cpu_wait(0)
      PROVE  \E l \in {"wait", "done", "release_again", "parked", "halted", "poll", "acquire", "wfi"} :
                Quiet(l)
  <2>1. /\ UNCHANGED <<state, tf, frame, progs, gone, cpu_current, code>>
        /\ pc[0] \in {"pick", "release_again", "done", "wait", "poll", "wfi"}
    BY Zenon, <1>2 DEF PickNone, PickDone, ReleaseAgain, sched_halt_if_done, smp_cpu_wait,
       EnterWait, Poll, Wakeup, TimerWakeup
  <2>2. pc'[0] \in {"wait", "done", "release_again", "parked", "halted", "poll", "acquire", "wfi"}
    BY Zenon, <1>2, ToLabel DEF PickNone, PickDone, ReleaseAgain, sched_halt_if_done, smp_cpu_wait,
       EnterWait, Poll, Wakeup, TimerWakeup
  <2> QED BY Zenon, <2>1, <2>2 DEF Quiet, Busy, Loading, TargetLabels
<1>3. ASSUME switch_to_agent(0) \/ sret(0) PROVE \E l \in {"user", "halted"} : Quiet(l)
  <2>1. UNCHANGED <<state, tf, frame, progs, gone, cpu_current>> /\ pc[0] \in {"switch", "sret"}
    BY Zenon, <1>3 DEF switch_to_agent, sret
  <2>2. CASE tf[cpu_current[0]] = NoFrame
    <3>1. pc'[0] = "halted"
      BY Zenon, <1>3, <2>2, ToLabel DEF switch_to_agent, sret, LoadFrame
    <3> QED BY Zenon, <2>1, <3>1 DEF Quiet, Busy, Loading, TargetLabels
  <2>3. CASE tf[cpu_current[0]] # NoFrame
    <3>1. pc'[0] = "user" /\ code'[0] = frame[tf[cpu_current[0]]]
      BY Zenon, <1>3, <2>3, ToLabel, Constants
         DEF switch_to_agent, sret, LoadFrame, TypeInv, TypeOK, HartTypes
    <3>2. cpu_current[0] \in Slots
      BY Zenon, <2>1 DEF ContextInv, CurrentInv
    <3>3. code'[0] = tf[cpu_current[0]]
      BY Zenon, <2>3, <3>1, <3>2 DEF ContextInv, FrameInv, OwnFrames, TypeInv, TypeOK, FrameTypes
    <3> QED BY Zenon, <2>1, <3>1, <3>3 DEF Quiet, Busy, Loading, TargetLabels
  <2> QED BY Zenon, <2>2, <2>3
<1> QED BY Zenon, <1>1, <1>2, <1>3, QuietKeeps

LEMMA SchedulerContext ==
    ASSUME TypeInv, ContextInv,
           scheduler_run_first(0) \/ Requeue(0) \/ PickMail(0) \/ Commit(0)
    PROVE  ContextInv'
<1> USE DEF agentVars, frameVars, ContextInv
<1>1. CASE scheduler_run_first(0)
  <2>1. /\ UNCHANGED <<tf, frame, progs, gone>> /\ pc[0] = "boot" /\ pc'[0] = "switch"
        /\ cpu_current'[0] = InitSlot /\ \A s \in Slots : Dead(s) => Dead(s)'
    BY Zenon, <1>1, ToLabel, Constants
       DEF scheduler_run_first, TypeInv, TypeOK, AgentTypes, SchedTypes, CurrentInv, Dead
  <2>2. ~Dead(InitSlot)'
    BY Zenon, <1>1, Constants DEF scheduler_run_first, TypeInv, TypeOK, AgentTypes, Dead
  <2>3. FrameInv'
    BY Zenon, <2>1, FramesKept DEF FrameInv, OldFrames, LiveFrames
  <2>4. CurrentInv' /\ TargetInv'
    BY Zenon, <2>1, <2>2, Constants DEF CurrentInv, TargetInv, Dead, Loading
  <2> QED BY Zenon, <2>3, <2>4
<1>2. CASE Requeue(0)
  <2>1. /\ UNCHANGED <<tf, progs, gone, cpu_current, code>> /\ pc[0] = "acquire" /\ pc'[0] = "pick"
        /\ trapframe_store(0)
    BY Zenon, <1>2, ToLabel DEF Requeue
  <2>2. frame' = frame
    BY Zenon, <2>1, StoreKeeps DEF Loading
  <2>3. \A s \in Slots : Dead(s) => Dead(s)'
    BY Zenon, <1>2 DEF Requeue, TypeInv, TypeOK, AgentTypes, Dead
  <2>4. FrameInv'
    BY Zenon, <2>1, <2>2, <2>3, FramesKept DEF FrameInv, OldFrames, LiveFrames
  <2>5. CurrentInv' /\ TargetInv'
    BY Zenon, <2>1 DEF CurrentInv, TargetInv, Loading, Busy
  <2> QED BY Zenon, <2>4, <2>5
<1>3. CASE PickMail(0)
  <2>1. PICK s \in MailSlots(0) : /\ state' = [state EXCEPT ![s] = "RUNNABLE"]
                                  /\ arg' = [arg EXCEPT ![0] = s]
    BY Zenon, <1>3 DEF PickMail
  <2>2. /\ UNCHANGED <<tf, frame, progs, gone, cpu_current, code>>
        /\ pc[0] = "pick" /\ pc'[0] = "commit"
    BY Zenon, <1>3, ToLabel DEF PickMail
  <2>3. s \in Slots /\ ~Dead(s)
    BY Zenon, <2>1 DEF MailSlots, sched_agent_has_inbox, Dead
  <2>4. arg'[0] = s /\ state'[s] = "RUNNABLE" /\ \A t \in Slots : Dead(t) => Dead(t)'
    BY Zenon, <2>1, <2>3, Constants DEF TypeInv, TypeOK, AgentTypes, HartTypes, Dead
  <2>5. FrameInv'
    BY Zenon, <2>2, <2>4, FramesKept DEF FrameInv, OldFrames, LiveFrames
  <2>6. CurrentInv' /\ TargetInv'
    BY Zenon, <2>2, <2>4 DEF CurrentInv, TargetInv, Loading, Busy, Dead
  <2> QED BY Zenon, <2>5, <2>6
<1>4. CASE Commit(0)
  <2> DEFINE s == arg[0]
  <2>1. /\ UNCHANGED <<tf, frame, progs, gone>> /\ pc[0] = "commit" /\ s \in Slots
        /\ state' = [state EXCEPT ![s] = "RUNNING"]
        /\ cpu_current' = [cpu_current EXCEPT ![0] = s]
    BY Zenon, <1>4, Constants DEF Commit, TypeInv, TypeOK, HartTypes
  <2>2. pc'[0] \in {"halted", "switch", "sret"}
    BY Zenon, <1>4, ToLabel DEF Commit
  <2>3. cpu_current'[0] = s /\ state'[s] = "RUNNING" /\ \A t \in Slots : Dead(t) => Dead(t)'
    BY Zenon, <2>1, Constants DEF TypeInv, TypeOK, AgentTypes, SchedTypes, TargetInv, Dead
  <2>4. FrameInv'
    BY Zenon, <2>1, <2>3, FramesKept DEF FrameInv, OldFrames, LiveFrames
  <2>5. CurrentInv' /\ TargetInv'
    BY Zenon, <2>1, <2>2, <2>3 DEF CurrentInv, TargetInv, Loading, Dead
  <2> QED BY Zenon, <2>4, <2>5
<1> QED BY Zenon, <1>1, <1>2, <1>3, <1>4

-----------------------------------------------------------------------------
(* The system calls.                                                         *)
LEMMA QuietCalls ==
    ASSUME TypeInv, ContextInv,
           \/ SsiTrap(0) \/ Yield(0) \/ PlainCall(0) \/ agent_recv(0) \/ CreateFails(0)
           \/ SyscallReturn(0) \/ NotifyTest(0) \/ Place(0) \/ \E d \in Slots : agent_send(0, d)
           \/ sched_lock_init_once(0)
    PROVE  ContextInv'
<1> USE DEF agentVars, frameVars
<1> DEFINE Calm == UNCHANGED <<state, tf, frame, progs, gone, cpu_current, code>>
<1>1. ASSUME SsiTrap(0) PROVE Quiet("user")
  BY Zenon, <1>1 DEF SsiTrap, Quiet, Loading, TargetLabels
<1>2. ASSUME Yield(0) PROVE \E l \in {"acquire", "once"} : Quiet(l)
  <2>1. /\ UNCHANGED <<state, tf, progs, gone, cpu_current, code>> /\ trapframe_store(0)
        /\ pc[0] = "user" /\ pc'[0] \in {"acquire", "once"}
    BY Zenon, <1>2, ToLabel DEF Yield, IfInited
  <2>2. frame' = frame
    BY Zenon, <2>1, StoreKeeps DEF ContextInv, Loading
  <2> QED BY Zenon, <2>1, <2>2 DEF Quiet, Loading, Busy, TargetLabels
<1>3. ASSUME PlainCall(0) \/ agent_recv(0) \/ CreateFails(0) PROVE Quiet("sysret")
  <2>1. Calm /\ pc[0] \in {"user", "setup", "publish"} /\ pc'[0] = "sysret"
    BY Zenon, <1>3, ToLabel DEF PlainCall, agent_recv, CreateFails
  <2> QED BY Zenon, <2>1 DEF Quiet, Loading, Busy, TargetLabels
<1>4. ASSUME SyscallReturn(0) PROVE \E l \in {"user", "halted"} : Quiet(l)
  <2>1. /\ UNCHANGED <<state, tf, progs, gone, cpu_current, code>> /\ trapframe_store(0)
        /\ pc[0] = "sysret" /\ pc'[0] \in {"user", "halted"}
    BY Zenon, <1>4, ToLabel DEF SyscallReturn
  <2>2. frame' = frame
    BY Zenon, <2>1, StoreKeeps DEF ContextInv, Loading
  <2> QED BY Zenon, <2>1, <2>2 DEF Quiet, Loading, Busy, TargetLabels
<1>5. ASSUME NotifyTest(0) PROVE \E l \in {"sysret", "notify_lock", "notify_once"} : Quiet(l)
  <2>1. Calm /\ UNCHANGED arg /\ pc[0] = "notify"
    BY Zenon, <1>5 DEF NotifyTest
  <2>2. CASE state[arg[0]] = "ZOMBIE"
    <3>1. pc'[0] = "sysret"
      BY Zenon, <1>5, <2>2, ToLabel DEF NotifyTest
    <3> QED BY Zenon, <2>1, <3>1 DEF Quiet, Loading, Busy, TargetLabels
  <2>3. CASE state[arg[0]] # "ZOMBIE"
    <3>1. pc'[0] \in {"notify_lock", "notify_once"}
      BY Zenon, <1>5, <2>3, ToLabel DEF NotifyTest, IfInited
    <3>2. TargetInv'
      BY Zenon, <2>1, <2>3, <3>1 DEF ContextInv, TargetInv, Dead
    <3> QED BY Zenon, <2>1, <3>1, <3>2 DEF Quiet, Loading, Busy
  <2> QED BY Zenon, <2>2, <2>3
<1>6. ASSUME Place(0) PROVE Quiet("notify")
  <2>1. Calm /\ UNCHANGED arg /\ pc[0] = "place" /\ pc'[0] = "notify"
    BY Zenon, <1>6, ToLabel DEF Place
  <2>2. TargetInv'
    BY Zenon, <2>1 DEF ContextInv, TargetInv, Dead
  <2> QED BY Zenon, <2>1, <2>2 DEF Quiet, Loading, Busy
<1>7. ASSUME NEW d \in Slots, agent_send(0, d) PROVE Quiet("notify")
  <2>1. /\ Calm /\ state[d] # "UNUSED" /\ arg' = [arg EXCEPT ![0] = d]
        /\ pc[0] = "user" /\ pc'[0] = "notify"
    BY Zenon, <1>7, ToLabel DEF agent_send
  <2>2. arg'[0] = d
    BY Zenon, <2>1, Constants DEF TypeInv, TypeOK, HartTypes
  <2>3. TargetInv'
    BY Zenon, <2>1, <2>2 DEF TargetInv
  <2> QED BY Zenon, <2>1, <2>3 DEF Quiet, Loading, Busy
<1>8. ASSUME sched_lock_init_once(0)
      PROVE  \E l \in {"lock_init", "set_inited", "acquire",
                       "notify_init", "notify_set", "notify_lock"} : Quiet(l)
  <2>1. Calm /\ UNCHANGED arg
    BY Zenon, <1>8 DEF sched_lock_init_once, TestInited, spinlock_init, SetInited
  <2>2. CASE pc[0] \in {"once", "lock_init", "set_inited"}
    <3>1. pc'[0] \in {"lock_init", "set_inited", "acquire"}
      BY Zenon, <1>8, <2>2, ToLabel DEF sched_lock_init_once, TestInited, spinlock_init,
         SetInited, IfInited
    <3> QED BY Zenon, <2>1, <2>2, <3>1 DEF Quiet, Loading, Busy, TargetLabels
  <2>3. CASE pc[0] \in {"notify_once", "notify_init", "notify_set"}
    <3>1. pc'[0] \in {"notify_init", "notify_set", "notify_lock"}
      BY Zenon, <1>8, <2>3, ToLabel DEF sched_lock_init_once, TestInited, spinlock_init,
         SetInited, IfInited
    <3>2. TargetInv'
      BY Zenon, <2>1, <2>3, <3>1 DEF ContextInv, TargetInv, Dead
    <3> QED BY Zenon, <2>1, <2>3, <3>1, <3>2 DEF Quiet, Loading, Busy
  <2> QED BY Zenon, <1>8, <2>2, <2>3 DEF sched_lock_init_once, TestInited, spinlock_init, SetInited
<1> QED BY Zenon, <1>1, <1>2, <1>3, <1>4, <1>5, <1>6, <1>7, <1>8, QuietKeeps

(* A program that goes takes its slot with it, and no other slot has its     *)
(* frame.                                                                    *)
LEMMA GoingContext ==
    ASSUME OneHart, TypeInv, ContextInv, agent_exit(0) \/ \E d \in Slots : agent_destroy(0, d)
    PROVE  ContextInv'
<1> USE DEF agentVars, frameVars
<1> DEFINE s == cpu_current[0]
<1>0. /\ pc[0] = "user" /\ s \in Slots /\ code[0] = tf[s] /\ ~Dead(s)
      /\ tf[s] # NoFrame /\ tf[s] \notin gone
  <2>1. pc[0] = "user"
    BY Zenon DEF agent_exit, agent_destroy
  <2>2. s \in Slots /\ code[0] = tf[s] /\ ~Dead(s)
    BY Zenon, <2>1 DEF ContextInv, CurrentInv, Busy, Loading
  <2> QED BY Zenon, <2>1, <2>2 DEF ContextInv, FrameInv, LiveFrames
(* The frames, when the slot d goes.                                         *)
<1>1. ASSUME NEW d \in Slots, UNCHANGED <<tf, frame, progs>>,
             state' = [state EXCEPT ![d] = "ZOMBIE"], gone' = gone \cup ({tf[d]} \ {NoFrame})
      PROVE  FrameInv'
  <2>1. state'[d] = "ZOMBIE" /\ \A t \in Slots : t # d => state'[t] = state[t]
    BY Zenon, <1>1 DEF TypeInv, TypeOK, AgentTypes
  <2>2. \A p \in gone' : p <= progs
    BY Zenon, <1>1 DEF ContextInv, FrameInv, OldFrames
  <2>3. ASSUME NEW t \in Slots, ~Dead(t)' PROVE tf[t] # NoFrame /\ tf[t] \notin gone'
    <3>1. t # d
      BY Zenon, <2>1, <2>3 DEF Dead
    <3>2. tf[t] # NoFrame /\ tf[t] \notin gone
      BY Zenon, <2>1, <2>3, <3>1 DEF Dead, ContextInv, FrameInv, LiveFrames
    <3>3. tf[t] # tf[d]
      BY Zenon, <3>1, <3>2 DEF ContextInv, FrameInv, OneSlot
    <3> QED BY Zenon, <1>1, <3>2, <3>3
  <2> QED BY Zenon, <1>1, <2>2, <2>3, FramesKept DEF ContextInv
<1>2. CASE agent_exit(0)
  <2>1. /\ UNCHANGED <<tf, progs, cpu_current, code>> /\ pc'[0] \in {"acquire", "once"}
        /\ trapframe_store(0)
        /\ state' = [state EXCEPT ![s] = "ZOMBIE"] /\ gone' = gone \cup {tf[s]}
    BY Zenon, <1>0, <1>2, ToLabel DEF agent_exit, IfInited
  <2>2. frame' = frame
    BY Zenon, <1>0, <2>1, StoreKeeps DEF ContextInv, Loading
  <2>3. gone' = gone \cup ({tf[s]} \ {NoFrame})
    BY Zenon, <1>0, <2>1
  <2>4. FrameInv'
    BY Zenon, <1>0, <1>1, <2>1, <2>2, <2>3
  <2>5. CurrentInv' /\ TargetInv'
    BY Zenon, <1>0, <2>1 DEF CurrentInv, TargetInv, Loading, Busy
  <2> QED BY Zenon, <2>4, <2>5 DEF ContextInv
<1>3. ASSUME NEW d \in Slots, agent_destroy(0, d) PROVE ContextInv'
  <2>1. /\ UNCHANGED <<tf, frame, progs, cpu_current, code>> /\ pc'[0] = "sysret" /\ d # s
        /\ state' = [state EXCEPT ![d] = "ZOMBIE"] /\ gone' = gone \cup ({tf[d]} \ {NoFrame})
    BY Zenon, <1>3, ToLabel DEF agent_destroy, OneHart
  <2>2. ~Dead(s)'
    BY Zenon, <1>0, <2>1 DEF Dead, TypeInv, TypeOK, AgentTypes
  <2>3. CurrentInv' /\ TargetInv'
    BY Zenon, <1>0, <2>1, <2>2 DEF CurrentInv, TargetInv, Dead
  <2> QED BY Zenon, <1>1, <2>1, <2>3 DEF ContextInv
<1> QED BY Zenon, <1>2, <1>3

(* A create works on a slot that is not in use, with a frame never used      *)
(* before, until Publish; Notify wakes a slot that is in use.                *)
LEMMA CreateContext ==
    ASSUME TypeInv, ContextInv,
           agent_alloc_id(0) \/ agent_setup_stack(0) \/ Publish(0) \/ Notify(0)
    PROVE  ContextInv'
<1> USE DEF agentVars, frameVars
<1> DEFINE c == cpu_current[0]
<1>0. c \in Slots /\ code[0] = tf[c] /\ ~Dead(c) /\ arg[0] \in Slots
  <2>1. pc[0] \in {"user", "setup", "publish", "notify_lock"}
    BY Zenon DEF agent_alloc_id, agent_setup_stack, Publish, Notify
  <2> QED BY Zenon, <2>1, Constants
          DEF ContextInv, CurrentInv, Busy, Loading, TypeInv, TypeOK, HartTypes
<1>1. CASE agent_alloc_id(0)
  <2>1. PICK s \in Free : /\ arg' = [arg EXCEPT ![0] = s] /\ tf' = [tf EXCEPT ![s] = NoFrame]
    BY Zenon, <1>1 DEF agent_alloc_id
  <2>2. /\ UNCHANGED <<state, frame, progs, gone, cpu_current, code>> /\ pc'[0] = "setup"
        /\ s \in Slots /\ Dead(s) /\ s # c
    BY Zenon, <1>0, <1>1, <2>1, ToLabel DEF agent_alloc_id, Free, Dead
  <2>3. arg'[0] = s /\ tf'[s] = NoFrame /\ \A t \in Slots : t # s => tf'[t] = tf[t]
    BY Zenon, <2>1, <2>2, Constants DEF TypeInv, TypeOK, HartTypes, FrameTypes
  <2>4. tf'[s] <= progs
    BY <2>3 DEF NoFrame, TypeInv, TypeOK, FrameTypes
  <2>5. OwnFrames' /\ OneSlot' /\ OldFrames'
    <3>1. OwnFrames /\ OneSlot /\ OldFrames
      BY Zenon DEF ContextInv, FrameInv
    <3>2. OwnFrames'
      BY ZenonT(60), <2>2, <3>1 DEF OwnFrames
    <3>3. OneSlot'
      BY ZenonT(60), <2>2, <2>3, <3>1 DEF OneSlot
    <3>4. OldFrames'
      BY ZenonT(60), <2>2, <2>3, <2>4, <3>1 DEF OldFrames
    <3> QED
      BY Zenon, <3>2, <3>3, <3>4
  <2>6. LiveFrames'
    BY ZenonT(60), <2>2, <2>3 DEF ContextInv, FrameInv, LiveFrames, Dead
  <2>7. CurrentInv' /\ TargetInv'
    BY Zenon, <1>0, <2>2, <2>3 DEF CurrentInv, TargetInv, Dead
  <2> QED BY Zenon, <2>5, <2>6, <2>7 DEF ContextInv, FrameInv
<1>2. CASE agent_setup_stack(0)
  <2> DEFINE s == arg[0]
             n == progs + 1
  <2>1. /\ UNCHANGED <<state, gone, cpu_current, code, arg>> /\ pc[0] = "setup"
        /\ pc'[0] = "publish" /\ Dead(s) /\ s # c
        /\ progs' = n /\ frame' = [frame EXCEPT ![n] = n] /\ tf' = [tf EXCEPT ![s] = n]
    BY Zenon, <1>0, <1>2, ToLabel DEF agent_setup_stack, ContextInv, TargetInv
  <2>2. n # NoFrame /\ n \in Progs /\ progs \in Nat
    <3>1. progs < MAX_PROGS /\ progs \in 0..MAX_PROGS
      BY Zenon, <1>2 DEF agent_setup_stack, TypeInv, TypeOK, FrameTypes
    <3> QED BY <3>1, SizeAssumption DEF NoFrame, Progs
  <2>3. (\A t \in Slots : tf[t] <= n) /\ \A p \in gone : p <= n
    <3>1. /\ \A t \in Slots : tf[t] <= progs /\ tf[t] \in Progs \cup {NoFrame}
          /\ \A p \in gone : p <= progs /\ p \in Progs
      BY Zenon DEF ContextInv, FrameInv, OldFrames, TypeInv, TypeOK, FrameTypes
    <3>2. \A i \in Progs \cup {NoFrame} : i <= progs => i <= n
      BY <2>2 DEF Progs, NoFrame
    <3> QED BY Zenon, <3>1, <3>2
  <2>4. n <= n
    BY DEF TypeInv, TypeOK, FrameTypes
  <2>5. /\ tf'[s] = n /\ \A t \in Slots : t # s => tf'[t] = tf[t]
        /\ \A f \in Progs : frame'[f] = IF f = n THEN n ELSE frame[f]
    BY Zenon, <1>0, <2>1, <2>2 DEF TypeInv, TypeOK, FrameTypes
  <2>6. (\A t \in Slots : tf[t] # n) /\ n \notin gone
    BY <2>2 DEF ContextInv, FrameInv, OldFrames, TypeInv, TypeOK, FrameTypes, Progs, NoFrame
  <2> HIDE DEF n
  <2>7. OwnFrames'
    BY Zenon, <2>5 DEF ContextInv, FrameInv, OwnFrames
  <2>8. OneSlot'
    <3> SUFFICES ASSUME NEW t \in Slots, NEW u \in Slots, tf'[t] # NoFrame, tf'[t] = tf'[u], t # u
                 PROVE  FALSE
      BY Zenon DEF OneSlot
    <3>1. tf'[t] = tf[t] /\ tf'[u] = tf[u]
      BY ZenonT(60), <2>5, <2>6
    <3> QED BY Zenon, <3>1 DEF ContextInv, FrameInv, OneSlot
  <2>9. OldFrames'
    BY Zenon, <2>1, <2>3, <2>4, <2>5 DEF OldFrames
  <2>10. LiveFrames'
    <3> SUFFICES ASSUME NEW t \in Slots, ~Dead(t)' PROVE tf'[t] # NoFrame /\ tf'[t] \notin gone
      BY Zenon, <2>1 DEF LiveFrames
    <3>1. ~Dead(t) /\ t # s
      BY Zenon, <2>1 DEF Dead
    <3> QED BY Zenon, <2>5, <3>1 DEF ContextInv, FrameInv, LiveFrames
  <2>11. CurrentInv' /\ TargetInv'
    <3>1. tf'[s] # NoFrame /\ tf'[s] \notin gone
      BY Zenon, <2>2, <2>5, <2>6
    <3>2. tf'[c] = tf[c]
      BY Zenon, <1>0, <2>1, <2>5
    <3>3. CurrentInv'
      BY Zenon, <1>0, <2>1, <3>2 DEF CurrentInv, Dead
    <3>4. TargetInv'
      <4>1. arg' = arg /\ gone' = gone /\ state' = state /\ pc'[0] = "publish" /\ Dead(s)
        BY Zenon, <2>1
      <4>2. tf'[arg'[0]] # NoFrame /\ tf'[arg'[0]] \notin gone' /\ Dead(s)'
        BY <3>1, <4>1 DEF Dead
      <4> QED BY Zenon, <4>1, <4>2 DEF TargetInv
    <3> QED BY Zenon, <3>3, <3>4
  <2> QED BY Zenon, <2>7, <2>8, <2>9, <2>10, <2>11 DEF ContextInv, FrameInv
<1>3. CASE Publish(0) \/ Notify(0)
  <2> DEFINE s == arg[0]
  <2>1. /\ UNCHANGED <<tf, frame, progs, gone, cpu_current, code, arg>>
        /\ state' = [state EXCEPT ![s] = "RUNNABLE"]
        /\ pc[0] \in {"publish", "notify_lock"} /\ pc'[0] \in {"place", "sysret"}
    BY Zenon, <1>3, ToLabel DEF Publish, Notify
  <2>2. state'[s] = "RUNNABLE" /\ \A t \in Slots : t # s => state'[t] = state[t]
    BY Zenon, <1>0, <2>1 DEF TypeInv, TypeOK, AgentTypes
  <2>3. tf[s] # NoFrame /\ tf[s] \notin gone
    BY Zenon, <1>0, <2>1 DEF ContextInv, TargetInv, FrameInv, LiveFrames
  <2>4. \A t \in Slots : ~Dead(t)' => tf[t] # NoFrame /\ tf[t] \notin gone'
    BY Zenon, <2>1, <2>2, <2>3 DEF ContextInv, FrameInv, LiveFrames, Dead
  <2>5. FrameInv'
    BY Zenon, <2>1, <2>4, FramesKept DEF ContextInv, FrameInv, OldFrames
  <2>6. ~Dead(c)'
    BY Zenon, <1>0, <2>1, <2>2 DEF Dead
  <2>7. CurrentInv' /\ TargetInv'
    BY Zenon, <1>0, <2>1, <2>2, <2>6 DEF CurrentInv, TargetInv, Dead
  <2> QED BY Zenon, <2>5, <2>7 DEF ContextInv
<1> QED BY Zenon, <1>1, <1>2, <1>3

-----------------------------------------------------------------------------
LEMMA ContextInit == Init => ContextInv
<1> SUFFICES ASSUME Init PROVE ContextInv
  OBVIOUS
<1> USE Constants DEF Init
<1>1. pc[0] = "boot" /\ state[InitSlot] = "CREATED"
  BY Zenon
<1>2. CurrentInv /\ TargetInv
  BY Zenon, <1>1 DEF CurrentInv, TargetInv, Dead, Loading, Busy
<1>3. \A s \in Slots : tf[s] = IF s = InitSlot \/ IsStarted(s) THEN s ELSE NoFrame
  BY Zenon
<1>4. OwnFrames /\ OneSlot
  BY Zenon, <1>3 DEF OwnFrames, OneSlot
<1>5. \A s \in Slots : s <= progs /\ NoFrame <= progs
  BY DEF Slots, NoFrame
<1>6. OldFrames
  BY Zenon, <1>3, <1>5 DEF OldFrames
<1>7. InitSlot # NoFrame /\ \A s \in Slots : IsStarted(s) => s # NoFrame
  BY BootAssumption DEF IsStarted, NoFrame, InitSlot
<1>8. LiveFrames
  BY Zenon, <1>3, <1>7 DEF LiveFrames, Dead
<1> QED BY Zenon, <1>2, <1>4, <1>6, <1>8 DEF ContextInv, FrameInv

LEMMA ContextNext == OneHart /\ TypeInv /\ ContextInv /\ [Next]_vars => ContextInv'
<1> SUFFICES ASSUME OneHart, TypeInv, ContextInv, [Next]_vars PROVE ContextInv'
  OBVIOUS
<1>1. CASE UNCHANGED vars
  BY Zenon, <1>1 DEF vars, ContextInv, FrameInv, OwnFrames, OneSlot, OldFrames, LiveFrames,
     CurrentInv, TargetInv, Dead
<1>2. CASE Next
  <2>1. Harts = {0}
    BY DEF OneHart, Harts
  <2>2. Kernel(0) \/ Yield(0) \/ Program(0) \/ SsiTrap(0)
    BY Zenon, <1>2, <2>1 DEF Next
  <2> QED BY Zenon, <2>2, QuietScheduler, SchedulerContext, QuietCalls, GoingContext, CreateContext
          DEF Kernel, Program, schedule_trap, sched_notify_runnable, agent_create
<1> QED BY Zenon, <1>1, <1>2

LEMMA ContextInvariant == ASSUME OneHart PROVE Spec => []ContextInv
<1>1. Init => ContextInv
  BY Zenon, ContextInit
<1>2. TypeInv /\ ContextInv /\ [Next]_vars => ContextInv'
  BY Zenon, ContextNext
<1> QED BY <1>1, <1>2, TypeInvariant, PTL DEF Spec

(* On one hart trap_handler, schedule_trap and agent_create never mix two    *)
(* programs up, for any number of slots, services and programs: what runs in *)
(* user mode is the program agent_create gave the current slot, although     *)
(* slots, and their trapframe pointers, are used again.                      *)
THEOREM OneHartOwnContext == ASSUME OneHart PROVE Spec => []OwnContext
<1>1. ContextInv => OwnContext
  <2> SUFFICES ASSUME ContextInv, NEW h \in Harts, pc[h] = "user"
               PROVE  code[h] = tf[cpu_current[h]]
    BY Zenon DEF OwnContext
  <2>1. h = 0
    BY DEF OneHart, Harts
  <2> QED BY Zenon, <2>1 DEF ContextInv, CurrentInv, Loading
<1> QED BY <1>1, ContextInvariant, PTL

(* On one hart agent_exit does not return and a destroyed agent never runs   *)
(* again, whatever mail is sent to its slot and whoever is created in it.    *)
THEOREM OneHartGoneStaysGone == ASSUME OneHart PROVE Spec => []GoneNeverRuns
<1>1. ContextInv => GoneNeverRuns
  <2> SUFFICES ASSUME ContextInv, NEW h \in Harts, pc[h] = "user" PROVE code[h] \notin gone
    BY Zenon DEF GoneNeverRuns
  <2>1. h = 0
    BY DEF OneHart, Harts
  <2>2. cpu_current[0] \in Slots /\ ~Dead(cpu_current[0]) /\ code[0] = tf[cpu_current[0]]
    BY Zenon, <2>1 DEF ContextInv, CurrentInv, Loading, Busy
  <2> QED BY Zenon, <2>1, <2>2 DEF ContextInv, FrameInv, LiveFrames
<1> QED BY <1>1, ContextInvariant, PTL
==============================================================================
