-------------------------- MODULE SchedQueueProofs --------------------------
(* The scheduler lock of kernel/sched.c and the run queues it protects: who  *)
(* is inside the critical section, what a shutdown leaves behind, and where  *)
(* every RUNNABLE agent is to be found.                                      *)
EXTENDS SchedProofs

Critical == {"pick", "commit"}
(* A hart that found nothing left to run; it releases the lock a second time *)
(* when it comes from schedule_trap.                                         *)
EndLabels == {"release_again", "done", "parked"}
Ending == \E k \in Harts : pc[k] \in EndLabels

(* Until then the lock word is set while a hart is in the critical section,  *)
(* and there is one such hart.                                               *)
LockInv ==
    /\ FirstUseAlone
    /\ ~Ending => /\ \A k \in Harts : pc[k] \in Critical => sched_lock
                  /\ LockExclusion

Gone(s) == state[s] \in {"UNUSED", "ZOMBIE"}

(* Slot 0 is in nobody's hands.                                              *)
ZeroUnused ==
    /\ state[0] = "UNUSED"
    /\ \A k \in Harts : /\ cpu_current[k] # 0 /\ ~InQueue(cpu_rq[k], 0)
                        /\ pc[k] \in InCreate \cup Holding => arg[k] # 0
(* The agent a hart works for is alive; the boot hart starts the scheduler.  *)
BusyAlive == \A k \in Harts : pc[k] \in Busy => ~Gone(cpu_current[k])
ReadyAfterBoot == kernel_sched_ready => \A k \in Harts : pc[k] # "boot"
(* Nothing runs, or is about to, once a hart has found nothing left to run.  *)
EndInv == Ending => /\ \A s \in Slots : Gone(s)
                    /\ \A k \in Harts : pc[k] \notin Busy \cup {"commit", "boot"}

(* No queue names a slot twice.                                              *)
Distinct(q) == \A i, j \in 1..Len(q) : q[i] = q[j] => i = j
NoDuplicates == \A k \in Harts : Distinct(cpu_rq[k])
(* The length test of sched_rq_add_locked drops nobody: a queue of distinct  *)
(* slots that misses one of them is not full.                                *)
QueuesHaveRoom ==
    \A q \in Seq(Slots), s \in Slots : Distinct(q) /\ ~InQueue(q, s) => Len(q) < MAX_AGENTS
(* Every RUNNABLE agent is queued on its home hart or in some hart's hands.  *)
Queued(s) == InQueue(cpu_rq[home_cpu[s]], s)
HeldLabels == {"place", "notify", "notify_once", "notify_init", "notify_set", "notify_lock",
               "commit"}
Held(s) == \E k \in Harts : arg[k] = s /\ pc[k] \in HeldLabels
RunnableFound == \A s \in Slots : state[s] = "RUNNABLE" => Queued(s) \/ Held(s)

QueueInv == NoDuplicates /\ RunnableFound
-----------------------------------------------------------------------------
(* Hart h goes from a label of A to one of B.                                *)
Moved(h, A, B) == pc[h] \in A /\ \E l \in B : pc' = [pc EXCEPT ![h] = l]
Outside == Labels \ (Critical \cup EndLabels)

(* How a step enters and leaves the critical section, and what it does to    *)
(* the lock word.                                                            *)
LockFlow(h) ==
    \/ kernel_halt
    \/ Moved(h, {"acquire"}, {"pick"}) /\ ~sched_lock /\ sched_lock'
    \/ Moved(h, {"pick"}, {"commit"}) /\ sched_lock' = sched_lock
    \/ Moved(h, Critical, Outside) /\ ~sched_lock'
    \/ Moved(h, {"lock_init", "notify_init"}, Outside) /\ ~sched_lock'
    \/ PickDone(h)
    \/ Moved(h, EndLabels, EndLabels)
    \/ Moved(h, Outside, Outside) /\ sched_lock' = sched_lock

LEMMA LockSteps ==
    ASSUME TypeInv, NEW h \in Harts, Kernel(h) \/ Yield(h) \/ Program(h) \/ SsiTrap(h)
    PROVE  LockFlow(h)
<1> USE DEF Goto, Moved
<1>0. /\ {"sret", "switch", "user", "wait", "poll", "wfi", "acquire", "notify", "notify_lock",
          "setup", "publish", "place", "sysret", "boot", "once", "lock_init", "set_inited",
          "notify_once", "notify_init", "notify_set"} \subseteq Outside
      /\ "pick" \in Critical /\ "commit" \in Critical
      /\ {"release_again", "done", "parked"} \subseteq EndLabels
  BY ZenonT(60) DEF Outside, Labels, Critical, EndLabels
<1>1. CASE scheduler_run_first(h)
  BY Zenon, <1>0, <1>1 DEF scheduler_run_first, LockFlow, schedVars
<1>2. CASE Requeue(h) \/ PickMail(h) \/ PickQueued(h) \/ PickScanned(h)
  BY Zenon, <1>2 DEF Requeue, PickMail, PickQueued, PickScanned, LockFlow, schedVars
<1>3. CASE PickNone(h) \/ PickDone(h) \/ ReleaseAgain(h) \/ sched_halt_if_done(h)
  BY Zenon, <1>0, <1>3 DEF PickNone, ReleaseAgain, sched_halt_if_done, LockFlow
<1>4. CASE Commit(h) \/ switch_to_agent(h) \/ sret(h)
  BY Zenon, <1>0, <1>4 DEF Commit, switch_to_agent, sret, LoadFrame, LockFlow, schedVars
<1>5. CASE smp_cpu_wait(h)
  BY Zenon, <1>0, <1>5 DEF smp_cpu_wait, EnterWait, Poll, Wakeup, TimerWakeup, LockFlow, schedVars
<1>6. CASE sched_notify_runnable(h) \/ agent_create(h) \/ SyscallReturn(h)
  BY Zenon, <1>0, <1>6 DEF sched_notify_runnable, NotifyTest, Notify, agent_create, IfInited,
     agent_setup_stack, CreateFails, Publish, Place, SyscallReturn, LockFlow, schedVars
<1>7. CASE Yield(h) \/ Program(h)
  BY Zenon, <1>0, <1>7 DEF Yield, Program, PlainCall, agent_exit, agent_recv, agent_alloc_id,
     agent_send, agent_destroy, IfInited, LockFlow, schedVars
<1>8. CASE SsiTrap(h)
  <2>1. pc' = [pc EXCEPT ![h] = "user"]
    BY Zenon, <1>8 DEF SsiTrap, TypeInv, TypeOK, HartTypes
  <2> QED BY Zenon, <1>0, <1>8, <2>1 DEF SsiTrap, LockFlow, schedVars
<1>9. CASE sched_lock_init_once(h)
  <2>1. CASE TestInited(h)
    BY Zenon, <1>0, <2>1 DEF TestInited, IfInited, LockFlow, schedVars
  <2>2. CASE spinlock_init(h)
    BY Zenon, <1>0, <2>2 DEF spinlock_init, LockFlow
  <2>3. CASE SetInited(h)
    BY Zenon, <1>0, <2>3 DEF SetInited, LockFlow, schedVars
  <2> QED BY Zenon, <1>9, <2>1, <2>2, <2>3 DEF sched_lock_init_once
<1> QED BY Zenon, <1>1, <1>2, <1>3, <1>4, <1>5, <1>6, <1>7, <1>8, <1>9
        DEF Kernel, schedule_trap

(* The lock stays with the hart in the critical section.                     *)
LEMMA LockKept ==
    ASSUME TypeInv, LockInv, NEW h \in Harts, LockFlow(h), FirstUseAlone'
    PROVE  LockInv'
<1> USE DEF TypeInv, TypeOK, HartTypes
<1>1. CASE kernel_halt
  BY Zenon, <1>1 DEF kernel_halt, LockInv, LockExclusion, Critical
<1>2. ASSUME NEW l \in Labels, pc' = [pc EXCEPT ![h] = l]
      PROVE  \A k \in Harts : pc'[k] = IF k = h THEN l ELSE pc[k]
  BY Zenon, <1>2
<1>3. CASE Moved(h, {"acquire"}, {"pick"}) /\ ~sched_lock /\ sched_lock'
  <2>1. \A k \in Harts : pc'[k] = IF k = h THEN "pick" ELSE pc[k]
    BY Zenon, <1>2, <1>3 DEF Moved, Labels
  <2>2. Ending => Ending'
    BY Zenon, <1>3, <2>1 DEF Ending, EndLabels, Moved
  <2>3. ~Ending => \A k \in Harts : pc[k] \notin Critical
    BY Zenon, <1>3 DEF LockInv
  <2> QED BY Zenon, <1>3, <2>1, <2>2, <2>3 DEF LockInv, LockExclusion, Critical
<1>4. CASE Moved(h, {"pick"}, {"commit"}) /\ sched_lock' = sched_lock
  <2>1. \A k \in Harts : pc'[k] = IF k = h THEN "commit" ELSE pc[k]
    BY Zenon, <1>2, <1>4 DEF Moved, Labels
  <2>2. Ending => Ending'
    BY Zenon, <1>4, <2>1 DEF Ending, EndLabels, Moved
  <2>3. \A k \in Harts : pc'[k] \in Critical <=> pc[k] \in Critical
    BY Zenon, <1>4, <2>1 DEF Critical, Moved
  <2> QED BY Zenon, <1>4, <2>2, <2>3 DEF LockInv, LockExclusion, Critical
<1>5. CASE Moved(h, Critical, Outside) /\ ~sched_lock'
  <2>1. PICK l \in Outside : \A k \in Harts : pc'[k] = IF k = h THEN l ELSE pc[k]
    BY Zenon, <1>2, <1>5 DEF Moved, Outside
  <2>2. Ending => Ending'
    BY Zenon, <1>5, <2>1 DEF Ending, EndLabels, Moved, Critical
  <2>3. ~Ending => \A k \in Harts : pc'[k] \notin Critical
    BY Zenon, <1>5, <2>1 DEF LockInv, LockExclusion, Critical, Moved, Outside
  <2> QED BY Zenon, <2>2, <2>3 DEF LockInv, LockExclusion, Critical
<1>8. CASE Moved(h, {"lock_init", "notify_init"}, Outside) /\ ~sched_lock'
  <2>1. PICK l \in Outside : \A k \in Harts : pc'[k] = IF k = h THEN l ELSE pc[k]
    BY Zenon, <1>2, <1>8 DEF Moved, Outside
  <2>2. \A k \in Harts : pc[k] \notin Critical
    BY Zenon, <1>8 DEF LockInv, FirstUseAlone, Moved, Critical
  <2>3. \A k \in Harts : pc'[k] \notin Critical
    BY Zenon, <2>1, <2>2 DEF Outside
  <2> QED BY Zenon, <2>3 DEF LockInv, LockExclusion, Critical
<1>6. CASE PickDone(h) \/ Moved(h, EndLabels, EndLabels)
  <2>1. PICK l \in EndLabels : pc' = [pc EXCEPT ![h] = l]
    BY Zenon, <1>6 DEF PickDone, Goto, Moved, EndLabels
  <2>2. Ending'
    BY Zenon, <2>1 DEF Ending
  <2> QED BY Zenon, <2>2 DEF LockInv
<1>7. CASE Moved(h, Outside, Outside) /\ sched_lock' = sched_lock
  <2>1. PICK l \in Outside : \A k \in Harts : pc'[k] = IF k = h THEN l ELSE pc[k]
    BY Zenon, <1>2, <1>7 DEF Moved, Outside
  <2>2. Ending => Ending'
    BY Zenon, <1>7, <2>1 DEF Ending, Moved, Outside
  <2>3. \A k \in Harts : pc'[k] \in Critical <=> pc[k] \in Critical
    BY Zenon, <1>7, <2>1 DEF Moved, Outside
  <2> QED BY Zenon, <1>7, <2>2, <2>3 DEF LockInv, LockExclusion, Critical
<1> QED BY Zenon, <1>1, <1>3, <1>4, <1>5, <1>6, <1>7, <1>8 DEF LockFlow

(* An ordered behaviour is a behaviour.                                      *)
LEMMA Ordered == OrderedSpec => Spec
<1>1. [Next /\ FirstUseAlone']_vars => [Next]_vars
  OBVIOUS
<1> QED BY <1>1, PTL DEF OrderedSpec, Spec

(* The lock invariant holds throughout, for any number of harts, when nobody *)
(* initialises the lock under the hart that holds it.                        *)
LEMMA LockInvariant == OrderedSpec => []LockInv
<1>1. Init => LockInv
  BY Zenon DEF Init, LockInv, LockExclusion, FirstUseAlone, Critical, Ending, EndLabels
<1>2. TypeInv /\ LockInv /\ [Next /\ FirstUseAlone']_vars => LockInv'
  <2> SUFFICES ASSUME TypeInv, LockInv, [Next /\ FirstUseAlone']_vars PROVE LockInv'
    OBVIOUS
  <2>1. CASE UNCHANGED vars
    BY Zenon, <2>1 DEF vars, LockInv, LockExclusion, FirstUseAlone, Ending
  <2>2. CASE Next /\ FirstUseAlone'
    BY Zenon, <2>2, LockSteps, LockKept DEF Next
  <2> QED BY Zenon, <2>1, <2>2
<1> QED BY <1>1, <1>2, Ordered, TypeInvariant, PTL DEF OrderedSpec

(* The scheduler lock excludes on one and on two harts, the machines the     *)
(* second release of schedule_trap cannot upset: while a hart has ended      *)
(* there is at most one other.  The initialisation of sched_lock_init_once   *)
(* cannot upset it either, whichever harts find the lock uninitialised, in   *)
(* the behaviours in which none of them stops before spinlock_init until     *)
(* another has taken the lock (OrderedSpec).                                 *)
THEOREM LockExcludes == ASSUME NCPU <= 2 PROVE OrderedSpec => []LockExclusion
<1>1. TypeInv /\ LockInv => LockExclusion
  <2> SUFFICES ASSUME TypeInv, LockInv, NEW h \in Harts, NEW k \in Harts,
                      pc[h] \in Critical, pc[k] \in Critical
               PROVE  h = k
    BY Zenon DEF LockExclusion, Critical
  <2>1. CASE ~Ending
    BY Zenon, <2>1 DEF LockInv, LockExclusion, Critical
  <2>2. CASE Ending
    <3>1. PICK e \in Harts : e # h /\ e # k
      BY Zenon, <2>2 DEF Ending, EndLabels, Critical
    <3> QED BY <3>1, SizeAssumption DEF Harts
  <2> QED BY Zenon, <2>1, <2>2
<1> QED BY <1>1, Ordered, TypeInvariant, LockInvariant, PTL

-----------------------------------------------------------------------------
(* What a step of hart h that takes it to label l leaves of the agents: slot *)
(* 0 alone, and alive every agent but the one h runs; whoever h works for    *)
(* afterwards is alive.                                                      *)
Others(h, l) ==
    /\ pc' = [pc EXCEPT ![h] = l] /\ l # "boot"
    /\ \A k \in Harts : k # h => cpu_current'[k] = cpu_current[k] /\ arg'[k] = arg[k]
SparesZero(h, l) ==
    /\ state'[0] = state[0] /\ cpu_current'[h] # 0
    /\ \A k \in Harts : InQueue(cpu_rq'[k], 0) => InQueue(cpu_rq[k], 0)
    /\ l \in InCreate \cup Holding => arg'[h] # 0
SparesAlive(h, l) ==
    /\ \A t \in Slots : ~Gone(t) => ~Gone(t)' \/ t = cpu_current[h]
    /\ l \in Busy => ~Gone(cpu_current[h])'

Alive == ZeroUnused /\ BusyAlive

LEMMA AliveKept ==
    ASSUME TypeInv, Live, Alive, NEW h \in Harts, NEW l \in Labels, Others(h, l),
           SparesZero(h, l), SparesAlive(h, l)
    PROVE  Alive'
<1> USE DEF TypeInv, TypeOK, HartTypes
<1>0. \A k \in Harts : pc'[k] = IF k = h THEN l ELSE pc[k]
  BY Zenon DEF Others
<1>1. ZeroUnused'
  <2>1. \A k \in Harts : cpu_current'[k] # 0 /\ ~InQueue(cpu_rq'[k], 0)
    BY Zenon DEF Alive, ZeroUnused, Others, SparesZero
  <2>2. \A k \in Harts : pc'[k] \in InCreate \cup Holding => arg'[k] # 0
    BY Zenon, <1>0 DEF Alive, ZeroUnused, Others, SparesZero
  <2> QED BY Zenon, <2>1, <2>2 DEF ZeroUnused, Alive, SparesZero
<1>2. BusyAlive'
  <2> SUFFICES ASSUME NEW k \in Harts, pc'[k] \in Busy PROVE ~Gone(cpu_current[k])'
    BY Zenon DEF BusyAlive
  <2>1. CASE k = h
    BY Zenon, <1>0, <2>1 DEF SparesAlive, Gone
  <2>2. CASE k # h
    <3>1. pc[k] \in Busy /\ cpu_current'[k] = cpu_current[k]
      BY Zenon, <1>0, <2>2 DEF Others
    <3>2. cpu_current[k] \in Slots /\ ~Gone(cpu_current[k])
      BY Zenon, <3>1 DEF HasCurrent, Alive, BusyAlive
    <3>3. cpu_current[k] # cpu_current[h]
      BY Zenon, <2>2, <3>2 DEF Live, CurrentHome
    <3> QED BY Zenon, <3>1, <3>2, <3>3 DEF SparesAlive, Gone
  <2> QED BY Zenon, <2>1, <2>2
<1> QED BY Zenon, <1>1, <1>2 DEF Alive

(* A step that changes no agent and takes hart h to a label that names none. *)
LEMMA QuietAlive ==
    ASSUME TypeInv, Live, Alive, NEW h \in Harts, NEW l \in Labels,
           pc' = [pc EXCEPT ![h] = l], l # "boot", l \in Busy => pc[h] \in Busy,
           l \in InCreate \cup Holding => arg'[h] # 0,
           \A k \in Harts : k # h => arg'[k] = arg[k],
           UNCHANGED <<state, cpu_current, cpu_rq>>
    PROVE  Alive'
<1>1. Others(h, l) /\ SparesZero(h, l)
  BY Zenon DEF Others, SparesZero, Alive, ZeroUnused
<1>2. SparesAlive(h, l)
  BY Zenon DEF SparesAlive, Gone, Alive, BusyAlive
<1> QED BY Zenon, <1>1, <1>2, AliveKept

(* The steps that only move a hart on, or stop them all.                     *)
LEMMA QuietAliveSteps ==
    ASSUME TypeInv, Live, Alive, NEW h \in Harts,
           \/ PickNone(h) \/ PickDone(h) \/ ReleaseAgain(h) \/ sched_halt_if_done(h)
           \/ switch_to_agent(h) \/ sret(h) \/ smp_cpu_wait(h) \/ SsiTrap(h)
           \/ Yield(h) \/ PlainCall(h) \/ agent_recv(h) \/ CreateFails(h)
           \/ SyscallReturn(h) \/ sched_lock_init_once(h)
    PROVE  Halted' \/ Alive'
<1> DEFINE MovesOn(l) == /\ pc' = [pc EXCEPT ![h] = l] /\ \A k \in Harts : k # h => arg'[k] = arg[k]
                         /\ UNCHANGED <<state, cpu_current, cpu_rq>>
<1>1. ASSUME NEW l \in {"wait", "done", "release_again", "parked", "poll", "acquire", "wfi",
                        "once", "lock_init", "set_inited"},
             MovesOn(l)
      PROVE  Alive'
  <2>1. l \in Labels /\ l \notin InCreate \cup Holding \cup {"boot"} /\ l \notin Busy
    BY Zenon, <1>1 DEF Labels, InCreate, Holding, Busy
  <2> QED BY Zenon, <1>1, <2>1, QuietAlive
<1>2. ASSUME NEW l \in {"user", "sysret"}, pc[h] \in Busy, MovesOn(l)
      PROVE  Alive'
  <2>1. l \in Labels /\ l \notin InCreate \cup Holding \cup {"boot"}
    BY Zenon, <1>2 DEF Labels, InCreate, Holding
  <2> QED BY Zenon, <1>2, <2>1, QuietAlive
<1>3. kernel_halt => Halted'
  BY Zenon DEF kernel_halt, Halted
<1> USE DEF Goto, agentVars, schedVars
<1>4. CASE PickNone(h) \/ PickDone(h) \/ ReleaseAgain(h)
  BY Zenon, <1>1, <1>4 DEF PickNone, PickDone, ReleaseAgain
<1>5. CASE sched_halt_if_done(h)
  BY Zenon, <1>1, <1>3, <1>5 DEF sched_halt_if_done
<1>6. CASE switch_to_agent(h) \/ sret(h)
  BY Zenon, <1>2, <1>3, <1>6 DEF switch_to_agent, sret, LoadFrame, Busy
<1>7. CASE smp_cpu_wait(h)
  BY Zenon, <1>1, <1>7 DEF smp_cpu_wait, EnterWait, Poll, Wakeup, TimerWakeup
<1>8. CASE SsiTrap(h)
  <2>1. pc' = [pc EXCEPT ![h] = "user"]
    BY Zenon, <1>8 DEF SsiTrap, TypeInv, TypeOK, HartTypes
  <2> QED BY Zenon, <1>2, <1>8, <2>1 DEF SsiTrap, Busy
<1>9. CASE Yield(h)
  BY Zenon, <1>1, <1>9 DEF Yield, IfInited
<1>10. CASE PlainCall(h) \/ agent_recv(h) \/ CreateFails(h)
  BY Zenon, <1>2, <1>10 DEF PlainCall, agent_recv, CreateFails, Busy
<1>11. CASE SyscallReturn(h)
  BY Zenon, <1>2, <1>3, <1>11 DEF SyscallReturn, Busy, TypeInv, TypeOK, HartTypes
<1>12. CASE sched_lock_init_once(h)
  <2> USE DEF sched_lock_init_once, TestInited, spinlock_init, SetInited
  <2>1. arg' = arg /\ UNCHANGED <<state, cpu_current, cpu_rq>>
    BY Zenon, <1>12
  <2>2. CASE pc[h] \in {"once", "lock_init", "set_inited"}
    <3>1. \E l \in {"lock_init", "set_inited", "acquire"} : pc' = [pc EXCEPT ![h] = l]
      BY Zenon, <1>12, <2>2 DEF IfInited
    <3> QED BY Zenon, <1>1, <2>1, <3>1
  <2>3. CASE pc[h] \in {"notify_once", "notify_init", "notify_set"}
    <3>1. PICK l \in {"notify_init", "notify_set", "notify_lock"} : pc' = [pc EXCEPT ![h] = l]
      BY Zenon, <1>12, <2>3 DEF IfInited
    <3>2. arg[h] # 0 /\ pc[h] \in Busy /\ l \in Labels
      BY Zenon, <2>3 DEF Alive, ZeroUnused, Holding, Busy, Labels
    <3> QED BY Zenon, <2>1, <3>1, <3>2, QuietAlive
  <2> QED BY Zenon, <1>12, <2>2, <2>3
<1> QED BY Zenon, <1>4, <1>5, <1>6, <1>7, <1>8, <1>9, <1>10, <1>11, <1>12

(* The scheduler picks and runs agents that are alive.                       *)
LEMMA SchedulerAlive ==
    ASSUME TypeInv, Live, Alive, NEW h \in Harts,
           \/ scheduler_run_first(h) \/ Requeue(h) \/ PickMail(h) \/ PickQueued(h)
           \/ PickScanned(h) \/ Commit(h)
    PROVE  Halted' \/ Alive'
<1> USE DEF Goto, agentVars, schedVars, TypeInv, TypeOK
<1>0. /\ cpu_current[h] # 0 /\ state[0] = "UNUSED" /\ 0 \in Slots
      /\ \A k \in Harts : ~InQueue(cpu_rq[k], 0)
  BY Zenon, Constants DEF Alive, ZeroUnused
<1>1. CASE scheduler_run_first(h)
  <2>1. InitSlot \in Slots /\ InitSlot # 0
    BY Constants DEF InitSlot
  <2>2. cpu_current'[h] = InitSlot /\ state' = [state EXCEPT ![InitSlot] = "RUNNING"]
    BY Zenon, <1>1, <2>1 DEF scheduler_run_first, SchedTypes
  <2>3. Others(h, "switch")
    BY Zenon, <1>1 DEF scheduler_run_first, Others, SchedTypes
  <2>4. SparesZero(h, "switch")
    BY Zenon, <1>0, <1>1, <2>1, <2>2 DEF scheduler_run_first, SparesZero, AgentTypes, InCreate, Holding
  <2>5. SparesAlive(h, "switch")
    BY Zenon, <2>1, <2>2 DEF SparesAlive, Gone, AgentTypes
  <2> QED BY Zenon, <2>3, <2>4, <2>5, AliveKept DEF Labels
<1>2. CASE Requeue(h)
  <2> DEFINE s == cpu_current[h]
  <2>1. Others(h, "pick") /\ cpu_current' = cpu_current
    BY Zenon, <1>2 DEF Requeue, Others
  <2>2. \/ UNCHANGED <<state, cpu_rq>>
        \/ /\ s \in Slots /\ state' = [state EXCEPT ![s] = "RUNNABLE"]
           /\ cpu_rq' = [cpu_rq EXCEPT ![home_cpu[s]] = sched_rq_add_locked(@, s)]
    BY Zenon, <1>2 DEF Requeue, SchedTypes
  <2>3. \A k \in Harts : InQueue(cpu_rq'[k], 0) => InQueue(cpu_rq[k], 0)
    <3>1. CASE cpu_rq' = cpu_rq
      BY Zenon, <3>1
    <3>2. CASE cpu_rq' # cpu_rq
      <4>1. /\ s \in Slots /\ home_cpu[s] \in Harts
            /\ cpu_rq' = [cpu_rq EXCEPT ![home_cpu[s]] = sched_rq_add_locked(@, s)]
        BY Zenon, <2>2, <3>2 DEF AgentTypes
      <4> QED BY Zenon, <1>0, <4>1, AddQueue DEF SchedTypes
    <3> QED BY Zenon, <3>1, <3>2
  <2>4. SparesZero(h, "pick")
    BY Zenon, <1>0, <2>1, <2>2, <2>3 DEF SparesZero, InCreate, Holding, AgentTypes
  <2>5. SparesAlive(h, "pick")
    BY Zenon, <2>2 DEF SparesAlive, Gone, Busy, AgentTypes
  <2> QED BY Zenon, <2>1, <2>4, <2>5, AliveKept DEF Labels
<1>3. ASSUME NEW s \in Slots, state[s] # "UNUSED", arg' = [arg EXCEPT ![h] = s],
             pc' = [pc EXCEPT ![h] = "commit"],
             state' \in {state, [state EXCEPT ![s] = "RUNNABLE"]},
             UNCHANGED <<cpu_current, cpu_rq>>
      PROVE  Alive'
  <2>1. s # 0 /\ Others(h, "commit")
    BY Zenon, <1>0, <1>3 DEF Others, HartTypes
  <2>2. SparesZero(h, "commit")
    BY Zenon, <1>0, <1>3, <2>1 DEF SparesZero, AgentTypes, HartTypes
  <2>3. SparesAlive(h, "commit")
    BY Zenon, <1>3 DEF SparesAlive, Gone, Busy, AgentTypes
  <2> QED BY Zenon, <2>1, <2>2, <2>3, AliveKept DEF Labels
<1>4. CASE PickMail(h)
  <2>1. PICK s \in MailSlots(h) : /\ state' = [state EXCEPT ![s] = "RUNNABLE"]
                                  /\ arg' = [arg EXCEPT ![h] = s]
    BY Zenon, <1>4 DEF PickMail
  <2>2. s \in Slots /\ state[s] # "UNUSED"
    BY Zenon DEF MailSlots, sched_agent_has_inbox
  <2> QED BY Zenon, <1>3, <1>4, <2>1, <2>2 DEF PickMail
<1>5. CASE PickQueued(h)
  <2>1. PICK i \in Eligible(h) : arg' = [arg EXCEPT ![h] = cpu_rq[h][i]]
    BY Zenon, <1>5 DEF PickQueued
  <2>2. cpu_rq[h][i] \in Slots
    BY DEF Eligible, SchedTypes
  <2>3. state[cpu_rq[h][i]] = "RUNNABLE"
    BY Zenon, <2>1 DEF Eligible
  <2> QED BY Zenon, <1>3, <1>5, <2>1, <2>2, <2>3 DEF PickQueued
<1>6. CASE PickScanned(h)
  <2>1. PICK s \in ScanSlots(h) : arg' = [arg EXCEPT ![h] = s]
    BY Zenon, <1>6 DEF PickScanned
  <2>2. s \in Slots /\ state[s] # "UNUSED"
    BY Zenon DEF ScanSlots
  <2> QED BY Zenon, <1>3, <1>6, <2>1, <2>2 DEF PickScanned
<1>7. CASE Commit(h)
  <2> DEFINE s == arg[h]
  <2>1. s \in Slots /\ s # 0 /\ home_cpu[s] \in Harts
    BY Zenon, <1>7 DEF Commit, Alive, ZeroUnused, Holding, HartTypes, AgentTypes
  <2>2. cpu_current'[h] = s /\ state' = [state EXCEPT ![s] = "RUNNING"]
    BY Zenon, <1>7 DEF Commit, SchedTypes
  <2>3. \A k \in Harts : InQueue(cpu_rq'[k], 0) => InQueue(cpu_rq[k], 0)
    BY Zenon, <1>7, <2>1, RemoveQueue DEF Commit, SchedTypes
  <2>4. ASSUME NEW l \in {"switch", "sret"}, pc' = [pc EXCEPT ![h] = l]
        PROVE  Alive'
    <3>1. Others(h, l)
      BY Zenon, <1>7, <2>4 DEF Commit, Others, SchedTypes
    <3>2. SparesZero(h, l)
      BY Zenon, <1>0, <2>1, <2>2, <2>3, <2>4 DEF SparesZero, InCreate, Holding, AgentTypes
    <3>3. SparesAlive(h, l)
      BY Zenon, <2>1, <2>2 DEF SparesAlive, Gone, AgentTypes
    <3> QED BY Zenon, <2>4, <3>1, <3>2, <3>3, AliveKept DEF Labels
  <2>5. kernel_halt => Halted'
    BY Zenon DEF kernel_halt, Halted
  <2> QED BY Zenon, <1>7, <2>4, <2>5 DEF Commit
<1> QED BY Zenon, <1>1, <1>2, <1>4, <1>5, <1>6, <1>7

(* The calls: an agent dies by its own exit.                                 *)
LEMMA CallAlive ==
    ASSUME InitSpawns, TypeInv, Live, Alive, NEW h \in Harts,
           \/ agent_exit(h) \/ \E d \in Slots : agent_send(h, d) \/ agent_destroy(h, d)
           \/ NotifyTest(h) \/ Notify(h) \/ agent_alloc_id(h) \/ agent_setup_stack(h)
           \/ Publish(h) \/ Place(h)
    PROVE  Alive'
<1> USE DEF Goto, agentVars, schedVars, TypeInv, TypeOK
<1>0. /\ cpu_current[h] # 0 /\ state[0] = "UNUSED" /\ 0 \in Slots
      /\ \A k \in Harts : ~InQueue(cpu_rq[k], 0)
      /\ pc[h] \in InCreate \cup Holding => arg[h] # 0
      /\ pc[h] \in Busy => ~Gone(cpu_current[h]) /\ cpu_current[h] \in Slots
  BY Zenon, Constants DEF Alive, ZeroUnused, BusyAlive, HasCurrent
<1>1. CASE agent_exit(h)
  <2> DEFINE s == cpu_current[h]
  <2>1. PICK l \in {"acquire", "once"} : Others(h, l) /\ state' = [state EXCEPT ![s] = "ZOMBIE"]
    BY Zenon, <1>1 DEF agent_exit, Others, IfInited
  <2>2. SparesZero(h, l)
    BY Zenon, <1>0, <1>1, <2>1 DEF agent_exit, SparesZero, InCreate, Holding, AgentTypes
  <2>3. SparesAlive(h, l)
    BY Zenon, <2>1 DEF SparesAlive, Gone, Busy, AgentTypes
  <2> QED BY Zenon, <2>1, <2>2, <2>3, AliveKept DEF Labels
<1>2. ASSUME NEW d \in Slots, agent_send(h, d) PROVE Alive'
  <2>1. d # 0
    BY Zenon, <1>0, <1>2 DEF agent_send
  <2>2. arg'[h] # 0 /\ \A k \in Harts : k # h => arg'[k] = arg[k]
    BY Zenon, <1>2, <2>1 DEF agent_send, HartTypes
  <2> QED BY Zenon, <1>2, <2>2, QuietAlive DEF agent_send, Labels, Busy
<1>3. ASSUME NEW d \in Slots, agent_destroy(h, d) PROVE Alive'
  BY Zenon, <1>3 DEF agent_destroy, InitSpawns
<1>4. CASE NotifyTest(h)
  <2>1. arg' = arg /\ arg[h] # 0
    BY Zenon, <1>0, <1>4 DEF NotifyTest, Holding
  <2> QED BY Zenon, <1>4, <2>1, QuietAlive DEF NotifyTest, IfInited, Labels, Busy
<1>5. CASE agent_alloc_id(h)
  <2>1. PICK s \in Slots \ {0} : arg' = [arg EXCEPT ![h] = s]
    BY Zenon, <1>5 DEF agent_alloc_id, Free
  <2>2. arg'[h] # 0 /\ \A k \in Harts : k # h => arg'[k] = arg[k]
    BY Zenon, <2>1 DEF HartTypes
  <2> QED BY Zenon, <1>5, <2>2, QuietAlive DEF agent_alloc_id, Labels, Busy
<1>6. CASE agent_setup_stack(h) \/ Place(h)
  <2>1. arg' = arg /\ arg[h] # 0 /\ pc[h] \in Busy
    BY Zenon, <1>0, <1>6 DEF agent_setup_stack, Place, InCreate, Busy
  <2> QED BY Zenon, <1>6, <2>1, QuietAlive DEF agent_setup_stack, Place, Labels
<1>7. ASSUME NEW s \in Slots, s # 0, pc[h] \in Busy, NEW l \in {"sysret", "place"},
             pc' = [pc EXCEPT ![h] = l], arg[h] = s, UNCHANGED <<arg, cpu_current>>,
             state' = [state EXCEPT ![s] = "RUNNABLE"],
             \A k \in Harts : InQueue(cpu_rq'[k], 0) => InQueue(cpu_rq[k], 0)
      PROVE  Alive'
  <2>1. Others(h, l)
    BY Zenon, <1>7 DEF Others
  <2>2. SparesZero(h, l)
    BY Zenon, <1>0, <1>7 DEF SparesZero, AgentTypes
  <2>3. SparesAlive(h, l)
    BY Zenon, <1>0, <1>7 DEF SparesAlive, Gone, AgentTypes
  <2> QED BY Zenon, <1>7, <2>1, <2>2, <2>3, AliveKept DEF Labels
<1>8. CASE Notify(h)
  <2> DEFINE s == arg[h]
  <2>1. s \in Slots /\ s # 0 /\ home_cpu[s] \in Harts /\ pc[h] \in Busy
    BY Zenon, <1>0, <1>8 DEF Notify, Holding, HartTypes, AgentTypes, Busy
  <2>2. \A k \in Harts : InQueue(cpu_rq'[k], 0) => InQueue(cpu_rq[k], 0)
    BY Zenon, <1>8, <2>1, AddQueue DEF Notify, SchedTypes
  <2> QED BY Zenon, <1>7, <1>8, <2>1, <2>2 DEF Notify
<1>9. CASE Publish(h)
  <2>1. arg[h] \in Slots /\ arg[h] # 0 /\ pc[h] \in Busy
    BY Zenon, <1>0, <1>9 DEF Publish, InCreate, HartTypes, Busy
  <2> QED BY Zenon, <1>7, <1>9, <2>1 DEF Publish
<1> QED BY Zenon, <1>1, <1>2, <1>3, <1>4, <1>5, <1>6, <1>8, <1>9

-----------------------------------------------------------------------------
(* sched_rq_add_locked keeps what is queued and queues the agent.            *)
LEMMA AddKeeps ==
    ASSUME QueuesHaveRoom, NEW q \in Seq(Slots), Distinct(q), NEW s \in Slots
    PROVE  /\ Distinct(sched_rq_add_locked(q, s))
           /\ InQueue(sched_rq_add_locked(q, s), s)
           /\ \A t : InQueue(q, t) => InQueue(sched_rq_add_locked(q, s), t)
<1>1. CASE InQueue(q, s)
  BY Zenon, <1>1 DEF sched_rq_add_locked
<1>2. CASE ~InQueue(q, s)
  <2>1. sched_rq_add_locked(q, s) = Append(q, s)
    BY <1>2, SizeAssumption DEF sched_rq_add_locked, QueuesHaveRoom
  <2>2. /\ Len(Append(q, s)) = Len(q) + 1 /\ Append(q, s)[Len(q) + 1] = s
        /\ \A i \in 1..Len(q) : Append(q, s)[i] = q[i]
    OBVIOUS
  <2>3. InQueue(Append(q, s), s) /\ \A t : InQueue(q, t) => InQueue(Append(q, s), t)
    BY <2>2 DEF InQueue
  <2>4. Distinct(Append(q, s))
    BY <1>2, <2>2 DEF Distinct, InQueue
  <2> QED BY Zenon, <2>1, <2>3, <2>4
<1> QED BY Zenon, <1>1, <1>2

(* sched_rq_remove_locked takes nobody else out of the queue.                *)
LEMMA RemoveKeeps ==
    ASSUME NEW q \in Seq(Slots), Distinct(q), NEW s \in Slots
    PROVE  /\ Distinct(sched_rq_remove_locked(q, s))
           /\ \A t : t # s /\ InQueue(q, t) => InQueue(sched_rq_remove_locked(q, s), t)
<1>1. CASE ~InQueue(q, s)
  BY Zenon, <1>1 DEF sched_rq_remove_locked
<1>2. CASE InQueue(q, s)
  <2> DEFINE i == CHOOSE k \in 1..Len(q) : q[k] = s /\ \A j \in 1..k - 1 : q[j] # s
             r == [j \in 1..Len(q) - 1 |-> IF j < i THEN q[j] ELSE q[j + 1]]
  <2>1. sched_rq_remove_locked(q, s) = r
    BY Zenon, <1>2 DEF sched_rq_remove_locked
  <2>2. i \in 1..Len(q) /\ q[i] = s
    <3>1. PICK k \in 1..Len(q) : q[k] = s
      BY Zenon, <1>2 DEF InQueue
    <3>2. \A j \in 1..k - 1 : q[j] # s
      BY <3>1 DEF Distinct
    <3> QED BY Zenon, <3>1, <3>2
  <2> HIDE DEF i
  <2>3. Len(q) - 1 \in Nat /\ Len(r) = Len(q) - 1
    BY <2>2
  <2>4. Distinct(r)
    BY <2>2, <2>3 DEF Distinct
  <2>5. ASSUME NEW t, t # s, InQueue(q, t) PROVE InQueue(r, t)
    <3>1. PICK j \in 1..Len(q) : q[j] = t
      BY Zenon, <2>5 DEF InQueue
    <3>2. CASE j < i
      <4>1. j \in 1..Len(r) /\ r[j] = q[j]
        BY <2>2, <2>3, <3>2
      <4> QED BY Zenon, <3>1, <4>1 DEF InQueue
    <3>3. CASE ~(j < i)
      <4>1. j # i
        BY Zenon, <2>2, <2>5, <3>1
      <4>2. j - 1 \in 1..Len(r) /\ r[j - 1] = q[j]
        BY <2>2, <2>3, <3>3, <4>1
      <4> QED BY Zenon, <3>1, <4>2 DEF InQueue
    <3> QED BY Zenon, <3>2, <3>3
  <2> QED BY Zenon, <2>1, <2>4, <2>5
<1> QED BY Zenon, <1>1, <1>2
-----------------------------------------------------------------------------
(* The ready flag is set by the boot hart as it leaves boot.                 *)
LEMMA ReadyKept ==
    ASSUME TypeInv, Live, ReadyAfterBoot, NEW h \in Harts,
           Kernel(h) \/ Yield(h) \/ Program(h) \/ SsiTrap(h)
    PROVE  ReadyAfterBoot'
<1> USE DEF TypeInv, TypeOK, HartTypes, Goto
<1>1. CASE scheduler_run_first(h)
  BY Zenon, <1>1 DEF scheduler_run_first, ReadyAfterBoot, Live, InitHome
<1>2. CASE ~scheduler_run_first(h)
  <2>1. kernel_sched_ready' = kernel_sched_ready
    BY ZenonT(60), <1>2 DEF Kernel, Program, schedule_trap, smp_cpu_wait,
        sched_notify_runnable, agent_create, Requeue,
        PickMail, PickQueued, PickScanned, PickNone, PickDone, ReleaseAgain,
        sched_halt_if_done, Commit, switch_to_agent, sret, EnterWait, Poll,
        Wakeup, TimerWakeup, SsiTrap, Yield, PlainCall, agent_exit, agent_recv,
        agent_send, agent_destroy, NotifyTest, Notify, agent_alloc_id,
        agent_setup_stack, CreateFails, Publish, Place, SyscallReturn, sched_lock_init_once,
        TestInited, spinlock_init, SetInited, onceVars
  <2>2. \A k \in Harts : pc'[k] = "boot" => pc[k] = "boot"
    BY Zenon, <1>2 DEF Kernel, Program, schedule_trap, smp_cpu_wait,
        sched_notify_runnable, agent_create, Requeue, LoadFrame, kernel_halt,
        PickMail, PickQueued, PickScanned, PickNone, PickDone, ReleaseAgain,
        sched_halt_if_done, Commit, switch_to_agent, sret, EnterWait, Poll,
        Wakeup, TimerWakeup, SsiTrap, Yield, PlainCall, agent_exit, agent_recv,
        agent_send, agent_destroy, NotifyTest, Notify, agent_alloc_id,
        agent_setup_stack, CreateFails, Publish, Place, SyscallReturn,
        sched_lock_init_once, TestInited, spinlock_init, SetInited, IfInited
  <2> QED BY Zenon, <2>1, <2>2 DEF ReadyAfterBoot
<1> QED BY Zenon, <1>1, <1>2

(* Harts that have ended stay ended: nothing is left to run, and no hart is  *)
(* working for an agent that could start something.                          *)
LEMMA EndKept ==
    ASSUME TypeInv, Live, Alive, ReadyAfterBoot, LockInv, EndInv, NEW h \in Harts,
           Kernel(h) \/ Yield(h) \/ Program(h) \/ SsiTrap(h)
    PROVE  Halted' \/ EndInv'
<1> USE DEF TypeInv, TypeOK, Goto
<1> DEFINE Idle == Labels \ (Busy \cup {"commit", "boot"})
<1>1. CASE Ending
  <2>1. /\ \A s \in Slots : Gone(s)
        /\ \A k \in Harts : pc[k] \in Idle
    BY Zenon, <1>1 DEF EndInv, HartTypes
  <2>2. \/ Requeue(h) \/ PickMail(h) \/ PickQueued(h) \/ PickScanned(h) \/ PickNone(h)
        \/ PickDone(h) \/ ReleaseAgain(h) \/ sched_halt_if_done(h) \/ smp_cpu_wait(h)
        \/ sched_lock_init_once(h)
    BY Zenon, <2>1 DEF Kernel, Program, schedule_trap, sched_notify_runnable, agent_create,
        scheduler_run_first, Commit, switch_to_agent, sret, SsiTrap, Yield, PlainCall,
        agent_exit, agent_recv, agent_send, agent_destroy, NotifyTest, Notify,
        agent_alloc_id, agent_setup_stack, CreateFails, Publish, Place, SyscallReturn, Busy
  <2>3. MailSlots(h) = {} /\ Eligible(h) = {} /\ ScanSlots(h) = {}
    <3>1. \A i \in 1..Len(cpu_rq[h]) : cpu_rq[h][i] \in Slots
      BY DEF SchedTypes
    <3> QED BY Zenon, <2>1, <3>1 DEF MailSlots, Eligible, ScanSlots, sched_agent_has_inbox, Gone
  <2>4. ~PickMail(h) /\ ~PickQueued(h) /\ ~PickScanned(h)
    BY Zenon, <2>3 DEF PickMail, PickQueued, PickScanned
  <2>5. state' = state
    <3>1. cpu_current[h] \in Slots => state[cpu_current[h]] # "RUNNING"
      BY Zenon, <2>1 DEF Gone
    <3>2. CASE Requeue(h)
      BY Zenon, <3>1, <3>2 DEF Requeue, SchedTypes
    <3>3. CASE ~Requeue(h)
      BY Zenon, <2>2, <2>4, <3>3 DEF PickNone, PickDone, ReleaseAgain, sched_halt_if_done,
         smp_cpu_wait, EnterWait, Poll, Wakeup, TimerWakeup, sched_lock_init_once, TestInited,
         spinlock_init, SetInited, agentVars
    <3> QED BY Zenon, <3>2, <3>3
  <2>6. kernel_halt \/ \E l \in Idle : pc' = [pc EXCEPT ![h] = l]
    <3>1. {"pick", "wait", "done", "release_again", "parked", "poll", "acquire", "wfi",
           "lock_init", "set_inited"} \subseteq Idle
      BY ZenonT(60) DEF Labels, Busy
    <3>2. sched_lock_init_once(h) => pc[h] \in {"once", "lock_init", "set_inited"}
      BY Zenon, <2>1 DEF sched_lock_init_once, TestInited, spinlock_init, SetInited, Busy
    <3> HIDE DEF Idle
    <3>3. CASE sched_lock_init_once(h)
      BY Zenon, <3>1, <3>2, <3>3 DEF sched_lock_init_once, TestInited, spinlock_init,
         SetInited, IfInited
    <3> QED BY Zenon, <2>2, <2>4, <3>1, <3>3 DEF Requeue, PickNone, PickDone, ReleaseAgain,
               sched_halt_if_done, smp_cpu_wait, EnterWait, Poll, Wakeup, TimerWakeup
  <2>7. kernel_halt => Halted'
    BY Zenon DEF kernel_halt, Halted
  <2>8. (\E l \in Idle : pc' = [pc EXCEPT ![h] = l]) => \A k \in Harts : pc'[k] \in Idle
    BY Zenon, <2>1 DEF HartTypes
  <2> QED BY Zenon, <2>1, <2>5, <2>6, <2>7, <2>8 DEF EndInv, Gone
<1>2. CASE ~Ending /\ ~PickDone(h)
  <2>1. LockFlow(h)
    BY Zenon, LockSteps
  <2>2. \A k \in Harts : pc[k] \notin EndLabels
    BY Zenon, <1>2 DEF Ending
  <2>3. kernel_halt \/ \E l \in Labels \ EndLabels : pc' = [pc EXCEPT ![h] = l]
    BY Zenon, <1>2, <2>1, <2>2 DEF LockFlow, Moved, Outside, EndLabels, Labels
  <2>4. kernel_halt => Halted'
    BY Zenon DEF kernel_halt, Halted
  <2>5. (\E l \in Labels \ EndLabels : pc' = [pc EXCEPT ![h] = l]) => ~Ending'
    BY Zenon, <2>2 DEF Ending, HartTypes
  <2> QED BY Zenon, <2>3, <2>4, <2>5 DEF EndInv
<1>3. CASE ~Ending /\ PickDone(h)
  <2>1. \A s \in Slots : Gone(s)
    BY Zenon, <1>3 DEF PickDone, sched_system_done, Gone, Alive, ZeroUnused
  <2>2. \A k \in Harts : pc[k] \notin Busy
    BY Zenon, <2>1 DEF Alive, BusyAlive, HasCurrent
  <2>3. \A k \in Harts : pc[k] # "boot"
    BY Zenon, <1>3 DEF PickDone, ReadyAfterBoot
  <2>4. \A k \in Harts : k # h => pc[k] # "commit"
    BY Zenon, <1>3 DEF PickDone, LockInv, LockExclusion
  <2>5. PICK l \in {"done", "release_again"} : pc' = [pc EXCEPT ![h] = l]
    BY Zenon, <1>3 DEF PickDone
  <2>6. \A k \in Harts : pc'[k] \notin Busy \cup {"commit", "boot"}
    BY Zenon, <2>2, <2>3, <2>4, <2>5 DEF HartTypes, Busy
  <2> QED BY Zenon, <1>3, <2>1, <2>6 DEF EndInv, PickDone, Gone, agentVars
<1> QED BY Zenon, <1>1, <1>2, <1>3

-----------------------------------------------------------------------------
(* A step after which every RUNNABLE agent is on its queue, or in the hands  *)
(* of hart h, or was RUNNABLE before, still queued if it was, and not what h *)
(* had in hand.                                                              *)
Finds(h, l) == \A t \in Slots : state'[t] = "RUNNABLE" =>
    \/ Queued(t)'
    \/ arg'[h] = t /\ l \in HeldLabels
    \/ /\ state[t] = "RUNNABLE" /\ (Queued(t) => Queued(t)')
       /\ ~(arg[h] = t /\ pc[h] \in HeldLabels)

LEMMA FoundKept ==
    ASSUME TypeInv, RunnableFound, NEW h \in Harts, NEW l \in Labels,
           pc' = [pc EXCEPT ![h] = l], \A k \in Harts : k # h => arg'[k] = arg[k],
           Finds(h, l)
    PROVE  RunnableFound'
<1>0. \A k \in Harts : pc'[k] = IF k = h THEN l ELSE pc[k]
  BY Zenon DEF TypeInv, TypeOK, HartTypes
<1> SUFFICES ASSUME NEW t \in Slots, state'[t] = "RUNNABLE" PROVE Queued(t)' \/ Held(t)'
  BY Zenon DEF RunnableFound
<1>1. CASE Queued(t)'
  BY Zenon, <1>1
<1>2. CASE arg'[h] = t /\ l \in HeldLabels
  BY Zenon, <1>0, <1>2 DEF Held
<1>3. CASE /\ state[t] = "RUNNABLE" /\ (Queued(t) => Queued(t)')
           /\ ~(arg[h] = t /\ pc[h] \in HeldLabels)
  <2>1. CASE Queued(t)
    BY Zenon, <1>3, <2>1
  <2>2. CASE ~Queued(t)
    <3>1. PICK k \in Harts : arg[k] = t /\ pc[k] \in HeldLabels
      BY Zenon, <1>3, <2>2 DEF RunnableFound, Held
    <3>2. k # h
      BY Zenon, <1>3, <3>1
    <3>3. arg'[k] = t /\ pc'[k] \in HeldLabels
      BY Zenon, <1>0, <3>1, <3>2
    <3> QED BY Zenon, <3>3 DEF Held
  <2> QED BY Zenon, <2>1, <2>2
<1> QED BY Zenon, <1>1, <1>2, <1>3 DEF Finds

(* The steps that change no state, home or queue, of a hart with nothing in  *)
(* hand.                                                                     *)
LEMMA QuietFound ==
    ASSUME TypeInv, QueueInv, NEW h \in Harts,
           \/ PickQueued(h) \/ PickScanned(h) \/ PickNone(h) \/ PickDone(h)
           \/ ReleaseAgain(h) \/ sched_halt_if_done(h) \/ switch_to_agent(h) \/ sret(h)
           \/ smp_cpu_wait(h) \/ SsiTrap(h) \/ Yield(h) \/ PlainCall(h) \/ agent_recv(h)
           \/ CreateFails(h) \/ SyscallReturn(h) \/ agent_alloc_id(h) \/ agent_setup_stack(h)
           \/ \E d \in Slots : agent_send(h, d)
           \/ sched_lock_init_once(h) /\ pc[h] \notin HeldLabels
    PROVE  Halted' \/ QueueInv'
<1> USE DEF Goto, agentVars, schedVars
<1>1. UNCHANGED <<state, home_cpu, cpu_rq>> /\ pc[h] \notin HeldLabels
  BY Zenon DEF PickQueued, PickScanned, PickNone, PickDone, ReleaseAgain, sched_halt_if_done,
     switch_to_agent, sret, smp_cpu_wait, EnterWait, Poll, Wakeup, TimerWakeup, SsiTrap, Yield,
     PlainCall, agent_recv, CreateFails, SyscallReturn, agent_alloc_id, agent_setup_stack,
     agent_send, sched_lock_init_once, TestInited, spinlock_init, SetInited, HeldLabels
<1>2. \A k \in Harts : k # h => arg'[k] = arg[k]
  BY ZenonT(60) DEF PickQueued, PickScanned, PickNone, PickDone, ReleaseAgain, sched_halt_if_done,
     switch_to_agent, sret, smp_cpu_wait, EnterWait, Poll, Wakeup, TimerWakeup, SsiTrap, Yield,
     PlainCall, agent_recv, CreateFails, SyscallReturn, agent_alloc_id, agent_setup_stack,
     agent_send, sched_lock_init_once, TestInited, spinlock_init, SetInited,
     TypeInv, TypeOK, HartTypes
<1>3. kernel_halt \/ \E l \in Labels : pc' = [pc EXCEPT ![h] = l]
  <2>1. SsiTrap(h) => pc' = [pc EXCEPT ![h] = "user"]
    BY Zenon DEF SsiTrap, TypeInv, TypeOK, HartTypes
  <2> QED BY Zenon, <2>1 DEF PickQueued, PickScanned, PickNone, PickDone, ReleaseAgain,
     sched_halt_if_done, switch_to_agent, sret, LoadFrame, smp_cpu_wait, EnterWait, Poll, Wakeup,
     TimerWakeup, Yield, PlainCall, agent_recv, CreateFails, SyscallReturn, agent_alloc_id,
     agent_setup_stack, agent_send, sched_lock_init_once, TestInited, spinlock_init, SetInited,
     IfInited, Labels
<1>4. NoDuplicates'
  BY Zenon, <1>1 DEF QueueInv, NoDuplicates
<1>5. ASSUME NEW l \in Labels PROVE Finds(h, l)
  BY Zenon, <1>1 DEF Finds, Queued
<1>6. kernel_halt => Halted'
  BY Zenon DEF kernel_halt, Halted
<1> QED BY ZenonT(60), <1>2, <1>3, <1>4, <1>5, <1>6, FoundKept DEF QueueInv

(* A step that puts the agent s on the queue of its home.                    *)
LEMMA AddFound ==
    ASSUME QueuesHaveRoom, TypeInv, QueueInv,
           NEW h \in Harts, NEW l \in Labels, NEW s \in Slots,
           pc' = [pc EXCEPT ![h] = l], UNCHANGED <<arg, home_cpu>>,
           pc[h] \in HeldLabels => arg[h] = s,
           state' = [state EXCEPT ![s] = "RUNNABLE"],
           cpu_rq' = [cpu_rq EXCEPT ![home_cpu[s]] = sched_rq_add_locked(@, s)]
    PROVE  QueueInv'
<1> USE DEF TypeInv, TypeOK
<1> DEFINE c == home_cpu[s]
<1>1. c \in Harts /\ cpu_rq[c] \in Seq(Slots) /\ Distinct(cpu_rq[c])
  BY Zenon DEF AgentTypes, SchedTypes, QueueInv, NoDuplicates
<1>2. /\ cpu_rq'[c] = sched_rq_add_locked(cpu_rq[c], s)
      /\ \A k \in Harts : k # c => cpu_rq'[k] = cpu_rq[k]
  BY Zenon, <1>1 DEF SchedTypes
<1>3. NoDuplicates'
  BY Zenon, <1>1, <1>2, AddKeeps DEF QueueInv, NoDuplicates
<1>4. Queued(s)' /\ \A t \in Slots : Queued(t) => Queued(t)'
  <2>1. Queued(s)'
    <3>1. InQueue(sched_rq_add_locked(cpu_rq[c], s), s)
      BY Zenon, <1>1, AddKeeps
    <3>2. home_cpu'[s] = c
      OBVIOUS
    <3> QED BY Zenon, <1>2, <3>1, <3>2 DEF Queued
  <2>2. ASSUME NEW t \in Slots, Queued(t) PROVE Queued(t)'
    <3>1. home_cpu[t] \in Harts
      BY Zenon DEF AgentTypes
    <3>2. CASE home_cpu[t] = c
      BY ZenonT(60), <1>1, <1>2, <2>2, <3>2, AddKeeps DEF Queued
    <3>3. CASE home_cpu[t] # c
      BY Zenon, <1>2, <2>2, <3>1, <3>3 DEF Queued
    <3> QED BY Zenon, <3>2, <3>3
  <2> QED BY Zenon, <2>1, <2>2
<1>5. Finds(h, l)
  BY Zenon, <1>4 DEF Finds, AgentTypes
<1> QED BY Zenon, <1>3, <1>5, FoundKept DEF QueueInv

(* The scheduler: what it requeues is queued, what it picks is in its hands, *)
(* and what it commits is no longer RUNNABLE.                                *)
LEMMA SchedulerFound ==
    ASSUME QueuesHaveRoom, TypeInv, Live, QueueInv, NEW h \in Harts,
           scheduler_run_first(h) \/ Requeue(h) \/ PickMail(h) \/ Commit(h)
    PROVE  Halted' \/ QueueInv'
<1> USE DEF Goto, agentVars, schedVars, TypeInv, TypeOK
<1>1. CASE scheduler_run_first(h)
  <2>1. UNCHANGED <<home_cpu, cpu_rq, arg>> /\ state' = [state EXCEPT ![InitSlot] = "RUNNING"]
    BY Zenon, <1>1, Constants DEF scheduler_run_first, Live, InitHome, AgentTypes
  <2>2. Finds(h, "switch")
    BY Zenon, <1>1, <2>1, Constants DEF scheduler_run_first, Finds, Queued, AgentTypes, HeldLabels
  <2>3. NoDuplicates'
    BY Zenon, <2>1 DEF QueueInv, NoDuplicates
  <2> QED BY Zenon, <1>1, <2>1, <2>2, <2>3, FoundKept DEF QueueInv, scheduler_run_first, Labels
<1>2. CASE Requeue(h)
  <2> DEFINE s == cpu_current[h]
  <2>1. UNCHANGED <<home_cpu, arg>> /\ pc' = [pc EXCEPT ![h] = "pick"] /\ pc[h] \notin HeldLabels
    BY Zenon, <1>2 DEF Requeue, HeldLabels
  <2>2. CASE UNCHANGED <<state, cpu_rq>>
    <3>1. Finds(h, "pick") /\ NoDuplicates'
      BY Zenon, <2>1, <2>2 DEF Finds, Queued, QueueInv, NoDuplicates
    <3> QED BY Zenon, <2>1, <3>1, FoundKept DEF QueueInv, Labels
  <2>3. CASE ~UNCHANGED <<state, cpu_rq>>
    <3>1. /\ s \in Slots /\ state' = [state EXCEPT ![s] = "RUNNABLE"]
          /\ cpu_rq' = [cpu_rq EXCEPT ![home_cpu[s]] = sched_rq_add_locked(@, s)]
      BY Zenon, <1>2, <2>3 DEF Requeue, SchedTypes
    <3> QED BY Zenon, <2>1, <3>1, AddFound DEF Labels
  <2> QED BY Zenon, <2>2, <2>3
<1>3. CASE PickMail(h)
  <2>1. PICK s \in MailSlots(h) : /\ state' = [state EXCEPT ![s] = "RUNNABLE"]
                                  /\ arg' = [arg EXCEPT ![h] = s]
    BY Zenon, <1>3 DEF PickMail
  <2>2. s \in Slots /\ UNCHANGED <<home_cpu, cpu_rq>> /\ pc[h] \notin HeldLabels
    BY Zenon, <1>3 DEF PickMail, MailSlots, HeldLabels
  <2>3. arg'[h] = s /\ \A k \in Harts : k # h => arg'[k] = arg[k]
    BY Zenon, <2>1 DEF HartTypes
  <2>4. Finds(h, "commit") /\ NoDuplicates'
    BY Zenon, <2>1, <2>2, <2>3 DEF Finds, Queued, HeldLabels, AgentTypes, QueueInv, NoDuplicates
  <2> QED BY Zenon, <1>3, <2>3, <2>4, FoundKept DEF QueueInv, PickMail, Labels
<1>4. CASE Commit(h)
  <2> DEFINE s == arg[h]
             c == home_cpu[s]
  <2>1. /\ s \in Slots /\ c \in Harts /\ cpu_rq[c] \in Seq(Slots) /\ Distinct(cpu_rq[c])
        /\ UNCHANGED <<home_cpu, arg>> /\ state' = [state EXCEPT ![s] = "RUNNING"]
    BY Zenon, <1>4 DEF Commit, HartTypes, AgentTypes, SchedTypes, QueueInv, NoDuplicates
  <2>2. /\ cpu_rq'[c] = sched_rq_remove_locked(cpu_rq[c], s)
        /\ \A k \in Harts : k # c => cpu_rq'[k] = cpu_rq[k]
    BY Zenon, <1>4, <2>1 DEF Commit, SchedTypes
  <2>3. NoDuplicates'
    BY Zenon, <2>1, <2>2, RemoveKeeps DEF QueueInv, NoDuplicates
  <2>4. \A t \in Slots : t # s /\ Queued(t) => Queued(t)'
    BY Zenon, <2>1, <2>2, RemoveKeeps DEF Queued, AgentTypes
  <2>5. ASSUME NEW l \in Labels PROVE Finds(h, l)
    BY Zenon, <2>1, <2>4 DEF Finds, AgentTypes
  <2>6. kernel_halt \/ \E l \in Labels : pc' = [pc EXCEPT ![h] = l]
    BY Zenon, <1>4 DEF Commit, Labels
  <2>7. kernel_halt => Halted'
    BY Zenon DEF kernel_halt, Halted
  <2> QED BY Zenon, <2>1, <2>3, <2>5, <2>6, <2>7, FoundKept DEF QueueInv
<1> QED BY Zenon, <1>1, <1>2, <1>3, <1>4

(* The calls: an agent that becomes RUNNABLE stays in its creator's hands    *)
(* until sched_notify_runnable has queued it.                                *)
LEMMA CallFound ==
    ASSUME QueuesHaveRoom, InitSpawns, TypeInv, QueueInv, NEW h \in Harts,
           \/ agent_exit(h) \/ NotifyTest(h) \/ Notify(h) \/ Publish(h) \/ Place(h)
           \/ \E d \in Slots : agent_destroy(h, d)
           \/ sched_lock_init_once(h) /\ pc[h] \in HeldLabels
    PROVE  QueueInv'
<1> USE DEF Goto, agentVars, schedVars, TypeInv, TypeOK
<1>0. arg[h] \in Slots
  BY Zenon DEF HartTypes
<1>1. CASE agent_exit(h)
  <2>1. UNCHANGED <<home_cpu, cpu_rq, arg>> /\ pc[h] \notin HeldLabels
    BY Zenon, <1>1 DEF agent_exit, HeldLabels
  <2>2. (\A l : Finds(h, l)) /\ NoDuplicates'
    BY Zenon, <1>1, <2>1 DEF agent_exit, Finds, Queued, AgentTypes, QueueInv, NoDuplicates
  <2>3. PICK l \in Labels : pc' = [pc EXCEPT ![h] = l]
    BY Zenon, <1>1 DEF agent_exit, IfInited, Labels
  <2> QED BY Zenon, <2>1, <2>2, <2>3, FoundKept DEF QueueInv
<1>2. CASE NotifyTest(h)
  <2>1. UNCHANGED <<state, home_cpu, cpu_rq, arg>>
    BY Zenon, <1>2 DEF NotifyTest
  <2>2. NoDuplicates'
    BY Zenon, <2>1 DEF QueueInv, NoDuplicates
  <2>3. CASE state[arg[h]] = "ZOMBIE"
    <3>1. Finds(h, "sysret")
      BY Zenon, <2>1, <2>3 DEF Finds, Queued
    <3> QED BY Zenon, <1>2, <2>1, <2>2, <2>3, <3>1, FoundKept DEF QueueInv, NotifyTest, Labels
  <2>4. CASE state[arg[h]] # "ZOMBIE"
    <3>1. PICK l \in {"notify_lock", "notify_once"} : pc' = [pc EXCEPT ![h] = l]
      BY Zenon, <1>2, <2>4 DEF NotifyTest, IfInited
    <3>2. Finds(h, l) /\ l \in Labels
      BY Zenon, <2>1 DEF Finds, Queued, HeldLabels, Labels
    <3> QED BY Zenon, <2>1, <2>2, <3>1, <3>2, FoundKept DEF QueueInv
  <2> QED BY Zenon, <2>3, <2>4
<1>3. CASE Notify(h)
  BY Zenon, <1>0, <1>3, AddFound DEF Notify, Labels
<1>4. CASE Publish(h)
  <2>1. UNCHANGED <<home_cpu, cpu_rq, arg>> /\ pc[h] \notin HeldLabels
    BY Zenon, <1>4 DEF Publish, HeldLabels
  <2>2. Finds(h, "place")
    BY Zenon, <1>0, <1>4, <2>1 DEF Publish, Finds, Queued, AgentTypes, HeldLabels
  <2>3. NoDuplicates'
    BY Zenon, <2>1 DEF QueueInv, NoDuplicates
  <2> QED BY Zenon, <1>4, <2>1, <2>2, <2>3, FoundKept DEF QueueInv, Publish, Labels
<1>5. CASE Place(h)
  <2>1. /\ UNCHANGED <<state, cpu_rq, arg>>
        /\ \A t \in Slots : t # arg[h] => home_cpu'[t] = home_cpu[t]
    BY Zenon, <1>0, <1>5 DEF Place, AgentTypes
  <2>2. Finds(h, "notify")
    BY Zenon, <2>1 DEF Finds, Queued, HeldLabels
  <2>3. NoDuplicates'
    BY Zenon, <2>1 DEF QueueInv, NoDuplicates
  <2> QED BY Zenon, <1>5, <2>1, <2>2, <2>3, FoundKept DEF QueueInv, Place, Labels
<1>6. ASSUME NEW d \in Slots, agent_destroy(h, d) PROVE QueueInv'
  BY Zenon, <1>6 DEF agent_destroy, InitSpawns
<1>7. CASE sched_lock_init_once(h) /\ pc[h] \in HeldLabels
  <2> USE DEF sched_lock_init_once, TestInited, spinlock_init, SetInited
  <2>1. UNCHANGED <<state, home_cpu, cpu_rq, arg>>
    BY Zenon, <1>7
  <2>2. pc[h] \in {"notify_once", "notify_init", "notify_set"}
    BY Zenon, <1>7 DEF HeldLabels
  <2>3. PICK l \in {"notify_init", "notify_set", "notify_lock"} : pc' = [pc EXCEPT ![h] = l]
    BY Zenon, <1>7, <2>2 DEF IfInited
  <2>4. Finds(h, l) /\ NoDuplicates' /\ l \in Labels
    BY Zenon, <2>1 DEF Finds, Queued, HeldLabels, Labels, QueueInv, NoDuplicates
  <2> QED BY Zenon, <2>1, <2>3, <2>4, FoundKept DEF QueueInv
<1> QED BY Zenon, <1>1, <1>2, <1>3, <1>4, <1>5, <1>6, <1>7

-----------------------------------------------------------------------------
(* All of it together, until the machine is halted.                          *)
RunInv == Halted \/ (Alive /\ ReadyAfterBoot /\ EndInv /\ QueueInv)

LEMMA RunInit == InitSpawns /\ Init => RunInv
<1> SUFFICES ASSUME InitSpawns, Init PROVE Alive /\ ReadyAfterBoot /\ EndInv /\ QueueInv
  BY Zenon DEF RunInv
<1> USE Constants DEF Init
<1>1. \A k \in Harts : pc[k] \in {"boot", "once"}
  BY Zenon
<1>2. ReadyAfterBoot /\ EndInv
  BY Zenon, <1>1 DEF ReadyAfterBoot, EndInv, Ending, EndLabels
<1>3. \A i \in 1..Len(Started) : Started[i] \in Slots /\ Started[i] # 0
  BY BootAssumption
<1>4. \A k \in Harts : ~InQueue(cpu_rq[k], 0)
  BY <1>3 DEF InQueue
<1>5. state[0] = "UNUSED" /\ \A k \in Harts : cpu_current[k] # 0
  BY <1>3 DEF IsStarted, InitSlot, NoAgent
<1>6. Alive
  BY Zenon, <1>1, <1>4, <1>5 DEF Alive, ZeroUnused, BusyAlive, InCreate, Holding, Busy
<1>7. NoDuplicates
  <2>1. Distinct(Started) /\ Distinct(<<>>)
    BY BootAssumption DEF Distinct
  <2> QED BY Zenon, <2>1 DEF NoDuplicates
<1>8. RunnableFound
  <2> SUFFICES ASSUME NEW t \in Slots, state[t] = "RUNNABLE" PROVE Queued(t)
    BY Zenon DEF RunnableFound
  <2>1. IsStarted(t)
    BY Zenon
  <2>2. cpu_rq[home_cpu[t]] = Started
    BY Zenon
  <2> QED BY Zenon, <2>1, <2>2 DEF Queued, InQueue, IsStarted
<1> QED BY Zenon, <1>2, <1>6, <1>7, <1>8 DEF QueueInv

LEMMA RunNext ==
    QueuesHaveRoom /\ InitSpawns /\ TypeInv /\ HomeInv /\ LockInv /\ RunInv /\ [Next]_vars
        => RunInv'
<1> SUFFICES ASSUME QueuesHaveRoom, InitSpawns, TypeInv, HomeInv, LockInv, RunInv, [Next]_vars
             PROVE  RunInv'
  OBVIOUS
<1>1. CASE UNCHANGED vars
  BY Zenon, <1>1 DEF vars, RunInv, Halted, Alive, ZeroUnused, BusyAlive, Gone, ReadyAfterBoot,
     EndInv, Ending, QueueInv, NoDuplicates, RunnableFound, Queued, Held
<1>2. ASSUME NEW h \in Harts, Kernel(h) \/ Yield(h) \/ Program(h) \/ SsiTrap(h)
      PROVE  RunInv'
  <2>1. pc[h] # "halted"
    BY Zenon, <1>2 DEF Kernel, Program, schedule_trap, smp_cpu_wait,
        sched_notify_runnable, agent_create, scheduler_run_first, Requeue,
        PickMail, PickQueued, PickScanned, PickNone, PickDone, ReleaseAgain,
        sched_halt_if_done, Commit, switch_to_agent, sret, EnterWait, Poll,
        Wakeup, TimerWakeup, SsiTrap, Yield, PlainCall, agent_exit, agent_recv,
        agent_send, agent_destroy, NotifyTest, Notify, agent_alloc_id,
        agent_setup_stack, CreateFails, Publish, Place, SyscallReturn,
        sched_lock_init_once, TestInited, spinlock_init, SetInited
  <2>2. Live /\ Alive /\ ReadyAfterBoot /\ EndInv /\ QueueInv
    BY Zenon, <2>1 DEF RunInv, HomeInv, Halted
  <2>3. Halted' \/ Alive'
    BY Zenon, <1>2, <2>2, QuietAliveSteps, SchedulerAlive, CallAlive
       DEF Kernel, Program, schedule_trap, sched_notify_runnable, agent_create
  <2>4. ReadyAfterBoot' /\ (Halted' \/ EndInv')
    BY Zenon, <1>2, <2>2, ReadyKept, EndKept
  <2>5. Halted' \/ QueueInv'
    BY Zenon, <1>2, <2>2, QuietFound, SchedulerFound, CallFound
       DEF Kernel, Program, schedule_trap, sched_notify_runnable, agent_create
  <2> QED BY Zenon, <2>3, <2>4, <2>5 DEF RunInv
<1> QED BY Zenon, <1>1, <1>2 DEF Next

(* A hart holds a picked agent only while it has the lock.                   *)
LEMMA FoundOutside == LockInv /\ RunInv => RunnableQueued
<1> SUFFICES ASSUME LockInv, RunInv, ~sched_lock, pc[0] # "halted", NEW s \in Slots,
                    state[s] = "RUNNABLE"
             PROVE  \/ InQueue(cpu_rq[home_cpu[s]], s)
                    \/ \E k \in Harts : arg[k] = s /\ pc[k] \in {"place", "notify",
                           "notify_once", "notify_init", "notify_set", "notify_lock"}
  BY Zenon DEF RunnableQueued
<1>1. EndInv /\ RunnableFound
  BY Zenon, Constants DEF RunInv, Halted, QueueInv
<1>2. \A k \in Harts : pc[k] # "commit"
  BY Zenon, <1>1 DEF LockInv, EndInv, Critical
<1> QED BY Zenon, <1>1, <1>2 DEF RunnableFound, Queued, Held, HeldLabels

LOCAL INSTANCE FiniteSetTheorems

(* A queue of distinct slots that misses one of them is not full, so that    *)
(* the length test of sched_rq_add_locked drops nothing.                     *)
LEMMA QueueHasRoom == QueuesHaveRoom
<1> SUFFICES ASSUME NEW q \in Seq(Slots), Distinct(q), NEW s \in Slots, ~InQueue(q, s)
             PROVE  Len(q) < MAX_AGENTS
  BY Zenon DEF QueuesHaveRoom
<1> DEFINE D == 1..Len(q)
           R == Slots \ {s}
<1>1. IsFiniteSet(D) /\ Cardinality(D) = Len(q)
  <2>1. 1 \in Int /\ Len(q) \in Int /\ Len(q) \in Nat
    OBVIOUS
  <2>2. IsFiniteSet(D) /\ Cardinality(D) = IF 1 > Len(q) THEN 0 ELSE Len(q) - 1 + 1
    BY Zenon, <2>1, FS_Interval
  <2> QED BY <2>1, <2>2
<1>2. IsFiniteSet(Slots) /\ Cardinality(Slots) = MAX_AGENTS
  BY FS_Interval, SizeAssumption DEF Slots
<1>3. IsFiniteSet(R) /\ Cardinality(R) = MAX_AGENTS - 1
  BY Zenon, <1>2, FS_RemoveElement
<1>4. q \in [D -> R]
  BY DEF InQueue
<1>5. SUFFICES ASSUME MAX_AGENTS - 1 < Len(q) PROVE FALSE
  BY SizeAssumption
<1> HIDE DEF D, R
<1>6. \E x, y \in D : x # y /\ q[x] = q[y]
  BY ZenonT(60), <1>1, <1>3, <1>4, <1>5, FS_PigeonHole
<1> QED BY Zenon, <1>6 DEF Distinct, D

(* No agent is forgotten by sched.c, for any number of harts, slots and      *)
(* messages, under the discipline of the SMP build: while the machine runs   *)
(* and the lock is free, a RUNNABLE agent is on the run queue of its home,   *)
(* or the hart that made it RUNNABLE is about to put it there.  The length   *)
(* test of sched_rq_add_locked never drops an agent.                         *)
THEOREM RunnableAlwaysQueued == ASSUME InitSpawns PROVE OrderedSpec => []RunnableQueued
<1>1. Init => HomeInv /\ RunInv
  BY Zenon, HomeInit, RunInit
<1>2. TypeInv /\ HomeInv /\ [Next]_vars => HomeInv'
  BY Zenon, HomeNext
<1>3. TypeInv /\ HomeInv /\ LockInv /\ RunInv /\ [Next]_vars => RunInv'
  BY Zenon, RunNext, QueueHasRoom
<1>4. LockInv /\ RunInv => RunnableQueued
  BY Zenon, FoundOutside
<1> QED BY <1>1, <1>2, <1>3, <1>4, Ordered, TypeInvariant, LockInvariant, PTL DEF Spec

=============================================================================
