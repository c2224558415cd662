---------------------------- MODULE MsgboxProofs ----------------------------
(* Proofs about kernel/ipc.c for any number of harts, any capacities and any *)
(* messages, under Serialized (Msgbox).  The invariants build on each other: *)
(* what each statement of a hart knows of that hart's own locals (Control),  *)
(* the lock (LockInv), and the ring buffers (RingInv).  The refinement of    *)
(* Mailbox rests on them.                                                    *)
EXTENDS Msgbox, SequenceTheorems, TLAPS

Keep(h) == ClampKeep(call[h].keep)

(* What hart h's own locals hold at each statement.                          *)
ControlOf(h) ==
    /\ (ret[h] # NoRet) <=> (pc[h] \in {"release", "return"})
    /\ (pc[h] = "idle") <=> (call[h] = NoCall)
    /\ pc[h] = "reinit" => call[h].op = "init"
    /\ pc[h] \in {"once", "lock_init", "set_inited", "acquire", "check"}
          => call[h].op # "init"
    /\ pc[h] \in {"push_tail", "push_count"}
          => call[h].op = "push" /\ side[h] = QueueOf(call[h].msg)
    /\ pc[h] \in {"pop_head", "pop_count"}
          => call[h].op = "pop" /\ Len(local[h]) = 1
    /\ pc[h] \in {"compact_reset", "compact_fill"}
          => call[h].op = "compact" /\ Keep(h) < Len(local[h])

Control == \A h \in Harts : ControlOf(h)

Critical == Updating \cup {"release"}

(* The lock word is set while a hart is between lock and unlock; with more   *)
(* than one hart nobody initialises the lock or the box any more.            *)
LockInv ==
    \/ \A g, h \in Harts : g = h
    \/ /\ inited /\ "init" \notin Ops
       /\ \A h \in Harts : /\ pc[h] \notin {"lock_init", "set_inited", "reinit"}
                           /\ pc[h] \in Critical => locked
       /\ BoxExclusion

-----------------------------------------------------------------------------
(* Arithmetic of a ring index, and the shapes of the values.                 *)

(* An index below the capacity is its own remainder.                         *)
LEMMA ModSmall ==
    ASSUME NEW N \in Nat \ {0}, NEW a \in Nat, a < N
    PROVE  a % N = a
BY SMT

(* An index that passed the end once wraps by one capacity.                  *)
LEMMA ModWrap ==
    ASSUME NEW N \in Nat \ {0}, NEW a \in Nat, N <= a, a < N + N
    PROVE  a % N = a - N
BY SMT

(* A remainder is an index of the ring.                                      *)
LEMMA ModRange ==
    ASSUME NEW N \in Nat \ {0}, NEW a \in Nat
    PROVE  a % N \in 0..N - 1
BY SMT

(* Both rings have room for a message.                                       *)
LEMMA CapacityPositive ==
    /\ \A q \in Queues : Capacity(q) \in Nat \ {0}
    /\ Capacity("normal") = MSG_CAPACITY
BY Zenon, CapacityAssumption DEF Queues, Capacity

(* The arguments of the calls.                                               *)
LEMMA CallShape ==
    ASSUME NEW c \in Calls \cup {NoCall}
    PROVE  /\ c.op = "push" => c.msg \in Messages /\ QueueOf(c.msg) \in Queues
           /\ c.op = "compact" => c.keep \in Int /\ ClampKeep(c.keep) \in 0..MSG_CAPACITY
           /\ c \in Calls => c.op \in Ops
           /\ c.op # "none" <=> c # NoCall
           /\ c.op \in {"push", "pop", "compact", "init", "none"}
<1>1. \/ c = NoCall
      \/ c \in Calls /\ c \in [op : {"push"}, msg : Messages]
      \/ c \in Calls /\ c \in [op : {"pop", "init"}]
      \/ c \in Calls /\ c \in [op : {"compact"}, keep : Keeps]
  BY Zenon DEF Calls
<1>2. /\ c.op = "push" => c.msg \in Messages
      /\ c.op = "compact" => c.keep \in Int
      /\ c.op \in {"push", "pop", "compact", "init", "none"}
      /\ c.op # "none" <=> c # NoCall
  <2>1. CASE c = NoCall
    BY Zenon, <2>1 DEF NoCall
  <2>2. CASE c \in [op : {"push"}, msg : Messages]
    BY <2>2 DEF NoCall
  <2>3. CASE c \in [op : {"pop", "init"}]
    BY <2>3 DEF NoCall
  <2>4. CASE c \in [op : {"compact"}, keep : Keeps]
    <3>1. c.op = "compact" /\ c.keep \in Keeps
      BY Zenon, <2>4
    <3>2. c.keep \in Int
      BY <3>1, KeepsAssumption, Zenon
    <3> QED  BY <3>1, <3>2 DEF NoCall
  <2> QED  BY Zenon, <1>1, <2>1, <2>2, <2>3, <2>4
<1>3. c \in Calls => c.op \in Ops
  BY Zenon DEF Calls
<1>4. c.op = "push" => QueueOf(c.msg) \in Queues
  BY Zenon DEF QueueOf, Queues
<1>5. c.op = "compact" => ClampKeep(c.keep) \in 0..MSG_CAPACITY
  BY <1>2, CapacityAssumption DEF ClampKeep
<1> QED  BY Zenon, <1>2, <1>3, <1>4, <1>5

(* A ring read in order is a sequence of messages.                           *)
LEMMA InOrderType ==
    ASSUME TypeOK, NEW q \in Queues, NEW n \in Nat
    PROVE  InOrder(q, n) \in Seq(AnyMsg) /\ Len(InOrder(q, n)) = n
<1>1. \A i \in 1..n : ring[q][(head[q] + i - 1) % Capacity(q)] \in AnyMsg
  <2> SUFFICES ASSUME NEW i \in 1..n
               PROVE  ring[q][(head[q] + i - 1) % Capacity(q)] \in AnyMsg
    OBVIOUS
  <2>1. head[q] + i - 1 \in Nat
    BY DEF TypeOK
  <2>2. (head[q] + i - 1) % Capacity(q) \in 0..Capacity(q) - 1
    BY Zenon, <2>1, CapacityPositive, ModRange
  <2> QED  BY <2>2, Zenon DEF TypeOK
<1> QED  BY <1>1 DEF InOrder

(* The rebuilt messages are one more than the ones kept.                     *)
LEMMA RebuiltType ==
    ASSUME NEW s \in Seq(AnyMsg), NEW k \in Nat, k < Len(s)
    PROVE  /\ Rebuilt(s, k) \in Seq(AnyMsg) /\ Len(Rebuilt(s, k)) = k + 1
<1>1. Summary(Len(s) - k) \in AnyMsg
  BY DEF Summary, AnyMsg
<1>2. SubSeq(s, Len(s) - k + 1, Len(s)) \in Seq(AnyMsg)
      /\ Len(SubSeq(s, Len(s) - k + 1, Len(s))) = k
  OBVIOUS
<1> QED  BY <1>1, <1>2 DEF Rebuilt

-----------------------------------------------------------------------------
(* Types and the locals of each hart.                                        *)

(* The initial state has its types.                                          *)
LEMMA TypeInit == Init => TypeOK /\ Control
<1> SUFFICES ASSUME Init PROVE TypeOK /\ Control
  OBVIOUS
<1>1. NoMsg \in AnyMsg
  BY Zenon DEF AnyMsg
<1>2. TypeOK
  <2>1. \A q \in Queues : /\ head[q] < Capacity(q) /\ tail[q] < Capacity(q)
                         /\ ring[q] \in [0..Capacity(q) - 1 -> AnyMsg]
    BY <1>1, CapacityPositive DEF Init
  <2>2. ret \in [Harts -> [rc : {"none", "ok", "ENOSPC", "EAGAIN"}, msg : AnyMsg]]
    BY Zenon, <1>1 DEF Init, NoRet
  <2>3. side \in [Harts -> Queues]
    BY Zenon DEF Init, Queues
  <2>4. /\ call \in [Harts -> Calls \cup {NoCall}]
        /\ local \in [Harts -> Seq(AnyMsg)]
    BY DEF Init
  <2>7. locked \in BOOLEAN /\ inited \in BOOLEAN
    BY InitedAssumption, Zenon DEF Init
  <2>5. /\ DOMAIN ring = Queues
        /\ head \in [Queues -> Nat] /\ tail \in [Queues -> Nat]
        /\ count \in [Queues -> Int]
    BY DEF Init
  <2>6. pc \in [Harts -> {"idle"}]
    BY Zenon DEF Init
  <2> QED  BY Zenon, <2>1, <2>2, <2>3, <2>4, <2>5, <2>6, <2>7 DEF TypeOK
<1>3. Control
  BY Zenon DEF Init, Control, ControlOf
<1> QED  BY Zenon, <1>2, <1>3

(* A step of one hart keeps the types.                                       *)
LEMMA TypeStep ==
    ASSUME TypeOK, Control, NEW h \in Harts, Step(h)
    PROVE  TypeOK'
<1>0. NoMsg \in AnyMsg
  BY Zenon DEF AnyMsg
<1>1. CASE Call(h)
  BY <1>1 DEF TypeOK, Call, Goto, lockVars, boxVars
<1>2. CASE Return(h)
  BY <1>0, <1>2 DEF TypeOK, Return, Goto, lockVars, boxVars, NoRet, Queues
<1>3. CASE Lock(h)
  BY <1>3, Zenon DEF TypeOK, Lock, TestInited, spinlock_init, SetInited, spinlock_acquire,
              spinlock_release, Goto, lockVars, boxVars
<1>4. CASE msgbox_init(h)
  BY <1>0, <1>4, CapacityPositive DEF TypeOK, msgbox_init, Goto, lockVars, Ret
<1>5. CASE msgbox_push(h)
  <2>1. CASE PushFull(h)
    BY Zenon, <1>0, <2>1 DEF TypeOK, PushFull, Goto, lockVars, boxVars, Ret
  <2>2. CASE PushCopy(h)
    BY <2>2, CallShape, Zenon DEF TypeOK, PushCopy, Goto, lockVars, AnyMsg
  <2>3. CASE PushTail(h)
    <3>1. side[h] \in Queues /\ tail[side[h]] + 1 \in Nat
      BY DEF TypeOK
    <3>2. (tail[side[h]] + 1) % Capacity(side[h]) \in 0..Capacity(side[h]) - 1
      BY <3>1, CapacityPositive, ModRange, Zenon
    <3> QED  BY <2>3, <3>1, <3>2, CapacityPositive, SMTT(30) DEF TypeOK, PushTail, Goto, lockVars
  <2>4. CASE PushCount(h)
    BY <1>0, <2>4 DEF TypeOK, PushCount, Goto, lockVars, Ret
  <2> QED  BY Zenon, <1>5, <2>1, <2>2, <2>3, <2>4 DEF msgbox_push
<1>6. CASE msgbox_pop(h)
  <2>1. CASE PopEmpty(h)
    BY Zenon, <1>0, <2>1 DEF TypeOK, PopEmpty, Goto, lockVars, boxVars, Ret
  <2>2. CASE PopCopy(h)
    <3> DEFINE q == PopQueue(count["steer"])
    <3>1. q \in Queues
      BY Zenon DEF PopQueue, Queues
    <3>2. ring[q][head[q]] \in AnyMsg
      <4> HIDE DEF q
      <4>1. head[q] \in 0..Capacity(q) - 1
        BY <3>1, CapacityPositive DEF TypeOK
      <4> QED  BY <3>1, <4>1, Zenon DEF TypeOK
    <3> QED  BY <2>2, <3>1, <3>2, SMTT(30) DEF TypeOK, PopCopy, Goto, lockVars, boxVars
  <2>3. CASE PopHead(h)
    <3>1. side[h] \in Queues /\ head[side[h]] + 1 \in Nat
      BY DEF TypeOK
    <3>2. (head[side[h]] + 1) % Capacity(side[h]) \in 0..Capacity(side[h]) - 1
      BY <3>1, CapacityPositive, ModRange, Zenon
    <3> QED  BY <2>3, <3>1, <3>2, CapacityPositive, SMTT(30) DEF TypeOK, PopHead, Goto, lockVars
  <2>4. CASE PopCount(h)
    <3>1. local[h][1] \in AnyMsg
      BY <2>4 DEF TypeOK, PopCount, Control, ControlOf
    <3> QED  BY <2>4, <3>1 DEF TypeOK, PopCount, Goto, lockVars, Ret
  <2> QED  BY Zenon, <1>6, <2>1, <2>2, <2>3, <2>4 DEF msgbox_pop
<1>7. CASE msgbox_compact(h)
  <2>1. CASE CompactShort(h)
    BY Zenon, <1>0, <2>1 DEF TypeOK, CompactShort, Goto, lockVars, boxVars, Ret
  <2>2. CASE CompactCopy(h)
    <3>1. count["normal"] \in Nat
      BY <2>2, CallShape DEF TypeOK, CompactCopy, Queues
    <3>2. InOrder("normal", count["normal"]) \in Seq(AnyMsg)
      BY Zenon, <3>1, InOrderType DEF Queues
    <3> QED  BY Zenon, <2>2, <3>2 DEF TypeOK, CompactCopy, Goto, lockVars, boxVars
  <2>3. CASE CompactReset(h)
    <3>1. ClampKeep(call[h].keep) + 1 \in Nat
      BY <2>3, CallShape DEF TypeOK, CompactReset, Control, ControlOf
    <3>2. (ClampKeep(call[h].keep) + 1) % MSG_CAPACITY \in 0..MSG_CAPACITY - 1
      BY <3>1, CapacityAssumption, ModRange, Zenon
    <3> QED  BY <2>3, <3>1, <3>2, CapacityPositive, SMTT(30)
             DEF TypeOK, CompactReset, Goto, lockVars, Queues
  <2>4. CASE CompactFill(h)
    <3> DEFINE reb == Rebuilt(local[h], ClampKeep(call[h].keep))
    <3>1. /\ ClampKeep(call[h].keep) \in Nat
          /\ ClampKeep(call[h].keep) < Len(local[h])
      BY <2>4, CallShape DEF TypeOK, CompactFill, Control, ControlOf, Keep
    <3>2. reb \in Seq(AnyMsg)
      BY Zenon, <3>1, RebuiltType DEF TypeOK
    <3> HIDE DEF reb
    <3>3. [i \in 0..MSG_CAPACITY - 1 |-> IF i < Len(reb) THEN reb[i + 1]
                                         ELSE ring["normal"][i]]
             \in [0..MSG_CAPACITY - 1 -> AnyMsg]
      <4>1. ring["normal"] \in [0..MSG_CAPACITY - 1 -> AnyMsg]
        BY Zenon, CapacityPositive DEF TypeOK, Queues
      <4> QED  BY <3>2, <4>1, CapacityAssumption
    <3>4. ring' = [ring EXCEPT !["normal"] =
              [i \in 0..MSG_CAPACITY - 1 |-> IF i < Len(reb) THEN reb[i + 1]
                                             ELSE ring["normal"][i]]]
      BY <2>4, CapacityPositive, Zenon DEF TypeOK, CompactFill, reb, Queues
    <3> QED  BY <1>0, <2>4, <3>3, <3>4, CapacityPositive, Zenon
             DEF TypeOK, CompactFill, Goto, lockVars, Ret, Queues
  <2> QED  BY Zenon, <1>7, <2>1, <2>2, <2>3, <2>4 DEF msgbox_compact
<1> QED  BY Zenon, <1>1, <1>2, <1>3, <1>4, <1>5, <1>6, <1>7 DEF Step

(* A step of hart h leaves the locals of the other harts alone.              *)
LEMMA OthersUntouched ==
    ASSUME TypeOK, NEW h \in Harts, Step(h), NEW g \in Harts, g # h
    PROVE  /\ pc'[g] = pc[g] /\ call'[g] = call[g] /\ side'[g] = side[g]
           /\ local'[g] = local[g] /\ ret'[g] = ret[g]
<1>1. CASE Call(h) \/ Return(h) \/ Lock(h) \/ msgbox_init(h)
  BY ZenonT(60), <1>1 DEF TypeOK, Call, Return, Lock, TestInited, spinlock_init, SetInited,
              spinlock_acquire, spinlock_release, msgbox_init, Goto
<1>2. CASE msgbox_push(h)
  BY Zenon, <1>2 DEF TypeOK, msgbox_push, PushFull, PushCopy, PushTail, PushCount, Goto
<1>3. CASE msgbox_pop(h)
  BY ZenonT(60), <1>3 DEF TypeOK, msgbox_pop, PopEmpty, PopCopy, PopHead, PopCount, Goto
<1>4. CASE msgbox_compact(h)
  BY Zenon, <1>4 DEF TypeOK, msgbox_compact, CompactShort, CompactCopy, CompactReset,
              CompactFill, Goto
<1> QED  BY Zenon, <1>1, <1>2, <1>3, <1>4 DEF Step

(* A step of one hart keeps what every hart's locals hold.                   *)
LEMMA ControlStep ==
    ASSUME TypeOK, Control, NEW h \in Harts, Step(h)
    PROVE  Control'
<1>1. \A g \in Harts : g # h => ControlOf(g)'
  BY OthersUntouched DEF Control, ControlOf, Keep
<1>2. ControlOf(h)'
  <2> DEFINE Fresh == /\ \A m : Ret("ok", m) # NoRet
                      /\ \A m : Ret("ENOSPC", m) # NoRet
                      /\ \A m : Ret("EAGAIN", m) # NoRet
  <2>0. ControlOf(h) /\ Fresh
    BY Zenon DEF Control, Ret, NoRet
  <2> HIDE DEF Fresh
  <2>1. CASE Call(h)
    <3>1. PICK c \in Calls : /\ call' = [call EXCEPT ![h] = c]
                            /\ Goto(h, IF c.op = "init" THEN "reinit" ELSE "once")
      BY <2>1, Zenon DEF Call
    <3>2. c # NoCall
      BY Zenon, CallShape, OpsAssumption DEF NoCall
    <3> QED  BY Zenon, <2>0, <2>1, <3>1, <3>2 DEF TypeOK, Call, ControlOf, Goto
  <2>2. CASE Return(h)
    BY Zenon, <2>0, <2>2 DEF TypeOK, Return, ControlOf, Goto
  <2>3. CASE Lock(h)
    BY ZenonT(60), <2>0, <2>3 DEF TypeOK, Lock, TestInited, spinlock_init, SetInited,
                      spinlock_acquire, spinlock_release, ControlOf, Goto
  <2>4. CASE msgbox_init(h)
    BY Zenon, <2>0, <2>4 DEF TypeOK, msgbox_init, ControlOf, Goto, Fresh
  <2>5. CASE msgbox_push(h)
    <3>1. CASE PushFull(h)
      BY Zenon, <2>0, <3>1 DEF TypeOK, PushFull, ControlOf, Goto, Fresh
    <3>2. CASE PushCopy(h)
      BY Zenon, <2>0, <3>2 DEF TypeOK, PushCopy, ControlOf, Goto
    <3>3. CASE PushTail(h)
      BY Zenon, <2>0, <3>3 DEF TypeOK, PushTail, ControlOf, Goto
    <3>4. CASE PushCount(h)
      BY Zenon, <2>0, <3>4 DEF TypeOK, PushCount, ControlOf, Goto, Fresh
    <3> QED  BY Zenon, <2>5, <3>1, <3>2, <3>3, <3>4 DEF msgbox_push
  <2>6. CASE msgbox_pop(h)
    <3>1. CASE PopEmpty(h)
      BY Zenon, <2>0, <3>1 DEF TypeOK, PopEmpty, ControlOf, Goto, Fresh
    <3>2. CASE PopCopy(h)
      BY Zenon, <2>0, <3>2 DEF TypeOK, PopCopy, ControlOf, Goto
    <3>3. CASE PopHead(h)
      BY Zenon, <2>0, <3>3 DEF TypeOK, PopHead, ControlOf, Goto
    <3>4. CASE PopCount(h)
      BY Zenon, <2>0, <3>4 DEF TypeOK, PopCount, ControlOf, Goto, Fresh
    <3> QED  BY Zenon, <2>6, <3>1, <3>2, <3>3, <3>4 DEF msgbox_pop
  <2>7. CASE msgbox_compact(h)
    <3>1. CASE CompactShort(h)
      BY Zenon, <2>0, <3>1 DEF TypeOK, CompactShort, ControlOf, Goto, Fresh
    <3>2. CASE CompactCopy(h)
      <4>1. count["normal"] \in Nat
        BY <3>2, CallShape DEF TypeOK, CompactCopy, Queues
      <4>2. Len(InOrder("normal", count["normal"])) = count["normal"]
        BY Zenon, <4>1, InOrderType DEF Queues
      <4> QED  BY Zenon, <2>0, <3>2, <4>2 DEF TypeOK, CompactCopy, ControlOf, Goto, Keep
    <3>3. CASE CompactReset(h)
      BY Zenon, <2>0, <3>3 DEF TypeOK, CompactReset, ControlOf, Goto, Keep
    <3>4. CASE CompactFill(h)
      BY Zenon, <2>0, <3>4 DEF TypeOK, CompactFill, ControlOf, Goto, Fresh
    <3> QED  BY Zenon, <2>7, <3>1, <3>2, <3>3, <3>4 DEF msgbox_compact
  <2> QED  BY Zenon, <2>1, <2>2, <2>3, <2>4, <2>5, <2>6, <2>7 DEF Step
<1> QED  BY Zenon, <1>1, <1>2 DEF Control

(* Every step of every hart keeps the values in their types: indices stay    *)
(* inside the rings, messages copied out of the rings are messages.          *)
THEOREM TypeCorrect == Spec => [](TypeOK /\ Control)
<1>1. Init => TypeOK /\ Control
  BY Zenon, TypeInit
<1>2. TypeOK /\ Control /\ [Next]_vars => (TypeOK /\ Control)'
  <2> SUFFICES ASSUME TypeOK, Control, [Next]_vars
               PROVE  TypeOK' /\ Control'
    OBVIOUS
  <2>1. CASE UNCHANGED vars
    BY Zenon, <2>1 DEF vars, TypeOK, Control, ControlOf, Keep
  <2>2. CASE Next
    BY Zenon, <2>2, TypeStep, ControlStep DEF Next
  <2> QED  BY Zenon, <2>1, <2>2
<1> QED  BY <1>1, <1>2, PTL DEF Spec

-----------------------------------------------------------------------------
(* Mutual exclusion.                                                         *)

(* What one step does to the lock word and to the statement of its hart.     *)
LEMMA LockStep ==
    ASSUME TypeOK, Control, NEW h \in Harts, Step(h)
    PROVE  \/ /\ pc[h] = "idle"
              /\ \E op \in Ops : pc'[h] = IF op = "init" THEN "reinit" ELSE "once"
              /\ UNCHANGED lockVars
           \/ pc[h] = "once" /\ inited /\ pc'[h] = "acquire" /\ UNCHANGED lockVars
           \/ pc[h] = "once" /\ ~inited
           \/ pc[h] \in {"reinit", "lock_init", "set_inited"}
           \/ pc[h] = "acquire" /\ ~locked /\ pc'[h] = "check"
              /\ locked' /\ UNCHANGED inited
           \/ pc[h] = "release" /\ pc'[h] = "return" /\ UNCHANGED inited
           \/ pc[h] = "return" /\ pc'[h] = "idle" /\ UNCHANGED lockVars
           \/ pc[h] \in Updating /\ pc'[h] \in Critical /\ UNCHANGED lockVars
<1> USE DEF TypeOK, Goto, lockVars, Critical, Updating
<1>1. CASE Call(h)
  BY Zenon, <1>1, CallShape DEF Call
<1>2. CASE Return(h) \/ msgbox_init(h) \/ Lock(h)
  BY Zenon, <1>2 DEF Return, msgbox_init, Lock, TestInited, spinlock_init, SetInited,
              spinlock_acquire, spinlock_release
<1>3. CASE msgbox_push(h)
  BY Zenon, <1>3 DEF msgbox_push, PushFull, PushCopy, PushTail, PushCount
<1>4. CASE msgbox_pop(h)
  BY Zenon, <1>4 DEF msgbox_pop, PopEmpty, PopCopy, PopHead, PopCount
<1>5. CASE msgbox_compact(h)
  BY Zenon, <1>5 DEF msgbox_compact, CompactShort, CompactCopy, CompactReset, CompactFill
<1> QED  BY Zenon, <1>1, <1>2, <1>3, <1>4, <1>5 DEF Step

(* The lock invariant is kept by a step of any hart.                         *)
LEMMA LockInvStep ==
    ASSUME TypeOK, Control, LockInv, NEW h \in Harts, Step(h)
    PROVE  LockInv'
<1>1. CASE \A g, k \in Harts : g = k
  BY Zenon, <1>1 DEF LockInv
<1>2. CASE ~\A g, k \in Harts : g = k
  <2>1. /\ inited /\ "init" \notin Ops
        /\ \A k \in Harts : /\ pc[k] \notin {"lock_init", "set_inited", "reinit"}
                            /\ pc[k] \in Critical => locked
        /\ BoxExclusion
    BY Zenon, <1>2 DEF LockInv
  <2>2. \A g \in Harts : g # h => pc'[g] = pc[g]
    BY Zenon, OthersUntouched
  <2>3. inited' /\ pc'[h] \notin {"lock_init", "set_inited", "reinit"}
    BY <2>1, LockStep, Zenon DEF lockVars, Critical, Updating
  <2>4. /\ \A k \in Harts : pc'[k] \in Critical => locked'
        /\ \A g, k \in Harts : pc'[g] \in Critical /\ pc'[k] \in Critical => g = k
    <3>0. \A g, k \in Harts : pc[g] \in Critical /\ pc[k] \in Critical => g = k
      BY Zenon, <2>1 DEF BoxExclusion, Critical
    <3>1. \/ pc'[h] \notin Critical /\ locked' = locked
          \/ pc[h] \in Critical /\ pc'[h] \notin Critical
          \/ ~locked /\ locked'
          \/ pc[h] \in Critical /\ locked' = locked
      BY <2>1, LockStep, Zenon DEF lockVars, Critical, Updating
    <3>2. CASE pc'[h] \notin Critical /\ locked' = locked
      BY Zenon, <2>1, <2>2, <3>0, <3>2
    <3>3. CASE pc[h] \in Critical /\ pc'[h] \notin Critical
      BY Zenon, <2>1, <2>2, <3>0, <3>3
    <3>4. CASE ~locked /\ locked'
      BY Zenon, <2>1, <2>2, <3>0, <3>4
    <3>5. CASE pc[h] \in Critical /\ locked' = locked
      BY Zenon, <2>1, <2>2, <3>0, <3>5
    <3> QED  BY Zenon, <3>1, <3>2, <3>3, <3>4, <3>5
  <2>5. BoxExclusion'
    BY Zenon, <2>1, <2>2, <2>3, <2>4 DEF BoxExclusion, Critical
  <2> QED  BY Zenon, <2>1, <2>2, <2>3, <2>4, <2>5 DEF LockInv
<1> QED  BY Zenon, <1>1, <1>2

(* Mutual exclusion of the mailbox operations, for any number of harts.      *)
THEOREM MutualExclusion ==
    ASSUME Serialized
    PROVE  Spec => [](LockInv /\ BoxExclusion)
<1>1. Init => LockInv
  BY Serialized DEF Serialized, Init, LockInv, BoxExclusion, Critical, Updating
<1>2. TypeOK /\ Control /\ LockInv /\ [Next]_vars => LockInv'
  <2> SUFFICES ASSUME TypeOK, Control, LockInv, [Next]_vars
               PROVE  LockInv'
    OBVIOUS
  <2>1. CASE UNCHANGED vars
    BY Zenon, <2>1 DEF vars, LockInv, BoxExclusion
  <2>2. CASE Next
    BY Zenon, <2>2, LockInvStep DEF Next
  <2> QED  BY Zenon, <2>1, <2>2
<1>3. LockInv => BoxExclusion
  BY Zenon DEF LockInv, BoxExclusion
<1> QED  BY <1>1, <1>2, <1>3, TypeCorrect, PTL DEF Spec

-----------------------------------------------------------------------------
(* The ring buffers: how an operation part way through a ring has left its   *)
(* indices (RingInv), and that the counts and the tails agree whenever no    *)
(* operation is part way through.                                            *)

(* How each ring stands, given the operation that is part way through it.    *)
Whole(q) == \A h \in Harts : ~(pc[h] \in {"push_count", "pop_count"} /\ side[h] = q)

RingOf(q) == /\ count[q] \in 0..Capacity(q)
             /\ Whole(q) => tail[q] = (head[q] + count[q]) % Capacity(q)

PartWay(h, q) ==
    /\ pc[h] = "push_tail" =>
          count[q] < Capacity(q) /\ ring[q][tail[q]] = call[h].msg
    /\ pc[h] = "push_count" =>
          /\ count[q] < Capacity(q)
          /\ tail[q] = (head[q] + count[q] + 1) % Capacity(q)
          /\ ring[q][(head[q] + count[q]) % Capacity(q)] = call[h].msg
    /\ pc[h] = "pop_head" =>
          /\ count[q] > 0 /\ q = PopQueue(count["steer"])
          /\ local[h] = <<ring[q][head[q]]>>
    /\ pc[h] = "pop_count" =>
          /\ count[q] > 0 /\ q = PopQueue(count["steer"])
          /\ tail[q] = (head[q] + (count[q] - 1)) % Capacity(q)
    /\ pc[h] = "compact_reset" => local[h] = InOrder("normal", count["normal"])
    /\ pc[h] = "compact_fill" =>
          head["normal"] = 0 /\ count["normal"] = Keep(h) + 1

RingInv == /\ \A q \in Queues : RingOf(q)
           /\ \A h \in Harts : PartWay(h, side[h])

-----------------------------------------------------------------------------

(* Advancing an index and then adding is adding one more.                    *)
LEMMA ModAdvance ==
    ASSUME NEW N \in Nat \ {0}, NEW a \in Nat, NEW b \in Nat, a <= N, b < N
    PROVE  ((a % N) + b) % N = (a + b) % N
<1>1. CASE a < N
  BY Zenon, <1>1, ModSmall
<1>2. CASE a = N
  <2>1. a % N = 0
    BY <1>2, ModWrap
  <2>2. b % N = b
    BY Zenon, ModSmall
  <2>3. (a + b) % N = b
    BY <1>2, ModWrap
  <2> QED  BY <2>1, <2>2, <2>3
<1> QED  BY <1>1, <1>2

(* The slot after the last message of a ring that is not full.               *)
LEMMA ModNext ==
    ASSUME NEW N \in Nat \ {0}, NEW a \in Nat, a < N + N - 1
    PROVE  ((a % N) + 1) % N = (a + 1) % N
<1>1. CASE a < N
  BY Zenon, <1>1, ModSmall
<1>2. CASE N <= a
  <2>1. a % N = a - N
    BY <1>2, SMT
  <2>2. (a - N + 1) % N = a - N + 1
    BY <1>2, ModSmall
  <2>3. (a + 1) % N = a + 1 - N
    BY <1>2, SMT
  <2> QED  BY <2>1, <2>2, <2>3
<1> QED  BY <1>1, <1>2

(* While one hart is inside the box no other hart is.                        *)
LEMMA Alone ==
    ASSUME TypeOK, LockInv, NEW h \in Harts, pc[h] \in Updating \cup {"reinit"},
           Step(h), NEW g \in Harts, g # h
    PROVE  pc[g] \notin Updating /\ pc'[g] \notin Updating
<1>1. BoxExclusion
  BY Zenon DEF LockInv, BoxExclusion
<1>2. pc'[g] = pc[g]
  BY Zenon, OthersUntouched
<1> QED  BY Zenon, <1>1, <1>2 DEF BoxExclusion

(* A hart that is outside the box, or at its entrance or exit, changes no    *)
(* ring.                                                                     *)
LEMMA OutsideStep ==
    ASSUME TypeOK, Control, RingInv, NEW h \in Harts,
           Call(h) \/ Return(h) \/ Lock(h)
    PROVE  RingInv'
<1> DEFINE Part == {"push_tail", "push_count", "pop_head", "pop_count",
                    "compact_reset", "compact_fill"}
<1>1. /\ UNCHANGED boxVars
      /\ pc[h] \notin Part /\ pc'[h] \notin Part
  BY Zenon DEF TypeOK, Call, Return, Lock, TestInited, spinlock_init, SetInited,
         spinlock_acquire, spinlock_release, Goto
<1>2. \A g \in Harts : g # h => /\ pc'[g] = pc[g] /\ call'[g] = call[g]
                                /\ side'[g] = side[g] /\ local'[g] = local[g]
  BY Zenon, OthersUntouched DEF Step
<1>3. \A q \in Queues : RingOf(q)'
  BY ZenonT(60), <1>1, <1>2 DEF RingInv, RingOf, Whole, boxVars
<1>4. \A g \in Harts : PartWay(g, side[g])'
  <2> SUFFICES ASSUME NEW g \in Harts PROVE PartWay(g, side[g])'
    OBVIOUS
  <2>1. CASE g = h
    BY Zenon, <1>1, <2>1 DEF PartWay
  <2>2. CASE g # h
    <3>1. /\ UNCHANGED <<ring, head, tail, count, pc[g], call[g], side[g], local[g]>>
          /\ PartWay(g, side[g])
      BY Zenon, <1>1, <1>2, <2>2 DEF RingInv, boxVars
    <3>2. Keep(g)' = Keep(g) /\ \A n : InOrder("normal", n)' = InOrder("normal", n)
      BY Zenon, <3>1 DEF Keep, InOrder
    <3> QED  BY Zenon, <3>1, <3>2 DEF PartWay
  <2> QED  BY Zenon, <2>1, <2>2
<1> QED  BY Zenon, <1>3, <1>4 DEF RingInv

(* A step of a hart inside the box keeps the rings and the operation it is   *)
(* part way through in step with each other.                                 *)
LEMMA RingInvStep ==
    ASSUME TypeOK, Control, LockInv, RingInv, NEW h \in Harts, Step(h)
    PROVE  RingInv'
<1>1. CASE Call(h) \/ Return(h) \/ Lock(h)
  BY Zenon, <1>1, OutsideStep
<1>2. CASE msgbox_init(h) \/ msgbox_push(h) \/ msgbox_pop(h) \/ msgbox_compact(h)
  <2>1. pc[h] \in Updating \cup {"reinit"}
    BY Zenon, <1>2 DEF msgbox_init, msgbox_push, PushFull, PushCopy, PushTail, PushCount,
                msgbox_pop, PopEmpty, PopCopy, PopHead, PopCount, msgbox_compact,
                CompactShort, CompactCopy, CompactReset, CompactFill, Updating
  <2>2. \A g \in Harts : g # h => pc[g] \notin Updating /\ pc'[g] \notin Updating
    BY Zenon, <2>1, Alone
  <2>3. \A g \in Harts : g # h => PartWay(g, side[g])'
    BY Zenon, <2>2 DEF PartWay, Updating
  <2>4. /\ side[h] \in Queues /\ side'[h] \in Queues
        /\ \A q \in Queues :
              /\ Whole(q) <=> ~(pc[h] \in {"push_count", "pop_count"} /\ side[h] = q)
              /\ Whole(q)' <=> ~(pc'[h] \in {"push_count", "pop_count"} /\ side'[h] = q)
    BY <2>2, TypeStep, Zenon DEF Whole, Updating, TypeOK
  <2>5. SUFFICES (\A q \in Queues : RingOf(q)') /\ PartWay(h, side[h])'
    BY Zenon, <2>3 DEF RingInv
  <2>6. /\ PartWay(h, side[h])
        /\ \A q \in Queues :
              /\ count[q] \in 0..Capacity(q) /\ Capacity(q) \in Nat \ {0}
              /\ head[q] \in Nat /\ head[q] < Capacity(q)
              /\ tail[q] \in Nat /\ tail[q] < Capacity(q)
              /\ Whole(q) => tail[q] = (head[q] + count[q]) % Capacity(q)
    BY Zenon, CapacityPositive DEF RingInv, RingOf, TypeOK
  <2>7. CASE msgbox_init(h)
    <3>1. \A q \in Queues : 0 = (0 + 0) % Capacity(q)
      BY <2>6, ModSmall
    <3> QED  BY <2>4, <2>6, <2>7, <3>1
             DEF msgbox_init, Goto, RingOf, PartWay, TypeOK
  <2>8. CASE msgbox_push(h)
    <3>1. CASE PushFull(h)
      BY Zenon, <2>4, <2>6, <3>1 DEF PushFull, Goto, boxVars, RingOf, PartWay, TypeOK
    <3>2. CASE PushCopy(h)
      <4>0. PICK q \in Queues : q = QueueOf(call[h].msg)
        BY Zenon, <3>2, CallShape DEF PushCopy, TypeOK
      <4>1. /\ count[q] < Capacity(q) /\ side'[h] = q
            /\ pc[h] = "check" /\ pc'[h] = "push_tail"
            /\ ring'[q] = [ring[q] EXCEPT ![tail[q]] = call[h].msg]
            /\ UNCHANGED <<head, tail, count, call>>
        BY Zenon, <3>2, <4>0 DEF PushCopy, Goto, TypeOK
      <4>2. \A r \in Queues : RingOf(r)'
        BY Zenon, <2>4, <2>6, <4>1 DEF RingOf
      <4>3. ring'[q][tail[q]] = call[h].msg
        <5>1. tail[q] \in DOMAIN ring[q]
          BY <2>6 DEF TypeOK
        <5> QED  BY Zenon, <4>1, <5>1
      <4>4. PartWay(h, side[h])'
        BY Zenon, <4>1, <4>3 DEF PartWay
      <4> QED  BY Zenon, <4>2, <4>4
    <3>3. CASE PushTail(h)
      <4> DEFINE q == side[h]
      <4>1. /\ q \in Queues /\ count[q] < Capacity(q) /\ ring[q][tail[q]] = call[h].msg
            /\ tail[q] = (head[q] + count[q]) % Capacity(q)
        BY Zenon, <2>4, <2>6, <3>3 DEF PushTail, PartWay
      <4>2. (((head[q] + count[q]) % Capacity(q)) + 1) % Capacity(q)
              = (head[q] + count[q] + 1) % Capacity(q)
        <5> HIDE DEF q
        <5>1. head[q] + count[q] \in Nat
              /\ head[q] + count[q] < Capacity(q) + Capacity(q) - 1
          BY <2>6, <4>1
        <5> QED  BY Zenon, <2>6, <4>1, <5>1, ModNext
      <4>3. /\ tail'[q] = (head[q] + count[q] + 1) % Capacity(q)
            /\ \A r \in Queues : r # q => tail'[r] = tail[r]
            /\ UNCHANGED <<ring, head, count, call, side>>
            /\ pc'[h] = "push_count"
        BY Zenon, <3>3, <4>1, <4>2 DEF PushTail, Goto, TypeOK
      <4> HIDE DEF q
      <4>4. \A r \in Queues : RingOf(r)'
        BY Zenon, <2>4, <2>6, <3>3, <4>3 DEF RingOf, PushTail, q
      <4>5. PartWay(h, side[h])'
        BY Zenon, <4>1, <4>3 DEF PartWay, q
      <4> QED  BY Zenon, <4>4, <4>5
    <3>4. CASE PushCount(h)
      <4> DEFINE q == side[h]
      <4>1. /\ q \in Queues /\ count[q] < Capacity(q)
            /\ tail[q] = (head[q] + count[q] + 1) % Capacity(q)
        BY Zenon, <2>4, <2>6, <3>4 DEF PushCount, PartWay
      <4>2. /\ count'[q] = count[q] + 1
            /\ \A r \in Queues : r # q => count'[r] = count[r]
            /\ UNCHANGED <<ring, head, tail, side>>
            /\ pc'[h] = "release"
        BY Zenon, <3>4, <4>1 DEF PushCount, Goto, TypeOK
      <4>3. \A r \in Queues : RingOf(r)'
        <5> SUFFICES ASSUME NEW r \in Queues PROVE RingOf(r)'
          OBVIOUS
        <5>1. CASE r = q
          <6> HIDE DEF q
          <6>1. head[q] + (count[q] + 1) = head[q] + count[q] + 1
            BY <2>6, <4>1
          <6> QED  BY <2>6, <4>1, <4>2, <5>1, <6>1 DEF RingOf
        <5>2. CASE r # q
          BY Zenon, <2>4, <2>6, <4>2, <5>2 DEF RingOf
        <5> QED  BY Zenon, <5>1, <5>2
      <4>4. PartWay(h, side[h])'
        BY Zenon, <4>2 DEF PartWay
      <4> QED  BY Zenon, <4>3, <4>4
    <3> QED  BY Zenon, <2>8, <3>1, <3>2, <3>3, <3>4 DEF msgbox_push
  <2>9. CASE msgbox_pop(h)
    <3>1. CASE PopEmpty(h)
      BY ZenonT(60), <2>4, <2>6, <3>1 DEF PopEmpty, Goto, boxVars, RingOf, PartWay, TypeOK
    <3>2. CASE PopCopy(h)
      <4>0. PICK q \in Queues : q = PopQueue(count["steer"])
        BY Zenon DEF PopQueue, Queues
      <4>1. /\ count[q] # 0 /\ side'[h] = q /\ local'[h] = <<ring[q][head[q]]>>
            /\ pc[h] = "check" /\ pc'[h] = "pop_head"
            /\ UNCHANGED <<ring, head, tail, count>>
        BY Zenon, <3>2, <4>0 DEF PopCopy, Goto, boxVars, TypeOK
      <4>2. \A r \in Queues : RingOf(r)'
        BY Zenon, <2>4, <2>6, <4>1 DEF RingOf
      <4>3. count[q] > 0
        BY <2>6, <4>1
      <4>4. PartWay(h, side[h])'
        BY Zenon, <4>0, <4>1, <4>3 DEF PartWay
      <4> QED  BY Zenon, <4>2, <4>4
    <3>3. CASE PopHead(h)
      <4> DEFINE q == side[h]
      <4>1. /\ q \in Queues /\ count[q] > 0 /\ q = PopQueue(count["steer"])
            /\ tail[q] = (head[q] + count[q]) % Capacity(q)
        BY Zenon, <2>4, <2>6, <3>3 DEF PopHead, PartWay
      <4>2. (((head[q] + 1) % Capacity(q)) + (count[q] - 1)) % Capacity(q)
              = (head[q] + count[q]) % Capacity(q)
        <5> HIDE DEF q
        <5>1. /\ head[q] + 1 \in Nat /\ head[q] + 1 <= Capacity(q)
              /\ count[q] - 1 \in Nat /\ count[q] - 1 < Capacity(q)
              /\ head[q] + 1 + (count[q] - 1) = head[q] + count[q]
          BY <2>6, <4>1
        <5>2. Capacity(q) \in Nat \ {0}
          BY Zenon, <2>6, <4>1
        <5>3. (((head[q] + 1) % Capacity(q)) + (count[q] - 1)) % Capacity(q)
                = (head[q] + 1 + (count[q] - 1)) % Capacity(q)
          BY Zenon, <5>1, <5>2, ModAdvance
        <5> QED  BY Zenon, <5>1, <5>3
      <4>3. /\ head'[q] = (head[q] + 1) % Capacity(q)
            /\ \A r \in Queues : r # q => head'[r] = head[r]
            /\ UNCHANGED <<ring, tail, count, side>>
            /\ pc'[h] = "pop_count"
        BY Zenon, <3>3, <4>1 DEF PopHead, Goto, TypeOK
      <4> HIDE DEF q
      <4>4. \A r \in Queues : RingOf(r)'
        BY Zenon, <2>4, <2>6, <3>3, <4>3 DEF RingOf, PopHead, q
      <4>5. PartWay(h, side[h])'
        BY Zenon, <4>1, <4>2, <4>3 DEF PartWay, q
      <4> QED  BY Zenon, <4>4, <4>5
    <3>4. CASE PopCount(h)
      <4> DEFINE q == side[h]
      <4>1. /\ q \in Queues /\ count[q] > 0
            /\ tail[q] = (head[q] + (count[q] - 1)) % Capacity(q)
        BY Zenon, <2>4, <2>6, <3>4 DEF PopCount, PartWay
      <4>2. /\ count'[q] = count[q] - 1
            /\ \A r \in Queues : r # q => count'[r] = count[r]
            /\ UNCHANGED <<ring, head, tail, side>>
            /\ pc'[h] = "release"
        BY Zenon, <3>4, <4>1 DEF PopCount, Goto, TypeOK
      <4>3. \A r \in Queues : RingOf(r)'
        <5> SUFFICES ASSUME NEW r \in Queues PROVE RingOf(r)'
          OBVIOUS
        <5>1. CASE r = q
          <6> HIDE DEF q
          <6> QED  BY <2>6, <4>1, <4>2, <5>1, SMTT(40) DEF RingOf
        <5>2. CASE r # q
          BY Zenon, <2>4, <2>6, <4>2, <5>2 DEF RingOf
        <5> QED  BY Zenon, <5>1, <5>2
      <4>4. PartWay(h, side[h])'
        BY Zenon, <4>2 DEF PartWay
      <4> QED  BY Zenon, <4>3, <4>4
    <3> QED  BY Zenon, <2>9, <3>1, <3>2, <3>3, <3>4 DEF msgbox_pop
  <2>10. CASE msgbox_compact(h)
    <3>1. CASE CompactShort(h)
      BY Zenon, <2>4, <2>6, <3>1 DEF CompactShort, Goto, boxVars, RingOf, PartWay, TypeOK
    <3>2. CASE CompactCopy(h)
      BY Zenon, <2>4, <2>6, <3>2 DEF CompactCopy, Goto, boxVars, RingOf, PartWay, TypeOK,
                              InOrder
    <3>3. CASE CompactReset(h)
      <4>1. /\ Keep(h) + 1 \in Nat /\ Keep(h) + 1 <= MSG_CAPACITY
            /\ 0 + (Keep(h) + 1) = Keep(h) + 1
        <5>1. Keep(h) \in Nat /\ Keep(h) < Len(local[h])
          BY <3>3, CallShape, SMTT(40) DEF CompactReset, Control, ControlOf, Keep, TypeOK
        <5>2. Len(local[h]) = count["normal"]
          <6>1. count["normal"] \in Nat
            BY <2>6, CapacityPositive DEF Queues
          <6>2. local[h] = InOrder("normal", count["normal"])
            BY Zenon, <2>6, <3>3 DEF CompactReset, PartWay
          <6> QED  BY Zenon, <6>1, <6>2, InOrderType DEF Queues
        <5> QED  BY <2>6, <5>1, <5>2, CapacityPositive DEF Queues
      <4>2. /\ head'["normal"] = 0 /\ head'["steer"] = head["steer"]
            /\ tail'["normal"] = (Keep(h) + 1) % MSG_CAPACITY
            /\ tail'["steer"] = tail["steer"]
            /\ count'["normal"] = Keep(h) + 1 /\ count'["steer"] = count["steer"]
            /\ pc'[h] = "compact_fill" /\ UNCHANGED <<call, side, Keep(h)>>
        BY Zenon, <3>3 DEF CompactReset, Goto, TypeOK, Keep, Queues
      <4>3. \A r \in Queues : RingOf(r)'
        <5>1. RingOf("normal")'
          BY <4>1, <4>2, CapacityPositive DEF RingOf
        <5>2. RingOf("steer")'
          BY Zenon, <2>4, <2>6, <3>3, <4>2 DEF RingOf, Queues, CompactReset
        <5> QED  BY Zenon, <5>1, <5>2 DEF Queues
      <4>4. PartWay(h, side[h])'
        BY Zenon, <4>2 DEF PartWay
      <4> QED  BY Zenon, <4>3, <4>4
    <3>4. CASE CompactFill(h)
      BY Zenon, <2>4, <2>6, <3>4 DEF CompactFill, Goto, RingOf, PartWay, TypeOK
    <3> QED  BY Zenon, <2>10, <3>1, <3>2, <3>3, <3>4 DEF msgbox_compact
  <2> QED  BY Zenon, <1>2, <2>7, <2>8, <2>9, <2>10
<1> QED  BY Zenon, <1>1, <1>2 DEF Step

(* The rings and the operation part way through them agree, always.          *)
THEOREM RingInvariant ==
    ASSUME Serialized
    PROVE  Spec => []RingInv
<1>1. Init => RingInv
  <2> SUFFICES ASSUME Init PROVE RingInv
    OBVIOUS
  <2>1. \A q \in Queues : 0 = (0 + 0) % Capacity(q)
    BY CapacityPositive, ModSmall
  <2>2. \A q \in Queues : RingOf(q)
    BY <2>1, CapacityPositive DEF Init, RingOf
  <2>3. \A h \in Harts : PartWay(h, side[h])
    BY Zenon DEF Init, PartWay
  <2> QED  BY Zenon, <2>2, <2>3 DEF RingInv
<1>2. TypeOK /\ Control /\ LockInv /\ RingInv /\ [Next]_vars => RingInv'
  <2> SUFFICES ASSUME TypeOK, Control, LockInv, RingInv, [Next]_vars
               PROVE  RingInv'
    OBVIOUS
  <2>1. CASE UNCHANGED vars
    BY Zenon, <2>1 DEF vars, RingInv, RingOf, Whole, PartWay, Keep, InOrder
  <2>2. CASE Next
    BY Zenon, <2>2, RingInvStep DEF Next
  <2> QED  BY Zenon, <2>1, <2>2
<1> QED  BY <1>1, <1>2, TypeCorrect, MutualExclusion, PTL DEF Spec

(* When no hart is part way through an operation, each count is within its   *)
(* capacity and says where the tail is: compaction cannot overfill a ring.   *)
THEOREM RingsConsistent ==
    ASSUME Serialized
    PROVE  Spec => []RingConsistent
<1>1. RingInv => RingConsistent
  BY Zenon DEF RingInv, RingConsistent, RingOf, Whole, Updating
<1> QED  BY <1>1, RingInvariant, PTL

-----------------------------------------------------------------------------
(* The rings of kernel/ipc.c under their lock implement Mailbox: every       *)
(* statement of an operation leaves the two queues as they are, except the   *)
(* last one before the unlock, which makes the whole change of its operation *)
(* at once.                                                                  *)

-----------------------------------------------------------------------------
(* What the refinement mapping yields.                                       *)

(* Content(q) when the only hart that may be inside the box is h.            *)
View(h, q) ==
    /\ pc[h] = "compact_fill" /\ q = "normal" => Content(q) = local[h]
    /\ pc[h] = "pop_count" /\ side[h] = q
          => Content(q) = local[h] \o InOrder(q, count[q] - 1)
    /\ pc[h] # "compact_fill" /\ (pc[h] # "pop_count" \/ side[h] # q)
          => Content(q) = InOrder(q, count[q])
    /\ pc[h] = "compact_fill" /\ q # "normal" => Content(q) = InOrder(q, count[q])

(* With at most hart h inside the box, the mapping is determined by h.       *)
LEMMA ContentView ==
    ASSUME NEW h \in Harts, NEW q \in Queues,
           \A g \in Harts : pc[g] \in {"compact_fill", "pop_count"} => g = h
    PROVE  View(h, q)
<1>1. \A g \in Harts : pc[g] = "compact_fill" \/ pc[g] = "pop_count" => g = h
  OBVIOUS
<1>2. CASE pc[h] = "compact_fill"
  <2>1. (CHOOSE g \in Harts : pc[g] = "compact_fill") = h
    BY Zenon, <1>1, <1>2
  <2> QED  BY Zenon, <1>1, <1>2, <2>1 DEF Content, View
<1>3. CASE pc[h] = "pop_count"
  <2>1. (CHOOSE g \in Harts : pc[g] = "pop_count") = h
    BY Zenon, <1>1, <1>3
  <2> QED  BY Zenon, <1>1, <1>3, <2>1 DEF Content, View
<1>4. CASE pc[h] # "compact_fill" /\ pc[h] # "pop_count"
  BY Zenon, <1>1, <1>4 DEF Content, View
<1> QED  BY Zenon, <1>2, <1>3, <1>4

(* The same of the next state.                                               *)
LEMMA ContentViewNext ==
    ASSUME NEW h \in Harts, NEW q \in Queues,
           \A g \in Harts : pc'[g] \in {"compact_fill", "pop_count"} => g = h
    PROVE  View(h, q)'
<1>1. \A g \in Harts : pc'[g] = "compact_fill" \/ pc'[g] = "pop_count" => g = h
  OBVIOUS
<1>2. CASE pc'[h] = "compact_fill"
  <2>1. (CHOOSE g \in Harts : pc'[g] = "compact_fill") = h
    BY Zenon, <1>1, <1>2
  <2> QED  BY Zenon, <1>1, <1>2, <2>1 DEF Content, View
<1>3. CASE pc'[h] = "pop_count"
  <2>1. (CHOOSE g \in Harts : pc'[g] = "pop_count") = h
    BY Zenon, <1>1, <1>3
  <2> QED  BY <1>1, <1>3, <2>1, Zenon DEF Content, View
<1>4. CASE pc'[h] # "compact_fill" /\ pc'[h] # "pop_count"
  BY <1>1, <1>4, Zenon DEF Content, View
<1> QED  BY Zenon, <1>2, <1>3, <1>4

(* Two slots less than a capacity apart are different slots.                 *)
LEMMA ModDistinct ==
    ASSUME NEW N \in Nat \ {0}, NEW a \in Nat, NEW b \in Nat,
           a < b, b < a + N, b < N + N
    PROVE  a % N # b % N
<1>1. CASE b < N
  BY <1>1, ModSmall
<1>2. CASE a < N /\ N <= b
  <2>1. a % N = a
    BY Zenon, <1>2, ModSmall
  <2>2. b % N = b - N
    BY <1>2, ModWrap, Zenon
  <2> QED  BY <2>1, <2>2
<1>3. CASE N <= a
  <2>1. a % N = a - N
    BY <1>3, SMT
  <2>2. b % N = b - N
    BY <1>3, SMT
  <2> QED  BY <2>1, <2>2
<1> QED  BY <1>1, <1>2, <1>3

(* A one-message sequence in front of another.                               *)
LEMMA OneInFront ==
    ASSUME NEW S, NEW u \in Seq(S), NEW t \in Seq(S), Len(u) = 1
    PROVE  /\ u \o t \in Seq(S) /\ Len(u \o t) = Len(t) + 1
           /\ (u \o t)[1] = u[1]
           /\ \A i \in 1..Len(t) : (u \o t)[i + 1] = t[i]
<1>1. /\ u \o t \in Seq(S) /\ Len(u \o t) = Len(u) + Len(t)
      /\ \A i \in 1..Len(u) + Len(t) :
            (u \o t)[i] = IF i <= Len(u) THEN u[i] ELSE t[i - Len(u)]
  BY ConcatProperties, Zenon
<1>2. Len(t) \in Nat /\ Len(u) + Len(t) = Len(t) + 1
  BY LenProperties
<1> QED  BY <1>1, <1>2

(* The mapping before and after a step of the hart inside the box.           *)
LEMMA InsideViews ==
    ASSUME TypeOK, LockInv, NEW h \in Harts, pc[h] \in Updating \cup {"reinit"}, Step(h)
    PROVE  \A q \in Queues : View(h, q) /\ View(h, q)'
<1>1. \A g \in Harts : g # h => pc[g] \notin Updating /\ pc'[g] \notin Updating
  BY Zenon, Alone
<1> QED  BY Zenon, <1>1, ContentView, ContentViewNext DEF Updating

(* The rings in numbers, for the steps below.                                *)
LEMMA RingFacts ==
    ASSUME TypeOK, RingInv, NEW q \in Queues
    PROVE  /\ count[q] \in Nat /\ count[q] <= Capacity(q)
           /\ Capacity(q) \in Nat \ {0}
           /\ head[q] \in Nat /\ head[q] < Capacity(q)
           /\ InOrder(q, count[q]) \in Seq(AnyMsg)
           /\ Len(InOrder(q, count[q])) = count[q]
<1>1. /\ count[q] \in Nat /\ count[q] <= Capacity(q) /\ Capacity(q) \in Nat \ {0}
      /\ head[q] \in Nat /\ head[q] < Capacity(q)
  BY CapacityPositive DEF RingInv, RingOf, TypeOK
<1> QED  BY Zenon, <1>1, InOrderType

(* A ring that is not written reads the same.                                *)
LEMMA InOrderSame ==
    ASSUME NEW q, NEW n, ring'[q] = ring[q], head'[q] = head[q]
    PROVE  InOrder(q, n)' = InOrder(q, n)
BY Zenon DEF InOrder

(* No change to the queues or to the interface.                              *)
Stutter == UNCHANGED <<call, ret>> /\ \A q \in Queues : Content(q)' = Content(q)

-----------------------------------------------------------------------------
(* Push.                                                                     *)

(* A statement of msgbox_push is a stutter or the abstract push.             *)
LEMMA PushRefines ==
    ASSUME TypeOK, Control, LockInv, RingInv, NEW h \in Harts, msgbox_push(h)
    PROVE  Stutter \/ M!Push(h)
<1>1. pc[h] \in Updating /\ Step(h)
  BY Zenon DEF msgbox_push, PushFull, PushCopy, PushTail, PushCount, Updating, Step
<1>2. \A q \in Queues : /\ Content(q) = InOrder(q, count[q])
                        /\ Content(q)' = InOrder(q, count[q])'
  <2>1. \A q \in Queues : View(h, q) /\ View(h, q)'
    BY Zenon, <1>1, InsideViews
  <2>2. /\ pc[h] \notin {"pop_count", "compact_fill"}
        /\ pc'[h] \notin {"pop_count", "compact_fill"}
    BY Zenon DEF msgbox_push, PushFull, PushCopy, PushTail, PushCount, Goto, TypeOK
  <2> QED  BY <2>1, <2>2, Zenon DEF View
<1>3. CASE PushFull(h)
  <2> DEFINE q == QueueOf(call[h].msg)
  <2>1. q \in Queues /\ call[h].op = "push" /\ ret[h] = NoRet
    BY <1>3, CallShape, Zenon DEF PushFull, TypeOK, Control, ControlOf
  <2>2. \A r \in Queues : Content(r)' = Content(r)
    BY Zenon, <1>2, <1>3, InOrderSame DEF PushFull, boxVars
  <2>3. Len(Content(q)) = Capacity(q)
    BY <1>2, <1>3, <2>1, RingFacts DEF PushFull
  <2>4. M!QueueOf(call[h].msg) = q /\ M!Capacity(q) = Capacity(q)
    BY Zenon DEF M!QueueOf, QueueOf, msgbox_is_priority_type, M!Capacity, Capacity
  <2> HIDE DEF q
  <2> QED  BY Zenon, <1>3, <2>1, <2>2, <2>3, <2>4
           DEF M!Push, PushFull, M!NoRet, NoRet, M!NoMsg, NoMsg, M!Ret, Ret
<1>4. CASE PushCopy(h)
  <2>0. PICK q \in Queues : q = QueueOf(call[h].msg)
    BY Zenon, <1>4, CallShape DEF PushCopy, TypeOK
  <2>1. /\ q \in Queues /\ count[q] < Capacity(q)
        /\ ring'[q] = [ring[q] EXCEPT ![tail[q]] = call[h].msg]
        /\ \A r \in Queues : r # q => ring'[r] = ring[r]
        /\ UNCHANGED <<call, ret, head, count>>
    BY Zenon, <1>4, <2>0 DEF PushCopy, TypeOK
  <2>2. tail[q] = (head[q] + count[q]) % Capacity(q)
    <3>1. \A g \in Harts : pc[g] \notin {"push_count", "pop_count"}
      BY Zenon, <1>1, <1>4, Alone DEF PushCopy, Updating
    <3> QED  BY Zenon, <2>1, <3>1 DEF RingInv, RingOf, Whole
  <2>3. InOrder(q, count[q])' = InOrder(q, count[q])
    <3> SUFFICES ASSUME NEW i \in 1..count[q]
                 PROVE  ring'[q][(head[q] + i - 1) % Capacity(q)]
                          = ring[q][(head[q] + i - 1) % Capacity(q)]
      BY Zenon, <2>1 DEF InOrder
    <3>1. /\ head[q] + i - 1 \in Nat /\ head[q] + count[q] \in Nat
          /\ head[q] + i - 1 < head[q] + count[q]
          /\ head[q] + count[q] < head[q] + i - 1 + Capacity(q)
          /\ head[q] + count[q] < Capacity(q) + Capacity(q)
      BY <2>1, RingFacts, SMTT(40)
    <3>2. (head[q] + i - 1) % Capacity(q) # tail[q]
      BY ZenonT(60), <2>1, <2>2, <3>1, RingFacts, ModDistinct
    <3>3. (head[q] + i - 1) % Capacity(q) \in 0..Capacity(q) - 1
      BY <2>1, <3>1, RingFacts, ModRange, Zenon
    <3> QED  BY Zenon, <2>1, <3>2, <3>3 DEF TypeOK
  <2>4. \A r \in Queues : r # q => InOrder(r, count[r])' = InOrder(r, count[r])
    BY Zenon, <2>1, InOrderSame
  <2> QED  BY Zenon, <1>2, <2>1, <2>3, <2>4 DEF Stutter
<1>5. CASE PushTail(h)
  BY Zenon, <1>2, <1>5, InOrderSame DEF PushTail, Stutter
<1>6. CASE PushCount(h)
  <2>0. PICK q \in Queues : q = side[h]
    BY Zenon DEF TypeOK
  <2>1. /\ q \in Queues /\ q = QueueOf(call[h].msg) /\ call[h].op = "push"
        /\ call[h].msg \in AnyMsg /\ ret[h] = NoRet
        /\ count[q] < Capacity(q)
        /\ ring[q][(head[q] + count[q]) % Capacity(q)] = call[h].msg
    BY Zenon, <1>6, <2>0, CallShape
       DEF PushCount, TypeOK, Control, ControlOf, RingInv, PartWay, AnyMsg
  <2>2. /\ count'[q] = count[q] + 1
        /\ \A r \in Queues : r # q => count'[r] = count[r]
        /\ UNCHANGED <<ring, head, call>>
        /\ ret' = [ret EXCEPT ![h] = Ret("ok", NoMsg)]
    BY Zenon, <1>6, <2>0 DEF PushCount, TypeOK
  <2>3. InOrder(q, count[q])' = Append(InOrder(q, count[q]), call[h].msg)
    <3> DEFINE n == count[q]
               s == InOrder(q, n)
               t == InOrder(q, n + 1)
    <3>1. InOrder(q, count[q])' = t
      BY Zenon, <2>2 DEF InOrder
    <3>2. n \in Nat /\ s \in Seq(AnyMsg) /\ Len(s) = n
      BY Zenon, RingFacts
    <3>3. t \in Seq(AnyMsg) /\ Len(t) = n + 1
      <4>1. n + 1 \in Nat
        BY <3>2
      <4> QED  BY Zenon, <4>1, InOrderType
    <3>4. /\ \A i \in 1..n : t[i] = s[i]
          /\ t[n + 1] = call[h].msg
      <4>1. head[q] + (n + 1) - 1 = head[q] + n
        BY <3>2, RingFacts
      <4>2. \A i \in 1..n : s[i] = ring[q][(head[q] + i - 1) % Capacity(q)]
        BY Zenon DEF InOrder
      <4>3. \A i \in 1..n + 1 : t[i] = ring[q][(head[q] + i - 1) % Capacity(q)]
        BY Zenon DEF InOrder
      <4>4. n + 1 \in 1..n + 1 /\ \A i \in 1..n : i \in 1..n + 1
        BY <3>2
      <4> HIDE DEF s, t
      <4> QED  BY <2>1, <4>1, <4>2, <4>3, <4>4, ZenonT(60)
    <3> HIDE DEF n, s, t
    <3>5. t = Append(s, call[h].msg)
      <4>1. /\ Append(s, call[h].msg) \in Seq(AnyMsg)
            /\ Len(Append(s, call[h].msg)) = n + 1
            /\ \A i \in 1..n : Append(s, call[h].msg)[i] = s[i]
            /\ Append(s, call[h].msg)[n + 1] = call[h].msg
        <5>1. call[h].msg \in AnyMsg  BY Zenon, <2>1
        <5> QED  BY <3>2, <5>1, AppendProperties, SMTT(60)
      <4>2. \A i \in 1..n + 1 : Append(s, call[h].msg)[i] = t[i]
        BY <3>2, <3>4, <4>1
      <4> QED  BY Zenon, <3>3, <4>1, <4>2, SeqEqual
    <3> QED  BY Zenon, <3>1, <3>5 DEF n, s, t
  <2>4. \A r \in Queues : r # q => InOrder(r, count[r])' = InOrder(r, count[r])
    BY Zenon, <2>2, InOrderSame
  <2>5. [r \in Queues |-> Content(r)']
           = [[r \in Queues |-> Content(r)] EXCEPT ![q] = Append(@, call[h].msg)]
    BY <1>2, <2>1, <2>3, <2>4, ZenonT(60)
  <2>6. Len(Content(q)) < Capacity(q)
    BY Zenon, <1>2, <2>1, RingFacts
  <2>7. M!QueueOf(call[h].msg) = q /\ M!Capacity(q) = Capacity(q)
    BY Zenon, <2>1 DEF M!QueueOf, QueueOf, msgbox_is_priority_type, M!Capacity, Capacity
  <2> QED  BY Zenon, <2>1, <2>2, <2>5, <2>6, <2>7
           DEF M!Push, M!NoRet, NoRet, M!NoMsg, NoMsg, M!Ret, Ret
<1> QED  BY Zenon, <1>3, <1>4, <1>5, <1>6 DEF msgbox_push

-----------------------------------------------------------------------------
(* Pop.                                                                      *)

(* A statement of msgbox_pop is a stutter or the abstract pop.               *)
LEMMA PopRefines ==
    ASSUME TypeOK, Control, LockInv, RingInv, NEW h \in Harts, msgbox_pop(h)
    PROVE  Stutter \/ M!Pop(h)
<1>1. pc[h] \in Updating /\ Step(h)
  BY Zenon DEF msgbox_pop, PopEmpty, PopCopy, PopHead, PopCount, Updating, Step
<1>2. \A q \in Queues : View(h, q) /\ View(h, q)'
  BY Zenon, <1>1, InsideViews
<1>3. CASE PopEmpty(h)
  <2>1. /\ call[h].op = "pop" /\ ret[h] = NoRet
        /\ count["steer"] = 0 /\ count["normal"] = 0
    <3>1. count["steer"] \in Nat
      BY Zenon, RingFacts DEF Queues
    <3> QED  BY <1>3, <3>1 DEF PopEmpty, Control, ControlOf
  <2>2. \A q \in Queues : Content(q) = InOrder(q, 0) /\ Content(q)' = InOrder(q, 0)
    <3>1. \A q \in Queues : /\ Content(q) = InOrder(q, count[q])
                            /\ Content(q)' = InOrder(q, count[q])'
      BY Zenon, <1>2, <1>3 DEF PopEmpty, Goto, View, TypeOK
    <3>2. \A q \in Queues : InOrder(q, count[q])' = InOrder(q, count[q])
      BY Zenon, <1>3, InOrderSame DEF PopEmpty, boxVars
    <3> QED  BY Zenon, <2>1, <3>1, <3>2 DEF Queues
  <2>3. \A q \in Queues : InOrder(q, 0) = <<>>
    BY DEF InOrder
  <2>4. M!PopQueue(Len(Content("steer"))) = "normal"
    BY <2>2, <2>3 DEF M!PopQueue, Queues
  <2> QED  BY Zenon, <1>3, <2>1, <2>2, <2>3, <2>4
           DEF M!Pop, PopEmpty, Queues, M!NoRet, NoRet, M!NoMsg, NoMsg, M!Ret, Ret
<1>4. CASE PopCopy(h)
  <2>1. \A q \in Queues : /\ Content(q) = InOrder(q, count[q])
                          /\ Content(q)' = InOrder(q, count[q])'
    BY Zenon, <1>2, <1>4 DEF PopCopy, Goto, View, TypeOK
  <2> QED  BY Zenon, <1>4, <2>1, InOrderSame DEF PopCopy, boxVars, Stutter
<1>5. CASE PopHead(h)
  <2>0. PICK q \in Queues : q = side[h]
    BY Zenon DEF TypeOK
  <2>1. /\ count[q] > 0 /\ local[h] = <<ring[q][head[q]]>>
        /\ head'[q] = (head[q] + 1) % Capacity(q)
        /\ \A r \in Queues : r # q => head'[r] = head[r]
        /\ UNCHANGED <<ring, count, local, call, ret, side>>
        /\ pc[h] = "pop_head" /\ pc'[h] = "pop_count"
    BY Zenon, <1>5, <2>0 DEF PopHead, RingInv, PartWay, Goto, TypeOK
  <2>2. \A r \in Queues : r # q => Content(r)' = Content(r)
    <3> SUFFICES ASSUME NEW r \in Queues, r # q PROVE Content(r)' = Content(r)
      OBVIOUS
    <3>1. Content(r) = InOrder(r, count[r]) /\ Content(r)' = InOrder(r, count[r])'
      BY <1>2, <2>0, <2>1, Zenon DEF View
    <3>2. InOrder(r, count[r])' = InOrder(r, count[r])
      BY Zenon, <2>1, InOrderSame
    <3> QED  BY Zenon, <3>1, <3>2
  <2>3. Content(q)' = Content(q)
    <3> DEFINE n == count[q]
               s == InOrder(q, n)
               t == InOrder(q, n - 1)'
               u == local[h]
    <3>1. Content(q) = s /\ Content(q)' = u \o t
      BY <1>2, <2>0, <2>1, Zenon DEF View
    <3>2. n \in Nat /\ n > 0 /\ s \in Seq(AnyMsg) /\ Len(s) = n
      BY Zenon, <2>1, RingFacts
    <3>3. t = [i \in 1..n - 1 |-> ring[q][(head'[q] + i - 1) % Capacity(q)]]
      BY Zenon, <2>1 DEF InOrder
    <3>4. \A i \in 1..n - 1 : t[i] = s[i + 1]
      <4> SUFFICES ASSUME NEW i \in 1..n - 1
                   PROVE  (head'[q] + i - 1) % Capacity(q)
                             = (head[q] + (i + 1) - 1) % Capacity(q)
        <5>1. \A i \in 1..n : s[i] = ring[q][(head[q] + i - 1) % Capacity(q)]
          BY Zenon DEF InOrder
        <5>2. \A i \in 1..n - 1 : t[i] = ring[q][(head'[q] + i - 1) % Capacity(q)]
          BY <3>3, Zenon
        <5>3. \A i \in 1..n - 1 : i + 1 \in 1..n
          BY <3>2
        <5> HIDE DEF s, t
        <5> QED  BY Zenon, <5>1, <5>2, <5>3
      <4>1. /\ head[q] + 1 \in Nat /\ head[q] + 1 <= Capacity(q)
            /\ i - 1 \in Nat /\ i - 1 < Capacity(q)
            /\ Capacity(q) \in Nat \ {0}
            /\ head[q] + 1 + (i - 1) = head[q] + (i + 1) - 1
        BY <3>2, RingFacts, SMTT(40)
      <4>2. (((head[q] + 1) % Capacity(q)) + (i - 1)) % Capacity(q)
               = (head[q] + 1 + (i - 1)) % Capacity(q)
        BY <4>1, ModAdvance, Zenon
      <4>3. head'[q] + i - 1 = ((head[q] + 1) % Capacity(q)) + (i - 1)
        BY Zenon, <2>1, <4>1, ModRange
      <4> QED  BY Zenon, <4>1, <4>2, <4>3
    <3>5. u \in Seq(AnyMsg) /\ Len(u) = 1 /\ u[1] = s[1]
      <4>1. head[q] + 1 - 1 = head[q] /\ head[q] % Capacity(q) = head[q]
        BY RingFacts, ModSmall
      <4>2. s[1] = ring[q][head[q]]
        BY <3>2, <4>1 DEF InOrder
      <4>3. u = <<ring[q][head[q]]>> /\ u \in Seq(AnyMsg)
        BY <2>1, Zenon DEF TypeOK
      <4> QED  BY <4>2, <4>3
    <3>6. t \in Seq(AnyMsg) /\ Len(t) = n - 1
      <4>1. n - 1 \in Nat /\ \A i \in 1..n - 1 : i + 1 \in 1..Len(s)
        BY <3>2
      <4> HIDE DEF n, s
      <4>2. \A i \in 1..n - 1 : t[i] \in AnyMsg
        BY <3>2, <3>4, <4>1
      <4>3. t = [i \in 1..n - 1 |-> t[i]]
        BY <3>3, Zenon
      <4> HIDE DEF t
      <4>4. t \in [1..n - 1 -> AnyMsg]
        BY <4>2, <4>3, Zenon
      <4> QED  BY <4>1, <4>4
    <3> HIDE DEF n, s, t, u
    <3>7. u \o t = s
      <4>1. /\ u \o t \in Seq(AnyMsg) /\ Len(u \o t) = n
            /\ (u \o t)[1] = u[1]
            /\ \A i \in 1..n - 1 : (u \o t)[i + 1] = t[i]
        BY <3>2, <3>5, <3>6, OneInFront, SMTT(60)
      <4>2. \A i \in 1..n : (u \o t)[i] = s[i]
        <5> SUFFICES ASSUME NEW i \in 1..n PROVE (u \o t)[i] = s[i]
          BY Zenon
        <5>1. CASE i = 1
          BY Zenon, <3>5, <4>1, <5>1
        <5>2. CASE i # 1
          <6>1. i - 1 \in 1..n - 1 /\ (i - 1) + 1 = i
            BY <3>2, <5>2
          <6> QED  BY ZenonT(60), <3>4, <4>1, <6>1
        <5> QED  BY <5>1, <5>2, Zenon
      <4> QED  BY Zenon, <3>2, <4>1, <4>2, SeqEqual
    <3> QED  BY Zenon, <3>1, <3>7
  <2> QED  BY Zenon, <2>1, <2>2, <2>3 DEF Stutter
<1>6. CASE PopCount(h)
  <2>0. PICK q \in Queues : q = side[h]
    BY Zenon DEF TypeOK
  <2>1. /\ call[h].op = "pop" /\ ret[h] = NoRet /\ Len(local[h]) = 1
        /\ count[q] > 0 /\ q = PopQueue(count["steer"])
        /\ pc[h] = "pop_count"
    BY Zenon, <1>6, <2>0 DEF PopCount, RingInv, PartWay, Control, ControlOf
  <2>2. /\ count'[q] = count[q] - 1
        /\ \A r \in Queues : r # q => count'[r] = count[r]
        /\ UNCHANGED <<ring, head, call, side>>
        /\ ret' = [ret EXCEPT ![h] = Ret("ok", local[h][1])]
        /\ pc'[h] = "release"
    BY Zenon, <1>6, <2>0 DEF PopCount, Goto, TypeOK
  <2>3. \A r \in Queues : r # q => /\ Content(r)' = Content(r)
                                   /\ Content(r) = InOrder(r, count[r])
    <3> SUFFICES ASSUME NEW r \in Queues, r # q
                 PROVE  Content(r)' = Content(r) /\ Content(r) = InOrder(r, count[r])
      OBVIOUS
    <3>1. Content(r) = InOrder(r, count[r]) /\ Content(r)' = InOrder(r, count[r])'
      BY <1>2, <2>0, <2>1, <2>2, Zenon DEF View
    <3>2. InOrder(r, count[r])' = InOrder(r, count[r])
      BY Zenon, <2>2, InOrderSame
    <3> QED  BY Zenon, <3>1, <3>2
  <2>4. /\ Content(q) = local[h] \o InOrder(q, count[q] - 1)
        /\ Content(q)' = InOrder(q, count[q] - 1)
    <3>1. Content(q) = local[h] \o InOrder(q, count[q] - 1)
      BY <1>2, <2>0, <2>1, Zenon DEF View
    <3>2. Content(q)' = InOrder(q, count[q])'
      BY <1>2, <2>2, Zenon DEF View
    <3>3. InOrder(q, count[q])' = InOrder(q, count[q] - 1)
      BY Zenon, <2>2 DEF InOrder
    <3> QED  BY Zenon, <3>1, <3>2, <3>3
  <2>5. /\ Content(q) # <<>> /\ Head(Content(q)) = local[h][1]
        /\ Tail(Content(q)) = Content(q)' /\ Len(Content(q)) > 0
    <3> DEFINE t == InOrder(q, count[q] - 1)
               u == local[h]
    <3>1. t \in Seq(AnyMsg) /\ u \in Seq(AnyMsg) /\ Len(u) = 1
      <4>1. count[q] - 1 \in Nat
        BY <2>1, RingFacts
      <4> QED  BY Zenon, <2>1, <4>1, InOrderType DEF TypeOK
    <3> HIDE DEF t, u
    <3>2. /\ u \o t \in Seq(AnyMsg) /\ Len(u \o t) = Len(t) + 1
          /\ (u \o t)[1] = u[1]
          /\ \A i \in 1..Len(t) : (u \o t)[i + 1] = t[i]
      BY <3>1, OneInFront
    <3>3. u \o t # <<>> /\ Head(u \o t) = u[1] /\ Len(u \o t) > 0
      BY <3>1, <3>2, LenProperties
    <3>4. /\ Tail(u \o t) \in Seq(AnyMsg) /\ Len(Tail(u \o t)) = Len(t)
          /\ \A i \in 1..Len(Tail(u \o t)) : Tail(u \o t)[i] = (u \o t)[i + 1]
      BY <3>1, <3>2, <3>3, HeadTailProperties
    <3>5. \A i \in 1..Len(t) : Tail(u \o t)[i] = t[i]
      BY Zenon, <3>2, <3>4
    <3>6. Tail(u \o t) = t
      BY Zenon, <3>1, <3>4, <3>5, SeqEqual
    <3> QED  BY <2>4, <3>3, <3>6, Zenon DEF t, u
  <2>6. M!PopQueue(Len(Content("steer"))) = q
    <3>1. CASE q = "steer"
      BY Zenon, <2>5, <3>1 DEF M!PopQueue
    <3>2. CASE q = "normal"
      <4>1. count["steer"] = 0
        <5>1. count["steer"] \in Nat
          BY Zenon, RingFacts DEF Queues
        <5> QED  BY <2>1, <3>2, <5>1 DEF PopQueue
      <4>2. Len(Content("steer")) = 0
        BY Zenon, <2>3, <3>2, <4>1, RingFacts DEF Queues
      <4> QED  BY <3>2, <4>2 DEF M!PopQueue
    <3> QED  BY Zenon, <3>1, <3>2 DEF Queues
  <2>7. [r \in Queues |-> Content(r)']
           = [[r \in Queues |-> Content(r)] EXCEPT ![q] = Tail(@)]
    BY <2>3, <2>5, Zenon
  <2>8. "steer" \in Queues
    BY Zenon DEF Queues
  <2> QED  BY <2>1, <2>2, <2>5, <2>6, <2>7, <2>8, Zenon
           DEF M!Pop, M!NoRet, NoRet, M!NoMsg, NoMsg, M!Ret, Ret
<1> QED  BY Zenon, <1>3, <1>4, <1>5, <1>6 DEF msgbox_pop

-----------------------------------------------------------------------------
(* Compact, the other steps, and the theorem.                                *)

(* A statement of msgbox_compact is a stutter or the abstract compaction.    *)
LEMMA CompactRefines ==
    ASSUME TypeOK, Control, LockInv, RingInv, NEW h \in Harts, msgbox_compact(h)
    PROVE  Stutter \/ M!Compact(h)
<1>1. pc[h] \in Updating /\ Step(h)
  BY Zenon DEF msgbox_compact, CompactShort, CompactCopy, CompactReset, CompactFill,
         Updating, Step
<1>2. \A q \in Queues : View(h, q) /\ View(h, q)'
  BY Zenon, <1>1, InsideViews
<1>3. "normal" \in Queues /\ "steer" \in Queues /\ Queues = {"normal", "steer"}
  BY Zenon DEF Queues
<1>4. M!ClampKeep(call[h].keep) = Keep(h)
  BY Zenon DEF M!ClampKeep, ClampKeep, Keep
<1>5. CASE CompactShort(h)
  <2>1. \A q \in Queues : /\ Content(q) = InOrder(q, count[q])
                          /\ Content(q)' = InOrder(q, count[q])'
    BY Zenon, <1>2, <1>5 DEF CompactShort, Goto, View, TypeOK
  <2>2. \A q \in Queues : InOrder(q, count[q])' = InOrder(q, count[q])
    BY Zenon, <1>5, InOrderSame DEF CompactShort, boxVars
  <2>3. Len(Content("normal")) <= Keep(h)
    BY Zenon, <1>3, <1>5, <2>1, RingFacts DEF CompactShort, Keep
  <2>4. M!Compacted(Content("normal"), Keep(h)) = Content("normal")
    BY Zenon, <2>3 DEF M!Compacted
  <2>5. call[h].op = "compact" /\ ret[h] = NoRet
    BY Zenon, <1>5 DEF CompactShort, Control, ControlOf
  <2> QED  BY ZenonT(60), <1>3, <1>4, <1>5, <2>1, <2>2, <2>4, <2>5
           DEF M!Compact, CompactShort, M!NoRet, NoRet, M!NoMsg, NoMsg, M!Ret, Ret
<1>6. CASE CompactCopy(h)
  <2>1. \A q \in Queues : /\ Content(q) = InOrder(q, count[q])
                          /\ Content(q)' = InOrder(q, count[q])'
    BY Zenon, <1>2, <1>6 DEF CompactCopy, Goto, View, TypeOK
  <2> QED  BY Zenon, <1>6, <2>1, InOrderSame DEF CompactCopy, boxVars, Stutter
<1>7. CASE CompactReset(h)
  <2>1. /\ pc[h] = "compact_reset" /\ pc'[h] = "compact_fill"
        /\ local[h] = InOrder("normal", count["normal"])
        /\ head'["steer"] = head["steer"] /\ count'["steer"] = count["steer"]
        /\ UNCHANGED <<ring, local, call, ret>>
    BY Zenon, <1>7 DEF CompactReset, Goto, TypeOK, RingInv, PartWay, Queues
  <2>2. Content("normal") = InOrder("normal", count["normal"])
        /\ Content("normal")' = local[h]
    BY Zenon, <1>2, <1>3, <2>1 DEF View
  <2>3. Content("steer") = InOrder("steer", count["steer"])
        /\ Content("steer")' = InOrder("steer", count["steer"])'
    BY Zenon, <1>2, <1>3, <2>1 DEF View
  <2>4. InOrder("steer", count["steer"])' = InOrder("steer", count["steer"])
    BY Zenon, <2>1, InOrderSame
  <2> QED  BY Zenon, <1>3, <2>1, <2>2, <2>3, <2>4 DEF Stutter
<1>8. CASE CompactFill(h)
  <2> DEFINE k == Keep(h)
             reb == Rebuilt(local[h], k)
  <2>1. /\ call[h].op = "compact" /\ ret[h] = NoRet /\ pc[h] = "compact_fill"
        /\ k \in Nat /\ k < Len(local[h]) /\ local[h] \in Seq(AnyMsg)
        /\ head["normal"] = 0 /\ count["normal"] = k + 1
    <3>1. /\ call[h].op = "compact" /\ ret[h] = NoRet /\ pc[h] = "compact_fill"
          /\ k < Len(local[h])
      BY Zenon, <1>8 DEF CompactFill, Control, ControlOf
    <3>2. k \in Nat
      BY <3>1, CallShape, SMTT(40) DEF Keep, TypeOK
    <3>3. head["normal"] = 0 /\ count["normal"] = k + 1
      BY Zenon, <3>1 DEF RingInv, PartWay
    <3>4. local[h] \in Seq(AnyMsg)
      BY Zenon DEF TypeOK
    <3> QED  BY Zenon, <3>1, <3>2, <3>3, <3>4
  <2>2. reb \in Seq(AnyMsg) /\ Len(reb) = k + 1 /\ k + 1 <= MSG_CAPACITY
    BY Zenon, <1>3, <2>1, RebuiltType, RingFacts, CapacityPositive
  <2>3. /\ ring'["normal"] = [i \in 0..MSG_CAPACITY - 1 |->
               IF i < Len(reb) THEN reb[i + 1] ELSE ring["normal"][i]]
        /\ ring'["steer"] = ring["steer"]
        /\ UNCHANGED <<head, count, call>>
        /\ ret' = [ret EXCEPT ![h] = Ret("ok", NoMsg)]
        /\ pc'[h] = "release"
    BY Zenon, <1>8, CapacityPositive DEF CompactFill, Goto, Keep, TypeOK, Queues
  <2>4. Content("normal") = local[h]
        /\ Content("normal")' = InOrder("normal", count["normal"])'
    BY Zenon, <1>2, <1>3, <2>1, <2>3 DEF View
  <2>5. Content("steer") = InOrder("steer", count["steer"])
        /\ Content("steer")' = InOrder("steer", count["steer"])'
    BY Zenon, <1>2, <1>3, <2>1, <2>3 DEF View
  <2>6. InOrder("steer", count["steer"])' = InOrder("steer", count["steer"])
    BY Zenon, <2>3, InOrderSame
  <2>7. InOrder("normal", count["normal"])' = reb
    <3>1. InOrder("normal", count["normal"])'
             = [i \in 1..k + 1 |-> ring'["normal"][(0 + i - 1) % MSG_CAPACITY]]
      BY Zenon, <2>1, <2>3, CapacityPositive DEF InOrder
    <3>2. \A i \in 1..k + 1 : ring'["normal"][(0 + i - 1) % MSG_CAPACITY] = reb[i]
      <4> HIDE DEF k, reb
      <4> SUFFICES ASSUME NEW i \in 1..k + 1
                   PROVE  ring'["normal"][(0 + i - 1) % MSG_CAPACITY] = reb[i]
        OBVIOUS
      <4>1. /\ 0 + i - 1 \in 0..MSG_CAPACITY - 1 /\ 0 + i - 1 < Len(reb)
            /\ (0 + i - 1) + 1 = i
        BY <2>1, <2>2, CapacityAssumption
      <4>2. (0 + i - 1) % MSG_CAPACITY = 0 + i - 1
        BY <4>1, CapacityAssumption, ModSmall
      <4> QED  BY Zenon, <2>3, <4>1, <4>2
    <3> HIDE DEF k, reb
    <3>3. reb = [i \in 1..k + 1 |-> reb[i]]
      BY Zenon, <2>2, LenProperties
    <3> QED  BY <3>1, <3>2, <3>3, Zenon
  <2>8. M!Compacted(local[h], k) = reb
    <3>1. ~(Len(local[h]) <= k)
      BY <2>1, LenProperties
    <3> HIDE DEF k
    <3> QED  BY <3>1, Zenon DEF M!Compacted, Rebuilt, M!Summary, Summary
  <2> HIDE DEF k, reb
  <2>9. [r \in Queues |-> Content(r)']
          = [[r \in Queues |-> Content(r)] EXCEPT !["normal"] = M!Compacted(@, k)]
    BY <1>3, <2>4, <2>5, <2>6, <2>7, <2>8, Zenon
  <2> QED  BY Zenon, <1>4, <2>1, <2>3, <2>9
           DEF k, M!Compact, M!NoRet, NoRet, M!NoMsg, NoMsg, M!Ret, Ret
<1> QED  BY Zenon, <1>5, <1>6, <1>7, <1>8 DEF msgbox_compact

(* A step outside the box is a stutter, or the call or return of M.          *)
LEMMA OutsideRefines ==
    ASSUME TypeOK, Control, LockInv, RingInv, NEW h \in Harts,
           Call(h) \/ Return(h) \/ Lock(h)
    PROVE  Stutter \/ M!Call(h) \/ M!Return(h)
<1> DEFINE Mid == {"push_tail", "push_count", "pop_head", "pop_count",
                   "compact_reset", "compact_fill"}
<1>1. /\ UNCHANGED boxVars /\ Step(h)
      /\ pc[h] \notin Mid /\ pc'[h] \notin Mid
      /\ pc'[h] = "check" => pc[h] = "acquire"
      /\ pc[h] # "check"
  BY ZenonT(60) DEF TypeOK, Call, Return, Lock, TestInited, spinlock_init, SetInited,
         spinlock_acquire, spinlock_release, Goto, Step
<1>2. \A g \in Harts : g # h => /\ pc'[g] = pc[g] /\ side'[g] = side[g]
                                /\ local'[g] = local[g]
  BY Zenon, <1>1, OthersUntouched
<1>3. \A q \in Queues : Content(q)' = Content(q)
  <2> SUFFICES ASSUME NEW q \in Queues PROVE Content(q)' = Content(q)
    OBVIOUS
  <2>1. CASE \A g \in Harts : pc[g] \notin Mid
    <3>1. \A g \in Harts : pc'[g] \notin Mid
      BY Zenon, <1>1, <1>2, <2>1
    <3>2. Content(q) = InOrder(q, count[q])
      BY Zenon, <2>1 DEF Content
    <3>3. Content(q)' = InOrder(q, count[q])'
      BY Zenon, <3>1 DEF Content
    <3>4. InOrder(q, count[q])' = InOrder(q, count[q])
      BY Zenon, <1>1, InOrderSame DEF boxVars
    <3> QED  BY Zenon, <3>2, <3>3, <3>4
  <2>2. CASE \E g \in Harts : pc[g] \in Mid
    <3>1. PICK g \in Harts : pc[g] \in Mid
      BY Zenon, <2>2
    <3>2. \A j \in Harts : j # g => pc[j] \notin Updating
      BY Zenon, <3>1 DEF LockInv, BoxExclusion, Updating
    <3>3. g # h /\ \A j \in Harts : pc'[j] \in Mid => j = g
      BY ZenonT(60), <1>1, <1>2, <3>1, <3>2 DEF Updating
    <3>4. View(g, q)
      BY Zenon, <3>2, ContentView DEF Updating
    <3>5. View(g, q)'
      BY Zenon, <3>3, ContentViewNext
    <3>6. /\ pc'[g] = pc[g] /\ side'[g] = side[g] /\ local'[g] = local[g]
          /\ count' = count
      BY Zenon, <1>1, <1>2, <3>3 DEF boxVars
    <3>7. InOrder(q, count[q])' = InOrder(q, count[q])
          /\ InOrder(q, count[q] - 1)' = InOrder(q, count[q] - 1)
      BY Zenon, <1>1 DEF boxVars, InOrder
    <3> QED  BY <3>4, <3>5, <3>6, <3>7, Zenon DEF View
  <2> QED  BY Zenon, <2>1, <2>2
<1>4. CASE Call(h)
  <2>1. M!Calls = Calls /\ M!NoCall = NoCall
    BY Zenon DEF M!Calls, Calls, M!NoCall, NoCall
  <2>2. call[h] = NoCall
    BY Zenon, <1>4 DEF Call, Control, ControlOf
  <2> QED  BY <1>3, <1>4, <2>1, <2>2, Zenon DEF Call, M!Call
<1>5. CASE Return(h)
  <2>1. ret[h] # NoRet
    BY Zenon, <1>5 DEF Return, Control, ControlOf
  <2> QED  BY Zenon, <1>3, <1>5, <2>1
           DEF Return, M!Return, M!NoCall, NoCall, M!NoRet, NoRet, M!NoMsg, NoMsg
<1>6. CASE Lock(h)
  BY Zenon, <1>3, <1>6 DEF Lock, TestInited, spinlock_init, SetInited, spinlock_acquire,
                    spinlock_release, Stutter
<1> QED  BY Zenon, <1>4, <1>5, <1>6

(* Re-initialising the box, when nobody is inside it, empties both queues.   *)
LEMMA ClearRefines ==
    ASSUME TypeOK, Control, LockInv, RingInv, NEW h \in Harts, msgbox_init(h)
    PROVE  M!Clear(h)
<1>1. pc[h] = "reinit" /\ Step(h) /\ pc'[h] = "return"
  BY Zenon DEF msgbox_init, Step, Goto, TypeOK
<1>2. \A q \in Queues : Content(q)' = InOrder(q, count[q])'
  BY <1>1, InsideViews, Zenon DEF View
<1>3. \A q \in Queues : InOrder(q, count[q])' = <<>>
  BY DEF msgbox_init, InOrder
<1>4. call[h].op = "init" /\ ret[h] = NoRet
  BY Zenon, <1>1 DEF Control, ControlOf
<1> QED  BY Zenon, <1>2, <1>3, <1>4
         DEF msgbox_init, M!Clear, M!Queues, Queues, M!NoRet, NoRet, M!NoMsg, NoMsg,
             M!Ret, Ret

(* The mailbox of kernel/ipc.c implements the two bounded FIFO queues of     *)
(* Mailbox, for any number of harts, any capacities and any messages.        *)
THEOREM Refinement ==
    ASSUME Serialized
    PROVE  Spec => Linearizable
<1>1. Init => M!Init
  <2> SUFFICES ASSUME Init PROVE M!Init
    OBVIOUS
  <2>1. \A q \in Queues : Content(q) = <<>>
    BY DEF Init, Content, InOrder
  <2> QED  BY Zenon, <2>1 DEF Init, M!Init, M!Queues, Queues, M!NoCall, NoCall, M!NoRet,
                       NoRet, M!NoMsg, NoMsg
<1>2. TypeOK /\ Control /\ LockInv /\ RingInv /\ [Next]_vars
         => [M!Next]_(M!mailboxVars)
  <2> SUFFICES ASSUME TypeOK, Control, LockInv, RingInv, [Next]_vars
               PROVE  M!Next \/ UNCHANGED M!mailboxVars
    OBVIOUS
  <2>1. CASE UNCHANGED vars
    BY SMTT(60), <2>1 DEF vars, M!mailboxVars, Content, InOrder
  <2>2. CASE Next
    <3>1. PICK h \in Harts : Step(h)
      BY Zenon, <2>2 DEF Next
    <3>2. \/ Stutter \/ M!Call(h) \/ M!Return(h) \/ M!Push(h) \/ M!Pop(h)
          \/ M!Compact(h) \/ M!Clear(h)
      BY Zenon, <3>1, OutsideRefines, ClearRefines, PushRefines, PopRefines, CompactRefines
         DEF Step
    <3>3. Stutter => UNCHANGED M!mailboxVars
      BY Zenon DEF Stutter, M!mailboxVars
    <3> QED  BY Zenon, <3>2, <3>3 DEF M!Next
  <2> QED  BY Zenon, <2>1, <2>2
<1> QED  BY <1>1, <1>2, TypeCorrect, MutualExclusion, RingInvariant, PTL
         DEF Spec, Linearizable, M!Spec
==============================================================================
