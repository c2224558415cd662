------------------------------- MODULE Msgbox -------------------------------
(* kernel/ipc.c, statement by statement: a mailbox made of two ring buffers, *)
(* its operations run by several harts under one spinlock that is            *)
(* initialised lazily by the first operation.  msgbox_init takes no lock.    *)
EXTENDS MsgTypes

CONSTANT Inited0  \* whether some operation initialised the lock before

ASSUME InitedAssumption == Inited0 \in BOOLEAN

VARIABLES locked,  \* the lock word of msgbox_lock
          inited,  \* the static flag of msgbox_lock_init_once
          pc,      \* pc[h]: the next statement of hart h
          call,    \* call[h]: the operation it executes and its arguments
          side,    \* side[h]: the ring that the branch it took works on
          local,   \* local[h]: messages it copied out (msg, ordered)
          ret,     \* ret[h]: its return value and the message returned
          ring,    \* box->steer and box->normal
          head, tail, count  \* their indices and lengths

lockVars == <<locked, inited>>
boxVars == <<ring, head, tail, count>>
vars == <<locked, inited, pc, call, side, local, ret, ring, head, tail, count>>

msgbox_is_priority_type(type) == type = "MSG_STEER"
QueueOf(m) == IF msgbox_is_priority_type(m.type) THEN "steer" ELSE "normal"
Capacity(q) == IF q = "steer" THEN MSG_STEER_CAPACITY ELSE MSG_CAPACITY

PopQueue(steerCount) == IF steerCount > 0 THEN "steer" ELSE "normal"

ClampKeep(keep) == IF keep < 0 THEN 0
                   ELSE IF keep > MSG_CAPACITY THEN MSG_CAPACITY ELSE keep

(* Slip: the ring is copied from its first slot instead of its head.         *)
InOrderFromZero(q, n) == [i \in 1..n |-> ring[q][i - 1]]

(* The first n messages of a ring, oldest first.                             *)
InOrder(q, n) == [i \in 1..n |-> ring[q][(head[q] + i - 1) % Capacity(q)]]

(* What msgbox_compact rebuilds from the ordered messages.                   *)
Rebuilt(ordered, keep) ==
    LET drop == Len(ordered) - keep
    IN  <<Summary(drop)>> \o SubSeq(ordered, drop + 1, Len(ordered))

Goto(h, label) == pc' = [pc EXCEPT ![h] = label]

-----------------------------------------------------------------------------

Init ==
    /\ locked = FALSE /\ inited = Inited0
    /\ pc = [h \in Harts |-> "idle"]
    /\ call = [h \in Harts |-> NoCall]
    /\ side = [h \in Harts |-> "normal"]
    /\ local = [h \in Harts |-> <<>>]
    /\ ret = [h \in Harts |-> NoRet]
    /\ ring = [q \in Queues |-> [i \in 0..Capacity(q) - 1 |-> NoMsg]]
    /\ head = [q \in Queues |-> 0]
    /\ tail = [q \in Queues |-> 0]
    /\ count = [q \in Queues |-> 0]

Call(h) ==
    /\ pc[h] = "idle"
    /\ \E c \in Calls : /\ call' = [call EXCEPT ![h] = c]
                        /\ Goto(h, IF c.op = "init" THEN "reinit" ELSE "once")
    /\ UNCHANGED <<lockVars, side, local, ret, boxVars>>

(* msgbox_init: no lock is taken.                                            *)
msgbox_init(h) ==
    /\ pc[h] = "reinit"
    /\ head' = [q \in Queues |-> 0]
    /\ tail' = [q \in Queues |-> 0]
    /\ count' = [q \in Queues |-> 0]
    /\ ret' = [ret EXCEPT ![h] = Ret("ok", NoMsg)]
    /\ Goto(h, "return")
    /\ UNCHANGED <<lockVars, call, side, local, ring>>

(* msgbox_lock_init_once: test the flag, unlock the lock word, set the flag. *)
TestInited(h) ==
    /\ pc[h] = "once"
    /\ Goto(h, IF inited THEN "acquire" ELSE "lock_init")
    /\ UNCHANGED <<lockVars, call, side, local, ret, boxVars>>

spinlock_init(h) ==
    /\ pc[h] = "lock_init"
    /\ locked' = FALSE
    /\ Goto(h, "set_inited")
    /\ UNCHANGED <<inited, call, side, local, ret, boxVars>>

SetInited(h) ==
    /\ pc[h] = "set_inited"
    /\ inited' = TRUE
    /\ Goto(h, "acquire")
    /\ UNCHANGED <<locked, call, side, local, ret, boxVars>>

(* Slip: the lock word is set without looking at its old value.              *)
AcquireUntested(h) ==
    /\ pc[h] = "acquire"
    /\ locked' = TRUE
    /\ Goto(h, "check")
    /\ UNCHANGED <<inited, call, side, local, ret, boxVars>>

spinlock_acquire(h) ==
    /\ pc[h] = "acquire" /\ ~locked
    /\ locked' = TRUE
    /\ Goto(h, "check")
    /\ UNCHANGED <<inited, call, side, local, ret, boxVars>>

spinlock_release(h) ==
    /\ pc[h] = "release"
    /\ locked' = FALSE
    /\ Goto(h, "return")
    /\ UNCHANGED <<inited, call, side, local, ret, boxVars>>

Return(h) ==
    /\ pc[h] = "return"
    /\ call' = [call EXCEPT ![h] = NoCall]
    /\ side' = [side EXCEPT ![h] = "normal"]
    /\ local' = [local EXCEPT ![h] = <<>>]
    /\ ret' = [ret EXCEPT ![h] = NoRet]
    /\ Goto(h, "idle")
    /\ UNCHANGED <<lockVars, boxVars>>

-----------------------------------------------------------------------------
(* msgbox_push: full, or copy to the tail slot; advance the tail; count.     *)

PushFull(h) ==
    /\ pc[h] = "check" /\ call[h].op = "push"
    /\ LET q == QueueOf(call[h].msg) IN count[q] >= Capacity(q)
    /\ ret' = [ret EXCEPT ![h] = Ret("ENOSPC", NoMsg)]
    /\ Goto(h, "release")
    /\ UNCHANGED <<lockVars, call, side, local, boxVars>>

(* Slip: off by one in the full test.                                        *)
PushCopyOneTooMany(h) ==
    /\ pc[h] = "check" /\ call[h].op = "push"
    /\ LET q == QueueOf(call[h].msg)
       IN  /\ count[q] <= Capacity(q)
           /\ ring' = [ring EXCEPT ![q][tail[q]] = call[h].msg]
           /\ side' = [side EXCEPT ![h] = q]
    /\ Goto(h, "push_tail")
    /\ UNCHANGED <<lockVars, call, local, ret, head, tail, count>>

PushCopy(h) ==
    /\ pc[h] = "check" /\ call[h].op = "push"
    /\ LET q == QueueOf(call[h].msg)
       IN  /\ count[q] < Capacity(q)
           /\ ring' = [ring EXCEPT ![q][tail[q]] = call[h].msg]
           /\ side' = [side EXCEPT ![h] = q]
    /\ Goto(h, "push_tail")
    /\ UNCHANGED <<lockVars, call, local, ret, head, tail, count>>

(* Slip: the tail does not wrap.                                             *)
PushTailUnwrapped(h) ==
    /\ pc[h] = "push_tail"
    /\ tail' = [tail EXCEPT ![side[h]] = @ + 1]
    /\ Goto(h, "push_count")
    /\ UNCHANGED <<lockVars, call, side, local, ret, ring, head, count>>

PushTail(h) ==
    /\ pc[h] = "push_tail"
    /\ tail' = [tail EXCEPT ![side[h]] = (@ + 1) % Capacity(side[h])]
    /\ Goto(h, "push_count")
    /\ UNCHANGED <<lockVars, call, side, local, ret, ring, head, count>>

PushCount(h) ==
    /\ pc[h] = "push_count"
    /\ count' = [count EXCEPT ![side[h]] = @ + 1]
    /\ ret' = [ret EXCEPT ![h] = Ret("ok", NoMsg)]
    /\ Goto(h, "release")
    /\ UNCHANGED <<lockVars, call, side, local, ring, head, tail>>

-----------------------------------------------------------------------------
(* msgbox_pop: the steer ring if it has a message, else the normal one.      *)

PopEmpty(h) ==
    /\ pc[h] = "check" /\ call[h].op = "pop"
    /\ count["steer"] <= 0 /\ count["normal"] = 0
    /\ ret' = [ret EXCEPT ![h] = Ret("EAGAIN", NoMsg)]
    /\ Goto(h, "release")
    /\ UNCHANGED <<lockVars, call, side, local, boxVars>>

PopCopy(h) ==
    /\ pc[h] = "check" /\ call[h].op = "pop"
    /\ LET q == PopQueue(count["steer"])
       IN  /\ count[q] # 0
           /\ local' = [local EXCEPT ![h] = <<ring[q][head[q]]>>]
           /\ side' = [side EXCEPT ![h] = q]
    /\ Goto(h, "pop_head")
    /\ UNCHANGED <<lockVars, call, ret, boxVars>>

PopHead(h) ==
    /\ pc[h] = "pop_head"
    /\ head' = [head EXCEPT ![side[h]] = (@ + 1) % Capacity(side[h])]
    /\ Goto(h, "pop_count")
    /\ UNCHANGED <<lockVars, call, side, local, ret, ring, tail, count>>

PopCount(h) ==
    /\ pc[h] = "pop_count"
    /\ count' = [count EXCEPT ![side[h]] = @ - 1]
    /\ ret' = [ret EXCEPT ![h] = Ret("ok", local[h][1])]
    /\ Goto(h, "release")
    /\ UNCHANGED <<lockVars, call, side, local, ring, head, tail>>

-----------------------------------------------------------------------------
(* msgbox_compact: nothing to do, or copy the normal ring out in order, reset *)
(* the indices for the rebuilt messages, and copy those in.                   *)

CompactShort(h) ==
    /\ pc[h] = "check" /\ call[h].op = "compact"
    /\ count["normal"] <= ClampKeep(call[h].keep)
    /\ ret' = [ret EXCEPT ![h] = Ret("ok", NoMsg)]
    /\ Goto(h, "release")
    /\ UNCHANGED <<lockVars, call, side, local, boxVars>>

CompactCopy(h) ==
    /\ pc[h] = "check" /\ call[h].op = "compact"
    /\ count["normal"] > ClampKeep(call[h].keep)
    /\ local' = [local EXCEPT ![h] = InOrder("normal", count["normal"])]
    /\ Goto(h, "compact_reset")
    /\ UNCHANGED <<lockVars, call, side, ret, boxVars>>

CompactReset(h) ==
    /\ pc[h] = "compact_reset"
    /\ LET out == ClampKeep(call[h].keep) + 1
       IN  /\ head' = [head EXCEPT !["normal"] = 0]
           /\ tail' = [tail EXCEPT !["normal"] = out % MSG_CAPACITY]
           /\ count' = [count EXCEPT !["normal"] = out]
    /\ Goto(h, "compact_fill")
    /\ UNCHANGED <<lockVars, call, side, local, ret, ring>>

CompactFill(h) ==
    /\ pc[h] = "compact_fill"
    /\ LET rebuilt == Rebuilt(local[h], ClampKeep(call[h].keep))
       IN  ring' = [ring EXCEPT !["normal"] =
                       [i \in DOMAIN @ |-> IF i < Len(rebuilt) THEN rebuilt[i + 1]
                                           ELSE @[i]]]
    /\ ret' = [ret EXCEPT ![h] = Ret("ok", NoMsg)]
    /\ Goto(h, "release")
    /\ UNCHANGED <<lockVars, call, side, local, head, tail, count>>

-----------------------------------------------------------------------------

Lock(h) == \/ TestInited(h) \/ spinlock_init(h) \/ SetInited(h)
           \/ spinlock_acquire(h) \/ spinlock_release(h)
msgbox_push(h) == PushFull(h) \/ PushCopy(h) \/ PushTail(h) \/ PushCount(h)
msgbox_pop(h) == PopEmpty(h) \/ PopCopy(h) \/ PopHead(h) \/ PopCount(h)
msgbox_compact(h) == \/ CompactShort(h) \/ CompactCopy(h)
                     \/ CompactReset(h) \/ CompactFill(h)

Step(h) == \/ Call(h) \/ Return(h) \/ Lock(h) \/ msgbox_init(h)
           \/ msgbox_push(h) \/ msgbox_pop(h) \/ msgbox_compact(h)

Next == \E h \in Harts : Step(h)

Spec == Init /\ [][Next]_vars

-----------------------------------------------------------------------------

AnyMsg == Messages \cup {NoMsg} \cup [type : {"MSG_SUMMARY"}, dropped : Nat]

TypeOK ==
    /\ locked \in BOOLEAN /\ inited \in BOOLEAN
    /\ pc \in [Harts -> {"idle", "reinit", "once", "lock_init", "set_inited",
                         "acquire", "check", "push_tail", "push_count",
                         "pop_head", "pop_count", "compact_reset",
                         "compact_fill", "release", "return"}]
    /\ call \in [Harts -> Calls \cup {NoCall}]
    /\ side \in [Harts -> Queues]
    /\ local \in [Harts -> Seq(AnyMsg)]
    /\ ret \in [Harts -> [rc : {"none", "ok", "ENOSPC", "EAGAIN"}, msg : AnyMsg]]
    /\ DOMAIN ring = Queues
    /\ head \in [Queues -> Nat] /\ tail \in [Queues -> Nat]
    /\ count \in [Queues -> Int]
    /\ \A q \in Queues : /\ head[q] < Capacity(q) /\ tail[q] < Capacity(q)
                         /\ ring[q] \in [0..Capacity(q) - 1 -> AnyMsg]

Updating == {"check", "push_tail", "push_count", "pop_head", "pop_count",
             "compact_reset", "compact_fill"}

(* The cross-core mailbox lock: no two harts are ever between the lock and   *)
(* the unlock of a mailbox operation, or in one that writes the box without. *)
BoxExclusion ==
    \A g, h \in Harts : /\ pc[g] \in Updating \cup {"release", "reinit"}
                        /\ pc[h] \in Updating \cup {"release", "reinit"}
                        => g = h

(* When the lock serialises the operations: a single hart, or a lock that    *)
(* was initialised before the harts ran and a box that is not re-initialised *)
(* under them.                                                               *)
Serialized == \/ \A g, h \in Harts : g = h
              \/ Inited0 /\ "init" \notin Ops

(* Whenever no operation is part way through the rings, the count of each    *)
(* ring is within its capacity, compaction's extra summary included, and its *)
(* tail is where the count says it is.                                       *)
RingConsistent ==
    (\A h \in Harts : pc[h] \notin Updating) =>
        \A q \in Queues : /\ count[q] \in 0..Capacity(q)
                         /\ tail[q] = (head[q] + count[q]) % Capacity(q)

(* The queue a ring holds: an operation part way through it has not taken    *)
(* effect yet, so its effect on the indices is undone with what it copied.   *)
Content(q) ==
    IF \E h \in Harts : pc[h] = "compact_fill" /\ q = "normal"
    THEN local[CHOOSE h \in Harts : pc[h] = "compact_fill"]
    ELSE IF \E h \in Harts : pc[h] = "pop_count" /\ side[h] = q
    THEN local[CHOOSE h \in Harts : pc[h] = "pop_count"] \o InOrder(q, count[q] - 1)
    ELSE InOrder(q, count[q])

M == INSTANCE Mailbox WITH queue <- [q \in Queues |-> Content(q)]

(* The rings under the lock behave as two bounded FIFO queues whose          *)
(* operations take effect at one instant: nothing is lost, duplicated or     *)
(* reordered, steer goes first, and compaction keeps the newest messages.    *)
Linearizable == M!Spec

=============================================================================
