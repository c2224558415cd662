------------------------------ MODULE Mailbox ------------------------------
(* What an agent's mailbox promises, without its ring buffers or its lock:  *)
(* two bounded FIFO queues, a steer queue that is always served first, and  *)
(* operations that take effect at one instant between their call and their  *)
(* return, whichever hart makes them.  Msgbox implements it.                *)
EXTENDS MsgTypes

VARIABLES queue,  \* the two queues of waiting messages
          call,   \* call[h]: the operation hart h is executing
          ret     \* ret[h]: what it returns, once it has taken effect

mailboxVars == <<queue, call, ret>>

QueueOf(m) == IF m.type = "MSG_STEER" THEN "steer" ELSE "normal"
Capacity(q) == IF q = "steer" THEN MSG_STEER_CAPACITY ELSE MSG_CAPACITY

(* Steer messages come first; the normal queue is served when there is none. *)
PopQueue(steerCount) == IF steerCount > 0 THEN "steer" ELSE "normal"

ClampKeep(keep) == IF keep < 0 THEN 0
                   ELSE IF keep > MSG_CAPACITY THEN MSG_CAPACITY ELSE keep

(* The newest keep messages, the older ones merged into one summary.         *)
Compacted(s, keep) ==
    IF Len(s) <= keep THEN s
    ELSE <<Summary(Len(s) - keep)>> \o SubSeq(s, Len(s) - keep + 1, Len(s))

-----------------------------------------------------------------------------

Init == /\ queue = [q \in Queues |-> <<>>]
        /\ call = [h \in Harts |-> NoCall]
        /\ ret = [h \in Harts |-> NoRet]

Call(h) == /\ call[h] = NoCall
           /\ \E c \in Calls : call' = [call EXCEPT ![h] = c]
           /\ UNCHANGED <<queue, ret>>

Return(h) == /\ ret[h] # NoRet
             /\ call' = [call EXCEPT ![h] = NoCall]
             /\ ret' = [ret EXCEPT ![h] = NoRet]
             /\ UNCHANGED queue

Push(h) ==
    /\ call[h].op = "push" /\ ret[h] = NoRet
    /\ LET q == QueueOf(call[h].msg)
       IN  \/ /\ Len(queue[q]) < Capacity(q)
              /\ queue' = [queue EXCEPT ![q] = Append(@, call[h].msg)]
              /\ ret' = [ret EXCEPT ![h] = Ret("ok", NoMsg)]
           \/ /\ Len(queue[q]) = Capacity(q)
              /\ ret' = [ret EXCEPT ![h] = Ret("ENOSPC", NoMsg)]
              /\ UNCHANGED queue
    /\ UNCHANGED call

Pop(h) ==
    /\ call[h].op = "pop" /\ ret[h] = NoRet
    /\ LET q == PopQueue(Len(queue["steer"]))
       IN  \/ /\ queue[q] # <<>>
              /\ queue' = [queue EXCEPT ![q] = Tail(@)]
              /\ ret' = [ret EXCEPT ![h] = Ret("ok", Head(queue[q]))]
           \/ /\ queue[q] = <<>>
              /\ ret' = [ret EXCEPT ![h] = Ret("EAGAIN", NoMsg)]
              /\ UNCHANGED queue
    /\ UNCHANGED call

Compact(h) ==
    /\ call[h].op = "compact" /\ ret[h] = NoRet
    /\ queue' = [queue EXCEPT !["normal"] = Compacted(@, ClampKeep(call[h].keep))]
    /\ ret' = [ret EXCEPT ![h] = Ret("ok", NoMsg)]
    /\ UNCHANGED call

(* A recycled agent slot starts with an empty mailbox.                       *)
Clear(h) ==
    /\ call[h].op = "init" /\ ret[h] = NoRet
    /\ queue' = [q \in Queues |-> <<>>]
    /\ ret' = [ret EXCEPT ![h] = Ret("ok", NoMsg)]
    /\ UNCHANGED call

Next == \E h \in Harts :
            Call(h) \/ Push(h) \/ Pop(h) \/ Compact(h) \/ Clear(h) \/ Return(h)

Spec == Init /\ [][Next]_mailboxVars
=============================================================================
