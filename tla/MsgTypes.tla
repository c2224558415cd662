------------------------------ MODULE MsgTypes ------------------------------
(* Constants and values shared by the mailbox specification (Mailbox) and    *)
(* its implementation (Msgbox).  A message is a record with a type field.    *)
EXTENDS Integers, Sequences

CONSTANTS Harts,               \* callers of the mailbox operations
          Messages,            \* what agents send
          Keeps,               \* arguments given to msgbox_compact
          MSG_CAPACITY,        \* bound of the normal queue
          MSG_STEER_CAPACITY,  \* bound of the steer queue
          Ops                  \* the operations the callers use

ASSUME CapacityAssumption == /\ MSG_CAPACITY \in Nat \ {0}
                             /\ MSG_STEER_CAPACITY \in Nat \ {0}
ASSUME KeepsAssumption == Keeps \subseteq Int
ASSUME OpsAssumption == Ops \subseteq {"push", "pop", "compact", "init"}

Queues == {"steer", "normal"}
NoMsg == [type |-> "none"]
(* A summary's payload says how many messages it stands for (the list of     *)
(* their types that follows is left out).                                    *)
Summary(drop) == [type |-> "MSG_SUMMARY", dropped |-> drop]

NoCall == [op |-> "none"]
Calls == {c \in [op : {"push"}, msg : Messages] \cup [op : {"pop", "init"}]
                  \cup [op : {"compact"}, keep : Keeps] : c.op \in Ops}

NoRet == [rc |-> "none", msg |-> NoMsg]
Ret(rc, m) == [rc |-> rc, msg |-> m]
=============================================================================
