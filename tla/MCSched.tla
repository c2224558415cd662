------------------------------- MODULE MCSched -------------------------------
(* Small instances of Sched.                                                 *)
EXTENDS Sched

NoServices == <<>>
OneService == <<2>>
TwoServices == <<2, 3>>
InitOnly == {InitSlot}
AllSlots == Slots

=============================================================================
