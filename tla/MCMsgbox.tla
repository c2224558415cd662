------------------------------ MODULE MCMsgbox ------------------------------
(* Small instances of Msgbox for TLC.                                        *)
EXTENDS Msgbox

MCMessages == {[type |-> "MSG_STEER", id |-> 1],
               [type |-> "MSG_TEXT", id |-> 2], [type |-> "MSG_TEXT", id |-> 3]}
\* two of the arguments are outside 0..MSG_CAPACITY, where the code clamps
MCKeeps == {-1, 1, 4}

Outside(h) == \A g \in Harts \ {h} : pc[g] = "idle"

(* The first operation of the system, and msgbox_init, which takes no lock, have
   the box to themselves: agents are created by one hart while the others have
   nothing to do with the new slot. *)
Undisturbed ==
    \A h \in Harts : pc[h] = "idle" /\ pc'[h] # "idle"
        => /\ ~inited \/ pc'[h] = "reinit" => Outside(h)
           /\ \A g \in Harts : pc[g] # "reinit"

OrderedSpec == Init /\ [][Next /\ Undisturbed]_vars

=============================================================================
