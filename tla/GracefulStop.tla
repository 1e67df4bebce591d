---------------------------- MODULE GracefulStop ----------------------------
(***************************************************************************)
(* What a process that holds database connections promises when it is told *)
(* to stop: it takes no new work once its work is cancelled, it stops only *)
(* after cancelling, and it closes the connections only if nothing uses    *)
(* them any more; otherwise they are left for the operating system.        *)
(***************************************************************************)
CONSTANT Units      \* of work

VARIABLES stage, busy, pool

vars == <<stage, busy, pool>>

Init == stage = "serving" /\ busy \subseteq Units /\ pool = "open"

Take(u) ==
  /\ stage \in {"serving", "draining"}
  /\ busy' = busy \cup {u}
  /\ UNCHANGED <<stage, pool>>

Finish(u) ==
  /\ stage # "stopped"
  /\ busy' = busy \ {u}
  /\ UNCHANGED <<stage, pool>>

Drain ==
  /\ stage = "serving" /\ stage' = "draining"
  /\ UNCHANGED <<busy, pool>>

Cancel ==
  /\ stage = "draining" /\ stage' = "cancelled"
  /\ UNCHANGED <<busy, pool>>

Stop ==
  /\ stage = "cancelled" /\ stage' = "stopped"
  /\ pool' \in (IF busy = {} THEN {"closed", "left"} ELSE {"left"})
  /\ UNCHANGED busy

Next == \/ \E u \in Units : Take(u) \/ Finish(u)
        \/ Drain \/ Cancel \/ Stop

Spec == Init /\ [][Next]_vars
=============================================================================
