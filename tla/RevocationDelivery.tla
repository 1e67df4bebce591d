------------------------- MODULE RevocationDelivery -------------------------
(***************************************************************************)
(* What the outbox, the broker, the sync worker and the applications       *)
(* promise together about a revocation event, with none of them in it: an  *)
(* application applies a recorded event at most once, the event is closed  *)
(* only when every application it was meant for has applied it, and every  *)
(* recorded event is eventually closed or dead-lettered.                   *)
(***************************************************************************)
EXTENDS Naturals

CONSTANTS Events, Apps

VARIABLES
  recorded,   \* events the Auth Provider committed
  applied,    \* applied[e][a]: how often a carried out e's revocation
  closed,     \* <<e, T>>: e was acknowledged as delivered to all of T
  buried      \* events in the dead-letter queue

vars == <<recorded, applied, closed, buried>>

Init ==
  /\ recorded = {}
  /\ applied = [e \in Events |-> [a \in Apps |-> 0]]
  /\ closed = {}
  /\ buried = {}

Record(e) ==
  /\ recorded' = recorded \cup {e}
  /\ UNCHANGED <<applied, closed, buried>>

Apply(e, a) ==
  /\ e \in recorded
  /\ applied[e][a] = 0
  /\ applied' = [applied EXCEPT ![e][a] = 1]
  /\ UNCHANGED <<recorded, closed, buried>>

Close(e, T) ==
  /\ e \in recorded
  /\ \A a \in T : applied[e][a] = 1
  /\ closed' = closed \cup {<<e, T>>}
  /\ UNCHANGED <<recorded, applied, buried>>

Bury(e) ==
  /\ e \in recorded
  /\ buried' = buried \cup {e}
  /\ UNCHANGED <<recorded, applied, closed>>

Next ==
  \E e \in Events :
    \/ Record(e)
    \/ \E a \in Apps : Apply(e, a)
    \/ \E T \in SUBSET Apps : Close(e, T)
    \/ Bury(e)

Spec == Init /\ [][Next]_vars

Resolved(e) == e \in buried \/ \E T \in SUBSET Apps : <<e, T>> \in closed

\* Every recorded event is eventually closed or dead-lettered.
EventuallyResolved == \A e \in Events : (e \in recorded) ~> Resolved(e)
=============================================================================
