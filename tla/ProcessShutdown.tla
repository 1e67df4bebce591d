-------------------------- MODULE ProcessShutdown --------------------------
(***************************************************************************)
(* The two processes that stop on a budget.  Each has its own clock and    *)
(* they share nothing, so a behaviour is one process's: which, is chosen   *)
(* at the start.                                                           *)
(***************************************************************************)
EXTENDS WorkerShutdown, ServerShutdown

VARIABLE process

vars == <<budgetVars, workerVars, process>>

TypeOK ==
  /\ BudgetTypeOK /\ WorkerTypeOK
  /\ process \in {"worker", "server"}

\* The server has none of the worker's goroutines.
Init ==
  \/ process = "worker" /\ WorkerInit
  \/ /\ process = "server" /\ BudgetInit
     /\ channel = {} /\ limit = 0 /\ intake = "none"
     /\ deliveries = "open" /\ conn = "open"
     /\ publisher = "done" /\ listener = "done"

Next ==
  /\ \/ process = "worker" /\ WorkerNext
     \/ process = "server" /\ ServerNext /\ UNCHANGED workerVars
  /\ UNCHANGED process

Spec == Init /\ [][Next]_vars

MainStep ==
  /\ \/ process = "worker" /\ WorkerMain
     \/ process = "server" /\ ServerMain /\ UNCHANGED workerVars
  /\ UNCHANGED process

ArmStep == process = "worker" /\ Arm /\ UNCHANGED process

TickStep ==
  /\ \/ process = "worker" /\ Tick(WorkerWaits)
     \/ process = "server" /\ Tick(ServerWaits)
  /\ UNCHANGED <<workerVars, process>>

\* Go runs the goroutines that are ready, and time passes.  No handler, batch,
\* call to the broker or closing of the database is assumed to return.
FairSpec ==
  Spec /\ WF_vars(MainStep) /\ WF_vars(ArmStep) /\ WF_vars(TickStep)

-----------------------------------------------------------------------------
(* Properties.                                                             *)

\* Past the deadline set at the signal the process is gone, whatever hangs: the
\* phases share one budget (sync-worker main.go, main; server main.go,
\* gracefulServer.shutdown).  There are two exceptions.  A database that is
\* closed after a clean join may take longer.  And an intake step that began
\* before there was a deadline may outlast it, by the limit of its own; then no
\* time passes after it.
ExitsInBudget ==
  now > deadline => main = "closing" \/ pool = "closed" \/ now <= limit

\* Told to stop, or cut off from its deliveries, the process exits, even if no
\* handler ever returns, or has nothing left but to close the database.
ShutdownEnds ==
  (signal \/ deliveries = "closed") ~> main \in {"closing", "exited"}

\* What may be using the database connections.
Using ==
  {u \in Work : work[u] = "busy"}
    \cup {u \in {"refresher"} : refresher = "running"}
    \cup {u \in {"publisher"} : publisher # "done"}

Stage ==
  IF main = "exited" THEN "stopped"
  ELSE IF cancelled THEN "cancelled"
  ELSE IF signal THEN "draining" ELSE "serving"

Promise == INSTANCE GracefulStop
             WITH Units <- Work \cup {"refresher", "publisher"},
                  stage <- Stage, busy <- Using

\* Both processes keep the promise of GracefulStop: nothing takes up work after
\* the cancellation, and the connections are closed only when nobody uses them.
ImplementsStop == Promise!Spec
=============================================================================
