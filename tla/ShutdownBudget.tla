--------------------------- MODULE ShutdownBudget ---------------------------
(***************************************************************************)
(* What the shutdowns of the Auth Provider server and of the sync worker   *)
(* have in common: one deadline, SHUTDOWN_TIMEOUT after the signal, with a *)
(* slice at its end kept for joining the work that was cancelled, and the  *)
(* rule that the database connections are closed only after a join that    *)
(* everybody came to.  Closing them has no deadline.  Time is counted from *)
(* the first thing that happens.                                           *)
(***************************************************************************)
EXTENDS Naturals

CONSTANTS
  Timeout,      \* SHUTDOWN_TIMEOUT
  MaxReserve,   \* the two seconds finalizationReserve is capped at
  IntakeLimit,  \* the worker's ten seconds of haltIntake without a deadline
  Work          \* handlers of deliveries, or of HTTP requests

ASSUME ShutdownBudgetAssumption ==
  /\ Timeout \in Nat \ {0} /\ MaxReserve \in Nat \ {0} /\ IntakeLimit \in Nat
  /\ Work \cap {"refresher", "publisher"} = {}

VARIABLES
  now,
  signal,       \* signalCtx is done
  deadline,     \* of shutdownCtx
  main,         \* where the main goroutine is
  cancelled,    \* workCtx, or the server's base context
  work,         \* of each handler
  refresher,    \* the goroutine that keeps the health gauges up to date
  pool          \* the database connections

budgetVars == <<now, signal, deadline, main, cancelled, work, refresher, pool>>

Never == 2 * (Timeout + IntakeLimit)     \* later than any deadline

FinalizationReserve(timeout) ==
  LET quarter == timeout \div 4
      r == IF quarter > MaxReserve THEN MaxReserve ELSE quarter
  IN IF r = 0 THEN timeout ELSE r

\* The end of the graceful drain, and of the join after it.
DrainBy == deadline - FinalizationReserve(Timeout)

\* Faulty variant (ExitsInBudget): the join has a timeout of its own.
JoinBy_Fresh == DrainBy + Timeout

JoinBy == deadline

BudgetTypeOK ==
  /\ now \in 0 .. Never
  /\ deadline \in (Timeout .. Timeout + IntakeLimit) \cup {Never}
  /\ signal \in BOOLEAN /\ cancelled \in BOOLEAN
  /\ main \in {"serving", "intake", "recv", "drain", "join", "clean", "unclean",
              "closing", "exited"}
  /\ work \in [Work -> {"none", "new", "busy", "late"}]
  /\ refresher \in {"running", "done"}
  /\ pool \in {"open", "closed", "left"}

BudgetInit ==
  /\ now = 0 /\ deadline = Never
  /\ signal = FALSE /\ cancelled = FALSE
  /\ main = "serving"
  /\ work = [u \in Work |-> "none"]
  /\ refresher = "running"
  /\ pool = "open"

\* Time passes while the main goroutine has reason to wait.
Tick(waits) ==
  /\ main # "exited" /\ now < Never
  /\ waits
  /\ now' = now + 1
  /\ UNCHANGED <<signal, deadline, main, cancelled, work, refresher, pool>>

\* SIGTERM.
Signal ==
  /\ main # "exited" /\ ~ signal
  /\ signal' = TRUE
  /\ UNCHANGED <<now, deadline, main, cancelled, work, refresher, pool>>

\* A handler returns; nothing makes it.
Finish(u) ==
  /\ main # "exited" /\ work[u] \in {"busy", "late"}
  /\ work' = [work EXCEPT ![u] = "none"]
  /\ UNCHANGED <<now, signal, deadline, main, cancelled, refresher, pool>>

RefresherStops(done) ==
  /\ main # "exited" /\ refresher = "running" /\ done
  /\ refresher' = "done"
  /\ UNCHANGED <<now, signal, deadline, main, cancelled, work, pool>>

\* Everybody has finished, or the time is up.
JoinActive(done) ==
  /\ main = "join"
  /\ \/ done /\ main' = "clean"
     \/ now >= JoinBy /\ main' = "unclean"
  /\ UNCHANGED <<now, signal, deadline, cancelled, work, refresher, pool>>

JoinWaits(done) == main = "join" => ~ done /\ now < JoinBy

\* After a join that not everybody came to, main returns with the database
\* connections open; else it closes them.
BeginClose ==
  /\ \/ main = "clean" /\ main' = "closing" /\ UNCHANGED pool
     \/ main = "unclean" /\ main' = "exited" /\ pool' = "left"
  /\ UNCHANGED <<now, signal, deadline, cancelled, work, refresher>>

\* The call waits until every connection is gone, for however long the database
\* takes, and main returns.
CloseDatabase ==
  /\ main = "closing"
  /\ pool' = "closed" /\ main' = "exited"
  /\ UNCHANGED <<now, signal, deadline, cancelled, work, refresher>>
=============================================================================
