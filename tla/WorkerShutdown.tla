--------------------------- MODULE WorkerShutdown ---------------------------
(***************************************************************************)
(* How the sync worker stops: the goroutines of main.go, from the signal   *)
(* or the loss of the consumer to the exit.  What the handlers and the     *)
(* publisher do meanwhile is SyncWorker's; here they are busy or not.      *)
(***************************************************************************)
EXTENDS ShutdownBudget

VARIABLES
  channel,      \* the channels with a value in them
  limit,        \* of the intake step; when that is over, the time it ended
  intake,       \* the goroutine that calls StopConsuming
  deliveries,   \* the consumer's channel
  conn,         \* to the broker
  publisher,    \* the outbox publisher
  listener      \* the goroutine that shuts the metrics listener down

workerVars == <<channel, limit, intake, deliveries, conn, publisher, listener>>

Consumers == {"intake", "drain", "publisher", "metrics"}

\* Faulty variant (ShutdownEnds): one channel for all, with one value.
Channel_Shared(c) == "shared"

\* Each consumer of the deadline has a buffered channel of its own.
Channel(c) == c

WorkerTypeOK ==
  /\ channel \subseteq {Channel(c) : c \in Consumers}
  /\ limit \in 0 .. Never
  /\ intake \in {"none", "stopping", "done"}
  /\ deliveries \in {"open", "closed"}
  /\ conn \in {"open", "lost", "closed"}
  /\ publisher \in {"polling", "await", "draining", "done"}
  /\ listener \in {"await", "closing", "done"}

WorkerInit ==
  /\ BudgetInit
  /\ channel = {} /\ limit = 0 /\ intake = "none"
  /\ deliveries = "open" /\ conn = "open"
  /\ publisher = "polling" /\ listener = "await"

Filled(c) == Channel(c) \in channel
Take(c)   == Filled(c) /\ channel' = channel \ {Channel(c)}

-----------------------------------------------------------------------------
(* The world: the broker cancels the consumer or the connection is lost.   *)

Disconnect ==
  /\ main # "exited" /\ deliveries = "open"
  /\ deliveries' = "closed"
  /\ conn' \in {conn, "lost"}
  /\ UNCHANGED <<budgetVars, channel, limit, intake, publisher, listener>>

(* The goroutine that waits for the signal.                                *)

\* Faulty variant (TypeOK): every further signal sets a new deadline.
Arm_Again ==
  /\ main # "exited" /\ signal
  /\ deadline' = now + Timeout
  /\ channel' = {Channel(c) : c \in Consumers}
  /\ UNCHANGED <<now, signal, main, cancelled, work, refresher, pool,
                 limit, intake, deliveries, conn, publisher, listener>>

Arm ==
  /\ main # "exited" /\ signal /\ deadline = Never
  /\ deadline' = now + Timeout
  /\ channel' = {Channel(c) : c \in Consumers}
  /\ UNCHANGED <<now, signal, main, cancelled, work, refresher, pool,
                 limit, intake, deliveries, conn, publisher, listener>>

(* Deliveries: a goroutine each, registered before it is launched, that    *)
(* looks at the signal once more.                                          *)

Dispatch(h) ==
  /\ main = "serving" /\ deliveries = "open" /\ ~ signal
  /\ work[h] = "none"
  /\ work' = [work EXCEPT ![h] = "new"]
  /\ UNCHANGED <<now, signal, deadline, main, cancelled, refresher, pool, workerVars>>

HandleDelivery(h) ==
  /\ main # "exited" /\ work[h] = "new"
  /\ work' = [work EXCEPT ![h] = IF signal THEN "none" ELSE "busy"]
  /\ UNCHANGED <<now, signal, deadline, main, cancelled, refresher, pool, workerVars>>

-----------------------------------------------------------------------------
(* The publisher, between its batches and in them, and the listener.       *)

PublisherStep ==
  /\ main # "exited"
  /\ \/ /\ publisher = "polling" /\ signal
        /\ publisher' = "await" /\ UNCHANGED channel
     \/ /\ publisher = "await" /\ Take("publisher")
        /\ publisher' = "draining"
     \/ /\ publisher = "draining" /\ (cancelled \/ now >= deadline)
        /\ publisher' = "done" /\ UNCHANGED channel
  /\ UNCHANGED <<budgetVars, limit, intake, deliveries, conn, listener>>

ListenerStep ==
  /\ main # "exited"
  /\ \/ listener = "await" /\ Take("metrics") /\ listener' = "closing"
     \/ listener = "closing" /\ listener' = "done" /\ UNCHANGED channel
  /\ UNCHANGED <<budgetVars, limit, intake, deliveries, conn, publisher>>

-----------------------------------------------------------------------------
(* The main goroutine.                                                     *)

\* With the deadline, or without: there was no signal, or it was not armed
\* within 250 milliseconds.
HaltIntake ==
  /\ main = "serving" /\ (signal \/ deliveries = "closed")
  /\ \/ Take("intake") /\ limit' = DrainBy
     \/ ~ Filled("intake") /\ limit' = now + IntakeLimit /\ UNCHANGED channel
  /\ intake' = "stopping"
  /\ main' = "intake"
  /\ UNCHANGED <<now, signal, deadline, cancelled, work, refresher, pool,
                 deliveries, conn, publisher, listener>>

\* The call may hang.  When it returns the deliveries are closed, and what is
\* left in them is discarded.
StopConsuming ==
  /\ main # "exited" /\ intake = "stopping"
  /\ intake' = "done" /\ deliveries' = "closed"
  /\ UNCHANGED <<budgetVars, channel, limit, conn, publisher, listener>>

\* If it hangs the connection is closed under it.  Either way the process is
\* stopping now, signal or not.
EndIntake ==
  /\ main = "intake"
  /\ \/ intake = "done" /\ UNCHANGED <<conn, deliveries>>
     \/ now >= limit /\ conn' = "closed" /\ deliveries' = "closed"
  /\ signal' = TRUE /\ limit' = now
  /\ main' = "recv"
  /\ UNCHANGED <<now, deadline, cancelled, work, refresher, pool,
                 channel, intake, publisher, listener>>

\* A plain receive: it has no fallback.
ReceiveDeadline ==
  /\ main = "recv" /\ Take("drain")
  /\ main' = "drain"
  /\ UNCHANGED <<now, signal, deadline, cancelled, work, refresher, pool,
                 limit, intake, deliveries, conn, publisher, listener>>

\* Faulty variant (ImplementsStop): the publisher is not registered in active.
ActiveDone_WithoutPublisher ==
  /\ \A h \in Work : work[h] = "none"
  /\ refresher = "done" /\ listener = "done" /\ intake # "stopping"

\* Everything registered in active has finished.
ActiveDone ==
  /\ \A h \in Work : work[h] = "none"
  /\ refresher = "done" /\ publisher = "done" /\ listener = "done"
  /\ intake # "stopping"

\* The refresher runs until the work is cancelled: nothing but the end of the
\* drain window ends this wait.
DrainWork ==
  /\ main = "drain" /\ (ActiveDone \/ now >= DrainBy)
  /\ cancelled' = (cancelled \/ ~ ActiveDone)
  /\ main' = "join"
  /\ UNCHANGED <<now, signal, deadline, work, refresher, pool, workerVars>>

WorkerMain ==
  \/ HaltIntake \/ EndIntake \/ ReceiveDeadline \/ DrainWork
  \/ JoinActive(ActiveDone) /\ UNCHANGED workerVars
  \/ BeginClose /\ conn' = "closed"
     /\ UNCHANGED <<channel, limit, intake, deliveries, publisher, listener>>

\* Timers of the process: the arming of the deadline and the main goroutine's
\* own steps are not put off.  The connection to the broker is closed by the
\* deadline.
WorkerWaits ==
  /\ main # "serving"
  /\ signal => deadline # Never
  /\ main = "intake" => intake # "done" /\ now < limit
  /\ main = "recv" => ~ Filled("drain")
  /\ main = "drain" => ~ ActiveDone /\ now < DrainBy
  /\ JoinWaits(ActiveDone)
  /\ main \in {"clean", "unclean"} => now < deadline

WorkerNext ==
  \/ Signal /\ UNCHANGED workerVars
  \/ Tick(WorkerWaits) /\ UNCHANGED workerVars
  \/ RefresherStops(cancelled) /\ UNCHANGED workerVars
  \/ \E h \in Work : Dispatch(h) \/ HandleDelivery(h)
  \/ \E h \in Work : Finish(h) /\ UNCHANGED workerVars
  \/ Disconnect \/ Arm \/ PublisherStep \/ ListenerStep \/ StopConsuming
  \/ WorkerMain
  \/ CloseDatabase /\ UNCHANGED workerVars
=============================================================================
