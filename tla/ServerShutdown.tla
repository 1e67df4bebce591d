--------------------------- MODULE ServerShutdown ---------------------------
(***************************************************************************)
(* How the Auth Provider server stops: gracefulServer of main.go around an *)
(* http.Server whose Shutdown stops listening and waits for connections to *)
(* become idle, but cancels nobody.                                        *)
(***************************************************************************)
EXTENDS ShutdownBudget

\* A connection is there; its request is yet to be read.
Accept(r) ==
  /\ main = "serving" /\ work[r] = "none"
  /\ work' = [work EXCEPT ![r] = "new"]
  /\ UNCHANGED <<now, signal, deadline, main, cancelled, refresher, pool>>

\* The handler registers with wg and derives its context from the base
\* context.  One that does so late finds it cancelled: its statements fail.
ServeHTTP(r) ==
  /\ main # "exited" /\ work[r] = "new"
  /\ work' = [work EXCEPT ![r] = IF cancelled THEN "late" ELSE "busy"]
  /\ UNCHANGED <<now, signal, deadline, main, cancelled, refresher, pool>>

\* The client is gone, or Shutdown closed the connection.
Drop(r) ==
  /\ main # "exited" /\ work[r] = "new"
  /\ work' = [work EXCEPT ![r] = "none"]
  /\ UNCHANGED <<now, signal, deadline, main, cancelled, refresher, pool>>

BeginShutdown ==
  /\ main = "serving" /\ signal
  /\ deadline' = now + Timeout
  /\ main' = "drain"
  /\ UNCHANGED <<now, signal, cancelled, work, refresher, pool>>

Quiescent == \A r \in Work : work[r] # "busy"

\* srv.Shutdown returns, with success or because the drain is over; then the
\* base context is cancelled.  A connection may turn from new to active while
\* Shutdown takes it for idle.
DrainRequests ==
  /\ main = "drain" /\ (Quiescent \/ now >= DrainBy)
  /\ cancelled' = TRUE
  /\ main' = "join"
  /\ UNCHANGED <<now, signal, deadline, work, refresher, pool>>

\* wg.Wait returns, then the refresher is waited for.  A request that begins
\* after wg.Wait returned is not waited for.
RequestsDone == Quiescent /\ refresher = "done"

ServerMain == BeginShutdown \/ DrainRequests \/ JoinActive(RequestsDone) \/ BeginClose

ServerWaits ==
  /\ main \notin {"serving", "clean", "unclean"}
  /\ main = "drain" => ~ Quiescent /\ now < DrainBy
  /\ JoinWaits(RequestsDone)

ServerNext ==
  \/ Signal \/ Tick(ServerWaits) \/ RefresherStops(signal)
  \/ \E r \in Work : Accept(r) \/ ServeHTTP(r) \/ Drop(r) \/ Finish(r)
  \/ ServerMain \/ CloseDatabase
=============================================================================
