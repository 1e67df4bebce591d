----------------------- MODULE ProcessShutdownProofs -----------------------
(***************************************************************************)
(* For every timeout, reserve, intake limit and set of handlers: a process *)
(* that is told to stop has, by its deadline, nothing left to do but close *)
(* its database connections, and keeps the promise of GracefulStop.        *)
(***************************************************************************)
EXTENDS ProcessShutdown, TLAPS

-----------------------------------------------------------------------------
(* The inductive invariant.                                                *)

\* Until main halts no time passes, and until the deadline is armed no more
\* than the intake step may take without one.
ClockStarted ==
  /\ main = "serving" => now = 0
  /\ deadline = Never => now <= IntakeLimit

\* The intake step ends at its limit; one without a deadline has IntakeLimit.
IntakeBounded ==
  main = "intake" => now <= limit /\ (deadline = Never => limit <= IntakeLimit)

\* The deadline comes after the signal, and main has it when it drains.
DeadlineKnown ==
  /\ deadline # Never => signal
  /\ main \notin {"serving", "intake"} => signal
  /\ main \notin {"serving", "intake", "recv"} => deadline # Never
  /\ process = "server" => main \notin {"intake", "recv"}

\* Nobody but main takes what is in its two channels.
ChannelsWait ==
  process = "worker" =>
    /\ channel # {} => deadline # Never
    /\ deadline # Never /\ main = "serving" => "intake" \in channel
    /\ deadline # Never /\ main \in {"serving", "intake", "recv"} => "drain" \in channel

\* Work is cancelled when main leaves the drain, and not before; the worker's
\* refresher runs until then.
CancelledAtJoin ==
  /\ cancelled <=> main \in {"join", "clean", "unclean", "closing", "exited"}
  /\ process = "worker" /\ refresher = "done" => cancelled

\* A clean join is final: nothing uses the connections again.
CleanMeansUnused ==
  /\ main \in {"clean", "closing"} => Using = {}
  /\ process = "worker" /\ main \in {"clean", "closing"} =>
       \A h \in Work : work[h] = "none"
  /\ process = "server" => publisher = "done"
  /\ main # "exited" => pool = "open"

StopInv ==
  /\ TypeOK
  /\ ExitsInBudget
  /\ ClockStarted
  /\ IntakeBounded
  /\ DeadlineKnown
  /\ ChannelsWait
  /\ CancelledAtJoin
  /\ CleanMeansUnused
-----------------------------------------------------------------------------
(* It holds at the start and is kept by every step.                        *)

LEMMA ReserveFits == FinalizationReserve(Timeout) \in 1 .. Timeout
BY ShutdownBudgetAssumption DEF FinalizationReserve

LEMMA InitInv == Init => StopInv
<1> SUFFICES ASSUME Init PROVE StopInv
  OBVIOUS
<1>1. TypeOK /\ ExitsInBudget
  <2>1. signal \in BOOLEAN /\ cancelled \in BOOLEAN
    BY Zenon DEF Init, WorkerInit, BudgetInit
  <2>2. work \in [Work -> {"none", "new", "busy", "late"}]
    BY DEF Init, WorkerInit, BudgetInit
  <2>3. now \in 0 .. Never /\ deadline = Never /\ limit \in 0 .. Never /\ ~ (now > deadline)
    BY ShutdownBudgetAssumption DEF Init, WorkerInit, BudgetInit, Never
  <2>4. WorkerTypeOK
    BY <2>3 DEF Init, WorkerInit, WorkerTypeOK
  <2> QED
    BY <2>1, <2>2, <2>3, <2>4 DEF Init, WorkerInit, BudgetInit, TypeOK, BudgetTypeOK, ExitsInBudget
<1>2. ClockStarted /\ IntakeBounded /\ DeadlineKnown /\ ChannelsWait
  BY ShutdownBudgetAssumption
    DEF Init, WorkerInit, BudgetInit, ClockStarted, IntakeBounded, DeadlineKnown,
        ChannelsWait, Never
<1>3. CancelledAtJoin /\ CleanMeansUnused
  BY DEF Init, WorkerInit, BudgetInit, CancelledAtJoin, CleanMeansUnused
<1> QED
  BY <1>1, <1>2, <1>3 DEF StopInv

\* Time: never past the next thing main has to do, except in the intake step
\* and while the database is closed.
LEMMA TickKeepsInv ==
  ASSUME StopInv, TickStep
  PROVE  StopInv'
<1>1. /\ now \in Nat /\ deadline \in Nat /\ limit \in Nat /\ Never \in Nat
      /\ DrainBy \in Nat /\ DrainBy <= deadline
  BY ReserveFits, ShutdownBudgetAssumption
    DEF StopInv, TypeOK, BudgetTypeOK, WorkerTypeOK, Never, DrainBy
<1>2. /\ main # "serving" /\ now < Never /\ now' = now + 1
      /\ UNCHANGED <<signal, deadline, main, cancelled, work, refresher, pool,
                     workerVars, process>>
  BY DEF TickStep, Tick, WorkerWaits, ServerWaits
<1>3. /\ \/ now < deadline
         \/ main = "intake" /\ now < limit
         \/ main = "closing"
      /\ deadline = Never => now < IntakeLimit
      /\ main = "intake" => now < limit
  <2>1. CASE process = "worker" /\ Tick(WorkerWaits)
    <3>1. WorkerWaits
      BY <2>1 DEF Tick
    <3>2. CASE main = "intake"
      <4>1. now < limit
        BY <3>1, <3>2 DEF WorkerWaits
      <4>2. deadline = Never => limit <= IntakeLimit
        BY <3>2 DEF StopInv, IntakeBounded
      <4> QED
        BY <1>1, <3>2, <4>1, <4>2, ShutdownBudgetAssumption
    <3>3. CASE main # "intake"
      <4>1. deadline # Never
        BY <1>2, <3>1, <3>3 DEF StopInv, DeadlineKnown, WorkerWaits
      <4>2. main # "recv"
        BY <2>1, <3>1, <4>1 DEF WorkerWaits, StopInv, ChannelsWait, Filled, Channel
      <4>3. now < deadline \/ main \in {"closing", "exited"}
        BY <1>1, <1>2, <3>1, <3>3, <4>2
          DEF WorkerWaits, JoinWaits, JoinBy, StopInv, TypeOK, BudgetTypeOK
      <4>4. main # "exited"
        BY <2>1 DEF Tick
      <4> QED
        BY <3>3, <4>1, <4>3, <4>4
    <3> QED
      BY <3>2, <3>3
  <2>2. CASE process = "server" /\ Tick(ServerWaits)
    <3>1. ServerWaits /\ main # "exited"
      BY <2>2 DEF Tick
    <3>2. main \notin {"intake", "recv"} /\ deadline # Never
      BY <1>2, <2>2 DEF StopInv, DeadlineKnown
    <3>3. now < deadline \/ main = "closing"
      BY <1>1, <1>2, <3>1, <3>2
        DEF ServerWaits, JoinWaits, JoinBy, StopInv, TypeOK, BudgetTypeOK
    <3> QED
      BY <3>2, <3>3
  <2> QED
    BY <2>1, <2>2 DEF TickStep
<1>4. TypeOK'
  BY <1>1, <1>2 DEF StopInv, TypeOK, BudgetTypeOK, WorkerTypeOK, workerVars
<1>5. ExitsInBudget'
  BY <1>1, <1>2, <1>3 DEF ExitsInBudget, workerVars
<1>6. ClockStarted' /\ IntakeBounded'
  BY <1>1, <1>2, <1>3, ShutdownBudgetAssumption
    DEF StopInv, ClockStarted, IntakeBounded, workerVars, Never
<1>7. (DeadlineKnown /\ ChannelsWait /\ CancelledAtJoin /\ CleanMeansUnused)'
  BY <1>2 DEF StopInv, workerVars, DeadlineKnown, ChannelsWait,
              CancelledAtJoin, CleanMeansUnused, Using
<1> QED
  BY <1>4, <1>5, <1>6, <1>7 DEF StopInv

\* Handlers: none takes up work once main is past the join.
LEMMA WorkKeepsInv ==
  ASSUME StopInv,
         work' \in [Work -> {"none", "new", "busy", "late"}],
         main \in {"clean", "closing"} => \A u \in Work : work'[u] # "busy",
         process = "worker" /\ main \in {"clean", "closing"} =>
           \A u \in Work : work'[u] = "none",
         UNCHANGED <<now, signal, deadline, main, cancelled, refresher, pool,
                     workerVars, process>>
  PROVE  StopInv'
<1>1. TypeOK' /\ ExitsInBudget'
  BY DEF StopInv, TypeOK, BudgetTypeOK, WorkerTypeOK, workerVars, ExitsInBudget
<1>2. (ClockStarted /\ IntakeBounded /\ DeadlineKnown /\ ChannelsWait /\ CancelledAtJoin)'
  BY DEF StopInv, workerVars, ClockStarted, IntakeBounded, DeadlineKnown,
         ChannelsWait, CancelledAtJoin
<1>3. CleanMeansUnused'
  BY DEF StopInv, workerVars, CleanMeansUnused, Using
<1> QED
  BY <1>1, <1>2, <1>3 DEF StopInv

LEMMA HandlersKeepInv ==
  ASSUME StopInv, NEW u \in Work,
         \/ process = "worker" /\ (Dispatch(u) \/ HandleDelivery(u) \/ (Finish(u) /\ UNCHANGED workerVars))
         \/ /\ process = "server" /\ UNCHANGED workerVars
            /\ Accept(u) \/ ServeHTTP(u) \/ Drop(u) \/ Finish(u),
         UNCHANGED process
  PROVE  StopInv'
<1>1. /\ UNCHANGED <<now, signal, deadline, main, cancelled, refresher, pool, workerVars>>
      /\ \E v \in {"none", "new", "busy", "late"} : work' = [work EXCEPT ![u] = v]
  BY DEF Dispatch, HandleDelivery, Finish, Accept, ServeHTTP, Drop
<1>2. work \in [Work -> {"none", "new", "busy", "late"}]
  BY DEF StopInv, TypeOK, BudgetTypeOK
<1>3. work' \in [Work -> {"none", "new", "busy", "late"}]
  BY <1>1, <1>2
<1>4. ASSUME main \in {"clean", "closing"} PROVE \A v \in Work : work'[v] # "busy"
  <2>1. cancelled /\ \A v \in Work : work[v] # "busy"
    BY <1>4 DEF StopInv, CancelledAtJoin, CleanMeansUnused, Using
  <2>2. process = "worker" => work[u] = "none"
    BY <1>4 DEF StopInv, CleanMeansUnused
  <2>3. work'[u] # "busy"
    BY <1>2, <1>4, <2>1, <2>2
      DEF Dispatch, HandleDelivery, Finish, Accept, ServeHTTP, Drop
  <2> QED
    BY <1>1, <1>2, <2>1, <2>3
<1>5. ASSUME process = "worker", main \in {"clean", "closing"}
      PROVE  \A v \in Work : work'[v] = "none"
  <2>1. \A v \in Work : work[v] = "none"
    BY <1>5 DEF StopInv, CleanMeansUnused
  <2> QED
    BY <1>2, <1>5, <2>1 DEF Dispatch, HandleDelivery, Finish
<1> QED
  BY <1>1, <1>3, <1>4, <1>5, WorkKeepsInv

\* The signal, and the goroutines next to main.
LEMMA SignalKeepsInv ==
  ASSUME StopInv, Signal, UNCHANGED <<workerVars, process>>
  PROVE  StopInv'
<1>1. signal' \in BOOLEAN
  BY Zenon DEF Signal
<1>2. TypeOK' /\ ExitsInBudget'
  BY <1>1 DEF StopInv, Signal, TypeOK, BudgetTypeOK, WorkerTypeOK, workerVars, ExitsInBudget
<1>3. (ClockStarted /\ IntakeBounded /\ DeadlineKnown /\ ChannelsWait)'
  BY DEF StopInv, Signal, workerVars, ClockStarted, IntakeBounded, DeadlineKnown, ChannelsWait
<1>4. (CancelledAtJoin /\ CleanMeansUnused)'
  BY DEF StopInv, Signal, workerVars, CancelledAtJoin, CleanMeansUnused, Using
<1> QED
  BY <1>2, <1>3, <1>4 DEF StopInv

LEMMA RefresherKeepsInv ==
  ASSUME StopInv, UNCHANGED <<workerVars, process>>,
         \/ process = "worker" /\ RefresherStops(cancelled)
         \/ process = "server" /\ RefresherStops(signal)
  PROVE  StopInv'
<1>1. TypeOK' /\ ExitsInBudget'
  BY DEF StopInv, RefresherStops, TypeOK, BudgetTypeOK, WorkerTypeOK, workerVars, ExitsInBudget
<1>2. (ClockStarted /\ IntakeBounded /\ DeadlineKnown /\ ChannelsWait)'
  BY DEF StopInv, RefresherStops, workerVars, ClockStarted, IntakeBounded, DeadlineKnown,
         ChannelsWait
<1>3. (CancelledAtJoin /\ CleanMeansUnused)'
  BY DEF StopInv, RefresherStops, workerVars, CancelledAtJoin, CleanMeansUnused, Using
<1> QED
  BY <1>1, <1>2, <1>3 DEF StopInv

LEMMA ArmKeepsInv ==
  ASSUME StopInv, ArmStep
  PROVE  StopInv'
<1>1. /\ deadline = Never /\ signal /\ process = "worker"
      /\ deadline' = now + Timeout
      /\ channel' = {Channel(c) : c \in Consumers}
      /\ UNCHANGED <<now, signal, main, cancelled, work, refresher, pool, process,
                     limit, intake, deliveries, conn, publisher, listener>>
  BY DEF ArmStep, Arm
<1>2. now \in 0 .. IntakeLimit
  BY <1>1, ShutdownBudgetAssumption
    DEF StopInv, TypeOK, BudgetTypeOK, ClockStarted, Never
<1>3. /\ deadline' \in Timeout .. Timeout + IntakeLimit /\ deadline' # Never
      /\ now < deadline'
  BY <1>1, <1>2, ShutdownBudgetAssumption DEF Never
<1>4. TypeOK' /\ ExitsInBudget'
  BY <1>1, <1>2, <1>3, ShutdownBudgetAssumption
    DEF StopInv, TypeOK, BudgetTypeOK, WorkerTypeOK, ExitsInBudget, Channel, Never
<1>5. (ClockStarted /\ DeadlineKnown /\ ChannelsWait)'
  BY <1>1, <1>3
    DEF StopInv, ClockStarted, DeadlineKnown, ChannelsWait, Channel, Consumers, Never
<1>6. IntakeBounded'
  BY <1>1, <1>2, <1>3, ShutdownBudgetAssumption
    DEF StopInv, TypeOK, WorkerTypeOK, IntakeBounded, Never
<1>7. (CancelledAtJoin /\ CleanMeansUnused)'
  BY <1>1 DEF StopInv, CancelledAtJoin, CleanMeansUnused, Using
<1> QED
  BY <1>4, <1>5, <1>6, <1>7 DEF StopInv

\* Neither the loss of the consumer nor the return of StopConsuming is anything
\* the invariant speaks of.
LEMMA IntakeKeepsInv ==
  ASSUME StopInv, Disconnect \/ StopConsuming, UNCHANGED process
  PROVE  StopInv'
<1>1. /\ UNCHANGED <<budgetVars, channel, limit, publisher, listener, process>>
      /\ intake' \in {"none", "stopping", "done"}
      /\ deliveries' \in {"open", "closed"} /\ conn' \in {"open", "lost", "closed"}
  BY DEF StopInv, TypeOK, WorkerTypeOK, Disconnect, StopConsuming
<1> QED
  BY <1>1 DEF StopInv, budgetVars, TypeOK, BudgetTypeOK, WorkerTypeOK, ExitsInBudget,
              ClockStarted, IntakeBounded, DeadlineKnown, ChannelsWait, CancelledAtJoin,
              CleanMeansUnused, Using

LEMMA PublisherKeepsInv ==
  ASSUME StopInv, PublisherStep \/ ListenerStep, process = "worker", UNCHANGED process
  PROVE  StopInv'
<1>1. /\ UNCHANGED <<budgetVars, limit, intake, deliveries, conn, process>>
      /\ publisher' \in {"polling", "await", "draining", "done"}
      /\ publisher = "done" => publisher' = "done"
      /\ listener' \in {"await", "closing", "done"}
      /\ channel' \subseteq channel
      /\ channel \ channel' \subseteq {"publisher", "metrics"}
  BY DEF StopInv, TypeOK, WorkerTypeOK, PublisherStep, ListenerStep, Take, Filled, Channel
<1>2. TypeOK' /\ ExitsInBudget'
  BY <1>1 DEF StopInv, budgetVars, TypeOK, BudgetTypeOK, WorkerTypeOK, ExitsInBudget
<1>3. (ClockStarted /\ IntakeBounded /\ DeadlineKnown /\ ChannelsWait)'
  BY <1>1 DEF StopInv, budgetVars, ClockStarted, IntakeBounded, DeadlineKnown, ChannelsWait
<1>4. (CancelledAtJoin /\ CleanMeansUnused)'
  BY <1>1 DEF StopInv, budgetVars, CancelledAtJoin, CleanMeansUnused, Using
<1> QED
  BY <1>2, <1>3, <1>4 DEF StopInv

-----------------------------------------------------------------------------
(* The main goroutine.                                                     *)

\* The worker's way to the drain: main gets a limit that fits, and finds the
\* deadline in its channel.
LEMMA HaltKeepsInv ==
  ASSUME StopInv, process = "worker", HaltIntake, UNCHANGED process
  PROVE  StopInv'
<1>1. /\ main = "serving" /\ main' = "intake" /\ intake' = "stopping"
      /\ signal \/ deliveries = "closed"
      /\ UNCHANGED <<now, signal, deadline, cancelled, work, refresher, pool,
                     deliveries, conn, publisher, listener, process>>
  BY DEF HaltIntake
<1>2. now = 0 /\ ~ cancelled
  BY <1>1 DEF StopInv, ClockStarted, CancelledAtJoin
<1>3. /\ channel' \subseteq channel /\ channel \ channel' \subseteq {"intake"}
      /\ limit' \in 0 .. Never
      /\ deadline = Never => limit' <= IntakeLimit
  <2>1. CASE Take("intake") /\ limit' = DrainBy
    <3>1. deadline # Never
      BY <2>1 DEF StopInv, ChannelsWait, Take, Filled, Channel
    <3> QED
      BY <2>1, <3>1, ReserveFits, ShutdownBudgetAssumption
        DEF Take, Channel, DrainBy, StopInv, TypeOK, BudgetTypeOK, Never
  <2>2. CASE ~ Filled("intake") /\ limit' = now + IntakeLimit /\ UNCHANGED channel
    <3>1. deadline = Never
      BY <1>1, <2>2 DEF StopInv, ChannelsWait, Filled, Channel
    <3> QED
      BY <1>2, <2>2, <3>1, ShutdownBudgetAssumption DEF Never
  <2> QED
    BY <2>1, <2>2 DEF HaltIntake
<1>4. TypeOK' /\ ExitsInBudget'
  BY <1>1, <1>2, <1>3, ShutdownBudgetAssumption
    DEF StopInv, TypeOK, BudgetTypeOK, WorkerTypeOK, ExitsInBudget, Never
<1>5. (ClockStarted /\ IntakeBounded /\ DeadlineKnown /\ ChannelsWait)'
  BY <1>1, <1>2, <1>3 DEF StopInv, ClockStarted, IntakeBounded, DeadlineKnown, ChannelsWait
<1>6. (CancelledAtJoin /\ CleanMeansUnused)'
  BY <1>1 DEF StopInv, CancelledAtJoin, CleanMeansUnused, Using
<1> QED
  BY <1>4, <1>5, <1>6 DEF StopInv

LEMMA EndIntakeKeepsInv ==
  ASSUME StopInv, process = "worker", EndIntake, UNCHANGED process
  PROVE  StopInv'
<1>1. /\ main = "intake" /\ main' = "recv" /\ signal' = TRUE
      /\ conn' \in {"open", "lost", "closed"} /\ deliveries' \in {"open", "closed"}
      /\ UNCHANGED <<now, deadline, cancelled, work, refresher, pool,
                     channel, intake, publisher, listener, process>>
      /\ limit' = now
  BY DEF EndIntake, StopInv, TypeOK, WorkerTypeOK
<1>2. signal' \in BOOLEAN
  BY <1>1, Zenon
<1>3. TypeOK' /\ ExitsInBudget'
  BY <1>1, <1>2 DEF StopInv, TypeOK, BudgetTypeOK, WorkerTypeOK, ExitsInBudget
<1>4. (ClockStarted /\ IntakeBounded /\ DeadlineKnown /\ ChannelsWait)'
  BY <1>1 DEF StopInv, ClockStarted, IntakeBounded, DeadlineKnown, ChannelsWait
<1>5. (CancelledAtJoin /\ CleanMeansUnused)'
  BY <1>1 DEF StopInv, CancelledAtJoin, CleanMeansUnused, Using
<1> QED
  BY <1>3, <1>4, <1>5 DEF StopInv

LEMMA ReceiveKeepsInv ==
  ASSUME StopInv, process = "worker", ReceiveDeadline, UNCHANGED process
  PROVE  StopInv'
<1>1. /\ main = "recv" /\ main' = "drain"
      /\ channel # {} /\ channel' \subseteq channel
      /\ UNCHANGED <<now, signal, deadline, cancelled, work, refresher, pool,
                     limit, intake, deliveries, conn, publisher, listener, process>>
  BY DEF ReceiveDeadline, Take, Filled
<1>2. TypeOK' /\ ExitsInBudget'
  BY <1>1 DEF StopInv, TypeOK, BudgetTypeOK, WorkerTypeOK, ExitsInBudget
<1>3. (ClockStarted /\ IntakeBounded /\ DeadlineKnown /\ ChannelsWait)'
  BY <1>1 DEF StopInv, ClockStarted, IntakeBounded, DeadlineKnown, ChannelsWait
<1>4. (CancelledAtJoin /\ CleanMeansUnused)'
  BY <1>1 DEF StopInv, CancelledAtJoin, CleanMeansUnused, Using
<1> QED
  BY <1>2, <1>3, <1>4 DEF StopInv

\* The drain ends in the cancellation: the worker's refresher outlasts it.
LEMMA DrainCancels ==
  ASSUME StopInv,
         \/ process = "worker" /\ DrainWork
         \/ process = "server" /\ DrainRequests
  PROVE  main = "drain" /\ main' = "join" /\ cancelled' = TRUE
<1>1. CASE process = "worker" /\ DrainWork
  <2>1. main = "drain" /\ ~ cancelled /\ main' = "join"
    BY <1>1 DEF DrainWork, StopInv, CancelledAtJoin
  <2>2. ~ ActiveDone
    BY <1>1, <2>1 DEF StopInv, CancelledAtJoin, ActiveDone
  <2> QED
    BY <1>1, <2>1, <2>2, Zenon DEF DrainWork
<1>2. CASE process = "server" /\ DrainRequests
  BY <1>2 DEF DrainRequests
<1> QED
  BY <1>1, <1>2

LEMMA DrainKeepsInv ==
  ASSUME StopInv, UNCHANGED <<workerVars, process>>,
         \/ process = "worker" /\ DrainWork
         \/ process = "server" /\ DrainRequests
  PROVE  StopInv'
<1>1. /\ main = "drain" /\ main' = "join" /\ cancelled' = TRUE
      /\ UNCHANGED <<now, signal, deadline, work, refresher, pool, workerVars, process>>
  BY DrainCancels DEF DrainWork, DrainRequests
<1>2. cancelled' \in BOOLEAN
  BY <1>1, Zenon
<1>3. TypeOK' /\ ExitsInBudget'
  BY <1>1, <1>2 DEF StopInv, TypeOK, BudgetTypeOK, WorkerTypeOK, workerVars, ExitsInBudget
<1>4. (ClockStarted /\ IntakeBounded /\ DeadlineKnown /\ ChannelsWait)'
  BY <1>1 DEF StopInv, workerVars, ClockStarted, IntakeBounded, DeadlineKnown, ChannelsWait
<1>5. (CancelledAtJoin /\ CleanMeansUnused)'
  BY <1>1 DEF StopInv, workerVars, CancelledAtJoin, CleanMeansUnused, Using
<1> QED
  BY <1>3, <1>4, <1>5 DEF StopInv

\* The server's way to the drain.
LEMMA BeginKeepsInv ==
  ASSUME StopInv, process = "server", BeginShutdown, UNCHANGED <<workerVars, process>>
  PROVE  StopInv'
<1>1. /\ main = "serving" /\ main' = "drain" /\ signal /\ deadline' = now + Timeout
      /\ UNCHANGED <<now, signal, cancelled, work, refresher, pool, workerVars, process>>
  BY DEF BeginShutdown
<1>2. now = 0
  BY <1>1 DEF StopInv, ClockStarted
<1>3. deadline' = Timeout /\ deadline' # Never
  BY <1>1, <1>2, ShutdownBudgetAssumption DEF Never
<1>4. TypeOK' /\ ExitsInBudget'
  BY <1>1, <1>2, <1>3, ShutdownBudgetAssumption
    DEF StopInv, TypeOK, BudgetTypeOK, WorkerTypeOK, workerVars, ExitsInBudget, Never
<1>5. (ClockStarted /\ IntakeBounded /\ DeadlineKnown /\ ChannelsWait)'
  BY <1>1, <1>3 DEF StopInv, workerVars, ClockStarted, IntakeBounded, DeadlineKnown,
                    ChannelsWait
<1>6. (CancelledAtJoin /\ CleanMeansUnused)'
  BY <1>1 DEF StopInv, workerVars, CancelledAtJoin, CleanMeansUnused, Using
<1> QED
  BY <1>4, <1>5, <1>6 DEF StopInv

LEMMA JoinKeepsInv ==
  ASSUME StopInv, UNCHANGED <<workerVars, process>>,
         \/ process = "worker" /\ JoinActive(ActiveDone)
         \/ process = "server" /\ JoinActive(RequestsDone)
  PROVE  StopInv'
<1>1. /\ main = "join" /\ main' \in {"clean", "unclean"}
      /\ UNCHANGED <<now, signal, deadline, cancelled, work, refresher, pool,
                     workerVars, process>>
  BY DEF JoinActive
<1>2. main' = "clean" => (process = "worker" /\ ActiveDone) \/ (process = "server" /\ RequestsDone)
  BY DEF JoinActive
<1>3. TypeOK' /\ ExitsInBudget'
  BY <1>1 DEF StopInv, TypeOK, BudgetTypeOK, WorkerTypeOK, workerVars, ExitsInBudget
<1>4. (ClockStarted /\ IntakeBounded /\ DeadlineKnown /\ ChannelsWait /\ CancelledAtJoin)'
  BY <1>1 DEF StopInv, workerVars, ClockStarted, IntakeBounded, DeadlineKnown, ChannelsWait,
              CancelledAtJoin
<1>5. CleanMeansUnused'
  BY <1>1, <1>2
    DEF StopInv, workerVars, CleanMeansUnused, Using, ActiveDone, RequestsDone, Quiescent
<1> QED
  BY <1>3, <1>4, <1>5 DEF StopInv

LEMMA CloseKeepsInv ==
  ASSUME StopInv, BeginClose, UNCHANGED process,
         \/ conn' = "closed" /\ UNCHANGED <<channel, limit, intake, deliveries, publisher, listener>>
         \/ UNCHANGED workerVars
  PROVE  StopInv'
<1>1. /\ \/ main = "clean" /\ main' = "closing" /\ UNCHANGED pool
         \/ main = "unclean" /\ main' = "exited" /\ pool' = "left"
      /\ conn' \in {"open", "lost", "closed"}
      /\ UNCHANGED <<now, signal, deadline, cancelled, work, refresher, process,
                     channel, limit, intake, deliveries, publisher, listener>>
  BY DEF StopInv, TypeOK, WorkerTypeOK, workerVars, BeginClose
<1>2. pool = "open"
  BY <1>1 DEF StopInv, CleanMeansUnused
<1>3. TypeOK' /\ ExitsInBudget'
  BY <1>1, <1>2 DEF StopInv, TypeOK, BudgetTypeOK, WorkerTypeOK, ExitsInBudget
<1>4. (ClockStarted /\ IntakeBounded /\ DeadlineKnown /\ ChannelsWait)'
  BY <1>1 DEF StopInv, ClockStarted, IntakeBounded, DeadlineKnown, ChannelsWait
<1>5. (CancelledAtJoin /\ CleanMeansUnused)'
  BY <1>1 DEF StopInv, CancelledAtJoin, CleanMeansUnused, Using
<1> QED
  BY <1>3, <1>4, <1>5 DEF StopInv

LEMMA CloseDatabaseKeepsInv ==
  ASSUME StopInv, CloseDatabase, UNCHANGED <<workerVars, process>>
  PROVE  StopInv'
<1>1. /\ main = "closing" /\ main' = "exited" /\ pool' = "closed"
      /\ UNCHANGED <<now, signal, deadline, cancelled, work, refresher, workerVars, process>>
  BY DEF CloseDatabase
<1>2. TypeOK' /\ ExitsInBudget'
  BY <1>1 DEF StopInv, TypeOK, BudgetTypeOK, WorkerTypeOK, workerVars, ExitsInBudget
<1>3. (ClockStarted /\ IntakeBounded /\ DeadlineKnown /\ ChannelsWait)'
  BY <1>1 DEF StopInv, workerVars, ClockStarted, IntakeBounded, DeadlineKnown, ChannelsWait
<1>4. (CancelledAtJoin /\ CleanMeansUnused)'
  BY <1>1 DEF StopInv, workerVars, CancelledAtJoin, CleanMeansUnused, Using
<1> QED
  BY <1>2, <1>3, <1>4 DEF StopInv

LEMMA NextKeepsInv ==
  ASSUME StopInv, [Next]_vars
  PROVE  StopInv'
<1>1. CASE process = "worker" /\ WorkerNext /\ UNCHANGED process
  <2>1. CASE Signal /\ UNCHANGED workerVars
    BY <1>1, <2>1, SignalKeepsInv
  <2>2. CASE Tick(WorkerWaits) /\ UNCHANGED workerVars
    BY <1>1, <2>2, TickKeepsInv DEF TickStep
  <2>3. CASE RefresherStops(cancelled) /\ UNCHANGED workerVars
    BY <1>1, <2>3, RefresherKeepsInv
  <2>4. ASSUME NEW h \in Work, Dispatch(h) \/ HandleDelivery(h)
        PROVE  StopInv'
    BY <1>1, <2>4, HandlersKeepInv DEF Dispatch, HandleDelivery
  <2>5. ASSUME NEW h \in Work, Finish(h), UNCHANGED workerVars
        PROVE  StopInv'
    BY <1>1, <2>5, HandlersKeepInv
  <2>6. CASE Disconnect \/ Arm \/ PublisherStep \/ ListenerStep \/ StopConsuming
    <3>1. CASE Arm
      BY <1>1, <3>1, ArmKeepsInv DEF ArmStep
    <3>2. CASE Disconnect \/ StopConsuming
      BY <1>1, <3>2, IntakeKeepsInv
    <3>3. CASE PublisherStep \/ ListenerStep
      BY <1>1, <3>3, PublisherKeepsInv
    <3> QED
      BY <2>6, <3>1, <3>2, <3>3
  <2>7. CASE WorkerMain
    <3>1. CASE HaltIntake \/ EndIntake \/ ReceiveDeadline
      BY <1>1, <3>1, HaltKeepsInv, EndIntakeKeepsInv, ReceiveKeepsInv
    <3>2. CASE DrainWork
      BY <1>1, <3>2, DrainKeepsInv DEF DrainWork
    <3>3. CASE JoinActive(ActiveDone) /\ UNCHANGED workerVars
      BY <1>1, <3>3, JoinKeepsInv
    <3>4. CASE /\ BeginClose /\ conn' = "closed"
               /\ UNCHANGED <<channel, limit, intake, deliveries, publisher, listener>>
      BY <1>1, <3>4, CloseKeepsInv
    <3> QED
      BY <2>7, <3>1, <3>2, <3>3, <3>4 DEF WorkerMain
  <2>8. CASE CloseDatabase /\ UNCHANGED workerVars
    BY <1>1, <2>8, CloseDatabaseKeepsInv
  <2> QED
    BY <1>1, <2>1, <2>2, <2>3, <2>4, <2>5, <2>6, <2>7, <2>8 DEF WorkerNext
<1>2. CASE process = "server" /\ ServerNext /\ UNCHANGED <<workerVars, process>>
  <2>1. CASE Signal \/ Tick(ServerWaits) \/ RefresherStops(signal)
    BY <1>2, <2>1, SignalKeepsInv, TickKeepsInv, RefresherKeepsInv DEF TickStep
  <2>2. ASSUME NEW r \in Work, Accept(r) \/ ServeHTTP(r) \/ Drop(r) \/ Finish(r)
        PROVE  StopInv'
    BY <1>2, <2>2, HandlersKeepInv
  <2>3. CASE ServerMain
    <3>1. CASE BeginShutdown
      BY <1>2, <3>1, BeginKeepsInv
    <3>2. CASE DrainRequests
      BY <1>2, <3>2, DrainKeepsInv
    <3>3. CASE JoinActive(RequestsDone)
      BY <1>2, <3>3, JoinKeepsInv
    <3>4. CASE BeginClose
      BY <1>2, <3>4, CloseKeepsInv
    <3> QED
      BY <2>3, <3>1, <3>2, <3>3, <3>4 DEF ServerMain
  <2>4. CASE CloseDatabase
    BY <1>2, <2>4, CloseDatabaseKeepsInv
  <2> QED
    BY <1>2, <2>1, <2>2, <2>3, <2>4 DEF ServerNext
<1>3. CASE UNCHANGED vars
  BY <1>3 DEF vars, StopInv, budgetVars, workerVars, TypeOK, BudgetTypeOK, WorkerTypeOK,
              ExitsInBudget, ClockStarted, IntakeBounded, DeadlineKnown, ChannelsWait,
              CancelledAtJoin, CleanMeansUnused, Using
<1> QED
  BY <1>1, <1>2, <1>3 DEF Next

THEOREM StopInvariant == Spec => []StopInv
<1>1. StopInv /\ [Next]_vars => StopInv'
  BY NextKeepsInv
<1> QED
  BY InitInv, <1>1, PTL DEF Spec

\* Clock, deadline, channels and the state of every goroutine keep their type:
\* the deadline is set once, Timeout after the signal.
THEOREM ShutdownTypeCorrect == Spec => []TypeOK
<1>1. StopInv => TypeOK
  BY DEF StopInv
<1> QED
  BY <1>1, StopInvariant, PTL

\* For every timeout, cap of the reserve, limit of the intake and number of
\* handlers: past its deadline the process is gone, is closing the database after
\* a clean join, or is in an intake step, or just out of one, that was given its
\* own limit before there was a deadline.
THEOREM StopsInBudget == Spec => []ExitsInBudget
<1>1. StopInv => ExitsInBudget
  BY DEF StopInv
<1> QED
  BY <1>1, StopInvariant, PTL

-----------------------------------------------------------------------------
(* The promise of GracefulStop.                                            *)

LEMMA InitKeepsPromise == Init => Promise!Init
BY DEF Init, WorkerInit, BudgetInit, Promise!Init, Stage, Using

LEMMA PromiseTaken ==
  ASSUME StopInv, NEW u \in Work,
         HandleDelivery(u) \/ ServeHTTP(u), UNCHANGED <<workerVars, process>>
  PROVE  [Promise!Next]_(Promise!vars)
<1>1. /\ main # "exited" /\ work \in [Work -> {"none", "new", "busy", "late"}]
      /\ work[u] = "new"
      /\ UNCHANGED <<now, signal, deadline, main, cancelled, refresher, pool, publisher>>
  BY DEF HandleDelivery, ServeHTTP, StopInv, TypeOK, BudgetTypeOK, workerVars
<1>2. UNCHANGED <<Stage, pool>>
  BY <1>1 DEF Stage
<1>3. CASE work'[u] = "busy"
  <2>1. ~ cancelled
    BY <1>1, <1>3 DEF HandleDelivery, ServeHTTP, StopInv, DeadlineKnown, CancelledAtJoin
  <2>2. Stage \in {"serving", "draining"}
    BY <1>1, <2>1 DEF Stage
  <2>3. Using' = Using \cup {u}
    BY <1>1, <1>3 DEF HandleDelivery, ServeHTTP, Using
  <2> QED
    BY <1>2, <2>2, <2>3 DEF Promise!Next, Promise!Take
<1>4. CASE work'[u] # "busy"
  <2>1. UNCHANGED Using
    BY <1>1, <1>4 DEF HandleDelivery, ServeHTTP, Using
  <2> QED
    BY <1>2, <2>1 DEF Promise!vars
<1> QED
  BY <1>3, <1>4

LEMMA PromiseFinished ==
  ASSUME StopInv, NEW u \in Work, Finish(u), UNCHANGED <<workerVars, process>>
  PROVE  [Promise!Next]_(Promise!vars)
<1>1. /\ main # "exited" /\ work \in [Work -> {"none", "new", "busy", "late"}]
      /\ work' = [work EXCEPT ![u] = "none"]
      /\ UNCHANGED <<now, signal, deadline, main, cancelled, refresher, pool, publisher>>
  BY DEF Finish, StopInv, TypeOK, BudgetTypeOK, workerVars
<1>2. UNCHANGED <<Stage, pool>> /\ Stage # "stopped"
  BY <1>1 DEF Stage
<1>3. Using' = Using \ {u}
  BY <1>1, ShutdownBudgetAssumption DEF Using
<1> QED
  BY <1>2, <1>3 DEF Promise!Next, Promise!Finish

\* A goroutine other than a handler ends.
LEMMA PromiseOthersFinish ==
  ASSUME StopInv, main # "exited", UNCHANGED <<signal, main, cancelled, work, pool>>,
         \/ refresher = "running" /\ refresher' = "done" /\ UNCHANGED publisher
         \/ publisher # "done" /\ publisher' = "done" /\ UNCHANGED refresher
  PROVE  [Promise!Next]_(Promise!vars)
<1>1. UNCHANGED <<Stage, pool>> /\ Stage # "stopped"
  BY DEF Stage
<1>2. Using' = Using \ {"refresher"} \/ Using' = Using \ {"publisher"}
  BY ShutdownBudgetAssumption DEF Using
<1> QED
  BY <1>1, <1>2 DEF Promise!Next, Promise!Finish

\* Whatever changes neither the stage nor who is busy.
LEMMA PromiseStutters ==
  ASSUME main' # "exited" /\ main # "exited", UNCHANGED <<signal, cancelled, pool>>,
         {u \in Work : work'[u] = "busy"} = {u \in Work : work[u] = "busy"},
         refresher' = refresher, publisher' = "done" <=> publisher = "done"
  PROVE  [Promise!Next]_(Promise!vars)
<1>1. UNCHANGED Stage
  BY DEF Stage
<1>2. UNCHANGED Using
  BY DEF Using
<1> QED
  BY <1>1, <1>2 DEF Promise!vars

LEMMA PromiseDrains ==
  ASSUME StopInv, main' # "exited" /\ main # "exited", signal',
         UNCHANGED <<cancelled, work, refresher, pool, publisher>>
  PROVE  [Promise!Next]_(Promise!vars)
<1>1. UNCHANGED Using
  BY DEF Using
<1>2. CASE ~ signal
  <2>1. ~ cancelled
    BY <1>2 DEF StopInv, CancelledAtJoin, DeadlineKnown
  <2>2. Stage = "serving" /\ Stage' = "draining"
    BY <1>2, <2>1 DEF Stage
  <2> QED
    BY <1>1, <2>2 DEF Promise!Next, Promise!Drain
<1>3. CASE signal
  <2>1. UNCHANGED Stage
    BY <1>3 DEF Stage
  <2> QED
    BY <1>1, <2>1 DEF Promise!vars
<1> QED
  BY <1>2, <1>3

LEMMA PromiseCancels ==
  ASSUME StopInv, UNCHANGED <<workerVars, process>>,
         \/ process = "worker" /\ DrainWork
         \/ process = "server" /\ DrainRequests
  PROVE  [Promise!Next]_(Promise!vars)
<1>1. /\ main = "drain" /\ main' = "join" /\ cancelled' = TRUE
      /\ UNCHANGED <<signal, work, refresher, pool, publisher>>
  BY DrainCancels DEF DrainWork, DrainRequests, workerVars
<1>2. ~ cancelled /\ signal
  BY <1>1 DEF StopInv, CancelledAtJoin, DeadlineKnown
<1>3. Stage = "draining" /\ Stage' = "cancelled" /\ UNCHANGED Using
  BY <1>1, <1>2 DEF Stage, Using
<1> QED
  BY <1>1, <1>3 DEF Promise!Next, Promise!Cancel

\* The process stops without closing the connections, or after it.
LEMMA PromiseStops ==
  ASSUME StopInv, UNCHANGED <<publisher, process>>,
         CloseDatabase \/ (BeginClose /\ main = "unclean")
  PROVE  [Promise!Next]_(Promise!vars)
<1>1. /\ \/ main = "closing" /\ pool' = "closed"
         \/ main = "unclean" /\ pool' = "left"
      /\ main' = "exited"
      /\ UNCHANGED <<cancelled, work, refresher>>
  BY DEF CloseDatabase, BeginClose
<1>2. Stage = "cancelled" /\ Stage' = "stopped" /\ UNCHANGED Using
  BY <1>1 DEF StopInv, CancelledAtJoin, Stage, Using
<1>3. main = "closing" => Using = {}
  BY DEF StopInv, CleanMeansUnused
<1> QED
  BY <1>1, <1>2, <1>3 DEF Promise!Next, Promise!Stop

LEMMA PromiseCloses ==
  ASSUME StopInv, BeginClose, UNCHANGED <<publisher, process>>
  PROVE  [Promise!Next]_(Promise!vars)
<1>1. CASE main = "unclean"
  BY <1>1, PromiseStops
<1>2. CASE main = "clean"
  BY <1>2, PromiseStutters DEF BeginClose
<1> QED
  BY <1>1, <1>2 DEF BeginClose

LEMMA StepKeepsPromise ==
  ASSUME StopInv, [Next]_vars
  PROVE  [Promise!Next]_(Promise!vars)
<1>1. CASE process = "worker" /\ WorkerNext /\ UNCHANGED process
  <2>1. CASE Signal /\ UNCHANGED workerVars
    BY <2>1, PromiseDrains DEF Signal, workerVars
  <2>2. CASE Tick(WorkerWaits) /\ UNCHANGED workerVars
    BY <2>2, PromiseStutters DEF Tick, workerVars
  <2>3. CASE RefresherStops(cancelled) /\ UNCHANGED workerVars
    BY <2>3, PromiseOthersFinish DEF RefresherStops, workerVars
  <2>4. ASSUME NEW h \in Work, Dispatch(h) \/ HandleDelivery(h)
        PROVE  [Promise!Next]_(Promise!vars)
    <3>1. CASE Dispatch(h)
      <4>1. {u \in Work : work'[u] = "busy"} = {u \in Work : work[u] = "busy"}
        BY <3>1 DEF Dispatch, StopInv, TypeOK, BudgetTypeOK
      <4> QED
        BY <3>1, <4>1, PromiseStutters DEF Dispatch, workerVars
    <3>2. CASE HandleDelivery(h)
      BY <1>1, <3>2, PromiseTaken DEF HandleDelivery
    <3> QED
      BY <2>4, <3>1, <3>2
  <2>5. ASSUME NEW h \in Work, Finish(h), UNCHANGED workerVars
        PROVE  [Promise!Next]_(Promise!vars)
    BY <1>1, <2>5, PromiseFinished
  <2>6. CASE Disconnect \/ Arm \/ ListenerStep \/ StopConsuming
    <3>1. /\ main # "exited"
          /\ UNCHANGED <<main, signal, cancelled, pool, work, refresher, publisher>>
      BY <2>6 DEF Disconnect, Arm, ListenerStep, StopConsuming, budgetVars
    <3> QED
      BY <3>1, PromiseStutters
  <2>7. CASE PublisherStep
    <3>1. main # "exited" /\ publisher # "done"
          /\ UNCHANGED <<main, signal, cancelled, pool, work, refresher>>
      BY <2>7 DEF PublisherStep, budgetVars
    <3>2. CASE publisher' = "done"
      BY <3>1, <3>2, PromiseOthersFinish
    <3>3. CASE publisher' # "done"
      BY <3>1, <3>3, PromiseStutters
    <3> QED
      BY <3>2, <3>3
  <2>8. CASE WorkerMain
    <3>1. CASE HaltIntake \/ ReceiveDeadline
      <4>1. /\ main # "exited" /\ main' # "exited"
            /\ UNCHANGED <<signal, cancelled, pool, work, refresher, publisher>>
        BY <3>1 DEF HaltIntake, ReceiveDeadline
      <4> QED
        BY <4>1, PromiseStutters
    <3>2. CASE JoinActive(ActiveDone) /\ UNCHANGED workerVars
      <4>1. /\ main # "exited" /\ main' # "exited"
            /\ UNCHANGED <<signal, cancelled, pool, work, refresher, publisher>>
        BY <3>2 DEF JoinActive, workerVars
      <4> QED
        BY <4>1, PromiseStutters
    <3>3. CASE EndIntake
      BY <3>3, PromiseDrains DEF EndIntake
    <3>4. CASE DrainWork
      BY <1>1, <3>4, PromiseCancels DEF DrainWork
    <3>5. CASE /\ BeginClose /\ conn' = "closed"
               /\ UNCHANGED <<channel, limit, intake, deliveries, publisher, listener>>
      BY <1>1, <3>5, PromiseCloses
    <3> QED
      BY <2>8, <3>1, <3>2, <3>3, <3>4, <3>5 DEF WorkerMain
  <2>9. CASE CloseDatabase /\ UNCHANGED workerVars
    BY <1>1, <2>9, PromiseStops DEF workerVars
  <2> QED
    BY <1>1, <2>1, <2>2, <2>3, <2>4, <2>5, <2>6, <2>7, <2>8, <2>9 DEF WorkerNext
<1>2. CASE process = "server" /\ ServerNext /\ UNCHANGED <<workerVars, process>>
  <2>1. CASE Signal
    BY <1>2, <2>1, PromiseDrains DEF Signal, workerVars
  <2>2. CASE Tick(ServerWaits)
    BY <1>2, <2>2, PromiseStutters DEF Tick, workerVars
  <2>3. CASE RefresherStops(signal)
    BY <1>2, <2>3, PromiseOthersFinish DEF RefresherStops, workerVars
  <2>4. ASSUME NEW r \in Work, Accept(r) \/ ServeHTTP(r) \/ Drop(r) \/ Finish(r)
        PROVE  [Promise!Next]_(Promise!vars)
    <3>1. CASE Accept(r) \/ Drop(r)
      <4>1. {u \in Work : work'[u] = "busy"} = {u \in Work : work[u] = "busy"}
        BY <3>1 DEF Accept, Drop, StopInv, TypeOK, BudgetTypeOK
      <4>2. /\ main # "exited"
            /\ UNCHANGED <<main, signal, cancelled, pool, refresher, publisher>>
        BY <1>2, <3>1 DEF Accept, Drop, workerVars
      <4> QED
        BY <4>1, <4>2, PromiseStutters
    <3>2. CASE ServeHTTP(r)
      BY <1>2, <3>2, PromiseTaken
    <3>3. CASE Finish(r)
      BY <1>2, <3>3, PromiseFinished
    <3> QED
      BY <2>4, <3>1, <3>2, <3>3
  <2>5. CASE BeginShutdown \/ JoinActive(RequestsDone)
    <3>1. /\ main # "exited" /\ main' # "exited"
          /\ UNCHANGED <<signal, cancelled, pool, work, refresher, publisher>>
      BY <1>2, <2>5 DEF BeginShutdown, JoinActive, workerVars
    <3> QED
      BY <3>1, PromiseStutters
  <2>6. CASE DrainRequests
    BY <1>2, <2>6, PromiseCancels
  <2>7. CASE BeginClose
    BY <1>2, <2>7, PromiseCloses DEF workerVars
  <2>8. CASE CloseDatabase
    BY <1>2, <2>8, PromiseStops DEF workerVars
  <2> QED
    BY <1>2, <2>1, <2>2, <2>3, <2>4, <2>5, <2>6, <2>7, <2>8 DEF ServerNext, ServerMain
<1>3. CASE UNCHANGED vars
  BY <1>3 DEF vars, budgetVars, workerVars, Stage, Using, Promise!vars
<1> QED
  BY <1>1, <1>2, <1>3 DEF Next

\* Both processes implement GracefulStop: whatever interleaves, no work is taken
\* up after the cancellation, and the database connections are closed only when
\* no handler, publisher or refresher can use them.
THEOREM StopIsGraceful == Spec => ImplementsStop
<1>1. Init => Promise!Init
  BY InitKeepsPromise
<1>2. StopInv /\ [Next]_vars => [Promise!Next]_(Promise!vars)
  BY StepKeepsPromise
<1> QED
  BY <1>1, <1>2, StopInvariant, PTL DEF Spec, ImplementsStop, Promise!Spec
=============================================================================
