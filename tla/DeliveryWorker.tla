--------------------------- MODULE DeliveryWorker ---------------------------
(***************************************************************************)
(* The consuming half of the sync worker: Worker.HandleDelivery, one run   *)
(* per unacked delivery, its deliverTarget goroutines, one per target, and *)
(* the event_deliveries rows they share; together with the receiving end,  *)
(* ProcessRevocation of a relying application.                             *)
(*                                                                         *)
(* A goroutine's loop is cut at its calls: BeginDelivery (a transaction),  *)
(* the POST, and the Mark statement.  Between them every other goroutine,  *)
(* one working on another copy of the same event included, may run.        *)
(***************************************************************************)
EXTENDS Broker, FiniteSets

CONSTANTS
  PolicyEvents, \* the AccessPolicyChanged events; the others name a session
  Apps,         \* active relying applications
  Configured,   \* those with a usable entry in APP_TARGETS_JSON
  Handlers,     \* concurrent HandleDelivery runs (ConsumerPrefetch slots)
  MaxRetries    \* attempts allowed per event and application

ASSUME PolicyEventsAssumption == PolicyEvents \subseteq Events
ASSUME ConfiguredAssumption == Configured \subseteq Apps
ASSUME HandlersAssumption == IsFiniteSet(Handlers)
ASSUME MaxRetriesAssumption == MaxRetries \in Nat \ {0}

VARIABLES
  delivery,   \* delivery[h]: the unacked event h handles, or NoEvent
  pc,         \* pc[h][a]: where h's goroutine for target a stands
  status,     \* status[e][a], attempts[e][a]: the event_deliveries row
  attempts,
  linked,     \* linked[e]: the applications ResolveTargets finds for e
  processed,  \* processed[a]: events in a's processed_events table
  applied,    \* history: how often a applied e's revocation
  late,       \* <<e, a>>: a POST the worker gave up on, still on its way
  settled     \* history: <<e, T>>: a copy of e was acked, its targets being T

\* `applied` and `settled`, like the broker's `sent`, are histories: no guard
\* reads them.
handlerVars == <<delivery, pc>>
rowVars     == <<status, attempts>>
appVars     == <<processed, applied>>
workerVars  == <<handlerVars, rowVars, appVars, linked, late, settled>>

Terminal == {"succeeded", "failed"}
Statuses == {"none", "processing", "retrying"} \cup Terminal

Posting == {"post", "postLast"}
Done    == {"ok", "failed", "error"}
PCs     == {"none", "begin", "markSucceeded", "markRetrying", "markFailed"}
             \cup Posting \cup Done

WorkerTypeOK ==
  /\ delivery  \in [Handlers -> Events \cup {NoEvent}]
  /\ pc        \in [Handlers -> [Apps -> PCs]]
  /\ status    \in [Events -> [Apps -> Statuses]]
  /\ attempts  \in [Events -> [Apps -> Nat]]
  /\ linked    \in [Events -> SUBSET Apps]
  /\ processed \in [Apps -> SUBSET Events]
  /\ applied   \in [Events -> [Apps -> Nat]]
  /\ late      \in SUBSET (Events \X Apps)
  /\ settled   \in SUBSET (Events \X SUBSET Apps)

Idle == [a \in Apps |-> "none"]

\* A policy event names one application, found while that one is active.
InitialPolicyTargets == {{}} \cup {{a} : a \in Apps}

WorkerInit ==
  /\ delivery  = [h \in Handlers |-> NoEvent]
  /\ pc        = [h \in Handlers |-> Idle]
  /\ status    = [e \in Events |-> [a \in Apps |-> "none"]]
  /\ attempts  = [e \in Events |-> [a \in Apps |-> 0]]
  /\ linked    \in [Events -> SUBSET Apps]
  /\ \A e \in PolicyEvents : linked[e] \in InitialPolicyTargets
  /\ processed = [a \in Apps |-> {}]
  /\ applied   = [e \in Events |-> [a \in Apps |-> 0]]
  /\ late      = {}
  /\ settled   = {}

-----------------------------------------------------------------------------
(* The relying application.                                                *)

\* Faulty variant (AppliedOnce): the unique constraint's answer is ignored.
ProcessRevocation_Unconditional(e, a) ==
  /\ processed' = [processed EXCEPT ![a] = @ \cup {e}]
  /\ applied' = [applied EXCEPT ![e][a] = @ + 1]

\* One transaction: the processed_events insert and, when it inserted, the
\* revocation of the local sessions the event names.
ProcessRevocation(e, a) ==
  /\ processed' = [processed EXCEPT ![a] = @ \cup {e}]
  /\ applied' = IF e \in processed[a] THEN applied
                ELSE [applied EXCEPT ![e][a] = @ + 1]

\* A POST whose sender no longer waits reaches the application.
LateArrival(e, a) ==
  /\ <<e, a>> \in late
  /\ late' = late \ {<<e, a>>}
  /\ ProcessRevocation(e, a)
  /\ UNCHANGED <<handlerVars, rowVars, linked, settled, brokerVars>>

\* /token, racing the revocation, records one more access token of the
\* event's session: ResolveTargets will find application a as well.
TokenRecorded(e, a) ==
  /\ e \notin PolicyEvents /\ a \notin linked[e]
  /\ linked' = [linked EXCEPT ![e] = @ \cup {a}]
  /\ UNCHANGED <<handlerVars, rowVars, appVars, late, settled, brokerVars>>

-----------------------------------------------------------------------------
(* HandleDelivery: target resolution.                                      *)

Free(h) == delivery[h] = NoEvent

\* ErrTargetConfiguration: an active application among the targets has no
\* credentials, or the application a policy event names is not active.
Unresolvable(e) ==
  \/ ~ linked[e] \subseteq Configured
  \/ e \in PolicyEvents /\ linked[e] = {}

\* Targets resolved: one goroutine per target starts.
StartDelivery(h, e) ==
  /\ Free(h)
  /\ ~ Unresolvable(e) /\ linked[e] # {}
  /\ Hand(e)
  /\ delivery' = [delivery EXCEPT ![h] = e]
  /\ pc' = [pc EXCEPT ![h] = [a \in Apps |->
                IF a \in linked[e] THEN "begin" ELSE "none"]]
  /\ UNCHANGED <<rowVars, appVars, linked, late, settled>>

\* The whole event is dead-lettered, its configured targets included.
RejectUnresolvable(h, e) ==
  /\ Free(h)
  /\ Unresolvable(e)
  /\ ready[e] > 0
  /\ ready' = [ready EXCEPT ![e] = @ - 1]
  /\ dead'  = [dead EXCEPT ![e] = @ + 1]
  /\ UNCHANGED <<sent, workerVars>>

\* No target: acked at once.
AckWithoutTargets(h, e) ==
  /\ Free(h)
  /\ ~ Unresolvable(e) /\ linked[e] = {}
  /\ Hand(e)
  /\ settled' = settled \cup {<<e, {}>>}
  /\ UNCHANGED <<handlerVars, rowVars, appVars, linked, late>>

-----------------------------------------------------------------------------
(* deliverTarget: the loop of one goroutine.  ctxDone says that the work   *)
(* context is cancelled.                                                   *)

Goto(h, a, label) == pc' = [pc EXCEPT ![h][a] = label]

\* Faulty variant (TerminalKept): a row is claimed whatever its status.
Claimable_Always(st) == TRUE

\* BeginDelivery claims a row for one more attempt unless it is terminal; a
\* row another goroutine is processing is claimed as well.
Claimable(st) == st \notin Terminal

\* Faulty variant (KeepsPromise): an exhausted row counts as delivered.
SeenOutcome_FailedIsOk(st) == "ok"

\* How a goroutine ends that finds its row terminal.
SeenOutcome(st) == IF st = "succeeded" THEN "ok" ELSE "failed"

\* Faulty variant (RetryBudget): one attempt too many.
PostLabel_OffByOne(n) == IF n > MaxRetries THEN "postLast" ELSE "post"

\* Faulty variant (RetryBudget): an attempt beyond the budget, of a row taken
\* over after a crash, is not the last.
PostLabel_Exact(n) == IF n = MaxRetries THEN "postLast" ELSE "post"

\* The POST of attempt n: the last one the retry budget allows, or not.
PostLabel(n) == IF n >= MaxRetries THEN "postLast" ELSE "post"

\* BeginDelivery's transaction commits.
Begin(h, a) ==
  LET e == delivery[h] IN
  /\ pc[h][a] = "begin"
  /\ \/ /\ ~ Claimable(status[e][a])
        /\ Goto(h, a, SeenOutcome(status[e][a]))
        /\ UNCHANGED rowVars
     \/ /\ Claimable(status[e][a])
        /\ status'   = [status EXCEPT ![e][a] = "processing"]
        /\ attempts' = [attempts EXCEPT ![e][a] = @ + 1]
        /\ Goto(h, a, PostLabel(attempts[e][a] + 1))
  /\ UNCHANGED <<delivery, appVars, linked, late, settled, brokerVars>>

\* Where a failed POST leads.
AfterFailedPost(label, ctxDone) ==
  IF ctxDone THEN "error"
  ELSE IF label = "postLast" THEN "markFailed" ELSE "markRetrying"

\* The application processed the event and its 2xx arrived.
PostSucceeds(h, a) ==
  /\ pc[h][a] \in Posting
  /\ ProcessRevocation(delivery[h], a)
  /\ Goto(h, a, "markSucceeded")
  /\ UNCHANGED <<delivery, rowVars, linked, late, settled, brokerVars>>

\* No 2xx arrived: the application did not get the request or refused it, it
\* processed it and the answer was lost, or the request is still on its way.
PostFails(h, a, ctxDone) ==
  LET e == delivery[h] IN
  /\ pc[h][a] \in Posting
  /\ Goto(h, a, AfterFailedPost(pc[h][a], ctxDone))
  /\ \/ UNCHANGED <<appVars, late>>
     \/ ProcessRevocation(e, a) /\ UNCHANGED late
     \/ late' = late \cup {<<e, a>>} /\ UNCHANGED appVars
  /\ UNCHANGED <<delivery, rowVars, linked, settled, brokerVars>>

\* The status each Mark statement writes, and where its goroutine goes next.
Marking == {"markSucceeded", "markRetrying", "markFailed"}
MarkedStatus(label) ==
  CASE label = "markSucceeded" -> "succeeded"
    [] label = "markRetrying"  -> "retrying"
    [] label = "markFailed"    -> "failed"
AfterMark(label) ==
  CASE label = "markSucceeded" -> "ok"
    [] label = "markRetrying"  -> "begin"       \* once the backoff is over
    [] label = "markFailed"    -> "failed"

\* The UPDATE names the row only: it overwrites whatever status is there.
WriteStatus(h, a) ==
  status' = [status EXCEPT ![delivery[h]][a] = MarkedStatus(pc[h][a])]

Mark(h, a) ==
  /\ pc[h][a] \in Marking
  /\ WriteStatus(h, a)
  /\ Goto(h, a, AfterMark(pc[h][a]))
  /\ UNCHANGED <<delivery, attempts, appVars, linked, late, settled,
                 brokerVars>>

\* BeginDelivery, a Mark statement or the backoff wait returns an error; a
\* statement may have taken effect all the same.
StoreFails(h, a) ==
  /\ pc[h][a] \in {"begin"} \cup Marking
  /\ Goto(h, a, "error")
  /\ \/ UNCHANGED status
     \/ pc[h][a] \in Marking /\ WriteStatus(h, a)
  /\ UNCHANGED <<delivery, attempts, appVars, linked, late, settled,
                 brokerVars>>

-----------------------------------------------------------------------------
(* HandleDelivery: every goroutine has returned.                           *)

Targets(h) == {a \in Apps : pc[h][a] # "none"}

Finished(h) ==
  /\ delivery[h] # NoEvent
  /\ \A a \in Targets(h) : pc[h][a] \in Done

Ended(h, label) == \E a \in Targets(h) : pc[h][a] = label

\* Faulty variant (AckMeansApplied): exhausted targets do not keep the ack.
Verdict_IgnoresFailed(h) == IF Ended(h, "error") THEN "requeue" ELSE "ack"

\* Faulty variant (EventReachesApps): a transient error does not keep the ack.
Verdict_IgnoresError(h) == IF Ended(h, "failed") THEN "deadLetter" ELSE "ack"

\* Faulty variant (DeadLetterEarned): transient errors are not requeued.
Verdict_NeverRequeues(h) ==
  IF Ended(h, "error") \/ Ended(h, "failed") THEN "deadLetter" ELSE "ack"

\* Faulty variant (QueueEmpties): exhausted deliveries are requeued.
Verdict_NeverDeadLetters(h) ==
  IF Ended(h, "error") \/ Ended(h, "failed") THEN "requeue" ELSE "ack"

\* A transient error of any target requeues; an exhausted target dead-letters.
Verdict(h) == IF Ended(h, "error") THEN "requeue"
              ELSE IF Ended(h, "failed") THEN "deadLetter" ELSE "ack"

Release(h) ==
  /\ delivery' = [delivery EXCEPT ![h] = NoEvent]
  /\ pc' = [pc EXCEPT ![h] = Idle]
  /\ UNCHANGED <<rowVars, appVars, linked, late>>

NackRequeue(h) ==
  /\ Finished(h) /\ Verdict(h) = "requeue"
  /\ Requeue(delivery[h])
  /\ Release(h)
  /\ UNCHANGED settled

NackDeadLetter(h) ==
  /\ Finished(h) /\ Verdict(h) = "deadLetter"
  /\ DeadLetter(delivery[h])
  /\ Release(h)
  /\ UNCHANGED settled

Ack(h) ==
  /\ Finished(h) /\ Verdict(h) = "ack"
  /\ Drop
  /\ settled' = settled \cup {<<delivery[h], Targets(h)>>}
  /\ Release(h)

\* The ack or nack does not reach the broker, which hands the copy out again
\* once the channel is closed.
AnswerLost(h) ==
  /\ Finished(h)
  /\ Requeue(delivery[h])
  /\ Release(h)
  /\ UNCHANGED settled

\* The process ends: every unacked copy is redelivered, requests under way
\* may still arrive.
Held(e) == {h \in Handlers : delivery[h] = e}
InFlight ==
  {x \in Events \X Apps :
     \E h \in Handlers : delivery[h] = x[1] /\ pc[h][x[2]] \in Posting}

WorkerLost ==
  /\ ready' = [e \in Events |-> ready[e] + Cardinality(Held(e))]
  /\ delivery' = [h \in Handlers |-> NoEvent]
  /\ pc' = [h \in Handlers |-> Idle]
  /\ \E L \in SUBSET InFlight : late' = late \cup L
  /\ UNCHANGED <<dead, sent, rowVars, appVars, linked, settled>>
=============================================================================
