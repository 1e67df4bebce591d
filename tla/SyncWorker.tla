----------------------------- MODULE SyncWorker -----------------------------
(***************************************************************************)
(* The whole way of a revocation event, from the outbox row the Auth       *)
(* Provider commits to the local sessions of the relying applications: the *)
(* outbox publisher and the delivery worker run in one process, the sync   *)
(* worker of sync-worker/main.go, which may crash, may be told to shut     *)
(* down, and is restarted by docker compose (restart: unless-stopped).     *)
(*                                                                         *)
(* `faults` counts what goes wrong outside an application: a publication   *)
(* or a statement that fails, an answer to the broker that is lost, a      *)
(* crash, a shutdown.  MaxFaults bounds it; an application may refuse      *)
(* every POST, which the retry budget bounds by itself.                    *)
(***************************************************************************)
EXTENDS OutboxPublisher, DeliveryWorker, RetryBackoff

CONSTANT MaxFaults

ASSUME MaxFaultsAssumption == MaxFaults \in Nat

VARIABLES
  phase,     \* of the process: see Phases
  faults

processVars == <<phase, faults>>
vars == <<brokerVars, outboxVars, workerVars, processVars>>

\* "draining": the signal stopped the intake, work goes on;
\* "cancelled": the drain window is over and workCtx is cancelled.
Phases == {"up", "draining", "cancelled", "down"}

TypeOK ==
  /\ BrokerTypeOK
  /\ OutboxTypeOK
  /\ WorkerTypeOK
  /\ phase \in Phases
  /\ faults \in 0 .. MaxFaults

Init ==
  /\ BrokerInit
  /\ OutboxInit
  /\ WorkerInit
  /\ phase = "up"
  /\ faults = 0

Fault    == faults < MaxFaults /\ faults' = faults + 1 /\ UNCHANGED phase
NoFault  == UNCHANGED processVars
Running  == phase # "down"
CtxDone  == phase = "cancelled"
CtxAlive == phase \in {"up", "draining"}

-----------------------------------------------------------------------------
(* The Auth Provider's database and the publisher goroutine.               *)

ProviderStep ==
  /\ \/ \E e \in Events : CommitEvent(e) /\ UNCHANGED workerVars
     \/ \E e \in Events, a \in Apps :
          TokenRecorded(e, a) /\ UNCHANGED outboxVars
  /\ NoFault

\* The final drain works under the shutdown deadline, not under workCtx: rows
\* are still published after the work of the handlers is cancelled.
PublisherStep ==
  /\ Running
  /\ \/ ListUnpublished
     \/ \E e \in Events : PublishConfirmed(e)
     \/ MarkPublished
  /\ UNCHANGED workerVars
  /\ NoFault

PublisherFault ==
  /\ Running
  /\ \/ \E e \in Events : PublishFails(e)
     \/ MarkPublishedFails
  /\ UNCHANGED workerVars
  /\ Fault

-----------------------------------------------------------------------------
(* The consumer loop and its handlers.                                     *)

\* runConsumerLoop takes deliveries until the shutdown signal.
Take(e) ==
  /\ phase = "up"
  /\ \E h \in Handlers : \/ StartDelivery(h, e)
                         \/ RejectUnresolvable(h, e)
                         \/ AckWithoutTargets(h, e)
  /\ UNCHANGED outboxVars
  /\ NoFault

TargetStep(h, a) ==
  /\ Running
  /\ \/ CtxAlive /\ Begin(h, a)
     \/ CtxAlive /\ PostSucceeds(h, a)
     \/ PostFails(h, a, CtxDone)
     \/ CtxAlive /\ Mark(h, a)
     \/ CtxDone /\ StoreFails(h, a)
  /\ UNCHANGED outboxVars
  /\ NoFault

Answer(h) ==
  /\ Running
  /\ NackRequeue(h) \/ NackDeadLetter(h) \/ Ack(h)
  /\ UNCHANGED outboxVars
  /\ NoFault

WorkerFault ==
  /\ Running
  /\ \E h \in Handlers : \/ \E a \in Apps : CtxAlive /\ StoreFails(h, a)
                         \/ AnswerLost(h)
  /\ UNCHANGED outboxVars
  /\ Fault

AppStep ==
  /\ \E e \in Events, a \in Apps : LateArrival(e, a)
  /\ UNCHANGED outboxVars
  /\ NoFault

-----------------------------------------------------------------------------
(* The process.                                                            *)

\* SIGTERM: intake stops, the publisher and the handlers go on.
Signal ==
  /\ phase = "up" /\ faults < MaxFaults
  /\ phase' = "draining" /\ faults' = faults + 1
  /\ UNCHANGED <<brokerVars, outboxVars, workerVars>>

\* drainWork's window is over.
CancelWork ==
  /\ phase = "draining"
  /\ phase' = "cancelled"
  /\ UNCHANGED <<faults, brokerVars, outboxVars, workerVars>>

\* The connection is closed and the process exits, whether or not joinActive
\* saw every handler return; a publication under way is a Crash.
Exit ==
  /\ phase = "cancelled" /\ marking = NoEvent
  /\ phase' = "down"
  /\ PublisherLost
  /\ WorkerLost
  /\ UNCHANGED faults

Crash ==
  /\ Running /\ faults < MaxFaults
  /\ phase' = "down" /\ faults' = faults + 1
  /\ PublisherLost
  /\ WorkerLost

Restart ==
  /\ phase = "down"
  /\ phase' = "up"
  /\ UNCHANGED <<faults, brokerVars, outboxVars, workerVars>>

Next ==
  \/ ProviderStep
  \/ PublisherStep
  \/ PublisherFault
  \/ \E e \in Events : Take(e)
  \/ \E h \in Handlers, a \in Apps : TargetStep(h, a)
  \/ \E h \in Handlers : Answer(h)
  \/ WorkerFault
  \/ AppStep
  \/ Signal
  \/ CancelWork
  \/ Exit
  \/ Crash
  \/ Restart

Spec == Init /\ [][Next]_vars

\* The goroutines of a running process go on: the publisher's ticker fires,
\* the consumer loop takes what the broker offers, every call returns (each
\* has a timeout), the drain window closes, and compose restarts the process.
\* Nothing is assumed of the Auth Provider's users, of requests the worker has
\* given up on, or of faults; a POST may fail every time.
Fairness ==
  /\ WF_vars(PublisherStep)
  /\ \A e \in Events : WF_vars(Take(e))
  /\ \A h \in Handlers : WF_vars(Answer(h))
  /\ \A h \in Handlers, a \in Apps : WF_vars(TargetStep(h, a))
  /\ WF_vars(CancelWork)
  /\ WF_vars(Exit)
  /\ WF_vars(Restart)

FairSpec == Spec /\ Fairness

-----------------------------------------------------------------------------
(* Properties.                                                             *)

Closed(e) == \E T \in SUBSET Apps : <<e, T>> \in settled

\* HandleDelivery acks a delivery only when every application among its
\* targets has carried out the revocation, whatever copies of the event,
\* lost answers, crashes and retries came between.
AckMeansApplied ==
  \A s \in settled : \A a \in s[2] : s[1] \in processed[a]

\* An event the publisher has marked (or is about to mark) published is never
\* lost: a copy of it waits in the main queue, is being handled, was acked, or
\* lies in the dead-letter queue.
NoEventLost ==
  \A e \in Events :
    outbox[e] = "published" \/ marking = e =>
      ready[e] > 0 \/ Held(e) # {} \/ dead[e] > 0 \/ Closed(e)

\* An application carries out an event's revocation at most once: concurrent
\* copies, retries after a lost answer and late requests do not revoke again.
AppliedOnce == \A e \in Events, a \in Apps : applied[e][a] <= 1

\* An event is dead-lettered only when its targets cannot be resolved or one
\* of them has used up its retries: never for an error of the worker itself.
DeadLetterEarned ==
  \A e \in Events :
    dead[e] > 0 =>
      Unresolvable(e) \/ \E a \in linked[e] : attempts[e][a] >= MaxRetries

\* The publisher duplicates an event at most once per fault; in particular
\* without a fault every event is published exactly once.
SentWithinFaults == \A e \in Events : sent[e] <= 1 + faults

\* Every copy the broker took is in one place at most: requeues, crashes and
\* dead-lettering never multiply a message.
CopiesConserved ==
  \A e \in Events : ready[e] + Cardinality(Held(e)) + dead[e] <= sent[e]

\* Unless an event was published twice, a delivery row that has reached a
\* terminal status keeps it, across errors, crashes and redeliveries.
TerminalKept ==
  [][\A e \in Events, a \in Apps :
       sent[e] <= 1 /\ status[e][a] \in Terminal
         => status'[e][a] = status[e][a]]_vars

\* The retry budget outlives the process: unless an event was published twice,
\* a fault costs at most one attempt more, however many deliveries were under
\* way at the crash, and without faults an application is tried at most
\* MaxRetries times (store.go, BeginDelivery; worker.go, deliverTarget).
RetryBudget ==
  \A e \in Events, a \in Apps :
    sent[e] <= 1 => attempts[e][a] <= MaxRetries + faults

\* Whatever durations the worker is started with, no doubling overflows into a
\* negative wait, which would let the retries run without a pause: the wait is
\* that of Reference (worker.go, backoffFor).  They are read once, at the start.
BackoffIsCapped ==
  Init => \A attempt \in 0 .. Largest, base, max \in Durations :
            BackoffFor(attempt, base, max) = Reference(attempt, base, max)

\* Every committed event is eventually applied by each application that had
\* a token of its session before the event was published, or dead-lettered.
EventReachesApps ==
  \A e \in Events, a \in Apps :
    outbox[e] = "unpublished" /\ sent[e] = 0 /\ a \in linked[e]
      ~> e \in processed[a] \/ dead[e] > 0

\* The main queue empties for good: no message is requeued forever.
QueueEmpties == <>[](\A e \in Events : ready[e] = 0 /\ Held(e) = {})

-----------------------------------------------------------------------------
(* The inductive invariant behind the safety properties above.             *)

\* A goroutine that exists works on the delivery its handler holds, for one
\* of the applications the event is linked to.
GoroutinesOwned ==
  \A h \in Handlers, a \in Apps :
    pc[h][a] # "none" => delivery[h] # NoEvent /\ a \in linked[delivery[h]]

\* Whoever believes that an application has applied an event is right: the
\* row, a goroutine past its POST, and an acknowledgement.
SuccessIsReal ==
  /\ \A e \in Events, a \in Apps :
       status[e][a] = "succeeded" => e \in processed[a]
  /\ \A h \in Handlers, a \in Apps :
       pc[h][a] \in {"markSucceeded", "ok"} => delivery[h] \in processed[a]
  /\ AckMeansApplied

\* The revocation and its processed_events row commit together.
AppliedWithRow ==
  \A e \in Events, a \in Apps :
    applied[e][a] = IF e \in processed[a] THEN 1 ELSE 0

\* Whoever gives an event up for an application has used the retry budget.
GivenUpIsEarned ==
  /\ \A e \in Events, a \in Apps :
       status[e][a] = "failed" => attempts[e][a] >= MaxRetries
  /\ \A h \in Handlers, a \in Apps :
       pc[h][a] \in {"postLast", "markFailed", "failed"} =>
         attempts[delivery[h]][a] >= MaxRetries
  /\ DeadLetterEarned

\* A row was sent once per fault that hit it, plus once if it is published or
\* about to be; a batch holds unpublished rows only.
SendsAccounted ==
  /\ marking # NoEvent => outbox[marking] = "unpublished" /\ marking \notin batch
  /\ \A e \in batch : outbox[e] = "unpublished"
  /\ \A e \in Events :
       /\ outbox[e] = "absent" => sent[e] = 0
       /\ outbox[e] = "unpublished" /\ marking # e => sent[e] <= faults
  /\ SentWithinFaults

\* While one copy of an event went out, the goroutine that claimed a row owns
\* it until its mark: nobody else writes another status over "processing".
ClaimKept ==
  \A h \in Handlers, a \in Apps :
    pc[h][a] \in Posting \cup Marking /\ sent[delivery[h]] <= 1
      => status[delivery[h]][a] = "processing"

\* An event that was put back into the main queue, or will be, by a fault that
\* is already counted: its next delivery may need the attempt this allows.
PutBack(e) ==
  \/ phase # "up"
  \/ ready[e] > 0
  \/ \E h \in Handlers : delivery[h] = e /\ Ended(h, "error")

AttemptLimit(e) == MaxRetries + faults - (IF PutBack(e) THEN 1 ELSE 0)

\* As long as nothing fails no goroutine ends in an error; an event that was
\* never sent has not been tried, and while one copy of it went out, whoever
\* will try again has a try left.
TriesLeft ==
  /\ faults = 0 =>
       phase = "up" /\ \A h \in Handlers, a \in Apps : pc[h][a] # "error"
  /\ \A e \in Events, a \in Apps : sent[e] = 0 => attempts[e][a] = 0
  /\ \A e \in Events, a \in Apps : sent[e] <= 1 => attempts[e][a] <= AttemptLimit(e)
  /\ \A h \in Handlers, e \in Events, a \in Apps :
       delivery[h] = e /\ sent[e] <= 1 =>
         /\ pc[h][a] = "begin" => attempts[e][a] < AttemptLimit(e)
         /\ pc[h][a] \in {"post", "markRetrying"} => attempts[e][a] < MaxRetries

\* Only committed events are on their way to an application.
LateIsRecorded == \A x \in late : outbox[x[1]] # "absent"

DeliveryInv ==
  /\ TypeOK
  /\ GoroutinesOwned
  /\ SuccessIsReal
  /\ AppliedWithRow
  /\ GivenUpIsEarned
  /\ SendsAccounted
  /\ NoEventLost
  /\ CopiesConserved
  /\ ClaimKept
  /\ TriesLeft
  /\ LateIsRecorded

-----------------------------------------------------------------------------
(* The sync worker implements RevocationDelivery.                          *)

Promise == INSTANCE RevocationDelivery WITH
  recorded <- {e \in Events : outbox[e] # "absent"},
  closed   <- settled,
  buried   <- {e \in Events : dead[e] > 0}

\* Each step of publisher, broker, worker and applications is a step the
\* abstract promise allows, or does not concern it.
KeepsPromise == Promise!Spec

\* The promise's liveness: no committed event stays unresolved.
EventuallyResolved == Promise!EventuallyResolved
=============================================================================
