--------------------------- MODULE SyncWorkerProofs --------------------------
(***************************************************************************)
(* Theorems about the sync worker, for every number of events,             *)
(* applications and handlers, every retry budget and every number of       *)
(* faults.                                                                 *)
(***************************************************************************)
EXTENDS SyncWorker, FiniteSetTheorems, WellFoundedInduction, TLAPS

USE DEF Events, NoEvent

\* The copies of an event that are being handled are finitely many.
LEMMA HeldFinite ==
  ASSUME NEW e \in Events
  PROVE  IsFiniteSet(Held(e)) /\ Cardinality(Held(e)) \in Nat
<1>1. Held(e) \subseteq Handlers
  BY DEF Held
<1>2. IsFiniteSet(Held(e))
  BY <1>1, HandlersAssumption, FS_Subset
<1>3. QED
  BY <1>2, FS_CardinalityType

-----------------------------------------------------------------------------
(* The steps of the specification, grouped by who takes them.              *)

TargetOp(h, a) ==
  \/ Begin(h, a) \/ PostSucceeds(h, a) \/ Mark(h, a) \/ StoreFails(h, a)
  \/ \E ctxDone \in BOOLEAN : PostFails(h, a, ctxDone)

AnswerOp(h) == NackRequeue(h) \/ NackDeadLetter(h) \/ Ack(h) \/ AnswerLost(h)

TakeOp(h, e) ==
  StartDelivery(h, e) \/ RejectUnresolvable(h, e) \/ AckWithoutTargets(h, e)

WorkerOp ==
  \/ \E h \in Handlers, a \in Apps : TargetOp(h, a)
  \/ \E h \in Handlers : AnswerOp(h)
  \/ \E h \in Handlers, e \in Events : TakeOp(h, e)
  \/ \E e \in Events, a \in Apps : LateArrival(e, a) \/ TokenRecorded(e, a)

PublisherOp ==
  \/ \E e \in Events : CommitEvent(e) \/ PublishConfirmed(e)
  \/ ListUnpublished \/ MarkPublished

PublisherFailure == (\E e \in Events : PublishFails(e)) \/ MarkPublishedFails

\* A step is one of a component, with the other component's variables
\* unchanged; a failed publication or mark is a fault.
LEMMA StepCases ==
  ASSUME TypeOK, [Next]_vars
  PROVE  /\ phase' \in Phases /\ faults' \in 0 .. MaxFaults /\ faults <= faults'
         /\ \/ PublisherOp /\ UNCHANGED workerVars
            \/ PublisherFailure /\ faults' = faults + 1 /\ UNCHANGED workerVars
            \/ WorkerOp /\ UNCHANGED outboxVars
            \/ PublisherLost /\ WorkerLost /\ (faults' = faults + 1 \/ marking = NoEvent)
            \/ UNCHANGED <<brokerVars, outboxVars, workerVars>>
<1> USE MaxFaultsAssumption DEF TypeOK, processVars
<1>1. CASE ProviderStep
  BY <1>1 DEF ProviderStep, NoFault, PublisherOp, WorkerOp
<1>2. CASE PublisherStep
  BY <1>2 DEF PublisherStep, NoFault, PublisherOp
<1>3. CASE PublisherFault
  BY <1>3 DEF PublisherFault, Fault, PublisherFailure
<1>4. ASSUME NEW e \in Events, Take(e) PROVE WorkerOp /\ UNCHANGED outboxVars
  BY <1>4 DEF Take, NoFault, WorkerOp, TakeOp
<1>5. ASSUME NEW h \in Handlers, NEW a \in Apps, TargetStep(h, a)
      PROVE  WorkerOp /\ UNCHANGED outboxVars
  BY <1>5 DEF TargetStep, NoFault, WorkerOp, TargetOp, CtxDone
<1>6. ASSUME NEW h \in Handlers, Answer(h) PROVE WorkerOp /\ UNCHANGED outboxVars
  BY <1>6 DEF Answer, NoFault, WorkerOp, AnswerOp
<1>7. CASE WorkerFault
  BY <1>7 DEF WorkerFault, Fault, WorkerOp, TargetOp, AnswerOp
<1>8. CASE AppStep
  BY <1>8 DEF AppStep, NoFault, WorkerOp
<1>9. CASE Signal \/ CancelWork \/ Restart
  BY <1>9 DEF Signal, CancelWork, Restart, Phases
<1>10. CASE Exit \/ Crash
  BY <1>10 DEF Exit, Crash, Phases
<1>11. CASE UNCHANGED vars
  BY <1>11 DEF vars
<1>12. ASSUME (\E e \in Events : Take(e))
              \/ (\E h \in Handlers, a \in Apps : TargetStep(h, a))
              \/ (\E h \in Handlers : Answer(h))
       PROVE  UNCHANGED processVars
  BY <1>12 DEF Take, TargetStep, Answer, NoFault
<1>13. QED
  BY <1>1, <1>2, <1>3, <1>4, <1>5, <1>6, <1>7, <1>8, <1>9, <1>10, <1>11, <1>12
     DEF Next

-----------------------------------------------------------------------------
(* Types.                                                                  *)

\* Each component's typing is untouched by a step that leaves its variables alone.
LEMMA UnchangedTypes ==
  /\ BrokerTypeOK /\ UNCHANGED brokerVars => BrokerTypeOK'
  /\ OutboxTypeOK /\ UNCHANGED outboxVars => OutboxTypeOK'
  /\ WorkerTypeOK /\ UNCHANGED workerVars => WorkerTypeOK'
<1>1. BrokerTypeOK /\ UNCHANGED brokerVars => BrokerTypeOK'
  BY DEF BrokerTypeOK, brokerVars
<1>2. OutboxTypeOK /\ UNCHANGED outboxVars => OutboxTypeOK'
  BY DEF OutboxTypeOK, outboxVars
<1>3. WorkerTypeOK /\ UNCHANGED workerVars => WorkerTypeOK'
  BY DEF WorkerTypeOK, workerVars, handlerVars, rowVars, appVars
<1>4. QED
  BY <1>1, <1>2, <1>3

\* What the broker's operations keep.
LEMMA BrokerTypes ==
  ASSUME NEW e \in Events, BrokerTypeOK,
         \/ Enqueue(e) \/ Hand(e) \/ Drop \/ Requeue(e) \/ DeadLetter(e)
  PROVE  BrokerTypeOK'
<1>1. CASE Enqueue(e)
  BY <1>1 DEF BrokerTypeOK, Enqueue
<1>2. CASE Hand(e)
  BY <1>2 DEF BrokerTypeOK, Hand
<1>3. CASE Drop
  BY <1>3, UnchangedTypes DEF Drop
<1>4. CASE Requeue(e)
  BY <1>4 DEF BrokerTypeOK, Requeue
<1>5. CASE DeadLetter(e)
  BY <1>5 DEF BrokerTypeOK, DeadLetter
<1>6. QED
  BY <1>1, <1>2, <1>3, <1>4, <1>5

\* The publisher's operations keep the types of the broker and the outbox.
LEMMA PublisherTypes ==
  ASSUME BrokerTypeOK, OutboxTypeOK,
         \/ \E e \in Events : \/ CommitEvent(e) \/ PublishConfirmed(e)
                              \/ PublishFails(e)
         \/ ListUnpublished \/ MarkPublished \/ MarkPublishedFails
  PROVE  BrokerTypeOK' /\ OutboxTypeOK'
<1>1. ASSUME NEW e \in Events, CommitEvent(e)
      PROVE  BrokerTypeOK' /\ OutboxTypeOK'
  BY <1>1, UnchangedTypes DEF OutboxTypeOK, CommitEvent
<1>2. ASSUME NEW e \in Events, PublishConfirmed(e)
      PROVE  BrokerTypeOK' /\ OutboxTypeOK'
  BY <1>2, BrokerTypes DEF OutboxTypeOK, PublishConfirmed
<1>3. ASSUME NEW e \in Events, PublishFails(e)
      PROVE  BrokerTypeOK' /\ OutboxTypeOK'
  BY <1>3, BrokerTypes, UnchangedTypes DEF OutboxTypeOK, PublishFails
<1>4. CASE ListUnpublished
  BY <1>4, UnchangedTypes
     DEF OutboxTypeOK, ListUnpublished, OldestUnpublished, Unpublished
<1>5. CASE MarkPublished
  BY <1>5, UnchangedTypes DEF OutboxTypeOK, MarkPublished
<1>6. CASE MarkPublishedFails
  BY <1>6, UnchangedTypes DEF OutboxTypeOK, MarkPublishedFails
<1>7. QED
  BY <1>1, <1>2, <1>3, <1>4, <1>5, <1>6

\* An application's transaction keeps the types of what it writes.
LEMMA ProcessType ==
  ASSUME NEW e \in Events, NEW a \in Apps, WorkerTypeOK,
         ProcessRevocation(e, a)
  PROVE  /\ processed' \in [Apps -> SUBSET Events]
         /\ applied' \in [Events -> [Apps -> Nat]]
BY DEF WorkerTypeOK, ProcessRevocation

\* Moving a goroutine to a label keeps the type of pc.
LEMMA GotoType ==
  ASSUME NEW h \in Handlers, NEW a \in Apps, NEW label \in PCs,
         WorkerTypeOK, Goto(h, a, label)
  PROVE  pc' \in [Handlers -> [Apps -> PCs]]
BY DEF WorkerTypeOK, Goto

\* Taking a delivery, or rejecting it at once, keeps the types.
LEMMA TakeTypes ==
  ASSUME NEW h \in Handlers, NEW e \in Events, BrokerTypeOK, WorkerTypeOK,
         \/ StartDelivery(h, e) \/ RejectUnresolvable(h, e)
         \/ AckWithoutTargets(h, e)
  PROVE  BrokerTypeOK' /\ WorkerTypeOK'
<1>1. CASE StartDelivery(h, e)
  <2>1. BrokerTypeOK'
    BY <1>1, BrokerTypes DEF StartDelivery
  <2>2. pc' \in [Handlers -> [Apps -> PCs]]
    BY <1>1 DEF StartDelivery, WorkerTypeOK, PCs
  <2>3. delivery' \in [Handlers -> Events \cup {NoEvent}]
    BY <1>1 DEF StartDelivery, WorkerTypeOK
  <2>4. QED
    BY <1>1, <2>1, <2>2, <2>3
       DEF StartDelivery, WorkerTypeOK, rowVars, appVars
<1>2. CASE RejectUnresolvable(h, e)
  BY <1>2, UnchangedTypes DEF RejectUnresolvable, BrokerTypeOK
<1>3. CASE AckWithoutTargets(h, e)
  <2>1. BrokerTypeOK'
    BY <1>3, BrokerTypes DEF AckWithoutTargets
  <2>2. settled' \in SUBSET (Events \X SUBSET Apps)
    BY <1>3 DEF AckWithoutTargets, WorkerTypeOK
  <2>3. QED
    BY <1>3, <2>1, <2>2
       DEF AckWithoutTargets, WorkerTypeOK, handlerVars, rowVars, appVars
<1>4. QED
  BY <1>1, <1>2, <1>3

\* Writing one entry of a function of two arguments keeps its type.
LEMMA RowTypes ==
  ASSUME NEW e \in Events, NEW a \in Apps, NEW st \in Statuses, NEW n \in Nat,
         WorkerTypeOK
  PROVE  /\ [status EXCEPT ![e][a] = st] \in [Events -> [Apps -> Statuses]]
         /\ [attempts EXCEPT ![e][a] = n] \in [Events -> [Apps -> Nat]]
BY DEF WorkerTypeOK

\* What one step of a goroutine keeps: its new label is a label, and it exists
\* only if it did before.
LEMMA TargetTypes ==
  ASSUME NEW h \in Handlers, NEW a \in Apps, BrokerTypeOK, WorkerTypeOK,
         GoroutinesOwned, TargetOp(h, a)
  PROVE  BrokerTypeOK' /\ WorkerTypeOK'
<1> DEFINE e == delivery[h]
<1>0. ASSUME pc[h][a] # "none" PROVE e \in Events
  BY <1>0 DEF GoroutinesOwned, WorkerTypeOK
<1>1. CASE Begin(h, a)
  <2>1. e \in Events /\ status[e][a] \in Statuses /\ attempts[e][a] \in Nat
    BY <1>0, <1>1 DEF Begin, WorkerTypeOK
  <2>2. SeenOutcome(status[e][a]) \in PCs /\ PostLabel(attempts[e][a] + 1) \in PCs
    BY <2>1 DEF SeenOutcome, PostLabel, PCs, Posting, Done
  <2>3. pc' \in [Handlers -> [Apps -> PCs]]
    BY <1>1, <2>2, GotoType DEF Begin
  <2>4. /\ status' \in [Events -> [Apps -> Statuses]]
        /\ attempts' \in [Events -> [Apps -> Nat]]
    <3>1. CASE UNCHANGED rowVars
      BY <3>1 DEF WorkerTypeOK, rowVars
    <3>2. CASE /\ status' = [status EXCEPT ![e][a] = "processing"]
               /\ attempts' = [attempts EXCEPT ![e][a] = @ + 1]
      <4>1. "processing" \in Statuses /\ attempts[e][a] + 1 \in Nat
        BY <2>1 DEF Statuses
      <4>2. attempts' = [attempts EXCEPT ![e][a] = attempts[e][a] + 1]
        BY <3>2
      <4>3. QED
        BY <2>1, <3>2, <4>1, <4>2, RowTypes
    <3>3. QED
      BY <1>1, <3>1, <3>2 DEF Begin
  <2>5. UNCHANGED <<delivery, appVars, linked, late, settled, brokerVars>>
    BY <1>1 DEF Begin
  <2>6. QED
    BY <2>3, <2>4, <2>5, UnchangedTypes DEF WorkerTypeOK, appVars
<1>2. CASE PostSucceeds(h, a)
  <2>1. e \in Events
    BY <1>0, <1>2 DEF PostSucceeds, Posting
  <2>2. pc' \in [Handlers -> [Apps -> PCs]]
    BY <1>2, GotoType DEF PostSucceeds, PCs
  <2>3. QED
    BY <1>2, <2>1, <2>2, ProcessType, UnchangedTypes
       DEF PostSucceeds, WorkerTypeOK, rowVars
<1>3. ASSUME NEW ctxDone \in BOOLEAN, PostFails(h, a, ctxDone)
      PROVE  BrokerTypeOK' /\ WorkerTypeOK'
  <2>1. e \in Events
    BY <1>0, <1>3 DEF PostFails, Posting
  <2>2. pc' \in [Handlers -> [Apps -> PCs]]
    BY <1>3, GotoType DEF PostFails, AfterFailedPost, PCs, Done
  <2>3. /\ processed' \in [Apps -> SUBSET Events]
        /\ applied' \in [Events -> [Apps -> Nat]]
        /\ late' \in SUBSET (Events \X Apps)
    <3>1. late' \in SUBSET (Events \X Apps)
      BY <1>3, <2>1 DEF PostFails, WorkerTypeOK
    <3>2. ProcessRevocation(e, a) \/ UNCHANGED appVars
      BY <1>3 DEF PostFails
    <3>3. QED
      BY <2>1, <3>1, <3>2, ProcessType DEF WorkerTypeOK, appVars
  <2>4. QED
    BY <1>3, <2>2, <2>3, UnchangedTypes DEF PostFails, WorkerTypeOK, rowVars
<1>4. CASE Mark(h, a)
  <2>1. e \in Events
    BY <1>0, <1>4 DEF Mark, Marking
  <2>2. AfterMark(pc[h][a]) \in PCs /\ MarkedStatus(pc[h][a]) \in Statuses
    BY <1>4 DEF Mark, Marking, AfterMark, MarkedStatus, PCs, Done, Statuses,
                Terminal
  <2>3. pc' \in [Handlers -> [Apps -> PCs]]
    BY <1>4, <2>2, GotoType DEF Mark
  <2>4. status' \in [Events -> [Apps -> Statuses]]
    BY <1>4, <2>1, <2>2 DEF Mark, WriteStatus, WorkerTypeOK
  <2>5. QED
    BY <1>4, <2>3, <2>4, UnchangedTypes DEF Mark, WorkerTypeOK, appVars
<1>5. CASE StoreFails(h, a)
  <2>1. e \in Events
    BY <1>0, <1>5 DEF StoreFails, Marking
  <2>2. pc' \in [Handlers -> [Apps -> PCs]]
    BY <1>5, GotoType DEF StoreFails, PCs, Done
  <2>3. status' \in [Events -> [Apps -> Statuses]]
    <3>1. CASE UNCHANGED status
      BY <3>1 DEF WorkerTypeOK
    <3>2. CASE pc[h][a] \in Marking /\ WriteStatus(h, a)
      <4>1. MarkedStatus(pc[h][a]) \in Statuses
        BY <3>2 DEF Marking, MarkedStatus, Statuses, Terminal
      <4>2. QED
        BY <2>1, <3>2, <4>1, RowTypes DEF WriteStatus, WorkerTypeOK
    <3>3. QED
      BY <1>5, <3>1, <3>2 DEF StoreFails
  <2>4. QED
    BY <1>5, <2>2, <2>3, UnchangedTypes DEF StoreFails, WorkerTypeOK, appVars
<1>6. QED
  BY <1>1, <1>2, <1>3, <1>4, <1>5 DEF TargetOp

\* Answering a delivery keeps the types.
LEMMA AnswerTypes ==
  ASSUME NEW h \in Handlers, BrokerTypeOK, WorkerTypeOK, AnswerOp(h)
  PROVE  BrokerTypeOK' /\ WorkerTypeOK'
<1>1. delivery[h] \in Events /\ Release(h)
  BY DEF AnswerOp, NackRequeue, NackDeadLetter, Ack, AnswerLost, Finished,
         WorkerTypeOK
<1>2. BrokerTypeOK'
  BY <1>1, BrokerTypes DEF AnswerOp, NackRequeue, NackDeadLetter, Ack, AnswerLost
<1>3. pc' \in [Handlers -> [Apps -> PCs]]
  BY <1>1 DEF Release, Idle, WorkerTypeOK, PCs
<1>4. Targets(h) \in SUBSET Apps
  BY DEF Targets
<1>5. settled' \in SUBSET (Events \X SUBSET Apps)
  BY <1>1, <1>4
     DEF AnswerOp, NackRequeue, NackDeadLetter, Ack, AnswerLost, WorkerTypeOK
<1>6. QED
  BY <1>1, <1>2, <1>3, <1>5 DEF Release, WorkerTypeOK, rowVars, appVars

\* Losing the process keeps the types: the copies it held are finitely many.
LEMMA LossTypes ==
  ASSUME BrokerTypeOK, WorkerTypeOK, WorkerLost
  PROVE  BrokerTypeOK' /\ WorkerTypeOK'
<1>1. ready' \in [Events -> Nat]
  BY HeldFinite DEF WorkerLost, BrokerTypeOK
<1>2. BrokerTypeOK'
  BY <1>1 DEF WorkerLost, BrokerTypeOK
<1>3. delivery' \in [Handlers -> Events \cup {NoEvent}]
  BY DEF WorkerLost
<1>4. pc' \in [Handlers -> [Apps -> PCs]]
  BY DEF WorkerLost, Idle, PCs
<1>5. late' \in SUBSET (Events \X Apps)
  BY DEF WorkerLost, InFlight, WorkerTypeOK
<1>6. QED
  BY <1>2, <1>3, <1>4, <1>5 DEF WorkerLost, WorkerTypeOK, rowVars, appVars

\* The steps of the applications' side keep the worker's types.
LEMMA AppTypes ==
  ASSUME NEW e \in Events, NEW a \in Apps, BrokerTypeOK, WorkerTypeOK,
         LateArrival(e, a) \/ TokenRecorded(e, a)
  PROVE  BrokerTypeOK' /\ WorkerTypeOK'
<1>1. CASE LateArrival(e, a)
  BY <1>1, ProcessType, UnchangedTypes
     DEF LateArrival, WorkerTypeOK, handlerVars, rowVars
<1>2. CASE TokenRecorded(e, a)
  BY <1>2, UnchangedTypes
     DEF TokenRecorded, WorkerTypeOK, handlerVars, rowVars, appVars
<1>3. QED
  BY <1>1, <1>2

\* A goroutine's step moves that goroutine only.
LEMMA TargetFrame ==
  ASSUME NEW h \in Handlers, NEW a \in Apps, WorkerTypeOK, TargetOp(h, a)
  PROVE  /\ pc[h][a] # "none"
         /\ UNCHANGED <<delivery, linked, settled, brokerVars>>
         /\ \A g \in Handlers, b \in Apps :
              <<g, b>> # <<h, a>> => pc'[g][b] = pc[g][b]
<1>1. CASE Begin(h, a)
  BY <1>1 DEF Begin, Goto, WorkerTypeOK
<1>2. CASE PostSucceeds(h, a)
  BY <1>2 DEF PostSucceeds, Goto, WorkerTypeOK, Posting
<1>3. ASSUME NEW ctxDone \in BOOLEAN, PostFails(h, a, ctxDone)
      PROVE  /\ pc[h][a] # "none"
             /\ UNCHANGED <<delivery, linked, settled, brokerVars>>
             /\ \A g \in Handlers, b \in Apps :
                  <<g, b>> # <<h, a>> => pc'[g][b] = pc[g][b]
  BY <1>3 DEF PostFails, Goto, WorkerTypeOK, Posting
<1>4. CASE Mark(h, a)
  BY <1>4 DEF Mark, Goto, WorkerTypeOK, Marking
<1>5. CASE StoreFails(h, a)
  BY <1>5 DEF StoreFails, Goto, WorkerTypeOK, Marking
<1>6. QED
  BY <1>1, <1>2, <1>3, <1>4, <1>5 DEF TargetOp

\* Reading a function of two arguments after one entry has changed.
LEMMA UpdatedEntry ==
  ASSUME NEW S, NEW old \in [Events -> [Apps -> S]],
         NEW e \in Events, NEW a \in Apps, NEW x,
         NEW f \in Events, NEW b \in Apps
  PROVE  [old EXCEPT ![e][a] = x][f][b] = IF f = e /\ b = a THEN x ELSE old[f][b]
<1>1. CASE f = e
  BY <1>1
<1>2. CASE f # e
  BY <1>2
<1>3. QED
  BY <1>1, <1>2

\* A goroutine that can step belongs to a handler with a delivery.
LEMMA TargetBusy ==
  ASSUME NEW h \in Handlers, NEW a \in Apps, WorkerTypeOK, GoroutinesOwned,
         TargetOp(h, a)
  PROVE  delivery[h] \in Events
<1>1. pc[h][a] # "none"
  BY TargetFrame
<1>2. QED
  BY <1>1 DEF GoroutinesOwned, WorkerTypeOK

\* Every step of the worker keeps GoroutinesOwned.
LEMMA OwnedSteps ==
  ASSUME TypeOK, GoroutinesOwned, WorkerOp
  PROVE  GoroutinesOwned'
<1> USE DEF TypeOK, WorkerTypeOK, GoroutinesOwned
<1>1. ASSUME NEW h \in Handlers, NEW a \in Apps, TargetOp(h, a)
      PROVE  GoroutinesOwned'
  <2>1. /\ pc[h][a] # "none" /\ UNCHANGED <<delivery, linked>>
        /\ \A g \in Handlers, b \in Apps :
             <<g, b>> # <<h, a>> => pc'[g][b] = pc[g][b]
    BY <1>1, TargetFrame
  <2>2. QED
    BY <2>1
<1>2. ASSUME NEW h \in Handlers, AnswerOp(h)
      PROVE  GoroutinesOwned'
  <2>1. Release(h)
    BY <1>2 DEF AnswerOp, NackRequeue, NackDeadLetter, Ack, AnswerLost
  <2>2. QED
    BY <2>1 DEF Release, Idle
<1>3. ASSUME NEW h \in Handlers, NEW e \in Events, TakeOp(h, e)
      PROVE  GoroutinesOwned'
  <2>1. CASE StartDelivery(h, e)
    BY <2>1 DEF StartDelivery
  <2>2. CASE RejectUnresolvable(h, e)
    BY <2>2 DEF RejectUnresolvable, workerVars, handlerVars
  <2>3. CASE AckWithoutTargets(h, e)
    BY <2>3 DEF AckWithoutTargets, handlerVars
  <2>4. QED
    BY <1>3, <2>1, <2>2, <2>3 DEF TakeOp
<1>4. ASSUME NEW e \in Events, NEW a \in Apps,
             LateArrival(e, a) \/ TokenRecorded(e, a)
      PROVE  GoroutinesOwned'
  <2>1. UNCHANGED handlerVars /\ \A f \in Events : linked[f] \subseteq linked'[f]
    <3>1. CASE LateArrival(e, a)
      BY <3>1 DEF LateArrival
    <3>2. CASE TokenRecorded(e, a)
      BY <3>2 DEF TokenRecorded
    <3>3. QED
      BY <1>4, <3>1, <3>2
  <2>2. QED
    BY <2>1 DEF handlerVars
<1>5. QED
  BY <1>1, <1>2, <1>3, <1>4 DEF WorkerOp

\* Every step keeps the types and GoroutinesOwned.
LEMMA TypeSteps ==
  ASSUME TypeOK, GoroutinesOwned, [Next]_vars
  PROVE  TypeOK' /\ GoroutinesOwned'
<1>1. phase' \in Phases /\ faults' \in 0 .. MaxFaults
  BY StepCases
<1>2. CASE (PublisherOp \/ PublisherFailure) /\ UNCHANGED workerVars
  <2>1. BrokerTypeOK' /\ OutboxTypeOK'
    BY <1>2, PublisherTypes DEF TypeOK, PublisherOp, PublisherFailure
  <2>2. WorkerTypeOK' /\ GoroutinesOwned'
    BY <1>2, UnchangedTypes DEF TypeOK, GoroutinesOwned, workerVars, handlerVars
  <2>3. QED
    BY <1>1, <2>1, <2>2 DEF TypeOK
<1>3. CASE WorkerOp /\ UNCHANGED outboxVars
  <2>1. BrokerTypeOK' /\ WorkerTypeOK'
    BY <1>3, TargetTypes, AnswerTypes, TakeTypes, AppTypes
       DEF TypeOK, WorkerOp, TakeOp
  <2>2. OutboxTypeOK' /\ GoroutinesOwned'
    BY <1>3, UnchangedTypes, OwnedSteps DEF TypeOK
  <2>3. QED
    BY <1>1, <2>1, <2>2 DEF TypeOK
<1>4. CASE PublisherLost /\ WorkerLost
  <2>1. OutboxTypeOK'
    BY <1>4 DEF PublisherLost, OutboxTypeOK, TypeOK
  <2>2. BrokerTypeOK' /\ WorkerTypeOK'
    BY <1>4, LossTypes DEF TypeOK
  <2>3. GoroutinesOwned'
    BY <1>4 DEF WorkerLost, GoroutinesOwned, Idle
  <2>4. QED
    BY <1>1, <2>1, <2>2, <2>3 DEF TypeOK
<1>5. CASE UNCHANGED <<brokerVars, outboxVars, workerVars>>
  BY <1>1, <1>5, UnchangedTypes
     DEF TypeOK, GoroutinesOwned, workerVars, handlerVars
<1>6. QED
  BY <1>2, <1>3, <1>4, <1>5, StepCases

\* The initial states are typed and have no goroutine.
LEMMA TypesInitially ==
  ASSUME Init
  PROVE  TypeOK /\ GoroutinesOwned
<1>1. BrokerTypeOK /\ OutboxTypeOK
  BY DEF Init, BrokerInit, OutboxInit, BrokerTypeOK, OutboxTypeOK
<1>2. WorkerTypeOK
  BY DEF Init, WorkerInit, WorkerTypeOK, Idle, PCs, Statuses
<1>3. GoroutinesOwned
  BY DEF Init, WorkerInit, Idle, GoroutinesOwned
<1>4. QED
  BY <1>1, <1>2, <1>3, MaxFaultsAssumption DEF Init, TypeOK, Phases

\* Every variable keeps its type.  The broker's counters stay natural numbers
\* because a copy is handed out only if there is one; the handlers' part needs
\* that a goroutine only exists while its handler holds a delivery.
THEOREM TypeCorrect == Spec => []TypeOK
<1>1. Init => TypeOK /\ GoroutinesOwned
  BY TypesInitially
<1>2. TypeOK /\ GoroutinesOwned /\ [Next]_vars => TypeOK' /\ GoroutinesOwned'
  BY TypeSteps
<1>3. QED
  BY <1>1, <1>2, PTL DEF Spec

-----------------------------------------------------------------------------
(* An acknowledged revocation has been applied.                            *)

\* The applications' state changes only by ProcessRevocation.
LEMMA AppEffect ==
  ASSUME TypeOK, GoroutinesOwned, [Next]_vars
  PROVE  \/ UNCHANGED appVars
         \/ \E e \in Events, a \in Apps : ProcessRevocation(e, a)
<1>1. ASSUME NEW h \in Handlers, NEW a \in Apps, TargetOp(h, a)
      PROVE  \/ UNCHANGED appVars
             \/ \E e \in Events : ProcessRevocation(e, a)
  <2>1. delivery[h] \in Events
    BY <1>1, TargetBusy DEF TypeOK
  <2>2. ProcessRevocation(delivery[h], a) \/ UNCHANGED appVars
    BY <1>1 DEF TargetOp, Begin, PostSucceeds, PostFails, Mark, StoreFails, appVars
  <2>3. QED
    BY <2>1, <2>2
<1>2. ASSUME NEW h \in Handlers, AnswerOp(h) PROVE UNCHANGED appVars
  BY <1>2 DEF AnswerOp, NackRequeue, NackDeadLetter, Ack, AnswerLost, Release,
              appVars
<1>3. ASSUME NEW h \in Handlers, NEW e \in Events, TakeOp(h, e)
      PROVE  UNCHANGED appVars
  BY <1>3 DEF TakeOp, StartDelivery, RejectUnresolvable, AckWithoutTargets,
              workerVars, appVars
<1>4. ASSUME NEW e \in Events, NEW a \in Apps,
             LateArrival(e, a) \/ TokenRecorded(e, a)
      PROVE  ProcessRevocation(e, a) \/ UNCHANGED appVars
  BY <1>4 DEF LateArrival, TokenRecorded, appVars
<1>5. CASE WorkerLost \/ UNCHANGED workerVars
  BY <1>5 DEF WorkerLost, workerVars, appVars
<1>6. QED
  BY <1>1, <1>2, <1>3, <1>4, <1>5, StepCases DEF WorkerOp

\* A processed_events row is never deleted.
LEMMA ProcessedGrows ==
  ASSUME TypeOK, GoroutinesOwned, [Next]_vars, NEW a \in Apps
  PROVE  processed[a] \subseteq processed'[a]
<1>1. ASSUME NEW e \in Events, NEW b \in Apps, ProcessRevocation(e, b)
      PROVE  processed[a] \subseteq processed'[a]
  BY <1>1 DEF ProcessRevocation, TypeOK, WorkerTypeOK
<1>2. QED
  BY <1>1, AppEffect DEF appVars

\* Every step keeps SuccessIsReal.
LEMMA SuccessSteps ==
  ASSUME TypeOK, GoroutinesOwned, SuccessIsReal, [Next]_vars
  PROVE  SuccessIsReal'
<1> USE DEF SuccessIsReal, AckMeansApplied
<1>1. ASSUME NEW h \in Handlers, NEW a \in Apps, TargetOp(h, a),
             \A b \in Apps : processed[b] \subseteq processed'[b]
      PROVE  SuccessIsReal'
  <2> DEFINE e == delivery[h]
  <2>1. /\ pc[h][a] # "none" /\ UNCHANGED <<delivery, settled>>
        /\ \A g \in Handlers, b \in Apps :
             <<g, b>> # <<h, a>> => pc'[g][b] = pc[g][b]
    BY <1>1, TargetFrame DEF TypeOK
  <2>2. e \in Events
    BY <1>1, TargetBusy DEF TypeOK
  <2>3. pc'[h][a] \in {"markSucceeded", "ok"} => e \in processed'[a]
    <3>1. CASE Begin(h, a)
      BY <1>1, <2>2, <3>1
         DEF Begin, Goto, SeenOutcome, PostLabel, Claimable, Terminal, TypeOK,
             WorkerTypeOK
    <3>2. CASE PostSucceeds(h, a)
      BY <2>2, <3>2 DEF PostSucceeds, ProcessRevocation, TypeOK, WorkerTypeOK
    <3>3. ASSUME NEW ctxDone \in BOOLEAN, PostFails(h, a, ctxDone)
          PROVE  pc'[h][a] \notin {"markSucceeded", "ok"}
      BY <3>3 DEF PostFails, Goto, AfterFailedPost, TypeOK, WorkerTypeOK
    <3>4. CASE Mark(h, a)
      BY <1>1, <2>2, <3>4
         DEF Mark, Goto, Marking, AfterMark, TypeOK, WorkerTypeOK
    <3>5. CASE StoreFails(h, a)
      BY <3>5 DEF StoreFails, Goto, TypeOK, WorkerTypeOK
    <3>6. QED
      BY <1>1, <3>1, <3>2, <3>3, <3>4, <3>5 DEF TargetOp
  <2>4. \A f \in Events, b \in Apps :
          status'[f][b] = "succeeded" =>
            \/ status[f][b] = "succeeded"
            \/ f = e /\ b = a /\ pc[h][a] = "markSucceeded"
    <3>1. CASE Begin(h, a)
      <4>1. \/ UNCHANGED status
            \/ status' = [status EXCEPT ![e][a] = "processing"]
        BY <3>1 DEF Begin, rowVars
      <4>2. CASE status' = [status EXCEPT ![e][a] = "processing"]
        <5>1. status \in [Events -> [Apps -> Statuses]]
          BY DEF TypeOK, WorkerTypeOK
        <5>2. \A f \in Events, b \in Apps :
                status'[f][b] = IF f = e /\ b = a THEN "processing" ELSE status[f][b]
          BY <2>2, <4>2, <5>1, UpdatedEntry
        <5>3. QED
          BY <5>2
      <4>3. QED
        BY <4>1, <4>2
    <3>2. CASE UNCHANGED status
      BY <3>2
    <3>3. CASE pc[h][a] \in Marking /\ WriteStatus(h, a)
      <4>1. status'[e][a] = "succeeded" => pc[h][a] = "markSucceeded"
        BY <2>2, <3>3
           DEF WriteStatus, Marking, MarkedStatus, TypeOK, WorkerTypeOK
      <4>2. QED
        BY <2>2, <3>3, <4>1 DEF WriteStatus, TypeOK, WorkerTypeOK
    <3>4. QED
      BY <1>1, <3>1, <3>2, <3>3
         DEF TargetOp, PostSucceeds, PostFails, Mark, StoreFails, rowVars
  <2>5. \A s \in settled' : \A b \in s[2] : b \in Apps
    BY <2>1 DEF TypeOK, WorkerTypeOK
  <2>6. QED
    BY <1>1, <2>1, <2>3, <2>4, <2>5
<1>2. ASSUME NEW h \in Handlers, AnswerOp(h)
      PROVE  SuccessIsReal'
  <2>1. Release(h)
    BY <1>2 DEF AnswerOp, NackRequeue, NackDeadLetter, Ack, AnswerLost
  <2>2. \A g \in Handlers, b \in Apps :
          pc'[g][b] # "none" => pc'[g][b] = pc[g][b] /\ delivery'[g] = delivery[g]
    BY <2>1 DEF Release, Idle, TypeOK, WorkerTypeOK
  <2>3. UNCHANGED <<status, processed>>
    BY <2>1 DEF Release, rowVars, appVars
  <2>4. CASE Ack(h)
    <3>1. \A a \in Targets(h) : pc[h][a] = "ok"
      BY <2>4 DEF Ack, Verdict, Ended, Finished, Done
    <3>2. \A a \in Targets(h) : delivery[h] \in processed[a]
      BY <3>1 DEF Targets
    <3>3. AckMeansApplied'
      BY <2>3, <2>4, <3>2 DEF Ack
    <3>4. QED
      BY <2>2, <2>3, <3>3
  <2>5. CASE UNCHANGED settled
    BY <2>2, <2>3, <2>5
  <2>6. QED
    BY <1>2, <2>4, <2>5 DEF AnswerOp, NackRequeue, NackDeadLetter, AnswerLost
<1>3. ASSUME NEW h \in Handlers, NEW e \in Events, TakeOp(h, e)
      PROVE  SuccessIsReal'
  <2>1. CASE StartDelivery(h, e)
    <3>1. UNCHANGED <<status, processed, settled>>
      BY <2>1 DEF StartDelivery, rowVars, appVars
    <3>2. \A g \in Handlers, b \in Apps :
            \/ pc'[g][b] \in {"none", "begin"}
            \/ pc'[g][b] = pc[g][b] /\ delivery'[g] = delivery[g]
      BY <2>1 DEF StartDelivery, TypeOK, WorkerTypeOK
    <3>3. QED
      BY <3>1, <3>2
  <2>2. CASE RejectUnresolvable(h, e)
    BY <2>2 DEF RejectUnresolvable, workerVars, handlerVars, rowVars, appVars
  <2>3. CASE AckWithoutTargets(h, e)
    BY <2>3 DEF AckWithoutTargets, handlerVars, rowVars, appVars
  <2>4. QED
    BY <1>3, <2>1, <2>2, <2>3 DEF TakeOp
<1>4. ASSUME UNCHANGED <<handlerVars, rowVars, settled>>,
             \A b \in Apps : processed[b] \subseteq processed'[b]
      PROVE  SuccessIsReal'
  <2>1. \A s \in settled : \A b \in s[2] : b \in Apps
    BY DEF TypeOK, WorkerTypeOK
  <2>2. QED
    BY <1>4, <2>1 DEF handlerVars, rowVars
<1>5. CASE WorkerOp
  <2>1. \A b \in Apps : processed[b] \subseteq processed'[b]
    BY ProcessedGrows
  <2>2. ASSUME NEW e \in Events, NEW a \in Apps,
               LateArrival(e, a) \/ TokenRecorded(e, a)
        PROVE  UNCHANGED <<handlerVars, rowVars, settled>>
    BY <2>2 DEF LateArrival, TokenRecorded
  <2>3. QED
    BY <1>1, <1>2, <1>3, <1>4, <1>5, <2>1, <2>2 DEF WorkerOp
<1>6. CASE UNCHANGED workerVars
  BY <1>4, <1>6 DEF workerVars, handlerVars, rowVars, appVars
<1>7. CASE WorkerLost
  BY <1>7 DEF WorkerLost, Idle, rowVars, appVars
<1>8. QED
  BY <1>5, <1>6, <1>7, StepCases

\* HandleDelivery acks a delivery only when every target has applied it.
THEOREM AckedIsApplied == Spec => []AckMeansApplied
<1> DEFINE I == TypeOK /\ GoroutinesOwned /\ SuccessIsReal
<1>1. Init => I
  <2>1. Init => SuccessIsReal
    BY DEF Init, WorkerInit, SuccessIsReal, AckMeansApplied, Idle
  <2>2. QED
    BY <2>1, TypesInitially
<1>2. I /\ [Next]_vars => I'
  BY TypeSteps, SuccessSteps
<1>3. I => AckMeansApplied
  BY DEF SuccessIsReal
<1>4. QED
  BY <1>1, <1>2, <1>3, PTL DEF Spec

-----------------------------------------------------------------------------
(* A revocation is applied once.                                           *)

\* Every step keeps AppliedWithRow.
LEMMA AppliedSteps ==
  ASSUME TypeOK, GoroutinesOwned, AppliedWithRow, [Next]_vars
  PROVE  AppliedWithRow'
<1>1. ASSUME NEW e \in Events, NEW a \in Apps, ProcessRevocation(e, a)
      PROVE  AppliedWithRow'
  <2>1. ASSUME NEW f \in Events, NEW b \in Apps
        PROVE  applied'[f][b] = IF f \in processed'[b] THEN 1 ELSE 0
    <3>1. processed'[b] = IF b = a THEN processed[b] \cup {e} ELSE processed[b]
      BY <1>1 DEF ProcessRevocation, TypeOK, WorkerTypeOK
    <3>2. CASE e \in processed[a]
      BY <1>1, <3>1, <3>2 DEF ProcessRevocation, AppliedWithRow
    <3>3. CASE e \notin processed[a]
      <4>1. applied \in [Events -> [Apps -> Nat]] /\ applied[e][a] = 0
        BY <3>3 DEF TypeOK, WorkerTypeOK, AppliedWithRow
      <4>2. applied' = [applied EXCEPT ![e][a] = applied[e][a] + 1]
        BY <1>1, <3>3 DEF ProcessRevocation
      <4>3. applied'[f][b] = IF f = e /\ b = a THEN 1 ELSE applied[f][b]
        BY <4>1, <4>2, UpdatedEntry
      <4>4. QED
        BY <3>1, <3>3, <4>3 DEF AppliedWithRow
    <3>4. QED
      BY <3>2, <3>3
  <2>2. QED
    BY <2>1 DEF AppliedWithRow
<1>2. CASE UNCHANGED appVars
  BY <1>2 DEF appVars, AppliedWithRow
<1>3. QED
  BY <1>1, <1>2, AppEffect

\* Whatever copies, retries and late requests arrive, an application carries
\* out an event's revocation at most once.
THEOREM RevokedOnce == Spec => []AppliedOnce
<1> DEFINE I == TypeOK /\ GoroutinesOwned /\ AppliedWithRow
<1>1. Init => I
  <2>1. Init => AppliedWithRow
    BY DEF Init, WorkerInit, AppliedWithRow
  <2>2. QED
    BY <2>1, TypesInitially
<1>2. I /\ [Next]_vars => I'
  BY TypeSteps, AppliedSteps
<1>3. I => AppliedOnce
  BY DEF AppliedWithRow, AppliedOnce
<1>4. QED
  BY <1>1, <1>2, <1>3, PTL DEF Spec

-----------------------------------------------------------------------------
(* A dead-lettered event has been given up for a reason.                   *)

\* What a goroutine's step does to the row it works on.
LEMMA RowEffect ==
  ASSUME NEW h \in Handlers, NEW a \in Apps, TypeOK, GoroutinesOwned,
         TargetOp(h, a)
  PROVE  /\ UNCHANGED attempts \/
              /\ Begin(h, a)
              /\ attempts' = [attempts EXCEPT
                    ![delivery[h]][a] = attempts[delivery[h]][a] + 1]
         /\ \/ UNCHANGED status
            \/ status' = [status EXCEPT ![delivery[h]][a] = "processing"]
            \/ /\ pc[h][a] \in Marking
               /\ status' = [status EXCEPT
                     ![delivery[h]][a] = MarkedStatus(pc[h][a])]
<1>1. CASE Begin(h, a)
  BY <1>1 DEF Begin, rowVars
<1>2. CASE Mark(h, a) \/ StoreFails(h, a)
  BY <1>2 DEF Mark, StoreFails, WriteStatus
<1>3. CASE PostSucceeds(h, a) \/ \E ctxDone \in BOOLEAN : PostFails(h, a, ctxDone)
  BY <1>3 DEF PostSucceeds, PostFails, rowVars
<1>4. QED
  BY <1>1, <1>2, <1>3 DEF TargetOp

\* The attempts of a delivery row never decrease.
LEMMA AttemptsGrow ==
  ASSUME TypeOK, GoroutinesOwned, [Next]_vars, NEW e \in Events, NEW a \in Apps
  PROVE  attempts[e][a] <= attempts'[e][a]
<1>0. attempts[e][a] \in Nat /\ attempts \in [Events -> [Apps -> Nat]]
  BY DEF TypeOK, WorkerTypeOK
<1>1. ASSUME NEW h \in Handlers, NEW b \in Apps, TargetOp(h, b)
      PROVE  attempts[e][a] <= attempts'[e][a]
  <2>1. delivery[h] \in Events
    BY <1>1, TargetBusy DEF TypeOK
  <2>2. CASE attempts' = [attempts EXCEPT
                ![delivery[h]][b] = attempts[delivery[h]][b] + 1]
    <3>1. attempts'[e][a] = IF e = delivery[h] /\ a = b
                            THEN attempts[delivery[h]][b] + 1 ELSE attempts[e][a]
      BY <1>0, <2>1, <2>2, UpdatedEntry
    <3>2. QED
      BY <1>0, <3>1
  <2>3. UNCHANGED attempts \/ attempts' = [attempts EXCEPT
                ![delivery[h]][b] = attempts[delivery[h]][b] + 1]
    BY <1>1, RowEffect
  <2>4. CASE UNCHANGED attempts
    BY <1>0, <2>4
  <2>5. QED
    BY <2>2, <2>3, <2>4
<1>2. ASSUME NEW h \in Handlers, AnswerOp(h) PROVE UNCHANGED attempts
  BY <1>2 DEF AnswerOp, NackRequeue, NackDeadLetter, Ack, AnswerLost, Release,
              rowVars
<1>3. ASSUME NEW h \in Handlers, NEW f \in Events, TakeOp(h, f)
      PROVE  UNCHANGED attempts
  BY <1>3 DEF TakeOp, StartDelivery, RejectUnresolvable, AckWithoutTargets,
              workerVars, rowVars
<1>4. ASSUME NEW f \in Events, NEW b \in Apps,
             LateArrival(f, b) \/ TokenRecorded(f, b)
      PROVE  UNCHANGED attempts
  BY <1>4 DEF LateArrival, TokenRecorded, rowVars
<1>5. ASSUME WorkerLost \/ UNCHANGED workerVars PROVE UNCHANGED attempts
  BY <1>5 DEF WorkerLost, workerVars, rowVars
<1>6. ASSUME UNCHANGED attempts PROVE attempts[e][a] <= attempts'[e][a]
  BY <1>0, <1>6
<1>7. QED
  BY <1>1, <1>2, <1>3, <1>4, <1>5, <1>6, StepCases DEF WorkerOp

\* A budget that is used up stays used up.
LEMMA AttemptsBounds ==
  ASSUME TypeOK, GoroutinesOwned, [Next]_vars, NEW e \in Events, NEW a \in Apps
  PROVE  /\ attempts[e][a] \in Nat /\ attempts'[e][a] \in Nat
         /\ attempts[e][a] <= attempts'[e][a]
         /\ attempts[e][a] >= MaxRetries => attempts'[e][a] >= MaxRetries
<1>1. TypeOK'
  BY TypeSteps
<1>2. attempts[e][a] \in Nat /\ attempts'[e][a] \in Nat
  BY <1>1 DEF TypeOK, WorkerTypeOK
<1>3. QED
  BY <1>2, AttemptsGrow, MaxRetriesAssumption

\* An event that cannot be resolved stays so, and no target leaves it.
LEMMA LinkedGrows ==
  ASSUME TypeOK, [Next]_vars, NEW e \in Events
  PROVE  linked[e] \subseteq linked'[e] /\ (Unresolvable(e) => Unresolvable(e)')
<1>1. ASSUME UNCHANGED linked
      PROVE  linked[e] \subseteq linked'[e] /\ (Unresolvable(e) => Unresolvable(e)')
  BY <1>1 DEF Unresolvable
<1>2. ASSUME NEW h \in Handlers, NEW a \in Apps, TargetOp(h, a)
      PROVE  UNCHANGED linked
  BY <1>2, TargetFrame DEF TypeOK
<1>3. ASSUME NEW h \in Handlers, AnswerOp(h) PROVE UNCHANGED linked
  BY <1>3 DEF AnswerOp, NackRequeue, NackDeadLetter, Ack, AnswerLost, Release
<1>4. ASSUME NEW h \in Handlers, NEW f \in Events, TakeOp(h, f)
      PROVE  UNCHANGED linked
  BY <1>4 DEF TakeOp, StartDelivery, RejectUnresolvable, AckWithoutTargets,
              workerVars
<1>5. ASSUME NEW f \in Events, NEW a \in Apps, TokenRecorded(f, a)
      PROVE  linked[e] \subseteq linked'[e] /\ (Unresolvable(e) => Unresolvable(e)')
  <2>1. f \notin PolicyEvents /\ linked' = [linked EXCEPT ![f] = @ \cup {a}]
    BY <1>5 DEF TokenRecorded
  <2>2. linked'[e] = IF e = f THEN linked[e] \cup {a} ELSE linked[e]
    BY <2>1 DEF TypeOK, WorkerTypeOK
  <2>3. QED
    BY <2>1, <2>2 DEF Unresolvable
<1>6. ASSUME NEW f \in Events, NEW a \in Apps, LateArrival(f, a)
      PROVE  UNCHANGED linked
  BY <1>6 DEF LateArrival
<1>7. CASE WorkerLost \/ UNCHANGED workerVars
  BY <1>1, <1>7 DEF WorkerLost, workerVars
<1>8. QED
  BY <1>1, <1>2, <1>3, <1>4, <1>5, <1>6, <1>7, StepCases DEF WorkerOp

\* Labels and statuses that say: the retry budget is used up.
GivenUpLabels == {"postLast", "markFailed", "failed"}

\* A goroutine's step keeps the rows and goroutines that gave up earned.
LEMMA GivenUpTarget ==
  ASSUME NEW h \in Handlers, NEW a \in Apps, TypeOK, GoroutinesOwned,
         GivenUpIsEarned, [Next]_vars, TargetOp(h, a)
  PROVE  /\ pc'[h][a] \in GivenUpLabels => attempts'[delivery[h]][a] >= MaxRetries
         /\ \A f \in Events, b \in Apps :
              status'[f][b] = "failed" => attempts'[f][b] >= MaxRetries
<1> DEFINE e == delivery[h]
<1>1. e \in Events
  BY TargetBusy DEF TypeOK
<1>2. \A f \in Events, b \in Apps :
        /\ attempts[f][b] \in Nat /\ attempts'[f][b] \in Nat
        /\ attempts[f][b] <= attempts'[f][b]
        /\ attempts[f][b] >= MaxRetries => attempts'[f][b] >= MaxRetries
  BY AttemptsBounds
<1>3. pc'[h][a] \in GivenUpLabels => attempts'[e][a] >= MaxRetries
  <2>1. CASE Begin(h, a)
    <3>1. CASE ~ Claimable(status[e][a]) /\ Goto(h, a, SeenOutcome(status[e][a]))
      BY <1>1, <1>2, <3>1, MaxRetriesAssumption
         DEF Goto, SeenOutcome, Claimable, Terminal, GivenUpLabels,
             GivenUpIsEarned, TypeOK, WorkerTypeOK
    <3>2. CASE /\ attempts' = [attempts EXCEPT ![e][a] = attempts[e][a] + 1]
               /\ Goto(h, a, PostLabel(attempts[e][a] + 1))
      <4>1. attempts'[e][a] = attempts[e][a] + 1
        BY <1>1, <3>2 DEF TypeOK, WorkerTypeOK
      <4>2. pc'[h][a] = PostLabel(attempts[e][a] + 1)
        BY <3>2 DEF Goto, TypeOK, WorkerTypeOK
      <4>3. QED
        BY <4>1, <4>2 DEF PostLabel, GivenUpLabels
    <3>3. QED
      BY <2>1, <3>1, <3>2 DEF Begin
  <2>2. CASE PostSucceeds(h, a)
    BY <2>2 DEF PostSucceeds, Goto, GivenUpLabels, TypeOK, WorkerTypeOK
  <2>3. ASSUME NEW ctxDone \in BOOLEAN, PostFails(h, a, ctxDone),
               pc'[h][a] \in GivenUpLabels
        PROVE  attempts'[e][a] >= MaxRetries
    <3>1. pc[h][a] = "postLast"
      BY <2>3 DEF PostFails, Goto, AfterFailedPost, GivenUpLabels, TypeOK,
                  WorkerTypeOK
    <3>2. QED
      BY <1>1, <1>2, <3>1, MaxRetriesAssumption DEF GivenUpIsEarned
  <2>4. ASSUME Mark(h, a), pc'[h][a] \in GivenUpLabels
        PROVE  attempts'[e][a] >= MaxRetries
    <3>1. pc[h][a] = "markFailed"
      BY <2>4 DEF Mark, Marking, Goto, AfterMark, GivenUpLabels, TypeOK,
                  WorkerTypeOK
    <3>2. QED
      BY <1>1, <1>2, <3>1, MaxRetriesAssumption DEF GivenUpIsEarned
  <2>5. CASE StoreFails(h, a)
    BY <2>5 DEF StoreFails, Goto, GivenUpLabels, TypeOK, WorkerTypeOK
  <2>6. QED
    BY <2>1, <2>2, <2>3, <2>4, <2>5 DEF TargetOp
<1>4. ASSUME NEW f \in Events, NEW b \in Apps, status'[f][b] = "failed"
      PROVE  attempts'[f][b] >= MaxRetries
  <2>1. status[f][b] = "failed" \/ (f = e /\ b = a /\ pc[h][a] = "markFailed")
    <3>1. ASSUME NEW st, status' = [status EXCEPT ![e][a] = st]
          PROVE  status'[f][b] = IF f = e /\ b = a THEN st ELSE status[f][b]
      <4>1. status \in [Events -> [Apps -> Statuses]]
        BY DEF TypeOK, WorkerTypeOK
      <4>2. QED
        BY <1>1, <3>1, <4>1, UpdatedEntry
    <3>2. pc[h][a] \in Marking /\ MarkedStatus(pc[h][a]) = "failed"
            => pc[h][a] = "markFailed"
      BY DEF Marking, MarkedStatus
    <3>3. \/ UNCHANGED status
          \/ status' = [status EXCEPT ![e][a] = "processing"]
          \/ /\ pc[h][a] \in Marking
             /\ status' = [status EXCEPT ![e][a] = MarkedStatus(pc[h][a])]
      BY RowEffect
    <3>4. CASE UNCHANGED status
      BY <1>4, <3>4
    <3>5. CASE status' = [status EXCEPT ![e][a] = "processing"]
      BY <1>4, <3>1, <3>5
    <3>6. CASE /\ pc[h][a] \in Marking
               /\ status' = [status EXCEPT ![e][a] = MarkedStatus(pc[h][a])]
      BY <1>4, <3>1, <3>2, <3>6
    <3>7. QED
      BY <3>3, <3>4, <3>5, <3>6
  <2>2. attempts[f][b] >= MaxRetries
    BY <1>1, <2>1 DEF GivenUpIsEarned
  <2>3. QED
    BY <1>2, <2>2, MaxRetriesAssumption
<1>5. QED
  BY <1>3, <1>4

\* Every step keeps GivenUpIsEarned.
LEMMA GivenUpSteps ==
  ASSUME TypeOK, GoroutinesOwned, GivenUpIsEarned, [Next]_vars
  PROVE  GivenUpIsEarned'
<1>1. \A f \in Events, b \in Apps :
        /\ attempts[f][b] \in Nat /\ attempts'[f][b] \in Nat
        /\ attempts[f][b] <= attempts'[f][b]
        /\ attempts[f][b] >= MaxRetries => attempts'[f][b] >= MaxRetries
  BY AttemptsBounds
<1>2. ASSUME \A e \in Events :
               dead'[e] > 0 =>
                 \/ dead[e] > 0 \/ Unresolvable(e)
                 \/ \E a \in linked[e] : attempts[e][a] >= MaxRetries
      PROVE  DeadLetterEarned'
  <2>1. \A e \in Events : \A a \in linked[e] :
          attempts[e][a] >= MaxRetries => a \in linked'[e] /\ attempts'[e][a] >= MaxRetries
    <3>1. ASSUME NEW e \in Events, NEW a \in linked[e]
          PROVE  a \in Apps /\ a \in linked'[e]
      <4>1. linked[e] \subseteq Apps
        BY DEF TypeOK, WorkerTypeOK
      <4>2. QED
        BY <4>1, LinkedGrows
    <3>2. QED
      BY <1>1, <3>1
  <2>2. QED
    BY <1>2, <2>1, LinkedGrows DEF GivenUpIsEarned, DeadLetterEarned
<1>3. ASSUME \A g \in Handlers, b \in Apps :
               \/ pc'[g][b] \in {"none", "begin"}
               \/ pc'[g][b] = pc[g][b] /\ delivery'[g] = delivery[g],
             UNCHANGED status
      PROVE  /\ \A e \in Events, a \in Apps :
                  status'[e][a] = "failed" => attempts'[e][a] >= MaxRetries
             /\ \A h \in Handlers, a \in Apps :
                  pc'[h][a] \in GivenUpLabels => attempts'[delivery'[h]][a] >= MaxRetries
  <2>1. ASSUME NEW h \in Handlers, NEW a \in Apps, pc'[h][a] \in GivenUpLabels
        PROVE  attempts'[delivery'[h]][a] >= MaxRetries
    <3>1. pc'[h][a] = pc[h][a] /\ delivery'[h] = delivery[h] /\ delivery[h] \in Events
      BY <1>3, <2>1 DEF GivenUpLabels, GoroutinesOwned, TypeOK, WorkerTypeOK
    <3>2. QED
      BY <1>1, <2>1, <3>1, MaxRetriesAssumption DEF GivenUpIsEarned, GivenUpLabels
  <2>2. QED
    BY <1>1, <1>3, <2>1, MaxRetriesAssumption DEF GivenUpIsEarned
<1>4. ASSUME NEW h \in Handlers, NEW a \in Apps, TargetOp(h, a)
      PROVE  GivenUpIsEarned'
  <2>1. /\ UNCHANGED <<delivery, dead>> /\ delivery[h] \in Events
        /\ \A g \in Handlers, b \in Apps :
             <<g, b>> # <<h, a>> => pc'[g][b] = pc[g][b]
    BY <1>4, TargetFrame, TargetBusy DEF TypeOK, brokerVars
  <2>2. DeadLetterEarned'
    BY <1>2, <2>1
  <2>3. ASSUME NEW g \in Handlers, NEW b \in Apps, pc'[g][b] \in GivenUpLabels
        PROVE  attempts'[delivery[g]][b] >= MaxRetries
    <3>1. CASE <<g, b>> = <<h, a>>
      BY <1>4, <2>3, <3>1, GivenUpTarget
    <3>2. CASE <<g, b>> # <<h, a>>
      <4>1. pc[g][b] \in GivenUpLabels /\ delivery[g] \in Events
        BY <2>1, <2>3, <3>2 DEF GivenUpLabels, GoroutinesOwned, TypeOK, WorkerTypeOK
      <4>2. QED
        BY <1>1, <4>1, MaxRetriesAssumption DEF GivenUpIsEarned, GivenUpLabels
    <3>3. QED
      BY <3>1, <3>2
  <2>4. QED
    BY <1>4, <2>1, <2>2, <2>3, GivenUpTarget DEF GivenUpIsEarned, GivenUpLabels
<1>5. ASSUME NEW h \in Handlers, AnswerOp(h)
      PROVE  GivenUpIsEarned'
  <2>1. Release(h) /\ delivery[h] \in Events
    BY <1>5 DEF AnswerOp, NackRequeue, NackDeadLetter, Ack, AnswerLost, Finished,
                TypeOK, WorkerTypeOK
  <2>2. \A g \in Handlers, b \in Apps :
          \/ pc'[g][b] \in {"none", "begin"}
          \/ pc'[g][b] = pc[g][b] /\ delivery'[g] = delivery[g]
    BY <2>1 DEF Release, Idle, TypeOK, WorkerTypeOK
  <2>3. UNCHANGED status
    BY <2>1 DEF Release, rowVars
  <2>4. CASE NackDeadLetter(h)
    <3>1. PICK a \in Apps : pc[h][a] = "failed"
      BY <2>4 DEF NackDeadLetter, Verdict, Ended, Targets
    <3>2. a \in linked[delivery[h]] /\ attempts[delivery[h]][a] >= MaxRetries
      BY <3>1 DEF GoroutinesOwned, GivenUpIsEarned
    <3>3. \A e \in Events : dead'[e] > 0 => dead[e] > 0 \/ e = delivery[h]
      BY <2>4 DEF NackDeadLetter, DeadLetter, TypeOK, BrokerTypeOK
    <3>4. DeadLetterEarned'
      BY <1>2, <3>2, <3>3
    <3>5. QED
      BY <1>3, <2>2, <2>3, <3>4 DEF GivenUpIsEarned, GivenUpLabels
  <2>5. CASE UNCHANGED dead
    BY <1>2, <1>3, <2>2, <2>3, <2>5 DEF GivenUpIsEarned, GivenUpLabels
  <2>6. QED
    BY <1>5, <2>4, <2>5
       DEF AnswerOp, NackRequeue, Ack, AnswerLost, Requeue, Drop, brokerVars
<1>6. ASSUME NEW h \in Handlers, NEW e \in Events, TakeOp(h, e)
      PROVE  GivenUpIsEarned'
  <2>1. \A g \in Handlers, b \in Apps :
          \/ pc'[g][b] \in {"none", "begin"}
          \/ pc'[g][b] = pc[g][b] /\ delivery'[g] = delivery[g]
    <3>1. CASE StartDelivery(h, e)
      BY <3>1 DEF StartDelivery, TypeOK, WorkerTypeOK
    <3>2. CASE RejectUnresolvable(h, e) \/ AckWithoutTargets(h, e)
      BY <3>2 DEF RejectUnresolvable, AckWithoutTargets, workerVars, handlerVars
    <3>3. QED
      BY <1>6, <3>1, <3>2 DEF TakeOp
  <2>2. UNCHANGED status
    BY <1>6 DEF TakeOp, StartDelivery, RejectUnresolvable, AckWithoutTargets,
                workerVars, rowVars
  <2>3. \A f \in Events : dead'[f] > 0 => dead[f] > 0 \/ Unresolvable(f)
    <3>1. CASE RejectUnresolvable(h, e)
      BY <3>1 DEF RejectUnresolvable, TypeOK, BrokerTypeOK
    <3>2. CASE UNCHANGED dead
      BY <3>2
    <3>3. QED
      BY <1>6, <3>1, <3>2 DEF TakeOp, StartDelivery, AckWithoutTargets, Hand
  <2>4. QED
    BY <1>2, <1>3, <2>1, <2>2, <2>3 DEF GivenUpIsEarned, GivenUpLabels
<1>7. ASSUME UNCHANGED <<handlerVars, rowVars, dead>>
      PROVE  GivenUpIsEarned'
  <2>1. UNCHANGED <<delivery, pc, status>>
    BY <1>7 DEF handlerVars, rowVars
  <2>2. QED
    BY <1>2, <1>3, <1>7, <2>1 DEF GivenUpIsEarned, GivenUpLabels
<1>8. CASE WorkerOp
  <2>1. ASSUME NEW e \in Events, NEW a \in Apps,
               LateArrival(e, a) \/ TokenRecorded(e, a)
        PROVE  UNCHANGED <<handlerVars, rowVars, dead>>
    BY <2>1 DEF LateArrival, TokenRecorded, brokerVars
  <2>2. QED
    BY <1>4, <1>5, <1>6, <1>7, <1>8, <2>1 DEF WorkerOp
<1>9. CASE (PublisherOp \/ PublisherFailure) /\ UNCHANGED workerVars
  <2>1. UNCHANGED dead
    BY <1>9 DEF PublisherOp, PublisherFailure, CommitEvent, PublishConfirmed,
                PublishFails, ListUnpublished, MarkPublished,
                MarkPublishedFails, Enqueue, brokerVars
  <2>2. QED
    BY <1>7, <1>9, <2>1 DEF workerVars
<1>10. CASE UNCHANGED <<brokerVars, outboxVars, workerVars>>
  BY <1>7, <1>10 DEF workerVars, brokerVars
<1>11. CASE WorkerLost
  <2>1. /\ UNCHANGED status
        /\ \A g \in Handlers, b \in Apps : pc'[g][b] = "none"
        /\ UNCHANGED dead
    BY <1>11 DEF WorkerLost, Idle, rowVars
  <2>2. QED
    BY <1>2, <1>3, <2>1 DEF GivenUpIsEarned, GivenUpLabels
<1>12. QED
  BY <1>8, <1>9, <1>10, <1>11, StepCases

\* An event lies in the dead-letter queue only if its targets cannot be
\* resolved or one of them has used up its retries.
THEOREM DeadLettersAreEarned == Spec => []DeadLetterEarned
<1> DEFINE I == TypeOK /\ GoroutinesOwned /\ GivenUpIsEarned
<1>1. Init => I
  <2>1. Init => GivenUpIsEarned
    BY DEF Init, WorkerInit, BrokerInit, GivenUpIsEarned, DeadLetterEarned, Idle
  <2>2. QED
    BY <2>1, TypesInitially
<1>2. I /\ [Next]_vars => I'
  BY TypeSteps, GivenUpSteps
<1>3. I => DeadLetterEarned
  BY DEF GivenUpIsEarned
<1>4. QED
  BY <1>1, <1>2, <1>3, PTL DEF Spec

-----------------------------------------------------------------------------
(* The publisher's accounting: sends and faults.                           *)

\* The consuming half publishes nothing.
LEMMA WorkerSendsNothing ==
  ASSUME TypeOK, WorkerOp \/ WorkerLost
  PROVE  UNCHANGED sent
<1>1. ASSUME NEW h \in Handlers, NEW a \in Apps, TargetOp(h, a)
      PROVE  UNCHANGED sent
  BY <1>1, TargetFrame DEF TypeOK, brokerVars
<1>2. ASSUME NEW h \in Handlers, AnswerOp(h) PROVE UNCHANGED sent
  BY <1>2 DEF AnswerOp, NackRequeue, NackDeadLetter, Ack, AnswerLost, Requeue,
              DeadLetter, Drop, brokerVars
<1>3. ASSUME NEW h \in Handlers, NEW e \in Events, TakeOp(h, e)
      PROVE  UNCHANGED sent
  BY <1>3 DEF TakeOp, StartDelivery, RejectUnresolvable, AckWithoutTargets, Hand
<1>4. ASSUME NEW e \in Events, NEW a \in Apps,
             LateArrival(e, a) \/ TokenRecorded(e, a)
      PROVE  UNCHANGED sent
  BY <1>4 DEF LateArrival, TokenRecorded, brokerVars
<1>5. CASE WorkerLost
  BY <1>5 DEF WorkerLost
<1>6. QED
  BY <1>1, <1>2, <1>3, <1>4, <1>5 DEF WorkerOp

\* Every step keeps SendsAccounted.
LEMMA SendsSteps ==
  ASSUME TypeOK, SendsAccounted, [Next]_vars
  PROVE  SendsAccounted'
<1>1. faults \in Nat /\ faults' \in Nat /\ faults <= faults'
  BY StepCases, MaxFaultsAssumption DEF TypeOK
<1>2. sent \in [Events -> Nat] /\ outbox \in [Events -> {"absent", "unpublished", "published"}]
        /\ batch \subseteq Events /\ marking \in Events \cup {NoEvent}
  BY DEF TypeOK, BrokerTypeOK, OutboxTypeOK
<1> USE DEF SendsAccounted, SentWithinFaults
<1>3. ASSUME NEW e \in Events, CommitEvent(e) PROVE SendsAccounted'
  <2>1. UNCHANGED <<batch, marking, sent>> /\ outbox[e] = "absent" /\ sent[e] = 0
    BY <1>3 DEF CommitEvent, brokerVars
  <2>2. \A f \in Events :
          outbox'[f] = IF f = e THEN "unpublished" ELSE outbox[f]
    BY <1>2, <1>3 DEF CommitEvent
  <2>3. QED
    BY <1>1, <1>2, <2>1, <2>2
<1>4. ASSUME NEW e \in Events, PublishConfirmed(e) PROVE SendsAccounted'
  <2>1. /\ e \in batch /\ marking = NoEvent /\ marking' = e
        /\ batch' = batch \ {e} /\ UNCHANGED outbox
    BY <1>4 DEF PublishConfirmed, IsNext
  <2>2. \A f \in Events : sent'[f] = IF f = e THEN sent[f] + 1 ELSE sent[f]
    BY <1>2, <1>4 DEF PublishConfirmed, Enqueue
  <2>3. QED
    BY <1>1, <1>2, <2>1, <2>2
<1>5. ASSUME NEW e \in Events, PublishFails(e), faults' = faults + 1
      PROVE  SendsAccounted'
  <2>1. /\ e \in batch /\ marking = NoEvent /\ batch' = batch \ {e}
        /\ UNCHANGED <<outbox, marking>>
    BY <1>5 DEF PublishFails, IsNext
  <2>2. \A f \in Events :
          sent'[f] \in {sent[f], IF f = e THEN sent[f] + 1 ELSE sent[f]}
    BY <1>2, <1>5 DEF PublishFails, Enqueue, brokerVars
  <2>3. QED
    BY <1>1, <1>2, <1>5, <2>1, <2>2
<1>6. CASE ListUnpublished
  <2>1. /\ UNCHANGED <<outbox, marking, sent>> /\ marking = NoEvent
        /\ \A e \in batch' : outbox[e] = "unpublished"
    BY <1>6 DEF ListUnpublished, PublisherIdle, OldestUnpublished, Unpublished,
                brokerVars
  <2>2. QED
    BY <1>1, <1>2, <2>1
<1>7. CASE MarkPublished
  <2>1. marking \in Events /\ marking' = NoEvent /\ UNCHANGED <<batch, sent>>
    BY <1>2, <1>7 DEF MarkPublished, brokerVars
  <2>2. \A f \in Events :
          outbox'[f] = IF f = marking THEN "published" ELSE outbox[f]
    BY <1>2, <1>7 DEF MarkPublished
  <2>3. QED
    BY <1>1, <1>2, <2>1, <2>2
<1>8. ASSUME MarkPublishedFails, faults' = faults + 1
      PROVE  SendsAccounted'
  <2>1. marking' = NoEvent /\ UNCHANGED <<outbox, batch, sent>>
    BY <1>8 DEF MarkPublishedFails, brokerVars
  <2>2. QED
    BY <1>1, <1>2, <1>8, <2>1
<1>9. ASSUME PublisherLost, WorkerLost, faults' = faults + 1 \/ marking = NoEvent
      PROVE  SendsAccounted'
  <2>1. marking' = NoEvent /\ batch' = {} /\ UNCHANGED <<outbox, sent>>
    BY <1>9, WorkerSendsNothing DEF PublisherLost
  <2>2. QED
    BY <1>1, <1>2, <1>9, <2>1
<1>10. ASSUME UNCHANGED <<outboxVars, sent>> PROVE SendsAccounted'
  <2>1. UNCHANGED <<outbox, batch, marking, sent>>
    BY <1>10 DEF outboxVars
  <2>2. QED
    BY <1>1, <1>2, <2>1
<1>11. CASE WorkerOp /\ UNCHANGED outboxVars
  BY <1>10, <1>11, WorkerSendsNothing
<1>12. CASE UNCHANGED <<brokerVars, outboxVars, workerVars>>
  BY <1>10, <1>12 DEF brokerVars
<1>13. QED
  BY <1>3, <1>4, <1>5, <1>6, <1>7, <1>8, <1>9, <1>11, <1>12, StepCases
     DEF PublisherOp, PublisherFailure

\* The publisher duplicates an event at most once per fault.
THEOREM SendsAreBounded == Spec => []SentWithinFaults
<1> DEFINE I == TypeOK /\ GoroutinesOwned /\ SendsAccounted
<1>1. Init => I
  <2>1. Init => SendsAccounted
    BY DEF Init, BrokerInit, OutboxInit, SendsAccounted, SentWithinFaults
  <2>2. QED
    BY <2>1, TypesInitially
<1>2. I /\ [Next]_vars => I'
  BY TypeSteps, SendsSteps
<1>3. I => SentWithinFaults
  BY DEF SendsAccounted
<1>4. QED
  BY <1>1, <1>2, <1>3, PTL DEF Spec

-----------------------------------------------------------------------------
(* No published event is lost.                                             *)

\* Where an event can be found once it was published.
Kept(e) == ready[e] > 0 \/ Held(e) # {} \/ dead[e] > 0 \/ Closed(e)

\* A kept event stays kept while the places it can be in are unchanged.
LEMMA KeptStays ==
  ASSUME NEW e \in Events, Kept(e),
         ready[e] > 0 => ready'[e] > 0,
         dead[e] > 0 => dead'[e] > 0,
         Held(e) # {} => Held(e)' # {},
         settled \subseteq settled'
  PROVE  Kept(e)'
<1>1. Closed(e) => Closed(e)'
  BY DEF Closed
<1>2. QED
  BY <1>1 DEF Kept

\* No step of the worker loses the last copy of an event.
LEMMA WorkerKeeps ==
  ASSUME TypeOK, GoroutinesOwned, WorkerOp \/ WorkerLost,
         NEW e \in Events, Kept(e)
  PROVE  Kept(e)'
<1>0. /\ ready \in [Events -> Nat] /\ dead \in [Events -> Nat]
      /\ delivery \in [Handlers -> Events \cup {NoEvent}]
      /\ settled \subseteq Events \X SUBSET Apps
  BY DEF TypeOK, BrokerTypeOK, WorkerTypeOK
<1>1. ASSUME UNCHANGED <<ready, dead, delivery, settled>> PROVE Kept(e)'
  BY <1>1 DEF Kept, Held, Closed
<1>2. ASSUME NEW h \in Handlers, NEW a \in Apps, TargetOp(h, a) PROVE Kept(e)'
  BY <1>1, <1>2, TargetFrame DEF TypeOK, brokerVars
<1>3. ASSUME NEW h \in Handlers, AnswerOp(h) PROVE Kept(e)'
  <2>1. Finished(h) /\ Release(h) /\ delivery[h] \in Events
    BY <1>0, <1>3 DEF AnswerOp, NackRequeue, NackDeadLetter, Ack, AnswerLost,
                      Finished
  <2>2. CASE delivery[h] # e
    <3>1. Held(e)' = Held(e)
      BY <1>0, <2>1, <2>2 DEF Held, Release
    <3>2. ready'[e] = ready[e] /\ dead'[e] = dead[e] /\ settled \subseteq settled'
      <4>1. CASE NackRequeue(h) \/ AnswerLost(h)
        BY <1>0, <2>1, <2>2, <4>1 DEF NackRequeue, AnswerLost, Requeue
      <4>2. CASE NackDeadLetter(h)
        BY <1>0, <2>1, <2>2, <4>2 DEF NackDeadLetter, DeadLetter
      <4>3. CASE Ack(h)
        BY <4>3 DEF Ack, Drop, brokerVars
      <4>4. QED
        BY <1>3, <4>1, <4>2, <4>3 DEF AnswerOp
    <3>3. QED
      BY <3>1, <3>2, KeptStays
  <2>3. CASE delivery[h] = e
    <3>1. CASE NackRequeue(h) \/ AnswerLost(h)
      <4>1. ready'[e] = ready[e] + 1
        BY <1>0, <2>3, <3>1 DEF NackRequeue, AnswerLost, Requeue
      <4>2. QED
        BY <1>0, <4>1 DEF Kept
    <3>2. CASE NackDeadLetter(h)
      <4>1. dead'[e] = dead[e] + 1
        BY <1>0, <2>3, <3>2 DEF NackDeadLetter, DeadLetter
      <4>2. QED
        BY <1>0, <4>1 DEF Kept
    <3>3. CASE Ack(h)
      <4>1. Targets(h) \in SUBSET Apps /\ <<e, Targets(h)>> \in settled'
        BY <2>3, <3>3 DEF Ack, Targets
      <4>2. QED
        BY <4>1 DEF Kept, Closed
    <3>4. QED
      BY <1>3, <3>1, <3>2, <3>3 DEF AnswerOp
  <2>4. QED
    BY <2>2, <2>3
<1>4. ASSUME NEW h \in Handlers, NEW f \in Events, TakeOp(h, f) PROVE Kept(e)'
  <2>1. CASE StartDelivery(h, f)
    <3>1. CASE f = e
      BY <1>0, <2>1, <3>1 DEF StartDelivery, Held, Kept
    <3>2. CASE f # e
      <4>1. ready'[e] = ready[e] /\ UNCHANGED <<dead, settled>>
        BY <1>0, <2>1, <3>2 DEF StartDelivery, Hand
      <4>2. Held(e) \subseteq Held(e)'
        BY <1>0, <2>1 DEF StartDelivery, Held, Free
      <4>3. QED
        BY <4>1, <4>2 DEF Kept, Closed
    <3>3. QED
      BY <3>1, <3>2
  <2>2. CASE RejectUnresolvable(h, f)
    <3>1. CASE f = e
      BY <1>0, <2>2, <3>1 DEF RejectUnresolvable, Kept
    <3>2. CASE f # e
      <4>1. /\ ready'[e] = ready[e] /\ dead'[e] = dead[e]
            /\ UNCHANGED <<delivery, settled>>
        BY <1>0, <2>2, <3>2 DEF RejectUnresolvable, workerVars, handlerVars
      <4>2. QED
        BY <4>1 DEF Kept, Held, Closed
    <3>3. QED
      BY <3>1, <3>2
  <2>3. CASE AckWithoutTargets(h, f)
    <3>1. CASE f = e
      BY <2>3, <3>1 DEF AckWithoutTargets, Kept, Closed
    <3>2. CASE f # e
      <4>1. /\ ready'[e] = ready[e] /\ UNCHANGED <<dead, delivery>>
            /\ settled \subseteq settled'
        BY <1>0, <2>3, <3>2 DEF AckWithoutTargets, Hand, handlerVars
      <4>2. QED
        BY <4>1 DEF Kept, Held, Closed
    <3>3. QED
      BY <3>1, <3>2
  <2>4. QED
    BY <1>4, <2>1, <2>2, <2>3 DEF TakeOp
<1>5. ASSUME NEW f \in Events, NEW a \in Apps,
             LateArrival(f, a) \/ TokenRecorded(f, a)
      PROVE  UNCHANGED <<ready, dead, delivery, settled>>
  BY <1>5 DEF LateArrival, TokenRecorded, brokerVars, handlerVars
<1>6. CASE WorkerLost
  <2>1. ready'[e] = ready[e] + Cardinality(Held(e)) /\ UNCHANGED <<dead, settled>>
    BY <1>6 DEF WorkerLost
  <2>2. CASE Held(e) # {}
    <3>1. Cardinality(Held(e)) \in Nat /\ Cardinality(Held(e)) # 0
      BY <2>2, HeldFinite, FS_EmptySet
    <3>2. QED
      BY <1>0, <2>1, <3>1 DEF Kept
  <2>3. CASE Held(e) = {}
    <3>1. ready'[e] = ready[e]
      BY <1>0, <2>1, <2>3, FS_EmptySet
    <3>2. QED
      BY <2>1, <2>3, <3>1, KeptStays
  <2>4. QED
    BY <2>2, <2>3
<1>7. QED
  BY <1>1, <1>2, <1>3, <1>4, <1>5, <1>6 DEF WorkerOp

\* Every step keeps NoEventLost.
LEMMA NotLostSteps ==
  ASSUME TypeOK, GoroutinesOwned, NoEventLost, [Next]_vars
  PROVE  NoEventLost'
<1>0. /\ ready \in [Events -> Nat] /\ marking \in Events \cup {NoEvent}
      /\ outbox \in [Events -> {"absent", "unpublished", "published"}]
  BY DEF TypeOK, BrokerTypeOK, OutboxTypeOK
<1>1. \A e \in Events : outbox[e] = "published" \/ marking = e => Kept(e)
  BY DEF NoEventLost, Kept
<1>2. ASSUME NEW e \in Events, outbox'[e] = "published" \/ marking' = e
      PROVE  Kept(e)'
  <2>1. CASE WorkerOp /\ UNCHANGED outboxVars
    BY <1>1, <1>2, <2>1, WorkerKeeps DEF outboxVars
  <2>2. CASE PublisherLost /\ WorkerLost
    BY <1>1, <1>2, <2>2, WorkerKeeps DEF PublisherLost
  <2>3. ASSUME UNCHANGED <<dead, workerVars>>,
               ready'[e] \in Nat /\ ready'[e] >= ready[e],
               outbox[e] = "published" \/ marking = e \/ ready'[e] > 0
        PROVE  Kept(e)'
    <3>1. UNCHANGED <<delivery, settled>>
      BY <2>3 DEF workerVars, handlerVars
    <3>2. CASE Kept(e)
      BY <1>0, <2>3, <3>1, <3>2, KeptStays DEF Held
    <3>3. QED
      BY <1>1, <2>3, <3>2 DEF Kept
  <2>4. ASSUME NEW f \in Events, PublishConfirmed(f), UNCHANGED workerVars
        PROVE  Kept(e)'
    <3>1. /\ UNCHANGED <<dead, outbox>> /\ marking' = f
          /\ ready'[e] = IF f = e THEN ready[e] + 1 ELSE ready[e]
      BY <1>0, <2>4 DEF PublishConfirmed, Enqueue
    <3>2. QED
      BY <1>0, <1>2, <2>3, <2>4, <3>1
  <2>5. ASSUME NEW f \in Events, PublishFails(f), UNCHANGED workerVars
        PROVE  Kept(e)'
    <3>1. /\ UNCHANGED <<dead, outbox, marking>>
          /\ ready'[e] \in {ready[e], ready[e] + 1}
      BY <1>0, <2>5 DEF PublishFails, Enqueue, brokerVars
    <3>2. QED
      BY <1>0, <1>2, <2>3, <2>5, <3>1
  <2>6. ASSUME NEW f \in Events, CommitEvent(f), UNCHANGED workerVars
        PROVE  Kept(e)'
    <3>1. /\ UNCHANGED <<dead, ready, marking>>
          /\ outbox'[e] = "published" => outbox[e] = "published"
      BY <1>0, <2>6 DEF CommitEvent, brokerVars
    <3>2. QED
      BY <1>0, <1>2, <2>3, <2>6, <3>1
  <2>7. ASSUME ListUnpublished \/ MarkPublished \/ MarkPublishedFails,
               UNCHANGED workerVars
        PROVE  Kept(e)'
    <3>1. UNCHANGED <<dead, ready>>
      BY <2>7 DEF ListUnpublished, MarkPublished, MarkPublishedFails, brokerVars
    <3>2. outbox[e] = "published" \/ marking = e
      <4>1. CASE MarkPublished
        BY <1>0, <1>2, <4>1 DEF MarkPublished
      <4>2. CASE ListUnpublished
        BY <1>2, <4>2 DEF ListUnpublished
      <4>3. CASE MarkPublishedFails
        <5>1. outbox' = outbox /\ marking' # e
          BY <4>3 DEF MarkPublishedFails
        <5>2. QED
          BY <1>2, <5>1
      <4>4. QED
        BY <2>7, <4>1, <4>2, <4>3
    <3>3. QED
      BY <1>0, <2>3, <2>7, <3>1, <3>2
  <2>8. CASE UNCHANGED <<brokerVars, outboxVars, workerVars>>
    BY <1>0, <1>2, <2>3, <2>8 DEF brokerVars, outboxVars
  <2>9. QED
    BY <2>1, <2>2, <2>4, <2>5, <2>6, <2>7, <2>8, StepCases
       DEF PublisherOp, PublisherFailure
<1>3. QED
  BY <1>2 DEF NoEventLost, Kept

\* An event that is marked published, or about to be, is never lost.
THEOREM PublishedIsKept == Spec => []NoEventLost
<1> DEFINE I == TypeOK /\ GoroutinesOwned /\ NoEventLost
<1>1. Init => I
  <2>1. Init => NoEventLost
    BY DEF Init, OutboxInit, NoEventLost
  <2>2. QED
    BY <2>1, TypesInitially
<1>2. I /\ [Next]_vars => I'
  BY TypeSteps, NotLostSteps
<1>3. QED
  BY <1>1, <1>2, PTL DEF Spec

-----------------------------------------------------------------------------
(* The broker's copies.                                                    *)

\* The copies of e, wherever they are.
Copies(e) == ready[e] + Cardinality(Held(e)) + dead[e]

\* Taking a copy adds its handler to those who hold one.
LEMMA HeldWhenTaken ==
  ASSUME WorkerTypeOK, NEW h \in Handlers, NEW e \in Events, Free(h),
         delivery' = [delivery EXCEPT ![h] = e], NEW f \in Events
  PROVE  Cardinality(Held(f)') =
           IF f = e THEN Cardinality(Held(f)) + 1 ELSE Cardinality(Held(f))
<1>1. CASE f = e
  <2>1. Held(f)' = Held(f) \cup {h} /\ h \notin Held(f)
    BY <1>1 DEF Held, Free, WorkerTypeOK
  <2>2. QED
    BY <1>1, <2>1, HeldFinite, FS_AddElement
<1>2. CASE f # e
  <2>1. Held(f)' = Held(f)
    BY <1>2 DEF Held, Free, WorkerTypeOK
  <2>2. QED
    BY <1>2, <2>1
<1>3. QED
  BY <1>1, <1>2

\* Answering a delivery removes its handler from those who hold a copy.
LEMMA HeldWhenReleased ==
  ASSUME WorkerTypeOK, NEW h \in Handlers, delivery[h] \in Events, Release(h),
         NEW f \in Events
  PROVE  Cardinality(Held(f)') =
           IF f = delivery[h] THEN Cardinality(Held(f)) - 1
                              ELSE Cardinality(Held(f))
<1>1. CASE f = delivery[h]
  <2>1. Held(f)' = Held(f) \ {h} /\ h \in Held(f)
    BY <1>1 DEF Held, Release, WorkerTypeOK
  <2>2. QED
    BY <1>1, <2>1, HeldFinite, FS_RemoveElement
<1>2. CASE f # delivery[h]
  <2>1. Held(f)' = Held(f)
    BY <1>2 DEF Held, Release, WorkerTypeOK
  <2>2. QED
    BY <1>2, <2>1
<1>3. QED
  BY <1>1, <1>2

\* The consuming half of the system makes no copy.
LEMMA WorkerCopies ==
  ASSUME TypeOK, GoroutinesOwned, WorkerOp \/ WorkerLost, NEW f \in Events
  PROVE  Copies(f)' <= Copies(f)
<1>0. /\ ready \in [Events -> Nat] /\ dead \in [Events -> Nat]
      /\ WorkerTypeOK
      /\ delivery \in [Handlers -> Events \cup {NoEvent}]
      /\ Cardinality(Held(f)) \in Nat
  BY HeldFinite DEF TypeOK, BrokerTypeOK, WorkerTypeOK
<1>1. ASSUME UNCHANGED <<ready, dead, delivery>> PROVE Copies(f)' <= Copies(f)
  <2>1. Copies(f)' = Copies(f)
    BY <1>1 DEF Copies, Held
  <2>2. Copies(f) \in Nat
    BY <1>0 DEF Copies
  <2>3. QED
    BY <2>1, <2>2
<1>2. ASSUME NEW h \in Handlers, NEW a \in Apps, TargetOp(h, a)
      PROVE  UNCHANGED <<ready, dead, delivery>>
  BY <1>0, <1>2, TargetFrame DEF brokerVars
<1>3. ASSUME NEW h \in Handlers, AnswerOp(h) PROVE Copies(f)' <= Copies(f)
  <2>1. Release(h) /\ delivery[h] \in Events
    BY <1>0, <1>3 DEF AnswerOp, NackRequeue, NackDeadLetter, Ack, AnswerLost,
                      Finished
  <2>2. Cardinality(Held(f)') = IF f = delivery[h] THEN Cardinality(Held(f)) - 1
                                                   ELSE Cardinality(Held(f))
    BY <1>0, <2>1, HeldWhenReleased
  <2>3. \/ /\ ready'[f] = IF f = delivery[h] THEN ready[f] + 1 ELSE ready[f]
           /\ dead'[f] = dead[f]
        \/ /\ dead'[f] = IF f = delivery[h] THEN dead[f] + 1 ELSE dead[f]
           /\ ready'[f] = ready[f]
        \/ ready'[f] = ready[f] /\ dead'[f] = dead[f]
    <3>1. CASE NackRequeue(h) \/ AnswerLost(h)
      BY <1>0, <3>1 DEF NackRequeue, AnswerLost, Requeue
    <3>2. CASE NackDeadLetter(h)
      BY <1>0, <3>2 DEF NackDeadLetter, DeadLetter
    <3>3. CASE Ack(h)
      BY <3>3 DEF Ack, Drop, brokerVars
    <3>4. QED
      BY <1>3, <3>1, <3>2, <3>3 DEF AnswerOp
  <2>4. ready[f] \in Nat /\ dead[f] \in Nat
    BY <1>0
  <2>5. QED
    BY <1>0, <2>2, <2>3, <2>4 DEF Copies
<1>4. ASSUME NEW h \in Handlers, NEW e \in Events, TakeOp(h, e)
      PROVE  Copies(f)' <= Copies(f)
  <2>1. CASE StartDelivery(h, e)
    <3>1. Cardinality(Held(f)') = IF f = e THEN Cardinality(Held(f)) + 1
                                           ELSE Cardinality(Held(f))
      BY <1>0, <2>1, HeldWhenTaken DEF StartDelivery
    <3>2. /\ ready'[f] = IF f = e THEN ready[f] - 1 ELSE ready[f]
          /\ dead'[f] = dead[f]
      BY <1>0, <2>1 DEF StartDelivery, Hand
    <3>3. QED
      BY <1>0, <3>1, <3>2 DEF Copies
  <2>2. CASE RejectUnresolvable(h, e) \/ AckWithoutTargets(h, e)
    <3>1. Held(f)' = Held(f)
      BY <2>2 DEF RejectUnresolvable, AckWithoutTargets, workerVars, handlerVars,
                  Held
    <3>2. /\ ready'[f] = IF f = e THEN ready[f] - 1 ELSE ready[f]
          /\ dead'[f] \in {dead[f], IF f = e THEN dead[f] + 1 ELSE dead[f]}
      BY <1>0, <2>2 DEF RejectUnresolvable, AckWithoutTargets, Hand
    <3>3. QED
      BY <1>0, <3>1, <3>2 DEF Copies
  <2>3. QED
    BY <1>4, <2>1, <2>2 DEF TakeOp
<1>5. ASSUME NEW e \in Events, NEW a \in Apps,
             LateArrival(e, a) \/ TokenRecorded(e, a)
      PROVE  UNCHANGED <<ready, dead, delivery>>
  BY <1>5 DEF LateArrival, TokenRecorded, brokerVars, handlerVars
<1>6. CASE WorkerLost
  <2>1. /\ ready'[f] = ready[f] + Cardinality(Held(f))
        /\ dead'[f] = dead[f]
        /\ Held(f)' = {}
    BY <1>6 DEF WorkerLost, Held
  <2>2. QED
    BY <1>0, <2>1, FS_EmptySet DEF Copies
<1>7. QED
  BY <1>1, <1>2, <1>3, <1>4, <1>5, <1>6 DEF WorkerOp

\* The publisher makes as many copies as it sends.
LEMMA PublisherCopies ==
  ASSUME TypeOK, PublisherOp \/ PublisherFailure, UNCHANGED workerVars,
         NEW f \in Events
  PROVE  /\ UNCHANGED <<dead, Held(f)>>
         /\ \/ ready'[f] = ready[f] /\ sent'[f] = sent[f]
            \/ ready'[f] = ready[f] + 1 /\ sent'[f] = sent[f] + 1
<1>1. UNCHANGED Held(f)
  BY DEF Held, workerVars, handlerVars
<1>2. ASSUME NEW e \in Events, CommitEvent(e) \/ PublishConfirmed(e) \/ PublishFails(e)
      PROVE  Enqueue(e) \/ UNCHANGED brokerVars
  BY <1>2 DEF CommitEvent, PublishConfirmed, PublishFails
<1>3. ASSUME ListUnpublished \/ MarkPublished \/ MarkPublishedFails
      PROVE  UNCHANGED brokerVars
  BY <1>3 DEF ListUnpublished, MarkPublished, MarkPublishedFails
<1>4. CASE UNCHANGED brokerVars
  BY <1>1, <1>4 DEF brokerVars
<1>5. ASSUME NEW e \in Events, Enqueue(e)
      PROVE  /\ UNCHANGED dead
             /\ \/ ready'[f] = ready[f] /\ sent'[f] = sent[f]
                \/ ready'[f] = ready[f] + 1 /\ sent'[f] = sent[f] + 1
  BY <1>5 DEF Enqueue, TypeOK, BrokerTypeOK
<1>6. QED
  BY <1>1, <1>2, <1>3, <1>4, <1>5 DEF PublisherOp, PublisherFailure

\* Every step keeps CopiesConserved.
LEMMA CopiesSteps ==
  ASSUME TypeOK, GoroutinesOwned, CopiesConserved, [Next]_vars
  PROVE  CopiesConserved'
<1>0. TypeOK'
  BY TypeSteps
<1>1. ASSUME NEW f \in Events PROVE Copies(f)' <= sent'[f]
  <2>0. /\ ready[f] \in Nat /\ dead[f] \in Nat /\ sent[f] \in Nat
        /\ sent'[f] \in Nat /\ ready'[f] \in Nat /\ dead'[f] \in Nat
        /\ Cardinality(Held(f)) \in Nat
        /\ Cardinality(Held(f)') \in Nat
    <3>1. Held(f)' \subseteq Handlers
      BY DEF Held
    <3>2. Cardinality(Held(f)') \in Nat
      BY <3>1, HandlersAssumption, FS_Subset, FS_CardinalityType
    <3>3. QED
      BY <1>0, <3>2, HeldFinite DEF TypeOK, BrokerTypeOK
  <2>1. Copies(f) <= sent[f]
    BY DEF CopiesConserved, Copies
  <2>2. CASE WorkerOp \/ WorkerLost
    <3>1. Copies(f)' <= Copies(f) /\ UNCHANGED sent
      BY <2>2, WorkerCopies, WorkerSendsNothing
    <3>2. QED
      BY <2>0, <2>1, <3>1 DEF Copies
  <2>3. CASE (PublisherOp \/ PublisherFailure) /\ UNCHANGED workerVars
    BY <2>0, <2>1, <2>3, PublisherCopies DEF Copies
  <2>4. CASE UNCHANGED <<brokerVars, outboxVars, workerVars>>
    BY <2>1, <2>4 DEF Copies, Held, brokerVars, workerVars, handlerVars
  <2>5. QED
    BY <2>2, <2>3, <2>4, StepCases
<1>2. QED
  BY <1>1 DEF CopiesConserved, Copies

\* No copy is made but by publishing: initially there is none.
LEMMA CopiesInitially ==
  ASSUME Init
  PROVE  CopiesConserved
<1>1. ASSUME NEW e \in Events PROVE Held(e) = {}
  BY <1>1 DEF Init, WorkerInit, Held
<1>2. QED
  BY <1>1, FS_EmptySet DEF Init, BrokerInit, CopiesConserved

\* Requeues, crashes, lost answers and dead-lettering never multiply a message:
\* the copies that wait, are handled or are dead-lettered are at most those the
\* broker took.
THEOREM NoCopyFromNothing == Spec => []CopiesConserved
<1> DEFINE I == TypeOK /\ GoroutinesOwned /\ CopiesConserved
<1>1. Init => I
  BY TypesInitially, CopiesInitially
<1>2. I /\ [Next]_vars => I'
  BY TypeSteps, CopiesSteps
<1>3. QED
  BY <1>1, <1>2, PTL DEF Spec

-----------------------------------------------------------------------------
(* The row of an event that was published once.                            *)

\* Of an event with one copy there is one handler, and no other copy.
LEMMA OneOwner ==
  ASSUME TypeOK, CopiesConserved, NEW e \in Events, sent[e] <= 1,
         NEW h \in Handlers, delivery[h] = e
  PROVE  /\ ready[e] = 0 /\ dead[e] = 0 /\ sent[e] = 1
         /\ \A g \in Handlers : delivery[g] = e => g = h
<1>1. /\ ready[e] \in Nat /\ dead[e] \in Nat /\ sent[e] \in Nat
      /\ Cardinality(Held(e)) \in Nat /\ IsFiniteSet(Held(e))
      /\ ready[e] + Cardinality(Held(e)) + dead[e] <= sent[e]
  BY HeldFinite DEF TypeOK, BrokerTypeOK, CopiesConserved
<1>2. Held(e) # {}
  BY DEF Held
<1>3. Cardinality(Held(e)) # 0
  BY <1>1, <1>2, FS_EmptySet
<1>4. ASSUME NEW g \in Handlers, delivery[g] = e, g # h PROVE FALSE
  <2>1. {h} \cup {g} \in SUBSET Held(e)
    BY <1>4 DEF Held
  <2>2. Cardinality({h} \cup {g}) = 2
    <3>1. IsFiniteSet({h}) /\ Cardinality({h}) = 1 /\ g \notin {h}
      BY <1>4, FS_Singleton
    <3>2. QED
      BY <3>1, FS_AddElement
  <2>3. Cardinality({h} \cup {g}) <= Cardinality(Held(e))
    BY <1>1, <2>1, FS_Subset
  <2>4. QED
    BY <1>1, <2>2, <2>3
<1>5. QED
  BY <1>1, <1>3, <1>4

\* Steps other than a goroutine's leave the rows alone; a goroutine they leave
\* behind has just begun, or stands where it stood.
LEMMA OtherSteps ==
  ASSUME TypeOK, GoroutinesOwned, [Next]_vars
  PROVE  \/ \E h \in Handlers, a \in Apps : TargetOp(h, a)
         \/ /\ UNCHANGED rowVars
            /\ \A g \in Handlers, b \in Apps :
                 \/ pc'[g][b] \in {"none", "begin"}
                 \/ pc'[g][b] = pc[g][b] /\ delivery'[g] = delivery[g]
<1> DEFINE Stands == \A g \in Handlers, b \in Apps :
                       \/ pc'[g][b] \in {"none", "begin"}
                       \/ pc'[g][b] = pc[g][b] /\ delivery'[g] = delivery[g]
<1>1. ASSUME NEW h \in Handlers, AnswerOp(h) PROVE UNCHANGED rowVars /\ Stands
  <2>1. Release(h)
    BY <1>1 DEF AnswerOp, NackRequeue, NackDeadLetter, Ack, AnswerLost
  <2>2. QED
    BY <2>1 DEF Release, Idle, TypeOK, WorkerTypeOK
<1>2. ASSUME NEW h \in Handlers, NEW e \in Events, TakeOp(h, e)
      PROVE  UNCHANGED rowVars /\ Stands
  <2>1. CASE StartDelivery(h, e)
    BY <2>1 DEF StartDelivery, TypeOK, WorkerTypeOK
  <2>2. CASE RejectUnresolvable(h, e) \/ AckWithoutTargets(h, e)
    BY <2>2 DEF RejectUnresolvable, AckWithoutTargets, workerVars, handlerVars
  <2>3. QED
    BY <1>2, <2>1, <2>2 DEF TakeOp
<1>3. ASSUME NEW e \in Events, NEW a \in Apps,
             LateArrival(e, a) \/ TokenRecorded(e, a)
      PROVE  UNCHANGED rowVars /\ Stands
  BY <1>3 DEF LateArrival, TokenRecorded, handlerVars
<1>4. CASE WorkerLost
  BY <1>4 DEF WorkerLost, Idle
<1>5. CASE UNCHANGED workerVars
  BY <1>5 DEF workerVars, handlerVars
<1>6. QED
  BY <1>1, <1>2, <1>3, <1>4, <1>5, StepCases DEF WorkerOp

\* A publication is never taken back.
LEMMA SentGrows ==
  ASSUME TypeOK, [Next]_vars, NEW e \in Events
  PROVE  /\ sent[e] \in Nat /\ sent'[e] \in Nat /\ sent[e] <= sent'[e]
<1>1. sent[e] \in Nat
  BY DEF TypeOK, BrokerTypeOK
<1>2. CASE WorkerOp \/ WorkerLost
  BY <1>1, <1>2, WorkerSendsNothing
<1>3. CASE (PublisherOp \/ PublisherFailure) /\ UNCHANGED workerVars
  BY <1>1, <1>3, PublisherCopies
<1>4. CASE UNCHANGED <<brokerVars, outboxVars, workerVars>>
  BY <1>1, <1>4 DEF brokerVars
<1>5. QED
  BY <1>2, <1>3, <1>4, StepCases

\* A goroutine's step leaves every row but its own alone; its own it claims,
\* when the row is not terminal, or marks, when it has claimed it before.
LEMMA RowWriters ==
  ASSUME TypeOK, GoroutinesOwned, NEW h \in Handlers, NEW a \in Apps,
         TargetOp(h, a), NEW f \in Events, NEW b \in Apps
  PROVE  \/ status'[f][b] = status[f][b]
         \/ /\ f = delivery[h] /\ b = a
            /\ \/ pc[h][a] = "begin" /\ Claimable(status[f][b])
               \/ pc[h][a] \in Marking
<1> DEFINE e == delivery[h]
<1>1. e \in Events /\ status \in [Events -> [Apps -> Statuses]]
  BY TargetBusy DEF TypeOK, WorkerTypeOK
<1>2. ASSUME NEW st, status' = [status EXCEPT ![e][a] = st]
      PROVE  status'[f][b] = IF f = e /\ b = a THEN st ELSE status[f][b]
  BY <1>1, <1>2, UpdatedEntry
<1>3. CASE Begin(h, a)
  <2>1. CASE UNCHANGED rowVars
    BY <2>1 DEF rowVars
  <2>2. CASE Claimable(status[e][a]) /\ status' = [status EXCEPT ![e][a] = "processing"]
    BY <1>2, <1>3, <2>2 DEF Begin
  <2>3. QED
    BY <1>3, <2>1, <2>2 DEF Begin
<1>4. CASE PostSucceeds(h, a) \/ \E ctxDone \in BOOLEAN : PostFails(h, a, ctxDone)
  BY <1>4 DEF PostSucceeds, PostFails, rowVars
<1>5. CASE Mark(h, a) \/ StoreFails(h, a)
  <2>1. \/ UNCHANGED status
        \/ /\ pc[h][a] \in Marking
           /\ status' = [status EXCEPT ![e][a] = MarkedStatus(pc[h][a])]
    BY <1>5 DEF Mark, StoreFails, WriteStatus
  <2>2. QED
    BY <1>2, <2>1
<1>6. QED
  BY <1>3, <1>4, <1>5 DEF TargetOp

\* Where a goroutine's step leads when it ends with its claim.
LEMMA ClaimTarget ==
  ASSUME TypeOK, GoroutinesOwned, ClaimKept, NEW h \in Handlers, NEW a \in Apps,
         TargetOp(h, a), pc'[h][a] \in Posting \cup Marking,
         sent[delivery[h]] <= 1
  PROVE  status'[delivery[h]][a] = "processing"
<1> DEFINE e == delivery[h]
<1>1. e \in Events /\ status \in [Events -> [Apps -> Statuses]]
  BY TargetBusy DEF TypeOK, WorkerTypeOK
<1>2. ASSUME NEW label, Goto(h, a, label) PROVE pc'[h][a] = label
  BY <1>2 DEF Goto, TypeOK, WorkerTypeOK
<1>3. CASE Begin(h, a)
  <2>1. CASE Goto(h, a, SeenOutcome(status[e][a]))
    BY <1>2, <2>1 DEF SeenOutcome, Posting, Marking
  <2>2. CASE status' = [status EXCEPT ![e][a] = "processing"]
    BY <1>1, <2>2, UpdatedEntry
  <2>3. QED
    BY <1>3, <2>1, <2>2 DEF Begin
<1>4. CASE PostSucceeds(h, a) \/ \E ctxDone \in BOOLEAN : PostFails(h, a, ctxDone)
  <2>1. pc[h][a] \in Posting /\ UNCHANGED status
    BY <1>4 DEF PostSucceeds, PostFails, rowVars
  <2>2. QED
    BY <2>1 DEF ClaimKept
<1>5. CASE Mark(h, a)
  <2>1. pc'[h][a] = AfterMark(pc[h][a]) /\ pc[h][a] \in Marking
    BY <1>2, <1>5 DEF Mark
  <2>2. QED
    BY <2>1 DEF AfterMark, Posting, Marking
<1>6. CASE StoreFails(h, a)
  BY <1>2, <1>6 DEF StoreFails, Posting, Marking
<1>7. QED
  BY <1>3, <1>4, <1>5, <1>6 DEF TargetOp

\* Every step keeps ClaimKept.
LEMMA ClaimSteps ==
  ASSUME TypeOK, GoroutinesOwned, CopiesConserved, ClaimKept, [Next]_vars
  PROVE  ClaimKept'
<1> SUFFICES ASSUME NEW g \in Handlers, NEW b \in Apps,
                    pc'[g][b] \in Posting \cup Marking,
                    sent'[delivery'[g]] <= 1
             PROVE  status'[delivery'[g]][b] = "processing"
  BY DEF ClaimKept
<1>1. CASE /\ UNCHANGED rowVars
           /\ pc'[g][b] = pc[g][b] /\ delivery'[g] = delivery[g]
  <2>1. delivery[g] \in Events
    BY <1>1 DEF GoroutinesOwned, Posting, Marking, TypeOK, WorkerTypeOK
  <2>2. sent[delivery[g]] <= 1
    BY <1>1, <2>1, SentGrows
  <2>3. QED
    BY <1>1, <2>2 DEF ClaimKept, rowVars
<1>2. CASE pc'[g][b] \in {"none", "begin"}
  BY <1>2 DEF Posting, Marking
<1>3. ASSUME NEW h \in Handlers, NEW a \in Apps, TargetOp(h, a)
      PROVE  status'[delivery'[g]][b] = "processing"
  <2>1. /\ UNCHANGED <<delivery, sent>>
        /\ <<g, b>> # <<h, a>> => pc'[g][b] = pc[g][b]
    BY <1>3, TargetFrame DEF TypeOK, brokerVars
  <2>2. CASE g = h /\ b = a
    BY <1>3, <2>1, <2>2, ClaimTarget
  <2>3. CASE g # h \/ b # a
    <3>1. delivery[g] \in Events /\ status[delivery[g]][b] = "processing"
      BY <2>1, <2>3 DEF ClaimKept, GoroutinesOwned, Posting, Marking, TypeOK,
                        WorkerTypeOK
    <3>2. ~ (delivery[g] = delivery[h] /\ b = a)
      BY <2>1, <2>3, <3>1, OneOwner
    <3>3. status'[delivery[g]][b] = status[delivery[g]][b]
      BY <1>3, <3>1, <3>2, RowWriters
    <3>4. QED
      BY <2>1, <3>1, <3>3
  <2>4. QED
    BY <2>2, <2>3
<1>4. QED
  BY <1>1, <1>2, <1>3, OtherSteps

\* Unless an event was published twice, a delivery row that has reached a
\* terminal status keeps it, whatever errors, crashes and redeliveries follow.
THEOREM TerminalStays == Spec => TerminalKept
<1> DEFINE I == TypeOK /\ GoroutinesOwned /\ CopiesConserved /\ ClaimKept
           Kept1 == \A e \in Events, a \in Apps :
                      sent[e] <= 1 /\ status[e][a] \in Terminal
                        => status'[e][a] = status[e][a]
<1>1. Init => I
  <2>1. Init => ClaimKept
    BY DEF Init, WorkerInit, ClaimKept, Idle, Posting, Marking
  <2>2. QED
    BY <2>1, TypesInitially, CopiesInitially
<1>2. I /\ [Next]_vars => I'
  BY TypeSteps, CopiesSteps, ClaimSteps
<1>3. I /\ [Next]_vars => Kept1
  <2> SUFFICES ASSUME I, [Next]_vars, NEW e \in Events, NEW a \in Apps,
                      sent[e] <= 1, status[e][a] \in Terminal
               PROVE  status'[e][a] = status[e][a]
    OBVIOUS
  <2>1. ASSUME NEW h \in Handlers, NEW b \in Apps, TargetOp(h, b),
               status'[e][a] # status[e][a]
        PROVE  FALSE
    <3>1. /\ e = delivery[h] /\ a = b
          /\ \/ Claimable(status[e][a])
             \/ pc[h][b] \in Marking
      BY <2>1, RowWriters
    <3>2. pc[h][b] \in Marking => status[e][a] = "processing"
      BY <3>1 DEF ClaimKept
    <3>3. QED
      BY <3>1, <3>2 DEF Claimable, Terminal
  <2>2. QED
    BY <2>1, OtherSteps DEF rowVars
<1>4. Spec => [][Kept1]_vars
  BY <1>1, <1>2, <1>3, PTL DEF Spec
<1>5. QED
  BY <1>4 DEF TerminalKept

-----------------------------------------------------------------------------
(* The retry budget.                                                       *)

\* What a goroutine may do, and a handler answer, when no store, broker or
\* process fails and the work context is alive.
CleanTargetOp(h, a) ==
  Begin(h, a) \/ PostSucceeds(h, a) \/ PostFails(h, a, FALSE) \/ Mark(h, a)

CleanAnswerOp(h) == NackRequeue(h) \/ NackDeadLetter(h) \/ Ack(h)

\* A step without a fault, from a running process to a running process.
LEMMA FaultFreeCases ==
  ASSUME TypeOK, [Next]_vars, phase = "up", faults' = faults
  PROVE  /\ phase' = "up"
         /\ \/ \E h \in Handlers, a \in Apps : CleanTargetOp(h, a)
            \/ \E h \in Handlers : CleanAnswerOp(h)
            \/ \E h \in Handlers, e \in Events : TakeOp(h, e)
            \/ PublisherOp /\ UNCHANGED workerVars
            \/ UNCHANGED <<handlerVars, rowVars, brokerVars>>
<1>0. faults \in Nat /\ faults' # faults + 1
  BY MaxFaultsAssumption DEF TypeOK
<1> USE <1>0 DEF processVars
<1>1. CASE ProviderStep
  <2>1. ASSUME NEW e \in Events, NEW a \in Apps, TokenRecorded(e, a)
        PROVE  UNCHANGED <<handlerVars, rowVars, brokerVars>>
    BY <2>1 DEF TokenRecorded
  <2>2. QED
    BY <1>1, <2>1 DEF ProviderStep, NoFault, PublisherOp
<1>2. CASE PublisherStep
  BY <1>2 DEF PublisherStep, NoFault, PublisherOp
<1>3. CASE PublisherFault \/ WorkerFault
  BY <1>3 DEF PublisherFault, WorkerFault, Fault
<1>4. ASSUME NEW e \in Events, Take(e)
      PROVE  phase' = "up" /\ \E h \in Handlers : TakeOp(h, e)
  BY <1>4 DEF Take, NoFault, TakeOp
<1>5. ASSUME NEW h \in Handlers, NEW a \in Apps, TargetStep(h, a)
      PROVE  phase' = "up" /\ CleanTargetOp(h, a)
  <2>1. CtxDone = FALSE
    BY DEF CtxDone
  <2>2. QED
    BY <1>5, <2>1 DEF TargetStep, NoFault, CleanTargetOp
<1>6. ASSUME NEW h \in Handlers, Answer(h)
      PROVE  phase' = "up" /\ CleanAnswerOp(h)
  BY <1>6 DEF Answer, NoFault, CleanAnswerOp
<1>7. CASE AppStep
  BY <1>7 DEF AppStep, NoFault, LateArrival
<1>8. CASE Signal \/ CancelWork \/ Exit \/ Crash \/ Restart
  BY <1>8 DEF Signal, CancelWork, Exit, Crash, Restart
<1>9. CASE UNCHANGED vars
  BY <1>9 DEF vars, workerVars
<1>10. QED
  BY <1>1, <1>2, <1>3, <1>4, <1>5, <1>6, <1>7, <1>8, <1>9 DEF Next

\* Deliveries are taken by a running process only; every other step lets a
\* goroutine stand, or ends it, or is a step of one of them.
LEMMA MoveCases ==
  ASSUME TypeOK, GoroutinesOwned, [Next]_vars
  PROVE  \/ \E h \in Handlers, a \in Apps : TargetOp(h, a)
         \/ /\ phase = "up" /\ phase' = "up" /\ faults' = faults
            /\ \E h \in Handlers, e \in Events : TakeOp(h, e)
         \/ /\ UNCHANGED rowVars
            /\ \A g \in Handlers, b \in Apps :
                 \/ pc'[g][b] = "none"
                 \/ pc'[g][b] = pc[g][b] /\ delivery'[g] = delivery[g]
<1> DEFINE Stands == \A g \in Handlers, b \in Apps :
                       \/ pc'[g][b] = "none"
                       \/ pc'[g][b] = pc[g][b] /\ delivery'[g] = delivery[g]
<1>1. ASSUME NEW h \in Handlers, AnswerOp(h) PROVE UNCHANGED rowVars /\ Stands
  <2>1. Release(h)
    BY <1>1 DEF AnswerOp, NackRequeue, NackDeadLetter, Ack, AnswerLost
  <2>2. QED
    BY <2>1 DEF Release, Idle, TypeOK, WorkerTypeOK
<1>2. CASE UNCHANGED workerVars
  BY <1>2 DEF workerVars, handlerVars
<1>3. CASE WorkerLost
  BY <1>3 DEF WorkerLost, Idle
<1>4. CASE ProviderStep
  BY <1>2, <1>4 DEF ProviderStep, TokenRecorded, handlerVars
<1>5. CASE PublisherStep \/ PublisherFault
  BY <1>2, <1>5 DEF PublisherStep, PublisherFault
<1>6. ASSUME NEW e \in Events, Take(e)
      PROVE  /\ phase = "up" /\ phase' = "up" /\ faults' = faults
             /\ \E h \in Handlers, f \in Events : TakeOp(h, f)
  BY <1>6 DEF Take, NoFault, TakeOp, processVars
<1>7. ASSUME NEW h \in Handlers, NEW a \in Apps, TargetStep(h, a)
      PROVE  TargetOp(h, a)
  BY <1>7 DEF TargetStep, TargetOp, CtxDone
<1>8. ASSUME NEW h \in Handlers, Answer(h) PROVE UNCHANGED rowVars /\ Stands
  <2>1. AnswerOp(h)
    BY <1>8 DEF Answer, AnswerOp
  <2>2. QED
    BY <1>1, <2>1
<1>9. CASE WorkerFault
  <2>1. \/ \E h \in Handlers, a \in Apps : TargetOp(h, a)
        \/ \E h \in Handlers : AnswerOp(h)
    BY <1>9 DEF WorkerFault, TargetOp, AnswerOp
  <2>2. QED
    BY <1>1, <2>1
<1>10. CASE AppStep
  BY <1>10 DEF AppStep, LateArrival, handlerVars
<1>11. CASE Signal \/ CancelWork \/ Restart
  BY <1>2, <1>11 DEF Signal, CancelWork, Restart
<1>12. CASE Exit \/ Crash
  BY <1>3, <1>12 DEF Exit, Crash
<1>13. CASE UNCHANGED vars
  BY <1>2, <1>13 DEF vars
<1>14. QED
  BY <1>4, <1>5, <1>6, <1>7, <1>8, <1>9, <1>10, <1>11, <1>12, <1>13 DEF Next

\* A goroutine's step counts an attempt of its own row, and when it claims it.
LEMMA AttemptWriters ==
  ASSUME TypeOK, GoroutinesOwned, NEW h \in Handlers, NEW a \in Apps,
         TargetOp(h, a), NEW f \in Events, NEW b \in Apps
  PROVE  \/ attempts'[f][b] = attempts[f][b]
         \/ /\ f = delivery[h] /\ b = a /\ pc[h][a] = "begin"
            /\ attempts'[f][b] = attempts[f][b] + 1
<1>1. delivery[h] \in Events /\ attempts \in [Events -> [Apps -> Nat]]
  BY TargetBusy DEF TypeOK, WorkerTypeOK
<1>2. CASE /\ Begin(h, a)
           /\ attempts' = [attempts EXCEPT
                 ![delivery[h]][a] = attempts[delivery[h]][a] + 1]
  <2>1. pc[h][a] = "begin"
    BY <1>2 DEF Begin
  <2>2. attempts'[f][b] = IF f = delivery[h] /\ b = a
                          THEN attempts[delivery[h]][a] + 1 ELSE attempts[f][b]
    BY <1>1, <1>2, UpdatedEntry
  <2>3. QED
    BY <2>1, <2>2
<1>3. QED
  BY <1>2, RowEffect

\* What the limit is, and that it falls short of what the faults allow by one
\* exactly for an event that was put back.
LEMMA LimitValue ==
  ASSUME TypeOK, NEW e \in Events
  PROVE  /\ faults \in Nat /\ MaxRetries \in Nat \ {0} /\ AttemptLimit(e) \in Nat
         /\ AttemptLimit(e) <= MaxRetries + faults
         /\ MaxRetries + faults - 1 <= AttemptLimit(e)
         /\ PutBack(e) => AttemptLimit(e) = MaxRetries + faults - 1
         /\ ~ PutBack(e) => AttemptLimit(e) = MaxRetries + faults
<1>1. faults \in Nat /\ MaxRetries \in Nat \ {0}
  BY MaxFaultsAssumption, MaxRetriesAssumption DEF TypeOK
<1>2. CASE PutBack(e)
  BY <1>1, <1>2 DEF AttemptLimit
<1>3. CASE ~ PutBack(e)
  BY <1>1, <1>3 DEF AttemptLimit
<1>4. QED
  BY <1>1, <1>2, <1>3

\* The same of the state a step leads to.
LEMMA LimitValueNext ==
  ASSUME TypeOK, GoroutinesOwned, [Next]_vars, NEW e \in Events
  PROVE  /\ faults' \in Nat /\ MaxRetries \in Nat \ {0} /\ AttemptLimit(e)' \in Nat
         /\ MaxRetries + faults' - 1 <= AttemptLimit(e)'
         /\ ~ PutBack(e)' => AttemptLimit(e)' = MaxRetries + faults'
<1>1. faults' \in Nat /\ MaxRetries \in Nat \ {0}
  BY StepCases, MaxFaultsAssumption, MaxRetriesAssumption
<1>2. AttemptLimit(e)' \in {MaxRetries + faults', MaxRetries + faults' - 1}
  BY <1>1 DEF AttemptLimit, PutBack
<1>3. ASSUME ~ PutBack(e)' PROVE AttemptLimit(e)' = MaxRetries + faults'
  BY <1>1, <1>3 DEF AttemptLimit, PutBack
<1>4. QED
  BY <1>1, <1>2, <1>3

\* Without a fault, an event is put back only when a delivery of it had ended
\* in an error, and that error was a fault already counted.
LEMMA PutBackEarlier ==
  ASSUME TypeOK, GoroutinesOwned, [Next]_vars, phase = "up", faults' = faults,
         NEW e \in Events, sent'[e] = sent[e], PutBack(e)'
  PROVE  PutBack(e)
<1>0. /\ ready \in [Events -> Nat] /\ sent \in [Events -> Nat]
      /\ delivery \in [Handlers -> Events \cup {NoEvent}]
      /\ pc \in [Handlers -> [Apps -> PCs]]
  BY DEF TypeOK, BrokerTypeOK, WorkerTypeOK
<1>1. phase' = "up"
  BY FaultFreeCases
\* Nothing is put back by a step that adds no waiting copy and no error.
<1>2. ASSUME ready'[e] > 0 => ready[e] > 0 \/ \E h \in Handlers : delivery[h] = e /\ Ended(h, "error"),
             \A g \in Handlers, b \in Apps :
               pc'[g][b] = "error" => pc[g][b] = "error" /\ delivery'[g] = delivery[g]
      PROVE  PutBack(e)
  <2>1. ASSUME NEW g \in Handlers, delivery'[g] = e, Ended(g, "error")'
        PROVE  delivery[g] = e /\ Ended(g, "error")
    BY <1>2, <2>1 DEF Ended, Targets
  <2>2. QED
    BY <1>1, <1>2, <2>1 DEF PutBack
<1>3. ASSUME NEW h \in Handlers, NEW a \in Apps, CleanTargetOp(h, a)
      PROVE  PutBack(e)
  <2>1. TargetOp(h, a)
    BY <1>3 DEF CleanTargetOp, TargetOp
  <2>2. /\ UNCHANGED <<delivery, ready>>
        /\ \A g \in Handlers, b \in Apps :
             <<g, b>> # <<h, a>> => pc'[g][b] = pc[g][b]
    BY <2>1, TargetFrame DEF TypeOK, brokerVars
  <2>3. pc'[h][a] # "error"
    <3>1. ASSUME NEW label, Goto(h, a, label) PROVE pc'[h][a] = label
      BY <1>0, <3>1 DEF Goto
    <3>2. CASE Begin(h, a)
      BY <3>1, <3>2 DEF Begin, SeenOutcome, PostLabel
    <3>3. CASE PostSucceeds(h, a)
      BY <3>1, <3>3 DEF PostSucceeds
    <3>4. CASE PostFails(h, a, FALSE)
      BY <3>1, <3>4 DEF PostFails, AfterFailedPost
    <3>5. CASE Mark(h, a)
      BY <3>1, <3>5 DEF Mark, AfterMark, Marking
    <3>6. QED
      BY <1>3, <3>2, <3>3, <3>4, <3>5 DEF CleanTargetOp
  <2>4. QED
    BY <1>2, <2>2, <2>3
<1>4. ASSUME NEW h \in Handlers, CleanAnswerOp(h) PROVE PutBack(e)
  <2>1. Release(h) /\ delivery[h] \in Events
    BY <1>0, <1>4 DEF CleanAnswerOp, NackRequeue, NackDeadLetter, Ack, Finished
  <2>2. \A g \in Handlers, b \in Apps :
          pc'[g][b] = "error" => pc[g][b] = "error" /\ delivery'[g] = delivery[g]
    BY <1>0, <2>1 DEF Release, Idle
  <2>3. ready'[e] > 0 => ready[e] > 0 \/ \E g \in Handlers : delivery[g] = e /\ Ended(g, "error")
    <3>1. CASE NackRequeue(h)
      <4>1. Ended(h, "error")
        BY <3>1 DEF NackRequeue, Verdict
      <4>2. ready' = [ready EXCEPT ![delivery[h]] = @ + 1]
        BY <3>1 DEF NackRequeue, Requeue
      <4>3. CASE delivery[h] = e
        BY <4>1, <4>3
      <4>4. CASE delivery[h] # e
        BY <1>0, <4>2, <4>4
      <4>5. QED
        BY <4>3, <4>4
    <3>2. CASE NackDeadLetter(h) \/ Ack(h)
      BY <3>2 DEF NackDeadLetter, Ack, DeadLetter, Drop, brokerVars
    <3>3. QED
      BY <1>4, <3>1, <3>2 DEF CleanAnswerOp
  <2>4. QED
    BY <1>2, <2>2, <2>3
<1>5. ASSUME NEW h \in Handlers, NEW f \in Events, TakeOp(h, f) PROVE PutBack(e)
  <2>1. ready[f] > 0 /\ ready' = [ready EXCEPT ![f] = @ - 1]
    BY <1>5 DEF TakeOp, StartDelivery, RejectUnresolvable, AckWithoutTargets, Hand
  <2>2. ready'[e] > 0 => ready[e] > 0
    BY <1>0, <2>1
  <2>3. \A g \in Handlers, b \in Apps :
          pc'[g][b] = "error" => pc[g][b] = "error" /\ delivery'[g] = delivery[g]
    <3>1. CASE StartDelivery(h, f)
      BY <1>0, <3>1 DEF StartDelivery
    <3>2. CASE RejectUnresolvable(h, f) \/ AckWithoutTargets(h, f)
      BY <3>2 DEF RejectUnresolvable, AckWithoutTargets, workerVars, handlerVars
    <3>3. QED
      BY <1>5, <3>1, <3>2 DEF TakeOp
  <2>4. QED
    BY <1>2, <2>2, <2>3
<1>6. ASSUME PublisherOp, UNCHANGED workerVars PROVE PutBack(e)
  <2>1. ready'[e] = ready[e]
    BY <1>0, <1>6, PublisherCopies
  <2>2. UNCHANGED <<delivery, pc>>
    BY <1>6 DEF workerVars, handlerVars
  <2>3. QED
    BY <1>2, <2>1, <2>2
<1>7. CASE UNCHANGED <<handlerVars, rowVars, brokerVars>>
  BY <1>2, <1>7 DEF handlerVars, brokerVars
<1>8. QED
  BY <1>3, <1>4, <1>5, <1>6, <1>7, FaultFreeCases

\* Short of a publication, no step lowers the limit.
LEMMA LimitKept ==
  ASSUME TypeOK, GoroutinesOwned, [Next]_vars, NEW e \in Events,
         sent'[e] = sent[e]
  PROVE  AttemptLimit(e) <= AttemptLimit(e)'
<1>1. faults \in Nat /\ faults' \in Nat /\ faults <= faults'
  BY StepCases, MaxFaultsAssumption DEF TypeOK
<1>2. CASE faults' # faults
  BY <1>1, <1>2, LimitValue, LimitValueNext
<1>3. CASE faults' = faults /\ phase # "up"
  <2>1. PutBack(e)
    BY <1>3 DEF PutBack
  <2>2. QED
    BY <1>3, <2>1, LimitValue, LimitValueNext
<1>4. CASE faults' = faults /\ phase = "up"
  <2>1. CASE PutBack(e)'
    <3>1. PutBack(e)
      BY <1>4, <2>1, PutBackEarlier
    <3>2. QED
      BY <1>4, <3>1, LimitValue, LimitValueNext
  <2>2. CASE ~ PutBack(e)'
    BY <1>4, <2>2, LimitValue, LimitValueNext
  <2>3. QED
    BY <2>1, <2>2
<1>5. QED
  BY <1>2, <1>3, <1>4

\* A goroutine that works on the only copy of an event may go to the limit of
\* the code.
LEMMA LimitCoversRetries ==
  ASSUME TypeOK, CopiesConserved, TriesLeft, NEW h \in Handlers,
         delivery[h] \in Events, sent[delivery[h]] <= 1
  PROVE  MaxRetries <= AttemptLimit(delivery[h])
<1> DEFINE e == delivery[h]
<1>1. /\ faults \in Nat /\ MaxRetries \in Nat \ {0}
      /\ MaxRetries + faults - 1 <= AttemptLimit(e)
      /\ ~ PutBack(e) => AttemptLimit(e) = MaxRetries + faults
      /\ AttemptLimit(e) \in Nat
  BY LimitValue
<1>2. CASE faults = 0
  <2>1. phase = "up" /\ ready[e] = 0
    BY <1>2, OneOwner DEF TriesLeft
  <2>2. \A g \in Handlers : ~ Ended(g, "error")
    BY <1>2 DEF TriesLeft, Ended, Targets
  <2>3. ~ PutBack(e)
    BY <2>1, <2>2 DEF PutBack
  <2>4. QED
    BY <1>1, <1>2, <2>3
<1>3. CASE faults # 0
  BY <1>1, <1>3
<1>4. QED
  BY <1>2, <1>3

\* A goroutine's own step leads on to another attempt only below the limit of
\* the code.
LEMMA TriesTarget ==
  ASSUME TypeOK, GoroutinesOwned, TriesLeft, NEW h \in Handlers, NEW a \in Apps,
         TargetOp(h, a), sent[delivery[h]] <= 1,
         pc'[h][a] \in {"begin", "post", "markRetrying"}
  PROVE  attempts'[delivery[h]][a] < MaxRetries
<1> DEFINE e == delivery[h]
<1>1. /\ e \in Events /\ attempts \in [Events -> [Apps -> Nat]]
      /\ MaxRetries \in Nat
  BY TargetBusy, MaxRetriesAssumption DEF TypeOK, WorkerTypeOK
<1>2. ASSUME NEW label, Goto(h, a, label) PROVE pc'[h][a] = label
  BY <1>2 DEF Goto, TypeOK, WorkerTypeOK
<1>3. pc[h][a] \in {"post", "markRetrying"} => attempts[e][a] < MaxRetries
  BY <1>1 DEF TriesLeft
<1>4. CASE Begin(h, a)
  <2>1. CASE Goto(h, a, SeenOutcome(status[e][a]))
    BY <1>2, <2>1 DEF SeenOutcome
  <2>2. CASE /\ attempts' = [attempts EXCEPT ![e][a] = attempts[e][a] + 1]
             /\ Goto(h, a, PostLabel(attempts[e][a] + 1))
    <3>1. attempts'[e][a] = attempts[e][a] + 1 /\ attempts[e][a] \in Nat
      BY <1>1, <2>2
    <3>2. pc'[h][a] = PostLabel(attempts[e][a] + 1)
      BY <1>2, <2>2
    <3>3. QED
      BY <1>1, <3>1, <3>2 DEF PostLabel
  <2>3. QED
    BY <1>4, <2>1, <2>2 DEF Begin
<1>5. CASE PostSucceeds(h, a)
  BY <1>2, <1>5 DEF PostSucceeds
<1>6. ASSUME NEW ctxDone \in BOOLEAN, PostFails(h, a, ctxDone)
      PROVE  attempts'[e][a] < MaxRetries
  <2>1. /\ pc'[h][a] = AfterFailedPost(pc[h][a], ctxDone) /\ UNCHANGED attempts
        /\ pc[h][a] \in Posting
    BY <1>2, <1>6 DEF PostFails, rowVars
  <2>2. pc[h][a] = "post"
    BY <2>1 DEF AfterFailedPost, Posting
  <2>3. QED
    BY <1>3, <2>1, <2>2
<1>7. CASE Mark(h, a)
  <2>1. /\ pc'[h][a] = AfterMark(pc[h][a]) /\ UNCHANGED attempts
        /\ pc[h][a] \in Marking
    BY <1>2, <1>7 DEF Mark
  <2>2. pc[h][a] = "markRetrying"
    BY <2>1 DEF AfterMark, Marking
  <2>3. QED
    BY <1>3, <2>1, <2>2
<1>8. CASE StoreFails(h, a)
  BY <1>2, <1>8 DEF StoreFails
<1>9. QED
  BY <1>4, <1>5, <1>6, <1>7, <1>8 DEF TargetOp

\* As long as nothing fails the process runs and no goroutine ends in an error.
LEMMA CleanSteps ==
  ASSUME TypeOK, GoroutinesOwned, TriesLeft, [Next]_vars, faults' = 0
  PROVE  phase' = "up" /\ \A h \in Handlers, a \in Apps : pc'[h][a] # "error"
<1>1. faults = 0
  BY StepCases, MaxFaultsAssumption DEF TypeOK
<1>2. phase = "up" /\ \A h \in Handlers, a \in Apps : pc[h][a] # "error"
  BY <1>1 DEF TriesLeft
<1>3. phase' = "up"
  BY <1>1, <1>2, FaultFreeCases
<1>4. ASSUME NEW h \in Handlers, NEW a \in Apps, CleanTargetOp(h, a)
      PROVE  \A g \in Handlers, b \in Apps : pc'[g][b] # "error"
  <2>1. TargetOp(h, a)
    BY <1>4 DEF CleanTargetOp, TargetOp
  <2>2. \A g \in Handlers, b \in Apps :
          <<g, b>> # <<h, a>> => pc'[g][b] = pc[g][b]
    BY <2>1, TargetFrame DEF TypeOK
  <2>3. pc'[h][a] # "error"
    <3>1. ASSUME NEW label, Goto(h, a, label) PROVE pc'[h][a] = label
      BY <3>1 DEF Goto, TypeOK, WorkerTypeOK
    <3>2. CASE Begin(h, a)
      BY <3>1, <3>2 DEF Begin, SeenOutcome, PostLabel
    <3>3. CASE PostSucceeds(h, a)
      BY <3>1, <3>3 DEF PostSucceeds
    <3>4. CASE PostFails(h, a, FALSE)
      BY <3>1, <3>4 DEF PostFails, AfterFailedPost
    <3>5. CASE Mark(h, a)
      BY <3>1, <3>5 DEF Mark, AfterMark, Marking
    <3>6. QED
      BY <1>4, <3>2, <3>3, <3>4, <3>5 DEF CleanTargetOp
  <2>4. QED
    BY <1>2, <2>2, <2>3
<1>5. ASSUME NEW h \in Handlers, CleanAnswerOp(h)
      PROVE  \A g \in Handlers, b \in Apps : pc'[g][b] # "error"
  <2>1. Release(h)
    BY <1>5 DEF CleanAnswerOp, NackRequeue, NackDeadLetter, Ack
  <2>2. QED
    BY <1>2, <2>1 DEF Release, Idle, TypeOK, WorkerTypeOK
<1>6. ASSUME NEW h \in Handlers, NEW e \in Events, TakeOp(h, e)
      PROVE  \A g \in Handlers, b \in Apps : pc'[g][b] # "error"
  <2>1. CASE StartDelivery(h, e)
    BY <1>2, <2>1 DEF StartDelivery, TypeOK, WorkerTypeOK
  <2>2. CASE RejectUnresolvable(h, e) \/ AckWithoutTargets(h, e)
    BY <1>2, <2>2 DEF RejectUnresolvable, AckWithoutTargets, workerVars, handlerVars
  <2>3. QED
    BY <1>6, <2>1, <2>2 DEF TakeOp
<1>7. CASE UNCHANGED workerVars
  BY <1>2, <1>3, <1>7 DEF workerVars, handlerVars
<1>8. CASE UNCHANGED <<handlerVars, rowVars, brokerVars>>
  BY <1>2, <1>3, <1>8 DEF handlerVars
<1>9. QED
  BY <1>1, <1>2, <1>3, <1>4, <1>5, <1>6, <1>7, <1>8, FaultFreeCases

\* A delivery that starts has an attempt to spend on each of its targets: the
\* copy it took was the one that was put back.
LEMMA TriesStart ==
  ASSUME TypeOK, GoroutinesOwned, CopiesConserved, TriesLeft, [Next]_vars,
         phase' = "up", faults' = faults, NEW h \in Handlers, NEW e \in Events,
         StartDelivery(h, e), sent[e] <= 1, NEW a \in Apps
  PROVE  attempts'[e][a] < AttemptLimit(e)'
<1>1. /\ ready \in [Events -> Nat] /\ dead \in [Events -> Nat]
      /\ sent \in [Events -> Nat]
      /\ attempts \in [Events -> [Apps -> Nat]]
      /\ delivery \in [Handlers -> Events \cup {NoEvent}]
      /\ pc \in [Handlers -> [Apps -> PCs]]
  BY DEF TypeOK, BrokerTypeOK, WorkerTypeOK
<1>2. /\ ready[e] > 0 /\ ready' = [ready EXCEPT ![e] = @ - 1]
      /\ delivery' = [delivery EXCEPT ![h] = e]
      /\ pc' = [pc EXCEPT ![h] = [b \in Apps |-> IF b \in linked[e] THEN "begin" ELSE "none"]]
      /\ attempts' = attempts
  BY DEF StartDelivery, Hand, rowVars
<1>3. \A g \in Handlers : delivery[g] # e
  BY <1>2, OneOwner
<1>4. ready'[e] = 0
  <2>1. Cardinality(Held(e)) \in Nat
    BY HeldFinite
  <2>2. ready[e] + Cardinality(Held(e)) + dead[e] <= sent[e]
    BY DEF CopiesConserved
  <2>3. ready[e] \in Nat /\ dead[e] \in Nat /\ sent[e] \in Nat
    BY <1>1
  <2>4. ready[e] = 1
    BY <1>2, <2>1, <2>2, <2>3
  <2>5. QED
    BY <1>1, <1>2, <2>4
<1>5. ~ PutBack(e)'
  <2>1. ASSUME NEW g \in Handlers, delivery'[g] = e PROVE ~ Ended(g, "error")'
    <3>1. g = h
      BY <1>1, <1>2, <1>3, <2>1
    <3>2. \A b \in Apps : pc'[h][b] # "error"
      BY <1>1, <1>2
    <3>3. QED
      BY <3>1, <3>2 DEF Ended, Targets
  <2>2. QED
    BY <1>4, <2>1 DEF PutBack
<1>6. attempts[e][a] <= MaxRetries + faults - 1
  <2>1. PutBack(e)
    BY <1>2 DEF PutBack
  <2>2. attempts[e][a] <= AttemptLimit(e)
    BY DEF TriesLeft
  <2>3. QED
    BY <2>1, <2>2, LimitValue
<1>7. /\ AttemptLimit(e)' = MaxRetries + faults
      /\ faults \in Nat /\ MaxRetries \in Nat /\ attempts[e][a] \in Nat
  BY <1>1, <1>5, LimitValue, LimitValueNext
<1>8. QED
  BY <1>2, <1>6, <1>7

\* Every step keeps TriesLeft.
LEMMA TriesSteps ==
  ASSUME TypeOK, GoroutinesOwned, CopiesConserved, TriesLeft, [Next]_vars
  PROVE  TriesLeft'
<1>0. /\ attempts \in [Events -> [Apps -> Nat]] /\ attempts' \in [Events -> [Apps -> Nat]]
      /\ delivery \in [Handlers -> Events \cup {NoEvent}]
      /\ delivery' \in [Handlers -> Events \cup {NoEvent}]
      /\ sent \in [Events -> Nat] /\ sent' \in [Events -> Nat]
      /\ TypeOK' /\ GoroutinesOwned'
  BY TypeSteps DEF TypeOK, WorkerTypeOK, BrokerTypeOK
<1>1. ASSUME NEW e \in Events, NEW a \in Apps
      PROVE  \/ attempts'[e][a] = attempts[e][a]
             \/ \E h \in Handlers :
                  /\ TargetOp(h, a) /\ e = delivery[h] /\ pc[h][a] = "begin"
                  /\ attempts'[e][a] = attempts[e][a] + 1
  <2>1. ASSUME NEW h \in Handlers, NEW b \in Apps, TargetOp(h, b)
        PROVE  \/ attempts'[e][a] = attempts[e][a]
               \/ /\ TargetOp(h, a) /\ e = delivery[h] /\ pc[h][a] = "begin"
                  /\ attempts'[e][a] = attempts[e][a] + 1
    BY <2>1, AttemptWriters
  <2>2. CASE UNCHANGED rowVars
    BY <2>2 DEF rowVars
  <2>3. QED
    BY <2>1, <2>2, OtherSteps
<1>2. ASSUME NEW h \in Handlers, NEW a \in Apps, TargetOp(h, a)
      PROVE  UNCHANGED <<delivery, sent>> /\ delivery[h] \in Events
  BY <1>2, TargetFrame, TargetBusy DEF TypeOK, brokerVars
<1>3. ASSUME NEW e \in Events, sent'[e] # sent[e]
      PROVE  UNCHANGED workerVars
  BY <1>3, StepCases, WorkerSendsNothing DEF brokerVars
<1>4. ASSUME NEW e \in Events, NEW a \in Apps, sent'[e] = 0
      PROVE  attempts'[e][a] = 0
  <2>1. sent[e] = 0 /\ attempts[e][a] = 0
    BY <1>4, SentGrows DEF TriesLeft
  <2>2. ASSUME NEW h \in Handlers, e = delivery[h] PROVE FALSE
    BY <2>1, <2>2, OneOwner
  <2>3. QED
    BY <1>1, <2>1, <2>2
<1>5. ASSUME NEW e \in Events, NEW a \in Apps, sent'[e] <= 1
      PROVE  attempts'[e][a] <= AttemptLimit(e)'
  <2>0. /\ sent[e] \in Nat /\ sent'[e] \in Nat /\ sent[e] <= 1 /\ sent[e] <= sent'[e]
        /\ attempts[e][a] \in Nat
        /\ AttemptLimit(e) \in Nat /\ AttemptLimit(e)' \in Nat
    BY <1>0, <1>5, SentGrows, LimitValue, LimitValueNext
  <2>1. CASE sent'[e] # sent[e]
    <3>1. sent[e] = 0
      BY <1>5, <2>0, <2>1
    <3>2. attempts[e][a] = 0 /\ attempts' = attempts
      BY <1>3, <2>1, <3>1 DEF TriesLeft, workerVars, rowVars
    <3>3. QED
      BY <2>0, <3>2
  <2>2. CASE sent'[e] = sent[e]
    <3>1. AttemptLimit(e) <= AttemptLimit(e)'
      BY <2>2, LimitKept
    <3>2. attempts[e][a] <= AttemptLimit(e)
      BY <2>0 DEF TriesLeft
    <3>3. ASSUME NEW h \in Handlers, e = delivery[h], pc[h][a] = "begin"
          PROVE  attempts[e][a] < AttemptLimit(e)
      BY <2>0, <3>3 DEF TriesLeft
    <3>4. CASE attempts'[e][a] = attempts[e][a]
      BY <2>0, <3>1, <3>2, <3>4
    <3>5. CASE attempts'[e][a] = attempts[e][a] + 1 /\ attempts[e][a] < AttemptLimit(e)
      BY <2>0, <3>1, <3>5
    <3>6. QED
      BY <1>1, <3>3, <3>4, <3>5
  <2>3. QED
    BY <2>1, <2>2
\* It is enough for a goroutine's next attempt to be below the limit, and below
\* that of the code unless it has still to claim its row.
<1>6. ASSUME NEW g \in Handlers, NEW e \in Events, NEW b \in Apps,
             delivery'[g] = e, sent'[e] <= 1,
             pc'[g][b] \in {"begin", "post", "markRetrying"}
      PROVE  \/ attempts'[e][b] < MaxRetries /\ attempts'[e][b] < AttemptLimit(e)'
             \/ attempts'[e][b] < AttemptLimit(e)' /\ pc'[g][b] = "begin"
             \/ attempts'[e][b] < MaxRetries /\ pc'[g][b] # "begin"
  <2>0. /\ sent[e] \in Nat /\ sent[e] <= 1
        /\ AttemptLimit(e)' \in Nat /\ AttemptLimit(e) \in Nat
        /\ MaxRetries \in Nat /\ attempts'[e][b] \in Nat /\ attempts[e][b] \in Nat
    BY <1>0, <1>6, SentGrows, LimitValue, LimitValueNext, MaxRetriesAssumption
  <2>1. ASSUME NEW h \in Handlers, NEW a \in Apps, TargetOp(h, a), g = h, b = a
        PROVE  attempts'[e][b] < MaxRetries /\ attempts'[e][b] < AttemptLimit(e)'
    <3>1. delivery[g] = e /\ sent'[e] = sent[e]
      BY <1>2, <1>6, <2>1
    <3>2. attempts'[e][b] < MaxRetries
      BY <1>6, <2>0, <2>1, <3>1, TriesTarget
    <3>3. MaxRetries <= AttemptLimit(e)
      BY <2>0, <3>1, LimitCoversRetries
    <3>4. AttemptLimit(e) <= AttemptLimit(e)'
      BY <3>1, LimitKept
    <3>5. QED
      BY <2>0, <3>2, <3>3, <3>4
  <2>2. ASSUME pc'[g][b] = pc[g][b], delivery[g] = e, attempts'[e][b] = attempts[e][b]
        PROVE  \/ attempts'[e][b] < AttemptLimit(e)' /\ pc'[g][b] = "begin"
               \/ attempts'[e][b] < MaxRetries /\ pc'[g][b] # "begin"
    <3>1. sent[e] = 1
      BY <2>0, <2>2, OneOwner
    <3>2. sent'[e] = sent[e]
      BY <1>0, <1>6, <3>1, SentGrows
    <3>3. AttemptLimit(e) <= AttemptLimit(e)'
      BY <3>2, LimitKept
    <3>4. /\ pc[g][b] = "begin" => attempts[e][b] < AttemptLimit(e)
          /\ pc[g][b] \in {"post", "markRetrying"} => attempts[e][b] < MaxRetries
      BY <2>0, <2>2 DEF TriesLeft
    <3>5. QED
      BY <1>6, <2>0, <2>2, <3>3, <3>4
  <2>3. ASSUME NEW h \in Handlers, NEW a \in Apps, TargetOp(h, a), g # h \/ b # a
        PROVE  /\ pc'[g][b] = pc[g][b] /\ delivery[g] = e
               /\ attempts'[e][b] = attempts[e][b]
    <3>1. pc'[g][b] = pc[g][b] /\ delivery[g] = e
      BY <1>2, <1>6, <2>3, TargetFrame DEF TypeOK
    <3>2. ~ (e = delivery[h] /\ b = a)
      BY <2>0, <2>3, <3>1, OneOwner
    <3>3. QED
      BY <2>3, <3>1, <3>2, AttemptWriters
  <2>4. ASSUME phase' = "up", faults' = faults,
               NEW h \in Handlers, NEW f \in Events, TakeOp(h, f)
        PROVE  \/ /\ pc'[g][b] = pc[g][b] /\ delivery[g] = e
                  /\ attempts'[e][b] = attempts[e][b]
               \/ attempts'[e][b] < AttemptLimit(e)' /\ pc'[g][b] = "begin"
    <3>1. CASE StartDelivery(h, f) /\ g = h
      <4>1. f = e /\ pc'[g][b] = "begin"
        BY <1>0, <1>6, <3>1 DEF StartDelivery, TypeOK, WorkerTypeOK
      <4>2. QED
        BY <2>0, <2>4, <3>1, <4>1, TriesStart
    <3>2. CASE StartDelivery(h, f) /\ g # h
      BY <1>0, <1>6, <3>2 DEF StartDelivery, TypeOK, WorkerTypeOK, rowVars
    <3>3. CASE RejectUnresolvable(h, f) \/ AckWithoutTargets(h, f)
      BY <1>6, <3>3 DEF RejectUnresolvable, AckWithoutTargets, workerVars, handlerVars,
                        rowVars
    <3>4. QED
      BY <2>4, <3>1, <3>2, <3>3 DEF TakeOp
  <2>5. ASSUME UNCHANGED rowVars, pc'[g][b] = pc[g][b], delivery'[g] = delivery[g]
        PROVE  /\ pc'[g][b] = pc[g][b] /\ delivery[g] = e
               /\ attempts'[e][b] = attempts[e][b]
    BY <1>6, <2>5 DEF rowVars
  <2>6. QED
    BY <1>6, <2>1, <2>2, <2>3, <2>4, <2>5, MoveCases
<1>7. QED
  <2>1. ASSUME NEW g \in Handlers, NEW e \in Events, NEW b \in Apps,
               delivery'[g] = e, sent'[e] <= 1
        PROVE  /\ pc'[g][b] = "begin" => attempts'[e][b] < AttemptLimit(e)'
               /\ pc'[g][b] \in {"post", "markRetrying"} => attempts'[e][b] < MaxRetries
    BY <1>6, <2>1
  <2>2. QED
    BY <1>4, <1>5, <2>1, CleanSteps DEF TriesLeft

\* Initially nothing was tried, and a retry is allowed.
LEMMA TriesInitially ==
  ASSUME Init
  PROVE  TriesLeft
<1>1. TypeOK
  BY TypesInitially
<1>2. \A e \in Events : AttemptLimit(e) \in Nat
  BY <1>1, LimitValue
<1>3. QED
  BY <1>2 DEF Init, WorkerInit, TriesLeft, Idle

\* The limit is within what the retry budget allows.
LEMMA TriesBound ==
  ASSUME TypeOK, TriesLeft
  PROVE  RetryBudget
<1>1. ASSUME NEW e \in Events, NEW a \in Apps, sent[e] <= 1
      PROVE  attempts[e][a] <= MaxRetries + faults
  <2>1. attempts[e][a] <= AttemptLimit(e) /\ attempts[e][a] \in Nat
    BY <1>1 DEF TriesLeft, TypeOK, WorkerTypeOK
  <2>2. QED
    BY <2>1, LimitValue
<1>2. QED
  BY <1>1 DEF RetryBudget

\* The retry budget outlives crashes: while one copy of an event went out, each
\* attempt beyond MaxRetries was paid for by a fault that put the copy back.
THEOREM RetriesAreBounded == Spec => []RetryBudget
<1> DEFINE I == TypeOK /\ GoroutinesOwned /\ CopiesConserved /\ TriesLeft
<1>1. Init => I
  BY TypesInitially, CopiesInitially, TriesInitially
<1>2. I /\ [Next]_vars => I'
  BY TypeSteps, CopiesSteps, TriesSteps
<1>3. I => RetryBudget
  BY TriesBound
<1>4. QED
  BY <1>1, <1>2, <1>3, PTL DEF Spec

-----------------------------------------------------------------------------
(* The sync worker implements RevocationDelivery.                          *)

\* What waits in the main queue or is being handled was committed.
LEMMA HeldIsRecorded ==
  ASSUME TypeOK, CopiesConserved, SendsAccounted, NEW e \in Events,
         ready[e] > 0 \/ Held(e) # {}
  PROVE  outbox[e] # "absent"
<1>1. /\ ready[e] \in Nat /\ dead[e] \in Nat /\ sent[e] \in Nat
      /\ Cardinality(Held(e)) \in Nat /\ IsFiniteSet(Held(e))
      /\ ready[e] + Cardinality(Held(e)) + dead[e] <= sent[e]
  BY HeldFinite DEF TypeOK, BrokerTypeOK, CopiesConserved
<1>2. Held(e) # {} => Cardinality(Held(e)) # 0
  BY <1>1, FS_EmptySet
<1>3. sent[e] # 0
  BY <1>1, <1>2
<1>4. QED
  BY <1>3 DEF SendsAccounted

\* A committed row stays committed.
LEMMA RecordedGrows ==
  ASSUME TypeOK, [Next]_vars, NEW e \in Events, outbox[e] # "absent"
  PROVE  outbox'[e] # "absent"
<1>1. CASE UNCHANGED outbox
  BY <1>1
<1>2. ASSUME NEW f \in Events, CommitEvent(f) PROVE outbox'[e] # "absent"
  BY <1>2 DEF CommitEvent, TypeOK, OutboxTypeOK
<1>3. CASE MarkPublished
  BY <1>3 DEF MarkPublished, TypeOK, OutboxTypeOK
<1>4. ASSUME NEW f \in Events, PublishConfirmed(f) \/ PublishFails(f)
      PROVE  UNCHANGED outbox
  BY <1>4 DEF PublishConfirmed, PublishFails
<1>5. ASSUME ListUnpublished \/ MarkPublishedFails \/ PublisherLost
      PROVE  UNCHANGED outbox
  BY <1>5 DEF ListUnpublished, MarkPublishedFails, PublisherLost
<1>6. QED
  BY <1>1, <1>2, <1>3, <1>4, <1>5, StepCases
     DEF PublisherOp, PublisherFailure, outboxVars

\* Every step keeps LateIsRecorded.
LEMMA LateSteps ==
  ASSUME TypeOK, GoroutinesOwned, CopiesConserved, SendsAccounted,
         LateIsRecorded, [Next]_vars
  PROVE  LateIsRecorded'
<1>0. late \subseteq Events \X Apps
  BY DEF TypeOK, WorkerTypeOK
<1>1. ASSUME \A x \in late' : x \in late \/
               \E h \in Handlers : delivery[h] = x[1] /\ delivery[h] \in Events
      PROVE  LateIsRecorded'
  <2>1. ASSUME NEW h \in Handlers, delivery[h] \in Events
        PROVE  outbox[delivery[h]] # "absent"
    <3>1. Held(delivery[h]) # {}
      BY DEF Held
    <3>2. QED
      BY <2>1, <3>1, HeldIsRecorded
  <2>2. ASSUME NEW x \in late'
        PROVE  x[1] \in Events /\ outbox[x[1]] # "absent"
    BY <1>0, <1>1, <2>1 DEF LateIsRecorded
  <2>3. QED
    BY <2>2, RecordedGrows DEF LateIsRecorded
<1>2. ASSUME NEW h \in Handlers, NEW a \in Apps, TargetOp(h, a)
      PROVE  LateIsRecorded'
  <2>1. delivery[h] \in Events
    BY <1>2, TargetBusy DEF TypeOK
  <2>2. late' = late \/ late' = late \cup {<<delivery[h], a>>}
    BY <1>2 DEF TargetOp, Begin, PostSucceeds, PostFails, Mark, StoreFails
  <2>3. QED
    BY <1>1, <2>1, <2>2
<1>3. ASSUME NEW h \in Handlers, AnswerOp(h) PROVE UNCHANGED late
  BY <1>3 DEF AnswerOp, NackRequeue, NackDeadLetter, Ack, AnswerLost, Release
<1>4. ASSUME NEW h \in Handlers, NEW e \in Events, TakeOp(h, e)
      PROVE  UNCHANGED late
  BY <1>4 DEF TakeOp, StartDelivery, RejectUnresolvable, AckWithoutTargets,
              workerVars
<1>5. ASSUME NEW e \in Events, NEW a \in Apps,
             LateArrival(e, a) \/ TokenRecorded(e, a)
      PROVE  late' \subseteq late
  BY <1>5 DEF LateArrival, TokenRecorded
<1>6. CASE WorkerLost
  <2>1. \A x \in InFlight : x[1] \in Events
                              /\ \E h \in Handlers : delivery[h] = x[1]
    BY DEF InFlight
  <2>2. late' \subseteq late \cup InFlight
    BY <1>6 DEF WorkerLost
  <2>3. QED
    BY <1>1, <2>1, <2>2
<1>7. CASE UNCHANGED workerVars
  BY <1>1, <1>7 DEF workerVars
<1>8. QED
  BY <1>1, <1>2, <1>3, <1>4, <1>5, <1>6, <1>7, StepCases DEF WorkerOp

-----------------------------------------------------------------------------

\* What the concrete variables stand for.
Recorded == {e \in Events : outbox[e] # "absent"}
Buried   == {e \in Events : dead[e] > 0}

\* An application's transaction is a step of the promise, or changes nothing.
LEMMA ApplyStep ==
  ASSUME TypeOK, AppliedWithRow, NEW e \in Events, NEW a \in Apps,
         outbox[e] # "absent", ProcessRevocation(e, a),
         UNCHANGED <<outbox, settled, dead>>
  PROVE  [Promise!Next]_(Promise!vars)
<1>0. applied \in [Events -> [Apps -> Nat]]
  BY DEF TypeOK, WorkerTypeOK
<1>1. Recorded' = Recorded /\ Buried' = Buried /\ settled' = settled
  BY DEF Recorded, Buried
<1>2. CASE e \in processed[a]
  <2>1. applied' = applied
    BY <1>2 DEF ProcessRevocation
  <2>2. QED
    BY <1>1, <2>1 DEF Promise!vars, Recorded, Buried
<1>3. CASE e \notin processed[a]
  <2>1. applied[e][a] = 0
    BY <1>3 DEF AppliedWithRow
  <2>2. applied' = [applied EXCEPT ![e][a] = applied[e][a] + 1]
    BY <1>3 DEF ProcessRevocation
  <2>3. applied' = [applied EXCEPT ![e][a] = 1]
    BY <2>1, <2>2
  <2>4. Promise!Apply(e, a)
    BY <1>1, <2>1, <2>3 DEF Promise!Apply, Recorded, Buried
  <2>5. QED
    BY <2>4 DEF Promise!Next
<1>4. QED
  BY <1>2, <1>3

\* A copy in the dead-letter queue buries its event.
LEMMA BuryStep ==
  ASSUME TypeOK, NEW e \in Events, outbox[e] # "absent",
         dead' = [dead EXCEPT ![e] = @ + 1],
         UNCHANGED <<outbox, applied, settled>>
  PROVE  [Promise!Next]_(Promise!vars)
<1>1. Buried' = Buried \cup {e} /\ Recorded' = Recorded
  BY DEF Buried, Recorded, TypeOK, BrokerTypeOK
<1>2. Promise!Bury(e)
  BY <1>1 DEF Promise!Bury, Buried, Recorded
<1>3. QED
  BY <1>2 DEF Promise!Next

\* A goroutine's step is a step of its application, or invisible.
LEMMA TargetMaps ==
  ASSUME TypeOK, GoroutinesOwned, AppliedWithRow, CopiesConserved,
         SendsAccounted, NEW h \in Handlers, NEW a \in Apps, TargetOp(h, a),
         UNCHANGED outboxVars
  PROVE  [Promise!Next]_(Promise!vars)
<1>1. UNCHANGED <<outbox, settled, dead>>
  BY TargetFrame DEF TypeOK, brokerVars, outboxVars
<1>2. delivery[h] \in Events
  BY TargetBusy DEF TypeOK
<1>3. Held(delivery[h]) # {}
  BY DEF Held
<1>4. outbox[delivery[h]] # "absent"
  BY <1>2, <1>3, HeldIsRecorded
<1>5. ProcessRevocation(delivery[h], a) \/ UNCHANGED appVars
  BY DEF TargetOp, Begin, PostSucceeds, PostFails, Mark, StoreFails, appVars
<1>6. CASE UNCHANGED appVars
  BY <1>1, <1>6 DEF appVars, Promise!vars
<1>7. QED
  BY <1>1, <1>2, <1>4, <1>5, <1>6, ApplyStep

\* Answering a delivery closes the event, buries it, or is invisible.
LEMMA AnswerMaps ==
  ASSUME TypeOK, GoroutinesOwned, SuccessIsReal, AppliedWithRow,
         CopiesConserved, SendsAccounted, NEW h \in Handlers, AnswerOp(h),
         UNCHANGED outboxVars
  PROVE  [Promise!Next]_(Promise!vars)
<1>1. /\ delivery[h] \in Events /\ Release(h)
  BY DEF AnswerOp, NackRequeue, NackDeadLetter, Ack, AnswerLost, Finished,
         TypeOK, WorkerTypeOK
<1>2. /\ UNCHANGED <<outbox, applied>> /\ Held(delivery[h]) # {}
  BY <1>1 DEF Release, appVars, outboxVars, Held
<1>3. outbox[delivery[h]] # "absent"
  BY <1>1, <1>2, HeldIsRecorded
<1>4. CASE Ack(h)
  <2>1. /\ \A a \in Targets(h) : pc[h][a] = "ok"
        /\ Targets(h) \in SUBSET Apps
        /\ settled' = settled \cup {<<delivery[h], Targets(h)>>}
        /\ UNCHANGED dead
    BY <1>4 DEF Ack, Verdict, Ended, Finished, Done, Targets, Drop, brokerVars
  <2>2. \A a \in Targets(h) : applied[delivery[h]][a] = 1
    BY <1>1, <2>1 DEF SuccessIsReal, AppliedWithRow
  <2>3. Promise!Close(delivery[h], Targets(h))
    BY <1>1, <1>2, <1>3, <2>1, <2>2 DEF Promise!Close
  <2>4. QED
    BY <1>1, <2>1, <2>3 DEF Promise!Next
<1>5. CASE NackDeadLetter(h)
  <2>1. UNCHANGED settled /\ DeadLetter(delivery[h])
    BY <1>5 DEF NackDeadLetter
  <2>2. QED
    BY <1>1, <1>2, <1>3, <2>1, BuryStep DEF DeadLetter
<1>6. CASE NackRequeue(h) \/ AnswerLost(h)
  <2>1. UNCHANGED <<settled, dead>>
    BY <1>6 DEF NackRequeue, AnswerLost, Requeue
  <2>2. QED
    BY <1>2, <2>1 DEF Promise!vars
<1>7. QED
  BY <1>4, <1>5, <1>6 DEF AnswerOp

\* Taking a delivery is invisible, unless it is answered at once.
LEMMA TakeMaps ==
  ASSUME TypeOK, CopiesConserved, SendsAccounted, NEW h \in Handlers,
         NEW e \in Events, TakeOp(h, e), UNCHANGED outboxVars
  PROVE  [Promise!Next]_(Promise!vars)
<1>1. ready[e] > 0 /\ UNCHANGED <<outbox, applied>>
  BY DEF TakeOp, StartDelivery, RejectUnresolvable, AckWithoutTargets, Hand,
         outboxVars, workerVars, appVars
<1>2. outbox[e] # "absent"
  BY <1>1, HeldIsRecorded
<1>3. CASE StartDelivery(h, e)
  BY <1>1, <1>3 DEF StartDelivery, Hand, Promise!vars
<1>4. CASE RejectUnresolvable(h, e)
  BY <1>1, <1>2, <1>4, BuryStep DEF RejectUnresolvable, workerVars
<1>5. CASE AckWithoutTargets(h, e)
  <2>1. Promise!Close(e, {})
    BY <1>1, <1>2, <1>5 DEF AckWithoutTargets, Hand, Promise!Close
  <2>2. QED
    BY <2>1 DEF Promise!Next
<1>6. QED
  BY <1>3, <1>4, <1>5 DEF TakeOp

\* The publisher's steps are invisible but for the commit.
LEMMA PublisherMaps ==
  ASSUME TypeOK, SendsAccounted, PublisherOp \/ PublisherFailure,
         UNCHANGED workerVars
  PROVE  [Promise!Next]_(Promise!vars)
<1>1. UNCHANGED <<applied, settled>>
  BY DEF workerVars, appVars
<1>2. ASSUME NEW e \in Events, CommitEvent(e)
      PROVE  [Promise!Next]_(Promise!vars)
  <2>1. UNCHANGED dead /\ outbox' = [outbox EXCEPT ![e] = "unpublished"]
    BY <1>2 DEF CommitEvent, brokerVars
  <2>2. Recorded' = Recorded \cup {e}
    BY <2>1 DEF Recorded, TypeOK, OutboxTypeOK
  <2>3. Promise!Record(e)
    BY <1>1, <2>1, <2>2 DEF Promise!Record, Recorded
  <2>4. QED
    BY <2>3 DEF Promise!Next
<1>3. CASE MarkPublished
  <2>1. /\ UNCHANGED dead
        /\ marking \in Events /\ outbox[marking] = "unpublished"
        /\ outbox' = [outbox EXCEPT ![marking] = "published"]
    BY <1>3 DEF MarkPublished, brokerVars, SendsAccounted, TypeOK, OutboxTypeOK
  <2>2. Recorded' = Recorded /\ Buried' = Buried
    BY <2>1 DEF Recorded, Buried, TypeOK, OutboxTypeOK
  <2>3. QED
    BY <1>1, <2>2 DEF Promise!vars, Recorded, Buried
<1>4. ASSUME UNCHANGED <<outbox, dead>>
      PROVE  [Promise!Next]_(Promise!vars)
  BY <1>1, <1>4 DEF Promise!vars
<1>5. ASSUME NEW e \in Events, PublishConfirmed(e) \/ PublishFails(e)
      PROVE  UNCHANGED <<outbox, dead>>
  BY <1>5 DEF PublishConfirmed, PublishFails, Enqueue, brokerVars
<1>6. ASSUME ListUnpublished \/ MarkPublishedFails
      PROVE  UNCHANGED <<outbox, dead>>
  BY <1>6 DEF ListUnpublished, MarkPublishedFails, brokerVars
<1>7. QED
  BY <1>2, <1>3, <1>4, <1>5, <1>6 DEF PublisherOp, PublisherFailure

\* Every step from a good state is a step of the promise.
LEMMA PromiseSteps ==
  ASSUME TypeOK, GoroutinesOwned, SuccessIsReal, AppliedWithRow,
         SendsAccounted, CopiesConserved, LateIsRecorded, [Next]_vars
  PROVE  [Promise!Next]_(Promise!vars)
<1>1. ASSUME UNCHANGED <<outbox, applied, settled, dead>>
      PROVE  [Promise!Next]_(Promise!vars)
  BY <1>1 DEF Promise!vars
<1>2. CASE WorkerOp /\ UNCHANGED outboxVars
  <2>1. ASSUME NEW e \in Events, NEW a \in Apps, LateArrival(e, a)
        PROVE  [Promise!Next]_(Promise!vars)
    <3>1. /\ outbox[e] # "absent" /\ ProcessRevocation(e, a)
          /\ UNCHANGED <<outbox, settled, dead>>
      BY <1>2, <2>1 DEF LateArrival, LateIsRecorded, brokerVars, outboxVars
    <3>2. QED
      BY <3>1, ApplyStep
  <2>2. ASSUME NEW e \in Events, NEW a \in Apps, TokenRecorded(e, a)
        PROVE  [Promise!Next]_(Promise!vars)
    BY <1>1, <1>2, <2>2 DEF TokenRecorded, brokerVars, outboxVars, appVars
  <2>3. QED
    BY <1>2, <2>1, <2>2, TargetMaps, AnswerMaps, TakeMaps DEF WorkerOp
<1>3. CASE (PublisherOp \/ PublisherFailure) /\ UNCHANGED workerVars
  BY <1>3, PublisherMaps
<1>4. CASE PublisherLost /\ WorkerLost
  BY <1>1, <1>4 DEF PublisherLost, WorkerLost, appVars
<1>5. CASE UNCHANGED <<brokerVars, outboxVars, workerVars>>
  BY <1>1, <1>5 DEF brokerVars, outboxVars, workerVars, appVars
<1>6. QED
  BY <1>2, <1>3, <1>4, <1>5, StepCases

\* The initial states hold the whole of the inductive invariant.
LEMMA DeliveryInitially ==
  ASSUME Init
  PROVE  /\ TypeOK /\ GoroutinesOwned /\ SuccessIsReal /\ AppliedWithRow
         /\ SendsAccounted /\ CopiesConserved /\ LateIsRecorded
<1>1. SuccessIsReal /\ AppliedWithRow /\ LateIsRecorded
  BY DEF Init, WorkerInit, SuccessIsReal, AckMeansApplied, Idle, AppliedWithRow,
         LateIsRecorded
<1>2. SendsAccounted
  BY DEF Init, BrokerInit, OutboxInit, SendsAccounted, SentWithinFaults
<1>3. QED
  BY <1>1, <1>2, TypesInitially, CopiesInitially

\* Publisher, broker, sync worker and applications together implement the
\* abstract promise: an application applies a committed event at most once, an
\* event is closed only when all its targets have applied it, and only
\* committed events are applied, closed or dead-lettered.
THEOREM ImplementsPromise == Spec => KeepsPromise
<1> DEFINE I == /\ TypeOK /\ GoroutinesOwned /\ SuccessIsReal /\ AppliedWithRow
                /\ SendsAccounted /\ CopiesConserved /\ LateIsRecorded
<1>1. Init => I
  BY DeliveryInitially
<1>2. I /\ [Next]_vars => I'
  BY TypeSteps, SuccessSteps, AppliedSteps, SendsSteps, CopiesSteps, LateSteps
<1>3. Init => Promise!Init
  BY DEF Init, BrokerInit, OutboxInit, WorkerInit, Promise!Init
<1>4. I /\ [Next]_vars => [Promise!Next]_(Promise!vars)
  BY PromiseSteps
<1>5. Spec => Promise!Spec
  BY <1>1, <1>2, <1>3, <1>4, PTL DEF Spec, Promise!Spec
<1>6. QED
  BY <1>5 DEF KeepsPromise

-----------------------------------------------------------------------------
(* All of it.                                                              *)

\* The inductive invariant of the delivery path holds in every state.
THEOREM DeliveryInvariant == Spec => []DeliveryInv
<1>1. Init => DeliveryInv
  <2>1. Init => GivenUpIsEarned
    BY DEF Init, WorkerInit, BrokerInit, GivenUpIsEarned, DeadLetterEarned, Idle
  <2>2. Init => ClaimKept
    BY DEF Init, WorkerInit, ClaimKept, Idle, Posting, Marking
  <2>3. Init => TriesLeft
    BY TriesInitially
  <2>4. Init => NoEventLost
    BY DEF Init, OutboxInit, NoEventLost
  <2>5. QED
    BY <2>1, <2>2, <2>3, <2>4, DeliveryInitially DEF DeliveryInv
<1>2. DeliveryInv /\ [Next]_vars => DeliveryInv'
  BY TypeSteps, SuccessSteps, AppliedSteps, GivenUpSteps, SendsSteps,
     NotLostSteps, CopiesSteps, ClaimSteps, TriesSteps, LateSteps
     DEF DeliveryInv
<1>3. QED
  BY <1>1, <1>2, PTL DEF Spec

-----------------------------------------------------------------------------
(* Waiting between attempts.                                               *)

\* Some number of a set of naturals is not above any other.
LEMMA LeastNumber ==
  ASSUME NEW S, S \subseteq Nat, S # {}
  PROVE  \E m \in S : \A k \in S : ~ (k < m)
<1> DEFINE R == OpToRel(<, Nat)
<1>1. IsWellFoundedOn(R, Nat)
  BY NatLessThanWellFounded
<1> HIDE DEF R
<1>2. \E m \in S : \A k \in S : ~ (<<k, m>> \in R)
  BY <1>1, WFMin
<1>3. \A k, m \in Nat : k < m => <<k, m>> \in R
  BY DEF R, OpToRel
<1>4. QED
  BY <1>2, <1>3

\* Induction over the naturals, for sets: a set that has 0 and the successor of
\* each of its numbers has them all.
LEMMA NumbersByInduction ==
  ASSUME NEW S, 0 \in S, \A n \in Nat : n \in S => n + 1 \in S
  PROVE  Nat \subseteq S
<1> DEFINE T == Nat \ S
<1>1. SUFFICES ASSUME T # {} PROVE FALSE
  OBVIOUS
<1>2. PICK m \in T : \A k \in T : ~ (k < m)
  BY <1>1, LeastNumber
<1>3. m \in Nat /\ m # 0 /\ m - 1 \in Nat /\ m - 1 < m
  BY <1>2
<1>4. QED
  BY <1>2, <1>3

\* g has the first n values of F iterated from b.
Iteration(g, n, V, F, b) ==
  /\ g \in [0 .. n -> V] /\ g[0] = b
  /\ \A i \in 1 .. n : g[i] = F[g[i - 1]]

\* Every function can be iterated from every value: what recursion asks for exists.
LEMMA IterationExists ==
  ASSUME NEW V, NEW b \in V, NEW F \in [V -> V], NEW n \in Nat
  PROVE  \E g : Iteration(g, n, V, F, b)
<1> DEFINE Iterates(g, k) == Iteration(g, k, V, F, b)
           S == {k \in Nat : \E g : Iterates(g, k)}
<1>1. 0 \in S
  <2>1. Iterates([i \in 0 .. 0 |-> b], 0)
    BY DEF Iteration
  <2>2. QED
    BY <2>1
<1>2. ASSUME NEW k \in Nat, k \in S PROVE k + 1 \in S
  <2>1. PICK g : Iterates(g, k)
    BY <1>2
  <2> DEFINE h == [i \in 0 .. k + 1 |-> IF i <= k THEN g[i] ELSE F[g[k]]]
  <2>2. h \in [0 .. k + 1 -> V] /\ h[0] = b
    BY <2>1 DEF Iteration
  <2>3. ASSUME NEW i \in 1 .. k + 1 PROVE h[i] = F[h[i - 1]]
    BY <2>1 DEF Iteration
  <2>4. Iterates(h, k + 1)
    BY <2>2, <2>3 DEF Iteration
  <2> HIDE DEF Iterates
  <2>5. \E f : Iterates(f, k + 1)
    BY <2>4
  <2>6. QED
    BY <2>5
<1> HIDE DEF S
<1>3. n \in S
  BY <1>1, <1>2, NumbersByInduction
<1>4. QED
  BY <1>3 DEF S

\* What a duration can hold, it holds.
LEMMA NoWrap ==
  ASSUME NEW n \in 0 .. Largest
  PROVE  Wrap(n) = n
<1>1. \A x, m \in Nat : x < m => x % m = x
  OBVIOUS
<1>2. /\ n + Largest + 1 \in Nat /\ 2 * (Largest + 1) \in Nat
      /\ n + Largest + 1 < 2 * (Largest + 1)
  BY LargestAssumption
<1>3. QED
  BY <1>1, <1>2, LargestAssumption DEF Wrap

\* The loop of backoffFor, with wrapping durations, and the doubling without.
Stepped(v, cap) == IF v > cap \div 2 THEN cap ELSE Wrap(2 * v)
Capped(v, cap)  == IF v > cap THEN cap ELSE v

\* One round of the loop loses nothing of what the cap leaves to be seen.
LEMMA RoundAgrees ==
  ASSUME NEW cap \in 1 .. Largest, NEW v \in 1 .. Largest, NEW w \in Nat \ {0},
         Capped(v, cap) = Capped(w, cap)
  PROVE  /\ Stepped(v, cap) \in 1 .. Largest
         /\ 2 * w \in Nat \ {0}
         /\ Capped(Stepped(v, cap), cap) = Capped(2 * w, cap)
<1>1. 2 * w \in Nat \ {0} /\ Largest \in Nat
  BY LargestAssumption
<1>2. CASE v > cap \div 2
  <2>1. Stepped(v, cap) = cap
    BY <1>2 DEF Stepped
  <2>2. 2 * v > cap
    BY <1>2
  <2>3. v <= cap => v <= w
    BY DEF Capped
  <2>4. v > cap => w >= cap
    BY DEF Capped
  <2>5. 2 * w > cap
    BY <2>2, <2>3, <2>4
  <2>6. QED
    BY <1>1, <2>1, <2>5 DEF Capped
<1>3. CASE ~ (v > cap \div 2)
  <2>1. 2 * v <= cap /\ v <= cap
    BY <1>3
  <2>2. 2 * v \in 0 .. Largest
    BY <1>1, <2>1
  <2>3. Stepped(v, cap) = 2 * v
    BY <1>3, <2>2, NoWrap DEF Stepped
  <2>4. w = v \/ (v = cap /\ w > cap)
    BY <2>1 DEF Capped
  <2>5. w = v
    BY <2>1, <2>4
  <2>6. QED
    BY <1>1, <2>2, <2>3, <2>5
<1>4. QED
  BY <1>2, <1>3

\* The recursion of the loop defines a function.
LEMMA LoopDefined ==
  ASSUME NEW attempt \in Nat, NEW base \in 1 .. Largest, NEW cap \in 1 .. Largest
  PROVE  \E f : f = [i \in 0 .. attempt |->
                     IF i = 0 THEN base
                     ELSE IF f[i - 1] > cap \div 2 THEN cap ELSE Wrap(2 * f[i - 1])]
<1> DEFINE F == [v \in Int |-> IF v > cap \div 2 THEN cap ELSE Wrap(2 * v)]
<1>1. F \in [Int -> Int]
  <2>1. \A n \in Int : Wrap(n) \in Int
    BY LargestAssumption DEF Wrap
  <2>2. QED
    BY <2>1
<1>2. \A v \in Int : F[v] = IF v > cap \div 2 THEN cap ELSE Wrap(2 * v)
  OBVIOUS
<1>3. base \in Int
  BY LargestAssumption
<1> HIDE DEF F
<1>4. PICK g \in [0 .. attempt -> Int] :
         g[0] = base /\ \A i \in 1 .. attempt : g[i] = F[g[i - 1]]
  <2>1. PICK g : Iteration(g, attempt, Int, F, base)
    BY <1>1, <1>3, IterationExists
  <2>2. QED
    BY <2>1 DEF Iteration
<1>5. ASSUME NEW i \in 0 .. attempt
      PROVE  g[i] = IF i = 0 THEN base
                    ELSE IF g[i - 1] > cap \div 2 THEN cap ELSE Wrap(2 * g[i - 1])
  <2>1. CASE i = 0
    BY <1>4, <2>1
  <2>2. CASE i # 0
    <3>1. i \in 1 .. attempt /\ i - 1 \in 0 .. attempt
      BY <2>2
    <3>2. g[i] = F[g[i - 1]] /\ g[i - 1] \in Int
      BY <1>4, <3>1
    <3>3. QED
      BY <1>2, <2>2, <3>2
  <2>3. QED
    BY <2>1, <2>2
<1>6. g = [i \in 0 .. attempt |->
             IF i = 0 THEN base
             ELSE IF g[i - 1] > cap \div 2 THEN cap ELSE Wrap(2 * g[i - 1])]
  BY <1>4, <1>5
<1>7. QED
  BY <1>6, Zenon

\* Likewise for the doubling.
LEMMA DoublingDefined ==
  ASSUME NEW attempt \in Nat, NEW base \in Int
  PROVE  \E f : f = [i \in 0 .. attempt |-> IF i = 0 THEN base ELSE 2 * f[i - 1]]
<1> DEFINE F == [v \in Int |-> 2 * v]
<1>1. F \in [Int -> Int] /\ \A v \in Int : F[v] = 2 * v
  OBVIOUS
<1> HIDE DEF F
<1>2. PICK g \in [0 .. attempt -> Int] :
         g[0] = base /\ \A i \in 1 .. attempt : g[i] = F[g[i - 1]]
  <2>1. PICK g : Iteration(g, attempt, Int, F, base)
    BY <1>1, IterationExists
  <2>2. QED
    BY <2>1 DEF Iteration
<1>3. ASSUME NEW i \in 0 .. attempt
      PROVE  g[i] = IF i = 0 THEN base ELSE 2 * g[i - 1]
  <2>1. CASE i = 0
    BY <1>2, <2>1
  <2>2. CASE i # 0
    <3>1. i \in 1 .. attempt /\ i - 1 \in 0 .. attempt
      BY <2>2
    <3>2. g[i] = F[g[i - 1]] /\ g[i - 1] \in Int
      BY <1>2, <3>1
    <3>3. QED
      BY <1>1, <2>2, <3>2
  <2>3. QED
    BY <2>1, <2>2
<1>4. g = [i \in 0 .. attempt |-> IF i = 0 THEN base ELSE 2 * g[i - 1]]
  BY <1>2, <1>3
<1>5. QED
  BY <1>4, Zenon

\* The wait that backoffFor computes is the doubling with a cap, for every
\* attempt and every two durations.
THEOREM WaitsAreDoubled ==
  ASSUME NEW attempt \in Nat, NEW base \in Durations, NEW max \in Durations
  PROVE  BackoffFor(attempt, base, max) = Reference(attempt, base, max)
<1>1. CASE base <= 0
  BY <1>1 DEF BackoffFor, Reference
<1>2. CASE ~ (base <= 0)
  <2> DEFINE cap == IF max <= 0 THEN base ELSE max
             d[i \in 0 .. attempt] ==
               IF i = 0 THEN base
               ELSE IF d[i - 1] > cap \div 2 THEN cap ELSE Wrap(2 * d[i - 1])
             full[i \in 0 .. attempt] == IF i = 0 THEN base ELSE 2 * full[i - 1]
  <2>1. /\ BackoffFor(attempt, base, max)
             = IF base <= 0 THEN 0 ELSE IF d[attempt] > cap THEN cap ELSE d[attempt]
        /\ Reference(attempt, base, max)
             = IF base <= 0 THEN 0 ELSE IF full[attempt] > cap THEN cap ELSE full[attempt]
    BY Zenon DEF BackoffFor, Reference
  <2>2. base \in 1 .. Largest /\ cap \in 1 .. Largest
    BY <1>2, LargestAssumption DEF Durations
  <2>3. d = [i \in 0 .. attempt |->
               IF i = 0 THEN base
               ELSE IF d[i - 1] > cap \div 2 THEN cap ELSE Wrap(2 * d[i - 1])]
    <3> HIDE DEF cap
    <3>1. \E f : f = [i \in 0 .. attempt |->
                 IF i = 0 THEN base
                 ELSE IF f[i - 1] > cap \div 2 THEN cap ELSE Wrap(2 * f[i - 1])]
      BY <2>2, LoopDefined
    <3>2. QED
      BY <3>1, Zenon
  <2>4. full = [i \in 0 .. attempt |-> IF i = 0 THEN base ELSE 2 * full[i - 1]]
    <3>1. \E f : f = [i \in 0 .. attempt |-> IF i = 0 THEN base ELSE 2 * f[i - 1]]
      <4>1. base \in Int
        BY <2>2, LargestAssumption
      <4>2. QED
        BY <4>1, DoublingDefined
    <3>2. QED
      BY <3>1, Zenon
  <2> HIDE DEF d, full, cap
  <2>5. /\ d[0] = base /\ full[0] = base
        /\ \A i \in 1 .. attempt : d[i] = Stepped(d[i - 1], cap) /\ full[i] = 2 * full[i - 1]
    BY <2>3, <2>4 DEF Stepped
  <2> DEFINE Agree(i) == /\ d[i] \in 1 .. Largest /\ full[i] \in Nat \ {0}
                         /\ Capped(d[i], cap) = Capped(full[i], cap)
             S == {i \in Nat : i <= attempt => Agree(i)}
  <2>6. 0 \in S
    BY <2>2, <2>5
  <2>7. ASSUME NEW i \in Nat, i \in S PROVE i + 1 \in S
    <3>1. SUFFICES ASSUME i + 1 <= attempt PROVE Agree(i + 1)
      OBVIOUS
    <3>2. Agree(i)
      BY <2>7, <3>1
    <3>3. d[i + 1] = Stepped(d[i], cap) /\ full[i + 1] = 2 * full[i]
      <4>1. i + 1 \in 1 .. attempt /\ (i + 1) - 1 = i
        BY <3>1
      <4>2. QED
        BY <2>5, <4>1
    <3>4. /\ Stepped(d[i], cap) \in 1 .. Largest
          /\ 2 * full[i] \in Nat \ {0}
          /\ Capped(Stepped(d[i], cap), cap) = Capped(2 * full[i], cap)
      BY <2>2, <3>2, RoundAgrees
    <3>5. QED
      BY <3>3, <3>4
  <2> HIDE DEF S
  <2>8. attempt \in S
    BY <2>6, <2>7, NumbersByInduction
  <2>9. Agree(attempt)
    BY <2>8 DEF S
  <2>10. QED
    BY <1>2, <2>1, <2>9 DEF Capped
<1>3. QED
  BY <1>1, <1>2

\* Whatever durations the worker is started with, each wait is the capped doubling.
THEOREM WaitsAreCapped == Spec => []BackoffIsCapped
<1>1. BackoffIsCapped
  BY WaitsAreDoubled DEF BackoffIsCapped
<1>2. QED
  BY <1>1, PTL
==============================================================================
