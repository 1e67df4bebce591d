-------------------------- MODULE OutboxPublisher ---------------------------
(***************************************************************************)
(* The transactional outbox and its publisher: the `events` table the Auth *)
(* Provider's transactions insert into, and OutboxPublisher of             *)
(* shared/queue/queue.go, which the sync worker runs.  A batch is a        *)
(* snapshot of the oldest unpublished rows; each row is published, waits   *)
(* for the broker's confirm, and only then gets its published_at.          *)
(*                                                                         *)
(* Between the confirm and MarkPublished other actors run, and a row whose *)
(* publication failed, or whose mark failed, is found again by the next    *)
(* batch: that is where duplicates of an event come from.                  *)
(***************************************************************************)
EXTENDS Broker, FiniteSets

CONSTANT BatchSize            \* OutboxPublisher.BatchSize (100 in the code)

ASSUME BatchSizeAssumption == BatchSize \in Nat \ {0}

VARIABLES
  outbox,    \* outbox[e]: no row yet, published_at IS NULL, or published
  batch,     \* rows of the current batch PublishBatch has not reached
  marking    \* row confirmed by the broker and not yet marked, or NoEvent

outboxVars    == <<outbox, batch, marking>>
publisherVars == <<outboxVars, brokerVars>>

OutboxTypeOK ==
  /\ outbox  \in [Events -> {"absent", "unpublished", "published"}]
  /\ batch   \in SUBSET Events
  /\ marking \in Events \cup {NoEvent}

OutboxInit ==
  /\ outbox  = [e \in Events |-> "absent"]
  /\ batch   = {}
  /\ marking = NoEvent

Unpublished == {e \in Events : outbox[e] = "unpublished"}

\* Faulty variant (EventuallyResolved): the LIMIT is off by one.
OldestUnpublished_OffByOne ==
  {e \in Unpublished : Cardinality({f \in Unpublished : f <= e}) < BatchSize}

\* ListUnpublished's rows: oldest first, at most BatchSize of them.
OldestUnpublished ==
  {e \in Unpublished : Cardinality({f \in Unpublished : f < e}) < BatchSize}

\* A revoking transaction of the Auth Provider commits its event row.
\* created_at is taken before the commit, so rows may appear out of order.
CommitEvent(e) ==
  /\ outbox[e] = "absent"
  /\ outbox' = [outbox EXCEPT ![e] = "unpublished"]
  /\ UNCHANGED <<batch, marking, brokerVars>>

PublisherIdle == batch = {} /\ marking = NoEvent

ListUnpublished ==
  /\ PublisherIdle
  /\ OldestUnpublished # {}
  /\ batch' = OldestUnpublished
  /\ UNCHANGED <<outbox, marking, brokerVars>>

\* The row PublishBatch publishes next.
IsNext(e) == e \in batch /\ marking = NoEvent /\ \A f \in batch : e <= f

\* Publish returns nil: the broker has the message and has confirmed it.
PublishConfirmed(e) ==
  /\ IsNext(e)
  /\ batch'   = batch \ {e}
  /\ marking' = e
  /\ Enqueue(e)
  /\ UNCHANGED outbox

\* Faulty variant (NoEventLost): the error is dropped, the row gets marked.
PublishFails_MarkedAnyway(e) ==
  /\ IsNext(e)
  /\ batch'   = batch \ {e}
  /\ marking' = e
  /\ UNCHANGED <<outbox, brokerVars>>

\* Publish returns an error: the channel refused the message, the broker
\* nacked it, or the confirm did not arrive in time although the broker took
\* the message.  PublishBatch records the error and goes on with the batch.
PublishFails(e) ==
  /\ IsNext(e)
  /\ batch' = batch \ {e}
  /\ Enqueue(e) \/ UNCHANGED brokerVars
  /\ UNCHANGED <<outbox, marking>>

\* Faulty variant (SentWithinFaults): published_at is never written.
MarkPublished_NotWritten ==
  /\ marking # NoEvent
  /\ marking' = NoEvent
  /\ UNCHANGED <<outbox, batch, brokerVars>>

MarkPublished ==
  /\ marking # NoEvent
  /\ outbox'  = [outbox EXCEPT ![marking] = "published"]
  /\ marking' = NoEvent
  /\ UNCHANGED <<batch, brokerVars>>

\* The UPDATE fails: the row stays unpublished and is published again.
MarkPublishedFails ==
  /\ marking # NoEvent
  /\ marking' = NoEvent
  /\ UNCHANGED <<outbox, batch, brokerVars>>

\* The process ends: the batch and a pending mark are forgotten.
PublisherLost ==
  /\ batch'   = {}
  /\ marking' = NoEvent
  /\ UNCHANGED outbox
=============================================================================
