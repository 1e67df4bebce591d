------------------------------- MODULE Broker -------------------------------
(***************************************************************************)
(* RabbitMQ as shared/queue/queue.go sets it up and uses it: the topic     *)
(* exchange `auth.events` bound to one durable main queue, whose rejected  *)
(* messages go to the dead-letter queue.  Messages are persistent and      *)
(* acknowledged by hand, so a message leaves the main queue for good only  *)
(* by an ack or by a nack without requeue.                                 *)
(*                                                                         *)
(* The main queue is a bag of copies per event: RabbitMQ's order does not  *)
(* matter to the worker, which handles up to ConsumerPrefetch deliveries   *)
(* at once.  A prefetched delivery nobody has started on counts as ready.  *)
(***************************************************************************)
EXTENDS Integers

CONSTANT NumEvents            \* events the Auth Provider ever commits

ASSUME NumEventsAssumption == NumEvents \in Nat

\* An event is named by its rank in `created_at, id`, the outbox order.
Events  == 1 .. NumEvents
NoEvent == 0

VARIABLES
  ready,     \* ready[e]: copies of e waiting in the main queue
  dead,      \* dead[e]: copies of e in the dead-letter queue
  sent       \* history: sent[e] counts the publications the broker took

brokerVars == <<ready, dead, sent>>

BrokerTypeOK ==
  /\ ready \in [Events -> Nat]
  /\ dead  \in [Events -> Nat]
  /\ sent  \in [Events -> Nat]

BrokerInit ==
  /\ ready = [e \in Events |-> 0]
  /\ dead  = [e \in Events |-> 0]
  /\ sent  = [e \in Events |-> 0]

\* The exchange routes a persistent message to the main queue.
Enqueue(e) ==
  /\ ready' = [ready EXCEPT ![e] = @ + 1]
  /\ sent'  = [sent EXCEPT ![e] = @ + 1]
  /\ UNCHANGED dead

\* The broker hands a copy to the consumer; it stays unacknowledged.
Hand(e) ==
  /\ ready[e] > 0
  /\ ready' = [ready EXCEPT ![e] = @ - 1]
  /\ UNCHANGED <<dead, sent>>

\* basic.ack: the copy is gone.
Drop == UNCHANGED brokerVars

\* basic.nack with requeue, or the channel closed under an unacked copy.
Requeue(e) ==
  /\ ready' = [ready EXCEPT ![e] = @ + 1]
  /\ UNCHANGED <<dead, sent>>

\* Faulty variant (CopiesConserved): the dead-lettered copy also stays.
DeadLetter_Keeps(e) ==
  /\ dead'  = [dead EXCEPT ![e] = @ + 1]
  /\ ready' = [ready EXCEPT ![e] = @ + 1]
  /\ UNCHANGED sent

\* basic.nack without requeue: dead-lettered by the queue's arguments.
DeadLetter(e) ==
  /\ dead' = [dead EXCEPT ![e] = @ + 1]
  /\ UNCHANGED <<ready, sent>>
=============================================================================
