-------------------------- MODULE MemoryTransport --------------------------
(***************************************************************************)
(* The in-memory broker: queues under a mutex and a condition variable     *)
(* each, one goroutine per subscription that pops and delivers, and Stop,  *)
(* which wakes that goroutine and waits for it.  Messages are published to *)
(* queues by name, as on the default exchange.                             *)
(***************************************************************************)
EXTENDS Naturals, Sequences, FiniteSets

CONSTANTS QueueName,    \* queues
          Sub,          \* subscriptions
          QueueOf       \* by subscription: the queue it consumes

ASSUME MemoryAssumption == QueueOf \in [Sub -> QueueName]

VARIABLES
    queues,     \* the queues that are declared
    pending,    \* by queue: what waits there, in order
    unconfirmed,\* the broker was dialled with confirms=off
    sub,        \* by subscription: off, ready, waiting, busy or ended
    delivery,   \* by subscription: what it is delivering, as a sequence of at most one
    wake,       \* queues whose Broadcast is still to come
    stop        \* by subscription: no, closed or broadcast

memQueues == <<queues, pending, wake>>
memVars == <<memQueues, unconfirmed, sub, delivery, stop>>

MemInit ==
    /\ queues \in SUBSET QueueName
    /\ pending = [q \in QueueName |-> <<>>]
    /\ unconfirmed \in BOOLEAN
    /\ sub = [s \in Sub |-> "off"] /\ delivery = [s \in Sub |-> <<>>]
    /\ wake = {} /\ stop = [s \in Sub |-> "no"]

DeclareQueue(q) ==
    /\ q \notin queues /\ queues' = queues \union {q}
    /\ UNCHANGED <<pending, wake, unconfirmed, sub, delivery, stop>>

\* Publish: the queue is looked up, the message is appended under the queue's
\* mutex, and whoever waits is woken once the mutex is released.
Push(q, m) ==
    /\ pending' = [pending EXCEPT ![q] = Append(@, m)]
    /\ wake' = wake \union {q}

Publish(q, m) ==
    /\ IF q \in queues THEN Push(q, m) ELSE UNCHANGED <<pending, wake>>
    /\ UNCHANGED queues

\* What a mandatory publisher is told: that a message reached no queue is
\* known only with confirms on.
Routed(q) == unconfirmed \/ q \in queues

Woken(q) == [s \in Sub |-> IF sub[s] = "waiting" /\ QueueOf[s] = q THEN "ready" ELSE sub[s]]

Broadcast(q) ==
    /\ q \in wake /\ wake' = wake \ {q}
    /\ sub' = Woken(q)
    /\ UNCHANGED <<queues, pending, unconfirmed, delivery, stop>>

Consume(s) ==
    /\ sub[s] = "off" /\ stop[s] = "no" /\ QueueOf[s] \in queues
    /\ sub' = [sub EXCEPT ![s] = "ready"]
    /\ UNCHANGED <<memQueues, unconfirmed, delivery, stop>>

\* pop, from taking the mutex to giving it up: stopped, or the head of the
\* queue, or wait to be woken.
Pop(s) ==
    /\ sub[s] = "ready"
    /\ LET q == QueueOf[s]
       IN  IF stop[s] # "no"
           THEN sub' = [sub EXCEPT ![s] = "ended"] /\ UNCHANGED <<pending, delivery>>
           ELSE IF pending[q] = <<>>
           THEN sub' = [sub EXCEPT ![s] = "waiting"] /\ UNCHANGED <<pending, delivery>>
           ELSE /\ sub' = [sub EXCEPT ![s] = "busy"]
                /\ delivery' = [delivery EXCEPT ![s] = <<Head(pending[q])>>]
                /\ pending' = [pending EXCEPT ![q] = Tail(@)]
    /\ UNCHANGED <<queues, wake, unconfirmed, stop>>

\* The callback returns: the message is with the engine, settled or not.
Delivered(s) ==
    /\ sub[s] = "busy"
    /\ sub' = [sub EXCEPT ![s] = "ready"] /\ delivery' = [delivery EXCEPT ![s] = <<>>]

\* Nack with requeue: back to the head of the queue.
Requeue(s) ==
    /\ sub[s] = "busy"
    /\ pending' = [pending EXCEPT ![QueueOf[s]] = delivery[s] \o @]
    /\ wake' = wake \union {QueueOf[s]}
    /\ Delivered(s)
    /\ UNCHANGED <<queues, unconfirmed, stop>>

\* Stop that wakes nobody.
StopSilently(s) ==
    /\ \/ stop[s] = "no" /\ sub[s] # "off" /\ stop' = [stop EXCEPT ![s] = "closed"]
       \/ stop[s] = "closed" /\ stop' = [stop EXCEPT ![s] = "broadcast"]
    /\ UNCHANGED <<memQueues, unconfirmed, sub, delivery>>

\* Stop: close the channel, then broadcast under the mutex, then wait.
Stop(s) ==
    /\ \/ stop[s] = "no" /\ sub[s] # "off"
          /\ stop' = [stop EXCEPT ![s] = "closed"] /\ UNCHANGED sub
       \/ stop[s] = "closed"
          /\ stop' = [stop EXCEPT ![s] = "broadcast"] /\ sub' = Woken(QueueOf[s])
    /\ UNCHANGED <<memQueues, unconfirmed, delivery>>

StopReturned(s) == stop[s] = "broadcast" /\ sub[s] = "ended"
=============================================================================
