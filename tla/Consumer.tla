------------------------------ MODULE Consumer ------------------------------
(***************************************************************************)
(* The consuming engine of src/amqp/consumer.go: deliveries travel from    *)
(* the broker through the transport's callback and the bounded work        *)
(* channel to the workers, every handler decision is carried out by an     *)
(* acknowledgement or by a republish followed by one, and Close drains     *)
(* what is in flight before it releases the channel.                       *)
(*                                                                         *)
(* The broker is what the engine can observe of it: copies of messages,    *)
(* each in one queue or handed out unacknowledged, a prefetch limit, and a *)
(* channel whose loss returns what it had handed out.  Queues are sets: no *)
(* property here depends on their order.  Copy identifiers are reused once *)
(* a copy is gone, so Copies bounds how many exist at one time.            *)
(***************************************************************************)
EXTENDS Naturals, FiniteSets, TLC

CONSTANTS Msg,          \* the application's messages
          Copies,       \* identifiers of the copies the broker holds
          Workers,      \* the worker goroutines; Concurrency is their number
          Prefetch,     \* how many unacknowledged deliveries the broker allows
          MaxAttempts,  \* RetryPolicy.MaxAttempts
          BrokerWaits,  \* attempts whose backoff reaches BrokerWaitThreshold
          DrainBound,   \* DrainTimeout is positive
          MaxTrouble,   \* bound on the faults and refusals of one behaviour
          None          \* no copy, no delivery

ASSUME ConsumerAssumption ==
    /\ MaxAttempts \in Nat \ {0}
    /\ Prefetch \in Nat \ {0}
    /\ MaxTrouble \in Nat
    /\ BrokerWaits \subseteq 1..MaxAttempts
    /\ DrainBound \in BOOLEAN

Attempts == 1..MaxAttempts

\* Where a copy can be: on the queue, handed out, on a retry rung, on
\* {queue}.dlq or on {queue}.parked.
Queues == {"ready", "rung", "dlq", "parked"}
Copy == [at: Queues \cup {"unacked"}, msg: Msg, attempt: Attempts]

\* What the consumer holds of a copy.  gen is the generation of the channel
\* the delivery arrived on: a settlement travels on that channel only.
Delivery == [copy: Copies, gen: Nat, msg: Msg, attempt: Attempts]

\* Where a worker's republish is going, and at which attempt.
Job == [to: Queues, attempt: Attempts]

ASSUME NoneAssumption == None \notin Copy /\ None \notin Delivery /\ None \notin Job

\* The places a delivery can be in, besides a worker's hands.
Stations == {"inbox", "offer", "work", "timers"}

ASSUME WorkersAssumption == Workers \cap Stations = {}

VARIABLES
    copy,       \* the broker: its copies
    published,  \* messages the application has published
    done,       \* messages some handler has accepted
    chan,       \* the consumer's channel: "open", "lost" or "closed"
    gen,        \* its generation
    inbox,      \* deliveries the client has received and not yet handed over
    offer,      \* the delivery the transport's callback is holding (at most one)
    work,       \* Consumer.work, the buffered channel
    pc,         \* what each worker is doing
    held,       \* the delivery each worker has
    job,        \* the republish each worker has decided on
    timers,     \* deliveries waiting out setAsideRefusedPause
    phase,      \* how far Close has got
    ctxDone,    \* the handlers' context has been cancelled
    trouble,    \* faults and refusals so far
    clean       \* nothing has happened that may duplicate a message

brokerVars == <<copy, published, done>>
chanVars == <<chan, gen>>
feedVars == <<inbox, offer, work>>
workerVars == <<pc, held, job>>
closeVars == <<phase, ctxDone>>
faultVars == <<trouble, clean>>
vars == <<brokerVars, chanVars, feedVars, workerVars, timers, closeVars, faultVars>>

Phases == {"open", "stopping", "cancelled", "draining", "grace", "drained", "closed"}
Steps == {"idle", "handling", "rung", "hop", "aside", "acking", "nacking"}

-----------------------------------------------------------------------------
(* Helpers *)

Exists(c) == copy[c] # None
Unacked == {c \in Copies : Exists(c) /\ copy[c].at = "unacked"}
isStopping == phase # "open"
workClosed == phase \in {"draining", "grace", "drained", "closed"}
Busy == {w \in Workers : pc[w] # "idle"}
AllExited == workClosed /\ work = {} /\ Busy = {}

\* A settlement reaches the broker only on the channel of its delivery.
Reaches(d) == chan = "open" /\ d.gen = gen

\* Delivery.Ack and Delivery.Nack(true); their errors are ignored.
AckOf(d) == IF Reaches(d) THEN [copy EXCEPT ![d.copy] = None] ELSE copy
NackOf(d) == IF Reaches(d) THEN [copy EXCEPT ![d.copy].at = "ready"] ELSE copy

\* The channel has gone: everything handed out on it is back on its queue.
Returned == [c \in Copies |-> IF c \in Unacked THEN [copy[c] EXCEPT !.at = "ready"]
                                               ELSE copy[c]]

Idle(w) == /\ pc' = [pc EXCEPT ![w] = "idle"]
           /\ held' = [held EXCEPT ![w] = None]
           /\ job' = [job EXCEPT ![w] = None]

Goto(w, step) == pc' = [pc EXCEPT ![w] = step] /\ UNCHANGED <<held, job>>

\* The worker has decided to republish at attempt n onto queue q.
Decide(w, step, q, n) ==
    /\ pc' = [pc EXCEPT ![w] = step]
    /\ job' = [job EXCEPT ![w] = [to |-> q, attempt |-> n]]
    /\ UNCHANGED held

Trouble == trouble < MaxTrouble /\ trouble' = trouble + 1

-----------------------------------------------------------------------------
Init ==
    /\ copy = [c \in Copies |-> None]
    /\ published = {} /\ done = {}
    /\ chan = "open" /\ gen = 0
    /\ inbox = {} /\ offer = {} /\ work = {}
    /\ pc = [w \in Workers |-> "idle"]
    /\ held = [w \in Workers |-> None]
    /\ job = [w \in Workers |-> None]
    /\ timers = {}
    /\ phase = "open" /\ ctxDone = FALSE
    /\ trouble = 0 /\ clean = TRUE

-----------------------------------------------------------------------------
(* The broker (external) *)

\* The application publishes a message; its first delivery is attempt 1.
Publish(m) ==
    /\ m \notin published
    /\ \E c \in Copies :
        /\ ~Exists(c)
        /\ copy' = [copy EXCEPT ![c] = [at |-> "ready", msg |-> m, attempt |-> 1]]
    /\ published' = published \cup {m}
    /\ UNCHANGED <<done, chanVars, feedVars, workerVars, timers, closeVars, faultVars>>

\* basic.deliver, within the prefetch, until basic.cancel has been answered.
Deliver(c) ==
    /\ chan = "open" /\ phase \in {"open", "stopping"}
    /\ Exists(c) /\ copy[c].at = "ready"
    /\ Cardinality(Unacked) < Prefetch
    /\ copy' = [copy EXCEPT ![c].at = "unacked"]
    /\ inbox' = inbox \cup {[copy |-> c, gen |-> gen, msg |-> copy[c].msg,
                             attempt |-> copy[c].attempt]}
    /\ UNCHANGED <<published, done, chanVars, offer, work, workerVars, timers,
                   closeVars, faultVars>>

\* A rung's x-message-ttl expires: its dead-letter target is the source queue.
RungExpires(c) ==
    /\ Exists(c) /\ copy[c].at = "rung"
    /\ copy' = [copy EXCEPT ![c].at = "ready"]
    /\ UNCHANGED <<published, done, chanVars, feedVars, workerVars, timers,
                   closeVars, faultVars>>

\* The channel is lost.  The client drops what it had buffered, or what it had
\* buffered is still handed over.
ChannelLost ==
    /\ chan = "open" /\ Trouble
    /\ chan' = "lost" /\ copy' = Returned /\ clean' = FALSE
    /\ inbox' \in {inbox, {}}
    /\ UNCHANGED <<published, done, gen, offer, work, workerVars, timers, closeVars>>

\* The transport reattaches the subscription on a new channel.
Reattach ==
    /\ chan = "lost" /\ phase \in {"open", "stopping"}
    /\ chan' = "open" /\ gen' = gen + 1
    /\ UNCHANGED <<brokerVars, feedVars, workerVars, timers, closeVars, faultVars>>

\* The process dies and another instance of the service starts consuming.
Restart ==
    /\ Trouble /\ clean' = FALSE
    /\ copy' = Returned
    /\ chan' = "open"
    /\ inbox' = {} /\ offer' = {} /\ work' = {} /\ timers' = {}
    /\ pc' = [w \in Workers |-> "idle"]
    /\ held' = [w \in Workers |-> None]
    /\ job' = [w \in Workers |-> None]
    /\ phase' = "open" /\ ctxDone' = FALSE
    /\ UNCHANGED <<published, done, gen>>

-----------------------------------------------------------------------------
(* The transport's callback, run by one goroutine per subscription *)

\* The next delivery: returned at once when Close has begun, else offered.
Receive(d) ==
    /\ d \in inbox /\ offer = {}
    /\ inbox' = inbox \ {d}
    /\ \/ isStopping /\ copy' = NackOf(d) /\ UNCHANGED offer
       \/ ~isStopping /\ offer' = {d} /\ UNCHANGED copy
    /\ UNCHANGED <<published, done, chanVars, work, workerVars, timers,
                   closeVars, faultVars>>

\* select: case c.work <- d
Enqueue(d) ==
    /\ d \in offer /\ Cardinality(work) < Cardinality(Workers)
    /\ work' = work \cup {d} /\ offer' = {}
    /\ UNCHANGED <<brokerVars, chanVars, inbox, workerVars, timers, closeVars, faultVars>>

\* select: case <-c.stopping
OfferRefused(d) ==
    /\ d \in offer /\ isStopping
    /\ copy' = NackOf(d) /\ offer' = {}
    /\ UNCHANGED <<published, done, chanVars, inbox, work, workerVars, timers,
                   closeVars, faultVars>>

-----------------------------------------------------------------------------
(* The workers *)

\* Mutant: a delivery returned because Close has begun is run as well.
TakeAndNack(w, d) ==
    /\ pc[w] = "idle" /\ d \in work
    /\ work' = work \ {d}
    /\ copy' = IF isStopping THEN NackOf(d) ELSE copy
    /\ pc' = [pc EXCEPT ![w] = "handling"]
    /\ held' = [held EXCEPT ![w] = d]
    /\ UNCHANGED <<job, published, done, chanVars, inbox, offer, timers, closeVars, faultVars>>

\* The worker loop: a delivery taken after Close has begun is not run.
Take(w, d) ==
    /\ pc[w] = "idle" /\ d \in work
    /\ work' = work \ {d}
    /\ \/ isStopping /\ copy' = NackOf(d) /\ UNCHANGED workerVars
       \/ /\ ~isStopping
          /\ pc' = [pc EXCEPT ![w] = "handling"]
          /\ held' = [held EXCEPT ![w] = d]
          /\ UNCHANGED <<copy, job>>
    /\ UNCHANGED <<published, done, chanVars, inbox, offer, timers, closeVars, faultVars>>

\* ackAccept.
Accept(w) ==
    /\ pc[w] = "handling"
    /\ done' = done \cup {held[w].msg}
    /\ Goto(w, "acking")
    /\ UNCHANGED <<copy, published, chanVars, feedVars, timers, closeVars, faultVars>>

\* Mutant: the envelope set aside is a new one, without the attempts it has had.
GiveUpAfresh(w, q) ==
    /\ pc[w] = "handling"
    /\ Decide(w, "aside", q, 1)
    /\ UNCHANGED <<brokerVars, chanVars, feedVars, timers, closeVars, faultVars>>

\* An interceptor refused it, the handler rejected it, panicked, or asked for a
\* retry with a fatal error or beyond the policy's attempts or age ("dlq"); the
\* handler parked it or the body does not decode ("parked").
GiveUp(w, q) ==
    /\ pc[w] = "handling"
    /\ Decide(w, "aside", q, held[w].attempt)
    /\ UNCHANGED <<brokerVars, chanVars, feedVars, timers, closeVars, faultVars>>

\* Mutant: the attempt is not counted.
RetryUncounted(w) ==
    /\ pc[w] = "handling"
    /\ LET n == held[w].attempt IN
        /\ n < MaxAttempts
        /\ IF n \in BrokerWaits THEN Decide(w, "rung", "rung", n)
                                ELSE Decide(w, "hop", "ready", n)
    /\ UNCHANGED <<brokerVars, chanVars, feedVars, timers, closeVars, faultVars>>

\* ackRetry, from the handler or from a retryable decode error.  NextWait says
\* whether there is another attempt: the age limit, a matter of wall-clock
\* time, may refuse one at any attempt.
RetryAgain(w) ==
    /\ pc[w] = "handling"
    /\ LET n == held[w].attempt IN
        /\ n < MaxAttempts
        /\ IF n \in BrokerWaits THEN Decide(w, "rung", "rung", n + 1)
                                ELSE Decide(w, "hop", "ready", n + 1)
    /\ UNCHANGED <<brokerVars, chanVars, feedVars, timers, closeVars, faultVars>>

\* ackInProgress: somebody else holds the message, the attempt stands.
InProgress(w) ==
    /\ pc[w] = "handling" /\ Trouble
    /\ Decide(w, "hop", "ready", held[w].attempt)
    /\ UNCHANGED <<brokerVars, chanVars, feedVars, timers, closeVars, clean>>

\* republish: the broker takes the copy and confirms it.
Stored(w, c) ==
    /\ ~Exists(c)
    /\ copy' = [copy EXCEPT ![c] = [at |-> job[w].to, msg |-> held[w].msg,
                                    attempt |-> job[w].attempt]]

\* republish succeeds.
RepublishOK(w, c) == Stored(w, c) /\ UNCHANGED faultVars

\* republish reports an error: the broker has nothing, or it has the copy and
\* the confirm never arrived.  A cancelled context publishes nothing.
RepublishFails(w, cancellable) ==
    \/ cancellable /\ ctxDone /\ UNCHANGED <<copy, faultVars>>
    \/ ~(cancellable /\ ctxDone) /\ Trouble /\ UNCHANGED <<copy, clean>>
    \/ /\ ~(cancellable /\ ctxDone) /\ Trouble /\ clean' = FALSE
       /\ \E c \in Copies : Stored(w, c)

\* republish reports the mandatory copy returned: no such queue.
RepublishUnrouted == Trouble /\ UNCHANGED <<copy, clean>>

\* retryInBroker.
RetryInBroker(w) ==
    /\ pc[w] = "rung"
    /\ \/ ~ctxDone /\ (\E c \in Copies : RepublishOK(w, c)) /\ Goto(w, "acking")
       \/ RepublishFails(w, TRUE) /\ Goto(w, "nacking")
       \/ ~ctxDone /\ RepublishUnrouted /\ Decide(w, "hop", "ready", job[w].attempt)
    /\ UNCHANGED <<published, done, chanVars, feedVars, timers, closeVars>>

\* Mutant: the original is acknowledged whatever became of the republish.
PutBackUnchecked(w) ==
    /\ pc[w] = "hop"
    /\ \/ ~ctxDone /\ (\E c \in Copies : RepublishOK(w, c))
       \/ RepublishFails(w, TRUE)
       \/ ~ctxDone /\ RepublishUnrouted
    /\ Goto(w, "acking")
    /\ UNCHANGED <<published, done, chanVars, feedVars, timers, closeVars>>

\* putBack, once the delay has passed or the context is done.
PutBack(w) ==
    /\ pc[w] = "hop"
    /\ \/ ~ctxDone /\ (\E c \in Copies : RepublishOK(w, c)) /\ Goto(w, "acking")
       \/ RepublishFails(w, TRUE) /\ Goto(w, "nacking")
       \/ ~ctxDone /\ RepublishUnrouted /\ Goto(w, "nacking")
    /\ UNCHANGED <<published, done, chanVars, feedVars, timers, closeVars>>

\* setAside: detached from the handlers' context; refused, the delivery is held
\* for a pause off the worker.
SetAside(w) ==
    /\ pc[w] = "aside"
    /\ \/ (\E c \in Copies : RepublishOK(w, c)) /\ Goto(w, "acking") /\ UNCHANGED timers
       \/ /\ RepublishFails(w, FALSE) \/ RepublishUnrouted
          /\ timers' = timers \cup {held[w]} /\ Idle(w)
    /\ UNCHANGED <<published, done, chanVars, feedVars, closeVars>>

\* The acknowledgement that ends a settlement.
FinishAck(w) ==
    /\ pc[w] = "acking"
    /\ copy' = AckOf(held[w]) /\ Idle(w)
    /\ UNCHANGED <<published, done, chanVars, feedVars, timers, closeVars, faultVars>>

\* The requeue after a hop that did not land.
FinishNack(w) ==
    /\ pc[w] = "nacking"
    /\ copy' = NackOf(held[w]) /\ Idle(w)
    /\ UNCHANGED <<published, done, chanVars, feedVars, timers, closeVars, faultVars>>

\* time.AfterFunc(setAsideRefusedPause, ...)
TimerFires(d) ==
    /\ d \in timers
    /\ timers' = timers \ {d} /\ copy' = NackOf(d)
    /\ UNCHANGED <<published, done, chanVars, feedVars, workerVars, closeVars, faultVars>>

-----------------------------------------------------------------------------
(* Consumer.Close *)

\* close(c.stopping).
CloseBegin ==
    /\ phase = "open" /\ phase' = "stopping"
    /\ UNCHANGED <<brokerVars, chanVars, feedVars, workerVars, timers, ctxDone, faultVars>>

\* Stop: basic.cancel, after which the broker delivers nothing more.
StopCancel ==
    /\ phase = "stopping" /\ phase' = "cancelled"
    /\ UNCHANGED <<brokerVars, chanVars, feedVars, workerVars, timers, ctxDone, faultVars>>

\* Stop returns when the callback has seen everything; then close(c.work).
StopReturns ==
    /\ phase = "cancelled" /\ inbox = {} /\ offer = {}
    /\ phase' = "draining"
    /\ UNCHANGED <<brokerVars, chanVars, feedVars, workerVars, timers, ctxDone, faultVars>>

\* Mutant: the channel is released when the work channel is empty, before the
\* handlers have settled.
HandlersNotAwaited ==
    /\ phase \in {"draining", "grace"} /\ work = {}
    /\ phase' = "drained" /\ ctxDone' = TRUE
    /\ UNCHANGED <<brokerVars, chanVars, feedVars, workerVars, timers, faultVars>>

\* awaitHandlers: every worker has ended.
HandlersDone ==
    /\ phase \in {"draining", "grace"} /\ AllExited
    /\ phase' = "drained" /\ ctxDone' = TRUE
    /\ UNCHANGED <<brokerVars, chanVars, feedVars, workerVars, timers, faultVars>>

\* awaitHandlers: the drain bound, if there is one, which cancels the handlers'
\* context.
DrainExpires ==
    /\ phase = "draining" /\ DrainBound /\ ~AllExited
    /\ phase' = "grace" /\ ctxDone' = TRUE /\ clean' = FALSE
    /\ UNCHANGED <<brokerVars, chanVars, feedVars, workerVars, timers, trouble>>

\* Mutant: after the drain bound Close waits for the handlers without one.
GraceUnbounded ==
    /\ phase = "grace" /\ AllExited /\ phase' = "drained"
    /\ UNCHANGED <<brokerVars, chanVars, feedVars, workerVars, timers, ctxDone, faultVars>>

\* awaitHandlers: the half second after it.
GraceExpires ==
    /\ phase = "grace" /\ phase' = "drained"
    /\ UNCHANGED <<brokerVars, chanVars, feedVars, workerVars, timers, ctxDone, faultVars>>

\* transport.Close releases the channel; untrack.
CloseChannel ==
    /\ phase = "drained" /\ phase' = "closed"
    /\ copy' = IF chan = "open" THEN Returned ELSE copy
    /\ chan' = "closed"
    /\ UNCHANGED <<published, done, gen, feedVars, workerVars, timers, ctxDone, faultVars>>

\* The caller cancels the context it gave to Consume.
CancelContext ==
    /\ ~ctxDone /\ ctxDone' = TRUE
    /\ UNCHANGED <<brokerVars, chanVars, feedVars, workerVars, timers, phase, faultVars>>

\* Close has returned: the process may end here.
Finished == phase = "closed" /\ UNCHANGED vars

-----------------------------------------------------------------------------
Broker ==
    \/ \E m \in Msg : Publish(m)
    \/ \E c \in Copies : Deliver(c) \/ RungExpires(c)
    \/ ChannelLost
    \/ Reattach
    \/ Restart

Callback ==
    \/ \E d \in inbox : Receive(d)
    \/ \E d \in offer : Enqueue(d) \/ OfferRefused(d)

\* Steps a worker takes by itself, as against waiting for its handler.
Settles(w) == RetryInBroker(w) \/ PutBack(w) \/ SetAside(w) \/ FinishAck(w) \/ FinishNack(w)

HandlerReturns(w) ==
    \/ Accept(w)
    \/ \E q \in {"dlq", "parked"} : GiveUp(w, q)
    \/ RetryAgain(w)
    \/ InProgress(w)

Worker(w) ==
    \/ \E d \in work : Take(w, d)
    \/ HandlerReturns(w)
    \/ Settles(w)

Closing ==
    \/ StopCancel
    \/ StopReturns
    \/ HandlersDone
    \/ DrainExpires
    \/ GraceExpires
    \/ CloseChannel

Next ==
    \/ Broker
    \/ Callback
    \/ \E w \in Workers : Worker(w)
    \/ \E d \in timers : TimerFires(d)
    \/ CloseBegin
    \/ Closing
    \/ CancelContext
    \/ Finished

Spec == Init /\ [][Next]_vars

\* No message, copy or worker is told apart from another.
Symmetry == Permutations(Msg) \cup Permutations(Copies) \cup Permutations(Workers)

\* Close and the transport's callback make progress whatever the handlers do.
CloseSpec == Spec /\ WF_vars(Callback) /\ WF_vars(Closing)

\* The broker delivers, rungs expire, the transport reattaches, the process is
\* alive to run its timers, and handlers return.
EveryoneMoves ==
    /\ WF_vars(\E c \in Copies : Deliver(c))
    /\ WF_vars(\E c \in Copies : RungExpires(c))
    /\ WF_vars(Reattach)
    /\ WF_vars(\E d \in timers : TimerFires(d))
    /\ \A w \in Workers : WF_vars(Worker(w))

-----------------------------------------------------------------------------
(* Properties *)

TypeOK ==
    /\ copy \in [Copies -> Copy \cup {None}]
    /\ published \subseteq Msg /\ done \subseteq Msg
    /\ chan \in {"open", "lost", "closed"} /\ gen \in Nat
    /\ inbox \subseteq Delivery /\ offer \subseteq Delivery /\ work \subseteq Delivery
    /\ pc \in [Workers -> Steps]
    /\ held \in [Workers -> Delivery \cup {None}]
    /\ job \in [Workers -> Job \cup {None}]
    /\ \A w \in Workers : pc[w] # "idle" => held[w] # None
    /\ \A w \in Workers : pc[w] \in {"rung", "hop", "aside"} => job[w] # None
    /\ timers \subseteq Delivery
    /\ phase \in Phases /\ ctxDone \in BOOLEAN
    /\ trouble \in Nat /\ clean \in BOOLEAN

\* A copy whose acknowledgement is on its way.
Leaving(c) == \E w \in Workers : pc[w] = "acking" /\ Reaches(held[w]) /\ held[w].copy = c
CopiesOf(m) == {c \in Copies : Exists(c) /\ copy[c].msg = m}

\* At least once: a published message that no handler has accepted is still
\* somewhere on the broker, whatever republish failed, whichever channel was
\* lost and however Close cut the handlers off (setAside, putBack,
\* retryInBroker: republish first, acknowledge the original afterwards).
NoLoss == \A m \in published \ done : CopiesOf(m) # {}

\* The same one step ahead, and the attempt count with it: for every copy of a
\* message nobody has accepted there is one that is not about to be
\* acknowledged and has counted at least as many attempts.
KeptAhead ==
    \A m \in Msg \ done : \A c \in CopiesOf(m) :
        \E k \in CopiesOf(m) : ~Leaving(k) /\ copy[k].attempt >= copy[c].attempt

\* The attempt counter lives on the message: no failed hop, restart or lost
\* channel makes the attempts already spent on a message forgotten (putBack:
\* republished rather than requeued).
AttemptNeverForgotten ==
    [][\A m \in published \ done' : \A c \in CopiesOf(m) :
          \E k \in CopiesOf(m)' : copy'[k].attempt >= copy[c].attempt]_vars

\* All that the consumer holds, by where it holds it.
Places == Stations \cup Workers
HeldAt(p) ==
    CASE p = "inbox" -> inbox
      [] p = "offer" -> offer
      [] p = "work" -> work
      [] p = "timers" -> timers
      [] OTHER -> IF pc[p] = "idle" THEN {} ELSE {held[p]}

\* Every delivery is settled at most once on its channel: what the consumer
\* holds is still unacknowledged at the broker, as it was delivered, and is in
\* one place only.  A second acknowledgement of one delivery tag would close
\* the channel (Receive, Take, setAside's timer and the three settlements each
\* pass the delivery on or settle it, never both).
SettledOnce ==
    \A p \in Places : \A d \in HeldAt(p) : Reaches(d) =>
        /\ copy[d.copy] = [at |-> "unacked", msg |-> d.msg, attempt |-> d.attempt]
        /\ \A q \in Places : \A e \in HeldAt(q) :
              (Reaches(e) /\ e.copy = d.copy) => (p = q /\ d = e)

\* What makes the two above inductive: nothing held was delivered on a channel
\* yet to come, and a republish never goes back an attempt.
NothingFromTheFuture == \A p \in Places : \A d \in HeldAt(p) : d.gen <= gen
JobsCountUp ==
    \A w \in Workers : pc[w] \in {"rung", "hop", "aside"} =>
        job[w].attempt >= held[w].attempt

\* Exactly once where nothing fails: with no lost channel, restart, lost
\* confirm or expired drain, a message is either accepted or has exactly one
\* copy that stays (Close releases the channel after the handlers are done).
ExactlyOnceIfClean ==
    clean => \A m \in published :
        Cardinality({c \in CopiesOf(m) : ~Leaving(c)}) = IF m \in done THEN 0 ELSE 1

\* Closing the work channel is safe: when it is closed the transport's
\* callback is not waiting to send on it (Stop returns first).
NoSendOnClosed == workClosed => inbox = {} /\ offer = {}

\* The inductive invariant of the engine.
EngineInv ==
    /\ TypeOK
    /\ SettledOnce
    /\ NothingFromTheFuture
    /\ JobsCountUp
    /\ NoLoss
    /\ KeptAhead
    /\ NoSendOnClosed

\* Where there is a drain bound, Close returns although no handler ever does,
\* unless the process ends first.  Without one ConnLifecycle has Close wait.
CloseReturns == isStopping ~> phase \in {"closed", "open"}

\* A message is not retried for ever and not left behind: while the consumer is
\* running and its handlers return it ends accepted, dead-lettered or parked
\* (NextWait ends at MaxAttempts, and every failed hop puts the delivery back).
EventuallySettled ==
    EveryoneMoves =>
        \A m \in Msg : (m \in published) ~>
            \/ m \in done
            \/ \E c \in CopiesOf(m) : copy[c].at \in {"dlq", "parked"}
            \/ isStopping
            \/ ctxDone

=============================================================================
