---------------------------- MODULE ConnLifecycle ----------------------------
(***************************************************************************)
(* Starting consumers on a connection while it may be closed: Consume of    *)
(* src/amqp/consumer.go from track to its return, the transport's callback, *)
(* Conn.Close of src/amqp/conn.go and, through it, Consumer.Close.  What a  *)
(* running consumer does with its deliveries is the module Consumer.        *)
(***************************************************************************)
EXTENDS Naturals, FiniteSets

CONSTANTS Consumers,        \* consumers started on the connection
          Concurrency,      \* of each: its workers, and the capacity of its work channel
          MaxDeliveries     \* bound on the deliveries to all of them

ASSUME LifecycleAssumption == Concurrency \in Nat \ {0} /\ MaxDeliveries \in Nat

VARIABLES
    start,      \* by consumer: where Consume is
    subs,       \* Conn.subs
    conn,       \* Conn.Close: "open", "consumers", "transport" or "closed"
    taken,      \* the consumers it closes
    stop,       \* by consumer: where Consumer.Close is
    sees,       \* by consumer: Close found Consumer.transport set
    work,       \* by consumer: Consumer.work is open
    queued,     \* by consumer: deliveries in work
    busy,       \* by consumer: workers in a handler
    bounded,    \* by consumer: DrainTimeout is positive
    feeding,    \* by consumer: the transport delivers to it
    callback,   \* by consumer: the callback has found it not stopping
    given,      \* deliveries so far
    stranded,   \* the consumers whose drain bound has passed
    panicked,   \* a channel was closed twice, or sent on after its close
    overlapped  \* Conn.Close was called while a Consume was under way

consuming == <<work, queued, busy, bounded, feeding, callback, given>>
ends == <<stranded, panicked, overlapped>>
connVars == <<start, subs, conn, taken, stop, sees, consuming, ends>>

ConnInit ==
    /\ start = [c \in Consumers |-> "new"] /\ subs = {}
    /\ conn = "open" /\ taken = {}
    /\ stop = [c \in Consumers |-> "no"] /\ sees = [c \in Consumers |-> FALSE]
    /\ work = [c \in Consumers |-> TRUE] /\ queued = [c \in Consumers |-> 0]
    /\ busy = [c \in Consumers |-> 0] /\ bounded \in [Consumers -> BOOLEAN]
    /\ feeding = [c \in Consumers |-> FALSE] /\ callback = [c \in Consumers |-> FALSE]
    /\ given = 0 /\ stranded = {} /\ panicked = FALSE /\ overlapped = FALSE

-----------------------------------------------------------------------------
(* Consume *)

\* track, and the workers are started.
Track(c) ==
    /\ start[c] = "new"
    /\ \/ conn # "open" /\ start' = [start EXCEPT ![c] = "refused"] /\ UNCHANGED subs
       \/ /\ conn = "open"
          /\ start' = [start EXCEPT ![c] = "tracked"] /\ subs' = subs \cup {c}
    /\ UNCHANGED <<conn, taken, stop, sees, consuming, ends>>

\* Transport.Consume succeeds: deliveries may arrive from now on.
Subscribed(c) ==
    /\ start[c] = "tracked" /\ conn # "closed"
    /\ start' = [start EXCEPT ![c] = "subscribed"] /\ feeding' = [feeding EXCEPT ![c] = TRUE]
    /\ UNCHANGED <<subs, conn, taken, stop, sees, work, queued, busy, bounded, callback, given, ends>>

\* Transport.Consume fails, and Consume takes everything back.
SubscribeFails(c) ==
    /\ start[c] = "tracked" /\ start' = [start EXCEPT ![c] = "failed"]
    /\ panicked' = ~work[c] /\ work' = [work EXCEPT ![c] = FALSE]
    /\ subs' = subs \ {c}
    /\ UNCHANGED <<conn, taken, stop, sees, queued, busy, bounded, feeding, callback, given, stranded, overlapped>>

\* c.transport = sub.
Started(c) ==
    /\ start[c] = "subscribed" /\ start' = [start EXCEPT ![c] = "running"]
    /\ UNCHANGED <<subs, conn, taken, stop, sees, consuming, ends>>

isStopping(c) == stop[c] # "no"

\* The transport's callback, as far as its look at stopping.
Callback(c) ==
    /\ feeding[c] /\ ~callback[c] /\ given < MaxDeliveries /\ given' = given + 1
    /\ callback' = [callback EXCEPT ![c] = ~isStopping(c)]
    /\ UNCHANGED <<start, subs, conn, taken, stop, sees, work, queued, busy, bounded, feeding, ends>>

\* Mutant: the callback sends without looking at stopping.
OfferBlindly(c) ==
    /\ callback[c] /\ callback' = [callback EXCEPT ![c] = FALSE]
    /\ \/ work[c] /\ queued[c] < Concurrency /\ queued' = [queued EXCEPT ![c] = @ + 1]
          /\ UNCHANGED panicked
       \/ ~work[c] /\ panicked' = TRUE /\ UNCHANGED queued
    /\ UNCHANGED <<start, subs, conn, taken, stop, sees, work, busy, bounded, feeding, given,
                   stranded, overlapped>>

\* The transport's callback: its select between work, if there is room in it,
\* and stopping.
Offer(c) ==
    /\ callback[c] /\ callback' = [callback EXCEPT ![c] = FALSE]
    /\ \/ work[c] /\ queued[c] < Concurrency /\ queued' = [queued EXCEPT ![c] = @ + 1]
          /\ UNCHANGED panicked
       \/ isStopping(c) /\ UNCHANGED <<queued, panicked>>
       \/ ~work[c] /\ panicked' = TRUE /\ UNCHANGED queued
    /\ UNCHANGED <<start, subs, conn, taken, stop, sees, work, busy, bounded, feeding, given,
                   stranded, overlapped>>

\* A free worker takes a delivery: back to the broker if the consumer is
\* stopping, to the handler if not.
Take(c) ==
    /\ queued[c] > 0 /\ busy[c] < Concurrency /\ queued' = [queued EXCEPT ![c] = @ - 1]
    /\ busy' = [busy EXCEPT ![c] = IF isStopping(c) THEN @ ELSE @ + 1]
    /\ UNCHANGED <<start, subs, conn, taken, stop, sees, work, bounded, feeding, callback, given, ends>>

\* A handler ends, and its delivery is settled.
Handled(c) ==
    /\ busy[c] > 0 /\ busy' = [busy EXCEPT ![c] = @ - 1]
    /\ UNCHANGED <<start, subs, conn, taken, stop, sees, work, queued, bounded, feeding, callback,
                   given, ends>>

-----------------------------------------------------------------------------
(* Conn.Close *)

\* Closed, and the consumers to close taken.
ConnClose ==
    /\ conn = "open" /\ conn' = "consumers"
    /\ overlapped' = \E c \in Consumers : start[c] \in {"tracked", "subscribed"}
    /\ taken' = subs /\ subs' = {}
    /\ UNCHANGED <<start, stop, sees, consuming, stranded, panicked>>

\* Consumer.Close, by Conn.Close or by its owner: stopping is closed and
\* Consumer.transport looked at.
CloseBegin(c) ==
    /\ stop[c] = "no" /\ (c \in taken \/ start[c] = "running")
    /\ stop' = [stop EXCEPT ![c] = "stopping"] /\ sees' = [sees EXCEPT ![c] = start[c] = "running"]
    /\ UNCHANGED <<start, subs, conn, taken, consuming, ends>>

\* Mutant: Stop does not wait for the callback.
StopUnawaited(c) ==
    /\ stop[c] = "stopping" /\ stop' = [stop EXCEPT ![c] = "stopped"]
    /\ feeding' = [feeding EXCEPT ![c] = feeding[c] /\ ~sees[c]]
    /\ UNCHANGED <<start, subs, conn, taken, sees, work, queued, busy, bounded, callback, given, ends>>

\* Consumer.Close: Stop of the subscription it saw returns when the callback has.
Stop(c) ==
    /\ stop[c] = "stopping" /\ stop' = [stop EXCEPT ![c] = "stopped"]
    /\ sees[c] => ~callback[c]
    /\ feeding' = [feeding EXCEPT ![c] = feeding[c] /\ ~sees[c]]
    /\ UNCHANGED <<start, subs, conn, taken, sees, work, queued, busy, bounded, callback, given, ends>>

\* Consumer.Close: close(c.work).
CloseWork(c) ==
    /\ stop[c] = "stopped" /\ stop' = [stop EXCEPT ![c] = "draining"]
    /\ panicked' = ~work[c] /\ work' = [work EXCEPT ![c] = FALSE]
    /\ UNCHANGED <<start, subs, conn, taken, sees, queued, busy, bounded, feeding, callback, given, stranded, overlapped>>

\* Mutant: the connection's own consumers are not waited for.
CloseAllUnawaited ==
    /\ conn = "consumers" /\ conn' = "transport"
    /\ UNCHANGED <<start, subs, taken, stop, sees, consuming, ends>>

Idle(c) == queued[c] = 0 /\ busy[c] = 0

\* Consumer.Close: the workers are awaited, and the consumer forgotten.
CloseDone(c) ==
    /\ stop[c] = "draining" /\ Idle(c) /\ stop' = [stop EXCEPT ![c] = "closed"]
    /\ subs' = subs \ {c}
    /\ UNCHANGED <<start, conn, taken, sees, consuming, ends>>

\* awaitHandlers: the drain bound, if there is one, and the grace after it have
\* passed.
DrainExpires(c) ==
    /\ stop[c] = "draining" /\ bounded[c] /\ ~Idle(c) /\ stop' = [stop EXCEPT ![c] = "closed"]
    /\ stranded' = stranded \cup {c} /\ subs' = subs \ {c}
    /\ UNCHANGED <<start, conn, taken, sees, consuming, panicked, overlapped>>

\* closeAll returns.
CloseAll ==
    /\ conn = "consumers" /\ \A c \in taken : stop[c] = "closed"
    /\ conn' = "transport"
    /\ UNCHANGED <<start, subs, taken, stop, sees, consuming, ends>>

\* Transport.Close ends every subscription when its callback is done.
TransportClose ==
    /\ conn = "transport" /\ \A c \in Consumers : feeding[c] => ~callback[c]
    /\ conn' = "closed" /\ feeding' = [c \in Consumers |-> FALSE]
    /\ UNCHANGED <<start, subs, taken, stop, sees, work, queued, busy, bounded, callback, given, ends>>

ConsumeStep(c) == Track(c) \/ Subscribed(c) \/ SubscribeFails(c) \/ Started(c)
CloseStep(c) == Stop(c) \/ CloseWork(c) \/ CloseDone(c)

ConnNext ==
    /\ ~panicked
    /\ \/ \E c \in Consumers :
            ConsumeStep(c) \/ Callback(c) \/ Offer(c) \/ Take(c) \/ Handled(c) \/ CloseBegin(c)
            \/ CloseStep(c) \/ DrainExpires(c)
       \/ ConnClose
       \/ CloseAll
       \/ TransportClose

ConnSpec == ConnInit /\ [][ConnNext]_connVars

\* Goroutines run, timers fire, and closeAll calls Close of what it took.  A
\* handler may run for ever, except where DrainTimeout is not positive: then
\* Close waits for as long as it does, and it is taken to end.
FairSpec ==
    /\ ConnSpec
    /\ WF_connVars(~panicked /\ CloseAll) /\ WF_connVars(~panicked /\ TransportClose)
    /\ \A c \in Consumers :
         /\ WF_connVars(~panicked /\ Offer(c)) /\ WF_connVars(~panicked /\ Take(c))
         /\ WF_connVars(~panicked /\ ~bounded[c] /\ Handled(c))
         /\ WF_connVars(~panicked /\ CloseStep(c)) /\ WF_connVars(~panicked /\ DrainExpires(c))
         /\ WF_connVars(~panicked /\ c \in taken /\ CloseBegin(c))

-----------------------------------------------------------------------------
(* Properties *)

\* As long as the connection is not closed while a Consume is under way, no
\* order of starting, failing to start, delivering and closing misuses a work
\* channel (Consume, Consumer.Close).
NoPanicUnlessOverlapped == panicked => overlapped

\* The transport is released only when every consumer on the connection has
\* finished what it was given, so that it is settled on an open channel, or has
\* said that its drain bound passed first (Conn.Close, awaitHandlers).
DrainedBeforeRelease ==
    conn = "closed" => \A c \in Consumers :
        start[c] = "running" =>
            ~feeding[c] /\ stop[c] = "closed" /\ (Idle(c) \/ c \in stranded)

\* Close of the connection returns once it was called, although a callback is
\* blocked on a full work channel behind handlers that never end, as long as
\* those have a drain bound, unless the process ends in between (Conn.Close,
\* closeAll, awaitHandlers).
ConnCloseReturns == conn = "consumers" ~> (conn = "closed" \/ panicked)

=============================================================================
