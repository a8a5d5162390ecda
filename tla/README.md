# A TLA+ model of acemq-go-amqp

This directory specifies the parts of the library whose correctness depends on
the order in which goroutines, processes, the broker and the network act: the
consuming engine, starting and closing consumers, the RabbitMQ transport, the
messaging patterns built on them, and what messages look like on the wire. TLC
checks each on a small instance. TLAPS proves the safety properties of ten of the
eleven groups of modules below, the whole of them or in part, for every instance.

Source paths below are relative to the repository. Every definition that models
code is listed with its lines in `PROJECT.json` under `map`.

## 1. The system and its parts

| Part | State | Operations | Talks to |
|---|---|---|---|
| Consuming engine (`amqp/consumer.go`) | the bounded work channel, deliveries in workers' hands, timers of refused set-asides, how far Close is | deliver, take, accept, reject, park, retry, in-progress, republish, ack, requeue, drain, close | transport, broker queues |
| Connection (`amqp/conn.go`) | the tracked consumers, closed | Consume, track, untrack, Close, closeAll | engine, transport |
| Publisher (`amqp/publisher.go`) | results and errors of a batch | Send, SendAll | transport |
| Health (`amqp/health.go`, `actuator/`) | answers of the checks so far | Health, AggregateHealth, the health endpoint | transport |
| RabbitMQ transport (`rabbitmq/rabbitmq.go`) | slots, channel, returns, blocked state, subscriptions, stream positions | Publish, Consume, Stop, Close, recover | client library, broker |
| In-memory transport (`amqp/memory.go`) | queues, bindings, waiting consumers | declare, publish, pop, settle, Stop | engine |
| Topology, retry policy and ladder (`amqp/topology.go`, `retry.go`, `retryladder.go`) | declarations, rungs | build, Validate, Apply, Check, NextWait, RungFor | broker |
| Envelope and codecs (`amqp/envelope.go`, `codecs.go`, `codec/avro`) | codec caches | read, write, carry over, encode, decode | schema registry |
| Patterns (`patterns/`) | claims, outbox records, waiters, scheduled messages, key locks, saga progress, slips, payload stores, schema tables | see section 2 | engine, stores, SQL |
| Other codecs, security, crypto, certificates, telemetry | configuration | conversions and reports | no protocol state |

What makes it hard, and what the properties are aimed at (`PROJECT.json`,
`hazards`, each at its line):

- a settlement is *two* broker operations, republish and then acknowledge, and
  the process or channel may go between them; every pattern that moves a message
  (step, hop, replay, relay) has the same gap;
- an operation may have taken effect although its caller was told it failed;
- a delivery's tag is valid on the channel it came on and nowhere else, and
  handlers outlive channels;
- Close has to get past handlers, a callback in the middle of a send, a timer,
  and a recovery;
- recovery replaces channel, returns, blocked state and subscriptions one after
  another, under different locks, while publishers and Stop go on;
- claims expire while their owners still work, and name no owner;
- services that never heard of each other declare the same queues.

## 2. Modules

Operators whose comment begins with "Mutant:" are not part of the model. Each is
one definition with a plausible slip in it, and stands there to show that a
property depends on the line it changes.

| Modules | Model | Run | Proofs |
|---|---|---|---|
| `Consumer` | consumer.go: callback, workers, settle and its helpers, Close | `consumer_safety`, `consumer_live` | `ConsumerProofs` |
| `ConnLifecycle` | Consume, Conn.Close, closeAll, track, untrack | `conn_lifecycle` | `ConnProofs` |
| `RabbitPublish`, `PublishBatch` | Publish to takeReturn; SendAll on top | `publish` | `PublishProofs` |
| `BlockedState`, `Health` | watchBlocked, setBlocked, awaitConfirm's clock; the readiness probe on top | `blocked` | `ConnProofs` |
| `RabbitRecovery` | recover to reattach, Consume, Stop, Close | `recovery` | `RecoveryProofs` |
| `StreamPosition`, `StreamReader` | streamPosition, resumeArgs; ReadStream on top | `stream` | `RecoveryProofs` |
| `EventQueue`, `Outbox`, `Idempotency`, `EventPipeline`, `EventContract` | outbox and relay, idempotent handlers, both over memory and SQL; their composition; what it promises | `events` | `EventProofs` |
| `FlowQueues`, `ClaimCheck`, `Pipeline`, `Replay`, `Flow` | slips, claim-checked payloads, the steps of pipelines and of FollowSlip, consumer groups, Replay; their composition | `flow` | `FlowProofs` |
| `MemoryTransport`, `RequestReply`, `Saga` | the in-memory broker; requests and replies over it; a saga of requests | `saga` | `SagaProofs` |
| `RetryPolicy`, `BrokerTopology`, `RetryWaits`, `Scheduler`, `Waits` | the policy's arithmetic; topologies and the broker they are declared on; the ladder; the scheduler; both on one broker | `waits` | |
| `Envelope`, `AvroRegistry`, `Ordered`, `Wire` | envelopes; schema registry and Avro codecs; keyed locks; a consumer that uses all three, with topic routing | `wire` | `WireProofs` |

The `MC` modules fix constants and bound the exploration; section 3 says how.

**Consumer.** `copy` is the broker as far as the engine can tell: each copy of a
message is ready, unacknowledged, on a retry rung, dead-lettered or parked, with
its attempt count. `inbox` is what the client library has received, `offer` the
delivery the callback of `Consume` is trying to put on `work`. A worker's `pc` is
its place in `handleDelivery` and `settle`: `handling`; then `rung`
(retryInBroker), `hop` (putBack) or `aside` (setAside) before the republish; then
`acking` or `nacking`. `phase` is `Consumer.Close`. A fault may happen at every
step, at most `MaxTrouble` times: a lost channel, a restart, a republish that
fails, comes back unroutable, or is stored without its confirm arriving. The
handler, its interceptors and the decoder are a choice of outcome; delays pass
whenever they like; `MaxAge`, wall-clock time, may end a message at any attempt.

**ConnLifecycle.** `start` is `Consume`, from `track` to `c.transport = sub`.
`conn`, `taken` and `stop` are `Conn.Close`, the consumers it took and their
`Close`. `queued` is the work channel, which holds as many deliveries as there are
workers, and `busy` the workers in a handler; `bounded` is a positive `DrainTimeout`,
`stranded` a drain whose bound has passed. `work` and `panicked` follow the Go rule that closing a closed channel, or
sending on one, ends the process. `overlapped` remembers that Close was called
while a Consume was under way.

**RabbitPublish, PublishBatch.** `pubs` is every message written, with the broker's
verdict fixed at the write; `frames` what is on its way back; `returns` the buffered
Go channel of each connection. `gen` and `retGen` are which connection the channel
and the returns belong to: `reconnectOnce` moves them in two critical sections.
`seen` is `returnedSeen`, from which taking a return removes nothing; `Crowded` says
that later returns may have evicted one from it.
PublishBatch runs one goroutine per payload and reports when all have returned.

**BlockedState, Health.** One watcher per connection takes notifications at its own
pace; `Swap`, `Clear` and `Watch` are three lines of `reconnectOnce`; `changed` says
that the `blockedChanged` the publish last read has been closed. `mu` is
`Transport.mu`: a queue declaration holds it over its round trip, a publish needs it
to write and to judge a nack, a recovery to swap the connection. Health adds the
endpoint's two concurrent checks and their two deadlines, and the declarations that
probes leave behind when they give up, waiting for the lock or holding it. `troubled`
and `known` record what there was to be seen of the connection during a check.

**RabbitRecovery.** One goroutine recovers (`rec`); Consume, Stop, Close and the
delivery loops interleave with it wherever the code holds no lock. `overlaps`
remembers three overlaps that undo what recovery promises (section 5).

**StreamPosition, StreamReader.** What a reattached reader is given depends on the
offset `ResumeAt` alone. `pending` counts deliveries by offset; `held` outlives the
channel. StreamReader adds the one worker of `ReadStream`, both values of
`OnFailure`, and the goroutine that closes a reader whose handler failed.

**Outbox, Idempotency, EventPipeline.** A record goes from its transaction through
a relay's sweep, its publish and MarkPublished, to a queue two workers take from.
`born` is the order of CreatedAt; a sweep is the set of records it has left, and
publishes the oldest of them.
A claim is kept as an age; over SQL the claim is three statements, each a step
that may fail with or without its effect. `overran`, `excused` and `forgotten`
remember what the library cannot guard against: a claim held past its timeout, a
completion that was not recorded or was pruned, a live claim dropped by a retention
shorter than the claim's own timeout. `EventContract` knows none of this:
an event that is owed gets done or set aside, and is done again only if pardoned.
`EventPipeline` maps its state to it with `INSTANCE ... WITH`.

**Flow.** A queue is a bag of messages. A message carries its slip in one of two
forms. A step's handler does its
work, sends the next message and settles, each of which may fail or be the last
thing its process does. `Replay` pulls, copies and acknowledges, or holds what its
filter declines. `ClaimCheck` keeps payloads in the memory of a process or in a
store; its owner may clear out any of them, also one that a message refers to.

**Saga.** The in-memory broker is at the level of its mutex and condition variable:
a goroutine that finds its queue empty waits, is woken, looks again. A call
registers a waiter, publishes, and takes the first of reply, timer and context.
`performed` is the work the responder has done, in order and as often as it was done:
a handler may fail or panic with its work done, and a request may be tried again.

**Waits.** Time for the scheduler is counted against the moment a message is due.
Durations are integers of a bounded width, and a backoff that overflows becomes
what the processor's conversion makes of it. A rung is named for its wait in whole
seconds and told it in milliseconds, both rounded up. `BrokerTopology` is the broker:
the queues that exist with their arguments, and the declarations it refuses.
`RetryPolicy` has what depends on a policy alone: its waits, its ladder, and the two
halves of `RetryLadder.Declare`. Services declare their queues one call
at a time, by Apply, by RetryLadder.Declare or by the scheduler, whose control queue
may have a retry policy of its own. A scheduler's `Close`, its crash and a set-aside
that the broker refuses each put its delivery back on the control queue.

**Wire.** A header's value is a pair of its encoding and what it says. Senders of
two processes register schemas at once while two workers decode, handle under
keyed locks, and retry, set aside or send on. A body says which codec wrote it, or
carries the content type `application/avro`, which either Avro codec takes. A lock's
key is what `ByHeader` makes of a header (`Sprint`, for what fmt.Sprint prints).
`topicMatches` is translated as the
dynamic programme it is and compared with the definition of AMQP.

## 3. Runs

| Run | Instance | Distinct states | Shows |
|---|---|---|---|
| `consumer_safety` | 2 messages, 3 copies at a time, 1 worker with a delivery queued behind it, 2 attempts with a hop between them, 1 fault | 559,006 | `NoLoss`, `SettledOnce`, `ExactlyOnceIfClean`, `AttemptNeverForgotten` |
| `consumer_live` | 1 message, 3 copies, 2 workers, 2 attempts with a rung between them, 1 fault | 127,498 | `CloseReturns` although handlers may not; `EventuallySettled` |
| `conn_lifecycle` | 2 consumers of 1 worker, 4 deliveries, drains with and without a bound | 182,880 | `NoPanicUnlessOverlapped`, `DrainedBeforeRelease`, `ConnCloseReturns` |
| `publish` | a batch of 4, 2 slots, 2 returns kept, 1 reconnection, 1 cancelled context | 677,813 | `ToldTruly`: every verdict and the batch's count; `AnswerOnItsWay`: nobody waits for what cannot come |
| `blocked` | 1 reconnection, a block and an unblock, a publish, probes one after another, 1 abandoned declaration | 152,222 | `BlockedIsTrue`, `ProbeTellsWhy`, `QuietBrokerWaitsEnd` |
| `recovery` | 2 subscriptions, 2 reconnections | 183,498 | `NoDeliveryAfterStop`, `OneConsumer`, `KeepsConsuming`, `StopAndCloseEnd` |
| `stream` | 3 entries, 3 channels, 2 failed reattachments, prefetch 3, up to 2 workers | 505,133 | `NothingSkipped`, `ResumedExactly`, `FailureStopsReader` |
| `events` | 2 events, 1 relay, 2 workers, 2 faults, each store, a retention shorter than the claim timeout | 180,835 | `AcceptedMeansDone`, `OneHandler`, `OrderKept`, `MeetsContract` |
| `flow` | 1 run of 2 steps, groups of 2, 2 attempts, 2 faults, 1 replay, any payload cleared out at any time | 256,418 | `RunAccounted`, `WorkInOrder`, `NothingUnreadable`, `RunsAndReplaysEnd` |
| `saga` | 2 steps, one with an Undo, 2 attempts, 1 fault, with and without confirms | 192,446 | `RepliesTrue`, `SagaReportsTruly`, `EverythingReturns` |
| `waits` | 2 services, 2 policies that run and a grid of policies, 3 scheduler rungs, 5 delays, 2 faults | 161,774 | `NothingLostWaiting`, `SameDeclarations`, `DueInTime`, `WaitsEnd` |
| `wire` | 3 senders, 2 processes, 2 definitions, 2 workers, 4 foreign messages, every binding of up to 3 words | 775,000 | `ReadAsWritten`, `HeadersSurvive`, `RoutedAsBound`, `OneAtATime` |

**Why the bounds are enough.** Two messages and three copies let a message exist
twice, a stored republish and its original, beside another one. One fault at any
step reaches every state between a republish and its acknowledgement; a second
only repeats this on another generation, and the proofs do not bound it. In
`consumer_live` three copies are all that one message can need: prefetch 1 admits
no further duplicate. Two slots and four publishers leave some waiting for a slot,
and one reconnection has all three kinds of publish: before, during and after the
swap. `SeenLimit`, the number of returns that are kept, is the number of slots where
the code has at least 64: three returned messages then evict one, which takes 65
otherwise, and the proofs hold for every limit that is not below the slots. With four
deliveries, a consumer of one worker has one in its handler, one in its channel and one
in its callback, and the other consumer still gets one. Probes of `blocked` repeat, so
that one finds the lock held by what an earlier one left behind; an endpoint's timeout
is as short as the check's or longer. Two reconnections let a reattachment fail and be
repeated. Three stream entries allow two reattachments to fail in a row while two
deliveries are held. In `events` a claim timeout of two ticks, a retention of one and
a lag of one make every comparison of ages go both ways, and let the retention drop a
claim that is still live; the second event is there for
order. In `waits` the grid has multipliers below, at and above one, thresholds and
caps on and off the steps, two ticks to a millisecond, four to a second and a largest
duration of 31 ticks, so that both roundings, rungs of one name,
capping and overflow all occur. The rungs 8, 4, 2 and delays up to 19 give routes
with no hop, with several, and with two on the same rung.

**What the MC bounds leave out.** They forbid combinations and no single step:

- `MCHealth`: beside a publish, probes whose endpoint allows more time than the check
  and whose application's check hangs, before Conn.Close. Without one, all of them.
- `MCRabbitRecovery`: one kind of overlap in a behaviour; one owner's Stop before
  the transport is closed.
- `MCEvents`: with the second event, one fault and one worker, which starts when
  nothing is left to publish.
- `MCFlow`: the claim-check store, the other ways of hosting a step, the replay,
  closing, a second fault and a second worker of a group all meet the first fault,
  but not all of each other.
- `MCSaga`: without confirms, the first request is to an undeclared queue, which is
  where the difference lies.
- `MCWaits`: a second fault only where it can meet the first.
- `MCWire`: a foreign message has the consumer to itself; of three messages the
  consumer gets two, and works while nobody registers; a binding other than the usual
  one sees one message.

A bound that held a fair step back for ever would make a liveness property hold of
too few behaviours. These do not: in `MCHealth`, `MCSaga` and `MCWaits` whatever is
enabled and fair stays enabled under the bound, and the properties of the other
three also hold when fairness is asked only of steps within it.

**Fairness.** Weak fairness of goroutines that can run, which the Go scheduler
gives, and of what each row names.

| Specification | Assumed besides | Not assumed |
|---|---|---|
| `Consumer` | the callback and Close's own steps, with its timers, DrainTimeout being positive (`DrainBound`); `EventuallySettled` names the rest as its premise `EveryoneMoves`: the broker delivers and expires rungs, the transport reattaches, handlers return | for `CloseReturns`, that any handler returns |
| `ConnLifecycle` | Close's steps, its timer where DrainTimeout is positive; handlers of a consumer whose drain has no bound end, as Close waits for them | that anybody closes, that a handler of a bounded consumer ends |
| `Health` | time passes; a recovery goes on; *strong* fairness of who waits for `Transport.mu`, since a Go mutex starves nobody; a broker that reads answers a declaration | that the broker answers a publish, that the application's check answers, that a context ends |
| `RabbitRecovery` | a broker that can be reached answers | that anybody calls Stop or Close |
| `StreamReader` | the worker, the closing goroutine, Consume returns | that entries arrive |
| `EventPipeline` | relays and workers are started again, time passes; *strong* fairness of taking a waiting copy, because a broker hands a queue out in order and a copy is not passed over for ever | that anything succeeds: faults are bounded instead |
| `Flow` | a pipeline is started again; a replay, once begun, goes on | that anybody replays or closes |
| `Saga` | timers fire | that anybody serves |
| `Waits` | services are started again, rungs expire, time passes, the target comes to exist | that a publish succeeds at first |

**Deadlock** is checked in the two Consumer runs. In the others the bounds on
connections, messages, faults or calls end a behaviour, and so may the process.

## 4. Proofs

Every theorem holds for every value of the constants that satisfies the named
assumptions of its module: any number of messages, workers, subscriptions, faults
and reconnections. The properties are those the runs of section 3 check on small
instances.

**`ConsumerProofs`** (`ConsumerEngine`, `ConsumerTypeOK`, `ConsumerNoLoss`,
`ConsumerSettledOnce`, `ConsumerNoSendOnClosed`, `ConsumerAttemptNeverForgotten`,
`ConsumerExactlyOnce`).
`NoLoss` alone is not inductive: the acknowledgement of an original is safe only
because a copy was stored before it, which is a fact about an earlier step.
`KeptAhead` carries it: of every copy of an unaccepted message there is one that is
*not about to be acknowledged* and has as many attempts. Keeping that through an
acknowledgement needs `SettledOnce`, which needs `NothingFromTheFuture` (no
delivery of a generation yet to come) when the transport reattaches. `JobsCountUp`
says that a republish never goes back an attempt. The proof groups the actions by
what they do to deliveries (pass one on, drop one, add one) and to copies (keep
all, store one, remove one), with a lemma for each. `ExactlyOnceIfClean` needs the
other direction too. `OnceInv` adds, for behaviours in which nothing has failed, that
all copies come from a publication (`FromPublish`), that the one channel stays open
until the handlers are done (`OneChannel`), and that no message has two copies that
stay (`OneStays`).

**`ConnProofs`** (`LifecycleInvariant`, `WorkChannelsSafe`, `ReleasedWhenDrained`;
`BlockedStateTrue`, `ProbesTellWhy`). For `ConnLifecycle`, two invariants at once.
`Drains` holds whatever happens: whoever has been tracked is in `Conn.subs`, or taken
by `Conn.Close`, until its own Close is through. `Orderly` holds until a Close
overlaps a Consume: Close finds every consumer it closes running, so that it waits
for the callback before it closes the channel. For `BlockedState`, `Told` says that
the last notification sent is the broker's mind, and the state the last one taken,
so that they agree when none is left. For `Health`, `Probing` ties what the endpoint
has noted to what each check answered, to the two deadlines, and to the trouble and
the blocks there were while the check of the connection was pending; it holds whoever
has the transport's lock, so no probe blames another's abandoned declaration.

**`PublishProofs`** (`PublishInvariant`, `PublishReportsTruly`, `AnswersComing`;
`BatchInvariant`, `BatchToldTruly`, `BatchAnswersComing`). `ReportedTruly` is about
what a publisher was told at the end; the invariant follows its message on the way.
`WireInv` says that the frames of a connection are in the order of its messages, each
return before its confirm, and that they say what the broker decided. `FiledInv` says
the same of the returns that are buffered and filed. `ReturnKept` is the heart: the
return of an unroutable message whose publisher may yet look is on the wire, in the
buffer, or filed, unless it is `Crowded` out; as returns are evicted oldest first,
an evicted one has `SeenLimit` younger ones behind it, which is a counting argument
on an increasing sequence. That the reader meets no full buffer (`AnswerOnItsWay`)
is another: the returns buffered are of messages in flight, whose publishers hold
slots, and the head of the wire is one more. `PublishBatch` takes the steps of
`RabbitPublish` and adds what each goroutine of the batch was told.

**`RecoveryProofs`** (`RecoveryInvariant`, `StopIsFinal`, `ConsumesOnce`;
`StreamPositionInv`, `StreamNothingSkipped`, `StreamResumedExactly`). `Live` ties
every consuming channel to the present connection. `Unstopped` (until a Stop overlaps
its reattachment) says that recovery works on nothing stopped. `Attachment` (until a
Consume overlaps a recovery) says where each open subscription is: waiting to be
reattached, being reattached, or consuming on its last channel. For a stream's reader
that began at "first", `PositionInv` says that what was given to handlers has no gaps,
and that everything `resume` can name (a pending entry, the one after the newest
settled, the start) is one of those or the one after. `ResumedExactly`, an action
property, needs `ResumeInv`: while settlements are in order, what is settled has no
gaps, everything the channel gave past it is pending, and nothing acknowledged is.

**`EventProofs`** (`LeaseInvariant`, `AcceptedIsDone`, `HandledByOne`, `WorkDoneOnce`;
`OutboxInvariant`, `PublishedInOrder`; `PipelineKeepsPromise`), for the whole
`EventPipeline` and either store. Claims name no owner, so the proof supplies one:
`Lease` says that a worker inside its claim has the row, that the row is exactly as
old as its claim, and that nobody else has claimed the key, unless it was overrun or
its row was forgotten. No assumption ties the retention to the claim timeout.
`Witnessed` says that whatever calls an event handled came after its work, `Recorded`
that work done is confirmed or about to be. For the order of the outbox,
`SweepInOrder` says that what was pending and is older than a record of a sweep has
reached the broker or is in the sweep too; it begins to hold because both stores
offer the oldest records up to their limit. `PipelineKeepsPromise` uses both
invariants: initial states of the pipeline are initial states of `EventContract`,
and every step is one of its steps or a stutter.

**`FlowProofs`** (`FlowInvariant`, `RunsAccounted`, `WorkDoneInOrder`,
`NothingParkedUnread`). `Placed` says that a message is on, or was taken from, the
queue its slip points to, and that the work before it is done; `Sends` that the same
will hold of what a step is about to send. `Alive` is a copy that nothing is about
to throw away: a message whose next message has been published is not, and that is
why a run survives the crash of any process between the two. `Readable` says that
every message refers to a key that was handed out, and that the payload of a message
parked, or about to be, is gone; as a key is handed out once, what is gone stays gone
whatever is put in the store later.

**`SagaProofs`** (`SagaInvariant`, `CallsAnsweredTruly`, `SagasReportTruly`).
`TrueQueues` says that whatever a queue carries, waiting or being delivered, is a
request that was made or a reply that is true of its call; every step of the broker
but a publish can only carry less. `AllCounted` counts the calls that were, or will
be, told of an answer against the responder's counter. `SagaInv` says which steps
have been performed, and which undone or listed, at each point of a saga. That an undo
comes after all the work it undoes is `DoneFirst`: the request of a call exists once,
on the queue or with the responder, and is gone when its answer is out, unless the
answer's publish was reported as failed; so by the time a saga asks for an undo,
nothing is left that could do the step again.

**`WireProofs`** (`KeysApart`, `HandledApart`, `ReadInvariant`,
`PayloadsReadAsWritten`). Two workers of a
key must have been given the same mutex although the map forgets it. `LockInv` says
that `refs` counts exactly the workers that have asked for the key, so that it is
forgotten only when there are none; a fresh mutex exists because there are more
names than workers. Every step of the consumer of `Wire` is a step of the locks or
leaves them alone.

`ReadInv` is about the registry: rows are added and never changed, the identifier a
codec remembers names its own schema, a sender that frames has one, and what was
inserted is there to be read back even if the insert was ignored. So a body on the
queue or with a worker carries the identifier of the schema it was written with, and
`ReadAsWritten` follows: a body that is parked met a registry that could not
be asked, or is `Unreadable`: not resolvable onto the reader's schema, or generic where
the codec for frames comes first. For its last part: unless definitions overlapped, all
senders about to insert have the same one, and it is the next version or there
already. The one assumption is that every sender has a codec (`AvroAssumption`).

Only model-checked, and why:

- every liveness property, that part of `MeetsContract` included: the prover has no
  ENABLED;
- `FailureStopsReader`: its second part is liveness, and its first, which is safety, has
  no proof either;
- `NothingLostWaiting`, `SameDeclarations` and `DueInTime` of `Waits`, and
  `RoutedAsBound` of `Wire`: they rest on what recursive functions compute (the steps
  of a policy, the route of a delay through the rungs, the table of `topicMatches`),
  which takes induction over data;
- `HeadersSurvive`: for every foreign message it would need assumptions on what other
  libraries write (not a route position without a route, for one), and TLC runs it on
  representative ones; what is read of an envelope is a table of conversions, which
  a proof would go through case by case.

## 5. Where the code departs from what is said of it

The passing properties name their exceptions, as a condition or as a value of a
constant. TLC finds each as a counterexample when the condition is dropped.

| Condition | Exception | Source |
|---|---|---|
| `NoPanicUnlessOverlapped` (`overlapped`) | Conn.Close between `track` and the subscription: the work channel is closed twice, or sent on after its close. conn.go:26 says that a Conn is safe for concurrent use | consumer.go:285 |
| `ToldTruly` (`Crowded`) | A publish's return is filed by another one's drain; as many later returns as are kept then evict it, claimed or not, before its publisher looks, and an unroutable message is reported as routed. The comment at 964-965 says that anything so old "has no one left to claim it" | rabbitmq.go:974 |
| `NoDeliveryAfterStop` ("stop") | Stop returns while `reattach` is between its look at `closed` and the start of its loop; the loop then delivers for ever, against the comment at 1269-1271 | rabbitmq.go:1202 |
| `FailureStopsReader` (`panicked`) | A late settlement after `resume` and before the next delivery writes to a nil map; the comment at 1127-1130 calls it harmless | rabbitmq.go:1115 |
| `AnswerOnItsWay` (`cancels = 0`) | A mandatory publish whose context ends leaves its return in the buffer and gives its slot back. After as many as there are slots the reader blocks. The comment at 494-496 calls that unreachable | rabbitmq.go:667 |
| `ToldTruly`, `AnswerOnItsWay` (`swapped`) | Between the swap of the channel and that of the returns, a publish looks for its return in those of the other connection and reports an unroutable message as routed | rabbitmq.go:1517 |
| each message has its own id | The return of an abandoned publish stays filed under its key; a later publish of the same id takes it and reports a routed message as unroutable | rabbitmq.go:923 |
| `BlockedIsTrue` (`missed`) | The old connection's watcher sets the state after `reconnectOnce` has cleared it; publishes on the new connection are refused, with no unblock to come | rabbitmq.go:1523 |
| `QuietBrokerWaitsEnd` (`<>[]~alarm`) | A publish that has yet to write waits for `Transport.mu` behind a declaration, a probe's for one, which a blocked broker does not answer. Neither BlockedTimeout nor the publish's context bounds that wait | rabbitmq.go:779 |
| `ProbeTellsWhy` (`CheckTimeout < limit`) | An endpoint whose timeout is no longer than the check's reports a blocked connection as one that did not answer, and fails; the check's own timeout is there so that it can say why | actuator.go:198 |
| `OneHandler`, `DoneOnce` (`forgotten`) | The sweep of TryClaim and Prune go by the age of a row, confirmed or not: with a retention shorter than claimTimeout a live claim is dropped, and a second handler runs beside the first | idempotency.go:197 |
| `SagaReportsTruly` (`takenBack`) | A step whose reply got out, but was reported as failed, is tried again, and may be done again after its Undo, while the saga reports it as undone. The comment at 470 asks for idempotent handlers; saga.go:260, on Unresolved, says that all else a saga reports is recoverable by construction | requestreply.go:463 |
| `SameDeclarations` (waits in one second) | Two waits of a policy that lie in the same second share a rung by its name, with the time to live of one of them: a message waits up to a second less, or two more, than NextWait says. The comment at 215-218 says that an inexact rung cannot happen for a policy's own delays, and that the rung is the next one up | retryladder.go:215 |
| `QuietBrokerWaitsEnd` gives no lower bound | Two blocks between two looks share one clock, so a publish fails before the second has lasted BlockedTimeout; the comment at 714-715 says the clock restarts | rabbitmq.go:729 |
| `OneConsumer`, `StopAndCloseEnd` ("open") | A Consume after the swap is recorded before the list is copied and is attached twice; Stop cancels one of the two and waits for the other | rabbitmq.go:1594 |
| `OneConsumer` ("open") | A Consume whose connection is lost before it is recorded is in no list and is never reattached; one that overlaps Transport.Close is recorded afterwards and never closed | rabbitmq.go:1028 |
| `KeepsConsuming` ("register") | NotifyClose is registered after the consumers were restarted; on a connection that has gone by then the recovery reads nil, takes it for a deliberate close and ends | rabbitmq.go:1545 |
| `FromNext = FALSE` in `Stream.cfg` | resume forgets what is pending before basic.consume has succeeded. A reader from "next" whose first reattachment fails starts at the end again, past what was appended meanwhile | rabbitmq.go:1134 |
| `ResumedExactly` (`inOrder`) | With several workers, entries acknowledged beyond the oldest unsettled one are delivered again, and the attempt after a failed one starts past an entry still in a handler | rabbitmq.go:1134 |
| `EventuallySettled` (`ctxDone`) | With the context given to Consume cancelled and the consumer not closed, every retry fails and requeues, uncounted | consumer.go:652 |
| `RepliesTrue` (`takenBack`) | A reply whose publish is reported as failed although it arrived: its caller has the answer and the counter was taken back. The comment at 457-460 says that the counter is ahead in every interleaving | requestreply.go:463 |
| `ReadAsWritten` (`overlapped`) | Two definitions registered at once through SQL can get the same version: nothing makes subject and version unique | sqlstores.go:594 |
| `ReadAsWritten` (`unanswered`) | A registry that cannot be asked just then makes the message unreadable, and it is parked rather than retried | avro.go:293 |
| `ReadAsWritten` (`Unreadable`) | Either Avro codec takes a body that says only `application/avro`, so the one registered first gets it: a plain body is parked when that is the codec that wants a frame | avro.go:265 |
| `HeadersSurvive` (`"generated"`) | A message with neither id header nor message-id gets a new id each time it is read, so that its retries share none | envelope.go:361 |
| `NothingUnreadable` (`Gone`) | Payloads kept in memory go with their process, and an owner may clear one out before its message is done with: such a message is parked, not retried | claimcheck.go:264 |

Outside any property:

- `ByHeader` prints what it finds (ordered.go:37), so a header sent as bytes orders by
  another key than the same text.
- The comment at ordered.go:28-29 says that messages of a key are handled in the
  order they arrived. Two workers may take two messages of a key in order and reach
  the lock in the other order; the locks exclude, and do not queue by arrival.
- Without MaxDelay, a backoff too large for a Duration becomes negative on amd64 and
  the largest Duration on arm64 (retry.go:253). `RetryPolicy` models both.
- Services with *different* policies may name one rung with different times to live;
  the second declaration is refused. `SameDeclarations` is about one policy.
- `settle` reports a retry before the republish that may fail, and a dead letter
  whose republish was refused (consumer.go:500): hooks and counters may be ahead of
  what happened.
- docs/lifecycle.md:81-87 says that a cancelled context fails the publishes that
  dead-letter and park, lifecycle.md:275-283 that it does not. The code (`setAside`,
  consumer.go:702) detaches them; so does `SetAside`.

## 6. Not modelled

No state that a decision reads: the protobuf, TOML, XML and YAML codecs,
cryptography, certificates, credentials, telemetry, the settlement hook, the
actuator's other endpoints, the conformance driver.

Left out of parts that are modelled:

- RabbitMQ transport: dialling and TLS, Pull and the queue checks (one broker call
  each), a write that TCP holds back, publishing without confirms (it waits for nothing), a channel closed by the
  broker while its connection lives (the code has no step that answers it).
- Publisher: which failure of a batch is named `First`.
- Streams: DeclareStream, the conversion of offsets to arguments, a reader that is
  started again by another process.
- In-memory transport: prefetch, fanout exchanges, MessageCount.
- Idempotency: `IdempotentBy`, which only chooses another key; SQL drivers that
  cannot count affected rows. Two relays are a value of `Relay` that no run takes.
- Request and reply: requests that carry no address to answer to.
- Scheduler: parsing its headers and rebuilding the envelope.
- Pipelines: `Then`, `Chain` and the logging middleware, which compose functions;
  the observer of runs; `AsSteps`.
- Wire: `ReplyTo`, the text of identifiers, a framed body under the content type
  `application/avro`, the bytes of Avro itself.
- Retry policy: jitter, which the code applies only to waits in the consumer.
