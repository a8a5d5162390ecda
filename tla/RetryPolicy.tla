---------------------------- MODULE RetryPolicy ----------------------------
(***************************************************************************)
(* The retry policy and the ladder of queues it waits on.  Durations are   *)
(* in ticks, PerMilli of them to the millisecond and PerSecond of them to  *)
(* the second; a multiplier is a fraction, and the product is truncated as *)
(* the conversion back to a Duration does.                                 *)
(* A product too large for a Duration is what the processor makes of it:   *)
(* the least one there is (amd64) or the largest (arm64).                  *)
(***************************************************************************)
EXTENDS BrokerTopology

CONSTANTS PerMilli,         \* ticks to the millisecond
          PerSecond,        \* ticks to the second
          MaxDuration       \* the largest duration

ASSUME DurationAssumption ==
    /\ PerMilli \in Nat \ {0} /\ MaxDuration \in Nat
    /\ PerSecond \in Nat \ {0} /\ PerSecond % PerMilli = 0

Milliseconds(delay) == delay \div PerMilli

Policy(attempts, initial, multiplier, cap, threshold, saturates, ages) ==
    [maxAttempts |-> attempts, initialDelay |-> initial, multiplier |-> multiplier,
     maxDelay |-> cap, threshold |-> threshold, saturates |-> saturates, ages |-> ages]

\* RetryPolicy.Validate.
Usable(p) == p.maxAttempts >= 1 /\ p.multiplier[1] >= p.multiplier[2] /\ p.threshold >= 0

Times(p, delay) ==
    LET product == (delay * p.multiplier[1]) \div p.multiplier[2]
    IN  IF product > MaxDuration THEN (IF p.saturates THEN MaxDuration ELSE -MaxDuration - 1)
        ELSE IF product < -MaxDuration - 1 THEN -MaxDuration - 1
        ELSE product

Capped(p, delay) == IF p.maxDelay > 0 /\ delay > p.maxDelay THEN p.maxDelay ELSE delay

\* backoff: the loop stops once it has come to MaxDelay.
Backoff(p, attempt) ==
    LET delay[i \in 1..attempt] ==
            IF i = 1 THEN [value |-> p.initialDelay, capped |-> FALSE]
            ELSE IF delay[i - 1].capped THEN delay[i - 1]
            ELSE LET next == Times(p, delay[i - 1].value)
                 IN  [value |-> Capped(p, next), capped |-> Capped(p, next) # next]
    IN  Capped(p, delay[attempt].value)

\* Schedule: every wait of the policy in turn, worked out without stopping.
Schedule(p) ==
    LET delay[i \in 1..p.maxAttempts] ==
            IF i = 1 THEN p.initialDelay ELSE Times(p, delay[i - 1])
    IN  [i \in 1..(p.maxAttempts - 1) |-> Capped(p, delay[i])]

WaitsInBroker(p, delay) == p.threshold > 0 /\ delay > 0 /\ delay >= p.threshold

\* NextWait: none when the attempts are used up or the message is too old.
\* The jitter of a wait in the consumer is left out: nothing depends on it.
Again(p, attempt, tooOld) == attempt < p.maxAttempts /\ ~tooOld
NextWait(p, attempt) ==
    [delay |-> Backoff(p, attempt), inBroker |-> WaitsInBroker(p, Backoff(p, attempt))]

\* shortDuration: a rung is named for its whole seconds.
RungName(delay) == delay \div PerSecond

\* The rungs of the waits up to the last-th: those spent in the broker, the
\* first for each name.
RungsUpTo(p, last) ==
    LET waits == Schedule(p)
        rungs[i \in 0..last] ==
            IF i = 0 THEN <<>>
            ELSE IF /\ WaitsInBroker(p, waits[i])
                    /\ \A j \in DOMAIN rungs[i - 1] :
                            RungName(rungs[i - 1][j]) # RungName(waits[i])
                 THEN Append(rungs[i - 1], waits[i])
                 ELSE rungs[i - 1]
    IN  rungs[last]

\* The policy's last wait has no rung.
LadderShort(p) == RungsUpTo(p, IF p.maxAttempts > 2 THEN p.maxAttempts - 2 ELSE 0)

\* BrokerRungs and LadderFor.
LadderFor(p) == RungsUpTo(p, p.maxAttempts - 1)

\* RungFor: the shortest rung at least as long as the wait, else the longest.
RungFor(ladder, delay) ==
    LET rungs == {ladder[i] : i \in DOMAIN ladder}
        enough == {r \in rungs : r >= delay}
    IN  IF enough # {} THEN CHOOSE r \in enough : \A o \in enough : r <= o
        ELSE CHOOSE r \in rungs : \A o \in rungs : r >= o

HasRung(p, ladder, delay) == ladder # <<>> /\ delay >= p.threshold

Rung(queue, delay) == <<"rung", queue[2], RungName(delay)>>

\* RungArgs: back to the queue through the retry exchange.
RungArgs(queue, delay) == TTL(Milliseconds(delay), "acemq.retry", queue)

Ladder(queue, p) ==
    LET delays == LadderFor(p)
    IN  [i \in DOMAIN delays |-> <<Rung(queue, delays[i]), RungArgs(queue, delays[i])>>]

DeclareRungs(rungs) ==
    <<DeclareExchangeOp("acemq.retry")>>
    \o [i \in DOMAIN rungs |-> DeclareQueueOp(rungs[i][1], rungs[i][2])]

\* The way home from a rung is never bound.
RetryHalfUnbound(queue, p) ==
    IF LadderFor(p) = <<>> THEN <<>> ELSE DeclareRungs(Ladder(queue, p))

DeclareRetryHalf(queue, p) ==
    IF LadderFor(p) = <<>> THEN <<>>
    ELSE DeclareRungs(Ladder(queue, p)) \o <<BindOp(<<queue, "acemq.retry", queue>>)>>

DeclareDeadLetterHalf(queue) ==
    LET holding(name) == <<DeclareQueueOp(name, Plain("classic")), BindOp(<<name, "acemq.dlx", name>>)>>
    IN  <<DeclareExchangeOp("acemq.dlx")>>
        \o holding(DeadLetterQueue(queue)) \o holding(ParkedQueue(queue))

\* What Consume declares before the first delivery.
LadderDeclare(queue, p) == DeclareRetryHalf(queue, p) \o DeclareDeadLetterHalf(queue)

(* Every wait the policy spends in the broker has a rung, and is that long *)
(* to the millisecond, although the ladder is worked out from Schedule and *)
(* the wait by backoff.  The exception is a wait in whose second another   *)
(* of the policy's own waits lies: the two share a rung by name, so that   *)
(* one of them is moved, to a length the policy waits at some attempt, by  *)
(* less than a second down or less than two up.                            *)
RungForEveryWait(p) ==
    LET ladder == LadderFor(p)
        waits == {NextWait(p, attempt) : attempt \in 1..(p.maxAttempts - 1)}
        held(delay) == PerMilli * Milliseconds(RungFor(ladder, delay))
    IN  \A w \in {v \in waits : v.inBroker} :
            /\ HasRung(p, ladder, w.delay)
            /\ \/ held(w.delay) \in (w.delay - PerMilli + 1)..w.delay
               \/ /\ \E v \in waits : v.inBroker /\ v # w /\ RungName(v.delay) = RungName(w.delay)
                  /\ RungFor(ladder, w.delay) \in {v.delay : v \in waits}
                  /\ RungFor(ladder, w.delay) \in
                        (w.delay - PerSecond + 1)..(w.delay + 2 * PerSecond - 1)
=============================================================================
