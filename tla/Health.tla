------------------------------- MODULE Health -------------------------------
(***************************************************************************)
(* A readiness probe of a service on the RabbitMQ transport: the actuator's *)
(* health endpoint (src/actuator/actuator.go), AggregateHealth, ConnHealth  *)
(* and Conn.Health (src/amqp/health.go), composed with what the transport   *)
(* knows of connection.blocked.                                             *)
(*                                                                         *)
(* Two checks run at once: the library's of its connection, which declares  *)
(* a queue and so holds the transport's lock until the broker answers, and   *)
(* one of the application that may never answer.  A probe that gives up      *)
(* leaves its declaration behind, waiting for the lock or holding it.  The   *)
(* probe's clock is its own; code that can run, and a broker that can        *)
(* answer, do so before it ticks.                                           *)
(***************************************************************************)
EXTENDS BlockedState

CONSTANTS CheckTimeout,     \* ConnHealth.Timeout, in ticks of the probe's clock
          Limits,           \* what Options.Timeout of the actuator may be
          MaxAbandoned      \* bound on the abandoned declarations waiting at once

ASSUME HealthAssumption ==
    /\ CheckTimeout \in Nat \ {0} /\ Limits \subseteq Nat \ {0}
    /\ MaxAbandoned \in Nat \ {0}

Checks == {"broker", "application"}
Statuses == {"up", "degraded", "down"}

VARIABLES
    shut,       \* Conn.closed
    limit,      \* Options.Timeout of the actuator
    served,     \* the endpoint: "idle", or "asked"
    clock,      \* ticks since it was asked
    check,      \* by check: "off", "begin", "locking" Transport.mu, "declaring",
                \* or its answer
    abandoned,  \* declarations of earlier probes waiting for Transport.mu
    parts,      \* by check: what AggregateHealth has noted of it
    code,       \* the status code of the last answer, 0 while it is due
    troubled,   \* the connection's check has met trouble since it began
    known       \* the transport has known of a block since the check's last tick

healthVars == <<shut, limit, served, clock, check, abandoned, parts, code>>
seen == <<troubled, known>>

HealthInit ==
    /\ shut = FALSE /\ limit \in Limits /\ served = "idle" /\ clock = 0 /\ abandoned = 0
    /\ check = [c \in Checks |-> "off"] /\ parts = [c \in Checks |-> "none"]
    /\ code = 200 /\ troubled = FALSE /\ known = FALSE

\* ConnHealth.Check's deadline, which is also that of the endpoint around it.
Deadline == IF CheckTimeout < limit THEN CheckTimeout ELSE limit

\* Conn.Close has begun.
Shut ==
    /\ ~shut /\ shut' = TRUE
    /\ UNCHANGED <<mu, limit, served, clock, check, abandoned, parts, code>>

\* Actuator.health and AggregateHealth: a goroutine for each check.
Ask ==
    /\ served = "idle" /\ abandoned < MaxAbandoned /\ served' = "asked" /\ clock' = 0
    /\ check' = [c \in Checks |-> "begin"] /\ parts' = [c \in Checks |-> "none"] /\ code' = 0
    /\ UNCHANGED <<mu, shut, limit, abandoned>>

Answer(c, status) == check' = [check EXCEPT ![c] = status]

\* Conn.Health: closed, or blocked, or a queue is declared to see.
Health ==
    /\ check["broker"] = "begin"
    /\ Answer("broker", IF shut THEN "down" ELSE IF blocked THEN "up" ELSE "locking")
    /\ UNCHANGED <<mu, shut, limit, served, clock, abandoned, parts, code>>

\* DeclareQueue: the lock is taken, and kept over the round trip.
DeclareQueue ==
    /\ check["broker"] = "locking" /\ mu = "free" /\ mu' = "probe"
    /\ Answer("broker", "declaring")
    /\ UNCHANGED <<shut, limit, served, clock, abandoned, parts, code>>

\* The broker answers a declaration unless it has stopped reading, and the
\* client fails it when its connection goes.
Declared == alive /\ ~alarm
DeclareFailed == ~alive

\* Mutant: no answer is down, whatever explains it.
ProbeFailedDown == Answer("broker", "down")

\* Conn.Health: an error, or no answer in time, is explained by a block.
ProbeFailed == Answer("broker", IF blocked THEN "up" ELSE "down")

\* The declaration stays behind, holding the lock or waiting for it.
Abandon ==
    /\ mu' = IF mu = "probe" THEN "abandoned" ELSE mu
    /\ abandoned' = IF check["broker"] = "locking" THEN abandoned + 1 ELSE abandoned

\* Conn.Health: the probe is answered, or abandoned at the deadline.
HealthProbed ==
    /\ \/ /\ check["broker"] = "declaring" /\ mu' = "free" /\ UNCHANGED abandoned
          /\ (Declared /\ Answer("broker", "up")) \/ (DeclareFailed /\ ProbeFailed)
       \/ /\ check["broker"] \in {"locking", "declaring"} /\ clock = Deadline
          /\ ProbeFailed /\ Abandon
    /\ UNCHANGED <<shut, limit, served, clock, parts, code>>

\* An abandoned declaration gets the lock, and an answer.
AbandonedDeclares ==
    /\ \/ mu = "free" /\ abandoned > 0 /\ mu' = "abandoned" /\ abandoned' = abandoned - 1
       \/ mu = "abandoned" /\ (Declared \/ DeclareFailed) /\ mu' = "free" /\ UNCHANGED abandoned
    /\ UNCHANGED <<shut, limit, served, clock, check, parts, code>>

\* The application's check answers, one way or another.
ApplicationChecked ==
    /\ check["application"] = "begin"
    /\ \E status \in Statuses : Answer("application", status)
    /\ UNCHANGED <<mu, shut, limit, served, clock, abandoned, parts, code>>

\* AggregateHealth: the answer of a check is noted.
Note(c) ==
    /\ served = "asked" /\ check[c] \in Statuses /\ parts[c] = "none"
    /\ parts' = [parts EXCEPT ![c] = check[c]]
    /\ UNCHANGED <<mu, shut, limit, served, clock, check, abandoned, code>>

\* AggregateHealth: the worst of its parts, where no answer is down.
Worst(ps) ==
    IF \E c \in Checks : ps[c] \in {"down", "unanswered"} THEN "down"
    ELSE IF \E c \in Checks : ps[c] = "degraded" THEN "degraded"
    ELSE "up"

\* Actuator.health: only down is a failure to the orchestrator.
Reply(ps) ==
    /\ parts' = ps /\ code' = IF Worst(ps) = "down" THEN 503 ELSE 200
    /\ served' = "idle" /\ clock' = 0
    /\ check' = [c \in Checks |-> "off"] /\ Abandon
    /\ UNCHANGED <<shut, limit>>

\* AggregateHealth: every check has answered, or time is up and those that have
\* not are named.
Aggregated ==
    /\ served = "asked"
    /\ \/ (\A c \in Checks : parts[c] # "none") /\ Reply(parts)
       \/ clock = limit
          /\ Reply([c \in Checks |-> IF parts[c] = "none" THEN "unanswered" ELSE parts[c]])

\* ConnHealth.Check bounds the check by its own deadline: time does not pass it
\* with the probe still waiting, nor with an answer not yet there or noted.
HealthTick ==
    /\ served = "asked" /\ clock < limit /\ clock' = clock + 1
    /\ check["broker"] # "begin"
    /\ check["broker"] \in {"locking", "declaring"} =>
        clock < Deadline /\ mu # "free" /\ ~Declared /\ ~DeclareFailed
    /\ \A c \in Checks : check[c] \in Statuses => parts[c] # "none"
    /\ UNCHANGED <<mu, shut, limit, served, check, abandoned, parts, code>>

HealthStep ==
    Health \/ DeclareQueue \/ HealthProbed \/ (\E c \in Checks : Note(c)) \/ Aggregated \/ HealthTick

HealthNext == Shut \/ Ask \/ HealthStep \/ AbandonedDeclares \/ ApplicationChecked

Pending == check["broker"] \in {"begin", "locking", "declaring"}
Trouble == shut \/ ~alive \/ alarm

\* What was to be seen of the connection while its check was pending.
Seen ==
    IF Pending'
    THEN /\ troubled' = (Trouble' \/ (served = "asked" /\ troubled))
         /\ known' = (blocked' /\ (known \/ served = "idle" \/ clock' # clock))
    ELSE UNCHANGED seen

Both ==
    /\ \/ Next /\ UNCHANGED healthVars
       \/ HealthNext /\ UNCHANGED <<link, state, waiter, missed>>
    /\ Seen

allVars == <<vars, healthVars, seen>>

\* Goroutines run, time passes, and a mutex starves nobody; the broker need not
\* answer a publish, and answers a declaration when it reads at all; no context
\* of a publish need end.
AllFair ==
    /\ WF_vars(Look \/ Wake \/ Expired \/ Tick) /\ SF_vars(Send \/ Judge)
    /\ SF_vars(Swap) /\ WF_vars(Clear \/ Watch) /\ \A g \in Gens : WF_vars(watchBlocked(g))
    /\ WF_healthVars(HealthStep) /\ WF_mu(AbandonedDeclares)

Spec == Init /\ HealthInit /\ [][Both]_allVars /\ AllFair

-----------------------------------------------------------------------------
(* Properties *)

\* A probe takes the service out of rotation only for cause.  The connection is
\* down only if, since its check began, it was closed or lost or the broker had
\* stopped reading it, an abandoned declaration of an earlier probe being no
\* cause of its own; it is not down for a block that was known when time last
\* passed, since restarting into a blocked broker helps nobody; its check speaks
\* for itself unless the endpoint's timeout is as short as its own; and the
\* endpoint fails exactly when some part is down or did not answer (Health,
\* AggregateHealth, Actuator.health).
ProbeTellsWhy ==
    served = "idle" =>
        /\ parts["broker"] = "down" => troubled
        /\ known /\ ~shut => parts["broker"] # "down"
        /\ CheckTimeout < limit => parts["broker"] # "unanswered"
        /\ (code = 503) = (\E c \in Checks : parts[c] \in {"down", "unanswered"})

\* Who waits on a quiet broker.  A publish that has written waits no longer than
\* it is blocked, with no context to end it; one that is still to write, or to
\* judge a nack, waits for the lock behind a probe's declaration, which goes on
\* when the broker does; a lost connection is replaced although a declaration
\* holds that lock; and a probe is answered whatever holds it, even if the
\* application's own check hangs (awaitConfirm, send, DeclareQueue,
\* reconnectOnce, AggregateHealth).
QuietBrokerWaitsEnd ==
    /\ (pc \in {"look", "wait"} /\ blocked) ~> (pc \notin {"look", "wait"} \/ ~blocked)
    /\ (<>[]~alarm) => ((pc \in {"send", "judge"}) ~> (pc \notin {"send", "judge"}))
    /\ ~alive ~> alive
    /\ (served = "asked") ~> (served = "idle")

=============================================================================
