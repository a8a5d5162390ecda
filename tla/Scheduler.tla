------------------------------ MODULE Scheduler ------------------------------
(***************************************************************************)
(* The scheduler: a message hops through queues of uniform time to live    *)
(* until it is due, and is then published where it was always going.  One  *)
(* message is followed.  Time is counted against the moment it is due, and *)
(* every copy of it carries that moment.                                   *)
(***************************************************************************)
EXTENDS RetryPolicy

CONSTANTS Rungs,            \* the ladder's waits, longest first
          RetryRung,        \* the wait after a delivery that failed
          Delays,           \* what a message may be scheduled for
          MaxSlack,         \* time the scheduler's own steps may take
          MaxFailures       \* how often a publish fails, or the scheduler stops

ASSUME SchedulerAssumption ==
    /\ Rungs \in Seq(Nat \ {0}) /\ Rungs # <<>>
    /\ \A i \in DOMAIN Rungs : Rungs[i] % PerMilli = 0
    /\ \A i, j \in DOMAIN Rungs : i < j => Rungs[i] > Rungs[j]
    /\ RetryRung \in {Rungs[i] : i \in DOMAIN Rungs}
    /\ Delays \subseteq Nat /\ MaxSlack \in Nat /\ MaxFailures \in Nat

VARIABLES running,          \* whether the control queue is consumed
          remaining,        \* time until the message is due
          asked,            \* "no", "yes", "accepted" or "failed": the call of At
          hops,             \* <<where, time to live left>> for every copy
          arrivals,         \* <<remaining, slack>> at each delivery
          slack,            \* time a copy spent anywhere but on a rung
          failures,         \* publishes that failed, crashes and Closes, so far
          excused           \* a delivery was tried and failed, or a fault met

scheduleVars == <<running, remaining, asked, hops, arrivals, slack, failures, excused>>

Handler == <<"handler", 0>>
Caller == <<"caller", 0>>
ScheduleRungName(rung) == <<"wait", rung>>

Shortest == Rungs[Len(Rungs)]

\* ScheduleRungArgs: every rung empties into the control queue.
ScheduleRungArgs(rung) == TTL(Milliseconds(rung), "acemq.schedule", Control)

ScheduleTopology ==
    LET with[i \in 0..Len(Rungs)] ==
            IF i = 0 THEN Exchange(NewTopology, "acemq.schedule")
            ELSE LET name == ScheduleRungName(Rungs[i])
                 IN  Binding(Queue(with[i - 1], name, ScheduleRungArgs(Rungs[i])),
                             name, "acemq.schedule", name)
    IN  Binding(Queue(with[Len(Rungs)], Control, Plain("classic")),
                Control, "acemq.schedule", Control)

\* NewScheduler applies the topology and consumes, which declares for the
\* control queue what the connection's retry policy p asks for.
SchedulerPlan(p) == Apply(ScheduleTopology) \o LadderDeclare(Control, p)

NewScheduler(s, p) ==
    /\ ~running /\ todo[s] = <<>> /\ Validate(ScheduleTopology)
    /\ todo' = [todo EXCEPT ![s] = SchedulerPlan(p)]
    /\ UNCHANGED <<exchanges, queues, bindings, refused, scheduleVars>>

Prepared(s) ==
    \/ /\ ~running /\ Declare(s)
       /\ running' = (todo'[s] = <<>>)
       /\ UNCHANGED <<remaining, asked, hops, arrivals, slack, failures, excused>>
    \/ ~running /\ DeclareFails(s) /\ UNCHANGED scheduleVars

\* Whoever the message is for has declared its queue.
DeclareTarget ==
    /\ ~Exists(Target)
    /\ queues' = With(Target, Plain("quorum"))
    /\ UNCHANGED <<exchanges, bindings, todo, refused, scheduleVars>>

\* A publish: what can have come of it, and whether an error was returned.
Fail(n) == failures + n <= MaxFailures /\ failures' = failures + n
PublishRaw(exchange, key) ==
    LET to == RouteTo(exchange, key)
    IN  {[to |-> to, failed |-> to = {}, fault |-> 0],
         [to |-> to, failed |-> TRUE, fault |-> 1],
         [to |-> {}, failed |-> TRUE, fault |-> 1]}

\* hop: the outcomes of putting the message on a rung.
Hop(rung) == PublishRaw("acemq.schedule", ScheduleRungName(rung))

\* The longest rung that does not overshoot, and one that does.
Fitting == CHOOSE r \in {Rungs[i] : i \in DOMAIN Rungs} :
    /\ r <= remaining
    /\ \A i \in DOMAIN Rungs : Rungs[i] <= remaining => Rungs[i] <= r
Overshooting == CHOOSE r \in {Rungs[i] : i \in DOMAIN Rungs} :
    /\ r >= remaining \/ r = Rungs[1]
    /\ \A i \in DOMAIN Rungs : Rungs[i] >= remaining => Rungs[i] >= r

\* A due message is delivered, and if that fails waits on the retry rung; an
\* error is returned only when the hop failed as well.
DeliverOrWait ==
    LET deliver == PublishRaw("default", Target)
    IN  {d \in deliver : ~d.failed}
        \union {[to |-> d.to \union h.to, failed |-> h.failed, fault |-> d.fault + h.fault] :
                   d \in {e \in deliver : e.failed}, h \in Hop(RetryRung)}

\* route with the next rung up, and route for which a message past its moment
\* is not due.
RouteLate == IF remaining < Shortest THEN DeliverOrWait ELSE Hop(Overshooting)
RouteNotPast ==
    IF remaining \in 0..(Shortest - 1) THEN DeliverOrWait
    ELSE Hop(IF remaining < 0 THEN Shortest ELSE Fitting)

\* route: what can have come of it.
Route == IF remaining < Shortest THEN DeliverOrWait ELSE Hop(Fitting)

\* What a publish adds to the queues, and to what the target was given.
Landed(to) ==
    {<<q, IF q[1] = "wait" THEN PerMilli * queues[q].ttl ELSE 0>> : q \in to \ {Target}}
Took(to) ==
    /\ arrivals' = IF Target \in to THEN arrivals \union {<<remaining, slack>>} ELSE arrivals
    /\ excused' = (excused \/ failures' > failures \/ (remaining < Shortest /\ Target \notin to))

\* At: the caller's own route; an error is the caller's to deal with.
At ==
    /\ running /\ asked = "no"
    /\ \E delay \in Delays : remaining' = delay
    /\ asked' = "yes"
    /\ hops' = {<<Caller, 0>>}
    /\ UNCHANGED <<brokerVars, running, arrivals, slack, failures, excused>>

AtRoutes ==
    /\ asked = "yes"
    /\ \E r \in Route :
        /\ Fail(r.fault) /\ Took(r.to)
        /\ hops' = (hops \ {<<Caller, 0>>}) \union Landed(r.to)
        /\ asked' = IF r.failed THEN "failed" ELSE "accepted"
    /\ UNCHANGED <<brokerVars, running, remaining, slack>>

\* A rung gives up a message whose time there is over.
Expired ==
    /\ \E c \in hops :
        /\ c[1][1] = "wait" /\ c[2] = 0
        /\ hops' = (hops \ {c}) \union {<<q, 0>> : q \in DeadLetterTargets(c[1])}
    /\ UNCHANGED <<brokerVars, running, remaining, asked, arrivals, slack, failures, excused>>

Take ==
    /\ running /\ <<Control, 0>> \in hops /\ <<Handler, 0>> \notin hops
    /\ hops' = (hops \ {<<Control, 0>>}) \union {<<Handler, 0>>}
    /\ UNCHANGED <<brokerVars, running, remaining, asked, arrivals, slack, failures, excused>>

\* forward and what the control consumer does with its answer: accepted, or
\* rejected and set aside on the dead-letter queue; a set-aside that is
\* refused puts the delivery back on the control queue.
SetAside ==
    {[to |-> a.to \union (IF a.failed THEN {Control} ELSE {}), fault |-> a.fault] :
        a \in PublishRaw("default", DeadLetterQueue(Control))}
Forward ==
    /\ running /\ <<Handler, 0>> \in hops
    /\ \E r \in Route, a \in SetAside \union {[to |-> {}, fault |-> 0]} :
        /\ r.failed <=> a \in SetAside
        /\ Fail(r.fault + a.fault) /\ Took(r.to)
        /\ hops' = (hops \ {<<Handler, 0>>}) \union Landed(r.to \union a.to)
    /\ UNCHANGED <<brokerVars, running, remaining, asked, slack>>

\* Close, the handler done; one whose drain ends first leaves the delivery
\* as a crash does.
Close ==
    /\ running /\ <<Handler, 0>> \notin hops
    /\ Fail(1) /\ running' = FALSE
    /\ UNCHANGED <<brokerVars, remaining, asked, hops, arrivals, slack, excused>>

\* The process dies, or has forwarded the message and dies before it is
\* acknowledged: the delivery goes back to the control queue.
SchedulerDies ==
    /\ running /\ asked # "yes"
    /\ running' = FALSE
    /\ \E r \in Route \union {[to |-> {}, failed |-> FALSE, fault |-> 0]} :
        /\ r.to # {} => <<Handler, 0>> \in hops
        /\ Fail(r.fault + 1) /\ Took(r.to)
        /\ hops' = (hops \ {<<Handler, 0>>}) \union Landed(r.to)
                    \union (IF <<Handler, 0>> \in hops THEN {<<Control, 0>>} ELSE {})
    /\ UNCHANGED <<brokerVars, remaining, asked, slack>>

\* Someone removes a rung that nothing is on.
TidyRung ==
    /\ Fail(1) /\ excused' = TRUE
    /\ \E q \in DOMAIN queues :
        /\ q[1] = "wait" /\ \A c \in hops : c[1] # q
        /\ DeleteQueue(q)
    /\ UNCHANGED <<running, remaining, asked, hops, arrivals, slack>>

\* Time passes; a copy not on a rung is the scheduler's own doing.  Once the
\* message is later than that explains, how late is no longer counted.
Idle == \E c \in hops : c[1] # DeadLetterQueue(Control) /\ (c[1][1] = "wait" => c[2] = 0)
Tick ==
    /\ hops # {}
    /\ IF Idle THEN slack < MaxSlack /\ slack' = slack + 1 ELSE UNCHANGED slack
    /\ remaining' = IF remaining >= -MaxSlack THEN remaining - 1 ELSE remaining
    /\ hops' = {<<c[1], IF c[2] > 0 THEN c[2] - 1 ELSE 0>> : c \in hops}
    /\ UNCHANGED <<brokerVars, running, asked, arrivals, failures, excused>>

ScheduleStep(s, p) ==
    NewScheduler(s, p) \/ Prepared(s) \/ AtRoutes \/ Expired \/ Take \/ Forward

ScheduleNext(s, p) ==
    ScheduleStep(s, p) \/ DeclareTarget \/ At \/ Close \/ SchedulerDies \/ TidyRung \/ Tick
=============================================================================
