----------------------------- MODULE RetryWaits -----------------------------
(***************************************************************************)
(* Consumers of one queue, in several services deployed in any order, that *)
(* send a message they could not handle to wait on a rung of the ladder.   *)
(* How the consumer settles a delivery is modelled in Consumer; here it is *)
(* one step, and what matters is where the message is put and whether the  *)
(* broker has somewhere to put it.                                         *)
(*                                                                         *)
(* A service's style is how it sets itself up: "applies" applies a         *)
(* topology and then consumes, "reviewed" does so with NoDeadLetterQueues, *)
(* so that its topology is all there is, and "declares" only consumes, of  *)
(* a queue that is another's.                                              *)
(***************************************************************************)
EXTENDS RetryPolicy

CONSTANTS RunPolicies,      \* the policies services are run with
          MaxTrouble        \* how often anything goes wrong

VARIABLES policy,           \* the policy the services run
          style,            \* service -> how it sets itself up
          up,               \* the services that consume
          sent,             \* whether the message was published
          copies,           \* <<where, attempt>> for every copy there is
          done,             \* whether it was handled
          trouble           \* how often something went wrong

waitVars == <<policy, style, up, sent, copies, done, trouble>>

Held(s) == <<"held", s>>

\* The topology a service applies; which of the two is asked for first is up
\* to whoever wrote it.
Topologies(p) ==
    LET queue(t) == Queue(t, Source, Plain("quorum"))
    IN  {Retries(DeadLetters(queue(NewTopology), Source), Source, Ladder(Source, p)),
         queue(DeadLetters(Retries(NewTopology, Source, Ladder(Source, p)), Source))}

\* What a service declares before its consumer takes its first delivery.
Preparations(p, how) ==
    CASE how = "declares" -> {LadderDeclare(Source, p)}
      [] how = "applies" -> {Apply(t) \o LadderDeclare(Source, p) : t \in Topologies(p)}
      [] how = "reviewed" -> {Apply(t) : t \in Topologies(p)}

Plans == [p \in RunPolicies, how \in {"applies", "reviewed", "declares"} |-> Preparations(p, how)]
TopologiesOf == [p \in RunPolicies |-> Topologies(p)]
Ladders == [p \in RunPolicies |-> LadderFor(p)]

-----------------------------------------------------------------------------
Start(s) ==
    /\ s \notin up /\ todo[s] = <<>> /\ s \notin refused
    /\ \E ops \in Plans[policy, style[s]] : todo' = [todo EXCEPT ![s] = ops]
    /\ UNCHANGED <<exchanges, queues, bindings, refused, waitVars>>

\* A declaration; with the last of them made the consumer is there.
Prepare(s) ==
    \/ /\ s \notin up /\ Declare(s)
       /\ up' = IF todo'[s] = <<>> THEN up \union {s} ELSE up
       /\ UNCHANGED <<policy, style, sent, copies, done, trouble>>
    \/ s \notin up /\ DeclareFails(s) /\ UNCHANGED waitVars

\* The message is published once its queue is there.
Publish ==
    /\ ~sent /\ Exists(Source)
    /\ sent' = TRUE /\ copies' = {<<Source, 1>>}
    /\ UNCHANGED <<brokerVars, policy, style, up, done, trouble>>

Deliver(s) ==
    /\ s \in up /\ \A c \in copies : c[1] # Held(s)
    /\ \E c \in copies :
        c[1] = Source /\ copies' = (copies \ {c}) \union {<<Held(s), c[2]>>}
    /\ UNCHANGED <<brokerVars, policy, style, up, sent, done, trouble>>

Trouble == trouble < MaxTrouble /\ trouble' = trouble + 1

\* The copy s holds is published to queue, as the given attempt, and then
\* acknowledged; it goes back when the publish fails or nothing took it.
Move(s, c, queue, attempt) ==
    \/ /\ Exists(queue)
       /\ copies' = (copies \ {c}) \union {<<queue, attempt>>}
       /\ UNCHANGED <<done, trouble>>
    \/ /\ ~Exists(queue)
       /\ copies' = (copies \ {c}) \union {<<Source, c[2]>>}
       /\ UNCHANGED <<done, trouble>>
    \/ /\ Trouble
       /\ \E arrived \in IF Exists(queue) THEN {{}, {<<queue, attempt>>}} ELSE {{}} :
            copies' = (copies \ {c}) \union arrived \union {<<Source, c[2]>>}
       /\ UNCHANGED done

\* retryInBroker: on the rung, and where that is gone in the consumer.
RetryInBroker(s, c, delay) ==
    LET rung == Rung(Source, RungFor(Ladders[policy], delay))
    IN  IF HasRung(policy, Ladders[policy], delay) /\ Exists(rung)
        THEN Move(s, c, rung, c[2] + 1)
        ELSE Move(s, c, Source, c[2] + 1)

Retry(s, c) ==
    \E tooOld \in {FALSE, policy.ages} :
        IF ~Again(policy, c[2], tooOld) THEN Move(s, c, DeadLetterQueue(Source), c[2])
        ELSE LET wait == NextWait(policy, c[2])
             IN  IF wait.inBroker THEN RetryInBroker(s, c, wait.delay)
                 ELSE Move(s, c, Source, c[2] + 1)

Handle(s) ==
    /\ s \in up
    /\ \E c \in copies :
        /\ c[1] = Held(s)
        /\ \/ /\ copies' = copies \ {c} /\ done' = TRUE
              /\ UNCHANGED trouble
           \/ Retry(s, c)
           \/ Move(s, c, DeadLetterQueue(Source), c[2])
    /\ UNCHANGED <<brokerVars, policy, style, up, sent>>

\* A rung's time to live is over for a message on it: the broker dead-letters
\* it, and drops it where nothing is bound.
Expire ==
    /\ \E c \in copies :
        /\ c[1][1] = "rung"
        /\ copies' = (copies \ {c}) \union {<<q, c[2]>> : q \in DeadLetterTargets(c[1])}
    /\ UNCHANGED <<brokerVars, policy, style, up, sent, done, trouble>>

\* A service dies; what it held goes back to its queue.
Die(s) ==
    /\ s \in up /\ Trouble
    /\ up' = up \ {s}
    /\ copies' = {IF c[1] = Held(s) THEN <<Source, c[2]>> ELSE c : c \in copies}
    /\ UNCHANGED <<brokerVars, policy, style, sent, done>>

\* Someone removes a rung that nothing is on.
Tidy ==
    /\ Trouble
    /\ \E q \in DOMAIN queues :
        /\ q[1] = "rung" /\ \A c \in copies : c[1] # q
        /\ DeleteQueue(q)
    /\ UNCHANGED <<policy, style, up, sent, copies, done>>

Engine(s) == Start(s) \/ Prepare(s) \/ Deliver(s) \/ Handle(s)

RetryNext ==
    \/ Publish \/ Expire \/ Tidy
    \/ \E s \in Service : Engine(s) \/ Die(s)
=============================================================================
