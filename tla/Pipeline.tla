------------------------------ MODULE Pipeline ------------------------------
(***************************************************************************)
(* A pipeline of steps, each a group of consumers on a queue of its own:   *)
(* NewPipeline and Close, and the handler that wraps a step - that of a    *)
(* declared pipeline (PipelineStep) or of a service that follows the slip  *)
(* (FollowSlip), with the route it needs for a declared one or without.    *)
(***************************************************************************)
EXTENDS ClaimCheck

CONSTANT Size           \* consumers of a step's group

ASSUME PipelineAssumption == Size \in Nat \ {0}

VARIABLES
    hosting,    \* what wraps the steps: step, follow, or bare (no route)
    stage,      \* of the pipeline: declare, start, run, failing, closing, closed or down
    at,         \* the step NewPipeline has come to
    pc,         \* by consumer: off, idle, work, send or settle
    held,       \* by consumer: its delivery, as a set of at most one
    out,        \* by consumer: the slip the next message is to carry
    verdict,    \* by consumer: what its handler answered
    first,      \* by run: the step it was sent to, 0 before
    sent,       \* runs whose sender was told they are on their way
    worked,     \* by run: the steps whose work was done
    fate        \* by run: how a step reported it to have ended

stages == <<hosting, stage, at>>
handlers == <<held, out, verdict>>
history == <<first, sent, worked, fate>>
pipelineVars == <<stages, pc, handlers, history>>

Worker == Step \X (1..Size)
NoVerdict == "none"

PipelineInit ==
    /\ hosting \in {"step", "follow", "bare"}
    /\ stage = "declare" /\ at = 1
    /\ pc = [w \in Worker |-> "off"] /\ held = [w \in Worker |-> {}]
    /\ out = [w \in Worker |-> NoSlip] /\ verdict = [w \in Worker |-> NoVerdict]
    /\ first = [r \in Run |-> 0] /\ sent = {}
    /\ worked = [r \in Run |-> {}] /\ fate = [r \in Run |-> {}]

Up(k) == {i \in 1..Size : pc[<<k, i>>] # "off"}

-----------------------------------------------------------------------------
(* NewPipeline: every queue is declared and bound before any step starts,  *)
(* then each step's group starts its consumers one by one.  FollowSlip is  *)
(* hosted by an application that goes the same way.                        *)

Declare ==
    /\ stage = "declare"
    /\ declared' = declared \union {at}
    /\ IF at < N THEN at' = at + 1 /\ UNCHANGED stage
                 ELSE at' = 1 /\ stage' = "start"
    /\ UNCHANGED hosting

\* The consumers of the last step are forgotten.
StartAllButLast ==
    /\ stage = "start"
    /\ \E i \in 1..Size :
        /\ Up(at) = 1..(i - 1) /\ pc' = [pc EXCEPT ![<<at, i>>] = "idle"]
        /\ IF i < Size THEN UNCHANGED <<at, stage>>
           ELSE IF at < N - 1 THEN at' = at + 1 /\ UNCHANGED stage
           ELSE stage' = "run" /\ UNCHANGED at
    /\ UNCHANGED hosting

StartConsumer ==
    /\ stage = "start"
    /\ \E i \in 1..Size :
        /\ Up(at) = 1..(i - 1) /\ pc' = [pc EXCEPT ![<<at, i>>] = "idle"]
        /\ IF i < Size THEN UNCHANGED <<at, stage>>
           ELSE IF at < N THEN at' = at + 1 /\ UNCHANGED stage
           ELSE stage' = "run" /\ UNCHANGED at
    /\ UNCHANGED hosting

\* A declaration that fails is the end of it; a consumer that fails to start
\* takes with it its group and the steps before.
NewPipelineFails ==
    /\ stage \in {"declare", "start"} /\ Trouble
    /\ stage' = IF stage = "declare" THEN "down" ELSE "failing"
    /\ UNCHANGED <<hosting, at>>

\* Pipeline.Close
CloseBegins ==
    /\ stage = "run"
    /\ stage' = "closing" /\ UNCHANGED <<hosting, at>>

\* The groups are closed one after the other: first the one that failed to
\* start, when there is one.
CloseOrder == (IF stage = "failing" THEN <<at>> ELSE <<>>) \o Names
Open == {i \in DOMAIN CloseOrder : Up(CloseOrder[i]) # {}}
ClosingStep(k) ==
    /\ stage \in {"failing", "closing"}
    /\ \E i \in Open : CloseOrder[i] = k /\ \A j \in Open : i <= j

\* A group's consumers close in parallel, each once its delivery is settled.
CloseConsumer(w) ==
    /\ ClosingStep(w[1]) /\ pc[w] = "idle"
    /\ pc' = [pc EXCEPT ![w] = "off"]

Closed ==
    /\ stage \in {"failing", "closing"} /\ Open = {}
    /\ stage' = IF stage = "failing" THEN "down" ELSE "closed"
    /\ UNCHANGED <<hosting, at>>

\* The process dies: what its consumers held is returned.
Taken(k) == UNION {held[<<k, i>>] : i \in 1..Size}
HeldBy(k, m) == Cardinality({i \in 1..Size : held[<<k, i>>] = {m}})
Die ==
    /\ stage # "closed" /\ Trouble
    /\ ready' = [p \in Place |-> IF p[1] # "queue" THEN ready[p]
                                 ELSE Joined(ready[p], [m \in Taken(p[2]) |-> HeldBy(p[2], m)])]
    /\ pc' = [w \in Worker |-> "off"] /\ held' = [w \in Worker |-> {}]
    /\ verdict' = [w \in Worker |-> NoVerdict] /\ out' = [w \in Worker |-> NoSlip]
    /\ stage' = "down" /\ UNCHANGED <<hosting, at>>

\* It is started again, as a supervisor does.
Restart == stage = "down" /\ stage' = "declare" /\ at' = 1 /\ UNCHANGED hosting

Lifecycle ==
    \/ Declare /\ UNCHANGED <<pc, handlers, ready, trouble, claimVars>>
    \/ StartConsumer /\ UNCHANGED <<handlers, declared, ready, trouble, claimVars>>
    \/ NewPipelineFails /\ UNCHANGED <<pc, handlers, declared, ready, claimVars>>
    \/ CloseBegins /\ UNCHANGED <<pc, handlers, declared, ready, trouble, claimVars>>
    \/ (\E w \in Worker : CloseConsumer(w))
       /\ UNCHANGED <<stages, handlers, declared, ready, trouble, claimVars>>
    \/ Closed /\ UNCHANGED <<pc, handlers, declared, ready, trouble, claimVars>>
    \/ Die /\ StoreDies /\ UNCHANGED declared
    \/ Restart /\ UNCHANGED <<pc, handlers, declared, ready, trouble, claimVars>>

-----------------------------------------------------------------------------
(* What is sent.                                                           *)

Message(r, headers, body) == [run |-> r, headers |-> headers, body |-> body, attempt |-> 1]

\* A publish that reached its queue and was confirmed, or that failed or
\* went without an answer.
Published(k, m) == k \in declared /\ ready' = With(ready, Queue(k), m) /\ UNCHANGED trouble
PublishFails(k, m) == Trouble /\ \E left \in {ready, With(ready, Queue(k), m)} : ready' = left

\* Pipeline.Send and Start, with a slip in either form.
Send(r, slip, body) ==
    /\ stage = "run" /\ first[r] = 0
    /\ first' = [first EXCEPT ![r] = 1]
    /\ Encode(body)
    /\ LET m == Message(r, HeaderOptions(slip), body)
           k == NextStep(slip)
       IN \/ Published(k, m) /\ sent' = sent \union {r}
          \/ PublishFails(k, m) /\ UNCHANGED sent

\* Somebody else publishes to a step's queue: without a slip, or with one
\* this library cannot read.
SendElsewhere(r, k, json) ==
    /\ k \in declared /\ first[r] = 0
    /\ first' = [first EXCEPT ![r] = k] /\ sent' = sent \union {r}
    /\ Published(k, Message(r, [NoHeaders EXCEPT !.json = json], Inline))

Sending ==
    \E r \in Run :
        /\ \/ \E slip \in {RouteStart(Names), AsJSON(RouteStart(Names))}, body \in {Inline, minted + 1} :
                Send(r, slip, body)
           \/ \E k \in Step, json \in {NoSlip, Garbled} : SendElsewhere(r, k, json) /\ UNCHANGED claims
        /\ UNCHANGED <<stages, pc, handlers, declared, worked, fate, inMemory>>

-----------------------------------------------------------------------------
(* A step's handler, one delivery of one consumer.                         *)

Deliver(w, m) ==
    /\ pc[w] = "idle" /\ ~ClosingStep(w[1])
    /\ ready' = Without(ready, Queue(w[1]), m)
    /\ held' = [held EXCEPT ![w] = {m}] /\ pc' = [pc EXCEPT ![w] = "work"]
    /\ UNCHANGED <<stages, out, verdict, history, declared, trouble, claimVars>>

\* The slip to work by: that of the message, or, for a step of a declared
\* pipeline, a run that begins here.
SlipAt(w, m) ==
    LET slip == SlipFrom(m.headers)
    IN  IF slip.kind = "absent" /\ hosting = "step" THEN AdvancedTo(RouteStart(Names), w[1] - 1)
        ELSE slip

Unusable(slip) == slip.kind \in {"absent", "garbled"} \/ (slip.kind = "steps" /\ hosting = "bare")

Answer(w, v) == verdict' = [verdict EXCEPT ![w] = v] /\ pc' = [pc EXCEPT ![w] = "settle"]

\* A store that cannot be asked, taken for one that has lost the payload.
NoWorkParked(w, m) ==
    /\ \/ ~Redeemable(m.body) /\ Answer(w, "park") /\ UNCHANGED trouble
       \/ m.body # Inline /\ Trouble /\ Answer(w, "park")
       \/ Redeemable(m.body) /\ Unusable(SlipAt(w, m)) /\ Answer(w, "reject") /\ UNCHANGED trouble
    /\ UNCHANGED <<out, worked, fate>>

\* The step is not reached: the payload cannot be had, or there is no slip.
NoWork(w, m) ==
    /\ \/ ~Redeemable(m.body) /\ Answer(w, "park") /\ UNCHANGED trouble
       \/ m.body # Inline /\ Trouble /\ Answer(w, "retry")
       \/ Redeemable(m.body) /\ Unusable(SlipAt(w, m)) /\ Answer(w, "reject") /\ UNCHANGED trouble
    /\ UNCHANGED <<out, worked, fate>>

\* The step fails, in a way another attempt may mend or not; a panic is the
\* latter.
StepFails(w) ==
    /\ Trouble
    /\ \E v \in {"retry", "reject"} : Answer(w, v)
    /\ UNCHANGED <<out, worked, fate>>

\* Done, and the run with it: the step said so, or it was the last.
StepDone(w, m) ==
    LET slip == Advance(SlipAt(w, m))
    IN  /\ worked' = [worked EXCEPT ![m.run] = @ \union {w[1]}]
        /\ \/ /\ hosting = "step" /\ Answer(w, "accept")
              /\ fate' = [fate EXCEPT ![m.run] = @ \union {"ended early"}]
              /\ UNCHANGED out
           \/ /\ ~More(slip) /\ Answer(w, "accept")
              /\ fate' = [fate EXCEPT ![m.run] = @ \union {"completed"}]
              /\ UNCHANGED out
           \/ /\ More(slip) /\ pc' = [pc EXCEPT ![w] = "send"]
              /\ out' = [out EXCEPT ![w] = slip]
              /\ UNCHANGED <<fate, verdict>>
        /\ UNCHANGED trouble

Work(w, m) ==
    /\ pc[w] = "work"
    /\ \/ NoWork(w, m)
       \/ /\ Redeemable(m.body) /\ ~Unusable(SlipAt(w, m))
          /\ StepFails(w) \/ StepDone(w, m)
    /\ UNCHANGED <<stages, held, first, sent, ready, declared, claimVars>>

\* The delivery is accepted whatever became of the next message.
ForwardAndForget(w, m) ==
    /\ pc[w] = "send"
    /\ \E body \in {Inline, minted + 1} :
        LET k == NextStep(out[w])
            next == Message(m.run, Onwards(m.headers, out[w]), body)
        IN  Encode(body) /\ Answer(w, "accept") /\ (Published(k, next) \/ PublishFails(k, next))
    /\ out' = [out EXCEPT ![w] = NoSlip]
    /\ UNCHANGED <<stages, held, history, declared, inMemory>>

\* The next message goes out, mandatory; until it has, this one is not
\* accepted.
Forward(w, m) ==
    /\ pc[w] = "send"
    /\ LET k == NextStep(out[w])
           next(body) == Message(m.run, Onwards(m.headers, out[w]), body)
       IN \/ \E body \in {Inline, minted + 1} :
                /\ Encode(body)
                /\ \/ Published(k, next(body)) /\ Answer(w, "accept")
                   \/ PublishFails(k, next(body)) /\ Answer(w, "retry")
          \/ k \notin declared /\ Answer(w, "retry") /\ UNCHANGED <<ready, trouble, claims>>
          \/ Trouble /\ Answer(w, "retry") /\ UNCHANGED <<ready, claims>>
    /\ out' = [out EXCEPT ![w] = NoSlip]
    /\ UNCHANGED <<stages, held, history, declared, inMemory>>

\* WithTimeout: a handler that returned too late is answered for.
Overrun(w) ==
    /\ pc[w] = "settle" /\ verdict[w] \in {"accept", "reject"} /\ Trouble
    /\ verdict' = [verdict EXCEPT ![w] = "retry"]
    /\ UNCHANGED <<stages, pc, held, out, history, ready, declared, claimVars>>

\* The engine acts on the answer: see module Consumer for how.
Settle(w, m) ==
    /\ pc[w] = "settle"
    /\ ready' = CASE verdict[w] = "accept" -> ready
                  [] verdict[w] = "retry" /\ m.attempt < MaxAttempts ->
                        With(ready, Queue(w[1]), [m EXCEPT !.attempt = @ + 1])
                  [] verdict[w] = "park" -> With(ready, Parked, m)
                  [] OTHER -> With(ready, Dead(w[1]), m)
    /\ held' = [held EXCEPT ![w] = {}] /\ verdict' = [verdict EXCEPT ![w] = NoVerdict]
    /\ pc' = [pc EXCEPT ![w] = "idle"]
    /\ UNCHANGED <<stages, out, history, declared, trouble, claimVars>>

Handling(w) ==
    \/ \E m \in At(Queue(w[1])) : Deliver(w, m)
    \/ \E m \in held[w] : Work(w, m) \/ Forward(w, m) \/ Settle(w, m)
    \/ Overrun(w)
=============================================================================
