-------------------------------- MODULE Saga --------------------------------
(***************************************************************************)
(* Saga.Run, whose steps are calls to another service: each step's Do is a *)
(* request, and its Undo, where it has one, is another.  A call that did   *)
(* not come back with an answer is an error to the saga, whatever became   *)
(* of the request.                                                         *)
(***************************************************************************)
EXTENDS RequestReply

CONSTANTS Steps,        \* how many steps the saga has
          Undoable      \* those with an Undo

ASSUME SagaAssumption ==
    /\ Steps \in Nat \ {0} /\ Undoable \subseteq 1..Steps
    /\ Call = (1..Steps) \X {"do", "undo"}

VARIABLES
    mode,       \* run, undo, complete or compensated
    at,         \* running: the step; undoing: how many of the completed are left
    completed,  \* names of the steps done, in order
    failedAt,   \* the step that failed, 0 for none
    unresolved  \* steps that could not be undone

sagaVars == <<mode, at, completed, failedAt, unresolved>>
vars == <<memVars, callVars, serverVars, trouble, sagaVars>>

Init ==
    /\ MemInit /\ RequestInit
    /\ mode = "run" /\ at = 1 /\ completed = <<>> /\ failedAt = 0 /\ unresolved = <<>>

Current ==
    IF mode = "run" THEN <<at, "do">> ELSE <<completed[at], "undo">>

Invoke ==
    /\ \/ mode = "run"
       \/ mode = "undo" /\ at > 0 /\ completed[at] \in Undoable
    /\ Register(Current)
    /\ UNCHANGED sagaVars

\* Run, whose compensation starts one step short.
StepReturnedShort ==
    /\ mode = "run" /\ call[Current] = "done"
    /\ IF result[Current] = "answered"
       THEN /\ completed' = Append(completed, at)
            /\ IF at < Steps THEN at' = at + 1 /\ UNCHANGED mode
                             ELSE mode' = "complete" /\ UNCHANGED at
            /\ UNCHANGED failedAt
       ELSE /\ mode' = "undo" /\ at' = (IF at > 1 THEN at - 2 ELSE 0) /\ failedAt' = at
            /\ UNCHANGED completed
    /\ UNCHANGED unresolved

\* Run, when a step's Do has returned.
StepReturned ==
    /\ mode = "run" /\ call[Current] = "done"
    /\ IF result[Current] = "answered"
       THEN /\ completed' = Append(completed, at)
            /\ IF at < Steps THEN at' = at + 1 /\ UNCHANGED mode
                             ELSE mode' = "complete" /\ UNCHANGED at
            /\ UNCHANGED failedAt
       ELSE /\ mode' = "undo" /\ at' = Len(completed) /\ failedAt' = at
            /\ UNCHANGED completed
    /\ UNCHANGED unresolved

\* compensate: in reverse, past what cannot be undone.
Undone ==
    /\ mode = "undo" /\ at > 0
    /\ \/ completed[at] \notin Undoable /\ UNCHANGED unresolved
       \/ /\ completed[at] \in Undoable /\ call[Current] = "done"
          /\ unresolved' = IF result[Current] = "answered" THEN unresolved
                           ELSE Append(unresolved, completed[at])
    /\ at' = at - 1
    /\ UNCHANGED <<mode, completed, failedAt>>

Compensated ==
    /\ mode = "undo" /\ at = 0 /\ mode' = "compensated"
    /\ UNCHANGED <<at, completed, failedAt, unresolved>>

SagaStep ==
    \/ Invoke
    \/ (StepReturned \/ Undone \/ Compensated) /\ UNCHANGED callVars

-----------------------------------------------------------------------------
Calling(c) ==
    \/ SendRequest(c) /\ UNCHANGED <<unconfirmed, sub, delivery, stop>>
    \/ (Receive(c) \/ Return(c) \/ GiveUp(c)) /\ UNCHANGED <<memVars, trouble>>

Serving ==
    \/ TakeRequest /\ UNCHANGED trouble
    \/ Handle /\ UNCHANGED memVars
    \/ CountAnswer /\ UNCHANGED <<memVars, trouble>>
    \/ (SendReply \/ SendError) /\ UNCHANGED <<unconfirmed, sub, delivery, stop>>
    \/ Settle /\ UNCHANGED <<unconfirmed, sub, delivery, stop, trouble>>

\* What the transport does of itself; the engine of a consumer that is being
\* closed returns what it is still handed.
Transport ==
    \/ \E q \in QueueName : Broadcast(q)
    \/ \E s \in Sub : Pop(s) \/ (stop[s] # "no" /\ Requeue(s))

Stopping == \E s \in Sub : stop[s] = "closed" /\ Stop(s)

\* What the services around them do: declare, consume, close, cancel.
Around ==
    \/ \E q \in QueueName : DeclareQueue(q) /\ UNCHANGED <<callVars, trouble>>
    \/ \E s \in Sub : Consume(s) /\ UNCHANGED <<callVars, trouble>>
    \/ \E s \in Sub : stop[s] = "no" /\ Stop(s) /\ Trouble /\ UNCHANGED callVars
    \/ ~cancelled /\ Trouble /\ cancelled' = TRUE
       /\ UNCHANGED <<memVars, call, result, waiters, box>>

Next ==
    \/ SagaStep /\ UNCHANGED <<memVars, serverVars, trouble>>
    \/ (\E c \in Call : Calling(c)) /\ UNCHANGED <<serverVars, sagaVars>>
    \/ Serving /\ UNCHANGED <<callVars, sagaVars>>
    \/ ClientDelivers /\ UNCHANGED <<serverVars, trouble, sagaVars>>
    \/ (Transport \/ Stopping) /\ UNCHANGED <<callVars, serverVars, trouble, sagaVars>>
    \/ Around /\ UNCHANGED <<serverVars, sagaVars>>

Spec == Init /\ [][Next]_vars

\* A call's timer fires if nothing else does; handlers, goroutines and a Stop
\* that has begun go on.
Fairness ==
    /\ WF_vars(SagaStep /\ UNCHANGED <<memVars, serverVars, trouble>>)
    /\ \A c \in Call : WF_vars(Calling(c) /\ UNCHANGED <<serverVars, sagaVars>>)
    /\ WF_vars(Serving /\ UNCHANGED <<callVars, sagaVars>>)
    /\ WF_vars(ClientDelivers /\ UNCHANGED <<serverVars, trouble, sagaVars>>)
    /\ WF_vars((Transport \/ Stopping) /\ UNCHANGED <<callVars, serverVars, trouble, sagaVars>>)

FairSpec == Spec /\ Fairness

-----------------------------------------------------------------------------
\* The work of step i was done, and its Undo was not done after that.
Stands(i) ==
    \E k \in DOMAIN performed :
        /\ performed[k] = <<i, "do">>
        /\ \A j \in DOMAIN performed : performed[j] = <<i, "undo">> => j < k

\* A saga's report is true, and stays true. If it says it completed, every
\* step's work was done. If it failed, work that stands, done and not undone
\* since, belongs to a step without an Undo, to one listed as unresolved, to the
\* step that failed, whose request may have been carried out after all, or to
\* a step whose answer got out although its publish was reported as failed: its
\* request is tried again, and may be done again behind its Undo (Run,
\* compensate, Serve).
SagaReportsTruly ==
    /\ mode = "complete" => \A i \in 1..Steps : Stands(i)
    /\ mode = "compensated" =>
        \A i \in Undoable : Stands(i) =>
            \/ i = failedAt \/ i \in {unresolved[j] : j \in DOMAIN unresolved}
            \/ <<i, "do">> \in takenBack

\* A saga that has begun ends, though nobody may be serving its requests, and
\* Stop returns, whatever its goroutine was waiting for (Do, Run,
\* memSubscription.Stop, pop).
EverythingReturns ==
    /\ waiters # {} ~> mode \in {"complete", "compensated"}
    /\ \A s \in Sub : stop[s] # "no" ~> StopReturned(s)
=============================================================================
