-------------------------------- MODULE Flow --------------------------------
(***************************************************************************)
(* A pipeline whose payloads are claim-checked, with an operator replaying *)
(* its dead letters and an owner clearing out the claim-check store.       *)
(***************************************************************************)
EXTENDS Pipeline, Replay

vars == <<ready, declared, trouble, claimVars, pipelineVars, replayVars>>

Init == QueuesInit /\ ClaimInit /\ PipelineInit /\ ReplayInit

\* Every message that may still be delivered.
Deliverable ==
    (UNION {At(p) : p \in Place}) \union (UNION {held[w] : w \in Worker})
        \union pulled \union DOMAIN declined

\* The owner's retention is over for a payload, whether or not a message that
\* may still be delivered refers to it.
Expire(key) ==
    /\ Delete(key)
    /\ UNCHANGED <<ready, declared, trouble, pipelineVars>>

Next ==
    \/ /\ \/ Lifecycle /\ UNCHANGED history
          \/ Sending
          \/ \E w \in Worker : Handling(w)
          \/ \E key \in contents : Expire(key)
       /\ UNCHANGED replayVars
    \/ ReplayNext /\ UNCHANGED <<declared, claimVars, pipelineVars>>

Spec == Init /\ [][Next]_vars

\* The engine works off its queues and settles, Close waits for no more than
\* that, a pipeline that is down is started again, and a replay that has
\* begun goes on.
Running(w) == Handling(w) /\ UNCHANGED replayVars
Starting == Lifecycle /\ stage \in {"declare", "start", "failing", "closing", "down"}
            /\ UNCHANGED <<history, replayVars>>
Replaying == phase # "idle" /\ ReplayNext /\ UNCHANGED <<declared, claimVars, pipelineVars>>

Fairness == WF_vars(Starting) /\ WF_vars(Replaying) /\ \A w \in Worker : WF_vars(Running(w))

-----------------------------------------------------------------------------
\* A run whose sender was told it is on its way ends, or one of its messages
\* is still on a queue, with a handler, or with the replay: no hop, crash,
\* retry or replay takes the last copy away (pipelineStep.start, FollowSlip,
\* Replay, putBack).
RunAccounted ==
    \A r \in sent : fate[r] # {} \/ \E m \in Deliverable : m.run = r

\* Work is done in the order of the route: no step is done for a run unless
\* those before it, from where the run came in, were; and a run is reported
\* completed only when all were (SlipFrom, Advance, PipelineStep, FollowSlip).
WorkInOrder ==
    \A r \in Run :
        /\ \A k \in worked[r] : (first[r]..k) \subseteq worked[r]
        /\ "completed" \in fate[r] => worked[r] = first[r]..N

\* The payload was put in the store, and the store no longer has it.
Gone(body) == body \in (1..minted) \ contents

\* A message is parked as unreadable only when its payload is gone for good:
\* cleared out by the store's owner before the message was done with, or lost
\* with the memory of a process that died.  A store that could not be asked,
\* at whatever attempt and in whatever hop, parks nothing that can still be
\* read (ClaimCheckCodec.decode, the codec failure it reports).
NothingUnreadable == \A m \in At(Parked) : Gone(m.body)

Aside(r) == \E p \in Place : p[1] # "queue" /\ \E m \in At(p) : m.run = r

\* Every run that was sent ends, or is set aside, or the pipeline is closed;
\* and a replay with a limit returns, also when what it moves is dead-lettered
\* again at once (settle, Pipeline.Close, Replay).
RunsAndReplaysEnd ==
    /\ \A r \in Run : r \in sent ~> fate[r] # {} \/ Aside(r) \/ stage = "closed"
    /\ phase # "idle" ~> phase = "idle"
=============================================================================
