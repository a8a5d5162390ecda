---------------------------- MODULE EventPipeline ----------------------------
(***************************************************************************)
(* An event from the transaction that records it to the handler that does  *)
(* its work: module Outbox feeding the queue that module Idempotency       *)
(* consumes.  It implements EventContract.                                 *)
(***************************************************************************)
EXTENDS Outbox, Idempotency

vars == <<broker, trouble, sql, outboxVars, idemVars>>

Init == QueueInit /\ OutboxInit /\ IdemInit

Next ==
    \/ OutboxNext /\ UNCHANGED idemVars
    \/ IdemNext /\ UNCHANGED outboxVars

Spec == Init /\ [][Next]_vars

\* Relays that were started and workers go on, the clock too; a waiting copy is
\* delivered in the end, since the broker hands out a queue in order.
Fairness ==
    /\ \A r \in Relay : WF_vars(RelayStep(r) /\ UNCHANGED idemVars)
    /\ \A w \in Worker : WF_vars(Guard(w) /\ UNCHANGED outboxVars)
    /\ \A e \in Event : SF_vars((\E w \in Worker : Take(w, e)) /\ UNCHANGED outboxVars)
    /\ WF_vars(Tick /\ UNCHANGED <<broker, trouble, sql, outboxVars>>)

FairSpec == Spec /\ Fairness

Contract == INSTANCE EventContract WITH
    owed <- {e \in Event : tx[e] = "committed"},
    done <- effects,
    aside <- Retired \cup dead \cup lost,
    pardoned <- overran \cup excused \cup forgotten

\* Recording an event in the outbox and handling it idempotently keeps the
\* promise of EventContract.
MeetsContract == Contract!Spec
=============================================================================
