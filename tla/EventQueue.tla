----------------------------- MODULE EventQueue -----------------------------
(***************************************************************************)
(* The queue between the outbox relay and the idempotent consumers: how    *)
(* many copies of each message wait on it, and what was dead-lettered.     *)
(* The consuming engine itself is module Consumer; here a settlement is    *)
(* its outcome.                                                            *)
(***************************************************************************)
EXTENDS Integers, FiniteSets

CONSTANTS Event,        \* what is recorded, published and handled, by its ID
          MaxTrouble    \* bound on failures, crashes and shutdowns

ASSUME EventAssumption == MaxTrouble \in Nat /\ Event # {}

VARIABLES
    sql,        \* the stores are the SQL ones, not those in memory
    queue,      \* by event: copies waiting for a consumer
    dead,       \* events with a copy on the dead-letter queue
    trouble     \* failures so far

broker == <<queue, dead>>

QueueInit ==
    /\ sql \in BOOLEAN /\ queue = [e \in Event |-> 0] /\ dead = {} /\ trouble = 0

\* One copy of e reaches the queue.
Push(e) == queue' = [queue EXCEPT ![e] = @ + 1]

\* Something fails, or somebody dies, as often as the bound allows.
Trouble == trouble < MaxTrouble /\ trouble' = trouble + 1
=============================================================================
