------------------------------- MODULE Outbox -------------------------------
(***************************************************************************)
(* The outbox (src/patterns/outbox.go): records written with the work they *)
(* belong to, over the store in memory or the SQL one                      *)
(* (src/patterns/sqlstores.go), and relays that sweep the store, publish   *)
(* what is pending oldest first, and count failures against a record until *)
(* it is retired.                                                          *)
(***************************************************************************)
EXTENDS EventQueue, Sequences

CONSTANTS Relay,        \* processes running an OutboxRelay on the store
          MaxAttempts,  \* the store's maxAttempts
          Batch,        \* RelayBatch
          Absent        \* attempts of a record that is not in the store

ASSUME OutboxAssumption == MaxAttempts \in Nat \ {0} /\ Batch \in Nat \ {0} /\ Absent \notin Nat

VARIABLES
    tx,         \* by event: "none", "open", "added", "committed" or "undone"
    born,       \* events in the order of their records' CreatedAt
    attempts,   \* by event: Attempts of its record, or Absent
    step,       \* by relay: where its goroutine is
    sweep,      \* the records it has still to publish, the oldest first
    behind,     \* events that were pending when it read the store
    stopping,   \* relays whose Close has closed stop
    routed,     \* events the broker has taken at least once
    lost        \* events of a store in memory that died with its process

relayVars == <<step, sweep, behind, stopping>>
outboxVars == <<tx, born, attempts, relayVars, routed, lost>>

OutboxInit ==
    /\ tx = [e \in Event |-> "none"] /\ born = <<>>
    /\ attempts = [e \in Event |-> Absent]
    /\ step = [r \in Relay |-> "new"] /\ sweep = [r \in Relay |-> {}]
    /\ behind = [r \in Relay |-> {}] /\ stopping = {}
    /\ routed = {} /\ lost = {}

\* Record stamps CreatedAt inside the caller's transaction.
Record(e) ==
    /\ tx[e] = "none" /\ tx' = [tx EXCEPT ![e] = "open"] /\ born' = Append(born, e)
    /\ UNCHANGED <<broker, trouble, sql, attempts, relayVars, routed, lost>>

\* A record that is there already is left as it is.
Insert(e) == attempts' = [attempts EXCEPT ![e] = IF @ = Absent THEN 0 ELSE @]

\* InMemoryOutboxStore.Add: visible at once, with no transaction to join.
MemAdd(e) ==
    /\ tx[e] = "open" /\ ~sql /\ tx' = [tx EXCEPT ![e] = "committed"] /\ Insert(e)
    /\ UNCHANGED <<broker, trouble, sql, born, relayVars, routed, lost>>

\* SQLOutboxStore.Add on the caller's transaction: visible once that commits.
SQLAdd(e) ==
    /\ tx[e] = "open" /\ sql /\ tx' = [tx EXCEPT ![e] = "added"]
    /\ UNCHANGED <<broker, trouble, sql, born, attempts, relayVars, routed, lost>>

\* The caller commits.
Commit(e) ==
    /\ tx[e] = "added" /\ tx' = [tx EXCEPT ![e] = "committed"] /\ Insert(e)
    /\ UNCHANGED <<broker, trouble, sql, born, relayVars, routed, lost>>

\* The caller, or the database, rolls back.
Rollback(e) ==
    /\ tx[e] \in {"open", "added"} /\ tx' = [tx EXCEPT ![e] = "undone"]
    /\ UNCHANGED <<broker, trouble, sql, born, attempts, relayVars, routed, lost>>

\* The caller does not learn that its commit succeeded and does it all again,
\* with the same record.
AddAgain(e) ==
    /\ tx[e] = "committed" /\ sql /\ Trouble /\ Insert(e)
    /\ UNCHANGED <<broker, sql, tx, born, relayVars, routed, lost>>
-----------------------------------------------------------------------------
Pending(e) == attempts[e] # Absent /\ attempts[e] < MaxAttempts

\* Records at the limit stay in the store and are offered to nobody.
Retired == {e \in Event : attempts[e] # Absent /\ attempts[e] >= MaxAttempts}

\* e's record was written before f's.
Older(e, f) == \E i, j \in DOMAIN born : i < j /\ born[i] = e /\ born[j] = f

\* The records offered before e's, sorted by CreatedAt as both stores do it.
Before(e) == {f \in Event : Pending(f) /\ Older(f, e)}

\* InMemoryOutboxStore.Pending: the oldest, all of them without a limit.
MemPending(limit) ==
    {e \in Event : Pending(e) /\ (limit > 0 => Cardinality(Before(e)) < limit)}

\* SQLOutboxStore.Pending: ORDER BY created_at, and never without a LIMIT.
SQLPending(limit) ==
    LET most == IF limit <= 0 THEN 100 ELSE limit
    IN  {e \in Event : Pending(e) /\ Cardinality(Before(e)) < most}

\* The record of a sweep that is published next.
Oldest(records) == CHOOSE e \in records : \A f \in records \ {e} : Older(e, f)

\* Another process takes over from a relay that was closed.
NewOutboxRelay(r) ==
    /\ step[r] = "done" /\ step' = [step EXCEPT ![r] = "new"] /\ stopping' = stopping \ {r}
    /\ UNCHANGED <<broker, trouble, sql, tx, born, attempts, sweep, behind, routed, lost>>

\* Start: the goroutine waits for a tick, for stop or for the context.
StartRelay(r) ==
    /\ step[r] = "new" /\ step' = [step EXCEPT ![r] = "loop"]
    /\ UNCHANGED <<broker, trouble, sql, tx, born, attempts, sweep, behind, stopping, routed, lost>>

\* A tick, and Sweep reads the store.  A read that fails leaves all as it is.
SweepRead(r) ==
    LET batch == IF sql THEN SQLPending(Batch) ELSE MemPending(Batch)
    IN  /\ step[r] = "loop" /\ batch # {}
        /\ step' = [step EXCEPT ![r] = "publish"] /\ sweep' = [sweep EXCEPT ![r] = batch]
        /\ behind' = [behind EXCEPT ![r] = {e \in Event : Pending(e)}]
        /\ UNCHANGED <<broker, trouble, sql, tx, born, attempts, stopping, routed, lost>>

\* Sweep returns.
Return(r) ==
    /\ step' = [step EXCEPT ![r] = "loop"] /\ sweep' = [sweep EXCEPT ![r] = {}]
    /\ behind' = [behind EXCEPT ![r] = {}]

\* PublishRaw, mandatory: taken and routed.
Publish(r) ==
    LET e == Oldest(sweep[r])
    IN  /\ step[r] = "publish" /\ step' = [step EXCEPT ![r] = "mark"]
        /\ Push(e) /\ routed' = routed \cup {e}
        /\ UNCHANGED <<dead, trouble, sql, tx, born, attempts, sweep, behind, stopping, lost>>

\* It is refused, or nothing is bound; or it was taken and the answer is lost.
PublishFails(r) ==
    LET e == Oldest(sweep[r])
    IN  /\ step[r] = "publish" /\ Trouble /\ step' = [step EXCEPT ![r] = "fail"]
        /\ \/ UNCHANGED <<queue, routed>>
           \/ Push(e) /\ routed' = routed \cup {e}
        /\ UNCHANGED <<dead, sql, tx, born, attempts, sweep, behind, stopping, lost>>

\* The store's RecordFailure: no record, nothing to count.
CountFailure(e) == attempts' = [attempts EXCEPT ![e] = IF @ = Absent THEN @ ELSE @ + 1]

\* The store's MarkPublished.
Forget(e) == attempts' = [attempts EXCEPT ![e] = Absent]

\* Mutant: the sweep goes on behind a record that failed.
RecordFailureAndGoOn(r) ==
    /\ step[r] = "fail" /\ sweep' = [sweep EXCEPT ![r] = @ \ {Oldest(@)}]
    /\ step' = [step EXCEPT ![r] = IF sweep[r] # {Oldest(sweep[r])} THEN "publish" ELSE "loop"]
    /\ CountFailure(Oldest(sweep[r]))
    /\ UNCHANGED <<broker, trouble, sql, tx, born, behind, stopping, routed, lost>>

\* RecordFailure counts against the record, if it is still there, and the sweep
\* stops: what is behind it waits.
RecordFailure(r) ==
    /\ step[r] = "fail" /\ Return(r)
    /\ CountFailure(Oldest(sweep[r]))
    /\ UNCHANGED <<broker, trouble, sql, tx, born, stopping, routed, lost>>

\* The count cannot be written, which Sweep ignores.
RecordFailureFails(r) ==
    /\ step[r] = "fail" /\ Trouble /\ Return(r)
    /\ UNCHANGED <<broker, sql, tx, born, attempts, stopping, routed, lost>>

\* MarkPublished removes the record, and Sweep goes on to the next.
MarkPublished(r) ==
    LET e == Oldest(sweep[r])
    IN  /\ step[r] = "mark" /\ Forget(e)
        /\ IF sweep[r] # {e}
           THEN /\ step' = [step EXCEPT ![r] = "publish"] /\ sweep' = [sweep EXCEPT ![r] = @ \ {e}]
                /\ UNCHANGED behind
           ELSE Return(r)
        /\ UNCHANGED <<broker, trouble, sql, tx, born, stopping, routed, lost>>

\* Published and not marked: the sweep stops, and the next sends it again.
MarkFails(r) ==
    /\ step[r] = "mark" /\ Trouble /\ Return(r)
    /\ UNCHANGED <<broker, sql, tx, born, attempts, stopping, routed, lost>>

\* Close closes stop; it returns once the goroutine is done.
CloseRelay(r) ==
    /\ r \notin stopping /\ Trouble /\ stopping' = stopping \cup {r}
    /\ UNCHANGED <<broker, sql, tx, born, attempts, step, sweep, behind, routed, lost>>

\* The goroutine finds stop closed when it next waits; a tick may come first.
LoopEnds(r) ==
    /\ step[r] = "loop" /\ r \in stopping /\ step' = [step EXCEPT ![r] = "done"]
    /\ UNCHANGED <<broker, trouble, sql, tx, born, attempts, sweep, behind, stopping, routed, lost>>

\* The relay's process dies, a store in memory with it, and is started again.
RelayDies(r) ==
    /\ step[r] \notin {"new", "done"} /\ Trouble
    /\ step' = [step EXCEPT ![r] = "new"] /\ sweep' = [sweep EXCEPT ![r] = {}]
    /\ behind' = [behind EXCEPT ![r] = {}] /\ stopping' = stopping \ {r}
    /\ IF sql THEN UNCHANGED <<attempts, lost>>
       ELSE /\ lost' = lost \cup {e \in Event : attempts[e] # Absent}
            /\ attempts' = [e \in Event |-> Absent]
    /\ UNCHANGED <<broker, sql, tx, born, routed>>

Application(e) == Record(e) \/ MemAdd(e) \/ SQLAdd(e) \/ Commit(e) \/ Rollback(e) \/ AddAgain(e)

\* The relay's own steps.
Sweep(r) ==
    \/ SweepRead(r) \/ Publish(r) \/ PublishFails(r) \/ RecordFailure(r) \/ RecordFailureFails(r)
    \/ MarkPublished(r) \/ MarkFails(r)

RelayStep(r) == Sweep(r) \/ StartRelay(r) \/ LoopEnds(r) \/ NewOutboxRelay(r)

OutboxNext ==
    \/ \E e \in Event : Application(e)
    \/ \E r \in Relay : RelayStep(r) \/ CloseRelay(r) \/ RelayDies(r)
-----------------------------------------------------------------------------
\* A record reaches the broker for the first time only after every older one
\* that was pending when its sweep read the store: Sweep stops at a failure,
\* so that records go out in the order they were written (outbox.go, Sweep).
OrderKept ==
    [][\A r \in Relay : step[r] = "publish" /\ step'[r] # "publish" /\ routed' # routed
          => \A e \in behind[r] : Older(e, Oldest(sweep[r])) => e \in routed]_outboxVars
=============================================================================
