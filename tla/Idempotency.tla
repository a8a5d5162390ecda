----------------------------- MODULE Idempotency -----------------------------
(***************************************************************************)
(* Handlers wrapped by Idempotent (src/patterns/idempotency.go), over the  *)
(* store in memory or the SQL one (src/patterns/sqlstores.go).  A claim is *)
(* a lease on a key with no owner's name in it: it expires, can be taken   *)
(* by another, and whoever confirms or releases does so by key alone.      *)
(*                                                                         *)
(* Time is kept as ages: how long ago a row's handled_at is, and how long  *)
(* ago each worker read the clock, both capped where nothing can tell the  *)
(* difference any more.  Each worker is a process of its own over SQL; all *)
(* of them are one process over memory.                                    *)
(***************************************************************************)
EXTENDS EventQueue

CONSTANTS Worker,       \* consumers handling the queue
          ClaimTimeout, \* claimTimeout, in ticks
          TTL,          \* ttl of the store in memory
          MaxLag        \* bound on the ticks one TryClaim takes

ASSUME IdempotencyAssumption ==
    /\ ClaimTimeout \in Nat \ {0} /\ TTL \in Nat /\ MaxLag \in Nat

VARIABLES
    present,    \* the keys with a row
    confirmed,  \* those whose row is confirmed
    age,        \* by key: ticks since the row's handled_at
    pc,         \* by worker: where it is in guard
    job,        \* the event it handles
    lag,        \* ticks since its TryClaim read the clock
    answer,     \* the Ack it will settle with
    effects,    \* by event: how often a handler did its work, up to 2
    accepted,   \* events of which some copy was accepted
    overran,    \* events some worker claimed or held for longer than its lease
    excused,    \* events whose completion was not recorded, or was forgotten
    forgotten   \* events of which a live claim was

rows == <<present, confirmed, age>>
worker == <<pc, job, lag, answer>>
history == <<effects, accepted, overran, excused, forgotten>>
idemVars == <<rows, worker, history>>

Claiming == {"claim", "steal", "read"}
Holding == {"handle", "confirm", "release"}
Acks == {"accept", "retry", "in_progress", "reject"}

Longer(m, n) == IF m < n THEN n ELSE m
LagCap == Longer(ClaimTimeout, MaxLag) + 1
AgeCap == Longer(TTL, ClaimTimeout) + 1 + MaxLag
AtMost(n, cap) == IF n > cap THEN cap ELSE n

\* What a worker that has nothing to do handles: no matter which.
NoJob == CHOOSE e \in Event : TRUE

IdemInit ==
    /\ present = {} /\ confirmed = {} /\ age = [k \in Event |-> 0]
    /\ pc = [w \in Worker |-> "idle"] /\ job = [w \in Worker |-> NoJob]
    /\ lag = [w \in Worker |-> 0] /\ answer = [w \in Worker |-> "accept"]
    /\ effects = [k \in Event |-> 0]
    /\ accepted = {} /\ overran = {} /\ excused = {} /\ forgotten = {}

\* The keys worker w has a claim on, as far as it knows, or is taking one on.
HeldFor(w) == IF pc[w] \in Claiming \cup Holding THEN {job[w]} ELSE {}

\* A tick.  It waits for a TryClaim that has taken MaxLag of them.
Tick ==
    /\ \A w \in Worker : pc[w] \in Claiming => lag[w] < MaxLag
    /\ age' = [k \in Event |-> IF k \in present THEN AtMost(age[k] + 1, AgeCap) ELSE 0]
    /\ lag' = [w \in Worker |-> IF pc[w] \in Claiming \cup Holding
                                THEN AtMost(lag[w] + 1, LagCap) ELSE 0]
    /\ overran' = overran \cup UNION {HeldFor(w) : w \in {v \in Worker : lag[v] >= ClaimTimeout}}
    /\ UNCHANGED <<present, confirmed, pc, job, answer, effects, accepted, excused, forgotten>>

\* Worker w goes on to step p with the rows, the history and the queue as they are.
Go(w, p) == pc' = [pc EXCEPT ![w] = p]
Answer(w, a) == Go(w, "settle") /\ answer' = [answer EXCEPT ![w] = a]

\* A copy of e is delivered; guard calls claim, which reads the clock.
Take(w, e) ==
    /\ pc[w] = "idle" /\ queue[e] > 0
    /\ queue' = [queue EXCEPT ![e] = @ - 1]
    /\ Go(w, "claim") /\ job' = [job EXCEPT ![w] = e] /\ lag' = [lag EXCEPT ![w] = 0]
    /\ UNCHANGED <<dead, trouble, sql, rows, answer, history>>

\* How old the row of k was when w read the clock.
AgeFor(w, k) == age[k] - lag[w]

\* A row of k written with the clock w has read, not confirmed.
WriteRow(w, k) ==
    /\ present' = present \cup {k} /\ confirmed' = confirmed \ {k}
    /\ age' = [age EXCEPT ![k] = lag[w]]

\* The keys the store in memory forgets when w claims.
Expired(w) == {k \in present : AgeFor(w, k) > TTL}

\* Rows go for their age: completions, and claims that are still live.
ForgetRows(gone) ==
    /\ excused' = excused \cup (gone \cap confirmed)
    /\ forgotten' = forgotten \cup {k \in gone \ confirmed : age[k] <= ClaimTimeout}

\* Mutant: a claim nobody has confirmed is a duplicate.
MemTryClaimTwoStates(w) ==
    /\ pc[w] = "claim" /\ ~sql
    /\ IF job[w] \in present
       THEN Answer(w, "accept") /\ UNCHANGED rows
       ELSE Go(w, "handle") /\ WriteRow(w, job[w]) /\ UNCHANGED answer
    /\ UNCHANGED <<broker, trouble, sql, job, lag, history>>

\* InMemoryIdempotencyStore.TryClaim and what guard makes of it.
MemTryClaim(w) ==
    LET k == job[w]
        gone == Expired(w)
        live == k \in present \ gone
    IN  /\ pc[w] = "claim" /\ ~sql
        /\ IF live /\ (k \in confirmed \/ AgeFor(w, k) <= ClaimTimeout)
           THEN /\ Answer(w, IF k \in confirmed THEN "accept" ELSE "in_progress")
                /\ present' = present \ gone /\ confirmed' = confirmed \ gone
                /\ age' = [c \in Event |-> IF c \in gone THEN 0 ELSE age[c]]
           ELSE /\ Go(w, "handle")
                /\ present' = (present \ gone) \cup {k} /\ confirmed' = confirmed \ (gone \cup {k})
                /\ age' = [c \in Event |-> IF c = k THEN lag[w] ELSE IF c \in gone THEN 0 ELSE age[c]]
                /\ UNCHANGED answer
        /\ ForgetRows(gone)
        /\ UNCHANGED <<broker, trouble, sql, job, lag, effects, accepted, overran>>

\* SQLIdempotencyStore.TryClaim, the INSERT: the primary key decides.
SQLInsert(w) ==
    /\ pc[w] = "claim" /\ sql
    /\ IF job[w] \in present
       THEN Go(w, "steal") /\ UNCHANGED rows
       ELSE Go(w, "handle") /\ WriteRow(w, job[w])
    /\ UNCHANGED <<broker, trouble, sql, job, lag, answer, history>>

\* Mutant: a confirmed row is taken over too.
SQLStealAny(w) ==
    LET k == job[w]
    IN  /\ pc[w] = "steal"
        /\ IF k \in present /\ AgeFor(w, k) > ClaimTimeout
           THEN Go(w, "handle") /\ WriteRow(w, k)
           ELSE Go(w, "read") /\ UNCHANGED rows
        /\ UNCHANGED <<broker, trouble, sql, job, lag, answer, history>>

\* Mutant: a claim is taken over before its time.
SQLStealEarly(w) ==
    LET k == job[w]
    IN  /\ pc[w] = "steal"
        /\ IF k \in present \ confirmed
           THEN Go(w, "handle") /\ WriteRow(w, k)
           ELSE Go(w, "read") /\ UNCHANGED rows
        /\ UNCHANGED <<broker, trouble, sql, job, lag, answer, history>>

\* A claim nobody confirmed in time.
Stale(w, k) == k \in present \ confirmed /\ AgeFor(w, k) > ClaimTimeout

\* The UPDATE that takes over such a claim.
SQLSteal(w) ==
    LET k == job[w]
    IN  /\ pc[w] = "steal"
        /\ IF Stale(w, k)
           THEN Go(w, "handle") /\ WriteRow(w, k)
           ELSE Go(w, "read") /\ UNCHANGED rows
        /\ UNCHANGED <<broker, trouble, sql, job, lag, answer, history>>

\* The SELECT that says why the claim was refused; a row gone by now was released.
SQLRead(w) ==
    /\ pc[w] = "read"
    /\ Answer(w, IF job[w] \in confirmed THEN "accept" ELSE "in_progress")
    /\ UNCHANGED <<broker, trouble, sql, rows, job, lag, history>>

\* A statement fails, having had its effect or not: the error is a retry.
ClaimFails(w) ==
    /\ pc[w] \in Claiming /\ sql /\ Trouble
    /\ Answer(w, "retry")
    /\ \/ UNCHANGED rows
       \/ pc[w] = "claim" /\ job[w] \notin present /\ WriteRow(w, job[w])
       \/ pc[w] = "steal" /\ Stale(w, job[w]) /\ WriteRow(w, job[w])
    /\ UNCHANGED <<broker, sql, job, lag, history>>

\* The handler does its work and accepts.
Succeed(w) ==
    /\ pc[w] = "handle" /\ Go(w, "confirm")
    /\ effects' = [effects EXCEPT ![job[w]] = AtMost(@ + 1, 2)]
    /\ UNCHANGED <<broker, trouble, sql, rows, job, lag, answer, accepted, overran, excused, forgotten>>

\* It fails, without having done its work.
Fail(w) ==
    /\ pc[w] = "handle" /\ Trouble /\ Go(w, "release")
    /\ \E a \in {"retry", "reject"} : answer' = [answer EXCEPT ![w] = a]
    /\ UNCHANGED <<broker, sql, rows, job, lag, history>>

\* It panics: the engine rejects the message, and guard has returned nothing.
Panic(w) ==
    /\ pc[w] = "handle" /\ Trouble /\ Answer(w, "reject")
    /\ UNCHANGED <<broker, sql, rows, job, lag, history>>

\* InMemoryIdempotencyStore.Confirm: the entry is written whether or not it is there.
MemConfirm(w) ==
    /\ pc[w] = "confirm" /\ ~sql /\ Answer(w, "accept")
    /\ present' = present \cup {job[w]} /\ confirmed' = confirmed \cup {job[w]}
    /\ age' = [age EXCEPT ![job[w]] = 0]
    /\ UNCHANGED <<broker, trouble, sql, job, lag, history>>

\* SQLIdempotencyStore.Confirm: an UPDATE, which does nothing without a row.
SQLConfirm(w) ==
    LET k == job[w]
    IN  /\ pc[w] = "confirm" /\ sql /\ Answer(w, "accept")
        /\ confirmed' = confirmed \cup ({k} \cap present)
        /\ age' = [age EXCEPT ![k] = 0]
        /\ UNCHANGED <<present, broker, trouble, sql, job, lag, history>>

\* Confirm fails, and guard ignores it.
ConfirmFails(w) ==
    /\ pc[w] = "confirm" /\ sql /\ Trouble /\ Answer(w, "accept")
    /\ excused' = excused \cup {job[w]}
    /\ UNCHANGED <<broker, sql, rows, job, lag, effects, accepted, overran, forgotten>>

DeleteRow(k) ==
    /\ present' = present \ {k} /\ confirmed' = confirmed \ {k}
    /\ age' = [age EXCEPT ![k] = 0]

\* InMemoryIdempotencyStore.Release: whoever's the entry is.
MemRelease(w) ==
    /\ pc[w] = "release" /\ ~sql /\ Go(w, "settle") /\ DeleteRow(job[w])
    /\ UNCHANGED <<broker, trouble, sql, job, lag, answer, history>>

\* SQLIdempotencyStore.Release: a DELETE by key.
SQLRelease(w) ==
    /\ pc[w] = "release" /\ sql /\ Go(w, "settle") /\ DeleteRow(job[w])
    /\ UNCHANGED <<broker, trouble, sql, job, lag, answer, history>>

\* Release fails, and guard ignores it.
ReleaseFails(w) ==
    /\ pc[w] = "release" /\ sql /\ Trouble /\ Go(w, "settle")
    /\ UNCHANGED <<broker, sql, rows, job, lag, answer, history>>

\* SQLIdempotencyStore.Prune: every row of more than some age, confirmed or not.
Prune(olderThan) ==
    LET old == {k \in present : age[k] > olderThan}
    IN  /\ sql /\ old # {}
        /\ present' = present \ old /\ confirmed' = confirmed \ old
        /\ age' = [k \in Event |-> IF k \in old THEN 0 ELSE age[k]]
        /\ ForgetRows(old)
        /\ UNCHANGED <<broker, trouble, sql, worker, effects, accepted, overran>>

\* The engine settles: put back, dead-lettered (a retry also when its attempts
\* are used up) or acknowledged.
Settle(w) ==
    LET e == job[w]
    IN  /\ pc[w] = "settle" /\ Go(w, "idle")
        /\ \/ answer[w] = "accept" /\ accepted' = accepted \cup {e} /\ UNCHANGED broker
           \/ answer[w] \in {"retry", "in_progress"} /\ Push(e) /\ UNCHANGED <<dead, accepted>>
           \/ answer[w] \in {"retry", "reject"} /\ dead' = dead \cup {e} /\ UNCHANGED <<queue, accepted>>
        /\ lag' = [lag EXCEPT ![w] = 0]
        /\ job' = [job EXCEPT ![w] = NoJob] /\ answer' = [answer EXCEPT ![w] = "accept"]
        /\ UNCHANGED <<trouble, sql, rows, effects, overran, excused, forgotten>>

\* Those in the same process as w.
Process(w) == IF sql THEN {w} ELSE Worker

\* w's process dies.  The broker takes back what its workers held; a store in
\* memory is gone with it.
Die(w) ==
    LET gone == {v \in Process(w) : pc[v] # "idle"}
    IN  /\ pc[w] # "idle" /\ Trouble
        /\ pc' = [v \in Worker |-> IF v \in gone THEN "idle" ELSE pc[v]]
        /\ lag' = [v \in Worker |-> IF v \in gone THEN 0 ELSE lag[v]]
        /\ job' = [v \in Worker |-> IF v \in gone THEN NoJob ELSE job[v]]
        /\ answer' = [v \in Worker |-> IF v \in gone THEN "accept" ELSE answer[v]]
        /\ queue' = [e \in Event |-> queue[e] + Cardinality({v \in gone : job[v] = e})]
        /\ excused' = excused \cup {job[v] : v \in {u \in gone : pc[u] = "confirm"}}
                              \cup (IF sql THEN {} ELSE confirmed)
        /\ present' = (IF sql THEN present ELSE {})
        /\ confirmed' = (IF sql THEN confirmed ELSE {})
        /\ age' = (IF sql THEN age ELSE [k \in Event |-> 0])
        /\ UNCHANGED <<dead, sql, effects, accepted, overran, forgotten>>

\* guard, from the claim to the settlement.
Guard(w) ==
    \/ MemTryClaim(w) \/ SQLInsert(w) \/ SQLSteal(w) \/ SQLRead(w) \/ ClaimFails(w)
    \/ Succeed(w) \/ Fail(w) \/ Panic(w)
    \/ MemConfirm(w) \/ SQLConfirm(w) \/ ConfirmFails(w)
    \/ MemRelease(w) \/ SQLRelease(w) \/ ReleaseFails(w)
    \/ Settle(w)

IdemNext ==
    \/ \E w \in Worker : Guard(w) \/ Die(w) \/ \E e \in Event : Take(w, e)
    \/ \E olderThan \in 0..AgeCap : Prune(olderThan)
    \/ Tick /\ UNCHANGED <<broker, trouble, sql>>

IdemTypeOK ==
    /\ present \in SUBSET Event /\ confirmed \in SUBSET present
    /\ age \in [Event -> Nat]
    /\ pc \in [Worker -> {"idle", "settle"} \cup Claiming \cup Holding]
    /\ job \in [Worker -> Event] /\ lag \in [Worker -> Nat]
    /\ answer \in [Worker -> Acks]
    /\ effects \in [Event -> 0..2] /\ accepted \in SUBSET Event
    /\ overran \in SUBSET Event /\ excused \in SUBSET Event /\ forgotten \in SUBSET Event

\* A copy is accepted only when the work of its event has been done: a
\* duplicate is one of a confirmed completion, never of a claim (idempotency.go,
\* guard and TryClaim).
AcceptedMeansDone == \A e \in accepted : effects[e] > 0

\* Two handlers run for one event only if one of its claims was held for longer
\* than claimTimeout, whoever released or confirmed what in between, or was
\* dropped before that by a retention shorter than claimTimeout, which the sweep
\* in TryClaim and Prune apply to claims as they do to completions.
OneHandler ==
    \A v, w \in Worker : v # w /\ pc[v] = "handle" /\ pc[w] = "handle" /\ job[v] = job[w]
                         => job[v] \in overran \cup forgotten

\* The work is done twice only in those cases, or when its completion could not
\* be recorded or was forgotten after the retention time.
DoneOnce == \A e \in Event : effects[e] <= 1 \/ e \in overran \cup excused \cup forgotten
=============================================================================
