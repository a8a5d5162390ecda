---------------------------- MODULE EventProofs ----------------------------
(***************************************************************************)
(* Proofs about an event from the outbox to its handler, for any number of  *)
(* events, relays, workers and failures and for any limits and times.       *)
(* Handlers wrapped by Idempotent: what is accepted has been done, two of   *)
(* them do not run for one event at once, and it is not done twice, unless  *)
(* a claim was overrun or its completion was not kept.  The outbox: what a  *)
(* sweep publishes goes out in the order it was written.  Both together: no *)
(* step of theirs breaks the promise of EventContract.                      *)
(***************************************************************************)
EXTENDS EventPipeline, FiniteSetTheorems, SequenceTheorems, WellFoundedInduction, TLAPS

\* Most leaves are matters of logic and sets: Zenon is tried first, then SMT.
USE ZenonT(10), SMTT(20)

\* Who has claimed a key that was neither overrun nor forgotten has the row:
\* unconfirmed, as old as its claim, and not so old that another could take it
\* over.  Nobody else has claimed that key.
Lease ==
    /\ \A w \in Worker : pc[w] \in Claiming \cup Holding /\ job[w] \notin overran =>
        lag[w] <= ClaimTimeout
    /\ \A w \in Worker : pc[w] \in Holding /\ job[w] \notin overran \cup forgotten =>
        job[w] \in present \ confirmed /\ age[job[w]] = lag[w]
    /\ \A v, w \in Worker : v # w /\ pc[v] \in Holding /\ pc[w] \in Holding /\ job[v] = job[w]
                            => job[v] \in overran \cup forgotten

\* Whatever says that an event was handled came after its work was done.
Witnessed ==
    /\ \A k \in confirmed : effects[k] > 0
    /\ \A w \in Worker : pc[w] = "confirm" => effects[job[w]] > 0
    /\ \A w \in Worker : pc[w] = "release" => answer[w] # "accept"
    /\ \A w \in Worker : pc[w] = "settle" /\ answer[w] = "accept" => effects[job[w]] > 0
    /\ AcceptedMeansDone

\* Work that was done is confirmed or about to be, and was done once.
Recorded ==
    \A e \in Event \ (overran \cup excused \cup forgotten) :
        /\ effects[e] <= 1
        /\ effects[e] > 0 => e \in confirmed \/ \E w \in Worker : pc[w] = "confirm" /\ job[w] = e

IInv == IdemTypeOK /\ Lease /\ Witnessed /\ Recorded

-----------------------------------------------------------------------------
(* The steps of a worker *)

\* No work is work like any other, as far as types go.
LEMMA NoJobIsEvent == NoJob \in Event
BY EventAssumption DEF NoJob

\* Taking a claim in memory: nobody else's live row is taken.
LEMMA MemTryClaimKeeps == ASSUME IInv, NEW w \in Worker, MemTryClaim(w) PROVE IInv'
<1>1. IdemTypeOK'
  BY IdempotencyAssumption, NoJobIsEvent, SMT
  DEF IInv, IdemTypeOK, Claiming, Holding, Acks, MemTryClaim, Answer, Go, Expired, AgeFor, ForgetRows,
      rows, history, worker
<1>2. Lease'
  BY IdempotencyAssumption, SMT
  DEF IInv, Lease, IdemTypeOK, Claiming, Holding, MemTryClaim, Answer, Go, Expired, AgeFor, ForgetRows,
      rows, history, worker
<1>3. Witnessed'
  BY IdempotencyAssumption
  DEF IInv, Witnessed, AcceptedMeansDone, IdemTypeOK, Claiming, Holding, MemTryClaim,
      Answer, Go, Expired, AgeFor, ForgetRows, rows, history, worker
<1>4. Recorded'
  BY IdempotencyAssumption, SMT
  DEF IInv, Recorded, Lease, Witnessed, IdemTypeOK, Claiming, Holding, MemTryClaim, Answer,
      Go, Expired, AgeFor, ForgetRows, rows, history, worker
<1>. QED  BY <1>1, <1>2, <1>3, <1>4 DEF IInv

\* The insert.
LEMMA SQLInsertKeeps == ASSUME IInv, NEW w \in Worker, SQLInsert(w) PROVE IInv'
<1>1. IdemTypeOK'
  BY IdempotencyAssumption, NoJobIsEvent, SMT
  DEF IInv, IdemTypeOK, Claiming, Holding, Acks, SQLInsert, Go, WriteRow, rows, history,
      worker
<1>2. Lease'
  BY IdempotencyAssumption, SMT
  DEF IInv, Lease, IdemTypeOK, Claiming, Holding, SQLInsert, Go, WriteRow, rows, history,
      worker
<1>3. Witnessed'
  BY IdempotencyAssumption
  DEF IInv, Witnessed, AcceptedMeansDone, IdemTypeOK, Claiming, Holding, SQLInsert, Go,
      WriteRow, rows, history, worker
<1>4. Recorded'
  BY IdempotencyAssumption, SMT
  DEF IInv, Recorded, Lease, Witnessed, IdemTypeOK, Claiming, Holding, SQLInsert, Go,
      WriteRow, rows, history, worker
<1>. QED  BY <1>1, <1>2, <1>3, <1>4 DEF IInv

\* Taking over a claim.
LEMMA SQLStealKeeps == ASSUME IInv, NEW w \in Worker, SQLSteal(w) PROVE IInv'
<1>1. IdemTypeOK'
  BY IdempotencyAssumption, NoJobIsEvent
  DEF IInv, IdemTypeOK, Claiming, Holding, Acks, SQLSteal, Go, WriteRow, AgeFor, Stale, rows,
      history, worker
<1>2. Lease'
  BY IdempotencyAssumption, SMT
  DEF IInv, Lease, IdemTypeOK, Claiming, Holding, SQLSteal, Go, WriteRow, AgeFor, Stale, rows,
      history, worker
<1>3. Witnessed'
  BY IdempotencyAssumption
  DEF IInv, Witnessed, AcceptedMeansDone, IdemTypeOK, Claiming, Holding, SQLSteal, Go,
      WriteRow, AgeFor, Stale, rows, history, worker
<1>4. Recorded'
  BY IdempotencyAssumption, SMT
  DEF IInv, Recorded, Lease, Witnessed, IdemTypeOK, Claiming, Holding, SQLSteal, Go,
      WriteRow, AgeFor, Stale, rows, history, worker
<1>. QED  BY <1>1, <1>2, <1>3, <1>4 DEF IInv

\* Reading why a claim was refused.
LEMMA SQLReadKeeps == ASSUME IInv, NEW w \in Worker, SQLRead(w) PROVE IInv'
<1>1. IdemTypeOK'
  BY IdempotencyAssumption, NoJobIsEvent
  DEF IInv, IdemTypeOK, Claiming, Holding, Acks, SQLRead, Answer, Go, rows, history, worker
<1>2. Lease'
  BY IdempotencyAssumption
  DEF IInv, Lease, IdemTypeOK, Claiming, Holding, SQLRead, Answer, Go, rows, history, worker
<1>3. Witnessed'
  BY IdempotencyAssumption
  DEF IInv, Witnessed, AcceptedMeansDone, IdemTypeOK, Claiming, Holding, SQLRead, Answer,
      Go, rows, history, worker
<1>4. Recorded'
  BY IdempotencyAssumption
  DEF IInv, Recorded, Lease, Witnessed, IdemTypeOK, Claiming, Holding, SQLRead, Answer, Go,
      rows, history, worker
<1>. QED  BY <1>1, <1>2, <1>3, <1>4 DEF IInv

\* A statement that fails.
LEMMA ClaimFailsKeeps == ASSUME IInv, NEW w \in Worker, ClaimFails(w) PROVE IInv'
<1>1. IdemTypeOK'
  BY IdempotencyAssumption, NoJobIsEvent, SMT
  DEF IInv, IdemTypeOK, Claiming, Holding, Acks, ClaimFails, Answer, Go, WriteRow, Stale, AgeFor, Trouble,
      rows, history, worker
<1>2. Lease'
  BY IdempotencyAssumption, SMT
  DEF IInv, Lease, IdemTypeOK, Claiming, Holding, ClaimFails, Answer, Go, WriteRow, Stale, AgeFor,
      Trouble, rows, history, worker
<1>3. Witnessed'
  BY IdempotencyAssumption
  DEF IInv, Witnessed, AcceptedMeansDone, IdemTypeOK, Claiming, Holding, ClaimFails,
      Answer, Go, WriteRow, Stale, AgeFor, Trouble, rows, history, worker
<1>4. Recorded'
  BY IdempotencyAssumption, SMT
  DEF IInv, Recorded, Lease, Witnessed, IdemTypeOK, Claiming, Holding, ClaimFails, Answer,
      Go, WriteRow, Stale, AgeFor, Trouble, rows, history, worker
<1>. QED  BY <1>1, <1>2, <1>3, <1>4 DEF IInv

\* The work done.
LEMMA SucceedKeeps == ASSUME IInv, NEW w \in Worker, Succeed(w) PROVE IInv'
<1>1. IdemTypeOK'
  BY IdempotencyAssumption, NoJobIsEvent, SMT
  DEF IInv, IdemTypeOK, Claiming, Holding, Acks, Succeed, Go, AtMost, rows, history, worker
<1>2. Lease'
  BY IdempotencyAssumption
  DEF IInv, Lease, IdemTypeOK, Claiming, Holding, Succeed, Go, AtMost, rows, history, worker
<1>3. Witnessed'
  BY IdempotencyAssumption, SMT
  DEF IInv, Witnessed, AcceptedMeansDone, IdemTypeOK, Claiming, Holding, Succeed, Go,
      AtMost, rows, history, worker
<1>4. Recorded'
  BY IdempotencyAssumption, SMT
  DEF IInv, Recorded, Lease, Witnessed, IdemTypeOK, Claiming, Holding, Succeed, Go, AtMost,
      rows, history, worker
<1>. QED  BY <1>1, <1>2, <1>3, <1>4 DEF IInv

\* The work not done.
LEMMA FailKeeps == ASSUME IInv, NEW w \in Worker, Fail(w) PROVE IInv'
<1>1. IdemTypeOK'
  BY IdempotencyAssumption, NoJobIsEvent
  DEF IInv, IdemTypeOK, Claiming, Holding, Acks, Fail, Go, Trouble, rows, history, worker
<1>2. Lease'
  BY IdempotencyAssumption
  DEF IInv, Lease, IdemTypeOK, Claiming, Holding, Fail, Go, Trouble, rows, history, worker
<1>3. Witnessed'
  BY IdempotencyAssumption
  DEF IInv, Witnessed, AcceptedMeansDone, IdemTypeOK, Claiming, Holding, Fail, Go, Trouble,
      rows, history, worker
<1>4. Recorded'
  BY IdempotencyAssumption
  DEF IInv, Recorded, Lease, Witnessed, IdemTypeOK, Claiming, Holding, Fail, Go, Trouble,
      rows, history, worker
<1>. QED  BY <1>1, <1>2, <1>3, <1>4 DEF IInv

\* A panic.
LEMMA PanicKeeps == ASSUME IInv, NEW w \in Worker, Panic(w) PROVE IInv'
<1>1. IdemTypeOK'
  BY IdempotencyAssumption, NoJobIsEvent
  DEF IInv, IdemTypeOK, Claiming, Holding, Acks, Panic, Answer, Go, Trouble, rows, history,
      worker
<1>2. Lease'
  BY IdempotencyAssumption
  DEF IInv, Lease, IdemTypeOK, Claiming, Holding, Panic, Answer, Go, Trouble, rows,
      history, worker
<1>3. Witnessed'
  BY IdempotencyAssumption
  DEF IInv, Witnessed, AcceptedMeansDone, IdemTypeOK, Claiming, Holding, Panic, Answer, Go,
      Trouble, rows, history, worker
<1>4. Recorded'
  BY IdempotencyAssumption
  DEF IInv, Recorded, Lease, Witnessed, IdemTypeOK, Claiming, Holding, Panic, Answer, Go,
      Trouble, rows, history, worker
<1>. QED  BY <1>1, <1>2, <1>3, <1>4 DEF IInv

\* Confirming in memory.
LEMMA MemConfirmKeeps == ASSUME IInv, NEW w \in Worker, MemConfirm(w) PROVE IInv'
<1>1. IdemTypeOK'
  BY IdempotencyAssumption, NoJobIsEvent
  DEF IInv, IdemTypeOK, Claiming, Holding, Acks, MemConfirm, Answer, Go, rows, history,
      worker
<1>2. Lease'
  BY IdempotencyAssumption
  DEF IInv, Lease, IdemTypeOK, Claiming, Holding, MemConfirm, Answer, Go, rows, history,
      worker
<1>3. Witnessed'
  BY IdempotencyAssumption
  DEF IInv, Witnessed, AcceptedMeansDone, IdemTypeOK, Claiming, Holding, MemConfirm,
      Answer, Go, rows, history, worker
<1>4. Recorded'
  BY IdempotencyAssumption
  DEF IInv, Recorded, Lease, Witnessed, IdemTypeOK, Claiming, Holding, MemConfirm, Answer,
      Go, rows, history, worker
<1>. QED  BY <1>1, <1>2, <1>3, <1>4 DEF IInv

\* Confirming the row.
LEMMA SQLConfirmKeeps == ASSUME IInv, NEW w \in Worker, SQLConfirm(w) PROVE IInv'
<1>1. IdemTypeOK'
  BY IdempotencyAssumption, NoJobIsEvent
  DEF IInv, IdemTypeOK, Claiming, Holding, Acks, SQLConfirm, Answer, Go, rows, history,
      worker
<1>2. Lease'
  BY IdempotencyAssumption
  DEF IInv, Lease, IdemTypeOK, Claiming, Holding, SQLConfirm, Answer, Go, rows, history,
      worker
<1>3. Witnessed'
  BY IdempotencyAssumption
  DEF IInv, Witnessed, AcceptedMeansDone, IdemTypeOK, Claiming, Holding, SQLConfirm,
      Answer, Go, rows, history, worker
<1>4. Recorded'
  BY IdempotencyAssumption, SMT
  DEF IInv, Recorded, Lease, Witnessed, IdemTypeOK, Claiming, Holding, SQLConfirm, Answer,
      Go, rows, history, worker
<1>. QED  BY <1>1, <1>2, <1>3, <1>4 DEF IInv

\* A confirmation that fails.
LEMMA ConfirmFailsKeeps == ASSUME IInv, NEW w \in Worker, ConfirmFails(w) PROVE IInv'
<1>1. IdemTypeOK'
  BY IdempotencyAssumption, NoJobIsEvent
  DEF IInv, IdemTypeOK, Claiming, Holding, Acks, ConfirmFails, Answer, Go, Trouble, rows,
      history, worker
<1>2. Lease'
  BY IdempotencyAssumption
  DEF IInv, Lease, IdemTypeOK, Claiming, Holding, ConfirmFails, Answer, Go, Trouble, rows,
      history, worker
<1>3. Witnessed'
  BY IdempotencyAssumption
  DEF IInv, Witnessed, AcceptedMeansDone, IdemTypeOK, Claiming, Holding, ConfirmFails,
      Answer, Go, Trouble, rows, history, worker
<1>4. Recorded'
  BY IdempotencyAssumption
  DEF IInv, Recorded, Lease, Witnessed, IdemTypeOK, Claiming, Holding, ConfirmFails,
      Answer, Go, Trouble, rows, history, worker
<1>. QED  BY <1>1, <1>2, <1>3, <1>4 DEF IInv

\* Releasing in memory.
LEMMA MemReleaseKeeps == ASSUME IInv, NEW w \in Worker, MemRelease(w) PROVE IInv'
<1>1. IdemTypeOK'
  BY IdempotencyAssumption, NoJobIsEvent
  DEF IInv, IdemTypeOK, Claiming, Holding, Acks, MemRelease, Go, DeleteRow, rows, history,
      worker
<1>2. Lease'
  BY IdempotencyAssumption
  DEF IInv, Lease, IdemTypeOK, Claiming, Holding, MemRelease, Go, DeleteRow, rows, history,
      worker
<1>3. Witnessed'
  BY IdempotencyAssumption
  DEF IInv, Witnessed, AcceptedMeansDone, IdemTypeOK, Claiming, Holding, MemRelease, Go,
      DeleteRow, rows, history, worker
<1>4. Recorded'
  BY IdempotencyAssumption, SMT
  DEF IInv, Recorded, Lease, Witnessed, IdemTypeOK, Claiming, Holding, MemRelease, Go,
      DeleteRow, rows, history, worker
<1>. QED  BY <1>1, <1>2, <1>3, <1>4 DEF IInv

\* Deleting the row.
LEMMA SQLReleaseKeeps == ASSUME IInv, NEW w \in Worker, SQLRelease(w) PROVE IInv'
<1>1. IdemTypeOK'
  BY IdempotencyAssumption, NoJobIsEvent
  DEF IInv, IdemTypeOK, Claiming, Holding, Acks, SQLRelease, Go, DeleteRow, rows, history,
      worker
<1>2. Lease'
  BY IdempotencyAssumption
  DEF IInv, Lease, IdemTypeOK, Claiming, Holding, SQLRelease, Go, DeleteRow, rows, history,
      worker
<1>3. Witnessed'
  BY IdempotencyAssumption
  DEF IInv, Witnessed, AcceptedMeansDone, IdemTypeOK, Claiming, Holding, SQLRelease, Go,
      DeleteRow, rows, history, worker
<1>4. Recorded'
  BY IdempotencyAssumption, SMT
  DEF IInv, Recorded, Lease, Witnessed, IdemTypeOK, Claiming, Holding, SQLRelease, Go,
      DeleteRow, rows, history, worker
<1>. QED  BY <1>1, <1>2, <1>3, <1>4 DEF IInv

\* A release that fails.
LEMMA ReleaseFailsKeeps == ASSUME IInv, NEW w \in Worker, ReleaseFails(w) PROVE IInv'
<1>1. IdemTypeOK'
  BY IdempotencyAssumption, NoJobIsEvent
  DEF IInv, IdemTypeOK, Claiming, Holding, Acks, ReleaseFails, Go, Trouble, rows, history,
      worker
<1>2. Lease'
  BY IdempotencyAssumption
  DEF IInv, Lease, IdemTypeOK, Claiming, Holding, ReleaseFails, Go, Trouble, rows, history,
      worker
<1>3. Witnessed'
  BY IdempotencyAssumption
  DEF IInv, Witnessed, AcceptedMeansDone, IdemTypeOK, Claiming, Holding, ReleaseFails, Go,
      Trouble, rows, history, worker
<1>4. Recorded'
  BY IdempotencyAssumption
  DEF IInv, Recorded, Lease, Witnessed, IdemTypeOK, Claiming, Holding, ReleaseFails, Go,
      Trouble, rows, history, worker
<1>. QED  BY <1>1, <1>2, <1>3, <1>4 DEF IInv

\* Settling.
LEMMA SettleKeeps == ASSUME IInv, NEW w \in Worker, Settle(w) PROVE IInv'
<1>1. IdemTypeOK'
  BY IdempotencyAssumption, NoJobIsEvent
  DEF IInv, IdemTypeOK, Claiming, Holding, Acks, Settle, Go, rows, history, worker
<1>2. Lease'
  BY IdempotencyAssumption
  DEF IInv, Lease, IdemTypeOK, Claiming, Holding, Settle, Go, rows, history, worker
<1>3. Witnessed'
  BY IdempotencyAssumption
  DEF IInv, Witnessed, AcceptedMeansDone, IdemTypeOK, Claiming, Holding, Settle, Go, rows,
      history, worker
<1>4. Recorded'
  BY IdempotencyAssumption
  DEF IInv, Recorded, Lease, Witnessed, IdemTypeOK, Claiming, Holding, Settle, Go, rows,
      history, worker
<1>. QED  BY <1>1, <1>2, <1>3, <1>4 DEF IInv

\* A process dying.
LEMMA DieKeeps == ASSUME IInv, NEW w \in Worker, Die(w) PROVE IInv'
<1>1. IdemTypeOK'
  BY IdempotencyAssumption, NoJobIsEvent, SMT
  DEF IInv, IdemTypeOK, Claiming, Holding, Acks, Die, Process, Trouble, rows, history,
      worker
<1>2. Lease'
  BY IdempotencyAssumption
  DEF IInv, Lease, IdemTypeOK, Claiming, Holding, Die, Process, Trouble, rows, history,
      worker
<1>3. Witnessed'
  BY IdempotencyAssumption
  DEF IInv, Witnessed, AcceptedMeansDone, IdemTypeOK, Claiming, Holding, Die, Process,
      Trouble, rows, history, worker
<1>4. Recorded'
  BY IdempotencyAssumption, SMT
  DEF IInv, Recorded, Lease, Witnessed, IdemTypeOK, Claiming, Holding, Die, Process,
      Trouble, rows, history, worker
<1>. QED  BY <1>1, <1>2, <1>3, <1>4 DEF IInv

\* A delivery.
LEMMA TakeKeeps == ASSUME IInv, NEW w \in Worker, NEW e \in Event, Take(w, e) PROVE IInv'
<1>1. IdemTypeOK'
  BY IdempotencyAssumption
  DEF IInv, IdemTypeOK, Claiming, Holding, Acks, Take, Go, rows, history, worker
<1>2. Lease'
  BY IdempotencyAssumption, SMT
  DEF IInv, Lease, IdemTypeOK, Claiming, Holding, Take, Go, rows, history, worker
<1>3. Witnessed'
  BY IdempotencyAssumption
  DEF IInv, Witnessed, AcceptedMeansDone, IdemTypeOK, Claiming, Holding, Take, Go, rows,
      history, worker
<1>4. Recorded'
  BY IdempotencyAssumption
  DEF IInv, Recorded, Lease, Witnessed, IdemTypeOK, Claiming, Holding, Take, Go, rows,
      history, worker
<1>. QED  BY <1>1, <1>2, <1>3, <1>4 DEF IInv

\* Pruning: a row that is held is forgotten.
LEMMA PruneKeeps == ASSUME IInv, NEW olderThan \in Nat, Prune(olderThan) PROVE IInv'
<1>1. IdemTypeOK'
  BY IdempotencyAssumption
  DEF IInv, IdemTypeOK, Claiming, Holding, Acks, Prune, ForgetRows, rows, history, worker
<1>2. Lease'
  BY IdempotencyAssumption, SMT
  DEF IInv, Lease, IdemTypeOK, Claiming, Holding, Prune, ForgetRows, rows, history, worker
<1>3. Witnessed'
  BY IdempotencyAssumption
  DEF IInv, Witnessed, AcceptedMeansDone, IdemTypeOK, Claiming, Holding, Prune, ForgetRows, rows,
      history, worker
<1>4. Recorded'
  BY IdempotencyAssumption
  DEF IInv, Recorded, Lease, Witnessed, IdemTypeOK, Claiming, Holding, Prune, ForgetRows, rows,
      history, worker
<1>. QED  BY <1>1, <1>2, <1>3, <1>4 DEF IInv

\* A tick: a claim held for its whole time is overrun.
LEMMA TickKeeps == ASSUME IInv, Tick PROVE IInv'
<1>1. IdemTypeOK'
  BY IdempotencyAssumption, SMT
  DEF IInv, IdemTypeOK, Claiming, Holding, Acks, Tick, HeldFor, AtMost, LagCap, AgeCap, Longer,
      rows, history, worker
<1>2. Lease'
  BY IdempotencyAssumption, SMT
  DEF IInv, Lease, IdemTypeOK, Claiming, Holding, Tick, HeldFor, AtMost, LagCap, AgeCap, Longer,
      rows, history, worker
<1>3. Witnessed'
  BY IdempotencyAssumption
  DEF IInv, Witnessed, AcceptedMeansDone, IdemTypeOK, Claiming, Holding, Tick, HeldFor,
      AtMost, LagCap, AgeCap, Longer, rows, history, worker
<1>4. Recorded'
  BY IdempotencyAssumption
  DEF IInv, Recorded, Lease, Witnessed, IdemTypeOK, Claiming, Holding, Tick, HeldFor,
      AtMost, LagCap, AgeCap, Longer, rows, history, worker
<1>. QED  BY <1>1, <1>2, <1>3, <1>4 DEF IInv

-----------------------------------------------------------------------------
(* The invariant *)

\* Nothing is claimed, done or recorded at first.
LEMMA InitEstablishes == ASSUME Init PROVE IInv
BY NoJobIsEvent DEF Init, IdemInit, IInv, IdemTypeOK, Lease, Witnessed, AcceptedMeansDone,
                    Recorded, Claiming, Holding, Acks

\* Every step keeps the invariant.
LEMMA NextKeeps == ASSUME IInv, [Next]_vars PROVE IInv'
<1>1. CASE UNCHANGED idemVars
  BY <1>1 DEF idemVars, rows, worker, history, IInv, IdemTypeOK, Lease, Witnessed,
              AcceptedMeansDone, Recorded
<1>2. ASSUME NEW w \in Worker, Guard(w) PROVE IInv'
  BY <1>2, MemTryClaimKeeps, SQLInsertKeeps, SQLStealKeeps, SQLReadKeeps, ClaimFailsKeeps,
     SucceedKeeps, FailKeeps, PanicKeeps, MemConfirmKeeps, SQLConfirmKeeps, ConfirmFailsKeeps,
     MemReleaseKeeps, SQLReleaseKeeps, ReleaseFailsKeeps, SettleKeeps
  DEF Guard
<1>3. CASE IdemNext
  <2>1. \A d \in 0..AgeCap : d \in Nat
    BY IdempotencyAssumption, SMT DEF AgeCap, Longer
  <2>. QED  BY <1>2, <1>3, <2>1, DieKeeps, TakeKeeps, PruneKeeps, TickKeeps DEF IdemNext
<1>. QED  BY <1>1, <1>3 DEF Next, vars

\* The invariant holds of the whole pipeline, whatever the outbox publishes.
THEOREM LeaseInvariant == Spec => []IInv
<1>1. Init => IInv
  BY InitEstablishes
<1>2. IInv /\ [Next]_vars => IInv'
  BY NextKeeps
<1>. QED  BY <1>1, <1>2, PTL DEF Spec

-----------------------------------------------------------------------------
(* What follows *)

\* Idempotent accepts a duplicate only of work that has been done: nothing is
\* acknowledged on the strength of a claim (guard, TryClaim).
THEOREM AcceptedIsDone == Spec => []AcceptedMeansDone
<1>1. IInv => AcceptedMeansDone
  BY DEF IInv, Witnessed
<1>. QED  BY <1>1, LeaseInvariant, PTL

\* For any claim timeout and any retention, two handlers are in one event at once
\* only if a claim on it was held past claimTimeout or its row was dropped before
\* that for its age, although Confirm and Release name no owner (TryClaim,
\* Release, Prune).
THEOREM HandledByOne == Spec => []OneHandler
<1>1. IInv => OneHandler
  BY DEF IInv, Lease, OneHandler, Holding
<1>. QED  BY <1>1, LeaseInvariant, PTL

\* The work is done once, unless a claim was overrun, or the store could not keep
\* the completion, or did not keep it or a live claim long enough (guard,
\* Confirm, TryClaim's sweep, Prune).
THEOREM WorkDoneOnce == Spec => []DoneOnce
<1>1. IInv => DoneOnce
  BY DEF IInv, Recorded, DoneOnce
<1>. QED  BY <1>1, LeaseInvariant, PTL
-----------------------------------------------------------------------------
(* The outbox *)

OutboxTypeOK ==
    /\ tx \in [Event -> {"none", "open", "added", "committed", "undone"}]
    /\ born \in Seq(Event) /\ attempts \in [Event -> Nat \cup {Absent}]
    /\ step \in [Relay -> {"new", "loop", "publish", "fail", "mark", "done"}]
    /\ sweep \in [Relay -> SUBSET Event] /\ behind \in [Relay -> SUBSET Event]
    /\ routed \in SUBSET Event /\ lost \in SUBSET Event
    /\ dead \in SUBSET Event /\ DOMAIN queue = Event

\* A record is written once.
WrittenOnce ==
    /\ \A e \in Event : tx[e] = "none" => \A i \in DOMAIN born : born[i] # e
    /\ \A e \in Event : tx[e] # "none" => \E i \in DOMAIN born : born[i] = e
    /\ \A i, j \in DOMAIN born : born[i] = born[j] => i = j

\* Nothing is in the store, in a sweep, on the queue or in a worker's hands
\* before its transaction has committed.
OnlyCommitted ==
    /\ \A e \in Event : attempts[e] # Absent => tx[e] = "committed"
    /\ \A r \in Relay : \A e \in sweep[r] : tx[e] = "committed"
    /\ \A e \in Event : tx[e] # "committed" => queue[e] = 0
    /\ \A w \in Worker : pc[w] # "idle" => tx[job[w]] = "committed"

\* x is the oldest of some records.
First(x, records) == \A f \in records \ {x} : Older(x, f)

\* What was pending and is older than a record of the sweep has been routed or
\* is in the sweep too, and the one a sweep has to mark has been routed.
SweepInOrder ==
    \A r \in Relay : step[r] \in {"publish", "fail", "mark"} =>
        /\ sweep[r] # {}
        /\ \A x \in sweep[r] : step[r] = "mark" /\ First(x, sweep[r]) => x \in routed
        /\ \A x \in sweep[r] : \A e \in behind[r] : Older(e, x) => e \in routed \cup sweep[r]

OInv == OutboxTypeOK /\ WrittenOnce /\ OnlyCommitted /\ SweepInOrder

\* A set of natural numbers that is not empty has a least element.
LEMMA SmallestNat ==
    ASSUME NEW S \in SUBSET Nat, S # {}
    PROVE  \E x \in S : \A y \in S : x <= y
<1> DEFINE R == {ss \in Nat \X Nat : ss[1] < ss[2]}
<1>1. IsWellFoundedOn(R, Nat)
  BY NatLessThanWellFounded DEF OpToRel
<1>2. PICK x \in S : \A y \in S : ~(<<y, x>> \in R)
  <2> HIDE DEF R
  <2>. QED  BY <1>1, WFMin, Zenon
<1>3. \A y \in S : x <= y
  <2> SUFFICES ASSUME NEW y \in S PROVE x <= y
    OBVIOUS
  <2>1. x \in Nat /\ y \in Nat /\ <<y, x>> \in Nat \X Nat
    OBVIOUS
  <2>2. ~(<<y, x>>[1] < <<y, x>>[2])
    BY <2>1, <1>2
  <2>. QED  BY <2>1, <2>2, SMT
<1>. QED  BY <1>3

\* Of two records one was written first (Record).
LEMMA OlderOneWay ==
    ASSUME born \in Seq(Event), WrittenOnce, NEW e, NEW f, Older(e, f), Older(f, e)
    PROVE  FALSE
<1>1. PICK i, j \in DOMAIN born : i < j /\ born[i] = e /\ born[j] = f
  BY DEF Older
<1>2. PICK k, l \in DOMAIN born : k < l /\ born[k] = f /\ born[l] = e
  BY DEF Older
<1>3. i = l /\ j = k
  BY <1>1, <1>2 DEF WrittenOnce
<1>. QED  BY <1>1, <1>2, <1>3, SMT

\* The order in which records were written is an order (Record).
LEMMA OlderTransitive ==
    ASSUME born \in Seq(Event), WrittenOnce, NEW e, NEW f, NEW g, Older(e, f), Older(f, g)
    PROVE  Older(e, g)
<1>1. PICK i, j \in DOMAIN born : i < j /\ born[i] = e /\ born[j] = f
  BY DEF Older
<1>2. PICK k, l \in DOMAIN born : k < l /\ born[k] = f /\ born[l] = g
  BY DEF Older
<1>3. j = k
  BY <1>1, <1>2 DEF WrittenOnce
<1>4. i < l
  BY <1>1, <1>2, <1>3, SMT
<1>. QED  BY <1>1, <1>2, <1>4 DEF Older

\* Another record changes nothing between those there are (Record).
LEMMA OlderStays ==
    ASSUME born \in Seq(Event), NEW e \in Event, born' = Append(born, e), NEW a, NEW x, x # e
    PROVE  Older(a, x)' <=> Older(a, x)
<1>1. /\ DOMAIN born = 1..Len(born) /\ DOMAIN born' = 1..Len(born) + 1 /\ Len(born) \in Nat
      /\ born'[Len(born) + 1] = e /\ \A i \in 1..Len(born) : born'[i] = born[i]
  BY SMT
<1>2. ASSUME NEW i \in DOMAIN born', NEW j \in DOMAIN born', i < j, born'[i] = a, born'[j] = x
      PROVE  i \in DOMAIN born /\ j \in DOMAIN born /\ born[i] = a /\ born[j] = x
  <2>1. j # Len(born) + 1
    BY <1>1, <1>2
  <2>2. i \in 1..Len(born) /\ j \in 1..Len(born)
    BY <2>1, <1>1, <1>2, SMT
  <2>. QED  BY <2>2, <1>1, <1>2
<1>3. \A i \in DOMAIN born : i \in DOMAIN born' /\ born'[i] = born[i]
  BY <1>1, SMT
<1>. QED  BY <1>2, <1>3 DEF Older

\* A sweep that has records left has an oldest one (Sweep).
LEMMA OldestIsFirst ==
    ASSUME OInv, NEW S \in SUBSET Event, S # {}, \A e \in S : tx[e] = "committed"
    PROVE  Oldest(S) \in S /\ First(Oldest(S), S)
<1> DEFINE I == {i \in DOMAIN born : born[i] \in S}
<1>1. born \in Seq(Event) /\ WrittenOnce
  BY DEF OInv, OutboxTypeOK
<1>2. I # {}
  <2>1. PICK e \in S : e \in Event /\ tx[e] # "none"
    OBVIOUS
  <2>2. \E i \in DOMAIN born : born[i] = e
    BY <2>1, <1>1 DEF WrittenOnce
  <2>. QED  BY <2>1, <2>2
<1>3. I \in SUBSET Nat
  BY <1>1, SMT
<1>4. PICK i \in I : \A j \in I : i <= j
  BY <1>2, <1>3, SmallestNat, Zenon
<1>5. ASSUME NEW f \in S \ {born[i]} PROVE Older(born[i], f)
  <2>1. PICK j \in DOMAIN born : born[j] = f
    BY <1>1 DEF WrittenOnce
  <2>2. i <= j /\ i # j
    BY <2>1, <1>4
  <2>3. i < j
    BY <2>1, <2>2, <1>3, <1>4, SMT
  <2>. QED  BY <2>1, <2>3, <1>4 DEF Older
<1>6. \E e \in S : \A f \in S \ {e} : Older(e, f)
  BY <1>4, <1>5
<1>. QED  BY <1>6 DEF Oldest, First

\* There is only one (Sweep).
LEMMA FirstIsOldest ==
    ASSUME OInv, NEW S \in SUBSET Event, \A e \in S : tx[e] = "committed",
           NEW x \in S, First(x, S)
    PROVE  x = Oldest(S)
<1>1. Oldest(S) \in S /\ First(Oldest(S), S)
  BY OldestIsFirst
<1>2. born \in Seq(Event) /\ WrittenOnce
  BY DEF OInv, OutboxTypeOK
<1> HIDE DEF Oldest
<1>3. x # Oldest(S) => Older(x, Oldest(S)) /\ Older(Oldest(S), x)
  BY <1>1 DEF First
<1>. QED  BY <1>2, <1>3, OlderOneWay

\* What is offered before one record is offered before every younger one, and
\* there are finitely many (InMemoryOutboxStore.Pending, SQLOutboxStore.Pending).
LEMMA FewerBefore ==
    ASSUME OInv, NEW e \in Event, NEW f \in Event, Older(e, f)
    PROVE  /\ Cardinality(Before(e)) <= Cardinality(Before(f))
           /\ Cardinality(Before(e)) \in Nat /\ Cardinality(Before(f)) \in Nat
<1> DEFINE R == {born[i] : i \in DOMAIN born}
<1>1. born \in Seq(Event) /\ WrittenOnce
  BY DEF OInv, OutboxTypeOK
<1>2. IsFiniteSet(R)
  <2>1. DOMAIN born = 1..Len(born)
    BY <1>1, SMT
  <2>2. born \in Seq(R)
    BY <1>1, SMT
  <2>. QED  BY <2>1, <2>2 DEF IsFiniteSet
<1>3. Before(f) \in SUBSET R
  BY DEF Before, Older
<1>4. Before(e) \in SUBSET Before(f)
  BY <1>1, OlderTransitive DEF Before
<1> HIDE DEF R
<1>5. IsFiniteSet(Before(f))
  BY <1>2, <1>3, FS_Subset
<1>6. IsFiniteSet(Before(e)) /\ Cardinality(Before(e)) <= Cardinality(Before(f))
  BY <1>4, <1>5, FS_Subset
<1>. QED  BY <1>5, <1>6, FS_CardinalityType

-----------------------------------------------------------------------------
(* The steps of the outbox *)

\* While records, the store, the sweeps and the broker's takings stay, so does
\* the order of the sweeps.
LEMMA SweepsUndisturbed ==
    ASSUME OInv, UNCHANGED <<born, sweep, behind>>, routed \subseteq routed',
           \A r \in Relay : step'[r] \in {"publish", "fail", "mark"} =>
               step[r] \in {"publish", "fail", "mark"} /\ (step'[r] = "mark" => step[r] = "mark")
    PROVE  SweepInOrder'
<1>1. \A e, f : Older(e, f)' <=> Older(e, f)
  BY DEF Older
<1>. QED  BY <1>1 DEF OInv, SweepInOrder, First

\* Record: the youngest record, in nobody's sweep.
LEMMA RecordKeeps == ASSUME IInv, OInv, NEW e \in Event, Record(e), UNCHANGED idemVars PROVE OInv'
<1>1. /\ tx[e] = "none" /\ tx' = [tx EXCEPT ![e] = "open"] /\ born' = Append(born, e)
      /\ UNCHANGED <<queue, dead, attempts, step, sweep, behind, stopping, routed, lost, pc, job>>
  BY DEF Record, broker, relayVars, idemVars, worker
<1>2. OutboxTypeOK /\ WrittenOnce /\ OnlyCommitted /\ SweepInOrder
  BY DEF OInv
<1>3. born \in Seq(Event) /\ tx \in [Event -> {"none", "open", "added", "committed", "undone"}]
  BY <1>2 DEF OutboxTypeOK
<1>4. \A f \in Event : tx'[f] = IF f = e THEN "open" ELSE tx[f]
  BY <1>1, <1>3
<1>5. OutboxTypeOK'
  <2>1. born' \in Seq(Event) /\ tx' \in [Event -> {"none", "open", "added", "committed", "undone"}]
    BY <1>1, <1>3, SMT
  <2>. QED  BY <2>1, <1>1, <1>2 DEF OutboxTypeOK
<1>6. WrittenOnce'
  <2>1. /\ DOMAIN born' = DOMAIN born \cup {Len(born) + 1} /\ Len(born) + 1 \notin DOMAIN born
        /\ born'[Len(born) + 1] = e /\ \A i \in DOMAIN born : born'[i] = born[i]
    BY <1>1, <1>3, SMT
  <2>2. \A i \in DOMAIN born : born[i] # e
    BY <1>1, <1>2 DEF WrittenOnce
  <2> DEFINE n == Len(born) + 1
  <2> HIDE DEF n
  <2>3. /\ DOMAIN born' = DOMAIN born \cup {n} /\ n \notin DOMAIN born /\ born'[n] = e
    BY <2>1 DEF n
  <2>4. \A f \in Event : tx'[f] = "none" => \A i \in DOMAIN born' : born'[i] # f
    BY <2>1, <2>3, <1>2, <1>4 DEF WrittenOnce
  <2>5. \A f \in Event : tx'[f] # "none" => \E i \in DOMAIN born' : born'[i] = f
    BY <2>1, <2>3, <1>2, <1>4, SMT DEF WrittenOnce
  <2>6. \A i, j \in DOMAIN born' : born'[i] = born'[j] => i = j
    BY <2>1, <2>2, <2>3, <1>2 DEF WrittenOnce
  <2>. QED  BY <2>4, <2>5, <2>6 DEF WrittenOnce
<1>7. \A f \in Event : tx[f] = "committed" => f # e /\ tx'[f] = "committed"
  BY <1>1, <1>4
<1>8. OnlyCommitted'
  <2>1. \A f \in Event : attempts'[f] # Absent => tx'[f] = "committed"
    BY <1>1, <1>2, <1>7 DEF OnlyCommitted
  <2>2. \A r \in Relay : \A f \in sweep'[r] : tx'[f] = "committed"
    BY <1>1, <1>2, <1>7 DEF OnlyCommitted, OutboxTypeOK
  <2>3. \A f \in Event : tx'[f] # "committed" => queue'[f] = 0
    BY <1>1, <1>2, <1>7 DEF OnlyCommitted
  <2>4. \A w \in Worker : pc'[w] # "idle" => tx'[job'[w]] = "committed"
    <3> SUFFICES ASSUME NEW w \in Worker, pc[w] # "idle" PROVE tx'[job[w]] = "committed"
      BY <1>1
    <3>1. tx[job[w]] = "committed"
      BY <1>2 DEF OnlyCommitted
    <3>2. job[w] # e /\ job[w] \in Event
      BY <3>1, <1>1 DEF IInv, IdemTypeOK
    <3>. QED  BY <3>1, <3>2, <1>4
  <2>. QED  BY <2>1, <2>2, <2>3, <2>4 DEF OnlyCommitted
<1>9. SweepInOrder'
  <2> SUFFICES ASSUME NEW r \in Relay, step[r] \in {"publish", "fail", "mark"}
               PROVE  /\ sweep[r] # {}
                      /\ \A x \in sweep[r] : step[r] = "mark" /\ First(x, sweep[r])' => x \in routed
                      /\ \A x \in sweep[r] : \A f \in behind[r] : Older(f, x)' => f \in routed \cup sweep[r]
    BY <1>1 DEF SweepInOrder, First
  <2>1. \A x \in sweep[r] : x \in Event /\ x # e
    BY <1>2, <1>7 DEF OnlyCommitted, OutboxTypeOK
  <2>2. \A a : \A x \in sweep[r] : Older(a, x)' <=> Older(a, x)
    BY <2>1, <1>1, <1>3, OlderStays
  <2>3. \A x \in sweep[r] : First(x, sweep[r])' => First(x, sweep[r])
    BY <2>2, <1>1 DEF First
  <2>. QED  BY <2>2, <2>3, <1>2 DEF SweepInOrder
<1>. QED  BY <1>5, <1>6, <1>8, <1>9 DEF OInv

\* A transaction goes on, and puts a record into the store only by committing
\* (Add of both stores, Commit, Rollback).
LEMMA TransactionKeeps ==
    ASSUME IInv, OInv, NEW e \in Event, UNCHANGED idemVars,
           MemAdd(e) \/ SQLAdd(e) \/ Commit(e) \/ Rollback(e) \/ AddAgain(e)
    PROVE  OInv'
<1>1. /\ tx[e] \in {"open", "added", "committed"}
      /\ \/ tx' = tx /\ tx[e] = "committed"
         \/ tx[e] # "committed" /\ \E t \in {"added", "committed", "undone"} : tx' = [tx EXCEPT ![e] = t]
      /\ \/ attempts' = attempts
         \/ tx'[e] = "committed" /\ attempts' = [attempts EXCEPT ![e] = IF @ = Absent THEN 0 ELSE @]
      /\ UNCHANGED <<queue, dead, born, step, sweep, behind, stopping, routed, lost, pc, job>>
  BY DEF MemAdd, SQLAdd, Commit, Rollback, AddAgain, Insert, broker, relayVars, idemVars, worker,
         OInv, OutboxTypeOK
<1>2. OutboxTypeOK /\ WrittenOnce /\ OnlyCommitted /\ SweepInOrder
  BY DEF OInv
<1>3. tx' \in [Event -> {"none", "open", "added", "committed", "undone"}]
  BY <1>1, <1>2 DEF OutboxTypeOK
<1>4. attempts' \in [Event -> Nat \cup {Absent}]
  BY <1>1, <1>2, SMT DEF OutboxTypeOK
<1>5. OutboxTypeOK'
  BY <1>1, <1>2, <1>3, <1>4 DEF OutboxTypeOK
<1>6. \A f \in Event : (tx'[f] = "none" <=> tx[f] = "none") /\ (tx[f] = "committed" => tx'[f] = "committed")
  BY <1>1, <1>2 DEF OutboxTypeOK
<1>7. WrittenOnce'
  BY <1>1, <1>2, <1>6 DEF WrittenOnce
<1>8. OnlyCommitted'
  <2>1. \A f \in Event : attempts'[f] # Absent => tx'[f] = "committed"
    <3> SUFFICES ASSUME NEW f \in Event, attempts'[f] # Absent PROVE tx'[f] = "committed"
      OBVIOUS
    <3>1. CASE attempts' = attempts
      BY <3>1, <1>2, <1>6 DEF OnlyCommitted
    <3>2. CASE f = e /\ tx'[e] = "committed"
      BY <3>2
    <3>3. CASE f # e /\ attempts' = [attempts EXCEPT ![e] = IF @ = Absent THEN 0 ELSE @]
      BY <3>3, <1>2, <1>6 DEF OnlyCommitted, OutboxTypeOK
    <3>. QED  BY <3>1, <3>2, <3>3, <1>1
  <2>2. \A r \in Relay : \A f \in sweep'[r] : tx'[f] = "committed"
    BY <1>1, <1>2, <1>6 DEF OnlyCommitted, OutboxTypeOK
  <2>3. \A f \in Event : tx'[f] # "committed" => queue'[f] = 0
    BY <1>1, <1>2, <1>6 DEF OnlyCommitted
  <2>4. \A w \in Worker : pc'[w] # "idle" => tx'[job'[w]] = "committed"
    <3> SUFFICES ASSUME NEW w \in Worker, pc[w] # "idle" PROVE tx'[job[w]] = "committed"
      BY <1>1
    <3>1. tx[job[w]] = "committed"
      BY <1>2 DEF OnlyCommitted
    <3>2. job[w] \in Event
      BY DEF IInv, IdemTypeOK
    <3>. QED  BY <3>1, <3>2, <1>6
  <2>. QED  BY <2>1, <2>2, <2>3, <2>4 DEF OnlyCommitted
<1>9. SweepInOrder'
  BY <1>1, SweepsUndisturbed
<1>. QED  BY <1>5, <1>7, <1>8, <1>9 DEF OInv

\* A sweep begins with the oldest of what is pending (Sweep, Pending).
LEMMA SweepReadKeeps == ASSUME OInv, NEW r \in Relay, SweepRead(r), UNCHANGED idemVars PROVE OInv'
<1> DEFINE batch == IF sql THEN SQLPending(Batch) ELSE MemPending(Batch)
           pend == {e \in Event : Pending(e)}
<1>1. /\ step' = [step EXCEPT ![r] = "publish"] /\ sweep' = [sweep EXCEPT ![r] = batch]
      /\ behind' = [behind EXCEPT ![r] = pend] /\ batch # {}
      /\ UNCHANGED <<queue, dead, tx, born, attempts, stopping, routed, lost, pc, job>>
  BY DEF SweepRead, broker, idemVars, worker
<1>2. OutboxTypeOK /\ WrittenOnce /\ OnlyCommitted /\ SweepInOrder
  BY DEF OInv
<1>3. batch \subseteq pend
  BY DEF MemPending, SQLPending
<1>4. ASSUME NEW x \in batch, NEW e \in pend, Older(e, x) PROVE e \in batch
  <2>1. /\ Cardinality(Before(e)) <= Cardinality(Before(x))
        /\ Cardinality(Before(e)) \in Nat /\ Cardinality(Before(x)) \in Nat
    BY <1>3, <1>4, FewerBefore
  <2>2. \A n : Cardinality(Before(x)) < n /\ n \in Nat => Cardinality(Before(e)) < n
    BY <2>1, SMT
  <2>3. Batch \in Nat /\ ~(Batch <= 0) /\ Batch > 0
    BY OutboxAssumption, SMT
  <2>4. CASE sql
    BY <2>2, <2>3, <2>4, <1>3, <1>4 DEF SQLPending
  <2>5. CASE ~sql
    BY <2>2, <2>3, <2>5, <1>3, <1>4 DEF MemPending
  <2>. QED  BY <2>4, <2>5
<1> HIDE DEF batch
<1>5. \A e \in pend : tx[e] = "committed"
  BY <1>2 DEF OnlyCommitted, Pending
<1>6. OutboxTypeOK'
  <2>1. batch \in SUBSET Event /\ pend \in SUBSET Event
    BY <1>3
  <2> HIDE DEF pend
  <2>2. step' \in [Relay -> {"new", "loop", "publish", "fail", "mark", "done"}]
    BY <1>1, <1>2 DEF OutboxTypeOK
  <2>3. sweep' \in [Relay -> SUBSET Event] /\ behind' \in [Relay -> SUBSET Event]
    BY <2>1, <1>1, <1>2 DEF OutboxTypeOK
  <2>. QED  BY <2>2, <2>3, <1>1, <1>2 DEF OutboxTypeOK
<1>7. WrittenOnce'
  BY <1>1, <1>2 DEF WrittenOnce
<1>8. \A s \in Relay : /\ sweep'[s] = (IF s = r THEN batch ELSE sweep[s])
                       /\ behind'[s] = (IF s = r THEN pend ELSE behind[s])
                       /\ step'[s] = (IF s = r THEN "publish" ELSE step[s])
  BY <1>1, <1>2 DEF OutboxTypeOK
<1>9. OnlyCommitted'
  BY <1>1, <1>2, <1>3, <1>5, <1>8 DEF OnlyCommitted
<1>10. SweepInOrder'
  <2>1. \A e, f : Older(e, f)' <=> Older(e, f)
    BY <1>1 DEF Older
  <2> SUFFICES ASSUME NEW s \in Relay, step'[s] \in {"publish", "fail", "mark"}
               PROVE  /\ sweep'[s] # {}
                      /\ \A x \in sweep'[s] : step'[s] = "mark" /\ First(x, sweep[s])' => x \in routed'
                      /\ \A x \in sweep'[s] : \A f \in behind'[s] : Older(f, x)' => f \in routed' \cup sweep'[s]
    BY DEF SweepInOrder, First
  <2>2. CASE s = r
    <3> HIDE DEF pend
    <3>1. sweep'[s] = batch /\ behind'[s] = pend /\ step'[s] = "publish"
      BY <2>2, <1>8
    <3>. QED  BY <3>1, <2>1, <1>1, <1>4
  <2>3. CASE s # r
    <3>1. sweep'[s] = sweep[s] /\ behind'[s] = behind[s] /\ step'[s] = step[s]
      BY <2>3, <1>8
    <3>2. \A x : First(x, sweep[s])' <=> First(x, sweep[s])
      BY <3>1, <2>1 DEF First
    <3>. QED  BY <3>1, <3>2, <2>1, <1>1, <1>2 DEF SweepInOrder
  <2>. QED  BY <2>2, <2>3
<1>. QED  BY <1>6, <1>7, <1>9, <1>10 DEF OInv

\* The broker takes the oldest record of a sweep, or refuses it (Sweep,
\* PublishRaw).
LEMMA PublishKeeps ==
    ASSUME OInv, NEW r \in Relay, Publish(r) \/ PublishFails(r), UNCHANGED idemVars
    PROVE  OInv'
<1> DEFINE e == Oldest(sweep[r])
<1>1. /\ step[r] = "publish"
      /\ UNCHANGED <<dead, tx, born, attempts, sweep, behind, stopping, lost, pc, job>>
      /\ \/ step' = [step EXCEPT ![r] = "mark"] /\ queue' = [queue EXCEPT ![e] = @ + 1] /\ routed' = routed \cup {e}
         \/ /\ step' = [step EXCEPT ![r] = "fail"]
            /\ \/ UNCHANGED <<queue, routed>>
               \/ queue' = [queue EXCEPT ![e] = @ + 1] /\ routed' = routed \cup {e}
  BY DEF Publish, PublishFails, Push, idemVars, worker
<1>2. OutboxTypeOK /\ WrittenOnce /\ OnlyCommitted /\ SweepInOrder
  BY DEF OInv
<1>3. sweep[r] \in SUBSET Event /\ sweep[r] # {} /\ \A f \in sweep[r] : tx[f] = "committed"
  BY <1>1, <1>2 DEF OutboxTypeOK, OnlyCommitted, SweepInOrder
<1>4. e \in sweep[r] /\ e \in Event /\ tx[e] = "committed"
  <2>1. e \in sweep[r]
    BY <1>3, OldestIsFirst
  <2>. QED  BY <2>1, <1>3
<1>5. \A x \in sweep[r] : First(x, sweep[r]) => x = e
  BY <1>3, FirstIsOldest
<1> HIDE DEF e
<1>6. OutboxTypeOK'
  <2>1. step' \in [Relay -> {"new", "loop", "publish", "fail", "mark", "done"}]
    BY <1>1, <1>2 DEF OutboxTypeOK
  <2>2. DOMAIN queue' = Event /\ routed' \in SUBSET Event
    BY <1>1, <1>2, <1>4 DEF OutboxTypeOK
  <2>. QED  BY <2>1, <2>2, <1>1, <1>2 DEF OutboxTypeOK
<1>7. WrittenOnce'
  BY <1>1, <1>2 DEF WrittenOnce
<1>8. OnlyCommitted'
  <2>1. \A f \in Event : tx[f] # "committed" => queue'[f] = 0
    <3> SUFFICES ASSUME NEW f \in Event, tx[f] # "committed" PROVE queue'[f] = 0
      OBVIOUS
    <3>1. f # e /\ queue[f] = 0
      BY <1>2, <1>4 DEF OnlyCommitted
    <3>2. queue'[f] = queue[f]
      BY <3>1, <1>1, <1>2 DEF OutboxTypeOK
    <3>. QED  BY <3>1, <3>2
  <2>. QED  BY <2>1, <1>1, <1>2 DEF OnlyCommitted
<1>9. SweepInOrder'
  <2>1. \A a, f : Older(a, f)' <=> Older(a, f)
    BY <1>1 DEF Older
  <2>2. \A x : \A s \in Relay : First(x, sweep[s])' <=> First(x, sweep[s])
    BY <2>1, <1>1 DEF First
  <2>3. routed \subseteq routed'
    BY <1>1
  <2> SUFFICES ASSUME NEW s \in Relay, step'[s] \in {"publish", "fail", "mark"}
               PROVE  /\ sweep[s] # {}
                      /\ \A x \in sweep[s] : step'[s] = "mark" /\ First(x, sweep[s]) => x \in routed'
                      /\ \A x \in sweep[s] : \A f \in behind[s] : Older(f, x) => f \in routed' \cup sweep[s]
    BY <2>1, <2>2, <1>1 DEF SweepInOrder, First
  <2>4. s # r => step'[s] = step[s]
    BY <1>1, <1>2 DEF OutboxTypeOK
  <2>5. step[s] \in {"publish", "fail", "mark"}
    BY <2>4, <1>1
  <2>6. \A x \in sweep[s] : step'[s] = "mark" /\ First(x, sweep[s]) => x \in routed'
    <3>1. CASE s # r
      BY <3>1, <2>3, <2>4, <1>2 DEF SweepInOrder
    <3>2. CASE s = r
      <4>1. step'[r] = "mark" => e \in routed'
        BY <1>1, <1>2 DEF OutboxTypeOK
      <4>. QED  BY <4>1, <3>2, <1>5
    <3>. QED  BY <3>1, <3>2
  <2>. QED  BY <2>3, <2>5, <2>6, <1>2 DEF SweepInOrder
<1>. QED  BY <1>6, <1>7, <1>8, <1>9 DEF OInv

\* A record is marked when it has been routed, and the sweep goes on with the
\* next (Sweep, MarkPublished).
LEMMA MarkPublishedKeeps ==
    ASSUME OInv, NEW r \in Relay, MarkPublished(r), UNCHANGED idemVars
    PROVE  OInv'
<1> DEFINE e == Oldest(sweep[r])
<1>1. /\ step[r] = "mark" /\ attempts' = [attempts EXCEPT ![e] = Absent]
      /\ \/ /\ sweep[r] # {e} /\ step' = [step EXCEPT ![r] = "publish"]
            /\ sweep' = [sweep EXCEPT ![r] = @ \ {e}] /\ behind' = behind
         \/ /\ step' = [step EXCEPT ![r] = "loop"] /\ sweep' = [sweep EXCEPT ![r] = {}]
            /\ behind' = [behind EXCEPT ![r] = {}]
      /\ UNCHANGED <<queue, dead, tx, born, stopping, routed, lost, pc, job>>
  BY DEF MarkPublished, Forget, Return, broker, idemVars, worker
<1>2. OutboxTypeOK /\ WrittenOnce /\ OnlyCommitted /\ SweepInOrder
  BY DEF OInv
<1>3. sweep[r] \in SUBSET Event /\ sweep[r] # {} /\ \A f \in sweep[r] : tx[f] = "committed"
  BY <1>1, <1>2 DEF OutboxTypeOK, OnlyCommitted, SweepInOrder
<1>4. e \in sweep[r] /\ First(e, sweep[r])
  BY <1>3, OldestIsFirst
<1> HIDE DEF e
<1>5. e \in routed /\ e \in Event
  BY <1>1, <1>2, <1>3, <1>4 DEF SweepInOrder
<1>6. OutboxTypeOK'
  <2>1. step' \in [Relay -> {"new", "loop", "publish", "fail", "mark", "done"}]
    BY <1>1, <1>2 DEF OutboxTypeOK
  <2>2. sweep' \in [Relay -> SUBSET Event] /\ behind' \in [Relay -> SUBSET Event]
    BY <1>1, <1>2 DEF OutboxTypeOK
  <2>3. attempts' \in [Event -> Nat \cup {Absent}]
    BY <1>1, <1>2 DEF OutboxTypeOK
  <2>. QED  BY <2>1, <2>2, <2>3, <1>1, <1>2 DEF OutboxTypeOK
<1>7. WrittenOnce'
  BY <1>1, <1>2 DEF WrittenOnce
<1>8. \A s \in Relay : s # r => sweep'[s] = sweep[s] /\ behind'[s] = behind[s] /\ step'[s] = step[s]
  BY <1>1, <1>2 DEF OutboxTypeOK
<1>9. sweep'[r] = {} \/ sweep'[r] = sweep[r] \ {e}
  BY <1>1, <1>2 DEF OutboxTypeOK
<1>10. OnlyCommitted'
  <2>1. \A f \in Event : attempts'[f] # Absent => attempts[f] # Absent
    BY <1>1, <1>2 DEF OutboxTypeOK
  <2>2. \A s \in Relay : sweep'[s] \subseteq sweep[s]
    BY <1>8, <1>9
  <2>. QED  BY <2>1, <2>2, <1>1, <1>2 DEF OnlyCommitted
<1>11. SweepInOrder'
  <2>1. \A a, f : Older(a, f)' <=> Older(a, f)
    BY <1>1 DEF Older
  <2> SUFFICES ASSUME NEW s \in Relay, step'[s] \in {"publish", "fail", "mark"}
               PROVE  /\ sweep'[s] # {}
                      /\ \A x \in sweep'[s] : step'[s] = "mark" /\ First(x, sweep[s])' => x \in routed
                      /\ \A x \in sweep'[s] : \A f \in behind'[s] : Older(f, x) => f \in routed \cup sweep'[s]
    BY <2>1, <1>1 DEF SweepInOrder, First
  <2>2. CASE s # r
    <3>1. sweep'[s] = sweep[s] /\ behind'[s] = behind[s] /\ step'[s] = step[s]
      BY <2>2, <1>8
    <3>2. \A x : First(x, sweep[s])' <=> First(x, sweep[s])
      BY <3>1, <2>1 DEF First
    <3>. QED  BY <3>1, <3>2, <1>2 DEF SweepInOrder
  <2>3. CASE s = r
    <3>1. step'[r] = "publish" /\ sweep'[r] = sweep[r] \ {e} /\ behind'[r] = behind[r] /\ sweep[r] # {e}
      BY <2>3, <1>1, <1>2 DEF OutboxTypeOK
    <3>2. sweep'[r] # {}
      BY <3>1, <1>4
    <3>3. \A x \in sweep[r] : \A f \in behind[r] : Older(f, x) => f \in routed \cup sweep[r]
      BY <1>1, <1>2 DEF SweepInOrder
    <3>. QED  BY <3>1, <3>2, <3>3, <2>3, <1>5
  <2>. QED  BY <2>2, <2>3
<1>. QED  BY <1>6, <1>7, <1>10, <1>11 DEF OInv

\* A relay that starts, ends its sweep or its loop, is closed or dies leaves the
\* other sweeps alone, and a store without new records (Start, Sweep, Close).
LEMMA RelayKeeps ==
    ASSUME OInv, NEW r \in Relay, UNCHANGED idemVars,
           \/ StartRelay(r) \/ LoopEnds(r) \/ NewOutboxRelay(r) \/ CloseRelay(r) \/ RelayDies(r)
           \/ RecordFailure(r) \/ RecordFailureFails(r) \/ MarkFails(r)
    PROVE  OInv'
<1>1. OutboxTypeOK /\ WrittenOnce /\ OnlyCommitted /\ SweepInOrder
  BY DEF OInv
<1>2. /\ UNCHANGED <<queue, dead, tx, born, routed, pc, job>>
      /\ \/ UNCHANGED step
         \/ \E t \in {"new", "loop", "done"} : step' = [step EXCEPT ![r] = t]
      /\ \/ UNCHANGED <<sweep, behind>>
         \/ /\ sweep' = [sweep EXCEPT ![r] = {}] /\ behind' = [behind EXCEPT ![r] = {}]
            /\ \E t \in {"new", "loop", "done"} : step' = [step EXCEPT ![r] = t]
  BY DEF StartRelay, LoopEnds, NewOutboxRelay, CloseRelay, RelayDies, RecordFailure, RecordFailureFails,
         MarkFails, Return, broker, idemVars, worker
<1>3. /\ attempts' \in [Event -> Nat \cup {Absent}] /\ lost' \in SUBSET Event
      /\ \A e \in Event : attempts'[e] # Absent => attempts[e] # Absent
  <2>1. attempts \in [Event -> Nat \cup {Absent}] /\ lost \in SUBSET Event
    BY <1>1 DEF OutboxTypeOK
  <2>2. CASE RecordFailure(r)
    <3>1. /\ attempts' = [attempts EXCEPT ![Oldest(sweep[r])] = IF @ = Absent THEN @ ELSE @ + 1]
          /\ lost' = lost
      BY <2>2 DEF RecordFailure, CountFailure
    <3> HIDE DEF Oldest
    <3>2. \A a \in Nat \cup {Absent} : (IF a = Absent THEN a ELSE a + 1) \in Nat \cup {Absent}
      BY SMT
    <3>. QED  BY <3>1, <3>2, <2>1
  <2>3. CASE RelayDies(r)
    BY <2>1, <2>3 DEF RelayDies
  <2>4. CASE UNCHANGED <<attempts, lost>>
    BY <2>1, <2>4
  <2>. QED
    BY <2>2, <2>3, <2>4
    DEF StartRelay, LoopEnds, NewOutboxRelay, CloseRelay, RecordFailureFails, MarkFails
<1>4. /\ step' \in [Relay -> {"new", "loop", "publish", "fail", "mark", "done"}]
      /\ sweep' \in [Relay -> SUBSET Event] /\ behind' \in [Relay -> SUBSET Event]
  BY <1>1, <1>2 DEF OutboxTypeOK
<1>5. OutboxTypeOK'
  BY <1>1, <1>2, <1>3, <1>4 DEF OutboxTypeOK
<1>6. WrittenOnce'
  BY <1>1, <1>2 DEF WrittenOnce
<1>7. \A s \in Relay : sweep'[s] \subseteq sweep[s]
  BY <1>1, <1>2 DEF OutboxTypeOK
<1>8. OnlyCommitted'
  BY <1>1, <1>2, <1>3, <1>7 DEF OnlyCommitted
<1>9. SweepInOrder'
  <2>1. \A a, f : Older(a, f)' <=> Older(a, f)
    BY <1>2 DEF Older
  <2> SUFFICES ASSUME NEW s \in Relay, step'[s] \in {"publish", "fail", "mark"}
               PROVE  /\ sweep'[s] # {}
                      /\ \A x \in sweep'[s] : step'[s] = "mark" /\ First(x, sweep[s])' => x \in routed
                      /\ \A x \in sweep'[s] : \A f \in behind'[s] : Older(f, x) => f \in routed \cup sweep'[s]
    BY <2>1, <1>2 DEF SweepInOrder, First
  <2>2. sweep'[s] = sweep[s] /\ behind'[s] = behind[s] /\ step'[s] = step[s]
    BY <1>1, <1>2 DEF OutboxTypeOK
  <2>3. \A x : First(x, sweep[s])' <=> First(x, sweep[s])
    BY <2>1, <2>2 DEF First
  <2>. QED  BY <2>2, <2>3, <1>1 DEF SweepInOrder
<1>. QED  BY <1>5, <1>6, <1>8, <1>9 DEF OInv

\* The consumers take and put back only what is on the queue (Take, the
\* settlement, a process dying).
LEMMA ConsumersKeep == ASSUME IInv, OInv, IdemNext, UNCHANGED outboxVars PROVE OInv'
<1>1. OutboxTypeOK /\ WrittenOnce /\ OnlyCommitted /\ SweepInOrder
  BY DEF OInv
<1>2. UNCHANGED <<tx, born, attempts, step, sweep, behind, stopping, routed, lost>>
  BY DEF outboxVars, relayVars
<1>3. pc \in [Worker -> {"idle", "settle"} \cup Claiming \cup Holding] /\ job \in [Worker -> Event]
  BY DEF IInv, IdemTypeOK
<1> DEFINE Kept == /\ dead' \in SUBSET Event /\ DOMAIN queue' = Event
                   /\ \A e \in Event : tx[e] # "committed" => queue'[e] = 0
                   /\ \A w \in Worker : pc'[w] # "idle" => tx[job'[w]] = "committed"
<1>4. Kept
  <2>1. /\ dead \in SUBSET Event /\ DOMAIN queue = Event
        /\ \A e \in Event : tx[e] # "committed" => queue[e] = 0
        /\ \A w \in Worker : pc[w] # "idle" => tx[job[w]] = "committed"
    BY <1>1 DEF OutboxTypeOK, OnlyCommitted
  <2>2. ASSUME NEW w \in Worker, NEW e \in Event, Take(w, e) PROVE Kept
    <3>1. /\ queue[e] > 0 /\ queue' = [queue EXCEPT ![e] = @ - 1] /\ dead' = dead
          /\ pc' = [pc EXCEPT ![w] = "claim"] /\ job' = [job EXCEPT ![w] = e]
      BY <2>2 DEF Take, Go
    <3>2. queue[e] # 0
      BY <3>1, SMT
    <3>3. tx[e] = "committed"
      BY <3>2, <2>1
    <3>4. \A v \in Worker : pc'[v] # "idle" => tx[job'[v]] = "committed"
      BY <3>1, <3>3, <2>1, <1>3
    <3>. QED  BY <3>1, <3>3, <3>4, <2>1
  <2>3. ASSUME NEW w \in Worker, Settle(w) PROVE Kept
    <3> DEFINE e == job[w]
    <3>1. /\ pc[w] = "settle" /\ pc' = [pc EXCEPT ![w] = "idle"] /\ job' = [job EXCEPT ![w] = NoJob]
          /\ \/ UNCHANGED <<queue, dead>>
             \/ queue' = [queue EXCEPT ![e] = @ + 1] /\ dead' = dead
             \/ dead' = dead \cup {e} /\ queue' = queue
      BY <2>3 DEF Settle, Go, Push, broker
    <3>2. tx[e] = "committed" /\ e \in Event
      BY <3>1, <2>1, <1>3
    <3> HIDE DEF e
    <3>3. \A v \in Worker : pc'[v] # "idle" => tx[job'[v]] = "committed"
      BY <3>1, <2>1, <1>3
    <3>. QED  BY <3>1, <3>2, <3>3, <2>1
  <2>4. ASSUME NEW w \in Worker, Die(w) PROVE Kept
    <3> DEFINE gone == {v \in Process(w) : pc[v] # "idle"}
    <3>1. /\ dead' = dead
          /\ pc' = [v \in Worker |-> IF v \in gone THEN "idle" ELSE pc[v]]
          /\ job' = [v \in Worker |-> IF v \in gone THEN NoJob ELSE job[v]]
          /\ queue' = [e \in Event |-> queue[e] + Cardinality({v \in gone : job[v] = e})]
      BY <2>4 DEF Die
    <3>2. \A v \in gone : tx[job[v]] = "committed"
      BY <2>1 DEF Process
    <3> HIDE DEF gone
    <3>3. ASSUME NEW e \in Event, tx[e] # "committed" PROVE queue'[e] = 0
      <4>1. {v \in gone : job[v] = e} = {}
        BY <3>2, <3>3
      <4>2. Cardinality({v \in gone : job[v] = e}) = 0
        BY <4>1, FS_EmptySet
      <4>3. queue'[e] = 0 + 0
        BY <4>2, <3>1, <3>3, <2>1
      <4>. QED  BY <4>3, SMT
    <3>4. \A v \in Worker : pc'[v] # "idle" => tx[job'[v]] = "committed"
      BY <3>1, <2>1
    <3>. QED  BY <3>1, <3>3, <3>4, <2>1
  <2>5. ASSUME UNCHANGED <<queue, dead, job>>, \A w \in Worker : pc'[w] # "idle" => pc[w] # "idle"
        PROVE Kept
    BY <2>5, <2>1
  <2>6. ASSUME NEW w \in Worker, Guard(w), ~Settle(w) PROVE Kept
    <3>1. UNCHANGED <<queue, dead, job>> /\ pc[w] # "idle" /\ \E p : pc' = [pc EXCEPT ![w] = p]
      BY <2>6
      DEF Guard, MemTryClaim, SQLInsert, SQLSteal, SQLRead, ClaimFails, Succeed, Fail, Panic, MemConfirm,
          SQLConfirm, ConfirmFails, MemRelease, SQLRelease, ReleaseFails, Answer, Go, broker, Claiming
    <3>2. \A v \in Worker : pc'[v] # "idle" => pc[v] # "idle"
      BY <3>1, <1>3
    <3>. QED  BY <3>1, <3>2, <2>5
  <2>7. CASE (\E d \in 0..AgeCap : Prune(d)) \/ (Tick /\ UNCHANGED <<broker, trouble, sql>>)
    BY <2>5, <2>7 DEF Prune, Tick, broker, worker
  <2> HIDE DEF Kept
  <2>. QED  BY <2>2, <2>3, <2>4, <2>6, <2>7 DEF IdemNext
<1>5. OutboxTypeOK'
  BY <1>1, <1>2, <1>4 DEF OutboxTypeOK
<1>6. WrittenOnce'
  BY <1>1, <1>2 DEF WrittenOnce
<1>7. OnlyCommitted'
  BY <1>1, <1>2, <1>4 DEF OnlyCommitted
<1>8. SweepInOrder'
  BY <1>2, SweepsUndisturbed
<1>. QED  BY <1>5, <1>6, <1>7, <1>8 DEF OInv

\* Nothing is recorded, pending or on the queue at first.
LEMMA OutboxInitEstablishes == ASSUME Init PROVE OInv
<1>1. born = <<>> /\ DOMAIN born = {} /\ born \in Seq(Event)
  BY SMT DEF Init, OutboxInit
<1>2. /\ tx = [e \in Event |-> "none"] /\ attempts = [e \in Event |-> Absent]
      /\ step = [r \in Relay |-> "new"] /\ sweep = [r \in Relay |-> {}] /\ behind = [r \in Relay |-> {}]
      /\ routed = {} /\ lost = {} /\ dead = {} /\ queue = [e \in Event |-> 0]
      /\ \A w \in Worker : pc[w] = "idle"
  BY DEF Init, OutboxInit, QueueInit, IdemInit
<1>3. OutboxTypeOK
  BY <1>1, <1>2 DEF OutboxTypeOK
<1>4. WrittenOnce
  BY <1>1, <1>2 DEF WrittenOnce
<1>5. OnlyCommitted /\ SweepInOrder
  BY <1>2 DEF OnlyCommitted, SweepInOrder
<1>. QED  BY <1>3, <1>4, <1>5 DEF OInv

\* Every step of the pipeline keeps what the outbox relies on.
LEMMA OutboxKeeps == ASSUME IInv, OInv, [Next]_vars PROVE OInv'
<1>1. CASE OutboxNext /\ UNCHANGED idemVars
  BY <1>1, RecordKeeps, TransactionKeeps, SweepReadKeeps, PublishKeeps, MarkPublishedKeeps, RelayKeeps
  DEF OutboxNext, Application, RelayStep, Sweep
<1>2. CASE IdemNext /\ UNCHANGED outboxVars
  BY <1>2, ConsumersKeep
<1>3. CASE UNCHANGED vars
  <2>1. UNCHANGED <<tx, born, attempts, step, sweep, behind, routed, lost, queue, dead, pc, job>>
    BY <1>3 DEF vars, broker, outboxVars, relayVars, idemVars, worker
  <2>2. SweepInOrder'
    BY <2>1, SweepsUndisturbed
  <2>3. OutboxTypeOK' /\ WrittenOnce' /\ OnlyCommitted'
    BY <2>1, SMT DEF OInv, OutboxTypeOK, WrittenOnce, OnlyCommitted
  <2>. QED  BY <2>2, <2>3 DEF OInv
<1>. QED  BY <1>1, <1>2, <1>3 DEF Next

\* It holds of the whole pipeline.
THEOREM OutboxInvariant == Spec => []OInv
<1>1. Init => OInv
  BY OutboxInitEstablishes
<1>2. IInv /\ OInv /\ [Next]_vars => OInv'
  BY OutboxKeeps
<1>. QED  BY <1>1, <1>2, LeaseInvariant, PTL DEF Spec

-----------------------------------------------------------------------------
(* What follows for the outbox *)

\* The broker takes a record for the first time only in a step of the relay that
\* sweeps it (Sweep).
LEMMA OnlyPublishRoutes ==
    ASSUME OInv, [Next]_vars, NEW r \in Relay, step[r] = "publish", step'[r] # "publish", routed' # routed
    PROVE  Publish(r) \/ PublishFails(r)
<1>1. OutboxNext
  BY DEF Next, vars, outboxVars
<1>2. PICK s \in Relay : Publish(s) \/ PublishFails(s)
  BY <1>1
  DEF OutboxNext, Application, Record, MemAdd, SQLAdd, Commit, Rollback, AddAgain, RelayStep, Sweep,
      SweepRead, RecordFailure, RecordFailureFails, MarkPublished, MarkFails, StartRelay, LoopEnds,
      NewOutboxRelay, CloseRelay, RelayDies
<1>3. \E t : step' = [step EXCEPT ![s] = t]
  BY <1>2 DEF Publish, PublishFails
<1>4. step \in [Relay -> {"new", "loop", "publish", "fail", "mark", "done"}]
  BY DEF OInv, OutboxTypeOK
<1>5. s = r
  BY <1>3, <1>4
<1>. QED  BY <1>2, <1>5

\* Records go out in the order they were written: one that is routed for the
\* first time is older than all that was pending when its sweep began and has
\* not been routed, whatever other relays, failures and crashes do (Sweep).
THEOREM PublishedInOrder == Spec => OrderKept
<1>1. ASSUME OInv, [Next]_vars, NEW r \in Relay, step[r] = "publish", step'[r] # "publish",
             routed' # routed, NEW e \in behind[r], Older(e, Oldest(sweep[r]))
      PROVE  e \in routed
  <2>1. sweep[r] \in SUBSET Event /\ sweep[r] # {} /\ \A f \in sweep[r] : tx[f] = "committed"
    BY <1>1 DEF OInv, OutboxTypeOK, OnlyCommitted, SweepInOrder
  <2>2. Oldest(sweep[r]) \in sweep[r] /\ First(Oldest(sweep[r]), sweep[r])
    BY <1>1, <2>1, OldestIsFirst
  <2> HIDE DEF Oldest
  <2>3. e \in routed \/ e \in sweep[r]
    BY <1>1, <2>2 DEF OInv, SweepInOrder
  <2>4. e = Oldest(sweep[r]) => FALSE
    BY <1>1, OlderOneWay DEF OInv, OutboxTypeOK
  <2>5. e \in sweep[r] => Older(Oldest(sweep[r]), e)
    BY <2>4, <2>2 DEF First
  <2>6. e \notin sweep[r]
    BY <1>1, <2>5, OlderOneWay DEF OInv, OutboxTypeOK
  <2>. QED  BY <2>3, <2>6
<1>2. OInv /\ [Next]_vars =>
        [\A r \in Relay : step[r] = "publish" /\ step'[r] # "publish" /\ routed' # routed
            => \A e \in behind[r] : Older(e, Oldest(sweep[r])) => e \in routed]_outboxVars
  BY <1>1
<1>. QED  BY <1>2, OutboxInvariant, PTL DEF Spec, OrderKept

-----------------------------------------------------------------------------
(* What the pipeline promises *)

Owed == {e \in Event : tx[e] = "committed"}
Aside == Retired \cup dead \cup lost
Pardoned == overran \cup excused \cup forgotten
Growing == overran \subseteq overran' /\ excused \subseteq excused' /\ forgotten \subseteq forgotten'

\* Work is done only of an event that was recorded, and a second time only if
\* that is pardoned (guard, Outbox.Record).
LEMMA WorkIsDue ==
    ASSUME IInv, OInv, NEW w \in Worker, pc[w] = "handle"
    PROVE  job[w] \in Owed /\ (effects[job[w]] = 0 \/ job[w] \in Pardoned)
<1>1. job[w] \in Event /\ effects[job[w]] \in 0..2
  BY DEF IInv, IdemTypeOK
<1>2. job[w] \in Owed
  BY <1>1 DEF OInv, OnlyCommitted, Owed
<1>3. ASSUME job[w] \notin Pardoned PROVE effects[job[w]] = 0
  <2>1. job[w] \in present \ confirmed
    BY <1>3 DEF IInv, Lease, Holding, Pardoned
  <2>2. \A v \in Worker : ~(pc[v] = "confirm" /\ job[v] = job[w])
    BY <1>3 DEF IInv, Lease, Holding, Pardoned
  <2>3. ~(effects[job[w]] > 0)
    BY <2>1, <2>2, <1>1, <1>3 DEF IInv, Recorded, Pardoned
  <2>. QED  BY <2>3, <1>1, SMT
<1>. QED  BY <1>2, <1>3

\* A step of the outbox commits one event, or sets events aside or takes them up.
LEMMA OutboxPromise ==
    ASSUME OInv, OutboxNext
    PROVE  \/ Owed' = Owed /\ Aside' \in SUBSET Event
           \/ \E e \in Event : Owed' = Owed \cup {e} /\ Aside' = Aside
<1>1. /\ tx \in [Event -> {"none", "open", "added", "committed", "undone"}]
      /\ attempts \in [Event -> Nat \cup {Absent}] /\ lost \in SUBSET Event /\ dead \in SUBSET Event
      /\ MaxAttempts \in Nat \ {0} /\ Absent \notin Nat
  BY OutboxAssumption DEF OInv, OutboxTypeOK
<1>2. dead' = dead
  BY DEF OutboxNext, Application, Record, MemAdd, SQLAdd, Commit, Rollback, AddAgain, RelayStep, Sweep,
         SweepRead, Publish, PublishFails, RecordFailure, RecordFailureFails, MarkPublished, MarkFails,
         StartRelay, LoopEnds, NewOutboxRelay, CloseRelay, RelayDies, broker
<1>3. ASSUME NEW e \in Event, Insert(e) PROVE Retired' = Retired
  <2>1. \A f \in Event : attempts'[f] = attempts[f] \/ (attempts[f] = Absent /\ attempts'[f] = 0)
    BY <1>1, <1>3 DEF Insert
  <2>2. ~(0 >= MaxAttempts)
    BY <1>1, SMT
  <2>. QED  BY <2>1, <2>2 DEF Retired
<1>4. ASSUME NEW e \in Event, Application(e)
      PROVE  \/ Owed' = Owed /\ Aside' \in SUBSET Event
             \/ Owed' = Owed \cup {e} /\ Aside' = Aside
  <2>1. Aside' = Aside
    <3>1. Retired' = Retired
      BY <1>3, <1>4 DEF Application, Record, MemAdd, SQLAdd, Commit, Rollback, AddAgain, Retired
    <3>2. lost' = lost
      BY <1>4 DEF Application, Record, MemAdd, SQLAdd, Commit, Rollback, AddAgain
    <3>. QED  BY <3>1, <3>2, <1>2 DEF Aside
  <2>2. Aside \in SUBSET Event
    BY <1>1 DEF Aside, Retired
  <2>3. tx' = tx \/ (tx[e] \in {"none", "open", "added"} /\ \E t : tx' = [tx EXCEPT ![e] = t])
    BY <1>4 DEF Application, Record, MemAdd, SQLAdd, Commit, Rollback, AddAgain
  <2>4. Owed' = Owed \/ Owed' = Owed \cup {e}
    BY <2>3, <1>1 DEF Owed
  <2>. QED  BY <2>1, <2>2, <2>4
<1>5. ASSUME NEW r \in Relay, RelayStep(r) \/ CloseRelay(r) \/ RelayDies(r)
      PROVE  Owed' = Owed /\ Aside' \in SUBSET Event
  <2>1. tx' = tx
    BY <1>5 DEF RelayStep, Sweep, SweepRead, Publish, PublishFails, RecordFailure, RecordFailureFails,
                MarkPublished, MarkFails, StartRelay, LoopEnds, NewOutboxRelay, CloseRelay, RelayDies
  <2>2. lost' \in SUBSET Event
    BY <1>1, <1>5
    DEF RelayStep, Sweep, SweepRead, Publish, PublishFails, RecordFailure, RecordFailureFails,
        MarkPublished, MarkFails, StartRelay, LoopEnds, NewOutboxRelay, CloseRelay, RelayDies
  <2>. QED  BY <2>1, <2>2, <1>1, <1>2 DEF Owed, Aside, Retired
<1>. QED  BY <1>4, <1>5 DEF OutboxNext

\* A step of the consumers does the work of one event that is due, or pardons
\* some, or sets one aside.
LEMMA ConsumersPromise ==
    ASSUME IInv, OInv, IdemNext, UNCHANGED outboxVars
    PROVE  /\ Owed' = Owed
           /\ \/ effects' = effects /\ Pardoned' = Pardoned /\ Aside' \in SUBSET Event
              \/ /\ effects' = effects /\ Aside' = Aside
                 /\ Pardoned' \in SUBSET Event /\ Pardoned \subseteq Pardoned'
              \/ /\ Pardoned' = Pardoned /\ Aside' = Aside
                 /\ \E e \in Owed : /\ effects[e] = 0 \/ e \in Pardoned
                                    /\ effects' = [effects EXCEPT ![e] = IF @ < 2 THEN @ + 1 ELSE @]
<1>1. tx' = tx /\ Retired' = Retired /\ lost' = lost
  BY DEF outboxVars, Retired
<1>2. dead \in SUBSET Event /\ lost \in SUBSET Event
  BY DEF OInv, OutboxTypeOK
<1>3. IdemTypeOK
  BY DEF IInv
<1>4. Owed' = Owed
  BY <1>1 DEF Owed
<1>5. ASSUME NEW w \in Worker, Settle(w)
      PROVE  effects' = effects /\ Pardoned' = Pardoned /\ Aside' \in SUBSET Event
  <2>1. UNCHANGED <<effects, overran, excused, forgotten>> /\ dead' \in {dead, dead \cup {job[w]}}
    BY <1>5 DEF Settle, broker
  <2>2. job[w] \in Event
    BY <1>3 DEF IdemTypeOK
  <2>. QED  BY <2>1, <2>2, <1>1, <1>2 DEF Pardoned, Aside, Retired
<1>6. ASSUME NEW w \in Worker, Succeed(w)
      PROVE  /\ Pardoned' = Pardoned /\ Aside' = Aside
             /\ \E e \in Owed : /\ effects[e] = 0 \/ e \in Pardoned
                                /\ effects' = [effects EXCEPT ![e] = IF @ < 2 THEN @ + 1 ELSE @]
  <2>1. /\ UNCHANGED <<dead, overran, excused, forgotten>> /\ pc[w] = "handle"
        /\ effects' = [effects EXCEPT ![job[w]] = AtMost(@ + 1, 2)]
    BY <1>6 DEF Succeed, broker
  <2>2. job[w] \in Owed /\ (effects[job[w]] = 0 \/ job[w] \in Pardoned)
    BY <2>1, WorkIsDue
  <2>3. job[w] \in Event /\ effects \in [Event -> 0..2]
    BY <1>3 DEF IdemTypeOK
  <2>4. \A n \in 0..2 : AtMost(n + 1, 2) = IF n < 2 THEN n + 1 ELSE n
    BY SMT DEF AtMost
  <2>5. effects' = [effects EXCEPT ![job[w]] = IF @ < 2 THEN @ + 1 ELSE @]
    BY <2>1, <2>3, <2>4
  <2>. QED  BY <2>1, <2>2, <2>5, <1>1 DEF Pardoned, Aside
<1>7. ASSUME UNCHANGED <<dead, effects>>, Growing,
             overran' \in SUBSET Event, excused' \in SUBSET Event, forgotten' \in SUBSET Event
      PROVE  /\ effects' = effects /\ Aside' = Aside
             /\ Pardoned' \in SUBSET Event /\ Pardoned \subseteq Pardoned'
  BY <1>7, <1>1 DEF Aside, Pardoned, Growing
<1>8. overran' \in SUBSET Event /\ excused' \in SUBSET Event /\ forgotten' \in SUBSET Event
  <2>1. [Next]_vars
    BY DEF Next
  <2>2. IInv'
    BY <2>1, NextKeeps
  <2>. QED  BY <2>2 DEF IInv, IdemTypeOK
<1>9. ASSUME NEW w \in Worker, Guard(w), ~Settle(w), ~Succeed(w)
      PROVE  UNCHANGED <<dead, effects>> /\ Growing
  BY <1>9
  DEF Guard, MemTryClaim, SQLInsert, SQLSteal, SQLRead, ClaimFails, Fail, Panic, MemConfirm, SQLConfirm,
      ConfirmFails, MemRelease, SQLRelease, ReleaseFails, ForgetRows, Growing, broker, history
<1>10. ASSUME NEW w \in Worker, Die(w)
       PROVE  UNCHANGED <<dead, effects>> /\ Growing
  BY <1>10 DEF Die, Growing
<1>11. ASSUME \/ \E w \in Worker, e \in Event : Take(w, e)
              \/ \E d \in 0..AgeCap : Prune(d)
              \/ Tick /\ UNCHANGED <<broker, trouble, sql>>
       PROVE  UNCHANGED <<dead, effects>> /\ Growing
  BY <1>11 DEF Take, Prune, Tick, ForgetRows, Growing, broker, history
<1> HIDE DEF Aside, Pardoned, Owed
<1>12. CASE \E w \in Worker : Settle(w)
  BY <1>4, <1>5, <1>12
<1>13. CASE \E w \in Worker : Succeed(w)
  BY <1>4, <1>6, <1>13
<1>14. CASE ~(\E w \in Worker : Settle(w)) /\ ~(\E w \in Worker : Succeed(w))
  <2>1. UNCHANGED <<dead, effects>> /\ Growing
    BY <1>9, <1>10, <1>11, <1>14 DEF IdemNext
  <2>. QED  BY <2>1, <1>4, <1>7, <1>8
<1>. QED  BY <1>12, <1>13, <1>14

\* What the pipeline does is what EventContract allows, step by step: work is
\* done only of what was committed, and repeated only where that is pardoned
\* (outbox.go, idempotency.go).  That it is done in the end is not part of this.
THEOREM PipelineKeepsPromise == Spec => Contract!Init /\ [][Contract!Next]_(Contract!vars)
<1>1. Init => Contract!Init
  <2> SUFFICES ASSUME Init PROVE Contract!Init
    OBVIOUS
  <2>1. /\ tx = [e \in Event |-> "none"] /\ attempts = [e \in Event |-> Absent] /\ lost = {} /\ dead = {}
        /\ effects = [k \in Event |-> 0] /\ overran = {} /\ excused = {} /\ forgotten = {}
    BY DEF Init, OutboxInit, QueueInit, IdemInit
  <2>. QED  BY <2>1 DEF Contract!Init, Retired
<1>2. IInv /\ OInv /\ [Next]_vars => [Contract!Next]_(Contract!vars)
  <2> SUFFICES ASSUME IInv, OInv, [Next]_vars PROVE [Contract!Next]_(Contract!vars)
    OBVIOUS
  <2>1. CASE OutboxNext /\ UNCHANGED idemVars
    <3>1. effects' = effects /\ Pardoned' = Pardoned
      BY <2>1 DEF idemVars, history, Pardoned
    <3>2. \/ Owed' = Owed /\ Aside' \in SUBSET Event
          \/ \E e \in Event : Owed' = Owed \cup {e} /\ Aside' = Aside
      BY <2>1, OutboxPromise
    <3>. QED
      BY <3>1, <3>2 DEF Contract!Next, Contract!Commit, Contract!SetAside, Owed, Aside, Pardoned
  <2>2. CASE IdemNext /\ UNCHANGED outboxVars
    <3>1. /\ Owed' = Owed
          /\ \/ effects' = effects /\ Pardoned' = Pardoned /\ Aside' \in SUBSET Event
             \/ /\ effects' = effects /\ Aside' = Aside
                /\ Pardoned' \in SUBSET Event /\ Pardoned \subseteq Pardoned'
             \/ /\ Pardoned' = Pardoned /\ Aside' = Aside
                /\ \E e \in Owed : /\ effects[e] = 0 \/ e \in Pardoned
                                   /\ effects' = [effects EXCEPT ![e] = IF @ < 2 THEN @ + 1 ELSE @]
      BY <2>2, ConsumersPromise
    <3>2. Owed \subseteq Event
      BY DEF Owed
    <3>. QED
      BY <3>1, <3>2
      DEF Contract!Next, Contract!Perform, Contract!Pardon, Contract!SetAside, Owed, Aside, Pardoned
  <2>3. CASE UNCHANGED vars
    <3>1. UNCHANGED <<tx, attempts, lost, dead, effects, overran, excused, forgotten>>
      BY <2>3 DEF vars, broker, outboxVars, idemVars, history
    <3>. QED  BY <3>1 DEF Contract!vars, Retired
  <2>. QED  BY <2>1, <2>2, <2>3 DEF Next
<1>. QED  BY <1>1, <1>2, LeaseInvariant, OutboxInvariant, PTL DEF Spec

=============================================================================
