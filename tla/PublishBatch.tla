---------------------------- MODULE PublishBatch ----------------------------
(***************************************************************************)
(* Publisher.SendAll (src/amqp/publisher.go) over the RabbitMQ transport:   *)
(* one goroutine for each payload of a batch, each publishing once through  *)
(* RabbitPublish, and the report when all of them have returned.            *)
(***************************************************************************)
EXTENDS RabbitPublish, TLC

VARIABLES
    job,        \* by payload: "new", "out" in its goroutine, or "done"
    errs,       \* SendAll's errs, "nil" until set as in a fresh slice
    told        \* what SendAll returned: how many were confirmed, how many failed

batch == <<job, errs, told>>

Unreported == [confirmed |-> 0, failed |-> 0]

BatchInit ==
    /\ Init
    /\ job = [p \in Publishers |-> "new"] /\ errs = [p \in Publishers |-> "nil"]
    /\ told = Unreported

Finish(p, err) ==
    /\ job' = [job EXCEPT ![p] = "done"] /\ errs' = [errs EXCEPT ![p] = err]
    /\ UNCHANGED told

\* The loop of SendAll: the payload's goroutine is started.
Start(p) ==
    /\ job[p] = "new" /\ job' = [job EXCEPT ![p] = "out"]
    /\ UNCHANGED <<vars, errs, told>>

\* Its envelope cannot be built; or, in publish, an interceptor stops it or it
\* cannot be encoded.
Declined(p) ==
    /\ job[p] = "new" \/ (job[p] = "out" /\ pc[p] = "idle")
    /\ Finish(p, "declined")
    /\ UNCHANGED vars

\* Transport.Publish while the broker has the connection blocked: refused before
\* a slot is taken or anything is written.
Paused(p) ==
    /\ job[p] = "out" /\ pc[p] = "idle"
    /\ Finish(p, "declined")
    /\ UNCHANGED vars

\* publish: what the transport's answer is to the caller.
Outcome(result) ==
    CASE result = "routed" -> "nil"
      [] result = "unrouted" -> "unroutable"
      [] OTHER -> "failed"

\* publish, as far as the transport goes: the goroutine ends with its answer.
Publishing(p) ==
    /\ job[p] = "out" /\ PublisherStep(p)
    /\ IF pc'[p] # "idle" THEN UNCHANGED batch
       ELSE Finish(p, IF cur[p] = 0 THEN "failed" ELSE Outcome(pubs'[cur[p]].result))

\* wg.Wait, and the count.
Report ==
    LET ok == {p \in Publishers : errs[p] = "nil"} IN
    /\ told = Unreported /\ \A p \in Publishers : job[p] = "done"
    /\ told' = [confirmed |-> Cardinality(ok), failed |-> Cardinality(Publishers \ ok)]
    /\ UNCHANGED <<vars, job, errs>>

BatchNext ==
    \/ \E p \in Publishers : Start(p) \/ Declined(p) \/ Paused(p) \/ Publishing(p)
    \/ Report
    \/ (\/ \E g \in Gens : ReadReturn(g) \/ ReadConfirm(g)
        \/ ConnectionLost
        \/ SwapChannel
        \/ SwapReturns) /\ UNCHANGED batch

\* The payloads of a batch are interchangeable.
Symmetry == Permutations(Publishers)

BatchSpec == BatchInit /\ [][BatchNext]_<<vars, batch>>

-----------------------------------------------------------------------------
(* Properties *)

\* What Publish reports is what the broker said, and so is the count a failed
\* batch is resent from: every payload is in it, the confirmed are those the
\* broker routed to a queue, as far as Publish could know, and whatever was not
\* written or not answered is among the failed (SendAll,
\* BatchPublishFailedError).
ToldTruly ==
    /\ ReportedTruly
    /\ told # Unreported =>
        /\ told.confirmed + told.failed = Cardinality(Publishers)
        /\ told.confirmed = Cardinality({n \in DOMAIN pubs : pubs[n].result = "routed"})
        /\ \A p \in Publishers : errs[p] = "nil" =>
             LET n == cur[p] IN
             n # 0 /\ (pubs[n].swapped \/ Crowded(n) \/ pubs[n].fate = "routed")

=============================================================================
