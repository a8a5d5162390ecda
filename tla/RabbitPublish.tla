---------------------------- MODULE RabbitPublish ----------------------------
(***************************************************************************)
(* Publishing over the RabbitMQ transport (src/rabbitmq/rabbitmq.go): the   *)
(* slots that bound unconfirmed publishes, the write under the channel      *)
(* lock, the confirm awaited outside it, the basic.return that precedes the *)
(* confirm of a message nothing was bound for, and the recovery that        *)
(* replaces the channel and then, in another critical section, the returns. *)
(*                                                                          *)
(* The broker's answers are fixed when a message is written and travel back *)
(* in order; one goroutine of the client library reads them.  It hands a    *)
(* return over with a send that blocks when the buffer is full, and answers *)
(* what is still waiting on a closing channel with a nack.  A publish that  *)
(* gives up waiting for a slot returns before it touches any of this state. *)
(* Every message here is mandatory: one that is not gets no return and      *)
(* looks for none.  Each has an id of its own, as generated ones are, so    *)
(* that its number stands for returnKey.                                    *)
(***************************************************************************)
EXTENDS Naturals, FiniteSets, Sequences

CONSTANTS Publishers,   \* goroutines that publish
          Bound,        \* Config.MaxOutstandingPublishes
          SeenLimit,    \* the limit of evictOldReturnsLocked, never below Bound
          MaxPubs,      \* bound on the messages written
          MaxGen,       \* bound on the connections made after the first
          MaxCancels    \* bound on the publishes whose context ends

ASSUME PublishAssumption ==
    /\ Bound \in Nat \ {0} /\ SeenLimit \in Nat /\ SeenLimit >= Bound
    /\ MaxPubs \in Nat /\ MaxGen \in Nat /\ MaxCancels \in Nat
    /\ IsFiniteSet(Publishers)

Gens == 0..MaxGen
Fates == {"routed", "unrouted", "refused"}

VARIABLES
    pc,         \* where each publisher is in Publish
    cur,        \* the message it wrote, by its place in pubs
    pubs,       \* every message written: channel, the broker's verdict, the
                \* client's answer, what Publish returned
    frames,     \* by connection: the broker's frames the client has not read
    returns,    \* by connection: the buffered returns
    closed,     \* the connections that have gone
    gen,        \* Transport.generation, and with it channel
    retGen,     \* whose returns Transport.returns is
    returned,   \* Transport.returned: the returns filed, by key
    seen,       \* Transport.returnedSeen
    cancels     \* contexts that have ended

client == <<returns, retGen, returned, seen>>
vars == <<pc, cur, pubs, frames, closed, gen, client, cancels>>

Init ==
    /\ pc = [p \in Publishers |-> "idle"] /\ cur = [p \in Publishers |-> 0]
    /\ pubs = <<>>
    /\ frames = [g \in Gens |-> <<>>] /\ returns = [g \in Gens |-> <<>>]
    /\ closed = {} /\ gen = 0 /\ retGen = 0
    /\ returned = {} /\ seen = <<>> /\ cancels = 0

-----------------------------------------------------------------------------
(* Publish *)

\* acquire: a slot is free.  It is given back when Publish returns.
Acquire(p) ==
    /\ pc[p] = "idle" /\ Len(pubs) < MaxPubs
    /\ Cardinality({q \in Publishers : pc[q] # "idle"}) < Bound
    /\ pc' = [pc EXCEPT ![p] = "slot"]
    /\ UNCHANGED <<cur, pubs, frames, closed, gen, client, cancels>>

\* What the broker sends back for message n.
Answers(n, fate) ==
    CASE fate = "routed" -> <<[kind |-> "ack", n |-> n]>>
      [] fate = "unrouted" -> <<[kind |-> "return", n |-> n], [kind |-> "ack", n |-> n]>>
      [] fate = "refused" -> <<[kind |-> "nack", n |-> n]>>

\* Mutant: a write to a channel that has gone is not noticed.
SendBlindly(p, fate) ==
    LET n == Len(pubs) + 1 IN
    /\ pc[p] = "slot" /\ n <= MaxPubs
    /\ pubs' = Append(pubs, [gen |-> gen, fate |-> fate, answer |-> "none",
                             result |-> "none", swapped |-> FALSE])
    /\ frames' = IF gen \in closed THEN frames ELSE [frames EXCEPT ![gen] = @ \o Answers(n, fate)]
    /\ cur' = [cur EXCEPT ![p] = n]
    /\ pc' = [pc EXCEPT ![p] = "wait"]
    /\ UNCHANGED <<closed, gen, client, cancels>>

\* send: the channel is read and written to under the lock.
Send(p, fate) ==
    LET n == Len(pubs) + 1 IN
    /\ pc[p] = "slot" /\ gen \notin closed /\ n <= MaxPubs
    /\ pubs' = Append(pubs, [gen |-> gen, fate |-> fate, answer |-> "none",
                             result |-> "none", swapped |-> FALSE])
    /\ frames' = [frames EXCEPT ![gen] = @ \o Answers(n, fate)]
    /\ cur' = [cur EXCEPT ![p] = n]
    /\ pc' = [pc EXCEPT ![p] = "wait"]
    /\ UNCHANGED <<closed, gen, client, cancels>>

\* send on a channel that has gone, and a send there is no more room for here.
SendFails(p) ==
    /\ pc[p] = "slot" /\ (gen \in closed \/ Len(pubs) = MaxPubs)
    /\ pc' = [pc EXCEPT ![p] = "idle"]
    /\ UNCHANGED <<cur, pubs, frames, closed, gen, client, cancels>>

\* awaitConfirm: the confirmation is resolved.
Confirmed(p) ==
    /\ pc[p] = "wait" /\ pubs[cur[p]].answer # "none"
    /\ pc' = [pc EXCEPT ![p] = pubs[cur[p]].answer]
    /\ UNCHANGED <<cur, pubs, frames, closed, gen, client, cancels>>

\* What Publish says about the message p wrote, and p's slot given back.
Return(p, result, swapped) ==
    /\ pubs' = [pubs EXCEPT ![cur[p]].result = result, ![cur[p]].swapped = swapped]
    /\ pc' = [pc EXCEPT ![p] = "idle"]

\* awaitConfirm: the context is done, or the block has lasted too long.
Abandon(p) ==
    /\ pc[p] = "wait" /\ cancels < MaxCancels
    /\ cancels' = cancels + 1
    /\ Return(p, "unknown", FALSE)
    /\ UNCHANGED <<cur, frames, closed, gen, client>>

\* lostRatherThanRefused.
Judge(p) ==
    LET sent == pubs[cur[p]].gen IN
    /\ pc[p] = "nack"
    /\ Return(p, IF gen # sent \/ sent \in closed THEN "lost" ELSE "refused", FALSE)
    /\ UNCHANGED <<cur, frames, closed, gen, client, cancels>>

\* drainReturnsLocked: everything buffered is filed behind what has been seen.
Filed == seen \o returns[retGen]

\* evictOldReturnsLocked: how many of those are over the limit and are dropped,
\* the oldest first, whoever they were filed for.
Evicted == IF Len(Filed) > SeenLimit THEN Len(Filed) - SeenLimit ELSE 0

\* What the transport has after a drain.  A message is returned once, so that
\* evicting after every return comes to the same as evicting at the end.
Drained ==
    [keys |-> (returned \cup {returns[retGen][i] : i \in DOMAIN returns[retGen]})
                  \ {Filed[i] : i \in 1..Evicted},
     seen |-> SubSeq(Filed, Evicted + 1, Len(Filed))]

\* Mutant: any return that is there is taken for the message's own.
TakeAnyReturn(p) ==
    /\ pc[p] = "ack"
    /\ returns' = [returns EXCEPT ![retGen] = <<>>]
    /\ returned' = {} /\ seen' = Drained.seen
    /\ Return(p, IF Drained.keys # {} THEN "unrouted" ELSE "routed", retGen # pubs[cur[p]].gen)
    /\ UNCHANGED <<cur, frames, closed, gen, retGen, cancels>>

\* takeReturn for a message that has just been confirmed.
TakeReturn(p) ==
    LET k == cur[p] IN
    /\ pc[p] = "ack"
    /\ returns' = [returns EXCEPT ![retGen] = <<>>]
    /\ returned' = Drained.keys \ {k} /\ seen' = Drained.seen
    /\ Return(p, IF k \in Drained.keys THEN "unrouted" ELSE "routed", retGen # pubs[cur[p]].gen)
    /\ UNCHANGED <<cur, frames, closed, gen, retGen, cancels>>

-----------------------------------------------------------------------------
(* The client library and the connection *)

\* A return is handed to the transport, if there is room for it.
ReadReturn(g) ==
    /\ g \notin closed /\ frames[g] # <<>> /\ Head(frames[g]).kind = "return"
    /\ Len(returns[g]) < Bound
    /\ returns' = [returns EXCEPT ![g] = Append(@, Head(frames[g]).n)]
    /\ frames' = [frames EXCEPT ![g] = Tail(@)]
    /\ UNCHANGED <<pc, cur, pubs, closed, gen, retGen, returned, seen, cancels>>

\* A confirm resolves the message it names.
ReadConfirm(g) ==
    /\ g \notin closed /\ frames[g] # <<>> /\ Head(frames[g]).kind # "return"
    /\ pubs' = [pubs EXCEPT ![Head(frames[g]).n].answer = Head(frames[g]).kind]
    /\ frames' = [frames EXCEPT ![g] = Tail(@)]
    /\ UNCHANGED <<pc, cur, closed, gen, client, cancels>>

\* The connection goes: what was on its way is lost, and every message still
\* waiting on it is answered with a nack.
ConnectionLost ==
    /\ gen \notin closed /\ gen < MaxGen
    /\ closed' = closed \cup {gen}
    /\ frames' = [frames EXCEPT ![gen] = <<>>]
    /\ pubs' = [n \in DOMAIN pubs |->
                  IF pubs[n].gen = gen /\ pubs[n].answer = "none"
                  THEN [pubs[n] EXCEPT !.answer = "nack"] ELSE pubs[n]]
    /\ UNCHANGED <<pc, cur, gen, client, cancels>>

\* reconnectOnce: connection, channel and generation, under the channel lock.
SwapChannel ==
    /\ gen \in closed /\ retGen = gen
    /\ gen' = gen + 1
    /\ UNCHANGED <<pc, cur, pubs, frames, closed, client, cancels>>

\* reconnectOnce: the returns, under their own lock.
SwapReturns ==
    /\ retGen # gen /\ retGen' = gen
    /\ returned' = {} /\ seen' = <<>>
    /\ UNCHANGED <<pc, cur, pubs, frames, returns, closed, gen, cancels>>

PublisherStep(p) ==
    \/ Acquire(p)
    \/ \E fate \in Fates : Send(p, fate)
    \/ SendFails(p)
    \/ Confirmed(p)
    \/ Abandon(p)
    \/ Judge(p)
    \/ TakeReturn(p)

Next ==
    \/ \E p \in Publishers : PublisherStep(p)
    \/ \E g \in Gens : ReadReturn(g) \/ ReadConfirm(g)
    \/ ConnectionLost
    \/ SwapChannel
    \/ SwapReturns

Spec == Init /\ [][Next]_vars

-----------------------------------------------------------------------------
(* Properties *)

\* As many messages have been returned after n, on the same connection, as the
\* transport keeps returns.
Crowded(n) ==
    Cardinality({j \in DOMAIN pubs :
        j > n /\ pubs[j].gen = pubs[n].gen /\ pubs[j].fate = "unrouted"}) >= SeenLimit

\* What Publish reports is what the broker said: routed only when the message
\* reached a queue, unroutable only for a return of its own and never somebody
\* else's, refused only by the broker and never by the client library answering
\* for a channel that went (takeReturn, returnKey, lostRatherThanRefused).  The
\* exceptions are a publish that looks for its return between recovery's swap of
\* the channel and its swap of the returns, and one whose return others have
\* filed and then, with as many of their own as are kept, evicted before it
\* looks (evictOldReturnsLocked).
ReportedTruly ==
    \A n \in DOMAIN pubs :
        /\ pubs[n].result \in {"unrouted", "refused"} => pubs[n].fate = pubs[n].result
        /\ pubs[n].result = "routed" /\ ~pubs[n].swapped /\ ~Crowded(n) =>
             pubs[n].fate = "routed"

\* Nobody waits for what will not come: a publish waiting for its confirm has
\* its answer, or the answer is on its way on a connection that has not gone
\* (awaitConfirm); and the client's one reader does not meet a full returns
\* buffer, which would stop everybody's confirms, because a return is buffered
\* only while its publisher holds a slot (Dial).  The latter is so until a
\* context ends or a publish looks for its return on another connection.
AnswerOnItsWay ==
    /\ \A p \in Publishers : pc[p] = "wait" =>
        LET m == pubs[cur[p]] IN
        m.answer # "none" \/ \E i \in DOMAIN frames[m.gen] :
            m.gen \notin closed /\ frames[m.gen][i].n = cur[p] /\ frames[m.gen][i].kind # "return"
    /\ cancels = 0 /\ (\A n \in DOMAIN pubs : ~pubs[n].swapped) =>
        \A g \in Gens \ closed :
            ~(frames[g] # <<>> /\ Head(frames[g]).kind = "return" /\ Len(returns[g]) = Bound)

=============================================================================
