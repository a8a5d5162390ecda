-------------------------------- MODULE Wire --------------------------------
(***************************************************************************)
(* A message's life on the wire: encoded with a registered or a fixed Avro  *)
(* schema, given an envelope, read by a consumer whose CompositeCodec holds *)
(* a codec of each kind, handled under patterns.Ordered, and republished by *)
(* the engine for a retry, a dead letter or a park, or sent on by its       *)
(* handler with CarryHeaders (src/amqp/consumer.go, src/amqp/codecs.go).    *)
(***************************************************************************)
EXTENDS Envelope, AvroRegistry, Ordered

CONSTANTS Foreign,      \* headers of messages other libraries published
          Tenants,      \* values of the header messages are ordered by
          Bindings,     \* patterns the consumer's queue may be bound with
          Words,        \* the routing keys senders use, and the words of each
          MaxAttempts,  \* the retry policy's
          MaxTrouble    \* bound on lost channels, refused republishes and
                        \* failed statements

VARIABLES
    queue,      \* messages on the consumer's queue
    aside,      \* messages in its dead-letter and parked queues
    onward,     \* messages its handler sent on: the message and its source
    first,      \* by message: how it was first read
    posted,     \* by message: the headers it was published with
    binding,    \* the pattern its queue is bound with to the topic exchange
    unroutable, \* the keys of messages that reached no queue
    codecs,     \* CompositeCodec.codecs, in order
    reader,     \* ReaderSchema of the registered one, or NoSchema
    own,        \* the schema of the fixed one
    byID,       \* Codec.byID: the identifiers it has looked up
    workPc,     \* by worker
    job,        \* by worker: its delivery, as a set of at most one message
    env,        \* by worker: the envelope it read, likewise
    seen,       \* by worker: the schemas its payload was read with, likewise
    ack,        \* by worker: the handler's answer
    lost,       \* by worker: its delivery has gone back to the queue
    trouble,    \* what has gone wrong so far
    unanswered  \* the registry has failed a lookup

msgVars == <<queue, aside, onward, first, posted, unroutable>>
consumerVars == <<codecs, reader, own, binding>>
workVars == <<workPc, job, env, seen, ack, lost>>
vars == <<registryVars, lockVars, msgVars, consumerVars, workVars, byID, trouble, unanswered>>

-----------------------------------------------------------------------------
(* Topic matching in the in-memory broker (src/amqp/memory.go): patterns    *)
(* and keys are sequences of words, "*" is one word and "#" any number.     *)

\* Mutant: "#" is one word or more.
ReachedPlus(word, k, reached) ==
    IF word = "#" THEN UNION {j + 1..Len(k) : j \in reached}
    ELSE {j + 1 : j \in {i \in reached : i < Len(k) /\ word \in {"*", k[i + 1]}}}

\* topicMatches, one pattern word: the positions of the key that can be reached
\* with it from those that could be reached before it.
Reached(word, k, reached) ==
    IF word = "#" THEN UNION {j..Len(k) : j \in reached}
    ELSE {j + 1 : j \in {i \in reached : i < Len(k) /\ word \in {"*", k[i + 1]}}}

topicMatches(p, k) ==
    LET after[i \in 0..Len(p)] == IF i = 0 THEN {0} ELSE Reached(p[i], k, after[i - 1])
    IN  Len(k) \in after[Len(p)]

\* What matching means: the key can be cut into one piece for each word of the
\* pattern, in order, each piece what its word stands for.
Matches(p, k) ==
    \E cut \in [0..Len(p) -> 0..Len(k)] :
        /\ cut[0] = 0 /\ cut[Len(p)] = Len(k)
        /\ \A i \in 1..Len(p) :
            \/ p[i] = "#" /\ cut[i - 1] <= cut[i]
            \/ p[i] # "#" /\ cut[i] = cut[i - 1] + 1 /\ p[i] \in {"*", k[cut[i]]}

-----------------------------------------------------------------------------
\* A message: which it is, the routing key and message-id it came with.
Message(n, routingKey, messageID, headers, body) ==
    [n |-> n, routingKey |-> routingKey, messageID |-> messageID, headers |-> headers,
     body |-> body]

\* newID gives a reading of a message without a name one of its own.
Read(m) ==
    EnvelopeFromWire(m.headers, m.routingKey, m.messageID,
                     IF m.n \in DOMAIN first THEN "generated again" ELSE "generated")

\* The consumer's codecs, in either order, and the reader's schema if it has one.
ConsumerInit ==
    /\ codecs \in {<<"registered", "fixed">>, <<"fixed", "registered">>}
    /\ reader \in Definitions \cup {NoSchema} /\ own \in Definitions

Init ==
    /\ ConsumerInit /\ RegistryInit /\ LockInit
    /\ binding \in Bindings /\ unroutable = {}
    /\ \A c \in Codecs : ~registered[c] => schema[c] = own
    /\ \/ queue = {} /\ posted = <<>>
       \/ \E h \in Foreign, id \in {"", "their-id"}, contentType \in {"fixed", "generic"} :
            /\ posted = "foreign" :> h
            /\ queue = {Message("foreign", "orders.placed", id, h,
                             [contentType |-> contentType, id |-> 0, wrote |-> own])}
    /\ aside = {} /\ onward = {} /\ first = <<>> /\ byID = {}
    /\ workPc = [w \in Workers |-> "idle"] /\ ack = [w \in Workers |-> "none"]
    /\ job = [w \in Workers |-> {}] /\ env = [w \in Workers |-> {}]
    /\ seen = [w \in Workers |-> {}] /\ lost = [w \in Workers |-> FALSE]
    /\ trouble = 0 /\ unanswered = FALSE

-----------------------------------------------------------------------------
(* Publisher.publish: Encode, then the envelope on the wire *)

Encoding(g) ==
    /\ Encode(g)
    /\ UNCHANGED <<lockVars, msgVars, consumerVars, workVars, byID, trouble, unanswered>>

EncodeFails(g) ==
    /\ RegisterFails(g) /\ trouble < MaxTrouble /\ trouble' = trouble + 1
    /\ UNCHANGED <<lockVars, msgVars, consumerVars, workVars, byID, unanswered>>

\* memBroker.route, through a topic exchange.
route(routingKey) == topicMatches(binding, Words[routingKey])

\* memTransport.Publish, with confirms: onto the queue, or reported unroutable.
MemPublish(m) ==
    IF route(m.routingKey)
    THEN queue' = queue \cup {m} /\ posted' = m.n :> m.headers @@ posted /\ UNCHANGED unroutable
    ELSE unroutable' = unroutable \cup {m.routingKey} /\ UNCHANGED <<queue, posted>>

Publish(g) ==
    /\ At(g, "framing", "sent")
    /\ \E e \in {NewEnvelope("orders.placed", g, <<>>, "a,b", 3)} \cup
               {NewEnvelope("orders.placed", g, "x-tenant" :> v, "", 3) : v \in Tenants},
          routingKey \in DOMAIN Words :
        MemPublish(Message(g, routingKey, g, ToWire(e), Framed(g)))
    /\ UNCHANGED <<codecVars, schemaID, mu, rows, count, overlapped, lockVars, aside, onward,
                   first, consumerVars, workVars, byID, trouble, unanswered>>

-----------------------------------------------------------------------------
(* The consumer *)

Only(s) == CHOOSE x \in s : TRUE
Goto(w, l) == workPc' = [workPc EXCEPT ![w] = l]

\* handleDelivery: the envelope comes off the wire.
Take(w, m) ==
    /\ workPc[w] = "idle" /\ m \in queue /\ queue' = queue \ {m}
    /\ job' = [job EXCEPT ![w] = {m}] /\ env' = [env EXCEPT ![w] = {Read(m)}]
    /\ first' = IF m.n \in DOMAIN first THEN first ELSE m.n :> Read(m) @@ first
    /\ Goto(w, "decode")
    /\ UNCHANGED <<registryVars, lockVars, aside, onward, posted, unroutable, consumerVars, seen, ack, lost, byID,
                   trouble, unanswered>>

\* Codec.CanDecode: the content types of the two modes, and the generic ones
\* (application/avro and +avro), which either mode takes.
CanDecode(codec, contentType) == contentType \in {codec, "generic"}

\* CompositeCodec.DecodeAs: the first that claims it.
Chosen(contentType) ==
    LET claims == {i \in DOMAIN codecs : CanDecode(codecs[i], contentType)} IN
    codecs[CHOOSE i \in claims : \A j \in claims : i <= j]

\* Codec.Decode with the writer's schema, resolved onto the reader's.
DecodeWith(w, writer) ==
    /\ \/ reader = NoSchema /\ seen' = [seen EXCEPT ![w] = {<<writer, writer>>}] /\ Goto(w, "decoded")
       \/ reader # NoSchema /\ <<reader, writer>> \in Readable
          /\ seen' = [seen EXCEPT ![w] = {<<writer, reader>>}] /\ Goto(w, "decoded")
       \/ reader # NoSchema /\ <<reader, writer>> \notin Readable
          /\ UNCHANGED seen /\ Goto(w, "park")

\* Codec.Decode, as far as the caches go.
Decode(w) ==
    LET body == Only(job[w]).body IN
    /\ workPc[w] = "decode"
    /\ \/ /\ Chosen(body.contentType) = "fixed"
          /\ seen' = [seen EXCEPT ![w] = {IF body.id = 0 THEN <<own, own>> ELSE <<"shifted", own>>}]
          /\ Goto(w, "decoded")
       \/ Chosen(body.contentType) = "registered" /\ body.id = 0 /\ Goto(w, "park") /\ UNCHANGED seen
       \/ Chosen(body.contentType) = "registered" /\ body.id \in byID \ {0}
          /\ DecodeWith(w, rows[body.id].definition)
       \/ Chosen(body.contentType) = "registered" /\ body.id \notin byID \cup {0}
          /\ Goto(w, "lookup") /\ UNCHANGED seen
    /\ UNCHANGED <<registryVars, lockVars, msgVars, consumerVars, job, env, ack, lost, byID,
                   trouble, unanswered>>

\* schemaByID: ByID of the registry, remembered.
SchemaByID(w) ==
    LET id == Only(job[w]).body.id IN
    /\ workPc[w] = "lookup"
    /\ byID' = byID \cup {id} /\ DecodeWith(w, rows[id].definition)
    /\ UNCHANGED <<registryVars, lockVars, msgVars, consumerVars, job, env, ack, lost, trouble,
                   unanswered>>

\* The registry cannot be asked, which the engine takes for an unreadable body.
LookupFails(w) ==
    /\ workPc[w] = "lookup" /\ trouble < MaxTrouble /\ trouble' = trouble + 1
    /\ unanswered' = TRUE /\ Goto(w, "park")
    /\ UNCHANGED <<registryVars, lockVars, msgVars, consumerVars, job, env, seen, ack, lost, byID>>

\* ByHeader("x-tenant"): bytes are another key than the text they spell.
Key(w) ==
    LET headers == Only(env[w]).headers
    IN  IF "x-tenant" \in DOMAIN headers THEN Sprint(headers["x-tenant"]) ELSE NoKey

\* Ordered: in under the key's lock, or straight in without a key.
Enter(w) ==
    /\ workPc[w] = "decoded"
    /\ \/ Key(w) = NoKey /\ Goto(w, "handling") /\ UNCHANGED lockVars
       \/ \E k \in Keys : Key(w) = k /\ LockEnter(w, k) /\ Goto(w, "locking")
    /\ UNCHANGED <<registryVars, msgVars, consumerVars, job, env, seen, ack, lost, byID, trouble,
                   unanswered>>

Locked(w) ==
    /\ workPc[w] = "locking" /\ LockTake(w) /\ Goto(w, "handling")
    /\ UNCHANGED <<registryVars, msgVars, consumerVars, job, env, seen, ack, lost, byID, trouble,
                   unanswered>>

\* The handler answers, and Ordered's deferred unlock runs.
Handled(w, a) ==
    /\ workPc[w] = "handling" /\ ack' = [ack EXCEPT ![w] = a]
    /\ \/ Key(w) = NoKey /\ Goto(w, "settle") /\ UNCHANGED lockVars
       \/ Key(w) # NoKey /\ Unlock(w) /\ Goto(w, "unlocking")
    /\ onward' = IF a # "forward" THEN onward
                 ELSE onward \cup {<<ToWire(CarriedFrom(Only(env[w]), "hop", 9)), Only(job[w]).n>>}
    /\ UNCHANGED <<registryVars, queue, aside, first, posted, unroutable, consumerVars, job, env, seen, lost, byID,
                   trouble, unanswered>>

Unlocked(w) ==
    /\ workPc[w] = "unlocking" /\ Forget(w) /\ Goto(w, "settle")
    /\ UNCHANGED <<registryVars, msgVars, consumerVars, job, env, seen, ack, lost, byID, trouble,
                   unanswered>>

\* The worker is done with its delivery.
Done(w) ==
    /\ Goto(w, "idle") /\ job' = [job EXCEPT ![w] = {}] /\ env' = [env EXCEPT ![w] = {}]
    /\ seen' = [seen EXCEPT ![w] = {}] /\ ack' = [ack EXCEPT ![w] = "none"]
    /\ lost' = [lost EXCEPT ![w] = FALSE]

\* republish: the body and content type as they came, the envelope rewritten.
Republished(m, e) == Message(m.n, "orders", e.id, ToWire(e), m.body)

\* settle: accepted, put back with its attempt counted, or set aside.  For a
\* delivery that is no longer its own, the acknowledgement is void.
Settle(w) ==
    LET m == Only(job[w])
        e == Only(env[w])
        again == ack[w] = "retry" /\ e.attempt < MaxAttempts
        failed == [e EXCEPT !.text["error"] = "reason"]
    IN
    /\ \/ workPc[w] = "settle" /\ ack[w] \in {"accept", "forward"} /\ UNCHANGED <<queue, aside>>
       \/ /\ workPc[w] = "settle" /\ again
          /\ queue' = queue \cup {Republished(m, NextAttempt(e))} /\ UNCHANGED aside
       \/ /\ workPc[w] = "park" \/ (workPc[w] = "settle" /\ ack[w] = "retry" /\ ~again)
          /\ aside' = aside \cup {Republished(m, failed)} /\ UNCHANGED queue
    /\ Done(w)
    /\ UNCHANGED <<registryVars, lockVars, onward, first, posted, unroutable, consumerVars, byID, trouble, unanswered>>

\* The republish is refused: the delivery goes back as it was.
SettleFails(w) ==
    /\ workPc[w] = "park" \/ (workPc[w] = "settle" /\ ack[w] = "retry")
    /\ trouble < MaxTrouble /\ trouble' = trouble + 1
    /\ queue' = (IF lost[w] THEN queue ELSE queue \cup job[w]) /\ Done(w)
    /\ UNCHANGED <<registryVars, lockVars, aside, onward, first, posted, unroutable, consumerVars, byID, unanswered>>

\* The channel goes: the delivery is on the queue again while it is handled.
ChannelLost(w) ==
    /\ job[w] # {} /\ ~lost[w] /\ trouble < MaxTrouble /\ trouble' = trouble + 1
    /\ lost' = [lost EXCEPT ![w] = TRUE] /\ queue' = queue \cup job[w]
    /\ UNCHANGED <<registryVars, lockVars, aside, onward, first, posted, unroutable, consumerVars, workPc, job, env,
                   seen, ack, byID, unanswered>>

Work(w) ==
    \/ \E m \in queue : Take(w, m)
    \/ Decode(w)
    \/ SchemaByID(w)
    \/ LookupFails(w)
    \/ Enter(w)
    \/ Locked(w)
    \/ \E a \in {"accept", "retry", "forward"} : Handled(w, a)
    \/ Unlocked(w)
    \/ Settle(w)
    \/ SettleFails(w)
    \/ ChannelLost(w)

Next ==
    \/ \E g \in Senders : Encoding(g) \/ EncodeFails(g) \/ Publish(g)
    \/ \E w \in Workers : Work(w)

Spec == Init /\ [][Next]_vars

-----------------------------------------------------------------------------
(* Properties *)

\* What the engine parks with reason: it cannot be resolved onto the reader's
\* schema, or says no more than that it is Avro to a codec for frames.
Unreadable(body) ==
    \/ body.contentType = "registered" /\ reader # NoSchema /\ <<reader, body.wrote>> \notin Readable
    \/ body.contentType = "generic" /\ codecs[1] = "registered"

\* A payload is read with the schema it was written with, resolved onto the
\* reader's if there is one, whichever processes registered what at the same
\* time and whichever codec is offered it first; what is parked is unreadable,
\* or the registry could not be asked; and versions count from one unless two
\* definitions were registered at once (currentID, schemaByID, CanDecode,
\* Register).
ReadAsWritten ==
    /\ \A w \in Workers : \A s \in seen[w] :
        LET body == Only(job[w]).body IN
        s = <<body.wrote, IF body.id = 0 \/ reader = NoSchema THEN body.wrote ELSE reader>>
    /\ \A w \in Workers : workPc[w] = "park" =>
        unanswered \/ Unreadable(Only(job[w]).body)
    /\ ~overlapped => \A i \in DOMAIN rows : rows[i].version = i

Matching == {b \in Bindings \X DOMAIN Words : Matches(b[1], Words[b[2]])}

\* A message reaches the queue exactly if the words of its key can be divided
\* among those of the binding, as AMQP has it (route, topicMatches).
RoutedAsBound ==
    /\ \A key \in unroutable : <<binding, key>> \notin Matching
    /\ \A m \in queue : m.n \in Senders \ DOMAIN first => <<binding, m.routingKey>> \in Matching

\* However often a message goes round, is put back, set aside or delivered
\* again, it is read as it was first read, in its identity, first-seen and
\* route, and has the headers of the application and of newer libraries it was
\* published with; and so has what is sent on with CarryHeaders
\* (EnvelopeFromWire, ToWire, CarryHeaders).
HeadersSurvive ==
    LET others(h) == Restrict(h, DOMAIN h \cap (Application \cup Unmaterialised)) IN
    /\ \A m \in queue \cup aside :
        /\ others(m.headers) = others(posted[m.n])
        /\ m.n \in DOMAIN first => SameMessage(Read(m), first[m.n], first[m.n].id # "generated")
    /\ \A o \in onward :
        /\ others(o[1]) = others(posted[o[2]])
        /\ Carries(EnvelopeFromWire(o[1], "next", "", ""), first[o[2]])

=============================================================================
