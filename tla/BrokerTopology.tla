--------------------------- MODULE BrokerTopology ---------------------------
(***************************************************************************)
(* A topology as a value that is built up, checked and turned into the     *)
(* declarations it makes, and the broker those declarations are made on,   *)
(* one at a time and in between those of others.                           *)
(*                                                                         *)
(* A queue is named by what it is for and the number of the queue it       *)
(* belongs to; what it is declared with is its type, its time to live in   *)
(* milliseconds and where it dead-letters to.                              *)
(***************************************************************************)
EXTENDS Integers, Sequences, FiniteSets

CONSTANT Service            \* the processes that declare things

VARIABLES exchanges,        \* the exchanges that exist
          queues,           \* the queues that exist, and what they are
          bindings,         \* <<queue, exchange, key>>
          todo,             \* service -> the declarations it has yet to make
          refused           \* services told a queue is not what they asked for

brokerVars == <<exchanges, queues, bindings, todo, refused>>

Source == <<"queue", 1>>
Control == <<"queue", 2>>
Target == <<"queue", 3>>
Nowhere == <<"nowhere", 0>>

DeadLetterQueue(queue) == <<"dlq", queue[2]>>
ParkedQueue(queue) == <<"parked", queue[2]>>

Forever == -1
Plain(type) == [type |-> type, ttl |-> Forever, exchange |-> "none", key |-> Nowhere]
TTL(ttl, exchange, key) == [type |-> "classic", ttl |-> ttl, exchange |-> exchange, key |-> key]

-----------------------------------------------------------------------------
NewTopology == [exchanges |-> <<>>, queues |-> <<>>, bindings |-> <<>>,
                deadLettered |-> {}, err |-> FALSE]

Names(seq) == {seq[i].name : i \in DOMAIN seq}

Exchange(t, name) ==
    IF t.err THEN t ELSE [t EXCEPT !.exchanges = Append(@, [name |-> name])]

EnsureExchange(t, name) == IF name \in Names(t.exchanges) THEN t ELSE Exchange(t, name)

Binding(t, queue, exchange, key) ==
    IF t.err THEN t ELSE [t EXCEPT !.bindings = Append(@, <<queue, exchange, key>>)]

\* stampDeadLetter: refused on a queue that dead-letters somewhere already.
Stamp(t, i) ==
    IF t.queues[i].spec.exchange # "none" THEN [t EXCEPT !.err = TRUE]
    ELSE [t EXCEPT !.queues[i].spec.exchange = "acemq.dlx",
                   !.queues[i].spec.key = DeadLetterQueue(t.queues[i].name)]

Queue(t, name, spec) ==
    LET added == [t EXCEPT !.queues = Append(@, [name |-> name, spec |-> spec])]
    IN  IF t.err THEN t
        ELSE IF name \in t.deadLettered THEN Stamp(added, Len(added.queues))
        ELSE added

DeadLetters(t, queue) ==
    LET noted == EnsureExchange([t EXCEPT !.deadLettered = @ \union {queue}], "acemq.dlx")
        holding(u, name) ==
            Binding(Queue(u, name, Plain("classic")), name, "acemq.dlx", name)
        both == holding(holding(noted, DeadLetterQueue(queue)), ParkedQueue(queue))
        there == {i \in DOMAIN both.queues : both.queues[i].name = queue}
    IN  IF t.err \/ queue \in t.deadLettered THEN t
        ELSE IF there = {} THEN both
        ELSE Stamp(both, CHOOSE i \in there : \A j \in there : i <= j)

\* Retries: rungs is the ladder, a sequence of <<queue, what it is>>.
Retries(t, queue, rungs) ==
    LET with[i \in 0..Len(rungs)] ==
            IF i = 0 THEN EnsureExchange(t, "acemq.retry")
            ELSE Queue(with[i - 1], rungs[i][1], rungs[i][2])
    IN  IF t.err \/ rungs = <<>> THEN t
        ELSE Binding(with[Len(rungs)], queue, "acemq.retry", queue)

Once(seq) == Cardinality(Names(seq)) = Len(seq)

Validate(t) ==
    /\ ~t.err
    /\ Once(t.queues) /\ Once(t.exchanges)
    /\ t.deadLettered \subseteq Names(t.queues)
    /\ \A i \in DOMAIN t.bindings :
            t.bindings[i][1] \in Names(t.queues) /\ t.bindings[i][2] \in Names(t.exchanges)

DeclareExchangeOp(name) == [op |-> "exchange", name |-> name]
DeclareQueueOp(name, spec) == [op |-> "queue", name |-> name, spec |-> spec]
BindOp(b) == [op |-> "bind", name |-> b[1], exchange |-> b[2], key |-> b[3]]

\* The declarations Apply makes: exchanges, queues, then bindings.
Apply(t) ==
    IF ~Validate(t) THEN <<>>
    ELSE [i \in DOMAIN t.exchanges |-> DeclareExchangeOp(t.exchanges[i].name)]
         \o [i \in DOMAIN t.queues |-> DeclareQueueOp(t.queues[i].name, t.queues[i].spec)]
         \o [i \in DOMAIN t.bindings |-> BindOp(t.bindings[i])]

-----------------------------------------------------------------------------
BrokerInit ==
    /\ exchanges = {"default"}
    /\ queues = << >> /\ bindings = {}
    /\ refused = {}

Exists(queue) == queue \in DOMAIN queues

With(name, spec) == [q \in DOMAIN queues \union {name} |-> IF q = name THEN spec ELSE queues[q]]

\* sameQueue and the broker's own rule: to declare what exists is to agree
\* with it or to be refused.
Agrees(op) == Exists(op.name) => queues[op.name] = op.spec

\* What a dry run says of a queue of the topology, and what a Check reports.
DryRun(t, i) ==
    LET op == DeclareQueueOp(t.queues[i].name, t.queues[i].spec)
    IN  IF ~Exists(op.name) THEN "create" ELSE IF Agrees(op) THEN "matches" ELSE "differs"

Drift(t) == {i \in DOMAIN t.queues : DryRun(t, i) = "differs"}

Bindable(op) == Exists(op.name) /\ op.exchange \in exchanges

DeclareExchange(op) ==
    /\ op.op = "exchange"
    /\ exchanges' = exchanges \union {op.name}
    /\ UNCHANGED <<queues, bindings>>

DeclareQueue(op) ==
    /\ op.op = "queue" /\ Agrees(op)
    /\ queues' = With(op.name, op.spec)
    /\ UNCHANGED <<exchanges, bindings>>

Bind(op) ==
    /\ op.op = "bind" /\ Bindable(op)
    /\ bindings' = bindings \union {<<op.name, op.exchange, op.key>>}
    /\ UNCHANGED <<exchanges, queues>>

\* One declaration of a service's, done.
Declare(s) ==
    /\ todo[s] # <<>>
    /\ LET op == Head(todo[s]) IN DeclareExchange(op) \/ DeclareQueue(op) \/ Bind(op)
    /\ todo' = [todo EXCEPT ![s] = Tail(@)]
    /\ UNCHANGED refused

\* One that is refused; the ones after it are not made.
DeclareFails(s) ==
    /\ todo[s] # <<>>
    /\ LET op == Head(todo[s])
       IN  \/ /\ op.op = "queue" /\ ~Agrees(op)
              /\ refused' = refused \union {s}
           \/ /\ op.op = "bind" /\ ~Bindable(op)
              /\ UNCHANGED refused
    /\ todo' = [todo EXCEPT ![s] = <<>>]
    /\ UNCHANGED <<exchanges, queues, bindings>>

\* DeleteQueue; the broker drops the queue's bindings with it.
DeleteQueue(name) ==
    /\ Exists(name)
    /\ queues' = [q \in DOMAIN queues \ {name} |-> queues[q]]
    /\ bindings' = {b \in bindings : b[1] # name}
    /\ UNCHANGED <<exchanges, todo, refused>>

\* Where a publish goes: by name through the default exchange, else by key.
RouteTo(exchange, key) ==
    IF exchange = "default" THEN {key} \intersect DOMAIN queues
    ELSE {b[1] : b \in {c \in bindings : c[2] = exchange /\ c[3] = key}}

\* Where the broker puts a message a queue has given up.
DeadLetterTargets(queue) == RouteTo(queues[queue].exchange, queues[queue].key)
=============================================================================
