----------------------------- MODULE FlowQueues -----------------------------
(***************************************************************************)
(* The queues the steps of a pipeline read, with their dead-letter queues  *)
(* and the place for messages nobody can read.  A message is what the      *)
(* consuming engine (module Consumer) hands on: the run it belongs to, its *)
(* slip, its body and its attempt.  Settling is by outcome.                *)
(***************************************************************************)
EXTENDS Naturals, Sequences, FiniteSets

CONSTANTS Run,          \* what is sent through the pipeline
          N,            \* how many steps it has
          MaxAttempts,  \* of the retry policy
          MaxTrouble    \* bound on failures and crashes

ASSUME FlowAssumption == N \in Nat \ {0} /\ MaxAttempts \in Nat \ {0} /\ MaxTrouble \in Nat

VARIABLES
    ready,      \* by place: the messages waiting there, a bag
    declared,   \* steps whose queue exists and is bound
    trouble     \* failures so far

Step == 1..N
Names == [k \in Step |-> k]

Queue(k) == <<"queue", k>>
Dead(k) == <<"dlq", k>>
Parked == <<"parked", 0>>
Place == {Queue(k) : k \in Step} \union {Dead(k) : k \in Step} \union {Parked}

\* What is in one place: by message, how many copies of it.
Nothing == [m \in {} |-> 0]
Copies(bag, m) == IF m \in DOMAIN bag THEN bag[m] ELSE 0
Joined(bag, other) ==
    [m \in DOMAIN bag \union DOMAIN other |-> Copies(bag, m) + Copies(other, m)]
Plus(bag, m) == Joined(bag, [e \in {m} |-> 1])
Minus(bag, m) ==
    [e \in {d \in DOMAIN bag : d # m \/ bag[d] > 1} |-> IF e = m THEN bag[e] - 1 ELSE bag[e]]

QueuesInit ==
    /\ ready = [p \in Place |-> Nothing]
    /\ declared = {} /\ trouble = 0

\* All places, with one message more in one of them, and with one less.
With(bags, p, m) == [bags EXCEPT ![p] = Plus(@, m)]
Without(bags, p, m) == [bags EXCEPT ![p] = Minus(@, m)]

At(p) == DOMAIN ready[p]

\* Something fails, as often as the bound allows.
Trouble == trouble < MaxTrouble /\ trouble' = trouble + 1
-----------------------------------------------------------------------------
(* The routing slip a message carries: where it has been and where it is   *)
(* still to go.  A step is its name, which is also where it is published.  *)
(* On the wire a slip takes one of two forms: one JSON header holding both *)
(* lists, or the names of the declared route with a position in it.        *)

\* What a message may carry: a JSON slip, the text of none, or a route.
NoSlip == [kind |-> "absent"]
Garbled == [kind |-> "garbled"]
NoHeaders == [json |-> NoSlip, names |-> <<>>, position |-> 0]

Slip(form, done, todo) == [kind |-> form, done |-> done, todo |-> todo]

\* Route.Start: a run of a declared route, nothing done yet.
RouteStart(names) == Slip("steps", <<>>, names)

\* The step to go to next; only asked of a slip that has one.
More(slip) == slip.todo # <<>>
NextStep(slip) == Head(slip.todo)

\* A slip advanced by two, as when both the step and its runner mark it done.
AdvanceTwice(slip) ==
    LET n == IF Len(slip.todo) < 2 THEN Len(slip.todo) ELSE 2
    IN  [slip EXCEPT !.done = @ \o SubSeq(slip.todo, 1, n),
                     !.todo = SubSeq(@, n + 1, Len(@))]

\* RoutingSlip.Advance: the first step moves from what is left to what is
\* done; a slip with nothing left stays as it is.
Advance(slip) ==
    IF More(slip) THEN [slip EXCEPT !.done = Append(@, Head(slip.todo)), !.todo = Tail(@)]
                  ELSE slip

\* As Advance, n times over: the slip of a message that came in at the n-th step.
AdvancedTo(slip, n) ==
    [slip EXCEPT !.done = SubSeq(slip.todo, 1, n), !.todo = SubSeq(@, n + 1, Len(@))]

\* AsJSON: the same slip, written as the JSON header.
AsJSON(slip) == [slip EXCEPT !.kind = "json"]

\* CarryHeaders and then HeaderOptions: what the next message carries, given
\* the headers of this one.  The application's own headers come along, a JSON
\* slip among them; the route's do not, and the slip's form decides what is
\* written over them.
Onwards(headers, slip) ==
    IF slip.kind = "steps"
    THEN [headers EXCEPT !.names = slip.done \o slip.todo, !.position = Len(slip.done)]
    ELSE [json |-> slip, names |-> <<>>, position |-> 0]

HeaderOptions(slip) == Onwards(NoHeaders, slip)

\* SlipFrom: the JSON slip when there is one, readable or not, else the route
\* with its position held within it, else none.
SlipFrom(headers) ==
    LET n == Len(headers.names)
        at == IF headers.position > n THEN n ELSE headers.position
    IN  IF headers.json.kind # "absent" THEN headers.json
        ELSE IF n = 0 THEN NoSlip
        ELSE Slip("steps", SubSeq(headers.names, 1, at), SubSeq(headers.names, at + 1, n))
=============================================================================
