----------------------------- MODULE FlowProofs -----------------------------
(***************************************************************************)
(* Proofs about the pipeline with its claim-checked payloads and the replay *)
(* of its dead letters, for any number of runs, steps, consumers, attempts, *)
(* faults and replays: no run that was sent is lost, work is done in the    *)
(* order of the route, and nothing is parked while its payload is kept.     *)
(***************************************************************************)
EXTENDS Flow, Integers, SequenceTheorems, TLAPS

\* Most leaves are matters of logic and sets: Zenon is tried first, then SMT.
USE ZenonT(10), SMTT(20)

-----------------------------------------------------------------------------
(* The inductive invariant *)

\* The slip of a run that is at step k: what is before it done, the rest to do.
Behind(k) == SubSeq(Names, 1, k - 1)
Ahead(k) == SubSeq(Names, k, N)
SlipOf(kind, k) == Slip(kind, Behind(k), Ahead(k))

\* What a message on its way to step k may carry: something unreadable, nothing,
\* the route with its position, or the JSON slip.
HeadersAt(k) ==
    {[json |-> Garbled, names |-> <<>>, position |-> 0], NoHeaders,
     [json |-> NoSlip, names |-> Names, position |-> k - 1],
     [json |-> SlipOf("json", k), names |-> <<>>, position |-> 0]}

\* A message belongs at step k: its slip says so, and the work before is done.
Fits(m, k) ==
    /\ m \in [run : Run, headers : HeadersAt(k), body : {Inline} \cup Nat, attempt : Nat]
    /\ first[m.run] \in 1..k
    /\ \A j \in Step : first[m.run] <= j /\ j < k => j \in worked[m.run]

Types ==
    /\ declared \subseteq Step /\ minted \in Nat /\ at \in Step /\ from \in Step
    /\ pc \in [Worker -> {"off", "idle", "work", "send", "settle"}]
    /\ held = [w \in Worker |-> held[w]] /\ out = [w \in Worker |-> out[w]]
    /\ verdict = [w \in Worker |-> verdict[w]]
    /\ first \in [Run -> 0..N] /\ sent \subseteq Run
    /\ worked \in [Run -> SUBSET Step] /\ fate = [r \in Run |-> fate[r]]

\* Every place has a bag.
IsBags(bags) == bags = [p \in Place |-> bags[p]]
Bagged == IsBags(ready)

\* A consumer has one delivery while it is busy and none otherwise, and so has
\* the replay.
Holding ==
    /\ \A w \in Worker : IF pc[w] \in {"off", "idle"} THEN held[w] = {}
                                                      ELSE \E m : held[w] = {m}
    /\ IF phase \in {"publish", "ack"} THEN \E m : pulled = {m} ELSE pulled = {}
    /\ phase = "idle" => DOMAIN declined = {}

\* Groups start in order, and their consumers too.
InTurn ==
    /\ stage \in {"declare", "start", "run", "failing", "closing", "closed", "down"}
    /\ stage \in {"declare", "down"} => \A w \in Worker : pc[w] = "off"
    /\ stage = "start" =>
        /\ \A w \in Worker : w[1] > at => pc[w] = "off"
        /\ \E n \in 0..(Size - 1) : Up(at) = 1..n

\* Messages are where their slips say, and so are those about to be sent.
Placed ==
    /\ \A k \in Step : \A m \in At(Queue(k)) \cup At(Dead(k)) : Fits(m, k)
    /\ \A w \in Worker : \A m \in held[w] : Fits(m, w[1])
    /\ \A m \in pulled \cup DOMAIN declined : Fits(m, from)

SendsOn(w, m) ==
    /\ w[1] < N /\ w[1] \in worked[m.run]
    /\ \/ out[w] = SlipOf("json", w[1] + 1)
       \/ out[w] = SlipOf("steps", w[1] + 1) /\ m.headers.json = NoSlip

Sends == \A w \in Worker : pc[w] = "send" => \A m \in held[w] : SendsOn(w, m)

\* Work is done in order, and within the route.
InOrder ==
    /\ \A r \in Run : \A k \in worked[r] : first[r] <= k
    /\ \A r \in Run : first[r] = 0 => worked[r] = {} /\ fate[r] = {}
    /\ \A r \in Run : \A k \in worked[r] : \A j \in Step : first[r] <= j /\ j < k => j \in worked[r]
    /\ \A r \in Run : "completed" \in fate[r] =>
            \A j \in Step : first[r] <= j => j \in worked[r]

\* A message that may be delivered is at a place, or with a consumer or the replay.
Reach(m) ==
    \/ \E p \in Place : m \in At(p)
    \/ \E w \in Worker : m \in held[w]
    \/ m \in pulled \/ m \in DOMAIN declined

\* A body that carries its payload, or a key that was handed out.
Known(body) == body = Inline \/ body \in 1..minted

\* What may be delivered refers to what was put in the store, and what is
\* parked, or about to be, to what the store no longer has.
Readable ==
    /\ \A m : Reach(m) => Known(m.body)
    /\ \A w \in Worker : pc[w] = "settle" /\ verdict[w] = "park" => \A m \in held[w] : Gone(m.body)
    /\ \A m \in At(Parked) : Gone(m.body)

\* A copy that nothing is about to throw away.
Alive(m) ==
    \/ \E p \in Place : m \in At(p)
    \/ \E w \in Worker : m \in held[w] /\ ~(pc[w] = "settle" /\ verdict[w] = "accept")
    \/ m \in pulled /\ phase # "ack"
    \/ m \in DOMAIN declined

Accounted == \A r \in sent : fate[r] # {} \/ \E m : Alive(m) /\ m.run = r

IInv == Types /\ Bagged /\ Holding /\ InTurn /\ Placed /\ Sends /\ InOrder /\ Readable /\ Accounted

-----------------------------------------------------------------------------
(* The route, its slips and its queues *)

\* The names of the route are the steps, in order.
LEMMA Route == /\ Names \in Seq(Step) /\ Len(Names) = N /\ N \in Nat \ {0}
               /\ \A k \in Step : Names[k] = k
<1>1. N \in Nat \ {0}
  BY FlowAssumption
<1>2. Names \in [1..N -> Step] /\ \A k \in Step : Names[k] = k
  BY <1>1 DEF Names, Step
<1>. QED  BY <1>1, <1>2, SeqDef, SMT DEF Step

\* What is done of the route and what is left of it, step by step.
LEMMA Halves ==
    /\ Behind(1) = <<>> /\ Ahead(1) = Names /\ Ahead(N + 1) = <<>>
    /\ \A k \in Step :
        /\ Behind(k) \in Seq(Step) /\ Len(Behind(k)) = k - 1 /\ Ahead(k) \in Seq(Step)
        /\ Ahead(k) # <<>> /\ Head(Ahead(k)) = k /\ Tail(Ahead(k)) = Ahead(k + 1)
        /\ Append(Behind(k), k) = Behind(k + 1) /\ Behind(k) \o Ahead(k) = Names
<1>1. Behind(1) = <<>> /\ Ahead(N + 1) = <<>>
  BY Route, SubSeqEmpty DEF Behind, Ahead
<1>2. Ahead(1) = Names
  BY Route, SubSeqFull DEF Ahead
<1>3. ASSUME NEW k \in Step
      PROVE  /\ Behind(k) \in Seq(Step) /\ Len(Behind(k)) = k - 1 /\ Ahead(k) \in Seq(Step)
             /\ Ahead(k) # <<>> /\ Head(Ahead(k)) = k /\ Tail(Ahead(k)) = Ahead(k + 1)
             /\ Append(Behind(k), k) = Behind(k + 1) /\ Behind(k) \o Ahead(k) = Names
  <2>0. /\ k \in 1..Len(Names) /\ k \in Nat /\ N \in k..Len(Names) /\ k - 1 \in Int
        /\ 1 \in 1..(Len(Names) + 1) /\ k - 1 \in (1 - 1)..Len(Names) /\ N \in (k - 1)..Len(Names)
        /\ 1 \in 1..Len(Names) /\ k \in 1..Len(Names)
    BY Route, SMT DEF Step
  <2>1. Behind(k) \in Seq(Step) /\ Len(Behind(k)) = k - 1
    <3>1. \A i \in 1..(k - 1) : Names[i] \in Step
      BY <2>0, Route, SMT DEF Step
    <3>. QED  BY <2>0, <3>1, SubSeqProperties DEF Behind
  <2>2. Ahead(k) \in Seq(Step) /\ Ahead(k) # <<>>
    <3>1. \A i \in k..N : Names[i] \in Step
      BY <2>0, Route, SMT DEF Step
    <3>2. Ahead(k) \in Seq(Step) /\ Len(Ahead(k)) = N - k + 1
      BY <2>0, <3>1, Route, SubSeqProperties DEF Ahead
    <3>3. Len(Ahead(k)) # 0
      BY <2>0, <3>2, Route
    <3>4. Len(<<>>) = 0
      OBVIOUS
    <3>. QED  BY <3>2, <3>3, <3>4
  <2>3. Head(Ahead(k)) = k /\ Tail(Ahead(k)) = Ahead(k + 1)
    BY <2>0, Route, HeadTailOfSubSeq DEF Ahead
  <2>4. Append(Behind(k), k) = Behind(k + 1)
    <3>1. SubSeq(Names, 1, k) = SubSeq(Names, 1, k - 1) \o <<Names[k]>>
      BY <2>0, Route, SubSeqRecursiveSecond
    <3>2. Append(Behind(k), k) = Behind(k) \o <<k>>
      BY <2>1, AppendIsConcat
    <3>3. Names[k] = k /\ (k + 1) - 1 = k
      BY <2>0, Route, SMT
    <3>4. Behind(k + 1) = SubSeq(Names, 1, k)
      <4>1. \A n : n = k => SubSeq(Names, 1, n) = SubSeq(Names, 1, k)
        BY Zenon
      <4>2. SubSeq(Names, 1, (k + 1) - 1) = SubSeq(Names, 1, k)
        BY <3>3, <4>1, Zenon
      <4>. QED  BY <4>2, Zenon DEF Behind
    <3>5. Behind(k + 1) = Behind(k) \o <<k>>
      BY <3>1, <3>3, <3>4, Zenon DEF Behind
    <3>. QED  BY <3>2, <3>5, Zenon
  <2>5. Behind(k) \o Ahead(k) = Names
    <3>1. SubSeq(Names, 1, k - 1) \o SubSeq(Names, k - 1 + 1, N) = SubSeq(Names, 1, N)
      BY <2>0, Route, ConcatAdjacentSubSeq
    <3>2. SubSeq(Names, 1, N) = Names
      BY Route, SubSeqFull
    <3>3. k - 1 + 1 = k
      BY <2>0
    <3>. QED  BY <3>1, <3>2, <3>3, Zenon DEF Behind, Ahead
  <2>. QED  BY <2>1, <2>2, <2>3, <2>4, <2>5
<1>. QED  BY <1>1, <1>2, <1>3, Zenon

\* A slip is advanced by one step, and says which is next as long as there is one.
LEMMA SlipMoves ==
    ASSUME NEW kind, NEW k \in Step
    PROVE  /\ More(SlipOf(kind, k)) /\ NextStep(SlipOf(kind, k)) = k
           /\ Advance(SlipOf(kind, k)) = SlipOf(kind, k + 1)
           /\ More(SlipOf(kind, k + 1)) <=> k < N
<1>. DEFINE s == SlipOf(kind, k)
            t == SlipOf(kind, k + 1)
<1>0. k \in Nat /\ k <= N /\ N \in Nat \ {0} /\ (k < N => k + 1 \in Step) /\ (~(k < N) => k = N)
  BY Route, SMT DEF Step
<1>1. /\ s = [kind |-> kind, done |-> Behind(k), todo |-> Ahead(k)]
      /\ t = [kind |-> kind, done |-> Behind(k + 1), todo |-> Ahead(k + 1)]
  BY Zenon DEF SlipOf, Slip
<1>. HIDE DEF s, t
<1>2. s.todo = Ahead(k) /\ s.done = Behind(k) /\ t.todo = Ahead(k + 1)
  BY <1>1
<1>3. s.todo # <<>> /\ Head(s.todo) = k
  BY <1>2, Halves
<1>4. [s EXCEPT !.done = Append(s.done, Head(s.todo)), !.todo = Tail(s.todo)]
      = [kind |-> kind, done |-> Append(s.done, Head(s.todo)), todo |-> Tail(s.todo)]
  <2>1. ASSUME NEW a, NEW b
        PROVE  [s EXCEPT !.done = a, !.todo = b] = [kind |-> kind, done |-> a, todo |-> b]
    <3>1. [s EXCEPT !.done = a] = [kind |-> kind, done |-> a, todo |-> Ahead(k)]
      BY <1>1
    <3>2. [[kind |-> kind, done |-> a, todo |-> Ahead(k)] EXCEPT !.todo = b]
         = [kind |-> kind, done |-> a, todo |-> b]
      OBVIOUS
    <3>. QED  BY <3>1, <3>2, Zenon
  <2>. QED  BY <2>1, Zenon
<1>5. Append(s.done, Head(s.todo)) = Behind(k + 1) /\ Tail(s.todo) = Ahead(k + 1)
  BY <1>2, <1>3, Halves, Zenon
<1>6. Advance(s) = t
  BY <1>1, <1>3, <1>4, <1>5, Zenon DEF Advance, More
<1>7. t.todo # <<>> <=> k < N
  <2>1. CASE k < N
    BY <1>0, <1>2, <2>1, Halves
  <2>2. CASE ~(k < N)
    BY <1>0, <1>2, <2>2, Halves
  <2>. QED  BY <2>1, <2>2
<1>. QED  BY <1>3, <1>6, <1>7 DEF More, NextStep, s, t

\* A run begins with the route's first step, or at the one a message came in at.
LEMMA SlipStarts ==
    /\ RouteStart(Names) = SlipOf("steps", 1) /\ AsJSON(RouteStart(Names)) = SlipOf("json", 1)
    /\ \A k \in Step : AdvancedTo(RouteStart(Names), k - 1) = SlipOf("steps", k)
<1>1. RouteStart(Names) = [kind |-> "steps", done |-> <<>>, todo |-> Names]
  BY Zenon DEF RouteStart, Slip
<1>2. RouteStart(Names) = SlipOf("steps", 1)
  BY <1>1, Halves DEF SlipOf, Slip
<1>3. AsJSON(RouteStart(Names)) = SlipOf("json", 1)
  <2>1. AsJSON(RouteStart(Names)) = [kind |-> "json", done |-> <<>>, todo |-> Names]
    BY <1>1 DEF AsJSON
  <2>. QED  BY <2>1, Halves DEF SlipOf, Slip
<1>4. ASSUME NEW k \in Step PROVE AdvancedTo(RouteStart(Names), k - 1) = SlipOf("steps", k)
  <2>1. (k - 1) + 1 = k
    BY Route, SMT DEF Step
  <2>2. AdvancedTo(RouteStart(Names), k - 1)
        = [RouteStart(Names) EXCEPT !.done = SubSeq(Names, 1, k - 1), !.todo = SubSeq(Names, (k - 1) + 1, Len(Names))]
    BY <1>1 DEF AdvancedTo
  <2>3. SubSeq(Names, (k - 1) + 1, Len(Names)) = Ahead(k) /\ SubSeq(Names, 1, k - 1) = Behind(k)
    <3>1. \A n, l : n = k /\ l = N => SubSeq(Names, n, l) = SubSeq(Names, k, N)
      BY Zenon
    <3>. QED  BY <2>1, <3>1, Route, Zenon DEF Ahead, Behind
  <2>4. ASSUME NEW a, NEW b
        PROVE  [RouteStart(Names) EXCEPT !.done = a, !.todo = b] = [kind |-> "steps", done |-> a, todo |-> b]
    <3>1. [RouteStart(Names) EXCEPT !.done = a] = [kind |-> "steps", done |-> a, todo |-> Names]
      BY <1>1
    <3>2. [[kind |-> "steps", done |-> a, todo |-> Names] EXCEPT !.todo = b]
         = [kind |-> "steps", done |-> a, todo |-> b]
      OBVIOUS
    <3>. QED  BY <3>1, <3>2, Zenon
  <2>. QED  BY <2>2, <2>3, <2>4, Zenon DEF SlipOf, Slip
<1>. QED  BY <1>2, <1>3, <1>4

\* What is read of a message's headers is its slip, none, or that it is garbled.
LEMMA SlipRead ==
    ASSUME NEW k \in Step, NEW h \in HeadersAt(k)
    PROVE  \/ SlipFrom(h) = Garbled
           \/ SlipFrom(h) = NoSlip /\ h.json = NoSlip
           \/ SlipFrom(h) = SlipOf("json", k)
           \/ SlipFrom(h) = SlipOf("steps", k) /\ h.json = NoSlip
<1>1. CASE h = [json |-> Garbled, names |-> <<>>, position |-> 0]
  BY <1>1 DEF SlipFrom, Garbled
<1>2. CASE h = NoHeaders
  BY <1>2 DEF SlipFrom, NoHeaders, NoSlip
<1>3. CASE h = [json |-> NoSlip, names |-> Names, position |-> k - 1]
  <2>1. h.json = NoSlip /\ h.json.kind = "absent" /\ h.names = Names /\ h.position = k - 1
    BY <1>3 DEF NoSlip
  <2>2. Len(h.names) = N /\ N # 0 /\ ~(h.position > N) /\ (k - 1) + 1 = k
    BY <2>1, Route, SMT DEF Step
  <2>3. SlipFrom(h) = Slip("steps", SubSeq(Names, 1, k - 1), SubSeq(Names, (k - 1) + 1, N))
    BY <2>1, <2>2, Zenon DEF SlipFrom
  <2>4. SubSeq(Names, (k - 1) + 1, N) = Ahead(k)
    <3>1. \A n : n = k => SubSeq(Names, n, N) = SubSeq(Names, k, N)
      BY Zenon
    <3>. QED  BY <2>2, <3>1, Zenon DEF Ahead
  <2>. QED  BY <2>1, <2>3, <2>4, Zenon DEF SlipOf, Behind
<1>4. CASE h = [json |-> SlipOf("json", k), names |-> <<>>, position |-> 0]
  <2>1. h.json = SlipOf("json", k)
    BY <1>4
  <2>2. SlipOf("json", k).kind # "absent"
    BY DEF SlipOf, Slip
  <2>. QED  BY <2>1, <2>2, Zenon DEF SlipFrom
<1>. QED  BY <1>1, <1>2, <1>3, <1>4, Zenon DEF HeadersAt

\* A message sent on with its slip carries what the next step may be sent.
LEMMA SlipWritten ==
    ASSUME NEW j, NEW h \in HeadersAt(j), NEW k \in Step
    PROVE  /\ Onwards(h, SlipOf("json", k)) \in HeadersAt(k)
           /\ h.json = NoSlip => Onwards(h, SlipOf("steps", k)) \in HeadersAt(k)
<1>1. Onwards(h, SlipOf("json", k)) \in HeadersAt(k)
  <2>1. SlipOf("json", k).kind # "steps"
    BY DEF SlipOf, Slip
  <2>. QED  BY <2>1, Zenon DEF Onwards, HeadersAt
<1>2. ASSUME h.json = NoSlip PROVE Onwards(h, SlipOf("steps", k)) \in HeadersAt(k)
  <2>1. /\ SlipOf("steps", k).kind = "steps" /\ SlipOf("steps", k).done = Behind(k)
        /\ SlipOf("steps", k).todo = Ahead(k)
    BY DEF SlipOf, Slip
  <2>2. Behind(k) \o Ahead(k) = Names /\ Len(Behind(k)) = k - 1
    BY Halves, Zenon
  <2>3. Onwards(h, SlipOf("steps", k)) = [h EXCEPT !.names = Names, !.position = k - 1]
    BY <2>1, <2>2, Zenon DEF Onwards
  <2>4. h = [json |-> h.json, names |-> h.names, position |-> h.position]
    BY DEF HeadersAt, NoHeaders
  <2>5. ASSUME NEW a, NEW b
        PROVE  [h EXCEPT !.names = a, !.position = b] = [json |-> NoSlip, names |-> a, position |-> b]
    <3>1. [h EXCEPT !.names = a] = [json |-> NoSlip, names |-> a, position |-> h.position]
      BY <1>2, <2>4
    <3>2. [[json |-> NoSlip, names |-> a, position |-> h.position] EXCEPT !.position = b]
         = [json |-> NoSlip, names |-> a, position |-> b]
      OBVIOUS
    <3>. QED  BY <3>1, <3>2, Zenon
  <2>. QED  BY <2>3, <2>5, Zenon DEF HeadersAt
<1>. QED  BY <1>1, <1>2

\* A handler that goes to work has the slip of the step it is.
LEMMA SlipWorks ==
    ASSUME NEW w \in Worker, NEW m, Fits(m, w[1]), ~Unusable(SlipAt(w, m))
    PROVE  \/ SlipAt(w, m) = SlipOf("json", w[1])
           \/ SlipAt(w, m) = SlipOf("steps", w[1]) /\ m.headers.json = NoSlip
<1>1. w[1] \in Step /\ m.headers \in HeadersAt(w[1])
  BY DEF Worker, Fits
<1>2. NoSlip.kind = "absent" /\ Garbled.kind = "garbled"
  BY DEF NoSlip, Garbled
<1>3. SlipOf("json", w[1]).kind # "absent" /\ SlipOf("steps", w[1]).kind # "absent"
  BY DEF SlipOf, Slip
<1>4. AdvancedTo(RouteStart(Names), w[1] - 1) = SlipOf("steps", w[1])
  BY <1>1, SlipStarts
<1>5. SlipFrom(m.headers).kind = "absent" => SlipFrom(m.headers) = NoSlip /\ m.headers.json = NoSlip
  BY <1>1, <1>2, <1>3, SlipRead
<1>6. CASE SlipFrom(m.headers).kind = "absent"
  <2>1. hosting = "step"
    BY <1>6 DEF SlipAt, Unusable
  <2>. QED  BY <1>4, <1>5, <1>6, <2>1 DEF SlipAt
<1>7. CASE SlipFrom(m.headers).kind # "absent"
  <2>1. SlipAt(w, m) = SlipFrom(m.headers)
    BY <1>7 DEF SlipAt
  <2>2. SlipFrom(m.headers) # Garbled
    BY <1>2, <2>1 DEF Unusable
  <2>. QED  BY <1>1, <1>2, <1>7, <2>1, <2>2, SlipRead
<1>. QED  BY <1>6, <1>7

\* Every step has a queue and a dead-letter queue of its own.
LEMMA Places ==
    /\ Parked \in Place
    /\ \A k \in Step : Queue(k) \in Place /\ Dead(k) \in Place
    /\ \A k, j : /\ Queue(k) # Dead(j) /\ Queue(k) # Parked /\ Dead(k) # Parked
                 /\ (Queue(k) = Queue(j) => k = j) /\ (Dead(k) = Dead(j) => k = j)
    /\ \A k : Queue(k)[1] = "queue" /\ Queue(k)[2] = k /\ Dead(k)[1] # "queue"
    /\ Parked[1] # "queue"
    /\ \A p \in Place : p = Parked \/ \E k \in Step : p = Queue(k) \/ p = Dead(k)
BY DEF Place, Queue, Dead, Parked

-----------------------------------------------------------------------------
(* Bags *)

\* What bags joined have in them.
LEMMA JoinedHas == \A b, c : DOMAIN Joined(b, c) = DOMAIN b \cup DOMAIN c
BY DEF Joined

\* What a bag with one message more and with one less has in it.
LEMMA BagIs ==
    ASSUME NEW b, NEW m
    PROVE  /\ DOMAIN Plus(b, m) = DOMAIN b \cup {m}
           /\ DOMAIN Minus(b, m) \subseteq DOMAIN b
           /\ \A e \in DOMAIN b : e # m => e \in DOMAIN Minus(b, m)
<1>1. DOMAIN Plus(b, m) = DOMAIN b \cup {m}
  BY JoinedHas, Zenon DEF Plus
<1>. QED  BY <1>1 DEF Minus

\* A message published is at its place, and nothing else has changed.
LEMMA PutAt ==
    ASSUME Bagged, NEW p \in Place, NEW m, ready' = With(ready, p, m)
    PROVE  /\ IsBags(ready)'
           /\ \A q \in Place : At(q)' = IF q = p THEN At(q) \cup {m} ELSE At(q)
<1>1. /\ ready' = [ready EXCEPT ![p] = Plus(ready[p], m)]
      /\ DOMAIN Plus(ready[p], m) = DOMAIN ready[p] \cup {m}
  BY BagIs, Zenon DEF With
<1>. QED  BY <1>1 DEF At, Bagged, IsBags

\* A message taken from its place leaves all others.
LEMMA TakeAt ==
    ASSUME Bagged, NEW p \in Place, NEW m, ready' = Without(ready, p, m)
    PROVE  /\ IsBags(ready)'
           /\ \A q \in Place : At(q)' \subseteq At(q)
           /\ \A q \in Place : \A e \in At(q) : e \in At(q)' \/ (q = p /\ e = m)
<1>1. /\ ready' = [ready EXCEPT ![p] = Minus(ready[p], m)]
      /\ DOMAIN Minus(ready[p], m) \subseteq DOMAIN ready[p]
      /\ \A e \in DOMAIN ready[p] : e # m => e \in DOMAIN Minus(ready[p], m)
  BY BagIs, Zenon DEF Without
<1>. QED  BY <1>1 DEF At, Bagged, IsBags

-----------------------------------------------------------------------------
(* What a step has to show for each part of the invariant to be kept *)

\* A run comes in once, and the work done for it only grows.
Grows == \A r \in Run : (first[r] # 0 => first'[r] = first[r]) /\ worked[r] \subseteq worked'[r]

\* What belongs at a step still does when work and first ages only grow.
LEMMA FitsKept ==
    ASSUME Grows, NEW m, NEW k \in Step, Fits(m, k) PROVE Fits(m, k)'
<1>1. m.run \in Run /\ first[m.run] # 0
  BY FlowAssumption DEF Fits, Step
<1>. QED  BY <1>1 DEF Fits, Grows

\* Every message is where it was, or belongs where it has come to.
LEMMA PlacedKept ==
    ASSUME Types, Placed, Grows,
           \A k \in Step : \A m \in At(Queue(k))' \cup At(Dead(k))' :
                m \in At(Queue(k)) \cup At(Dead(k)) \/ Fits(m, k)',
           \A w \in Worker : \A m \in held'[w] : m \in held[w] \/ Fits(m, w[1])',
           \A m \in pulled' \cup DOMAIN declined' :
                \/ from' = from /\ m \in pulled \cup DOMAIN declined
                \/ Fits(m, from)'
    PROVE  Placed'
<1>1. \A k \in Step : \A m \in At(Queue(k))' \cup At(Dead(k))' : Fits(m, k)'
  BY FitsKept DEF Placed
<1>2. \A w \in Worker : w[1] \in Step
  BY DEF Worker
<1>3. \A w \in Worker : \A m \in held'[w] : Fits(m, w[1])'
  BY <1>2, FitsKept DEF Placed
<1>4. ASSUME NEW m \in pulled' \cup DOMAIN declined' PROVE Fits(m, from)'
  <2>1. CASE Fits(m, from)'
    BY <2>1
  <2>2. CASE from' = from /\ m \in pulled \cup DOMAIN declined
    <3>1. PICK k \in Step : k = from
      BY DEF Types
    <3>2. Fits(m, k)
      BY <2>2, <3>1 DEF Placed
    <3>3. Fits(m, k)'
      BY <3>2, FitsKept
    <3>. QED  BY <2>2, <3>1, <3>3
  <2>. QED  BY <1>4, <2>1, <2>2
<1>. QED  BY <1>1, <1>3, <1>4 DEF Placed

\* A slip to be sent on is one that was, or that of a message worked on.
LEMMA SendsKept ==
    ASSUME Types, Placed, Sends, Grows,
           \A w \in Worker : pc'[w] = "send" =>
                \/ pc[w] = "send" /\ held'[w] = held[w] /\ out'[w] = out[w]
                \/ \A m \in held'[w] : SendsOn(w, m)'
    PROVE  Sends'
<1>1. ASSUME NEW w \in Worker, pc'[w] = "send", NEW m \in held'[w] PROVE SendsOn(w, m)'
  <2>1. CASE \A e \in held'[w] : SendsOn(w, e)'
    BY <1>1, <2>1
  <2>2. CASE pc[w] = "send" /\ held'[w] = held[w] /\ out'[w] = out[w]
    <3>1. SendsOn(w, m) /\ Fits(m, w[1])
      BY <1>1, <2>2 DEF Sends, Placed
    <3>2. m.run \in Run
      BY <3>1 DEF Fits
    <3>. QED  BY <2>2, <3>1, <3>2 DEF SendsOn, Grows
  <2>. QED  BY <1>1, <2>1, <2>2
<1>. QED  BY <1>1 DEF Sends

\* What may still be delivered is what waits in a queue or is in somebody's
\* hands (Deliverable).
LEMMA ReachIsDeliverable == \A m : m \in Deliverable <=> Reach(m)
<1>. TAKE m
<1>. DEFINE A == UNION {At(p) : p \in Place}
            H == UNION {held[w] : w \in Worker}
<1>1. m \in A <=> \E p \in Place : m \in At(p)
  OBVIOUS
<1>2. m \in H <=> \E w \in Worker : m \in held[w]
  OBVIOUS
<1>3. Deliverable = A \cup H \cup pulled \cup DOMAIN declined
  BY DEF Deliverable
<1>. HIDE DEF A, H
<1>. QED  BY <1>1, <1>2, <1>3 DEF Reach

\* What was put in the store was, and what is gone stays gone.
Lasting == \A b : (Known(b) => Known(b)') /\ (Gone(b) => Gone(b)')

\* A key is handed out once, so a payload that is gone stays gone, whatever
\* else is put in the store or deleted from it.
LEMMA StoreMoves ==
    ASSUME Types, minted' \in Nat, minted <= minted',
           \A k \in contents' : k \in contents \/ k = minted + 1
    PROVE  Lasting
BY SMT DEF Lasting, Types, Known, Gone

\* So it is for a step that leaves the store alone.
LEMMA StoreSame ==
    ASSUME minted' = minted, contents' = contents
    PROVE  Lasting
BY DEF Lasting, Known, Gone

\* Only a message whose payload is gone is parked.
LEMMA ReadableKept ==
    ASSUME Readable, Lasting,
           \A m : Reach(m)' => Known(m.body)' \/ \E e : Reach(e) /\ e.body = m.body,
           \A w \in Worker : pc'[w] = "settle" /\ verdict'[w] = "park" =>
                \/ pc[w] = "settle" /\ verdict[w] = "park" /\ held'[w] = held[w]
                \/ \A m \in held'[w] : Gone(m.body)',
           \A m \in At(Parked)' : m \in At(Parked) \/ Gone(m.body)'
    PROVE  Readable'
<1>1. \A m : Reach(m)' => Known(m.body)'
  BY Zenon DEF Readable, Lasting
<1>2. \A w \in Worker : pc'[w] = "settle" /\ verdict'[w] = "park" => \A m \in held'[w] : Gone(m.body)'
  BY Zenon DEF Readable, Lasting
<1>3. \A m \in At(Parked)' : Gone(m.body)'
  BY Zenon DEF Readable, Lasting
<1>. QED  BY <1>1, <1>2, <1>3, Zenon DEF Readable

\* No run loses its last copy without having ended.
LEMMA AccountedKept ==
    ASSUME Accounted,
           \A r \in sent' : r \in sent \/ \E m : Alive(m)' /\ m.run = r,
           \A r \in sent : fate[r] # {} => fate'[r] # {},
           \A m : Alive(m) => fate'[m.run] # {} \/ \E e : Alive(e)' /\ e.run = m.run
    PROVE  Accounted'
BY SMT DEF Accounted

\* The parts of the invariant that a step which moves no message and does no
\* work leaves as they are.
LEMMA Unmoved ==
    ASSUME IInv, UNCHANGED <<handlers, ready, claimVars, history, replayVars>>,
           \A w \in Worker : \/ pc'[w] = pc[w]
                             \/ pc[w] \in {"off", "idle"} /\ pc'[w] \in {"off", "idle"}
    PROVE  Bagged' /\ Holding' /\ Placed' /\ Sends' /\ InOrder' /\ Readable' /\ Accounted'
<1>0. Types /\ Bagged /\ Holding /\ Placed /\ Sends /\ InOrder /\ Readable /\ Accounted
  BY DEF IInv
<1>1. /\ held' = held /\ out' = out /\ verdict' = verdict /\ ready' = ready
      /\ contents' = contents /\ minted' = minted /\ first' = first /\ sent' = sent
      /\ worked' = worked /\ fate' = fate /\ phase' = phase /\ from' = from
      /\ pulled' = pulled /\ declined' = declined
  BY DEF handlers, claimVars, history, replayVars
<1>2. Bagged'
  BY <1>0, <1>1 DEF Bagged, IsBags
<1>3. Holding'
  BY <1>0, <1>1, Zenon DEF Holding
<1>4. Grows /\ (\A p : At(p)' = At(p)) /\ (\A w \in Worker : pc'[w] = "send" <=> pc[w] = "send")
      /\ (\A w \in Worker : pc'[w] = "settle" <=> pc[w] = "settle")
  BY <1>1 DEF Grows, At
<1>5. Placed'
  BY <1>0, <1>1, <1>4, PlacedKept
<1>6. Sends'
  BY <1>0, <1>1, <1>4, SendsKept
<1>7. InOrder'
  BY <1>0, <1>1 DEF InOrder
<1>8. Readable'
  <2>1. \A m : Reach(m)' <=> Reach(m)
    BY <1>1, <1>4 DEF Reach
  <2>. QED  BY ONLY <1>0, <1>1, <1>4, <2>1, StoreSame, ReadableKept, Zenon
<1>9. Accounted'
  <2>1. \A m : Alive(m)' <=> Alive(m)
    BY <1>1, <1>4 DEF Alive
  <2>. QED  BY <1>0, <1>1, <2>1 DEF Accounted
<1>. QED  BY <1>2, <1>3, <1>5, <1>6, <1>7, <1>8, <1>9

-----------------------------------------------------------------------------
(* The steps of the pipeline's life *)

\* The workers of a step are off when none of its group is up.
LEMMA NoneUp == \A k \in Step : Up(k) = {} <=> \A w \in Worker : w[1] = k => pc[w] = "off"
<1>. TAKE k \in Step
<1>1. \A i \in 1..Size : <<k, i>> \in Worker /\ <<k, i>>[1] = k
  BY DEF Worker
<1>2. \A w \in Worker : w[1] = k => \E i \in 1..Size : w = <<k, i>>
  BY DEF Worker
<1>. QED  BY <1>1, <1>2 DEF Up

\* When no group is open, all consumers are off.
LEMMA AllClosed == ASSUME Open = {} PROVE \A w \in Worker : pc[w] = "off"
<1>. DEFINE pre == IF stage = "failing" THEN <<at>> ELSE <<>>
<1>1. \A k \in Step : \E i \in DOMAIN CloseOrder : CloseOrder[i] = k
  <2>. TAKE k \in Step
  <2>1. PICK S : pre \in Seq(S) /\ Names \in Seq(S)
    <3>1. Names \in Seq(Step \cup {at})
      BY Route, SeqMonotonic
    <3>2. pre \in Seq(Step \cup {at})
      <4>1. \A S, x : x \in S => <<x>> \in Seq(S)
        OBVIOUS
      <4>2. <<>> \in Seq(Step \cup {at})
        BY EmptySeq
      <4>3. at \in Step \cup {at}
        OBVIOUS
      <4>. QED  BY <4>1, <4>2, <4>3, Zenon
    <3>. QED  BY <3>1, <3>2
  <2>. HIDE DEF pre
  <2>2. Len(pre) \in Nat /\ k \in Nat /\ k >= 1 /\ k <= N /\ N \in Nat
    BY <2>1, Route, LenProperties, SMT DEF Step
  <2>3. Len(pre) + k \in 1..(Len(pre) + Len(Names)) /\ ~(Len(pre) + k <= Len(pre))
    BY <2>2, Route
  <2>4. (Len(pre) + k) - Len(pre) = k
    BY <2>2
  <2>5. /\ pre \o Names \in Seq(S) /\ Len(pre \o Names) = Len(pre) + Len(Names)
        /\ (pre \o Names)[Len(pre) + k] = Names[(Len(pre) + k) - Len(pre)]
    BY <2>1, <2>3, ConcatProperties
  <2>6. CloseOrder = pre \o Names
    BY Zenon DEF CloseOrder, pre
  <2>7. Len(pre) + k \in DOMAIN CloseOrder
    BY <2>3, <2>5, <2>6, LenProperties
  <2>8. CloseOrder[Len(pre) + k] = k
    BY <2>4, <2>5, <2>6, Route, Zenon
  <2>. QED  BY <2>7, <2>8
<1>2. \A k \in Step : Up(k) = {}
  BY <1>1 DEF Open
<1>3. \A w \in Worker : w[1] \in Step
  BY DEF Worker
<1>. QED  BY <1>2, <1>3, NoneUp

\* Declaring, failing, beginning to close, having closed and starting again move
\* the stage only; a group starts when no consumer is up.
LEMMA StageKeeps ==
    ASSUME IInv, UNCHANGED <<pc, handlers, ready, claimVars, history, replayVars>>,
           Declare \/ (UNCHANGED declared /\ (NewPipelineFails \/ CloseBegins \/ Closed \/ Restart))
    PROVE  IInv'
<1>0. Types /\ InTurn
  BY DEF IInv
<1>1. pc' = pc
  OBVIOUS
<1>2. Types'
  <2>1. at' \in Step /\ declared' \subseteq Step
    BY <1>0, Route, SMT DEF Types, Declare, NewPipelineFails, CloseBegins, Closed, Restart, Step
  <2>. QED  BY <1>0, <2>1 DEF Types, handlers, claimVars, history, replayVars
<1>3. InTurn'
  <2>1. CASE Declare
    <3>1. \A w \in Worker : pc[w] = "off"
      BY <1>0, <2>1 DEF InTurn, Declare
    <3>2. CASE at < N
      BY <1>0, <1>1, <2>1, <3>1, <3>2 DEF InTurn, Declare
    <3>3. CASE ~(at < N)
      <4>1. stage' = "start" /\ at' = 1 /\ 1 \in Step
        BY <2>1, <3>3, Route, SMT DEF Declare, Step
      <4>2. Up(1)' = {}
        BY <1>1, <3>1, <4>1 DEF Up, Worker
      <4>3. 1..0 = {} /\ 0 \in 0..(Size - 1)
        BY PipelineAssumption
      <4>4. Up(at)' = 1..0
        BY <4>1, <4>2, <4>3
      <4>. QED  BY <1>1, <3>1, <4>1, <4>3, <4>4, Zenon DEF InTurn
    <3>. QED  BY <3>2, <3>3
  <2>2. CASE NewPipelineFails
    BY <1>0, <1>1, <2>2 DEF InTurn, NewPipelineFails
  <2>3. CASE CloseBegins
    BY <1>0, <1>1, <2>3 DEF InTurn, CloseBegins
  <2>4. CASE Closed
    <3>1. \A w \in Worker : pc[w] = "off"
      BY <2>4, AllClosed DEF Closed
    <3>. QED  BY <1>0, <1>1, <2>4, <3>1 DEF InTurn, Closed
  <2>5. CASE Restart
    BY <1>0, <1>1, <2>5 DEF InTurn, Restart
  <2>. QED  BY <2>1, <2>2, <2>3, <2>4, <2>5
<1>4. \A w \in Worker : pc'[w] = pc[w]
  BY <1>1
<1>5. UNCHANGED <<handlers, ready, claimVars, history, replayVars>>
  OBVIOUS
<1>. QED  BY <1>2, <1>3, <1>4, <1>5, Unmoved DEF IInv

\* The next consumer of the group that is starting was off.
LEMMA StartKeeps ==
    ASSUME IInv, StartConsumer,
           UNCHANGED <<handlers, declared, ready, trouble, claimVars, history, replayVars>>
    PROVE  IInv'
<1>0. Types /\ InTurn
  BY DEF IInv
<1>1. PICK n \in 0..(Size - 1) :
        /\ Up(at) = 1..n /\ pc' = [pc EXCEPT ![<<at, n + 1>>] = "idle"]
        /\ IF n + 1 < Size THEN UNCHANGED <<at, stage>>
           ELSE IF at < N THEN at' = at + 1 /\ UNCHANGED stage
           ELSE stage' = "run" /\ UNCHANGED at
  <2>1. PICK i \in 1..Size :
            /\ Up(at) = 1..(i - 1) /\ pc' = [pc EXCEPT ![<<at, i>>] = "idle"]
            /\ IF i < Size THEN UNCHANGED <<at, stage>>
               ELSE IF at < N THEN at' = at + 1 /\ UNCHANGED stage
               ELSE stage' = "run" /\ UNCHANGED at
    BY Zenon DEF StartConsumer
  <2>2. PICK n \in 0..(Size - 1) : i = n + 1 /\ i - 1 = n
    BY PipelineAssumption
  <2>. QED  BY <2>1, <2>2, Zenon
<1>2. stage = "start"
  BY DEF StartConsumer
<1>. DEFINE v == <<at, n + 1>>
<1>3. v \in Worker /\ pc[v] = "off" /\ pc' = [pc EXCEPT ![v] = "idle"]
  <2>1. n + 1 \in 1..Size /\ n + 1 \notin 1..n /\ at \in Step
    BY <1>0, PipelineAssumption, SMT DEF Types
  <2>. QED  BY <1>1, <2>1 DEF Up, Worker
<1>4. \A w \in Worker : pc'[w] = IF w = v THEN "idle" ELSE pc[w]
  BY <1>0, <1>3 DEF Types
<1>5. v[1] = at /\ at \in Nat /\ N \in Nat
  BY <1>0, Route, SMT DEF Types, Step
<1>6. Types'
  <2>1. at' = at \/ (at < N /\ at' = at + 1)
    BY <1>1
  <2>2. at' \in Step
    BY <1>0, <1>5, <2>1, SMT DEF Types, Step
  <2>3. pc' \in [Worker -> {"off", "idle", "work", "send", "settle"}]
    BY <1>0, <1>3 DEF Types
  <2>. QED  BY <1>0, <2>2, <2>3 DEF Types, handlers, claimVars, history, replayVars
<1>7. InTurn'
  <2>1. CASE n + 1 < Size
    <3>1. at' = at /\ stage' = "start"
      BY <1>1, <1>2, <2>1
    <3>2. \A w \in Worker : w[1] > at => pc'[w] = "off"
      <4>1. \A w \in Worker : w[1] > at => w # v
        BY <1>5
      <4>. QED  BY <1>0, <1>2, <1>4, <4>1 DEF InTurn
    <3>3. \A i \in 1..Size : <<at, i>> \in Worker /\ (<<at, i>> = v <=> i = n + 1)
      BY <1>0 DEF Worker, Types
    <3>4. \A i \in 1..Size : pc'[<<at, i>>] # "off" <=> i = n + 1 \/ i \in 1..n
      BY <1>1, <1>3, <1>4, <3>3 DEF Up
    <3>5. {i \in 1..Size : pc'[<<at, i>>] # "off"} = 1..(n + 1)
      <4>1. \A i \in 1..Size : (i = n + 1 \/ i \in 1..n) <=> i \in 1..(n + 1)
        BY PipelineAssumption
      <4>2. 1..(n + 1) \subseteq 1..Size
        BY PipelineAssumption
      <4>. QED  BY <3>4, <4>1, <4>2
    <3>6. Up(at)' = 1..(n + 1)
      BY <3>1, <3>5 DEF Up
    <3>7. n + 1 \in 0..(Size - 1)
      BY <2>1, PipelineAssumption
    <3>. QED  BY <3>1, <3>2, <3>6, <3>7 DEF InTurn
  <2>2. CASE ~(n + 1 < Size) /\ at < N
    <3>1. at' = at + 1 /\ stage' = "start" /\ at + 1 \in Step
      BY <1>1, <1>2, <1>5, <2>2 DEF Step
    <3>2. \A w \in Worker : w[1] > at => pc'[w] = "off"
      <4>1. \A w \in Worker : w[1] > at => w # v
        BY <1>5
      <4>. QED  BY <1>0, <1>2, <1>4, <4>1 DEF InTurn
    <3>3. \A i \in 1..Size : <<at + 1, i>> \in Worker /\ <<at + 1, i>>[1] > at
      BY <1>5, <3>1 DEF Worker
    <3>4. \A i \in 1..Size : pc'[<<at + 1, i>>] = "off"
      BY <3>2, <3>3
    <3>5. Up(at)' = {}
      BY <3>1, <3>4 DEF Up
    <3>6. 1..0 = {} /\ 0 \in 0..(Size - 1)
      BY PipelineAssumption
    <3>7. \A w \in Worker : w[1] > at + 1 => w[1] > at
      BY <1>5 DEF Worker, Step
    <3>8. Up(at)' = 1..0
      BY <3>5, <3>6
    <3>. QED  BY <3>1, <3>2, <3>6, <3>7, <3>8, Zenon DEF InTurn
  <2>3. CASE ~(n + 1 < Size) /\ ~(at < N)
    <3>1. stage' = "run"
      BY <1>1, <2>3
    <3>. QED  BY <3>1 DEF InTurn
  <2>. QED  BY <2>1, <2>2, <2>3
<1>8. \A w \in Worker : \/ pc'[w] = pc[w]
                        \/ pc[w] \in {"off", "idle"} /\ pc'[w] \in {"off", "idle"}
  BY <1>3, <1>4
<1>9. UNCHANGED <<handlers, ready, claimVars, history, replayVars>>
  OBVIOUS
<1>. QED  BY <1>6, <1>7, <1>8, <1>9, Unmoved DEF IInv

\* A consumer that closes has nothing.
LEMMA CloseKeeps ==
    ASSUME IInv, NEW w \in Worker, CloseConsumer(w),
           UNCHANGED <<stages, handlers, declared, ready, trouble, claimVars, history, replayVars>>
    PROVE  IInv'
<1>0. Types /\ InTurn
  BY DEF IInv
<1>1. pc[w] = "idle" /\ pc' = [pc EXCEPT ![w] = "off"] /\ stage \in {"failing", "closing"}
  BY DEF CloseConsumer, ClosingStep
<1>2. Types'
  BY <1>0, <1>1 DEF Types, stages, handlers, claimVars, history, replayVars
<1>3. InTurn'
  BY <1>0, <1>1 DEF InTurn, stages
<1>4. \A v \in Worker : \/ pc'[v] = pc[v]
                        \/ pc[v] \in {"off", "idle"} /\ pc'[v] \in {"off", "idle"}
  BY <1>0, <1>1 DEF Types
<1>5. UNCHANGED <<handlers, ready, claimVars, history, replayVars>>
  OBVIOUS
<1>. QED  BY <1>2, <1>3, <1>4, <1>5, Unmoved DEF IInv

\* What is returned to a step is what its consumers held.
LEMMA TakenHeld == \A k \in Step : \A m : m \in Taken(k) <=> \E w \in Worker : w[1] = k /\ m \in held[w]
<1>. TAKE k \in Step
<1>. TAKE m
<1>1. \A i \in 1..Size : <<k, i>> \in Worker /\ <<k, i>>[1] = k
  BY DEF Worker
<1>2. \A w \in Worker : w[1] = k => \E i \in 1..Size : w = <<k, i>>
  BY DEF Worker
<1>3. m \in Taken(k) <=> \E i \in 1..Size : m \in held[<<k, i>>]
  BY Zenon DEF Taken
<1>. QED  BY <1>1, <1>2, <1>3, Zenon

\* When the process dies, its deliveries are back on the queues they came from.
LEMMA DieKeeps ==
    ASSUME IInv, Die, StoreDies, UNCHANGED <<declared, history, replayVars>> PROVE IInv'
<1>0. Types /\ Bagged /\ Holding /\ InTurn /\ Placed /\ Sends /\ InOrder /\ Readable /\ Accounted
  BY DEF IInv
<1>1. /\ pc' = [w \in Worker |-> "off"] /\ held' = [w \in Worker |-> {}]
      /\ verdict' = [w \in Worker |-> NoVerdict] /\ out' = [w \in Worker |-> NoSlip]
      /\ stage' = "down" /\ at' = at /\ minted' = minted
      /\ first' = first /\ sent' = sent /\ worked' = worked /\ fate' = fate
      /\ phase' = phase /\ from' = from /\ pulled' = pulled /\ declined' = declined
      /\ declared' = declared
  BY DEF Die, StoreDies, history, replayVars
<1>2. \A k \in Step :
        /\ ready'[Queue(k)] = Joined(ready[Queue(k)], [m \in Taken(k) |-> HeldBy(k, m)])
        /\ ready'[Dead(k)] = ready[Dead(k)]
  BY Places DEF Die
<1>3. ready'[Parked] = ready[Parked] /\ IsBags(ready')
  BY Places DEF Die, IsBags
<1>4. ASSUME NEW k \in Step
      PROVE  At(Queue(k))' = At(Queue(k)) \cup Taken(k) /\ At(Dead(k))' = At(Dead(k))
  <2>. DEFINE c == [m \in Taken(k) |-> HeldBy(k, m)]
  <2>1. DOMAIN c = Taken(k)
    OBVIOUS
  <2>2. ready'[Queue(k)] = Joined(ready[Queue(k)], c) /\ ready'[Dead(k)] = ready[Dead(k)]
    BY <1>2
  <2>. HIDE DEF c
  <2>3. DOMAIN ready'[Queue(k)] = DOMAIN ready[Queue(k)] \cup Taken(k)
    BY ONLY <2>1, <2>2, JoinedHas, Zenon
  <2>. QED  BY ONLY <2>2, <2>3, Zenon DEF At
<1>5. Types'
  BY <1>0, <1>1 DEF Types
<1>6. Bagged'
  BY <1>3 DEF Bagged
<1>7. Holding'
  BY <1>0, <1>1, Zenon DEF Holding
<1>8. InTurn'
  BY <1>1 DEF InTurn
<1>9. Grows
  BY <1>1 DEF Grows
<1>10. Placed'
  <2>1. \A k \in Step : \A m \in Taken(k) : Fits(m, k)
    BY <1>0, TakenHeld, SMT DEF Placed
  <2>2. \A k \in Step : \A m \in Taken(k) : Fits(m, k)'
    BY <1>9, <2>1, FitsKept
  <2>. QED  BY <1>0, <1>1, <1>4, <1>9, <2>2, PlacedKept
<1>11. Sends'
  BY <1>1 DEF Sends
<1>12. InOrder'
  BY <1>0, <1>1 DEF InOrder
<1>13. ASSUME NEW p \in Place, NEW m
       PROVE  /\ m \in At(p) => m \in At(p)'
              /\ m \in At(p)' => m \in At(p) \/ \E w \in Worker : m \in held[w]
  <2>1. CASE p = Parked
    BY <1>3, <2>1 DEF At
  <2>2. CASE \E k \in Step : p = Queue(k) \/ p = Dead(k)
    BY <1>4, <2>2, TakenHeld, SMT
  <2>. QED  BY <2>1, <2>2, Places
<1>14. Readable'
  <2>1. Lasting
    BY <1>0, StoreMoves DEF StoreDies, Types
  <2>2. \A m : Reach(m)' => Reach(m)
    BY <1>1, <1>13 DEF Reach
  <2>3. At(Parked)' = At(Parked)
    BY <1>3 DEF At
  <2>. QED  BY <1>0, <1>1, <2>1, <2>2, <2>3, ReadableKept
<1>15. Accounted'
  <2>1. \A w \in Worker : \A m \in held[w] : \E p \in Place : m \in At(p)'
    <3>. TAKE w \in Worker
    <3>. TAKE m \in held[w]
    <3>1. w[1] \in Step
      BY DEF Worker
    <3>2. m \in Taken(w[1])
      BY <3>1, TakenHeld
    <3>. QED  BY <1>4, <3>1, <3>2, Places
  <2>2. \A m : Alive(m) => Alive(m)'
    BY <1>1, <1>13, <2>1 DEF Alive
  <2>. QED  BY <1>0, <1>1, <2>2, AccountedKept
<1>. QED  BY <1>5, <1>6, <1>7, <1>8, <1>10, <1>11, <1>12, <1>14, <1>15 DEF IInv

-----------------------------------------------------------------------------
(* What is sent *)

\* A publish puts the message on the step's queue, or comes to nothing.
LEMMA PublishAt ==
    ASSUME Bagged, NEW k \in Step, NEW m, ready' = ready \/ ready' = With(ready, Queue(k), m)
    PROVE  /\ IsBags(ready)'
           /\ \A q \in Place : At(q) \subseteq At(q)'
           /\ \A q \in Place : \A e \in At(q)' : e \in At(q) \/ (q = Queue(k) /\ e = m)
           /\ ready' = With(ready, Queue(k), m) => m \in At(Queue(k))'
<1>1. Queue(k) \in Place
  BY Places
<1>2. CASE ready' = With(ready, Queue(k), m)
  BY <1>1, <1>2, PutAt, SMT
<1>3. CASE ready' = ready /\ ready' # With(ready, Queue(k), m)
  BY <1>3 DEF Bagged, IsBags, At
<1>. QED  BY <1>2, <1>3

\* The publishes as the model has them.
LEMMA PublishReady ==
    ASSUME NEW k, NEW m, Published(k, m) \/ PublishFails(k, m)
    PROVE  ready' = ready \/ ready' = With(ready, Queue(k), m)
BY DEF Published, PublishFails

\* A payload is put in the store before its key is in a message.
LEMMA EncodeFacts ==
    ASSUME Types, NEW body, Encode(body)
    PROVE  Lasting /\ minted' \in Nat /\ Known(body)' /\ body \in {Inline} \cup Nat
<1>1. CASE body = Inline /\ UNCHANGED claims
  BY <1>1, StoreSame DEF Types, claims, Known
<1>2. CASE Put(body)
  BY <1>2, StoreMoves, SMT DEF Types, Put, Hold, Known
<1>. QED  BY <1>1, <1>2 DEF Encode

\* A run that comes in at a step.
LEMMA ArriveKeeps ==
    ASSUME IInv, NEW r \in Run, NEW k \in Step, NEW m, first[r] = 0,
           first' = [first EXCEPT ![r] = k],
           m \in [run : {r}, headers : HeadersAt(k), body : {Inline} \cup Nat, attempt : Nat],
           Known(m.body)',
           ready' = ready \/ ready' = With(ready, Queue(k), m),
           sent' = sent \/ (sent' = sent \cup {r} /\ ready' = With(ready, Queue(k), m)),
           Lasting, minted' \in Nat,
           UNCHANGED <<stages, pc, handlers, declared, worked, fate, inMemory, replayVars>>
    PROVE  IInv'
<1>0. Types /\ Bagged /\ Holding /\ InTurn /\ Placed /\ Sends /\ InOrder /\ Readable /\ Accounted
  BY DEF IInv
<1>1. /\ stage' = stage /\ at' = at /\ pc' = pc /\ held' = held /\ out' = out /\ verdict' = verdict
      /\ declared' = declared /\ worked' = worked /\ fate' = fate
      /\ phase' = phase /\ from' = from /\ pulled' = pulled /\ declined' = declined
  BY DEF stages, handlers, replayVars
<1>2. /\ IsBags(ready)'
      /\ \A q \in Place : At(q) \subseteq At(q)'
      /\ \A q \in Place : \A e \in At(q)' : e \in At(q) \/ (q = Queue(k) /\ e = m)
      /\ ready' = With(ready, Queue(k), m) => m \in At(Queue(k))'
  BY <1>0, PublishAt
<1>3. first' \in [Run -> 0..N] /\ \A s \in Run : first'[s] = IF s = r THEN k ELSE first[s]
  BY <1>0, SMT DEF Types, Step
<1>4. Grows
  BY <1>1, <1>3 DEF Grows
<1>5. Fits(m, k)'
  <2>1. m.run = r /\ m \in [run : Run, headers : HeadersAt(k), body : {Inline} \cup Nat, attempt : Nat]
    OBVIOUS
  <2>2. first'[m.run] = k /\ k \in 1..k /\ \A j \in Step : ~(k <= j /\ j < k)
    BY <1>3, <2>1, SMT DEF Step
  <2>. QED  BY <2>1, <2>2 DEF Fits
<1>6. Types'
  BY <1>0, <1>1, <1>3 DEF Types
<1>7. Bagged'
  BY <1>0, <1>1, <1>2 DEF Bagged
<1>8. Holding'
  BY <1>0, <1>1 DEF Holding
<1>9. InTurn'
  BY <1>0, <1>1 DEF InTurn, Up
<1>10. Placed'
  <2>1. \A j \in Step : \A e \in At(Queue(j))' \cup At(Dead(j))' :
            e \in At(Queue(j)) \cup At(Dead(j)) \/ Fits(e, j)'
    BY <1>2, <1>5, Places
  <2>. QED  BY <1>0, <1>1, <1>4, <2>1, PlacedKept
<1>11. Sends'
  BY <1>0, <1>1, <1>4, SendsKept
<1>12. InOrder'
  <2>1. worked[r] = {} /\ fate[r] = {}
    BY <1>0 DEF InOrder
  <2>. QED  BY <1>0, <1>1, <1>3, <2>1 DEF InOrder
<1>13. Readable'
  <2>1. \A e : Reach(e)' => Reach(e) \/ e = m
    BY <1>1, <1>2 DEF Reach
  <2>2. At(Parked)' = At(Parked)
    <3>1. Parked \in Place /\ Parked # Queue(k)
      BY ONLY Places, Zenon
    <3>. QED  BY ONLY <1>2, <3>1, Zenon
  <2>. QED
    BY ONLY <1>0, <1>1, <2>1, <2>2, Known(m.body)',
            Lasting, ReadableKept, Zenon
<1>14. Accounted'
  <2>1. \A e : Alive(e) => Alive(e)'
    BY <1>1, <1>2 DEF Alive
  <2>2. sent' # sent => Alive(m)' /\ m.run = r
    BY <1>2, Places DEF Alive
  <2>. QED  BY <1>0, <1>1, <2>1, <2>2, AccountedKept
<1>. QED  BY <1>6, <1>7, <1>8, <1>9, <1>10, <1>11, <1>12, <1>13, <1>14 DEF IInv

\* A message of a run's own making.
LEMMA MessageIs ==
    ASSUME NEW r, NEW k, NEW h \in HeadersAt(k), NEW b \in {Inline} \cup Nat
    PROVE  /\ Message(r, h, b) \in [run : {r}, headers : HeadersAt(k), body : {Inline} \cup Nat, attempt : Nat]
           /\ Message(r, h, b).body = b /\ Message(r, h, b).run = r /\ Message(r, h, b).headers = h
BY DEF Message

\* A run is sent with a new route, its payload inline or put in the store
\* first (Send).
LEMMA SendKeeps ==
    ASSUME IInv, NEW r \in Run, NEW slip \in {RouteStart(Names), AsJSON(RouteStart(Names))}, NEW body,
           Send(r, slip, body),
           UNCHANGED <<stages, pc, handlers, declared, worked, fate, inMemory, replayVars>>
    PROVE  IInv'
<1>. DEFINE m == Message(r, HeaderOptions(slip), body)
<1>1. 1 \in Step /\ NoHeaders \in HeadersAt(1) /\ NoHeaders.json = NoSlip
  BY Route DEF Step, HeadersAt, NoHeaders
<1>2. slip = SlipOf("steps", 1) \/ slip = SlipOf("json", 1)
  BY SlipStarts
<1>3. NextStep(slip) = 1
  BY <1>1, <1>2, SlipMoves
<1>4. HeaderOptions(slip) \in HeadersAt(1)
  BY <1>1, <1>2, SlipWritten DEF HeaderOptions
<1>5. Types
  BY DEF IInv
<1>6. Lasting /\ minted' \in Nat /\ Known(body)' /\ body \in {Inline} \cup Nat
  BY <1>5, EncodeFacts DEF Send
<1>7. /\ m \in [run : {r}, headers : HeadersAt(1), body : {Inline} \cup Nat, attempt : Nat]
      /\ m.body = body
  BY <1>4, <1>6, MessageIs, SMT
<1>8. /\ first[r] = 0 /\ first' = [first EXCEPT ![r] = 1]
      /\ \/ Published(1, m) /\ sent' = sent \cup {r}
         \/ PublishFails(1, m) /\ sent' = sent
  BY <1>3 DEF Send
<1>. HIDE DEF m
<1>9. /\ ready' = ready \/ ready' = With(ready, Queue(1), m)
      /\ sent' = sent \/ (sent' = sent \cup {r} /\ ready' = With(ready, Queue(1), m))
  BY <1>8, PublishReady DEF Published
<1>. QED  BY <1>1, <1>6, <1>7, <1>8, <1>9, ArriveKeeps, Zenon

\* Somebody else sends to a step's queue, without a slip or with a garbled one
\* (SendElsewhere).
LEMMA ElsewhereKeeps ==
    ASSUME IInv, NEW r \in Run, NEW k \in Step, NEW json \in {NoSlip, Garbled},
           SendElsewhere(r, k, json), UNCHANGED claims,
           UNCHANGED <<stages, pc, handlers, declared, worked, fate, inMemory, replayVars>>
    PROVE  IInv'
<1>. DEFINE h == [NoHeaders EXCEPT !.json = json]
            m == Message(r, h, Inline)
<1>1. h \in HeadersAt(k)
  BY SMT DEF HeadersAt, NoHeaders
<1>2. Lasting /\ minted' \in Nat /\ Known(Inline)'
  BY StoreSame DEF claims, IInv, Types, Known
<1>3. /\ first[r] = 0 /\ first' = [first EXCEPT ![r] = k] /\ sent' = sent \cup {r}
      /\ ready' = With(ready, Queue(k), m)
  BY DEF SendElsewhere, Published
<1>4. /\ m \in [run : {r}, headers : HeadersAt(k), body : {Inline} \cup Nat, attempt : Nat]
      /\ m.body = Inline
  BY <1>1, MessageIs, SMT
<1>. HIDE DEF m, h
<1>. QED  BY <1>2, <1>3, <1>4, ArriveKeeps, Zenon

-----------------------------------------------------------------------------
(* The steps of a handler *)

\* The stage, and which consumers are up, are as before.
LEMMA InTurnKept ==
    ASSUME InTurn, stage' = stage, at' = at, at \in Step,
           \A w \in Worker : pc'[w] = "off" <=> pc[w] = "off"
    PROVE  InTurn'
<1>1. \A i \in 1..Size : <<at, i>> \in Worker
  BY DEF Worker
<1>2. Up(at)' = Up(at)
  BY <1>1 DEF Up
<1>. QED  BY <1>2 DEF InTurn

\* The broker hands a message to a consumer of the step whose queue it is in
\* (Deliver).
LEMMA DeliverKeeps ==
    ASSUME IInv, NEW w \in Worker, NEW m \in At(Queue(w[1])), Deliver(w, m), UNCHANGED replayVars
    PROVE  IInv'
<1>0. Types /\ Bagged /\ Holding /\ InTurn /\ Placed /\ Sends /\ InOrder /\ Readable /\ Accounted
  BY DEF IInv
<1>1. /\ stage' = stage /\ at' = at /\ out' = out /\ verdict' = verdict /\ minted' = minted
      /\ declared' = declared /\ worked' = worked /\ fate' = fate
      /\ first' = first /\ sent' = sent /\ contents' = contents
      /\ phase' = phase /\ from' = from /\ pulled' = pulled /\ declined' = declined
  BY DEF Deliver, stages, history, claimVars, replayVars
<1>2. w[1] \in Step /\ Queue(w[1]) \in Place
  BY Places DEF Worker
<1>3. /\ pc[w] = "idle" /\ held[w] = {}
      /\ \A v \in Worker : held'[v] = IF v = w THEN {m} ELSE held[v]
      /\ \A v \in Worker : pc'[v] = IF v = w THEN "work" ELSE pc[v]
  BY <1>0 DEF Deliver, Types, Holding
<1>4. /\ IsBags(ready)'
      /\ \A q \in Place : At(q)' \subseteq At(q)
      /\ \A q \in Place : \A e \in At(q) : e \in At(q)' \/ (q = Queue(w[1]) /\ e = m)
  BY <1>0, <1>2, TakeAt DEF Deliver
<1>5. Grows
  BY <1>1 DEF Grows
<1>6. Types'
  BY <1>0, <1>1, Zenon DEF Types, Deliver
<1>7. Bagged'
  BY <1>0, <1>1, <1>4 DEF Bagged
<1>8. Holding'
  BY <1>0, <1>1, <1>3, Zenon DEF Holding
<1>9. InTurn'
  BY <1>0, <1>1, <1>3, InTurnKept DEF Types
<1>10. Placed'
  <2>1. Fits(m, w[1])
    BY <1>0, <1>2 DEF Placed
  <2>2. Fits(m, w[1])'
    BY <1>2, <1>5, <2>1, FitsKept
  <2>3. \A k \in Step : At(Queue(k))' \subseteq At(Queue(k)) /\ At(Dead(k))' \subseteq At(Dead(k))
    BY ONLY <1>4, Places, Zenon
  <2>4. \A v \in Worker : \A e \in held'[v] : e \in held[v] \/ Fits(e, v[1])'
    BY ONLY <1>3, <2>2, Zenon
  <2>. QED  BY ONLY <1>0, <1>1, <1>5, <2>3, <2>4, PlacedKept, Zenon
<1>11. Sends'
  BY ONLY <1>0, <1>1, <1>3, <1>5, SendsKept, Zenon
<1>12. InOrder'
  BY <1>0, <1>1 DEF InOrder
<1>13. Readable'
  <2>1. \A e : Reach(e)' => Reach(e)
    BY <1>1, <1>2, <1>3, <1>4 DEF Reach
  <2>2. At(Parked)' \subseteq At(Parked)
    BY <1>4, Places
  <2>. QED  BY ONLY <1>0, <1>1, <1>3, <2>1, <2>2, StoreSame, ReadableKept, Zenon
<1>14. Accounted'
  <2>1. Alive(m)'
    BY <1>3 DEF Alive
  <2>2. \A e : Alive(e) => Alive(e)'
    BY ONLY <1>1, <1>3, <1>4, <2>1, Zenon DEF Alive
  <2>. QED  BY ONLY <1>0, <1>1, <2>2, AccountedKept, Zenon
<1>. QED  BY <1>6, <1>7, <1>8, <1>9, <1>10, <1>11, <1>12, <1>13, <1>14 DEF IInv

\* A handler that did not do its work, or was too late, answers that the message
\* is to be tried again or set aside; it is parked only when it cannot be read.
LEMMA AnswerKeeps ==
    ASSUME IInv, NEW w \in Worker, NEW v, pc[w] \in {"work", "settle"}, v # "accept",
           v = "park" => \A m \in held[w] : Gone(m.body),
           Answer(w, v),
           UNCHANGED <<stages, held, out, history, ready, declared, claimVars, replayVars>>
    PROVE  IInv'
<1>0. Types /\ Bagged /\ Holding /\ InTurn /\ Placed /\ Sends /\ InOrder /\ Readable /\ Accounted
  BY DEF IInv
<1>1. /\ stage' = stage /\ at' = at /\ held' = held /\ out' = out /\ ready' = ready /\ minted' = minted
      /\ declared' = declared /\ worked' = worked /\ fate' = fate
      /\ first' = first /\ sent' = sent /\ contents' = contents
      /\ phase' = phase /\ from' = from /\ pulled' = pulled /\ declined' = declined
  BY DEF stages, history, claimVars, replayVars
<1>. verdict' = [verdict EXCEPT ![w] = v] /\ pc' = [pc EXCEPT ![w] = "settle"]
  BY DEF Answer
<1>2. /\ \A u \in Worker : verdict'[u] = IF u = w THEN v ELSE verdict[u]
      /\ \A u \in Worker : pc'[u] = IF u = w THEN "settle" ELSE pc[u]
  BY <1>0 DEF Types
<1>3. Grows /\ \A p : At(p)' = At(p)
  BY <1>1 DEF Grows, At
<1>4. Types'
  BY <1>0, <1>1 DEF Types
<1>5. Bagged'
  BY <1>0, <1>1 DEF Bagged, IsBags
<1>6. Holding'
  <2>1. \A u \in Worker : pc'[u] \in {"off", "idle"} <=> pc[u] \in {"off", "idle"}
    BY <1>2, SMT
  <2>. QED  BY ONLY <1>0, <1>1, <2>1, Zenon DEF Holding
<1>7. InTurn'
  BY <1>0, <1>1, <1>2, InTurnKept DEF Types
<1>8. Placed'
  BY ONLY <1>0, <1>1, <1>3, PlacedKept, Zenon
<1>9. Sends'
  BY ONLY <1>0, <1>1, <1>2, <1>3, SendsKept, Zenon
<1>10. InOrder'
  BY <1>0, <1>1 DEF InOrder
<1>11. Readable'
  <2>1. \A e : Reach(e)' => Reach(e)
    BY ONLY <1>1, <1>3, Zenon DEF Reach
  <2>2. Lasting
    BY ONLY <1>1, StoreSame, Zenon
  <2>3. \A u \in Worker : pc'[u] = "settle" /\ verdict'[u] = "park" =>
                \/ pc[u] = "settle" /\ verdict[u] = "park"
                \/ \A m \in held[u] : Gone(m.body)'
    BY <1>1, <1>2, <2>2 DEF Lasting
  <2>. QED  BY ONLY <1>0, <1>1, <1>3, <2>1, <2>2, <2>3, ReadableKept, Zenon
<1>12. Accounted'
  <2>1. \A e : Alive(e) => Alive(e)'
    BY ONLY <1>1, <1>2, <1>3, pc[w] \in {"work", "settle"}, v # "accept", Zenon DEF Alive
  <2>. QED  BY ONLY <1>0, <1>1, <2>1, AccountedKept, Zenon
<1>. QED  BY <1>4, <1>5, <1>6, <1>7, <1>8, <1>9, <1>10, <1>11, <1>12 DEF IInv

\* The work of a step is done when that of the steps before it is.
LEMMA WorkKeeps ==
    ASSUME Types, InOrder, NEW k \in Step, NEW m, Fits(m, k),
           worked' = [worked EXCEPT ![m.run] = @ \cup {k}], first' = first,
           \A r \in Run : r # m.run => fate'[r] = fate[r],
           "completed" \in fate'[m.run] => "completed" \in fate[m.run] \/ k = N
    PROVE  InOrder' /\ Grows /\ worked' \in [Run -> SUBSET Step] /\ k \in worked'[m.run]
<1>. DEFINE s == m.run
<1>1. s \in Run /\ first[s] \in 1..k /\ \A j \in Step : first[s] <= j /\ j < k => j \in worked[s]
  BY DEF Fits
<1>2. \A r \in Run : worked'[r] = IF r = s THEN worked[r] \cup {k} ELSE worked[r]
  BY DEF Types
<1>3. worked' \in [Run -> SUBSET Step]
  BY Zenon DEF Types
<1>4. \A r \in Run : r # s => fate'[r] = fate[r]
  OBVIOUS
<1>5. "completed" \in fate'[s] => "completed" \in fate[s] \/ k = N
  OBVIOUS
<1>6. k \in Nat /\ k <= N /\ \A j \in Step : j \in Nat /\ j <= N
  BY Route, SMT DEF Step
<1>7. \A r \in Run : worked[r] \subseteq Step /\ first[r] \in Nat
  BY SMT DEF Types
<1>. HIDE DEF s
<1>8. \A r \in Run : \A i \in worked'[r] : first'[r] <= i
  <2>1. \A r \in Run : \A i \in worked[r] : first[r] <= i
    BY DEF InOrder
  <2>2. first[s] <= k
    BY ONLY <1>1, <1>6
  <2>. QED  BY ONLY <1>1, <1>2, <2>1, <2>2, first' = first, Zenon
<1>9. \A r \in Run : first'[r] = 0 => worked'[r] = {} /\ fate'[r] = {}
  <2>1. \A r \in Run : first[r] = 0 => worked[r] = {} /\ fate[r] = {}
    BY DEF InOrder
  <2>2. first[s] # 0
    BY ONLY <1>1, <1>6
  <2>. QED  BY ONLY <1>2, <1>4, <2>1, <2>2, first' = first, Zenon
<1>10. \A r \in Run : \A i \in worked'[r] : \A j \in Step : first'[r] <= j /\ j < i => j \in worked'[r]
  <2>1. \A r \in Run : \A i \in worked[r] : \A j \in Step : first[r] <= j /\ j < i => j \in worked[r]
    BY DEF InOrder
  <2>2. \A j \in Step : first[s] <= j /\ j < k => j \in worked'[s]
    BY ONLY <1>1, <1>2, Zenon
  <2>3. \A i \in worked[s] : \A j \in Step : first[s] <= j /\ j < i => j \in worked'[s]
    BY ONLY <1>1, <1>2, <2>1, Zenon
  <2>4. \A i \in worked'[s] : \A j \in Step : first[s] <= j /\ j < i => j \in worked'[s]
    BY ONLY <1>1, <1>2, <2>2, <2>3, Zenon
  <2>5. \A r \in Run : r # s => worked'[r] = worked[r]
    BY ONLY <1>2, Zenon
  <2>. QED  BY ONLY <2>1, <2>4, <2>5, first' = first, Zenon
<1>11. \A r \in Run : "completed" \in fate'[r] => \A j \in Step : first'[r] <= j => j \in worked'[r]
  <2>1. ASSUME NEW j \in Step, first[s] <= j, k = N PROVE j \in worked'[s]
    <3>1. j < k \/ j = k
      BY ONLY <1>6, <2>1
    <3>. QED  BY ONLY <1>1, <1>2, <2>1, <3>1, Zenon
  <2>2. ASSUME NEW j \in Step, first[s] <= j, "completed" \in fate[s] PROVE j \in worked'[s]
    <3>1. j \in worked[s]
      BY <1>1, <2>2 DEF InOrder
    <3>. QED  BY ONLY <1>1, <1>2, <3>1, Zenon
  <2>3. ASSUME NEW r \in Run, r # s, "completed" \in fate'[r] PROVE \A j \in Step : first'[r] <= j => j \in worked'[r]
    BY ONLY <1>2, <1>4, <2>3, InOrder, first' = first, Zenon DEF InOrder
  <2>. QED  BY ONLY <1>5, <2>1, <2>2, <2>3, first' = first, Zenon
<1>12. InOrder'
  BY ONLY <1>8, <1>9, <1>10, <1>11, Zenon DEF InOrder
<1>13. Grows
  BY ONLY <1>2, first' = first, Zenon DEF Grows
<1>14. k \in worked'[s]
  BY ONLY <1>1, <1>2, Zenon
<1>. QED  BY <1>3, <1>12, <1>13, <1>14 DEF s

\* A step's work is done and the run has ended: the message may be let go.
LEMMA EndKeeps ==
    ASSUME IInv, NEW w \in Worker, NEW m \in held[w], pc[w] = "work", NEW f,
           f = "completed" => w[1] = N,
           worked' = [worked EXCEPT ![m.run] = @ \cup {w[1]}],
           fate' = [fate EXCEPT ![m.run] = @ \cup {f}],
           verdict' = [verdict EXCEPT ![w] = "accept"], pc' = [pc EXCEPT ![w] = "settle"],
           UNCHANGED <<stages, held, out, first, sent, ready, declared, claimVars, replayVars>>
    PROVE  IInv'
<1>0. Types /\ Bagged /\ Holding /\ InTurn /\ Placed /\ Sends /\ InOrder /\ Readable /\ Accounted
  BY DEF IInv
<1>1. /\ stage' = stage /\ at' = at /\ held' = held /\ out' = out /\ ready' = ready /\ minted' = minted
      /\ declared' = declared
      /\ first' = first /\ sent' = sent /\ contents' = contents
      /\ phase' = phase /\ from' = from /\ pulled' = pulled /\ declined' = declined
  BY DEF stages, claimVars, replayVars
<1>2. /\ \A u \in Worker : verdict'[u] = IF u = w THEN "accept" ELSE verdict[u]
      /\ \A u \in Worker : pc'[u] = IF u = w THEN "settle" ELSE pc[u]
  BY <1>0 DEF Types
<1>3. w[1] \in Step /\ Fits(m, w[1]) /\ m.run \in Run
  BY <1>0 DEF Worker, Placed, Fits
<1>4. /\ fate' = [r \in Run |-> fate'[r]]
      /\ \A r \in Run : fate'[r] = IF r = m.run THEN fate[r] \cup {f} ELSE fate[r]
  BY <1>0, <1>3, Zenon DEF Types
<1>5. InOrder' /\ Grows /\ worked' \in [Run -> SUBSET Step]
  <2>1. \A r \in Run : r # m.run => fate'[r] = fate[r]
    BY <1>4
  <2>2. "completed" \in fate'[m.run] => "completed" \in fate[m.run] \/ w[1] = N
    BY <1>3, <1>4
  <2>. QED  BY <1>0, <1>1, <1>3, <2>1, <2>2, WorkKeeps, Zenon
<1>6. \A p : At(p)' = At(p)
  BY <1>1 DEF At
<1>7. Types'
  <2>1. /\ pc' \in [Worker -> {"off", "idle", "work", "send", "settle"}]
        /\ verdict' = [u \in Worker |-> verdict'[u]]
    BY <1>0 DEF Types
  <2>. QED  BY ONLY <1>0, <1>1, <1>4, <1>5, <2>1, Zenon DEF Types
<1>8. Bagged'
  BY ONLY <1>0, <1>1, Zenon DEF Bagged, IsBags
<1>9. Holding'
  <2>1. \A u \in Worker : pc'[u] \in {"off", "idle"} <=> pc[u] \in {"off", "idle"}
    BY <1>2, SMT
  <2>. QED  BY ONLY <1>0, <1>1, <2>1, Zenon DEF Holding
<1>10. InTurn'
  BY <1>0, <1>1, <1>2, InTurnKept DEF Types
<1>11. Placed'
  BY ONLY <1>0, <1>1, <1>5, <1>6, PlacedKept, Zenon
<1>12. Sends'
  BY ONLY <1>0, <1>1, <1>2, <1>5, SendsKept, Zenon
<1>13. Readable'
  <2>1. \A e : Reach(e)' => Reach(e)
    BY ONLY <1>1, <1>6, Zenon DEF Reach
  <2>. QED  BY ONLY <1>0, <1>1, <1>2, <1>6, <2>1, StoreSame, ReadableKept, Zenon
<1>14. Accounted'
  <2>1. held[w] = {m}
    BY <1>0 DEF Holding
  <2>2. fate'[m.run] # {} /\ \A r \in sent : fate[r] # {} => fate'[r] # {}
    BY <1>0, <1>3, <1>4, Zenon DEF Types
  <2>3. \A e : Alive(e) => Alive(e)' \/ e = m
    BY ONLY <1>1, <1>2, <1>6, <2>1, Zenon DEF Alive
  <2>. QED  BY ONLY <1>0, <1>1, <2>2, <2>3, AccountedKept, Zenon
<1>. QED  BY <1>5, <1>7, <1>8, <1>9, <1>10, <1>11, <1>12, <1>13, <1>14 DEF IInv

-----------------------------------------------------------------------------
(* The work of a step, its answer and its settlement *)

\* A step's work is done and there are more: the slip to send on is the next step's.
LEMMA OnKeeps ==
    ASSUME IInv, NEW w \in Worker, NEW m \in held[w], pc[w] = "work", NEW slip,
           w[1] < N,
           \/ slip = SlipOf("json", w[1] + 1)
           \/ slip = SlipOf("steps", w[1] + 1) /\ m.headers.json = NoSlip,
           worked' = [worked EXCEPT ![m.run] = @ \cup {w[1]}],
           out' = [out EXCEPT ![w] = slip], pc' = [pc EXCEPT ![w] = "send"],
           UNCHANGED <<stages, held, verdict, fate, first, sent, ready, declared, claimVars, replayVars>>
    PROVE  IInv'
<1>0. Types /\ Bagged /\ Holding /\ InTurn /\ Placed /\ Sends /\ InOrder /\ Readable /\ Accounted
  BY DEF IInv
<1>1. /\ stage' = stage /\ at' = at /\ held' = held /\ verdict' = verdict /\ ready' = ready /\ minted' = minted
      /\ declared' = declared /\ fate' = fate
      /\ first' = first /\ sent' = sent /\ contents' = contents
      /\ phase' = phase /\ from' = from /\ pulled' = pulled /\ declined' = declined
  BY DEF stages, claimVars, replayVars
<1>2. /\ out' = [u \in Worker |-> out'[u]]
      /\ \A u \in Worker : out'[u] = IF u = w THEN slip ELSE out[u]
      /\ pc' \in [Worker -> {"off", "idle", "work", "send", "settle"}]
      /\ \A u \in Worker : pc'[u] = IF u = w THEN "send" ELSE pc[u]
  BY <1>0, Zenon DEF Types
<1>3. w[1] \in Step /\ Fits(m, w[1])
  BY <1>0 DEF Worker, Placed
<1>4. InOrder' /\ Grows /\ worked' \in [Run -> SUBSET Step] /\ w[1] \in worked'[m.run]
  BY <1>0, <1>1, <1>3, WorkKeeps, Zenon
<1>5. SendsOn(w, m)'
  BY <1>2, <1>4 DEF SendsOn
<1>6. \A p : At(p)' = At(p)
  BY <1>1 DEF At
<1>7. Types'
  BY ONLY <1>0, <1>1, <1>2, <1>4, Zenon DEF Types
<1>8. Bagged'
  BY ONLY <1>0, <1>1, Zenon DEF Bagged, IsBags
<1>9. Holding' /\ held[w] = {m}
  <2>1. \A u \in Worker : pc'[u] \in {"off", "idle"} <=> pc[u] \in {"off", "idle"}
    BY <1>2
  <2>2. Holding'
    BY ONLY <1>0, <1>1, <2>1, Zenon DEF Holding
  <2>. QED  BY <1>0, <2>2 DEF Holding
<1>10. InTurn'
  BY <1>0, <1>1, <1>2, InTurnKept DEF Types
<1>11. Placed'
  BY ONLY <1>0, <1>1, <1>4, <1>6, PlacedKept, Zenon
<1>12. Sends'
  BY ONLY <1>0, <1>1, <1>2, <1>4, <1>5, <1>9, SendsKept, Zenon
<1>13. Readable'
  <2>1. \A e : Reach(e)' => Reach(e)
    BY ONLY <1>1, <1>6, Zenon DEF Reach
  <2>. QED  BY ONLY <1>0, <1>1, <1>2, <1>6, <2>1, StoreSame, ReadableKept, Zenon
<1>14. Accounted'
  <2>1. \A e : Alive(e) => Alive(e)'
    BY ONLY <1>1, <1>2, <1>6, pc[w] = "work", Zenon DEF Alive
  <2>. QED  BY ONLY <1>0, <1>1, <2>1, AccountedKept, Zenon
<1>. QED  BY <1>4, <1>7, <1>8, <1>9, <1>10, <1>11, <1>12, <1>13, <1>14 DEF IInv

\* What a handler does about its delivery, up to its answer or the next message.
LEMMA WorkStepKeeps ==
    ASSUME IInv, NEW w \in Worker, NEW m \in held[w], Work(w, m), UNCHANGED replayVars
    PROVE  IInv'
<1>0. Types /\ Holding /\ Placed /\ Readable
  BY DEF IInv
<1>1. pc[w] = "work" /\ UNCHANGED <<stages, held, first, sent, ready, declared, claimVars>>
  BY DEF Work
<1>2. CASE NoWork(w, m)
  <2>1. UNCHANGED <<stages, held, out, history, ready, declared, claimVars, replayVars>>
    BY <1>1, <1>2 DEF NoWork, history
  <2>2. PICK v \in {"park", "retry", "reject"} :
            (v = "park" => ~Redeemable(m.body)) /\ Answer(w, v)
    BY <1>2, Zenon DEF NoWork
  <2>3. v = "park" => \A e \in held[w] : Gone(e.body)
    <3>1. Reach(m) /\ held[w] = {m}
      BY <1>0 DEF Reach, Holding
    <3>. QED  BY <1>0, <2>2, <3>1 DEF Readable, Known, Gone, Redeemable, Held
  <2>. QED  BY <1>1, <2>1, <2>2, <2>3, AnswerKeeps
<1>3. CASE StepFails(w)
  <2>1. UNCHANGED <<stages, held, out, history, ready, declared, claimVars, replayVars>>
    BY <1>1, <1>3 DEF StepFails, history
  <2>2. PICK v \in {"retry", "reject"} : Answer(w, v)
    BY <1>3 DEF StepFails
  <2>. QED  BY <1>1, <2>1, <2>2, AnswerKeeps
<1>4. CASE ~Unusable(SlipAt(w, m)) /\ StepDone(w, m)
  <2>. DEFINE slip == Advance(SlipAt(w, m))
  <2>1. w[1] \in Step /\ Fits(m, w[1])
    BY <1>0 DEF Worker, Placed
  <2>2. \/ SlipAt(w, m) = SlipOf("json", w[1])
        \/ SlipAt(w, m) = SlipOf("steps", w[1]) /\ m.headers.json = NoSlip
    BY <1>4, <2>1, SlipWorks
  <2>3. /\ \/ slip = SlipOf("json", w[1] + 1)
           \/ slip = SlipOf("steps", w[1] + 1) /\ m.headers.json = NoSlip
        /\ More(slip) <=> w[1] < N
    BY <2>1, <2>2, SlipMoves, SMT
  <2>. HIDE DEF slip
  <2>4. worked' = [worked EXCEPT ![m.run] = @ \cup {w[1]}]
    BY <1>4, Zenon DEF StepDone
  <2>5. \/ /\ verdict' = [verdict EXCEPT ![w] = "accept"] /\ pc' = [pc EXCEPT ![w] = "settle"]
           /\ fate' = [fate EXCEPT ![m.run] = @ \cup {"ended early"}] /\ out' = out
        \/ /\ ~More(slip)
           /\ verdict' = [verdict EXCEPT ![w] = "accept"] /\ pc' = [pc EXCEPT ![w] = "settle"]
           /\ fate' = [fate EXCEPT ![m.run] = @ \cup {"completed"}] /\ out' = out
        \/ /\ More(slip) /\ pc' = [pc EXCEPT ![w] = "send"]
           /\ out' = [out EXCEPT ![w] = slip] /\ fate' = fate /\ verdict' = verdict
    BY <1>4, Zenon DEF StepDone, Answer, slip
  <2>6. CASE More(slip) /\ pc' = [pc EXCEPT ![w] = "send"] /\ out' = [out EXCEPT ![w] = slip]
             /\ fate' = fate /\ verdict' = verdict
    <3>1. UNCHANGED <<stages, held, verdict, fate, first, sent, ready, declared, claimVars, replayVars>>
      BY <1>1, <2>6
    <3>. QED  BY <1>1, <2>3, <2>4, <2>6, <3>1, OnKeeps, Zenon
  <2>7. ASSUME NEW f, f = "completed" => ~More(slip),
               verdict' = [verdict EXCEPT ![w] = "accept"], pc' = [pc EXCEPT ![w] = "settle"],
               fate' = [fate EXCEPT ![m.run] = @ \cup {f}], out' = out
        PROVE  IInv'
    <3>1. UNCHANGED <<stages, held, out, first, sent, ready, declared, claimVars, replayVars>>
      BY <1>1, <2>7
    <3>2. f = "completed" => w[1] = N
      BY <2>1, <2>3, <2>7, Route, SMT DEF Step
    <3>. QED  BY <1>1, <2>4, <2>7, <3>1, <3>2, EndKeeps
  <2>. QED  BY <2>5, <2>6, <2>7, Zenon
<1>. QED  BY <1>2, <1>3, <1>4 DEF Work

\* The next message is out, or the delivery is to be tried again.
LEMMA SentOnKeeps ==
    ASSUME IInv, NEW w \in Worker, NEW m \in held[w], pc[w] = "send", NEW e, NEW v,
           w[1] + 1 \in Step, Fits(e, w[1] + 1), e.run = m.run, Known(e.body)',
           ready' = ready \/ ready' = With(ready, Queue(w[1] + 1), e),
           v = "accept" => ready' = With(ready, Queue(w[1] + 1), e), v # "park",
           verdict' = [verdict EXCEPT ![w] = v], pc' = [pc EXCEPT ![w] = "settle"],
           out' = [out EXCEPT ![w] = NoSlip], Lasting, minted' \in Nat,
           UNCHANGED <<stages, held, history, declared, inMemory, replayVars>>
    PROVE  IInv'
<1>0. Types /\ Bagged /\ Holding /\ InTurn /\ Placed /\ Sends /\ InOrder /\ Readable /\ Accounted
  BY DEF IInv
<1>1. /\ stage' = stage /\ at' = at /\ held' = held
      /\ declared' = declared /\ worked' = worked /\ fate' = fate
      /\ first' = first /\ sent' = sent
      /\ phase' = phase /\ from' = from /\ pulled' = pulled /\ declined' = declined
  BY DEF stages, history, replayVars
<1>2. /\ \A u \in Worker : verdict'[u] = IF u = w THEN v ELSE verdict[u]
      /\ \A u \in Worker : pc'[u] = IF u = w THEN "settle" ELSE pc[u]
      /\ pc' \in [Worker -> {"off", "idle", "work", "send", "settle"}]
      /\ verdict' = [u \in Worker |-> verdict'[u]]
  BY <1>0 DEF Types
<1>3. out' = [u \in Worker |-> out'[u]] /\ \A u \in Worker : u # w => out'[u] = out[u]
  BY <1>0 DEF Types
<1>4. PICK k \in Step : k = w[1] + 1
  OBVIOUS
<1>5. /\ IsBags(ready)'
      /\ \A q \in Place : At(q) \subseteq At(q)'
      /\ \A q \in Place : \A d \in At(q)' : d \in At(q) \/ (q = Queue(k) /\ d = e)
      /\ v = "accept" => e \in At(Queue(k))'
  BY <1>0, <1>4, PublishAt
<1>6. Grows
  BY ONLY <1>1, Zenon DEF Grows
<1>7. Fits(e, k)'
  BY <1>4, <1>6, FitsKept
<1>8. Known(e.body)' /\ Lasting /\ e.run = m.run /\ minted' \in Nat /\ v # "park"
  OBVIOUS
<1>9. Types'
  BY ONLY <1>0, <1>1, <1>2, <1>3, <1>8, Zenon DEF Types
<1>10. Bagged'
  BY ONLY <1>0, <1>1, <1>5, Zenon DEF Bagged
<1>11. Holding'
  <2>1. \A u \in Worker : pc'[u] \in {"off", "idle"} <=> pc[u] \in {"off", "idle"}
    BY <1>2
  <2>. QED  BY ONLY <1>0, <1>1, <2>1, Zenon DEF Holding
<1>12. InTurn'
  <2>1. \A u \in Worker : pc'[u] = "off" <=> pc[u] = "off"
    BY <1>2
  <2>. QED  BY ONLY <1>0, <1>1, <2>1, InTurnKept, Zenon DEF Types
<1>13. Placed'
  <2>1. \A j \in Step : \A d \in At(Queue(j))' \cup At(Dead(j))' :
            d \in At(Queue(j)) \cup At(Dead(j)) \/ Fits(d, j)'
    BY ONLY <1>5, <1>7, Places, Zenon
  <2>. QED  BY ONLY <1>0, <1>1, <1>6, <2>1, PlacedKept, Zenon
<1>14. Sends'
  BY ONLY <1>0, <1>1, <1>2, <1>3, <1>6, SendsKept, Zenon
<1>15. InOrder'
  BY ONLY <1>0, <1>1, Zenon DEF InOrder
<1>16. Readable'
  <2>1. \A d : Reach(d)' => Reach(d) \/ d = e
    BY ONLY <1>1, <1>5, Zenon DEF Reach
  <2>2. At(Parked)' = At(Parked)
    BY ONLY <1>5, Places, Zenon
  <2>. QED  BY ONLY <1>0, <1>1, <1>2, <1>8, <2>1, <2>2, ReadableKept, Zenon
<1>17. Accounted'
  <2>1. held[w] = {m}
    BY <1>0 DEF Holding
  <2>2. v = "accept" => Alive(e)'
    BY ONLY <1>4, <1>5, Places, Zenon DEF Alive
  <2>3. \A d : Alive(d) => Alive(d)' \/ (d = m /\ v = "accept")
    BY ONLY <1>1, <1>2, <1>5, <2>1, Zenon DEF Alive
  <2>. QED  BY ONLY <1>0, <1>1, <1>8, <2>2, <2>3, AccountedKept, Zenon
<1>. QED  BY <1>9, <1>10, <1>11, <1>12, <1>13, <1>14, <1>15, <1>16, <1>17 DEF IInv

\* The step's handler publishes the message to the next queue of its route,
\* or cannot (Forward).
LEMMA ForwardKeeps ==
    ASSUME IInv, NEW w \in Worker, NEW m \in held[w], Forward(w, m), UNCHANGED replayVars
    PROVE  IInv'
<1>0. Types /\ Placed /\ Sends
  BY DEF IInv
<1>1. /\ pc[w] = "send" /\ out' = [out EXCEPT ![w] = NoSlip]
      /\ UNCHANGED <<stages, held, history, declared, inMemory>>
  BY DEF Forward
<1>2. w[1] \in Step /\ Fits(m, w[1]) /\ SendsOn(w, m)
  BY <1>0, <1>1 DEF Worker, Placed, Sends
<1>3. w[1] \in Nat /\ w[1] + 1 \in Step
  BY <1>2, Route, SMT DEF SendsOn, Step
<1>. DEFINE k == w[1] + 1
            h == Onwards(m.headers, out[w])
            next(body) == Message(m.run, h, body)
<1>4. NextStep(out[w]) = k
  BY <1>2, <1>3, SlipMoves DEF SendsOn
<1>5. h \in HeadersAt(k)
  BY <1>2, <1>3, SlipWritten DEF SendsOn, Fits
<1>6. /\ m.run \in Run /\ first[m.run] \in 1..k
      /\ \A j \in Step : first[m.run] <= j /\ j < k => j \in worked[m.run]
  <2>1. /\ m.run \in Run /\ first[m.run] \in 1..w[1] /\ w[1] \in worked[m.run]
        /\ \A j \in Step : first[m.run] <= j /\ j < w[1] => j \in worked[m.run]
    BY <1>2 DEF Fits, SendsOn
  <2>2. \A j \in Step : j < k => j < w[1] \/ j = w[1]
    BY <1>3 DEF Step
  <2>3. first[m.run] \in 1..k
    BY <1>3, <2>1
  <2>. QED  BY ONLY <2>1, <2>2, <2>3, Zenon
<1>. HIDE DEF h, k
<1>7. ASSUME NEW body \in {Inline} \cup Nat
      PROVE  Fits(next(body), k) /\ next(body).run = m.run /\ next(body).body = body
  <2>1. /\ next(body) \in [run : {m.run}, headers : HeadersAt(k), body : {Inline} \cup Nat, attempt : Nat]
        /\ next(body).run = m.run /\ next(body).body = body
    BY <1>5, MessageIs, SMT
  <2>. HIDE DEF next
  <2>2. next(body) \in [run : Run, headers : HeadersAt(k), body : {Inline} \cup Nat, attempt : Nat]
    BY ONLY <1>6, <2>1, Zenon
  <2>. QED  BY ONLY <1>6, <2>1, <2>2, Zenon DEF Fits
<1>8. \/ \E body \in {Inline, minted + 1} :
            /\ Encode(body)
            /\ \/ Published(k, next(body)) /\ Answer(w, "accept")
               \/ PublishFails(k, next(body)) /\ Answer(w, "retry")
      \/ k \notin declared /\ Answer(w, "retry") /\ UNCHANGED <<ready, trouble, claims>>
      \/ Trouble /\ Answer(w, "retry") /\ UNCHANGED <<ready, claims>>
  BY <1>4, Zenon DEF Forward, h, k
<1>. HIDE DEF next
<1>9. k = w[1] + 1
  BY DEF k
<1>10. ASSUME NEW body, Encode(body), NEW v \in {"accept", "retry"}, Answer(w, v),
              ready' = ready \/ ready' = With(ready, Queue(k), next(body)),
              v = "accept" => ready' = With(ready, Queue(k), next(body))
       PROVE  IInv'
  <2>1. Lasting /\ minted' \in Nat /\ Known(body)' /\ body \in {Inline} \cup Nat
    BY <1>0, <1>10, EncodeFacts
  <2>2. Fits(next(body), k) /\ next(body).run = m.run /\ next(body).body = body
    BY <1>7, <2>1
  <2>3. verdict' = [verdict EXCEPT ![w] = v] /\ pc' = [pc EXCEPT ![w] = "settle"]
    BY <1>10 DEF Answer
  <2>4. UNCHANGED <<stages, held, history, declared, inMemory, replayVars>>
    BY <1>1
  <2>5. PICK e : e = next(body)
    OBVIOUS
  <2>6. /\ Fits(e, w[1] + 1) /\ e.run = m.run /\ Known(e.body)'
        /\ ready' = ready \/ ready' = With(ready, Queue(w[1] + 1), e)
        /\ v = "accept" => ready' = With(ready, Queue(w[1] + 1), e)
        /\ v # "park"
    BY ONLY <1>9, <1>10, <2>1, <2>2, <2>5, Zenon
  <2>. QED  BY <1>1, <1>3, <2>1, <2>3, <2>4, <2>6, SentOnKeeps
<1>11. CASE Answer(w, "retry") /\ UNCHANGED <<ready, claims>>
  <2>1. Encode(Inline)
    BY <1>11 DEF Encode
  <2>2. ready' = ready
    BY <1>11
  <2>. QED  BY <1>10, <1>11, <2>1, <2>2
<1>12. CASE \E body \in {Inline, minted + 1} :
            /\ Encode(body)
            /\ \/ Published(k, next(body)) /\ Answer(w, "accept")
               \/ PublishFails(k, next(body)) /\ Answer(w, "retry")
  <2>1. PICK body \in {Inline, minted + 1} :
            /\ Encode(body)
            /\ \/ Published(k, next(body)) /\ Answer(w, "accept")
               \/ PublishFails(k, next(body)) /\ Answer(w, "retry")
    BY <1>12
  <2>2. CASE Published(k, next(body)) /\ Answer(w, "accept")
    <3>1. ready' = With(ready, Queue(k), next(body))
      BY <2>2 DEF Published
    <3>. QED  BY <1>10, <2>1, <2>2, <3>1
  <2>3. CASE PublishFails(k, next(body)) /\ Answer(w, "retry")
    <3>1. ready' = ready \/ ready' = With(ready, Queue(k), next(body))
      BY <2>3, PublishReady
    <3>. QED  BY <1>10, <2>1, <2>3, <3>1
  <2>. QED  BY <2>1, <2>2, <2>3
<1>. QED  BY <1>8, <1>11, <1>12

\* An answer that comes too late is made one to try again.
LEMMA OverrunKeeps ==
    ASSUME IInv, NEW w \in Worker, Overrun(w), UNCHANGED replayVars PROVE IInv'
<1>1. pc[w] = "settle" /\ verdict' = [verdict EXCEPT ![w] = "retry"] /\ pc' = pc
  BY DEF Overrun
<1>2. pc' = [pc EXCEPT ![w] = "settle"]
  BY <1>1 DEF IInv, Types
<1>3. Answer(w, "retry")
  BY <1>1, <1>2, Zenon DEF Answer
<1>4. UNCHANGED <<stages, held, out, history, ready, declared, claimVars, replayVars>>
  BY DEF Overrun
<1>. QED  BY <1>1, <1>3, <1>4, AnswerKeeps

\* A message belongs where it does whatever its attempt.
LEMMA AttemptFits ==
    ASSUME NEW k \in Step, NEW m, Fits(m, k), NEW n \in Nat, NEW e, e = [m EXCEPT !.attempt = n]
    PROVE  Fits(e, k) /\ e.run = m.run /\ e.body = m.body
<1>1. m \in [run : Run, headers : HeadersAt(k), body : {Inline} \cup Nat, attempt : Nat]
  BY DEF Fits
<1>. DEFINE H == HeadersAt(k)
            B == {Inline} \cup Nat
<1>. HIDE DEF H, B
<1>2. m \in [run : Run, headers : H, body : B, attempt : Nat]
  BY <1>1 DEF H, B
<1>3. e \in [run : Run, headers : H, body : B, attempt : Nat] /\ e.run = m.run /\ e.body = m.body
  BY ONLY <1>2, n \in Nat, e = [m EXCEPT !.attempt = n], Zenon
<1>. QED  BY <1>3 DEF Fits, H, B

\* The engine lets go of a delivery that was accepted, and publishes any other
\* before it does.
LEMMA SettleKeeps ==
    ASSUME IInv, NEW w \in Worker, NEW m \in held[w], Settle(w, m), UNCHANGED replayVars
    PROVE  IInv'
<1>0. Types /\ Bagged /\ Holding /\ InTurn /\ Placed /\ Sends /\ InOrder /\ Readable /\ Accounted
  BY DEF IInv
<1>1. /\ stage' = stage /\ at' = at /\ out' = out /\ minted' = minted
      /\ declared' = declared /\ worked' = worked /\ fate' = fate
      /\ first' = first /\ sent' = sent /\ contents' = contents
      /\ phase' = phase /\ from' = from /\ pulled' = pulled /\ declined' = declined
  BY DEF Settle, stages, history, claimVars, replayVars
<1>2. /\ pc[w] = "settle" /\ held[w] = {m}
      /\ held' = [held EXCEPT ![w] = {}] /\ verdict' = [verdict EXCEPT ![w] = NoVerdict]
      /\ pc' = [pc EXCEPT ![w] = "idle"]
  BY <1>0 DEF Settle, Holding
<1>3. /\ \A u \in Worker : held'[u] = IF u = w THEN {} ELSE held[u]
      /\ \A u \in Worker : verdict'[u] = IF u = w THEN NoVerdict ELSE verdict[u]
      /\ \A u \in Worker : pc'[u] = IF u = w THEN "idle" ELSE pc[u]
      /\ held' = [u \in Worker |-> held'[u]] /\ verdict' = [u \in Worker |-> verdict'[u]]
      /\ pc' \in [Worker -> {"off", "idle", "work", "send", "settle"}]
  BY <1>0, <1>2, Zenon DEF Types
<1>4. PICK k \in Step : k = w[1]
  BY DEF Worker
<1>5. Fits(m, k)
  BY <1>0, <1>4 DEF Placed
<1>6. /\ verdict[w] = "accept" => ready' = ready
      /\ verdict[w] # "accept" =>
            \E p \in Place : \E e :
                /\ ready' = With(ready, p, e) /\ e.run = m.run /\ e.body = m.body
                /\ \/ p = Parked /\ verdict[w] = "park"
                   \/ (p = Queue(k) \/ p = Dead(k)) /\ Fits(e, k)
  <2>1. Queue(k) \in Place /\ Dead(k) \in Place /\ Parked \in Place
    BY Places
  <2>2. CASE verdict[w] = "accept"
    BY <2>2 DEF Settle
  <2>3. CASE verdict[w] = "retry" /\ m.attempt < MaxAttempts
    <3>1. PICK e : e = [m EXCEPT !.attempt = m.attempt + 1]
      BY Zenon
    <3>2. ready' = With(ready, Queue(k), e)
      BY <1>4, <2>3, <3>1 DEF Settle
    <3>3. m.attempt + 1 \in Nat
      BY <1>5 DEF Fits
    <3>4. Fits(e, k) /\ e.run = m.run /\ e.body = m.body
      BY <1>5, <3>1, <3>3, AttemptFits, SMT
    <3>. QED  BY <2>1, <2>3, <3>2, <3>4
  <2>4. CASE verdict[w] = "park"
    <3>1. ready' = With(ready, Parked, m)
      BY <2>4 DEF Settle
    <3>. QED  BY <2>1, <2>4, <3>1
  <2>5. CASE ~(verdict[w] = "accept") /\ ~(verdict[w] = "retry" /\ m.attempt < MaxAttempts)
             /\ ~(verdict[w] = "park")
    <3>1. ready' = With(ready, Dead(k), m)
      BY <1>4, <2>5 DEF Settle
    <3>. QED  BY <1>5, <2>1, <2>5, <3>1
  <2>. QED  BY <2>2, <2>3, <2>4, <2>5
<1>7. /\ IsBags(ready)'
      /\ \A q \in Place : At(q) \subseteq At(q)'
      /\ \A q \in Place : \A d \in At(q)' :
            \/ d \in At(q)
            \/ /\ d.run = m.run /\ d.body = m.body
               /\ \/ q = Parked /\ verdict[w] = "park"
                  \/ (q = Queue(k) \/ q = Dead(k)) /\ Fits(d, k)
      /\ verdict[w] # "accept" => \E q \in Place : \E d \in At(q)' : d.run = m.run
  <2>1. CASE verdict[w] = "accept"
    <3>1. ready' = ready
      BY <1>6, <2>1
    <3>. QED  BY <1>0, <2>1, <3>1 DEF Bagged, IsBags, At
  <2>2. CASE verdict[w] # "accept"
    <3>0. PICK p \in Place : \E e :
                /\ ready' = With(ready, p, e) /\ e.run = m.run /\ e.body = m.body
                /\ \/ p = Parked /\ verdict[w] = "park"
                   \/ (p = Queue(k) \/ p = Dead(k)) /\ Fits(e, k)
      BY <1>6, <2>2
    <3>1. PICK e : /\ ready' = With(ready, p, e) /\ e.run = m.run /\ e.body = m.body
                   /\ \/ p = Parked /\ verdict[w] = "park"
                      \/ (p = Queue(k) \/ p = Dead(k)) /\ Fits(e, k)
      BY <3>0
    <3>2. /\ IsBags(ready)'
          /\ \A q \in Place : At(q)' = IF q = p THEN At(q) \cup {e} ELSE At(q)
      BY <1>0, <3>1, PutAt
    <3>. QED  BY ONLY <3>1, <3>2, Zenon
  <2>. QED  BY <2>1, <2>2
<1>8. Grows
  BY ONLY <1>1, Zenon DEF Grows
<1>9. Types'
  BY ONLY <1>0, <1>1, <1>3, Zenon DEF Types
<1>10. Bagged'
  BY ONLY <1>0, <1>1, <1>7, Zenon DEF Bagged
<1>11. Holding'
  BY ONLY <1>0, <1>1, <1>3, Zenon DEF Holding
<1>12. InTurn'
  <2>1. \A u \in Worker : pc'[u] = "off" <=> pc[u] = "off"
    BY <1>2, <1>3
  <2>. QED  BY ONLY <1>0, <1>1, <2>1, InTurnKept, Zenon DEF Types
<1>13. Placed'
  <2>1. ASSUME NEW j \in Step, NEW d \in At(Queue(j))' \cup At(Dead(j))'
        PROVE  d \in At(Queue(j)) \cup At(Dead(j)) \/ Fits(d, j)'
    <3>1. Fits(d, j) => Fits(d, j)'
      BY <1>8, FitsKept
    <3>. QED  BY ONLY <1>7, <2>1, <3>1, Places, Zenon
  <2>2. \A u \in Worker : \A d \in held'[u] : d \in held[u]
    BY ONLY <1>3, Zenon
  <2>. QED  BY ONLY <1>0, <1>1, <1>8, <2>1, <2>2, PlacedKept, Zenon
<1>14. Sends'
  BY ONLY <1>0, <1>1, <1>2, <1>3, <1>8, SendsKept, Zenon
<1>15. InOrder'
  BY ONLY <1>0, <1>1, Zenon DEF InOrder
<1>16. Readable'
  <2>1. Reach(m)
    BY DEF Reach
  <2>2. \A d : Reach(d)' => Reach(d) \/ d.body = m.body
    BY ONLY <1>1, <1>3, <1>7, Zenon DEF Reach
  <2>3. Lasting
    BY ONLY <1>1, StoreSame, Zenon
  <2>4. \A d \in At(Parked)' : d \in At(Parked) \/ (d.body = m.body /\ verdict[w] = "park")
    BY ONLY <1>7, Places, Zenon
  <2>5. verdict[w] = "park" => Gone(m.body)'
    BY <1>0, <1>2, <2>3 DEF Readable, Lasting
  <2>. QED  BY ONLY <1>0, <1>1, <1>2, <1>3, <2>1, <2>2, <2>3, <2>4, <2>5, ReadableKept, Zenon
<1>17. Accounted'
  <2>1. verdict[w] # "accept" => \E d : Alive(d)' /\ d.run = m.run
    BY ONLY <1>7, Zenon DEF Alive
  <2>2. \A d : Alive(d) => Alive(d)' \/ (d = m /\ verdict[w] # "accept")
    BY ONLY <1>1, <1>2, <1>3, <1>7 DEF Alive
  <2>. QED  BY ONLY <1>0, <1>1, <2>1, <2>2, AccountedKept, Zenon
<1>. QED  BY <1>9, <1>10, <1>11, <1>12, <1>13, <1>14, <1>15, <1>16, <1>17 DEF IInv

\* What the store's owner deletes, whoever refers to it, is gone.
LEMMA ExpireKeeps ==
    ASSUME IInv, NEW key \in contents, Expire(key), UNCHANGED replayVars PROVE IInv'
<1>0. Types /\ Bagged /\ Holding /\ InTurn /\ Placed /\ Sends /\ InOrder /\ Readable /\ Accounted
  BY DEF IInv
<1>1. /\ stage' = stage /\ at' = at /\ pc' = pc /\ held' = held /\ out' = out /\ verdict' = verdict
      /\ ready' = ready /\ minted' = minted /\ declared' = declared
      /\ first' = first /\ sent' = sent /\ worked' = worked /\ fate' = fate
      /\ phase' = phase /\ from' = from /\ pulled' = pulled /\ declined' = declined
      /\ contents' = contents \ {key}
  BY DEF Expire, Delete, pipelineVars, stages, handlers, history, replayVars
<1>2. Lasting
  BY <1>0, <1>1, StoreMoves DEF Types
<1>3. \A p : At(p)' = At(p)
  BY <1>1 DEF At
<1>4. Types' /\ Bagged' /\ Holding'
  BY ONLY <1>0, <1>1, Zenon DEF Types, Bagged, IsBags, Holding
<1>5. InTurn'
  BY ONLY <1>0, <1>1, InTurnKept, Zenon DEF Types
<1>6. Grows
  BY ONLY <1>1, Zenon DEF Grows
<1>7. Placed'
  BY ONLY <1>0, <1>1, <1>3, <1>6, PlacedKept, Zenon
<1>8. Sends'
  BY ONLY <1>0, <1>1, <1>6, SendsKept, Zenon
<1>9. InOrder'
  BY ONLY <1>0, <1>1, Zenon DEF InOrder
<1>10. Readable'
  <2>1. \A m : Reach(m)' => Reach(m)
    BY ONLY <1>1, <1>3, Zenon DEF Reach
  <2>. QED  BY ONLY <1>0, <1>1, <1>2, <1>3, <2>1, ReadableKept, Zenon
<1>11. Accounted'
  <2>1. \A m : Alive(m) => Alive(m)'
    BY ONLY <1>1, <1>3, Zenon DEF Alive
  <2>. QED  BY ONLY <1>0, <1>1, <2>1, AccountedKept, Zenon
<1>. QED  BY <1>4, <1>5, <1>7, <1>8, <1>9, <1>10, <1>11 DEF IInv

-----------------------------------------------------------------------------
(* The steps of a replay *)

\* A replay moves copies between a step's queues and itself, and loses none.
LEMMA ReplayKept ==
    ASSUME IInv, UNCHANGED <<declared, claimVars, pipelineVars>>, from' \in Step, Bagged', Holding',
           \A q \in Place : \A d \in At(q)' :
                \/ d \in At(q)
                \/ /\ (q = Queue(from) \/ q = Dead(from)) /\ Fits(d, from)
                   /\ \E e : Reach(e) /\ e.body = d.body,
           \A d \in pulled' \cup DOMAIN declined' :
                from' = from /\ Fits(d, from) /\ \E e : Reach(e) /\ e.body = d.body,
           \A m : Alive(m) => \E e : Alive(e)' /\ e.run = m.run
    PROVE  IInv'
<1>0. Types /\ InTurn /\ Placed /\ Sends /\ InOrder /\ Readable /\ Accounted
  BY DEF IInv
<1>1. /\ stage' = stage /\ at' = at /\ pc' = pc /\ held' = held /\ out' = out /\ verdict' = verdict
      /\ minted' = minted /\ declared' = declared /\ contents' = contents
      /\ first' = first /\ sent' = sent /\ worked' = worked /\ fate' = fate
  BY DEF pipelineVars, claimVars, stages, handlers, history
<1>2. /\ \A q \in Place : \A d \in At(q)' :
            \/ d \in At(q)
            \/ /\ (q = Queue(from) \/ q = Dead(from)) /\ Fits(d, from)
               /\ \E e : Reach(e) /\ e.body = d.body
      /\ \A d \in pulled' \cup DOMAIN declined' :
            from' = from /\ Fits(d, from) /\ \E e : Reach(e) /\ e.body = d.body
  OBVIOUS
<1>3. PICK n \in Step : n = from
  BY <1>0 DEF Types
<1>4. Grows
  BY ONLY <1>1, Zenon DEF Grows
<1>5. \A d : Fits(d, n) => Fits(d, n)'
  BY <1>4, FitsKept
<1>6. Types'
  BY ONLY <1>0, <1>1, from' \in Step, Zenon DEF Types
<1>7. InTurn'
  BY ONLY <1>0, <1>1, InTurnKept, Zenon DEF Types
<1>8. Placed'
  <2>1. ASSUME NEW k \in Step, NEW d \in At(Queue(k))' \cup At(Dead(k))'
        PROVE  d \in At(Queue(k)) \cup At(Dead(k)) \/ Fits(d, k)'
    <3>1. Queue(k) \in Place /\ Dead(k) \in Place
      BY Places
    <3>2. d \in At(Queue(k)) \cup At(Dead(k)) \/ (k = n /\ Fits(d, n))
      BY ONLY <1>2, <1>3, <2>1, <3>1, Places, Zenon
    <3>. QED  BY ONLY <1>5, <3>2, Zenon
  <2>2. ASSUME NEW d \in pulled' \cup DOMAIN declined' PROVE Fits(d, from)'
    <3>1. from' = n /\ Fits(d, n)'
      BY ONLY <1>2, <1>3, <1>5, <2>2, Zenon
    <3>. QED  BY ONLY <3>1, Zenon
  <2>. QED  BY ONLY <1>0, <1>1, <1>4, <2>1, <2>2, PlacedKept, Zenon
<1>9. Sends'
  BY ONLY <1>0, <1>1, <1>4, SendsKept, Zenon
<1>10. InOrder'
  BY ONLY <1>0, <1>1, Zenon DEF InOrder
<1>11. Readable'
  <2>1. \A d : Reach(d)' => \E e : Reach(e) /\ e.body = d.body
    <3>. TAKE d
    <3>1. CASE \E p \in Place : d \in At(p)'
      BY ONLY <1>2, <3>1, Zenon DEF Reach
    <3>2. CASE \E w \in Worker : d \in held'[w]
      BY ONLY <1>1, <3>2, Zenon DEF Reach
    <3>3. CASE d \in pulled' \cup DOMAIN declined'
      BY ONLY <1>2, <3>3, Zenon
    <3>. QED  BY ONLY <3>1, <3>2, <3>3, Zenon DEF Reach
  <2>2. At(Parked)' \subseteq At(Parked)
    BY ONLY <1>2, Places, Zenon
  <2>. QED  BY ONLY <1>0, <1>1, <2>1, <2>2, StoreSame, ReadableKept, Zenon
<1>12. Accounted'
  BY ONLY <1>0, <1>1, (\A m : Alive(m) => \E e : Alive(e)' /\ e.run = m.run), AccountedKept, Zenon
<1>. QED  BY <1>6, <1>7, <1>8, <1>9, <1>10, <1>11, <1>12 DEF IInv

\* Two messages put where they go.
LEMMA PutBoth ==
    ASSUME Bagged, NEW p \in Place, NEW d, NEW q \in Place, NEW e,
           ready' = With(With(ready, p, d), q, e)
    PROVE  /\ IsBags(ready)'
           /\ \A x \in Place : \A y : y \in At(x)' <=> y \in At(x) \/ (x = p /\ y = d) \/ (x = q /\ y = e)
<1>. DEFINE once == [ready EXCEPT ![p] = Plus(ready[p], d)]
<1>1. once[p] = Plus(ready[p], d) /\ \A x \in Place : x # p => once[x] = ready[x]
  BY DEF Bagged, IsBags
<1>2. ready' = [once EXCEPT ![q] = Plus(once[q], e)] /\ IsBags(once)
  BY DEF With, Bagged, IsBags
<1>. HIDE DEF once
<1>3. IsBags(ready') /\ ready'[q] = Plus(once[q], e) /\ \A x \in Place : x # q => ready'[x] = once[x]
  BY <1>2 DEF IsBags
<1>4. DOMAIN once[p] = DOMAIN ready[p] \cup {d} /\ DOMAIN ready'[q] = DOMAIN once[q] \cup {e}
  BY ONLY <1>1, <1>3, BagIs, Zenon
<1>. QED  BY ONLY <1>1, <1>3, <1>4, Zenon DEF At

\* What a replay holds may be delivered, and belongs at the step it replays.
LEMMA ReplayHolds ==
    ASSUME IInv
    PROVE  /\ from \in Step /\ Queue(from) \in Place /\ Dead(from) \in Place
           /\ \A m \in At(Dead(from)) \cup pulled \cup DOMAIN declined : Fits(m, from) /\ Reach(m)
           /\ \A m \in pulled : pulled = {m}
BY Places, SMT DEF IInv, Types, Placed, Reach, Holding

\* A replay begins, ends a pass or returns, and moves no message (StartReplay,
\* PassEnds, ReplayReturns).
LEMMA ReplayIdles ==
    ASSUME IInv, UNCHANGED <<declared, claimVars, pipelineVars>>,
           \/ \E k \in Step, filter \in SUBSET Run : StartReplay(k, filter)
           \/ PassEnds \/ ReplayReturns
    PROVE  IInv'
<1>0. Bagged /\ Holding
  BY DEF IInv
<1>1. /\ ready' = ready /\ pulled' = pulled /\ declined' = declined
      /\ phase \in {"idle", "pull", "putback"} /\ phase' \in {"idle", "pull", "putback"}
      /\ phase' = "idle" => declined = Nothing
  BY DEF StartReplay, PassEnds, ReplayReturns
<1>2. \/ from' = from /\ from' \in Step
      \/ from' \in Step /\ phase = "idle"
  BY ReplayHolds DEF StartReplay, PassEnds, ReplayReturns
<1>3. pulled = {} /\ (phase = "idle" => DOMAIN declined = {})
  BY <1>0, <1>1 DEF Holding
<1>4. DOMAIN Nothing = {}
  BY DEF Nothing
<1>5. held' = held /\ pc' = pc /\ verdict' = verdict /\ \A p : At(p)' = At(p)
  BY <1>1 DEF pipelineVars, handlers, At
<1>6. Bagged'
  BY ONLY <1>0, <1>1, Zenon DEF Bagged, IsBags
<1>7. Holding'
  <2>1. phase' = "idle" => DOMAIN declined' = {}
    BY <1>1, <1>4
  <2>. QED  BY ONLY <1>0, <1>1, <1>3, <1>5, <2>1, Zenon DEF Holding
<1>8. \A m : Alive(m) => Alive(m)'
  BY ONLY <1>1, <1>3, <1>5, Zenon DEF Alive
<1>9. \A d \in pulled' \cup DOMAIN declined' :
            from' = from /\ Fits(d, from) /\ \E e : Reach(e) /\ e.body = d.body
  <2>1. \A d \in pulled' \cup DOMAIN declined' : from' = from /\ Fits(d, from) /\ Reach(d)
    BY <1>1, <1>2, <1>3, ReplayHolds
  <2>. QED  BY ONLY <2>1, Zenon
<1>10. from' \in Step /\ UNCHANGED <<declared, claimVars, pipelineVars>> /\ \A q \in Place : \A d \in At(q)' : d \in At(q)
  BY <1>2, <1>5
<1>. QED  BY ONLY IInv, <1>6, <1>7, <1>8, <1>9, <1>10, ReplayKept, Zenon

\* A replay fetches a dead letter, to publish it or to put it back (Pull).
LEMMA PullKeeps ==
    ASSUME IInv, NEW m \in At(Dead(from)), Pull(m), UNCHANGED <<declared, claimVars, pipelineVars>>
    PROVE  IInv'
<1>0. Bagged /\ Holding
  BY DEF IInv
<1>1. /\ ready' = Without(ready, Dead(from), m) /\ from' = from /\ phase = "pull"
      /\ \/ phase' = "publish" /\ pulled' = {m} /\ declined' = declined
         \/ phase' = "pull" /\ pulled' = pulled /\ declined' = Plus(declined, m)
  BY DEF Pull, Fetch
<1>2. pulled = {}
  BY <1>0, <1>1 DEF Holding
<1>3. held' = held /\ pc' = pc /\ verdict' = verdict
  BY DEF pipelineVars, handlers
<1>4. /\ IsBags(ready)'
      /\ \A q \in Place : At(q)' \subseteq At(q)
      /\ \A q \in Place : \A e \in At(q) : e \in At(q)' \/ (q = Dead(from) /\ e = m)
  BY <1>0, <1>1, ReplayHolds, TakeAt
<1>5. \/ phase' = "publish" /\ pulled' = {m} /\ DOMAIN declined' = DOMAIN declined
      \/ phase' = "pull" /\ pulled' = {} /\ DOMAIN declined' = DOMAIN declined \cup {m}
  BY <1>1, <1>2, BagIs, Zenon
<1>6. Bagged'
  BY ONLY <1>4, Zenon DEF Bagged
<1>7. Holding'
  BY ONLY <1>0, <1>3, <1>5, Zenon DEF Holding
<1>8. \A e : Alive(e) => Alive(e)'
  BY ONLY <1>1, <1>2, <1>3, <1>4, <1>5, Zenon DEF Alive
<1>9. \A d \in pulled' \cup DOMAIN declined' :
            from' = from /\ Fits(d, from) /\ \E e : Reach(e) /\ e.body = d.body
  <2>1. \A d \in pulled' \cup DOMAIN declined' : from' = from /\ Fits(d, from) /\ Reach(d)
    BY <1>1, <1>5, ReplayHolds, SMT
  <2>. QED  BY ONLY <2>1, Zenon
<1>10. from' \in Step /\ UNCHANGED <<declared, claimVars, pipelineVars>> /\ \A q \in Place : \A d \in At(q)' : d \in At(q)
  BY <1>1, <1>4, ReplayHolds
<1>. QED  BY ONLY IInv, <1>6, <1>7, <1>8, <1>9, <1>10, ReplayKept, Zenon

\* The copy is out before the original is let go; when it may not be, the
\* original is returned.
LEMMA RepublishKeeps ==
    ASSUME IInv, NEW m \in pulled, Republish(m), UNCHANGED <<declared, claimVars, pipelineVars>>
    PROVE  IInv'
<1>0. Bagged /\ Holding
  BY DEF IInv
<1>1. /\ from \in Step /\ Queue(from) \in Place /\ Dead(from) \in Place
      /\ Fits(m, from) /\ Reach(m) /\ pulled = {m}
  BY ReplayHolds
<1>2. PICK e : e = [m EXCEPT !.attempt = 1]
  BY Zenon
<1>3. Fits(e, from) /\ e.run = m.run /\ e.body = m.body
  BY <1>1, <1>2, AttemptFits, SMT
<1>4. /\ from' = from /\ declined' = declined /\ phase = "publish"
      /\ \/ ready' = With(ready, Queue(from), e) /\ phase' = "ack" /\ pulled' = pulled
         \/ /\ phase' = "putback" /\ pulled' = {}
            /\ \/ ready' = With(ready, Dead(from), m)
               \/ ready' = With(With(ready, Queue(from), e), Dead(from), m)
  BY <1>2 DEF Republish, Settled, Returned
<1>5. held' = held /\ pc' = pc /\ verdict' = verdict
  BY DEF pipelineVars, handlers
<1>6. /\ IsBags(ready)'
      /\ \A q \in Place : At(q) \subseteq At(q)'
      /\ \A q \in Place : \A d \in At(q)' :
            \/ d \in At(q)
            \/ (q = Queue(from) /\ d = e) \/ (q = Dead(from) /\ d = m)
      /\ \/ phase' = "ack" /\ \E q \in Place : e \in At(q)'
         \/ phase' = "putback" /\ \E q \in Place : m \in At(q)'
  <2>1. CASE ready' = With(ready, Queue(from), e) /\ phase' = "ack"
    <3>1. IsBags(ready)' /\ \A q \in Place : At(q)' = IF q = Queue(from) THEN At(q) \cup {e} ELSE At(q)
      BY ONLY <1>0, <1>1, <2>1, PutAt, Zenon
    <3>. QED  BY ONLY <1>1, <2>1, <3>1, Zenon
  <2>2. CASE phase' = "putback" /\ ready' = With(ready, Dead(from), m)
    <3>1. IsBags(ready)' /\ \A q \in Place : At(q)' = IF q = Dead(from) THEN At(q) \cup {m} ELSE At(q)
      BY ONLY <1>0, <1>1, <2>2, PutAt, Zenon
    <3>. QED  BY ONLY <1>1, <2>2, <3>1, Zenon
  <2>3. CASE phase' = "putback" /\ ready' = With(With(ready, Queue(from), e), Dead(from), m)
    <3>1. /\ IsBags(ready)'
          /\ \A x \in Place : \A y : y \in At(x)' <=>
                y \in At(x) \/ (x = Queue(from) /\ y = e) \/ (x = Dead(from) /\ y = m)
      BY ONLY <1>0, <1>1, <2>3, PutBoth
    <3>. QED  BY ONLY <1>1, <2>3, <3>1, Zenon
  <2>. QED  BY <1>4, <2>1, <2>2, <2>3
<1>7. Bagged'
  BY ONLY <1>0, <1>4, <1>6, Zenon DEF Bagged
<1>8. Holding'
  <2>1. IF phase' \in {"publish", "ack"} THEN \E d : pulled' = {d} ELSE pulled' = {}
    BY <1>1, <1>4
  <2>2. phase' # "idle"
    BY <1>4
  <2>. QED  BY ONLY <1>0, <1>5, <2>1, <2>2, Zenon DEF Holding
<1>9. \A d : Alive(d) => \E c : Alive(c)' /\ c.run = d.run
  <2>1. \E c : Alive(c)' /\ c.run = m.run
    BY ONLY <1>1, <1>3, <1>6, Zenon DEF Alive
  <2>2. \A d : Alive(d) => Alive(d)' \/ d = m
    BY ONLY <1>1, <1>4, <1>5, <1>6, Zenon DEF Alive
  <2>. QED  BY ONLY <2>1, <2>2, Zenon
<1>10. \A q \in Place : \A d \in At(q)' :
            \/ d \in At(q)
            \/ /\ (q = Queue(from) \/ q = Dead(from)) /\ Fits(d, from)
               /\ \E c : Reach(c) /\ c.body = d.body
  BY ONLY <1>1, <1>3, <1>6, Zenon
<1>11. \A d \in pulled' \cup DOMAIN declined' :
            from' = from /\ Fits(d, from) /\ \E c : Reach(c) /\ c.body = d.body
  <2>1. \A d \in pulled' \cup DOMAIN declined' : from' = from /\ Fits(d, from) /\ Reach(d)
    BY <1>1, <1>4, ReplayHolds
  <2>. QED  BY ONLY <2>1, Zenon
<1>12. from' \in Step /\ UNCHANGED <<declared, claimVars, pipelineVars>>
  BY <1>1, <1>4
<1>. QED  BY ONLY IInv, <1>7, <1>8, <1>9, <1>10, <1>11, <1>12, ReplayKept, Zenon

\* The original is let go once its copy is out, or returned.
LEMMA AckKeeps ==
    ASSUME IInv, NEW m \in pulled, AckReplayed(m), UNCHANGED <<declared, claimVars, pipelineVars>>
    PROVE  IInv'
<1>0. Bagged /\ Holding
  BY DEF IInv
<1>1. from \in Step /\ Dead(from) \in Place /\ Fits(m, from) /\ Reach(m)
  BY ReplayHolds
<1>2. /\ from' = from /\ declined' = declined /\ phase = "ack" /\ pulled' = {}
      /\ \/ phase' = "pull" /\ ready' = ready
         \/ phase' = "putback" /\ ready' = With(ready, Dead(from), m)
  BY DEF AckReplayed, Settled, Returned
<1>3. held' = held /\ pc' = pc /\ verdict' = verdict
  BY DEF pipelineVars, handlers
<1>4. /\ IsBags(ready)'
      /\ \A q \in Place : At(q) \subseteq At(q)'
      /\ \A q \in Place : \A d \in At(q)' : d \in At(q) \/ (q = Dead(from) /\ d = m)
  <2>1. CASE ready' = ready
    BY <1>0, <2>1 DEF Bagged, IsBags, At
  <2>2. CASE ready' = With(ready, Dead(from), m)
    BY <1>0, <1>1, <2>2, PutAt, SMT
  <2>. QED  BY <1>2, <2>1, <2>2
<1>5. Bagged'
  BY ONLY <1>0, <1>2, <1>4, Zenon DEF Bagged
<1>6. Holding'
  BY ONLY <1>0, <1>2, <1>3, Zenon DEF Holding
<1>7. \A d : Alive(d) => Alive(d)'
  BY ONLY <1>2, <1>3, <1>4, Zenon DEF Alive
<1>8. \A q \in Place : \A d \in At(q)' :
            \/ d \in At(q)
            \/ /\ (q = Queue(from) \/ q = Dead(from)) /\ Fits(d, from)
               /\ \E c : Reach(c) /\ c.body = d.body
  BY ONLY <1>1, <1>4, Zenon
<1>9. \A d \in pulled' \cup DOMAIN declined' :
            from' = from /\ Fits(d, from) /\ \E c : Reach(c) /\ c.body = d.body
  <2>1. \A d \in pulled' \cup DOMAIN declined' : from' = from /\ Fits(d, from) /\ Reach(d)
    BY <1>2, ReplayHolds
  <2>. QED  BY ONLY <2>1, Zenon
<1>10. from' \in Step /\ UNCHANGED <<declared, claimVars, pipelineVars>>
  BY <1>1, <1>2
<1>. QED  BY ONLY IInv, <1>5, <1>6, <1>7, <1>8, <1>9, <1>10, ReplayKept, Zenon

\* What was declined is put back once, or twice, before it is let go.
LEMMA PutBackKeeps ==
    ASSUME IInv, NEW m \in DOMAIN declined, PutBack(m),
           UNCHANGED <<declared, claimVars, pipelineVars>>
    PROVE  IInv'
<1>0. Bagged /\ Holding
  BY DEF IInv
<1>1. from \in Step /\ Dead(from) \in Place /\ Fits(m, from) /\ Reach(m)
  BY ReplayHolds
<1>2. /\ from' = from /\ declined' = Minus(declined, m) /\ phase = "putback"
      /\ phase' = phase /\ pulled' = pulled
      /\ \/ ready' = With(ready, Dead(from), m)
         \/ ready' = With(With(ready, Dead(from), m), Dead(from), m)
  BY DEF PutBack
<1>3. held' = held /\ pc' = pc /\ verdict' = verdict
  BY DEF pipelineVars, handlers
<1>4. /\ IsBags(ready)'
      /\ \A q \in Place : At(q) \subseteq At(q)'
      /\ \A q \in Place : \A d \in At(q)' : d \in At(q) \/ (q = Dead(from) /\ d = m)
      /\ \E q \in Place : m \in At(q)'
  <2>1. CASE ready' = With(ready, Dead(from), m)
    <3>1. IsBags(ready)' /\ \A q \in Place : At(q)' = IF q = Dead(from) THEN At(q) \cup {m} ELSE At(q)
      BY ONLY <1>0, <1>1, <2>1, PutAt, Zenon
    <3>. QED  BY ONLY <1>1, <3>1, Zenon
  <2>2. CASE ready' = With(With(ready, Dead(from), m), Dead(from), m)
    <3>1. /\ IsBags(ready)'
          /\ \A x \in Place : \A y : y \in At(x)' <=> y \in At(x) \/ (x = Dead(from) /\ y = m)
      BY ONLY <1>0, <1>1, <2>2, PutBoth, Zenon
    <3>. QED  BY ONLY <1>1, <3>1, Zenon
  <2>. QED  BY <1>2, <2>1, <2>2
<1>5. /\ DOMAIN declined' \subseteq DOMAIN declined
      /\ \A d \in DOMAIN declined : d # m => d \in DOMAIN declined'
  BY <1>2, BagIs, Zenon
<1>6. Bagged'
  BY ONLY <1>4, Zenon DEF Bagged
<1>7. Holding'
  BY ONLY <1>0, <1>2, <1>3, Zenon DEF Holding
<1>8. \A d : Alive(d) => Alive(d)'
  BY ONLY <1>1, <1>2, <1>3, <1>4, <1>5, Zenon DEF Alive
<1>9. \A q \in Place : \A d \in At(q)' :
            \/ d \in At(q)
            \/ /\ (q = Queue(from) \/ q = Dead(from)) /\ Fits(d, from)
               /\ \E c : Reach(c) /\ c.body = d.body
  BY ONLY <1>1, <1>4, Zenon
<1>10. \A d \in pulled' \cup DOMAIN declined' :
            from' = from /\ Fits(d, from) /\ \E c : Reach(c) /\ c.body = d.body
  <2>1. \A d \in pulled' \cup DOMAIN declined' : from' = from /\ Fits(d, from) /\ Reach(d)
    BY <1>2, <1>5, ReplayHolds
  <2>. QED  BY ONLY <2>1, Zenon
<1>11. from' \in Step /\ UNCHANGED <<declared, claimVars, pipelineVars>>
  BY <1>1, <1>2
<1>. QED  BY ONLY IInv, <1>6, <1>7, <1>8, <1>9, <1>10, <1>11, ReplayKept, Zenon

\* When the operator's process dies, all it held is back.
LEMMA ReplayDiesKeeps ==
    ASSUME IInv, ReplayDies, UNCHANGED <<declared, claimVars, pipelineVars>> PROVE IInv'
<1>0. Bagged /\ Holding
  BY DEF IInv
<1>1. from \in Step /\ Dead(from) \in Place
  BY ReplayHolds
<1>. DEFINE one == [m \in pulled |-> 1]
            b == Joined(Joined(ready[Dead(from)], one), declined)
<1>2. /\ from' = from /\ phase' = "idle" /\ pulled' = {} /\ declined' = Nothing
      /\ ready' = [ready EXCEPT ![Dead(from)] = b]
  BY DEF ReplayDies
<1>4. DOMAIN b = DOMAIN ready[Dead(from)] \cup pulled \cup DOMAIN declined
  <2>1. DOMAIN one = pulled
    OBVIOUS
  <2>. DEFINE c == Joined(ready[Dead(from)], one)
  <2>2. DOMAIN c = DOMAIN ready[Dead(from)] \cup DOMAIN one
    BY JoinedHas, Zenon
  <2>3. DOMAIN b = DOMAIN c \cup DOMAIN declined
    BY JoinedHas, Zenon
  <2>. HIDE DEF one, b, c
  <2>. QED  BY ONLY <2>1, <2>2, <2>3, Zenon
<1>. HIDE DEF b
<1>5. held' = held /\ pc' = pc /\ verdict' = verdict
  BY DEF pipelineVars, handlers
<1>6. DOMAIN Nothing = {}
  BY DEF Nothing
<1>7. /\ IsBags(ready)'
      /\ \A q \in Place : q # Dead(from) => ready'[q] = ready[q]
      /\ ready'[Dead(from)] = b
  BY <1>0, <1>1, <1>2 DEF Bagged, IsBags
<1>8. \A q \in Place : \A d : d \in At(q)' <=>
            d \in At(q) \/ (q = Dead(from) /\ d \in pulled \cup DOMAIN declined)
  BY ONLY <1>4, <1>7, Zenon DEF At
<1>9. Bagged'
  BY ONLY <1>7, Zenon DEF Bagged
<1>10. Holding'
  <2>1. DOMAIN declined' = {}
    BY <1>2, <1>6
  <2>. QED  BY ONLY <1>0, <1>2, <1>5, <2>1, Zenon DEF Holding
<1>11. \A d : Alive(d) => Alive(d)'
  BY ONLY <1>1, <1>5, <1>8, Zenon DEF Alive
<1>12. \A q \in Place : \A d \in At(q)' :
            \/ d \in At(q)
            \/ /\ (q = Queue(from) \/ q = Dead(from)) /\ Fits(d, from)
               /\ \E e : Reach(e) /\ e.body = d.body
  <2>1. \A d \in pulled \cup DOMAIN declined : Fits(d, from) /\ Reach(d)
    BY ReplayHolds
  <2>. QED  BY ONLY <1>8, <2>1, Zenon
<1>13. pulled' \cup DOMAIN declined' = {}
  BY <1>2, <1>6 
<1>14. from' \in Step /\ UNCHANGED <<declared, claimVars, pipelineVars>>
  BY <1>1, <1>2
<1>. QED  BY ONLY IInv, <1>9, <1>10, <1>11, <1>12, <1>13, <1>14, ReplayKept, Zenon

-----------------------------------------------------------------------------
(* The specification *)

\* Nothing is anywhere to begin with.
LEMMA InitIs == ASSUME Init PROVE IInv
<1>1. /\ ready = [p \in Place |-> Nothing] /\ declared = {} /\ contents = {} /\ minted = 0
      /\ stage = "declare" /\ at = 1
      /\ pc = [w \in Worker |-> "off"] /\ held = [w \in Worker |-> {}]
      /\ out = [w \in Worker |-> NoSlip] /\ verdict = [w \in Worker |-> NoVerdict]
      /\ first = [r \in Run |-> 0] /\ sent = {}
      /\ worked = [r \in Run |-> {}] /\ fate = [r \in Run |-> {}]
      /\ phase = "idle" /\ from = 1 /\ pulled = {} /\ declined = Nothing
  BY DEF Init, QueuesInit, ClaimInit, PipelineInit, ReplayInit
<1>2. 1 \in Step /\ 0 \in 0..N
  BY FlowAssumption DEF Step
<1>3. DOMAIN Nothing = {}
  BY DEF Nothing
<1>4. \A p \in Place : At(p) = {}
  BY <1>1, <1>3 DEF At
<1>5. \A k \in Step : Queue(k) \in Place /\ Dead(k) \in Place
  BY Places
<1>6. Parked \in Place
  BY Places
<1>7. Types
  BY ONLY <1>1, <1>2, Zenon DEF Types
<1>8. Bagged
  BY ONLY <1>1, <1>3, Zenon DEF Bagged, IsBags
<1>9. Holding /\ InTurn /\ Sends
  BY ONLY <1>1, <1>3, Zenon DEF Holding, InTurn, Sends
<1>10. Placed
  BY ONLY <1>1, <1>3, <1>4, <1>5, Zenon DEF Placed
<1>11. InOrder /\ Accounted
  BY ONLY <1>1, Zenon DEF InOrder, Accounted
<1>12. \A m : ~Reach(m)
  BY ONLY <1>1, <1>3, <1>4, Zenon DEF Reach
<1>13. Readable
  BY ONLY <1>1, <1>4, <1>6, <1>12, Zenon DEF Readable
<1>. QED  BY ONLY <1>7, <1>8, <1>9, <1>10, <1>11, <1>13, Zenon DEF IInv

\* What becomes of the pipeline itself keeps the invariant (Lifecycle).
LEMMA LifecycleKeeps ==
    ASSUME IInv, Lifecycle, UNCHANGED history, UNCHANGED replayVars PROVE IInv'
<1>1. CASE /\ UNCHANGED <<pc, handlers, ready, claimVars>>
           /\ Declare \/ (UNCHANGED declared /\ (NewPipelineFails \/ CloseBegins \/ Closed \/ Restart))
  BY <1>1, StageKeeps
<1>2. CASE StartConsumer /\ UNCHANGED <<handlers, declared, ready, trouble, claimVars>>
  BY <1>2, StartKeeps
<1>3. CASE (\E w \in Worker : CloseConsumer(w))
           /\ UNCHANGED <<stages, handlers, declared, ready, trouble, claimVars>>
  BY <1>3, CloseKeeps
<1>4. CASE Die /\ StoreDies /\ UNCHANGED declared
  BY <1>4, DieKeeps
<1>. QED  BY ONLY Lifecycle, <1>1, <1>2, <1>3, <1>4, Zenon DEF Lifecycle

\* Whoever sends to the pipeline keeps the invariant (Sending).
LEMMA SendingKeeps == ASSUME IInv, Sending, UNCHANGED replayVars PROVE IInv'
<1>1. PICK r \in Run :
        /\ \/ \E slip \in {RouteStart(Names), AsJSON(RouteStart(Names))}, body \in {Inline, minted + 1} :
                Send(r, slip, body)
           \/ \E k \in Step, json \in {NoSlip, Garbled} : SendElsewhere(r, k, json) /\ UNCHANGED claims
        /\ UNCHANGED <<stages, pc, handlers, declared, worked, fate, inMemory>>
  BY ONLY Sending, Zenon DEF Sending
<1>2. UNCHANGED <<stages, pc, handlers, declared, worked, fate, inMemory, replayVars>>
  BY ONLY <1>1, UNCHANGED replayVars, Zenon
<1>3. CASE \E slip \in {RouteStart(Names), AsJSON(RouteStart(Names))}, body \in {Inline, minted + 1} :
                Send(r, slip, body)
  BY ONLY IInv, <1>2, <1>3, SendKeeps, Zenon
<1>4. CASE \E k \in Step, json \in {NoSlip, Garbled} : SendElsewhere(r, k, json) /\ UNCHANGED claims
  BY ONLY IInv, <1>2, <1>4, ElsewhereKeeps, Zenon
<1>. QED  BY ONLY <1>1, <1>3, <1>4, Zenon

\* A consumer's steps keep the invariant, whichever it is (Handling).
LEMMA HandlingKeeps ==
    ASSUME IInv, NEW w \in Worker, Handling(w), UNCHANGED replayVars PROVE IInv'
<1>1. CASE \E m \in At(Queue(w[1])) : Deliver(w, m)
  BY ONLY IInv, UNCHANGED replayVars, <1>1, DeliverKeeps, Zenon
<1>2. CASE \E m \in held[w] : Work(w, m)
  BY ONLY IInv, UNCHANGED replayVars, <1>2, WorkStepKeeps, Zenon
<1>3. CASE \E m \in held[w] : Forward(w, m)
  BY ONLY IInv, UNCHANGED replayVars, <1>3, ForwardKeeps, Zenon
<1>4. CASE \E m \in held[w] : Settle(w, m)
  BY ONLY IInv, UNCHANGED replayVars, <1>4, SettleKeeps, Zenon
<1>5. CASE Overrun(w)
  BY ONLY IInv, UNCHANGED replayVars, <1>5, OverrunKeeps, Zenon
<1>. QED  BY ONLY Handling(w), <1>1, <1>2, <1>3, <1>4, <1>5, Zenon DEF Handling

\* The steps of a replay keep the invariant (ReplayNext).
LEMMA ReplayKeeps ==
    ASSUME IInv, ReplayNext, UNCHANGED <<declared, claimVars, pipelineVars>> PROVE IInv'
<1>0. UNCHANGED <<declared, claimVars, pipelineVars>>
  OBVIOUS
<1>1. CASE \/ \E k \in Step, filter \in SUBSET Run : StartReplay(k, filter)
           \/ PassEnds \/ ReplayReturns
  BY ONLY IInv, <1>0, <1>1, ReplayIdles, Zenon
<1>2. CASE \E m \in At(Dead(from)) : Pull(m)
  BY ONLY IInv, <1>0, <1>2, PullKeeps, Zenon
<1>3. CASE \E m \in pulled : Republish(m)
  BY ONLY IInv, <1>0, <1>3, RepublishKeeps, Zenon
<1>4. CASE \E m \in pulled : AckReplayed(m)
  BY ONLY IInv, <1>0, <1>4, AckKeeps, Zenon
<1>5. CASE \E m \in DOMAIN declined : PutBack(m)
  BY ONLY IInv, <1>0, <1>5, PutBackKeeps, Zenon
<1>6. CASE ReplayDies
  BY ONLY IInv, <1>0, <1>6, ReplayDiesKeeps, Zenon
<1>. QED  BY ONLY ReplayNext, <1>1, <1>2, <1>3, <1>4, <1>5, <1>6, Zenon DEF ReplayNext

\* Every step of the pipeline, its store and the replay keeps the invariant.
LEMMA NextKeeps == ASSUME IInv, [Next]_vars PROVE IInv'
<1>1. CASE Lifecycle /\ UNCHANGED history /\ UNCHANGED replayVars
  BY ONLY IInv, <1>1, LifecycleKeeps, Zenon
<1>2. CASE Sending /\ UNCHANGED replayVars
  BY ONLY IInv, <1>2, SendingKeeps, Zenon
<1>3. CASE (\E w \in Worker : Handling(w)) /\ UNCHANGED replayVars
  BY ONLY IInv, <1>3, HandlingKeeps, Zenon
<1>4. CASE (\E key \in contents : Expire(key)) /\ UNCHANGED replayVars
  BY ONLY IInv, <1>4, ExpireKeeps, Zenon
<1>5. CASE ReplayNext /\ UNCHANGED <<declared, claimVars, pipelineVars>>
  BY ONLY IInv, <1>5, ReplayKeeps, Zenon
<1>6. CASE UNCHANGED vars
  <2>1. UNCHANGED <<handlers, ready, claimVars, history, replayVars>> /\ pc' = pc
    BY ONLY <1>6, Zenon DEF vars, pipelineVars
  <2>2. Bagged' /\ Holding' /\ Placed' /\ Sends' /\ InOrder' /\ Readable' /\ Accounted'
    BY ONLY IInv, <2>1, Unmoved, Zenon
  <2>3. /\ declared' = declared /\ minted' = minted /\ at' = at /\ from' = from /\ pc' = pc
        /\ held' = held /\ out' = out /\ verdict' = verdict /\ first' = first /\ sent' = sent
        /\ worked' = worked /\ fate' = fate /\ stage' = stage
    BY ONLY <1>6, Zenon DEF vars, pipelineVars, replayVars, claimVars, stages, handlers, history
  <2>4. Types'
    BY ONLY IInv, <2>3, Zenon DEF IInv, Types
  <2>5. InTurn'
    BY ONLY IInv, <2>3, Zenon DEF IInv, InTurn, Up
  <2>. QED  BY ONLY <2>2, <2>4, <2>5, Zenon DEF IInv
<1>. QED  BY ONLY [Next]_vars, <1>1, <1>2, <1>3, <1>4, <1>5, <1>6, Zenon DEF Next

\* The invariant holds throughout, for any route, any number of runs,
\* consumers and attempts, and any failures and replays.
THEOREM FlowInvariant == Spec => []IInv
<1>1. Init => IInv
  BY InitIs
<1>2. IInv /\ [Next]_vars => IInv'
  BY NextKeeps
<1>. QED  BY <1>1, <1>2, PTL DEF Spec

\* A run whose sender was told it is on its way ends, or one of its messages
\* can still be delivered: forwarding before the message is accepted, putting
\* back before it is let go and publishing before the original is acked never
\* leave a run without a copy (pipelineStep.start, FollowSlip, Replay, putBack).
THEOREM RunsAccounted == Spec => []RunAccounted
<1>1. IInv => RunAccounted
  <2>1. \A m : Alive(m) => m \in Deliverable
    BY ReachIsDeliverable DEF Alive, Reach
  <2>. QED  BY <2>1 DEF IInv, Accounted, RunAccounted
<1>. QED  BY <1>1, FlowInvariant, PTL

\* No step is done for a run before those that precede it on its route, and a
\* completed run has done them all, however its slip travelled, and however
\* often it was delivered, replayed or picked up after a crash (SlipFrom,
\* Advance, PipelineStep, FollowSlip).
THEOREM WorkDoneInOrder == Spec => []WorkInOrder
<1>1. IInv => WorkInOrder
  <2>. SUFFICES ASSUME IInv, NEW r \in Run
                PROVE  /\ \A k \in worked[r] : (first[r]..k) \subseteq worked[r]
                       /\ "completed" \in fate[r] => worked[r] = first[r]..N
    BY DEF WorkInOrder
  <2>1. /\ N \in Nat /\ first[r] \in 0..N /\ worked[r] \subseteq 1..N
        /\ \A k \in worked[r] : first[r] <= k
        /\ first[r] = 0 => worked[r] = {} /\ fate[r] = {}
        /\ \A k \in worked[r] : \A j \in 1..N : first[r] <= j /\ j < k => j \in worked[r]
        /\ "completed" \in fate[r] => \A j \in 1..N : first[r] <= j => j \in worked[r]
    BY FlowAssumption DEF IInv, Types, InOrder, Step
  <2>2. ASSUME NEW k \in worked[r], NEW j \in first[r]..k PROVE j \in worked[r]
    <3>1. j \in 1..N /\ first[r] <= j /\ (j < k \/ j = k)
      <4>1. first[r] # 0
        BY ONLY <2>1, <2>2, Zenon
      <4>2. k \in 1..N
        BY ONLY <2>1, <2>2, Zenon
      <4>. QED  BY ONLY <2>1, <2>2, <4>1, <4>2
    <3>. QED  BY ONLY <2>1, <2>2, <3>1, Zenon
  <2>3. ASSUME "completed" \in fate[r] PROVE worked[r] = first[r]..N
    <3>1. first[r] \in 1..N
      BY ONLY <2>1, <2>3
    <3>2. \A j : j \in first[r]..N <=> j \in 1..N /\ first[r] <= j
      BY ONLY <2>1, <3>1
    <3>. QED  BY ONLY <2>1, <2>3, <3>2, Zenon
  <2>. QED  BY ONLY <2>2, <2>3, Zenon
<1>. QED  BY <1>1, FlowInvariant, PTL

\* Nothing is parked as unreadable while the payloads it refers to are kept: a
\* message carries a key only once the payload is in the store, and every
\* copy made of it on the way carries the same one (ClaimCheckCodec.encode and
\* decode).
THEOREM NothingParkedUnread == Spec => []NothingUnreadable
<1>1. IInv => NothingUnreadable
  BY DEF IInv, Readable, NothingUnreadable
<1>. QED  BY <1>1, FlowInvariant, PTL
=============================================================================
