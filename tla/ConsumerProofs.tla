--------------------------- MODULE ConsumerProofs ---------------------------
(***************************************************************************)
(* What holds of the consuming engine for every number of messages,        *)
(* copies and workers, every prefetch, retry policy and number of faults.  *)
(* First the lemmas that every step keeps the types, settles a delivery at *)
(* most once, never republishes at an earlier attempt and sends nothing on *)
(* a closed work channel; then that nothing is lost.                       *)
(***************************************************************************)
EXTENDS Consumer, FiniteSetTheorems, TLAPS

\* Most leaves are matters of logic and sets: Zenon is tried first, then SMT.
USE ZenonT(10), SMTT(20)

USE DEF Phases, Steps, Queues

\* Whatever republish does to the broker, it keeps the broker's type.
LEMMA StoredType ==
    ASSUME TypeOK, NEW w \in Workers, NEW c \in Copies,
           pc[w] \in {"rung", "hop", "aside"}, Stored(w, c)
    PROVE  copy' \in [Copies -> Copy \cup {None}]
<1>1. held[w] \in Delivery /\ job[w] \in Job
    BY DEF TypeOK
<1>2. [at |-> job[w].to, msg |-> held[w].msg, attempt |-> job[w].attempt] \in Copy
    BY <1>1 DEF Copy, Job, Delivery
<1> QED
    BY <1>2 DEF TypeOK, Stored

\* A republish that reports an error keeps the types, stored or not.
LEMMA FailsType ==
    ASSUME TypeOK, NEW w \in Workers, NEW b \in BOOLEAN,
           pc[w] \in {"rung", "hop", "aside"}, RepublishFails(w, b)
    PROVE  /\ copy' \in [Copies -> Copy \cup {None}]
           /\ trouble' \in Nat /\ clean' \in BOOLEAN
<1>1. CASE UNCHANGED <<copy, faultVars>>
    BY <1>1 DEF TypeOK, faultVars
<1>2. CASE Trouble /\ UNCHANGED <<copy, clean>>
    BY <1>2, SMT DEF TypeOK, Trouble
<1>3. CASE Trouble /\ clean' = FALSE /\ \E c \in Copies : Stored(w, c)
    <2>1. copy' \in [Copies -> Copy \cup {None}]
        BY <1>3, StoredType
    <2>2. trouble' \in Nat
        BY <1>3, SMT DEF TypeOK, Trouble
    <2> QED
        BY <1>3, <2>1, <2>2
<1> QED
    BY <1>1, <1>2, <1>3 DEF RepublishFails

\* So every outcome of republish does.
LEMMA RepublishType ==
    ASSUME TypeOK, NEW w \in Workers, pc[w] \in {"rung", "hop", "aside"},
           \/ \E c \in Copies : RepublishOK(w, c)
           \/ RepublishFails(w, TRUE)
           \/ RepublishFails(w, FALSE)
           \/ RepublishUnrouted
    PROVE  /\ copy' \in [Copies -> Copy \cup {None}]
           /\ trouble' \in Nat /\ clean' \in BOOLEAN
<1>1. ASSUME NEW c \in Copies, RepublishOK(w, c)
      PROVE  /\ copy' \in [Copies -> Copy \cup {None}]
             /\ trouble' \in Nat /\ clean' \in BOOLEAN
    <2>1. copy' \in [Copies -> Copy \cup {None}]
        BY <1>1, StoredType DEF RepublishOK
    <2> QED
        BY <1>1, <2>1 DEF RepublishOK, faultVars, TypeOK
<1>2. CASE RepublishUnrouted
    BY <1>2, SMT DEF RepublishUnrouted, Trouble, TypeOK
<1>3. CASE RepublishFails(w, TRUE)
    BY <1>3, FailsType
<1>4. CASE RepublishFails(w, FALSE)
    BY <1>4, FailsType
<1> QED
    BY <1>1, <1>2, <1>3, <1>4

\* A settlement and the return of a lost channel keep the broker's type.
LEMMA SettleType ==
    ASSUME TypeOK, NEW d \in Delivery,
           Reaches(d) => copy[d.copy] # None
    PROVE  /\ AckOf(d) \in [Copies -> Copy \cup {None}]
           /\ NackOf(d) \in [Copies -> Copy \cup {None}]
BY SMT DEF TypeOK, AckOf, NackOf, Copy, Delivery

\* The return of everything handed out keeps the broker's type.
LEMMA ReturnedType ==
    ASSUME TypeOK
    PROVE  Returned \in [Copies -> Copy \cup {None}]
BY SMT DEF TypeOK, Returned, Unacked, Exists, Copy

\* What the consumer holds, worker by worker and station by station.
LEMMA HeldAtIs ==
    /\ HeldAt("inbox") = inbox /\ HeldAt("offer") = offer
    /\ HeldAt("work") = work /\ HeldAt("timers") = timers
    /\ \A w \in Workers : HeldAt(w) = IF pc[w] = "idle" THEN {} ELSE {held[w]}
BY WorkersAssumption DEF HeldAt, Stations

\* The same after a step.
LEMMA HeldAtIsNext ==
    /\ HeldAt("inbox")' = inbox' /\ HeldAt("offer")' = offer'
    /\ HeldAt("work")' = work' /\ HeldAt("timers")' = timers'
    /\ \A w \in Workers : HeldAt(w)' = IF pc'[w] = "idle" THEN {} ELSE {held'[w]}
BY WorkersAssumption DEF HeldAt, Stations

\* All of it is deliveries.
LEMMA HeldAtType ==
    ASSUME TypeOK, NEW p \in Places
    PROVE  HeldAt(p) \subseteq Delivery
BY HeldAtIs, SMT DEF TypeOK, Places, Stations

-----------------------------------------------------------------------------
(* How a step can keep SettledOnce *)

\* Nothing new is held, and no copy still held is touched.
LEMMA KeepSettled ==
    ASSUME SettledOnce, chan' = chan, gen' = gen,
           \A p \in Places : HeldAt(p)' \subseteq HeldAt(p),
           \A p \in Places : \A e \in HeldAt(p)' : Reaches(e) => copy'[e.copy] = copy[e.copy]
    PROVE  SettledOnce'
BY DEF SettledOnce, Reaches

\* One delivery d moves from place a to place b, and no copy held is touched.
LEMMA MoveSettled ==
    ASSUME SettledOnce, chan' = chan, gen' = gen,
           NEW a \in Places, NEW b \in Places, NEW d \in HeldAt(a), a # b,
           d \notin HeldAt(a)',
           HeldAt(b)' \subseteq HeldAt(b) \cup {d},
           \A p \in Places \ {b} : HeldAt(p)' \subseteq HeldAt(p),
           \A p \in Places : \A e \in HeldAt(p)' : Reaches(e) => copy'[e.copy] = copy[e.copy]
    PROVE  SettledOnce'
<1> SUFFICES ASSUME NEW p \in Places, NEW e \in HeldAt(p)', Reaches(e)'
             PROVE  /\ copy'[e.copy] = [at |-> "unacked", msg |-> e.msg, attempt |-> e.attempt]
                    /\ \A q \in Places : \A f \in HeldAt(q)' :
                          (Reaches(f)' /\ f.copy = e.copy) => (p = q /\ e = f)
    BY DEF SettledOnce
<1>1. Reaches(e)
    BY DEF Reaches
<1>2. copy'[e.copy] = [at |-> "unacked", msg |-> e.msg, attempt |-> e.attempt]
    BY <1>1, SMT DEF SettledOnce
<1>3. ASSUME NEW q \in Places, NEW f \in HeldAt(q)', Reaches(f)', f.copy = e.copy
      PROVE  p = q /\ e = f
    <2>1. Reaches(f)
        BY <1>3 DEF Reaches
    <2>2. e \in HeldAt(p) \/ (p = b /\ e = d)
        OBVIOUS
    <2>3. f \in HeldAt(q) \/ (q = b /\ f = d)
        BY <1>3
    <2>4. CASE e \in HeldAt(p) /\ f \in HeldAt(q)
        BY <1>1, <1>3, <2>1, <2>4 DEF SettledOnce
    <2>5. CASE p = b /\ e = d /\ f \in HeldAt(q)
        <3>0. Reaches(d) /\ d.copy = f.copy
            BY <1>1, <1>3, <2>5
        <3>1. q = a /\ f = d
            BY <3>0, <2>1, <2>5 DEF SettledOnce
        <3>2. d \in HeldAt(a)'
            BY <1>3, <3>1
        <3> QED
            BY <3>2
    <2>6. CASE e \in HeldAt(p) /\ q = b /\ f = d
        <3>0. Reaches(d) /\ d.copy = e.copy
            BY <1>3, <2>1, <2>6
        <3>1. p = a /\ e = d
            BY <3>0, <1>1, <2>6 DEF SettledOnce
        <3>2. d \in HeldAt(a)'
            BY <3>1
        <3> QED
            BY <3>2
    <2> QED
        BY <2>2, <2>3, <2>4, <2>5, <2>6
<1> QED
    BY <1>2, <1>3

\* Settling a delivery that is given up touches no other delivery's copy.
LEMMA SettleTouches ==
    ASSUME TypeOK, SettledOnce, NEW a \in Places, NEW d \in HeldAt(a),
           copy' \in {AckOf(d), NackOf(d)},
           d \notin HeldAt(a)',
           \A p \in Places : HeldAt(p)' \subseteq HeldAt(p)
    PROVE  \A p \in Places : \A e \in HeldAt(p)' : Reaches(e) => copy'[e.copy] = copy[e.copy]
<1> SUFFICES ASSUME NEW p \in Places, NEW e \in HeldAt(p)', Reaches(e), Reaches(d)
             PROVE  copy'[e.copy] = copy[e.copy]
    BY DEF AckOf, NackOf
<1>1. e.copy # d.copy
    BY DEF SettledOnce
<1>2. e \in Delivery /\ d \in Delivery
    BY HeldAtType
<1> QED
    BY <1>1, <1>2 DEF AckOf, NackOf, TypeOK, Delivery

\* Filling a free slot touches no held delivery's copy.
LEMMA StoreTouches ==
    ASSUME TypeOK, SettledOnce, NEW c \in Copies, ~Exists(c), NEW x,
           copy' = [copy EXCEPT ![c] = x]
    PROVE  \A p \in Places : \A e \in HeldAt(p) : Reaches(e) => copy'[e.copy] = copy[e.copy]
<1> SUFFICES ASSUME NEW p \in Places, NEW e \in HeldAt(p), Reaches(e)
             PROVE  copy'[e.copy] = copy[e.copy]
    OBVIOUS
<1>1. e \in Delivery
    BY HeldAtType
<1>2. copy[e.copy] = [at |-> "unacked", msg |-> e.msg, attempt |-> e.attempt]
    BY DEF SettledOnce
<1>3. copy[e.copy] \in Copy
    BY <1>1, <1>2, SMT DEF Copy, Delivery
<1>4. e.copy # c
    BY <1>3, NoneAssumption DEF Exists
<1> QED
    BY <1>1, <1>4 DEF TypeOK, Delivery

\* What a held delivery stands for is still at the broker.
LEMMA HeldExists ==
    ASSUME TypeOK, SettledOnce, NEW p \in Places, NEW d \in HeldAt(p), Reaches(d)
    PROVE  /\ copy[d.copy] = [at |-> "unacked", msg |-> d.msg, attempt |-> d.attempt]
           /\ copy[d.copy] # None
<1>1. d \in Delivery
    BY HeldAtType
<1>2. copy[d.copy] = [at |-> "unacked", msg |-> d.msg, attempt |-> d.attempt]
    BY DEF SettledOnce
<1>3. copy[d.copy] \in Copy
    BY <1>1, <1>2, SMT DEF Copy, Delivery
<1> QED
    BY <1>2, <1>3, NoneAssumption

\* Settling something held keeps the broker's type.
LEMMA SettleHeldType ==
    ASSUME TypeOK, SettledOnce, NEW p \in Places, NEW d \in HeldAt(p)
    PROVE  /\ AckOf(d) \in [Copies -> Copy \cup {None}]
           /\ NackOf(d) \in [Copies -> Copy \cup {None}]
BY SettleType, HeldAtType, HeldExists

-----------------------------------------------------------------------------
(* Type correctness *)

\* The initial state has the types.
LEMMA TypeInit == Init => TypeOK
<1> SUFFICES ASSUME Init PROVE TypeOK
    OBVIOUS
<1>1. ctxDone \in BOOLEAN /\ clean \in BOOLEAN
    BY DEF Init
<1> QED
    BY <1>1 DEF Init, TypeOK

\* The broker's steps keep the types.
LEMMA BrokerType ==
    ASSUME TypeOK, SettledOnce, Broker
    PROVE  TypeOK'
<1> USE DEF TypeOK, brokerVars, chanVars, feedVars, workerVars, closeVars, faultVars
<1>1. ASSUME NEW m \in Msg, Publish(m) PROVE TypeOK'
    <2>1. [at |-> "ready", msg |-> m, attempt |-> 1] \in Copy
        BY ConsumerAssumption, SMT DEF Copy, Attempts
    <2> QED
        BY <1>1, <2>1 DEF Publish
<1>2. ASSUME NEW c \in Copies, Deliver(c) PROVE TypeOK'
    <2>1. copy[c] \in Copy
        BY <1>2 DEF Deliver, Exists
    <2>2. [copy |-> c, gen |-> gen, msg |-> copy[c].msg, attempt |-> copy[c].attempt]
            \in Delivery
        BY <2>1 DEF Copy, Delivery
    <2>3. [copy EXCEPT ![c].at = "unacked"] \in [Copies -> Copy \cup {None}]
        BY <2>1 DEF Copy
    <2> QED
        BY <1>2, <2>2, <2>3 DEF Deliver
<1>3. ASSUME NEW c \in Copies, RungExpires(c) PROVE TypeOK'
    <2>1. copy[c] \in Copy
        BY <1>3 DEF RungExpires, Exists
    <2>2. [copy EXCEPT ![c].at = "ready"] \in [Copies -> Copy \cup {None}]
        BY <2>1 DEF Copy
    <2> QED
        BY <1>3, <2>2 DEF RungExpires
<1>4. CASE ChannelLost
    <2>1. copy' \in [Copies -> Copy \cup {None}]
        BY <1>4, ReturnedType DEF ChannelLost
    <2>2. clean' \in BOOLEAN
        BY <1>4 DEF ChannelLost
    <2> QED
        BY <1>4, <2>1, <2>2, SMT DEF ChannelLost, Trouble
<1>5. CASE Reattach
    BY <1>5, SMT DEF Reattach
<1>6. CASE Restart
    <2>1. copy' \in [Copies -> Copy \cup {None}]
        BY <1>6, ReturnedType DEF Restart
    <2>2. clean' \in BOOLEAN /\ ctxDone' \in BOOLEAN
        BY <1>6 DEF Restart
    <2> QED
        BY <1>6, <2>1, <2>2, SMT DEF Restart, Trouble
<1> QED
    BY <1>1, <1>2, <1>3, <1>4, <1>5, <1>6 DEF Broker

\* The callback's steps keep the types.
LEMMA CallbackType ==
    ASSUME TypeOK, SettledOnce, Callback
    PROVE  TypeOK'
<1> USE DEF TypeOK, brokerVars, chanVars, feedVars, workerVars, closeVars, faultVars
<1>1. ASSUME NEW d \in inbox, Receive(d) PROVE TypeOK'
    <2>1. NackOf(d) \in [Copies -> Copy \cup {None}]
        BY SettleHeldType, HeldAtIs DEF Places, Stations
    <2> QED
        BY <1>1, <2>1 DEF Receive
<1>2. ASSUME NEW d \in offer, Enqueue(d) PROVE TypeOK'
    BY <1>2 DEF Enqueue
<1>3. ASSUME NEW d \in offer, OfferRefused(d) PROVE TypeOK'
    <2>1. NackOf(d) \in [Copies -> Copy \cup {None}]
        BY SettleHeldType, HeldAtIs DEF Places, Stations
    <2> QED
        BY <1>3, <2>1 DEF OfferRefused
<1> QED
    BY <1>1, <1>2, <1>3 DEF Callback

\* Taking a delivery and the handler's decision keep the types.
LEMMA HandlerType ==
    ASSUME TypeOK, SettledOnce, NEW w \in Workers,
           (\E d \in work : Take(w, d)) \/ HandlerReturns(w)
    PROVE  TypeOK'
<1> USE DEF TypeOK, brokerVars, chanVars, feedVars, workerVars, closeVars, faultVars
<1>1. ASSUME NEW d \in work, Take(w, d) PROVE TypeOK'
    <2>1. NackOf(d) \in [Copies -> Copy \cup {None}]
        BY SettleHeldType, HeldAtIs DEF Places, Stations
    <2>2. d \in Delivery /\ d # None
        BY NoneAssumption
    <2> QED
        BY <1>1, <2>1, <2>2 DEF Take
<1>2. CASE Accept(w)
    <2>1. held[w] \in Delivery
        BY <1>2 DEF Accept
    <2>2. held[w].msg \in Msg
        BY <2>1 DEF Delivery
    <2> QED
        BY <1>2, <2>2 DEF Accept, Goto
<1>3. ASSUME pc[w] = "handling", NEW q \in Queues, NEW n \in Attempts,
             NEW step \in {"rung", "hop", "aside"},
             Decide(w, step, q, n)
      PROVE  /\ pc' \in [Workers -> Steps]
             /\ held' \in [Workers -> Delivery \cup {None}]
             /\ job' \in [Workers -> Job \cup {None}]
             /\ \A v \in Workers : pc'[v] # "idle" => held'[v] # None
             /\ \A v \in Workers : pc'[v] \in {"rung", "hop", "aside"} => job'[v] # None
    <2>1. [to |-> q, attempt |-> n] \in Job
        BY <1>3 DEF Job
    <2> QED
        BY <1>3, <2>1, NoneAssumption DEF Decide
<1>4. ASSUME pc[w] = "handling" PROVE held[w].attempt \in Attempts
    <2>1. held[w] \in Delivery
        BY <1>4
    <2> QED
        BY <2>1 DEF Delivery
<1>5. ASSUME NEW q \in {"dlq", "parked"}, GiveUp(w, q) PROVE TypeOK'
    BY <1>3, <1>4, <1>5 DEF GiveUp
<1>6. CASE RetryAgain(w)
    <2>1. held[w].attempt + 1 \in Attempts
        BY <1>4, <1>6, ConsumerAssumption, SMT DEF RetryAgain, Attempts
    <2> QED
        BY <1>3, <1>6, <2>1 DEF RetryAgain
<1>7. CASE InProgress(w)
    BY <1>3, <1>4, <1>7, SMT DEF InProgress, Trouble
<1> QED
    BY <1>1, <1>2, <1>5, <1>6, <1>7 DEF HandlerReturns

\* The settlements keep the types.
LEMMA SettlesType ==
    ASSUME TypeOK, SettledOnce, NEW w \in Workers, Settles(w)
    PROVE  TypeOK'
<1> USE DEF TypeOK, brokerVars, chanVars, feedVars, workerVars, closeVars, faultVars
<1>1. ASSUME pc[w] # "idle"
      PROVE  /\ AckOf(held[w]) \in [Copies -> Copy \cup {None}]
             /\ NackOf(held[w]) \in [Copies -> Copy \cup {None}]
             /\ held[w] \in Delivery
    <2>1. held[w] \in HeldAt(w) /\ w \in Places
        BY <1>1, HeldAtIs DEF Places
    <2> QED
        BY <1>1, <2>1, SettleHeldType
<1>2. CASE RetryInBroker(w)
    <2>1. pc[w] = "rung" /\ job[w] \in Job
        BY <1>2 DEF RetryInBroker
    <2>2. /\ copy' \in [Copies -> Copy \cup {None}]
          /\ trouble' \in Nat /\ clean' \in BOOLEAN
        <3>1. \/ \E c \in Copies : RepublishOK(w, c)
              \/ RepublishFails(w, TRUE)
              \/ RepublishFails(w, FALSE)
              \/ RepublishUnrouted
            BY <1>2 DEF RetryInBroker
        <3> QED
            BY <2>1, <3>1, RepublishType
    <2>3. [to |-> "ready", attempt |-> job[w].attempt] \in Job
        BY <2>1 DEF Job
    <2>4. /\ pc' \in [Workers -> Steps]
          /\ held' \in [Workers -> Delivery \cup {None}]
          /\ job' \in [Workers -> Job \cup {None}]
          /\ \A v \in Workers : pc'[v] # "idle" => held'[v] # None
          /\ \A v \in Workers : pc'[v] \in {"rung", "hop", "aside"} => job'[v] # None
        <3>1. CASE Goto(w, "acking") \/ Goto(w, "nacking")
            BY <2>1, <3>1 DEF Goto
        <3>2. CASE Decide(w, "hop", "ready", job[w].attempt)
            BY <2>1, <2>3, <3>2, NoneAssumption DEF Decide
        <3> QED
            BY <1>2, <3>1, <3>2 DEF RetryInBroker
    <2> QED
        BY <1>2, <2>2, <2>4 DEF RetryInBroker
<1>3. CASE PutBack(w)
    <2>1. pc[w] = "hop"
        BY <1>3 DEF PutBack
    <2>2. /\ copy' \in [Copies -> Copy \cup {None}]
          /\ trouble' \in Nat /\ clean' \in BOOLEAN
        <3>1. \/ \E c \in Copies : RepublishOK(w, c)
              \/ RepublishFails(w, TRUE)
              \/ RepublishFails(w, FALSE)
              \/ RepublishUnrouted
            BY <1>3 DEF PutBack
        <3> QED
            BY <2>1, <3>1, RepublishType
    <2> QED
        BY <1>3, <2>1, <2>2 DEF PutBack, Goto
<1>4. CASE SetAside(w)
    <2>1. pc[w] = "aside"
        BY <1>4 DEF SetAside
    <2>2. /\ copy' \in [Copies -> Copy \cup {None}]
          /\ trouble' \in Nat /\ clean' \in BOOLEAN
        <3>1. \/ \E c \in Copies : RepublishOK(w, c)
              \/ RepublishFails(w, TRUE)
              \/ RepublishFails(w, FALSE)
              \/ RepublishUnrouted
            BY <1>4 DEF SetAside
        <3> QED
            BY <2>1, <3>1, RepublishType
    <2> QED
        BY <1>1, <1>4, <2>1, <2>2 DEF SetAside, Goto, Idle
<1>5. CASE FinishAck(w)
    BY <1>1, <1>5 DEF FinishAck, Idle
<1>6. CASE FinishNack(w)
    BY <1>1, <1>6 DEF FinishNack, Idle
<1> QED
    BY <1>2, <1>3, <1>4, <1>5, <1>6 DEF Settles

\* The steps that move neither deliveries nor copies.
Bookkeeping ==
    \/ CloseBegin
    \/ StopCancel
    \/ StopReturns
    \/ HandlersDone
    \/ DrainExpires
    \/ GraceExpires
    \/ CancelContext
    \/ UNCHANGED vars

\* They change the phase, the context and the fault counters only.
LEMMA BookkeepingChanges ==
    ASSUME TypeOK, Bookkeeping
    PROVE  /\ UNCHANGED <<copy, published, done, chan, gen, inbox, offer, work, pc, held, job, timers>>
           /\ phase' \in Phases /\ ctxDone' \in BOOLEAN /\ trouble' \in Nat /\ clean' \in BOOLEAN
<1> USE DEF vars, brokerVars, chanVars, feedVars, workerVars, closeVars, faultVars
<1>1. UNCHANGED <<copy, published, done, chan, gen, inbox, offer, work, pc, held, job, timers>>
    BY DEF Bookkeeping, CloseBegin, StopCancel, StopReturns, HandlersDone, DrainExpires,
           GraceExpires, CancelContext
<1>2. phase' \in Phases
    BY DEF TypeOK, Bookkeeping, CloseBegin, StopCancel, StopReturns, HandlersDone,
           DrainExpires, GraceExpires, CancelContext
<1>3. trouble' \in Nat
    BY DEF TypeOK, Bookkeeping, CloseBegin, StopCancel, StopReturns, HandlersDone,
           DrainExpires, GraceExpires, CancelContext
<1>4. ctxDone' \in BOOLEAN
    <2>1. ctxDone' = ctxDone \/ ctxDone' = TRUE
        BY DEF Bookkeeping, CloseBegin, StopCancel, StopReturns, HandlersDone,
               DrainExpires, GraceExpires, CancelContext
    <2> QED
        BY <2>1 DEF TypeOK
<1>5. clean' \in BOOLEAN
    <2>1. clean' = clean \/ clean' = FALSE
        BY DEF Bookkeeping, CloseBegin, StopCancel, StopReturns, HandlersDone,
               DrainExpires, GraceExpires, CancelContext
    <2> QED
        BY <2>1 DEF TypeOK
<1> QED
    BY <1>1, <1>2, <1>3, <1>4, <1>5

\* Every step is one of these.
LEMMA NextIs ==
    ASSUME [Next]_vars
    PROVE  \/ Broker
           \/ Callback
           \/ \E w \in Workers : (\E d \in work : Take(w, d)) \/ HandlerReturns(w)
           \/ \E w \in Workers : Settles(w)
           \/ \E d \in timers : TimerFires(d)
           \/ CloseChannel
           \/ Bookkeeping
BY DEF Next, Worker, Closing, Bookkeeping, Finished

\* Every step keeps the types.
LEMMA TypeStep ==
    ASSUME TypeOK, SettledOnce, [Next]_vars
    PROVE  TypeOK'
<1>1. ASSUME NEW d \in timers, TimerFires(d) PROVE TypeOK'
    <2>1. NackOf(d) \in [Copies -> Copy \cup {None}]
        BY SettleHeldType, HeldAtIs DEF Places, Stations
    <2> QED
        BY <1>1, <2>1
        DEF TypeOK, TimerFires, chanVars, feedVars, workerVars, closeVars, faultVars
<1>2. CASE CloseChannel
    BY <1>2, ReturnedType
    DEF TypeOK, CloseChannel, feedVars, workerVars, faultVars
<1>3. CASE Bookkeeping
    BY <1>3, BookkeepingChanges DEF TypeOK
<1> QED
    BY <1>1, <1>2, <1>3, NextIs, BrokerType, CallbackType, HandlerType, SettlesType

-----------------------------------------------------------------------------
(* A delivery is settled at most once *)

\* The broker's steps: only Deliver adds a delivery, of a copy nobody holds.
LEMMA BrokerSettled ==
    ASSUME TypeOK, SettledOnce, NothingFromTheFuture, Broker
    PROVE  SettledOnce' /\ NothingFromTheFuture'
<1> USE DEF brokerVars, chanVars, feedVars, workerVars, closeVars, faultVars
<1>1. ASSUME NEW m \in Msg, Publish(m) PROVE SettledOnce' /\ NothingFromTheFuture'
    <2>1. \A p \in Places : HeldAt(p)' = HeldAt(p)
        BY <1>1, HeldAtIs, HeldAtIsNext DEF Publish, Places, Stations
    <2>2. \A p \in Places : \A e \in HeldAt(p) : Reaches(e) => copy'[e.copy] = copy[e.copy]
        BY <1>1, StoreTouches DEF Publish
    <2> QED
        BY <1>1, <2>1, <2>2, KeepSettled DEF Publish, NothingFromTheFuture
<1>2. ASSUME NEW c \in Copies, RungExpires(c) PROVE SettledOnce' /\ NothingFromTheFuture'
    <2>1. \A p \in Places : HeldAt(p)' = HeldAt(p)
        BY <1>2, HeldAtIs, HeldAtIsNext DEF RungExpires, Places, Stations
    <2>2. ASSUME NEW p \in Places, NEW e \in HeldAt(p), Reaches(e)
          PROVE  copy'[e.copy] = copy[e.copy]
        <3>1. /\ copy[e.copy] = [at |-> "unacked", msg |-> e.msg, attempt |-> e.attempt]
              /\ e \in Delivery
            BY <2>2, HeldExists, HeldAtType
        <3>2. e.copy # c
            BY <1>2, <3>1 DEF RungExpires
        <3> QED
            BY <1>2, <3>1, <3>2 DEF RungExpires, TypeOK, Delivery
    <2> QED
        BY <1>2, <2>1, <2>2, KeepSettled DEF RungExpires, NothingFromTheFuture
<1>3. CASE ChannelLost
    <2>1. \A p \in Places : HeldAt(p)' \subseteq HeldAt(p)
        BY <1>3, HeldAtIs, HeldAtIsNext DEF ChannelLost, Places, Stations
    <2>2. SettledOnce'
        BY <1>3 DEF ChannelLost, SettledOnce, Reaches
    <2> QED
        BY <1>3, <2>1, <2>2 DEF ChannelLost, NothingFromTheFuture
<1>4. CASE Reattach
    <2>1. \A p \in Places : HeldAt(p)' = HeldAt(p)
        BY <1>4, HeldAtIs, HeldAtIsNext DEF Reattach, Places, Stations
    <2>2. \A p \in Places : \A d \in HeldAt(p) : d.gen \in Nat
        BY HeldAtType DEF Delivery
    <2>3. \A p \in Places : \A d \in HeldAt(p)' : ~Reaches(d)'
        BY <1>4, <2>1, <2>2, SMT DEF Reattach, Reaches, NothingFromTheFuture, TypeOK
    <2>4. SettledOnce'
        BY <2>3 DEF SettledOnce
    <2> QED
        BY <1>4, <2>1, <2>2, <2>4, SMT DEF Reattach, NothingFromTheFuture, TypeOK
<1>5. CASE Restart
    <2>1. \A p \in Places : HeldAt(p)' = {}
        BY <1>5, HeldAtIsNext DEF Restart, Places, Stations
    <2> QED
        BY <2>1 DEF SettledOnce, NothingFromTheFuture
<1>6. ASSUME NEW c \in Copies, Deliver(c) PROVE SettledOnce' /\ NothingFromTheFuture'
    <2> DEFINE d == [copy |-> c, gen |-> gen, msg |-> copy[c].msg, attempt |-> copy[c].attempt]
    <2>1. /\ HeldAt("inbox")' = HeldAt("inbox") \cup {d}
          /\ \A p \in Places \ {"inbox"} : HeldAt(p)' = HeldAt(p)
        BY <1>6, HeldAtIs, HeldAtIsNext DEF Deliver, Places, Stations
    <2>2. copy[c] \in Copy /\ copy[c].at = "ready"
        BY <1>6 DEF Deliver, Exists, TypeOK
    <2>3. copy'[c] = [at |-> "unacked", msg |-> d.msg, attempt |-> d.attempt]
        BY <1>6, <2>2 DEF Deliver, Copy, TypeOK
    <2>4. ASSUME NEW p \in Places, NEW e \in HeldAt(p), Reaches(e)
          PROVE  e.copy # c /\ copy'[e.copy] = copy[e.copy]
        <3>1. /\ copy[e.copy] = [at |-> "unacked", msg |-> e.msg, attempt |-> e.attempt]
              /\ e \in Delivery
            BY <2>4, HeldExists, HeldAtType
        <3>2. e.copy # c
            BY <2>2, <3>1
        <3> QED
            BY <1>6, <3>1, <3>2 DEF Deliver, TypeOK, Delivery
    <2>5. \A e : Reaches(e)' <=> Reaches(e)
        BY <1>6 DEF Deliver, Reaches
    <2>6. ASSUME NEW p \in Places, NEW e \in HeldAt(p)', Reaches(e)
          PROVE  \/ e \in HeldAt(p) /\ e.copy # c /\ copy'[e.copy] = copy[e.copy]
                 \/ p = "inbox" /\ e = d
        BY <2>1, <2>4, <2>6
    <2> HIDE DEF d
    <2>7. d.copy = c
        BY DEF d
    <2>8. SettledOnce'
        <3> SUFFICES ASSUME NEW p \in Places, NEW e \in HeldAt(p)', Reaches(e)
                     PROVE  /\ copy'[e.copy] = [at |-> "unacked", msg |-> e.msg,
                                                attempt |-> e.attempt]
                            /\ \A q \in Places : \A f \in HeldAt(q)' :
                                  (Reaches(f) /\ f.copy = e.copy) => (p = q /\ e = f)
            BY <2>5 DEF SettledOnce
        <3>1. copy'[e.copy] = [at |-> "unacked", msg |-> e.msg, attempt |-> e.attempt]
            BY <2>3, <2>6, <2>7, SMT DEF SettledOnce
        <3>2. ASSUME NEW q \in Places, NEW f \in HeldAt(q)', Reaches(f), f.copy = e.copy
              PROVE  p = q /\ e = f
            <4>1. CASE e = d \/ f = d
                BY <2>6, <2>7, <3>2, <4>1
            <4>2. CASE e # d /\ f # d
                <5>1. e \in HeldAt(p) /\ f \in HeldAt(q)
                    BY <2>6, <3>2, <4>2
                <5> QED
                    BY <3>2, <5>1 DEF SettledOnce
            <4> QED
                BY <4>1, <4>2
        <3> QED
            BY <3>1, <3>2
    <2>9. NothingFromTheFuture'
        BY <1>6, <2>1, SMT DEF NothingFromTheFuture, Deliver, d, TypeOK
    <2> QED
        BY <2>8, <2>9
<1> QED
    BY <1>1, <1>2, <1>3, <1>4, <1>5, <1>6 DEF Broker

\* Generations stay in the past when nothing new is held.
LEMMA FutureKept ==
    ASSUME NothingFromTheFuture, gen' = gen,
           \A p \in Places : \A e \in HeldAt(p)' : \E q \in Places : e \in HeldAt(q)
    PROVE  NothingFromTheFuture'
BY DEF NothingFromTheFuture

\* The callback passes a delivery on, or requeues it and lets go.
LEMMA CallbackSettled ==
    ASSUME TypeOK, SettledOnce, NothingFromTheFuture, Callback
    PROVE  SettledOnce' /\ NothingFromTheFuture'
<1> USE DEF brokerVars, chanVars, feedVars, workerVars
<1>0. "inbox" \in Places /\ "offer" \in Places /\ "work" \in Places
    BY DEF Places, Stations
<1>1. ASSUME NEW d \in inbox, Receive(d), isStopping PROVE SettledOnce' /\ NothingFromTheFuture'
    <2>1. /\ \A p \in Places : HeldAt(p)' \subseteq HeldAt(p)
          /\ d \in HeldAt("inbox") /\ d \notin HeldAt("inbox")'
        BY <1>1, HeldAtIs, HeldAtIsNext DEF Receive, Places, Stations
    <2>2. copy' = NackOf(d) /\ chan' = chan /\ gen' = gen
        BY <1>1 DEF Receive
    <2>3. \A p \in Places : \A e \in HeldAt(p)' : Reaches(e) => copy'[e.copy] = copy[e.copy]
        BY <1>0, <2>1, <2>2, SettleTouches
    <2> QED
        BY <2>1, <2>2, <2>3, KeepSettled, FutureKept
<1>2. ASSUME NEW d \in inbox, Receive(d), ~isStopping PROVE SettledOnce' /\ NothingFromTheFuture'
    <2>1. /\ \A p \in Places \ {"offer"} : HeldAt(p)' \subseteq HeldAt(p)
          /\ HeldAt("offer")' \subseteq HeldAt("offer") \cup {d}
          /\ d \in HeldAt("inbox") /\ d \notin HeldAt("inbox")'
        BY <1>2, HeldAtIs, HeldAtIsNext, SMT DEF Receive, Places, Stations
    <2>2. copy' = copy /\ chan' = chan /\ gen' = gen
        BY <1>2 DEF Receive
    <2>3. SettledOnce'
        BY <1>0, <2>1, <2>2, MoveSettled
    <2>4. \A p \in Places : \A e \in HeldAt(p)' : \E q \in Places : e \in HeldAt(q)
        BY <1>0, <2>1
    <2> QED
        BY <2>2, <2>3, <2>4, FutureKept
<1>3. ASSUME NEW d \in offer, Enqueue(d) PROVE SettledOnce' /\ NothingFromTheFuture'
    <2>1. /\ \A p \in Places \ {"work"} : HeldAt(p)' \subseteq HeldAt(p)
          /\ HeldAt("work")' \subseteq HeldAt("work") \cup {d}
          /\ d \in HeldAt("offer") /\ d \notin HeldAt("offer")'
        BY <1>3, HeldAtIs, HeldAtIsNext DEF Enqueue, Places, Stations
    <2>2. copy' = copy /\ chan' = chan /\ gen' = gen
        BY <1>3 DEF Enqueue
    <2>3. SettledOnce'
        BY <1>0, <2>1, <2>2, MoveSettled
    <2>4. \A p \in Places : \A e \in HeldAt(p)' : \E q \in Places : e \in HeldAt(q)
        BY <1>0, <2>1
    <2> QED
        BY <2>2, <2>3, <2>4, FutureKept
<1>4. ASSUME NEW d \in offer, OfferRefused(d) PROVE SettledOnce' /\ NothingFromTheFuture'
    <2>1. /\ \A p \in Places : HeldAt(p)' \subseteq HeldAt(p)
          /\ d \in HeldAt("offer") /\ d \notin HeldAt("offer")'
        BY <1>4, HeldAtIs, HeldAtIsNext DEF OfferRefused, Places, Stations
    <2>2. copy' = NackOf(d) /\ chan' = chan /\ gen' = gen
        BY <1>4 DEF OfferRefused
    <2>3. \A p \in Places : \A e \in HeldAt(p)' : Reaches(e) => copy'[e.copy] = copy[e.copy]
        BY <1>0, <2>1, <2>2, SettleTouches
    <2> QED
        BY <2>1, <2>2, <2>3, KeepSettled, FutureKept
<1> QED
    BY <1>1, <1>2, <1>3, <1>4 DEF Callback

\* A worker takes a delivery off the work channel, or requeues it; deciding moves nothing.
LEMMA HandlerSettled ==
    ASSUME TypeOK, SettledOnce, NothingFromTheFuture, NEW w \in Workers,
           (\E d \in work : Take(w, d)) \/ HandlerReturns(w)
    PROVE  SettledOnce' /\ NothingFromTheFuture'
<1> USE DEF brokerVars, chanVars, feedVars, workerVars
<1>0. "work" \in Places /\ w \in Places /\ w # "work"
    BY WorkersAssumption DEF Places, Stations
<1>1. ASSUME NEW d \in work, Take(w, d), isStopping
      PROVE  SettledOnce' /\ NothingFromTheFuture'
    <2>1. /\ \A p \in Places : HeldAt(p)' \subseteq HeldAt(p)
          /\ d \in HeldAt("work") /\ d \notin HeldAt("work")'
        BY <1>1, HeldAtIs, HeldAtIsNext DEF Take, Places, Stations
    <2>2. copy' = NackOf(d) /\ chan' = chan /\ gen' = gen
        BY <1>1 DEF Take
    <2>3. \A p \in Places : \A e \in HeldAt(p)' : Reaches(e) => copy'[e.copy] = copy[e.copy]
        BY <1>0, <2>1, <2>2, SettleTouches
    <2> QED
        BY <2>1, <2>2, <2>3, KeepSettled, FutureKept
<1>2. ASSUME NEW d \in work, Take(w, d), ~isStopping
      PROVE  SettledOnce' /\ NothingFromTheFuture'
    <2>1. /\ pc' = [pc EXCEPT ![w] = "handling"] /\ held' = [held EXCEPT ![w] = d]
          /\ work' = work \ {d} /\ UNCHANGED <<inbox, offer, timers>>
        BY <1>2 DEF Take
    <2>2. /\ \A p \in Places \ {w} : HeldAt(p)' \subseteq HeldAt(p)
          /\ HeldAt(w)' \subseteq HeldAt(w) \cup {d}
          /\ d \in HeldAt("work") /\ d \notin HeldAt("work")'
        BY <2>1, HeldAtIs, HeldAtIsNext, SMT DEF Places, Stations, TypeOK
    <2>3. copy' = copy /\ chan' = chan /\ gen' = gen
        BY <1>2 DEF Take
    <2>4. SettledOnce'
        BY <1>0, <2>2, <2>3, MoveSettled
    <2>5. \A p \in Places : \A e \in HeldAt(p)' : \E q \in Places : e \in HeldAt(q)
        BY <1>0, <2>2
    <2> QED
        BY <2>3, <2>4, <2>5, FutureKept
<1>3. ASSUME HandlerReturns(w) PROVE SettledOnce' /\ NothingFromTheFuture'
    <2>1. /\ UNCHANGED <<copy, chan, gen, inbox, offer, work, timers, held>>
          /\ pc[w] # "idle"
          /\ \E step \in Steps \ {"idle"} : pc' = [pc EXCEPT ![w] = step]
        BY <1>3 DEF HandlerReturns, Accept, GiveUp, RetryAgain, InProgress, Decide, Goto
    <2>2. \A p \in Places : HeldAt(p)' = HeldAt(p)
        BY <2>1, HeldAtIs, HeldAtIsNext DEF Places, Stations, TypeOK
    <2> QED
        BY <2>1, <2>2, KeepSettled, FutureKept
<1> QED
    BY <1>1, <1>2, <1>3

\* A settlement ends the worker's hold, or hands the delivery to the timer.
LEMMA SettlesSettled ==
    ASSUME TypeOK, SettledOnce, NothingFromTheFuture, NEW w \in Workers, Settles(w)
    PROVE  SettledOnce' /\ NothingFromTheFuture'
<1> USE DEF brokerVars, chanVars, feedVars, workerVars
<1>0. "timers" \in Places /\ w \in Places /\ w # "timers" /\ pc[w] # "idle" /\ held[w] \in HeldAt(w)
    BY WorkersAssumption, HeldAtIs
    DEF Places, Stations, Settles, RetryInBroker, PutBack, SetAside, FinishAck, FinishNack
<1>1. ASSUME RetryInBroker(w) \/ PutBack(w) \/ SetAside(w)
      PROVE  \A p \in Places : \A e \in HeldAt(p) : Reaches(e) => copy'[e.copy] = copy[e.copy]
    <2>1. copy' = copy \/ \E c \in Copies : Stored(w, c)
        BY <1>1 DEF RetryInBroker, PutBack, SetAside, RepublishOK, RepublishFails, RepublishUnrouted
    <2>2. ASSUME NEW c \in Copies, Stored(w, c)
          PROVE  \A p \in Places : \A e \in HeldAt(p) : Reaches(e) => copy'[e.copy] = copy[e.copy]
        BY <2>2, StoreTouches DEF Stored
    <2> QED
        BY <2>1, <2>2
<1>2. ASSUME RetryInBroker(w) \/ PutBack(w) \/ SetAside(w), ~Idle(w)
      PROVE  SettledOnce' /\ NothingFromTheFuture'
    <2>1. /\ UNCHANGED <<chan, gen, inbox, offer, work, timers, held>>
          /\ \E step \in Steps \ {"idle"} : pc' = [pc EXCEPT ![w] = step]
        BY <1>2 DEF RetryInBroker, PutBack, SetAside, Goto, Decide
    <2>2. \A p \in Places : HeldAt(p)' = HeldAt(p)
        BY <1>0, <2>1, HeldAtIs, HeldAtIsNext DEF Places, Stations, TypeOK
    <2> QED
        BY <1>1, <1>2, <2>1, <2>2, KeepSettled, FutureKept
<1>3. ASSUME SetAside(w), Idle(w)
      PROVE  SettledOnce' /\ NothingFromTheFuture'
    <2>1. /\ UNCHANGED <<chan, gen, inbox, offer, work>>
          /\ timers' \subseteq timers \cup {held[w]}
        BY <1>3 DEF SetAside
    <2>2. /\ \A p \in Places \ {"timers"} : HeldAt(p)' \subseteq HeldAt(p)
          /\ HeldAt("timers")' \subseteq HeldAt("timers") \cup {held[w]}
          /\ held[w] \notin HeldAt(w)'
        BY <1>3, <2>1, HeldAtIs, HeldAtIsNext, SMT DEF Places, Stations, TypeOK, Idle
    <2>3. \A p \in Places : \A e \in HeldAt(p)' : \E q \in Places : e \in HeldAt(q)
        BY <1>0, <2>2, SMT
    <2>4. \A p \in Places : \A e \in HeldAt(p)' : Reaches(e) => copy'[e.copy] = copy[e.copy]
        BY <1>1, <1>3, <2>3
    <2>5. SettledOnce'
        BY <1>0, <2>1, <2>2, <2>4, MoveSettled
    <2> QED
        BY <2>1, <2>3, <2>5, FutureKept
<1>4. ASSUME FinishAck(w) \/ FinishNack(w)
      PROVE  SettledOnce' /\ NothingFromTheFuture'
    <2>1. /\ UNCHANGED <<chan, gen, inbox, offer, work, timers>>
          /\ Idle(w)
          /\ copy' \in {AckOf(held[w]), NackOf(held[w])}
        BY <1>4 DEF FinishAck, FinishNack
    <2>2. /\ \A p \in Places : HeldAt(p)' \subseteq HeldAt(p)
          /\ held[w] \notin HeldAt(w)'
        BY <2>1, HeldAtIs, HeldAtIsNext, SMT DEF Places, Stations, TypeOK, Idle
    <2>3. \A p \in Places : \A e \in HeldAt(p)' : Reaches(e) => copy'[e.copy] = copy[e.copy]
        BY <1>0, <2>1, <2>2, SettleTouches
    <2> QED
        BY <2>1, <2>2, <2>3, KeepSettled, FutureKept
<1>5. RetryInBroker(w) \/ PutBack(w) => ~Idle(w)
    BY DEF RetryInBroker, PutBack, Idle, Goto, Decide, TypeOK
<1> QED
    BY <1>2, <1>3, <1>4, <1>5 DEF Settles

\* Every step keeps deliveries settled at most once.
LEMMA SettledStep ==
    ASSUME TypeOK, SettledOnce, NothingFromTheFuture, [Next]_vars
    PROVE  SettledOnce' /\ NothingFromTheFuture'
<1> USE DEF chanVars, feedVars, workerVars
<1>1. ASSUME NEW d \in timers, TimerFires(d)
      PROVE  SettledOnce' /\ NothingFromTheFuture'
    <2>1. /\ \A p \in Places : HeldAt(p)' \subseteq HeldAt(p)
          /\ d \in HeldAt("timers") /\ d \notin HeldAt("timers")' /\ "timers" \in Places
        BY <1>1, HeldAtIs, HeldAtIsNext DEF TimerFires, Places, Stations
    <2>2. copy' = NackOf(d) /\ chan' = chan /\ gen' = gen
        BY <1>1 DEF TimerFires
    <2>3. \A p \in Places : \A e \in HeldAt(p)' : Reaches(e) => copy'[e.copy] = copy[e.copy]
        BY <2>1, <2>2, SettleTouches
    <2> QED
        BY <2>1, <2>2, <2>3, KeepSettled, FutureKept
<1>2. CASE CloseChannel
    <2>1. \A p \in Places : HeldAt(p)' = HeldAt(p)
        BY <1>2, HeldAtIs, HeldAtIsNext DEF CloseChannel, Places, Stations
    <2>2. SettledOnce'
        BY <1>2 DEF CloseChannel, SettledOnce, Reaches
    <2> QED
        BY <1>2, <2>1, <2>2, FutureKept DEF CloseChannel
<1>3. CASE Bookkeeping
    <2>1. /\ UNCHANGED <<copy, chan, gen>>
          /\ \A p \in Places : HeldAt(p)' = HeldAt(p)
        BY <1>3, BookkeepingChanges, HeldAtIs, HeldAtIsNext DEF Places, Stations
    <2> QED
        BY <2>1, KeepSettled, FutureKept
<1> QED
    BY <1>1, <1>2, <1>3, NextIs, BrokerSettled, CallbackSettled, HandlerSettled, SettlesSettled

\* Initially nothing is held.
LEMMA SettledInit == Init => SettledOnce /\ NothingFromTheFuture
<1> SUFFICES ASSUME Init PROVE SettledOnce /\ NothingFromTheFuture
    OBVIOUS
<1>1. \A p \in Places : HeldAt(p) = {}
    BY HeldAtIs DEF Init, Places, Stations
<1> QED
    BY <1>1 DEF SettledOnce, NothingFromTheFuture

-----------------------------------------------------------------------------
(* A republish never goes back an attempt; nothing is sent on a closed work *)
(* channel                                                                  *)

\* Every step keeps JobsCountUp: a retry adds one, everything else carries the attempt over.
LEMMA JobsStep ==
    ASSUME TypeOK, JobsCountUp, [Next]_vars
    PROVE  JobsCountUp'
<1> USE DEF workerVars
<1>1. CASE Broker
    BY <1>1 DEF Broker, JobsCountUp, Publish, Deliver, RungExpires, ChannelLost, Reattach, Restart
<1>2. CASE Callback
    BY <1>2 DEF Callback, JobsCountUp, Receive, Enqueue, OfferRefused
<1>3. ASSUME NEW w \in Workers, NEW d \in work, Take(w, d) PROVE JobsCountUp'
    BY <1>3 DEF JobsCountUp, Take, TypeOK
<1>4. ASSUME NEW w \in Workers, HandlerReturns(w) PROVE JobsCountUp'
    <2>1. held[w].attempt \in Nat
        BY <1>4, SMT DEF TypeOK, Delivery, Attempts, HandlerReturns, Accept, GiveUp, RetryAgain, InProgress
    <2>2. CASE Accept(w)
        BY <2>2 DEF Accept, JobsCountUp, Goto, TypeOK
    <2>3. ASSUME NEW q \in {"dlq", "parked"}, GiveUp(w, q) PROVE JobsCountUp'
        BY <2>1, <2>3, SMT DEF GiveUp, JobsCountUp, Decide, TypeOK
    <2>4. CASE RetryAgain(w)
        BY <2>1, <2>4, SMT DEF RetryAgain, JobsCountUp, Decide, TypeOK
    <2>5. CASE InProgress(w)
        BY <2>1, <2>5, SMT DEF InProgress, JobsCountUp, Decide, TypeOK
    <2> QED
        BY <1>4, <2>2, <2>3, <2>4, <2>5 DEF HandlerReturns
<1>5. ASSUME NEW w \in Workers, Settles(w) PROVE JobsCountUp'
    <2>1. CASE RetryInBroker(w)
        <3>1. Goto(w, "acking") \/ Goto(w, "nacking") \/ Decide(w, "hop", "ready", job[w].attempt)
            BY <2>1 DEF RetryInBroker
        <3> QED
            BY <2>1, <3>1, SMT DEF RetryInBroker, JobsCountUp, Goto, Decide, TypeOK
    <2>2. CASE PutBack(w)
        <3>1. Goto(w, "acking") \/ Goto(w, "nacking")
            BY <2>2 DEF PutBack
        <3> QED
            BY <3>1 DEF JobsCountUp, Goto, TypeOK
    <2>3. CASE SetAside(w)
        <3>1. Goto(w, "acking") \/ Idle(w)
            BY <2>3 DEF SetAside
        <3> QED
            BY <3>1 DEF JobsCountUp, Goto, Idle, TypeOK
    <2>4. CASE FinishAck(w) \/ FinishNack(w)
        BY <2>4 DEF FinishAck, FinishNack, JobsCountUp, Idle, TypeOK
    <2> QED
        BY <1>5, <2>1, <2>2, <2>3, <2>4 DEF Settles
<1>6. ASSUME NEW d \in timers, TimerFires(d) PROVE JobsCountUp'
    BY <1>6 DEF JobsCountUp, TimerFires
<1>7. CASE CloseChannel
    BY <1>7 DEF JobsCountUp, CloseChannel
<1>8. CASE Bookkeeping
    BY <1>8, BookkeepingChanges DEF JobsCountUp
<1> QED
    BY <1>1, <1>2, <1>3, <1>4, <1>5, <1>6, <1>7, <1>8, NextIs

\* Every step keeps the work channel safe to close: only StopReturns closes it.
LEMMA SendStep ==
    ASSUME NoSendOnClosed, [Next]_vars
    PROVE  NoSendOnClosed'
<1> USE DEF closeVars, feedVars, NoSendOnClosed, workClosed
<1>1. CASE Broker
    BY <1>1 DEF Broker, Publish, Deliver, RungExpires, ChannelLost, Reattach, Restart
<1>2. CASE Callback
    BY <1>2 DEF Callback, Receive, Enqueue, OfferRefused
<1>3. ASSUME NEW w \in Workers, NEW d \in work, Take(w, d) PROVE NoSendOnClosed'
    BY <1>3 DEF Take
<1>4. ASSUME NEW w \in Workers, HandlerReturns(w) PROVE NoSendOnClosed'
    BY <1>4 DEF HandlerReturns, Accept, GiveUp, RetryAgain, InProgress
<1>5. ASSUME NEW w \in Workers, Settles(w) PROVE NoSendOnClosed'
    BY <1>5 DEF Settles, RetryInBroker, PutBack, SetAside, FinishAck, FinishNack
<1>6. ASSUME NEW d \in timers, TimerFires(d) PROVE NoSendOnClosed'
    BY <1>6 DEF TimerFires
<1>7. CASE CloseChannel
    BY <1>7 DEF CloseChannel
<1>8. CASE Bookkeeping
    BY <1>8 DEF Bookkeeping, CloseBegin, StopCancel, StopReturns, HandlersDone, DrainExpires,
                GraceExpires, CancelContext, vars
<1> QED
    BY <1>1, <1>2, <1>3, <1>4, <1>5, <1>6, <1>7, <1>8, NextIs

-----------------------------------------------------------------------------
(* Nothing is lost *)

\* Copy c comes through the step with its message and its attempts.
Survives(c) ==
    /\ copy'[c] # None
    /\ copy'[c].msg = copy[c].msg
    /\ copy'[c].attempt = copy[c].attempt

\* What a step must do to keep every message: copies that are not leaving
\* survive, new ones are not leaving, and one that starts to leave has been
\* accepted or has a copy to stand in for it.
Keeps ==
    /\ done \subseteq done'
    /\ \A c \in Copies : Exists(c) /\ ~Leaving(c) => Survives(c)
    /\ \A c \in Copies : copy'[c] # None => (Exists(c) /\ Survives(c)) \/ ~Leaving(c)'
    /\ \A c \in Copies : Exists(c) /\ ~Leaving(c) /\ Leaving(c)' =>
          \/ copy[c].msg \in done'
          \/ \E k \in Copies : /\ copy'[k] # None /\ ~Leaving(k)'
                               /\ copy'[k].msg = copy[c].msg
                               /\ copy'[k].attempt >= copy[c].attempt

\* A step that Keeps preserves KeptAhead.
LEMMA KeepsKept ==
    ASSUME TypeOK, TypeOK', KeptAhead, Keeps
    PROVE  KeptAhead'
<1> SUFFICES ASSUME NEW m \in Msg \ done', NEW c \in Copies, copy'[c] # None, copy'[c].msg = m
             PROVE  \E k \in Copies : /\ copy'[k] # None /\ copy'[k].msg = m
                                      /\ ~Leaving(k)' /\ copy'[k].attempt >= copy'[c].attempt
    BY DEF KeptAhead, CopiesOf, Exists
<1>0. \A k \in Copies : copy'[k] # None => copy'[k].attempt \in Nat
    BY SMT DEF TypeOK, Copy, Attempts
<1>1. CASE ~Leaving(c)'
    BY <1>0, <1>1
<1>2. CASE Leaving(c)'
    <2>1. Exists(c) /\ Survives(c) /\ m \in Msg \ done
        BY <1>2 DEF Keeps
    <2>2. PICK j \in Copies : /\ Exists(j) /\ copy[j].msg = m
                              /\ ~Leaving(j) /\ copy[j].attempt >= copy[c].attempt
        BY <2>1 DEF KeptAhead, CopiesOf, Survives
    <2>3. Survives(j)
        BY <2>2 DEF Keeps
    <2>4. CASE ~Leaving(j)'
        BY <2>1, <2>2, <2>3, <2>4 DEF Survives
    <2>5. CASE Leaving(j)'
        <3>1. PICK k \in Copies : /\ copy'[k] # None /\ ~Leaving(k)'
                                  /\ copy'[k].msg = copy[j].msg
                                  /\ copy'[k].attempt >= copy[j].attempt
            BY <2>2, <2>5 DEF Keeps
        <3>2. /\ copy'[k].attempt \in Nat /\ copy[j].attempt \in Nat
              /\ copy[c].attempt \in Nat /\ copy'[c].attempt = copy[c].attempt
            BY <1>0, <2>1, <2>3, <3>1 DEF Survives
        <3>3. copy'[k].attempt >= copy'[c].attempt
            BY ONLY <2>2, <3>1, <3>2
        <3> QED
            BY <2>2, <3>1, <3>3
    <2> QED
        BY <2>4, <2>5
<1> QED
    BY <1>1, <1>2

\* A worker's acknowledgement on its way concerns a copy that exists, with the
\* message and attempts the worker was handed.
LEMMA LeavingHeld ==
    ASSUME TypeOK, SettledOnce, NEW w \in Workers, pc[w] # "idle", Reaches(held[w])
    PROVE  /\ held[w] \in Delivery
           /\ Exists(held[w].copy)
           /\ copy[held[w].copy].msg = held[w].msg
           /\ copy[held[w].copy].attempt = held[w].attempt
<1>1. w \in Places /\ held[w] \in HeldAt(w)
    BY HeldAtIs DEF Places
<1>2. held[w] \in Delivery
    BY <1>1, HeldAtType
<1>3. copy[held[w].copy] = [at |-> "unacked", msg |-> held[w].msg, attempt |-> held[w].attempt]
    BY <1>1 DEF SettledOnce
<1>4. Exists(held[w].copy)
    BY <1>1, HeldExists DEF Exists
<1> QED
    BY ONLY <1>2, <1>3, <1>4

\* No copy comes or goes, and no message or attempt count changes.
SameCopies == \A c \in Copies : (Exists(c) <=> copy'[c] # None) /\ (Exists(c) => Survives(c))

\* Moving a copy keeps it.
LEMMA SameAt ==
    ASSUME TypeOK, NEW c \in Copies, Exists(c), NEW q \in Queues \cup {"unacked"},
           copy' = [copy EXCEPT ![c].at = q]
    PROVE  SameCopies
<1>1. copy[c] \in Copy
    BY DEF Exists, TypeOK
<1>2. copy'[c] = [at |-> q, msg |-> copy[c].msg, attempt |-> copy[c].attempt]
    BY <1>1 DEF Copy, TypeOK
<1>3. copy'[c] \in Copy
    BY <1>1, <1>2, SMT DEF Copy
<1>4. copy'[c] # None
    BY <1>3, NoneAssumption
<1> QED
    BY <1>2, <1>4 DEF SameCopies, Survives, Exists, TypeOK

\* So does a requeue of what is held.
LEMMA SameNack ==
    ASSUME TypeOK, SettledOnce, NEW p \in Places, NEW d \in HeldAt(p), copy' = NackOf(d)
    PROVE  SameCopies
<1>1. CASE Reaches(d)
    <2>1. d.copy \in Copies /\ Exists(d.copy)
        BY <1>1, HeldAtType, HeldExists DEF Delivery, Exists
    <2>2. copy' = [copy EXCEPT ![d.copy].at = "ready"]
        BY <1>1 DEF NackOf
    <2> QED
        BY <2>1, <2>2, SameAt
<1>2. CASE ~Reaches(d)
    BY <1>2 DEF NackOf, SameCopies, Survives, Exists
<1> QED
    BY <1>1, <1>2

\* So does the loss of the channel.
LEMMA SameReturned ==
    ASSUME TypeOK, copy' = Returned
    PROVE  SameCopies
<1> SUFFICES ASSUME NEW c \in Copies
             PROVE  (Exists(c) <=> copy'[c] # None) /\ (Exists(c) => Survives(c))
    BY DEF SameCopies
<1>1. CASE c \in Unacked
    <2>1. copy[c] \in Copy /\ Exists(c)
        BY <1>1 DEF Unacked, Exists, TypeOK
    <2>2. copy'[c] = [copy[c] EXCEPT !.at = "ready"]
        BY <1>1 DEF Returned
    <2>3. copy'[c] = [at |-> "ready", msg |-> copy[c].msg, attempt |-> copy[c].attempt]
        BY <2>1, <2>2 DEF Copy
    <2>4. copy'[c] \in Copy
        BY <2>1, <2>3, SMT DEF Copy
    <2>5. copy'[c] # None
        BY <2>4, NoneAssumption
    <2> QED
        BY ONLY <2>1, <2>3, <2>5 DEF Survives
<1>2. CASE c \notin Unacked
    BY <1>2 DEF Returned, Exists, Survives
<1> QED
    BY <1>1, <1>2

\* No worker starts to acknowledge, on a channel that stays as it is.
LEMMA LeavingKept ==
    ASSUME chan' = chan, gen' = gen,
           \A w \in Workers : pc'[w] = "acking" => pc[w] = "acking" /\ held'[w] = held[w]
    PROVE  \A c \in Copies : Leaving(c)' => Leaving(c)
BY DEF Leaving, Reaches

\* A step that leaves the copies alone and starts no acknowledgement.
LEMMA CalmKeeps ==
    ASSUME SameCopies, done \subseteq done', \A c \in Copies : Leaving(c)' => Leaving(c)
    PROVE  Keeps
BY DEF Keeps, SameCopies

\* The broker's steps, the loss and the return of the channel included.
LEMMA BrokerKeeps ==
    ASSUME TypeOK, SettledOnce, NothingFromTheFuture, Broker
    PROVE  Keeps
<1> USE DEF brokerVars, workerVars, chanVars
<1>1. ASSUME NEW m \in Msg, Publish(m) PROVE Keeps
    <2>1. PICK c \in Copies :
            ~Exists(c) /\ copy' = [copy EXCEPT ![c] = [at |-> "ready", msg |-> m, attempt |-> 1]]
        BY <1>1 DEF Publish
    <2>2. \A k \in Copies : Leaving(k)' => Leaving(k)
        BY <1>1, LeavingKept DEF Publish
    <2>3. \A k \in Copies : Leaving(k) => Exists(k)
        BY LeavingHeld DEF Leaving
    <2>4. \A k \in Copies : k # c => copy'[k] = copy[k]
        BY <2>1 DEF TypeOK
    <2>5. done' = done
        BY <1>1 DEF Publish
    <2> QED
        BY <2>1, <2>2, <2>3, <2>4, <2>5, SMT DEF Keeps, Survives, Exists
<1>2. ASSUME NEW c \in Copies, RungExpires(c) \/ Deliver(c) PROVE Keeps
    <2>1. SameCopies
        BY <1>2, SameAt DEF RungExpires, Deliver
    <2>2. \A k \in Copies : Leaving(k)' => Leaving(k)
        BY <1>2, LeavingKept DEF RungExpires, Deliver
    <2> QED
        BY <1>2, <2>1, <2>2, CalmKeeps DEF RungExpires, Deliver
<1>3. CASE ChannelLost
    <2>1. SameCopies
        BY <1>3, SameReturned DEF ChannelLost
    <2>2. \A k \in Copies : ~Leaving(k)'
        BY <1>3 DEF ChannelLost, Leaving, Reaches
    <2> QED
        BY <1>3, <2>1, <2>2, CalmKeeps DEF ChannelLost
<1>4. CASE Reattach
    <2>1. SameCopies
        BY <1>4 DEF Reattach, SameCopies, Survives, Exists
    <2>2. ASSUME NEW w \in Workers, pc'[w] = "acking" PROVE held'[w].gen # gen'
        <3>1. w \in Places /\ held[w] \in HeldAt(w)
            BY <1>4, <2>2, HeldAtIs DEF Reattach, Places
        <3>2. held[w].gen <= gen /\ held[w].gen \in Nat
            BY <3>1, HeldAtType DEF NothingFromTheFuture, Delivery
        <3> QED
            BY <1>4, <3>2, SMT DEF Reattach, TypeOK
    <2>3. \A k \in Copies : ~Leaving(k)'
        BY <2>2 DEF Leaving, Reaches
    <2> QED
        BY <1>4, <2>1, <2>3, CalmKeeps DEF Reattach
<1>5. CASE Restart
    <2>1. SameCopies
        BY <1>5, SameReturned DEF Restart
    <2>2. \A k \in Copies : ~Leaving(k)'
        BY <1>5 DEF Restart, Leaving
    <2> QED
        BY <1>5, <2>1, <2>2, CalmKeeps DEF Restart
<1> QED
    BY <1>1, <1>2, <1>3, <1>4, <1>5 DEF Broker

\* The callback's steps: a delivery is passed on or requeued.
LEMMA CallbackKeeps ==
    ASSUME TypeOK, SettledOnce, Callback
    PROVE  Keeps
<1> USE DEF workerVars, chanVars, brokerVars
<1>1. \A k \in Copies : Leaving(k)' => Leaving(k)
    BY LeavingKept DEF Callback, Receive, Enqueue, OfferRefused
<1>2. SameCopies
    <2>1. "inbox" \in Places /\ "offer" \in Places /\ HeldAt("inbox") = inbox /\ HeldAt("offer") = offer
        BY HeldAtIs DEF Places, Stations
    <2>2. copy' = copy \/ \E p \in Places : \E d \in HeldAt(p) : copy' = NackOf(d)
        BY <2>1 DEF Callback, Receive, Enqueue, OfferRefused
    <2>3. copy' = copy => SameCopies
        BY DEF SameCopies, Survives, Exists
    <2> QED
        BY <2>2, <2>3, SameNack
<1>3. done' = done
    BY DEF Callback, Receive, Enqueue, OfferRefused
<1> QED
    BY <1>1, <1>2, <1>3, CalmKeeps

\* Taking a delivery and the handler's decision: what starts to leave has been
\* accepted.
LEMMA HandlerKeeps ==
    ASSUME TypeOK, SettledOnce, NEW w \in Workers,
           (\E d \in work : Take(w, d)) \/ HandlerReturns(w)
    PROVE  Keeps
<1> USE DEF workerVars, chanVars, brokerVars
<1>1. ASSUME NEW d \in work, Take(w, d) PROVE Keeps
    <2>1. \A k \in Copies : Leaving(k)' => Leaving(k)
        BY <1>1, LeavingKept DEF Take, TypeOK
    <2>2. "work" \in Places /\ d \in HeldAt("work")
        BY HeldAtIs DEF Places, Stations
    <2>3. copy' = copy \/ copy' = NackOf(d)
        BY <1>1 DEF Take
    <2>4. copy' = copy => SameCopies
        BY DEF SameCopies, Survives, Exists
    <2>5. SameCopies
        BY <2>2, <2>3, <2>4, SameNack
    <2> QED
        BY <1>1, <2>1, <2>5, CalmKeeps DEF Take
<1>2. CASE HandlerReturns(w) /\ ~Accept(w)
    <2>1. /\ UNCHANGED <<copy, done, chan, gen, held>>
          /\ \E step \in {"rung", "hop", "aside"} : pc' = [pc EXCEPT ![w] = step]
        BY <1>2 DEF HandlerReturns, GiveUp, RetryAgain, InProgress, Decide
    <2>2. \A k \in Copies : Leaving(k)' => Leaving(k)
        BY <2>1, LeavingKept DEF TypeOK
    <2>3. SameCopies
        BY <2>1 DEF SameCopies, Survives, Exists
    <2> QED
        BY <2>1, <2>2, <2>3, CalmKeeps
<1>3. CASE Accept(w)
    <2>1. /\ UNCHANGED <<copy, chan, gen, held>>
          /\ pc' = [pc EXCEPT ![w] = "acking"] /\ pc[w] = "handling"
          /\ done' = done \cup {held[w].msg}
        BY <1>3 DEF Accept, Goto
    <2>2. ASSUME NEW k \in Copies, Leaving(k)', ~Leaving(k)
          PROVE  copy[k].msg \in done'
        <3>1. Reaches(held[w]) /\ held[w].copy = k
            BY <2>1, <2>2 DEF Leaving, Reaches, TypeOK
        <3> QED
            BY <2>1, <3>1, LeavingHeld
    <2> QED
        BY <2>1, <2>2 DEF Keeps, Survives, Exists
<1> QED
    BY <1>1, <1>2, <1>3

\* A republish that succeeded: the copy it left stands in for the delivery that
\* is about to be acknowledged.
LEMMA StoredKeeps ==
    ASSUME TypeOK, SettledOnce, JobsCountUp, NEW w \in Workers, NEW c \in Copies,
           pc[w] \in {"rung", "hop", "aside"}, Stored(w, c),
           UNCHANGED <<done, chan, gen>>,
           \A v \in Workers \ {w} : pc'[v] = pc[v] /\ held'[v] = held[v],
           pc'[w] = "acking" => held'[w] = held[w]
    PROVE  Keeps
<1>0. held[w] \in Delivery /\ job[w] \in Job
    BY DEF TypeOK
<1>1. /\ ~Exists(c)
      /\ copy'[c] = [at |-> job[w].to, msg |-> held[w].msg, attempt |-> job[w].attempt]
      /\ \A k \in Copies : k # c => copy'[k] = copy[k]
    BY DEF Stored, TypeOK
<1>2. copy'[c] # None
    <2>1. copy'[c] \in Copy
        BY ONLY <1>0, <1>1 DEF Copy, Job, Delivery
    <2> QED
        BY <2>1, NoneAssumption
<1>3. \A k \in Copies : Leaving(k) => Exists(k)
    BY LeavingHeld DEF Leaving
<1>4. ASSUME NEW k \in Copies, Leaving(k)', ~Leaving(k)
      PROVE  Reaches(held[w]) /\ held[w].copy = k
    <2>1. PICK v \in Workers : pc'[v] = "acking" /\ Reaches(held[v])' /\ held'[v].copy = k
        BY <1>4 DEF Leaving
    <2>2. CASE v = w
        BY <2>1, <2>2 DEF Reaches
    <2>3. CASE v # w
        BY <1>4, <2>1, <2>3 DEF Leaving, Reaches
    <2> QED
        BY <2>2, <2>3
<1>5. ~Leaving(c)'
    BY <1>1, <1>3, <1>4, LeavingHeld
<1>6. ASSUME NEW k \in Copies, Leaving(k)', ~Leaving(k)
      PROVE  copy'[c].msg = copy[k].msg /\ copy'[c].attempt >= copy[k].attempt
    <2>1. Reaches(held[w]) /\ held[w].copy = k
        BY <1>4, <1>6
    <2>2. copy[k].msg = held[w].msg /\ copy[k].attempt = held[w].attempt
        BY <2>1, LeavingHeld
    <2>3. job[w].attempt >= held[w].attempt
        BY DEF JobsCountUp
    <2>4. copy'[c].msg = held[w].msg /\ copy'[c].attempt = job[w].attempt
        BY ONLY <1>1
    <2> QED
        BY <2>2, <2>3, <2>4
<1>7. \A k \in Copies : Exists(k) => Survives(k)
    BY <1>1 DEF Survives, Exists
<1> QED
    BY <1>1, <1>2, <1>5, <1>6, <1>7 DEF Keeps, Exists

\* The settlements: republish, acknowledge, requeue.
LEMMA SettlesKeeps ==
    ASSUME TypeOK, SettledOnce, JobsCountUp, NEW w \in Workers, Settles(w)
    PROVE  Keeps
<1> USE DEF workerVars, chanVars, brokerVars
<1>0. w \in Places /\ held[w] \in HeldAt(w) /\ pc[w] # "idle"
    BY HeldAtIs DEF Places, Settles, RetryInBroker, PutBack, SetAside, FinishAck, FinishNack
<1>1. ASSUME RetryInBroker(w) \/ PutBack(w) \/ SetAside(w) PROVE Keeps
    <2>1. /\ UNCHANGED <<done, chan, gen>>
          /\ pc[w] \in {"rung", "hop", "aside"}
        BY <1>1 DEF RetryInBroker, PutBack, SetAside
    <2>2. \/ \E step \in {"acking", "nacking"} : Goto(w, step)
          \/ Decide(w, "hop", "ready", job[w].attempt)
          \/ Idle(w)
        BY <1>1 DEF RetryInBroker, PutBack, SetAside
    <2>3. /\ \A v \in Workers \ {w} : pc'[v] = pc[v] /\ held'[v] = held[v]
          /\ pc'[w] = "acking" => held'[w] = held[w]
        BY <2>2 DEF Goto, Decide, Idle, TypeOK
    <2>4. \/ \E c \in Copies : Stored(w, c)
          \/ copy' = copy /\ pc'[w] # "acking"
        BY <1>1 DEF RetryInBroker, PutBack, SetAside, RepublishOK, RepublishFails,
                    RepublishUnrouted, Goto, Decide, Idle, TypeOK
    <2>5. ASSUME copy' = copy, pc'[w] # "acking" PROVE Keeps
        <3>1. \A k \in Copies : Leaving(k)' => Leaving(k)
            BY <2>1, <2>3, <2>5, LeavingKept
        <3>2. SameCopies
            BY <2>5 DEF SameCopies, Survives, Exists
        <3> QED
            BY <2>1, <3>1, <3>2, CalmKeeps
    <2> QED
        BY <2>1, <2>3, <2>4, <2>5, StoredKeeps
<1>2. ASSUME FinishNack(w) PROVE Keeps
    <2>1. SameCopies
        BY <1>0, <1>2, SameNack DEF FinishNack
    <2>2. \A k \in Copies : Leaving(k)' => Leaving(k)
        BY <1>2, LeavingKept DEF FinishNack, Idle, TypeOK
    <2> QED
        BY <1>2, <2>1, <2>2, CalmKeeps DEF FinishNack
<1>3. ASSUME FinishAck(w) PROVE Keeps
    <2>1. \A k \in Copies : Leaving(k)' => Leaving(k)
        BY <1>3, LeavingKept DEF FinishAck, Idle, TypeOK
    <2>2. ASSUME NEW k \in Copies PROVE copy'[k] = copy[k] \/ (Leaving(k) /\ copy'[k] = None)
        <3>1. CASE Reaches(held[w])
            BY <1>3, <3>1 DEF FinishAck, AckOf, Leaving, TypeOK
        <3>2. CASE ~Reaches(held[w])
            BY <1>3, <3>2 DEF FinishAck, AckOf
        <3> QED
            BY <3>1, <3>2
    <2>3. done' = done
        BY <1>3 DEF FinishAck
    <2> QED
        BY <2>1, <2>2, <2>3 DEF Keeps, Survives, Exists
<1> QED
    BY <1>1, <1>2, <1>3 DEF Settles

\* Every step of the engine.
LEMMA StepKeeps ==
    ASSUME TypeOK, SettledOnce, NothingFromTheFuture, JobsCountUp, [Next]_vars
    PROVE  Keeps
<1> USE DEF workerVars, chanVars, brokerVars
<1>1. ASSUME NEW d \in timers, TimerFires(d) PROVE Keeps
    <2>1. "timers" \in Places /\ d \in HeldAt("timers")
        BY HeldAtIs DEF Places, Stations
    <2>2. SameCopies
        BY <1>1, <2>1, SameNack DEF TimerFires
    <2>3. \A k \in Copies : Leaving(k)' => Leaving(k)
        BY <1>1, LeavingKept DEF TimerFires
    <2> QED
        BY <1>1, <2>2, <2>3, CalmKeeps DEF TimerFires
<1>2. CASE CloseChannel
    <2>1. SameCopies
        <3>1. copy' = copy => SameCopies
            BY DEF SameCopies, Survives, Exists
        <3> QED
            BY <1>2, <3>1, SameReturned DEF CloseChannel
    <2>2. \A k \in Copies : ~Leaving(k)'
        BY <1>2 DEF CloseChannel, Leaving, Reaches
    <2> QED
        BY <1>2, <2>1, <2>2, CalmKeeps DEF CloseChannel
<1>3. CASE Bookkeeping
    <2>1. UNCHANGED <<copy, done, chan, gen, pc, held>>
        BY <1>3, BookkeepingChanges
    <2>2. SameCopies
        BY <2>1 DEF SameCopies, Survives, Exists
    <2>3. \A k \in Copies : Leaving(k)' => Leaving(k)
        BY <2>1, LeavingKept
    <2> QED
        BY <2>1, <2>2, <2>3, CalmKeeps
<1> QED
    BY <1>1, <1>2, <1>3, NextIs, BrokerKeeps, CallbackKeeps, HandlerKeeps, SettlesKeeps

\* A published message that is not accepted keeps a copy.
LEMMA NoLossStep ==
    ASSUME TypeOK, TypeOK', NoLoss, KeptAhead, Keeps, [Next]_vars
    PROVE  NoLoss'
<1> SUFFICES ASSUME NEW m \in published' \ done'
             PROVE  \E c \in Copies : copy'[c] # None /\ copy'[c].msg = m
    BY DEF NoLoss, CopiesOf, Exists
<1>1. CASE m \in published
    <2>1. m \in published \ done /\ m \in Msg
        BY <1>1 DEF Keeps, TypeOK
    <2>2. PICK c \in Copies : Exists(c) /\ copy[c].msg = m
        BY <2>1 DEF NoLoss, CopiesOf
    <2>3. PICK k \in Copies : Exists(k) /\ copy[k].msg = m /\ ~Leaving(k)
        BY <2>1, <2>2 DEF KeptAhead, CopiesOf
    <2> QED
        BY <2>3 DEF Keeps, Survives
<1>2. CASE m \notin published
    <2>1. Publish(m)
        <3> USE DEF brokerVars
        <3>1. CASE Broker
            BY <1>2, <3>1 DEF Broker, Publish, Deliver, RungExpires, ChannelLost, Reattach, Restart
        <3>2. CASE Callback
            BY <1>2, <3>2 DEF Callback, Receive, Enqueue, OfferRefused
        <3>3. ASSUME NEW w \in Workers, (\E d \in work : Take(w, d)) \/ HandlerReturns(w)
              PROVE  FALSE
            BY <1>2, <3>3 DEF Take, HandlerReturns, Accept, GiveUp, RetryAgain, InProgress
        <3>4. ASSUME NEW w \in Workers, Settles(w) PROVE FALSE
            BY <1>2, <3>4 DEF Settles, RetryInBroker, PutBack, SetAside, FinishAck, FinishNack
        <3>5. ASSUME NEW d \in timers, TimerFires(d) PROVE FALSE
            BY <1>2, <3>5 DEF TimerFires
        <3>6. ~CloseChannel
            BY <1>2 DEF CloseChannel
        <3>7. ~Bookkeeping
            BY <1>2, BookkeepingChanges
        <3> QED
            BY <3>1, <3>2, <3>3, <3>4, <3>5, <3>6, <3>7, NextIs
    <2>2. PICK c \in Copies : copy' = [copy EXCEPT ![c] = [at |-> "ready", msg |-> m, attempt |-> 1]]
        BY <2>1 DEF Publish
    <2>3. copy'[c] = [at |-> "ready", msg |-> m, attempt |-> 1]
        BY <2>2 DEF TypeOK
    <2>4. m \in Msg
        BY DEF TypeOK
    <2>5. 1 \in Attempts
        BY ConsumerAssumption DEF Attempts
    <2>6. copy'[c] \in Copy
        BY ONLY <2>3, <2>4, <2>5 DEF Copy
    <2> QED
        BY ONLY <2>3, <2>6, NoneAssumption
<1> QED
    BY <1>1, <1>2

-----------------------------------------------------------------------------
(* The theorems *)

\* EngineInv holds initially.
LEMMA EngineInit == Init => EngineInv
<1> SUFFICES ASSUME Init PROVE EngineInv
    OBVIOUS
<1>1. TypeOK /\ SettledOnce /\ NothingFromTheFuture
    BY TypeInit, SettledInit
<1>2. JobsCountUp /\ NoSendOnClosed
    BY DEF Init, JobsCountUp, NoSendOnClosed
<1>3. NoLoss /\ KeptAhead
    BY DEF Init, NoLoss, KeptAhead, CopiesOf, Exists
<1> QED
    BY <1>1, <1>2, <1>3 DEF EngineInv

\* Every step keeps EngineInv.
LEMMA EngineStep ==
    ASSUME EngineInv, [Next]_vars
    PROVE  EngineInv'
<1>1. /\ TypeOK /\ SettledOnce /\ NothingFromTheFuture /\ JobsCountUp
      /\ NoLoss /\ KeptAhead /\ NoSendOnClosed
    BY DEF EngineInv
<1>2. TypeOK'
    BY <1>1, TypeStep
<1>3. SettledOnce' /\ NothingFromTheFuture'
    BY <1>1, SettledStep
<1>4. JobsCountUp' /\ NoSendOnClosed'
    BY <1>1, JobsStep, SendStep
<1>5. Keeps
    BY <1>1, StepKeeps
<1>6. KeptAhead'
    BY <1>1, <1>2, <1>5, KeepsKept
<1>7. NoLoss'
    BY <1>1, <1>2, <1>5, NoLossStep
<1> QED
    BY <1>2, <1>3, <1>4, <1>6, <1>7 DEF EngineInv

\* EngineInv is an invariant of the engine, for every set of messages, copies
\* and workers, every prefetch, retry policy and number of faults.
THEOREM ConsumerEngine == Spec => []EngineInv
<1>1. EngineInv /\ [Next]_vars => EngineInv'
    BY EngineStep
<1> QED
    BY <1>1, EngineInit, PTL DEF Spec

\* The engine's state keeps its types (the variables of Consumer and what the
\* broker holds for it).
THEOREM ConsumerTypeOK == Spec => []TypeOK
<1>1. EngineInv => TypeOK
    BY DEF EngineInv
<1> QED
    BY <1>1, ConsumerEngine, PTL

\* At least once: a published message no handler accepted is still on the
\* broker, because retryInBroker, putBack and setAside republish before they
\* acknowledge and every path they cannot finish puts the delivery back.
THEOREM ConsumerNoLoss == Spec => []NoLoss
<1>1. EngineInv => NoLoss
    BY DEF EngineInv
<1> QED
    BY <1>1, ConsumerEngine, PTL

\* No delivery is settled twice on its channel: the callback, the workers, the
\* settlements and setAside's timer each pass it on or settle it, never both.
THEOREM ConsumerSettledOnce == Spec => []SettledOnce
<1>1. EngineInv => SettledOnce
    BY DEF EngineInv
<1> QED
    BY <1>1, ConsumerEngine, PTL

\* Close closes the work channel when nothing is left to be sent on it.
THEOREM ConsumerNoSendOnClosed == Spec => []NoSendOnClosed
<1>1. EngineInv => NoSendOnClosed
    BY DEF EngineInv
<1> QED
    BY <1>1, ConsumerEngine, PTL

\* The attempts spent on a message are never forgotten: putBack republishes with
\* the count and requeues, which would lose it, only when that failed.
THEOREM ConsumerAttemptNeverForgotten == Spec => AttemptNeverForgotten
<1> DEFINE Remembered ==
        \A m \in published \ done' : \A c \in CopiesOf(m) :
            \E k \in CopiesOf(m)' : copy'[k].attempt >= copy[c].attempt
<1>1. ASSUME EngineInv, [Next]_vars PROVE Remembered
    <2>1. TypeOK /\ SettledOnce /\ NothingFromTheFuture /\ JobsCountUp /\ KeptAhead
        BY <1>1 DEF EngineInv
    <2>2. Keeps
        BY <1>1, <2>1, StepKeeps
    <2> SUFFICES ASSUME NEW m \in published \ done', NEW c \in CopiesOf(m)
                 PROVE  \E k \in CopiesOf(m)' : copy'[k].attempt >= copy[c].attempt
        OBVIOUS
    <2>3. m \in Msg \ done
        BY <2>1, <2>2 DEF Keeps, TypeOK
    <2>4. PICK k \in Copies : /\ Exists(k) /\ copy[k].msg = m /\ ~Leaving(k)
                              /\ copy[k].attempt >= copy[c].attempt
        BY <2>1, <2>3 DEF KeptAhead, CopiesOf
    <2>5. Survives(k)
        BY <2>2, <2>4 DEF Keeps
    <2>6. k \in CopiesOf(m)' /\ copy'[k].attempt >= copy[c].attempt
        BY <2>4, <2>5 DEF Survives, CopiesOf, Exists
    <2> QED
        BY <2>6
<1>2. EngineInv /\ [Next]_vars => [Remembered]_vars
    BY <1>1
<1> QED
    BY <1>2, ConsumerEngine, PTL DEF Spec, AttemptNeverForgotten

-----------------------------------------------------------------------------
(* Exactly once where nothing fails *)

\* Copy c is at the broker and no acknowledgement of it is on its way.
Stays(c) == Exists(c) /\ ~Leaving(c)

\* While nothing has failed, everything there is of a message comes from its
\* publication.
FromPublish ==
    clean => /\ done \subseteq published
             /\ \A c \in Copies : Exists(c) => copy[c].msg \in published

\* While nothing has failed there has been one channel, it is open until Close
\* releases it, and Close does not get there before the handlers are done.
OneChannel ==
    clean => /\ gen = 0 /\ phase # "grace"
             /\ phase # "closed" => chan = "open"
             /\ phase \in {"drained", "closed"} => work = {} /\ Busy = {}

\* While nothing has failed no message has two copies that stay, and an accepted
\* one has none.
OneStays ==
    clean => /\ \A c \in Copies : Stays(c) => copy[c].msg \notin done
             /\ \A c, k \in Copies : Stays(c) /\ Stays(k) /\ copy[c].msg = copy[k].msg => c = k

\* The inductive invariant behind ExactlyOnceIfClean.
OnceInv == EngineInv /\ FromPublish /\ OneChannel /\ OneStays

\* While nothing has failed a worker can settle what it holds, and what it holds
\* is at the broker.
LEMMA WorkerReaches ==
    ASSUME TypeOK, SettledOnce, NothingFromTheFuture, OneChannel, clean,
           NEW w \in Workers, pc[w] # "idle"
    PROVE  /\ Reaches(held[w]) /\ held[w].copy \in Copies
           /\ Exists(held[w].copy) /\ copy[held[w].copy].msg = held[w].msg
<1>1. w \in Places /\ held[w] \in HeldAt(w)
    BY HeldAtIs DEF Places
<1>2. held[w] \in Delivery /\ held[w].gen <= gen
    BY <1>1, HeldAtType DEF NothingFromTheFuture
<1>3. held[w].gen \in Nat /\ held[w].copy \in Copies
    BY <1>2 DEF Delivery
<1>4. Busy # {}
    BY DEF Busy
<1>5. chan = "open" /\ gen = 0
    BY <1>4 DEF OneChannel
<1>6. held[w].gen = gen
    BY ONLY <1>2, <1>3, <1>5, SMT
<1>7. Reaches(held[w])
    BY <1>5, <1>6 DEF Reaches
<1> QED
    BY <1>3, <1>7, LeavingHeld

\* Two workers hold different copies.
LEMMA WorkersApart ==
    ASSUME TypeOK, SettledOnce, NEW v \in Workers, NEW w \in Workers,
           pc[v] # "idle", pc[w] # "idle", Reaches(held[v]), Reaches(held[w]),
           held[v].copy = held[w].copy
    PROVE  v = w
<1>1. v \in Places /\ w \in Places /\ held[v] \in HeldAt(v) /\ held[w] \in HeldAt(w)
    BY HeldAtIs DEF Places
<1> QED
    BY <1>1 DEF SettledOnce

\* A step that adds nothing: no copy, and none that stays where it did not.
Quiet ==
    /\ done' = done /\ published' = published
    /\ \A c \in Copies : copy'[c] # None => Exists(c) /\ copy'[c].msg = copy[c].msg
    /\ \A c \in Copies : copy'[c] # None /\ ~Leaving(c)' => ~Leaving(c)

\* No worker stops acknowledging, on a channel that stays as it is.
LEMMA LeavingStill ==
    ASSUME chan' = chan, gen' = gen,
           \A w \in Workers : pc[w] = "acking" => pc'[w] = "acking" /\ held'[w] = held[w]
    PROVE  \A c \in Copies : Leaving(c) => Leaving(c)'
BY DEF Leaving, Reaches

\* A step that leaves the copies and the acknowledgements alone is quiet.
LEMMA SameQuiet ==
    ASSUME SameCopies, done' = done, published' = published,
           \A c \in Copies : Leaving(c) => Leaving(c)'
    PROVE  Quiet
BY DEF Quiet, SameCopies, Survives

\* A quiet step keeps both.
LEMMA QuietOnce ==
    ASSUME FromPublish, OneStays, clean, Quiet
    PROVE  FromPublish' /\ OneStays'
<1>1. FromPublish'
    BY DEF FromPublish, Quiet, Exists
<1>2. \A c \in Copies : Stays(c)' => Stays(c) /\ copy'[c].msg = copy[c].msg
    BY DEF Quiet, Stays, Exists
<1>3. done' = done
    BY DEF Quiet
<1>4. /\ \A c \in Copies : Stays(c) => copy[c].msg \notin done
      /\ \A c, k \in Copies : Stays(c) /\ Stays(k) /\ copy[c].msg = copy[k].msg => c = k
    BY DEF OneStays
<1>5. /\ \A c \in Copies : Stays(c)' => copy'[c].msg \notin done'
      /\ \A c, k \in Copies : Stays(c)' /\ Stays(k)' /\ copy'[c].msg = copy'[k].msg => c = k
    BY ONLY <1>2, <1>3, <1>4, Zenon
<1>6. OneStays'
    BY <1>5 DEF OneStays
<1> QED
    BY <1>1, <1>6

\* A publish adds the one copy of its message.
LEMMA PublishOnce ==
    ASSUME TypeOK, SettledOnce, FromPublish, OneStays, clean, NEW m \in Msg, Publish(m)
    PROVE  FromPublish' /\ OneStays'
<1> USE DEF workerVars, chanVars
<1>1. PICK c \in Copies :
        ~Exists(c) /\ copy' = [copy EXCEPT ![c] = [at |-> "ready", msg |-> m, attempt |-> 1]]
    BY DEF Publish
<1>2. /\ copy'[c].msg = m
      /\ \A k \in Copies : k # c => copy'[k] = copy[k]
    BY <1>1 DEF TypeOK
<1>3. done' = done /\ published' = published \cup {m} /\ m \notin published
    BY DEF Publish
<1>4. FromPublish'
    BY <1>2, <1>3 DEF FromPublish, Exists
<1>5. \A k \in Copies : Leaving(k) => Leaving(k)'
    BY LeavingStill DEF Publish
<1>6. \A k \in Copies : Stays(k)' => k = c \/ (Stays(k) /\ copy'[k] = copy[k])
    BY <1>2, <1>5 DEF Stays, Exists
<1>7. \A k \in Copies : Stays(k) => copy[k].msg \in published
    BY DEF Stays, FromPublish
<1>8. m \notin done
    BY <1>3 DEF FromPublish
<1>9. /\ \A k \in Copies : Stays(k) => copy[k].msg \notin done
      /\ \A j, k \in Copies : Stays(j) /\ Stays(k) /\ copy[j].msg = copy[k].msg => j = k
    BY DEF OneStays
<1>10. /\ \A k \in Copies : Stays(k)' => copy'[k].msg \notin done'
       /\ \A j, k \in Copies : Stays(j)' /\ Stays(k)' /\ copy'[j].msg = copy'[k].msg => j = k
    BY ONLY <1>2, <1>3, <1>6, <1>7, <1>8, <1>9
<1> QED
    BY <1>4, <1>10 DEF OneStays

\* What a handler accepts was the one copy that stayed, and starts to leave.
LEMMA AcceptOnce ==
    ASSUME TypeOK, SettledOnce, NothingFromTheFuture, FromPublish, OneChannel, OneStays,
           clean, NEW w \in Workers, Accept(w)
    PROVE  FromPublish' /\ OneStays'
<1> USE DEF chanVars
<1>1. /\ UNCHANGED <<copy, published, chan, gen, held>>
      /\ pc' = [pc EXCEPT ![w] = "acking"] /\ pc[w] = "handling"
      /\ done' = done \cup {held[w].msg}
    BY DEF Accept, Goto
<1>2. /\ Reaches(held[w]) /\ held[w].copy \in Copies
      /\ Exists(held[w].copy) /\ copy[held[w].copy].msg = held[w].msg
    BY <1>1, WorkerReaches
<1>3. FromPublish'
    BY <1>1, <1>2 DEF FromPublish, Exists
<1>4. Stays(held[w].copy)
    BY <1>1, <1>2, WorkersApart DEF Stays, Leaving
<1>5. Leaving(held[w].copy)'
    BY <1>1, <1>2 DEF Leaving, Reaches, TypeOK
<1>6. \A c \in Copies : Leaving(c) => Leaving(c)'
    BY <1>1, LeavingStill DEF TypeOK
<1>7. \A c \in Copies : Stays(c)' => Stays(c) /\ c # held[w].copy
    BY <1>1, <1>5, <1>6 DEF Stays, Exists
<1>8. /\ \A c \in Copies : Stays(c) => copy[c].msg \notin done
      /\ \A c, k \in Copies : Stays(c) /\ Stays(k) /\ copy[c].msg = copy[k].msg => c = k
    BY DEF OneStays
<1>9. \A c \in Copies : Stays(c)' => copy[c].msg # held[w].msg
    BY <1>2, <1>4, <1>7, <1>8
<1>10. /\ \A c \in Copies : Stays(c)' => copy'[c].msg \notin done'
       /\ \A c, k \in Copies : Stays(c)' /\ Stays(k)' /\ copy'[c].msg = copy'[k].msg => c = k
    BY ONLY <1>1, <1>7, <1>8, <1>9
<1> QED
    BY <1>3, <1>10 DEF OneStays

\* A republish that is confirmed: the copy it left stays in place of the one
\* that starts to leave.
LEMMA StoredOnce ==
    ASSUME TypeOK, SettledOnce, NothingFromTheFuture, FromPublish, OneChannel, OneStays,
           clean, NEW w \in Workers, NEW c \in Copies, Stored(w, c),
           pc[w] \in {"rung", "hop", "aside"}, pc' = [pc EXCEPT ![w] = "acking"],
           UNCHANGED <<done, published, chan, gen, held>>
    PROVE  FromPublish' /\ OneStays'
<1> DEFINE d == held[w].copy
<1>1. /\ Reaches(held[w]) /\ d \in Copies
      /\ Exists(d) /\ copy[d].msg = held[w].msg
    BY WorkerReaches
<1>2. /\ ~Exists(c) /\ copy'[c].msg = copy[d].msg
      /\ \A k \in Copies : k # c => copy'[k] = copy[k]
    BY <1>1 DEF Stored, TypeOK
<1>3. FromPublish'
    BY <1>1, <1>2 DEF FromPublish, Exists
<1>4. Stays(d)
    BY <1>1, WorkersApart DEF Stays, Leaving
<1>5. Leaving(d)'
    BY <1>1 DEF Leaving, Reaches, TypeOK
<1>6. \A k \in Copies : Leaving(k) => Leaving(k)'
    BY LeavingStill DEF TypeOK
<1>7. \A k \in Copies : Stays(k)' => k = c \/ (Stays(k) /\ copy'[k] = copy[k] /\ k # d)
    BY <1>2, <1>5, <1>6 DEF Stays, Exists
<1>8. /\ \A k \in Copies : Stays(k) => copy[k].msg \notin done
      /\ \A j, k \in Copies : Stays(j) /\ Stays(k) /\ copy[j].msg = copy[k].msg => j = k
    BY DEF OneStays
<1>9. /\ \A k \in Copies : Stays(k)' => copy'[k].msg \notin done'
      /\ \A j, k \in Copies : Stays(j)' /\ Stays(k)' /\ copy'[j].msg = copy'[k].msg => j = k
    <2> HIDE DEF d
    <2>1. done' = done
        OBVIOUS
    <2>2. \A k \in Copies : Stays(k) /\ k # d => copy[k].msg # copy'[c].msg
        BY <1>1, <1>2, <1>4, <1>8
    <2> QED
        BY ONLY <1>1, <1>2, <1>4, <1>7, <1>8, <2>1, <2>2
<1> QED
    BY <1>3, <1>9 DEF OneStays

\* Every step that fails nothing keeps both.
LEMMA OnceStep ==
    ASSUME TypeOK, SettledOnce, NothingFromTheFuture, FromPublish, OneChannel, OneStays,
           clean, clean', [Next]_vars
    PROVE  FromPublish' /\ OneStays'
<1> USE DEF workerVars, chanVars, brokerVars, faultVars
<1>1. CASE Broker
    <2>1. ASSUME NEW c \in Copies, RungExpires(c) \/ Deliver(c) PROVE Quiet
        <3>1. SameCopies
            BY <2>1, SameAt DEF RungExpires, Deliver
        <3>2. \A k \in Copies : Leaving(k) => Leaving(k)'
            BY <2>1, LeavingStill DEF RungExpires, Deliver
        <3> QED
            BY <2>1, <3>1, <3>2, SameQuiet DEF RungExpires, Deliver
    <2>2. CASE Reattach
        <3>1. copy' = copy /\ UNCHANGED <<done, published, pc>> /\ phase \in {"open", "stopping"}
            BY <2>2 DEF Reattach
        <3> QED
            BY <2>2, <3>1 DEF Reattach, OneChannel
    <2>3. ~ChannelLost /\ ~Restart
        BY DEF ChannelLost, Restart
    <2> QED
        BY <1>1, <2>1, <2>2, <2>3, QuietOnce, PublishOnce DEF Broker
<1>2. CASE Callback
    <2>1. \A k \in Copies : Leaving(k) => Leaving(k)'
        BY <1>2, LeavingStill DEF Callback, Receive, Enqueue, OfferRefused
    <2>2. SameCopies
        <3>1. /\ "inbox" \in Places /\ "offer" \in Places
              /\ HeldAt("inbox") = inbox /\ HeldAt("offer") = offer
            BY HeldAtIs DEF Places, Stations
        <3>2. copy' = copy \/ \E p \in Places : \E d \in HeldAt(p) : copy' = NackOf(d)
            BY <1>2, <3>1 DEF Callback, Receive, Enqueue, OfferRefused
        <3>3. copy' = copy => SameCopies
            BY DEF SameCopies, Survives, Exists
        <3> QED
            BY <3>2, <3>3, SameNack
    <2>3. done' = done /\ published' = published
        BY <1>2 DEF Callback, Receive, Enqueue, OfferRefused
    <2> QED
        BY <2>1, <2>2, <2>3, SameQuiet, QuietOnce
<1>3. ASSUME NEW w \in Workers, NEW d \in work, Take(w, d) PROVE Quiet
    <2>1. \A k \in Copies : Leaving(k) => Leaving(k)'
        BY <1>3, LeavingStill DEF Take, TypeOK
    <2>2. "work" \in Places /\ d \in HeldAt("work")
        BY HeldAtIs DEF Places, Stations
    <2>3. copy' = copy \/ copy' = NackOf(d)
        BY <1>3 DEF Take
    <2>4. copy' = copy => SameCopies
        BY DEF SameCopies, Survives, Exists
    <2>5. SameCopies
        BY <2>2, <2>3, <2>4, SameNack
    <2> QED
        BY <1>3, <2>1, <2>5, SameQuiet DEF Take
<1>4. ASSUME NEW w \in Workers, HandlerReturns(w), ~Accept(w) PROVE Quiet
    <2>1. /\ UNCHANGED <<copy, done, published, chan, gen, held>> /\ pc[w] = "handling"
          /\ \E step \in {"rung", "hop", "aside"} : pc' = [pc EXCEPT ![w] = step]
        BY <1>4 DEF HandlerReturns, GiveUp, RetryAgain, InProgress, Decide
    <2>2. \A k \in Copies : Leaving(k) => Leaving(k)'
        BY <2>1, LeavingStill DEF TypeOK
    <2>3. SameCopies
        BY <2>1 DEF SameCopies, Survives, Exists
    <2> QED
        BY <2>1, <2>2, <2>3, SameQuiet
<1>5. ASSUME NEW w \in Workers, RetryInBroker(w) \/ PutBack(w) \/ SetAside(w)
      PROVE  FromPublish' /\ OneStays'
    <2>1. /\ UNCHANGED <<done, published, chan, gen>>
          /\ pc[w] \in {"rung", "hop", "aside"}
        BY <1>5 DEF RetryInBroker, PutBack, SetAside
    <2>2. \/ (\E c \in Copies : Stored(w, c)) /\ Goto(w, "acking")
          \/ copy' = copy
        BY <1>5 DEF RetryInBroker, PutBack, SetAside, RepublishOK, RepublishFails,
                    RepublishUnrouted
    <2>3. ASSUME NEW c \in Copies, Stored(w, c), Goto(w, "acking")
          PROVE  FromPublish' /\ OneStays'
        BY <2>1, <2>3, StoredOnce DEF Goto
    <2>4. ASSUME copy' = copy PROVE Quiet
        <3>1. \/ \E step \in {"acking", "nacking"} : Goto(w, step)
              \/ Decide(w, "hop", "ready", job[w].attempt)
              \/ Idle(w)
            BY <1>5 DEF RetryInBroker, PutBack, SetAside
        <3>2. \A v \in Workers \ {w} : pc'[v] = pc[v] /\ held'[v] = held[v]
            BY <3>1 DEF Goto, Decide, Idle, TypeOK
        <3>3. \A k \in Copies : Leaving(k) => Leaving(k)'
            BY <2>1, <3>2, LeavingStill
        <3>4. SameCopies
            BY <2>4 DEF SameCopies, Survives, Exists
        <3> QED
            BY <2>1, <3>3, <3>4, SameQuiet
    <2> QED
        BY <2>2, <2>3, <2>4, QuietOnce
<1>6. ASSUME NEW w \in Workers, FinishNack(w) PROVE Quiet
    <2>1. w \in Places /\ held[w] \in HeldAt(w)
        BY <1>6, HeldAtIs DEF Places, FinishNack
    <2>2. SameCopies
        BY <1>6, <2>1, SameNack DEF FinishNack
    <2>3. \A k \in Copies : Leaving(k) => Leaving(k)'
        BY <1>6, LeavingStill DEF FinishNack, Idle, TypeOK
    <2> QED
        BY <1>6, <2>2, <2>3, SameQuiet DEF FinishNack
<1>7. ASSUME NEW w \in Workers, FinishAck(w) PROVE Quiet
    <2>1. /\ UNCHANGED <<done, published, chan, gen>> /\ pc[w] = "acking" /\ copy' = AckOf(held[w])
          /\ \A v \in Workers \ {w} : pc'[v] = pc[v] /\ held'[v] = held[v]
        BY <1>7 DEF FinishAck, Idle, TypeOK
    <2>2. Reaches(held[w]) /\ held[w].copy \in Copies
        BY <2>1, WorkerReaches
    <2>3. /\ copy'[held[w].copy] = None
          /\ \A k \in Copies : k # held[w].copy => copy'[k] = copy[k]
        BY <2>1, <2>2 DEF AckOf, TypeOK
    <2>4. \A k \in Copies : k # held[w].copy /\ Leaving(k) => Leaving(k)'
        BY <2>1 DEF Leaving, Reaches
    <2> QED
        BY <2>1, <2>3, <2>4 DEF Quiet, Exists
<1>8. ASSUME NEW d \in timers, TimerFires(d) PROVE Quiet
    <2>1. "timers" \in Places /\ d \in HeldAt("timers")
        BY HeldAtIs DEF Places, Stations
    <2>2. SameCopies
        BY <1>8, <2>1, SameNack DEF TimerFires
    <2>3. \A k \in Copies : Leaving(k) => Leaving(k)'
        BY <1>8, LeavingStill DEF TimerFires
    <2> QED
        BY <1>8, <2>2, <2>3, SameQuiet DEF TimerFires
<1>9. ASSUME CloseChannel PROVE Quiet
    <2>1. SameCopies
        <3>1. copy' = copy => SameCopies
            BY DEF SameCopies, Survives, Exists
        <3> QED
            BY <1>9, <3>1, SameReturned DEF CloseChannel
    <2>2. \A k \in Copies : ~Leaving(k)
        BY <1>9 DEF CloseChannel, OneChannel, Busy, Leaving
    <2> QED
        BY <1>9, <2>1, <2>2, SameQuiet DEF CloseChannel
<1>10. ASSUME Bookkeeping PROVE Quiet
    <2>1. UNCHANGED <<copy, done, published, chan, gen, pc, held>>
        BY <1>10, BookkeepingChanges
    <2>2. SameCopies
        BY <2>1 DEF SameCopies, Survives, Exists
    <2>3. \A k \in Copies : Leaving(k) => Leaving(k)'
        BY <2>1, LeavingStill
    <2> QED
        BY <2>1, <2>2, <2>3, SameQuiet
<1>11. ASSUME NEW w \in Workers, Settles(w) PROVE FromPublish' /\ OneStays'
    BY <1>5, <1>6, <1>7, <1>11, QuietOnce DEF Settles
<1>12. ASSUME NEW w \in Workers, (\E d \in work : Take(w, d)) \/ HandlerReturns(w)
       PROVE  FromPublish' /\ OneStays'
    BY <1>3, <1>4, <1>12, QuietOnce, AcceptOnce
<1> QED
    BY <1>1, <1>2, <1>8, <1>9, <1>10, <1>11, <1>12, NextIs, QuietOnce

\* A failure is not forgotten, and every step that is none keeps the one
\* channel: Close comes to it when the workers have ended.
LEMMA ChannelStep ==
    ASSUME TypeOK, NoSendOnClosed, OneChannel, clean', [Next]_vars
    PROVE  clean /\ OneChannel'
<1> USE DEF workerVars, chanVars, faultVars, feedVars, closeVars
<1> DEFINE Steady == UNCHANGED <<clean, gen, chan, phase>>
<1>1. CASE Broker
    <2>1. clean
        BY <1>1 DEF Broker, Publish, Deliver, RungExpires, ChannelLost, Reattach, Restart
    <2>2. UNCHANGED <<clean, gen, chan, phase, work, pc>>
        BY <1>1, <2>1 DEF Broker, Publish, Deliver, RungExpires, ChannelLost, Reattach, Restart,
                          OneChannel
    <2> QED
        BY <2>1, <2>2 DEF OneChannel, Busy
<1>2. CASE Callback
    <2>1. Steady /\ pc' = pc
        BY <1>2 DEF Callback, Receive, Enqueue, OfferRefused
    <2>2. phase \in {"drained", "closed"} => work' = work
        BY <1>2 DEF Callback, Receive, Enqueue, OfferRefused, NoSendOnClosed, workClosed
    <2> QED
        BY <2>1, <2>2 DEF OneChannel, Busy
<1>3. ASSUME NEW w \in Workers, NEW d \in work, Take(w, d) PROVE clean /\ OneChannel'
    BY <1>3 DEF Take, OneChannel
<1>4. ASSUME NEW w \in Workers, HandlerReturns(w) PROVE clean /\ OneChannel'
    <2>1. Steady /\ pc[w] = "handling"
        BY <1>4 DEF HandlerReturns, Accept, GiveUp, RetryAgain, InProgress
    <2>2. w \in Busy
        BY <2>1 DEF Busy
    <2> QED
        BY <2>1, <2>2 DEF OneChannel
<1>5. ASSUME NEW w \in Workers, Settles(w) PROVE clean /\ OneChannel'
    <2>1. pc[w] # "idle"
        BY <1>5 DEF Settles, RetryInBroker, PutBack, SetAside, FinishAck, FinishNack
    <2>2. w \in Busy
        BY <2>1 DEF Busy
    <2>3. UNCHANGED <<gen, chan, phase>>
        BY <1>5 DEF Settles, RetryInBroker, PutBack, SetAside, FinishAck, FinishNack
    <2>4. clean' = clean
        BY <1>5 DEF Settles, RetryInBroker, PutBack, SetAside, FinishAck, FinishNack,
                    RepublishOK, RepublishFails, RepublishUnrouted
    <2> QED
        BY <2>2, <2>3, <2>4 DEF OneChannel
<1>6. ASSUME NEW d \in timers, TimerFires(d) PROVE clean /\ OneChannel'
    BY <1>6 DEF TimerFires, OneChannel, Busy
<1>7. CASE CloseChannel
    BY <1>7 DEF CloseChannel, OneChannel, Busy
<1>8. CASE Bookkeeping
    <2>1. UNCHANGED <<chan, gen, work, pc>>
        BY <1>8, BookkeepingChanges
    <2>2. clean
        BY <1>8 DEF Bookkeeping, CloseBegin, StopCancel, StopReturns, HandlersDone, DrainExpires,
                    GraceExpires, CancelContext, vars
    <2>3. \/ phase' = phase
          \/ phase' \in {"stopping", "cancelled", "draining"} /\ phase # "closed"
          \/ phase' = "drained" /\ phase # "closed" /\ work = {} /\ Busy = {}
        BY <1>8, <2>2 DEF Bookkeeping, CloseBegin, StopCancel, StopReturns, HandlersDone,
                          DrainExpires, GraceExpires, CancelContext, vars, AllExited, OneChannel
    <2> QED
        BY <2>1, <2>2, <2>3 DEF OneChannel, Busy
<1> QED
    BY <1>1, <1>2, <1>3, <1>4, <1>5, <1>6, <1>7, <1>8, NextIs

\* OnceInv holds initially.
LEMMA OnceInit == Init => OnceInv
<1> SUFFICES ASSUME Init PROVE OnceInv
    OBVIOUS
<1>1. EngineInv
    BY EngineInit
<1>2. FromPublish /\ OneStays
    BY DEF Init, FromPublish, OneStays, Stays, Exists
<1>3. OneChannel
    BY DEF Init, OneChannel, Busy
<1> QED
    BY <1>1, <1>2, <1>3 DEF OnceInv

\* Every step keeps OnceInv.
LEMMA OnceInvStep ==
    ASSUME OnceInv, [Next]_vars
    PROVE  OnceInv'
<1>1. /\ EngineInv /\ TypeOK /\ SettledOnce /\ NothingFromTheFuture /\ NoSendOnClosed
      /\ FromPublish /\ OneChannel /\ OneStays
    BY DEF OnceInv, EngineInv
<1>2. EngineInv'
    BY <1>1, EngineStep
<1>3. CASE clean'
    <2>1. clean /\ OneChannel'
        BY <1>1, <1>3, ChannelStep
    <2>2. FromPublish' /\ OneStays'
        BY <1>1, <1>3, <2>1, OnceStep
    <2> QED
        BY <1>2, <2>1, <2>2 DEF OnceInv
<1>4. CASE ~clean'
    BY <1>2, <1>4 DEF OnceInv, FromPublish, OneChannel, OneStays
<1> QED
    BY <1>3, <1>4

\* Where nothing fails a message is accepted or has exactly one copy that stays:
\* a republish is followed by the acknowledgement of the original, no other step
\* adds a copy, and Close releases the channel when the handlers are done.
THEOREM ConsumerExactlyOnce == Spec => []ExactlyOnceIfClean
<1>1. ASSUME OnceInv PROVE ExactlyOnceIfClean
    <2> SUFFICES ASSUME clean, NEW m \in published
                 PROVE  Cardinality({c \in CopiesOf(m) : ~Leaving(c)})
                            = IF m \in done THEN 0 ELSE 1
        BY DEF ExactlyOnceIfClean
    <2> DEFINE S == {c \in CopiesOf(m) : ~Leaving(c)}
    <2>1. S = {c \in Copies : Stays(c) /\ copy[c].msg = m}
        BY DEF CopiesOf, Stays
    <2>2. /\ \A c \in Copies : Stays(c) => copy[c].msg \notin done
          /\ \A c, k \in Copies : Stays(c) /\ Stays(k) /\ copy[c].msg = copy[k].msg => c = k
        BY <1>1 DEF OnceInv, OneStays
    <2>3. CASE m \in done
        <3>1. S = {}
            BY <2>1, <2>2, <2>3
        <3> QED
            BY <2>3, <3>1, FS_EmptySet
    <2>4. CASE m \notin done
        <3>1. m \in Msg /\ CopiesOf(m) # {}
            BY <1>1, <2>4 DEF OnceInv, EngineInv, NoLoss, TypeOK
        <3>2. PICK k \in CopiesOf(m) : ~Leaving(k)
            BY <1>1, <2>4, <3>1 DEF OnceInv, EngineInv, KeptAhead
        <3>3. k \in S
            BY <3>2
        <3>4. S = {k}
            BY <2>1, <2>2, <3>3
        <3> QED
            BY <2>4, <3>4, FS_Singleton
    <2> QED
        BY <2>3, <2>4
<1>2. OnceInv /\ [Next]_vars => OnceInv'
    BY OnceInvStep
<1> QED
    BY <1>1, <1>2, OnceInit, PTL DEF Spec

=============================================================================
