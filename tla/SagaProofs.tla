----------------------------- MODULE SagaProofs -----------------------------
(***************************************************************************)
(* Proofs about requests, replies and a saga of them over the broker in     *)
(* memory, for any number of steps, queues, subscriptions, attempts and     *)
(* failures: what a call returns is true of that call and counted, and what *)
(* the saga reports of its steps is what became of them.  The argument      *)
(* follows the messages: whatever a queue carries, waiting or being         *)
(* delivered, is a request of a call that was made, or a reply that is true *)
(* of its call, and every step but a publish can only carry less.  A call   *)
(* has one request at a time, on the queue or with the handler, and none    *)
(* once its answer is out, unless the publish of that answer was reported   *)
(* as failed: so a step is not done again after its Undo.                   *)
(***************************************************************************)
EXTENDS Saga, Integers, FiniteSetTheorems, SequenceTheorems, TLAPS

\* Most leaves are matters of logic and sets: Zenon is tried first, then SMT.
USE ZenonT(10), SMTT(20)

-----------------------------------------------------------------------------
(* The broker in memory: what a queue carries *)

RequestMsg == [call : Call, attempt : Nat]
ReplyMsg == [call : Call, how : {"answered", "failed"}]
Msg == RequestMsg \cup ReplyMsg

MemTypes ==
    /\ queues \subseteq QueueName /\ unconfirmed \in BOOLEAN
    /\ pending \in [QueueName -> Seq(Msg)] /\ delivery \in [Sub -> Seq(Msg)]
    /\ sub \in [Sub -> {"off", "ready", "waiting", "busy", "ended"}]
    /\ \A s \in Sub : sub[s] = "busy" => delivery[s] # <<>>

\* What waits on a queue or is being delivered from it.
Elements(s) == {s[i] : i \in DOMAIN s}
Carried(q) ==
    Elements(pending[q]) \cup {m \in Msg : \E s \in Sub : QueueOf[s] = q /\ m \in Elements(delivery[s])}

-----------------------------------------------------------------------------
(* Requests and replies *)

\* A request is of a call that was made; a reply is true of its call.
Sent == {c \in Call : call[c] \notin {"new", "registered"}}
Made == {m \in RequestMsg : m.call \in Sent}
TrueOf(c, how) ==
    /\ how = "answered" => c \in Worked
    /\ how = "failed" => c \in errored
TrueReplies == {m \in ReplyMsg : TrueOf(m.call, m.how)}

CallTypes ==
    /\ call \in [Call -> {"new", "registered", "waiting", "leaving", "done"}]
    /\ result \in [Call -> {"none", "answered", "failed", "unreadable", "timed out", "cancelled", "refused"}]
    /\ waiters \subseteq Call /\ box \in [Call -> Seq({"answered", "failed"})]
    /\ server \in {"idle", "handle", "count", "reply", "replyerror", "settle"}
    /\ verdict \in {"none", "accept", "retry", "reject"}
    /\ performed \in Seq(Call) /\ errored \subseteq Call
    /\ answered \in Int /\ takenBack \subseteq Call

\* The handler has a request that was made, and replies what it did.
Serves ==
    /\ server # "idle" => serving[1] \in Made
    /\ server \in {"count", "reply"} => serving[1].call \in Worked
    /\ server = "replyerror" => serving[1].call \in errored

\* Who has its answer, or will be handed it.
AnswerTo(c) == [call |-> c, how |-> "answered"]
Told ==
    {c \in Call : \/ result[c] = "answered"
                  \/ box[c] # <<>> /\ Head(box[c]) = "answered"
                  \/ AnswerTo(c) \in Carried(Replies)}
Owed == Told \ takenBack
Counted == IF server = "reply" THEN answered - 1 ELSE answered

TrueQueues == Carried(Requests) \subseteq Made /\ Carried(Replies) \subseteq TrueReplies
TrueBoxes ==
    \A c \in Call : TrueOf(c, result[c]) /\ (box[c] # <<>> => TrueOf(c, Head(box[c])))
OpenWaiters == \A c \in Call : c \in waiters => call[c] \in {"registered", "waiting", "leaving"}
MadeCalls == Worked \cup errored \subseteq Sent
AllCounted == Cardinality(Owed) <= Counted

RequestInv ==
    /\ MemTypes /\ CallTypes /\ Serves /\ TrueQueues /\ TrueBoxes
    /\ OpenWaiters /\ MadeCalls /\ AllCounted

-----------------------------------------------------------------------------
(* Where the request of a call is *)

CallsIn(s) == {s[k].call : k \in DOMAIN s}
Distinct(s) == \A j, k \in DOMAIN s : s[j].call = s[k].call => j = k

Servers == {s \in Sub : QueueOf[s] = Requests}
Waiting == CallsIn(pending[Requests])
Handed(s) == CallsIn(delivery[s])
Working ==
    IF server = "idle" \/ (server = "settle" /\ verdict = "accept") THEN {} ELSE {serving[1].call}

\* A call has one request, on its queue, in delivery or with the handler...
OneRequest ==
    /\ Distinct(pending[Requests]) /\ Waiting \cap Working = {}
    /\ \A s \in Servers : /\ Distinct(delivery[s])
                          /\ Handed(s) \cap Waiting = {} /\ Handed(s) \cap Working = {}
    /\ \A s, t \in Servers : s = t \/ Handed(s) \cap Handed(t) = {}

\* ... and none once its answer is out.
NoneOnceOut ==
    /\ Owed \cap Waiting = {} /\ Owed \cap Working = {}
    /\ \A s \in Servers : Owed \cap Handed(s) = {}

FlightInv == OneRequest /\ NoneOnceOut

-----------------------------------------------------------------------------
(* The saga *)

Do(i) == <<i, "do">>
Undo(i) == <<i, "undo">>
Listed(i) == \E j \in DOMAIN unresolved : unresolved[j] = i

SagaInv ==
    /\ mode \in {"run", "undo", "complete", "compensated"}
    /\ completed \in Seq(1..Steps) /\ unresolved \in Seq(1..Steps)
    /\ \A j \in DOMAIN completed : completed[j] = j /\ call[Do(j)] = "done" /\ result[Do(j)] = "answered"
    /\ \A i \in 1..Steps :
        call[Undo(i)] # "new" => mode \in {"undo", "compensated"} /\ i \in DOMAIN completed
    /\ mode = "run" => at \in 1..Steps /\ Len(completed) = at - 1
    /\ mode = "run" => \A i \in 1..Steps : call[Do(i)] # "new" => i <= at
    /\ mode = "complete" => Len(completed) = Steps
    /\ mode \in {"undo", "compensated"} =>
        /\ failedAt \in 1..Steps /\ Len(completed) = failedAt - 1 /\ at \in 0..Len(completed)
        /\ \A i \in 1..Steps : call[Do(i)] # "new" => i <= failedAt
        /\ \A i \in at + 1..Len(completed) : i \in Undoable => Undo(i) \in Worked \/ Listed(i)
    /\ mode = "compensated" => at = 0

\* What a step did comes before what its Undo did.
DoneFirst ==
    \A i \in 1..Steps : Do(i) \in takenBack \/
        \A j, k \in DOMAIN performed : performed[j] = Undo(i) /\ performed[k] = Do(i) => k < j

IInv == RequestInv /\ FlightInv /\ SagaInv /\ DoneFirst

-----------------------------------------------------------------------------
(* What the broker does to what a queue carries *)

\* A sequence's elements when it grows at the end, or loses its head.
LEMMA ElementsAppended ==
    ASSUME NEW S, NEW s \in Seq(S), NEW m \in S
    PROVE  Append(s, m) \in Seq(S) /\ Elements(Append(s, m)) = Elements(s) \cup {m}
<1>1. /\ Append(s, m) \in Seq(S) /\ DOMAIN Append(s, m) = 1..Len(s) + 1 /\ Len(s) \in Nat
      /\ DOMAIN s = 1..Len(s)
      /\ \A i \in 1..Len(s) + 1 : Append(s, m)[i] = IF i <= Len(s) THEN s[i] ELSE m
  OBVIOUS
<1>2. \A x : (\E i \in 1..Len(s) + 1 : Append(s, m)[i] = x) <=> (\E i \in 1..Len(s) : s[i] = x) \/ x = m
  <2>1. Len(s) + 1 \in 1..Len(s) + 1 /\ ~(Len(s) + 1 <= Len(s))
    BY <1>1
  <2>. QED  BY <1>1, <2>1
<1>. QED  BY <1>1, <1>2 DEF Elements

\* Taking the head leaves elements that were there before.
LEMMA ElementsTaken ==
    ASSUME NEW S, NEW s \in Seq(S), s # <<>>
    PROVE  /\ Head(s) \in S /\ Head(s) \in Elements(s) /\ s[1] = Head(s)
           /\ Tail(s) \in Seq(S) /\ Elements(Tail(s)) \subseteq Elements(s)
<1>1. /\ Len(s) \in Nat \ {0} /\ DOMAIN s = 1..Len(s) /\ Head(s) = s[1] /\ s[1] \in S
      /\ Tail(s) \in Seq(S) /\ DOMAIN Tail(s) = 1..Len(s) - 1
      /\ \A i \in 1..Len(s) - 1 : Tail(s)[i] = s[i + 1]
  OBVIOUS
<1>. QED  BY <1>1, SMT DEF Elements

\* Joining two sequences adds no element to theirs.
LEMMA ElementsJoined ==
    ASSUME NEW S, NEW s \in Seq(S), NEW t \in Seq(S)
    PROVE  s \o t \in Seq(S) /\ Elements(s \o t) \subseteq Elements(s) \cup Elements(t)
<1>1. /\ s \o t \in Seq(S) /\ DOMAIN (s \o t) = 1..Len(s) + Len(t)
      /\ DOMAIN s = 1..Len(s) /\ DOMAIN t = 1..Len(t) /\ Len(s) \in Nat /\ Len(t) \in Nat
      /\ \A i \in 1..Len(s) + Len(t) : (s \o t)[i] = IF i <= Len(s) THEN s[i] ELSE t[i - Len(s)]
  OBVIOUS
<1>2. \A i \in 1..Len(s) + Len(t) : ~(i <= Len(s)) => i - Len(s) \in 1..Len(t)
  BY <1>1
<1>. QED  BY <1>1, <1>2, SMT DEF Elements

\* Elements are of the sequence's set, and one element's sequence has that.
LEMMA ElementsOf ==
    ASSUME NEW S
    PROVE  /\ \A s \in Seq(S) : Elements(s) \subseteq S
           /\ \A m \in S : <<m>> \in Seq(S) /\ <<m>> # <<>> /\ Elements(<<m>>) = {m}
           /\ Elements(<<>>) = {}
BY DEF Elements

\* No message comes or goes when nothing is queued or delivered.
LEMMA SameCarried ==
    ASSUME UNCHANGED <<pending, delivery>> PROVE \A q \in QueueName : Carried(q)' = Carried(q)
BY DEF Carried

\* A publish: the queue it reached, if it did, carries one message more.
LEMMA PublishCarries ==
    ASSUME MemTypes, NEW q \in QueueName, NEW m \in Msg, Publish(q, m),
           UNCHANGED <<unconfirmed, sub, delivery>>
    PROVE  MemTypes' /\ \A p \in QueueName : Carried(p)' \subseteq Carried(p) \cup (IF p = q THEN {m} ELSE {})
<1>1. CASE q \notin queues
  BY <1>1, SameCarried DEF Publish, MemTypes
<1>2. CASE q \in queues
  <2>1. pending' = [pending EXCEPT ![q] = Append(pending[q], m)] /\ UNCHANGED queues
    BY <1>2 DEF Publish, Push
  <2>2. pending[q] \in Seq(Msg)
    BY DEF MemTypes
  <2>3. Append(pending[q], m) \in Seq(Msg) /\ Elements(Append(pending[q], m)) = Elements(pending[q]) \cup {m}
    BY <2>2, ElementsAppended, SMT
  <2>4. MemTypes'
    BY <2>1, <2>3 DEF MemTypes
  <2>5. \A p \in QueueName : Elements(pending'[p]) \subseteq Elements(pending[p]) \cup (IF p = q THEN {m} ELSE {})
    BY <2>1, <2>3 DEF MemTypes
  <2>. QED  BY <2>4, <2>5 DEF Carried
<1>. QED  BY <1>1, <1>2

\* What is being delivered has been handed on.
LEMMA DeliveredCarries ==
    ASSUME MemTypes, NEW s \in Sub, Delivered(s), UNCHANGED <<memQueues, unconfirmed>>
    PROVE  /\ MemTypes' /\ \A p \in QueueName : Carried(p)' \subseteq Carried(p)
           /\ delivery[s] # <<>> /\ delivery[s] \in Seq(Msg) /\ delivery[s][1] = Head(delivery[s])
           /\ Head(delivery[s]) \in Carried(QueueOf[s])
<1>1. /\ delivery[s] \in Seq(Msg) /\ delivery[s] # <<>> /\ UNCHANGED <<queues, pending, unconfirmed>>
      /\ sub' = [sub EXCEPT ![s] = "ready"] /\ delivery' = [delivery EXCEPT ![s] = <<>>]
  BY DEF MemTypes, Delivered, memQueues
<1>2. MemTypes'
  BY <1>1, SMT DEF MemTypes
<1>3. \A t \in Sub : Elements(delivery'[t]) \subseteq Elements(delivery[t])
  BY <1>1, ElementsOf DEF MemTypes
<1>4. \A p \in QueueName : Carried(p)' \subseteq Carried(p)
  BY <1>1, <1>3 DEF Carried
<1>5. /\ Head(delivery[s]) \in Msg /\ Head(delivery[s]) \in Elements(delivery[s])
      /\ delivery[s][1] = Head(delivery[s])
  BY <1>1, ElementsTaken
<1>. QED  BY <1>1, <1>2, <1>4, <1>5 DEF Carried

\* A message moves from its queue to a subscription, or back.
LEMMA MovesCarry ==
    ASSUME MemTypes, NEW s \in Sub, Pop(s) \/ Requeue(s)
    PROVE  MemTypes' /\ \A p \in QueueName : Carried(p)' \subseteq Carried(p)
<1>0. QueueOf[s] \in QueueName
  BY MemoryAssumption
<1>. DEFINE q == QueueOf[s]
<1>1. pending[q] \in Seq(Msg) /\ delivery[s] \in Seq(Msg)
  BY <1>0 DEF MemTypes
<1>2. CASE Pop(s) /\ UNCHANGED <<pending, delivery>>
  <2>1. sub' \in [Sub -> {"off", "ready", "waiting", "busy", "ended"}] /\ UNCHANGED <<queues, unconfirmed>>
    BY <1>2 DEF Pop, MemTypes
  <2>2. \A t \in Sub : sub'[t] = "busy" => delivery[t] # <<>>
    <3>1. stop[s] # "no" \/ pending[q] = <<>> \/ delivery'[s] = <<Head(pending[q])>>
      BY <1>2 DEF Pop, MemTypes
    <3>2. delivery'[s] = <<Head(pending[q])>> => delivery'[s] # <<>>
      OBVIOUS
    <3>. QED  BY <1>2, <3>1, <3>2 DEF Pop, MemTypes
  <2>. QED  BY <1>2, <2>1, <2>2, SameCarried DEF MemTypes
<1>3. CASE Pop(s) /\ ~UNCHANGED <<pending, delivery>>
  <2>1. /\ pending[q] # <<>> /\ sub' = [sub EXCEPT ![s] = "busy"]
        /\ delivery' = [delivery EXCEPT ![s] = <<Head(pending[q])>>]
        /\ pending' = [pending EXCEPT ![q] = Tail(pending[q])] /\ UNCHANGED <<queues, unconfirmed>>
    BY <1>3 DEF Pop
  <2>2. /\ Head(pending[q]) \in Msg /\ Head(pending[q]) \in Elements(pending[q])
        /\ Tail(pending[q]) \in Seq(Msg) /\ Elements(Tail(pending[q])) \subseteq Elements(pending[q])
    BY <1>1, <2>1, ElementsTaken
  <2>3. /\ <<Head(pending[q])>> \in Seq(Msg) /\ <<Head(pending[q])>> # <<>>
        /\ Elements(<<Head(pending[q])>>) = {Head(pending[q])}
    BY <2>2, ElementsOf
  <2>4. MemTypes'
    BY <2>1, <2>2, <2>3 DEF MemTypes
  <2>5. \A p \in QueueName : Elements(pending'[p]) \subseteq Elements(pending[p])
    <3>1. pending'[q] = Tail(pending[q]) /\ \A p \in QueueName : p # q => pending'[p] = pending[p]
      BY <1>0, <2>1 DEF MemTypes
    <3>. QED  BY <2>2, <3>1
  <2>6. \A t \in Sub : t # s => delivery'[t] = delivery[t]
    BY <2>1 DEF MemTypes
  <2>7. Elements(delivery'[s]) \subseteq Elements(pending[q])
    BY <2>1, <2>2, <2>3 DEF MemTypes
  <2>. QED  BY <2>4, <2>5, <2>6, <2>7 DEF Carried
<1>4. CASE Requeue(s)
  <2>1. /\ sub' = [sub EXCEPT ![s] = "ready"] /\ delivery' = [delivery EXCEPT ![s] = <<>>]
        /\ pending' = [pending EXCEPT ![q] = delivery[s] \o pending[q]] /\ UNCHANGED <<queues, unconfirmed>>
    BY <1>4 DEF Requeue, Delivered
  <2>2. /\ delivery[s] \o pending[q] \in Seq(Msg)
        /\ Elements(delivery[s] \o pending[q]) \subseteq Elements(delivery[s]) \cup Elements(pending[q])
    BY <1>1, ElementsJoined
  <2>3. MemTypes'
    <3>1. pending' \in [QueueName -> Seq(Msg)]
      BY <1>0, <2>1, <2>2 DEF MemTypes
    <3>. QED  BY <2>1, <3>1, SMT DEF MemTypes
  <2>4. \A p \in QueueName : p # q => pending'[p] = pending[p]
    BY <2>1 DEF MemTypes
  <2>5. Elements(pending'[q]) \subseteq Elements(delivery[s]) \cup Elements(pending[q])
    BY <1>0, <2>1, <2>2 DEF MemTypes
  <2>6. \A t \in Sub : Elements(delivery'[t]) \subseteq Elements(delivery[t])
    BY <2>1, ElementsOf DEF MemTypes
  <2>7. Elements(delivery[s]) \subseteq Msg
    BY <1>1, ElementsOf
  <2>. QED  BY <2>3, <2>4, <2>5, <2>6, <2>7 DEF Carried
<1>. QED  BY <1>2, <1>3, <1>4

\* Everything else leaves the messages alone.
LEMMA AroundCarries ==
    ASSUME MemTypes,
           \/ \E q \in QueueName : Broadcast(q) \/ DeclareQueue(q)
           \/ \E s \in Sub : Consume(s) \/ Stop(s)
    PROVE  MemTypes' /\ \A p \in QueueName : Carried(p)' \subseteq Carried(p)
<1>1. UNCHANGED <<pending, delivery, unconfirmed>> /\ queues' \subseteq QueueName
  BY DEF Broadcast, DeclareQueue, Consume, Stop, MemTypes, memQueues
<1>2. \A s \in Sub : sub'[s] = "busy" => sub[s] = "busy"
  BY DEF Broadcast, DeclareQueue, Consume, Stop, Woken, MemTypes
<1>3. sub' \in [Sub -> {"off", "ready", "waiting", "busy", "ended"}]
  BY DEF Broadcast, DeclareQueue, Consume, Stop, Woken, MemTypes
<1>. QED  BY <1>1, <1>2, <1>3, SameCarried DEF MemTypes

-----------------------------------------------------------------------------
(* Calls and replies *)

\* There are finitely many calls, so that whoever has been answered can be counted.
LEMMA ToldFinite == IsFiniteSet(Told)
<1>1. IsFiniteSet(1..Steps)
  BY SagaAssumption, FS_Interval
<1>2. IsFiniteSet({"do"}) /\ IsFiniteSet({"undo"})
  BY FS_Singleton
<1>3. IsFiniteSet({"do"} \cup {"undo"}) /\ {"do", "undo"} = {"do"} \cup {"undo"}
  BY <1>2, FS_Union
<1>4. IsFiniteSet(Call)
  BY <1>1, <1>3, SagaAssumption, FS_Product
<1>. QED  BY <1>4, FS_Subset DEF Told

\* The counts are counts.
LEMMA CountsAre == ASSUME CallTypes PROVE answered \in Int /\ Counted \in Int
<1>1. answered \in Int
  BY DEF CallTypes
<1>. QED  BY <1>1 DEF Counted

\* While nobody new is owed a count, and the count has not gone down, all are counted.
LEMMA StillCounted ==
    ASSUME CallTypes, AllCounted, CallTypes', Owed' \subseteq Owed, Counted' >= Counted
    PROVE  AllCounted'
<1>1. IsFiniteSet(Owed)
  BY ToldFinite, FS_Subset DEF Owed
<1>2. IsFiniteSet(Owed') /\ Cardinality(Owed') <= Cardinality(Owed)
  BY <1>1, FS_Subset
<1>3. Cardinality(Owed) \in Nat /\ Cardinality(Owed') \in Nat
  BY <1>1, <1>2, FS_CardinalityType
<1>4. answered' \in Int
  BY DEF CallTypes
<1>5. Counted \in Int /\ Counted' \in Int
  BY <1>4, CountsAre DEF Counted
<1>6. \A a, b \in Nat, x, u \in Int : b <= a /\ a <= x /\ u >= x => b <= u
  BY SMT
<1>. QED  BY <1>2, <1>3, <1>5, <1>6 DEF AllCounted

\* The server has no part in it.
LEMMA SameCount ==
    ASSUME CallTypes, AllCounted, CallTypes', Told' \subseteq Told,
           UNCHANGED <<server, answered, takenBack>>
    PROVE  AllCounted'
<1>1. Counted' = Counted /\ Counted \in Int
  BY CountsAre DEF Counted
<1>2. Owed' \subseteq Owed
  BY DEF Owed
<1>. QED  BY <1>1, <1>2, StillCounted

\* The queues are queues.
LEMMA TwoQueues == Requests \in QueueName /\ Replies \in QueueName /\ Requests # Replies
BY RequestAssumption, MemoryAssumption

\* Messages move, and nobody looks.
LEMMA MovingKeeps ==
    ASSUME RequestInv, MemTypes', \A p \in QueueName : Carried(p)' \subseteq Carried(p),
           UNCHANGED <<call, result, waiters, box, serverVars>>
    PROVE  RequestInv' /\ Told' \subseteq Told
<1>0. /\ CallTypes /\ Serves /\ TrueQueues /\ TrueBoxes /\ OpenWaiters /\ MadeCalls /\ AllCounted
      /\ UNCHANGED <<call, result, waiters, box, serving, server, verdict, performed, errored,
                     answered, takenBack>>
  BY DEF RequestInv, serverVars
<1>1. CallTypes'
  BY <1>0 DEF CallTypes
<1>2. Made' = Made /\ TrueReplies' = TrueReplies /\ Sent' = Sent /\ Worked' = Worked
  BY <1>0 DEF Made, Sent, TrueReplies, TrueOf, Worked
<1>3. Serves' /\ OpenWaiters' /\ MadeCalls'
  BY <1>0, <1>2 DEF Serves, OpenWaiters, MadeCalls
<1>4. TrueQueues'
  BY <1>0, <1>2, TwoQueues DEF TrueQueues
<1>5. TrueBoxes'
  BY <1>0 DEF TrueBoxes, TrueOf, Worked
<1>6. Told' \subseteq Told
  BY <1>0, TwoQueues DEF Told, AnswerTo
<1>7. AllCounted'
  BY <1>0, <1>1, <1>6, SameCount
<1>. QED  BY <1>1, <1>3, <1>4, <1>5, <1>7, <1>6 DEF RequestInv

\* Do registers, gives up and returns.
LEMMA CallKeeps ==
    ASSUME RequestInv, NEW c \in Call, Register(c) \/ GiveUp(c) \/ Return(c),
           UNCHANGED <<memVars, serverVars>>
    PROVE  RequestInv' /\ Told' \subseteq Told
<1>0. /\ CallTypes /\ Serves /\ TrueQueues /\ TrueBoxes /\ OpenWaiters /\ MadeCalls /\ AllCounted
      /\ UNCHANGED <<box, pending, delivery, serving, server, verdict, performed, errored, answered,
                     takenBack>>
  BY DEF RequestInv, serverVars, memVars, memQueues, Register, GiveUp, Return
<1>1. MemTypes' /\ \A p \in QueueName : Carried(p)' = Carried(p)
  BY SameCarried DEF RequestInv, MemTypes, memVars, memQueues
<1>2. CallTypes'
  BY <1>0 DEF CallTypes, Register, GiveUp, Leave, Return
<1>3. Sent \subseteq Sent'
  BY <1>0 DEF CallTypes, Sent, Register, GiveUp, Leave, Return
<1>4. Made \subseteq Made' /\ TrueReplies' = TrueReplies /\ Worked' = Worked
  BY <1>0, <1>3 DEF Made, Sent, TrueReplies, TrueOf, Worked, RequestMsg
<1>5. Serves' /\ MadeCalls'
  BY <1>0, <1>3, <1>4 DEF Serves, MadeCalls
<1>6. \A d \in Call : result'[d] \in {"answered", "failed"} => result'[d] = result[d]
  BY <1>0 DEF CallTypes, Register, GiveUp, Leave, Return
<1>7. Told' \subseteq Told
  BY <1>0, <1>1, <1>6, TwoQueues DEF Told, AnswerTo
<1>8. AllCounted'
  BY <1>0, <1>2, <1>7, SameCount
<1>9. OpenWaiters'
  BY <1>0, ZenonT(30) DEF OpenWaiters, CallTypes, Register, GiveUp, Leave, Return
<1>10. TrueBoxes'
  BY <1>0, <1>6 DEF TrueBoxes, TrueOf, Worked
<1>11. TrueQueues'
  BY <1>0, <1>1, <1>4, TwoQueues DEF TrueQueues
<1>. QED  BY <1>1, <1>2, <1>5, <1>8, <1>9, <1>10, <1>11, <1>7 DEF RequestInv

\* Do takes what is in its channel.
LEMMA ReceiveKeeps ==
    ASSUME RequestInv, NEW c \in Call, Receive(c), UNCHANGED <<memVars, serverVars>>
    PROVE  RequestInv' /\ Told' \subseteq Told
<1>0. /\ CallTypes /\ Serves /\ TrueQueues /\ TrueBoxes /\ OpenWaiters /\ MadeCalls /\ AllCounted
      /\ UNCHANGED <<waiters, pending, delivery, serving, server, verdict, performed, errored,
                     answered, takenBack>>
  BY DEF RequestInv, serverVars, memVars, memQueues, Receive
<1>1. MemTypes' /\ \A p \in QueueName : Carried(p)' = Carried(p)
  BY SameCarried DEF RequestInv, MemTypes, memVars, memQueues
<1>2. box[c] \in Seq({"answered", "failed"}) /\ box[c] # <<>> /\ call[c] = "waiting"
  BY <1>0 DEF CallTypes, Receive
<1>3. Head(box[c]) \in {"answered", "failed"}
  BY <1>2
<1>4. PICK how \in {"answered", "failed", "unreadable"} :
        /\ result' = [result EXCEPT ![c] = how]
        /\ how \in {"answered", "failed"} => how = Head(box[c])
  BY <1>3 DEF Receive, Leave
<1>5. call' = [call EXCEPT ![c] = "leaving"] /\ box' = [box EXCEPT ![c] = <<>>]
  BY DEF Receive, Leave
<1>6. CallTypes'
  <2>1. <<>> \in Seq({"answered", "failed"})
    OBVIOUS
  <2>2. box' \in [Call -> Seq({"answered", "failed"})]
    BY <1>0, <1>5, <2>1 DEF CallTypes
  <2>. QED  BY <1>0, <1>4, <1>5, <2>2 DEF CallTypes
<1>7. \A d \in Call : call[d] \notin {"new", "registered"} <=> call'[d] \notin {"new", "registered"}
  BY <1>0, <1>2, <1>5 DEF CallTypes
<1>8. Made' = Made /\ TrueReplies' = TrueReplies /\ Sent' = Sent /\ Worked' = Worked
  BY <1>0, <1>7 DEF Made, Sent, TrueReplies, TrueOf, Worked, RequestMsg
<1>9. Serves' /\ MadeCalls' /\ OpenWaiters'
  BY <1>0, <1>2, <1>5, <1>7, <1>8 DEF Serves, MadeCalls, OpenWaiters, CallTypes
<1>10. \A d \in Call \ {c} : result'[d] = result[d] /\ box'[d] = box[d]
  BY <1>0, <1>4, <1>5 DEF CallTypes
<1>11. box'[c] = <<>> /\ result'[c] = how
  BY <1>0, <1>4, <1>5 DEF CallTypes
<1>12. Told' \subseteq Told
  BY <1>1, <1>2, <1>4, <1>10, <1>11, TwoQueues DEF Told, AnswerTo
<1>13. AllCounted'
  BY <1>0, <1>6, <1>12, SameCount
<1>14. TrueBoxes'
  BY <1>0, <1>2, <1>4, <1>10, <1>11 DEF TrueBoxes, TrueOf, Worked
<1>15. TrueQueues'
  BY <1>0, <1>1, <1>8, TwoQueues DEF TrueQueues
<1>. QED  BY <1>1, <1>6, <1>9, <1>13, <1>14, <1>15, <1>12 DEF RequestInv

\* Do publishes its request.
LEMMA SendRequestKeeps ==
    ASSUME RequestInv, NEW c \in Call, SendRequest(c), UNCHANGED <<unconfirmed, sub, delivery, serverVars>>
    PROVE  RequestInv' /\ Told' \subseteq Told
<1>. DEFINE request == [call |-> c, attempt |-> 1]
<1>0. /\ MemTypes /\ CallTypes /\ Serves /\ TrueQueues /\ TrueBoxes /\ OpenWaiters /\ MadeCalls /\ AllCounted
      /\ UNCHANGED <<waiters, box, serving, server, verdict, performed, errored, answered, takenBack>>
  BY DEF RequestInv, serverVars, SendRequest
<1>1. request \in RequestMsg /\ request \in Msg /\ request.call = c
  BY DEF RequestMsg, Msg
<1>2. /\ call[c] = "registered"
      /\ \E s \in {"waiting", "leaving"} : call' = [call EXCEPT ![c] = s]
      /\ result' = result \/ result' = [result EXCEPT ![c] = "refused"]
      /\ Publish(Requests, request) \/ UNCHANGED memQueues
  BY DEF SendRequest, Leave
<1>3. /\ MemTypes' /\ Carried(Requests)' \subseteq Carried(Requests) \cup {request}
      /\ Carried(Replies)' \subseteq Carried(Replies)
  <2>1. CASE Publish(Requests, request)
    BY <1>0, <1>1, <2>1, PublishCarries, TwoQueues
  <2>2. CASE UNCHANGED memQueues
    BY <1>0, <2>2, SameCarried, TwoQueues DEF MemTypes, memQueues
  <2>. QED  BY <1>2, <2>1, <2>2
<1>4. CallTypes'
  BY <1>0, <1>2 DEF CallTypes
<1>5. Sent \subseteq Sent' /\ c \in Sent'
  BY <1>0, <1>2 DEF CallTypes, Sent
<1>6. Made \subseteq Made' /\ TrueReplies' = TrueReplies /\ request \in Made' /\ Worked' = Worked
  BY <1>0, <1>1, <1>5 DEF Made, Sent, TrueReplies, TrueOf, Worked, RequestMsg
<1>7. Serves' /\ MadeCalls'
  BY <1>0, <1>5, <1>6 DEF Serves, MadeCalls
<1>8. OpenWaiters'
  BY <1>0, <1>2 DEF OpenWaiters, CallTypes
<1>9. \A d \in Call : result'[d] \in {"answered", "failed"} => result'[d] = result[d]
  BY <1>0, <1>2 DEF CallTypes
<1>10. TrueBoxes'
  BY <1>0, <1>9 DEF TrueBoxes, TrueOf, Worked
<1>11. Told' \subseteq Told
  BY <1>0, <1>3, <1>9 DEF Told, AnswerTo
<1>12. AllCounted'
  BY <1>0, <1>4, <1>11, SameCount
<1>13. TrueQueues'
  BY <1>0, <1>3, <1>6 DEF TrueQueues
<1>. QED  BY <1>3, <1>4, <1>7, <1>8, <1>10, <1>12, <1>13, <1>11 DEF RequestInv

\* A reply reaches the reply queue's consumer, and its waiter if there is one.
LEMMA ClientDeliversKeeps ==
    ASSUME RequestInv, ClientDelivers, UNCHANGED serverVars PROVE  RequestInv' /\ Told' \subseteq Told
<1>. DEFINE m == Head(delivery[Client])
<1>0. /\ MemTypes /\ CallTypes /\ Serves /\ TrueQueues /\ TrueBoxes /\ OpenWaiters /\ MadeCalls /\ AllCounted
      /\ UNCHANGED <<call, result, serving, server, verdict, performed, errored, answered, takenBack>>
  BY DEF RequestInv, serverVars, ClientDelivers, HandToWaiter
<1>1. /\ MemTypes' /\ \A p \in QueueName : Carried(p)' \subseteq Carried(p)
      /\ m \in Carried(Replies)
  BY <1>0, DeliveredCarries, RequestAssumption DEF ClientDelivers
<1>2. m \in ReplyMsg /\ TrueOf(m.call, m.how)
  BY <1>0, <1>1 DEF TrueQueues, TrueReplies
<1>. HIDE DEF m
<1>3. m.call \in Call /\ m.how \in {"answered", "failed"} /\ m = [call |-> m.call, how |-> m.how]
  BY <1>2 DEF ReplyMsg
<1>4. /\ waiters' = waiters \ {m.call}
      /\ box' = box \/ box' = [box EXCEPT ![m.call] = <<m.how>>]
  BY DEF ClientDelivers, HandToWaiter, m
<1>5. <<m.how>> \in Seq({"answered", "failed"}) /\ Head(<<m.how>>) = m.how
  BY <1>3
<1>6. CallTypes'
  <2>1. box' \in [Call -> Seq({"answered", "failed"})]
    BY <1>0, <1>4, <1>5 DEF CallTypes
  <2>. QED  BY <1>0, <1>4, <2>1 DEF CallTypes
<1>7. Made' = Made /\ TrueReplies' = TrueReplies /\ Sent' = Sent /\ Worked' = Worked
  BY <1>0 DEF Made, Sent, TrueReplies, TrueOf, Worked
<1>8. Serves' /\ MadeCalls' /\ OpenWaiters'
  BY <1>0, <1>4, <1>7 DEF Serves, MadeCalls, OpenWaiters
<1>9. \A d \in Call : box'[d] = box[d] \/ (d = m.call /\ box'[d] = <<m.how>>)
  BY <1>0, <1>3, <1>4 DEF CallTypes
<1>10. TrueBoxes'
  <2>1. \A d \in Call : box'[d] # <<>> => TrueOf(d, Head(box'[d]))
    BY <1>0, <1>2, <1>5, <1>9 DEF TrueBoxes
  <2>. QED  BY <1>0, <2>1 DEF TrueBoxes, TrueOf, Worked
<1>11. Told' \subseteq Told
  BY <1>0, <1>1, <1>3, <1>5, <1>9, TwoQueues DEF Told, AnswerTo
<1>12. AllCounted'
  BY <1>0, <1>6, <1>11, SameCount
<1>13. TrueQueues'
  BY <1>0, <1>1, <1>7, TwoQueues DEF TrueQueues
<1>. QED  BY <1>1, <1>6, <1>8, <1>10, <1>12, <1>13, <1>11 DEF RequestInv

-----------------------------------------------------------------------------
(* The responder *)

\* A request reaches the handler.
LEMMA TakeRequestKeeps ==
    ASSUME RequestInv, TakeRequest, UNCHANGED callVars PROVE  RequestInv' /\ Told' \subseteq Told
<1>0. /\ MemTypes /\ CallTypes /\ Serves /\ TrueQueues /\ TrueBoxes /\ OpenWaiters /\ MadeCalls /\ AllCounted
      /\ UNCHANGED <<call, result, waiters, box, verdict, performed, errored, answered, takenBack>>
      /\ server = "idle" /\ server' = "handle" /\ serving' = delivery[Server]
  BY DEF RequestInv, callVars, TakeRequest
<1>1. /\ MemTypes' /\ \A p \in QueueName : Carried(p)' \subseteq Carried(p)
      /\ serving'[1] \in Carried(Requests)
  BY <1>0, DeliveredCarries, RequestAssumption DEF TakeRequest
<1>2. CallTypes'
  BY <1>0 DEF CallTypes
<1>3. Made' = Made /\ TrueReplies' = TrueReplies /\ Sent' = Sent /\ Worked' = Worked
  BY <1>0 DEF Made, Sent, TrueReplies, TrueOf, Worked
<1>4. Serves' /\ MadeCalls' /\ OpenWaiters'
  BY <1>0, <1>1, <1>3 DEF Serves, MadeCalls, OpenWaiters, TrueQueues
<1>5. TrueBoxes'
  BY <1>0 DEF TrueBoxes, TrueOf, Worked
<1>6. Told' \subseteq Told
  BY <1>0, <1>1, TwoQueues DEF Told, AnswerTo
<1>7. AllCounted'
  <2>1. Counted' = Counted /\ Counted \in Int /\ Owed' \subseteq Owed
    BY <1>0, <1>6, CountsAre DEF Counted, Owed
  <2>. QED  BY <1>0, <1>2, <2>1, StillCounted
<1>8. TrueQueues'
  BY <1>0, <1>1, <1>3, TwoQueues DEF TrueQueues
<1>. QED  BY <1>1, <1>2, <1>4, <1>5, <1>7, <1>8, <1>6 DEF RequestInv

\* The handler does its work, or fails.
LEMMA HandleKeeps ==
    ASSUME RequestInv, Handle, UNCHANGED <<memVars, callVars>> PROVE  RequestInv' /\ Told' \subseteq Told
<1>. DEFINE c == serving[1].call
<1>0. /\ CallTypes /\ Serves /\ TrueQueues /\ TrueBoxes /\ OpenWaiters /\ MadeCalls /\ AllCounted
      /\ UNCHANGED <<pending, delivery, call, result, waiters, box, serving, answered, takenBack>>
      /\ server = "handle" /\ serving[1] \in Made
  BY DEF RequestInv, callVars, Handle, memVars, memQueues, Serves
<1>1. MemTypes' /\ \A p \in QueueName : Carried(p)' = Carried(p)
  BY SameCarried DEF RequestInv, MemTypes, memVars, memQueues
<1>2. c \in Call /\ c \in Sent
  BY <1>0 DEF Made, RequestMsg
<1>3. /\ \/ server' = "count" /\ performed' = Append(performed, c) /\ errored' = errored
         \/ server' = "replyerror" /\ errored' = errored \cup {c}
         \/ server' = "settle" /\ verdict' = "reject" /\ errored' = errored
      /\ performed' \in {performed, Append(performed, c)}
      /\ verdict' \in {verdict, "reject"}
  BY DEF Handle
<1>. HIDE DEF c
<1>4. performed' \in Seq(Call) /\ Worked \subseteq Worked' /\ Worked' \subseteq Worked \cup {c}
      /\ (server' = "count" => c \in Worked')
  <2>0. performed \in Seq(Call)
    BY <1>0 DEF CallTypes
  <2>1. Append(performed, c) \in Seq(Call) /\ Elements(Append(performed, c)) = Elements(performed) \cup {c}
    BY <1>2, <2>0, ElementsAppended
  <2>2. Worked = Elements(performed) /\ Worked' = Elements(performed')
    BY DEF Worked, Elements
  <2>. QED  BY <1>3, <2>0, <2>1, <2>2
<1>5. CallTypes'
  BY <1>0, <1>2, <1>3, <1>4 DEF CallTypes
<1>6. Made' = Made /\ Sent' = Sent /\ TrueReplies \subseteq TrueReplies'
  BY <1>0, <1>3, <1>4 DEF Made, Sent, TrueReplies, TrueOf
<1>7. Serves' /\ MadeCalls' /\ OpenWaiters'
  BY <1>0, <1>2, <1>3, <1>4, <1>6 DEF Serves, MadeCalls, OpenWaiters, c
<1>8. TrueBoxes'
  BY <1>0, <1>3, <1>4 DEF TrueBoxes, TrueOf
<1>9. Told' \subseteq Told
  BY <1>0, <1>1, TwoQueues DEF Told, AnswerTo
<1>10. AllCounted'
  <2>1. Counted' = Counted /\ Counted \in Int /\ Owed' \subseteq Owed
    BY <1>0, <1>3, <1>9, CountsAre DEF Counted, Owed
  <2>. QED  BY <1>0, <1>5, <2>1, StillCounted
<1>11. TrueQueues'
  BY <1>0, <1>1, <1>6, TwoQueues DEF TrueQueues
<1>. QED  BY <1>1, <1>5, <1>7, <1>8, <1>10, <1>11, <1>9 DEF RequestInv

\* The answer is counted before it goes out.
LEMMA CountAnswerKeeps ==
    ASSUME RequestInv, CountAnswer, UNCHANGED <<memVars, callVars>> PROVE  RequestInv' /\ Told' \subseteq Told
<1>0. /\ CallTypes /\ Serves /\ TrueQueues /\ TrueBoxes /\ OpenWaiters /\ MadeCalls /\ AllCounted
      /\ UNCHANGED <<pending, delivery, call, result, waiters, box, serving, verdict, performed, errored, takenBack>>
      /\ server = "count" /\ server' = "reply"
  BY DEF RequestInv, callVars, CountAnswer, memVars, memQueues
<1>1. MemTypes' /\ \A p \in QueueName : Carried(p)' = Carried(p)
  BY SameCarried DEF RequestInv, MemTypes, memVars, memQueues
<1>2. CallTypes'
  <2>1. answered' = answered + 1 /\ answered \in Int
    BY <1>0 DEF CountAnswer, CallTypes
  <2>2. answered' \in Int
    BY <2>1
  <2>. QED  BY <1>0, <2>2 DEF CallTypes
<1>3. Made' = Made /\ TrueReplies' = TrueReplies /\ Sent' = Sent /\ Worked' = Worked
  BY <1>0 DEF Made, Sent, TrueReplies, TrueOf, Worked
<1>4. Serves' /\ MadeCalls' /\ OpenWaiters'
  BY <1>0, <1>3 DEF Serves, MadeCalls, OpenWaiters
<1>5. TrueBoxes'
  BY <1>0 DEF TrueBoxes, TrueOf, Worked
<1>6. Told' \subseteq Told
  BY <1>0, <1>1, TwoQueues DEF Told, AnswerTo
<1>7. AllCounted'
  <2>1. answered \in Int /\ answered' = answered + 1
    BY <1>0 DEF CallTypes, CountAnswer
  <2>2. Counted' = Counted /\ Counted \in Int /\ Owed' \subseteq Owed
    BY <1>0, <1>6, <2>1 DEF Counted, Owed
  <2>. QED  BY <1>0, <1>2, <1>6, <2>1, <2>2, StillCounted
<1>8. TrueQueues'
  BY <1>0, <1>1, <1>3, TwoQueues DEF TrueQueues
<1>. QED  BY <1>1, <1>2, <1>4, <1>5, <1>7, <1>8, <1>6 DEF RequestInv

\* One more may be told when one more is counted.
LEMMA OneMoreCounted ==
    ASSUME CallTypes, AllCounted, CallTypes', NEW c, Owed' \subseteq Owed \cup {c}, Counted' = Counted + 1
    PROVE  AllCounted'
<1>1. IsFiniteSet(Owed)
  BY ToldFinite, FS_Subset DEF Owed
<1>2. IsFiniteSet(Owed \cup {c}) /\ Cardinality(Owed \cup {c}) <= Cardinality(Owed) + 1
  <2>1. Cardinality(Owed) \in Nat
    BY <1>1, FS_CardinalityType
  <2>2. CASE c \in Owed
    <3>1. Owed \cup {c} = Owed
      BY <2>2
    <3>2. \A n \in Nat : n <= n + 1
      OBVIOUS
    <3>. QED  BY ONLY <1>1, <2>1, <3>1, <3>2, Zenon
  <2>3. CASE c \notin Owed
    <3>1. IsFiniteSet(Owed \cup {c}) /\ Cardinality(Owed \cup {c}) = Cardinality(Owed) + 1
      BY <1>1, <2>3, FS_AddElement
    <3>2. \A n \in Nat : n + 1 <= n + 1
      OBVIOUS
    <3>. QED  BY ONLY <2>1, <3>1, <3>2, Zenon
  <2>. QED  BY <2>2, <2>3
<1>3. IsFiniteSet(Owed') /\ Cardinality(Owed') <= Cardinality(Owed \cup {c})
  BY <1>2, FS_Subset
<1>4. Cardinality(Owed) \in Nat /\ Cardinality(Owed \cup {c}) \in Nat /\ Cardinality(Owed') \in Nat
  BY <1>1, <1>2, <1>3, FS_CardinalityType
<1>5. Counted \in Int
  BY CountsAre
<1>6. \A a, b, d \in Nat, x \in Int : b <= d /\ d <= a + 1 /\ a <= x => b <= x + 1
  BY SMT
<1>. QED  BY <1>2, <1>3, <1>4, <1>5, <1>6 DEF AllCounted

\* What goes out is true, and counted, or counted no more.
LEMMA SendReplyKeeps ==
    ASSUME RequestInv, SendReply, UNCHANGED <<unconfirmed, sub, delivery, callVars>>
    PROVE  /\ RequestInv' /\ Told' \subseteq Told \cup {serving[1].call}
           /\ UNCHANGED memQueues => Told' \subseteq Told
<1>. DEFINE c == serving[1].call
            m == [call |-> c, how |-> "answered"]
<1>0. /\ MemTypes /\ CallTypes /\ Serves /\ TrueQueues /\ TrueBoxes /\ OpenWaiters /\ MadeCalls /\ AllCounted
      /\ UNCHANGED <<call, result, waiters, box, serving, performed, errored>>
      /\ server = "reply" /\ server' = "settle" /\ serving[1] \in Made /\ c \in Worked
  BY DEF RequestInv, callVars, SendReply, Serves
<1>1. c \in Call /\ m \in ReplyMsg /\ m \in Msg /\ m \in TrueReplies
  BY <1>0 DEF Made, RequestMsg, ReplyMsg, Msg, TrueReplies, TrueOf
<1>2. answered \in Int /\ takenBack \subseteq Call
  BY <1>0 DEF CallTypes
<1>3. \/ Publish(Replies, m) /\ verdict' = "accept" /\ answered' = answered /\ takenBack' = takenBack
      \/ /\ verdict' = "retry" /\ answered' = answered - 1
         /\ \/ Publish(Replies, m) /\ takenBack' = takenBack \cup {c}
            \/ UNCHANGED memQueues /\ takenBack' = takenBack
  BY DEF SendReply, Reply
<1>4. answered' \in Int /\ takenBack' \subseteq Call /\ verdict' \in {"accept", "retry"}
  BY <1>1, <1>2, <1>3
<1>5. CallTypes'
  BY <1>0, <1>4 DEF CallTypes
<1>6. Made' = Made /\ TrueReplies' = TrueReplies /\ Sent' = Sent /\ Worked' = Worked
  BY <1>0 DEF Made, Sent, TrueReplies, TrueOf, Worked
<1>7. Serves' /\ MadeCalls' /\ OpenWaiters'
  BY <1>0, <1>6 DEF Serves, MadeCalls, OpenWaiters
<1>8. TrueBoxes'
  BY <1>0 DEF TrueBoxes, TrueOf, Worked
<1>9. Counted = answered - 1 /\ Counted' = answered' /\ Counted \in Int
  BY <1>0, <1>2 DEF Counted
<1>10. /\ MemTypes' /\ TrueQueues' /\ Carried(Replies)' \subseteq Carried(Replies) \cup {m}
       /\ UNCHANGED memQueues => Carried(Replies)' \subseteq Carried(Replies)
  <2>1. CASE Publish(Replies, m)
    <3>1. /\ MemTypes' /\ Carried(Requests)' \subseteq Carried(Requests)
          /\ Carried(Replies)' \subseteq Carried(Replies) \cup {m}
      BY <1>0, <1>1, <2>1, PublishCarries, TwoQueues
    <3>2. UNCHANGED memQueues => Carried(Replies)' \subseteq Carried(Replies)
      BY <1>0, SameCarried, TwoQueues DEF memQueues
    <3>. QED  BY <1>0, <1>1, <1>6, <3>1, <3>2 DEF TrueQueues
  <2>2. CASE UNCHANGED memQueues
    <3>1. MemTypes' /\ \A p \in QueueName : Carried(p)' = Carried(p)
      BY <1>0, <2>2, SameCarried DEF MemTypes, memQueues
    <3>. QED  BY <1>0, <1>6, <3>1, TwoQueues DEF TrueQueues
  <2>. QED  BY <1>3, <2>1, <2>2
<1>11. Told' \subseteq Told \cup {c} /\ (UNCHANGED memQueues => Told' \subseteq Told)
  <2>1. \A d \in Call : AnswerTo(d) = m => d = c
    BY DEF AnswerTo
  <2>. QED  BY <1>0, <1>10, <2>1 DEF Told, AnswerTo
<1>12. AllCounted'
  <2>1. CASE verdict' = "accept"
    <3>1. Owed' \subseteq Owed \cup {c}
      BY <1>3, <1>11, <2>1 DEF Owed
    <3>2. Counted' = Counted + 1
      BY <1>2, <1>3, <1>9, <2>1
    <3>. QED  BY <1>0, <1>5, <3>1, <3>2, OneMoreCounted
  <2>2. CASE verdict' # "accept"
    <3>1. Owed' \subseteq Owed
      BY <1>3, <1>11, <2>2 DEF Owed
    <3>2. Counted' >= Counted
      BY <1>2, <1>3, <1>9, <2>2
    <3>. QED  BY <1>0, <1>5, <3>1, <3>2, StillCounted
  <2>. QED  BY <2>1, <2>2
<1>. QED  BY <1>5, <1>7, <1>8, <1>10, <1>11, <1>12 DEF RequestInv

\* An error the handler returned goes out, or does not.
LEMMA SendErrorKeeps ==
    ASSUME RequestInv, SendError, UNCHANGED <<unconfirmed, sub, delivery, callVars>>
    PROVE  RequestInv' /\ Told' \subseteq Told
<1>. DEFINE c == serving[1].call
            m == [call |-> c, how |-> "failed"]
<1>0. /\ MemTypes /\ CallTypes /\ Serves /\ TrueQueues /\ TrueBoxes /\ OpenWaiters /\ MadeCalls /\ AllCounted
      /\ UNCHANGED <<call, result, waiters, box, serving, performed, errored, answered, takenBack>>
      /\ server = "replyerror" /\ server' = "settle" /\ serving[1] \in Made /\ c \in errored
      /\ verdict' \in {"reject", "retry"}
  BY DEF RequestInv, callVars, SendError, Serves
<1>1. c \in Call /\ m \in ReplyMsg /\ m \in Msg /\ m \in TrueReplies
  BY <1>0 DEF Made, RequestMsg, ReplyMsg, Msg, TrueReplies, TrueOf
<1>2. Publish(Replies, m) \/ UNCHANGED memQueues
  BY DEF SendError, Reply
<1>3. /\ MemTypes' /\ Carried(Requests)' \subseteq Carried(Requests)
      /\ Carried(Replies)' \subseteq Carried(Replies) \cup {m}
  <2>1. CASE Publish(Replies, m)
    BY <1>0, <1>1, <2>1, PublishCarries, TwoQueues
  <2>2. CASE UNCHANGED memQueues
    BY <1>0, <2>2, SameCarried, TwoQueues DEF MemTypes, memQueues
  <2>. QED  BY <1>2, <2>1, <2>2
<1>4. CallTypes'
  BY <1>0 DEF CallTypes
<1>5. Made' = Made /\ TrueReplies' = TrueReplies /\ Sent' = Sent /\ Worked' = Worked
  BY <1>0 DEF Made, Sent, TrueReplies, TrueOf, Worked
<1>6. Serves' /\ MadeCalls' /\ OpenWaiters'
  BY <1>0, <1>5 DEF Serves, MadeCalls, OpenWaiters
<1>7. TrueBoxes'
  BY <1>0 DEF TrueBoxes, TrueOf, Worked
<1>8. TrueQueues'
  BY <1>0, <1>1, <1>3, <1>5 DEF TrueQueues
<1>9. \A d \in Call : AnswerTo(d) # m
  BY DEF AnswerTo
<1>10. Told' \subseteq Told
  BY <1>0, <1>3, <1>9 DEF Told, AnswerTo
<1>11. AllCounted'
  <2>1. Counted' = Counted /\ Counted \in Int /\ Owed' \subseteq Owed
    BY <1>0, <1>10, CountsAre DEF Counted, Owed
  <2>. QED  BY <1>0, <1>4, <2>1, StillCounted
<1>. QED  BY <1>3, <1>4, <1>6, <1>7, <1>8, <1>11, <1>10 DEF RequestInv

\* Another attempt is of the same call.
LEMMA SettleKeeps ==
    ASSUME RequestInv, Settle, UNCHANGED <<unconfirmed, sub, delivery, callVars>>
    PROVE  RequestInv' /\ Told' \subseteq Told
<1>. DEFINE m == [serving[1] EXCEPT !.attempt = @ + 1]
<1>0. /\ MemTypes /\ CallTypes /\ Serves /\ TrueQueues /\ TrueBoxes /\ OpenWaiters /\ MadeCalls /\ AllCounted
      /\ UNCHANGED <<call, result, waiters, box, performed, errored, answered, takenBack>>
      /\ server = "settle" /\ server' = "idle" /\ serving[1] \in Made /\ verdict' = "none"
  BY DEF RequestInv, callVars, Settle, Serves
<1>1. m \in RequestMsg /\ m \in Msg /\ m \in Made
  BY <1>0, SMT DEF Made, RequestMsg, Msg
<1>2. Publish(Requests, m) \/ UNCHANGED memQueues
  BY DEF Settle
<1>3. /\ MemTypes' /\ Carried(Replies)' \subseteq Carried(Replies)
      /\ Carried(Requests)' \subseteq Carried(Requests) \cup {m}
  <2>1. CASE Publish(Requests, m)
    BY <1>0, <1>1, <2>1, PublishCarries, TwoQueues
  <2>2. CASE UNCHANGED memQueues
    BY <1>0, <2>2, SameCarried, TwoQueues DEF MemTypes, memQueues
  <2>. QED  BY <1>2, <2>1, <2>2
<1>4. CallTypes'
  BY <1>0 DEF CallTypes
<1>5. Made' = Made /\ TrueReplies' = TrueReplies /\ Sent' = Sent /\ Worked' = Worked
  BY <1>0 DEF Made, Sent, TrueReplies, TrueOf, Worked
<1>6. Serves' /\ MadeCalls' /\ OpenWaiters'
  BY <1>0, <1>5 DEF Serves, MadeCalls, OpenWaiters
<1>7. TrueBoxes'
  BY <1>0 DEF TrueBoxes, TrueOf, Worked
<1>8. TrueQueues'
  BY <1>0, <1>1, <1>3, <1>5 DEF TrueQueues
<1>9. Told' \subseteq Told
  BY <1>0, <1>3 DEF Told, AnswerTo
<1>10. AllCounted'
  <2>1. Counted' = Counted /\ Counted \in Int /\ Owed' \subseteq Owed
    BY <1>0, <1>9, CountsAre DEF Counted, Owed
  <2>. QED  BY <1>0, <1>4, <2>1, StillCounted
<1>. QED  BY <1>3, <1>4, <1>6, <1>7, <1>8, <1>10, <1>9 DEF RequestInv

-----------------------------------------------------------------------------
(* Requests and replies: the theorem *)

\* Whatever the transport does of itself or the services do around the calls.
LEMMA AroundKeeps ==
    ASSUME RequestInv, UNCHANGED serverVars,
           \/ (Transport \/ Stopping) /\ UNCHANGED callVars
           \/ Around
    PROVE  RequestInv' /\ Told' \subseteq Told
<1>1. UNCHANGED <<call, result, waiters, box>> /\ MemTypes
  BY DEF RequestInv, callVars, Around
<1>2. MemTypes' /\ \A p \in QueueName : Carried(p)' \subseteq Carried(p)
  <2>1. CASE \E s \in Sub : Pop(s) \/ Requeue(s)
    BY <1>1, <2>1, MovesCarry
  <2>2. CASE \/ \E q \in QueueName : Broadcast(q) \/ DeclareQueue(q)
             \/ \E s \in Sub : Consume(s) \/ Stop(s)
    BY <1>1, <2>2, AroundCarries
  <2>3. CASE UNCHANGED memVars
    BY <1>1, <2>3, SameCarried DEF MemTypes, memVars, memQueues
  <2>. QED  BY <2>1, <2>2, <2>3 DEF Transport, Stopping, Around
<1>. QED  BY <1>1, <1>2, MovingKeeps

\* Every step keeps requests and replies in order.
LEMMA RequestKept == ASSUME RequestInv, SagaInv, [Next]_vars PROVE RequestInv'
<1>1. CASE SagaStep /\ UNCHANGED <<memVars, serverVars, trouble>>
  <2>1. CASE Invoke
    <3>1. Current \in Call
      BY <2>1, SagaAssumption DEF Invoke, Current, SagaInv
    <3>. QED  BY <1>1, <2>1, <3>1, CallKeeps DEF Invoke
  <2>2. CASE UNCHANGED callVars
    BY <1>1, <2>2, SameCarried, MovingKeeps DEF RequestInv, callVars, memVars, memQueues, MemTypes
  <2>. QED  BY <1>1, <2>1, <2>2 DEF SagaStep
<1>2. CASE (\E c \in Call : Calling(c)) /\ UNCHANGED <<serverVars, sagaVars>>
  BY <1>2, SendRequestKeeps, ReceiveKeeps, CallKeeps DEF Calling
<1>3. CASE Serving /\ UNCHANGED <<callVars, sagaVars>>
  BY <1>3, TakeRequestKeeps, HandleKeeps, CountAnswerKeeps, SendReplyKeeps, SendErrorKeeps, SettleKeeps
  DEF Serving
<1>4. CASE ClientDelivers /\ UNCHANGED <<serverVars, trouble, sagaVars>>
  BY <1>4, ClientDeliversKeeps
<1>5. CASE \/ (Transport \/ Stopping) /\ UNCHANGED <<callVars, serverVars, trouble, sagaVars>>
           \/ Around /\ UNCHANGED <<serverVars, sagaVars>>
  BY <1>5, AroundKeeps
<1>6. CASE UNCHANGED vars
  BY <1>6, SameCarried, MovingKeeps DEF RequestInv, vars, callVars, memVars, memQueues, MemTypes
<1>. QED  BY <1>1, <1>2, <1>3, <1>4, <1>5, <1>6 DEF Next

-----------------------------------------------------------------------------
(* Where the request of a call is *)

\* A queue's calls when a message is added at the end.
LEMMA CallsAppended ==
    ASSUME NEW S, NEW s \in Seq(S), NEW m \in S
    PROVE  /\ CallsIn(Append(s, m)) = CallsIn(s) \cup {m.call}
           /\ Distinct(s) /\ m.call \notin CallsIn(s) => Distinct(Append(s, m))
<1>1. /\ DOMAIN Append(s, m) = 1..Len(s) + 1 /\ Len(s) \in Nat /\ DOMAIN s = 1..Len(s)
      /\ \A i \in 1..Len(s) : Append(s, m)[i] = s[i]
      /\ Append(s, m)[Len(s) + 1] = m
  OBVIOUS
<1>2. /\ \A i \in 1..Len(s) + 1 : i \in 1..Len(s) \/ i = Len(s) + 1
      /\ \A i \in 1..Len(s) : i \in 1..Len(s) + 1
      /\ Len(s) + 1 \in 1..Len(s) + 1
  BY <1>1, SMT
<1>3. CallsIn(Append(s, m)) = CallsIn(s) \cup {m.call}
  BY <1>1, <1>2 DEF CallsIn
<1>4. ASSUME Distinct(s), m.call \notin CallsIn(s) PROVE Distinct(Append(s, m))
  BY <1>1, <1>2, <1>4 DEF CallsIn, Distinct
<1>. QED  BY <1>3, <1>4

\* A queue's calls when its head is taken.
LEMMA CallsTaken ==
    ASSUME NEW S, NEW s \in Seq(S), s # <<>>, Distinct(s)
    PROVE  /\ Distinct(Tail(s)) /\ Distinct(<<Head(s)>>)
           /\ CallsIn(Tail(s)) \subseteq CallsIn(s) /\ CallsIn(<<Head(s)>>) = {Head(s).call}
           /\ Head(s).call \in CallsIn(s) /\ Head(s).call \notin CallsIn(Tail(s))
<1>1. /\ Len(s) \in Nat \ {0} /\ DOMAIN s = 1..Len(s) /\ Head(s) = s[1]
      /\ DOMAIN Tail(s) = 1..Len(s) - 1
      /\ \A i \in 1..Len(s) - 1 : Tail(s)[i] = s[i + 1]
  OBVIOUS
<1>2. /\ \A i \in 1..Len(s) - 1 : i + 1 \in 1..Len(s) /\ i + 1 # 1
      /\ \A i, j \in 1..Len(s) - 1 : i + 1 = j + 1 => i = j
      /\ 1 \in 1..Len(s)
  BY <1>1, SMT
<1>3. Distinct(Tail(s)) /\ CallsIn(Tail(s)) \subseteq CallsIn(s)
  BY <1>1, <1>2 DEF CallsIn, Distinct
<1>4. Head(s).call \in CallsIn(s) /\ Head(s).call \notin CallsIn(Tail(s))
  BY <1>1, <1>2 DEF CallsIn, Distinct
<1>5. DOMAIN <<Head(s)>> = {1} /\ <<Head(s)>>[1] = Head(s)
  OBVIOUS
<1>. QED  BY <1>3, <1>4, <1>5 DEF CallsIn, Distinct

\* The calls of two sequences joined.
LEMMA CallsJoined ==
    ASSUME NEW S, NEW s \in Seq(S), NEW t \in Seq(S), Distinct(s), Distinct(t),
           CallsIn(s) \cap CallsIn(t) = {}
    PROVE  Distinct(s \o t) /\ CallsIn(s \o t) \subseteq CallsIn(s) \cup CallsIn(t)
<1>1. /\ DOMAIN (s \o t) = 1..Len(s) + Len(t) /\ Len(s) \in Nat /\ Len(t) \in Nat
      /\ DOMAIN s = 1..Len(s) /\ DOMAIN t = 1..Len(t)
      /\ \A i \in 1..Len(s) + Len(t) : (s \o t)[i] = IF i <= Len(s) THEN s[i] ELSE t[i - Len(s)]
  OBVIOUS
<1>2. \A i \in 1..Len(s) + Len(t) :
        IF i <= Len(s) THEN i \in 1..Len(s) ELSE i - Len(s) \in 1..Len(t)
  BY <1>1, SMT
<1>3. \A i, j \in 1..Len(s) + Len(t) : i - Len(s) = j - Len(s) => i = j
  BY <1>1, SMT
<1>4. CallsIn(s \o t) \subseteq CallsIn(s) \cup CallsIn(t)
  BY <1>1, <1>2 DEF CallsIn
<1>5. ASSUME NEW i \in 1..Len(s) + Len(t), NEW j \in 1..Len(s) + Len(t),
             (s \o t)[i].call = (s \o t)[j].call
      PROVE  i = j
  <2>1. CASE i <= Len(s) /\ j <= Len(s)
    BY <1>1, <1>2, <1>5, <2>1 DEF Distinct
  <2>2. CASE ~(i <= Len(s)) /\ ~(j <= Len(s))
    BY <1>1, <1>2, <1>3, <1>5, <2>2 DEF Distinct
  <2>3. CASE i <= Len(s) /\ ~(j <= Len(s))
    BY <1>1, <1>2, <1>5, <2>3 DEF CallsIn
  <2>4. CASE ~(i <= Len(s)) /\ j <= Len(s)
    BY <1>1, <1>2, <1>5, <2>4 DEF CallsIn
  <2>. QED  BY <2>1, <2>2, <2>3, <2>4
<1>. QED  BY <1>1, <1>4, <1>5 DEF Distinct

\* No sequence, no calls.
LEMMA CallsOfNone == CallsIn(<<>>) = {} /\ Distinct(<<>>)
BY DEF CallsIn, Distinct

\* No request comes or goes.
LEMMA FlightUntouched ==
    ASSUME FlightInv, pending'[Requests] = pending[Requests],
           \A s \in Servers : delivery'[s] = delivery[s],
           Working' \subseteq Working, Owed' \subseteq Owed
    PROVE  FlightInv'
<1>1. Waiting' = Waiting /\ \A s \in Servers : Handed(s)' = Handed(s)
  BY DEF Waiting, Handed
<1>. QED  BY <1>1 DEF FlightInv, OneRequest, NoneOnceOut, Servers

\* A request goes out of a call that has none.
LEMMA FlightSends ==
    ASSUME FlightInv, MemTypes, NEW m \in Msg, Publish(Requests, m), UNCHANGED delivery,
           m.call \notin Waiting, \A s \in Servers : m.call \notin Handed(s), m.call \notin Owed,
           Working' \subseteq Working, m.call \notin Working', Owed' \subseteq Owed
    PROVE  FlightInv'
<1>1. CASE Requests \notin queues
  BY <1>1, FlightUntouched DEF Publish
<1>2. CASE Requests \in queues
  <2>1. pending[Requests] \in Seq(Msg) /\ pending'[Requests] = Append(pending[Requests], m)
    BY <1>2, TwoQueues DEF MemTypes, Publish, Push
  <2>2. Distinct(pending'[Requests]) /\ Waiting' = Waiting \cup {m.call}
    BY <2>1, CallsAppended DEF FlightInv, OneRequest, Waiting
  <2>3. \A s \in Servers : Handed(s)' = Handed(s)
    BY DEF Handed
  <2>. QED  BY <2>2, <2>3 DEF FlightInv, OneRequest, NoneOnceOut, Servers
<1>. QED  BY <1>1, <1>2

\* A reply is no request.
LEMMA RepliesApart ==
    ASSUME MemTypes, NEW m, Publish(Replies, m) PROVE pending'[Requests] = pending[Requests]
BY TwoQueues DEF MemTypes, Publish, Push

\* A request moves from its queue to a subscription, or back.
LEMMA FlightMoves ==
    ASSUME FlightInv, MemTypes, NEW s \in Sub, Pop(s) \/ Requeue(s), UNCHANGED serverVars,
           Owed' \subseteq Owed
    PROVE  FlightInv'
<1>0. UNCHANGED <<serving, server, verdict>> /\ Working' = Working
  BY DEF serverVars, Working
<1>1. /\ pending \in [QueueName -> Seq(Msg)] /\ delivery \in [Sub -> Seq(Msg)]
      /\ QueueOf[s] \in QueueName
  BY MemoryAssumption DEF MemTypes
<1>. DEFINE p == pending[Requests]
            d == delivery[s]
<1>2. CASE s \notin Servers \/ UNCHANGED <<pending, delivery>>
  <2>1. pending'[Requests] = p /\ \A t \in Servers : delivery'[t] = delivery[t]
    BY <1>1, <1>2, TwoQueues DEF Servers, Pop, Requeue, Delivered
  <2>. QED  BY <1>0, <2>1, FlightUntouched
<1>3. CASE s \in Servers /\ Pop(s) /\ ~UNCHANGED <<pending, delivery>>
  <2>1. QueueOf[s] = Requests
    BY <1>3 DEF Servers
  <2>2. /\ p # <<>> /\ pending'[Requests] = Tail(p) /\ delivery'[s] = <<Head(p)>>
        /\ \A t \in Sub : t # s => delivery'[t] = delivery[t]
    BY <1>1, <1>3, <2>1 DEF Pop
  <2>3. p \in Seq(Msg) /\ Distinct(p)
    BY <1>1, TwoQueues DEF FlightInv, OneRequest
  <2>4. /\ Distinct(pending'[Requests]) /\ Distinct(delivery'[s])
        /\ Waiting' \subseteq Waiting /\ Handed(s)' \subseteq Waiting
        /\ Handed(s)' \cap Waiting' = {}
    <3>1. /\ Distinct(Tail(p)) /\ Distinct(<<Head(p)>>)
          /\ CallsIn(Tail(p)) \subseteq CallsIn(p) /\ CallsIn(<<Head(p)>>) = {Head(p).call}
          /\ Head(p).call \in CallsIn(p) /\ Head(p).call \notin CallsIn(Tail(p))
      BY <2>2, <2>3, CallsTaken
    <3>. QED  BY <2>2, <3>1 DEF Waiting, Handed
  <2>5. \A t \in Servers : t # s => delivery'[t] = delivery[t] /\ Handed(t)' = Handed(t)
    BY <2>2 DEF Handed, Servers
  <2>. QED  BY <1>0, <2>4, <2>5 DEF FlightInv, OneRequest, NoneOnceOut, Servers
<1>4. CASE s \in Servers /\ Requeue(s)
  <2>1. QueueOf[s] = Requests
    BY <1>4 DEF Servers
  <2>2. /\ pending'[Requests] = d \o p /\ delivery'[s] = <<>>
        /\ \A t \in Sub : t # s => delivery'[t] = delivery[t]
    BY <1>1, <1>4, <2>1 DEF Requeue, Delivered
  <2>3. p \in Seq(Msg) /\ Distinct(p) /\ d \in Seq(Msg) /\ Distinct(d) /\ CallsIn(d) \cap CallsIn(p) = {}
    BY <1>1, <1>4, TwoQueues DEF FlightInv, OneRequest, Waiting, Handed
  <2>4. /\ Distinct(pending'[Requests]) /\ Distinct(delivery'[s])
        /\ Waiting' \subseteq Handed(s) \cup Waiting /\ Handed(s)' = {}
    BY <2>2, <2>3, CallsJoined, CallsOfNone DEF Waiting, Handed
  <2>5. \A t \in Servers : t # s => delivery'[t] = delivery[t] /\ Handed(t)' = Handed(t)
    BY <2>2 DEF Handed, Servers
  <2>. QED  BY <1>0, <1>4, <2>4, <2>5 DEF FlightInv, OneRequest, NoneOnceOut, Servers
<1>. QED  BY <1>2, <1>3, <1>4 DEF Requeue

\* Do publishes the only request of its call.
LEMMA FlightSendRequest ==
    ASSUME RequestInv, FlightInv, NEW c \in Call, SendRequest(c),
           UNCHANGED <<unconfirmed, sub, delivery, serverVars>>
    PROVE  FlightInv'
<1>. DEFINE request == [call |-> c, attempt |-> 1]
<1>0. /\ MemTypes /\ Serves /\ TrueQueues /\ TrueBoxes /\ MadeCalls /\ Told' \subseteq Told
      /\ UNCHANGED <<serving, server, verdict, takenBack>>
  BY SendRequestKeeps DEF RequestInv, serverVars
<1>1. Owed' \subseteq Owed /\ Working' = Working
  BY <1>0 DEF Owed, Working
<1>2. c \notin Sent
  BY DEF SendRequest, Sent
<1>3. CASE UNCHANGED memQueues
  BY <1>1, <1>3, FlightUntouched DEF memQueues
<1>4. CASE Publish(Requests, request)
  <2>1. request \in Msg /\ request.call = c
    BY DEF Msg, RequestMsg
  <2>2. \A d \in Waiting : d \in Sent
    <3>1. \A k \in DOMAIN pending[Requests] : pending[Requests][k] \in Made
      BY <1>0 DEF TrueQueues, Carried, Elements
    <3>. QED  BY <3>1 DEF Waiting, CallsIn, Made
  <2>3. \A s \in Servers : \A d \in Handed(s) : d \in Sent
    <3>. SUFFICES ASSUME NEW s \in Servers, NEW k \in DOMAIN delivery[s]
                  PROVE  delivery[s][k].call \in Sent
      BY DEF Handed, CallsIn
    <3>1. s \in Sub /\ QueueOf[s] = Requests /\ delivery[s] \in Seq(Msg)
      BY <1>0 DEF Servers, MemTypes
    <3>2. delivery[s][k] \in Elements(delivery[s]) /\ delivery[s][k] \in Msg
      BY <3>1, ElementsOf DEF Elements
    <3>3. delivery[s][k] \in Made
      BY <1>0, <3>1, <3>2 DEF TrueQueues, Carried
    <3>. QED  BY <3>3 DEF Made
  <2>4. \A d \in Working : d \in Sent
    BY <1>0 DEF Working, Serves, Made
  <2>5. \A d \in Told : d \in Sent
    BY <1>0 DEF Told, TrueBoxes, TrueOf, TrueQueues, TrueReplies, AnswerTo, MadeCalls
  <2>6. request.call \notin Waiting /\ request.call \notin Working /\ request.call \notin Owed
        /\ \A s \in Servers : request.call \notin Handed(s)
    BY <1>2, <2>1, <2>2, <2>3, <2>4, <2>5 DEF Owed
  <2>. HIDE DEF request
  <2>. QED  BY <1>0, <1>1, <1>4, <2>1, <2>6, FlightSends
<1>. QED  BY <1>3, <1>4 DEF SendRequest

\* The handler takes a request, works, and answers or gives it back.
LEMMA FlightServing ==
    ASSUME RequestInv, FlightInv, Serving, UNCHANGED callVars PROVE FlightInv'
<1>0. MemTypes /\ Serves
  BY DEF RequestInv
<1>1. CASE TakeRequest
  <2>1. /\ Told' \subseteq Told /\ UNCHANGED <<pending, takenBack>> /\ server' = "handle"
        /\ serving' = delivery[Server] /\ delivery' = [delivery EXCEPT ![Server] = <<>>]
        /\ sub[Server] = "busy" /\ server = "idle"
    BY <1>1, TakeRequestKeeps DEF TakeRequest, Delivered, memQueues
  <2>2. /\ Server \in Servers /\ delivery[Server] \in Seq(Msg) /\ delivery[Server] # <<>>
        /\ delivery \in [Sub -> Seq(Msg)]
    BY <1>0, <2>1, RequestAssumption DEF Servers, MemTypes
  <2>3. 1 \in DOMAIN delivery[Server]
    BY <2>2
  <2>4. Working' \subseteq Handed(Server) /\ Waiting' = Waiting
    BY <2>1, <2>3 DEF Working, Handed, CallsIn, Waiting
  <2>5. Handed(Server)' = {} /\ Distinct(delivery'[Server])
    <3>1. delivery'[Server] = <<>>
      BY <2>1, <2>2, RequestAssumption
    <3>. QED  BY <3>1, CallsOfNone DEF Handed
  <2>6. \A t \in Servers : t # Server => delivery'[t] = delivery[t] /\ Handed(t)' = Handed(t)
    BY <2>1, <2>2 DEF Servers, Handed
  <2>7. Owed' \subseteq Owed
    BY <2>1 DEF Owed
  <2>. QED  BY <2>1, <2>2, <2>4, <2>5, <2>6, <2>7 DEF FlightInv, OneRequest, NoneOnceOut, Servers
<1>2. CASE (Handle \/ CountAnswer) /\ UNCHANGED memVars
  <2>1. Told' \subseteq Told /\ UNCHANGED <<pending, delivery, takenBack, serving>>
    BY <1>2, HandleKeeps, CountAnswerKeeps DEF Handle, CountAnswer, memVars, memQueues
  <2>2. server \in {"handle", "count"}
    BY <1>2 DEF Handle, CountAnswer
  <2>3. Owed' \subseteq Owed /\ Working' \subseteq Working
    BY <2>1, <2>2 DEF Owed, Working
  <2>. QED  BY <2>1, <2>3, FlightUntouched
<1>3. CASE SendReply /\ UNCHANGED <<unconfirmed, sub, delivery, stop>>
  <2>. DEFINE c == serving[1].call
  <2>1. /\ server = "reply" /\ server' = "settle" /\ UNCHANGED <<serving, delivery>>
        /\ Told' \subseteq Told \cup {c} /\ (UNCHANGED memQueues => Told' \subseteq Told)
        /\ \/ verdict' = "accept" /\ UNCHANGED takenBack
           \/ UNCHANGED <<memQueues, takenBack>>
           \/ takenBack' = takenBack \cup {c}
        /\ Reply("answered") \/ UNCHANGED memQueues
    BY <1>3, SendReplyKeeps DEF SendReply
  <2>2. pending'[Requests] = pending[Requests]
    BY <1>0, <2>1, RepliesApart DEF Reply, memQueues
  <2>3. Working = {c} /\ Working' \subseteq {c} /\ (verdict' = "accept" => Working' = {})
    BY <2>1 DEF Working
  <2>4. CASE verdict' = "accept" /\ UNCHANGED takenBack
    <3>1. Owed' \subseteq Owed \cup {c} /\ Working' = {}
      BY <2>1, <2>3, <2>4 DEF Owed
    <3>2. Waiting' = Waiting /\ \A s \in Servers : Handed(s)' = Handed(s)
      BY <2>1, <2>2 DEF Waiting, Handed
    <3>. QED  BY <2>1, <2>2, <2>3, <3>1, <3>2 DEF FlightInv, OneRequest, NoneOnceOut, Servers
  <2>5. CASE UNCHANGED <<memQueues, takenBack>> \/ takenBack' = takenBack \cup {c}
    <3>1. Owed' \subseteq Owed
      BY <2>1, <2>5 DEF Owed
    <3>. QED  BY <2>1, <2>2, <2>3, <3>1, FlightUntouched
  <2>. QED  BY <2>1, <2>4, <2>5
<1>4. CASE SendError /\ UNCHANGED <<unconfirmed, sub, delivery, stop>>
  <2>1. /\ server = "replyerror" /\ UNCHANGED <<serving, delivery, takenBack>> /\ Told' \subseteq Told
        /\ Reply("failed") \/ UNCHANGED memQueues
    BY <1>4, SendErrorKeeps DEF SendError
  <2>2. pending'[Requests] = pending[Requests]
    BY <1>0, <2>1, RepliesApart DEF Reply, memQueues
  <2>3. Owed' \subseteq Owed /\ Working' \subseteq Working
    BY <2>1 DEF Owed, Working
  <2>. QED  BY <2>1, <2>2, <2>3, FlightUntouched
<1>5. CASE Settle /\ UNCHANGED <<unconfirmed, sub, delivery, stop, trouble>>
  <2>. DEFINE m == [serving[1] EXCEPT !.attempt = @ + 1]
  <2>1. /\ server = "settle" /\ server' = "idle" /\ UNCHANGED <<delivery, takenBack>> /\ Told' \subseteq Told
        /\ UNCHANGED memQueues \/ (verdict = "retry" /\ Publish(Requests, m))
    BY <1>5, SettleKeeps DEF Settle
  <2>2. Owed' \subseteq Owed /\ Working' = {}
    BY <2>1 DEF Owed, Working
  <2>3. CASE UNCHANGED memQueues
    BY <2>1, <2>2, <2>3, FlightUntouched DEF memQueues
  <2>4. CASE verdict = "retry" /\ Publish(Requests, m)
    <3>1. m \in Msg /\ m.call = serving[1].call
      BY <1>0, <2>1, SMT DEF Serves, Made, RequestMsg, Msg
    <3>2. Working = {m.call}
      BY <2>1, <2>4, <3>1 DEF Working
    <3>. HIDE DEF m
    <3>3. m.call \notin Waiting /\ m.call \notin Owed /\ \A s \in Servers : m.call \notin Handed(s)
      BY <3>2 DEF FlightInv, OneRequest, NoneOnceOut
    <3>. QED  BY <1>0, <2>1, <2>2, <2>4, <3>1, <3>3, FlightSends
  <2>. QED  BY <2>1, <2>3, <2>4
<1>. QED  BY <1>1, <1>2, <1>3, <1>4, <1>5 DEF Serving

\* Every step keeps one request to a call, and none once its answer is out.
LEMMA FlightKept == ASSUME RequestInv, FlightInv, SagaInv, [Next]_vars PROVE FlightInv'
<1>0. MemTypes
  BY DEF RequestInv
<1>1. ASSUME Told' \subseteq Told, UNCHANGED <<pending, serverVars>>,
             \A s \in Servers : delivery'[s] = delivery[s]
      PROVE  FlightInv'
  <2>1. Working' = Working /\ Owed' \subseteq Owed
    BY <1>1 DEF serverVars, Working, Owed
  <2>. QED  BY <1>1, <2>1, FlightUntouched
<1>2. CASE SagaStep /\ UNCHANGED <<memVars, serverVars, trouble>>
  <2>1. Told' \subseteq Told
    <3>1. CASE Invoke
      <4>1. Current \in Call
        BY <3>1, SagaAssumption DEF Invoke, Current, SagaInv
      <4>. QED  BY <1>2, <3>1, <4>1, CallKeeps DEF Invoke
    <3>2. CASE UNCHANGED callVars
      BY <1>2, <3>2, SameCarried, MovingKeeps DEF RequestInv, callVars, memVars, memQueues, MemTypes
    <3>. QED  BY <1>2, <3>1, <3>2 DEF SagaStep
  <2>. QED  BY <1>1, <1>2, <2>1 DEF memVars, memQueues
<1>3. CASE (\E c \in Call : Calling(c)) /\ UNCHANGED <<serverVars, sagaVars>>
  <2>1. PICK c \in Call : Calling(c)
    BY <1>3
  <2>2. CASE SendRequest(c) /\ UNCHANGED <<unconfirmed, sub, delivery, stop>>
    BY <1>3, <2>2, FlightSendRequest
  <2>3. CASE (Receive(c) \/ Return(c) \/ GiveUp(c)) /\ UNCHANGED <<memVars, trouble>>
    BY <1>1, <1>3, <2>3, ReceiveKeeps, CallKeeps DEF memVars, memQueues
  <2>. QED  BY <2>1, <2>2, <2>3 DEF Calling
<1>4. CASE Serving /\ UNCHANGED <<callVars, sagaVars>>
  BY <1>4, FlightServing
<1>5. CASE ClientDelivers /\ UNCHANGED <<serverVars, trouble, sagaVars>>
  <2>1. Told' \subseteq Told /\ UNCHANGED pending /\ delivery' = [delivery EXCEPT ![Client] = <<>>]
    BY <1>5, ClientDeliversKeeps DEF ClientDelivers, Delivered, memQueues
  <2>2. \A s \in Servers : s # Client /\ s \in Sub
    BY RequestAssumption DEF Servers
  <2>. QED  BY <1>0, <1>1, <1>5, <2>1, <2>2 DEF MemTypes
<1>6. CASE (Transport \/ Stopping) /\ UNCHANGED <<callVars, serverVars, trouble, sagaVars>>
  <2>1. Told' \subseteq Told /\ Owed' \subseteq Owed
    BY <1>6, AroundKeeps DEF Owed, serverVars
  <2>2. CASE \E s \in Sub : Pop(s) \/ Requeue(s)
    BY <1>0, <1>6, <2>1, <2>2, FlightMoves
  <2>3. CASE (\E q \in QueueName : Broadcast(q)) \/ \E s \in Sub : Stop(s)
    BY <1>1, <1>6, <2>1, <2>3 DEF Broadcast, Stop, memQueues
  <2>. QED  BY <1>6, <2>2, <2>3 DEF Transport, Stopping
<1>7. CASE Around /\ UNCHANGED <<serverVars, sagaVars>>
  <2>1. Told' \subseteq Told
    BY <1>7, AroundKeeps
  <2>2. UNCHANGED <<pending, delivery>>
    BY <1>7 DEF Around, DeclareQueue, Consume, Stop, memVars, memQueues
  <2>. QED  BY <1>1, <1>7, <2>1, <2>2
<1>8. CASE UNCHANGED vars
  <2>1. Told' \subseteq Told
    BY <1>8, SameCarried, MovingKeeps DEF RequestInv, vars, callVars, memVars, memQueues, MemTypes
  <2>. QED  BY <1>1, <1>8, <2>1 DEF vars, memVars, memQueues
<1>. QED  BY <1>2, <1>3, <1>4, <1>5, <1>6, <1>7, <1>8 DEF Next

-----------------------------------------------------------------------------
(* The saga *)

\* The completed are steps.
LEMMA CompletedSteps == ASSUME SagaInv PROVE \A j \in DOMAIN completed : j \in 1..Steps
<1>1. completed \in Seq(1..Steps)
  BY DEF SagaInv
<1>2. \A j \in DOMAIN completed : completed[j] = j
  BY DEF SagaInv
<1>3. Elements(completed) \subseteq 1..Steps
  BY <1>1, ElementsOf
<1>. QED  BY ONLY <1>2, <1>3, Zenon DEF Elements

\* Calls go on and their work gets done, which takes nothing back.
LEMMA SagaUntouched ==
    ASSUME SagaInv, UNCHANGED sagaVars, Worked \subseteq Worked',
           \A c \in Call : /\ call'[c] # "new" => call[c] # "new"
                           /\ call[c] = "done" => call'[c] = "done" /\ result'[c] = result[c]
    PROVE  SagaInv'
<1>1. UNCHANGED <<mode, at, completed, failedAt, unresolved>>
  BY DEF sagaVars
<1>2. \A i : Listed(i)' = Listed(i)
  BY <1>1 DEF Listed
<1>3. \A i \in 1..Steps : Do(i) \in Call /\ Undo(i) \in Call
  BY SagaAssumption DEF Do, Undo
<1>4. \A j \in DOMAIN completed : call[Do(j)] = "done" /\ result[Do(j)] = "answered"
  BY DEF SagaInv
<1>5. \A j \in DOMAIN completed : call'[Do(j)] = "done" /\ result'[Do(j)] = "answered"
  BY <1>3, <1>4, CompletedSteps
<1>6. \A i \in 1..Steps : call'[Do(i)] # "new" => call[Do(i)] # "new"
  BY <1>3
<1>7. \A i \in 1..Steps : call'[Undo(i)] # "new" => call[Undo(i)] # "new"
  BY <1>3
<1>. QED  BY <1>1, <1>2, <1>5, <1>6, <1>7 DEF SagaInv

\* The saga makes its next call.
LEMMA InvokeKeeps == ASSUME RequestInv, SagaInv, Invoke, UNCHANGED serverVars PROVE SagaInv'
<1>0. /\ call \in [Call -> {"new", "registered", "waiting", "leaving", "done"}]
      /\ UNCHANGED <<mode, at, completed, failedAt, unresolved, performed, result>>
      /\ call' = [call EXCEPT ![Current] = "registered"] /\ call[Current] = "new"
  BY DEF RequestInv, CallTypes, Invoke, sagaVars, serverVars, Register
<1>1. \A i \in 1..Steps : Do(i) \in Call /\ Undo(i) \in Call /\ Do(i) # Undo(i)
  BY SagaAssumption DEF Do, Undo
<1>2. \A j \in DOMAIN completed : j \in 1..Steps
  BY CompletedSteps
<1>3. \A j \in DOMAIN completed : call'[Do(j)] = "done" /\ result'[Do(j)] = "answered"
  <2>1. \A j \in DOMAIN completed : call[Do(j)] = "done" /\ result[Do(j)] = "answered"
    BY DEF SagaInv
  <2>. QED  BY <1>0, <1>1, <1>2, <2>1
<1>4. Worked' = Worked /\ \A i : Listed(i)' = Listed(i)
  BY <1>0 DEF Worked, Listed
<1>5. CASE mode = "run"
  <2>1. Current = Do(at) /\ at \in 1..Steps
    BY <1>5 DEF Current, Do, SagaInv
  <2>2. \A i \in 1..Steps : call'[Do(i)] # "new" => i <= at
    <3>. SUFFICES ASSUME NEW i \in 1..Steps, call'[Do(i)] # "new" PROVE i <= at
      OBVIOUS
    <3>1. CASE i = at
      BY <2>1, <3>1
    <3>2. CASE i # at
      <4>1. Do(i) # Current /\ Do(i) \in Call
        BY <1>1, <2>1, <3>2 DEF Do
      <4>2. call[Do(i)] # "new"
        BY <1>0, <4>1
      <4>. QED  BY <1>5, <4>2 DEF SagaInv
    <3>. QED  BY <3>1, <3>2
  <2>3. \A i \in 1..Steps : call'[Undo(i)] = call[Undo(i)]
    <3>1. \A i \in 1..Steps : Undo(i) # Current
      BY <2>1 DEF Do, Undo
    <3>. QED  BY <1>0, <1>1, <3>1
  <2>. QED  BY <1>0, <1>3, <1>4, <1>5, <2>2, <2>3 DEF SagaInv
<1>6. CASE mode # "run"
  <2>1. mode = "undo" /\ at \in 1..Steps /\ at \in DOMAIN completed /\ Current = Undo(at)
    <3>1. mode = "undo" /\ at > 0
      BY <1>6 DEF Invoke
    <3>2. at \in 0..Len(completed) /\ completed \in Seq(1..Steps)
      BY <3>1 DEF SagaInv
    <3>3. at \in DOMAIN completed
      BY <3>1, <3>2
    <3>4. completed[at] = at
      BY <3>3 DEF SagaInv
    <3>. QED  BY <1>2, <3>1, <3>3, <3>4 DEF Current, Undo
  <2>2. \A i \in 1..Steps : call'[Do(i)] = call[Do(i)]
    <3>1. \A i \in 1..Steps : Do(i) # Current
      BY <2>1 DEF Do, Undo
    <3>. QED  BY <1>0, <1>1, <3>1
  <2>3. \A i \in 1..Steps : call'[Undo(i)] # "new" => i = at \/ call[Undo(i)] # "new"
    <3>1. \A i \in 1..Steps : i # at => Undo(i) # Current
      BY <2>1 DEF Undo
    <3>. QED  BY <1>0, <1>1, <3>1
  <2>. QED  BY <1>0, <1>3, <1>4, <1>6, <2>1, <2>2, <2>3 DEF SagaInv
<1>. QED  BY <1>5, <1>6

\* A step has returned: it is among the completed, or the undoing begins.
LEMMA StepReturnedKeeps ==
    ASSUME RequestInv, SagaInv, StepReturned, UNCHANGED <<callVars, serverVars>> PROVE SagaInv'
<1>0. /\ mode = "run" /\ at \in 1..Steps /\ Len(completed) = at - 1 /\ completed \in Seq(1..Steps)
      /\ \A j \in DOMAIN completed : completed[j] = j /\ call[Do(j)] = "done" /\ result[Do(j)] = "answered"
      /\ \A i \in 1..Steps : call[Undo(i)] = "new"
      /\ \A i \in 1..Steps : call[Do(i)] # "new" => i <= at
      /\ unresolved \in Seq(1..Steps)
      /\ UNCHANGED <<call, result, performed, unresolved>> /\ Steps \in Nat
  BY SagaAssumption DEF SagaInv, StepReturned, callVars, serverVars
<1>1. Current = Do(at) /\ Do(at) \in Call
  BY <1>0, SagaAssumption DEF Current, Do
<1>2. CASE result[Current] = "answered"
  <2>1. call[Do(at)] = "done" /\ result[Do(at)] = "answered"
    BY <1>1, <1>2 DEF StepReturned
  <2>2. completed' = Append(completed, at) /\ UNCHANGED failedAt
    BY <1>2 DEF StepReturned
  <2>3. completed' \in Seq(1..Steps) /\ Len(completed') = at
        /\ \A j \in DOMAIN completed' : completed'[j] = j /\ call[Do(j)] = "done" /\ result[Do(j)] = "answered"
    <3>1. /\ Append(completed, at) \in Seq(1..Steps) /\ Len(Append(completed, at)) = Len(completed) + 1
          /\ DOMAIN Append(completed, at) = 1..Len(completed) + 1 /\ DOMAIN completed = 1..Len(completed)
          /\ Append(completed, at)[Len(completed) + 1] = at
          /\ \A j \in 1..Len(completed) : Append(completed, at)[j] = completed[j]
      BY <1>0, SMT
    <3>2. \A n \in 1..Steps : n - 1 + 1 = n /\ \A j \in 1..n : j = n \/ j \in 1..(n - 1)
      BY <1>0, SMT
    <3>. QED  BY <1>0, <2>1, <2>2, <3>1, <3>2
  <2>4. CASE at < Steps
    <3>1. mode' = "run" /\ at' = at + 1
      BY <1>0, <1>2, <2>4 DEF StepReturned
    <3>2. at + 1 \in 1..Steps /\ at = (at + 1) - 1 /\ \A i \in 1..Steps : i <= at => i <= at + 1
      BY <1>0, <2>4, SMT
    <3>. QED  BY <1>0, <2>3, <3>1, <3>2 DEF SagaInv
  <2>5. CASE ~(at < Steps)
    <3>1. mode' = "complete" /\ at = Steps
      BY <1>0, <1>2, <2>5, SMT DEF StepReturned
    <3>. QED  BY <1>0, <2>3, <3>1 DEF SagaInv
  <2>. QED  BY <2>4, <2>5
<1>3. CASE result[Current] # "answered"
  <2>1. mode' = "undo" /\ at' = Len(completed) /\ failedAt' = at /\ UNCHANGED completed
    BY <1>3 DEF StepReturned
  <2>2. \A n \in Nat : n \in 0..n /\ \A i : i \notin n + 1..n
    OBVIOUS
  <2>3. Len(completed) \in Nat
    BY <1>0
  <2>4. /\ at' \in 0..Len(completed)
        /\ \A i \in at' + 1..Len(completed) : i \in Undoable => Undo(i) \in Worked' \/ Listed(i)'
    BY <2>1, <2>2, <2>3
  <2>. QED  BY <1>0, <2>1, <2>4 DEF SagaInv
<1>. QED  BY <1>2, <1>3

\* A step is undone, or listed as one that was not.
LEMMA UndoneKeeps ==
    ASSUME RequestInv, SagaInv, Undone, UNCHANGED <<callVars, serverVars>> PROVE SagaInv'
<1>0. /\ mode = "undo" /\ failedAt \in 1..Steps /\ Len(completed) = failedAt - 1
      /\ at \in 0..Len(completed) /\ at > 0 /\ at' = at - 1 /\ completed \in Seq(1..Steps)
      /\ unresolved \in Seq(1..Steps)
      /\ \A j \in DOMAIN completed : completed[j] = j /\ call[Do(j)] = "done" /\ result[Do(j)] = "answered"
      /\ \A i \in 1..Steps : call[Undo(i)] # "new" => i \in DOMAIN completed
      /\ \A i \in 1..Steps : call[Do(i)] # "new" => i <= failedAt
      /\ \A i \in at + 1..Len(completed) : i \in Undoable => Undo(i) \in Worked \/ Listed(i)
      /\ UNCHANGED <<mode, call, result, performed, completed, failedAt>> /\ Steps \in Nat
  BY SagaAssumption DEF SagaInv, Undone, callVars, serverVars
<1>w. Worked' = Worked
  BY <1>0 DEF Worked
<1>1. /\ at \in DOMAIN completed /\ completed[at] = at /\ at \in 1..Steps
      /\ Len(completed) \in Nat /\ at' \in 0..Len(completed)
      /\ \A i \in at' + 1..Len(completed) : i = at \/ i \in at + 1..Len(completed)
  BY <1>0, SMT
<1>2. Current = Undo(at) /\ Undo(at) \in Call
  BY <1>0, <1>1, SagaAssumption DEF Current, Undo
<1>3. CASE unresolved' = unresolved
  <2>1. at \in Undoable => Undo(at) \in Worked
    <3>1. at \in Undoable /\ result[Current] = "answered" => Undo(at) \in Worked
      BY <1>2 DEF RequestInv, TrueBoxes, TrueOf
    <3>2. at \in Undoable => result[Current] = "answered"
      <4>1. at \in Undoable /\ result[Current] # "answered" => unresolved' = Append(unresolved, at)
        BY <1>0, <1>1 DEF Undone
      <4>2. Append(unresolved, at) # unresolved
        BY <1>0, <1>1
      <4>. QED  BY <1>3, <4>1, <4>2
    <3>. QED  BY <3>1, <3>2
  <2>2. \A i : Listed(i)' = Listed(i)
    BY <1>3 DEF Listed
  <2>. QED  BY <1>0, <1>w, <1>1, <1>3, <2>1, <2>2 DEF SagaInv
<1>4. CASE unresolved' # unresolved
  <2>1. unresolved' = Append(unresolved, at)
    BY <1>0, <1>1, <1>4 DEF Undone
  <2>2. /\ unresolved' \in Seq(1..Steps) /\ DOMAIN unresolved = 1..Len(unresolved)
        /\ DOMAIN unresolved' = 1..Len(unresolved) + 1 /\ Len(unresolved) \in Nat
        /\ unresolved'[Len(unresolved) + 1] = at
        /\ \A j \in 1..Len(unresolved) : unresolved'[j] = unresolved[j]
    BY <1>0, <1>1, <2>1, SMT
  <2>3. PICK n \in 1..Steps : n = at
    BY <1>1
  <2>4. Listed(n)'
    BY <2>2, <2>3 DEF Listed
  <2>5. \A i : Listed(i) => Listed(i)'
    BY <2>2 DEF Listed
  <2>6. \A i \in at' + 1..Len(completed) : i \in Undoable => Undo(i) \in Worked \/ Listed(i)'
    BY <1>0, <1>1, <2>3, <2>4, <2>5
  <2>. QED  BY <1>0, <1>w, <1>1, <2>2, <2>6 DEF SagaInv
<1>. QED  BY <1>3, <1>4

\* What each step does to calls that have returned, and to the work done.
LEMMA ReturnedStays ==
    ASSUME RequestInv, [Next]_vars,
           ~(SagaStep /\ UNCHANGED <<memVars, serverVars, trouble>>)
    PROVE  /\ UNCHANGED sagaVars /\ Worked \subseteq Worked'
           /\ \A c \in Call : /\ call'[c] # "new" => call[c] # "new"
                              /\ call[c] = "done" => call'[c] = "done" /\ result'[c] = result[c]
<1>0. /\ call \in [Call -> {"new", "registered", "waiting", "leaving", "done"}]
      /\ result \in [Call -> {"none", "answered", "failed", "unreadable", "timed out", "cancelled", "refused"}]
  BY DEF RequestInv, CallTypes
<1>1. CASE (\E c \in Call : Calling(c)) /\ UNCHANGED <<serverVars, sagaVars>>
  <2>1. PICK c \in Call : Calling(c)
    BY <1>1
  <2>2. /\ call[c] \notin {"new", "done"}
        /\ \E s \in {"waiting", "leaving", "done"} : call' = [call EXCEPT ![c] = s]
        /\ result' = result \/ \E how : result' = [result EXCEPT ![c] = how]
    BY <2>1 DEF Calling, SendRequest, Receive, Return, GiveUp, Leave
  <2>3. \A d \in Call : d # c => call'[d] = call[d] /\ result'[d] = result[d]
    BY <1>0, <2>2
  <2>4. Worked' = Worked
    BY <1>1 DEF serverVars, Worked
  <2>. QED  BY <1>1, <2>2, <2>3, <2>4
<1>2. CASE Serving /\ UNCHANGED <<callVars, sagaVars>>
  <2>1. Worked \subseteq Worked'
    <3>1. CASE UNCHANGED performed
      BY <3>1 DEF Worked
    <3>2. CASE performed' = Append(performed, serving[1].call) /\ server = "handle"
      <4>1. performed \in Seq(Call) /\ serving[1].call \in Call
        BY <3>2 DEF RequestInv, CallTypes, Serves, Made, RequestMsg
      <4>2. Elements(performed') = Elements(performed) \cup {serving[1].call}
        BY <3>2, <4>1, ElementsAppended
      <4>. QED  BY <4>2 DEF Elements, Worked
    <3>. QED
      BY <1>2, <3>1, <3>2 DEF Serving, TakeRequest, Handle, CountAnswer, SendReply, SendError, Settle
  <2>. QED  BY <1>2, <2>1 DEF callVars
<1>3. CASE \/ ClientDelivers /\ UNCHANGED <<serverVars, trouble, sagaVars>>
           \/ (Transport \/ Stopping) /\ UNCHANGED <<callVars, serverVars, trouble, sagaVars>>
           \/ Around /\ UNCHANGED <<serverVars, sagaVars>>
           \/ UNCHANGED vars
  <2>1. UNCHANGED <<call, result, performed, sagaVars>>
    BY <1>3 DEF ClientDelivers, HandToWaiter, Around, callVars, serverVars, vars
  <2>. QED  BY <2>1 DEF Worked
<1>. QED  BY <1>1, <1>2, <1>3 DEF Next

\* Every step keeps the saga's account.
LEMMA SagaKept == ASSUME RequestInv, SagaInv, [Next]_vars PROVE SagaInv'
<1>1. CASE SagaStep /\ UNCHANGED <<memVars, serverVars, trouble>>
  <2>1. CASE Compensated /\ UNCHANGED callVars
    BY <1>1, <2>1 DEF Compensated, callVars, serverVars, SagaInv, Listed, Worked
  <2>. QED  BY <1>1, <2>1, InvokeKeeps, StepReturnedKeeps, UndoneKeeps DEF SagaStep
<1>2. CASE ~(SagaStep /\ UNCHANGED <<memVars, serverVars, trouble>>)
  BY <1>2, ReturnedStays, SagaUntouched
<1>. QED  BY <1>1, <1>2

\* Every step keeps what a step did before what its Undo did: a step that has
\* been called undone was answered, so that its request is gone.
LEMMA DoneFirstKept ==
    ASSUME RequestInv, FlightInv, SagaInv, DoneFirst, [Next]_vars PROVE DoneFirst'
<1>0. performed \in Seq(Call) /\ takenBack \subseteq takenBack'
  <2>1. performed \in Seq(Call)
    BY DEF RequestInv, CallTypes
  <2>2. takenBack \subseteq takenBack'
    BY DEF Next, SagaStep, Serving, TakeRequest, Handle, CountAnswer, SendReply, SendError, Settle,
           serverVars, vars
  <2>. QED  BY <2>1, <2>2
<1>1. CASE UNCHANGED performed
  BY <1>0, <1>1 DEF DoneFirst
<1>2. CASE ~UNCHANGED performed
  <2>. DEFINE c == serving[1].call
              n == Len(performed) + 1
  <2>1. server = "handle" /\ performed' = Append(performed, c)
    BY <1>2 DEF Next, Serving, TakeRequest, Handle, CountAnswer, SendReply, SendError, Settle,
           serverVars, vars
  <2>2. c \in Call /\ c \in Working
    BY <2>1 DEF RequestInv, Serves, Made, RequestMsg, Working
  <2>. HIDE DEF c
  <2>3. /\ DOMAIN performed = 1..Len(performed) /\ DOMAIN performed' = 1..n /\ Len(performed) \in Nat
        /\ performed'[n] = c /\ \A k \in 1..Len(performed) : performed'[k] = performed[k]
    BY <1>0, <2>1, <2>2
  <2>4. /\ \A k \in 1..n : k = n \/ k \in DOMAIN performed
        /\ \A k \in DOMAIN performed : k < n
    BY <2>3, SMT
  <2>. HIDE DEF n
  <2>. SUFFICES ASSUME NEW i \in 1..Steps, Do(i) \notin takenBack',
                       NEW j \in DOMAIN performed', NEW k \in DOMAIN performed',
                       performed'[j] = Undo(i), performed'[k] = Do(i)
                PROVE  k < j
    BY DEF DoneFirst
  <2>5. Do(i) \in Call /\ Undo(i) \in Call /\ Do(i) # Undo(i) /\ Do(i) \notin takenBack
    BY <1>0, SagaAssumption DEF Do, Undo
  <2>6. CASE j \in DOMAIN performed /\ k \in DOMAIN performed
    BY <2>3, <2>5, <2>6 DEF DoneFirst
  <2>7. CASE j = n
    <3>1. k # n
      BY <2>5, <2>7
    <3>. QED  BY <2>3, <2>4, <2>7, <3>1
  <2>8. CASE k = n /\ j \in DOMAIN performed
    <3>1. c = Do(i) /\ Undo(i) \in Worked
      BY <2>3, <2>8 DEF Worked
    <3>2. call[Undo(i)] # "new"
      BY <3>1 DEF RequestInv, MadeCalls, Sent
    <3>3. result[Do(i)] = "answered"
      BY <3>2 DEF SagaInv
    <3>4. Do(i) \in Owed
      BY <2>5, <3>3 DEF Owed, Told
    <3>. QED  BY <2>2, <3>1, <3>4 DEF FlightInv, NoneOnceOut
  <2>. QED  BY <2>3, <2>4, <2>6, <2>7, <2>8
<1>. QED  BY <1>1, <1>2

-----------------------------------------------------------------------------
(* The theorems *)

\* Calls, replies and the saga's account agree, from the start and for ever.
THEOREM SagaInvariant == Spec => []IInv
<1>1. Init => IInv
  <2>. SUFFICES ASSUME Init PROVE IInv
    OBVIOUS
  <2>1. MemTypes
    BY DEF Init, MemInit, MemTypes
  <2>2. \A q \in QueueName : Carried(q) = {}
    BY ElementsOf DEF Init, MemInit, Carried
  <2>3. CallTypes /\ Serves /\ OpenWaiters /\ MadeCalls
    <3>1. Worked = {}
      BY DEF Init, RequestInit, Worked
    <3>. QED  BY <3>1 DEF Init, RequestInit, CallTypes, Serves, OpenWaiters, MadeCalls
  <2>4. TrueQueues
    BY <2>2, TwoQueues DEF TrueQueues
  <2>5. TrueBoxes
    BY DEF Init, RequestInit, TrueBoxes, TrueOf
  <2>6. Owed = {}
    BY <2>2, TwoQueues DEF Init, RequestInit, Told, Owed
  <2>7. AllCounted
    BY <2>6, FS_EmptySet, SMT DEF AllCounted, Counted, Init, RequestInit
  <2>8. SagaInv
    <3>1. \A i \in 1..Steps : Do(i) \in Call /\ Undo(i) \in Call
      BY SagaAssumption DEF Do, Undo
    <3>. QED  BY <3>1, SagaAssumption, SMT DEF Init, RequestInit, SagaInv
  <2>9. FlightInv
    <3>1. /\ pending[Requests] = <<>> /\ \A s \in Servers : delivery[s] = <<>>
          /\ Working = {}
      BY TwoQueues DEF Init, MemInit, RequestInit, Working, Servers
    <3>. QED  BY <2>6, <3>1, CallsOfNone DEF FlightInv, OneRequest, NoneOnceOut, Waiting, Handed
  <2>10. DoneFirst
    BY DEF Init, RequestInit, DoneFirst
  <2>. QED  BY <2>1, <2>3, <2>4, <2>5, <2>7, <2>8, <2>9, <2>10 DEF IInv, RequestInv
<1>2. IInv /\ [Next]_vars => IInv'
  BY RequestKept, FlightKept, SagaKept, DoneFirstKept DEF IInv
<1>. QED  BY <1>1, <1>2, PTL DEF Spec

\* What a call returns is true of that call: answered only if the handler did
\* its work, failed only if it failed it; a call that has returned leaves no
\* waiter, and its answer is counted (Requester.Do, deliver, Serve).
THEOREM CallsAnsweredTruly == Spec => []RepliesTrue
<1>1. IInv => RepliesTrue
  <2>. SUFFICES ASSUME IInv PROVE RepliesTrue
    OBVIOUS
  <2>. DEFINE done == {c \in Call : result[c] = "answered"} \ takenBack
  <2>1. /\ \A c \in Call : TrueOf(c, result[c])
        /\ \A c \in Call : call[c] = "done" => c \notin waiters
    BY DEF IInv, RequestInv, TrueBoxes, OpenWaiters
  <2>2. IsFiniteSet(Owed) /\ done \subseteq Owed
    BY ToldFinite, FS_Subset DEF Told, Owed
  <2>3. IsFiniteSet(done) /\ Cardinality(done) <= Cardinality(Owed)
    BY <2>2, FS_Subset
  <2>4. Cardinality(done) \in Nat /\ Cardinality(Owed) \in Nat
    BY <2>2, <2>3, FS_CardinalityType
  <2>5. answered \in Int /\ Counted \in Int /\ Counted <= answered
    <3>1. answered \in Int
      BY CountsAre DEF IInv, RequestInv
    <3>. QED  BY <3>1 DEF Counted
  <2>6. Cardinality(done) <= answered
    <3>1. Cardinality(Owed) <= Counted
      BY DEF IInv, RequestInv, AllCounted
    <3>2. \A a, b \in Nat, x, z \in Int : b <= a /\ a <= x /\ x <= z => b <= z
      BY SMT
    <3>. QED  BY <2>3, <2>4, <2>5, <3>1, <3>2
  <2>. QED  BY <2>1, <2>6 DEF RepliesTrue, TrueOf
<1>. QED  BY <1>1, SagaInvariant, PTL

\* A saga that completed did every step, and what it did stands; one that failed
\* has undone what it did, nothing of it having been done again since, except
\* what cannot be undone, what it lists as unresolved, the step that failed, and
\* a step with an answer that went out and was reported as failed (Saga.Run,
\* compensate, Serve).
THEOREM SagasReportTruly == Spec => []SagaReportsTruly
<1>1. IInv => SagaReportsTruly
  <2>. SUFFICES ASSUME IInv PROVE SagaReportsTruly
    OBVIOUS
  <2>0. \A i \in 1..Steps : Do(i) \in Call /\ Undo(i) \in Call
    BY SagaAssumption DEF Do, Undo
  <2>1. ASSUME mode = "complete", NEW i \in 1..Steps PROVE Stands(i)
    <3>1. i \in DOMAIN completed
      BY <2>1 DEF IInv, SagaInv
    <3>2. Do(i) \in Worked
      BY <2>0, <3>1 DEF IInv, SagaInv, RequestInv, TrueBoxes, TrueOf
    <3>3. Undo(i) \notin Worked
      <4>1. call[Undo(i)] = "new"
        BY <2>1 DEF IInv, SagaInv
      <4>. QED  BY <2>0, <4>1 DEF IInv, RequestInv, MadeCalls, Sent
    <3>. QED  BY <3>2, <3>3 DEF Stands, Worked, Do, Undo
  <2>2. ASSUME mode = "compensated", NEW i \in Undoable, Stands(i), i # failedAt, Do(i) \notin takenBack
        PROVE  Listed(i)
    <3>0. i \in 1..Steps
      BY SagaAssumption
    <3>1. PICK k \in DOMAIN performed :
            performed[k] = Do(i) /\ \A j \in DOMAIN performed : performed[j] = Undo(i) => j < k
      BY <2>2 DEF Stands, Do, Undo
    <3>2. call[Do(i)] # "new"
      BY <3>1 DEF IInv, RequestInv, MadeCalls, Worked, Sent
    <3>3. /\ failedAt \in 1..Steps /\ Len(completed) = failedAt - 1 /\ at = 0 /\ i <= failedAt
          /\ \A n \in at + 1..Len(completed) : n \in Undoable => Undo(n) \in Worked \/ Listed(n)
      BY <2>2, <3>0, <3>2 DEF IInv, SagaInv
    <3>4. i \in at + 1..Len(completed)
      BY <2>2, <3>0, <3>3
    <3>5. Undo(i) \notin Worked
      <4>. SUFFICES ASSUME NEW j \in DOMAIN performed, performed[j] = Undo(i) PROVE FALSE
        BY DEF Worked
      <4>1. j < k
        BY <3>1
      <4>2. k < j
        BY <2>2, <3>0, <3>1 DEF IInv, DoneFirst
      <4>3. j \in Int /\ k \in Int
        <5>1. performed \in Seq(Call)
          BY DEF IInv, RequestInv, CallTypes
        <5>. QED  BY <5>1
      <4>. QED  BY <4>1, <4>2, <4>3
    <3>. QED  BY <2>2, <3>3, <3>4, <3>5
  <2>. QED  BY <2>1, <2>2 DEF SagaReportsTruly, Listed, Do
<1>. QED  BY <1>1, SagaInvariant, PTL
=============================================================================
