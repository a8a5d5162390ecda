--------------------------- MODULE RecoveryProofs ---------------------------
(***************************************************************************)
(* Proofs about subscriptions and the recovery of their connection, for any *)
(* number of subscriptions and of connections: no loop is left when Stop    *)
(* has returned, and a subscription consumes on one channel.  And about     *)
(* where a stream reader carries on, for any length of the stream, prefetch *)
(* and number of workers: it passes over nothing, however often its channel *)
(* is lost and its reattachment fails, and when it has settled in order it  *)
(* resumes exactly where it should.                                         *)
(***************************************************************************)
EXTENDS RabbitRecovery, StreamPosition, FiniteSetTheorems, SequenceTheorems,
        WellFoundedInduction, TLAPS

\* Most leaves are matters of logic and sets: Zenon is tried first, then SMT.
USE ZenonT(10), SMTT(20)

Chan == [gen : Nat, consuming : BOOLEAN, loop : BOOLEAN]
Stopped == {"cancelling", "draining", "stopped", "closed"}

TypeOK ==
    /\ gen \in Nat /\ alive \in BOOLEAN
    /\ rec \in {"watch", "dial", "swapped", "restart", "attach", "start", "ended"}
    /\ todo \subseteq Subs /\ subs \subseteq Subs /\ taken \subseteq Subs
    /\ target \in Subs \cup {None} /\ (target # None <=> rec \in {"attach", "start"})
    /\ tclose \in {"no", "closing", "done"}
    /\ pc \in [Subs -> {"new", "opening", "reading", "open", "failed"} \cup Stopped]
    /\ on \in [Subs -> Nat] /\ cur \in [Subs -> Nat] /\ closed \in [Subs -> BOOLEAN]
    /\ ch \in [Subs -> Seq(Chan)]
    /\ \A s \in Subs : closed[s] <=> pc[s] \in Stopped

\* The broker delivers on channels of the connection there is, and there is none
\* while recovery dials.
Live ==
    /\ \A s \in Subs : \A i \in Consuming(s) : alive /\ ch[s][i].gen = gen
    /\ rec = "dial" => ~alive

\* Unless a Stop overlaps its reattachment, recovery works on nothing stopped.
Unstopped == target # None => ~closed[target]

\* Unless a Consume overlaps a recovery: what is being opened is opened on a
\* connection nobody recovers; only the last channel of a subscription is
\* consumed from, and none while the subscription waits to be reattached; and
\* who is open and does not wait consumes.
Attachment ==
    /\ \A s \in Subs : pc[s] \in {"opening", "reading"} =>
        (alive \/ tclose = "done") /\ rec \in {"watch", "ended"}
    /\ \A s \in Subs : Consuming(s) \subseteq {Len(ch[s])}
    /\ rec = "swapped" => \A s \in Subs : Consuming(s) = {}
    /\ rec \in {"restart", "attach", "start"} => \A s \in todo : Consuming(s) = {}
    /\ \A s \in Subs : rec = "attach" /\ s = target => Consuming(s) = {}
    /\ target \notin todo
    /\ \A s \in Subs : pc[s] = "reading" /\ alive => Consuming(s) # {}
    /\ \A s \in Subs : tclose = "no" /\ pc[s] = "open" =>
        /\ s \in subs
        /\ alive /\ rec \notin {"swapped", "ended"}
            => s \in todo \/ Consuming(s) # {} \/ (rec = "attach" /\ s = target)
    /\ rec \notin {"restart", "attach", "start"} => todo = {}

IInv ==
    /\ TypeOK /\ Live
    /\ "stop" \notin overlaps => Unstopped
    /\ NoDeliveryAfterStop
    /\ "open" \notin overlaps => Attachment
-----------------------------------------------------------------------------
(* What the steps do to the channels *)

\* A change to channels that are there leaves them sequences of the same length.
LEMMA SameShape ==
    ASSUME TypeOK, NEW f, f = [s \in Subs |-> [i \in DOMAIN ch[s] |-> f[s][i]]],
           \A s \in Subs : \A i \in DOMAIN ch[s] : f[s][i] \in Chan
    PROVE  /\ f \in [Subs -> Seq(Chan)]
           /\ \A s \in Subs : Len(f[s]) = Len(ch[s]) /\ DOMAIN f[s] = DOMAIN ch[s]
<1>. SUFFICES ASSUME NEW s \in Subs
              PROVE  f[s] \in Seq(Chan) /\ Len(f[s]) = Len(ch[s]) /\ DOMAIN f[s] = DOMAIN ch[s]
  BY Zenon
<1>1. Len(ch[s]) \in Nat /\ DOMAIN ch[s] = 1..Len(ch[s])
  BY LenProperties DEF TypeOK
<1>2. f[s] = [i \in 1..Len(ch[s]) |-> f[s][i]]
  BY <1>1, Zenon
<1>3. f[s] \in [1..Len(ch[s]) -> Chan]
  BY <1>1, <1>2
<1>4. f[s] \in Seq(Chan)
  BY <1>1, <1>3, SeqDef, SMT
<1>. QED  BY <1>1, <1>2, <1>4, LenProperties, SMT

\* What is known of a channel.
LEMMA ChannelType ==
    ASSUME TypeOK, NEW s \in Subs
    PROVE  /\ Len(ch[s]) \in Nat /\ DOMAIN ch[s] = 1..Len(ch[s])
           /\ \A i \in DOMAIN ch[s] : ch[s][i] \in Chan
BY LenProperties, ElementOfSeq, SMT DEF TypeOK

\* The end of the connection: nothing consumes, and what loops does so still.
LEMMA Down ==
    ASSUME TypeOK, Live, ch' = AllDown
    PROVE  /\ ch' \in [Subs -> Seq(Chan)]
           /\ \A s \in Subs : Consuming(s)' = {} /\ Looping(s)' = Looping(s)
<1>1. \A s \in Subs : \A i \in DOMAIN ch[s] :
        /\ AllDown[s][i] \in Chan /\ ~AllDown[s][i].consuming
        /\ AllDown[s][i].loop = ch[s][i].loop
  <2>. SUFFICES ASSUME NEW s \in Subs, NEW i \in DOMAIN ch[s]
                PROVE  /\ AllDown[s][i] \in Chan /\ ~AllDown[s][i].consuming
                       /\ AllDown[s][i].loop = ch[s][i].loop
    OBVIOUS
  <2>1. ch[s][i] \in Chan
    BY ChannelType
  <2>2. ch[s][i].gen # gen => ~ch[s][i].consuming
    BY DEF Live, Consuming
  <2>. QED  BY <2>1, <2>2, Zenon DEF AllDown, Chan
<1>2. AllDown = [s \in Subs |-> [i \in DOMAIN ch[s] |-> AllDown[s][i]]]
  BY DEF AllDown
<1>3. /\ AllDown \in [Subs -> Seq(Chan)]
      /\ \A s \in Subs : DOMAIN AllDown[s] = DOMAIN ch[s]
  BY <1>1, <1>2, SameShape, Zenon
<1>. QED  BY <1>1, <1>3 DEF Consuming, Looping

\* A flag of one channel, if there is such a channel.
Cancel(s, i) == [ch EXCEPT ![s][i].consuming = FALSE]
Loop(s, i, b) == [ch EXCEPT ![s][i].loop = b]

\* A channel that is cancelled or closed.
LEMMA Cancelled ==
    ASSUME TypeOK, NEW s \in Subs, NEW i, ch' = Cancel(s, i)
    PROVE  /\ ch' \in [Subs -> Seq(Chan)]
           /\ \A t \in Subs : /\ Consuming(t)' = IF t = s THEN Consuming(t) \ {i}
                                                         ELSE Consuming(t)
                              /\ Looping(t)' = Looping(t) /\ Len(ch'[t]) = Len(ch[t])
                              /\ \A j \in DOMAIN ch[t] : ch'[t][j].gen = ch[t][j].gen
<1>1. \A t \in Subs : \A j \in DOMAIN ch[t] :
        /\ ch'[t][j] \in Chan /\ ch'[t][j].loop = ch[t][j].loop /\ ch'[t][j].gen = ch[t][j].gen
        /\ ch'[t][j].consuming <=> ch[t][j].consuming /\ ~(t = s /\ j = i)
  <2>. SUFFICES ASSUME NEW t \in Subs, NEW j \in DOMAIN ch[t]
                PROVE  /\ ch'[t][j] \in Chan /\ ch'[t][j].loop = ch[t][j].loop
                       /\ ch'[t][j].gen = ch[t][j].gen
                       /\ ch'[t][j].consuming <=> ch[t][j].consuming /\ ~(t = s /\ j = i)
    OBVIOUS
  <2>1. ch[t][j] \in Chan
    BY ChannelType
  <2>2. ch'[t][j] = IF t = s /\ j = i THEN [ch[t][j] EXCEPT !.consuming = FALSE] ELSE ch[t][j]
    BY Zenon DEF TypeOK, Cancel
  <2>3. CASE t = s /\ j = i
    BY ONLY <2>1, <2>2, <2>3, Zenon DEF Chan
  <2>4. CASE ~(t = s /\ j = i)
    BY ONLY <2>1, <2>2, <2>4, Zenon DEF Chan
  <2>. QED  BY <2>3, <2>4
<1>2. ch' = [t \in Subs |-> [j \in DOMAIN ch[t] |-> ch'[t][j]]]
  <2>1. \A t \in Subs : ch[t] = [j \in DOMAIN ch[t] |-> ch[t][j]]
    BY LenProperties DEF TypeOK
  <2>2. \A t \in Subs : ch'[t] = [j \in DOMAIN ch[t] |-> ch'[t][j]]
    <3>. TAKE t \in Subs
    <3>1. CASE t # s
      BY <2>1, <3>1 DEF TypeOK, Cancel
    <3>2. CASE t = s
      <4>1. ch'[s] = [ch[s] EXCEPT ![i].consuming = FALSE]
        BY DEF TypeOK, Cancel
      <4>. QED  BY ONLY <3>2, <4>1, Zenon
    <3>. QED  BY <3>1, <3>2
  <2>3. ch' = [t \in Subs |-> ch'[t]]
    BY Zenon DEF TypeOK, Cancel
  <2>. QED  BY ONLY <2>2, <2>3, Zenon
<1>3. /\ ch' \in [Subs -> Seq(Chan)]
      /\ \A t \in Subs : Len(ch'[t]) = Len(ch[t]) /\ DOMAIN ch'[t] = DOMAIN ch[t]
  BY ONLY TypeOK, <1>1, <1>2, SameShape, Zenon
<1>. QED  BY ONLY <1>1, <1>3, Zenon DEF Consuming, Looping

\* A loop that starts or ends.
LEMMA Looped ==
    ASSUME TypeOK, NEW s \in Subs, NEW i, NEW b \in BOOLEAN,
           ch' = Loop(s, i, b)
    PROVE  /\ ch' \in [Subs -> Seq(Chan)]
           /\ \A t \in Subs : /\ Consuming(t)' = Consuming(t) /\ Len(ch'[t]) = Len(ch[t])
                              /\ t # s \/ ~b => Looping(t)' \subseteq Looping(t)
                              /\ \A j \in DOMAIN ch[t] : ch'[t][j].gen = ch[t][j].gen
<1>1. \A t \in Subs : \A j \in DOMAIN ch[t] :
        /\ ch'[t][j] \in Chan /\ ch'[t][j].gen = ch[t][j].gen
        /\ ch'[t][j].consuming <=> ch[t][j].consuming
        /\ ch'[t][j].loop => ch[t][j].loop \/ (t = s /\ b)
  <2>. SUFFICES ASSUME NEW t \in Subs, NEW j \in DOMAIN ch[t]
                PROVE  /\ ch'[t][j] \in Chan /\ ch'[t][j].gen = ch[t][j].gen
                       /\ ch'[t][j].consuming <=> ch[t][j].consuming
                       /\ ch'[t][j].loop => ch[t][j].loop \/ (t = s /\ b)
    OBVIOUS
  <2>1. ch[t][j] \in Chan
    BY ChannelType
  <2>2. ch'[t][j] = IF t = s /\ j = i THEN [ch[t][j] EXCEPT !.loop = b] ELSE ch[t][j]
    BY Zenon DEF TypeOK, Loop
  <2>3. CASE t = s /\ j = i
    BY ONLY <2>1, <2>2, <2>3, b \in BOOLEAN, Zenon DEF Chan
  <2>4. CASE ~(t = s /\ j = i)
    BY ONLY <2>1, <2>2, <2>4, Zenon DEF Chan
  <2>. QED  BY <2>3, <2>4
<1>2. ch' = [t \in Subs |-> [j \in DOMAIN ch[t] |-> ch'[t][j]]]
  <2>1. \A t \in Subs : ch[t] = [j \in DOMAIN ch[t] |-> ch[t][j]]
    BY LenProperties DEF TypeOK
  <2>2. \A t \in Subs : ch'[t] = [j \in DOMAIN ch[t] |-> ch'[t][j]]
    <3>. TAKE t \in Subs
    <3>1. CASE t # s
      BY <2>1, <3>1 DEF TypeOK, Loop
    <3>2. CASE t = s
      <4>1. ch'[s] = [ch[s] EXCEPT ![i].loop = b]
        BY DEF TypeOK, Loop
      <4>. QED  BY ONLY <3>2, <4>1, Zenon
    <3>. QED  BY <3>1, <3>2
  <2>3. ch' = [t \in Subs |-> ch'[t]]
    BY Zenon DEF TypeOK, Loop
  <2>. QED  BY ONLY <2>2, <2>3, Zenon
<1>3. /\ ch' \in [Subs -> Seq(Chan)]
      /\ \A t \in Subs : Len(ch'[t]) = Len(ch[t]) /\ DOMAIN ch'[t] = DOMAIN ch[t]
  BY ONLY TypeOK, <1>1, <1>2, SameShape, Zenon
<1>. QED  BY ONLY <1>1, <1>3, Zenon DEF Consuming, Looping

\* The channel Consume opens.
LEMMA Opened ==
    ASSUME TypeOK, NEW s \in Subs, ch' = [ch EXCEPT ![s] = <<Channel(TRUE)>>]
    PROVE  /\ ch' \in [Subs -> Seq(Chan)]
           /\ Consuming(s)' = {1} /\ Len(ch'[s]) = 1 /\ ch'[s][1].gen = gen
           /\ \A t \in Subs \ {s} : ch'[t] = ch[t] /\ Consuming(t)' = Consuming(t)
                                   /\ Looping(t)' = Looping(t)
<1>. DEFINE c == Channel(TRUE)
<1>1. c \in Chan /\ c.consuming /\ c.gen = gen
  BY DEF TypeOK, Channel, Chan
<1>. HIDE DEF c
<1>2. /\ <<c>> \in Seq(Chan) /\ Len(<<c>>) = 1 /\ <<c>>[1] = c
      /\ DOMAIN <<c>> = 1..1
  BY ONLY <1>1
<1>3. ch'[s] = <<c>> /\ \A t \in Subs \ {s} : ch'[t] = ch[t]
  BY Zenon DEF TypeOK, c
<1>4. ch' \in [Subs -> Seq(Chan)]
  BY <1>2, Zenon DEF TypeOK, c
<1>5. Consuming(s)' = {1}
  BY ONLY <1>1, <1>2, <1>3 DEF Consuming
<1>6. \A t \in Subs \ {s} : Consuming(t)' = Consuming(t) /\ Looping(t)' = Looping(t)
  BY ONLY <1>3, Zenon DEF Consuming, Looping
<1>. QED  BY ONLY <1>1, <1>2, <1>3, <1>4, <1>5, <1>6, Zenon

\* The channel reattach opens.
LEMMA Appended ==
    ASSUME TypeOK, NEW s \in Subs, ch' = [ch EXCEPT ![s] = Append(@, Channel(FALSE))]
    PROVE  /\ ch' \in [Subs -> Seq(Chan)]
           /\ Len(ch'[s]) = Len(ch[s]) + 1 /\ ch'[s][Len(ch'[s])].gen = gen
           /\ Consuming(s)' = Consuming(s) \cup {Len(ch'[s])} /\ Looping(s)' = Looping(s)
           /\ \A i \in DOMAIN ch[s] : ch'[s][i] = ch[s][i]
           /\ \A t \in Subs \ {s} : ch'[t] = ch[t] /\ Consuming(t)' = Consuming(t)
                                   /\ Looping(t)' = Looping(t)
<1>. DEFINE c == Channel(FALSE)
<1>1. c \in Chan /\ c.consuming /\ ~c.loop /\ c.gen = gen
  BY DEF TypeOK, Channel, Chan
<1>2. ch[s] \in Seq(Chan) /\ DOMAIN ch[s] = 1..Len(ch[s]) /\ Len(ch[s]) \in Nat
  BY ChannelType DEF TypeOK
<1>. HIDE DEF c
<1>3. /\ Append(ch[s], c) \in Seq(Chan) /\ Len(Append(ch[s], c)) = Len(ch[s]) + 1
      /\ DOMAIN Append(ch[s], c) = 1..Len(ch[s]) + 1
      /\ \A i \in 1..Len(ch[s]) : Append(ch[s], c)[i] = ch[s][i]
      /\ Append(ch[s], c)[Len(ch[s]) + 1] = c
  BY <1>1, <1>2
<1>4. ch'[s] = Append(ch[s], c) /\ \A t \in Subs \ {s} : ch'[t] = ch[t]
  BY Zenon DEF TypeOK, c
<1>5. ch' \in [Subs -> Seq(Chan)]
  BY <1>3, Zenon DEF TypeOK, c
<1>6. Consuming(s)' = Consuming(s) \cup {Len(ch'[s])}
  BY ONLY <1>1, <1>2, <1>3, <1>4 DEF Consuming
<1>7. Looping(s)' = Looping(s)
  BY ONLY <1>1, <1>2, <1>3, <1>4 DEF Looping
<1>8. \A t \in Subs \ {s} : Consuming(t)' = Consuming(t) /\ Looping(t)' = Looping(t)
  BY ONLY <1>4, Zenon DEF Consuming, Looping
<1>. QED  BY ONLY <1>1, <1>2, <1>3, <1>4, <1>5, <1>6, <1>7, <1>8, Zenon

\* A step that leaves the channels alone.
LEMMA Same ==
    ASSUME ch' = ch
    PROVE  ch' = ch /\ \A s \in Subs : Consuming(s)' = Consuming(s) /\ Looping(s)' = Looping(s)
BY DEF Consuming, Looping

-----------------------------------------------------------------------------
(* The steps of Consume *)

USE DEF link, recovery, closing, sub

\* A Consume that begins during a loss or a recovery is an overlap.
LEMMA ConsumeBeginKeeps == ASSUME IInv, NEW s \in Subs, ConsumeBegin(s) PROVE IInv'
<1>1. ch' = ch /\ \A t \in Subs : Consuming(t)' = Consuming(t) /\ Looping(t)' = Looping(t)
  BY Same DEF IInv, ConsumeBegin
<1>2. TypeOK'
  BY <1>1, RecoveryAssumption DEF IInv, TypeOK, Stopped, ConsumeBegin, Overlap
<1>3. Live'
  BY <1>1, SMT DEF IInv, Live, TypeOK, ConsumeBegin, Overlap
<1>4. "stop" \notin overlaps' => Unstopped'
  BY DEF IInv, Unstopped, TypeOK, Stopped, ConsumeBegin, Overlap
<1>5. NoDeliveryAfterStop'
  BY <1>1 DEF IInv, NoDeliveryAfterStop, Unstopped, TypeOK, Stopped, ConsumeBegin, Overlap
<1>6. "open" \notin overlaps' => Attachment'
  BY <1>1, RecoveryAssumption DEF IInv, Attachment, Live, TypeOK, Stopped, ConsumeBegin, Overlap
<1>. QED  BY <1>2, <1>3, <1>4, <1>5, <1>6 DEF IInv

\* Otherwise its channel is on a connection nobody recovers.
LEMMA ConsumeOpenedKeeps == ASSUME IInv, NEW s \in Subs, ConsumeOpened(s) PROVE IInv'
<1>1. /\ ch' \in [Subs -> Seq(Chan)]
      /\ Consuming(s)' = {1} /\ Len(ch'[s]) = 1 /\ ch'[s][1].gen = gen
      /\ \A t \in Subs \ {s} : ch'[t] = ch[t] /\ Consuming(t)' = Consuming(t)
                              /\ Looping(t)' = Looping(t)
  BY Opened, Zenon DEF IInv, ConsumeOpened
<1>2. /\ s \in Subs /\ pc[s] = "opening" /\ alive /\ pc' = [pc EXCEPT ![s] = "reading"]
      /\ cur' = [cur EXCEPT ![s] = 1]
      /\ UNCHANGED <<link, recovery, closing, on, closed, overlaps>>
  BY DEF ConsumeOpened
<1>3. TypeOK'
  BY ONLY IInv, <1>1, <1>2, RecoveryAssumption, Zenon
     DEF IInv, TypeOK, Stopped, link, recovery, closing, sub
<1>4. Live'
  <2>1. \A t \in Subs : Consuming(t) \subseteq DOMAIN ch[t]
    BY DEF Consuming
  <2>2. Live /\ alive /\ gen' = gen /\ alive' = alive /\ rec' # "dial" /\ s \in Subs
    BY ONLY IInv, <1>2, Zenon DEF IInv, Live, link, recovery
  <2>3. \A t \in Subs : \A i \in Consuming(t)' : ch'[t][i].gen = gen
    BY ONLY <1>1, <2>1, <2>2 DEF Live
  <2>. QED  BY ONLY <2>2, <2>3, Zenon DEF Live
<1>5. "stop" \notin overlaps' => Unstopped'
  BY ONLY IInv, <1>1, <1>2, Zenon DEF IInv, Unstopped, TypeOK, Stopped, link, recovery, closing, sub
<1>6. NoDeliveryAfterStop'
  BY ONLY IInv, <1>1, <1>2, Zenon DEF IInv, NoDeliveryAfterStop, Unstopped, TypeOK, Stopped
<1>7. "open" \notin overlaps' => Attachment'
  <2>. SUFFICES ASSUME "open" \notin overlaps' PROVE Attachment'
    OBVIOUS
  <2>1. Attachment /\ rec \in {"watch", "ended"} /\ todo = {} /\ target = None
    BY ONLY IInv, "open" \notin overlaps', <1>2, Zenon DEF IInv, TypeOK, Attachment
  <2>2. /\ pc'[s] = "reading" /\ \A t \in Subs \ {s} : pc'[t] = pc[t]
        /\ UNCHANGED <<alive, rec, tclose, todo, target, subs>>
    BY ONLY IInv, <1>2, Zenon DEF IInv, TypeOK, link, recovery, closing
  <2>3. \A t \in Subs : Consuming(t)' \subseteq {Len(ch'[t])}
    BY ONLY <1>1, <2>1, Zenon DEF Attachment
  <2>4. \A t \in Subs : pc'[t] = "reading" /\ alive' => Consuming(t)' # {}
    BY ONLY <1>1, <2>1, <2>2, Zenon DEF Attachment
  <2>5. \A t \in Subs : tclose' = "no" /\ pc'[t] = "open" =>
            t \in subs' /\ (alive' /\ rec' \notin {"swapped", "ended"} => Consuming(t)' # {})
    BY ONLY <1>1, <2>1, <2>2, Zenon DEF Attachment
  <2>. QED  BY ONLY <1>2, <2>1, <2>2, <2>3, <2>4, <2>5 DEF Attachment
<1>. QED  BY <1>3, <1>4, <1>5, <1>6, <1>7 DEF IInv

\* A Consume whose connection has gone.
LEMMA ConsumeFailsKeeps == ASSUME IInv, NEW s \in Subs, ConsumeFails(s) PROVE IInv'
<1>1. ch' = ch /\ \A t \in Subs : Consuming(t)' = Consuming(t) /\ Looping(t)' = Looping(t)
  BY Same DEF IInv, ConsumeFails
<1>2. TypeOK'
  BY <1>1, RecoveryAssumption DEF IInv, TypeOK, Stopped, ConsumeFails
<1>3. Live'
  BY <1>1, SMT DEF IInv, Live, TypeOK, ConsumeFails
<1>4. "stop" \notin overlaps' => Unstopped'
  BY DEF IInv, Unstopped, TypeOK, Stopped, ConsumeFails
<1>5. NoDeliveryAfterStop'
  BY <1>1 DEF IInv, NoDeliveryAfterStop, Unstopped, TypeOK, Stopped, ConsumeFails
<1>6. "open" \notin overlaps' => Attachment'
  BY <1>1, RecoveryAssumption DEF IInv, Attachment, Live, TypeOK, Stopped, ConsumeFails
<1>. QED  BY <1>2, <1>3, <1>4, <1>5, <1>6 DEF IInv

\* Who is recorded consumes already.
LEMMA ConsumeRecordedKeeps == ASSUME IInv, NEW s \in Subs, ConsumeRecorded(s) PROVE IInv'
<1>1. ch' = ch /\ \A t \in Subs : Consuming(t)' = Consuming(t) /\ Looping(t)' = Looping(t)
  BY Same DEF IInv, ConsumeRecorded
<1>2. TypeOK'
  BY <1>1, RecoveryAssumption DEF IInv, TypeOK, Stopped, ConsumeRecorded
<1>3. Live'
  BY <1>1, SMT DEF IInv, Live, TypeOK, ConsumeRecorded
<1>4. "stop" \notin overlaps' => Unstopped'
  BY DEF IInv, Unstopped, TypeOK, Stopped, ConsumeRecorded
<1>5. NoDeliveryAfterStop'
  BY <1>1 DEF IInv, NoDeliveryAfterStop, Unstopped, TypeOK, Stopped, ConsumeRecorded
<1>6. "open" \notin overlaps' => Attachment'
  BY <1>1, RecoveryAssumption DEF IInv, Attachment, Live, TypeOK, Stopped, ConsumeRecorded
<1>. QED  BY <1>2, <1>3, <1>4, <1>5, <1>6 DEF IInv

\* A loop that ends.
LEMMA LoopEndsKeeps == ASSUME IInv, NEW s \in Subs, NEW i, LoopEnds(s, i) PROVE IInv'
<1>1. /\ ch' \in [Subs -> Seq(Chan)]
      /\ \A t \in Subs : /\ Consuming(t)' = Consuming(t) /\ Len(ch'[t]) = Len(ch[t])
                         /\ Looping(t)' \subseteq Looping(t)
                         /\ \A j \in DOMAIN ch[t] : ch'[t][j].gen = ch[t][j].gen
  <2>. DEFINE b == FALSE
  <2>1. ch' = Loop(s, i, b) /\ TypeOK /\ b \in BOOLEAN /\ ~b
    BY DEF LoopEnds, Loop, IInv
  <2>. HIDE DEF b
  <2>. QED  BY <2>1, Looped
<1>2. TypeOK'
  BY <1>1, RecoveryAssumption DEF IInv, TypeOK, Stopped, LoopEnds
<1>3. Live'
  <2>1. \A t \in Subs : Consuming(t) \subseteq DOMAIN ch[t]
    BY DEF Consuming
  <2>. QED  BY <1>1, <2>1, SMT DEF IInv, Live, TypeOK, LoopEnds
<1>4. "stop" \notin overlaps' => Unstopped'
  BY DEF IInv, Unstopped, TypeOK, Stopped, LoopEnds
<1>5. NoDeliveryAfterStop'
  BY <1>1 DEF IInv, NoDeliveryAfterStop, Unstopped, TypeOK, Stopped, LoopEnds
<1>6. "open" \notin overlaps' => Attachment'
  BY <1>1, RecoveryAssumption, SMT DEF IInv, Attachment, Live, TypeOK, Stopped, LoopEnds
<1>. QED  BY <1>2, <1>3, <1>4, <1>5, <1>6 DEF IInv

-----------------------------------------------------------------------------
(* The steps of Stop and Close *)

\* A Stop that begins while its subscription is being reattached is an overlap.
LEMMA StopBeginKeeps == ASSUME IInv, NEW s \in Subs, StopBegin(s) PROVE IInv'
<1>1. ch' = ch /\ \A t \in Subs : Consuming(t)' = Consuming(t) /\ Looping(t)' = Looping(t)
  BY Same DEF IInv, StopBegin
<1>2. TypeOK'
  BY <1>1, RecoveryAssumption DEF IInv, TypeOK, Stopped, StopBegin, Overlap
<1>3. Live'
  BY <1>1, SMT DEF IInv, Live, TypeOK, StopBegin, Overlap
<1>4. "stop" \notin overlaps' => Unstopped'
  BY DEF IInv, Unstopped, TypeOK, Stopped, StopBegin, Overlap
<1>5. NoDeliveryAfterStop'
  BY <1>1 DEF IInv, NoDeliveryAfterStop, Unstopped, TypeOK, Stopped, StopBegin, Overlap
<1>6. "open" \notin overlaps' => Attachment'
  BY <1>1, RecoveryAssumption DEF IInv, Attachment, Live, TypeOK, Stopped, StopBegin, Overlap
<1>. QED  BY <1>2, <1>3, <1>4, <1>5, <1>6 DEF IInv

\* The channel Stop has read is cancelled.
LEMMA StopCancelsKeeps == ASSUME IInv, NEW s \in Subs, StopCancels(s) PROVE IInv'
<1>1. /\ ch' \in [Subs -> Seq(Chan)]
      /\ \A t \in Subs : /\ Consuming(t)' \subseteq Consuming(t)
                         /\ t # s => Consuming(t)' = Consuming(t)
                         /\ Looping(t)' = Looping(t) /\ Len(ch'[t]) = Len(ch[t])
                         /\ \A j \in DOMAIN ch[t] : ch'[t][j].gen = ch[t][j].gen
  <2>1. ch' = Cancel(s, on[s])
    BY DEF StopCancels, Cancel
  <2>. QED  BY <2>1, Cancelled DEF IInv
<1>2. TypeOK'
  BY <1>1, RecoveryAssumption DEF IInv, TypeOK, Stopped, StopCancels
<1>3. Live'
  <2>1. \A t \in Subs : Consuming(t) \subseteq DOMAIN ch[t]
    BY DEF Consuming
  <2>. QED  BY <1>1, <2>1, SMT DEF IInv, Live, TypeOK, StopCancels
<1>4. "stop" \notin overlaps' => Unstopped'
  BY DEF IInv, Unstopped, TypeOK, Stopped, StopCancels
<1>5. NoDeliveryAfterStop'
  BY <1>1 DEF IInv, NoDeliveryAfterStop, Unstopped, TypeOK, Stopped, StopCancels
<1>6. "open" \notin overlaps' => Attachment'
  BY <1>1, RecoveryAssumption, SMT DEF IInv, Attachment, Live, TypeOK, Stopped, StopCancels
<1>. QED  BY <1>2, <1>3, <1>4, <1>5, <1>6 DEF IInv

\* No loop is left.
LEMMA StopReturnsKeeps == ASSUME IInv, NEW s \in Subs, StopReturns(s) PROVE IInv'
<1>1. ch' = ch /\ \A t \in Subs : Consuming(t)' = Consuming(t) /\ Looping(t)' = Looping(t)
  BY Same DEF IInv, StopReturns
<1>2. TypeOK'
  BY <1>1, RecoveryAssumption DEF IInv, TypeOK, Stopped, StopReturns
<1>3. Live'
  BY <1>1, SMT DEF IInv, Live, TypeOK, StopReturns
<1>4. "stop" \notin overlaps' => Unstopped'
  BY DEF IInv, Unstopped, TypeOK, Stopped, StopReturns
<1>5. NoDeliveryAfterStop'
  BY <1>1 DEF IInv, NoDeliveryAfterStop, Unstopped, TypeOK, Stopped, StopReturns
<1>6. "open" \notin overlaps' => Attachment'
  BY <1>1, RecoveryAssumption DEF IInv, Attachment, Live, TypeOK, Stopped, StopReturns
<1>. QED  BY <1>2, <1>3, <1>4, <1>5, <1>6 DEF IInv

\* The channel is closed.
LEMMA CloseChannelKeeps == ASSUME IInv, NEW s \in Subs, CloseChannel(s) PROVE IInv'
<1>1. /\ ch' \in [Subs -> Seq(Chan)]
      /\ \A t \in Subs : /\ Consuming(t)' \subseteq Consuming(t)
                         /\ t # s => Consuming(t)' = Consuming(t)
                         /\ Looping(t)' = Looping(t) /\ Len(ch'[t]) = Len(ch[t])
                         /\ \A j \in DOMAIN ch[t] : ch'[t][j].gen = ch[t][j].gen
  <2>1. ch' = Cancel(s, cur[s])
    BY DEF CloseChannel, Cancel
  <2>. QED  BY <2>1, Cancelled DEF IInv
<1>2. TypeOK'
  BY <1>1, RecoveryAssumption DEF IInv, TypeOK, Stopped, CloseChannel
<1>3. Live'
  <2>1. \A t \in Subs : Consuming(t) \subseteq DOMAIN ch[t]
    BY DEF Consuming
  <2>. QED  BY <1>1, <2>1, SMT DEF IInv, Live, TypeOK, CloseChannel
<1>4. "stop" \notin overlaps' => Unstopped'
  BY DEF IInv, Unstopped, TypeOK, Stopped, CloseChannel
<1>5. NoDeliveryAfterStop'
  BY <1>1 DEF IInv, NoDeliveryAfterStop, Unstopped, TypeOK, Stopped, CloseChannel
<1>6. "open" \notin overlaps' => Attachment'
  BY <1>1, RecoveryAssumption, SMT DEF IInv, Attachment, Live, TypeOK, Stopped, CloseChannel
<1>. QED  BY <1>2, <1>3, <1>4, <1>5, <1>6 DEF IInv

-----------------------------------------------------------------------------
(* The steps of recovery *)

\* All channels go, and nobody was opening one unless that is an overlap.
LEMMA ConnectionLostKeeps == ASSUME IInv, ConnectionLost PROVE IInv'
<1>1. /\ ch' \in [Subs -> Seq(Chan)]
      /\ \A t \in Subs : Consuming(t)' = {} /\ Looping(t)' = Looping(t)
  BY Down DEF IInv, ConnectionLost
<1>2. TypeOK'
  BY <1>1, RecoveryAssumption, Zenon DEF IInv, TypeOK, Stopped, ConnectionLost
<1>3. Live'
  BY <1>1 DEF IInv, Live, TypeOK, ConnectionLost
<1>4. "stop" \notin overlaps' => Unstopped'
  BY DEF IInv, Unstopped, TypeOK, Stopped, ConnectionLost
<1>5. NoDeliveryAfterStop'
  BY <1>1 DEF IInv, NoDeliveryAfterStop, Unstopped, TypeOK, Stopped, ConnectionLost
<1>6. "open" \notin overlaps' => Attachment'
  BY <1>1, RecoveryAssumption DEF IInv, Attachment, Live, TypeOK, Stopped, ConnectionLost
<1>. QED  BY <1>2, <1>3, <1>4, <1>5, <1>6 DEF IInv

\* Recovery begins, on a connection that has gone.
LEMMA SeeLossKeeps == ASSUME IInv, SeeLoss PROVE IInv'
<1>1. ch' = ch /\ \A t \in Subs : Consuming(t)' = Consuming(t) /\ Looping(t)' = Looping(t)
  BY Same DEF IInv, SeeLoss
<1>2. TypeOK'
  BY <1>1, RecoveryAssumption DEF IInv, TypeOK, Stopped, SeeLoss
<1>3. Live'
  BY <1>1, SMT DEF IInv, Live, TypeOK, SeeLoss
<1>4. "stop" \notin overlaps' => Unstopped'
  BY DEF IInv, Unstopped, TypeOK, Stopped, SeeLoss
<1>5. NoDeliveryAfterStop'
  BY <1>1 DEF IInv, NoDeliveryAfterStop, Unstopped, TypeOK, Stopped, SeeLoss
<1>6. "open" \notin overlaps' => Attachment'
  BY <1>1, RecoveryAssumption DEF IInv, Attachment, Live, TypeOK, Stopped, SeeLoss
<1>. QED  BY <1>2, <1>3, <1>4, <1>5, <1>6 DEF IInv

\* Recovery ends.
LEMMA SeeCloseKeeps == ASSUME IInv, SeeClose PROVE IInv'
<1>1. ch' = ch /\ \A t \in Subs : Consuming(t)' = Consuming(t) /\ Looping(t)' = Looping(t)
  BY Same DEF IInv, SeeClose
<1>2. TypeOK'
  BY <1>1, RecoveryAssumption DEF IInv, TypeOK, Stopped, SeeClose
<1>3. Live'
  BY <1>1, SMT DEF IInv, Live, TypeOK, SeeClose
<1>4. "stop" \notin overlaps' => Unstopped'
  BY DEF IInv, Unstopped, TypeOK, Stopped, SeeClose
<1>5. NoDeliveryAfterStop'
  BY <1>1 DEF IInv, NoDeliveryAfterStop, Unstopped, TypeOK, Stopped, SeeClose
<1>6. "open" \notin overlaps' => Attachment'
  BY <1>1, RecoveryAssumption DEF IInv, Attachment, Live, TypeOK, Stopped, SeeClose
<1>. QED  BY <1>2, <1>3, <1>4, <1>5, <1>6 DEF IInv

\* Nothing consumes on the new connection.
LEMMA SwapKeeps == ASSUME IInv, Swap PROVE IInv'
<1>1. ch' = ch /\ \A t \in Subs : Consuming(t)' = Consuming(t) /\ Looping(t)' = Looping(t)
  BY Same DEF IInv, Swap
<1>2. TypeOK'
  BY <1>1, RecoveryAssumption, SMT DEF IInv, TypeOK, Stopped, Swap
<1>3. Live'
  BY <1>1, SMT DEF IInv, Live, TypeOK, Swap
<1>4. "stop" \notin overlaps' => Unstopped'
  BY DEF IInv, Unstopped, TypeOK, Stopped, Swap
<1>5. NoDeliveryAfterStop'
  BY <1>1 DEF IInv, NoDeliveryAfterStop, Unstopped, TypeOK, Stopped, Swap
<1>6. "open" \notin overlaps' => Attachment'
  BY <1>1, RecoveryAssumption, SMT DEF IInv, Attachment, Live, TypeOK, Stopped, Swap
<1>. QED  BY <1>2, <1>3, <1>4, <1>5, <1>6 DEF IInv

\* Everything open is on the list.
LEMMA RedeclaredKeeps == ASSUME IInv, Redeclared PROVE IInv'
<1>1. ch' = ch /\ \A t \in Subs : Consuming(t)' = Consuming(t) /\ Looping(t)' = Looping(t)
  BY Same DEF IInv, Redeclared
<1>2. TypeOK'
  BY <1>1, RecoveryAssumption DEF IInv, TypeOK, Stopped, Redeclared
<1>3. Live'
  BY <1>1, SMT DEF IInv, Live, TypeOK, Redeclared
<1>4. "stop" \notin overlaps' => Unstopped'
  BY DEF IInv, Unstopped, TypeOK, Stopped, Redeclared
<1>5. NoDeliveryAfterStop'
  BY <1>1 DEF IInv, NoDeliveryAfterStop, Unstopped, TypeOK, Stopped, Redeclared
<1>6. "open" \notin overlaps' => Attachment'
  BY <1>1, RecoveryAssumption DEF IInv, Attachment, Live, TypeOK, Stopped, Redeclared
<1>. QED  BY <1>2, <1>3, <1>4, <1>5, <1>6 DEF IInv

\* One off the list, unless it is closed.
LEMMA ReattachBeginKeeps == ASSUME IInv, NEW s \in Subs, ReattachBegin(s) PROVE IInv'
<1>1. ch' = ch /\ \A t \in Subs : Consuming(t)' = Consuming(t) /\ Looping(t)' = Looping(t)
  BY Same DEF IInv, ReattachBegin
<1>2. TypeOK'
  BY <1>1, RecoveryAssumption DEF IInv, TypeOK, Stopped, ReattachBegin
<1>3. Live'
  BY <1>1, SMT DEF IInv, Live, TypeOK, ReattachBegin
<1>4. "stop" \notin overlaps' => Unstopped'
  BY DEF IInv, Unstopped, TypeOK, Stopped, ReattachBegin
<1>5. NoDeliveryAfterStop'
  BY <1>1 DEF IInv, NoDeliveryAfterStop, Unstopped, TypeOK, Stopped, ReattachBegin
<1>6. "open" \notin overlaps' => Attachment'
  BY <1>1, RecoveryAssumption DEF IInv, Attachment, Live, TypeOK, Stopped, ReattachBegin
<1>. QED  BY <1>2, <1>3, <1>4, <1>5, <1>6 DEF IInv

\* Its new channel is the only one it consumes from.
LEMMA AttachedKeeps == ASSUME IInv, Attached PROVE IInv'
<1>0. PICK s \in Subs : s = target
  BY DEF IInv, TypeOK, Attached
<1>1. /\ ch' \in [Subs -> Seq(Chan)]
      /\ Len(ch'[s]) = Len(ch[s]) + 1 /\ ch'[s][Len(ch'[s])].gen = gen
      /\ Consuming(s)' = Consuming(s) \cup {Len(ch'[s])}
      /\ \A i \in DOMAIN ch[s] : ch'[s][i] = ch[s][i]
      /\ \A t \in Subs \ {s} : ch'[t] = ch[t] /\ Consuming(t)' = Consuming(t)
      /\ \A t \in Subs : Looping(t)' = Looping(t)
  <2>1. ch' = [ch EXCEPT ![s] = Append(@, Channel(FALSE))]
    BY <1>0 DEF Attached
  <2>. QED  BY <2>1, Appended, Zenon DEF IInv
<1>2. /\ rec = "attach" /\ s \in Subs /\ s = target /\ alive /\ rec' = "start"
      /\ UNCHANGED <<link, todo, target, closing, pc, on, cur, closed, overlaps>>
  BY <1>0 DEF Attached
<1>3. TypeOK'
  BY ONLY IInv, <1>1, <1>2, RecoveryAssumption, Zenon
     DEF IInv, TypeOK, Stopped, link, recovery, closing, sub
<1>4. Live'
  <2>1. \A t \in Subs : Consuming(t) \subseteq DOMAIN ch[t]
    BY DEF Consuming
  <2>2. Live /\ alive /\ gen' = gen /\ alive' = alive /\ rec' # "dial" /\ s \in Subs
    BY ONLY IInv, <1>2, Zenon DEF IInv, Live, link, recovery
  <2>3. \A t \in Subs : \A i \in Consuming(t)' : ch'[t][i].gen = gen
    BY ONLY <1>1, <2>1, <2>2 DEF Live
  <2>. QED  BY ONLY <2>2, <2>3, Zenon DEF Live
<1>5. "stop" \notin overlaps' => Unstopped'
  BY ONLY IInv, <1>1, <1>2, Zenon DEF IInv, Unstopped, TypeOK, Stopped, link, recovery, closing, sub
<1>6. NoDeliveryAfterStop'
  BY ONLY IInv, <1>1, <1>2, Zenon DEF IInv, NoDeliveryAfterStop, Unstopped, TypeOK, Stopped
<1>7. "open" \notin overlaps' => Attachment'
  <2>. SUFFICES ASSUME "open" \notin overlaps' PROVE Attachment'
    OBVIOUS
  <2>1. Attachment /\ Consuming(s) = {} /\ s \notin todo /\ todo \subseteq Subs
    BY ONLY IInv, "open" \notin overlaps', <1>2, Zenon DEF IInv, TypeOK, Attachment
  <2>2. Consuming(s)' = {Len(ch'[s])}
    BY ONLY <1>1, <2>1, Zenon
  <2>. QED  BY ONLY <1>1, <1>2, <2>1, <2>2, Zenon DEF Attachment, link, closing
<1>. QED  BY <1>3, <1>4, <1>5, <1>6, <1>7 DEF IInv

\* Its loop, which nobody has stopped.
LEMMA LoopStartsKeeps == ASSUME IInv, LoopStarts PROVE IInv'
<1>0. PICK s \in Subs : s = target
  BY DEF IInv, TypeOK, LoopStarts
<1>1. /\ ch' \in [Subs -> Seq(Chan)]
      /\ \A t \in Subs : /\ Consuming(t)' = Consuming(t) /\ Len(ch'[t]) = Len(ch[t])
                         /\ t # s => Looping(t)' \subseteq Looping(t)
                         /\ \A j \in DOMAIN ch[t] : ch'[t][j].gen = ch[t][j].gen
  <2>1. ch' = Loop(s, Len(ch[s]), TRUE)
    BY <1>0 DEF LoopStarts, Loop
  <2>. QED  BY <2>1, Looped, Zenon DEF IInv
<1>2. /\ rec = "start" /\ s \in Subs /\ s = target /\ rec' = "restart" /\ target' = None
      /\ cur' = [cur EXCEPT ![s] = Len(ch[s])]
      /\ UNCHANGED <<link, todo, closing, pc, on, closed, overlaps>>
  BY <1>0 DEF LoopStarts
<1>3. TypeOK'
  BY ONLY IInv, <1>1, <1>2, RecoveryAssumption
     DEF IInv, TypeOK, Stopped, link, recovery, closing, sub
<1>4. Live'
  <2>1. \A t \in Subs : Consuming(t) \subseteq DOMAIN ch[t]
    BY DEF Consuming
  <2>2. Live /\ gen' = gen /\ alive' = alive /\ rec' # "dial" /\ s \in Subs
    BY ONLY IInv, <1>2, Zenon DEF IInv, Live, link, recovery
  <2>3. \A t \in Subs : \A i \in Consuming(t)' : ch'[t][i].gen = gen
    BY ONLY <1>1, <2>1, <2>2, Zenon DEF Live
  <2>. QED  BY ONLY <1>1, <2>2, <2>3, Zenon DEF Live
<1>5. "stop" \notin overlaps' => Unstopped'
  BY ONLY IInv, <1>1, <1>2, Zenon DEF IInv, Unstopped, TypeOK, Stopped, link, recovery, closing, sub
<1>6. NoDeliveryAfterStop'
  BY ONLY IInv, <1>1, <1>2, Zenon DEF IInv, NoDeliveryAfterStop, Unstopped, TypeOK, Stopped
<1>7. "open" \notin overlaps' => Attachment'
  BY ONLY IInv, <1>1, <1>2, RecoveryAssumption, Zenon
     DEF IInv, Attachment, Live, TypeOK, Stopped, link, recovery, closing, sub
<1>. QED  BY <1>3, <1>4, <1>5, <1>6, <1>7 DEF IInv

\* The new connection goes with all its channels.
LEMMA RecoveryFailsKeeps == ASSUME IInv, RecoveryFails PROVE IInv'
<1>1. /\ ch' \in [Subs -> Seq(Chan)]
      /\ \A t \in Subs : Consuming(t)' = {} /\ Looping(t)' = Looping(t)
  BY Down DEF IInv, RecoveryFails
<1>2. TypeOK'
  BY <1>1, RecoveryAssumption, Zenon DEF IInv, TypeOK, Stopped, RecoveryFails
<1>3. Live'
  BY <1>1 DEF IInv, Live, TypeOK, RecoveryFails
<1>4. "stop" \notin overlaps' => Unstopped'
  BY DEF IInv, Unstopped, TypeOK, Stopped, RecoveryFails
<1>5. NoDeliveryAfterStop'
  BY <1>1 DEF IInv, NoDeliveryAfterStop, Unstopped, TypeOK, Stopped, RecoveryFails
<1>6. "open" \notin overlaps' => Attachment'
  BY <1>1, RecoveryAssumption DEF IInv, Attachment, Live, TypeOK, Stopped, RecoveryFails
<1>. QED  BY <1>2, <1>3, <1>4, <1>5, <1>6 DEF IInv

\* The list is empty, so everything open consumes.
LEMMA RegisteredKeeps == ASSUME IInv, Registered PROVE IInv'
<1>1. ch' = ch /\ \A t \in Subs : Consuming(t)' = Consuming(t) /\ Looping(t)' = Looping(t)
  BY Same DEF IInv, Registered
<1>2. TypeOK'
  BY <1>1, RecoveryAssumption DEF IInv, TypeOK, Stopped, Registered
<1>3. Live'
  BY <1>1, SMT DEF IInv, Live, TypeOK, Registered
<1>4. "stop" \notin overlaps' => Unstopped'
  BY DEF IInv, Unstopped, TypeOK, Stopped, Registered
<1>5. NoDeliveryAfterStop'
  BY <1>1 DEF IInv, NoDeliveryAfterStop, Unstopped, TypeOK, Stopped, Registered
<1>6. "open" \notin overlaps' => Attachment'
  BY <1>1, RecoveryAssumption DEF IInv, Attachment, Live, TypeOK, Stopped, Registered
<1>. QED  BY <1>2, <1>3, <1>4, <1>5, <1>6 DEF IInv

-----------------------------------------------------------------------------
(* Close of the transport *)

\* Close of the transport begins.
LEMMA TransportCloseKeeps == ASSUME IInv, TransportClose PROVE IInv'
<1>1. ch' = ch /\ \A t \in Subs : Consuming(t)' = Consuming(t) /\ Looping(t)' = Looping(t)
  BY Same DEF IInv, TransportClose
<1>2. TypeOK'
  BY <1>1, RecoveryAssumption DEF IInv, TypeOK, Stopped, TransportClose
<1>3. Live'
  BY <1>1, SMT DEF IInv, Live, TypeOK, TransportClose
<1>4. "stop" \notin overlaps' => Unstopped'
  BY DEF IInv, Unstopped, TypeOK, Stopped, TransportClose
<1>5. NoDeliveryAfterStop'
  BY <1>1 DEF IInv, NoDeliveryAfterStop, Unstopped, TypeOK, Stopped, TransportClose
<1>6. "open" \notin overlaps' => Attachment'
  BY <1>1, RecoveryAssumption DEF IInv, Attachment, Live, TypeOK, Stopped, TransportClose
<1>. QED  BY <1>2, <1>3, <1>4, <1>5, <1>6 DEF IInv

\* Its connection goes.
LEMMA TransportClosedKeeps == ASSUME IInv, TransportClosed PROVE IInv'
<1>1. /\ ch' \in [Subs -> Seq(Chan)]
      /\ \A t \in Subs : Consuming(t)' = {} /\ Looping(t)' = Looping(t)
  BY Down DEF IInv, TransportClosed
<1>2. TypeOK'
  BY <1>1, RecoveryAssumption, Zenon DEF IInv, TypeOK, Stopped, TransportClosed
<1>3. Live'
  BY <1>1 DEF IInv, Live, TypeOK, TransportClosed
<1>4. "stop" \notin overlaps' => Unstopped'
  BY DEF IInv, Unstopped, TypeOK, Stopped, TransportClosed
<1>5. NoDeliveryAfterStop'
  BY <1>1 DEF IInv, NoDeliveryAfterStop, Unstopped, TypeOK, Stopped, TransportClosed
<1>6. "open" \notin overlaps' => Attachment'
  BY <1>1, RecoveryAssumption DEF IInv, Attachment, Live, TypeOK, Stopped, TransportClosed
<1>. QED  BY <1>2, <1>3, <1>4, <1>5, <1>6 DEF IInv

-----------------------------------------------------------------------------
(* The theorems *)

\* Every step keeps the invariant.
LEMMA NextKeeps == ASSUME IInv, [Next]_vars PROVE IInv'
<1>1. ASSUME UNCHANGED vars PROVE IInv'
  <2>1. UNCHANGED <<gen, alive, rec, todo, target, subs, tclose, taken, pc, on, ch, cur, closed, overlaps>>
    BY <1>1 DEF vars
  <2>2. \A s \in Subs : Consuming(s)' = Consuming(s) /\ Looping(s)' = Looping(s)
    BY <2>1, Same
  <2>3. TypeOK' /\ Unstopped' = Unstopped
    BY ONLY IInv, <2>1, Zenon DEF IInv, TypeOK, Unstopped
  <2>4. Live'
    BY ONLY IInv, <2>1, <2>2, Zenon DEF IInv, Live
  <2>5. NoDeliveryAfterStop'
    BY ONLY IInv, <2>1, <2>2, Zenon DEF IInv, NoDeliveryAfterStop
  <2>6. "open" \notin overlaps' => Attachment'
    <3>. SUFFICES ASSUME "open" \notin overlaps' PROVE Attachment'
      OBVIOUS
    <3>1. Attachment
      BY ONLY IInv, "open" \notin overlaps', <2>1, Zenon DEF IInv
    <3>2. todo \subseteq Subs
      BY ONLY IInv, Zenon DEF IInv, TypeOK
    <3>. QED  BY ONLY <2>1, <2>2, <3>1, <3>2, Zenon DEF Attachment
  <2>. QED  BY ONLY IInv, <2>1, <2>3, <2>4, <2>5, <2>6, Zenon DEF IInv
<1>2. ASSUME NEW s \in Subs, ConsumeStep(s) PROVE IInv'
  BY <1>2, ConsumeBeginKeeps, ConsumeOpenedKeeps, ConsumeFailsKeeps, ConsumeRecordedKeeps
     DEF ConsumeStep
<1>3. ASSUME NEW s \in Subs, StopStep(s) \/ LoopStep(s) PROVE IInv'
  BY <1>3, StopCancelsKeeps, StopReturnsKeeps, CloseChannelKeeps, LoopEndsKeeps
     DEF StopStep, LoopStep
<1>4. ASSUME ReattachStep PROVE IInv'
  BY <1>4, RedeclaredKeeps, ReattachBeginKeeps, AttachedKeeps, LoopStartsKeeps, RegisteredKeeps
     DEF ReattachStep
<1>5. ASSUME RecoveryStep PROVE IInv'
  BY <1>4, <1>5, SeeLossKeeps, SeeCloseKeeps, SwapKeeps, RecoveryFailsKeeps DEF RecoveryStep
<1>. QED  BY <1>1, <1>2, <1>3, <1>5, StopBeginKeeps, ConnectionLostKeeps, TransportCloseKeeps,
             TransportClosedKeeps DEF Next

\* The inductive invariant of Consume, Stop, recover and Close.
THEOREM RecoveryInvariant == Spec => []IInv
<1>1. Init => IInv
  <2>. SUFFICES ASSUME Init PROVE IInv
    OBVIOUS
  <2>1. \A s \in Subs : ch[s] = <<>> /\ Consuming(s) = {} /\ Looping(s) = {}
    BY DEF Init, Consuming, Looping
  <2>2. TypeOK
    BY RecoveryAssumption DEF Init, TypeOK, Stopped
  <2>3. Live /\ Unstopped /\ NoDeliveryAfterStop
    BY <2>1 DEF Init, Live, Unstopped, NoDeliveryAfterStop
  <2>4. Attachment
    BY <2>1 DEF Init, Attachment
  <2>. QED  BY <2>2, <2>3, <2>4 DEF IInv
<1>. QED  BY <1>1, NextKeeps, PTL DEF Spec

\* No loop hands out deliveries once Stop has returned, unless Stop overlapped
\* the reattachment of its own subscription (Stop, reattach).
THEOREM StopIsFinal == Spec => []NoDeliveryAfterStop
<1>1. IInv => NoDeliveryAfterStop
  BY DEF IInv
<1>. QED  BY <1>1, RecoveryInvariant, PTL

\* A subscription consumes on one channel, and on one when its connection has
\* been recovered, unless a Consume overlapped a recovery (restartConsumers).
THEOREM ConsumesOnce == Spec => []OneConsumer
<1>1. IInv => OneConsumer
  <2>. SUFFICES ASSUME IInv, "open" \notin overlaps, NEW s \in Subs
                PROVE  /\ Cardinality(Consuming(s)) <= 1
                       /\ alive /\ rec = "watch" /\ tclose = "no" /\ pc[s] = "open"
                            => Consuming(s) # {}
    BY DEF OneConsumer
  <2>1. Attachment
    BY DEF IInv
  <2>2. Consuming(s) \subseteq {Len(ch[s])}
    BY <2>1 DEF Attachment
  <2>3. Cardinality(Consuming(s)) <= 1
    <3>1. IsFiniteSet({Len(ch[s])}) /\ Cardinality({Len(ch[s])}) = 1
      BY FS_Singleton, Zenon
    <3>. QED  BY <2>2, <3>1, FS_Subset
  <2>. QED  BY <2>1, <2>3 DEF Attachment
<1>. QED  BY <1>1, RecoveryInvariant, PTL

-----------------------------------------------------------------------------
(* Where a stream reader carries on (streamPosition) *)

\* Removing one delivery from those held keeps every other (Ack and Nack).
LEMMA RemoveKeeps ==
    ASSUME NEW S, NEW s \in Seq(S), NEW i \in DOMAIN s
    PROVE  /\ Without(s, i) \in Seq(S)
           /\ \A j \in DOMAIN s : j # i => \E k \in DOMAIN Without(s, i) : Without(s, i)[k] = s[j]
           /\ \A k \in DOMAIN Without(s, i) : \E j \in DOMAIN s : Without(s, i)[k] = s[j]
<1> DEFINE r == Without(s, i)
           a == SubSeq(s, 1, i - 1)
           b == SubSeq(s, i + 1, Len(s))
<1>1. i \in 1..Len(s) /\ Len(s) \in Nat /\ i \in Int
  OBVIOUS
<1>a. \A j \in 1..Len(s) : s[j] \in S
  OBVIOUS
<1>b. a \in Seq(S) /\ Len(a) = i - 1 /\ \A k \in 1..i - 1 : a[k] = s[k]
  <2>1. \A j \in 1..i - 1 : s[j] \in S
    BY <1>1, <1>a
  <2>2. /\ a \in Seq(S) /\ Len(a) = IF 1 <= i - 1 THEN (i - 1) - 1 + 1 ELSE 0
        /\ \A k \in 1..(i - 1) - 1 + 1 : a[k] = s[1 + k - 1]
    <3>1. 1 \in Int /\ i - 1 \in Int
      BY <1>1
    <3> QED
      BY <2>1, <3>1, SubSeqProperties, SMT
  <2>3. Len(a) = i - 1 /\ \A k \in 1..i - 1 : k \in 1..(i - 1) - 1 + 1 /\ 1 + k - 1 = k
    BY <2>2, <1>1
  <2> QED
    BY <2>2, <2>3
<1>c. b \in Seq(S) /\ Len(b) = Len(s) - i /\ \A k \in 1..Len(s) - i : b[k] = s[i + k]
  <2>1. \A j \in (i + 1)..Len(s) : s[j] \in S
    BY <1>1, <1>a
  <2>2. /\ b \in Seq(S) /\ Len(b) = IF i + 1 <= Len(s) THEN Len(s) - (i + 1) + 1 ELSE 0
        /\ \A k \in 1..Len(s) - (i + 1) + 1 : b[k] = s[(i + 1) + k - 1]
    <3>1. i + 1 \in Int /\ Len(s) \in Int
      BY <1>1
    <3> QED
      BY <2>1, <3>1, SubSeqProperties, SMT
  <2>3. Len(b) = Len(s) - i
    BY <2>2, <1>1
  <2>4. \A k \in 1..Len(s) - i : k \in 1..Len(s) - (i + 1) + 1 /\ (i + 1) + k - 1 = i + k
    BY <1>1
  <2> QED
    BY <2>2, <2>3, <2>4
<1>d. /\ a \o b \in Seq(S) /\ Len(a \o b) = Len(a) + Len(b)
      /\ \A k \in 1..Len(a) + Len(b) : (a \o b)[k] = IF k <= Len(a) THEN a[k] ELSE b[k - Len(a)]
  BY <1>b, <1>c, ConcatProperties
<1>e. r = a \o b
  BY DEF Without
<1> HIDE DEF a, b
<1> HIDE DEF r
<1>2. r \in Seq(S) /\ Len(r) = Len(s) - 1
  <2>1. Len(a) = i - 1 /\ Len(b) = Len(s) - i
    BY <1>b, <1>c
  <2>2. Len(a) + Len(b) = Len(s) - 1
    BY <2>1, <1>1
  <2>3. r \in Seq(S) /\ Len(r) = Len(a) + Len(b)
    BY <1>d, <1>e
  <2> QED
    BY <2>2, <2>3
<1>3. \A k \in 1..Len(r) : r[k] = IF k < i THEN s[k] ELSE s[k + 1]
  <2> SUFFICES ASSUME NEW k \in 1..Len(r)
               PROVE  r[k] = IF k < i THEN s[k] ELSE s[k + 1]
    OBVIOUS
  <2>1. k \in 1..Len(a) + Len(b)
    BY <1>1, <1>2, <1>b, <1>c, SMT
  <2>2. CASE k < i
    <3>1. k \in 1..i - 1 /\ k <= Len(a)
      BY <2>2, <1>1, <1>2, <1>b
    <3> QED
      BY <2>1, <2>2, <3>1, <1>b, <1>d, <1>e
  <2>3. CASE ~(k < i)
    <3>1. ~(k <= Len(a)) /\ k - Len(a) \in 1..Len(s) - i /\ i + (k - Len(a)) = k + 1
      BY <2>3, <1>1, <1>2, <1>b
    <3>2. r[k] = b[k - Len(a)]
      BY <2>1, <3>1, <1>d, <1>e
    <3>3. b[k - Len(a)] = s[i + (k - Len(a))]
      BY <3>1, <1>c
    <3> QED
      BY <2>3, <3>1, <3>2, <3>3
  <2> QED
    BY <2>2, <2>3
<1>f. DOMAIN r = 1..Len(r) /\ DOMAIN s = 1..Len(s)
  BY <1>2
<1>4. \A j \in DOMAIN s : j # i => \E k \in DOMAIN r : r[k] = s[j]
  <2> SUFFICES ASSUME NEW j \in 1..Len(s), j # i
               PROVE  \E k \in 1..Len(r) : r[k] = s[j]
    BY <1>f
  <2>1. CASE j < i
    BY <2>1, <1>1, <1>2, <1>3
  <2>2. CASE j > i
    <3>1. j - 1 \in 1..Len(r) /\ ~(j - 1 < i) /\ (j - 1) + 1 = j
      BY <2>2, <1>1, <1>2
    <3> QED
      BY <3>1, <1>3
  <2> QED
    BY <2>1, <2>2, <1>1
<1>5. \A k \in DOMAIN r : \E j \in DOMAIN s : r[k] = s[j]
  <2> SUFFICES ASSUME NEW k \in 1..Len(r)
               PROVE  \E j \in 1..Len(s) : r[k] = s[j]
    BY <1>f
  <2>1. k \in 1..Len(s) /\ k + 1 \in 1..Len(s)
    BY <1>1, <1>2
  <2> QED
    BY <2>1, <1>3
<1> QED
  BY <1>2, <1>4, <1>5 DEF r

\* A set of natural numbers that is not empty has a least element (the entry
\* the loop of resume ends with).
LEMMA SmallestNat ==
    ASSUME NEW S \in SUBSET Nat, S # {}
    PROVE  \E x \in S : \A y \in S : x <= y
<1> DEFINE R == {ss \in Nat \X Nat : ss[1] < ss[2]}
<1>1. IsWellFoundedOn(R, Nat)
  BY NatLessThanWellFounded DEF OpToRel
<1>2. PICK x \in S : \A y \in S : ~(<<y, x>> \in R)
  <2> HIDE DEF R
  <2> QED
    BY <1>1, WFMin, Zenon
<1>3. \A y \in S : x <= y
  <2> SUFFICES ASSUME NEW y \in S
               PROVE  x <= y
    OBVIOUS
  <2>1. x \in Nat /\ y \in Nat /\ <<y, x>> \in Nat \X Nat
    OBVIOUS
  <2>2. ~(<<y, x>>[1] < <<y, x>>[2])
    BY <2>1, <1>2
  <2> QED
    BY <2>1, <2>2
<1> QED
  BY <1>3

\* What has been given are entries of the stream (subscription.run).
LEMMA ReachedTypes ==
    ASSUME PositionInv
    PROVE  Reached \subseteq Offsets
<1>1. finished \subseteq Offsets /\ held \in Seq(Copies)
  BY DEF PositionInv, StreamTypeOK
<1>2. \A i \in DOMAIN held : held[i] \in Copies
  BY <1>1
<1>3. \A i \in DOMAIN held : held[i].off \in Offsets
  BY <1>2 DEF Copies
<1> QED
  BY <1>1, <1>3 DEF Reached

\* The offset resume names is an entry that was given, or the one after it, or
\* the beginning.
LEMMA ResumeInReach ==
    ASSUME PositionInv, ~FromNext
    PROVE  /\ ResumeAt \in 0..MaxLog /\ ResumeAt <= log
           /\ \A o \in 0..ResumeAt - 1 : o \in Reached
<1> DEFINE open == {o \in Offsets : pending[o] > 0}
<1>1. MaxLog \in Nat /\ log \in 0..MaxLog /\ settled \in -1..MaxLog - 1
  BY StreamAssumption DEF PositionInv, StreamTypeOK
<1>2. Reached \subseteq Offsets
  BY ReachedTypes
<1>3. CASE open # {}
  <2>1. \E o \in open : \A p \in open : o <= p
    <3>1. open \subseteq Nat
      BY <1>1 DEF Offsets
    <3> QED
      BY <3>1, <1>3, SmallestNat, Zenon
  <2>2. ResumeAt \in open
    BY <1>3, <2>1 DEF ResumeAt
  <2>3. ResumeAt \in Reached /\ ResumeAt \in Offsets
    BY <2>2 DEF PositionInv
  <2> QED
    BY <2>3, <1>1 DEF PositionInv, Offsets
<1>4. CASE open = {} /\ settled >= 0
  <2>1. ResumeAt = settled + 1
    BY <1>4 DEF ResumeAt
  <2>2. settled \in Reached
    BY <1>4, <1>1, SMT DEF PositionInv, Reached
  <2>3. \A o \in 0..settled : o \in Reached
    <3>1. \A o \in 0..settled - 1 : o \in Reached
      BY <2>2 DEF PositionInv
    <3> QED
      BY <3>1, <2>2, <1>1
  <2>4. settled < log
    BY <2>2 DEF PositionInv
  <2> QED
    BY <2>1, <2>3, <2>4, <1>1, <1>4
<1>5. CASE open = {} /\ ~(settled >= 0)
  <2>1. ResumeAt = 0
    BY <1>5 DEF ResumeAt, Start
  <2> QED
    BY <2>1, <1>1
<1> QED
  BY <1>3, <1>4, <1>5

\* A delivery is added to what was given, and nothing is taken from it
\* (subscription.run).
LEMMA DeliveredReach ==
    ASSUME PositionInv, Delivered
    PROVE  Reached' = Reached \cup {cursor} /\ held' \in Seq(Copies)
<1> DEFINE c == [off |-> cursor, chanNo |-> chanNo]
<1>1. held \in Seq(Copies) /\ MaxLog \in Nat /\ cursor \in Nat /\ log \in 0..MaxLog
  BY StreamAssumption, SMT DEF PositionInv, StreamTypeOK
<1>2. c \in Copies /\ c.off = cursor
  BY <1>1, SMT DEF Copies, Delivered, Offsets, PositionInv, StreamTypeOK
<1> HIDE DEF c
<1>3. held' = Append(held, c) /\ finished' = finished
  BY DEF Delivered, c
<1>4. /\ held' \in Seq(Copies) /\ DOMAIN held' = DOMAIN held \cup {Len(held) + 1}
      /\ held'[Len(held) + 1] = c /\ \A i \in DOMAIN held : held'[i] = held[i]
  BY <1>1, <1>2, <1>3
<1> QED
  BY <1>2, <1>3, <1>4, SMT DEF Reached

\* A settlement takes nothing from what was given: the entry is settled instead
\* of held (Ack and Nack in subscription.run).
LEMMA SettleReach ==
    ASSUME PositionInv, NEW i \in 1..Workers, Settle(i), made
    PROVE  /\ Reached' = Reached /\ held' \in Seq(Copies)
           /\ held[i].off \in Reached /\ held[i].off \in Offsets /\ i \in DOMAIN held
<1>1. held \in Seq(Copies) /\ i \in DOMAIN held
  BY DEF PositionInv, StreamTypeOK, Settle
<1>2. held' = Without(held, i) /\ finished' = finished \cup {held[i].off}
  BY DEF Settle
<1>3. /\ held' \in Seq(Copies)
      /\ \A j \in DOMAIN held : j # i => \E k \in DOMAIN held' : held'[k] = held[j]
      /\ \A k \in DOMAIN held' : \E j \in DOMAIN held : held'[k] = held[j]
  BY <1>1, <1>2, RemoveKeeps
<1>4. Reached' \subseteq Reached
  BY <1>1, <1>2, <1>3, SMT DEF Reached
<1>5. Reached \subseteq Reached'
  <2> SUFFICES ASSUME NEW j \in DOMAIN held
               PROVE  held[j].off \in Reached'
    BY <1>2 DEF Reached
  <2>1. CASE j = i
    BY <2>1, <1>2 DEF Reached
  <2>2. CASE j # i
    BY <2>2, <1>3 DEF Reached
  <2> QED
    BY <2>1, <2>2
<1>6. held[i].off \in Reached
  BY <1>1 DEF Reached
<1> QED
  BY <1>1, <1>3, <1>4, <1>5, <1>6, ReachedTypes, Zenon

\* The first subscription has been given nothing (Transport.Consume).
LEMMA PositionInit ==
    ASSUME StreamInit, ~FromNext
    PROVE  PositionInv
<1>1. MaxLog \in Nat \ {0} /\ log \in 0..1 /\ cursor = 0 /\ MaxFails \in Nat
  BY StreamAssumption DEF StreamInit, Start
<1>2. held \in Seq(Copies) /\ DOMAIN held = {}
  BY DEF StreamInit
<1>3. Reached = {}
  BY <1>2 DEF Reached, StreamInit
<1>4. pending \in [Offsets -> Nat] /\ \A o \in Offsets : pending[o] = 0
  BY DEF StreamInit
<1>5. StreamTypeOK
  <2>1. /\ made \in BOOLEAN /\ panicked \in BOOLEAN /\ inOrder \in BOOLEAN
        /\ finished \subseteq Offsets /\ acked \subseteq finished
    BY Zenon DEF StreamInit
  <2>2. log \in 0..MaxLog /\ cursor \in 0..MaxLog /\ lo \in -1..MaxLog - 1 /\ settled \in -1..MaxLog - 1
    BY <1>1 DEF StreamInit
  <2>3. chanNo \in Nat /\ fails \in 0..MaxFails /\ chan \in {"open", "lost", "attaching"}
    BY <1>1 DEF StreamInit
  <2> QED
    BY <1>2, <1>4, <2>1, <2>2, <2>3 DEF StreamTypeOK
<1> QED
  BY <1>1, <1>3, <1>4, <1>5 DEF StreamInit, PositionInv

\* Every step keeps the invariant: one step for each way the subscription, its
\* handlers, the stream and the connection can move.
LEMMA PositionStep ==
    ASSUME PositionInv, [StreamNext]_streamVars, ~FromNext
    PROVE  PositionInv'
<1> USE DEF position, history
<1>1. /\ MaxLog \in Nat \ {0} /\ log \in 0..MaxLog /\ cursor \in 0..MaxLog /\ cursor <= log
      /\ pending \in [Offsets -> Nat] /\ settled \in -1..MaxLog - 1 /\ held \in Seq(Copies)
      /\ chanNo \in Nat /\ lo \in -1..MaxLog - 1 /\ fails \in 0..MaxFails /\ MaxFails \in Nat
  BY StreamAssumption DEF PositionInv, StreamTypeOK
<1>2. Reached \subseteq Offsets
  BY ReachedTypes
<1>3. CASE Append1
  <2>1. Reached' = Reached
    BY <1>3 DEF Append1, Reached
  <2>2. StreamTypeOK'
    BY <1>1, <1>3, SMT DEF Append1, PositionInv, StreamTypeOK
  <2> QED
    BY <1>1, <1>2, <1>3, <2>1, <2>2, SMT DEF Append1, PositionInv, Offsets
<1>4. CASE Delivered
  <2>1. Reached' = Reached \cup {cursor} /\ held' \in Seq(Copies)
    BY <1>4, DeliveredReach
  <2>2. cursor \in Offsets /\ cursor' = cursor + 1 /\ cursor < log
    BY <1>1, <1>4, SMT DEF Delivered, Offsets
  <2>3. pending' \in [Offsets -> Nat] /\ \A o \in Offsets : pending'[o] > 0 => pending[o] > 0 \/ o = cursor
    BY <1>1, <1>4, <2>2, SMT DEF Delivered
  <2>4. lo' \in -1..MaxLog - 1
    BY <1>1, <1>4, <2>2, SMT DEF Delivered, Offsets
  <2>5. made' \in BOOLEAN
    BY <1>4 DEF Delivered
  <2>6. StreamTypeOK'
    BY <1>1, <1>4, <2>1, <2>2, <2>3, <2>4, <2>5, SMT DEF Delivered, PositionInv, StreamTypeOK
  <2>7. cursor' <= log' /\ \A o \in Reached' : o < log'
    BY <1>1, <1>4, <2>1, <2>2 DEF Delivered, PositionInv
  <2>8. \A o \in 0..cursor' - 1 : o \in Reached'
    BY <1>1, <2>1, <2>2, SMT DEF PositionInv
  <2>9. \A o \in Reached' : \A p \in 0..o - 1 : p \in Reached'
    BY <1>1, <2>1, <2>2 DEF PositionInv
  <2>10. \A o \in Offsets : pending'[o] > 0 => o \in Reached'
    BY <2>1, <2>3 DEF PositionInv
  <2>11. settled' = -1 \/ settled' \in finished'
    BY <1>4 DEF Delivered, PositionInv
  <2> QED
    BY <2>6, <2>7, <2>8, <2>9, <2>10, <2>11 DEF PositionInv
<1>5. ASSUME NEW i \in 1..Workers, Settle(i)
      PROVE  PositionInv'
  <2>1. CASE ~made
    <3>1. /\ Reached' = Reached /\ panicked' = TRUE
          /\ UNCHANGED <<log, chan, chanNo, cursor, held, made, pending, settled, fails, lo, finished, acked, inOrder>>
      BY <1>5, <2>1 DEF Settle, Reached
    <3>2. StreamTypeOK'
      BY <3>1 DEF PositionInv, StreamTypeOK
    <3> QED
      BY <3>1, <3>2 DEF PositionInv
  <2>2. CASE made
    <3> DEFINE d == held[i]
    <3>1. /\ Reached' = Reached /\ held' \in Seq(Copies)
          /\ d.off \in Reached /\ d.off \in Offsets /\ i \in DOMAIN held
      BY <1>5, <2>2, SettleReach
    <3>2. /\ UNCHANGED <<log, chan, chanNo, cursor, fails, lo, made, panicked>>
          /\ pending' = [pending EXCEPT ![d.off] = IF @ <= 1 THEN 0 ELSE @ - 1]
          /\ settled' = IF d.off > settled THEN d.off ELSE settled
          /\ finished' = finished \cup {d.off}
          /\ inOrder' = (inOrder /\ i = 1)
          /\ acked' = IF chan = "open" /\ d.chanNo = chanNo THEN acked \cup {d.off} ELSE acked
      BY <1>5, <2>2 DEF Settle
    <3> HIDE DEF d
    <3>3. pending' \in [Offsets -> Nat] /\ \A o \in Offsets : pending'[o] > 0 => pending[o] > 0
      BY <1>1, <3>1, <3>2
    <3>4. settled' \in -1..MaxLog - 1
      BY <1>1, <3>1, <3>2, SMT DEF Offsets
    <3>5. finished' \subseteq Offsets /\ acked' \subseteq finished' /\ inOrder' \in BOOLEAN
      BY <3>1, <3>2 DEF PositionInv, StreamTypeOK
    <3>6. settled' = -1 \/ settled' \in finished'
      BY <3>2 DEF PositionInv
    <3>7. StreamTypeOK'
      BY <3>1, <3>2, <3>3, <3>4, <3>5 DEF PositionInv, StreamTypeOK
    <3>8. \A o \in Offsets : pending'[o] > 0 => o \in Reached'
      BY <3>1, <3>3 DEF PositionInv
    <3> QED
      BY <3>1, <3>2, <3>6, <3>7, <3>8 DEF PositionInv
  <2> QED
    BY <2>1, <2>2 DEF PositionInv, StreamTypeOK
<1>6. CASE ChannelLost \/ Reattached \/ AttachFails
  <2>1. /\ Reached' = Reached
        /\ UNCHANGED <<log, cursor, held, made, pending, settled, panicked, lo, finished, acked, inOrder>>
        /\ chan' \in {"open", "lost", "attaching"} /\ chanNo' \in Nat /\ fails' \in 0..MaxFails
    BY <1>1, <1>6 DEF ChannelLost, Reattached, AttachFails, Reached
  <2>2. StreamTypeOK'
    BY <2>1 DEF PositionInv, StreamTypeOK
  <2> QED
    BY <2>1, <2>2 DEF PositionInv
<1>7. CASE Resume
  <2>1. /\ ResumeAt \in 0..MaxLog /\ ResumeAt <= log
        /\ \A o \in 0..ResumeAt - 1 : o \in Reached
    BY ResumeInReach
  <2>2. /\ UNCHANGED <<log, chanNo, held, settled, fails, panicked, lo, finished, acked, inOrder>>
        /\ chan' = "attaching" /\ cursor' = ResumeAt /\ made' = FALSE
        /\ pending' = [o \in Offsets |-> 0]
    BY <1>7 DEF Resume
  <2>3. Reached' = Reached
    BY <2>2 DEF Reached
  <2>4. pending' \in [Offsets -> Nat] /\ \A o \in Offsets : ~(pending'[o] > 0)
    BY <2>2
  <2> HIDE DEF ResumeAt
  <2>5. StreamTypeOK'
    BY <2>1, <2>2, <2>4, Zenon DEF PositionInv, StreamTypeOK
  <2> QED
    BY <2>1, <2>2, <2>3, <2>4, <2>5 DEF PositionInv
<1>8. CASE UNCHANGED streamVars
  <2>1. Reached' = Reached /\ StreamTypeOK'
    BY <1>8 DEF streamVars, Reached, PositionInv, StreamTypeOK
  <2> QED
    BY <1>8, <2>1 DEF streamVars, PositionInv
<1> QED
  BY <1>3, <1>4, <1>5, <1>6, <1>7, <1>8 DEF StreamNext

\* What resume relies on holds throughout for a reader that began at "first".
THEOREM StreamPositionInv == ~FromNext => (StreamSpec => []PositionInv)
<1> SUFFICES ASSUME ~FromNext
             PROVE  StreamSpec => []PositionInv
  OBVIOUS
<1>1. StreamInit => PositionInv
  BY PositionInit
<1>2. PositionInv /\ [StreamNext]_streamVars => PositionInv'
  BY PositionStep
<1> QED
  BY <1>1, <1>2, PTL DEF StreamSpec

\* A reader that began at "first" passes over no entry, however often its
\* channel is lost and reattach fails.
THEOREM StreamNothingSkipped == ~FromNext => (StreamSpec => []NothingSkipped)
<1> SUFFICES ASSUME ~FromNext
             PROVE  StreamSpec => []NothingSkipped
  OBVIOUS
<1>1. PositionInv => NothingSkipped
  <2> SUFFICES ASSUME PositionInv, NEW o \in Offsets, lo <= o, o < cursor
               PROVE  o \in finished \/ \E i \in DOMAIN held : held[i].off = o
    BY DEF NothingSkipped
  <2>1. o \in 0..cursor - 1
    BY StreamAssumption, SMT DEF PositionInv, StreamTypeOK, Offsets
  <2>2. o \in Reached
    BY <2>1 DEF PositionInv
  <2> QED
    BY <2>2 DEF Reached
<1>2. StreamSpec => []PositionInv
  BY StreamPositionInv
<1> QED
  BY <1>1, <1>2, PTL

\* What is pending came on the channel there is, at most once, and is held.
PendingHeld == \A o \in Offsets :
    /\ pending[o] <= 1
    /\ pending[o] > 0 => made /\ o < cursor
    /\ pending[o] > 0 => \E i \in DOMAIN held : held[i].off = o /\ held[i].chanNo = chanNo

\* All the channel gave past the last settlement is pending, and it began no
\* later than the entry after that.
PendingPastSettled ==
    /\ chan = "attaching" => ~made
    /\ made => \A o \in Offsets : settled < o /\ o < cursor => pending[o] > 0
    /\ ~made /\ chan # "lost" => cursor <= settled + 1

\* Every channel gives its entries in order.
GivenInOrder ==
    /\ \A i \in DOMAIN held : /\ held[i].chanNo <= chanNo
                              /\ chan = "open" /\ held[i].chanNo = chanNo => held[i].off < cursor
    /\ \A j \in DOMAIN held : \A i \in 1..j - 1 :
          held[i].chanNo = held[j].chanNo => held[i].off < held[j].off

\* What is settled has no gaps, and what comes before a delivery is settled or
\* held before it.
SettledNoGaps ==
    /\ \A o \in Offsets : o \in finished <=> o <= settled
    /\ \A j \in DOMAIN held : \A o \in Offsets : o < held[j].off =>
          o <= settled \/ \E i \in 1..j - 1 : held[i].off = o

\* Nothing acknowledged is pending, or will be given, again.
AckedBehind == \A o \in acked :
    /\ \A p \in Offsets : pending[p] > 0 => o < p
    /\ chan # "lost" => o < cursor

\* Why a reader that began at "first" and settles in order resumes exactly.
ResumeInv == inOrder =>
    PendingHeld /\ PendingPastSettled /\ GivenInOrder /\ SettledNoGaps /\ AckedBehind

\* Settling the oldest delivery leaves the others in their order (Ack, Nack).
LEMMA OldestRemoved ==
    ASSUME NEW S, NEW s \in Seq(S), 1 \in DOMAIN s
    PROVE  /\ Len(Without(s, 1)) = Len(s) - 1
           /\ \A k \in 1..Len(s) - 1 : Without(s, 1)[k] = s[k + 1]
<1> DEFINE a == SubSeq(s, 1, 1 - 1)
           b == SubSeq(s, 1 + 1, Len(s))
<1>1. Len(s) \in Nat /\ 1 <= Len(s)
  OBVIOUS
<1>2. a \in Seq(S) /\ Len(a) = 0
  BY SMT
<1>3. b \in Seq(S) /\ Len(b) = Len(s) - 1 /\ \A k \in 1..Len(s) - 1 : b[k] = s[k + 1]
  <2>1. 1 + 1 \in Int /\ Len(s) \in Int /\ \A j \in (1 + 1)..Len(s) : s[j] \in S
    BY <1>1, SMT
  <2>2. /\ b \in Seq(S) /\ Len(b) = IF 1 + 1 <= Len(s) THEN Len(s) - (1 + 1) + 1 ELSE 0
        /\ \A k \in 1..Len(s) - (1 + 1) + 1 : b[k] = s[(1 + 1) + k - 1]
    BY <2>1, SubSeqProperties, SMT
  <2> HIDE DEF b
  <2>3. Len(b) = Len(s) - 1
    <3>1. Len(b) = IF 1 + 1 <= Len(s) THEN Len(s) - (1 + 1) + 1 ELSE 0
      BY <2>2
    <3> QED
      BY ONLY <3>1, <1>1, SMT
  <2>4. \A k \in 1..Len(s) - 1 : k \in 1..Len(s) - (1 + 1) + 1 /\ (1 + 1) + k - 1 = k + 1
    BY <1>1, SMT
  <2> QED
    BY <2>2, <2>3, <2>4
<1>4. /\ Len(a \o b) = Len(a) + Len(b)
      /\ \A k \in 1..Len(a) + Len(b) : (a \o b)[k] = IF k <= Len(a) THEN a[k] ELSE b[k - Len(a)]
  BY <1>2, <1>3, ConcatProperties
<1>5. Without(s, 1) = a \o b
  BY DEF Without
<1> HIDE DEF a, b
<1>6. Len(a) + Len(b) = Len(s) - 1
  BY <1>1, <1>2, <1>3, SMT
<1>7. ASSUME NEW k \in 1..Len(s) - 1
      PROVE  (a \o b)[k] = s[k + 1]
  <2>1. ~(k <= Len(a)) /\ k - Len(a) = k /\ k \in 1..Len(a) + Len(b)
    BY <1>1, <1>2, <1>6, SMT
  <2> QED
    BY <2>1, <1>3, <1>4
<1> QED
  BY <1>4, <1>5, <1>6, <1>7

\* What resume names, for a reader that settled in order: the oldest pending
\* entry, or the one after the last settled; none that was given comes before it
\* and is not settled, and none that was acknowledged comes after it.
LEMMA ResumeExact ==
    ASSUME PositionInv, ResumeInv, inOrder, ~FromNext
    PROVE  /\ ResumeAt <= settled + 1
           /\ \A i \in DOMAIN held : held[i].off \in finished \/ ResumeAt <= held[i].off
           /\ \A o \in acked : o < ResumeAt
<1> DEFINE open == {o \in Offsets : pending[o] > 0}
<1>1. /\ MaxLog \in Nat /\ settled \in -1..MaxLog - 1 /\ cursor \in 0..MaxLog
      /\ acked \subseteq finished /\ finished \subseteq Offsets /\ pending \in [Offsets -> Nat]
      /\ held \in Seq(Copies)
  BY StreamAssumption DEF PositionInv, StreamTypeOK
<1>2. PendingHeld /\ PendingPastSettled /\ SettledNoGaps /\ AckedBehind
  BY DEF ResumeInv
<1>3. \A i \in DOMAIN held : held[i].off \in Offsets
  <2>1. \A i \in DOMAIN held : held[i] \in Copies
    BY <1>1, SMT
  <2> QED
    BY <2>1 DEF Copies
<1>4. CASE open # {}
  <2>1. \E o \in open : \A p \in open : o <= p
    <3>1. open \subseteq Nat
      BY <1>1, SMT DEF Offsets
    <3> QED
      BY <3>1, <1>4, SmallestNat, Zenon
  <2>2. ResumeAt \in open /\ \A p \in open : ResumeAt <= p
    BY <1>4, <2>1 DEF ResumeAt
  <2> HIDE DEF ResumeAt
  <2>3. ResumeAt \in Offsets /\ pending[ResumeAt] > 0 /\ made /\ ResumeAt < cursor
    BY <2>2, <1>2 DEF PendingHeld
  <2>4. \A o \in Offsets : settled < o => ResumeAt <= o
    <3> SUFFICES ASSUME NEW o \in Offsets, settled < o
                 PROVE  ResumeAt <= o
      OBVIOUS
    <3>1. CASE o < cursor
      <4>1. o \in open
        BY <3>1, <2>3, <1>2 DEF PendingPastSettled
      <4> QED
        BY <4>1, <2>2
    <3>2. CASE ~(o < cursor)
      BY <3>2, <2>3, <1>1, SMT DEF Offsets
    <3> QED
      BY <3>1, <3>2
  <2>5. ResumeAt <= settled + 1
    <3>1. CASE settled + 1 \in Offsets
      BY <3>1, <2>4, <1>1, SMT
    <3>2. CASE settled + 1 \notin Offsets
      BY <3>2, <2>3, <1>1, SMT DEF Offsets
    <3> QED
      BY <3>1, <3>2
  <2>6. \A i \in DOMAIN held : held[i].off \in finished \/ ResumeAt <= held[i].off
    <3> SUFFICES ASSUME NEW i \in DOMAIN held, held[i].off \notin finished
                 PROVE  ResumeAt <= held[i].off
      OBVIOUS
    <3> DEFINE o == held[i].off
    <3>1. o \in Offsets /\ ~(o <= settled)
      BY <1>2, <1>3 DEF SettledNoGaps
    <3> HIDE DEF o
    <3>2. settled < o
      BY <3>1, <1>1, SMT DEF Offsets
    <3>3. ResumeAt <= o
      BY <3>1, <3>2, <2>4
    <3> QED
      BY <3>3 DEF o
  <2>7. \A o \in acked : o < ResumeAt
    BY <2>3, <1>2 DEF AckedBehind
  <2> QED
    BY <2>5, <2>6, <2>7
<1>5. CASE open = {}
  <2>1. ResumeAt = settled + 1
    <3>1. CASE settled >= 0
      BY <1>5, <3>1 DEF ResumeAt
    <3>2. CASE ~(settled >= 0)
      <4>1. ResumeAt = 0
        BY <1>5, <3>2 DEF ResumeAt, Start
      <4>2. settled + 1 = 0
        BY <3>2, <1>1, SMT
      <4> QED
        BY <4>1, <4>2
    <3> QED
      BY <3>1, <3>2
  <2> HIDE DEF ResumeAt
  <2>2. \A o \in acked : o <= settled
    BY <1>1, <1>2 DEF SettledNoGaps
  <2>3. \A o \in acked : o < ResumeAt
    BY <2>1, <2>2, <1>1, SMT DEF Offsets
  <2>4. \A i \in DOMAIN held : held[i].off \in finished \/ ResumeAt <= held[i].off
    <3> SUFFICES ASSUME NEW i \in DOMAIN held, held[i].off \notin finished
                 PROVE  ResumeAt <= held[i].off
      OBVIOUS
    <3> DEFINE o == held[i].off
    <3>1. o \in Offsets /\ ~(o <= settled)
      BY <1>2, <1>3 DEF SettledNoGaps
    <3> HIDE DEF o
    <3>2. ResumeAt <= o
      BY <3>1, <2>1, <1>1, SMT DEF Offsets
    <3> QED
      BY <3>2 DEF o
  <2> QED
    BY <2>1, <2>3, <2>4, <1>1, SMT
<1> QED
  BY <1>4, <1>5

\* The first subscription has nothing pending and nothing settled.
LEMMA ResumeInit ==
    ASSUME StreamInit, ~FromNext
    PROVE  ResumeInv
<1>1. MaxLog \in Nat /\ cursor = 0 /\ settled = -1 /\ chan = "open" /\ made = FALSE
  BY StreamAssumption DEF StreamInit, Start
<1>2. DOMAIN held = {} /\ finished = {} /\ acked = {}
  BY DEF StreamInit
<1>3. \A o \in Offsets : pending[o] = 0 /\ ~(o <= -1)
  BY <1>1, SMT DEF StreamInit, Offsets
<1>4. PendingHeld
  BY <1>3, SMT DEF PendingHeld
<1>5. PendingPastSettled
  BY <1>1, SMT DEF PendingPastSettled
<1>6. GivenInOrder /\ SettledNoGaps /\ AckedBehind
  BY <1>1, <1>2, <1>3 DEF GivenInOrder, SettledNoGaps, AckedBehind
<1> QED
  BY <1>4, <1>5, <1>6 DEF ResumeInv

\* A delivery is pending and held, after all that was (streamPosition.delivered).
LEMMA DeliveredResume ==
    ASSUME PositionInv, ResumeInv, inOrder, Delivered
    PROVE  ResumeInv'
<1>1. /\ MaxLog \in Nat /\ settled \in -1..MaxLog - 1 /\ cursor \in 0..MaxLog /\ log \in 0..MaxLog
      /\ acked \subseteq finished /\ finished \subseteq Offsets /\ pending \in [Offsets -> Nat]
      /\ held \in Seq(Copies) /\ chanNo \in Nat
  BY StreamAssumption DEF PositionInv, StreamTypeOK
<1>2. PendingHeld /\ PendingPastSettled /\ GivenInOrder /\ SettledNoGaps /\ AckedBehind
  BY DEF ResumeInv
<1>3. /\ chan = "open" /\ made' = TRUE /\ cursor' = cursor + 1
      /\ UNCHANGED <<chan, chanNo, settled, finished, acked>>
  BY DEF Delivered
<1>4. cursor \in Offsets
  BY <1>1, SMT DEF Delivered, Offsets
<1>5. /\ \A o \in Offsets : o # cursor => pending'[o] = pending[o]
      /\ pending'[cursor] = pending[cursor] + 1
  BY <1>1, <1>4, SMT DEF Delivered
<1>6. pending[cursor] = 0
  BY <1>1, <1>2, <1>4, SMT DEF PendingHeld
<1>7. pending'[cursor] = 1
  BY <1>5, <1>6, SMT
<1> DEFINE n == Len(held) + 1
<1>8. /\ DOMAIN held' = 1..n /\ DOMAIN held = 1..n - 1 /\ n \in Nat \ {0}
      /\ held'[n].off = cursor /\ held'[n].chanNo = chanNo
      /\ \A i \in 1..n - 1 : held'[i] = held[i]
  <2> DEFINE c == [off |-> cursor, chanNo |-> chanNo]
  <2>1. c \in Copies /\ c.off = cursor /\ c.chanNo = chanNo
    BY <1>1, <1>4, SMT DEF Copies
  <2>2. held' = Append(held, c)
    BY DEF Delivered
  <2> HIDE DEF c
  <2>3. /\ DOMAIN held' = 1..Len(held) + 1 /\ held'[Len(held) + 1] = c /\ Len(held) \in Nat
        /\ \A i \in 1..Len(held) : held'[i] = held[i]
    BY <2>1, <2>2, <1>1, SMT
  <2>4. Len(held) + 1 - 1 = Len(held) /\ DOMAIN held = 1..Len(held)
    BY <1>1, SMT
  <2> QED
    BY <2>1, <2>3, <2>4, SMT
<1> HIDE DEF n
<1>9. \A i \in 1..n : i \in 1..n - 1 \/ i = n
  BY <1>8, SMT
<1>10. \A i \in DOMAIN held : i \in DOMAIN held' /\ held'[i] = held[i]
  BY <1>8, SMT
<1>11. n \in DOMAIN held'
  BY <1>8, SMT
<1>12. PendingHeld'
  <2> SUFFICES ASSUME NEW o \in Offsets
               PROVE  /\ pending'[o] <= 1
                      /\ pending'[o] > 0 => made' /\ o < cursor'
                      /\ pending'[o] > 0 => \E i \in DOMAIN held' : held'[i].off = o /\ held'[i].chanNo = chanNo'
    BY DEF PendingHeld
  <2>1. CASE o = cursor
    <3>1. 1 <= 1 /\ cursor < cursor + 1
      BY <1>1, SMT
    <3> QED
      BY <2>1, <3>1, <1>3, <1>7, <1>8, <1>11
  <2>2. CASE o # cursor
    <3>1. o < cursor => o < cursor + 1
      BY <1>1, SMT DEF Offsets
    <3> QED
      BY <2>2, <3>1, <1>2, <1>3, <1>5, <1>10, SMT DEF PendingHeld
  <2> QED
    BY <2>1, <2>2
<1>13. \A o \in Offsets : settled < o /\ o < cursor => pending[o] > 0
  <2>1. CASE made
    BY <2>1, <1>2 DEF PendingPastSettled
  <2>2. CASE ~made
    <3>1. cursor <= settled + 1
      BY <2>2, <1>2, <1>3 DEF PendingPastSettled
    <3> QED
      BY <3>1, <1>1, SMT DEF Offsets
  <2> QED
    BY <2>1, <2>2
<1>14. PendingPastSettled'
  <2>1. \A o \in Offsets : settled < o /\ o < cursor + 1 => pending'[o] > 0
    BY <1>1, <1>5, <1>7, <1>13, SMT DEF Offsets
  <2> QED
    BY <2>1, <1>3 DEF PendingPastSettled
<1>15. GivenInOrder'
  <2>1. ASSUME NEW i \in DOMAIN held'
        PROVE  /\ held'[i].chanNo <= chanNo' /\ (held'[i].chanNo = chanNo' => held'[i].off < cursor')
    <3>1. CASE i = n
      BY <3>1, <1>1, <1>3, <1>8, SMT
    <3>2. CASE i \in DOMAIN held
      <4>1. held[i].chanNo <= chanNo /\ (held[i].chanNo = chanNo => held[i].off < cursor)
        BY <3>2, <1>2, <1>3 DEF GivenInOrder
      <4>2. held[i] \in Copies
        BY <3>2, <1>1, SMT
      <4>3. held[i].off < cursor => held[i].off < cursor + 1
        BY <4>2, <1>1, SMT DEF Copies, Offsets
      <4> QED
        BY <4>1, <4>3, <3>2, <1>3, <1>10
    <3> QED
      BY <3>1, <3>2, <1>8, <1>9
  <2>2. ASSUME NEW j \in DOMAIN held', NEW i \in 1..j - 1, held'[i].chanNo = held'[j].chanNo
        PROVE  held'[i].off < held'[j].off
    <3>1. CASE j = n
      <4>1. i \in DOMAIN held
        BY <3>1, <1>8
      <4> QED
        BY <4>1, <3>1, <2>2, <1>2, <1>3, <1>8, <1>10 DEF GivenInOrder
    <3>2. CASE j \in DOMAIN held
      <4>1. i \in DOMAIN held
        BY <3>2, <1>8, SMT
      <4> QED
        BY <4>1, <3>2, <2>2, <1>2, <1>10 DEF GivenInOrder
    <3> QED
      BY <3>1, <3>2, <1>8, <1>9
  <2> QED
    BY <2>1, <2>2 DEF GivenInOrder
<1>16. SettledNoGaps'
  <2>1. ASSUME NEW j \in DOMAIN held', NEW o \in Offsets, o < held'[j].off
        PROVE  o <= settled \/ \E i \in 1..j - 1 : held'[i].off = o
    <3>1. CASE j = n
      <4>1. o < cursor
        BY <3>1, <2>1, <1>8
      <4>2. CASE settled < o
        <5>1. pending[o] > 0
          BY <4>1, <4>2, <1>13
        <5>2. PICK i \in DOMAIN held : held[i].off = o
          BY <5>1, <1>2 DEF PendingHeld
        <5> QED
          BY <5>2, <3>1, <1>8
      <4>3. CASE ~(settled < o)
        BY <4>3, <1>1, SMT DEF Offsets
      <4> QED
        BY <4>2, <4>3
    <3>2. CASE j \in DOMAIN held
      <4>1. \A i \in 1..j - 1 : held'[i] = held[i]
        BY <3>2, <1>8, SMT
      <4>2. o <= settled \/ \E i \in 1..j - 1 : held[i].off = o
        BY <3>2, <2>1, <1>2, <1>10 DEF SettledNoGaps
      <4> QED
        BY <4>1, <4>2
    <3> QED
      BY <3>1, <3>2, <1>8, <1>9
  <2> QED
    BY <2>1, <1>2, <1>3 DEF SettledNoGaps
<1>17. AckedBehind'
  <2> SUFFICES ASSUME NEW o \in acked
               PROVE  (\A p \in Offsets : pending'[p] > 0 => o < p) /\ o < cursor + 1
    BY <1>3 DEF AckedBehind
  <2>1. o < cursor /\ \A p \in Offsets : pending[p] > 0 => o < p
    BY <1>2, <1>3 DEF AckedBehind
  <2>2. o < cursor + 1
    BY <2>1, <1>1, SMT DEF Offsets
  <2> QED
    BY <2>1, <2>2, <1>5
<1> QED
  BY <1>12, <1>14, <1>15, <1>16, <1>17 DEF ResumeInv

\* The oldest delivery is settled: it is the entry after the last settled, or one
\* settled before, and what is left is held and pending as it was
\* (streamPosition.settle).
LEMMA SettledResume ==
    ASSUME PositionInv, ResumeInv, inOrder, Settle(1), made
    PROVE  ResumeInv'
<1> DEFINE d == held[1]
           x == d.off
<1>1. /\ MaxLog \in Nat /\ settled \in -1..MaxLog - 1 /\ cursor \in 0..MaxLog
      /\ acked \subseteq finished /\ finished \subseteq Offsets /\ pending \in [Offsets -> Nat]
      /\ held \in Seq(Copies) /\ chanNo \in Nat
  BY StreamAssumption DEF PositionInv, StreamTypeOK
<1>2. PendingHeld /\ PendingPastSettled /\ GivenInOrder /\ SettledNoGaps /\ AckedBehind
  BY DEF ResumeInv
<1>3. /\ 1 \in DOMAIN held
      /\ UNCHANGED <<chan, chanNo, cursor, made>>
      /\ pending' = [pending EXCEPT ![x] = IF @ <= 1 THEN 0 ELSE @ - 1]
      /\ settled' = IF x > settled THEN x ELSE settled
      /\ held' = Without(held, 1)
      /\ finished' = finished \cup {x}
      /\ acked' = IF chan = "open" /\ d.chanNo = chanNo THEN acked \cup {x} ELSE acked
  BY DEF Settle
<1>4. d \in Copies
  BY <1>1, <1>3, SMT
<1>5. x \in Offsets
  BY <1>4 DEF Copies
<1>6. /\ Len(held) \in Nat /\ Len(held) >= 1 /\ DOMAIN held = 1..Len(held)
      /\ DOMAIN held' = 1..Len(held) - 1 /\ \A k \in 1..Len(held) - 1 : held'[k] = held[k + 1]
  <2>1. /\ Len(held') = Len(held) - 1 /\ held' \in Seq(Copies)
        /\ \A k \in 1..Len(held) - 1 : held'[k] = held[k + 1]
    BY <1>1, <1>3, OldestRemoved, RemoveKeeps
  <2>2. Len(held) \in Nat /\ Len(held) >= 1 /\ DOMAIN held = 1..Len(held)
    BY <1>1, <1>3, SMT
  <2>3. DOMAIN held' = 1..Len(held')
    BY <2>1, SMT
  <2> QED
    BY <2>1, <2>2, <2>3
<1>7. \A j \in DOMAIN held : j # 1 => j - 1 \in DOMAIN held' /\ held'[j - 1] = held[j]
  BY <1>6, SMT
<1>8. \A k \in DOMAIN held' : k + 1 \in DOMAIN held /\ held'[k] = held[k + 1]
  BY <1>6, SMT
<1>9. /\ \A o \in Offsets : o # x => pending'[o] = pending[o]
      /\ pending'[x] = 0
  <2>1. pending[x] <= 1
    BY <1>2, <1>5 DEF PendingHeld
  <2> HIDE DEF x
  <2> QED
    BY <2>1, <1>1, <1>3, <1>5, SMT
<1>10. /\ x <= settled' /\ settled <= settled' /\ (settled' = x \/ settled' = settled)
       /\ settled' \in -1..MaxLog - 1
  BY <1>1, <1>3, <1>5, SMT DEF Offsets
<1>11. \A o \in Offsets : o < x => o <= settled
  <2>1. \A o \in Offsets : o < held[1].off => o <= settled \/ \E i \in 1..1 - 1 : held[i].off = o
    BY <1>2, <1>3 DEF SettledNoGaps
  <2>2. 1..1 - 1 = {}
    BY SMT
  <2> QED
    BY <2>1, <2>2
<1>12. \A o \in Offsets : o <= settled => o <= settled'
  BY <1>1, <1>10, SMT DEF Offsets
<1>. HIDE DEF x, d
<1>13. PendingHeld'
  <2> SUFFICES ASSUME NEW o \in Offsets
               PROVE  /\ pending'[o] <= 1
                      /\ pending'[o] > 0 => made' /\ o < cursor'
                      /\ pending'[o] > 0 => \E i \in DOMAIN held' : held'[i].off = o /\ held'[i].chanNo = chanNo'
    BY DEF PendingHeld
  <2>1. CASE o = x
    BY <2>1, <1>9, SMT
  <2>2. CASE o # x
    <3>1. /\ pending[o] <= 1
          /\ pending[o] > 0 => made /\ o < cursor
      BY <1>2 DEF PendingHeld
    <3>2. ASSUME pending[o] > 0
          PROVE  \E i \in DOMAIN held' : held'[i].off = o /\ held'[i].chanNo = chanNo
      <4>1. PICK i \in DOMAIN held : held[i].off = o /\ held[i].chanNo = chanNo
        BY <3>2, <1>2 DEF PendingHeld
      <4>2. i # 1
        BY <4>1, <2>2 DEF x, d
      <4>3. i - 1 \in DOMAIN held' /\ held'[i - 1] = held[i]
        BY <4>2, <1>7
      <4> QED
        BY <4>1, <4>3
    <3> QED
      BY <2>2, <3>1, <3>2, <1>3, <1>9
  <2> QED
    BY <2>1, <2>2
<1>14. PendingPastSettled'
  <2>1. ASSUME NEW o \in Offsets, settled' < o, o < cursor
        PROVE  pending'[o] > 0
    <3>1. settled < o /\ o # x
      BY <2>1, <1>1, <1>5, <1>10, SMT DEF Offsets
    <3> QED
      BY <3>1, <2>1, <1>2, <1>9 DEF PendingPastSettled
  <2> QED
    BY <2>1, <1>2, <1>3 DEF PendingPastSettled
<1>15. GivenInOrder'
  <2>1. ASSUME NEW i \in DOMAIN held'
        PROVE  /\ held'[i].chanNo <= chanNo
               /\ chan = "open" /\ held'[i].chanNo = chanNo => held'[i].off < cursor
    BY <1>2, <1>8 DEF GivenInOrder
  <2>2. ASSUME NEW j \in DOMAIN held', NEW i \in 1..j - 1, held'[i].chanNo = held'[j].chanNo
        PROVE  held'[i].off < held'[j].off
    <3>1. i \in DOMAIN held' /\ i + 1 \in 1..(j + 1) - 1
      BY <1>6, SMT
    <3> QED
      BY <3>1, <2>2, <1>2, <1>8 DEF GivenInOrder
  <2> QED
    BY <2>1, <2>2, <1>3 DEF GivenInOrder
<1>16. SettledNoGaps'
  <2>1. ASSUME NEW o \in Offsets
        PROVE  o \in finished' <=> o <= settled'
    <3>1. o \in finished <=> o <= settled
      BY <1>2 DEF SettledNoGaps
    <3>2. CASE o \in finished'
      <4>1. o \in finished \/ o = x
        BY <3>2, <1>3
      <4> QED
        BY <4>1, <3>1, <3>2, <1>10, <1>12
    <3>3. CASE o <= settled'
      <4>1. o <= settled \/ o = x \/ o < x
        BY <3>3, <1>1, <1>5, <1>10, SMT DEF Offsets
      <4> QED
        BY <4>1, <3>1, <3>3, <1>3, <1>11
    <3> QED
      BY <3>2, <3>3
  <2>2. ASSUME NEW j \in DOMAIN held', NEW o \in Offsets, o < held'[j].off
        PROVE  o <= settled' \/ \E i \in 1..j - 1 : held'[i].off = o
    <3>1. j + 1 \in DOMAIN held /\ held'[j] = held[j + 1]
      BY <1>8
    <3>2. o <= settled \/ \E i \in 1..(j + 1) - 1 : held[i].off = o
      BY <3>1, <2>2, <1>2 DEF SettledNoGaps
    <3>3. ASSUME NEW i \in 1..(j + 1) - 1, held[i].off = o
          PROVE  o <= settled' \/ \E k \in 1..j - 1 : held'[k].off = o
      <4>1. CASE i = 1
        BY <4>1, <3>3, <1>10 DEF x, d
      <4>2. CASE i # 1
        <5>1. i \in DOMAIN held /\ i - 1 \in 1..j - 1
          BY <4>2, <3>1, <1>6, SMT
        <5>2. held'[i - 1] = held[i]
          BY <5>1, <4>2, <1>7
        <5> QED
          BY <5>1, <5>2, <3>3
      <4> QED
        BY <4>1, <4>2
    <3> QED
      BY <3>2, <3>3, <1>12
  <2> QED
    BY <2>1, <2>2 DEF SettledNoGaps
<1>17. AckedBehind'
  <2>1. \A p \in Offsets : pending'[p] > 0 => p # x /\ pending[p] > 0
    BY <1>9, SMT
  <2>2. ASSUME NEW o \in acked
        PROVE  (\A p \in Offsets : pending'[p] > 0 => o < p) /\ (chan # "lost" => o < cursor)
    BY <2>1, <1>2 DEF AckedBehind
  <2>3. ASSUME chan = "open", d.chanNo = chanNo
        PROVE  (\A p \in Offsets : pending'[p] > 0 => x < p) /\ x < cursor
    <3>1. x < cursor
      BY <2>3, <1>2, <1>3 DEF GivenInOrder, x, d
    <3>2. ASSUME NEW p \in Offsets, pending'[p] > 0
          PROVE  x < p
      <4>1. PICK i \in DOMAIN held : held[i].off = p /\ held[i].chanNo = chanNo
        BY <3>2, <2>1, <1>2 DEF PendingHeld
      <4>2. i # 1
        BY <4>1, <3>2, <2>1 DEF x, d
      <4>3. 1 \in 1..i - 1
        BY <4>2, <1>6, SMT
      <4> QED
        BY <4>1, <4>3, <2>3, <1>2 DEF GivenInOrder, x, d
    <3> QED
      BY <3>1, <3>2
  <2> QED
    BY <2>2, <2>3, <1>3 DEF AckedBehind
<1> QED
  BY <1>13, <1>14, <1>15, <1>16, <1>17 DEF ResumeInv

\* A new channel is asked for from where resume says, and nothing is pending on
\* it (reattach).
LEMMA ResumedResume ==
    ASSUME PositionInv, ResumeInv, inOrder, Resume, ~FromNext
    PROVE  ResumeInv'
<1>1. PendingHeld /\ PendingPastSettled /\ GivenInOrder /\ SettledNoGaps /\ AckedBehind
  BY DEF ResumeInv
<1>2. /\ ResumeAt <= settled + 1 /\ \A o \in acked : o < ResumeAt
  BY ResumeExact
<1>3. /\ chan' = "attaching" /\ cursor' = ResumeAt /\ made' = FALSE
      /\ pending' = [o \in Offsets |-> 0]
      /\ UNCHANGED <<chanNo, held, settled, finished, acked>>
  BY DEF Resume, history
<1>4. \A o \in Offsets : pending'[o] <= 1 /\ ~(pending'[o] > 0)
  BY <1>3, SMT
<1> HIDE DEF ResumeAt
<1>5. PendingHeld' /\ PendingPastSettled' /\ AckedBehind'
  BY <1>2, <1>3, <1>4 DEF PendingHeld, PendingPastSettled, AckedBehind
<1>6. GivenInOrder' /\ SettledNoGaps'
  BY <1>1, <1>3 DEF GivenInOrder, SettledNoGaps
<1> QED
  BY <1>5, <1>6 DEF ResumeInv

\* The broker opens the new channel: no delivery held came on it (reattach).
LEMMA ReattachedResume ==
    ASSUME PositionInv, ResumeInv, inOrder, Reattached
    PROVE  ResumeInv'
<1>1. PendingHeld /\ PendingPastSettled /\ GivenInOrder /\ SettledNoGaps /\ AckedBehind
  BY DEF ResumeInv
<1>2. /\ chan = "attaching" /\ chan' = "open" /\ chanNo' = chanNo + 1
      /\ UNCHANGED <<cursor, held, made, pending, settled, finished, acked>>
  BY DEF Reattached, position, history
<1>3. ~made /\ \A o \in Offsets : ~(pending[o] > 0)
  BY <1>1, <1>2 DEF PendingHeld, PendingPastSettled
<1>4. chanNo \in Nat /\ held \in Seq(Copies)
  BY DEF PositionInv, StreamTypeOK
<1>5. \A i \in DOMAIN held : held[i].chanNo <= chanNo + 1 /\ held[i].chanNo # chanNo + 1
  <2> SUFFICES ASSUME NEW i \in DOMAIN held
               PROVE  held[i].chanNo <= chanNo + 1 /\ held[i].chanNo # chanNo + 1
    OBVIOUS
  <2>1. held[i] \in Copies
    BY <1>4, SMT
  <2>2. held[i].chanNo \in Nat /\ held[i].chanNo <= chanNo
    BY <2>1, <1>1 DEF Copies, GivenInOrder
  <2> QED
    BY <2>2, <1>4, SMT
<1>6. PendingHeld' /\ PendingPastSettled' /\ AckedBehind'
  BY <1>1, <1>2, <1>3 DEF PendingHeld, PendingPastSettled, AckedBehind
<1>7. GivenInOrder' /\ SettledNoGaps'
  BY <1>1, <1>2, <1>5 DEF GivenInOrder, SettledNoGaps
<1> QED
  BY <1>6, <1>7 DEF ResumeInv

\* Every step keeps it: a settlement out of order ends what it says.
LEMMA ResumeStep ==
    ASSUME PositionInv, ResumeInv, [StreamNext]_streamVars, ~FromNext
    PROVE  ResumeInv'
<1> SUFFICES ASSUME inOrder'
             PROVE  ResumeInv'
  BY DEF ResumeInv
<1>1. CASE Append1 \/ ChannelLost \/ AttachFails \/ UNCHANGED streamVars
  <2>1. /\ UNCHANGED <<chanNo, cursor, held, made, pending, settled, finished, acked, inOrder>>
        /\ chan' \in {chan, "lost"}
    BY <1>1 DEF Append1, ChannelLost, AttachFails, streamVars, position, history
  <2>2. PendingHeld /\ PendingPastSettled /\ GivenInOrder /\ SettledNoGaps /\ AckedBehind
    BY <2>1 DEF ResumeInv
  <2>3. PendingHeld'
    BY <2>1, <2>2 DEF PendingHeld
  <2>5. SettledNoGaps'
    BY <2>1, <2>2 DEF SettledNoGaps
  <2>4. PendingPastSettled' /\ GivenInOrder' /\ AckedBehind'
    BY <2>1, <2>2 DEF PendingPastSettled, GivenInOrder, AckedBehind
  <2> QED
    BY <2>3, <2>4, <2>5 DEF ResumeInv
<1>2. CASE Delivered
  BY <1>2, DeliveredResume DEF Delivered
<1>3. ASSUME NEW i \in 1..Workers, Settle(i)
      PROVE  ResumeInv'
  <2>1. CASE made
    <3>1. inOrder /\ i = 1
      BY <2>1, <1>3 DEF Settle
    <3> QED
      BY <3>1, <2>1, <1>3, SettledResume
  <2>2. CASE ~made
    <3>1. UNCHANGED <<chan, chanNo, cursor, held, made, pending, settled, finished, acked, inOrder>>
      BY <2>2, <1>3 DEF Settle, position
    <3> QED
      BY <3>1 DEF ResumeInv, PendingHeld, PendingPastSettled, GivenInOrder, SettledNoGaps, AckedBehind
  <2> QED
    BY <2>1, <2>2
<1>4. CASE Resume
  BY <1>4, ResumedResume DEF Resume, history
<1>5. CASE Reattached
  BY <1>5, ReattachedResume DEF Reattached, history
<1> QED
  BY <1>1, <1>2, <1>3, <1>4, <1>5 DEF StreamNext

\* A reader that began at "first" and has settled in order resumes exactly, for
\* any stream, prefetch and number of lost channels and failed reattachments: no
\* entry it was given and has not settled comes before the offset it names, and
\* none whose acknowledgement the broker took is given again
\* (streamPosition.resume).
THEOREM StreamResumedExactly == ~FromNext => (StreamSpec => ResumedExactly)
<1> SUFFICES ASSUME ~FromNext
             PROVE  StreamSpec => ResumedExactly
  OBVIOUS
<1>1. StreamInit => ResumeInv
  BY ResumeInit
<1>2. PositionInv /\ ResumeInv /\ [StreamNext]_streamVars => ResumeInv'
  BY ResumeStep
<1>3. ASSUME PositionInv, ResumeInv, Resume, inOrder
      PROVE  /\ \A i \in DOMAIN held : held[i].off \in finished \/ cursor' <= held[i].off
             /\ \A o \in acked : o < cursor'
  <2>1. cursor' = ResumeAt
    BY <1>3 DEF Resume
  <2> QED
    BY <2>1, <1>3, ResumeExact
<1>4. PositionInv /\ ResumeInv /\ [StreamNext]_streamVars =>
        [Resume /\ inOrder =>
           /\ \A i \in DOMAIN held : held[i].off \in finished \/ cursor' <= held[i].off
           /\ \A o \in acked : o < cursor']_streamVars
  BY <1>3
<1>5. StreamSpec => []PositionInv
  BY StreamPositionInv
<1> QED
  BY <1>1, <1>2, <1>4, <1>5, PTL DEF StreamSpec, ResumedExactly

=============================================================================
