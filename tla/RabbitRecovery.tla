--------------------------- MODULE RabbitRecovery ---------------------------
(***************************************************************************)
(* Subscriptions and recovery in src/rabbitmq/rabbitmq.go: Consume, which   *)
(* opens a channel and only then records the subscription; the recovery     *)
(* loop, which dials, redeclares, reattaches the subscriptions recorded and *)
(* only then listens for the next loss; Stop and Close of a subscription;   *)
(* Close of the transport.  They share no lock over more than a few lines.  *)
(*                                                                         *)
(* Each of three overlaps undoes something recovery promises, so the model  *)
(* remembers which of them have happened:                                   *)
(*   "open"      Consume overlaps a loss of the connection or its recovery; *)
(*   "stop"      Stop overlaps the reattachment of the same subscription;   *)
(*   "register"  the connection is lost again while it is being recovered.  *)
(***************************************************************************)
EXTENDS Naturals, Sequences, FiniteSets

CONSTANTS Subs,     \* subscriptions
          MaxGen,   \* bound on the connections made after the first
          None      \* no subscription

ASSUME RecoveryAssumption == MaxGen \in Nat /\ None \notin Subs

VARIABLES
    gen,        \* which connection Transport.conn is
    alive,      \* it has not gone
    rec,        \* where the recovery goroutine is
    todo,       \* restartConsumers: subscriptions still to reattach
    target,     \* reattach: the one it works on
    subs,       \* Transport.subs
    tclose,     \* Transport.Close: "no", "closing" or "done"
    taken,      \* the subscriptions it is closing
    pc,         \* by subscription: where Consume, Stop and Close are
    on,         \* by subscription: the connection Consume opens a channel on
    ch,         \* by subscription: the channels opened for it: their connection,
                \* whether the broker delivers there, whether run reads it
    cur,        \* by subscription: subscription.channel
    closed,     \* subscription.closed
    overlaps    \* which overlaps have happened

link == <<gen, alive>>
recovery == <<rec, todo, target>>
closing == <<subs, tclose, taken>>
sub == <<pc, on, ch, cur, closed>>
vars == <<link, recovery, closing, sub, overlaps>>

Init ==
    /\ gen = 0 /\ alive = TRUE
    /\ rec = "watch" /\ todo = {} /\ target = None
    /\ subs = {} /\ tclose = "no" /\ taken = {}
    /\ pc = [s \in Subs |-> "new"] /\ on = [s \in Subs |-> 0]
    /\ ch = [s \in Subs |-> <<>>] /\ cur = [s \in Subs |-> 0]
    /\ closed = [s \in Subs |-> FALSE] /\ overlaps = {}

Channel(loop) == [gen |-> gen, consuming |-> TRUE, loop |-> loop]

\* What the end of the current connection does to every channel on it.
AllDown ==
    [s \in Subs |-> [i \in DOMAIN ch[s] |->
        IF ch[s][i].gen = gen THEN [ch[s][i] EXCEPT !.consuming = FALSE] ELSE ch[s][i]]]

-----------------------------------------------------------------------------
(* Transport.Consume *)

Overlap(which, happens) == overlaps' = IF happens THEN overlaps \cup {which} ELSE overlaps

\* The transport is not closed, and the connection is read.
ConsumeBegin(s) ==
    /\ pc[s] = "new" /\ tclose = "no"
    /\ on' = [on EXCEPT ![s] = gen] /\ pc' = [pc EXCEPT ![s] = "opening"]
    /\ Overlap("open", ~alive \/ rec # "watch")
    /\ UNCHANGED <<link, recovery, closing, ch, cur, closed>>

\* Channel, Qos and Consume succeed, and the delivery loop starts.
ConsumeOpened(s) ==
    /\ pc[s] = "opening" /\ on[s] = gen /\ alive
    /\ ch' = [ch EXCEPT ![s] = <<Channel(TRUE)>>] /\ cur' = [cur EXCEPT ![s] = 1]
    /\ pc' = [pc EXCEPT ![s] = "reading"]
    /\ UNCHANGED <<link, recovery, closing, on, closed, overlaps>>

\* The connection that was read has gone.
ConsumeFails(s) ==
    /\ pc[s] = "opening" /\ (on[s] # gen \/ ~alive)
    /\ pc' = [pc EXCEPT ![s] = "failed"]
    /\ UNCHANGED <<link, recovery, closing, on, ch, cur, closed, overlaps>>

\* The subscription is recorded, and Consume returns it.
ConsumeRecorded(s) ==
    /\ pc[s] = "reading" /\ pc' = [pc EXCEPT ![s] = "open"]
    /\ subs' = subs \cup {s}
    /\ UNCHANGED <<link, recovery, tclose, taken, on, ch, cur, closed, overlaps>>

\* run: the client has closed the deliveries of channel i.
LoopEnds(s, i) ==
    /\ i \in DOMAIN ch[s] /\ ch[s][i].loop /\ ~ch[s][i].consuming
    /\ ch' = [ch EXCEPT ![s][i].loop = FALSE]
    /\ UNCHANGED <<link, recovery, closing, pc, on, cur, closed, overlaps>>

-----------------------------------------------------------------------------
(* subscription.Stop and Close *)

\* Stop, by its owner or by Transport.Close: no reattachment from now on.
StopBegin(s) ==
    /\ pc[s] = "open" /\ (tclose = "no" \/ s \in taken)
    /\ closed' = [closed EXCEPT ![s] = TRUE]
    /\ on' = [on EXCEPT ![s] = cur[s]]      \* the channel Stop has read
    /\ pc' = [pc EXCEPT ![s] = "cancelling"]
    /\ Overlap("stop", target = s)
    /\ UNCHANGED <<link, recovery, closing, ch, cur>>

\* Mutant: Stop waits without cancelling.
StopCancelsNothing(s) ==
    /\ pc[s] = "cancelling" /\ pc' = [pc EXCEPT ![s] = "draining"]
    /\ UNCHANGED <<link, recovery, closing, on, ch, cur, closed, overlaps>>

\* Stop: basic.cancel, to no effect on a channel that has gone.
StopCancels(s) ==
    /\ pc[s] = "cancelling" /\ pc' = [pc EXCEPT ![s] = "draining"]
    /\ ch' = [ch EXCEPT ![s][on[s]].consuming = FALSE]
    /\ UNCHANGED <<link, recovery, closing, on, cur, closed, overlaps>>

Looping(s) == {i \in DOMAIN ch[s] : ch[s][i].loop}

\* Mutant: Stop does not wait for the delivery loops.
StopNoWait(s) ==
    /\ pc[s] = "draining"
    /\ pc' = [pc EXCEPT ![s] = "stopped"]
    /\ UNCHANGED <<link, recovery, closing, on, ch, cur, closed, overlaps>>

\* Stop: wg.Wait.
StopReturns(s) ==
    /\ pc[s] = "draining" /\ Looping(s) = {}
    /\ pc' = [pc EXCEPT ![s] = "stopped"]
    /\ UNCHANGED <<link, recovery, closing, on, ch, cur, closed, overlaps>>

\* Close: the channel is released.
CloseChannel(s) ==
    /\ pc[s] = "stopped" /\ pc' = [pc EXCEPT ![s] = "closed"]
    /\ ch' = [ch EXCEPT ![s][cur[s]].consuming = FALSE]
    /\ UNCHANGED <<link, recovery, closing, on, cur, closed, overlaps>>

-----------------------------------------------------------------------------
(* Loss and recovery of the connection *)

ConnectionLost ==
    /\ alive /\ gen < MaxGen /\ tclose # "done"
    /\ alive' = FALSE /\ ch' = AllDown
    /\ overlaps' = overlaps
         \cup (IF \E s \in Subs : pc[s] \in {"opening", "reading"} THEN {"open"} ELSE {})
         \cup (IF rec # "watch" THEN {"register"} ELSE {})
    /\ UNCHANGED <<gen, recovery, closing, pc, on, cur, closed>>

\* recover: the loss is heard of; a deliberate close is not recovered from.
SeeLoss ==
    /\ rec = "watch" /\ ~alive
    /\ rec' = IF tclose = "no" THEN "dial" ELSE "ended"
    /\ UNCHANGED <<link, todo, target, closing, sub, overlaps>>

\* recover and reconnect: the transport has been closed.
SeeClose ==
    /\ rec \in {"watch", "dial"} /\ tclose # "no" /\ rec' = "ended"
    /\ UNCHANGED <<link, todo, target, closing, sub, overlaps>>

\* reconnectOnce: dialled, and the transport's connection from now on.
Swap ==
    /\ rec = "dial" /\ rec' = "swapped"
    /\ gen' = gen + 1 /\ alive' = TRUE
    /\ UNCHANGED <<todo, target, closing, sub, overlaps>>

\* reconnectOnce, as far as the list restartConsumers works from.
Redeclared ==
    /\ rec = "swapped" /\ rec' = "restart" /\ todo' = subs
    /\ UNCHANGED <<link, target, closing, sub, overlaps>>

\* reattach: whether the subscription is closed.
ReattachBegin(s) ==
    /\ rec = "restart" /\ s \in todo /\ todo' = todo \ {s}
    /\ \/ closed[s] /\ UNCHANGED <<rec, target>>
       \/ ~closed[s] /\ target' = s /\ rec' = "attach"
    /\ UNCHANGED <<link, closing, sub, overlaps>>

\* reattach: Channel, Qos and Consume succeed.
Attached ==
    /\ rec = "attach" /\ alive /\ rec' = "start"
    /\ ch' = [ch EXCEPT ![target] = Append(@, Channel(FALSE))]
    /\ UNCHANGED <<link, todo, target, closing, pc, on, cur, closed, overlaps>>

\* reattach: the channel is recorded and its loop started.
LoopStarts ==
    /\ rec = "start" /\ rec' = "restart" /\ target' = None
    /\ cur' = [cur EXCEPT ![target] = Len(ch[target])]
    /\ ch' = [ch EXCEPT ![target][Len(ch[target])].loop = TRUE]
    /\ UNCHANGED <<link, todo, closing, pc, on, closed, overlaps>>

\* Mutant: the connection of a failed attempt is not closed.
RecoveryFailsOpen ==
    /\ rec \in {"swapped", "attach"} /\ (gen < MaxGen \/ ~alive)
    /\ rec' = "dial" /\ todo' = {} /\ target' = None
    /\ UNCHANGED <<link, closing, sub, overlaps>>

\* reconnectOnce: a declaration or a reattachment fails, the new connection is
\* closed and the next attempt dials again.
RecoveryFails ==
    /\ rec \in {"swapped", "attach"} /\ (gen < MaxGen \/ ~alive)
    /\ rec' = "dial" /\ todo' = {} /\ target' = None
    /\ alive' = FALSE /\ ch' = AllDown
    /\ UNCHANGED <<gen, closing, pc, on, cur, closed, overlaps>>

\* Mutant: restartConsumers stops after the first subscription.
RegisteredEarly ==
    /\ rec = "restart"
    /\ rec' = IF alive THEN "watch" ELSE "ended"
    /\ UNCHANGED <<link, todo, target, closing, sub, overlaps>>

\* reconnectOnce returns a NotifyClose registered only now.  On a connection
\* that has already gone the client library closes that channel at once, and
\* recover takes the nil it reads for a deliberate close.
Registered ==
    /\ rec = "restart" /\ todo = {}
    /\ rec' = IF alive THEN "watch" ELSE "ended"
    /\ UNCHANGED <<link, todo, target, closing, sub, overlaps>>

-----------------------------------------------------------------------------
(* Transport.Close *)

TransportClose ==
    /\ tclose = "no" /\ tclose' = "closing"
    /\ taken' = subs /\ subs' = {}
    /\ UNCHANGED <<link, recovery, sub, overlaps>>

\* Every subscription has been closed and the recovery has ended.
TransportClosed ==
    /\ tclose = "closing" /\ rec = "ended" /\ \A s \in taken : pc[s] = "closed"
    /\ tclose' = "done" /\ alive' = FALSE /\ ch' = AllDown
    /\ UNCHANGED <<gen, recovery, subs, taken, pc, on, cur, closed, overlaps>>

ConsumeStep(s) == ConsumeBegin(s) \/ ConsumeOpened(s) \/ ConsumeFails(s) \/ ConsumeRecorded(s)
StopStep(s) == StopCancels(s) \/ StopReturns(s) \/ CloseChannel(s)
LoopStep(s) == \E i \in DOMAIN ch[s] : LoopEnds(s, i)
ReattachStep ==
    Redeclared \/ (\E s \in Subs : ReattachBegin(s)) \/ Attached \/ LoopStarts \/ Registered
RecoveryStep == SeeLoss \/ SeeClose \/ Swap \/ ReattachStep \/ RecoveryFails

Next ==
    \/ \E s \in Subs : ConsumeStep(s) \/ StopBegin(s) \/ StopStep(s) \/ LoopStep(s)
    \/ ConnectionLost
    \/ RecoveryStep
    \/ TransportClose
    \/ TransportClosed

\* Every goroutine that can run does, and a broker that can be reached answers;
\* nobody has to call Stop or Close, except Transport.Close for what it took.
Fairness ==
    /\ WF_vars(RecoveryStep) /\ WF_vars(TransportClosed)
    /\ \A s \in Subs : /\ WF_vars(ConsumeStep(s)) /\ WF_vars(StopStep(s)) /\ WF_vars(LoopStep(s))
                       /\ WF_vars(s \in taken /\ StopBegin(s))

Spec == Init /\ [][Next]_vars /\ Fairness

-----------------------------------------------------------------------------
(* Properties *)

Consuming(s) == {i \in DOMAIN ch[s] : ch[s][i].consuming}

\* Once Stop has returned there are no further deliveries: no loop hands them
\* out, whatever recovery was doing meanwhile, unless Stop overlapped the
\* reattachment of its own subscription (Stop, reattach).
NoDeliveryAfterStop ==
    "stop" \notin overlaps =>
        \A s \in Subs : pc[s] \in {"stopped", "closed"} => Looping(s) = {}

\* A subscription consumes on one channel at a time, so the broker's prefetch
\* is its prefetch and Stop, which cancels one channel, ends it; and when the
\* recovery is over every open one consumes.  Only a Consume that overlaps a
\* recovery is attached twice or not at all (restartConsumers, reattach).
OneConsumer ==
    "open" \notin overlaps =>
        \A s \in Subs :
            /\ Cardinality(Consuming(s)) <= 1
            /\ alive /\ rec = "watch" /\ tclose = "no" /\ pc[s] = "open" => Consuming(s) # {}

\* A consumer whose connection is lost consumes again in the end, unless it or
\* the transport is being closed or one of the overlaps happens (recover).
KeepsConsuming ==
    \A s \in Subs : pc[s] = "open" /\ tclose = "no"
        ~> (Consuming(s) # {} \/ pc[s] # "open" \/ tclose # "no" \/ overlaps # {})

\* Stop returns, also in the middle of an outage or of a recovery that fails,
\* and so does Close of the transport, whatever the recovery was doing, unless
\* a Consume or a Stop overlapped the recovery (Stop, Close).
StopAndCloseEnd ==
    /\ \A s \in Subs : pc[s] = "cancelling"
           ~> (pc[s] \in {"stopped", "closed"} \/ overlaps \cap {"open", "stop"} # {})
    /\ tclose = "closing" ~> (tclose = "done" \/ overlaps \cap {"open", "stop"} # {})

=============================================================================
