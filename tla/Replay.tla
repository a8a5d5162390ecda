------------------------------- MODULE Replay -------------------------------
(***************************************************************************)
(* Replay: an operator moves what a step dead-lettered back onto its       *)
(* queue.  Each message is pulled, republished as a mandatory message, and *)
(* acknowledged only then; what the filter declines is held to the end of  *)
(* the pass and put back the same way, copy first.                         *)
(***************************************************************************)
EXTENDS FlowQueues

CONSTANTS Limit,        \* ReplayFrom.Limit: zero is none
          MaxReplays    \* bound on how often an operator replays

ASSUME ReplayAssumption == Limit \in Nat /\ MaxReplays \in Nat

VARIABLES
    phase,      \* idle, pull, publish, ack, or putback
    from,       \* the step whose dead letters are replayed
    wanted,     \* the filter: runs that are to go back
    pulled,     \* the message being moved, as a set of at most one
    declined,   \* messages held to be put back
    moved,      \* result.Moved
    replays     \* replays so far

replayVars == <<phase, from, wanted, pulled, declined, moved, replays>>

ReplayInit ==
    /\ phase = "idle" /\ from = 1 /\ wanted = {} /\ pulled = {} /\ declined = Nothing
    /\ moved = 0 /\ replays = 0

StartReplay(k, filter) ==
    /\ phase = "idle" /\ replays < MaxReplays
    /\ replays' = replays + 1
    /\ phase' = "pull" /\ from' = k /\ wanted' = filter /\ moved' = 0
    /\ UNCHANGED <<pulled, declined, ready, trouble>>

\* The limit is on what was moved; what was declined does not count.
UnderLimit == Limit = 0 \/ moved < Limit

\* Conn.Pull: the message is the caller's until it settles it.
Fetch(m) ==
    /\ m \in At(Dead(from))
    /\ ready' = Without(ready, Dead(from), m)

\* Pulled is settled once, whichever way.
Settled == pulled' = {}

\* Nack of the transport's Pull: back where it was.
Returned(bags, m) == With(bags, Dead(from), m)

Pull(m) ==
    /\ phase = "pull" /\ UnderLimit
    /\ Fetch(m)
    /\ IF m.run \in wanted
       THEN phase' = "publish" /\ pulled' = {m} /\ UNCHANGED declined
       ELSE declined' = Plus(declined, m) /\ UNCHANGED <<phase, pulled>>
    /\ UNCHANGED <<from, wanted, moved, replays, trouble>>

\* Drained, at the limit, cancelled or past the deadline, or the read failed.
PassEnds ==
    /\ phase = "pull"
    /\ \/ At(Dead(from)) = {} /\ UNCHANGED trouble
       \/ ~UnderLimit /\ UNCHANGED trouble
       \/ Trouble
    /\ phase' = "putback"
    /\ UNCHANGED <<from, wanted, pulled, declined, moved, replays, ready>>

\* The copy goes out on attempt one.  A publish that failed, or whose outcome
\* is not known, returns the original and ends the pass.
Republish(m) ==
    /\ phase = "publish" /\ m \in pulled
    /\ LET copied == With(ready, Queue(from), [m EXCEPT !.attempt = 1])
       IN \/ from \in declared
             /\ ready' = copied /\ phase' = "ack" /\ UNCHANGED <<pulled, trouble>>
          \/ Trouble /\ phase' = "putback" /\ Settled
             /\ \E left \in {ready, copied} : ready' = Returned(left, m)
    /\ UNCHANGED <<from, wanted, declined, moved, replays>>

\* An acknowledgement that fails leaves the original where it was.
AckReplayed(m) ==
    /\ phase = "ack" /\ m \in pulled
    /\ Settled
    /\ \/ phase' = "pull" /\ moved' = moved + 1 /\ UNCHANGED <<ready, trouble>>
       \/ Trouble /\ phase' = "putback" /\ UNCHANGED moved
          /\ ready' = Returned(ready, m)
    /\ UNCHANGED <<from, wanted, declined, replays>>

\* putBack, one message: a copy to the queue it came from and then the
\* acknowledgement, or the original returned; when the acknowledgement
\* fails, or the publish failed after all but arrived, there are two.
PutBack(m) ==
    /\ phase = "putback"
    /\ declined' = Minus(declined, m)
    /\ LET once == With(ready, Dead(from), m)
       IN \/ ready' = once /\ UNCHANGED trouble
          \/ Trouble /\ ready' = With(once, Dead(from), m)
    /\ UNCHANGED <<phase, from, wanted, pulled, moved, replays>>

ReplayReturns ==
    /\ phase = "putback" /\ declined = Nothing
    /\ phase' = "idle"
    /\ UNCHANGED <<from, wanted, pulled, declined, moved, replays, ready, trouble>>

\* The operator's process dies: the broker returns all it held.
ReplayDies ==
    /\ phase # "idle" /\ Trouble
    /\ ready' = [ready EXCEPT ![Dead(from)] = Joined(Joined(@, [m \in pulled |-> 1]), declined)]
    /\ phase' = "idle" /\ pulled' = {} /\ declined' = Nothing
    /\ UNCHANGED <<from, wanted, moved, replays>>

ReplayNext ==
    \/ \E k \in Step, filter \in SUBSET Run : StartReplay(k, filter)
    \/ \E m \in At(Dead(from)) : Pull(m)
    \/ \E m \in pulled : Republish(m) \/ AckReplayed(m)
    \/ \E m \in DOMAIN declined : PutBack(m)
    \/ PassEnds \/ ReplayReturns \/ ReplayDies
=============================================================================
