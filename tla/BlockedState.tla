---------------------------- MODULE BlockedState ----------------------------
(***************************************************************************)
(* What the RabbitMQ transport knows of connection.blocked, and the publish *)
(* that waits for its confirm meanwhile (src/rabbitmq/rabbitmq.go): one     *)
(* watchBlocked goroutine for each connection there has been, all of them   *)
(* writing the same state; a recovery that clears it; awaitConfirm, woken   *)
(* by every change and bounded by Config.BlockedTimeout of block.  A queue   *)
(* declaration holds Transport.mu over its round trip, and a publish takes   *)
(* that lock to write, as a recovery does to swap the connection.            *)
(***************************************************************************)
EXTENDS Integers, Sequences

CONSTANTS MaxGen,       \* bound on the connections made after the first
          MaxFlips,     \* bound on the broker's blocks and unblocks
          Timeout       \* Config.BlockedTimeout, in ticks

ASSUME BlockedAssumption == MaxGen \in Nat /\ MaxFlips \in Nat /\ Timeout \in Nat \ {0}

Gens == 0..MaxGen

VARIABLES
    gen,        \* the connection in use
    alive,      \* it has not been lost
    recovery,   \* "done", or how far reconnectOnce is: "swapped", "cleared"
    alarm,      \* the broker is blocking it
    flips,      \* how often it has changed its mind
    notes,      \* by connection: notifications its watcher has not taken
    watched,    \* the connections this transport's watchers listen to
    blocked,    \* Transport.blocked is not empty
    changed,    \* the Transport.blockedChanged that the publish last read is closed
    mu,         \* who holds Transport.mu over a declaration: "free", a "probe",
                \* or a probe that was "abandoned"
    pc,         \* the publish: "idle", to "send", "look" at the state, "wait",
                \* or "judge" a nack
    age,        \* ticks since blockedSince, -1 when that is zero
    missed      \* since the last connection was made, a notification found no
                \* watcher or was taken after the state had been cleared for the
                \* next connection

link == <<gen, alive, recovery, alarm, flips, notes, watched>>
state == <<blocked, changed>>
waiter == <<pc, age>>
vars == <<link, state, mu, waiter, missed>>

Init ==
    /\ gen = 0 /\ alive = TRUE /\ recovery = "done" /\ alarm = FALSE /\ flips = 0
    /\ notes = [g \in Gens |-> <<>>] /\ watched = {0}
    /\ blocked = FALSE /\ changed = FALSE /\ mu = "free"
    /\ pc = "idle" /\ age = -1 /\ missed = FALSE

\* The broker blocks or unblocks the connection, which tells who listens.
Flip ==
    /\ alive /\ flips < MaxFlips /\ flips' = flips + 1
    /\ alarm' = ~alarm
    /\ notes' = IF gen \in watched THEN [notes EXCEPT ![gen] = Append(@, ~alarm)] ELSE notes
    /\ missed' = (missed \/ gen \notin watched)
    /\ UNCHANGED <<gen, alive, recovery, watched, state, mu, waiter>>

\* The connection goes; what its watcher has buffered stays there.
Lost ==
    /\ alive /\ gen < MaxGen /\ alive' = FALSE
    /\ UNCHANGED <<gen, recovery, alarm, flips, notes, watched, state, mu, waiter, missed>>

\* Mutant: nobody is woken.
setBlockedQuietly(reason) == blocked' = reason /\ UNCHANGED changed

\* setBlocked.
setBlocked(reason) == blocked' = reason /\ changed' = TRUE

\* watchBlocked, for connection g.
watchBlocked(g) ==
    /\ g \in watched /\ notes[g] # <<>>
    /\ setBlocked(Head(notes[g]))
    /\ notes' = [notes EXCEPT ![g] = Tail(@)]
    /\ missed' = (missed \/ (g # gen /\ recovery # "swapped"))
    /\ UNCHANGED <<gen, alive, recovery, alarm, flips, watched, mu, waiter>>

\* reconnectOnce: the new connection is the transport's.
Swap ==
    /\ ~alive /\ recovery = "done" /\ mu = "free" /\ recovery' = "swapped"
    /\ gen' = gen + 1 /\ alive' = TRUE /\ alarm' = FALSE /\ missed' = FALSE
    /\ UNCHANGED <<flips, notes, watched, state, mu, waiter>>

\* Mutant: the old connection's block is kept.
ClearNothing ==
    /\ recovery = "swapped" /\ recovery' = "cleared"
    /\ UNCHANGED <<gen, alive, alarm, flips, notes, watched, state, mu, waiter, missed>>

\* reconnectOnce: the old connection's block is forgotten.
Clear ==
    /\ recovery = "swapped" /\ recovery' = "cleared"
    /\ setBlocked(FALSE)
    /\ UNCHANGED <<gen, alive, alarm, flips, notes, watched, mu, waiter, missed>>

\* reconnectOnce: a watcher for the new connection.
Watch ==
    /\ recovery = "cleared" /\ recovery' = "done"
    /\ watched' = watched \cup {gen}
    /\ UNCHANGED <<gen, alive, alarm, flips, notes, state, mu, waiter, missed>>

\* Publish: refused while the connection is blocked, otherwise to be written.
Publish ==
    /\ pc = "idle" /\ ~blocked /\ pc' = "send"
    /\ UNCHANGED <<link, state, mu, age, missed>>

\* send: written once Transport.mu is free, for as long as that takes.
Send ==
    /\ pc = "send" /\ mu = "free"
    /\ pc' \in {"look", "idle"}       \* written, or the write fails
    /\ UNCHANGED <<link, state, mu, age, missed>>

\* awaitConfirm, the head of its loop.
Look ==
    /\ pc = "look" /\ pc' = "wait" /\ changed' = FALSE
    /\ age' = IF ~blocked THEN -1 ELSE IF age = -1 THEN 0 ELSE age
    /\ UNCHANGED <<link, blocked, mu, missed>>

\* awaitConfirm: the state has changed.
Wake ==
    /\ pc = "wait" /\ changed /\ pc' = "look"
    /\ UNCHANGED <<link, state, mu, age, missed>>

\* awaitConfirm: the confirm arrives, or the context is done; or it is a nack,
\* the broker's or the client's for a connection that went.
Answered ==
    /\ pc = "wait" /\ pc' \in {"idle", "judge"} /\ age' = -1
    /\ UNCHANGED <<link, state, mu, missed>>

\* lostRatherThanRefused: asks under Transport.mu whether the connection is the
\* one it wrote to.
Judge ==
    /\ pc = "judge" /\ mu = "free" /\ pc' = "idle"
    /\ UNCHANGED <<link, state, mu, age, missed>>

\* awaitConfirm: blocked for too long.
Expired ==
    /\ pc = "wait" /\ age = Timeout /\ pc' = "idle" /\ age' = -1
    /\ UNCHANGED <<link, state, mu, missed>>

\* Time passes for a publish that is being blocked.
Tick ==
    /\ age >= 0 /\ age < Timeout /\ age' = age + 1
    /\ UNCHANGED <<link, state, mu, pc, missed>>

Recover == Swap \/ Clear \/ Watch

Next ==
    \/ Flip
    \/ Lost
    \/ \E g \in Gens : watchBlocked(g)
    \/ Recover
    \/ Publish
    \/ Send
    \/ Look
    \/ Wake
    \/ Answered
    \/ Judge
    \/ Expired
    \/ Tick

-----------------------------------------------------------------------------
(* Properties *)

\* Once every notification has been taken, the transport's idea of being
\* blocked is the broker's, so that publishes are refused exactly while there
\* is an alarm, unless the last recovery missed a notification or an old
\* watcher was late (watchBlocked, reconnectOnce).
BlockedIsTrue ==
    alive /\ recovery = "done" /\ ~missed /\ (\A g \in watched : notes[g] = <<>>)
        => blocked = alarm

=============================================================================
