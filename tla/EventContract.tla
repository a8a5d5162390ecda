---------------------------- MODULE EventContract ----------------------------
(***************************************************************************)
(* What an application is promised of an event it records in the outbox    *)
(* and handles idempotently: once its transaction has committed the work   *)
(* is done, unless it is set aside for a person to look at, and it is not  *)
(* done twice unless something happened that the library says it cannot    *)
(* guard against.                                                          *)
(***************************************************************************)
EXTENDS Integers

CONSTANTS Event

VARIABLES
    owed,       \* events whose transaction has committed
    done,       \* by event: how often its work was done, up to 2
    aside,      \* retired, dead-lettered or lost with a store in memory
    pardoned    \* events that may be handled more than once

vars == <<owed, done, aside, pardoned>>

Init == owed = {} /\ done = [e \in Event |-> 0] /\ aside = {} /\ pardoned = {}

Commit(e) == owed' = owed \cup {e} /\ UNCHANGED <<done, aside, pardoned>>

\* Something has happened to some events that allows a repeat.
Pardon ==
    /\ pardoned' \in SUBSET Event /\ pardoned \subseteq pardoned'
    /\ UNCHANGED <<owed, done, aside>>

\* The work is done, for the first time or because a repeat is pardoned.
Perform(e) ==
    /\ e \in owed /\ (done[e] = 0 \/ e \in pardoned)
    /\ done' = [done EXCEPT ![e] = IF @ < 2 THEN @ + 1 ELSE @]
    /\ UNCHANGED <<owed, aside, pardoned>>

\* Some events are set aside, or taken up again.
SetAside == aside' \in SUBSET Event /\ UNCHANGED <<owed, done, pardoned>>

Next == \/ \E e \in Event : Commit(e) \/ Perform(e)
        \/ Pardon \/ SetAside

\* An event that is owed does not stay so for ever.
Fulfilled == \A e \in Event : e \in owed ~> (done[e] > 0 \/ e \in aside)

Spec == Init /\ [][Next]_vars /\ Fulfilled
=============================================================================
