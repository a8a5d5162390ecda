------------------------------- MODULE Ordered -------------------------------
(***************************************************************************)
(* patterns.Ordered (src/patterns/ordered.go): the keyed locks that keep    *)
(* messages of one key apart, in a map that forgets a key nobody holds.     *)
(***************************************************************************)
EXTENDS Naturals, FiniteSets

CONSTANTS Workers,      \* goroutines that handle messages
          Keys          \* ordering keys other than ""

\* The key of a worker that has asked for none: no message is locked under "".
NoKey == ""

ASSUME OrderedAssumption ==
    IsFiniteSet(Workers) /\ IsFiniteSet(Keys) /\ NoKey \notin Keys

VARIABLES
    lockPc,     \* by worker: "out", "entered", "locked" or "unlocked"
    lockKey,    \* by worker: the key it has asked for
    mutex,      \* by worker: the mutex it was handed, 0 for none
    held,       \* keyedLocks.held: the mutex of each key, 0 for none
    refs        \* keyedLocks.refs

lockVars == <<lockPc, lockKey, mutex, held, refs>>

Mutexes == 1..Cardinality(Workers) + Cardinality(Keys)

LockInit ==
    /\ lockPc = [w \in Workers |-> "out"] /\ lockKey = [w \in Workers |-> NoKey]
    /\ mutex = [w \in Workers |-> 0]
    /\ held = [k \in Keys |-> 0] /\ refs = [k \in Keys |-> 0]

\* A mutex nobody has a pointer to.
FreshMutex ==
    CHOOSE m \in Mutexes : m \notin {mutex[w] : w \in Workers} \cup {held[k] : k \in Keys}

\* lock, as far as the map's own lock goes.
LockEnter(w, k) ==
    LET m == IF held[k] = 0 THEN FreshMutex ELSE held[k] IN
    /\ lockPc[w] = "out" /\ lockPc' = [lockPc EXCEPT ![w] = "entered"]
    /\ lockKey' = [lockKey EXCEPT ![w] = k] /\ mutex' = [mutex EXCEPT ![w] = m]
    /\ held' = [held EXCEPT ![k] = m] /\ refs' = [refs EXCEPT ![k] = @ + 1]

\* m.Lock.
LockTake(w) ==
    /\ lockPc[w] = "entered"
    /\ \A v \in Workers : ~(lockPc[v] = "locked" /\ mutex[v] = mutex[w])
    /\ lockPc' = [lockPc EXCEPT ![w] = "locked"]
    /\ UNCHANGED <<lockKey, mutex, held, refs>>

\* m.Unlock, the first half of unlock.
Unlock(w) ==
    /\ lockPc[w] = "locked" /\ lockPc' = [lockPc EXCEPT ![w] = "unlocked"]
    /\ UNCHANGED <<lockKey, mutex, held, refs>>

\* Mutant: whoever unlocks forgets the key.
ForgetAlways(w) ==
    LET k == lockKey[w] IN
    /\ lockPc[w] = "unlocked" /\ lockPc' = [lockPc EXCEPT ![w] = "out"]
    /\ lockKey' = [lockKey EXCEPT ![w] = NoKey] /\ mutex' = [mutex EXCEPT ![w] = 0]
    /\ refs' = [refs EXCEPT ![k] = @ - 1]
    /\ held' = [held EXCEPT ![k] = 0]

\* The second half: the last one out forgets the key.
Forget(w) ==
    LET k == lockKey[w] IN
    /\ lockPc[w] = "unlocked" /\ lockPc' = [lockPc EXCEPT ![w] = "out"]
    /\ lockKey' = [lockKey EXCEPT ![w] = NoKey] /\ mutex' = [mutex EXCEPT ![w] = 0]
    /\ refs' = [refs EXCEPT ![k] = @ - 1]
    /\ held' = [held EXCEPT ![k] = IF refs[k] = 1 THEN 0 ELSE @]

\* The locks alone, whatever the workers do in between.
LockNext ==
    \E w \in Workers :
        (\E k \in Keys : LockEnter(w, k)) \/ LockTake(w) \/ Unlock(w) \/ Forget(w)

LockSpec == LockInit /\ [][LockNext]_lockVars

-----------------------------------------------------------------------------
(* Properties *)

\* Messages of one key are handled one at a time, and a key nobody has is
\* forgotten, whatever order workers enter and leave the locks in (keyedLocks).
OneAtATime ==
    /\ \A v, w \in Workers :
        v # w /\ lockPc[v] = "locked" /\ lockPc[w] = "locked" => lockKey[v] # lockKey[w]
    /\ \A k \in Keys : held[k] # 0 <=> \E w \in Workers : lockKey[w] = k

=============================================================================
