----------------------------- MODULE WireProofs -----------------------------
(***************************************************************************)
(* Proof that the keyed locks of patterns.Ordered keep messages of one key  *)
(* apart and forget the keys nobody has, for any number of workers and      *)
(* keys: a key's mutex stays the same while any worker has asked for it,    *)
(* because the count of those who have is exact.  The consumer of Wire uses *)
(* the locks in their own steps, so that the same holds of the whole.       *)
(***************************************************************************)
EXTENDS Wire, FiniteSetTheorems, TLAPS

Users(k) == {w \in Workers : lockKey[w] = k}

LockTypes ==
    /\ lockPc \in [Workers -> {"out", "entered", "locked", "unlocked"}]
    /\ lockKey \in [Workers -> Keys \cup {NoKey}]
    /\ mutex \in [Workers -> Nat] /\ held \in [Keys -> Nat] /\ refs \in [Keys -> Nat]

\* Who has asked for a key has its mutex; the count of them is exact; a key has
\* a mutex as long as there are any; and its mutex excludes.
LockInv ==
    /\ LockTypes
    /\ \A w \in Workers : lockPc[w] = "out" <=> lockKey[w] = NoKey
    /\ \A w \in Workers : lockPc[w] = "out" => mutex[w] = 0
    /\ \A w \in Workers : lockPc[w] # "out" => mutex[w] = held[lockKey[w]]
    /\ \A k \in Keys : refs[k] = Cardinality(Users(k))
    /\ OneAtATime

-----------------------------------------------------------------------------
(* Counting *)

\* Who has asked for a key can be counted.
LEMMA UsersFinite == \A k : IsFiniteSet(Users(k)) /\ Cardinality(Users(k)) \in Nat
<1>1. IsFiniteSet(Workers)
  BY OrderedAssumption
<1>2. ASSUME NEW k PROVE IsFiniteSet(Users(k))
  <2>1. Users(k) \subseteq Workers
    BY DEF Users
  <2>. QED  BY <1>1, <2>1, FS_Subset
<1>. QED  BY <1>2, FS_CardinalityType

\* The values a function has on a finite set are no more than its elements.
LEMMA FewValues ==
    ASSUME NEW S, IsFiniteSet(S), NEW f, f = [x \in S |-> f[x]]
    PROVE  LET T == {f[x] : x \in S} IN IsFiniteSet(T) /\ Cardinality(T) <= Cardinality(S)
<1>. DEFINE T == {f[x] : x \in S}
<1>1. f \in Surjection(S, T)
  BY DEF Surjection
<1>. QED  BY <1>1, FS_Surjection

\* There is a mutex to hand out: one worker and one key are without.
LEMMA FreshExists ==
    ASSUME LockInv, NEW w \in Workers, lockPc[w] = "out", NEW k \in Keys, held[k] = 0
    PROVE  /\ FreshMutex \in Nat \ {0}
           /\ \A v \in Workers : mutex[v] # FreshMutex
<1>. DEFINE Ws == Workers \ {w}
            Ks == Keys \ {k}
            mf == [v \in Ws |-> mutex[v]]
            hf == [c \in Ks |-> held[c]]
            M == {mf[v] : v \in Ws}
            H == {hf[c] : c \in Ks}
            All == {mutex[v] : v \in Workers} \cup {held[c] : c \in Keys}
<1>1. /\ IsFiniteSet(Ws) /\ Cardinality(Ws) = Cardinality(Workers) - 1
      /\ IsFiniteSet(Ks) /\ Cardinality(Ks) = Cardinality(Keys) - 1
      /\ Cardinality(Workers) \in Nat /\ Cardinality(Keys) \in Nat
  <2>1. IsFiniteSet(Workers) /\ IsFiniteSet(Keys)
    BY OrderedAssumption
  <2>2. Cardinality(Workers) \in Nat /\ Cardinality(Keys) \in Nat
    BY <2>1, FS_CardinalityType
  <2>3. IsFiniteSet(Ws) /\ Cardinality(Ws) = Cardinality(Workers) - 1
    BY <2>1, FS_RemoveElement
  <2>4. IsFiniteSet(Ks) /\ Cardinality(Ks) = Cardinality(Keys) - 1
    BY <2>1, FS_RemoveElement
  <2>. QED  BY <2>2, <2>3, <2>4
<1>2. IsFiniteSet(M) /\ Cardinality(M) <= Cardinality(Ws)
  BY <1>1, FewValues
<1>3. IsFiniteSet(H) /\ Cardinality(H) <= Cardinality(Ks)
  BY <1>1, FewValues
<1>4. /\ IsFiniteSet(M \cup H)
      /\ Cardinality(M \cup H) = Cardinality(M) + Cardinality(H) - Cardinality(M \cap H)
      /\ Cardinality(M) \in Nat /\ Cardinality(H) \in Nat
      /\ Cardinality(M \cup H) \in Nat /\ Cardinality(M \cap H) \in Nat
  <2>1. IsFiniteSet(M \cap H)
    BY <1>2, FS_Subset
  <2>. QED  BY <1>2, <1>3, <2>1, FS_Union, FS_CardinalityType
<1>5. Cardinality(Mutexes) = Cardinality(Workers) + Cardinality(Keys)
  <2>1. \A n, m \in Nat : n + m \in Nat /\ n + m - 1 + 1 = n + m /\ (1 > n + m => n + m = 0)
    OBVIOUS
  <2>. QED  BY <1>1, <2>1, FS_Interval DEF Mutexes
<1>6. ~(Mutexes \subseteq M \cup H)
  <2>. SUFFICES ASSUME Mutexes \subseteq M \cup H PROVE FALSE
    OBVIOUS
  <2>1. Cardinality(Mutexes) <= Cardinality(M \cup H)
    BY <1>4, FS_Subset
  <2>. QED  BY <1>1, <1>2, <1>3, <1>4, <1>5, <2>1
<1>7. All \subseteq M \cup H \cup {0}
  BY DEF LockInv, LockTypes
<1>8. \E m \in Mutexes : m \notin All
  <2>1. PICK m \in Mutexes : m \notin M \cup H
    BY <1>6
  <2>2. m # 0
    BY <1>1 DEF Mutexes
  <2>. HIDE DEF M, H, All
  <2>. QED  BY <1>7, <2>1, <2>2
<1>9. FreshMutex \in Mutexes /\ FreshMutex \notin All
  BY <1>8 DEF FreshMutex
<1>. QED  BY <1>1, <1>9 DEF Mutexes

-----------------------------------------------------------------------------
(* The steps *)

\* One more has asked for the key, and has its mutex or a fresh one.
LEMMA EnterKeeps ==
    ASSUME LockInv, NEW w \in Workers, NEW k \in Keys, LockEnter(w, k) PROVE LockInv'
<1>. DEFINE m == IF held[k] = 0 THEN FreshMutex ELSE held[k]
<1>1. m \in Nat \ {0}
  BY FreshExists DEF LockInv, LockTypes, LockEnter
<1>2. LockTypes'
  BY <1>1 DEF LockInv, LockTypes, LockEnter
<1>3. lockKey[w] = NoKey /\ lockKey' = [lockKey EXCEPT ![w] = k]
  BY DEF LockInv, LockEnter
<1>4. \A c \in Keys : refs'[c] = Cardinality(Users(c)')
  <2>. TAKE c \in Keys
  <2>1. CASE c = k
    <3>1. Users(c)' = Users(c) \cup {w} /\ w \notin Users(c)
      BY <1>3, <2>1, OrderedAssumption DEF Users, LockInv, LockTypes
    <3>2. Cardinality(Users(c)') = Cardinality(Users(c)) + 1
      BY <3>1, UsersFinite, FS_AddElement
    <3>. QED  BY <2>1, <3>2 DEF LockInv, LockTypes, LockEnter
  <2>2. CASE c # k
    <3>1. Users(c)' = Users(c)
      BY <1>3, <2>2, OrderedAssumption DEF Users, LockInv, LockTypes
    <3>. QED  BY <2>2, <3>1 DEF LockInv, LockTypes, LockEnter
  <2>. QED  BY <2>1, <2>2
<1>5. \A v \in Workers : v # w /\ lockKey[v] = k => held[k] # 0
  BY DEF LockInv, OneAtATime
<1>6. OneAtATime'
  BY <1>1, <1>3, OrderedAssumption DEF OneAtATime, LockInv, LockTypes, LockEnter
<1>7. \A v \in Workers : lockPc'[v] # "out" => mutex'[v] = held'[lockKey'[v]]
  BY <1>1, <1>3, <1>5, OrderedAssumption DEF LockInv, LockTypes, LockEnter
<1>8. \A v \in Workers : (lockPc'[v] = "out" <=> lockKey'[v] = NoKey)
                         /\ (lockPc'[v] = "out" => mutex'[v] = 0)
  BY OrderedAssumption DEF LockInv, LockTypes, LockEnter
<1>. QED  BY <1>2, <1>4, <1>6, <1>7, <1>8 DEF LockInv

\* Nobody else has locked the mutex of the key.
LEMMA TakeKeeps == ASSUME LockInv, NEW w \in Workers, LockTake(w) PROVE LockInv'
BY DEF LockInv, LockTypes, OneAtATime, LockTake, Users

\* The mutex is free.
LEMMA UnlockKeeps == ASSUME LockInv, NEW w \in Workers, Unlock(w) PROVE LockInv'
BY DEF LockInv, LockTypes, OneAtATime, Unlock, Users

\* The last one out, and only the last, forgets the key.
LEMMA ForgetKeeps == ASSUME LockInv, NEW w \in Workers, Forget(w) PROVE LockInv'
<1>0. PICK k \in Keys : k = lockKey[w]
  BY DEF LockInv, LockTypes, Forget
<1>1. k \in Keys /\ k = lockKey[w] /\ w \in Users(k)
  BY <1>0 DEF Users
<1>2. refs[k] \in Nat \ {0} /\ refs[k] = Cardinality(Users(k))
  <2>1. Cardinality(Users(k)) # 0
    BY <1>1, UsersFinite, FS_EmptySet
  <2>. QED  BY <1>1, <2>1 DEF LockInv, LockTypes
<1>3. /\ Users(k)' = Users(k) \ {w}
      /\ \A c \in Keys : c # k => Users(c)' = Users(c)
  BY <1>1, OrderedAssumption DEF Users, Forget, LockInv, LockTypes
<1>4. Cardinality(Users(k)') = refs[k] - 1 /\ IsFiniteSet(Users(k)')
  BY <1>1, <1>2, <1>3, UsersFinite, FS_RemoveElement
<1>5. refs[k] = 1 <=> Users(k)' = {}
  BY <1>2, <1>4, FS_EmptySet
<1>6. LockTypes'
  BY <1>1, <1>2 DEF LockInv, LockTypes, Forget
<1>7. \A c \in Keys : refs'[c] = Cardinality(Users(c)')
  BY <1>1, <1>3, <1>4 DEF LockInv, LockTypes, Forget
<1>8. \A c \in Keys : held'[c] # 0 <=> Users(c)' # {}
  <2>1. \A c \in Keys : held[c] # 0 <=> Users(c) # {}
    BY DEF LockInv, OneAtATime, Users
  <2>2. \A c \in Keys : held'[c] = IF c = k /\ refs[k] = 1 THEN 0 ELSE held[c]
    BY <1>1 DEF LockInv, LockTypes, Forget
  <2>. QED  BY <1>1, <1>3, <1>5, <2>1, <2>2
<1>9. OneAtATime'
  <2>1. \A c \in Keys : held'[c] # 0 <=> \E v \in Workers : lockKey'[v] = c
    BY <1>8 DEF Users
  <2>2. \A v, u \in Workers : v # u /\ lockPc'[v] = "locked" /\ lockPc'[u] = "locked"
                              => lockKey'[v] # lockKey'[u]
    BY DEF LockInv, LockTypes, OneAtATime, Forget
  <2>. QED  BY <2>1, <2>2 DEF OneAtATime
<1>10. \A v \in Workers : lockPc'[v] # "out" => mutex'[v] = held'[lockKey'[v]]
  <2>. SUFFICES ASSUME NEW v \in Workers, lockPc'[v] # "out"
                PROVE  mutex'[v] = held'[lockKey'[v]]
    OBVIOUS
  <2>1. v # w /\ lockKey'[v] = lockKey[v] /\ mutex'[v] = held[lockKey[v]] /\ lockKey[v] \in Keys
    BY DEF LockInv, LockTypes, Forget
  <2>2. CASE lockKey[v] = k
    <3>1. Users(k)' # {}
      BY <2>1, <2>2 DEF Users
    <3>. QED  BY <1>1, <1>5, <2>1, <2>2, <3>1 DEF Forget, LockInv, LockTypes
  <2>3. CASE lockKey[v] # k
    BY <1>1, <2>1, <2>3 DEF Forget, LockInv, LockTypes
  <2>. QED  BY <2>2, <2>3
<1>11. \A v \in Workers : (lockPc'[v] = "out" <=> lockKey'[v] = NoKey)
                          /\ (lockPc'[v] = "out" => mutex'[v] = 0)
  BY DEF LockInv, LockTypes, Forget
<1>. QED  BY <1>6, <1>7, <1>9, <1>10, <1>11 DEF LockInv

-----------------------------------------------------------------------------
\* Ordered handles messages of one key one at a time, and its map holds the
\* keys in use and no others (keyedLocks.lock and the unlock it returns).
THEOREM KeysApart == LockSpec => []OneAtATime
<1>1. LockInit => LockInv
  <2>. SUFFICES ASSUME LockInit PROVE LockInv
    OBVIOUS
  <2>1. \A k \in Keys : Users(k) = {}
    BY OrderedAssumption DEF LockInit, Users
  <2>. QED  BY <2>1, OrderedAssumption, FS_EmptySet DEF LockInit, LockInv, LockTypes, OneAtATime
<1>2. LockInv /\ [LockNext]_lockVars => LockInv'
  <2>1. ASSUME LockInv, UNCHANGED lockVars PROVE LockInv'
    BY <2>1 DEF lockVars, LockInv, LockTypes, OneAtATime, Users
  <2>. QED  BY <2>1, EnterKeeps, TakeKeeps, UnlockKeeps, ForgetKeeps DEF LockNext
<1>3. LockInv => OneAtATime
  BY DEF LockInv
<1>. QED  BY <1>1, <1>2, <1>3, PTL DEF LockSpec

-----------------------------------------------------------------------------
(* The consumer that uses them *)

\* A worker enters, locks, unlocks and forgets in the locks' own steps, and
\* does nothing else to them.
LEMMA WorkLocks == ASSUME NEW w \in Workers, Work(w) PROVE [LockNext]_lockVars
<1>1. ASSUME NEW m \in queue, Take(w, m) PROVE UNCHANGED lockVars
  BY <1>1 DEF Take
<1>2. ASSUME Decode(w) \/ SchemaByID(w) \/ LookupFails(w) PROVE UNCHANGED lockVars
  BY <1>2 DEF Decode, SchemaByID, LookupFails
<1>3. ASSUME Enter(w) PROVE [LockNext]_lockVars
  BY <1>3 DEF Enter, LockNext
<1>4. ASSUME Locked(w) PROVE LockNext
  BY <1>4 DEF Locked, LockNext
<1>5. ASSUME NEW a, Handled(w, a) PROVE [LockNext]_lockVars
  BY <1>5 DEF Handled, LockNext
<1>6. ASSUME Unlocked(w) PROVE LockNext
  BY <1>6 DEF Unlocked, LockNext
<1>7. ASSUME Settle(w) \/ SettleFails(w) \/ ChannelLost(w) PROVE UNCHANGED lockVars
  BY <1>7 DEF Settle, SettleFails, ChannelLost
<1>. QED  BY <1>1, <1>2, <1>3, <1>4, <1>5, <1>6, <1>7 DEF Work

\* However many workers handle a consumer's messages, in whatever order they
\* decode, are refused, lose their channel and settle, messages of one key are
\* handled one at a time and no key nobody has is kept (Ordered).
THEOREM HandledApart == Spec => []OneAtATime
<1>1. Init => LockInit
  BY DEF Init
<1>2. [Next]_vars => [LockNext]_lockVars
  <2>1. ASSUME NEW g \in Senders, Encoding(g) \/ EncodeFails(g) \/ Publish(g)
        PROVE  UNCHANGED lockVars
    BY <2>1 DEF Encoding, EncodeFails, Publish
  <2>2. ASSUME UNCHANGED vars PROVE UNCHANGED lockVars
    BY <2>2 DEF vars
  <2>. QED  BY <2>1, <2>2, WorkLocks DEF Next
<1>. QED  BY <1>1, <1>2, KeysApart, PTL DEF Spec, LockSpec
-----------------------------------------------------------------------------
(* What a payload is read with *)

\* Most leaves below are matters of logic and sets: Zenon is tried first, then SMT.
USE ZenonT(10), SMTT(20)

Row == [definition: Definitions, version: Nat]

ReadTypes ==
    /\ store \in {"memory", "sql"} /\ schema \in [Codecs -> Definitions]
    /\ registered \in [Codecs -> BOOLEAN] /\ schemaID \in [Codecs -> Nat]
    /\ rows \in Seq(Row) /\ count \in [Senders -> Nat]
    /\ sendPc \in [Senders -> {"idle", "lock", "register", "count", "insert", "readback",
                               "framing", "sent", "failed"}]
    /\ codecs \in {<<"registered", "fixed">>, <<"fixed", "registered">>}
    /\ workPc \in [Workers -> {"idle", "decode", "lookup", "decoded", "locking", "handling",
                               "unlocking", "settle", "park"}]
    /\ job = [w \in Workers |-> job[w]] /\ seen = [w \in Workers |-> seen[w]]

\* Row i of the registry is of definition d; some row is.
Knows(i, d) == i \in DOMAIN rows /\ rows[i].definition = d
Known(d) == \E i \in DOMAIN rows : rows[i].definition = d

\* What a codec remembers is the id of its schema, it remembers one when it
\* frames, and what was inserted is there to be read back.
Registry ==
    /\ \A c \in Codecs : schemaID[c] # 0 => Knows(schemaID[c], schema[c])
    /\ \A c \in Codecs : ~registered[c] => schema[c] = own
    /\ \A g \in Senders :
        sendPc[g] = "framing" /\ registered[CodecOf[g]] => schemaID[CodecOf[g]] # 0
    /\ \A g \in Senders : sendPc[g] = "readback" => Known(DefinitionOf(g))

\* Unless definitions overlapped, all that are about to be inserted are the same
\* one, and it is the next version or there already.
Versions ==
    /\ \A g \in Senders : sendPc[g] \in {"count", "insert", "readback"} => store = "sql"
    /\ ~overlapped =>
        /\ \A i \in DOMAIN rows : rows[i].version = i
        /\ \A f, g \in Senders : sendPc[f] = "insert" /\ sendPc[g] = "insert"
                                    => DefinitionOf(f) = DefinitionOf(g)
        /\ \A g \in Senders : sendPc[g] = "insert" => count[g] = Len(rows) \/ Known(DefinitionOf(g))

\* A body says how it was written, and with the schema its id names.
BodyTrue(b) ==
    \/ b.contentType \in {"fixed", "generic"} /\ b.id = 0 /\ b.wrote = own
    \/ b.contentType = "registered" /\ b.id # 0 /\ Knows(b.id, b.wrote)

\* So do those on the queue and with a worker, which has one delivery or none.
Bodies ==
    /\ \A m \in queue : BodyTrue(m.body)
    /\ \A w \in Workers : \A m \in job[w] : BodyTrue(m.body)
    /\ \A w \in Workers : IF workPc[w] = "idle" THEN job[w] = {} /\ seen[w] = {}
                                                ELSE \E m : job[w] = {m}
    /\ \A w \in Workers : workPc[w] = "lookup" => \A m \in job[w] : m.body.contentType = "registered"

\* What was read was read with the schema it was written with, and what is
\* parked could not be.
ReadWith(s, b) == s = <<b.wrote, IF b.id = 0 \/ reader = NoSchema THEN b.wrote ELSE reader>>
Reads ==
    /\ \A w \in Workers : \A s \in seen[w] : \A m \in job[w] : ReadWith(s, m.body)
    /\ \A w \in Workers : workPc[w] = "park" =>
        \A m \in job[w] : unanswered \/ Unreadable(m.body)

RegistryInv == Registry /\ Versions
ReadInv == ReadTypes /\ RegistryInv /\ Bodies /\ Reads

\* The id a fingerprint is found under is that of its definition.
LEMMA FoundIs ==
    ASSUME ReadTypes, NEW d
    PROVE  /\ Known(d) => byFingerprint(d) \in Nat \ {0} /\ Knows(byFingerprint(d), d)
           /\ ~Known(d) => byFingerprint(d) = 0
<1>1. DOMAIN rows = 1..Len(rows) /\ Len(rows) \in Nat
  BY SMT DEF ReadTypes
<1>2. ASSUME Known(d) PROVE byFingerprint(d) \in DOMAIN rows /\ rows[byFingerprint(d)].definition = d
  BY <1>2, Zenon DEF Known, byFingerprint
<1>3. ASSUME ~Known(d) PROVE byFingerprint(d) = 0
  BY <1>3, Zenon DEF Known, byFingerprint
<1>4. ASSUME NEW i \in DOMAIN rows PROVE i \in Nat \ {0}
  BY <1>1, SMT
<1>. QED  BY <1>2, <1>3, <1>4, Zenon DEF Knows

\* t is the rows with definition d, behind the others if it was not there.
Grown(t, d, v) ==
    /\ t \in Seq(Row) /\ \E i \in DOMAIN t : t[i].definition = d
    /\ \A i \in DOMAIN rows : i \in DOMAIN t /\ t[i] = rows[i]
    /\ Known(d) => t = rows
    /\ ~Known(d) => /\ Len(rows) + 1 \in DOMAIN t
                    /\ t[Len(rows) + 1].definition = d /\ t[Len(rows) + 1].version = v
                    /\ \A i \in DOMAIN t : i \in DOMAIN rows \/ i = Len(rows) + 1

\* A definition that is inserted is there.
LEMMA InsertedIs ==
    ASSUME ReadTypes, NEW d \in Definitions, NEW v \in Nat, NEW t, t = Inserted(d, v)
    PROVE  Grown(t, d, v)
<1>. DEFINE x == [definition |-> d, version |-> v]
<1>1. rows \in Seq(Row) /\ DOMAIN rows = 1..Len(rows) /\ Len(rows) \in Nat
  BY SMT DEF ReadTypes
<1>2. x \in Row /\ x.definition = d /\ x.version = v
  BY DEF Row
<1>3. CASE Known(d)
  <2>1. t = rows
    BY <1>3, FoundIs DEF Inserted
  <2>. QED  BY <1>1, <1>3, <2>1, Zenon DEF Known, Grown
<1>4. CASE ~Known(d)
  <2>1. t = Append(rows, x)
    BY <1>4, FoundIs DEF Inserted
  <2>. HIDE DEF x
  <2>2. /\ t \in Seq(Row) /\ DOMAIN t = 1..Len(rows) + 1 /\ t[Len(rows) + 1] = x
        /\ \A i \in 1..Len(rows) : t[i] = rows[i]
    BY <1>1, <1>2, <2>1, SMT
  <2>3. /\ Len(rows) + 1 \in DOMAIN t /\ \A i \in DOMAIN rows : i \in DOMAIN t
        /\ \A i \in DOMAIN t : i \in DOMAIN rows \/ i = Len(rows) + 1
    BY <1>1, <2>2, SMT
  <2>. QED  BY <1>1, <1>2, <1>4, <2>2, <2>3, Zenon DEF Grown
<1>. QED  BY <1>3, <1>4

\* No row is ever changed.
Kept == \A i \in DOMAIN rows : i \in DOMAIN rows' /\ rows'[i] = rows[i]

\* Rows that are kept are known as they were.
LEMMA KeptIs ==
    ASSUME Kept
    PROVE  /\ \A i, d : Knows(i, d) => i \in DOMAIN rows' /\ rows'[i].definition = d
           /\ \A d : Known(d) => \E i \in DOMAIN rows' : rows'[i].definition = d
BY DEF Kept, Knows, Known

-----------------------------------------------------------------------------
(* Registering a schema *)

Pcs == {"idle", "lock", "register", "count", "insert", "readback", "framing", "sent", "failed"}

\* What a sender does on its way: it moves on, rows are kept, and its codec
\* remembers what it did, or the id of its own schema.
Moves(g) ==
    /\ UNCHANGED codecVars /\ rows' \in Seq(Row) /\ Kept
    /\ sendPc' \in [Senders -> Pcs] /\ \A f \in Senders \ {g} : sendPc'[f] = sendPc[f]
    /\ count' \in [Senders -> Nat] /\ \A f \in Senders \ {g} : count'[f] = count[f]
    /\ schemaID' \in [Codecs -> Nat]
    /\ \A c \in Codecs : \/ schemaID'[c] = schemaID[c]
                         \/ schemaID'[c] # 0 /\ Knows(schemaID[c], schema[c])'
    /\ sendPc'[g] = "framing" /\ registered[CodecOf[g]] => schemaID'[CodecOf[g]] # 0
    /\ sendPc'[g] = "readback" => \E i \in DOMAIN rows' : rows'[i].definition = DefinitionOf(g)
    /\ sendPc'[g] \in {"count", "insert", "readback"} => store = "sql"

\* The codec of a sender that has registered remembers the id it was given.
LEMMA RememberMoves ==
    ASSUME ReadTypes, NEW g \in Senders, NEW id \in Nat \ {0}, Remember(g, id),
           UNCHANGED codecVars, rows' \in Seq(Row), Kept,
           id \in DOMAIN rows', rows'[id].definition = DefinitionOf(g),
           sendPc' = [sendPc EXCEPT ![g] = "framing"], UNCHANGED count
    PROVE  Moves(g)
<1>0. CodecOf[g] \in Codecs
  BY AvroAssumption
<1>1. /\ schemaID' = [schemaID EXCEPT ![CodecOf[g]] = id] /\ schemaID \in [Codecs -> Nat]
      /\ schema' = schema
  BY DEF Remember, ReadTypes, codecVars
<1>2. schemaID' \in [Codecs -> Nat] /\ schemaID'[CodecOf[g]] = id /\ id # 0
  BY <1>0, <1>1, Zenon
<1>3. \A c \in Codecs : \/ schemaID'[c] = schemaID[c]
                        \/ schemaID'[c] # 0 /\ Knows(schemaID[c], schema[c])'
  BY <1>0, <1>1, <1>2, Zenon DEF Knows, DefinitionOf
<1>4. /\ sendPc' \in [Senders -> Pcs] /\ sendPc'[g] = "framing"
      /\ \A f \in Senders \ {g} : sendPc'[f] = sendPc[f]
  BY Zenon DEF ReadTypes, Pcs
<1>. QED  BY <1>2, <1>3, <1>4 DEF Moves, ReadTypes

\* A sender that goes on with what there is.
LEMMA GoesOn ==
    ASSUME ReadTypes, NEW g \in Senders, NEW to \in Pcs,
           sendPc' = [sendPc EXCEPT ![g] = to], UNCHANGED <<codecVars, rows, schemaID>>,
           count' \in [Senders -> Nat], \A f \in Senders \ {g} : count'[f] = count[f],
           to = "framing" /\ registered[CodecOf[g]] => schemaID[CodecOf[g]] # 0,
           to = "readback" => Known(DefinitionOf(g)),
           to \in {"count", "insert", "readback"} => store = "sql"
    PROVE  Moves(g)
<1>1. /\ sendPc' \in [Senders -> Pcs] /\ sendPc'[g] = to
      /\ \A f \in Senders \ {g} : sendPc'[f] = sendPc[f]
  BY Zenon DEF ReadTypes, Pcs
<1>2. rows' = rows /\ schemaID' = schemaID /\ Kept
  BY DEF Kept
<1>. QED  BY <1>1, <1>2 DEF Moves, ReadTypes, Known

\* Every step of Encode is such a step.
LEMMA EncodeMoves ==
    ASSUME ReadTypes, RegistryInv, NEW g \in Senders, Encode(g) \/ RegisterFails(g) PROVE Moves(g)
<1>0. /\ CodecOf[g] \in Codecs /\ DefinitionOf(g) \in Definitions
      /\ rows \in Seq(Row) /\ Len(rows) \in Nat /\ count \in [Senders -> Nat]
  BY AvroAssumption, SMT DEF DefinitionOf, ReadTypes
<1>1. CASE EncodeBegin(g)
  <2>1. PICK to \in {"lock", "framing"} :
          /\ sendPc' = [sendPc EXCEPT ![g] = to]
          /\ to = "framing" /\ registered[CodecOf[g]] => schemaID[CodecOf[g]] # 0
    BY <1>1 DEF EncodeBegin
  <2>2. UNCHANGED <<codecVars, rows, schemaID, count>>
    BY <1>1 DEF EncodeBegin
  <2>. QED  BY <1>0, <2>1, <2>2, GoesOn DEF Pcs
<1>2. CASE CurrentID(g)
  <2>1. PICK to \in {"register", "framing"} :
          /\ sendPc' = [sendPc EXCEPT ![g] = to]
          /\ to = "framing" => schemaID[CodecOf[g]] # 0
    BY <1>2 DEF CurrentID, At
  <2>2. UNCHANGED <<codecVars, rows, schemaID, count>>
    BY <1>2 DEF CurrentID
  <2>. QED  BY <1>0, <2>1, <2>2, GoesOn DEF Pcs
<1>3. CASE MemRegister(g)
  <2>. DEFINE d == DefinitionOf(g)
              id == IF byFingerprint(d) # 0 THEN byFingerprint(d) ELSE Len(rows) + 1
  <2>1. /\ rows' = Inserted(d, Len(rows) + 1) /\ Remember(g, id) /\ UNCHANGED <<codecVars, count>>
        /\ sendPc' = [sendPc EXCEPT ![g] = "framing"]
    BY <1>3, Zenon DEF MemRegister, At
  <2>0. Len(rows) + 1 \in Nat \ {0}
    BY <1>0, SMT
  <2>. HIDE DEF d, id
  <2>2. Grown(rows', d, Len(rows) + 1)
    BY <1>0, <2>0, <2>1, InsertedIs DEF d
  <2>4. rows' \in Seq(Row) /\ Kept
    BY <2>2 DEF Grown, Kept
  <2>3. id \in Nat \ {0} /\ id \in DOMAIN rows' /\ rows'[id].definition = d
    <3>1. CASE Known(d)
      <4>1. id = byFingerprint(d) /\ id \in Nat \ {0} /\ Knows(id, d)
        BY <3>1, FoundIs DEF id
      <4>. QED  BY <2>4, <4>1, KeptIs
    <3>2. CASE ~Known(d)
      <4>1. id = Len(rows) + 1
        BY <3>2, FoundIs DEF id
      <4>. QED  BY <2>0, <2>2, <3>2, <4>1 DEF Grown
    <3>. QED  BY <3>1, <3>2
  <2>. QED  BY <2>1, <2>3, <2>4, RememberMoves DEF d
<1>4. CASE SQLLook(g)
  <2>1. CASE byFingerprint(DefinitionOf(g)) # 0
    <3>1. /\ Known(DefinitionOf(g)) /\ UNCHANGED <<codecVars, rows, count>>
          /\ Remember(g, byFingerprint(DefinitionOf(g))) /\ sendPc' = [sendPc EXCEPT ![g] = "framing"]
      BY <1>4, <2>1, FoundIs DEF SQLLook, At
    <3>2. /\ byFingerprint(DefinitionOf(g)) \in Nat \ {0}
          /\ Knows(byFingerprint(DefinitionOf(g)), DefinitionOf(g))
      BY <3>1, FoundIs
    <3>. QED  BY <1>0, <3>1, <3>2, RememberMoves DEF Kept, Knows
  <2>2. CASE byFingerprint(DefinitionOf(g)) = 0
    <3>1. /\ sendPc' = [sendPc EXCEPT ![g] = "count"] /\ store = "sql"
          /\ UNCHANGED <<codecVars, rows, schemaID, count>>
      BY <1>4, <2>2 DEF SQLLook, At
    <3>. QED  BY <1>0, <3>1, GoesOn DEF Pcs
  <2>. QED  BY <2>1, <2>2
<1>5. CASE SQLCount(g)
  <2>1. /\ sendPc' = [sendPc EXCEPT ![g] = "insert"] /\ sendPc[g] = "count"
        /\ count' = [count EXCEPT ![g] = Len(rows)] /\ UNCHANGED <<codecVars, rows, schemaID>>
    BY <1>5 DEF SQLCount, At
  <2>2. count' \in [Senders -> Nat] /\ \A f \in Senders \ {g} : count'[f] = count[f]
    BY <1>0, <2>1, Zenon
  <2>3. store = "sql"
    BY <2>1 DEF RegistryInv, Versions
  <2>. QED  BY <2>1, <2>2, <2>3, GoesOn DEF Pcs
<1>6. CASE SQLInsert(g)
  <2>1. /\ sendPc' = [sendPc EXCEPT ![g] = "readback"] /\ sendPc[g] = "insert"
        /\ rows' = Inserted(DefinitionOf(g), count[g] + 1)
        /\ count' = [count EXCEPT ![g] = 0] /\ UNCHANGED <<codecVars, schemaID>>
    BY <1>6, Zenon DEF SQLInsert, At
  <2>0. count[g] + 1 \in Nat
    BY <1>0, SMT
  <2>2. count' \in [Senders -> Nat] /\ \A f \in Senders \ {g} : count'[f] = count[f]
    BY <1>0, <2>1, Zenon
  <2>3. /\ rows' \in Seq(Row) /\ \E i \in DOMAIN rows' : rows'[i].definition = DefinitionOf(g)
        /\ Kept
    <3>1. Grown(rows', DefinitionOf(g), count[g] + 1)
      BY <1>0, <2>0, <2>1, InsertedIs
    <3>. QED  BY <3>1 DEF Grown, Kept
  <2>4. /\ sendPc' \in [Senders -> Pcs] /\ sendPc'[g] = "readback"
        /\ \A f \in Senders \ {g} : sendPc'[f] = sendPc[f]
    BY <2>1, Zenon DEF ReadTypes, Pcs
  <2>5. store = "sql"
    BY <2>1 DEF RegistryInv, Versions
  <2>. QED  BY <2>1, <2>2, <2>3, <2>4, <2>5 DEF Moves, ReadTypes
<1>7. CASE SQLReadBack(g)
  <2>1. /\ Known(DefinitionOf(g)) /\ UNCHANGED <<codecVars, rows, count>>
        /\ Remember(g, byFingerprint(DefinitionOf(g))) /\ sendPc' = [sendPc EXCEPT ![g] = "framing"]
    BY <1>7 DEF SQLReadBack, At, RegistryInv, Registry
  <2>2. /\ byFingerprint(DefinitionOf(g)) \in Nat \ {0}
        /\ Knows(byFingerprint(DefinitionOf(g)), DefinitionOf(g))
    BY <2>1, FoundIs
  <2>. QED  BY <1>0, <2>1, <2>2, RememberMoves DEF Kept, Knows
<1>8. CASE RegisterFails(g)
  <2>1. /\ sendPc' = [sendPc EXCEPT ![g] = "failed"] /\ count' = [count EXCEPT ![g] = 0]
        /\ UNCHANGED <<codecVars, schemaID>>
    BY <1>8, Zenon DEF RegisterFails
  <2>2. count' \in [Senders -> Nat] /\ \A f \in Senders \ {g} : count'[f] = count[f]
    BY <1>0, <2>1, Zenon
  <2>3. CASE UNCHANGED rows
    BY <2>1, <2>2, <2>3, GoesOn DEF Pcs
  <2>4. CASE rows' = Inserted(DefinitionOf(g), count[g] + 1)
    <3>0. count[g] + 1 \in Nat
      BY <1>0, SMT
    <3>1. Grown(rows', DefinitionOf(g), count[g] + 1)
      BY <1>0, <2>4, <3>0, InsertedIs
    <3>2. rows' \in Seq(Row) /\ Kept
      BY <3>1 DEF Grown, Kept
    <3>3. /\ sendPc' \in [Senders -> Pcs] /\ sendPc'[g] = "failed"
          /\ \A f \in Senders \ {g} : sendPc'[f] = sendPc[f]
      BY <2>1, Zenon DEF ReadTypes, Pcs
    <3>. QED  BY <2>1, <2>2, <3>2, <3>3 DEF Moves, ReadTypes
  <2>. QED  BY <1>8, <2>3, <2>4, Zenon DEF RegisterFails
<1>. QED  BY <1>1, <1>2, <1>3, <1>4, <1>5, <1>6, <1>7, <1>8 DEF Encode

\* What the registry's steps have to do with the rest.
LEMMA MovesKeep ==
    ASSUME ReadTypes, Registry, NEW g \in Senders, Moves(g), UNCHANGED own
    PROVE  Registry'
<1>0. \A f \in Senders : CodecOf[f] \in Codecs
  BY AvroAssumption
<1>1. /\ UNCHANGED <<store, schema, registered>> /\ Kept
      /\ \A f \in Senders : DefinitionOf(f)' = DefinitionOf(f)
  BY DEF Moves, codecVars, DefinitionOf
<1>2. ASSUME NEW c \in Codecs, schemaID'[c] # 0 PROVE Knows(schemaID[c], schema[c])'
  <2>1. CASE schemaID'[c] = schemaID[c]
    <3>1. Knows(schemaID[c], schema[c])
      BY <1>2, <2>1 DEF Registry
    <3>. QED  BY <1>1, <2>1, <3>1, KeptIs DEF Knows
  <2>. QED  BY <1>2, <2>1 DEF Moves
<1>3. \A c \in Codecs : ~registered'[c] => schema'[c] = own'
  BY <1>1 DEF Registry
<1>4. ASSUME NEW f \in Senders, sendPc'[f] = "framing", registered'[CodecOf[f]]
      PROVE  schemaID'[CodecOf[f]] # 0
  <2>1. CASE f = g
    BY <1>1, <1>4, <2>1 DEF Moves
  <2>2. CASE f # g
    BY <1>0, <1>1, <1>4, <2>2 DEF Moves, Registry
  <2>. QED  BY <2>1, <2>2
<1>5. ASSUME NEW f \in Senders, sendPc'[f] = "readback" PROVE Known(DefinitionOf(f))'
  <2>1. CASE f = g
    BY <1>1, <1>5, <2>1 DEF Moves, Known
  <2>2. CASE f # g
    <3>1. Known(DefinitionOf(f))
      BY <1>5, <2>2 DEF Moves, Registry
    <3>. QED  BY <1>1, <3>1, KeptIs DEF Known
  <2>. QED  BY <2>1, <2>2
<1>. QED  BY <1>2, <1>3, <1>4, <1>5 DEF Registry

\* Versions count from one when nothing is inserted.
LEMMA VersionsStay ==
    ASSUME ReadTypes, Versions, NEW g \in Senders, Moves(g), UNCHANGED <<rows, overlapped>>,
           sendPc'[g] # "insert"
    PROVE  Versions'
<1>1. /\ UNCHANGED <<store, schema>> /\ \A f \in Senders : DefinitionOf(f)' = DefinitionOf(f)
      /\ \A d : Known(d)' = Known(d)
  BY DEF Moves, codecVars, DefinitionOf, Known
<1>2. \A f \in Senders : sendPc'[f] \in {"count", "insert", "readback"} => store' = "sql"
  BY <1>1 DEF Moves, Versions
<1>3. \A f \in Senders : sendPc'[f] = "insert" => sendPc[f] = "insert" /\ count'[f] = count[f]
  BY DEF Moves
<1>. QED  BY <1>1, <1>2, <1>3 DEF Versions, Known

\* Or when one is, by whom no other definition is waiting for.
LEMMA EncodeVersions ==
    ASSUME ReadTypes, RegistryInv, NEW g \in Senders, Encode(g) \/ RegisterFails(g), Moves(g)
    PROVE  Versions'
<1>0. /\ DefinitionOf(g) \in Definitions /\ CodecOf[g] \in Codecs
      /\ rows \in Seq(Row) /\ Len(rows) \in Nat /\ DOMAIN rows = 1..Len(rows)
      /\ count \in [Senders -> Nat] /\ sendPc \in [Senders -> Pcs] /\ Versions
  BY AvroAssumption, SMT DEF DefinitionOf, ReadTypes, Pcs, RegistryInv
<1>1. /\ UNCHANGED <<store, schema>> /\ \A f \in Senders : DefinitionOf(f)' = DefinitionOf(f)
  BY DEF Moves, codecVars, DefinitionOf
<1>2. CASE EncodeBegin(g) \/ CurrentID(g) \/ SQLLook(g) \/ SQLReadBack(g)
           \/ (RegisterFails(g) /\ UNCHANGED rows)
  <2>1. UNCHANGED <<rows, overlapped>>
    BY <1>2 DEF EncodeBegin, CurrentID, SQLLook, SQLReadBack, RegisterFails
  <2>2. sendPc'[g] # "insert"
    BY <1>0, <1>2 DEF EncodeBegin, CurrentID, SQLLook, SQLReadBack, RegisterFails, At
  <2>. QED  BY <1>0, <2>1, <2>2, VersionsStay
<1>3. CASE MemRegister(g)
  <2>1. /\ store = "memory" /\ rows' = Inserted(DefinitionOf(g), Len(rows) + 1)
        /\ sendPc' = [sendPc EXCEPT ![g] = "framing"] /\ UNCHANGED overlapped
    BY <1>3, Zenon DEF MemRegister, At
  <2>2. \A f \in Senders : sendPc'[f] \notin {"count", "insert", "readback"}
    BY <1>0, <2>1 DEF Versions
  <2>3. ~overlapped => \A i \in DOMAIN rows' : rows'[i].version = i
    <3>1. Len(rows) + 1 \in Nat
      BY <1>0, SMT
    <3>2. Grown(rows', DefinitionOf(g), Len(rows) + 1)
      BY <1>0, <2>1, <3>1, InsertedIs
    <3>. QED  BY <1>0, <3>2 DEF Grown, Versions
  <2>. QED  BY <2>1, <2>2, <2>3 DEF Versions
<1>4. CASE SQLCount(g)
  <2>1. /\ sendPc' = [sendPc EXCEPT ![g] = "insert"] /\ sendPc[g] = "count"
        /\ count' = [count EXCEPT ![g] = Len(rows)] /\ UNCHANGED rows
        /\ overlapped' = (overlapped \/ \E f \in Senders :
                            sendPc[f] = "insert" /\ DefinitionOf(f) # DefinitionOf(g))
    BY <1>4, Zenon DEF SQLCount, At
  <2>2. \A f \in Senders : sendPc'[f] \in {"count", "insert", "readback"} => store' = "sql"
    BY <1>0, <1>1, <2>1 DEF Versions, Moves
  <2>3. ASSUME ~overlapped'
        PROVE  /\ ~overlapped
               /\ \A f \in Senders : sendPc'[f] = "insert" => DefinitionOf(f) = DefinitionOf(g)
    BY <1>0, <2>1, <2>3, Zenon
  <2>4. ASSUME NEW f \in Senders, sendPc'[f] = "insert", ~overlapped'
        PROVE  count'[f] = Len(rows') \/ Known(DefinitionOf(f))'
    <3>1. CASE f = g
      BY <1>0, <2>1, <3>1
    <3>2. CASE f # g
      <4>1. sendPc[f] = "insert" /\ count'[f] = count[f] /\ ~overlapped
        BY <1>0, <2>1, <2>3, <2>4, <3>2
      <4>2. count[f] = Len(rows) \/ Known(DefinitionOf(f))
        BY <1>0, <4>1 DEF Versions
      <4>. QED  BY <1>1, <2>1, <4>1, <4>2 DEF Known
    <3>. QED  BY <3>1, <3>2
  <2>5. ~overlapped' => \A i \in DOMAIN rows' : rows'[i].version = i
    BY <1>0, <2>1, <2>3 DEF Versions
  <2>6. ~overlapped' => \A f, h \in Senders : sendPc'[f] = "insert" /\ sendPc'[h] = "insert"
                                               => DefinitionOf(f)' = DefinitionOf(h)'
    BY <1>1, <2>3, Zenon
  <2>. QED  BY <2>2, <2>4, <2>5, <2>6, Zenon DEF Versions
<1>5. CASE \/ SQLInsert(g)
           \/ /\ RegisterFails(g) /\ sendPc[g] = "insert"
              /\ rows' = Inserted(DefinitionOf(g), count[g] + 1)
  <2>0. PICK to \in {"readback", "failed"} :
          /\ sendPc' = [sendPc EXCEPT ![g] = to] /\ sendPc[g] = "insert"
          /\ rows' = Inserted(DefinitionOf(g), count[g] + 1) /\ UNCHANGED overlapped
    BY <1>5, Zenon DEF SQLInsert, RegisterFails, At
  <2>1. /\ \A f \in Senders : sendPc'[f] = IF f = g THEN to ELSE sendPc[f]
        /\ sendPc[g] = "insert"
        /\ rows' = Inserted(DefinitionOf(g), count[g] + 1) /\ UNCHANGED overlapped
    BY <1>0, <2>0, Zenon
  <2>2. \A f \in Senders : sendPc'[f] \in {"count", "insert", "readback"} => store' = "sql"
    BY <1>0, <1>1, <2>1 DEF Versions, Moves
  <2>3. Grown(rows', DefinitionOf(g), count[g] + 1)
    <3>1. count[g] + 1 \in Nat
      BY <1>0, SMT
    <3>. QED  BY <1>0, <2>1, <3>1, InsertedIs
  <2>4. \A f \in Senders : sendPc'[f] = "insert" => f # g /\ sendPc[f] = "insert"
    BY <1>0, <2>1
  <2>5. ASSUME ~overlapped PROVE \A i \in DOMAIN rows' : rows'[i].version = i
    <3>1. CASE Known(DefinitionOf(g))
      BY <1>0, <2>3, <2>5, <3>1 DEF Grown, Versions
    <3>2. CASE ~Known(DefinitionOf(g))
      <4>1. count[g] = Len(rows)
        BY <1>0, <2>1, <2>5, <3>2 DEF Versions
      <4>. QED  BY <1>0, <2>3, <2>5, <3>2, <4>1 DEF Grown, Versions
    <3>. QED  BY <3>1, <3>2
  <2>6. ASSUME ~overlapped, NEW f \in Senders, sendPc'[f] = "insert" PROVE Known(DefinitionOf(f))'
    <3>1. DefinitionOf(f)' = DefinitionOf(g)
      BY <1>0, <1>1, <2>1, <2>4, <2>6 DEF Versions
    <3>. QED  BY <2>3, <3>1 DEF Grown, Known
  <2>7. ~overlapped => \A f, h \in Senders : sendPc'[f] = "insert" /\ sendPc'[h] = "insert"
                                              => DefinitionOf(f)' = DefinitionOf(h)'
    BY <1>0, <1>1, <2>4 DEF Versions
  <2>. QED  BY <2>1, <2>2, <2>5, <2>6, <2>7, Zenon DEF Versions
<1>6. RegisterFails(g) => \/ UNCHANGED rows
                          \/ sendPc[g] = "insert" /\ rows' = Inserted(DefinitionOf(g), count[g] + 1)
  BY Zenon DEF RegisterFails
<1>. QED  BY <1>2, <1>3, <1>4, <1>5, <1>6 DEF Encode

-----------------------------------------------------------------------------
(* Reading *)

\* Messages and workers are as they were, and the registry has grown.
LEMMA ReadsStay ==
    ASSUME Bodies, Reads, Kept, UNCHANGED <<job, seen, workPc, unanswered, reader, own, codecs>>,
           \A m \in queue' : m \in queue \/ BodyTrue(m.body)'
    PROVE  Bodies' /\ Reads'
<1>1. \A b : BodyTrue(b) => BodyTrue(b)'
  BY KeptIs DEF BodyTrue, Knows
<1>2. Bodies'
  BY <1>1 DEF Bodies
<1>3. Reads'
  BY DEF Reads, ReadWith, Unreadable
<1>. QED  BY <1>2, <1>3

\* A sender registers, or fails to.
LEMMA EncodingKeeps ==
    ASSUME ReadInv, NEW g \in Senders, Encoding(g) \/ EncodeFails(g) PROVE ReadInv'
<1>1. /\ Encode(g) \/ RegisterFails(g)
      /\ UNCHANGED <<queue, codecs, reader, own, workPc, job, seen, unanswered>>
  BY DEF Encoding, EncodeFails, msgVars, consumerVars, workVars
<1>2. ReadTypes /\ RegistryInv /\ Registry /\ Bodies /\ Reads
  BY DEF ReadInv, RegistryInv
<1>3. Moves(g)
  BY <1>1, <1>2, EncodeMoves
<1>4. RegistryInv'
  BY <1>1, <1>2, <1>3, MovesKeep, EncodeVersions DEF RegistryInv
<1>5. ReadTypes'
  BY <1>1, <1>2, <1>3 DEF ReadTypes, Moves, codecVars, Pcs
<1>6. Bodies' /\ Reads'
  BY <1>1, <1>2, <1>3, ReadsStay DEF Moves
<1>. QED  BY <1>4, <1>5, <1>6 DEF ReadInv

\* A sender publishes what it framed.
LEMMA PublishKeeps == ASSUME ReadInv, NEW g \in Senders, Publish(g) PROVE ReadInv'
<1>0. ReadTypes /\ RegistryInv /\ Registry /\ Versions /\ Bodies /\ Reads
  BY DEF ReadInv, RegistryInv
<1>1. /\ sendPc[g] = "framing" /\ sendPc' = [sendPc EXCEPT ![g] = "sent"]
      /\ UNCHANGED <<store, schema, registered, schemaID, rows, count, overlapped, codecs, reader, own,
                     workPc, job, seen, unanswered>>
  BY DEF Publish, At, codecVars, consumerVars, workVars
<1>2. \A m \in queue' : m \in queue \/ m.body = Framed(g)
  <2>1. PICK e, routingKey : MemPublish(Message(g, routingKey, g, ToWire(e), Framed(g)))
    BY Zenon DEF Publish
  <2>. DEFINE m == Message(g, routingKey, g, ToWire(e), Framed(g))
  <2>2. m.body = Framed(g)
    BY DEF Message
  <2>. HIDE DEF m
  <2>3. MemPublish(m)
    BY <2>1 DEF m
  <2>. QED  BY <2>2, <2>3 DEF MemPublish
<1>3. BodyTrue(Framed(g))
  <2>0. CodecOf[g] \in Codecs /\ registered[CodecOf[g]] \in BOOLEAN
    BY <1>0, AvroAssumption DEF ReadTypes
  <2>1. CASE registered[CodecOf[g]]
    BY <1>0, <1>1, <2>0, <2>1 DEF BodyTrue, Framed, Registry
  <2>2. CASE ~registered[CodecOf[g]]
    BY <1>0, <1>1, <2>0, <2>2 DEF BodyTrue, Framed, Registry
  <2>. QED  BY <2>0, <2>1, <2>2
<1>4. Moves(g)
  BY <1>0, <1>1, GoesOn DEF Pcs, codecVars, ReadTypes
<1>5. sendPc'[g] # "insert"
  BY <1>0, <1>1 DEF ReadTypes
<1>6. RegistryInv'
  BY <1>0, <1>1, <1>4, <1>5, MovesKeep, VersionsStay DEF RegistryInv
<1>7. ReadTypes'
  BY <1>0, <1>1, <1>4 DEF ReadTypes, Moves, Pcs
<1>8. Bodies' /\ Reads'
  <2>1. \A m \in queue' : m \in queue \/ BodyTrue(m.body)'
    <3>1. \A b : BodyTrue(b) => BodyTrue(b)'
      BY <1>1 DEF BodyTrue, Knows
    <3>. QED  BY <1>2, <1>3, <3>1
  <2>. QED  BY <1>0, <1>1, <1>4, <2>1, ReadsStay DEF Moves
<1>. QED  BY <1>6, <1>7, <1>8 DEF ReadInv

\* What a worker does leaves the registry and the codecs alone.
LEMMA WorkLeaves ==
    ASSUME ReadTypes, RegistryInv, NEW w \in Workers, Work(w)
    PROVE  RegistryInv' /\ UNCHANGED <<rows, codecs, reader, own>>
<1>1. UNCHANGED <<registryVars, consumerVars>>
  BY DEF Work, Take, Decode, SchemaByID, LookupFails, Enter, Locked, Handled, Unlocked, Settle,
         SettleFails, ChannelLost
<1>. QED  BY <1>1 DEF RegistryInv, Registry, Versions, Knows, Known, DefinitionOf, registryVars, consumerVars

\* The body a worker has: the only one.
LEMMA OnlyIs == ASSUME NEW m, NEW S, S = {m} PROVE Only(S) = m
BY DEF Only

\* A worker goes on with its delivery.
LEMMA WorkerGoesOn ==
    ASSUME ReadInv, NEW w \in Workers, workPc[w] # "idle", RegistryInv',
           NEW to \in {"decode", "lookup", "decoded", "locking", "handling", "unlocking", "settle", "park"},
           workPc' = [workPc EXCEPT ![w] = to], UNCHANGED <<registryVars, consumerVars, job>>,
           \A m \in queue' : m \in queue \/ BodyTrue(m.body),
           seen' = seen \/ \E s : seen' = [seen EXCEPT ![w] = {s}] /\ \A m \in job[w] : ReadWith(s, m.body),
           unanswered => unanswered',
           to = "lookup" => \A m \in job[w] : m.body.contentType = "registered",
           to = "park" => \A m \in job[w] : unanswered' \/ Unreadable(m.body)
    PROVE  ReadInv'
<1>0. ReadTypes /\ Bodies /\ Reads
  BY DEF ReadInv
<1>1. /\ UNCHANGED <<store, schema, registered, schemaID, rows, count, sendPc, codecs, reader, own>>
      /\ \A b : BodyTrue(b)' = BodyTrue(b)
      /\ \A s, b : ReadWith(s, b)' = ReadWith(s, b)
      /\ \A b : Unreadable(b)' = Unreadable(b)
  BY DEF registryVars, consumerVars, BodyTrue, Knows, ReadWith, Unreadable
<1>2. /\ workPc' \in [Workers -> {"idle", "decode", "lookup", "decoded", "locking", "handling",
                                  "unlocking", "settle", "park"}]
      /\ \A v \in Workers : workPc'[v] = IF v = w THEN to ELSE workPc[v]
  BY <1>0, Zenon DEF ReadTypes
<1>3. /\ seen' = [v \in Workers |-> seen'[v]]
      /\ \A v \in Workers : v # w => seen'[v] = seen[v]
      /\ \A s \in seen'[w] : \A m \in job[w] : ReadWith(s, m.body)
  <2>1. CASE seen' = seen
    BY <1>0, <2>1 DEF ReadTypes, Reads
  <2>2. ASSUME NEW s, seen' = [seen EXCEPT ![w] = {s}], \A m \in job[w] : ReadWith(s, m.body)
        PROVE  /\ seen' = [v \in Workers |-> seen'[v]]
               /\ \A v \in Workers : v # w => seen'[v] = seen[v]
               /\ \A x \in seen'[w] : \A m \in job[w] : ReadWith(x, m.body)
    BY <1>0, <2>2 DEF ReadTypes
  <2>. QED  BY <2>1, <2>2
<1>4. ReadTypes'
  BY <1>0, <1>1, <1>2, <1>3 DEF ReadTypes
<1>5. Bodies'
  BY <1>0, <1>1, <1>2, <1>3 DEF Bodies
<1>6. Reads'
  BY <1>0, <1>1, <1>2, <1>3 DEF Reads
<1>. QED  BY <1>4, <1>5, <1>6 DEF ReadInv

\* A worker is done with its delivery, or with another.
LEMMA WorkerIsDone ==
    ASSUME ReadInv, NEW w \in Workers, Done(w), RegistryInv', UNCHANGED <<registryVars, consumerVars, unanswered>>,
           \A m \in queue' : m \in queue \/ BodyTrue(m.body)
    PROVE  ReadInv'
<1>0. ReadTypes /\ Bodies /\ Reads
  BY DEF ReadInv
<1>1. /\ UNCHANGED <<store, schema, registered, schemaID, rows, count, sendPc, codecs, reader, own>>
      /\ \A b : BodyTrue(b)' = BodyTrue(b)
      /\ \A s, b : ReadWith(s, b)' = ReadWith(s, b)
      /\ \A b : Unreadable(b)' = Unreadable(b)
  BY DEF registryVars, consumerVars, BodyTrue, Knows, ReadWith, Unreadable
<1>2. /\ workPc' \in [Workers -> {"idle", "decode", "lookup", "decoded", "locking", "handling",
                                  "unlocking", "settle", "park"}]
      /\ job' = [v \in Workers |-> job'[v]] /\ seen' = [v \in Workers |-> seen'[v]]
      /\ workPc'[w] = "idle" /\ job'[w] = {} /\ seen'[w] = {}
      /\ \A v \in Workers : v # w => workPc'[v] = workPc[v] /\ job'[v] = job[v] /\ seen'[v] = seen[v]
  BY <1>0 DEF ReadTypes, Done, Goto
<1>3. ReadTypes'
  BY <1>0, <1>1, <1>2 DEF ReadTypes
<1>4. Bodies'
  BY <1>0, <1>1, <1>2 DEF Bodies
<1>5. Reads'
  BY <1>0, <1>1, <1>2 DEF Reads
<1>. QED  BY <1>3, <1>4, <1>5 DEF ReadInv

\* Decoding with the schema a body was written with.
LEMMA DecodeReads ==
    ASSUME ReadInv, NEW w \in Workers, NEW m, job[w] = {m}, m.body.id # 0, workPc[w] # "idle",
           m.body.contentType = "registered",
           DecodeWith(w, m.body.wrote), RegistryInv',
           UNCHANGED <<registryVars, consumerVars, job, queue, unanswered>>
    PROVE  ReadInv'
<1>1. CASE reader = NoSchema /\ seen' = [seen EXCEPT ![w] = {<<m.body.wrote, m.body.wrote>>}] /\ Goto(w, "decoded")
  BY <1>1, WorkerGoesOn DEF ReadWith, Goto
<1>2. CASE reader # NoSchema /\ seen' = [seen EXCEPT ![w] = {<<m.body.wrote, reader>>}] /\ Goto(w, "decoded")
  BY <1>2, WorkerGoesOn DEF ReadWith, Goto
<1>3. CASE reader # NoSchema /\ <<reader, m.body.wrote>> \notin Readable /\ UNCHANGED seen /\ Goto(w, "park")
  BY <1>3, WorkerGoesOn DEF Goto, Unreadable
<1>. QED  BY <1>1, <1>2, <1>3 DEF DecodeWith

\* The codec that is chosen is the one of the content type, and for a generic
\* one the first there is.
LEMMA ChosenIs ==
    ASSUME ReadTypes
    PROVE  /\ \A t \in {"fixed", "registered"} : Chosen(t) = t
           /\ Chosen("generic") = codecs[1]
<1>a. ASSUME NEW t \in {"fixed", "registered"} PROVE Chosen(t) = t
  <2>1. PICK i \in {1, 2} : /\ DOMAIN codecs = {1, 2} /\ codecs[i] = t
                            /\ \A j \in {1, 2} : codecs[j] = t => j = i
    BY DEF ReadTypes
  <2>2. {j \in DOMAIN codecs : CanDecode(codecs[j], t)} = {i}
    BY <2>1 DEF CanDecode
  <2>3. (CHOOSE j \in {i} : \A k \in {i} : j <= k) = i
    <3>1. i <= i
      BY SMT
    <3>. QED  BY <3>1
  <2>. QED  BY <2>1, <2>2, <2>3 DEF Chosen
<1>b. Chosen("generic") = codecs[1]
  <2>1. {j \in DOMAIN codecs : CanDecode(codecs[j], "generic")} = {1, 2}
    <3>1. DOMAIN codecs = {1, 2}
      BY DEF ReadTypes
    <3>. QED  BY <3>1 DEF CanDecode
  <2>2. (CHOOSE j \in {1, 2} : \A k \in {1, 2} : j <= k) = 1
    <3>1. 1 \in {1, 2} /\ \A k \in {1, 2} : 1 <= k
      BY SMT
    <3>2. \A j \in {1, 2} : (\A k \in {1, 2} : j <= k) => j = 1
      BY SMT
    <3>. QED  BY <3>1, <3>2, Zenon
  <2>. QED  BY <2>1, <2>2 DEF Chosen
<1>. QED  BY <1>a, <1>b

\* A worker decodes what it has, with what it knows or after asking.
LEMMA DecodeKeeps ==
    ASSUME ReadInv, NEW w \in Workers, Decode(w) \/ SchemaByID(w) \/ LookupFails(w) PROVE ReadInv'
<1>0. ReadTypes /\ RegistryInv /\ Bodies /\ Reads
  BY DEF ReadInv
<1>1. Work(w)
  BY DEF Work
<1>2. RegistryInv' /\ UNCHANGED <<registryVars, consumerVars, job, queue>> /\ workPc[w] \in {"decode", "lookup"}
  BY <1>0, <1>1, WorkLeaves DEF Decode, SchemaByID, LookupFails, msgVars
<1>3. PICK m : job[w] = {m}
  BY <1>0, <1>2 DEF Bodies
<1>4. Only(job[w]) = m /\ BodyTrue(m.body)
  BY <1>0, <1>3, OnlyIs DEF Bodies
<1>5. CASE LookupFails(w)
  <2>1. workPc' = [workPc EXCEPT ![w] = "park"] /\ unanswered' = TRUE /\ UNCHANGED seen
    BY <1>5 DEF LookupFails, Goto
  <2>. QED  BY <1>2, <2>1, WorkerGoesOn
<1>6. CASE SchemaByID(w)
  <2>1. m.body.contentType = "registered" /\ m.body.id # 0 /\ rows[m.body.id].definition = m.body.wrote
    BY <1>0, <1>3, <1>4, <1>6 DEF SchemaByID, Bodies, BodyTrue, Knows
  <2>2. DecodeWith(w, m.body.wrote) /\ UNCHANGED unanswered
    BY <1>4, <1>6, <2>1 DEF SchemaByID
  <2>. QED  BY <1>2, <1>3, <2>1, <2>2, DecodeReads
<1>7. CASE Decode(w)
  <2>0. UNCHANGED unanswered
    BY <1>7 DEF Decode
  <2>1. CASE m.body.contentType \in {"fixed", "generic"} /\ m.body.id = 0 /\ m.body.wrote = own
    <3>1. CASE Chosen(m.body.contentType) = "fixed"
      <4>1. seen' = [seen EXCEPT ![w] = {<<own, own>>}] /\ workPc' = [workPc EXCEPT ![w] = "decoded"]
        BY <1>4, <1>7, <2>1, <3>1 DEF Decode, Goto
      <4>. QED  BY <1>2, <1>3, <2>0, <2>1, <4>1, WorkerGoesOn DEF ReadWith
    <3>2. CASE m.body.contentType = "generic" /\ codecs[1] = "registered"
      <4>1. Chosen(m.body.contentType) = "registered"
        BY <1>0, <3>2, ChosenIs
      <4>2. workPc' = [workPc EXCEPT ![w] = "park"] /\ UNCHANGED seen
        BY <1>4, <1>7, <2>1, <4>1, Zenon DEF Decode, Goto
      <4>. QED  BY <1>2, <1>3, <2>0, <3>2, <4>2, WorkerGoesOn DEF Unreadable
    <3>3. codecs[1] \in {"fixed", "registered"}
      BY <1>0, SMT DEF ReadTypes
    <3>. QED  BY <1>0, <2>1, <3>1, <3>2, <3>3, ChosenIs
  <2>2. CASE m.body.contentType = "registered" /\ m.body.id # 0 /\ Knows(m.body.id, m.body.wrote)
    <3>1. Chosen(m.body.contentType) = "registered"
      BY <1>0, <2>2, ChosenIs
    <3>2. CASE m.body.id \in byID
      <4>1. DecodeWith(w, m.body.wrote)
        BY <1>4, <1>7, <2>2, <3>1, <3>2 DEF Decode, Knows
      <4>. QED  BY <1>2, <1>3, <2>0, <2>2, <4>1, DecodeReads
    <3>3. CASE m.body.id \notin byID
      <4>1. workPc' = [workPc EXCEPT ![w] = "lookup"] /\ UNCHANGED seen
        BY <1>4, <1>7, <2>2, <3>1, <3>3 DEF Decode, Goto
      <4>. QED  BY <1>2, <1>3, <2>0, <2>2, <4>1, WorkerGoesOn
    <3>. QED  BY <3>2, <3>3
  <2>. QED  BY <1>4, <2>1, <2>2 DEF BodyTrue
<1>. QED  BY <1>5, <1>6, <1>7

\* A worker takes a message, handles it, and settles it.
LEMMA WorkKeeps == ASSUME ReadInv, NEW w \in Workers, Work(w) PROVE ReadInv'
<1>0. ReadTypes /\ RegistryInv /\ Bodies /\ Reads
  BY DEF ReadInv
<1>1. RegistryInv'
  BY <1>0, WorkLeaves
<1>2. ASSUME NEW m \in queue, Take(w, m) PROVE ReadInv'
  <2>1. /\ UNCHANGED <<store, schema, registered, schemaID, rows, count, sendPc, codecs, reader, own,
                       seen, unanswered>>
        /\ \A b : BodyTrue(b)' = BodyTrue(b)
        /\ \A s, b : ReadWith(s, b)' = ReadWith(s, b)
        /\ \A b : Unreadable(b)' = Unreadable(b)
    BY <1>2 DEF Take, registryVars, consumerVars, BodyTrue, Knows, ReadWith, Unreadable
  <2>2. /\ workPc' \in [Workers -> {"idle", "decode", "lookup", "decoded", "locking", "handling",
                                    "unlocking", "settle", "park"}]
        /\ job' = [v \in Workers |-> job'[v]] /\ queue' \subseteq queue
        /\ workPc[w] = "idle" /\ workPc'[w] = "decode" /\ job'[w] = {m}
        /\ \A v \in Workers : v # w => workPc'[v] = workPc[v] /\ job'[v] = job[v]
    BY <1>0, <1>2 DEF ReadTypes, Take, Goto
  <2>3. seen[w] = {} /\ BodyTrue(m.body)
    BY <1>0, <2>2 DEF Bodies
  <2>4. ReadTypes'
    BY <1>0, <2>1, <2>2 DEF ReadTypes
  <2>5. Bodies'
    BY <1>0, <2>1, <2>2, <2>3 DEF Bodies
  <2>6. Reads'
    BY <1>0, <2>1, <2>2, <2>3 DEF Reads
  <2>. QED  BY <1>1, <2>4, <2>5, <2>6 DEF ReadInv
<1>3. ASSUME Enter(w) \/ Locked(w) \/ Unlocked(w) \/ \E a \in {"accept", "retry", "forward"} : Handled(w, a)
      PROVE  ReadInv'
  <2>1. PICK to \in {"locking", "handling", "unlocking", "settle"} : workPc' = [workPc EXCEPT ![w] = to]
    BY <1>3 DEF Enter, Locked, Unlocked, Handled, Goto
  <2>2. /\ workPc[w] # "idle" /\ UNCHANGED <<registryVars, consumerVars, job, queue, seen, unanswered>>
    BY <1>3 DEF Enter, Locked, Unlocked, Handled, msgVars
  <2>. QED  BY <1>1, <2>1, <2>2, WorkerGoesOn
<1>4. ASSUME Settle(w) PROVE ReadInv'
  <2>1. workPc[w] # "idle" /\ Done(w) /\ UNCHANGED <<registryVars, consumerVars, unanswered>>
    BY <1>4 DEF Settle
  <2>2. PICK m : job[w] = {m}
    BY <1>0, <2>1 DEF Bodies
  <2>3. Only(job[w]) = m /\ BodyTrue(m.body)
    BY <1>0, <2>2, OnlyIs DEF Bodies
  <2>4. \A k \in queue' : k \in queue \/ k.body = m.body
    BY <1>4, <2>3 DEF Settle, Republished, Message
  <2>. QED  BY <1>1, <2>1, <2>3, <2>4, WorkerIsDone
<1>5. ASSUME SettleFails(w) PROVE ReadInv'
  <2>1. /\ Done(w) /\ UNCHANGED <<registryVars, consumerVars, unanswered>>
        /\ \A m \in queue' : m \in queue \/ m \in job[w]
    BY <1>5 DEF SettleFails
  <2>2. \A m \in queue' : m \in queue \/ BodyTrue(m.body)
    BY <1>0, <2>1 DEF Bodies
  <2>. QED  BY <1>1, <2>1, <2>2, WorkerIsDone
<1>6. ASSUME ChannelLost(w) PROVE ReadInv'
  <2>1. /\ UNCHANGED <<registryVars, consumerVars, workPc, job, seen, unanswered>>
        /\ queue' = queue \cup job[w]
    BY <1>6 DEF ChannelLost
  <2>2. /\ UNCHANGED <<store, schema, registered, schemaID, rows, count, sendPc, codecs, reader, own>>
        /\ \A b : BodyTrue(b)' = BodyTrue(b)
    BY <2>1 DEF registryVars, consumerVars, BodyTrue, Knows
  <2>3. \A m \in queue' : m \in queue \/ BodyTrue(m.body)'
    BY <1>0, <2>1, <2>2 DEF Bodies
  <2>4. Bodies' /\ Reads'
    BY <1>0, <2>1, <2>2, <2>3, ReadsStay DEF Kept
  <2>5. ReadTypes'
    BY <1>0, <2>1, <2>2 DEF ReadTypes
  <2>. QED  BY <1>1, <2>4, <2>5 DEF ReadInv
<1>. QED  BY <1>2, <1>3, <1>4, <1>5, <1>6, DecodeKeeps DEF Work

\* Nothing is registered, published or read to begin with, but for one message
\* of somebody else's.
LEMMA ReadBegins == ASSUME Init PROVE ReadInv
<1>1. /\ ConsumerInit /\ RegistryInit /\ CodecInit /\ \A c \in Codecs : ~registered[c] => schema[c] = own
      /\ workPc = [w \in Workers |-> "idle"] /\ job = [w \in Workers |-> {}]
      /\ seen = [w \in Workers |-> {}]
  BY DEF Init, RegistryInit
<1>2. /\ rows = <<>> /\ rows \in Seq(Row) /\ DOMAIN rows = {}
      /\ schemaID \in [Codecs -> Nat] /\ \A c \in Codecs : schemaID[c] = 0
      /\ count \in [Senders -> Nat] /\ sendPc = [g \in Senders |-> "idle"]
  BY <1>1, SMT DEF RegistryInit, CodecInit
<1>3. ReadTypes
  BY <1>1, <1>2 DEF ReadTypes, ConsumerInit, RegistryInit, CodecInit
<1>4. Registry
  BY <1>1, <1>2 DEF Registry
<1>5. Versions
  BY <1>2 DEF Versions
<1>6. \A m \in queue : BodyTrue(m.body)
  <2>1. CASE queue = {}
    BY <2>1
  <2>2. ASSUME NEW h, NEW id, NEW t \in {"fixed", "generic"},
               queue = {Message("foreign", "orders.placed", id, h,
                                [contentType |-> t, id |-> 0, wrote |-> own])}
        PROVE  \A m \in queue : BodyTrue(m.body)
    <3>1. \A m \in queue : m.body = [contentType |-> t, id |-> 0, wrote |-> own]
      BY <2>2 DEF Message
    <3>. QED  BY <3>1 DEF BodyTrue
  <2>3. \/ queue = {}
        \/ \E h, id : \E t \in {"fixed", "generic"} :
              queue = {Message("foreign", "orders.placed", id, h,
                               [contentType |-> t, id |-> 0, wrote |-> own])}
    BY Zenon DEF Init
  <2>. QED  BY <2>1, <2>2, <2>3
<1>7. Bodies /\ Reads
  BY <1>1, <1>6 DEF Bodies, Reads
<1>. QED  BY <1>3, <1>4, <1>5, <1>7 DEF ReadInv, RegistryInv

\* The inductive invariant of registering, framing and reading.
THEOREM ReadInvariant == Spec => []ReadInv
<1>1. ReadInv /\ [Next]_vars => ReadInv'
  <2>1. ASSUME ReadInv, UNCHANGED vars PROVE ReadInv'
    <3>1. /\ UNCHANGED <<store, schema, registered, schemaID, rows, sendPc, count, overlapped>>
          /\ UNCHANGED <<queue, codecs, reader, own, workPc, job, seen, unanswered>>
      BY <2>1 DEF vars, registryVars, msgVars, consumerVars, workVars
    <3>2. ReadTypes'
      BY <2>1, <3>1 DEF ReadInv, ReadTypes
    <3>3. RegistryInv'
      BY <2>1, <3>1 DEF ReadInv, RegistryInv, Registry, Versions, Knows, Known, DefinitionOf
    <3>4. Bodies' /\ Reads'
      BY <2>1, <3>1, ReadsStay DEF ReadInv, Kept
    <3>. QED  BY <3>2, <3>3, <3>4 DEF ReadInv
  <2>. QED  BY <2>1, EncodingKeeps, PublishKeeps, WorkKeeps DEF Next
<1>. QED  BY <1>1, ReadBegins, PTL DEF Spec

\* A payload is read with the schema it was written with, whoever registered
\* what at the same time; what is parked is unreadable or could not be asked
\* about; and versions count from one unless definitions overlapped
\* (Register, currentID, schemaByID, CanDecode).
THEOREM PayloadsReadAsWritten == Spec => []ReadAsWritten
<1>1. ReadInv => ReadAsWritten
  <2>. SUFFICES ASSUME ReadInv PROVE ReadAsWritten
    OBVIOUS
  <2>0. ReadTypes /\ RegistryInv /\ Bodies /\ Reads
    BY DEF ReadInv
  <2>1. ASSUME NEW w \in Workers, workPc[w] # "idle"
        PROVE  \E m : job[w] = {m} /\ Only(job[w]) = m
    BY <2>0, <2>1, OnlyIs DEF Bodies
  <2>2. ASSUME NEW w \in Workers, NEW s \in seen[w] PROVE ReadWith(s, Only(job[w]).body)
    BY <2>0, <2>1, <2>2 DEF Bodies, Reads
  <2>3. ASSUME NEW w \in Workers, workPc[w] = "park"
        PROVE  unanswered \/ Unreadable(Only(job[w]).body)
    BY <2>0, <2>1, <2>3 DEF Reads
  <2>. QED  BY <2>0, <2>2, <2>3 DEF ReadAsWritten, ReadWith, RegistryInv, Versions
<1>. QED  BY <1>1, ReadInvariant, PTL
=============================================================================
