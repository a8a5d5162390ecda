------------------------------ MODULE ConnProofs ------------------------------
(***************************************************************************)
(* Proofs about a connection.  For any number of consumers and deliveries,  *)
(* starting and closing consumers is orderly: closing the connection        *)
(* releases the transport when its consumers are drained, always, and no    *)
(* work channel is misused as long as Conn.Close does not overlap a Consume.*)
(* For any number of reconnections and any probe and check timeouts, what   *)
(* the connection says of itself is true: its blocked state follows the     *)
(* broker's, and a health probe tells why it failed.                        *)
(***************************************************************************)
EXTENDS ConnLifecycle, Health, TLAPS

\* Most leaves are matters of logic and sets: Zenon is tried first, then SMT.
USE ZenonT(10), SMTT(20)

TypeOK ==
    /\ start \in [Consumers -> {"new", "refused", "tracked", "failed", "subscribed", "running"}]
    /\ subs \subseteq Consumers /\ taken \subseteq Consumers
    /\ conn \in {"open", "consumers", "transport", "closed"}
    /\ stop \in [Consumers -> {"no", "stopping", "stopped", "draining", "closed"}]
    /\ sees \in [Consumers -> BOOLEAN] /\ work \in [Consumers -> BOOLEAN]
    /\ feeding \in [Consumers -> BOOLEAN] /\ callback \in [Consumers -> BOOLEAN]
    /\ queued \in [Consumers -> Nat] /\ busy \in [Consumers -> Nat]
    /\ bounded \in [Consumers -> BOOLEAN] /\ given \in Nat
    /\ stranded \subseteq Consumers /\ panicked \in BOOLEAN /\ overlapped \in BOOLEAN

\* Whoever has been tracked is in Conn.subs, or taken by Conn.Close, until its
\* own Close is through; that closes work, and then nothing is queued or running.
Drains ==
    /\ \A c \in Consumers : stop[c] \in {"draining", "closed"} => ~work[c]
    /\ \A c \in Consumers : stop[c] = "closed" => Idle(c) \/ c \in stranded
    /\ \A c \in Consumers : start[c] \in {"tracked", "subscribed", "running"} =>
            stop[c] = "closed" \/ c \in (IF conn = "open" THEN subs ELSE taken)
    /\ conn \in {"transport", "closed"} => \A c \in taken : stop[c] = "closed"
    /\ conn = "closed" => \A c \in Consumers : ~feeding[c]

\* Without an overlap Close finds every consumer it closes running, so that it
\* waits for the callback before it closes work.
Orderly ==
    \A c \in Consumers :
        /\ c \in subs => start[c] \in {"tracked", "subscribed", "running"}
        /\ c \in taken => start[c] = "running"
        /\ stop[c] # "no" => start[c] = "running" /\ sees[c]
        /\ feeding[c] \/ callback[c] => start[c] \in {"subscribed", "running"}
        /\ stop[c] \in {"no", "stopping", "stopped"} => work[c] \/ start[c] = "failed"
        /\ stop[c] \in {"stopped", "draining", "closed"} => ~feeding[c] /\ ~callback[c]

IInv ==
    /\ TypeOK /\ Drains /\ NoPanicUnlessOverlapped
    /\ conn = "open" => ~overlapped /\ taken = {}
    /\ ~overlapped => Orderly

-----------------------------------------------------------------------------
(* Starting *)

\* A connection that is closed tracks nobody.
LEMMA TrackKeeps == ASSUME IInv, NEW c \in Consumers, Track(c) PROVE IInv'
BY SMT DEF IInv, TypeOK, Drains, Idle, NoPanicUnlessOverlapped, Orderly, Track, consuming, ends

\* The transport begins to deliver.
LEMMA SubscribedKeeps == ASSUME IInv, NEW c \in Consumers, Subscribed(c) PROVE IInv'
BY DEF IInv, TypeOK, Drains, Idle, NoPanicUnlessOverlapped, Orderly, Subscribed, ends

\* Consume closes work itself, which nobody else has closed without an overlap.
LEMMA SubscribeFailsKeeps == ASSUME IInv, NEW c \in Consumers, SubscribeFails(c) PROVE IInv'
BY DEF IInv, TypeOK, Drains, Idle, NoPanicUnlessOverlapped, Orderly, SubscribeFails

\* Close of a consumer sees its subscription from now on.
LEMMA StartedKeeps == ASSUME IInv, NEW c \in Consumers, Started(c) PROVE IInv'
BY DEF IInv, TypeOK, Drains, Idle, NoPanicUnlessOverlapped, Orderly, Started, consuming, ends

-----------------------------------------------------------------------------
(* Delivering *)

\* A callback begins only while the consumer is not stopping.
LEMMA CallbackKeeps == ASSUME IInv, NEW c \in Consumers, Callback(c) PROVE IInv'
BY SMT DEF IInv, TypeOK, Drains, Idle, NoPanicUnlessOverlapped, Orderly, Callback, isStopping, ends

\* The case to fear is a callback that sends on a channel closed meanwhile.
LEMMA OfferKeeps == ASSUME IInv, NEW c \in Consumers, Offer(c) PROVE IInv'
<1>1. work[c] /\ queued' = [queued EXCEPT ![c] = @ + 1] => Drains'
  BY DEF IInv, TypeOK, Drains, Idle, Offer
<1>2. queued' = queued => Drains'
  BY DEF IInv, TypeOK, Drains, Idle, Offer
<1>3. TypeOK' /\ Drains'
  <2>1. queued' \in [Consumers -> Nat] /\ callback' \in [Consumers -> BOOLEAN]
    BY SMT DEF IInv, TypeOK, Offer
  <2>2. panicked' \in BOOLEAN
    BY DEF IInv, TypeOK, Offer
  <2>3. TypeOK'
    BY <2>1, <2>2 DEF IInv, TypeOK, Offer
  <2>4. Drains'
    BY <1>1, <1>2 DEF Offer
  <2>. QED  BY <2>3, <2>4
<1>4. ~overlapped => work[c]
  BY DEF IInv, TypeOK, Orderly, Offer
<1>5. NoPanicUnlessOverlapped'
  BY <1>4 DEF IInv, NoPanicUnlessOverlapped, Offer
<1>6. ~overlapped => Orderly'
  BY DEF IInv, TypeOK, Orderly, Offer
<1>. QED  BY <1>3, <1>5, <1>6 DEF IInv, Offer

\* A worker takes what is queued, which nothing is once the consumer is drained.
LEMMA TakeKeeps == ASSUME IInv, NEW c \in Consumers, Take(c) PROVE IInv'
BY SMT DEF IInv, TypeOK, Drains, Idle, NoPanicUnlessOverlapped, Orderly, Take, ends

\* A handler ends.
LEMMA HandledKeeps == ASSUME IInv, NEW c \in Consumers, Handled(c) PROVE IInv'
BY SMT DEF IInv, TypeOK, Drains, Idle, NoPanicUnlessOverlapped, Orderly, Handled, ends

-----------------------------------------------------------------------------
(* Closing *)

\* Close of a consumer begins.
LEMMA CloseBeginKeeps == ASSUME IInv, NEW c \in Consumers, CloseBegin(c) PROVE IInv'
BY SMT DEF IInv, TypeOK, Drains, Idle, NoPanicUnlessOverlapped, Orderly, CloseBegin, consuming, ends

\* The callback is over when Stop of the subscription returns.
LEMMA StopKeeps == ASSUME IInv, NEW c \in Consumers, Stop(c) PROVE IInv'
BY SMT DEF IInv, TypeOK, Drains, Idle, NoPanicUnlessOverlapped, Orderly, Stop, ends

\* Close closes work, once.
LEMMA CloseWorkKeeps == ASSUME IInv, NEW c \in Consumers, CloseWork(c) PROVE IInv'
BY DEF IInv, TypeOK, Drains, Idle, NoPanicUnlessOverlapped, Orderly, CloseWork

\* The workers are done.
LEMMA CloseDoneKeeps == ASSUME IInv, NEW c \in Consumers, CloseDone(c) PROVE IInv'
BY DEF IInv, TypeOK, Drains, Idle, NoPanicUnlessOverlapped, Orderly, CloseDone, consuming, ends

\* The workers are not waited for any longer.
LEMMA DrainExpiresKeeps == ASSUME IInv, NEW c \in Consumers, DrainExpires(c) PROVE IInv'
BY DEF IInv, TypeOK, Drains, Idle, NoPanicUnlessOverlapped, Orderly, DrainExpires, consuming

\* What was in Conn.subs is taken; who is neither is new, refused, failed or closed.
LEMMA ConnCloseKeeps == ASSUME IInv, ~panicked, ConnClose PROVE IInv'
BY DEF IInv, TypeOK, Drains, Idle, NoPanicUnlessOverlapped, Orderly, ConnClose, consuming

\* The consumers taken are closed.
LEMMA CloseAllKeeps == ASSUME IInv, CloseAll PROVE IInv'
BY DEF IInv, TypeOK, Drains, Idle, NoPanicUnlessOverlapped, Orderly, CloseAll, consuming, ends

\* The transport delivers to nobody.
LEMMA TransportCloseKeeps == ASSUME IInv, TransportClose PROVE IInv'
BY DEF IInv, TypeOK, Drains, Idle, NoPanicUnlessOverlapped, Orderly, TransportClose, ends

-----------------------------------------------------------------------------
(* Starting and closing is orderly *)

\* The inductive invariant: Drains whatever happens, Orderly without an overlap.
THEOREM LifecycleInvariant == ConnSpec => []IInv
<1>1. ConnInit => IInv
  <2>. SUFFICES ASSUME ConnInit PROVE IInv
    OBVIOUS
  <2>1. TypeOK
    BY DEF ConnInit, TypeOK
  <2>2. Drains
    BY DEF ConnInit, Drains, Idle
  <2>3. Orderly
    BY DEF ConnInit, Orderly
  <2>. QED  BY <2>1, <2>2, <2>3 DEF ConnInit, IInv, NoPanicUnlessOverlapped
<1>2. IInv /\ [ConnNext]_connVars => IInv'
  <2>1. ASSUME IInv, UNCHANGED connVars PROVE IInv'
    BY <2>1 DEF connVars, consuming, ends, IInv, TypeOK, Drains, Idle, NoPanicUnlessOverlapped, Orderly
  <2>2. ASSUME IInv, NEW c \in Consumers, ConsumeStep(c) PROVE IInv'
    BY <2>2, TrackKeeps, SubscribedKeeps, SubscribeFailsKeeps, StartedKeeps DEF ConsumeStep
  <2>3. ASSUME IInv, NEW c \in Consumers, CloseStep(c) PROVE IInv'
    BY <2>3, StopKeeps, CloseWorkKeeps, CloseDoneKeeps DEF CloseStep
  <2>. QED  BY <2>1, <2>2, <2>3, CallbackKeeps, OfferKeeps, TakeKeeps, HandledKeeps,
               CloseBeginKeeps,
               DrainExpiresKeeps, ConnCloseKeeps, CloseAllKeeps, TransportCloseKeeps DEF ConnNext
<1>. QED  BY <1>1, <1>2, PTL DEF ConnSpec

\* No work channel is closed twice or sent on after its close, unless Conn.Close
\* overlaps a Consume (Consume, Consumer.Close).
THEOREM WorkChannelsSafe == ConnSpec => []NoPanicUnlessOverlapped
<1>1. IInv => NoPanicUnlessOverlapped
  BY DEF IInv
<1>. QED  BY <1>1, LifecycleInvariant, PTL

\* Conn.Close releases the transport when every consumer has finished what it
\* was given or has said that it did not, overlap or no overlap.
THEOREM ReleasedWhenDrained == ConnSpec => []DrainedBeforeRelease
<1>1. IInv => DrainedBeforeRelease
  BY DEF IInv, TypeOK, Drains, Idle, DrainedBeforeRelease
<1>. QED  BY <1>1, LifecycleInvariant, PTL

-----------------------------------------------------------------------------
(* The blocked state *)

BlockedTypes ==
    /\ gen \in Gens /\ alive \in BOOLEAN /\ recovery \in {"done", "swapped", "cleared"}
    /\ alarm \in BOOLEAN /\ notes \in [Gens -> Seq(BOOLEAN)] /\ watched \subseteq 0..gen
    /\ blocked \in BOOLEAN /\ missed \in BOOLEAN

\* A watcher is there once recovery is over, and only then; nobody notifies a
\* connection that has none.  Since the state was cleared for the connection in
\* use, and as long as nothing was missed, the state is the last notification
\* taken, and the last one sent is the broker's mind.
Told ==
    /\ ~alive => gen < MaxGen
    /\ gen \in watched <=> recovery = "done"
    /\ \A g \in Gens \ watched : notes[g] = <<>>
    /\ recovery # "done" /\ ~missed => ~alarm
    /\ recovery = "cleared" /\ ~missed => ~blocked
    /\ recovery = "done" /\ ~missed =>
        alarm = IF notes[gen] = <<>> THEN blocked ELSE notes[gen][Len(notes[gen])]

BlockedInv == BlockedTypes /\ Told

\* Taking a notification leaves the last one the last, until it is the one taken.
LEMMA TakingTheHead ==
    ASSUME NEW S, NEW s \in Seq(S), s # <<>>
    PROVE  /\ Head(s) \in S /\ Tail(s) \in Seq(S)
           /\ Tail(s) = <<>> => Head(s) = s[Len(s)]
           /\ Tail(s) # <<>> => Tail(s)[Len(Tail(s))] = s[Len(s)]
<1>. DEFINE t == Tail(s)
<1>1. /\ Len(s) \in Nat \ {0} /\ Head(s) = s[1] /\ s[1] \in S
      /\ t \in Seq(S) /\ Len(t) = Len(s) - 1
  OBVIOUS
<1>2. \A i \in 1..Len(s) - 1 : t[i] = s[i + 1]
  OBVIOUS
<1>. HIDE DEF t
<1>3. ASSUME t = <<>> PROVE s[1] = s[Len(s)]
  <2>1. Len(t) = 0
    BY <1>3
  <2>2. \A n \in Nat : n - 1 = 0 => n = 1
    OBVIOUS
  <2>3. Len(s) = 1
    BY ONLY <1>1, <2>1, <2>2, Zenon
  <2>. QED  BY <2>3
<1>4. ASSUME t # <<>> PROVE t[Len(t)] = s[Len(s)]
  <2>1. Len(t) # 0
    BY <1>1, <1>4
  <2>. QED  BY <1>1, <1>2, <2>1
<1>. QED  BY <1>1, <1>3, <1>4 DEF t

\* The broker changes its mind.
LEMMA FlipKeeps == ASSUME BlockedInv, Flip PROVE BlockedInv'
<1>. USE DEF BlockedInv
<1>1. CASE gen \in watched
  <2>0. PICK b \in BOOLEAN : b = ~alarm
    BY DEF BlockedTypes
  <2>1. /\ notes' = [notes EXCEPT ![gen] = Append(notes[gen], b)]
        /\ alarm' = b /\ UNCHANGED <<gen, alive, recovery, watched, blocked>> /\ missed' = missed
    BY <1>1, <2>0 DEF Flip, state, BlockedTypes
  <2>2. notes[gen] \in Seq(BOOLEAN) /\ notes'[gen] = Append(notes[gen], b)
    BY <2>1 DEF BlockedTypes
  <2>3. notes'[gen] \in Seq(BOOLEAN) /\ notes'[gen] # <<>> /\ notes'[gen][Len(notes'[gen])] = b
    BY <2>2
  <2>4. BlockedTypes'
    BY <2>1, <2>3 DEF BlockedTypes
  <2>5. \A g \in Gens \ watched' : notes'[g] = <<>>
    BY <1>1, <2>1 DEF BlockedTypes, Told
  <2>. QED  BY <1>1, <2>1, <2>3, <2>4, <2>5 DEF Told
<1>2. CASE gen \notin watched
  <2>1. /\ UNCHANGED <<notes, gen, alive, recovery, watched, blocked>> /\ missed' = TRUE
        /\ alarm' \in BOOLEAN
    BY <1>2 DEF Flip, state, BlockedTypes
  <2>. QED  BY <1>2, <2>1 DEF BlockedTypes, Told
<1>. QED  BY <1>1, <1>2

\* A watcher takes a notification.
LEMMA WatchBlockedKeeps == ASSUME BlockedInv, NEW g \in Gens, watchBlocked(g) PROVE BlockedInv'
<1>. USE DEF BlockedInv
<1>1. /\ g \in watched /\ notes[g] \in Seq(BOOLEAN) /\ notes[g] # <<>>
      /\ blocked' = Head(notes[g]) /\ notes' = [notes EXCEPT ![g] = Tail(notes[g])]
      /\ missed' = (missed \/ (g # gen /\ recovery # "swapped"))
      /\ UNCHANGED <<gen, alive, recovery, alarm, watched>>
  BY DEF watchBlocked, setBlocked, BlockedTypes
<1>2. /\ Head(notes[g]) \in BOOLEAN /\ Tail(notes[g]) \in Seq(BOOLEAN)
      /\ Tail(notes[g]) = <<>> => Head(notes[g]) = notes[g][Len(notes[g])]
      /\ Tail(notes[g]) # <<>> => Tail(notes[g])[Len(Tail(notes[g]))] = notes[g][Len(notes[g])]
  BY <1>1, TakingTheHead
<1>3. BlockedTypes'
  BY <1>1, <1>2 DEF BlockedTypes
<1>4. \A h \in Gens \ watched' : notes'[h] = <<>>
  BY <1>1 DEF BlockedTypes, Told
<1>5. CASE g = gen
  <2>1. recovery = "done" /\ missed' = missed /\ notes'[gen] = Tail(notes[gen])
    BY <1>1, <1>5 DEF Told, BlockedTypes
  <2>. QED  BY <1>1, <1>2, <1>3, <1>4, <1>5, <2>1 DEF Told
<1>6. CASE g # gen
  BY <1>1, <1>3, <1>4, <1>6 DEF Told, BlockedTypes
<1>. QED  BY <1>5, <1>6

\* The connection goes, or the recovery takes a step.
LEMMA RecoveryKeeps == ASSUME BlockedInv, Lost \/ Recover PROVE BlockedInv'
<1>. USE DEF BlockedInv
<1>1. CASE Lost
  BY <1>1 DEF Lost, state, BlockedTypes, Told
<1>2. CASE Swap
  <2>1. gen \in Gens /\ gen < MaxGen /\ gen' = gen + 1 /\ gen' \in Gens
    BY <1>2, BlockedAssumption, SMT DEF Swap, BlockedTypes, Told, Gens
  <2>2. gen' \notin watched /\ watched \subseteq 0..gen'
    BY <2>1, BlockedAssumption, SMT DEF BlockedTypes, Gens
  <2>. QED  BY <1>2, <2>1, <2>2 DEF Swap, state, BlockedTypes, Told
<1>3. CASE Clear
  BY <1>3 DEF Clear, setBlocked, BlockedTypes, Told
<1>4. CASE Watch
  <2>1. gen \in 0..gen
    BY BlockedAssumption, SMT DEF BlockedTypes, Gens
  <2>. QED  BY <1>4, <2>1 DEF Watch, state, BlockedTypes, Told
<1>. QED  BY <1>1, <1>2, <1>3, <1>4 DEF Recover

\* A publish and a probe only look.
LEMMA LookingKeeps ==
    ASSUME BlockedInv, UNCHANGED <<link, blocked, missed>> PROVE BlockedInv'
BY DEF BlockedInv, BlockedTypes, Told, link

\* Every step of the connection, its broker and its users keeps the state told.
LEMMA BlockedKept == ASSUME BlockedInv, [Both]_allVars PROVE BlockedInv'
<1>1. CASE Publish \/ Send \/ Look \/ Wake \/ Answered \/ Judge \/ Expired \/ Tick
           \/ UNCHANGED <<link, state, missed>>
  <2>1. UNCHANGED <<link, blocked, missed>>
    BY <1>1 DEF Publish, Send, Look, Wake, Answered, Judge, Expired, Tick, state
  <2>. QED  BY <2>1, LookingKeeps
<1>2. CASE Next
  BY <1>1, <1>2, FlipKeeps, WatchBlockedKeeps, RecoveryKeeps DEF Next
<1>. QED  BY <1>1, <1>2 DEF Both, allVars, vars

\* A connection begins watched, and unblocked.
LEMMA BlockedBegins == ASSUME Init PROVE BlockedInv
BY BlockedAssumption DEF Init, BlockedInv, BlockedTypes, Told, Gens

\* Once the notifications of the connection in use are taken, the state that
\* setBlocked keeps is the broker's, unless a change fell into a reconnection or
\* an old watcher wrote late (watchBlocked, reconnectOnce).
THEOREM BlockedStateTrue == Spec => []BlockedIsTrue
<1>1. Init => BlockedInv
  BY BlockedBegins
<1>2. BlockedInv /\ [Both]_allVars => BlockedInv'
  BY BlockedKept
<1>3. BlockedInv => BlockedIsTrue
  BY DEF BlockedInv, Told, BlockedTypes, BlockedIsTrue
<1>. QED  BY <1>1, <1>2, <1>3, PTL DEF Spec
-----------------------------------------------------------------------------
(* What a health probe says *)

ProbeTypes ==
    /\ limit \in Nat \ {0} /\ served \in {"idle", "asked"} /\ clock \in Nat
    /\ shut \in BOOLEAN /\ troubled \in BOOLEAN /\ known \in BOOLEAN
    /\ check \in [Checks -> {"off", "begin", "locking", "declaring"} \cup Statuses]
    /\ parts \in [Checks -> {"none", "unanswered"} \cup Statuses]

\* While a probe is out, what has been noted of a check is its answer, and the
\* connection's check is never later than its own deadline, nor is the note of
\* its answer.
Timely ==
    /\ \A c \in Checks : parts[c] # "none" => parts[c] = check[c]
    /\ check["broker"] # "off" /\ check["application"] \notin {"off", "locking", "declaring"}
    /\ check["broker"] = "begin" => clock = 0
    /\ parts["broker"] = "none" => clock <= Deadline
    /\ Pending => parts["broker"] = "none"
    /\ check["application"] = "begin" => parts["application"] = "none"

\* What has been seen while the connection's check was pending: time does not
\* pass for it but for trouble, and a block that is known is there.
Watched ==
    /\ Pending /\ (Trouble \/ clock > 0) => troubled
    /\ Pending /\ known => blocked
    /\ check["broker"] = "down" => troubled /\ (known => shut)

ProbeInv ==
    /\ ProbeTypes /\ ProbeTellsWhy
    /\ mu = "probe" <=> check["broker"] = "declaring"
    /\ served = "idle" => \A c \in Checks : check[c] = "off"
    /\ served = "asked" => Timely /\ Watched

\* What a step leaves to be seen.
LEMMA SeenFacts ==
    ASSUME Seen
    PROVE  /\ Pending' =>
                /\ troubled' \in BOOLEAN /\ (Trouble' \/ (served = "asked" /\ troubled) => troubled')
                /\ known' \in BOOLEAN /\ (known' => blocked')
           /\ ~Pending' => UNCHANGED <<troubled, known>>
BY DEF Seen, seen

\* What has been seen stays so while the connection's check is where it was.
LEMMA StillWatched ==
    ASSUME Seen, Watched, served = "asked", shut => shut', check'["broker"] = check["broker"],
           Pending /\ clock' > 0 => Trouble' \/ clock > 0
    PROVE  Watched'
<1>1. Pending' <=> Pending
  BY DEF Pending
<1>2. CASE Pending
  <2>1. check["broker"] # "down"
    BY <1>2 DEF Pending
  <2>2. Trouble' \/ clock' > 0 => troubled'
    BY <1>1, <1>2, SeenFacts DEF Watched
  <2>. QED  BY <1>1, <1>2, <2>1, <2>2, SeenFacts DEF Watched
<1>3. CASE ~Pending
  BY <1>1, <1>3, SeenFacts DEF Watched
<1>. QED  BY <1>2, <1>3

\* The connection and its other users touch what is seen of them at most.
LEMMA ProbeUntouched ==
    ASSUME ProbeInv, Seen, UNCHANGED <<limit, served, clock, check, parts, code>>,
           shut' \in BOOLEAN, shut => shut', mu' = "probe" <=> mu = "probe"
    PROVE  ProbeInv'
<1>0. Pending' <=> Pending
  BY DEF Pending
<1>1. /\ troubled' \in BOOLEAN /\ known' \in BOOLEAN
      /\ served = "idle" => UNCHANGED <<troubled, known>>
  BY <1>0, SeenFacts DEF ProbeInv, ProbeTypes, Pending, Checks
<1>2. ProbeTypes'
  BY <1>1 DEF ProbeInv, ProbeTypes
<1>3. ProbeTellsWhy'
  <2>1. CASE served = "idle"
    <3>1. /\ troubled' = troubled /\ known' = known /\ parts' = parts /\ code' = code
          /\ limit' = limit /\ (shut => shut')
      BY <1>1, <2>1
    <3>2. ProbeTellsWhy
      BY DEF ProbeInv
    <3>3. /\ parts["broker"] = "down" => troubled /\ (known => shut)
          /\ CheckTimeout < limit => parts["broker"] # "unanswered"
          /\ code = 503 <=> \E c \in Checks : parts[c] \in {"down", "unanswered"}
      BY <2>1, <3>2 DEF ProbeTellsWhy
    <3>4. /\ parts'["broker"] = "down" => troubled' /\ (known' => shut')
          /\ CheckTimeout < limit' => parts'["broker"] # "unanswered"
          /\ code' = 503 <=> \E c \in Checks : parts'[c] \in {"down", "unanswered"}
      BY <3>1, <3>3
    <3>. QED  BY <3>4 DEF ProbeTellsWhy
  <2>2. CASE served # "idle"
    BY <2>2 DEF ProbeTellsWhy
  <2>. QED  BY <2>1, <2>2
<1>4. served = "asked" => Timely'
  BY DEF ProbeInv, Timely, Deadline, Pending
<1>5. served = "asked" => Watched'
  BY StillWatched DEF ProbeInv
<1>. QED  BY <1>2, <1>3, <1>4, <1>5 DEF ProbeInv, ProbeTypes

\* A probe begins.
LEMMA AskKeeps == ASSUME ProbeInv, Ask, Seen PROVE ProbeInv'
<1>1. /\ served = "idle" /\ served' = "asked" /\ clock' = 0
      /\ \A c \in Checks : check[c] = "off" /\ check'[c] = "begin" /\ parts'[c] = "none"
      /\ UNCHANGED <<limit, shut, mu>>
  BY DEF Ask, ProbeInv
<1>2. Pending'
  BY <1>1 DEF Pending, Checks
<1>3. ProbeTypes'
  <2>1. check' \in [Checks -> {"off", "begin", "locking", "declaring"} \cup Statuses]
    BY DEF Ask
  <2>2. parts' \in [Checks -> {"none", "unanswered"} \cup Statuses]
    BY DEF Ask
  <2>. QED  BY <1>1, <1>2, <2>1, <2>2, SeenFacts DEF ProbeInv, ProbeTypes
<1>4. 0 <= Deadline' /\ ~(0 > 0)
  BY <1>1, HealthAssumption, SMT DEF Deadline, ProbeInv, ProbeTypes
<1>5. Timely'
  BY <1>1, <1>4 DEF Timely, Checks
<1>6. Watched'
  BY <1>1, <1>2, <1>4, SeenFacts DEF Watched, Checks
<1>. QED  BY <1>1, <1>3, <1>5, <1>6 DEF ProbeInv, ProbeTellsWhy, Checks

\* The connection's check goes on, or answers.
LEMMA BrokerAnswers ==
    ASSUME ProbeInv, Seen, Pending, UNCHANGED <<limit, shut, served, clock, parts, code>>,
           NEW a \in {"locking", "declaring"} \cup Statuses, Answer("broker", a),
           mu' = "probe" <=> a = "declaring",
           a = "down" => troubled /\ (blocked => shut),
           a \in {"locking", "declaring"} => UNCHANGED <<alive, alarm, blocked>>
    PROVE  ProbeInv'
<1>1. served = "asked" /\ ProbeTypes /\ Timely /\ Watched
  BY DEF ProbeInv, ProbeTypes, Pending, Checks
<1>2. /\ check' = [check EXCEPT !["broker"] = a] /\ check'["broker"] = a
      /\ check'["application"] = check["application"]
  BY <1>1 DEF Answer, ProbeTypes, Checks
<1>3. Pending' <=> a \in {"locking", "declaring"}
  BY <1>2 DEF Pending, Statuses
<1>4. ProbeTypes'
  <2>1. check' \in [Checks -> {"off", "begin", "locking", "declaring"} \cup Statuses]
    BY <1>1, <1>2 DEF ProbeTypes
  <2>. QED  BY <1>1, <2>1, SeenFacts DEF ProbeTypes
<1>5. Timely'
  BY <1>1, <1>2, <1>3 DEF Timely, Deadline, Checks, Statuses
<1>6. Watched'
  <2>1. CASE a \in {"locking", "declaring"}
    BY <1>1, <1>2, <1>3, <2>1, SeenFacts DEF Watched
  <2>2. CASE a \in Statuses
    BY <1>1, <1>2, <1>3, <2>2, SeenFacts DEF Watched, Statuses
  <2>. QED  BY <2>1, <2>2
<1>. QED  BY <1>1, <1>2, <1>4, <1>5, <1>6 DEF ProbeInv, ProbeTellsWhy

\* The connection's check takes a step; a broker that is late, or gone, is
\* trouble that has been seen.
LEMMA BrokerKeeps ==
    ASSUME ProbeInv, BlockedTypes, Seen, Health \/ DeclareQueue \/ HealthProbed,
           UNCHANGED <<link, state>>
    PROVE  ProbeInv'
<1>1. /\ Pending /\ served = "asked" /\ ProbeTypes /\ Timely /\ Watched
      /\ UNCHANGED <<limit, shut, served, clock, parts, code, alive, alarm, blocked>>
  BY DEF Health, DeclareQueue, HealthProbed, Pending, ProbeInv, ProbeTypes, Checks, link, state
<1>2. CASE Health
  <2>1. mu' # "probe" /\ check["broker"] = "begin"
    BY <1>2 DEF Health, ProbeInv
  <2>2. CASE shut
    BY <1>1, <1>2, <2>1, <2>2, BrokerAnswers DEF Health, Statuses, Watched, Trouble
  <2>3. CASE ~shut /\ blocked
    BY <1>1, <1>2, <2>1, <2>3, BrokerAnswers DEF Health, Statuses
  <2>4. CASE ~shut /\ ~blocked
    BY <1>1, <1>2, <2>1, <2>4, BrokerAnswers DEF Health
  <2>. QED  BY <2>2, <2>3, <2>4
<1>3. CASE DeclareQueue
  BY <1>1, <1>3, BrokerAnswers DEF DeclareQueue
<1>4. CASE HealthProbed
  <2>1. mu' # "probe"
    BY <1>4 DEF HealthProbed, Abandon
  <2>2. ASSUME ProbeFailed, troubled PROVE ProbeInv'
    <3>1. CASE blocked
      BY <1>1, <2>1, <2>2, <3>1, BrokerAnswers DEF ProbeFailed, Statuses
    <3>2. CASE ~blocked
      BY <1>1, <2>1, <2>2, <3>2, BrokerAnswers DEF ProbeFailed, Statuses
    <3>. QED  BY <3>1, <3>2
  <2>3. CASE Answer("broker", "up")
    BY <1>1, <2>1, <2>3, BrokerAnswers DEF Statuses
  <2>4. CASE DeclareFailed /\ ProbeFailed
    BY <1>1, <2>2, <2>4 DEF DeclareFailed, Watched, Trouble
  <2>5. CASE clock = Deadline /\ ProbeFailed
    <3>1. clock > 0
      BY <1>1, <2>5, HealthAssumption, SMT DEF Deadline, ProbeTypes
    <3>. QED  BY <1>1, <2>2, <2>5, <3>1 DEF Watched
  <2>. QED  BY <1>4, <2>3, <2>4, <2>5 DEF HealthProbed
<1>. QED  BY <1>2, <1>3, <1>4

\* The application's check answers.
LEMMA ApplicationKeeps ==
    ASSUME ProbeInv, Seen, ApplicationChecked, UNCHANGED <<link, state>> PROVE ProbeInv'
<1>1. PICK a \in Statuses : Answer("application", a)
  BY DEF ApplicationChecked
<1>2. /\ served = "asked" /\ ProbeTypes /\ Timely /\ Watched /\ check["application"] = "begin"
      /\ UNCHANGED <<mu, limit, shut, served, clock, parts, code, alive, alarm, blocked>>
  BY DEF ApplicationChecked, ProbeInv, ProbeTypes, Checks, link, state
<1>3. /\ check' = [check EXCEPT !["application"] = a] /\ check'["application"] = a
      /\ check'["broker"] = check["broker"]
  BY <1>1, <1>2 DEF Answer, ProbeTypes, Checks
<1>4. Pending' <=> Pending
  BY <1>3 DEF Pending
<1>5. ProbeTypes'
  <2>1. check' \in [Checks -> {"off", "begin", "locking", "declaring"} \cup Statuses]
    BY <1>1, <1>2, <1>3 DEF ProbeTypes
  <2>. QED  BY <1>2, <2>1, SeenFacts DEF ProbeTypes
<1>6. Timely'
  BY <1>1, <1>2, <1>3, <1>4 DEF Timely, Deadline, Checks, Statuses
<1>7. Watched'
  BY <1>2, <1>3, StillWatched
<1>. QED  BY <1>2, <1>3, <1>5, <1>6, <1>7 DEF ProbeInv, ProbeTellsWhy

\* An answer is noted.
LEMMA NoteKeeps ==
    ASSUME ProbeInv, Seen, NEW c \in Checks, Note(c), UNCHANGED <<link, state>> PROVE ProbeInv'
<1>1. /\ served = "asked" /\ ProbeTypes /\ Timely /\ Watched
      /\ UNCHANGED <<mu, limit, shut, served, clock, check, alive, alarm, blocked>>
      /\ check[c] \in Statuses /\ parts' = [parts EXCEPT ![c] = check[c]]
  BY DEF Note, ProbeInv, link, state
<1>2. Pending' <=> Pending
  BY <1>1 DEF Pending
<1>3. ProbeTypes'
  <2>1. parts' \in [Checks -> {"none", "unanswered"} \cup Statuses]
    BY <1>1 DEF ProbeTypes
  <2>. QED  BY <1>1, <2>1, SeenFacts DEF ProbeTypes
<1>4. Timely'
  BY <1>1, <1>2 DEF ProbeTypes, Timely, Deadline, Checks, Statuses, Pending
<1>5. Watched'
  BY <1>1, StillWatched
<1>. QED  BY <1>1, <1>3, <1>4, <1>5 DEF ProbeInv, ProbeTellsWhy

\* The endpoint answers; time was up for the connection's check only if the
\* endpoint's timeout is no longer than its own.
LEMMA AggregatedKeeps == ASSUME ProbeInv, Seen, Aggregated PROVE ProbeInv'
<1>1. served = "asked" /\ ProbeTypes /\ Timely /\ Watched
  BY DEF Aggregated, ProbeInv
<1>2. ASSUME NEW ps \in [Checks -> {"none", "unanswered"} \cup Statuses], Reply(ps),
             ps["broker"] = "down" => check["broker"] = "down",
             CheckTimeout < limit => ps["broker"] # "unanswered"
      PROVE  ProbeInv'
  <2>1. /\ served' = "idle" /\ clock' = 0 /\ parts' = ps /\ UNCHANGED <<shut, limit>>
        /\ \A c \in Checks : check'[c] = "off"
        /\ code' = (IF Worst(ps) = "down" THEN 503 ELSE 200) /\ mu' # "probe"
    BY <1>2 DEF Reply, Abandon
  <2>2. ~Pending' /\ UNCHANGED <<troubled, known>>
    BY <2>1, SeenFacts DEF Pending, Checks
  <2>3. ProbeTypes'
    BY <1>1, <1>2, <2>1, <2>2 DEF Reply, ProbeTypes
  <2>4. Worst(ps) = "down" <=> \E c \in Checks : ps[c] \in {"down", "unanswered"}
    BY DEF Worst
  <2>5. code' = 503 <=> \E c \in Checks : parts'[c] \in {"down", "unanswered"}
    BY <2>1, <2>4, SMT
  <2>6. parts'["broker"] = "down" => troubled' /\ (known' => shut')
    BY <1>1, <1>2, <2>1, <2>2 DEF Watched
  <2>7. CheckTimeout < limit' => parts'["broker"] # "unanswered"
    BY <1>2, <2>1
  <2>8. ProbeTellsWhy'
    BY <2>5, <2>6, <2>7 DEF ProbeTellsWhy
  <2>. QED  BY <2>1, <2>3, <2>8 DEF ProbeInv, Checks
<1>3. CASE (\A c \in Checks : parts[c] # "none") /\ Reply(parts)
  <2>1. parts["broker"] = check["broker"] /\ check["broker"] # "unanswered"
    BY <1>1, <1>3 DEF ProbeTypes, Timely, Checks, Statuses
  <2>. QED  BY <1>1, <1>2, <1>3, <2>1 DEF ProbeTypes
<1>4. CASE clock = limit
           /\ Reply([c \in Checks |-> IF parts[c] = "none" THEN "unanswered" ELSE parts[c]])
  <2>. DEFINE ps == [c \in Checks |-> IF parts[c] = "none" THEN "unanswered" ELSE parts[c]]
  <2>1. ps \in [Checks -> {"none", "unanswered"} \cup Statuses]
    BY <1>1 DEF ProbeTypes
  <2>2. ps["broker"] = IF parts["broker"] = "none" THEN "unanswered" ELSE check["broker"]
    BY <1>1 DEF Timely, Checks
  <2>3. CheckTimeout < limit => parts["broker"] # "none"
    BY <1>1, <1>4, HealthAssumption, SMT DEF Timely, Deadline, ProbeTypes
  <2>4. check["broker"] # "unanswered"
    BY <1>1 DEF ProbeTypes, Checks, Statuses
  <2>. QED  BY <1>2, <1>4, <2>1, <2>2, <2>3, <2>4
<1>. QED  BY <1>3, <1>4 DEF Aggregated

\* Time passes for the probe, which is trouble for a check that is pending.
LEMMA HealthTickKeeps ==
    ASSUME ProbeInv, BlockedTypes, Seen, HealthTick, UNCHANGED <<link, state>> PROVE ProbeInv'
<1>1. /\ served = "asked" /\ ProbeTypes /\ Timely /\ Watched
      /\ clock' = clock + 1 /\ clock' \in Nat
      /\ UNCHANGED <<mu, limit, shut, served, check, parts, alive, alarm, blocked>>
  BY DEF HealthTick, ProbeInv, ProbeTypes, link, state
<1>2. Pending' <=> Pending
  BY <1>1 DEF Pending
<1>3. ProbeTypes'
  BY <1>1, SeenFacts DEF ProbeTypes
<1>4. check["broker"] # "begin" /\ (parts["broker"] = "none" => clock < Deadline)
  BY <1>1, SMT DEF HealthTick, ProbeTypes, Timely, Checks, Statuses
<1>5. parts["broker"] = "none" => clock' <= Deadline'
  BY <1>1, <1>4, HealthAssumption, SMT DEF ProbeTypes, Deadline
<1>6. Timely'
  BY <1>1, <1>2, <1>4, <1>5 DEF Timely
<1>7. Pending => Trouble'
  BY <1>1, <1>4 DEF HealthTick, Pending, Declared, DeclareFailed, Trouble
<1>8. Watched'
  BY <1>1, <1>7, StillWatched
<1>. QED  BY <1>1, <1>3, <1>6, <1>8 DEF ProbeInv, ProbeTellsWhy

\* Nothing else touches a probe.
LEMMA ProbeKept == ASSUME ProbeInv, BlockedInv, [Both]_allVars PROVE ProbeInv'
<1>1. CASE UNCHANGED allVars
  <2>1. /\ UNCHANGED <<shut, limit, served, clock, check, parts, code, troubled, known>>
        /\ UNCHANGED <<mu, alive, alarm, blocked>>
    BY <1>1 DEF allVars, vars, link, state, healthVars, seen
  <2>2. (Pending' <=> Pending) /\ (Trouble' <=> Trouble) /\ Deadline' = Deadline
    BY <2>1 DEF Pending, Trouble, Deadline
  <2>3. (Timely => Timely') /\ (Watched => Watched')
    BY <2>1, <2>2 DEF Timely, Watched
  <2>4. (ProbeTypes => ProbeTypes') /\ (ProbeTellsWhy => ProbeTellsWhy')
    BY <2>1 DEF ProbeTypes, ProbeTellsWhy
  <2>. QED  BY <2>1, <2>3, <2>4 DEF ProbeInv
<1>2. CASE Next /\ UNCHANGED healthVars /\ Seen
  <2>1. UNCHANGED mu
    BY <1>2 DEF Next, Flip, Lost, watchBlocked, Recover, Swap, Clear, Watch, Publish, Send, Look,
       Wake, Answered, Judge, Expired, Tick
  <2>. QED  BY <1>2, <2>1, ProbeUntouched DEF healthVars, ProbeInv, ProbeTypes
<1>3. CASE HealthNext /\ UNCHANGED <<link, state, waiter, missed>> /\ Seen
  <2>1. CASE Shut
    BY <1>3, <2>1, ProbeUntouched DEF Shut
  <2>2. CASE AbandonedDeclares
    BY <1>3, <2>2, ProbeUntouched DEF AbandonedDeclares, ProbeInv, ProbeTypes
  <2>. QED  BY <1>3, <2>1, <2>2, AskKeeps, BrokerKeeps, ApplicationKeeps, NoteKeeps,
           AggregatedKeeps, HealthTickKeeps DEF HealthNext, HealthStep, BlockedInv
<1>. QED  BY <1>1, <1>2, <1>3 DEF Both

\* Whatever the timeouts and however many probes have left their declarations
\* behind on the transport's lock, a probe says that the connection is down only
\* if it was closed or lost or not read since the check began, and not for a
\* block that is known; only an endpoint with no more time than the check gives
\* up on it, and it fails exactly when some part does (Conn.Health, DeclareQueue,
\* AggregateHealth, Actuator.health).
THEOREM ProbesTellWhy == Spec => []ProbeTellsWhy
<1>1. Init /\ HealthInit => BlockedInv /\ ProbeInv
  <2>1. ASSUME Init, HealthInit PROVE ProbeInv
    <3>1. limit \in Nat \ {0} /\ mu # "probe" /\ 0 \in Nat
      BY <2>1, HealthAssumption DEF HealthInit, Init
    <3>2. ProbeTypes
      BY <2>1, <3>1 DEF HealthInit, ProbeTypes
    <3>3. \A c \in Checks : parts[c] = "none" /\ check[c] = "off"
      BY <2>1 DEF HealthInit
    <3>4. code = 503 <=> \E c \in Checks : parts[c] \in {"down", "unanswered"}
      BY <2>1, <3>3, SMT DEF HealthInit
    <3>5. ProbeTellsWhy
      BY <3>3, <3>4 DEF ProbeTellsWhy, Checks
    <3>. QED  BY <2>1, <3>1, <3>2, <3>3, <3>5 DEF HealthInit, ProbeInv, Checks
  <2>. QED  BY <2>1, BlockedBegins
<1>2. (BlockedInv /\ ProbeInv) /\ [Both]_allVars => (BlockedInv /\ ProbeInv)'
  BY BlockedKept, ProbeKept
<1>3. ProbeInv => ProbeTellsWhy
  BY DEF ProbeInv
<1>. QED  BY <1>1, <1>2, <1>3, PTL DEF Spec
=============================================================================
