--------------------------- MODULE PublishProofs ---------------------------
(***************************************************************************)
(* What holds of publishing for every number of publishers, slots,         *)
(* messages, connections and cancelled contexts: what Publish and SendAll  *)
(* report is what the broker said, every wait has its answer on its way,   *)
(* and the client's one reader does not meet a full buffer.                *)
(***************************************************************************)
EXTENDS PublishBatch, FiniteSetTheorems, SequenceTheorems, TLAPS

\* Most leaves are matters of logic and sets: Zenon is tried first, then SMT.
USE ZenonT(10), SMTT(20)

-----------------------------------------------------------------------------
(* The inductive invariant of the transport *)

Answer == {"none", "ack", "nack"}
Result == {"none", "unknown", "lost", "refused", "unrouted", "routed"}
Pub == [gen: Gens, fate: Fates, answer: Answer, result: Result, swapped: BOOLEAN]
Frame == [kind: {"return", "ack", "nack"}, n: Nat]
Flight == {"wait", "ack", "nack"}

PubTypeOK ==
    /\ pc \in [Publishers -> {"idle", "slot"} \cup Flight] /\ cur \in [Publishers -> Nat]
    /\ pubs \in Seq(Pub)
    /\ frames \in [Gens -> Seq(Frame)] /\ returns \in [Gens -> Seq(Nat)]
    /\ closed \in SUBSET Gens /\ gen \in Gens /\ retGen \in Gens
    /\ returned \in SUBSET Nat /\ seen \in Seq(Nat) /\ cancels \in Nat

\* The returns are those of the channel or of one before it, and so are the
\* connections that have gone, each of which can be replaced.
Connections == retGen <= gen /\ \A g \in closed : g <= gen /\ g < MaxGen

\* Frame f, on connection g, answers a message of ps written there and not
\* answered yet, and says what became of it.
FrameTrue(ps, f, g) ==
    /\ f.n \in DOMAIN ps /\ ps[f.n].gen = g /\ ps[f.n].answer = "none"
    /\ f.kind = "return" => ps[f.n].fate = "unrouted"
    /\ f.kind = "ack" => ps[f.n].fate # "refused"
    /\ f.kind = "nack" => ps[f.n].fate = "refused"

\* Frames are on their way on connections that have not gone.
FramesTrue ==
    \A g \in Gens : \A i \in DOMAIN frames[g] :
        g \notin closed /\ FrameTrue(pubs, frames[g][i], g)

\* They are in the order of the messages, the return of one before its confirm.
Follows(e, f) == e.n < f.n \/ (e.n = f.n /\ e.kind = "return" /\ f.kind # "return")
FramesInOrder ==
    \A g \in Gens : \A i, j \in DOMAIN frames[g] : i < j => Follows(frames[g][i], frames[g][j])

\* The confirm, and the return, of message n among the frames fs.
ConfirmIn(fs, n) == \E i \in DOMAIN fs : fs[i].n = n /\ fs[i].kind # "return"
ReturnIn(fs, n) == \E i \in DOMAIN fs : fs[i].n = n /\ fs[i].kind = "return"

\* A message that is not answered has its confirm on its way.
AnswerSent ==
    \A n \in DOMAIN pubs : pubs[n].answer = "none" => ConfirmIn(frames[pubs[n].gen], n)

\* A confirm is the broker's, or the client library's for a connection that went.
AnswerTrue ==
    \A n \in DOMAIN pubs :
        /\ pubs[n].answer = "ack" => pubs[n].fate # "refused"
        /\ pubs[n].answer = "nack" => pubs[n].fate = "refused" \/ pubs[n].gen \in closed

\* s are messages of ps returned on connection g, in the order they were written.
InOrder(ps, s, g) ==
    /\ \A i \in DOMAIN s : s[i] \in DOMAIN ps /\ ps[s[i]].gen = g /\ ps[s[i]].fate = "unrouted"
    /\ \A i, j \in DOMAIN s : i < j => s[i] < s[j]

\* The returns among the frames fs are of messages after those of s.
Before(s, fs) ==
    \A i \in DOMAIN s, j \in DOMAIN fs : fs[j].kind = "return" => s[i] < fs[j].n

\* The returns buffered, and those filed, are in order.
ReturnsTrue == \A g \in Gens : InOrder(pubs, returns[g], g) /\ Before(returns[g], frames[g])
SeenTrue ==
    /\ InOrder(pubs, seen, retGen) /\ Before(seen, frames[retGen])
    /\ \A i \in DOMAIN seen, j \in DOMAIN returns[retGen] : seen[i] < returns[retGen][j]
KeysTrue == \A n \in returned : n \in DOMAIN pubs /\ pubs[n].fate = "unrouted"

\* n is one of the messages of s.
Has(s, n) == \E i \in DOMAIN s : s[i] = n

\* A return is there for the publisher that may yet look for it, unless it has
\* been evicted.
ReturnKept ==
    \A n \in DOMAIN pubs :
        pubs[n].fate = "unrouted" /\ pubs[n].result = "none" /\ pubs[n].answer # "nack"
          /\ pubs[n].gen >= retGen =>
            \/ ReturnIn(frames[pubs[n].gen], n)
            \/ Has(returns[pubs[n].gen], n)
            \/ pubs[n].gen = retGen /\ (n \in returned \/ Crowded(n))

\* A message in flight has a publisher of its own, which knows its answer.
Writers ==
    /\ \A p \in Publishers : pc[p] \in Flight =>
        /\ cur[p] \in DOMAIN pubs /\ pubs[cur[p]].result = "none"
        /\ pc[p] # "wait" => pubs[cur[p]].answer = pc[p]
    /\ \A p, q \in Publishers :
        pc[p] \in Flight /\ pc[q] \in Flight /\ cur[p] = cur[q] => p = q
    /\ \A n \in DOMAIN pubs : pubs[n].result = "none" =>
        \E p \in Publishers : pc[p] \in Flight /\ cur[p] = n

\* The publishers that hold a slot are as many as there are slots, at most.
Holders == {q \in Publishers : pc[q] # "idle"}
Slots == Cardinality(Holders) <= Bound

\* Only an abandoned message is settled without an answer, and only a settled
\* one has been looked for on another connection; while there is neither, the
\* returns buffered on a connection that lives are of messages in flight.
Unhurried ==
    \A n \in DOMAIN pubs :
        /\ pubs[n].answer = "none" /\ pubs[n].result # "none" => cancels # 0
        /\ pubs[n].result = "none" => ~pubs[n].swapped
Unclaimed ==
    cancels = 0 /\ (\A n \in DOMAIN pubs : ~pubs[n].swapped) =>
        \A g \in Gens \ closed : \A i \in DOMAIN returns[g] :
            pubs[returns[g][i]].result = "none"

\* What is on its way; what has been returned; who waits for it.
WireInv == FramesTrue /\ FramesInOrder /\ AnswerSent /\ AnswerTrue
FiledInv == ReturnsTrue /\ SeenTrue /\ KeysTrue
PublishInv ==
    /\ PubTypeOK /\ Connections /\ WireInv /\ FiledInv
    /\ ReturnKept /\ Writers /\ Slots /\ Unhurried /\ Unclaimed /\ ReportedTruly

-----------------------------------------------------------------------------
(* Sequences, point by point *)

\* The messages are numbered from one.
LEMMA PubsAre ==
    ASSUME PubTypeOK
    PROVE  /\ Len(pubs) \in Nat /\ DOMAIN pubs = 1..Len(pubs)
           /\ \A n \in DOMAIN pubs : pubs[n] \in Pub
BY LenProperties DEF PubTypeOK

\* What is left when the first element is taken.
LEMMA TailIs ==
    ASSUME NEW S, NEW s \in Seq(S), s # <<>>
    PROVE  /\ 1 \in DOMAIN s /\ Head(s) = s[1] /\ Tail(s) \in Seq(S)
           /\ \A i \in DOMAIN Tail(s) : i + 1 \in DOMAIN s /\ 1 < i + 1 /\ Tail(s)[i] = s[i + 1]
           /\ \A j \in DOMAIN s : j # 1 => j - 1 \in DOMAIN Tail(s) /\ Tail(s)[j - 1] = s[j]
           /\ \A i, j \in DOMAIN Tail(s) : i < j => i + 1 < j + 1
<1>1. /\ Len(s) \in Nat \ {0} /\ DOMAIN s = 1..Len(s)
    BY EmptySeq, LenProperties
<1>2. /\ Tail(s) \in Seq(S) /\ Len(Tail(s)) = Len(s) - 1
      /\ \A i \in 1..Len(Tail(s)) : Tail(s)[i] = s[i + 1]
    BY HeadTailProperties
<1>3. DOMAIN Tail(s) = 1..Len(s) - 1
    BY <1>2, LenProperties
<1>4. Head(s) = s[1]
    BY SMT
<1>5. ASSUME NEW j \in DOMAIN s, j # 1
      PROVE  j - 1 \in DOMAIN Tail(s) /\ Tail(s)[j - 1] = s[j]
    <2>1. j - 1 \in 1..Len(s) - 1 /\ (j - 1) + 1 = j
        BY <1>1, <1>5, SMT
    <2> QED
        BY <1>2, <1>3, <2>1, SMT
<1>6. ASSUME NEW i \in DOMAIN Tail(s)
      PROVE  i \in Nat /\ i + 1 \in DOMAIN s /\ 1 < i + 1 /\ Tail(s)[i] = s[i + 1]
    BY <1>1, <1>2, <1>3, <1>6, SMT
<1>7. \A i, j \in DOMAIN Tail(s) : i < j => i + 1 < j + 1
    BY <1>1, <1>3, SMT
<1> QED
    BY <1>1, <1>2, <1>4, <1>5, <1>6, <1>7, SMT

\* What there is when an element is added.
LEMMA AppendIs ==
    ASSUME NEW S, NEW s \in Seq(S), NEW x \in S, NEW t, t = Append(s, x)
    PROVE  /\ t \in Seq(S)
           /\ Len(s) + 1 \in DOMAIN t /\ t[Len(s) + 1] = x
           /\ \A i \in DOMAIN s : i \in DOMAIN t /\ t[i] = s[i]
           /\ \A j \in DOMAIN t : j \in DOMAIN s \/ j = Len(s) + 1
           /\ \A i, j \in DOMAIN t : i < j => i \in DOMAIN s
<1>1. Len(s) \in Nat /\ DOMAIN s = 1..Len(s)
    BY LenProperties
<1>2. /\ t \in Seq(S) /\ Len(t) = Len(s) + 1
      /\ \A i \in 1..Len(s) : t[i] = s[i]
      /\ t[Len(s) + 1] = x
    BY AppendProperties
<1>3. DOMAIN t = 1..Len(s) + 1
    BY <1>2, LenProperties
<1> QED
    BY <1>1, <1>2, <1>3, SMT

\* t are the frames fs and then the broker's answers to message n.
Sends(t, fs, n, fate) ==
    /\ t \in Seq(Frame)
    /\ \A i \in DOMAIN fs : i \in DOMAIN t /\ t[i] = fs[i]
    /\ \A j \in DOMAIN t : j \notin DOMAIN fs =>
         /\ t[j].n = n
         /\ t[j].kind = "return" => fate = "unrouted"
         /\ t[j].kind = "ack" => fate # "refused"
         /\ t[j].kind = "nack" => fate = "refused"
    /\ \A i, j \in DOMAIN t : i < j /\ j \in DOMAIN fs => i \in DOMAIN fs
    /\ \A i, j \in DOMAIN t : i < j /\ i \notin DOMAIN fs =>
         t[i].kind = "return" /\ t[j].kind # "return"
    /\ \E j \in DOMAIN t : t[j].n = n /\ t[j].kind # "return"
    /\ fate = "unrouted" => \E j \in DOMAIN t : t[j].n = n /\ t[j].kind = "return"

\* What the broker sends back for a message, after everything else.
LEMMA SentIs ==
    ASSUME NEW fs \in Seq(Frame), NEW n \in Nat, NEW fate \in Fates,
           NEW t, t = fs \o Answers(n, fate)
    PROVE  Sends(t, fs, n, fate)
<1> DEFINE a == [kind |-> "ack", n |-> n]
           b == [kind |-> "nack", n |-> n]
           r == [kind |-> "return", n |-> n]
           L == Len(fs)
<1>0. a \in Frame /\ b \in Frame /\ r \in Frame
    BY DEF Frame
<1>1. /\ a.kind = "ack" /\ b.kind = "nack" /\ r.kind = "return"
      /\ a.n = n /\ b.n = n /\ r.n = n
    OBVIOUS
<1>2. L \in Nat /\ DOMAIN fs = 1..L
    BY LenProperties
<1> HIDE DEF a, b, r, L
<1>3. ASSUME NEW x \in Frame, t = fs \o <<x>>
      PROVE  /\ t \in Seq(Frame) /\ DOMAIN t = 1..L + 1 /\ t[L + 1] = x
             /\ \A i \in 1..L : t[i] = fs[i]
    <2>1. t = Append(fs, x)
        BY <1>3, AppendIsConcat
    <2> QED
        BY <1>2, <2>1, AppendProperties, LenProperties, SMT DEF L
<1>4. ASSUME NEW x \in Frame, NEW y \in Frame, t = fs \o <<x, y>>
      PROVE  /\ t \in Seq(Frame) /\ DOMAIN t = 1..L + 2 /\ t[L + 1] = x /\ t[L + 2] = y
             /\ \A i \in 1..L : t[i] = fs[i]
    <2>1. /\ <<x, y>> \in Seq(Frame) /\ Len(<<x, y>>) = 2
          /\ <<x, y>>[1] = x /\ <<x, y>>[2] = y
        BY SMT
    <2>2. /\ t \in Seq(Frame) /\ Len(t) = L + 2
          /\ \A i \in 1..L + 2 : t[i] = IF i <= L THEN fs[i] ELSE <<x, y>>[i - L]
        BY <1>4, <2>1, ConcatProperties, SMT DEF L
    <2>3. DOMAIN t = 1..L + 2
        BY <2>2, LenProperties
    <2>4. L + 1 \in 1..L + 2 /\ L + 2 \in 1..L + 2 /\ ~(L + 1 <= L) /\ ~(L + 2 <= L)
          /\ (L + 1) - L = 1 /\ (L + 2) - L = 2 /\ \A i \in 1..L : i \in 1..L + 2 /\ i <= L
        BY <1>2, SMT
    <2> HIDE DEF L
    <2> QED
        BY <2>1, <2>2, <2>3, <2>4
<1>5. CASE fate = "routed"
    <2>1. t = fs \o <<a>>
        BY <1>5 DEF Answers, a
    <2>2. /\ t \in Seq(Frame) /\ DOMAIN t = 1..L + 1 /\ t[L + 1] = a
          /\ \A i \in 1..L : t[i] = fs[i]
        BY <1>0, <1>3, <2>1
    <2>3. \A j \in 1..L + 1 : j \notin 1..L => j = L + 1
        BY <1>2, SMT
    <2>4. /\ L + 1 \in 1..L + 1
          /\ \A i \in 1..L : i \in 1..L + 1
          /\ \A i, j \in 1..L + 1 : i < j => i \in 1..L
        BY <1>2, SMT
    <2> QED
        BY ONLY <1>1, <1>2, <1>5, <2>2, <2>3, <2>4, Zenon DEF Sends
<1>6. CASE fate = "refused"
    <2>1. t = fs \o <<b>>
        BY <1>6 DEF Answers, b
    <2>2. /\ t \in Seq(Frame) /\ DOMAIN t = 1..L + 1 /\ t[L + 1] = b
          /\ \A i \in 1..L : t[i] = fs[i]
        BY <1>0, <1>3, <2>1
    <2>3. \A j \in 1..L + 1 : j \notin 1..L => j = L + 1
        BY <1>2, SMT
    <2>4. /\ L + 1 \in 1..L + 1
          /\ \A i \in 1..L : i \in 1..L + 1
          /\ \A i, j \in 1..L + 1 : i < j => i \in 1..L
        BY <1>2, SMT
    <2> QED
        BY ONLY <1>1, <1>2, <1>6, <2>2, <2>3, <2>4, Zenon DEF Sends
<1>7. CASE fate = "unrouted"
    <2>1. t = fs \o <<r, a>>
        BY <1>7 DEF Answers, r, a
    <2>2. /\ t \in Seq(Frame) /\ DOMAIN t = 1..L + 2 /\ t[L + 1] = r /\ t[L + 2] = a
          /\ \A i \in 1..L : t[i] = fs[i]
        BY <1>0, <1>4, <2>1
    <2>3. \A j \in 1..L + 2 : j \notin 1..L => j = L + 1 \/ j = L + 2
        BY <1>2, SMT
    <2>4. /\ L + 1 \in 1..L + 2 /\ L + 2 \in 1..L + 2
          /\ \A i \in 1..L : i \in 1..L + 2
          /\ \A i, j \in 1..L + 2 : i < j /\ j \in 1..L => i \in 1..L
          /\ \A i, j \in 1..L + 2 : i < j /\ i \notin 1..L => i = L + 1 /\ j = L + 2
        BY <1>2, SMT
    <2> QED
        BY ONLY <1>1, <1>2, <1>7, <2>2, <2>3, <2>4, Zenon DEF Sends
<1> QED
    BY <1>5, <1>6, <1>7 DEF Fates

-----------------------------------------------------------------------------
(* Returns, filed and evicted *)

\* Messages are neither forgotten nor written again.
MsgsKept ==
    /\ DOMAIN pubs \subseteq DOMAIN pubs'
    /\ \A n \in DOMAIN pubs : pubs'[n].gen = pubs[n].gen /\ pubs'[n].fate = pubs[n].fate

\* Returned messages stay returned.
LEMMA InOrderKept ==
    ASSUME MsgsKept, NEW s, NEW g, InOrder(pubs, s, g)
    PROVE  InOrder(pubs', s, g)
BY DEF MsgsKept, InOrder

\* The set that Crowded counts is finite.
LEMMA CrowdFinite ==
    ASSUME NEW ps \in Seq(Pub), NEW n
    PROVE  IsFiniteSet({j \in DOMAIN ps : j > n /\ ps[j].gen = ps[n].gen /\ ps[j].fate = "unrouted"})
<1>1. Len(ps) \in Nat /\ DOMAIN ps = 1..Len(ps)
    BY LenProperties
<1>2. IsFiniteSet(DOMAIN ps)
    BY <1>1, FS_Interval, SMT
<1> QED
    BY <1>2, FS_Subset

\* A crowd only grows.
LEMMA CrowdedKept ==
    ASSUME PubTypeOK, PubTypeOK', MsgsKept, NEW n \in DOMAIN pubs, Crowded(n)
    PROVE  Crowded(n)'
<1> DEFINE C(ps) == {j \in DOMAIN ps : j > n /\ ps[j].gen = ps[n].gen /\ ps[j].fate = "unrouted"}
<1>1. C(pubs) \subseteq C(pubs')
    BY DEF MsgsKept
<1>2. IsFiniteSet(C(pubs)) /\ IsFiniteSet(C(pubs'))
    BY CrowdFinite DEF PubTypeOK
<1>3. /\ Cardinality(C(pubs)) <= Cardinality(C(pubs'))
      /\ Cardinality(C(pubs)) \in Nat /\ Cardinality(C(pubs')) \in Nat
    BY <1>1, <1>2, FS_Subset, FS_CardinalityType
<1>4. Cardinality(C(pubs)) >= SeenLimit
    BY DEF Crowded
<1> HIDE DEF C
<1>5. Cardinality(C(pubs')) >= SeenLimit
    BY <1>3, <1>4, PublishAssumption, SMT
<1> QED
    BY <1>5 DEF C, Crowded

\* What is filed is what has been seen and what is buffered, in order.
LEMMA FiledIs ==
    ASSUME PubTypeOK, FiledInv
    PROVE  /\ Filed \in Seq(Nat)
           /\ InOrder(pubs, Filed, retGen)
           /\ Before(Filed, frames[retGen])
<1> DEFINE r == returns[retGen]
           L == Len(seen)
<1>1. /\ seen \in Seq(Nat) /\ r \in Seq(Nat) /\ L \in Nat /\ Len(r) \in Nat
      /\ DOMAIN seen = 1..L /\ DOMAIN r = 1..Len(r)
    BY LenProperties DEF PubTypeOK
<1>2. /\ Filed \in Seq(Nat) /\ Len(Filed) = L + Len(r)
      /\ \A i \in 1..L + Len(r) : Filed[i] = IF i <= L THEN seen[i] ELSE r[i - L]
    BY <1>1, ConcatProperties DEF Filed
<1>3. DOMAIN Filed = 1..L + Len(r)
    BY <1>2, LenProperties
<1>4. /\ InOrder(pubs, seen, retGen) /\ InOrder(pubs, r, retGen)
      /\ Before(seen, frames[retGen]) /\ Before(r, frames[retGen])
      /\ \A i \in DOMAIN seen, j \in DOMAIN r : seen[i] < r[j]
    BY DEF FiledInv, ReturnsTrue, SeenTrue, PubTypeOK
<1> HIDE DEF r, L
<1>5. ASSUME NEW i \in DOMAIN Filed
      PROVE  \/ i \in DOMAIN seen /\ Filed[i] = seen[i]
             \/ i > L /\ i - L \in DOMAIN r /\ Filed[i] = r[i - L]
    BY <1>1, <1>2, <1>3, SMT
<1>6. ASSUME NEW i \in DOMAIN Filed
      PROVE  Filed[i] \in DOMAIN pubs /\ pubs[Filed[i]].gen = retGen /\ pubs[Filed[i]].fate = "unrouted"
    BY <1>4, <1>5 DEF InOrder
<1>7. ASSUME NEW i \in DOMAIN Filed, NEW j \in DOMAIN Filed, i < j
      PROVE  Filed[i] < Filed[j]
    <2>1. CASE i \in DOMAIN seen /\ j \in DOMAIN seen
        <3>1. Filed[i] = seen[i] /\ Filed[j] = seen[j]
            BY <1>1, <1>5, <2>1, SMT
        <3> QED
            BY <1>4, <1>7, <2>1, <3>1 DEF InOrder
    <2>2. CASE i \in DOMAIN seen /\ j \notin DOMAIN seen
        <3>1. Filed[i] = seen[i] /\ j - L \in DOMAIN r /\ Filed[j] = r[j - L]
            BY <1>1, <1>5, <2>2, SMT
        <3> QED
            BY <1>4, <2>2, <3>1
    <2>3. CASE i \notin DOMAIN seen
        <3>1. /\ i - L \in DOMAIN r /\ Filed[i] = r[i - L]
              /\ j - L \in DOMAIN r /\ Filed[j] = r[j - L] /\ i - L < j - L
            BY <1>1, <1>3, <1>5, <1>7, <2>3, SMT
        <3> QED
            BY <1>4, <3>1 DEF InOrder
    <2> QED
        BY <2>1, <2>2, <2>3
<1>8. Before(Filed, frames[retGen])
    BY <1>4, <1>5 DEF Before
<1> QED
    BY <1>2, <1>6, <1>7, <1>8 DEF InOrder

\* Of what is filed, the part after what is evicted is kept.
LEMMA EvictedIs ==
    ASSUME PubTypeOK, FiledInv
    PROVE  /\ Evicted \in Nat /\ Len(Filed) \in Nat /\ DOMAIN Filed = 1..Len(Filed)
           /\ Evicted <= Len(Filed)
           /\ Evicted # 0 => Len(Filed) = Evicted + SeenLimit
<1>1. Len(Filed) \in Nat /\ DOMAIN Filed = 1..Len(Filed)
    BY FiledIs, LenProperties
<1> QED
    BY <1>1, PublishAssumption, SMT DEF Evicted

\* The keys filed after a drain are in order too.
LEMMA SeenAfter ==
    ASSUME PubTypeOK, FiledInv
    PROVE  /\ Drained.seen \in Seq(Nat)
           /\ InOrder(pubs, Drained.seen, retGen)
           /\ Before(Drained.seen, frames[retGen])
<1> DEFINE t == Drained.seen
           E == Evicted
           L == Len(Filed)
<1>1. t = SubSeq(Filed, E + 1, L)
    BY DEF Drained
<1>2. E \in Nat /\ L \in Nat /\ DOMAIN Filed = 1..L /\ E <= L
    BY EvictedIs
<1>3. Filed \in Seq(Nat) /\ InOrder(pubs, Filed, retGen) /\ Before(Filed, frames[retGen])
    BY FiledIs
<1> HIDE DEF t, E, L
<1>4. \A i \in E + 1..L : i \in DOMAIN Filed /\ Filed[i] \in Nat
    <2>1. \A i \in E + 1..L : i \in 1..L
        BY <1>2, SMT
    <2> QED
        BY <1>2, <1>3, <2>1, ElementOfSeq DEF L
<1>5. E + 1 \in Int /\ L \in Int
    BY <1>2, SMT
<1>6. /\ t \in Seq(Nat)
      /\ Len(t) = IF E + 1 <= L THEN L - (E + 1) + 1 ELSE 0
      /\ \A i \in 1..L - (E + 1) + 1 : t[i] = Filed[(E + 1) + i - 1]
    BY <1>1, <1>4, <1>5, SubSeqProperties, SMT
<1>7. DOMAIN t = 1..Len(t)
    BY <1>6, LenProperties
<1>8. \A i \in DOMAIN t : E + i \in DOMAIN Filed /\ t[i] = Filed[E + i]
    <2> SUFFICES ASSUME NEW i \in DOMAIN t PROVE E + i \in DOMAIN Filed /\ t[i] = Filed[E + i]
        OBVIOUS
    <2>0. i \in 1..(IF E + 1 <= L THEN L - (E + 1) + 1 ELSE 0) /\ E \in Nat /\ L \in Nat
        BY <1>2, <1>6, <1>7
    <2>1. /\ i \in 1..L - (E + 1) + 1 /\ E + i \in 1..L /\ (E + 1) + i - 1 = E + i
        BY ONLY <2>0, SMT
    <2> QED
        BY <1>2, <1>6, <2>1
<1>9. \A i, j \in DOMAIN t : i < j => E + i < E + j
    <2>0. E \in Nat /\ L \in Nat /\ DOMAIN t = 1..(IF E + 1 <= L THEN L - (E + 1) + 1 ELSE 0)
        BY <1>2, <1>6, <1>7
    <2> QED
        BY ONLY <2>0, SMT
<1>10. InOrder(pubs, t, retGen)
    BY <1>3, <1>8, <1>9 DEF InOrder
<1>11. Before(t, frames[retGen])
    BY <1>3, <1>8 DEF Before
<1> QED
    BY <1>6, <1>10, <1>11 DEF t

\* What is evicted has a crowd behind it.
LEMMA EvictedCrowded ==
    ASSUME PubTypeOK, FiledInv, NEW i \in 1..Evicted
    PROVE  Crowded(Filed[i])
<1> DEFINE n == Filed[i]
           E == Evicted
           K == 1..SeenLimit
           T == {j \in DOMAIN pubs : j > n /\ pubs[j].gen = pubs[n].gen /\ pubs[j].fate = "unrouted"}
           f == [k \in K |-> Filed[E + k]]
<1>1. /\ E \in Nat /\ Len(Filed) = E + SeenLimit /\ DOMAIN Filed = 1..E + SeenLimit
      /\ SeenLimit \in Nat /\ i \in 1..E
    BY EvictedIs, PublishAssumption, SMT
<1>2. InOrder(pubs, Filed, retGen)
    BY FiledIs
<1>3. Len(pubs) \in Nat /\ DOMAIN pubs = 1..Len(pubs)
    BY PubsAre
<1> HIDE DEF E
<1>4. /\ i \in DOMAIN Filed
      /\ \A k \in K : E + k \in DOMAIN Filed /\ i < E + k
      /\ \A k, l \in K : k # l => E + k < E + l \/ E + l < E + k
    BY <1>1, SMT
<1>5. n \in DOMAIN pubs /\ pubs[n].gen = retGen
    BY <1>2, <1>4 DEF InOrder
<1>6. \A k \in K : Filed[E + k] \in DOMAIN pubs /\ Filed[E + k] \in T
    BY <1>2, <1>3, <1>4, <1>5, SMT DEF InOrder
<1>7. \A k, l \in K : k # l => f[k] # f[l]
    <2> SUFFICES ASSUME NEW k \in K, NEW l \in K, k # l PROVE Filed[E + k] # Filed[E + l]
        OBVIOUS
    <2>1. Filed[E + k] \in Nat /\ Filed[E + l] \in Nat
        BY <1>3, <1>6, SMT
    <2>2. Filed[E + k] < Filed[E + l] \/ Filed[E + l] < Filed[E + k]
        BY <1>2, <1>4 DEF InOrder
    <2> QED
        BY <2>1, <2>2, SMT
<1>8. f \in Injection(K, T)
    BY <1>6, <1>7 DEF Injection, IsInjective
<1>9. IsFiniteSet(T)
    BY CrowdFinite DEF PubTypeOK
<1>10. Cardinality(K) <= Cardinality(T)
    BY <1>8, <1>9, FS_Injection
<1>11. Cardinality(K) = SeenLimit
    BY <1>1, FS_Interval, SMT
<1>12. Cardinality(T) \in Nat
    BY <1>9, FS_CardinalityType
<1> HIDE DEF T, K, f, n
<1>13. Cardinality(T) >= SeenLimit
    BY <1>1, <1>10, <1>11, <1>12, SMT
<1> QED
    BY <1>13 DEF Crowded, T, n

\* A return that is filed or buffered is filed after a drain, or has been
\* evicted; and nothing else is filed.
LEMMA KeysAfter ==
    ASSUME PubTypeOK, FiledInv
    PROVE  /\ \A n \in returned : n \in Drained.keys \/ Crowded(n)
           /\ \A n : Has(returns[retGen], n) => n \in Drained.keys \/ Crowded(n)
           /\ \A n \in Drained.keys : n \in DOMAIN pubs /\ pubs[n].fate = "unrouted"
           /\ Drained.keys \subseteq Nat
<1> DEFINE B == {returns[retGen][i] : i \in DOMAIN returns[retGen]}
           V == {Filed[i] : i \in 1..Evicted}
<1>1. Drained.keys = (returned \cup B) \ V
    BY DEF Drained
<1>2. \A n \in V : Crowded(n)
    BY EvictedCrowded
<1>3. \A n \in B : n \in DOMAIN pubs /\ pubs[n].fate = "unrouted"
    BY SMT DEF FiledInv, ReturnsTrue, InOrder, PubTypeOK
<1>4. \A n \in returned : n \in DOMAIN pubs /\ pubs[n].fate = "unrouted"
    BY DEF FiledInv, KeysTrue
<1>5. \A n : Has(returns[retGen], n) => n \in B
    BY DEF Has
<1>6. DOMAIN pubs \subseteq Nat
    BY PubsAre, SMT
<1> HIDE DEF B, V
<1> QED
    BY <1>1, <1>2, <1>3, <1>4, <1>5, <1>6

-----------------------------------------------------------------------------
(* Steps of a publisher that leave the messages as they are *)

\* Holders are publishers, and finitely many.
LEMMA HoldersFinite ==
    IsFiniteSet(Holders) /\ Cardinality(Holders) \in Nat
<1>1. IsFiniteSet(Holders)
    BY PublishAssumption, FS_Subset DEF Holders
<1> QED
    BY <1>1, FS_CardinalityType

\* When nobody takes a slot there are enough of them still.
LEMMA FewerHolders ==
    ASSUME Slots, Holders' \subseteq Holders
    PROVE  Slots'
<1>1. IsFiniteSet(Holders)
    BY HoldersFinite
<1>2. IsFiniteSet(Holders') /\ Cardinality(Holders') <= Cardinality(Holders)
    BY <1>1, FS_Subset
<1>3. Cardinality(Holders') \in Nat /\ Cardinality(Holders) \in Nat
    BY <1>1, <1>2, FS_CardinalityType
<1> QED
    BY <1>2, <1>3, PublishAssumption, SMT DEF Slots

\* Only who is in flight, and who holds a slot, is at stake in such a step.
LEMMA OnlyPlaces ==
    ASSUME PublishInv, UNCHANGED <<cur, pubs, frames, closed, gen, client, cancels>>,
           pc' \in [Publishers -> {"idle", "slot"} \cup Flight], Writers', Slots'
    PROVE  PublishInv'
<1>1. PubTypeOK' /\ Connections'
    BY DEF PublishInv, PubTypeOK, Connections, client
<1>2. WireInv'
    BY DEF PublishInv, WireInv, FramesTrue, FramesInOrder, AnswerSent, AnswerTrue
<1>3. FiledInv'
    BY DEF PublishInv, FiledInv, ReturnsTrue, SeenTrue, KeysTrue, client
<1>4. ReturnKept'
    BY DEF PublishInv, ReturnKept, Crowded, client
<1>5. Unhurried' /\ Unclaimed'
    BY DEF PublishInv, Unhurried, Unclaimed, client
<1>6. ReportedTruly'
    BY DEF PublishInv, ReportedTruly, Crowded
<1> QED
    BY <1>1, <1>2, <1>3, <1>4, <1>5, <1>6 DEF PublishInv

\* acquire.
LEMMA AcquireStep ==
    ASSUME PublishInv, NEW p \in Publishers, Acquire(p)
    PROVE  PublishInv'
<1>1. pc \in [Publishers -> {"idle", "slot"} \cup Flight] /\ Writers
    BY DEF PublishInv, PubTypeOK
<1>2. /\ pc[p] = "idle" /\ pc' = [pc EXCEPT ![p] = "slot"]
      /\ UNCHANGED <<cur, pubs, frames, closed, gen, client, cancels>>
      /\ Cardinality(Holders) < Bound
    BY DEF Acquire, Holders
<1>3. pc' \in [Publishers -> {"idle", "slot"} \cup Flight]
    BY <1>1, <1>2
<1>4. \A q \in Publishers : pc'[q] = IF q = p THEN "slot" ELSE pc[q]
    BY <1>1, <1>2
<1>5. "idle" \notin Flight /\ "slot" \notin Flight
    BY DEF Flight
<1>6. \A q \in Publishers : pc'[q] \in Flight <=> pc[q] \in Flight
    BY <1>2, <1>4, <1>5
<1>7. \A q \in Publishers : pc[q] \in Flight => pc'[q] = pc[q]
    BY <1>2, <1>4, <1>5
<1>8. Writers'
    BY <1>1, <1>2, <1>6, <1>7 DEF Writers
<1>9. Slots'
    <2>1. Holders' = Holders \cup {p}
        BY <1>2, <1>4 DEF Holders
    <2>2. IsFiniteSet(Holders) /\ Cardinality(Holders) \in Nat /\ p \notin Holders
        BY <1>2, HoldersFinite DEF Holders
    <2>3. Cardinality(Holders') = Cardinality(Holders) + 1
        BY <2>1, <2>2, FS_AddElement
    <2> QED
        BY <1>2, <2>2, <2>3, PublishAssumption, SMT DEF Slots
<1> QED
    BY <1>2, <1>3, <1>8, <1>9, OnlyPlaces

\* send, where it fails.
LEMMA SendFailsStep ==
    ASSUME PublishInv, NEW p \in Publishers, SendFails(p)
    PROVE  PublishInv'
<1>1. pc \in [Publishers -> {"idle", "slot"} \cup Flight] /\ Writers /\ Slots
    BY DEF PublishInv, PubTypeOK
<1>2. /\ pc[p] = "slot" /\ pc' = [pc EXCEPT ![p] = "idle"]
      /\ UNCHANGED <<cur, pubs, frames, closed, gen, client, cancels>>
    BY DEF SendFails
<1>3. pc' \in [Publishers -> {"idle", "slot"} \cup Flight]
    BY <1>1, <1>2
<1>4. \A q \in Publishers : pc'[q] = IF q = p THEN "idle" ELSE pc[q]
    BY <1>1, <1>2
<1>5. "idle" \notin Flight /\ "slot" \notin Flight
    BY DEF Flight
<1>6. \A q \in Publishers : pc'[q] \in Flight <=> pc[q] \in Flight
    BY <1>2, <1>4, <1>5
<1>7. \A q \in Publishers : pc[q] \in Flight => pc'[q] = pc[q]
    BY <1>2, <1>4, <1>5
<1>8. Writers'
    BY <1>1, <1>2, <1>6, <1>7 DEF Writers
<1>9. Holders' \subseteq Holders
    BY <1>2, <1>4 DEF Holders
<1> QED
    BY <1>1, <1>2, <1>3, <1>8, <1>9, FewerHolders, OnlyPlaces

\* awaitConfirm, when the confirmation is resolved.
LEMMA ConfirmedStep ==
    ASSUME PublishInv, NEW p \in Publishers, Confirmed(p)
    PROVE  PublishInv'
<1>1. /\ pc \in [Publishers -> {"idle", "slot"} \cup Flight] /\ Writers /\ Slots
      /\ PubTypeOK
    BY DEF PublishInv, PubTypeOK
<1> DEFINE a == pubs[cur[p]].answer
<1>2. /\ pc[p] = "wait" /\ a # "none" /\ pc' = [pc EXCEPT ![p] = a]
      /\ UNCHANGED <<cur, pubs, frames, closed, gen, client, cancels>>
    BY DEF Confirmed
<1>3. "wait" \in Flight /\ "idle" \notin Flight
    BY DEF Flight
<1>4. cur[p] \in DOMAIN pubs
    BY <1>1, <1>2, <1>3 DEF Writers
<1>5. a \in Answer
    BY <1>1, <1>4, PubsAre DEF Pub
<1>6. a \in Flight
    BY <1>2, <1>5 DEF Answer, Flight
<1>7. \A q \in Publishers : pc'[q] = IF q = p THEN a ELSE pc[q]
    BY <1>1, <1>2
<1>8. pc' \in [Publishers -> {"idle", "slot"} \cup Flight]
    BY <1>1, <1>2, <1>6
<1>9. \A q \in Publishers : pc'[q] \in Flight <=> pc[q] \in Flight
    BY <1>2, <1>3, <1>6, <1>7
<1>10. \A q \in Publishers : pc'[q] = pc[q] \/ pc'[q] = pubs[cur[q]].answer
    BY <1>7
<1>11. Writers'
    BY <1>1, <1>2, <1>9, <1>10 DEF Writers
<1>12. Holders' \subseteq Holders
    BY <1>2, <1>7 DEF Holders
<1> QED
    BY <1>1, <1>2, <1>8, <1>11, <1>12, FewerHolders, OnlyPlaces

-----------------------------------------------------------------------------
(* Publish returns *)

\* What Publish says settles the message of its caller, and touches no other.
LEMMA Settled ==
    ASSUME PublishInv, NEW p \in Publishers, pc[p] \in Flight,
           NEW res \in Result \ {"none"}, NEW sw \in BOOLEAN, Return(p, res, sw),
           UNCHANGED <<cur, frames, closed, gen, retGen>>
    PROVE  /\ pubs' \in Seq(Pub) /\ pc' \in [Publishers -> {"idle", "slot"} \cup Flight]
           /\ MsgsKept /\ DOMAIN pubs' = DOMAIN pubs /\ cur[p] \in DOMAIN pubs
           /\ \A n \in DOMAIN pubs : pubs'[n].answer = pubs[n].answer
           /\ \A n \in DOMAIN pubs : n # cur[p] => pubs'[n] = pubs[n]
           /\ pubs'[cur[p]].result = res /\ pubs'[cur[p]].swapped = sw
           /\ WireInv' /\ Connections' /\ Writers' /\ Slots'
<1> DEFINE c == cur[p]
<1>1. /\ pc \in [Publishers -> {"idle", "slot"} \cup Flight] /\ Writers /\ Slots
      /\ PubTypeOK /\ WireInv /\ Connections /\ pubs \in Seq(Pub)
    BY DEF PublishInv, PubTypeOK
<1>2. c \in DOMAIN pubs
    BY <1>1 DEF Writers
<1>3. Len(pubs) \in Nat /\ DOMAIN pubs = 1..Len(pubs) /\ \A n \in DOMAIN pubs : pubs[n] \in Pub
    BY <1>1, PubsAre
<1> DEFINE f == [pubs EXCEPT ![c].result = res]
<1>4. pubs' = [f EXCEPT ![c].swapped = sw] /\ pc' = [pc EXCEPT ![p] = "idle"]
    BY DEF Return
<1> DEFINE m == [[pubs[c] EXCEPT !.result = res] EXCEPT !.swapped = sw]
<1>5. /\ m \in Pub /\ m.gen = pubs[c].gen /\ m.fate = pubs[c].fate /\ m.answer = pubs[c].answer
      /\ m.result = res /\ m.swapped = sw
    BY <1>2, <1>3 DEF Pub
<1>6. pubs' = [pubs EXCEPT ![c] = m]
    <2>1. f[c] = [pubs[c] EXCEPT !.result = res] /\ DOMAIN f = DOMAIN pubs
        BY <1>2
    <2>2. pubs' = [n \in DOMAIN pubs |-> IF n = c THEN m ELSE pubs[n]]
        BY <1>2, <1>4, <2>1
    <2> QED
        BY <2>2
<1> HIDE DEF m, f
<1>7. pubs' \in Seq(Pub) /\ DOMAIN pubs' = DOMAIN pubs
    BY <1>1, <1>2, <1>5, <1>6, ExceptSeq, SMT
<1>8. pubs'[c] = m /\ \A n \in DOMAIN pubs : n # c => pubs'[n] = pubs[n]
    BY <1>2, <1>6
<1> HIDE DEF c
<1>9. \A n \in DOMAIN pubs : /\ pubs'[n].gen = pubs[n].gen /\ pubs'[n].fate = pubs[n].fate
                             /\ pubs'[n].answer = pubs[n].answer
    BY <1>5, <1>8
<1>10. WireInv'
    <2>1. FramesTrue'
        BY <1>1, <1>7, <1>9, SMT DEF WireInv, FramesTrue, FrameTrue
    <2>2. FramesInOrder'
        BY <1>1 DEF WireInv, FramesInOrder
    <2>3. AnswerSent'
        BY <1>1, <1>7, <1>9 DEF WireInv, AnswerSent
    <2>4. AnswerTrue'
        BY <1>1, <1>7, <1>9 DEF WireInv, AnswerTrue
    <2> QED
        BY <2>1, <2>2, <2>3, <2>4 DEF WireInv
<1>11. \A q \in Publishers : pc'[q] = IF q = p THEN "idle" ELSE pc[q]
    BY <1>1, <1>4
<1>12. pc' \in [Publishers -> {"idle", "slot"} \cup Flight]
    BY <1>1, <1>4
<1>13. "idle" \notin Flight
    BY DEF Flight
<1>14. \A q \in Publishers : pc'[q] \in Flight => q # p /\ pc[q] \in Flight /\ pc'[q] = pc[q]
    BY <1>11, <1>13
<1>15. \A q \in Publishers : pc[q] \in Flight /\ q # p => cur[q] # c
    BY <1>1 DEF Writers, c
<1>16. Writers'
    <2>1. ASSUME NEW q \in Publishers, pc'[q] \in Flight
          PROVE  /\ cur[q] \in DOMAIN pubs' /\ pubs'[cur[q]].result = "none"
                 /\ pc'[q] # "wait" => pubs'[cur[q]].answer = pc'[q]
        <3>1. q # p /\ pc[q] \in Flight /\ pc'[q] = pc[q] /\ cur[q] # c
            BY <1>14, <1>15, <2>1
        <3>2. /\ cur[q] \in DOMAIN pubs /\ pubs[cur[q]].result = "none"
              /\ pc[q] # "wait" => pubs[cur[q]].answer = pc[q]
            BY <1>1, <3>1 DEF Writers
        <3> QED
            BY <1>7, <1>8, <3>1, <3>2
    <2>2. \A q, r \in Publishers :
            pc'[q] \in Flight /\ pc'[r] \in Flight /\ cur[q] = cur[r] => q = r
        BY <1>1, <1>14 DEF Writers
    <2>3. ASSUME NEW n \in DOMAIN pubs', pubs'[n].result = "none"
          PROVE  \E q \in Publishers : pc'[q] \in Flight /\ cur[q] = n
        <3>1. n # c /\ pubs[n].result = "none"
            BY <1>5, <1>7, <1>8, <2>3
        <3>2. PICK q \in Publishers : pc[q] \in Flight /\ cur[q] = n
            BY <1>1, <1>7, <3>1 DEF Writers
        <3>3. q # p
            BY <3>1, <3>2 DEF c
        <3> QED
            BY <1>11, <3>2, <3>3
    <2> QED
        BY <2>1, <2>2, <2>3 DEF Writers
<1>17. Holders' \subseteq Holders
    BY <1>11 DEF Holders
<1>18. Slots'
    BY <1>1, <1>17, FewerHolders
<1>19. Connections'
    BY <1>1 DEF Connections
<1>20. MsgsKept
    BY <1>7, <1>9 DEF MsgsKept
<1> QED
    BY <1>2, <1>5, <1>7, <1>8, <1>9, <1>10, <1>12, <1>16, <1>18, <1>19, <1>20 DEF c

\* What was said of the other messages is as true as it was.
LEMMA OthersTrue ==
    ASSUME PublishInv, PubTypeOK', MsgsKept, NEW n \in DOMAIN pubs,
           pubs'[n].result = pubs[n].result, pubs'[n].swapped = pubs[n].swapped
    PROVE  /\ pubs'[n].result \in {"unrouted", "refused"} => pubs'[n].fate = pubs'[n].result
           /\ pubs'[n].result = "routed" /\ ~pubs'[n].swapped /\ ~Crowded(n)' =>
                pubs'[n].fate = "routed"
<1>1. PubTypeOK /\ ReportedTruly
    BY DEF PublishInv
<1>2. Crowded(n) => Crowded(n)'
    BY <1>1, CrowdedKept
<1>3. pubs'[n].fate = pubs[n].fate
    BY DEF MsgsKept
<1> QED
    BY <1>1, <1>2, <1>3 DEF ReportedTruly

\* awaitConfirm, when it stops waiting.
LEMMA AbandonStep ==
    ASSUME PublishInv, NEW p \in Publishers, Abandon(p)
    PROVE  PublishInv'
<1> DEFINE c == cur[p]
<1>1. PubTypeOK /\ FiledInv /\ ReturnKept /\ Unhurried
    BY DEF PublishInv
<1>2. /\ pc[p] \in Flight /\ Return(p, "unknown", FALSE) /\ cancels' = cancels + 1
      /\ UNCHANGED <<cur, frames, closed, gen, client>>
    BY DEF Abandon, Flight
<1>3. "unknown" \in Result \ {"none"} /\ UNCHANGED <<cur, frames, closed, gen, retGen>>
    BY <1>2 DEF Result, client
<1>4. /\ pubs' \in Seq(Pub) /\ pc' \in [Publishers -> {"idle", "slot"} \cup Flight]
      /\ MsgsKept /\ DOMAIN pubs' = DOMAIN pubs /\ c \in DOMAIN pubs
      /\ \A n \in DOMAIN pubs : pubs'[n].answer = pubs[n].answer
      /\ \A n \in DOMAIN pubs : n # c => pubs'[n] = pubs[n]
      /\ pubs'[c].result = "unknown"
      /\ WireInv' /\ Connections' /\ Writers' /\ Slots'
    BY <1>2, <1>3, Settled
<1> HIDE DEF c
<1>5. cancels' \in Nat /\ cancels' # 0
    BY <1>1, <1>2, SMT DEF PubTypeOK
<1>6. PubTypeOK'
    BY <1>1, <1>2, <1>4, <1>5 DEF PubTypeOK, client
<1>7. FiledInv'
    <2>1. ReturnsTrue'
        BY <1>1, <1>2, <1>4, InOrderKept DEF FiledInv, ReturnsTrue, client
    <2>2. SeenTrue'
        BY <1>1, <1>2, <1>4, InOrderKept DEF FiledInv, SeenTrue, client
    <2>3. KeysTrue'
        BY <1>1, <1>2, <1>4 DEF FiledInv, KeysTrue, client, MsgsKept
    <2> QED
        BY <2>1, <2>2, <2>3 DEF FiledInv
<1>8. ReturnKept'
    <2>1. \A n \in DOMAIN pubs : Crowded(n) => Crowded(n)'
        BY <1>1, <1>4, <1>6, CrowdedKept
    <2>2. \A n \in DOMAIN pubs : pubs'[n].result = "none" => pubs'[n] = pubs[n]
        BY <1>4
    <2> QED
        BY <1>1, <1>2, <1>4, <2>1, <2>2 DEF ReturnKept, client
<1>9. Unhurried' /\ Unclaimed'
    BY <1>1, <1>4, <1>5 DEF Unhurried, Unclaimed
<1>10. ReportedTruly'
    <2>1. ASSUME NEW n \in DOMAIN pubs, n # c
          PROVE  /\ pubs'[n].result \in {"unrouted", "refused"} => pubs'[n].fate = pubs'[n].result
                 /\ pubs'[n].result = "routed" /\ ~pubs'[n].swapped /\ ~Crowded(n)' =>
                      pubs'[n].fate = "routed"
        BY <1>4, <1>6, <2>1, OthersTrue
    <2>2. pubs'[c].result \notin {"unrouted", "refused", "routed"}
        BY <1>4
    <2> QED
        BY <1>4, <2>1, <2>2 DEF ReportedTruly
<1> QED
    BY <1>4, <1>6, <1>7, <1>8, <1>9, <1>10 DEF PublishInv

\* lostRatherThanRefused.
LEMMA JudgeStep ==
    ASSUME PublishInv, NEW p \in Publishers, Judge(p)
    PROVE  PublishInv'
<1> DEFINE c == cur[p]
           sent == pubs[c].gen
           res == IF gen # sent \/ sent \in closed THEN "lost" ELSE "refused"
<1>1. /\ PubTypeOK /\ FiledInv /\ ReturnKept /\ Writers /\ WireInv /\ Unhurried /\ Unclaimed
    BY DEF PublishInv
<1>2. /\ pc[p] = "nack" /\ Return(p, res, FALSE)
      /\ UNCHANGED <<cur, frames, closed, gen, client, cancels>>
    BY DEF Judge
<1>3. pc[p] \in Flight /\ pc[p] # "wait"
    BY <1>2 DEF Flight
<1>4. c \in DOMAIN pubs /\ pubs[c].answer = "nack" /\ pubs[c].result = "none"
    BY <1>1, <1>2, <1>3 DEF Writers
<1>5. res \in Result \ {"none"} /\ UNCHANGED <<cur, frames, closed, gen, retGen>>
    BY <1>2 DEF Result, client
<1>6. pubs[c].fate = "refused" \/ sent \in closed
    BY <1>1, <1>4 DEF WireInv, AnswerTrue
<1>7. res = "refused" => pubs[c].fate = "refused"
    BY <1>6
<1>8. res # "routed" /\ res # "unrouted"
    OBVIOUS
<1> HIDE DEF res
<1>9. /\ pubs' \in Seq(Pub) /\ pc' \in [Publishers -> {"idle", "slot"} \cup Flight]
      /\ MsgsKept /\ DOMAIN pubs' = DOMAIN pubs
      /\ \A n \in DOMAIN pubs : pubs'[n].answer = pubs[n].answer
      /\ \A n \in DOMAIN pubs : n # c => pubs'[n] = pubs[n]
      /\ pubs'[c].result = res /\ pubs'[c].swapped = FALSE
      /\ WireInv' /\ Connections' /\ Writers' /\ Slots'
    BY <1>2, <1>3, <1>5, Settled
<1> HIDE DEF c, sent
<1>10. PubTypeOK'
    BY <1>1, <1>2, <1>9 DEF PubTypeOK, client
<1>11. FiledInv'
    <2>1. ReturnsTrue'
        BY <1>1, <1>2, <1>9, InOrderKept DEF FiledInv, ReturnsTrue, client
    <2>2. SeenTrue'
        BY <1>1, <1>2, <1>9, InOrderKept DEF FiledInv, SeenTrue, client
    <2>3. KeysTrue'
        BY <1>1, <1>2, <1>9 DEF FiledInv, KeysTrue, client, MsgsKept
    <2> QED
        BY <2>1, <2>2, <2>3 DEF FiledInv
<1>12. ReturnKept'
    <2>1. \A n \in DOMAIN pubs : Crowded(n) => Crowded(n)'
        BY <1>1, <1>9, <1>10, CrowdedKept
    <2>2. \A n \in DOMAIN pubs : pubs'[n].result = "none" => pubs'[n] = pubs[n]
        BY <1>5, <1>9
    <2> QED
        BY <1>1, <1>2, <1>9, <2>1, <2>2 DEF ReturnKept, client
<1>13. Unhurried'
    <2>1. \A n \in DOMAIN pubs : pubs'[n].answer = "none" => n # c
        BY <1>4, <1>9
    <2>2. \A n \in DOMAIN pubs : pubs'[n].result = "none" => n # c
        BY <1>5, <1>9
    <2> QED
        BY <1>1, <1>2, <1>9, <2>1, <2>2 DEF Unhurried
<1>14. Unclaimed'
    <2> SUFFICES ASSUME cancels' = 0, \A n \in DOMAIN pubs' : ~pubs'[n].swapped,
                        NEW g \in Gens \ closed', NEW i \in DOMAIN returns'[g]
                 PROVE  pubs'[returns'[g][i]].result = "none"
        BY DEF Unclaimed
    <2>1. c \in DOMAIN pubs /\ \A n \in DOMAIN pubs : n # c => ~pubs[n].swapped
        BY <1>4, <1>9
    <2>2. returns' = returns /\ cancels = 0 /\ g \in Gens \ closed /\ i \in DOMAIN returns[g]
        BY <1>2 DEF client
    <2> DEFINE n == returns[g][i]
    <2>3. n \in DOMAIN pubs /\ pubs[n].gen = g /\ pubs[n].fate = "unrouted"
        BY <1>1, <2>2 DEF FiledInv, ReturnsTrue, InOrder
    <2>4. n # c
        BY <1>6, <2>2, <2>3 DEF sent
    <2>5. ~pubs[c].swapped
        BY <1>1, <1>4 DEF Unhurried
    <2>6. pubs[n].result = "none"
        BY <1>1, <2>1, <2>2, <2>5 DEF Unclaimed
    <2> QED
        BY <1>9, <2>2, <2>3, <2>4, <2>6
<1>15. ReportedTruly'
    <2>1. ASSUME NEW n \in DOMAIN pubs, n # c
          PROVE  /\ pubs'[n].result \in {"unrouted", "refused"} => pubs'[n].fate = pubs'[n].result
                 /\ pubs'[n].result = "routed" /\ ~pubs'[n].swapped /\ ~Crowded(n)' =>
                      pubs'[n].fate = "routed"
        BY <1>9, <1>10, <2>1, OthersTrue
    <2>2. pubs'[c].result = "refused" => pubs'[c].fate = "refused"
        BY <1>4, <1>7, <1>9 DEF MsgsKept
    <2>3. pubs'[c].result # "routed" /\ pubs'[c].result # "unrouted"
        BY <1>8, <1>9
    <2> QED
        BY <1>9, <2>1, <2>2, <2>3 DEF ReportedTruly
<1> QED
    BY <1>9, <1>10, <1>11, <1>12, <1>13, <1>14, <1>15 DEF PublishInv

\* takeReturn.
LEMMA TakeReturnStep ==
    ASSUME PublishInv, NEW p \in Publishers, TakeReturn(p)
    PROVE  PublishInv'
<1> DEFINE c == cur[p]
           D == Drained.keys
           res == IF c \in D THEN "unrouted" ELSE "routed"
           sw == retGen # pubs[c].gen
<1>1. /\ PubTypeOK /\ FiledInv /\ ReturnKept /\ Writers /\ WireInv /\ Unhurried /\ Unclaimed
    BY DEF PublishInv
<1>2. /\ pc[p] = "ack" /\ Return(p, res, sw)
      /\ returns' = [returns EXCEPT ![retGen] = <<>>]
      /\ returned' = D \ {c} /\ seen' = Drained.seen
      /\ UNCHANGED <<cur, frames, closed, gen, retGen, cancels>>
    BY DEF TakeReturn
<1>3. pc[p] \in Flight /\ pc[p] # "wait"
    BY <1>2 DEF Flight
<1>4. c \in DOMAIN pubs /\ pubs[c].answer = "ack" /\ pubs[c].result = "none"
    BY <1>1, <1>2, <1>3 DEF Writers
<1>5. res \in Result \ {"none"} /\ sw \in BOOLEAN
    BY DEF Result
<1>6. /\ Drained.seen \in Seq(Nat) /\ InOrder(pubs, Drained.seen, retGen)
      /\ Before(Drained.seen, frames[retGen])
    BY <1>1, SeenAfter
<1>7. /\ \A n \in returned : n \in D \/ Crowded(n)
      /\ \A n : Has(returns[retGen], n) => n \in D \/ Crowded(n)
      /\ \A n \in D : n \in DOMAIN pubs /\ pubs[n].fate = "unrouted"
      /\ D \subseteq Nat
    BY <1>1, KeysAfter
<1>8. c \notin D /\ ~sw => pubs[c].fate = "routed" \/ Crowded(c)
    <2> SUFFICES ASSUME c \notin D, retGen = pubs[c].gen, pubs[c].fate # "routed"
                 PROVE  Crowded(c)
        OBVIOUS
    <2>1. pubs[c].fate # "refused"
        BY <1>1, <1>4 DEF WireInv, AnswerTrue
    <2>2. pubs[c].fate = "unrouted"
        BY <1>1, <1>4, <2>1, PubsAre DEF Pub, Fates
    <2>3. ~ReturnIn(frames[retGen], c)
        BY <1>1, <1>4 DEF WireInv, FramesTrue, FrameTrue, ReturnIn, PubTypeOK
    <2>4. pubs[c].gen >= retGen /\ pubs[c].answer # "nack"
        BY <1>1, <1>4, SMT DEF PubTypeOK, Gens
    <2>5. Has(returns[retGen], c) \/ c \in returned \/ Crowded(c)
        BY <1>1, <1>4, <2>2, <2>3, <2>4 DEF ReturnKept
    <2> QED
        BY <1>7, <2>5
<1>9. res = "unrouted" => pubs[c].fate = "unrouted"
    BY <1>7
<1>10. res # "refused" /\ (res = "routed" => c \notin D)
    OBVIOUS
<1> HIDE DEF res, sw
<1>11. /\ pubs' \in Seq(Pub) /\ pc' \in [Publishers -> {"idle", "slot"} \cup Flight]
       /\ MsgsKept /\ DOMAIN pubs' = DOMAIN pubs
       /\ \A n \in DOMAIN pubs : pubs'[n].answer = pubs[n].answer
       /\ \A n \in DOMAIN pubs : n # c => pubs'[n] = pubs[n]
       /\ pubs'[c].result = res /\ pubs'[c].swapped = sw
       /\ WireInv' /\ Connections' /\ Writers' /\ Slots'
    BY <1>2, <1>3, <1>5, Settled, SMT
<1> HIDE DEF c, D
<1>12. returns' \in [Gens -> Seq(Nat)] /\ retGen \in Gens
    <2>1. <<>> \in Seq(Nat)
        BY EmptySeq
    <2> QED
        BY <1>1, <1>2, <2>1 DEF PubTypeOK
<1>13. returns'[retGen] = <<>> /\ \A g \in Gens : g # retGen => returns'[g] = returns[g]
    BY <1>1, <1>2, <1>12 DEF PubTypeOK
<1>14. PubTypeOK'
    <2>1. returned' \in SUBSET Nat /\ seen' \in Seq(Nat)
        BY <1>2, <1>6, <1>7
    <2> QED
        BY <1>1, <1>2, <1>11, <1>12, <2>1 DEF PubTypeOK
<1>15. DOMAIN returns'[retGen] = {}
    BY <1>13, SMT
<1>16. FiledInv'
    <2>1. ASSUME NEW g \in Gens
          PROVE  InOrder(pubs', returns'[g], g) /\ Before(returns'[g], frames[g])
        <3>1. CASE g = retGen
            BY <1>15, <3>1 DEF InOrder, Before
        <3>2. CASE g # retGen
            BY <1>1, <1>11, <1>13, <3>2, InOrderKept DEF FiledInv, ReturnsTrue
        <3> QED
            BY <3>1, <3>2
    <2>2. ReturnsTrue'
        BY <1>2, <2>1 DEF ReturnsTrue
    <2>3. SeenTrue'
        BY <1>2, <1>6, <1>11, <1>15, InOrderKept DEF SeenTrue
    <2>4. KeysTrue'
        BY <1>2, <1>7, <1>11 DEF KeysTrue, MsgsKept
    <2> QED
        BY <2>2, <2>3, <2>4 DEF FiledInv
<1>17. \A n \in DOMAIN pubs : Crowded(n) => Crowded(n)'
    BY <1>1, <1>11, <1>14, CrowdedKept
<1>18. ReturnKept'
    <2> SUFFICES ASSUME NEW n \in DOMAIN pubs', pubs'[n].fate = "unrouted",
                        pubs'[n].result = "none", pubs'[n].answer # "nack",
                        pubs'[n].gen >= retGen'
                 PROVE  \/ ReturnIn(frames'[pubs'[n].gen], n)
                        \/ Has(returns'[pubs'[n].gen], n)
                        \/ pubs'[n].gen = retGen' /\ (n \in returned' \/ Crowded(n)')
        BY DEF ReturnKept
    <2> DEFINE g == pubs[n].gen
    <2>1. n \in DOMAIN pubs /\ n # c /\ pubs'[n] = pubs[n]
        BY <1>5, <1>11
    <2>2. g \in Gens
        BY <1>1, <2>1, PubsAre DEF Pub
    <2>3. \/ ReturnIn(frames[g], n) \/ Has(returns[g], n)
          \/ g = retGen /\ (n \in returned \/ Crowded(n))
        BY <1>1, <1>2, <2>1 DEF ReturnKept
    <2>4. CASE g # retGen
        BY <1>2, <1>13, <2>1, <2>2, <2>3, <2>4
    <2>5. CASE g = retGen
        <3>1. ReturnIn(frames[g], n) \/ n \in D \/ Crowded(n)
            BY <1>7, <2>3, <2>5
        <3> QED
            BY <1>2, <1>17, <2>1, <2>5, <3>1
    <2> QED
        BY <2>4, <2>5
<1>19. Unhurried'
    <2>1. \A n \in DOMAIN pubs : pubs'[n].answer = "none" => n # c
        BY <1>4, <1>11
    <2>2. \A n \in DOMAIN pubs : pubs'[n].result = "none" => n # c
        BY <1>5, <1>11
    <2> QED
        BY <1>1, <1>2, <1>11, <2>1, <2>2 DEF Unhurried
<1>20. Unclaimed'
    <2> SUFFICES ASSUME cancels' = 0, \A n \in DOMAIN pubs' : ~pubs'[n].swapped,
                        NEW g \in Gens \ closed', NEW i \in DOMAIN returns'[g]
                 PROVE  pubs'[returns'[g][i]].result = "none"
        BY DEF Unclaimed
    <2>1. g # retGen
        BY <1>15
    <2>2. returns'[g] = returns[g] /\ cancels = 0 /\ g \in Gens \ closed /\ i \in DOMAIN returns[g]
        BY <1>2, <1>13, <2>1
    <2>3. ~sw /\ retGen = pubs[c].gen
        BY <1>4, <1>11 DEF sw
    <2>4. \A n \in DOMAIN pubs : ~pubs[n].swapped
        BY <1>1, <1>4, <1>11 DEF Unhurried
    <2> DEFINE n == returns[g][i]
    <2>5. n \in DOMAIN pubs /\ pubs[n].gen = g
        BY <1>1, <2>2 DEF FiledInv, ReturnsTrue, InOrder
    <2>6. n # c
        BY <2>1, <2>3, <2>5
    <2>7. pubs[n].result = "none"
        BY <1>1, <2>2, <2>4 DEF Unclaimed
    <2> QED
        BY <1>11, <2>2, <2>5, <2>6, <2>7
<1>21. ReportedTruly'
    <2>1. ASSUME NEW n \in DOMAIN pubs, n # c
          PROVE  /\ pubs'[n].result \in {"unrouted", "refused"} => pubs'[n].fate = pubs'[n].result
                 /\ pubs'[n].result = "routed" /\ ~pubs'[n].swapped /\ ~Crowded(n)' =>
                      pubs'[n].fate = "routed"
        BY <1>11, <1>14, <2>1, OthersTrue
    <2>2. pubs'[c].fate = pubs[c].fate
        BY <1>4, <1>11 DEF MsgsKept
    <2>3. pubs'[c].result = res /\ pubs'[c].swapped = sw
        BY <1>11
    <2>4. pubs'[c].result \in {"unrouted", "refused"} => pubs'[c].fate = pubs'[c].result
        BY ONLY <1>9, <1>10, <2>2, <2>3, Zenon
    <2>5. ASSUME NEW n \in DOMAIN pubs, n = c
          PROVE  pubs'[n].result = "routed" /\ ~pubs'[n].swapped /\ ~Crowded(n)' =>
                   pubs'[n].fate = "routed"
        <3>1. Crowded(c) => Crowded(n)
            BY <2>5
        <3> QED
            BY ONLY <1>8, <1>10, <1>17, <2>2, <2>3, <2>5, <3>1, Zenon
    <2> QED
        BY <1>11, <2>1, <2>4, <2>5 DEF ReportedTruly
<1> QED
    BY <1>11, <1>14, <1>16, <1>18, <1>19, <1>20, <1>21 DEF PublishInv

-----------------------------------------------------------------------------
(* A message is written *)

\* send.
LEMMA SendStep ==
    ASSUME PublishInv, NEW p \in Publishers, NEW fate \in Fates, Send(p, fate)
    PROVE  PublishInv'
<1> DEFINE n == Len(pubs) + 1
           m == [gen |-> gen, fate |-> fate, answer |-> "none", result |-> "none",
                 swapped |-> FALSE]
           fs == frames[gen]
           t == frames'[gen]
<1>1. /\ PubTypeOK /\ WireInv /\ FiledInv /\ ReturnKept /\ Writers /\ Slots
      /\ Unhurried /\ Unclaimed /\ Connections
    BY DEF PublishInv
<1>2. /\ pc[p] = "slot" /\ gen \notin closed
      /\ pubs' = Append(pubs, m) /\ frames' = [frames EXCEPT ![gen] = @ \o Answers(n, fate)]
      /\ cur' = [cur EXCEPT ![p] = n] /\ pc' = [pc EXCEPT ![p] = "wait"]
      /\ UNCHANGED <<closed, gen, client, cancels>>
    BY DEF Send
<1>3. /\ m \in Pub /\ m.gen = gen /\ m.fate = fate /\ m.answer = "none" /\ m.result = "none"
      /\ m.swapped = FALSE
    BY <1>1 DEF Pub, PubTypeOK, Answer, Result
<1>4. Len(pubs) \in Nat /\ DOMAIN pubs = 1..Len(pubs) /\ pubs \in Seq(Pub)
    BY <1>1, PubsAre DEF PubTypeOK
<1>5. n \in Nat /\ \A k \in DOMAIN pubs : k < n /\ k # n
    BY <1>4, SMT
<1> HIDE DEF m
<1>6. /\ pubs' \in Seq(Pub) /\ n \in DOMAIN pubs' /\ pubs'[n] = m
      /\ \A k \in DOMAIN pubs : k \in DOMAIN pubs' /\ pubs'[k] = pubs[k]
      /\ \A k \in DOMAIN pubs' : k \in DOMAIN pubs \/ k = n
    BY <1>2, <1>3, <1>4, AppendIs, SMT
<1> HIDE DEF n
<1>7. gen \in Gens /\ fs \in Seq(Frame) /\ frames \in [Gens -> Seq(Frame)]
    BY <1>1 DEF PubTypeOK
<1>8. t = fs \o Answers(n, fate) /\ \A g \in Gens : g # gen => frames'[g] = frames[g]
    BY <1>2, <1>7
<1> HIDE DEF t, fs
<1>9. Sends(t, fs, n, fate)
    BY <1>5, <1>7, <1>8, SentIs
<1>10. frames' \in [Gens -> Seq(Frame)]
    BY <1>2, <1>7, <1>8, <1>9 DEF t, fs, Sends
<1>11. \A q \in Publishers : /\ pc'[q] = IF q = p THEN "wait" ELSE pc[q]
                             /\ cur'[q] = IF q = p THEN n ELSE cur[q]
    BY <1>1, <1>2 DEF PubTypeOK
<1>12. PubTypeOK'
    <2>1. cur' \in [Publishers -> Nat]
        BY <1>1, <1>2, <1>5 DEF PubTypeOK
    <2>2. pc' \in [Publishers -> {"idle", "slot"} \cup Flight]
        BY <1>1, <1>2 DEF PubTypeOK, Flight
    <2> QED
        BY <1>1, <1>2, <1>6, <1>10, <2>1, <2>2 DEF PubTypeOK, client
<1>13. Connections'
    BY <1>1, <1>2 DEF Connections, client
<1>14. MsgsKept
    BY <1>6 DEF MsgsKept
<1>15. FramesTrue'
    <2> SUFFICES ASSUME NEW g \in Gens, NEW i \in DOMAIN frames'[g]
                 PROVE  g \notin closed /\ FrameTrue(pubs', frames'[g][i], g)
        BY <1>2 DEF FramesTrue
    <2>1. ASSUME NEW j \in DOMAIN frames[g], frames'[g][i] = frames[g][j]
          PROVE  g \notin closed /\ FrameTrue(pubs', frames'[g][i], g)
        <3>1. g \notin closed /\ FrameTrue(pubs, frames[g][j], g)
            BY <1>1 DEF WireInv, FramesTrue
        <3> QED
            BY <1>6, <2>1, <3>1 DEF FrameTrue
    <2>2. CASE g # gen
        BY <1>8, <2>1, <2>2
    <2>3. CASE g = gen /\ i \in DOMAIN fs
        BY <1>9, <2>1, <2>3 DEF t, fs, Sends
    <2>4. CASE g = gen /\ i \notin DOMAIN fs
        <3>1. frames'[g][i] = t[i] /\ i \in DOMAIN t
            BY <2>4 DEF t
        <3>2. /\ t[i].n = n
              /\ t[i].kind = "return" => fate = "unrouted"
              /\ t[i].kind = "ack" => fate # "refused"
              /\ t[i].kind = "nack" => fate = "refused"
            BY <1>9, <2>4, <3>1 DEF Sends
        <3>3. /\ n \in DOMAIN pubs' /\ pubs'[n].gen = g /\ pubs'[n].answer = "none"
              /\ pubs'[n].fate = fate /\ g \notin closed
            BY <1>2, <1>3, <1>6, <2>4
        <3> QED
            BY ONLY <3>1, <3>2, <3>3, Zenon DEF FrameTrue
    <2> QED
        BY <2>2, <2>3, <2>4
<1>16. FramesInOrder'
    <2> SUFFICES ASSUME NEW g \in Gens, NEW i \in DOMAIN frames'[g], NEW j \in DOMAIN frames'[g],
                        i < j
                 PROVE  Follows(frames'[g][i], frames'[g][j])
        BY DEF FramesInOrder
    <2>1. CASE g # gen
        BY <1>1, <1>8, <2>1 DEF WireInv, FramesInOrder
    <2>2. CASE g = gen /\ j \in DOMAIN fs
        BY <1>1, <1>9, <2>2 DEF WireInv, FramesInOrder, t, fs, Sends
    <2>3. CASE g = gen /\ j \notin DOMAIN fs /\ i \in DOMAIN fs
        <3>1. fs[i].n \in DOMAIN pubs
            BY <1>1, <1>7, <2>3 DEF WireInv, FramesTrue, FrameTrue, fs
        <3>2. t[i] = fs[i] /\ t[j].n = n
            BY <1>9, <2>3 DEF t, Sends
        <3> QED
            BY <1>5, <2>3, <3>1, <3>2 DEF Follows, t
    <2>4. CASE g = gen /\ j \notin DOMAIN fs /\ i \notin DOMAIN fs
        <3>1. t[i].n = n /\ t[j].n = n /\ t[i].kind = "return" /\ t[j].kind # "return"
            BY <1>9, <2>4 DEF t, Sends
        <3> QED
            BY <2>4, <3>1 DEF Follows, t
    <2> QED
        BY <2>1, <2>2, <2>3, <2>4
<1>17. \A g \in Gens : \A k : /\ ConfirmIn(frames[g], k) => ConfirmIn(frames'[g], k)
                              /\ ReturnIn(frames[g], k) => ReturnIn(frames'[g], k)
    <2> SUFFICES ASSUME NEW g \in Gens
                 PROVE  \A i \in DOMAIN frames[g] : i \in DOMAIN frames'[g] /\ frames'[g][i] = frames[g][i]
        BY DEF ConfirmIn, ReturnIn
    <2> QED
        BY <1>8, <1>9 DEF t, fs, Sends
<1>18. \A k \in DOMAIN pubs : pubs[k].gen \in Gens
    BY <1>1, PubsAre DEF Pub
<1>19. AnswerSent'
    <2>1. ConfirmIn(frames'[gen], n)
        BY <1>9 DEF ConfirmIn, t, Sends
    <2>2. ASSUME NEW k \in DOMAIN pubs, pubs[k].answer = "none"
          PROVE  ConfirmIn(frames'[pubs[k].gen], k)
        BY <1>1, <1>17, <1>18, <2>2 DEF WireInv, AnswerSent
    <2>3. pubs'[n].gen = gen /\ \A k \in DOMAIN pubs : pubs'[k] = pubs[k]
        BY <1>3, <1>6
    <2>4. \A k \in DOMAIN pubs' : pubs'[k].answer = "none" => ConfirmIn(frames'[pubs'[k].gen], k)
        BY <1>6, <2>1, <2>2, <2>3
    <2> QED
        BY <2>4 DEF AnswerSent
<1>20. AnswerTrue'
    <2>1. pubs'[n].answer # "ack" /\ pubs'[n].answer # "nack"
        BY <1>3, <1>6
    <2> QED
        BY <1>1, <1>2, <1>6, <2>1 DEF WireInv, AnswerTrue
<1>21. ASSUME NEW s, NEW g \in Gens, InOrder(pubs, s, g), Before(s, frames[g])
       PROVE  InOrder(pubs', s, g) /\ Before(s, frames'[g])
    <2>1. ASSUME NEW i \in DOMAIN s, NEW j \in DOMAIN frames'[g], frames'[g][j].kind = "return"
          PROVE  s[i] < frames'[g][j].n
        <3>1. CASE j \in DOMAIN frames[g] /\ frames'[g][j] = frames[g][j]
            BY <1>21, <2>1, <3>1 DEF Before
        <3>2. CASE frames'[g][j].n = n
            BY <1>5, <1>21, <3>2 DEF InOrder
        <3> QED
            BY <1>8, <1>9, <3>1, <3>2 DEF t, fs, Sends
    <2> QED
        BY <1>14, <1>21, <2>1, InOrderKept DEF Before
<1>22. FiledInv'
    <2>1. ReturnsTrue'
        BY <1>1, <1>2, <1>21 DEF FiledInv, ReturnsTrue, client
    <2>2. SeenTrue'
        BY <1>1, <1>2, <1>21 DEF FiledInv, SeenTrue, client, PubTypeOK
    <2>3. KeysTrue'
        BY <1>1, <1>2, <1>6 DEF FiledInv, KeysTrue, client
    <2> QED
        BY <2>1, <2>2, <2>3 DEF FiledInv
<1>23. \A k \in DOMAIN pubs : Crowded(k) => Crowded(k)'
    BY <1>1, <1>12, <1>14, CrowdedKept
<1>24. ReturnKept'
    <2>1. fate = "unrouted" => ReturnIn(frames'[gen], n)
        BY <1>9 DEF ReturnIn, t, Sends
    <2>2. pubs'[n].fate = "unrouted" => ReturnIn(frames'[pubs'[n].gen], n)
        BY <1>3, <1>6, <2>1
    <2>3. ASSUME NEW k \in DOMAIN pubs, pubs[k].fate = "unrouted", pubs[k].result = "none",
                 pubs[k].answer # "nack", pubs[k].gen >= retGen
          PROVE  \/ ReturnIn(frames'[pubs[k].gen], k)
                 \/ Has(returns[pubs[k].gen], k)
                 \/ pubs[k].gen = retGen /\ (k \in returned \/ Crowded(k)')
        <3>1. \/ ReturnIn(frames[pubs[k].gen], k) \/ Has(returns[pubs[k].gen], k)
              \/ pubs[k].gen = retGen /\ (k \in returned \/ Crowded(k))
            BY <1>1, <2>3 DEF ReturnKept
        <3>2. ReturnIn(frames[pubs[k].gen], k) => ReturnIn(frames'[pubs[k].gen], k)
            BY <1>17, <1>18
        <3>3. Crowded(k) => Crowded(k)'
            BY <1>23
        <3> QED
            BY ONLY <3>1, <3>2, <3>3, Zenon
    <2> QED
        BY <1>2, <1>6, <2>2, <2>3 DEF ReturnKept, client
<1>25. Writers'
    <2>0. "wait" \in Flight /\ "slot" \notin Flight
        BY DEF Flight
    <2>1. \A q \in Publishers : q # p =>
            pc'[q] = pc[q] /\ cur'[q] = cur[q] /\ (pc[q] \in Flight => cur[q] \in DOMAIN pubs)
        BY <1>1, <1>11 DEF Writers
    <2>2. pc'[p] = "wait" /\ cur'[p] = n
        BY <1>11
    <2>3. ASSUME NEW q \in Publishers, pc'[q] \in Flight
          PROVE  /\ cur'[q] \in DOMAIN pubs' /\ pubs'[cur'[q]].result = "none"
                 /\ pc'[q] # "wait" => pubs'[cur'[q]].answer = pc'[q]
        <3>1. CASE q = p
            BY <1>3, <1>6, <2>2, <3>1
        <3>2. CASE q # p
            <4>1. /\ pc'[q] = pc[q] /\ cur'[q] = cur[q] /\ cur[q] \in DOMAIN pubs
                  /\ pubs[cur[q]].result = "none"
                  /\ pc[q] # "wait" => pubs[cur[q]].answer = pc[q]
                BY <1>1, <2>1, <2>3, <3>2 DEF Writers
            <4> QED
                BY <1>6, <4>1
        <3> QED
            BY <3>1, <3>2
    <2>4. ASSUME NEW q \in Publishers, NEW r \in Publishers,
                 pc'[q] \in Flight, pc'[r] \in Flight, cur'[q] = cur'[r]
          PROVE  q = r
        <3>1. CASE q # p /\ r # p
            BY <1>1, <2>1, <2>4, <3>1 DEF Writers
        <3>2. CASE q = p /\ r # p
            BY <1>5, <2>1, <2>2, <2>4, <3>2
        <3>3. CASE q # p /\ r = p
            BY <1>5, <2>1, <2>2, <2>4, <3>3
        <3> QED
            BY <3>1, <3>2, <3>3
    <2>5. ASSUME NEW k \in DOMAIN pubs', pubs'[k].result = "none"
          PROVE  \E q \in Publishers : pc'[q] \in Flight /\ cur'[q] = k
        <3>1. CASE k = n
            BY <2>0, <2>2, <3>1
        <3>2. CASE k \in DOMAIN pubs
            <4>1. PICK q \in Publishers : pc[q] \in Flight /\ cur[q] = k
                BY <1>1, <1>6, <2>5, <3>2 DEF Writers
            <4>2. q # p
                BY <1>2, <2>0, <4>1
            <4> QED
                BY <2>1, <4>1, <4>2
        <3> QED
            BY <1>6, <3>1, <3>2
    <2> QED
        BY <2>3, <2>4, <2>5 DEF Writers
<1>26. Slots'
    <2>1. Holders' \subseteq Holders
        BY <1>2, <1>11 DEF Holders
    <2> QED
        BY <1>1, <2>1, FewerHolders
<1>27. Unhurried'
    BY <1>1, <1>2, <1>3, <1>6 DEF Unhurried
<1>28. Unclaimed'
    <2>1. \A g \in Gens : \A i \in DOMAIN returns[g] : returns[g][i] \in DOMAIN pubs
        BY <1>1 DEF FiledInv, ReturnsTrue, InOrder
    <2> QED
        BY <1>1, <1>2, <1>6, <2>1, SMT DEF Unclaimed, client
<1>29. ReportedTruly'
    <2>1. ASSUME NEW k \in DOMAIN pubs
          PROVE  /\ pubs'[k].result \in {"unrouted", "refused"} => pubs'[k].fate = pubs'[k].result
                 /\ pubs'[k].result = "routed" /\ ~pubs'[k].swapped /\ ~Crowded(k)' =>
                      pubs'[k].fate = "routed"
        BY <1>6, <1>12, <1>14, OthersTrue
    <2>2. pubs'[n].result \notin {"unrouted", "refused", "routed"}
        BY <1>3, <1>6
    <2> QED
        BY <1>6, <2>1, <2>2 DEF ReportedTruly
<1>30. WireInv'
    BY <1>15, <1>16, <1>19, <1>20 DEF WireInv
<1> QED
    BY <1>12, <1>13, <1>22, <1>24, <1>25, <1>26, <1>27, <1>28, <1>29, <1>30 DEF PublishInv

-----------------------------------------------------------------------------
(* The client's one reader *)

\* A frame that is read is the first; what follows it stays in order.
LEMMA FrameRead ==
    ASSUME PublishInv, NEW g \in Gens, frames[g] # <<>>,
           frames' = [frames EXCEPT ![g] = Tail(@)]
    PROVE  /\ frames' \in [Gens -> Seq(Frame)]
           /\ 1 \in DOMAIN frames[g] /\ Head(frames[g]) = frames[g][1]
           /\ FrameTrue(pubs, frames[g][1], g)
           /\ \A h \in Gens : h # g => frames'[h] = frames[h]
           /\ \A h \in Gens : \A i \in DOMAIN frames'[h] :
                \E j \in DOMAIN frames[h] : frames'[h][i] = frames[h][j]
           /\ \A j \in DOMAIN frames[g] : j # 1 =>
                \E i \in DOMAIN frames'[g] : frames'[g][i] = frames[g][j]
           /\ \A i \in DOMAIN frames'[g] : Follows(frames[g][1], frames'[g][i])
           /\ FramesInOrder'
<1> DEFINE fs == frames[g]
           t == frames'[g]
<1>1. PubTypeOK /\ WireInv /\ frames \in [Gens -> Seq(Frame)] /\ fs \in Seq(Frame)
    BY DEF PublishInv, PubTypeOK
<1>2. t = Tail(fs) /\ \A h \in Gens : h # g => frames'[h] = frames[h]
    BY <1>1
<1>3. /\ 1 \in DOMAIN fs /\ Head(fs) = fs[1] /\ Tail(fs) \in Seq(Frame)
      /\ \A i \in DOMAIN Tail(fs) : i + 1 \in DOMAIN fs /\ 1 < i + 1 /\ Tail(fs)[i] = fs[i + 1]
      /\ \A j \in DOMAIN fs : j # 1 => j - 1 \in DOMAIN Tail(fs) /\ Tail(fs)[j - 1] = fs[j]
      /\ \A i, j \in DOMAIN Tail(fs) : i < j => i + 1 < j + 1
    BY <1>1, TailIs
<1>4. frames' \in [Gens -> Seq(Frame)]
    BY <1>1, <1>2, <1>3
<1>5. FrameTrue(pubs, fs[1], g)
    BY <1>1, <1>3 DEF WireInv, FramesTrue
<1> HIDE DEF fs, t
<1>6. /\ \A i \in DOMAIN t : i + 1 \in DOMAIN fs /\ 1 < i + 1 /\ t[i] = fs[i + 1]
      /\ \A j \in DOMAIN fs : j # 1 => j - 1 \in DOMAIN t /\ t[j - 1] = fs[j]
      /\ \A i, j \in DOMAIN t : i < j => i + 1 < j + 1
    BY <1>2, <1>3
<1>7. \A i, j \in DOMAIN fs : i < j => Follows(fs[i], fs[j])
    BY <1>1 DEF WireInv, FramesInOrder, fs
<1>8. \A i \in DOMAIN t : Follows(fs[1], t[i])
    BY <1>3, <1>6, <1>7
<1>9. \A i, j \in DOMAIN t : i < j => Follows(t[i], t[j])
    BY <1>6, <1>7
<1>10. FramesInOrder'
    <2>1. \A h \in Gens : h # g =>
            \A i, j \in DOMAIN frames'[h] : i < j => Follows(frames'[h][i], frames'[h][j])
        BY <1>1, <1>2 DEF WireInv, FramesInOrder
    <2> QED
        BY <1>9, <2>1 DEF FramesInOrder, t
<1>11. \A i \in DOMAIN t : \E j \in DOMAIN fs : t[i] = fs[j]
    BY <1>6
<1>12. \A h \in Gens : \A i \in DOMAIN frames'[h] :
         \E j \in DOMAIN frames[h] : frames'[h][i] = frames[h][j]
    BY <1>2, <1>11, SMT DEF t, fs
<1>13. \A j \in DOMAIN fs : j # 1 => \E i \in DOMAIN t : t[i] = fs[j]
    BY <1>6
<1> QED
    BY <1>2, <1>3, <1>4, <1>5, <1>8, <1>10, <1>12, <1>13 DEF fs, t

\* What the returns of s came before they still come before.
LEMMA BeforeRead ==
    ASSUME NEW s, NEW fs, NEW t, Before(s, fs),
           \A i \in DOMAIN t : \E j \in DOMAIN fs : t[i] = fs[j]
    PROVE  Before(s, t)
<1> SUFFICES ASSUME NEW i \in DOMAIN s, NEW j \in DOMAIN t, t[j].kind = "return"
             PROVE  s[i] < t[j].n
    BY DEF Before
<1>1. PICK k \in DOMAIN fs : t[j] = fs[k]
    OBVIOUS
<1> QED
    BY <1>1 DEF Before

\* The client hands a return over.
LEMMA ReadReturnStep ==
    ASSUME PublishInv, NEW g \in Gens, ReadReturn(g)
    PROVE  PublishInv'
<1> DEFINE e == frames[g][1]
           r == returns[g]
           u == returns'[g]
<1>1. /\ PubTypeOK /\ WireInv /\ FiledInv /\ ReturnKept /\ Writers /\ Slots
      /\ Unhurried /\ Unclaimed /\ Connections /\ ReportedTruly
    BY DEF PublishInv
<1>2. /\ frames[g] # <<>> /\ Head(frames[g]).kind = "return"
      /\ returns' = [returns EXCEPT ![g] = Append(@, Head(frames[g]).n)]
      /\ frames' = [frames EXCEPT ![g] = Tail(@)]
      /\ UNCHANGED <<pc, cur, pubs, closed, gen, retGen, returned, seen, cancels>>
    BY DEF ReadReturn
<1>3. /\ frames' \in [Gens -> Seq(Frame)]
      /\ 1 \in DOMAIN frames[g] /\ Head(frames[g]) = e
      /\ FrameTrue(pubs, e, g)
      /\ \A h \in Gens : h # g => frames'[h] = frames[h]
      /\ \A h \in Gens : \A i \in DOMAIN frames'[h] :
           \E j \in DOMAIN frames[h] : frames'[h][i] = frames[h][j]
      /\ \A j \in DOMAIN frames[g] : j # 1 =>
           \E i \in DOMAIN frames'[g] : frames'[g][i] = frames[g][j]
      /\ \A i \in DOMAIN frames'[g] : Follows(e, frames'[g][i])
      /\ FramesInOrder'
    BY <1>2, FrameRead
<1>4. /\ e.kind = "return" /\ e.n \in DOMAIN pubs /\ pubs[e.n].gen = g
      /\ pubs[e.n].fate = "unrouted" /\ pubs[e.n].answer = "none"
    BY <1>2, <1>3 DEF FrameTrue
<1>5. e.n \in Nat /\ r \in Seq(Nat) /\ returns \in [Gens -> Seq(Nat)]
    BY <1>1, <1>4, PubsAre, SMT DEF PubTypeOK
<1> DEFINE n == e.n
<1>6. u = Append(r, n) /\ \A h \in Gens : h # g => returns'[h] = returns[h]
    BY <1>2, <1>3, <1>5
<1>7. Before(r, frames[g]) /\ InOrder(pubs, r, g)
    BY <1>1 DEF FiledInv, ReturnsTrue
<1>8. \A i \in DOMAIN r : r[i] < n
    BY <1>3, <1>4, <1>7 DEF Before
<1> HIDE DEF n, e, r, u
<1>9. /\ u \in Seq(Nat) /\ Len(r) + 1 \in DOMAIN u /\ u[Len(r) + 1] = n
      /\ \A i \in DOMAIN r : i \in DOMAIN u /\ u[i] = r[i]
      /\ \A j \in DOMAIN u : j \in DOMAIN r \/ j = Len(r) + 1
      /\ \A i, j \in DOMAIN u : i < j => i \in DOMAIN r
    BY <1>5, <1>6, AppendIs, SMT DEF n
<1>10. returns' \in [Gens -> Seq(Nat)]
    BY <1>2, <1>5, <1>6, <1>9 DEF u, r
<1>11. PubTypeOK' /\ Connections'
    BY <1>1, <1>2, <1>3, <1>10 DEF PubTypeOK, Connections
<1>12. WireInv'
    <2>1. FramesTrue'
        BY <1>1, <1>2, <1>3, SMT DEF WireInv, FramesTrue
    <2>2. AnswerSent'
        <3> SUFFICES ASSUME NEW k \in DOMAIN pubs, pubs[k].answer = "none"
                     PROVE  ConfirmIn(frames'[pubs[k].gen], k)
            BY <1>2 DEF AnswerSent
        <3>1. pubs[k].gen \in Gens
            BY <1>1, PubsAre DEF Pub
        <3>2. PICK i \in DOMAIN frames[pubs[k].gen] :
                frames[pubs[k].gen][i].n = k /\ frames[pubs[k].gen][i].kind # "return"
            BY <1>1 DEF WireInv, AnswerSent, ConfirmIn
        <3>3. CASE pubs[k].gen = g
            <4>1. i # 1
                BY <1>4, <3>2, <3>3 DEF e
            <4> QED
                BY <1>3, <3>2, <3>3, <4>1, SMT DEF ConfirmIn
        <3>4. CASE pubs[k].gen # g
            BY <1>3, <3>1, <3>2, <3>4 DEF ConfirmIn
        <3> QED
            BY <3>3, <3>4
    <2>3. AnswerTrue'
        BY <1>1, <1>2 DEF WireInv, AnswerTrue
    <2> QED
        BY <1>3, <2>1, <2>2, <2>3 DEF WireInv
<1>13. ASSUME NEW s, NEW h \in Gens, Before(s, frames[h])
       PROVE  Before(s, frames'[h])
    BY <1>3, <1>13, BeforeRead, SMT
<1>14. InOrder(pubs, u, g) /\ Before(u, frames'[g])
    <2>1. \A j \in DOMAIN u : u[j] \in DOMAIN pubs /\ pubs[u[j]].gen = g /\ pubs[u[j]].fate = "unrouted"
        BY <1>4, <1>7, <1>9 DEF InOrder, n
    <2>2. ASSUME NEW i \in DOMAIN u, NEW j \in DOMAIN u, i < j
          PROVE  u[i] < u[j]
        <3>1. i \in DOMAIN r /\ u[i] = r[i]
            BY <1>9, <2>2
        <3>2. CASE j \in DOMAIN r
            BY <1>7, <1>9, <2>2, <3>1, <3>2 DEF InOrder
        <3>3. CASE j = Len(r) + 1
            BY <1>8, <1>9, <3>1, <3>3
        <3> QED
            BY <1>9, <3>2, <3>3
    <2>3. Before(r, frames'[g])
        BY <1>7, <1>13
    <2>4. \A j \in DOMAIN frames'[g] : frames'[g][j].kind = "return" => n < frames'[g][j].n
        BY <1>3 DEF Follows, n
    <2>5. Before(u, frames'[g])
        BY <1>9, <2>3, <2>4 DEF Before
    <2> QED
        BY <2>1, <2>2, <2>5 DEF InOrder
<1>15. FiledInv'
    <2>1. ReturnsTrue'
        <3>1. \A h \in Gens : h # g => InOrder(pubs, returns'[h], h) /\ Before(returns'[h], frames'[h])
            BY <1>1, <1>6, <1>13 DEF FiledInv, ReturnsTrue
        <3> QED
            BY <1>2, <1>14, <3>1 DEF ReturnsTrue, u
    <2>2. SeenTrue'
        <3>1. retGen \in Gens
            BY <1>1 DEF PubTypeOK
        <3>2. InOrder(pubs, seen, retGen) /\ Before(seen, frames'[retGen])
            BY <1>1, <1>13, <3>1 DEF FiledInv, SeenTrue
        <3>3. \A i \in DOMAIN seen, j \in DOMAIN returns[retGen] : seen[i] < returns[retGen][j]
            BY <1>1 DEF FiledInv, SeenTrue
        <3>4. CASE retGen # g
            BY <1>2, <1>6, <3>1, <3>2, <3>3, <3>4 DEF SeenTrue
        <3>5. CASE retGen = g
            <4>1. \A i \in DOMAIN seen : seen[i] < n
                BY <1>1, <1>3, <1>4, <3>5 DEF FiledInv, SeenTrue, Before, n, e
            <4>2. \A i \in DOMAIN seen, j \in DOMAIN u : seen[i] < u[j]
                BY <1>9, <3>3, <3>5, <4>1 DEF r
            <4> QED
                BY <1>2, <3>2, <3>5, <4>2 DEF SeenTrue, u
        <3> QED
            BY <3>4, <3>5
    <2>3. KeysTrue'
        BY <1>1, <1>2 DEF FiledInv, KeysTrue
    <2> QED
        BY <2>1, <2>2, <2>3 DEF FiledInv
<1>16. ReturnKept'
    <2> SUFFICES ASSUME NEW k \in DOMAIN pubs, pubs[k].fate = "unrouted",
                        pubs[k].result = "none", pubs[k].answer # "nack", pubs[k].gen >= retGen
                 PROVE  \/ ReturnIn(frames'[pubs[k].gen], k)
                        \/ Has(returns'[pubs[k].gen], k)
                        \/ pubs[k].gen = retGen /\ (k \in returned \/ Crowded(k))
        BY <1>2 DEF ReturnKept, Crowded
    <2>1. pubs[k].gen \in Gens
        BY <1>1, PubsAre DEF Pub
    <2>2. \/ ReturnIn(frames[pubs[k].gen], k) \/ Has(returns[pubs[k].gen], k)
          \/ pubs[k].gen = retGen /\ (k \in returned \/ Crowded(k))
        BY <1>1 DEF ReturnKept
    <2>3. CASE pubs[k].gen # g
        BY <1>3, <1>6, <2>1, <2>2, <2>3
    <2>4. CASE pubs[k].gen = g /\ Has(returns[g], k)
        <3>1. Has(u, k)
            BY <1>9, <2>4, SMT DEF Has, r
        <3> QED
            BY <2>4, <3>1 DEF u
    <2>5. CASE pubs[k].gen = g /\ ReturnIn(frames[g], k)
        <3>1. PICK i \in DOMAIN frames[g] : frames[g][i].n = k /\ frames[g][i].kind = "return"
            BY <2>5 DEF ReturnIn
        <3>2. CASE i = 1
            <4>1. Has(u, k)
                BY <1>9, <3>1, <3>2 DEF Has, n, e
            <4> QED
                BY <2>5, <4>1 DEF u
        <3>3. CASE i # 1
            <4>1. ReturnIn(frames'[g], k)
                BY <1>3, <3>1, <3>3 DEF ReturnIn
            <4> QED
                BY <2>5, <4>1
        <3> QED
            BY <3>2, <3>3
    <2> QED
        BY <2>2, <2>3, <2>4, <2>5
<1>17. Writers' /\ Unhurried'
    BY <1>1, <1>2 DEF Writers, Unhurried
<1>18. Slots'
    BY <1>1, <1>2 DEF Slots, Holders
<1>19. Unclaimed'
    <2> SUFFICES ASSUME cancels = 0, \A k \in DOMAIN pubs : ~pubs[k].swapped,
                        NEW h \in Gens \ closed, NEW i \in DOMAIN returns'[h]
                 PROVE  pubs[returns'[h][i]].result = "none"
        BY <1>2 DEF Unclaimed
    <2>1. \A j \in DOMAIN returns[h] : pubs[returns[h][j]].result = "none"
        BY <1>1 DEF Unclaimed
    <2>2. CASE h # g
        BY <1>6, <2>1, <2>2
    <2>3. CASE h = g
        <3>1. pubs[n].result = "none"
            BY <1>1, <1>4 DEF Unhurried, n
        <3> QED
            BY <1>9, <2>1, <2>3, <3>1 DEF u, r
    <2> QED
        BY <2>2, <2>3
<1>20. ReportedTruly'
    BY <1>1, <1>2 DEF ReportedTruly, Crowded
<1> QED
    BY <1>11, <1>12, <1>15, <1>16, <1>17, <1>18, <1>19, <1>20 DEF PublishInv

\* A confirm resolves the message it names.
LEMMA ReadConfirmStep ==
    ASSUME PublishInv, NEW g \in Gens, ReadConfirm(g)
    PROVE  PublishInv'
<1> DEFINE e == frames[g][1]
           c == frames[g][1].n
           m == [pubs[c] EXCEPT !.answer = e.kind]
<1>1. /\ PubTypeOK /\ WireInv /\ FiledInv /\ ReturnKept /\ Writers /\ Slots
      /\ Unhurried /\ Unclaimed /\ Connections /\ ReportedTruly
    BY DEF PublishInv
<1>2. /\ frames[g] # <<>> /\ Head(frames[g]).kind # "return"
      /\ pubs' = [pubs EXCEPT ![Head(frames[g]).n].answer = Head(frames[g]).kind]
      /\ frames' = [frames EXCEPT ![g] = Tail(@)]
      /\ UNCHANGED <<pc, cur, closed, gen, client, cancels>>
    BY DEF ReadConfirm
<1>3. /\ frames' \in [Gens -> Seq(Frame)]
      /\ 1 \in DOMAIN frames[g] /\ Head(frames[g]) = e
      /\ FrameTrue(pubs, e, g)
      /\ \A h \in Gens : h # g => frames'[h] = frames[h]
      /\ \A h \in Gens : \A i \in DOMAIN frames'[h] :
           \E j \in DOMAIN frames[h] : frames'[h][i] = frames[h][j]
      /\ \A j \in DOMAIN frames[g] : j # 1 =>
           \E i \in DOMAIN frames'[g] : frames'[g][i] = frames[g][j]
      /\ \A i \in DOMAIN frames'[g] : Follows(e, frames'[g][i])
      /\ FramesInOrder'
    BY <1>2, FrameRead
<1>4. /\ e.kind # "return" /\ c \in DOMAIN pubs /\ pubs[c].gen = g /\ pubs[c].answer = "none"
      /\ e.kind = "ack" => pubs[c].fate # "refused"
      /\ e.kind = "nack" => pubs[c].fate = "refused"
    BY <1>2, <1>3 DEF FrameTrue
<1>5. e.kind \in {"ack", "nack"}
    <2>1. frames[g] \in Seq(Frame)
        BY <1>1 DEF PubTypeOK
    <2>2. e \in Frame
        BY <1>3, <2>1, LenProperties
    <2> QED
        BY <1>4, <2>2 DEF Frame
<1>6. Len(pubs) \in Nat /\ DOMAIN pubs = 1..Len(pubs) /\ \A n \in DOMAIN pubs : pubs[n] \in Pub
    BY <1>1, PubsAre
<1>7. /\ m \in Pub /\ m.answer = e.kind /\ m.gen = pubs[c].gen /\ m.fate = pubs[c].fate
      /\ m.result = pubs[c].result /\ m.swapped = pubs[c].swapped
    BY <1>4, <1>5, <1>6 DEF Pub, Answer
<1>8. pubs' = [pubs EXCEPT ![c] = m]
    BY <1>2, <1>3, <1>4
<1> HIDE DEF e, c, m
<1>9. pubs' \in Seq(Pub) /\ DOMAIN pubs' = DOMAIN pubs
    BY <1>1, <1>4, <1>7, <1>8, ExceptSeq, SMT DEF PubTypeOK
<1>10. pubs'[c] = m /\ \A n \in DOMAIN pubs : n # c => pubs'[n] = pubs[n]
    BY <1>4, <1>8
<1>11. \A n \in DOMAIN pubs :
         /\ pubs'[n].gen = pubs[n].gen /\ pubs'[n].fate = pubs[n].fate
         /\ pubs'[n].result = pubs[n].result /\ pubs'[n].swapped = pubs[n].swapped
    BY <1>7, <1>10
<1>12. \A n \in DOMAIN pubs : pubs'[n].answer = "none" => n # c /\ pubs[n].answer = "none"
    BY <1>5, <1>7, <1>10
<1>13. MsgsKept
    BY <1>9, <1>11 DEF MsgsKept
<1>14. PubTypeOK' /\ Connections'
    BY <1>1, <1>2, <1>3, <1>9 DEF PubTypeOK, Connections, client
<1>15. WireInv'
    <2>1. FramesTrue'
        <3> SUFFICES ASSUME NEW h \in Gens, NEW i \in DOMAIN frames'[h]
                     PROVE  h \notin closed /\ FrameTrue(pubs', frames'[h][i], h)
            BY <1>2 DEF FramesTrue
        <3> DEFINE f == frames'[h][i]
        <3>1. h \notin closed /\ FrameTrue(pubs, f, h)
            BY <1>1, <1>3 DEF WireInv, FramesTrue
        <3>2. f.n # c
            <4>1. CASE h = g
                <5>1. c < f.n
                    BY <1>3, <1>4, <4>1 DEF Follows, c, e
                <5>2. c \in Nat /\ f.n \in Nat
                    BY <1>4, <1>6, <3>1, SMT DEF FrameTrue
                <5> QED
                    BY <5>1, <5>2, SMT
            <4>2. CASE h # g
                BY <1>4, <3>1, <4>2 DEF FrameTrue
            <4> QED
                BY <4>1, <4>2
        <3> QED
            BY <1>9, <1>10, <3>1, <3>2 DEF FrameTrue
    <2>2. AnswerSent'
        <3> SUFFICES ASSUME NEW k \in DOMAIN pubs, pubs'[k].answer = "none"
                     PROVE  ConfirmIn(frames'[pubs[k].gen], k)
            BY <1>9, <1>11 DEF AnswerSent
        <3>1. pubs[k].gen \in Gens /\ k # c /\ pubs[k].answer = "none"
            BY <1>6, <1>12 DEF Pub
        <3>2. PICK i \in DOMAIN frames[pubs[k].gen] :
                frames[pubs[k].gen][i].n = k /\ frames[pubs[k].gen][i].kind # "return"
            BY <1>1, <3>1 DEF WireInv, AnswerSent, ConfirmIn
        <3>3. CASE pubs[k].gen = g
            <4>1. i # 1
                BY <3>1, <3>2, <3>3 DEF c
            <4>2. PICK j \in DOMAIN frames'[g] : frames'[g][j] = frames[g][i]
                BY <1>3, <3>2, <3>3, <4>1
            <4> QED
                BY <3>2, <3>3, <4>2 DEF ConfirmIn
        <3>4. CASE pubs[k].gen # g
            BY <1>3, <3>1, <3>2, <3>4 DEF ConfirmIn
        <3> QED
            BY <3>3, <3>4
    <2>3. AnswerTrue'
        <3> SUFFICES ASSUME NEW k \in DOMAIN pubs
                     PROVE  /\ pubs'[k].answer = "ack" => pubs[k].fate # "refused"
                            /\ pubs'[k].answer = "nack" =>
                                 pubs[k].fate = "refused" \/ pubs[k].gen \in closed
            BY <1>2, <1>9, <1>11, SMT DEF AnswerTrue
        <3>1. CASE k = c
            BY <1>4, <1>7, <1>10, <3>1
        <3>2. CASE k # c
            BY <1>1, <1>10, <3>2 DEF WireInv, AnswerTrue
        <3> QED
            BY <3>1, <3>2
    <2> QED
        BY <1>3, <2>1, <2>2, <2>3 DEF WireInv
<1>16. ASSUME NEW s, NEW h \in Gens, InOrder(pubs, s, h), Before(s, frames[h])
       PROVE  InOrder(pubs', s, h) /\ Before(s, frames'[h])
    <2>1. \A i \in DOMAIN frames'[h] : \E j \in DOMAIN frames[h] : frames'[h][i] = frames[h][j]
        BY <1>3
    <2> QED
        BY <1>13, <1>16, <2>1, BeforeRead, InOrderKept
<1>17. FiledInv'
    <2>1. ReturnsTrue'
        BY <1>1, <1>2, <1>16 DEF FiledInv, ReturnsTrue, client
    <2>2. SeenTrue'
        BY <1>1, <1>2, <1>16 DEF FiledInv, SeenTrue, client, PubTypeOK
    <2>3. KeysTrue'
        BY <1>1, <1>2, <1>9, <1>11 DEF FiledInv, KeysTrue, client
    <2> QED
        BY <2>1, <2>2, <2>3 DEF FiledInv
<1>18. ReturnKept'
    <2> SUFFICES ASSUME NEW k \in DOMAIN pubs, pubs[k].fate = "unrouted",
                        pubs[k].result = "none", pubs'[k].answer # "nack", pubs[k].gen >= retGen
                 PROVE  \/ ReturnIn(frames'[pubs[k].gen], k)
                        \/ Has(returns[pubs[k].gen], k)
                        \/ pubs[k].gen = retGen /\ (k \in returned \/ Crowded(k)')
        <3>1. retGen' = retGen /\ returns' = returns /\ returned' = returned
            BY <1>2 DEF client
        <3> QED
            BY <1>9, <1>11, <3>1 DEF ReturnKept
    <2>1. pubs[k].gen \in Gens /\ pubs[k].answer # "nack"
        BY <1>4, <1>6, <1>10 DEF Pub
    <2>2. \/ ReturnIn(frames[pubs[k].gen], k) \/ Has(returns[pubs[k].gen], k)
          \/ pubs[k].gen = retGen /\ (k \in returned \/ Crowded(k))
        BY <1>1, <2>1 DEF ReturnKept
    <2>3. Crowded(k) => Crowded(k)'
        BY <1>1, <1>13, <1>14, CrowdedKept
    <2>4. ReturnIn(frames[pubs[k].gen], k) => ReturnIn(frames'[pubs[k].gen], k)
        <3> SUFFICES ASSUME NEW i \in DOMAIN frames[pubs[k].gen],
                            frames[pubs[k].gen][i].n = k, frames[pubs[k].gen][i].kind = "return"
                     PROVE  ReturnIn(frames'[pubs[k].gen], k)
            BY DEF ReturnIn
        <3>1. CASE pubs[k].gen = g
            <4>1. i # 1
                BY <1>4, <3>1 DEF e
            <4>2. PICK j \in DOMAIN frames'[g] : frames'[g][j] = frames[g][i]
                BY <1>3, <3>1, <4>1
            <4> QED
                BY <3>1, <4>2 DEF ReturnIn
        <3>2. CASE pubs[k].gen # g
            BY <1>3, <2>1, <3>2 DEF ReturnIn
        <3> QED
            BY <3>1, <3>2
    <2> QED
        BY ONLY <2>2, <2>3, <2>4, Zenon
<1>19. Writers'
    <2>1. ASSUME NEW q \in Publishers, pc[q] \in Flight, pc[q] # "wait"
          PROVE  cur[q] \in DOMAIN pubs /\ pubs'[cur[q]].answer = pc[q]
        <3>1. cur[q] \in DOMAIN pubs /\ pubs[cur[q]].answer = pc[q]
            BY <1>1, <2>1 DEF Writers
        <3>2. pc[q] # "none"
            BY <2>1 DEF Flight
        <3> QED
            BY <1>4, <1>10, <3>1, <3>2
    <2>2. \A q \in Publishers : pc[q] \in Flight =>
            cur[q] \in DOMAIN pubs /\ pubs'[cur[q]].result = "none"
        BY <1>1, <1>11 DEF Writers
    <2>3. \A n \in DOMAIN pubs : pubs'[n].result = "none" =>
            \E q \in Publishers : pc[q] \in Flight /\ cur[q] = n
        BY <1>1, <1>11 DEF Writers
    <2>4. \A q, r \in Publishers : pc[q] \in Flight /\ pc[r] \in Flight /\ cur[q] = cur[r] => q = r
        BY <1>1 DEF Writers
    <2> QED
        BY <1>2, <1>9, <2>1, <2>2, <2>3, <2>4 DEF Writers
<1>20. Slots'
    BY <1>1, <1>2 DEF Slots, Holders
<1>21. Unhurried'
    BY <1>1, <1>2, <1>9, <1>11, <1>12 DEF Unhurried
<1>22. Unclaimed'
    <2>1. \A h \in Gens : \A i \in DOMAIN returns[h] : returns[h][i] \in DOMAIN pubs
        BY <1>1 DEF FiledInv, ReturnsTrue, InOrder
    <2> QED
        BY <1>1, <1>2, <1>9, <1>11, <2>1, SMT DEF Unclaimed, client
<1>23. ReportedTruly'
    <2>1. ASSUME NEW k \in DOMAIN pubs
          PROVE  /\ pubs'[k].result \in {"unrouted", "refused"} => pubs'[k].fate = pubs'[k].result
                 /\ pubs'[k].result = "routed" /\ ~pubs'[k].swapped /\ ~Crowded(k)' =>
                      pubs'[k].fate = "routed"
        BY <1>11, <1>13, <1>14, OthersTrue
    <2> QED
        BY <1>9, <2>1 DEF ReportedTruly
<1> QED
    BY <1>14, <1>15, <1>17, <1>18, <1>19, <1>20, <1>21, <1>22, <1>23 DEF PublishInv

-----------------------------------------------------------------------------
(* The connection goes, and is replaced *)

\* The connection goes.
LEMMA ConnectionLostStep ==
    ASSUME PublishInv, ConnectionLost
    PROVE  PublishInv'
<1> DEFINE Cut(n) == pubs[n].gen = gen /\ pubs[n].answer = "none"
<1>1. /\ PubTypeOK /\ WireInv /\ FiledInv /\ ReturnKept /\ Writers /\ Slots
      /\ Unhurried /\ Unclaimed /\ Connections /\ ReportedTruly
    BY DEF PublishInv
<1>2. /\ gen < MaxGen /\ closed' = closed \cup {gen}
      /\ frames' = [frames EXCEPT ![gen] = <<>>]
      /\ pubs' = [n \in DOMAIN pubs |->
                    IF Cut(n) THEN [pubs[n] EXCEPT !.answer = "nack"] ELSE pubs[n]]
      /\ UNCHANGED <<pc, cur, gen, client, cancels>>
    BY DEF ConnectionLost
<1>3. Len(pubs) \in Nat /\ DOMAIN pubs = 1..Len(pubs) /\ \A n \in DOMAIN pubs : pubs[n] \in Pub
    BY <1>1, PubsAre
<1>4. \A n \in DOMAIN pubs : /\ ~Cut(n) => pubs'[n] = pubs[n]
                             /\ Cut(n) => pubs'[n] = [pubs[n] EXCEPT !.answer = "nack"]
    BY <1>2
<1>5. ASSUME NEW n \in DOMAIN pubs
      PROVE  /\ pubs'[n] \in Pub
             /\ pubs'[n].gen = pubs[n].gen /\ pubs'[n].fate = pubs[n].fate
             /\ pubs'[n].result = pubs[n].result /\ pubs'[n].swapped = pubs[n].swapped
             /\ Cut(n) => pubs'[n].answer = "nack"
    <2>1. CASE ~Cut(n)
        BY <1>3, <1>4, <2>1
    <2>2. CASE Cut(n)
        <3> DEFINE m == [pubs[n] EXCEPT !.answer = "nack"]
        <3>1. /\ m \in Pub /\ m.answer = "nack" /\ m.gen = pubs[n].gen /\ m.fate = pubs[n].fate
              /\ m.result = pubs[n].result /\ m.swapped = pubs[n].swapped
            BY <1>3 DEF Pub, Answer
        <3> QED
            BY <1>4, <2>2, <3>1
    <2> QED
        BY <2>1, <2>2
<1>6. DOMAIN pubs' = DOMAIN pubs /\ pubs' \in Seq(Pub)
    <2>1. pubs' = [n \in 1..Len(pubs) |-> pubs'[n]]
        BY <1>2, <1>3
    <2> QED
        BY <1>2, <1>3, <1>5, <2>1, IsASeq, SMT
<1>7. gen \in Gens /\ frames \in [Gens -> Seq(Frame)]
    BY <1>1 DEF PubTypeOK
<1>8. frames'[gen] = <<>> /\ \A g \in Gens : g # gen => frames'[g] = frames[g]
    BY <1>2, <1>7
<1>9. DOMAIN frames'[gen] = {}
    BY <1>8, SMT
<1>10. MsgsKept
    BY <1>5, <1>6 DEF MsgsKept
<1>11. PubTypeOK' /\ Connections'
    <2>1. <<>> \in Seq(Frame)
        BY EmptySeq
    <2>2. frames' \in [Gens -> Seq(Frame)]
        BY <1>2, <1>7, <2>1
    <2>3. PubTypeOK'
        BY <1>1, <1>2, <1>6, <1>7, <2>2 DEF PubTypeOK, client
    <2>4. gen <= gen
        BY <1>7, SMT DEF Gens
    <2> QED
        BY <1>1, <1>2, <2>3, <2>4 DEF Connections, client
<1>12. \A n \in DOMAIN pubs : pubs[n].gen # gen => pubs'[n] = pubs[n]
    BY <1>4
<1>13. \A n \in DOMAIN pubs : pubs'[n].answer = "none" => pubs[n].gen # gen /\ pubs[n].answer = "none"
    BY <1>4, <1>5
<1> HIDE DEF Cut
<1>14. WireInv'
    <2>1. FramesTrue'
        <3> SUFFICES ASSUME NEW h \in Gens, NEW i \in DOMAIN frames'[h]
                     PROVE  h \notin closed' /\ FrameTrue(pubs', frames'[h][i], h)
            BY DEF FramesTrue
        <3>1. h # gen /\ frames'[h] = frames[h]
            BY <1>8, <1>9
        <3>2. h \notin closed /\ FrameTrue(pubs, frames[h][i], h)
            BY <1>1, <3>1 DEF WireInv, FramesTrue
        <3> QED
            BY <1>2, <1>6, <1>12, <3>1, <3>2 DEF FrameTrue
    <2>2. FramesInOrder'
        BY <1>1, <1>8, <1>9 DEF WireInv, FramesInOrder
    <2>3. AnswerSent'
        <3> SUFFICES ASSUME NEW k \in DOMAIN pubs, pubs'[k].answer = "none"
                     PROVE  ConfirmIn(frames'[pubs[k].gen], k)
            BY <1>5, <1>6 DEF AnswerSent
        <3>1. pubs[k].gen \in Gens /\ pubs[k].gen # gen /\ pubs[k].answer = "none"
            BY <1>3, <1>13 DEF Pub
        <3> QED
            BY <1>1, <1>8, <3>1 DEF WireInv, AnswerSent
    <2>4. AnswerTrue'
        <3> SUFFICES ASSUME NEW k \in DOMAIN pubs
                     PROVE  /\ pubs'[k].answer = "ack" => pubs[k].fate # "refused"
                            /\ pubs'[k].answer = "nack" =>
                                 pubs[k].fate = "refused" \/ pubs[k].gen \in closed'
            BY <1>5, <1>6 DEF AnswerTrue
        <3>1. CASE Cut(k)
            BY <1>2, <1>5, <3>1 DEF Cut
        <3>2. CASE ~Cut(k)
            BY <1>1, <1>2, <1>4, <3>2 DEF WireInv, AnswerTrue
        <3> QED
            BY <3>1, <3>2
    <2> QED
        BY <2>1, <2>2, <2>3, <2>4 DEF WireInv
<1>15. ASSUME NEW s, NEW h \in Gens, InOrder(pubs, s, h), Before(s, frames[h])
       PROVE  InOrder(pubs', s, h) /\ Before(s, frames'[h])
    <2>1. \A i \in DOMAIN frames'[h] : \E j \in DOMAIN frames[h] : frames'[h][i] = frames[h][j]
        BY <1>8, <1>9
    <2> QED
        BY <1>10, <1>15, <2>1, BeforeRead, InOrderKept
<1>16. FiledInv'
    <2>1. ReturnsTrue'
        BY <1>1, <1>2, <1>15 DEF FiledInv, ReturnsTrue, client
    <2>2. SeenTrue'
        BY <1>1, <1>2, <1>15 DEF FiledInv, SeenTrue, client, PubTypeOK
    <2>3. KeysTrue'
        BY <1>1, <1>2, <1>5, <1>6 DEF FiledInv, KeysTrue, client
    <2> QED
        BY <2>1, <2>2, <2>3 DEF FiledInv
<1>17. ReturnKept'
    <2> SUFFICES ASSUME NEW k \in DOMAIN pubs, pubs[k].fate = "unrouted",
                        pubs[k].result = "none", pubs'[k].answer # "nack", pubs[k].gen >= retGen
                 PROVE  \/ ReturnIn(frames'[pubs[k].gen], k)
                        \/ Has(returns[pubs[k].gen], k)
                        \/ pubs[k].gen = retGen /\ (k \in returned \/ Crowded(k)')
        BY <1>2, <1>5, <1>6 DEF ReturnKept, client
    <2>1. ~Cut(k) /\ pubs[k].answer # "nack" /\ pubs[k].gen \in Gens
        BY <1>3, <1>4, <1>5 DEF Pub
    <2>2. \/ ReturnIn(frames[pubs[k].gen], k) \/ Has(returns[pubs[k].gen], k)
          \/ pubs[k].gen = retGen /\ (k \in returned \/ Crowded(k))
        BY <1>1, <2>1 DEF ReturnKept
    <2>3. Crowded(k) => Crowded(k)'
        BY <1>1, <1>10, <1>11, CrowdedKept
    <2>4. ReturnIn(frames[pubs[k].gen], k) => ReturnIn(frames'[pubs[k].gen], k)
        <3>1. CASE pubs[k].gen # gen
            BY <1>8, <2>1, <3>1
        <3>2. CASE pubs[k].gen = gen
            <4>1. pubs[k].answer # "none"
                BY <2>1, <3>2 DEF Cut
            <4>2. ~ReturnIn(frames[gen], k)
                BY <1>1, <1>7, <4>1, SMT DEF WireInv, FramesTrue, FrameTrue, ReturnIn
            <4> QED
                BY <3>2, <4>2
        <3> QED
            BY <3>1, <3>2
    <2> QED
        BY ONLY <2>2, <2>3, <2>4, Zenon
<1>18. Writers'
    <2>1. ASSUME NEW q \in Publishers, pc[q] \in Flight, pc[q] # "wait"
          PROVE  cur[q] \in DOMAIN pubs /\ pubs'[cur[q]].answer = pc[q]
        <3>1. cur[q] \in DOMAIN pubs /\ pubs[cur[q]].answer = pc[q]
            BY <1>1, <2>1 DEF Writers
        <3>2. pc[q] # "none"
            BY <2>1 DEF Flight
        <3> QED
            BY <1>4, <3>1, <3>2 DEF Cut
    <2>2. \A q \in Publishers : pc[q] \in Flight =>
            cur[q] \in DOMAIN pubs /\ pubs'[cur[q]].result = "none"
        BY <1>1, <1>5 DEF Writers
    <2>3. \A n \in DOMAIN pubs : pubs'[n].result = "none" =>
            \E q \in Publishers : pc[q] \in Flight /\ cur[q] = n
        BY <1>1, <1>5 DEF Writers
    <2>4. \A q, r \in Publishers : pc[q] \in Flight /\ pc[r] \in Flight /\ cur[q] = cur[r] => q = r
        BY <1>1 DEF Writers
    <2> QED
        BY <1>2, <1>6, <2>1, <2>2, <2>3, <2>4 DEF Writers
<1>19. Slots'
    BY <1>1, <1>2 DEF Slots, Holders
<1>20. Unhurried'
    BY <1>1, <1>2, <1>5, <1>6, <1>13, SMT DEF Unhurried
<1>21. Unclaimed'
    <2>1. \A h \in Gens : \A i \in DOMAIN returns[h] : returns[h][i] \in DOMAIN pubs
        BY <1>1 DEF FiledInv, ReturnsTrue, InOrder
    <2> QED
        BY <1>1, <1>2, <1>5, <1>6, <2>1, SMT DEF Unclaimed, client
<1>22. ReportedTruly'
    <2>1. ASSUME NEW k \in DOMAIN pubs
          PROVE  /\ pubs'[k].result \in {"unrouted", "refused"} => pubs'[k].fate = pubs'[k].result
                 /\ pubs'[k].result = "routed" /\ ~pubs'[k].swapped /\ ~Crowded(k)' =>
                      pubs'[k].fate = "routed"
        BY <1>5, <1>10, <1>11, OthersTrue
    <2> QED
        BY <1>6, <2>1 DEF ReportedTruly
<1> QED
    BY <1>11, <1>14, <1>16, <1>17, <1>18, <1>19, <1>20, <1>21, <1>22 DEF PublishInv

\* reconnectOnce: the channel.
LEMMA SwapChannelStep ==
    ASSUME PublishInv, SwapChannel
    PROVE  PublishInv'
<1>1. /\ PubTypeOK /\ Connections /\ gen \in closed /\ retGen = gen /\ gen' = gen + 1
      /\ UNCHANGED <<pc, cur, pubs, frames, closed, client, cancels>>
      /\ retGen' = retGen /\ returns' = returns /\ returned' = returned /\ seen' = seen
    BY DEF PublishInv, SwapChannel, client
<1>2. gen \in Nat /\ MaxGen \in Nat /\ gen < MaxGen /\ \A g \in closed : g \in Nat /\ g <= gen
    BY <1>1, PublishAssumption, SMT DEF PubTypeOK, Connections, Gens
<1>3. gen' \in Gens /\ retGen <= gen' /\ \A g \in closed : g <= gen'
    BY <1>1, <1>2, SMT DEF Gens
<1>4. PubTypeOK' /\ Connections'
    BY <1>1, <1>3 DEF PubTypeOK, Connections
<1>5. WireInv'
    BY <1>1 DEF PublishInv, WireInv, FramesTrue, FramesInOrder, AnswerSent, AnswerTrue
<1>6. FiledInv'
    BY <1>1 DEF PublishInv, FiledInv, ReturnsTrue, SeenTrue, KeysTrue
<1>7. ReturnKept'
    BY <1>1 DEF PublishInv, ReturnKept, Crowded
<1>8. Writers' /\ Slots'
    BY <1>1 DEF PublishInv, Writers, Slots, Holders
<1>9. Unhurried' /\ Unclaimed'
    BY <1>1 DEF PublishInv, Unhurried, Unclaimed
<1>10. ReportedTruly'
    BY <1>1 DEF PublishInv, ReportedTruly, Crowded
<1> QED
    BY <1>4, <1>5, <1>6, <1>7, <1>8, <1>9, <1>10 DEF PublishInv

\* reconnectOnce: the returns.  A message written on the new channel has its
\* return on its way or buffered there, and nothing of it is filed yet.
LEMMA SwapReturnsStep ==
    ASSUME PublishInv, SwapReturns
    PROVE  PublishInv'
<1>1. /\ PubTypeOK /\ Connections /\ retGen # gen /\ retGen' = gen
      /\ returned' = {} /\ seen' = <<>>
      /\ UNCHANGED <<pc, cur, pubs, frames, returns, closed, gen, cancels>>
    BY DEF PublishInv, SwapReturns
<1>2. gen \in Nat /\ retGen \in Nat /\ retGen < gen
    BY <1>1, SMT DEF PubTypeOK, Connections, Gens
<1>3. PubTypeOK' /\ Connections'
    <2>1. <<>> \in Seq(Nat) /\ {} \in SUBSET Nat
        BY EmptySeq
    <2>2. gen <= gen
        BY <1>2, SMT
    <2> QED
        BY <1>1, <2>1, <2>2 DEF PubTypeOK, Connections
<1>4. WireInv'
    <2>1. FramesTrue' /\ FramesInOrder'
        BY <1>1 DEF PublishInv, WireInv, FramesTrue, FramesInOrder
    <2>2. AnswerSent' /\ AnswerTrue'
        BY <1>1 DEF PublishInv, WireInv, AnswerSent, AnswerTrue
    <2> QED
        BY <2>1, <2>2 DEF WireInv
<1>5. FiledInv'
    <2>1. DOMAIN seen' = {}
        BY <1>1, SMT
    <2> QED
        BY <1>1, <2>1 DEF PublishInv, FiledInv, ReturnsTrue, SeenTrue, KeysTrue, InOrder, Before
<1>6. ReturnKept'
    <2> SUFFICES ASSUME NEW n \in DOMAIN pubs, pubs[n].fate = "unrouted",
                        pubs[n].result = "none", pubs[n].answer # "nack", pubs[n].gen >= gen
                 PROVE  ReturnIn(frames[pubs[n].gen], n) \/ Has(returns[pubs[n].gen], n)
        BY <1>1 DEF ReturnKept
    <2>1. pubs[n].gen \in Nat
        BY <1>1, PubsAre, SMT DEF Pub, Gens
    <2>2. pubs[n].gen >= retGen /\ pubs[n].gen # retGen
        BY <1>2, <2>1, SMT
    <2> QED
        BY <2>2 DEF PublishInv, ReturnKept
<1>7. Writers' /\ Slots'
    BY <1>1 DEF PublishInv, Writers, Slots, Holders
<1>8. Unhurried' /\ Unclaimed'
    BY <1>1 DEF PublishInv, Unhurried, Unclaimed
<1>9. ReportedTruly'
    BY <1>1 DEF PublishInv, ReportedTruly, Crowded
<1> QED
    BY <1>3, <1>4, <1>5, <1>6, <1>7, <1>8, <1>9 DEF PublishInv

-----------------------------------------------------------------------------
(* The invariant, and what follows from it *)

\* It holds before anything has been published.
LEMMA PublishInit ==
    ASSUME Init
    PROVE  PublishInv
<1>1. /\ pc = [p \in Publishers |-> "idle"] /\ cur = [p \in Publishers |-> 0]
      /\ pubs = <<>> /\ frames = [g \in Gens |-> <<>>] /\ returns = [g \in Gens |-> <<>>]
      /\ closed = {} /\ gen = 0 /\ retGen = 0 /\ returned = {} /\ seen = <<>> /\ cancels = 0
    BY DEF Init
<1>2. DOMAIN pubs = {} /\ DOMAIN seen = {}
    BY <1>1, SMT
<1>3. \A g \in Gens : DOMAIN frames[g] = {} /\ DOMAIN returns[g] = {}
    BY <1>1, SMT
<1>4. 0 \in Gens /\ 0 <= 0 /\ 0 \in Nat
    BY PublishAssumption, SMT DEF Gens
<1>5. PubTypeOK
    <2>1. <<>> \in Seq(Pub) /\ <<>> \in Seq(Frame) /\ <<>> \in Seq(Nat)
        BY EmptySeq
    <2> QED
        BY <1>1, <1>4, <2>1 DEF PubTypeOK
<1>6. Connections
    BY <1>1, <1>4 DEF Connections
<1>7. WireInv
    BY <1>2, <1>3 DEF WireInv, FramesTrue, FramesInOrder, AnswerSent, AnswerTrue
<1>8. FiledInv
    BY <1>1, <1>2, <1>3 DEF FiledInv, ReturnsTrue, SeenTrue, KeysTrue, InOrder, Before
<1>9. \A p \in Publishers : pc[p] = "idle"
    BY <1>1
<1>10. Writers
    BY <1>2, <1>9 DEF Writers, Flight
<1>11. Slots
    <2>1. Holders = {}
        BY <1>9 DEF Holders
    <2>2. Cardinality(Holders) = 0
        BY <2>1, FS_EmptySet
    <2> QED
        BY <2>2, PublishAssumption, SMT DEF Slots
<1>12. ReturnKept /\ Unhurried /\ ReportedTruly
    BY <1>2 DEF ReturnKept, Unhurried, ReportedTruly
<1>13. Unclaimed
    BY <1>3 DEF Unclaimed
<1> QED
    BY <1>5, <1>6, <1>7, <1>8, <1>10, <1>11, <1>12, <1>13 DEF PublishInv

\* Every step of the transport keeps it.
LEMMA PublishStep ==
    ASSUME PublishInv, [Next]_vars
    PROVE  PublishInv'
<1>1. CASE UNCHANGED vars
    <2>1. /\ UNCHANGED <<cur, pubs, frames, closed, gen, client, cancels>> /\ pc' = pc
        BY <1>1 DEF vars
    <2>2. pc' \in [Publishers -> {"idle", "slot"} \cup Flight]
        BY <2>1 DEF PublishInv, PubTypeOK
    <2>3. Writers' /\ Slots'
        BY <2>1 DEF PublishInv, Writers, Slots, Holders
    <2> QED
        BY <2>1, <2>2, <2>3, OnlyPlaces
<1>2. ASSUME NEW p \in Publishers, PublisherStep(p)
      PROVE  PublishInv'
    BY <1>2, AcquireStep, SendStep, SendFailsStep, ConfirmedStep, AbandonStep, JudgeStep,
       TakeReturnStep DEF PublisherStep
<1>3. ASSUME NEW g \in Gens, ReadReturn(g) \/ ReadConfirm(g)
      PROVE  PublishInv'
    BY <1>3, ReadReturnStep, ReadConfirmStep
<1> QED
    BY <1>1, <1>2, <1>3, ConnectionLostStep, SwapChannelStep, SwapReturnsStep DEF Next

\* The invariant of publishing: frames, returns, slots and reports agree.
THEOREM PublishInvariant == Spec => []PublishInv
<1>1. Init => PublishInv
    BY PublishInit
<1>2. PublishInv /\ [Next]_vars => PublishInv'
    BY PublishStep
<1> QED
    BY <1>1, <1>2, PTL DEF Spec

\* More messages in flight than there are slots is not possible.
LEMMA SlotEach ==
    ASSUME PublishInv, NEW s, NEW N \in Nat, DOMAIN s = 1..N,
           \A i \in 1..N : s[i] \in DOMAIN pubs /\ pubs[s[i]].result = "none",
           \A i, j \in 1..N : i # j => s[i] # s[j]
    PROVE  N <= Bound
<1> DEFINE W(i) == {p \in Publishers : pc[p] \in Flight /\ cur[p] = s[i]}
           f == [i \in 1..N |-> CHOOSE p : p \in W(i)]
<1>1. Writers /\ Slots
    BY DEF PublishInv
<1>2. \A i \in 1..N : \E p : p \in W(i)
    BY <1>1 DEF Writers
<1>3. \A i \in 1..N : f[i] \in W(i)
    BY <1>2
<1>4. \A i \in 1..N : f[i] \in Holders /\ cur[f[i]] = s[i]
    BY <1>3 DEF Holders, Flight
<1> HIDE DEF f
<1>5. f \in [1..N -> Holders]
    <2>1. f = [i \in 1..N |-> f[i]]
        BY SMT DEF f
    <2> QED
        BY <1>4, <2>1
<1>6. \A i, j \in 1..N : f[i] = f[j] => i = j
    BY <1>4
<1>7. f \in Injection(1..N, Holders)
    BY <1>5, <1>6 DEF Injection, IsInjective
<1>8. Cardinality(1..N) <= Cardinality(Holders)
    BY <1>7, HoldersFinite, FS_Injection
<1>9. Cardinality(1..N) = N
    BY FS_Interval, SMT
<1> QED
    BY <1>1, <1>8, <1>9, HoldersFinite, PublishAssumption, SMT DEF Slots

\* The answer that a wait needs, from the invariant.
LEMMA AnswerFromInv ==
    ASSUME PublishInv
    PROVE  AnswerOnItsWay
<1>1. /\ PubTypeOK /\ WireInv /\ FiledInv /\ Writers /\ Unhurried /\ Unclaimed
    BY DEF PublishInv
<1>2. ASSUME NEW p \in Publishers, pc[p] = "wait"
      PROVE  \/ pubs[cur[p]].answer # "none"
             \/ \E i \in DOMAIN frames[pubs[cur[p]].gen] :
                  /\ pubs[cur[p]].gen \notin closed
                  /\ frames[pubs[cur[p]].gen][i].n = cur[p]
                  /\ frames[pubs[cur[p]].gen][i].kind # "return"
    <2>1. cur[p] \in DOMAIN pubs
        BY <1>1, <1>2 DEF Writers, Flight
    <2>2. pubs[cur[p]].gen \in Gens
        BY <1>1, <2>1, PubsAre DEF Pub
    <2> QED
        BY <1>1, <2>1, <2>2 DEF WireInv, AnswerSent, ConfirmIn, FramesTrue
<1>3. ASSUME cancels = 0, \A n \in DOMAIN pubs : ~pubs[n].swapped,
             NEW g \in Gens \ closed, frames[g] # <<>>, Head(frames[g]).kind = "return",
             Len(returns[g]) = Bound
      PROVE  FALSE
    <2> DEFINE n == Head(frames[g]).n
               s == Append(returns[g], n)
    <2>1. frames[g] \in Seq(Frame) /\ returns[g] \in Seq(Nat)
        BY <1>1 DEF PubTypeOK
    <2>2. 1 \in DOMAIN frames[g] /\ Head(frames[g]) = frames[g][1]
        BY <1>3, <2>1, TailIs
    <2>3. n \in DOMAIN pubs /\ pubs[n].answer = "none"
        BY <1>1, <2>2, SMT DEF WireInv, FramesTrue, FrameTrue
    <2>4. pubs[n].result = "none" /\ n \in Nat
        <3>1. n \in Nat
            BY <1>1, <2>3, PubsAre, SMT
        <3> QED
            BY <1>1, <1>3, <2>3, <3>1 DEF Unhurried
    <2>5. \A i \in DOMAIN returns[g] : returns[g][i] < n
        BY <1>1, <1>3, <2>2 DEF FiledInv, ReturnsTrue, Before
    <2>6. \A i \in DOMAIN returns[g] : /\ returns[g][i] \in DOMAIN pubs
                                       /\ pubs[returns[g][i]].result = "none"
        BY <1>1, <1>3 DEF FiledInv, ReturnsTrue, InOrder, Unclaimed
    <2>7. \A i, j \in DOMAIN returns[g] : i < j => returns[g][i] < returns[g][j]
        BY <1>1 DEF FiledInv, ReturnsTrue, InOrder
    <2> HIDE DEF n
    <2>8. /\ Bound \in Nat /\ DOMAIN returns[g] = 1..Bound
          /\ s \in Seq(Nat) /\ Len(s) = Bound + 1
          /\ \A i \in 1..Bound : s[i] = returns[g][i]
          /\ s[Bound + 1] = n
        BY <1>3, <2>1, <2>4, PublishAssumption, AppendProperties, LenProperties, SMT
    <2>9. DOMAIN s = 1..Bound + 1 /\ \A i \in 1..Bound : s[i] \in Nat
        BY <2>1, <2>8, LenProperties
    <2> HIDE DEF s
    <2>10. \A i \in 1..Bound + 1 : i \in 1..Bound \/ i = Bound + 1
        BY <2>8, SMT
    <2>11. \A i \in 1..Bound + 1 : s[i] \in DOMAIN pubs /\ pubs[s[i]].result = "none"
        BY <2>3, <2>4, <2>6, <2>8, <2>10
    <2>12. \A i, j \in 1..Bound + 1 : i < j => s[i] < s[j]
        <3>1. \A i, j \in 1..Bound + 1 : i < j => i \in 1..Bound
            BY <2>8, SMT
        <3> QED
            BY <2>5, <2>7, <2>8, <2>10, <3>1
    <2>13. \A i, j \in 1..Bound + 1 : i # j => s[i] # s[j]
        <3>1. \A i, j \in 1..Bound + 1 : i # j => i < j \/ j < i
            BY <2>8, SMT
        <3>2. \A i \in 1..Bound + 1 : s[i] \in Nat
            BY <2>4, <2>8, <2>9, <2>10
        <3>3. \A a, b \in Nat : a < b \/ b < a => a # b
            BY SMT
        <3> QED
            BY <2>12, <3>1, <3>2, <3>3
    <2>14. Bound + 1 \in Nat
        BY <2>8, SMT
    <2>15. Bound + 1 <= Bound
        BY <2>9, <2>11, <2>13, <2>14, SlotEach
    <2> QED
        BY <2>8, <2>15, SMT
<1> QED
    BY <1>2, <1>3 DEF AnswerOnItsWay

\* A publish that waits has its answer or the answer is on its way, and the
\* client's reader finds room for the returns it reads: awaitConfirm, and the
\* size that Dial gives the returns buffer.
THEOREM AnswersComing == Spec => []AnswerOnItsWay
BY PublishInvariant, AnswerFromInv, PTL

\* What Publish reports is what the broker said: takeReturn and
\* lostRatherThanRefused.
THEOREM PublishReportsTruly == Spec => []ReportedTruly
<1>1. PublishInv => ReportedTruly
    BY DEF PublishInv
<1> QED
    BY <1>1, PublishInvariant, PTL

-----------------------------------------------------------------------------
(* A batch *)

\* A payload's goroutine publishes once, a message of its own.
OneEach ==
    /\ \A p \in Publishers : cur[p] # 0 => cur[p] \in DOMAIN pubs
    /\ \A p, q \in Publishers : cur[p] = cur[q] /\ cur[p] # 0 => p = q
    /\ \A n \in DOMAIN pubs : \E p \in Publishers : cur[p] = n

\* It publishes while it is out, and its error is what Publish answered.
Outcomes ==
    /\ \A p \in Publishers : job[p] # "out" => pc[p] = "idle"
    /\ \A p \in Publishers : job[p] # "done" =>
        errs[p] = "nil" /\ (pc[p] \in {"idle", "slot"} => cur[p] = 0)
    /\ \A p \in Publishers : job[p] = "done" =>
        IF cur[p] = 0 THEN errs[p] # "nil"
        ELSE pubs[cur[p]].result # "none" /\ errs[p] = Outcome(pubs[cur[p]].result)

\* The report is made of the errors when every goroutine has returned.
Tally ==
    told # Unreported =>
        /\ \A p \in Publishers : job[p] = "done"
        /\ told = [confirmed |-> Cardinality({p \in Publishers : errs[p] = "nil"}),
                   failed |-> Cardinality(Publishers \ {p \in Publishers : errs[p] = "nil"})]

BatchInv ==
    /\ job \in [Publishers -> {"new", "out", "done"}]
    /\ errs \in [Publishers -> {"nil", "declined", "failed", "unroutable"}]
    /\ OneEach /\ Outcomes /\ Tally

\* What a batch does is done by the transport, or leaves it as it is.
LEMMA BatchIsNext ==
    ASSUME [BatchNext]_<<vars, batch>>
    PROVE  [Next]_vars
BY DEF BatchNext, Start, Declined, Paused, Publishing, Report, Next

\* The goroutine of p ends, with nothing published.
LEMMA DeclinedStep ==
    ASSUME PublishInv, BatchInv, NEW p \in Publishers, job[p] # "done", pc[p] = "idle",
           Finish(p, "declined"), UNCHANGED vars
    PROVE  BatchInv'
<1>1. /\ job \in [Publishers -> {"new", "out", "done"}]
      /\ errs \in [Publishers -> {"nil", "declined", "failed", "unroutable"}]
      /\ OneEach /\ Outcomes /\ Tally
    BY DEF BatchInv
<1>2. /\ job' = [job EXCEPT ![p] = "done"] /\ errs' = [errs EXCEPT ![p] = "declined"]
      /\ told' = told /\ cur' = cur /\ pubs' = pubs /\ pc' = pc
    BY DEF Finish, vars
<1>3. /\ job' \in [Publishers -> {"new", "out", "done"}]
      /\ errs' \in [Publishers -> {"nil", "declined", "failed", "unroutable"}]
    BY <1>1, <1>2
<1>4. /\ job'[p] = "done" /\ errs'[p] = "declined"
      /\ \A q \in Publishers : q # p => job'[q] = job[q] /\ errs'[q] = errs[q]
    BY <1>1, <1>2
<1>5. OneEach'
    BY <1>1, <1>2 DEF OneEach
<1>6. cur[p] = 0
    BY <1>1 DEF Outcomes
<1>7. Outcomes'
    BY <1>1, <1>2, <1>4, <1>6 DEF Outcomes
<1>8. Tally'
    BY <1>1, <1>2 DEF Tally
<1> QED
    BY <1>3, <1>5, <1>7, <1>8 DEF BatchInv

\* The library and the connection answer messages and settle none.
LEMMA LibraryStep ==
    ASSUME PublishInv, BatchInv, UNCHANGED batch, UNCHANGED <<pc, cur>>,
           DOMAIN pubs' = DOMAIN pubs,
           \A n \in DOMAIN pubs : pubs'[n].result = pubs[n].result
    PROVE  BatchInv'
<1>1. OneEach'
    BY DEF BatchInv, OneEach
<1>2. Outcomes'
    <2>1. \A p \in Publishers : cur[p] # 0 => pubs'[cur[p]].result = pubs[cur[p]].result
        BY DEF BatchInv, OneEach
    <2> QED
        BY <2>1 DEF BatchInv, Outcomes, batch
<1>3. Tally'
    BY DEF BatchInv, Tally, batch
<1> QED
    BY <1>1, <1>2, <1>3 DEF BatchInv, batch

\* publish, as far as the transport goes.
LEMMA PublishingStep ==
    ASSUME PublishInv, BatchInv, NEW p \in Publishers, Publishing(p)
    PROVE  BatchInv'
<1> DEFINE E == {"nil", "declined", "failed", "unroutable"}
<1>1. /\ job \in [Publishers -> {"new", "out", "done"}] /\ errs \in [Publishers -> E]
      /\ OneEach /\ Outcomes /\ Tally /\ PubTypeOK /\ Writers
      /\ pc \in [Publishers -> {"idle", "slot"} \cup Flight] /\ cur \in [Publishers -> Nat]
    BY DEF BatchInv, PublishInv, PubTypeOK
<1>2. /\ job[p] = "out" /\ PublisherStep(p)
      /\ pc'[p] # "idle" => UNCHANGED batch
      /\ pc'[p] = "idle" =>
           Finish(p, IF cur[p] = 0 THEN "failed" ELSE Outcome(pubs'[cur[p]].result))
      /\ told' = told
    BY DEF Publishing, Finish, batch
<1>3. told = Unreported
    BY <1>1, <1>2 DEF Tally
<1>4. Tally'
    BY <1>2, <1>3 DEF Tally
<1>5. errs[p] = "nil" /\ (pc[p] \in {"idle", "slot"} => cur[p] = 0)
    BY <1>1, <1>2 DEF Outcomes
\* Nothing is written, and the goroutine goes on.
<1>6. ASSUME UNCHANGED <<cur, pubs>>, NEW x \in {"idle", "slot"} \cup Flight, x # "idle",
             pc' = [pc EXCEPT ![p] = x], x = "slot" => cur[p] = 0
      PROVE  BatchInv'
    <2>1. pc'[p] = x /\ \A q \in Publishers : q # p => pc'[q] = pc[q]
        BY <1>1, <1>6
    <2>2. job' = job /\ errs' = errs
        BY <1>2, <1>6, <2>1 DEF batch
    <2>3. OneEach'
        BY <1>1, <1>6 DEF OneEach
    <2>4. Outcomes'
        BY <1>1, <1>2, <1>5, <1>6, <2>1, <2>2 DEF Outcomes
    <2> QED
        BY <1>1, <1>4, <2>2, <2>3, <2>4 DEF BatchInv
<1>7. CASE Acquire(p)
    <2>1. /\ UNCHANGED <<cur, pubs>> /\ pc' = [pc EXCEPT ![p] = "slot"] /\ pc[p] = "idle"
        BY <1>7 DEF Acquire
    <2> QED
        BY <1>5, <1>6, <2>1
<1>8. CASE Confirmed(p)
    <2> DEFINE a == pubs[cur[p]].answer
    <2>1. /\ UNCHANGED <<cur, pubs>> /\ pc' = [pc EXCEPT ![p] = a] /\ pc[p] = "wait" /\ a # "none"
        BY <1>8 DEF Confirmed
    <2>2. cur[p] \in DOMAIN pubs
        BY <1>1, <2>1 DEF Writers, Flight
    <2>3. a \in Answer
        BY <1>1, <2>2, PubsAre DEF Pub
    <2>4. a \in Flight /\ a # "idle" /\ a # "slot"
        BY <2>1, <2>3 DEF Answer, Flight
    <2> HIDE DEF a
    <2> QED
        BY <1>6, <2>1, <2>4
<1>9. CASE SendFails(p)
    <2>1. /\ UNCHANGED <<cur, pubs>> /\ pc' = [pc EXCEPT ![p] = "idle"] /\ pc[p] = "slot"
        BY <1>9 DEF SendFails
    <2>2. pc'[p] = "idle" /\ cur[p] = 0 /\ \A q \in Publishers : q # p => pc'[q] = pc[q]
        BY <1>1, <1>5, <2>1
    <2>3. job' = [job EXCEPT ![p] = "done"] /\ errs' = [errs EXCEPT ![p] = "failed"]
        BY <1>2, <2>2 DEF Finish
    <2>4. /\ job' \in [Publishers -> {"new", "out", "done"}] /\ errs' \in [Publishers -> E]
        BY <1>1, <2>3
    <2>5. /\ job'[p] = "done" /\ errs'[p] = "failed"
          /\ \A q \in Publishers : q # p => job'[q] = job[q] /\ errs'[q] = errs[q]
        BY <1>1, <2>3
    <2>6. OneEach'
        BY <1>1, <2>1 DEF OneEach
    <2>7. Outcomes'
        BY <1>1, <2>1, <2>2, <2>5, SMT DEF Outcomes
    <2> QED
        BY <1>4, <2>4, <2>6, <2>7 DEF BatchInv
<1>10. ASSUME NEW fate \in Fates, Send(p, fate)
       PROVE  BatchInv'
    <2> DEFINE n == Len(pubs) + 1
               m == [gen |-> gen, fate |-> fate, answer |-> "none", result |-> "none",
                     swapped |-> FALSE]
    <2>1. /\ pubs' = Append(pubs, m) /\ cur' = [cur EXCEPT ![p] = n]
          /\ pc' = [pc EXCEPT ![p] = "wait"] /\ pc[p] = "slot"
        BY <1>10 DEF Send
    <2>2. /\ pc'[p] = "wait" /\ cur'[p] = n
          /\ \A q \in Publishers : q # p => pc'[q] = pc[q] /\ cur'[q] = cur[q]
        BY <1>1, <2>1
    <2>3. job' = job /\ errs' = errs
        BY <1>2, <2>2 DEF batch
    <2>4. m \in Pub
        BY <1>1 DEF Pub, PubTypeOK, Answer, Result
    <2>5. Len(pubs) \in Nat /\ DOMAIN pubs = 1..Len(pubs) /\ pubs \in Seq(Pub)
        BY <1>1, PubsAre DEF PubTypeOK
    <2>6. n # 0 /\ 0 \notin DOMAIN pubs /\ \A k \in DOMAIN pubs : k # n
        BY <2>5, SMT
    <2> HIDE DEF m
    <2>7. /\ n \in DOMAIN pubs'
          /\ \A k \in DOMAIN pubs : k \in DOMAIN pubs' /\ pubs'[k] = pubs[k]
          /\ \A k \in DOMAIN pubs' : k \in DOMAIN pubs \/ k = n
        BY <2>1, <2>4, <2>5, AppendIs, SMT
    <2> HIDE DEF n
    <2>8. OneEach'
        <3>1. \A q \in Publishers : cur'[q] # 0 => cur'[q] \in DOMAIN pubs'
            BY <1>1, <2>2, <2>7 DEF OneEach
        <3>2. \A q \in Publishers : q # p => cur'[q] # n
            BY <1>1, <2>2, <2>6 DEF OneEach
        <3>3. \A q, r \in Publishers : cur'[q] = cur'[r] /\ cur'[q] # 0 => q = r
            BY <1>1, <2>2, <3>2, SMT DEF OneEach
        <3>4. ASSUME NEW k \in DOMAIN pubs' PROVE \E q \in Publishers : cur'[q] = k
            <4>1. CASE k = n
                BY <2>2, <4>1
            <4>2. CASE k \in DOMAIN pubs
                <5>1. PICK q \in Publishers : cur[q] = k
                    BY <1>1, <4>2 DEF OneEach
                <5>2. q # p
                    BY <1>5, <2>1, <2>6, <4>2, <5>1
                <5> QED
                    BY <2>2, <5>1, <5>2
            <4> QED
                BY <2>7, <4>1, <4>2
        <3> QED
            BY <3>1, <3>3, <3>4 DEF OneEach
    <2>9. Outcomes'
        <3>1. \A q \in Publishers : q # p /\ cur[q] # 0 => pubs'[cur[q]] = pubs[cur[q]]
            BY <1>1, <2>7 DEF OneEach
        <3>2. \A q \in Publishers : job[q] # "out" => pc'[q] = "idle"
            BY <1>1, <1>2, <2>2 DEF Outcomes
        <3>3. \A q \in Publishers : job[q] # "done" =>
                errs[q] = "nil" /\ (pc'[q] \in {"idle", "slot"} => cur'[q] = 0)
            BY <1>1, <1>5, <2>2 DEF Outcomes
        <3>4. \A q \in Publishers : job[q] = "done" =>
                IF cur'[q] = 0 THEN errs[q] # "nil"
                ELSE pubs'[cur'[q]].result # "none" /\ errs[q] = Outcome(pubs'[cur'[q]].result)
            BY <1>1, <1>2, <2>2, <3>1, SMT DEF Outcomes
        <3> QED
            BY <2>3, <3>2, <3>3, <3>4 DEF Outcomes
    <2> QED
        BY <1>1, <1>4, <2>3, <2>8, <2>9 DEF BatchInv
\* Publish returns, and the goroutine with it.
<1>11. ASSUME pc[p] \in Flight, NEW res \in Result \ {"none"}, NEW sw \in BOOLEAN,
              Return(p, res, sw), UNCHANGED <<cur, frames, closed, gen, retGen>>
       PROVE  BatchInv'
    <2> DEFINE c == cur[p]
    <2>1. /\ DOMAIN pubs' = DOMAIN pubs /\ c \in DOMAIN pubs
          /\ \A n \in DOMAIN pubs : n # c => pubs'[n] = pubs[n]
          /\ pubs'[c].result = res
        BY <1>11, Settled, SMT
    <2>2. pc' = [pc EXCEPT ![p] = "idle"]
        BY <1>11 DEF Return
    <2>3. pc'[p] = "idle" /\ \A q \in Publishers : q # p => pc'[q] = pc[q]
        BY <1>1, <2>2
    <2>4. c # 0
        BY <1>1, <2>1, PubsAre, SMT
    <2>5. job' = [job EXCEPT ![p] = "done"] /\ errs' = [errs EXCEPT ![p] = Outcome(res)]
        BY <1>2, <2>1, <2>3, <2>4 DEF Finish
    <2>6. Outcome(res) \in E
        BY DEF Outcome
    <2>7. /\ job' \in [Publishers -> {"new", "out", "done"}] /\ errs' \in [Publishers -> E]
        BY <1>1, <2>5, <2>6
    <2>8. /\ job'[p] = "done" /\ errs'[p] = Outcome(res)
          /\ \A q \in Publishers : q # p => job'[q] = job[q] /\ errs'[q] = errs[q]
        BY <1>1, <2>5
    <2>9. OneEach'
        BY <1>1, <1>11, <2>1 DEF OneEach
    <2>10. \A q \in Publishers : q # p /\ cur[q] # 0 => pubs'[cur[q]] = pubs[cur[q]]
        BY <1>1, <2>1, <2>4 DEF OneEach
    <2>11. Outcomes'
        <3>1. \A q \in Publishers : job'[q] # "out" => pc'[q] = "idle"
            BY <1>1, <2>3, <2>8 DEF Outcomes
        <3>2. \A q \in Publishers : job'[q] # "done" =>
                errs'[q] = "nil" /\ (pc'[q] \in {"idle", "slot"} => cur[q] = 0)
            BY <1>1, <2>3, <2>8 DEF Outcomes
        <3>3. \A q \in Publishers : q # p /\ job'[q] = "done" =>
                IF cur[q] = 0 THEN errs'[q] # "nil"
                ELSE pubs'[cur[q]].result # "none" /\ errs'[q] = Outcome(pubs'[cur[q]].result)
            BY <1>1, <2>8, <2>10, SMT DEF Outcomes
        <3>4. pubs'[cur[p]].result # "none" /\ errs'[p] = Outcome(pubs'[cur[p]].result)
            BY <2>1, <2>8
        <3> QED
            BY <1>11, <2>4, <3>1, <3>2, <3>3, <3>4 DEF Outcomes
    <2> QED
        BY <1>4, <2>7, <2>9, <2>11 DEF BatchInv
<1>12. CASE Abandon(p)
    <2>1. /\ pc[p] \in Flight /\ Return(p, "unknown", FALSE)
          /\ UNCHANGED <<cur, frames, closed, gen, retGen>>
        BY <1>12 DEF Abandon, Flight, client
    <2>2. "unknown" \in Result \ {"none"}
        BY DEF Result
    <2> QED
        BY <1>11, <2>1, <2>2
<1>13. CASE Judge(p)
    <2> DEFINE sent == pubs[cur[p]].gen
               res == IF gen # sent \/ sent \in closed THEN "lost" ELSE "refused"
    <2>1. /\ pc[p] \in Flight /\ Return(p, res, FALSE)
          /\ UNCHANGED <<cur, frames, closed, gen, retGen>>
        BY <1>13 DEF Judge, Flight, client
    <2>2. res \in Result \ {"none"}
        BY DEF Result
    <2> HIDE DEF res
    <2> QED
        BY <1>11, <2>1, <2>2
<1>14. CASE TakeReturn(p)
    <2> DEFINE res == IF cur[p] \in Drained.keys THEN "unrouted" ELSE "routed"
               sw == retGen # pubs[cur[p]].gen
    <2>1. /\ pc[p] \in Flight /\ Return(p, res, sw)
          /\ UNCHANGED <<cur, frames, closed, gen, retGen>>
        BY <1>14 DEF TakeReturn, Flight
    <2>2. res \in Result \ {"none"} /\ sw \in BOOLEAN
        BY DEF Result
    <2> HIDE DEF res, sw
    <2> QED
        BY <1>11, <2>1, <2>2
<1> QED
    BY <1>2, <1>7, <1>8, <1>9, <1>10, <1>12, <1>13, <1>14 DEF PublisherStep

\* Every step of a batch keeps what holds of it.
LEMMA BatchStep ==
    ASSUME PublishInv, BatchInv, [BatchNext]_<<vars, batch>>
    PROVE  BatchInv'
<1>1. CASE UNCHANGED <<vars, batch>>
    <2>1. UNCHANGED batch /\ UNCHANGED <<pc, cur>> /\ pubs' = pubs
        BY <1>1 DEF vars
    <2> QED
        BY <2>1, LibraryStep
<1>2. ASSUME NEW p \in Publishers, Start(p)
      PROVE  BatchInv'
    <2>1. /\ job[p] = "new" /\ job' = [job EXCEPT ![p] = "out"]
          /\ errs' = errs /\ told' = told /\ cur' = cur /\ pubs' = pubs /\ pc' = pc
        BY <1>2 DEF Start, vars
    <2>2. /\ job \in [Publishers -> {"new", "out", "done"}]
          /\ errs \in [Publishers -> {"nil", "declined", "failed", "unroutable"}]
          /\ OneEach /\ Outcomes /\ Tally
        BY DEF BatchInv
    <2>3. /\ job' \in [Publishers -> {"new", "out", "done"}]
          /\ job'[p] = "out" /\ \A q \in Publishers : q # p => job'[q] = job[q]
        BY <2>1, <2>2
    <2>4. OneEach'
        BY <2>1, <2>2 DEF OneEach
    <2>5. Outcomes'
        BY <2>1, <2>2, <2>3 DEF Outcomes
    <2>6. Tally'
        BY <2>1, <2>2, <2>3 DEF Tally
    <2> QED
        BY <2>1, <2>2, <2>3, <2>4, <2>5, <2>6 DEF BatchInv
<1>3. ASSUME NEW p \in Publishers, Declined(p) \/ Paused(p)
      PROVE  BatchInv'
    <2>1. /\ job[p] # "done" /\ Finish(p, "declined") /\ UNCHANGED vars
          /\ job[p] = "new" \/ pc[p] = "idle"
        BY <1>3 DEF Declined, Paused
    <2>2. pc[p] = "idle"
        BY <2>1 DEF BatchInv, Outcomes
    <2> QED
        BY <2>1, <2>2, DeclinedStep
<1>4. CASE Report
    <2> DEFINE ok == {p \in Publishers : errs[p] = "nil"}
    <2>1. /\ \A p \in Publishers : job[p] = "done"
          /\ told' = [confirmed |-> Cardinality(ok), failed |-> Cardinality(Publishers \ ok)]
          /\ cur' = cur /\ pubs' = pubs /\ pc' = pc /\ job' = job /\ errs' = errs
        BY <1>4 DEF Report, vars
    <2>2. OneEach' /\ Outcomes'
        BY <2>1, SMT DEF BatchInv, OneEach, Outcomes
    <2>3. Tally'
        BY <2>1 DEF Tally
    <2> QED
        BY <2>1, <2>2, <2>3 DEF BatchInv
<1>5. ASSUME NEW g \in Gens, ReadReturn(g), UNCHANGED batch
      PROVE  BatchInv'
    <2>1. UNCHANGED <<pc, cur>> /\ pubs' = pubs
        BY <1>5 DEF ReadReturn
    <2> QED
        BY <1>5, <2>1, LibraryStep
<1>6. ASSUME NEW g \in Gens, ReadConfirm(g), UNCHANGED batch
      PROVE  BatchInv'
    <2> DEFINE c == Head(frames[g]).n
               k == Head(frames[g]).kind
    <2>1. UNCHANGED <<pc, cur>> /\ pubs' = [pubs EXCEPT ![c].answer = k]
        BY <1>6 DEF ReadConfirm
    <2>2. \A n \in DOMAIN pubs : pubs[n] \in Pub
        BY PubsAre DEF PublishInv
    <2> HIDE DEF c, k
    <2>3. DOMAIN pubs' = DOMAIN pubs
        BY <2>1
    <2>4. ASSUME NEW n \in DOMAIN pubs PROVE pubs'[n].result = pubs[n].result
        <3>1. pubs'[n] = IF n = c THEN [pubs[n] EXCEPT !.answer = k] ELSE pubs[n]
            BY <2>1
        <3>2. [pubs[n] EXCEPT !.answer = k].result = pubs[n].result
            BY <2>2 DEF Pub
        <3> QED
            BY <3>1, <3>2
    <2> QED
        BY <1>6, <2>1, <2>3, <2>4, LibraryStep
<1>7. ASSUME ConnectionLost, UNCHANGED batch
      PROVE  BatchInv'
    <2>1. /\ UNCHANGED <<pc, cur>>
          /\ pubs' = [n \in DOMAIN pubs |->
                        IF pubs[n].gen = gen /\ pubs[n].answer = "none"
                        THEN [pubs[n] EXCEPT !.answer = "nack"] ELSE pubs[n]]
        BY <1>7 DEF ConnectionLost
    <2>2. \A n \in DOMAIN pubs : pubs[n] \in Pub
        BY PubsAre DEF PublishInv
    <2>3. DOMAIN pubs' = DOMAIN pubs
        BY <2>1
    <2>4. ASSUME NEW n \in DOMAIN pubs PROVE pubs'[n].result = pubs[n].result
        <3>1. pubs'[n] = [pubs[n] EXCEPT !.answer = "nack"] \/ pubs'[n] = pubs[n]
            BY <2>1
        <3>2. [pubs[n] EXCEPT !.answer = "nack"].result = pubs[n].result
            BY <2>2 DEF Pub
        <3> QED
            BY <3>1, <3>2
    <2> QED
        BY <1>7, <2>1, <2>3, <2>4, LibraryStep
<1>8. ASSUME SwapChannel \/ SwapReturns, UNCHANGED batch
      PROVE  BatchInv'
    <2>1. UNCHANGED <<pc, cur>> /\ pubs' = pubs
        BY <1>8 DEF SwapChannel, SwapReturns
    <2> QED
        BY <1>8, <2>1, LibraryStep
<1> QED
    BY <1>1, <1>2, <1>3, <1>4, <1>5, <1>6, <1>7, <1>8, PublishingStep DEF BatchNext

\* A batch that has not started.
LEMMA BatchStarts ==
    ASSUME BatchInit
    PROVE  PublishInv /\ BatchInv
<1>1. /\ Init /\ job = [p \in Publishers |-> "new"] /\ errs = [p \in Publishers |-> "nil"]
      /\ told = Unreported
    BY DEF BatchInit
<1>2. DOMAIN pubs = {}
    BY <1>1, SMT DEF Init
<1>3. \A p \in Publishers : cur[p] = 0 /\ pc[p] = "idle" /\ job[p] = "new" /\ errs[p] = "nil"
    BY <1>1 DEF Init
<1>4. OneEach /\ Outcomes /\ Tally
    BY <1>1, <1>2, <1>3 DEF OneEach, Outcomes, Tally
<1> QED
    BY <1>1, <1>4, PublishInit DEF BatchInv

\* The invariant of a batch over the transport: a payload publishes once, and
\* its error is what Publish answered.
THEOREM BatchInvariant == BatchSpec => [](PublishInv /\ BatchInv)
<1>1. BatchInit => PublishInv /\ BatchInv
    BY BatchStarts
<1>2. PublishInv /\ BatchInv /\ [BatchNext]_<<vars, batch>> => (PublishInv /\ BatchInv)'
    BY BatchIsNext, BatchStep, PublishStep
<1> QED
    BY <1>1, <1>2, PTL DEF BatchSpec

\* The count that SendAll gives, from the invariant.
LEMMA ToldFromInv ==
    ASSUME PublishInv, BatchInv
    PROVE  ToldTruly
<1> DEFINE S == {p \in Publishers : errs[p] = "nil"}
           R == {n \in DOMAIN pubs : pubs[n].result = "routed"}
<1>1. ReportedTruly /\ OneEach /\ Outcomes /\ Tally
    BY DEF PublishInv, BatchInv
<1>2. ASSUME told # Unreported
      PROVE  /\ told.confirmed + told.failed = Cardinality(Publishers)
             /\ told.confirmed = Cardinality(R)
             /\ \A p \in Publishers : errs[p] = "nil" =>
                  cur[p] # 0 /\ (pubs[cur[p]].swapped \/ Crowded(cur[p]) \/ pubs[cur[p]].fate = "routed")
    <2>1. /\ \A p \in Publishers : job[p] = "done"
          /\ told = [confirmed |-> Cardinality(S), failed |-> Cardinality(Publishers \ S)]
        BY <1>1, <1>2 DEF Tally
    <2>2. told.confirmed = Cardinality(S) /\ told.failed = Cardinality(Publishers \ S)
        BY <2>1
    <2>3. \A x : Outcome(x) = "nil" => x = "routed"
        BY DEF Outcome
    <2>4. Outcome("routed") = "nil"
        BY DEF Outcome
    <2>5. \A p \in S : cur[p] # 0 /\ cur[p] \in R
        BY <1>1, <2>1, <2>3, SMT DEF Outcomes, OneEach
    <2>6. \A n \in R : \E p \in S : cur[p] = n
        <3> SUFFICES ASSUME NEW n \in R PROVE \E p \in S : cur[p] = n
            OBVIOUS
        <3>1. PICK p \in Publishers : cur[p] = n
            BY <1>1 DEF OneEach
        <3>2. n # 0
            BY PubsAre, SMT DEF PublishInv
        <3>3. errs[p] = "nil"
            BY <1>1, <2>1, <2>4, <3>1, <3>2 DEF Outcomes
        <3> QED
            BY <3>1, <3>3
    <2>7. \A p, q \in S : cur[p] = cur[q] => p = q
        BY <1>1, <2>5 DEF OneEach
    <2>8. IsFiniteSet(S) /\ Publishers \cap S = S
        BY PublishAssumption, FS_Subset
    <2> HIDE DEF S, R
    <2>9. Cardinality(R) = Cardinality(S)
        <3> DEFINE f == [p \in S |-> cur[p]]
        <3>1. f \in [S -> R] /\ \A p, q \in S : f[p] = f[q] => p = q
            BY <2>5, <2>7
        <3>2. \A n \in R : \E p \in S : f[p] = n
            BY <2>6
        <3> HIDE DEF f
        <3>3. f \in Bijection(S, R)
            BY <3>1, <3>2 DEF Bijection, Injection, Surjection, IsInjective
        <3> QED
            BY <2>8, <3>3, FS_Bijection DEF ExistsBijection
    <2>10. Cardinality(Publishers \ S) = Cardinality(Publishers) - Cardinality(S)
        <3>1. IsFiniteSet(Publishers)
            BY PublishAssumption
        <3>2. Cardinality(Publishers \ S) = Cardinality(Publishers) - Cardinality(Publishers \cap S)
            BY ONLY <3>1, FS_Difference, Zenon
        <3> QED
            BY <2>8, <3>2
    <2>11. Cardinality(S) \in Nat /\ Cardinality(Publishers) \in Nat
        BY <2>8, PublishAssumption, FS_CardinalityType
    <2>12. told.confirmed + told.failed = Cardinality(Publishers)
        BY <2>2, <2>10, <2>11, SMT
    <2>13. ASSUME NEW p \in Publishers, errs[p] = "nil"
           PROVE  cur[p] # 0 /\ (pubs[cur[p]].swapped \/ Crowded(cur[p]) \/ pubs[cur[p]].fate = "routed")
        <3>1. cur[p] # 0 /\ cur[p] \in DOMAIN pubs /\ pubs[cur[p]].result = "routed"
            BY <2>5, <2>13 DEF S, R
        <3> QED
            BY <1>1, <3>1 DEF ReportedTruly
    <2>14. told.confirmed = Cardinality(R)
        BY <2>2, <2>9
    <2> QED
        BY ONLY <2>12, <2>13, <2>14, Zenon
<1> QED
    BY <1>1, <1>2 DEF ToldTruly

\* What SendAll tells is what the broker said of each payload, and every payload
\* is counted: SendAll and BatchPublishFailedError over Transport.Publish.
THEOREM BatchToldTruly == BatchSpec => []ToldTruly
BY BatchInvariant, ToldFromInv, PTL

\* Nor does a batch wait for what will not come.
THEOREM BatchAnswersComing == BatchSpec => []AnswerOnItsWay
BY BatchInvariant, AnswerFromInv, PTL

=============================================================================
