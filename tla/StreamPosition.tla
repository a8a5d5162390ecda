--------------------------- MODULE StreamPosition ---------------------------
(***************************************************************************)
(* How a stream subscription carries on after a reconnection: the          *)
(* streamPosition of src/rabbitmq/rabbitmq.go, kept by the delivery loop   *)
(* and the settlements, and read by every attempt to reattach.             *)
(*                                                                         *)
(* A stream is a log.  Reading removes nothing, so what a reattached       *)
(* subscription is given depends only on the x-stream-offset it names.     *)
(* Handlers outlive the channel their delivery came on: what they hold is  *)
(* settled after it has gone.                                              *)
(***************************************************************************)
EXTENDS Integers, FiniteSets, Sequences

CONSTANTS MaxLog,       \* bound on the entries appended
          MaxChans,       \* bound on the channels opened
          MaxFails,     \* bound on the reattachments that fail
          Prefetch,     \* the subscription's prefetch
          Workers,      \* how many deliveries are handled at a time
          FromNext      \* x-stream-offset is "next", otherwise "first"

ASSUME StreamAssumption ==
    /\ MaxLog \in Nat \ {0} /\ MaxChans \in Nat /\ MaxFails \in Nat
    /\ Prefetch \in Nat \ {0} /\ Workers \in Nat \ {0} /\ FromNext \in BOOLEAN

Offsets == 0..MaxLog - 1

\* A delivery: its entry and the channel it came on.
Copies == [off: Offsets, chanNo: Nat]

VARIABLES
    log,        \* how many entries the stream has
    chan,       \* "open", "lost", or "attaching": resume has been called
    chanNo,        \* which channel it is
    cursor,     \* the next entry the broker will deliver on it
    held,       \* deliveries given to the consumer and not settled, in order
    made,       \* streamPosition.pending is a map, not nil
    pending,    \* streamPosition.pending: deliveries not yet settled, by offset
    settled,    \* streamPosition.settled
    fails,      \* reattachments that have failed
    panicked,   \* a write to a nil map has ended the process
    lo,         \* the first entry ever delivered, -1 for none
    finished,   \* entries settled at least once
    acked,      \* entries settled on the channel they came on while it was open
    inOrder     \* every settlement so far was of the oldest delivery held

position == <<made, pending, settled>>
history == <<lo, finished, acked, inOrder>>
streamVars == <<log, chan, chanNo, cursor, held, position, fails, panicked, history>>

\* Where x-stream-offset as the caller gave it starts.
Start == IF FromNext THEN log ELSE 0

StreamInit ==
    /\ log \in 0..1 /\ log <= MaxLog
    /\ chan = "open" /\ chanNo = 0 /\ cursor = Start
    /\ held = <<>>
    /\ made = FALSE /\ pending = [o \in Offsets |-> 0] /\ settled = -1
    /\ fails = 0 /\ panicked = FALSE
    /\ lo = -1 /\ finished = {} /\ acked = {} /\ inOrder = TRUE

\* Somebody appends to the stream.
Append1 ==
    /\ log < MaxLog /\ log' = log + 1
    /\ UNCHANGED <<chan, chanNo, cursor, held, position, fails, panicked, history>>

\* run: recorded before the handler sees it (streamPosition.delivered).
Delivered ==
    /\ chan = "open" /\ cursor < log
    /\ Cardinality({i \in DOMAIN held : held[i].chanNo = chanNo}) < Prefetch
    /\ held' = Append(held, [off |-> cursor, chanNo |-> chanNo])
    /\ made' = TRUE /\ pending' = [pending EXCEPT ![cursor] = @ + 1]
    /\ cursor' = cursor + 1
    /\ lo' = IF lo = -1 THEN cursor ELSE lo
    /\ UNCHANGED <<log, chan, chanNo, settled, fails, panicked, finished, acked, inOrder>>

\* A sequence without the element at i.
Without(s, i) == SubSeq(s, 1, i - 1) \o SubSeq(s, i + 1, Len(s))

\* Ack or Nack: streamPosition.settle, then the broker is told on the
\* delivery's own channel.  The handlers work on the Workers oldest deliveries.
Settle(i) ==
    /\ i \in DOMAIN held /\ i <= Workers
    /\ LET d == held[i] IN
        \/ /\ ~made /\ panicked' = TRUE
           /\ UNCHANGED <<held, position, finished, acked, inOrder>>
        \/ /\ made /\ UNCHANGED <<made, panicked>>
           /\ pending' = [pending EXCEPT ![d.off] = IF @ <= 1 THEN 0 ELSE @ - 1]
           /\ settled' = IF d.off > settled THEN d.off ELSE settled
           /\ held' = Without(held, i) /\ inOrder' = (inOrder /\ i = 1)
           /\ finished' = finished \cup {d.off}
           /\ acked' = IF chan = "open" /\ d.chanNo = chanNo THEN acked \cup {d.off} ELSE acked
    /\ UNCHANGED <<log, chan, chanNo, cursor, fails, lo>>

\* The connection drops, or the recovery closes it again because another
\* consumer could not be restarted.
ChannelLost ==
    /\ chan = "open" /\ chanNo < MaxChans
    /\ chan' = "lost"
    /\ UNCHANGED <<log, chanNo, cursor, held, position, fails, panicked, history>>

\* Mutant: the newest unsettled delivery rather than the oldest.
ResumeNewest ==
    LET open == {o \in Offsets : pending[o] > 0} IN
    IF open # {} THEN CHOOSE o \in open : \A p \in open : p <= o
    ELSE IF settled >= 0 THEN settled + 1
    ELSE Start

\* Mutant: one entry too far when nothing is pending.
ResumeTwoOn ==
    LET open == {o \in Offsets : pending[o] > 0} IN
    IF open # {} THEN CHOOSE o \in open : \A p \in open : o <= p
    ELSE IF settled >= 0 THEN settled + 2
    ELSE Start

\* streamPosition.resume with resumeArgs: the offset asked for.
ResumeAt ==
    LET open == {o \in Offsets : pending[o] > 0} IN
    IF open # {} THEN CHOOSE o \in open : \A p \in open : o <= p
    ELSE IF settled >= 0 THEN settled + 1
    ELSE Start

\* reattach, as far as the call of resumeArgs: what was pending is forgotten.
Resume ==
    /\ chan = "lost" /\ chan' = "attaching"
    /\ cursor' = ResumeAt
    /\ made' = FALSE /\ pending' = [o \in Offsets |-> 0]
    /\ UNCHANGED <<log, chanNo, held, settled, fails, panicked, history>>

\* reattach: the broker accepts basic.consume.
Reattached ==
    /\ chan = "attaching" /\ chan' = "open" /\ chanNo' = chanNo + 1
    /\ UNCHANGED <<log, cursor, held, position, fails, panicked, history>>

\* reattach: it does not, and the recovery will try again.
AttachFails ==
    /\ chan = "attaching" /\ fails < MaxFails
    /\ chan' = "lost" /\ fails' = fails + 1
    /\ UNCHANGED <<log, chanNo, cursor, held, position, panicked, history>>

StreamNext ==
    /\ ~panicked
    /\ \/ Append1
       \/ Delivered
       \/ \E i \in 1..Workers : Settle(i)
       \/ ChannelLost
       \/ Resume
       \/ Reattached
       \/ AttachFails

StreamSpec == StreamInit /\ [][StreamNext]_streamVars

-----------------------------------------------------------------------------
(* Properties *)

StreamTypeOK ==
    /\ log \in 0..MaxLog /\ chan \in {"open", "lost", "attaching"}
    /\ chanNo \in Nat /\ cursor \in 0..MaxLog
    /\ held \in Seq(Copies)
    /\ made \in BOOLEAN /\ pending \in [Offsets -> Nat] /\ settled \in -1..MaxLog - 1
    /\ fails \in 0..MaxFails /\ panicked \in BOOLEAN
    /\ lo \in -1..MaxLog - 1 /\ finished \subseteq Offsets /\ acked \subseteq finished
    /\ inOrder \in BOOLEAN

\* A reattached reader misses nothing: every entry it has passed since its first
\* has been settled or is still in a handler's hands, however often reattach
\* failed (streamPosition.resume).
NothingSkipped ==
    \A o \in Offsets : (lo # -1 /\ lo <= o /\ o < cursor) =>
        o \in finished \/ \E i \in DOMAIN held : held[i].off = o

\* The entries that have been given to a handler.
Reached == finished \cup {held[i].off : i \in DOMAIN held}

\* Why nothing is skipped by a reader that began at "first": what was given has
\* no gaps and lies before the broker's cursor or is about to be given again,
\* and resume only ever names an entry that was given, or the one after it.
PositionInv ==
    /\ StreamTypeOK
    /\ cursor <= log /\ \A o \in Reached : o < log
    /\ \A o \in 0..cursor - 1 : o \in Reached
    /\ \A o \in Reached : \A p \in 0..o - 1 : p \in Reached
    /\ \A o \in Offsets : pending[o] > 0 => o \in Reached
    /\ settled = -1 \/ settled \in finished

\* What a queue would redeliver and nothing it would not: a reattached reader
\* that has settled in order, as one worker does, starts no later than the
\* oldest entry it was given and never settled, also when an earlier
\* reattachment failed and had forgotten what was pending, and is not given
\* again an entry whose acknowledgement the broker took (streamPosition.resume).
ResumedExactly ==
    [][Resume /\ inOrder =>
         /\ \A i \in DOMAIN held : held[i].off \in finished \/ cursor' <= held[i].off
         /\ \A o \in acked : o < cursor']_streamVars

=============================================================================
