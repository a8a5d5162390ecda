---------------------------- MODULE StreamReader ----------------------------
(***************************************************************************)
(* ReadStream (src/patterns/streams.go) on top of StreamPosition: the one   *)
(* worker that hands entries to the handler, what is made of the handler's  *)
(* answer, and the goroutine that closes a reader whose handler failed.     *)
(*                                                                         *)
(* A run of the model is of one mode: "stop" and "park" are the two values  *)
(* of StreamOptions.OnFailure, "consume" is a consumer of the stream that   *)
(* does not go through ReadStream and may have several workers.  The reader *)
(* may be given entries until it is closed, whatever recovery does.         *)
(***************************************************************************)
EXTENDS StreamPosition

VARIABLES
    mode,       \* "consume", "stop" or "park"
    reader,     \* Consume: "starting", "open"; the close: "closing", "closed"
    called,     \* the handler has returned for the oldest delivery
    stopped,    \* ReadStream's stopped
    failedAt,   \* the entry it failed at, -1 for none
    handled,    \* entries the handler accepted
    aside,      \* entries it set aside, or that were parked for it
    told        \* how often OnStop was called

readerVars == <<mode, reader, called, stopped, failedAt, handled, aside, told>>

ReaderInit ==
    /\ mode \in {"consume", "stop", "park"} /\ reader = "starting"
    /\ called = FALSE /\ stopped = FALSE /\ failedAt = -1
    /\ handled = {} /\ aside = {} /\ told = 0

\* ReadStream: Consume has returned and started is closed.
Started ==
    /\ reader = "starting" /\ reader' = "open"
    /\ UNCHANGED <<streamVars, mode, called, stopped, failedAt, handled, aside, told>>

\* stop: only the first failure.
Stop(o) ==
    /\ stopped' = TRUE /\ failedAt' = IF stopped THEN failedAt ELSE o
    /\ UNCHANGED <<handled, aside>>

\* The handler's answer to entry o: it accepts it, sets it aside with Reject or
\* Park, or fails.  refuseRetry parks what failed, stopOnFailure stops.
Called(o) ==
    \/ handled' = handled \cup {o} /\ UNCHANGED <<stopped, failedAt, aside>>
    \/ aside' = aside \cup {o} /\ UNCHANGED <<stopped, failedAt, handled>>
    \/ mode = "stop" /\ Stop(o)

\* stopOnFailure, refuseRetry: the handler for the oldest delivery; once stopped
\* a delivery is accepted unseen.
Handle ==
    /\ mode # "consume" /\ held # <<>> /\ ~called /\ called' = TRUE
    /\ IF stopped THEN UNCHANGED <<stopped, failedAt, handled, aside>>
       ELSE Called(Head(held).off)
    /\ UNCHANGED <<streamVars, mode, reader, told>>

\* Mutant: the handler that failed closes the reader itself, and Close waits
\* for it.
SettleWhenClosed ==
    /\ mode # "consume" /\ called /\ called' = FALSE
    /\ stopped /\ Head(held).off = failedAt => reader = "closed"
    /\ Settle(1)
    /\ UNCHANGED <<mode, reader, stopped, failedAt, handled, aside, told>>

\* The engine settles what was handled.
SettleHandled ==
    /\ mode # "consume" /\ called /\ called' = FALSE
    /\ Settle(1)
    /\ UNCHANGED <<mode, reader, stopped, failedAt, handled, aside, told>>

\* The goroutine of stop: Close, which waits for running handlers, then OnStop.
CloseReader ==
    /\ stopped /\ reader = "open" /\ reader' = "closing"
    /\ UNCHANGED <<streamVars, mode, called, stopped, failedAt, handled, aside, told>>
Closed ==
    /\ reader = "closing" /\ held = <<>> /\ reader' = "closed" /\ told' = told + 1
    /\ UNCHANGED <<streamVars, mode, called, stopped, failedAt, handled, aside>>

\* The subscription underneath, which may deliver until the reader is closed.
Subscription ==
    /\ \/ Append1
       \/ reader # "closed" /\ Delivered
       \/ mode = "consume" /\ \E i \in 1..Workers : Settle(i)
       \/ ChannelLost
       \/ Resume
       \/ Reattached
       \/ AttachFails
    /\ UNCHANGED readerVars

Worker == Handle \/ SettleHandled
Closing == CloseReader \/ Closed

ReaderNext ==
    /\ ~panicked
    /\ \/ Started
       \/ Worker
       \/ Closing
       \/ Subscription

Begin == StreamInit /\ ReaderInit

\* The worker and the closing goroutine run, and Consume returns.
ReaderSpec ==
    /\ Begin /\ [][ReaderNext]_<<streamVars, readerVars>>
    /\ WF_<<streamVars, readerVars>>(Started) /\ WF_<<streamVars, readerVars>>(Worker /\ ~panicked)
    /\ WF_<<streamVars, readerVars>>(Closing)

-----------------------------------------------------------------------------
(* Properties *)

\* A failed handler stops its reader: every entry before the failure was handled
\* or set aside, through whatever reattachments, so that a reader started there
\* again misses nothing; and the reader is closed and OnStop called, although
\* Close waits for the very handler that failed (stopOnFailure, ReadStream).
FailureStopsReader ==
    /\ [](failedAt # -1 => \A o \in Offsets : lo <= o /\ o < failedAt => o \in handled \cup aside)
    /\ stopped ~> (told = 1 \/ panicked)

=============================================================================
