---------------------------- MODULE RequestReply ----------------------------
(***************************************************************************)
(* Requester.Do and Serve over the in-memory transport: a call registers a *)
(* waiter under its own correlation, publishes, and takes the first of a   *)
(* reply, its timer and its context; the reply queue's consumer hands a    *)
(* reply to its waiter or drops it.                                        *)
(***************************************************************************)
EXTENDS MemoryTransport

CONSTANTS Call,                 \* calls, each by its correlation
          Requests, Replies,    \* the two queues
          Server, Client,       \* and their subscriptions
          MaxAttempts,          \* of the responder's retry policy
          MaxTrouble            \* bound on failures

ASSUME RequestAssumption ==
    /\ Server \in Sub /\ Client \in Sub /\ Requests # Replies
    /\ QueueOf[Server] = Requests /\ QueueOf[Client] = Replies
    /\ MaxAttempts \in Nat \ {0} /\ MaxTrouble \in Nat

VARIABLES
    call,       \* by call: new, registered, waiting, leaving or done
    result,     \* by call: none, answered, failed, unreadable, timed out, cancelled or refused
    waiters,    \* calls with an entry in Requester.pending
    box,        \* by call: its channel, which holds one reply
    cancelled,  \* the context of the calls is done
    serving,    \* the request a handler has, as a sequence of at most one
    server,     \* the handler: idle, handle, count, reply, replyerror or settle
    verdict,    \* what it answers the engine
    performed,  \* the work the handler has done, by call and in order
    errored,    \* calls the handler returned an error for
    answered,   \* Responder.Answered
    takenBack,  \* calls with a reply that went out though its publish failed
    trouble     \* failures so far

callVars == <<call, result, waiters, box, cancelled>>
serverVars == <<serving, server, verdict, performed, errored, answered, takenBack>>

RequestInit ==
    /\ call = [c \in Call |-> "new"] /\ result = [c \in Call |-> "none"]
    /\ waiters = {} /\ box = [c \in Call |-> <<>>] /\ cancelled = FALSE
    /\ serving = <<>> /\ server = "idle" /\ verdict = "none"
    /\ performed = <<>> /\ errored = {} /\ answered = 0 /\ takenBack = {} /\ trouble = 0

Trouble == trouble < MaxTrouble /\ trouble' = trouble + 1

Worked == {performed[k] : k \in DOMAIN performed}

-----------------------------------------------------------------------------
(* Requester.Do                                                            *)

Register(c) ==
    /\ call[c] = "new" /\ sub[Client] # "off"
    /\ call' = [call EXCEPT ![c] = "registered"] /\ waiters' = waiters \union {c}
    /\ UNCHANGED <<result, box, cancelled>>

Leave(c, how) == call' = [call EXCEPT ![c] = "leaving"] /\ result' = [result EXCEPT ![c] = how]

\* The request goes out, mandatory, or Do returns what Send did.  Whether a
\* publish looks at a context that is done is for the transport.
SendRequest(c) ==
    /\ call[c] = "registered"
    /\ LET request == [call |-> c, attempt |-> 1]
       IN \/ /\ Routed(Requests) /\ Publish(Requests, request)
             /\ call' = [call EXCEPT ![c] = "waiting"] /\ UNCHANGED <<result, trouble>>
          \/ ~Routed(Requests) /\ Leave(c, "refused") /\ UNCHANGED <<memQueues, trouble>>
          \/ /\ Trouble \/ (cancelled /\ UNCHANGED trouble)
             /\ Leave(c, "refused")
             /\ Publish(Requests, request) \/ UNCHANGED memQueues
    /\ UNCHANGED <<waiters, box, cancelled>>

\* A reply, which the caller's codec may not be able to read.
Receive(c) ==
    /\ call[c] = "waiting" /\ box[c] # <<>>
    /\ \/ Leave(c, Head(box[c]))
       \/ Head(box[c]) = "answered" /\ Leave(c, "unreadable")
    /\ box' = [box EXCEPT ![c] = <<>>]
    /\ UNCHANGED <<waiters, cancelled>>

GiveUp(c) ==
    /\ call[c] = "waiting"
    /\ \/ Leave(c, "timed out")
       \/ cancelled /\ Leave(c, "cancelled")
    /\ UNCHANGED <<waiters, box, cancelled>>

\* The deferred delete.
Return(c) ==
    /\ call[c] = "leaving"
    /\ call' = [call EXCEPT ![c] = "done"] /\ waiters' = waiters \ {c}
    /\ UNCHANGED <<result, box, cancelled>>

\* Any reply will do for whoever is waiting.
HandToAnyone(m) ==
    /\ \E c \in waiters : waiters' = waiters \ {c} /\ box' = [box EXCEPT ![c] = <<m.how>>]
    /\ UNCHANGED <<call, result, cancelled>>

\* Requester.deliver: late, repeated and unknown replies go nowhere.
HandToWaiter(m) ==
    /\ waiters' = waiters \ {m.call}
    /\ box' = IF m.call \in waiters /\ box[m.call] = <<>> THEN [box EXCEPT ![m.call] = <<m.how>>]
                                                          ELSE box
    /\ UNCHANGED <<call, result, cancelled>>

ClientDelivers ==
    /\ sub[Client] = "busy" /\ stop[Client] = "no"
    /\ HandToWaiter(Head(delivery[Client])) /\ Delivered(Client)
    /\ UNCHANGED <<memQueues, unconfirmed, stop>>

-----------------------------------------------------------------------------
(* Serve: the handler, and what the engine does with its answer.           *)

TakeRequest ==
    /\ sub[Server] = "busy" /\ stop[Server] = "no" /\ server = "idle"
    /\ serving' = delivery[Server] /\ server' = "handle" /\ Delivered(Server)
    /\ UNCHANGED <<memQueues, unconfirmed, stop, verdict, performed, errored, answered, takenBack>>

\* The handler does its work, or returns an error or panics, its work done or not.
Handle ==
    /\ server = "handle"
    /\ LET c == serving[1].call
           work == Append(performed, c)
       IN \/ /\ server' = "count" /\ performed' = work
             /\ UNCHANGED <<verdict, errored, trouble>>
          \/ /\ Trouble /\ performed' \in {performed, work}
             /\ \/ server' = "replyerror" /\ errored' = errored \union {c} /\ UNCHANGED verdict
                \/ server' = "settle" /\ verdict' = "reject" /\ UNCHANGED errored
    /\ UNCHANGED <<serving, answered, takenBack>>

\* Counted first: a caller that has its reply finds it counted.
CountAnswer ==
    /\ server = "count" /\ server' = "reply" /\ answered' = answered + 1
    /\ UNCHANGED <<serving, verdict, performed, errored, takenBack>>

Reply(how) == Publish(Replies, [call |-> serving[1].call, how |-> how])

SendReply ==
    /\ server = "reply" /\ server' = "settle"
    /\ \/ Reply("answered") /\ verdict' = "accept" /\ UNCHANGED <<answered, takenBack, trouble>>
       \/ /\ Trouble /\ verdict' = "retry" /\ answered' = answered - 1
          /\ \/ Reply("answered") /\ takenBack' = takenBack \union {serving[1].call}
             \/ UNCHANGED <<memQueues, takenBack>>
    /\ UNCHANGED <<serving, performed, errored>>

SendError ==
    /\ server = "replyerror" /\ server' = "settle"
    /\ \/ Reply("failed") /\ verdict' = "reject" /\ UNCHANGED trouble
       \/ /\ Trouble /\ verdict' = "retry"
          /\ Reply("failed") \/ UNCHANGED memQueues
    /\ UNCHANGED <<serving, performed, errored, answered, takenBack>>

\* Another attempt is a new message, at the end of the queue.
Settle ==
    /\ server = "settle" /\ server' = "idle"
    /\ IF verdict = "retry" /\ serving[1].attempt < MaxAttempts
       THEN Publish(Requests, [serving[1] EXCEPT !.attempt = @ + 1])
       ELSE UNCHANGED memQueues
    /\ serving' = <<>> /\ verdict' = "none"
    /\ UNCHANGED <<performed, errored, answered, takenBack>>

-----------------------------------------------------------------------------
\* What a call returns is about that call: an answer only if the handler did
\* its work, an error from the other side only if the handler failed it; a
\* call that has returned leaves no waiter behind; and a caller with its
\* answer finds it counted by Responder.Answered, unless the publish of a
\* reply that did arrive was reported as failed (Do, deliver, Serve).
RepliesTrue ==
    /\ \A c \in Call : /\ result[c] = "answered" => c \in Worked
                       /\ result[c] = "failed" => c \in errored
                       /\ call[c] = "done" => c \notin waiters
    /\ Cardinality({c \in Call : result[c] = "answered"} \ takenBack) <= answered
=============================================================================
