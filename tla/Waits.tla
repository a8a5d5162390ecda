-------------------------------- MODULE Waits --------------------------------
(***************************************************************************)
(* The two patterns that let the broker do the waiting, on one broker: the *)
(* retry ladder of a consumer and the scheduler.  A behaviour is of one of *)
(* them, "retry" or "schedule"; one of "policy" only looks at a policy.    *)
(***************************************************************************)
EXTENDS RetryWaits, Scheduler

CONSTANTS Policies,         \* the policies looked at
          Styles            \* the ways a set of services is set up

VARIABLE pattern

vars == <<brokerVars, waitVars, scheduleVars, pattern>>

Init ==
    /\ BrokerInit
    /\ todo = [s \in Service |-> <<>>]
    /\ up = {} /\ sent = FALSE /\ copies = {} /\ done = FALSE /\ trouble = 0
    /\ running = FALSE /\ remaining = 0 /\ asked = "no" /\ hops = {}
    /\ arrivals = {} /\ slack = 0 /\ failures = 0 /\ excused = FALSE
    /\ \/ pattern = "policy" /\ policy \in {p \in Policies : Usable(p)} /\ style = [s \in Service |-> "declares"]
       \/ pattern = "retry" /\ policy \in RunPolicies /\ style \in Styles
       \/ /\ pattern = "schedule" /\ policy \in RunPolicies
          /\ style = [s \in Service |-> "applies"]

Next ==
    \/ pattern = "retry" /\ RetryNext /\ UNCHANGED <<scheduleVars, pattern>>
    \/ /\ pattern = "schedule"
       /\ ScheduleNext(CHOOSE s \in Service : TRUE, policy)
       /\ UNCHANGED <<waitVars, pattern>>

\* Services are started again and work off what they are given, the broker
\* expires what it holds, time passes, and the target comes to be there.
Fairness ==
    /\ \A s \in Service :
        WF_vars(pattern = "retry" /\ Engine(s) /\ UNCHANGED <<scheduleVars, pattern>>)
    /\ WF_vars(pattern = "retry" /\ Expire /\ UNCHANGED <<scheduleVars, pattern>>)
    /\ WF_vars(/\ pattern = "schedule"
               /\ ScheduleStep(CHOOSE s \in Service : TRUE, policy)
               /\ UNCHANGED <<waitVars, pattern>>)
    /\ WF_vars(pattern = "schedule" /\ DeclareTarget /\ UNCHANGED <<waitVars, pattern>>)
    /\ WF_vars(pattern = "schedule" /\ Tick /\ UNCHANGED <<waitVars, pattern>>)

Spec == Init /\ [][Next]_vars /\ Fairness

-----------------------------------------------------------------------------
\* A message that waits is not lost: whatever order services are deployed in,
\* whenever one dies, a publish fails or a rung is removed, a retried message
\* is done with or is on a queue or with a handler, and a message the
\* scheduler accepted is at its target or still on its way, or set aside
\* (retryInBroker, Scheduler.forward, hop, deliver).
NothingLostWaiting ==
    /\ sent => done \/ copies # {}
    /\ asked = "accepted" => arrivals # {} \/ hops # {}

\* Services of one policy never contradict each other: a topology, a ladder
\* and a scheduler declare everything alike, in whichever order their
\* declarations interleave and however often they are repeated, no Check of a
\* topology finds the broker to differ, and what is declared has a rung for
\* every wait the policy leaves to the broker, as long as the wait: a rung
\* "cannot" be another length, RungFor's comment says, and two waits within
\* one second are the exception (Topology.Apply, Check, RetryLadder.Declare,
\* BrokerRungs, RungFor).
SameDeclarations ==
    /\ refused = {} /\ RungForEveryWait(policy)
    /\ pattern = "retry" => \A t \in TopologiesOf[policy] : Validate(t) /\ Drift(t) = {}

\* The scheduler never delivers earlier than its shortest rung before the
\* moment due, and, unless something failed, is late by no more than its own
\* steps took: no rung it chooses overshoots (Scheduler.route).
DueInTime ==
    \A a \in arrivals :
        /\ a[1] < Shortest
        /\ ~excused => a[1] + a[2] >= 0

\* A message that waits gets somewhere: a retried one is handled or set aside,
\* and an accepted one reaches its target once that exists, however often it
\* went round before, or was set aside (NextWait, Scheduler.deliver).
WaitsEnd ==
    /\ sent ~> (done \/ \E c \in copies : c[1] = DeadLetterQueue(Source))
    /\ asked = "accepted" ~> (arrivals # {} \/ <<DeadLetterQueue(Control), 0>> \in hops)
=============================================================================
