------------------------------- MODULE MCWaits -------------------------------
(***************************************************************************)
(* Waits for TLC: two services, in the pairings of styles that differ, two *)
(* policies to run and a grid of policies to look at, with durations small *)
(* enough for every kind of rounding, capping and overflow to occur.       *)
(***************************************************************************)
EXTENDS Waits

MCRungs == <<8, 4, 2>>

MCStyles == {<<"applies", "declares">>, <<"applies", "reviewed">>}

MCPolicies ==
    {Policy(a, i, m, c, t, s, FALSE) :
        a \in 1..5, i \in {0, 1, 3, 5, 9}, m \in {<<1, 2>>, <<1, 1>>, <<5, 4>>, <<3, 2>>, <<2, 1>>, <<3, 1>>},
        c \in {0, 6, 9, 13}, t \in {0, 1, 4, 7}, s \in BOOLEAN}

\* One whose first wait is in the consumer and whose others are on two rungs,
\* and one that is short enough never to leave the consumer and gives up on
\* old messages.
MCRunPolicies ==
    {Policy(4, 2, <<2, 1>>, 8, 4, FALSE, FALSE), Policy(2, 1, <<2, 1>>, 0, 0, FALSE, TRUE)}

\* A second thing goes wrong only where it can meet the first: once there is
\* a message, with the policy that has rungs, and beside a service that makes
\* its own declarations.
Bound ==
    trouble > 1 => sent /\ style[2] = "declares" /\ policy.threshold > 0

MCSpec == Init /\ [][Next /\ Bound']_vars /\ Fairness
=============================================================================
