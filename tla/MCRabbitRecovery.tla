-------------------------- MODULE MCRabbitRecovery --------------------------
(* RabbitRecovery for TLC.  One kind of overlap at a time: what each of them *)
(* breaks is known, and no promise is checked after two of them.  At most    *)
(* one owner calls Stop before the transport is closed.                      *)
EXTENDS RabbitRecovery

\* Subscriptions are interchangeable, so that one of them may be the first.
First == CHOOSE s \in Subs : TRUE

Bound ==
    /\ Cardinality(overlaps) <= 1
    /\ pc[First] = "new" => \A s \in Subs : pc[s] = "new"
    /\ tclose = "no" => Cardinality({s \in Subs : closed[s]}) <= 1

MCSpec == Init /\ [][Next /\ Bound']_vars /\ Fairness
=============================================================================
