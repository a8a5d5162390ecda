------------------------------- MODULE MCSaga -------------------------------
(* Saga for TLC.  A broker without confirms differs only in what it says    *)
(* of a request to a queue nobody has declared, so with it the first        *)
(* request is one.                                                          *)
EXTENDS Saga, TLC

MCQueueOf == Server :> Requests @@ Client :> Replies
MCCall == (1..Steps) \X {"do", "undo"}

Bound == unconfirmed /\ call[<<1, "do">>] \in {"new", "registered"} => Requests \notin queues

MCInit == Init /\ Bound

MCSpec == MCInit /\ [][Next /\ Bound']_vars /\ Fairness
=============================================================================
