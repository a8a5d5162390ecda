------------------------------ MODULE MCEvents ------------------------------
(* EventPipeline for TLC.  With one event everything overlaps, and there    *)
(* may be two failures.  With a second, which is there for the order of     *)
(* publishing, there is one failure and one worker, which starts on what is *)
(* queued when nothing is left to publish.  Events are interchangeable, so  *)
(* the first recorded may always be the same.                               *)
EXTENDS EventPipeline

First == CHOOSE w \in Worker : TRUE

Idle(w) == pc[w] = "idle"

Drained == \A r \in Relay : sweep[r] = {} /\ \A e \in Event : ~Pending(e)

Bound ==
    /\ born # <<>> => born[1] = NoJob
    /\ Len(born) > 1 => /\ trouble <= 1 /\ \A w \in Worker \ {First} : Idle(w)
                        /\ Idle(First) \/ Drained

MCSpec == Init /\ [][Next /\ Bound']_vars /\ Fairness
=============================================================================
