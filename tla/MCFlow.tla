------------------------------- MODULE MCFlow -------------------------------
(***************************************************************************)
(* Flow for TLC.  The claim-check store, the other ways of hosting a step, *)
(* the replay, the closing of the pipeline, a second fault and a second    *)
(* worker of a group all occur, and meet the faults; what Bound leaves out *)
(* is that several of them do in one behaviour.                            *)
(***************************************************************************)
EXTENDS Flow

Bound ==
    /\ hosting # "step" => minted = 0 /\ ~inMemory
    /\ minted > 0 /\ replays > 0 => ~inMemory
    /\ minted = 0 /\ trouble > 0 => ~inMemory
    /\ stage \in {"failing", "closing", "closed"} => replays = 0
    /\ stage # "run" /\ trouble = 0 => sent = {}
    /\ trouble > 1 => replays = 0 /\ minted = 0 /\ hosting = "step"
    /\ \A k \in Step : held[<<k, 2>>] # {} => trouble <= 1 /\ replays = 0 /\ minted = 0
                                     /\ held[<<k, 1>>] # {}

MCSpec == Init /\ [][Next /\ Bound']_vars
MCFair == MCSpec /\ Fairness
=============================================================================
