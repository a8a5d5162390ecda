------------------------------ MODULE MCHealth ------------------------------
(* Health for TLC.  A publish is explored beside probes of the usual         *)
(* timeouts, whose application's check hangs, before Conn.Close: nothing     *)
(* that fairness is assumed of is held back.                                *)
EXTENDS Health

Bound ==
    pc # "idle" =>
        /\ check["application"] \notin Statuses /\ parts["application"] \notin Statuses
        /\ ~shut /\ CheckTimeout < limit

MCInit == Init /\ HealthInit

MCSpec == MCInit /\ [][Both /\ Bound']_allVars /\ AllFair
=============================================================================
