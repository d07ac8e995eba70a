----------------------------- MODULE HostPhases -----------------------------
(***************************************************************************)
(* The phases of a device's host as the runner and the host agree on them: *)
(* a host is created, waits for an address, runs its tests and is done,    *)
(* and may be taken away at any time.  A handler may move several hosts    *)
(* (the activation of a group) and one host by two phases (an address that *)
(* is known at once).                                                      *)
(***************************************************************************)
CONSTANT Device

VARIABLE phase

Moves == {<<"none", "INIT">>, <<"INIT", "WAITING">>, <<"INIT", "RUN">>,
          <<"WAITING", "RUN">>, <<"RUN", "DONE">>}

Init == phase = [d \in Device |-> "none"]

Next ==
    /\ DOMAIN phase' = Device
    /\ \A d \in Device :
         \/ phase'[d] \in {phase[d], "none"}
         \/ <<phase[d], phase'[d]>> \in Moves

Spec == Init /\ [][Next]_phase
=============================================================================
