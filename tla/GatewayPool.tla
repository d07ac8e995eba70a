----------------------------- MODULE GatewayPool -----------------------------
(***************************************************************************)
(* What the runner promises about gateway sets, whatever its handlers do:  *)
(* a device that starts joins the set of its group, or takes a set nobody  *)
(* holds, while there is room for one more host; a device that ends lets   *)
(* go of its set.  TargetSets implements this.                             *)
(***************************************************************************)
EXTENDS Naturals, FiniteSets

CONSTANTS
    Device,
    Set,        \* the gateway sets
    NoSet,      \* what a device that does not run holds
    Group,      \* Group[d] is the group of device d
    MaxHosts    \* how many devices may run at once

VARIABLE holder \* holder[d] is the set device d uses

running == {d \in Device : holder[d] # NoSet}

\* The sets held by the group of device d.
GroupSets(d) == {holder[e] : e \in {e \in running : Group[e] = Group[d]}}

Start(d, s) ==
    /\ d \notin running
    /\ Cardinality(running) < MaxHosts
    /\ IF GroupSets(d) = {} THEN \A e \in Device : holder[e] # s ELSE s \in GroupSets(d)
    /\ holder' = [holder EXCEPT ![d] = s]

End(d) ==
    /\ d \in running
    /\ holder' = [holder EXCEPT ![d] = NoSet]

Init == holder = [d \in Device |-> NoSet]

Next == \E d \in Device : End(d) \/ \E s \in Set : Start(d, s)

Spec == Init /\ [][Next]_holder
=============================================================================
