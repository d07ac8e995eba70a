----------------------------- MODULE PoolProofs -----------------------------
(***************************************************************************)
(* TargetSets implements GatewayPool, and what follows from it: groups are *)
(* sequestered, the limit on hosts holds, traffic follows the host, and no *)
(* gateway set is lost as long as the steps of an activation that leave a  *)
(* gateway behind do not raise.  A device that waits is on an active port. *)
(* Last, TargetSets implements HostPhases, and a gateway is activated only *)
(* with its whole group.                                                   *)
(***************************************************************************)
EXTENDS TargetSetsProofs

\* What a step does to the gateways: it ends one device, starts one, leaves a
\* gateway behind, or does nothing to them.
Ends(d) == d \in triggered /\ \E failed \in BOOLEAN : target_set_complete(d, failed)

Starts(d) == host[d] = "none" /\ target_set_has_capacity /\ ActivateStarts(d)

Leaks ==
    /\ Faults \cap {"stop_dhcp", "initialize"} # {}
    /\ UNCHANGED <<gateway, port_targets>>

Keeps == UNCHANGED <<gateway, port_targets, gateway_sets, live, targets>>

StepKind == Keeps \/ Leaks \/ \E d \in Device : Ends(d) \/ Starts(d)

\* Each outcome of _target_set_activate is a step of one of the kinds above.
LEMMA ActivateKind ==
    ASSUME IInv, NEW d \in Device, host[d] = "none", target_set_has_capacity,
           target_set_activate(d)
    PROVE  StepKind
<1>1. CASE ActivateWithoutGateway(d)
  BY <1>1 DEF ActivateWithoutGateway, StepKind, Keeps, gatewayVars
<1>2. CASE ActivateTooLate(d)
  BY <1>2 DEF ActivateTooLate, StepKind, Keeps, gatewayVars
<1>3. CASE ActivateRaises(d)
  BY <1>3 DEF ActivateRaises, StepKind, Keeps, gatewayVars
<1>4. CASE ActivateStopDhcpRaises(d)
  BY <1>4 DEF ActivateStopDhcpRaises, StepKind, Leaks
<1>5. CASE ActivateConstructFails(d)
  <2>1. gateway' = gateway
    BY <1>5, AbortEffect DEF ActivateConstructFails
  <2>. QED  BY <1>5, <2>1 DEF ActivateConstructFails, StepKind, Keeps, gatewayVars
<1>6. CASE ActivateInitializeFails(d)
  <2>1. gateway' = gateway
    BY <1>6, AbortEffect DEF ActivateInitializeFails
  <2>. QED  BY <1>6, <2>1 DEF ActivateInitializeFails, StepKind, Leaks
<1>7. CASE ActivateStarts(d)
  BY <1>7 DEF StepKind, Starts
<1>. QED
  BY <1>1, <1>2, <1>3, <1>4, <1>5, <1>6, <1>7 DEF target_set_activate

\* So is each outcome of _target_set_trigger, which asks for capacity first.
LEMMA TriggerKind ==
    ASSUME IInv, NEW d \in Device, target_set_trigger(d) PROVE StepKind
<1>1. CASE ~TriggerSuppressed(d) /\ target_set_has_capacity /\ target_set_activate(d)
  BY <1>1, ActivateKind DEF TriggerSuppressed
<1>2. CASE UNCHANGED <<gateway, port_targets, gatewayVars>>
  BY <1>2 DEF StepKind, Keeps, gatewayVars
<1>. QED  BY <1>1, <1>2 DEF target_set_trigger

\* Every step is of one of these kinds.
LEMMA NextKind == IInv /\ [Next]_vars => StepKind
<1>. SUFFICES ASSUME IInv, [Next]_vars PROVE StepKind
  OBVIOUS
<1>. SnapshotsHaveHosts /\ QueueSound /\ queue \in Seq(Device)
  BY DEF IInv, TypeOK
<1>1. CASE UNCHANGED vars
  BY <1>1 DEF StepKind, Keeps, vars, deviceVars, gatewayVars
<1>2. CASE Idle
  <2>1. CASE IdleStart \/ IdleNext \/ IdleExit
    BY <2>1 DEF IdleStart, IdleNext, IdleExit, StepKind, Keeps, deviceVars, gatewayVars
  <2>2. ASSUME NEW d \in Device, IdleComplete(d) PROVE StepKind
    BY <2>2 DEF IdleComplete, InHosts, SnapshotsHaveHosts, StepKind, Ends
  <2>3. ASSUME NEW d \in Device, IdlePrepare(d) \/ IdleHost(d) PROVE StepKind
    BY <2>3 DEF IdlePrepare, IdleHost, StepKind, Keeps, gatewayVars
  <2>4. ASSUME NEW d \in Device, IdleError(d) PROVE StepKind
    BY <2>4 DEF IdleError, target_set_error, SnapshotsHaveHosts, StepKind, Ends
  <2>5. ASSUME NEW d \in Device, IdleTrigger(d) PROVE StepKind
    BY <2>5, TriggerKind DEF IdleTrigger
  <2>6. CASE target_set_consider
    <3>1. CASE queue # <<>> /\ target_set_has_capacity
      <4>. DEFINE d == Head(queue)
      <4>1. target_set_activate(d)
        BY <2>6, <3>1 DEF target_set_consider
      <4>2. 1 \in DOMAIN queue /\ d = queue[1] /\ d \in Device
        BY <3>1
      <4>3. host[d] = "none"
        BY <4>2 DEF QueueSound, triggered
      <4>. QED  BY <3>1, <4>1, <4>2, <4>3, ActivateKind
    <3>2. CASE ~(queue # <<>> /\ target_set_has_capacity)
      BY <2>6, <3>2 DEF target_set_consider, StepKind, Keeps, deviceVars, gatewayVars
    <3>. QED  BY <3>1, <3>2
  <2>. QED  BY <1>2, <2>1, <2>2, <2>3, <2>4, <2>5, <2>6 DEF Idle
<1>3. CASE Events
  <2>1. ASSUME NEW up \in BOOLEAN, SystemPortState(up) PROVE StepKind
    BY <2>1 DEF SystemPortState, StepKind, Keeps, deviceVars, gatewayVars
  <2>2. ASSUME NEW d \in Device, activate_port(d) \/ PortInactive(d) PROVE StepKind
    BY <2>2 DEF activate_port, PortInactive, StepKind, Keeps, deviceVars, gatewayVars
  <2>3. ASSUME NEW d \in Device, handle_port_learn(d) PROVE StepKind
    BY <2>3, TriggerKind DEF handle_port_learn
  <2>4. ASSUME NEW s \in Sets, dhcp_error(s) PROVE StepKind
    BY <2>4 DEF dhcp_error, StepKind, Keeps, deviceVars
  <2>5. ASSUME NEW s \in Sets, NEW d \in Device, NEW ack \in BOOLEAN, ip_notify(d, s, ack)
        PROVE  StepKind
    BY <2>5 DEF ip_notify, StepKind, Keeps
  <2>6. ASSUME NEW d \in Device, HostDone(d) PROVE StepKind
    BY <2>6 DEF HostDone, StepKind, Keeps, gatewayVars
  <2>7. ASSUME NEW d \in Device, HostError(d) \/ reap_stale_ports(d) PROVE StepKind
    BY <2>7 DEF HostError, reap_stale_ports, target_set_error, StepKind, Ends
  <2>. QED  BY <1>3, <2>1, <2>2, <2>3, <2>4, <2>5, <2>6, <2>7 DEF Events
<1>4. CASE Ending
  <2>1. ASSUME NEW d \in Device, Terminate(d) PROVE StepKind
    BY <2>1 DEF Terminate, target_set_error, SnapshotsHaveHosts, StepKind, Ends
  <2>2. CASE TerminateDone \/ MainLoopEnds \/ \E d \in Device : MainLoopRaises(d)
    BY <2>2 DEF TerminateDone, MainLoopEnds, MainLoopRaises, StepKind, Keeps, deviceVars, gatewayVars
  <2>. QED  BY <1>4, <2>1, <2>2 DEF Ending
<1>. QED  BY <1>1, <1>2, <1>3, <1>4 DEF Next, Stopped
-----------------------------------------------------------------------------
(* The effect of the kinds on the set each device holds *)

\* A device that ends lets go of its set, which becomes free when no other
\* device is a target of the gateway.
LEMMA EndsEffect ==
    ASSUME IInv, NEW d \in Device, Ends(d)
    PROVE  /\ gateway[d] \in Sets
           /\ gateway' = [gateway EXCEPT ![d] = NoGateway]
           /\ port_targets' = [port_targets EXCEPT ![d] = NoGateway]
           /\ targets' = [targets EXCEPT ![gateway[d]] = @ \ {d}]
           /\ IF targets[gateway[d]] = {d}
              THEN /\ gateway_sets' = gateway_sets \cup {gateway[d]}
                   /\ live' = live \ {gateway[d]}
              ELSE UNCHANGED <<gateway_sets, live>>
<1>1. gateway[d] \in Sets
  BY TypeGroups DEF Ends, IInv, triggered, HostInv, DeviceType
<1>2. PICK failed \in BOOLEAN : target_set_complete(d, failed)
  BY DEF Ends
<1>. QED  BY <1>1, <1>2 DEF target_set_complete, target_set_finalize, detach_gateway

\* A device that starts takes a set that is free, if its group has none, or
\* the set its group has.
LEMMA StartsEffect ==
    ASSUME IInv, NEW d \in Device, Starts(d)
    PROVE  \E s \in Sets :
             /\ gateway[d] = NoGateway
             /\ \/ existing_gateways(d) = {} /\ s \in gateway_sets
                \/ s \in existing_gateways(d)
             /\ gateway' = [gateway EXCEPT ![d] = s]
             /\ port_targets' = [port_targets EXCEPT ![d] = s]
             /\ targets' = [targets EXCEPT ![s] = @ \cup {d}]
             /\ gateway_sets' = gateway_sets \ {s}
             /\ live' = live \cup {s}
<1>1. PICK s \in OpenGateways(d) :
          /\ attach_target(d, s)
          /\ gateway' = [gateway EXCEPT ![d] = s]
          /\ port_targets' = [port_targets EXCEPT ![d] = s]
  BY DEF Starts, ActivateStarts
<1>2. /\ s \in Sets
      /\ \/ existing_gateways(d) = {} /\ s \in gateway_sets
         \/ s \in existing_gateways(d)
  BY <1>1, OpenIsSet
<1>3. gateway[d] = NoGateway
  BY DEF Starts, IInv, HostInv
<1>. QED  BY <1>1, <1>2, <1>3 DEF attach_target

\* The devices that hold a set are the triggered ones, and the sets of a group
\* are those _create_gateway finds.
LEMMA Holders ==
    ASSUME IInv
    PROVE  /\ triggered = {d \in Device : gateway[d] # NoGateway}
           /\ \A d \in Device : existing_gateways(d) =
                {gateway[e] : e \in {e \in Device : /\ gateway[e] # NoGateway
                                                    /\ device_group_for(e) = device_group_for(d)}}
<1>. DeviceType /\ HostInv
  BY TypeGroups DEF IInv
<1>1. triggered = {d \in Device : gateway[d] # NoGateway}
  BY DEF triggered, HostInv, DeviceType
<1>2. \A e \in Device : gateway[e] # NoGateway => e \in devices
  BY DEF HostInv
<1>. QED  BY <1>1, <1>2 DEF existing_gateways, DeviceType
-----------------------------------------------------------------------------
\* Every step of the runner is a step of the pool or leaves it alone.
LEMMA PoolStep == IInv /\ [Next]_vars => [Pool!Next]_gateway
<1>. SUFFICES ASSUME IInv, [Next]_vars PROVE [Pool!Next]_gateway
  OBVIOUS
<1>0. Pool!running = triggered
  BY Holders DEF Pool!running
<1>1. CASE Keeps \/ Leaks
  BY <1>1 DEF Keeps, Leaks
<1>2. ASSUME NEW d \in Device, Ends(d) PROVE Pool!Next
  <2>1. gateway' = [gateway EXCEPT ![d] = NoGateway]
    BY <1>2, EndsEffect
  <2>2. d \in triggered
    BY <1>2 DEF Ends
  <2>. QED  BY <1>0, <2>1, <2>2 DEF Pool!Next, Pool!End
<1>3. ASSUME NEW d \in Device, Starts(d) PROVE Pool!Next
  <2>1. PICK s \in Sets :
             /\ gateway[d] = NoGateway
             /\ \/ existing_gateways(d) = {} /\ s \in gateway_sets
                \/ s \in existing_gateways(d)
             /\ gateway' = [gateway EXCEPT ![d] = s]
    BY <1>3, StartsEffect
  <2>2. Pool!GroupSets(d) = existing_gateways(d)
    BY Holders DEF Pool!GroupSets, Pool!running
  <2>3. s # NoGateway
    BY ConstantsAssumption DEF Sets, NoGateway
  <2>4. s \in gateway_sets => \A e \in Device : gateway[e] # s
    BY <2>3 DEF IInv, PoolInv
  <2>5. d \notin Pool!running
    BY <2>1 DEF Pool!running
  <2>6. Pool!Cardinality(Pool!running) < MaxHosts
    <3>1. Pool!Cardinality(triggered) = Cardinality(triggered)
      BY DEF Pool!Cardinality, Cardinality, Pool!IsFiniteSet, IsFiniteSet
    <3>. QED  BY <1>0, <1>3, <3>1 DEF Starts, target_set_has_capacity
  <2>7. IF Pool!GroupSets(d) = {} THEN \A e \in Device : gateway[e] # s
        ELSE s \in Pool!GroupSets(d)
    BY <2>1, <2>2, <2>4
  <2>8. Pool!Start(d, s)
    BY <2>1, <2>5, <2>6, <2>7 DEF Pool!Start
  <2>. QED  BY <2>8 DEF Pool!Next
<1>. QED  BY <1>1, <1>2, <1>3, NextKind DEF StepKind

\* The runner implements the pool of gateway sets, whatever raises.
THEOREM RunnerImplementsPool == Spec => ImplementsPool
<1>1. Init => Pool!Init
  BY DEF Init, Pool!Init
<1>. QED  BY <1>1, PoolStep, Invariance, PTL DEF Spec, ImplementsPool, Pool!Spec
-----------------------------------------------------------------------------
(* Groups, capacity and traffic *)

GroupInv ==
    \A d, e \in Device :
        gateway[d] # NoGateway /\ gateway[e] # NoGateway =>
            (gateway[d] = gateway[e] <=> device_group_for(d) = device_group_for(e))

\* A device that starts joins its group or takes a free set, so no step puts
\* two groups on a set or a group on two.
LEMMA GroupStep == IInv /\ GroupInv /\ [Next]_vars => GroupInv'
<1>. SUFFICES ASSUME IInv, GroupInv, [Next]_vars PROVE GroupInv'
  OBVIOUS
<1>. gateway \in [Device -> Sets \cup {NoGateway}]
  BY DEF IInv, TypeOK
<1>1. CASE Keeps \/ Leaks
  BY <1>1 DEF Keeps, Leaks, GroupInv, device_group_for
<1>2. ASSUME NEW d \in Device, Ends(d) PROVE GroupInv'
  BY <1>2, EndsEffect DEF GroupInv, device_group_for
<1>3. ASSUME NEW d \in Device, Starts(d) PROVE GroupInv'
  <2>1. PICK s \in Sets :
             /\ gateway[d] = NoGateway
             /\ \/ existing_gateways(d) = {} /\ s \in gateway_sets
                \/ s \in existing_gateways(d)
             /\ gateway' = [gateway EXCEPT ![d] = s]
    BY <1>3, StartsEffect
  <2>2. \A e \in Device \ {d} : gateway[e] # NoGateway =>
            (gateway[e] = s <=> device_group_for(e) = device_group_for(d))
    <3>1. CASE existing_gateways(d) = {} /\ s \in gateway_sets
      <4>1. \A e \in Device : gateway[e] # NoGateway =>
                device_group_for(e) # device_group_for(d)
        BY <3>1, Holders
      <4>2. \A e \in Device : gateway[e] # NoGateway => gateway[e] # s
        BY <3>1 DEF IInv, PoolInv
      <4>. QED  BY <4>1, <4>2
    <3>2. CASE s \in existing_gateways(d)
      <4>1. PICK f \in Device : /\ gateway[f] = s /\ gateway[f] # NoGateway
                                /\ device_group_for(f) = device_group_for(d)
        BY <3>2, Holders
      <4>. QED  BY <4>1 DEF GroupInv
    <3>. QED  BY <2>1, <3>1, <3>2
  <2>. QED  BY <2>1, <2>2 DEF GroupInv, device_group_for
<1>. QED  BY <1>1, <1>2, <1>3, NextKind DEF StepKind

\* Two devices that run share a gateway set exactly when they are in the same
\* group (_create_gateway).
THEOREM Sequestered == Spec => []GroupsSequestered
<1>1. Init => GroupInv
  BY DEF Init, GroupInv
<1>2. IInv /\ GroupInv => GroupsSequestered
  BY DEF IInv, TypeOK, GroupInv, GroupsSequestered
<1>. QED  BY <1>1, <1>2, GroupStep, Invariance, PTL DEF Spec

\* Traffic of a port goes to the gateway of its device.
TrafficInv == port_targets = gateway

\* Every step that changes the gateway of a device directs its port as well.
LEMMA TrafficStep == IInv /\ TrafficInv /\ [Next]_vars => TrafficInv'
<1>. SUFFICES ASSUME IInv, TrafficInv, [Next]_vars PROVE TrafficInv'
  OBVIOUS
<1>1. CASE Keeps \/ Leaks
  BY <1>1 DEF Keeps, Leaks, TrafficInv
<1>2. ASSUME NEW d \in Device, Ends(d) PROVE TrafficInv'
  BY <1>2, EndsEffect DEF TrafficInv
<1>3. ASSUME NEW d \in Device, Starts(d) PROVE TrafficInv'
  BY <1>3, StartsEffect DEF TrafficInv
<1>. QED  BY <1>1, <1>2, <1>3, NextKind DEF StepKind

\* A port's traffic goes to a gateway set exactly as long as its device has a
\* host, and to the set of that device's gateway.
THEOREM TrafficIsDirected == Spec => []TrafficFollowsHost
<1>1. Init => TrafficInv
  BY DEF Init, TrafficInv
<1>2. IInv /\ TrafficInv => TrafficFollowsHost
  BY Holders DEF TrafficInv, TrafficFollowsHost
<1>. QED  BY <1>1, <1>2, TrafficStep, Invariance, PTL DEF Spec

\* A device starts only while there is room for it.
LEMMA CapacityStep == IInv /\ WithinCapacity /\ [Next]_vars => WithinCapacity'
<1>. SUFFICES ASSUME IInv, WithinCapacity, [Next]_vars PROVE WithinCapacity'
  OBVIOUS
<1>. DEFINE R == {d \in Device : gateway[d] # NoGateway}
<1>0. /\ triggered = R /\ IsFiniteSet(R) /\ Cardinality(R) \in Nat /\ MaxHosts \in Nat
      /\ gateway \in [Device -> Sets \cup {NoGateway}]
  <2>1. IsFiniteSet(R)
    BY FS_Subset, ConstantsAssumption
  <2>. QED  BY <2>1, Holders, FS_CardinalityType, ConstantsAssumption DEF IInv, TypeOK
<1>1. triggered' = {d \in Device : gateway'[d] # NoGateway}
  <2>1. (TypeOK /\ HostInv)'
    BY NextInv DEF IInv
  <2>. QED  BY <2>1 DEF triggered, HostInv, TypeOK
<1>2. CASE Keeps \/ Leaks
  BY <1>0, <1>1, <1>2 DEF Keeps, Leaks, WithinCapacity
<1>3. ASSUME NEW d \in Device, Ends(d) PROVE WithinCapacity'
  <2>1. triggered' \subseteq R
    BY <1>0, <1>1, <1>3, EndsEffect
  <2>2. Cardinality(triggered') <= Cardinality(R)
    BY <1>0, <2>1, FS_Subset
  <2>3. Cardinality(triggered') \in Nat
    BY <1>0, <2>1, FS_Subset, FS_CardinalityType
  <2>4. Cardinality(R) <= MaxHosts
    BY <1>0 DEF WithinCapacity
  <2>5. Cardinality(triggered') <= MaxHosts
    BY <1>0, <2>2, <2>3, <2>4
  <2>. QED  BY <2>5 DEF WithinCapacity
<1>4. ASSUME NEW d \in Device, Starts(d) PROVE WithinCapacity'
  <2>1. Cardinality(R) < MaxHosts
    BY <1>0, <1>4 DEF Starts, target_set_has_capacity
  <2>2. triggered' = R \cup {d} /\ d \notin R
    <3>1. \E s \in Sets : gateway[d] = NoGateway /\ gateway' = [gateway EXCEPT ![d] = s]
      BY <1>4, StartsEffect
    <3>2. NoGateway \notin Sets
      BY ConstantsAssumption DEF Sets, NoGateway
    <3>. QED  BY <1>0, <1>1, <3>1, <3>2
  <2>3. Cardinality(triggered') = Cardinality(R) + 1
    BY <1>0, <2>2, FS_AddElement
  <2>4. Cardinality(triggered') <= MaxHosts
    BY <1>0, <2>1, <2>3
  <2>. QED  BY <2>4 DEF WithinCapacity
<1>. QED  BY <1>2, <1>3, <1>4, NextKind DEF StepKind

\* No more devices run than max_hosts allows.
THEOREM CapacityHolds == Spec => []WithinCapacity
<1>1. Init => WithinCapacity
  <2>1. Init => triggered = {}
    BY DEF Init, triggered
  <2>2. Cardinality({}) = 0
    BY FS_EmptySet
  <2>3. 0 <= MaxHosts
    BY ConstantsAssumption
  <2>. QED  BY <2>1, <2>2, <2>3 DEF WithinCapacity
<1>. QED  BY <1>1, CapacityStep, Invariance, PTL DEF Spec
-----------------------------------------------------------------------------
(* No gateway set is lost *)

\* A gateway is live exactly while some device holds it, and its targets are
\* the devices that do.
AccountInv ==
    /\ gateway_sets = Sets \ live
    /\ \A s \in Sets : targets[s] = {d \in Device : gateway[d] = s}
    /\ live = {s \in Sets : targets[s] # {}}

\* A start makes a gateway live with its first target, an end retires it with
\* its last: without the two leaking faults the accounts stay balanced.
LEMMA AccountStep ==
    ASSUME Faults \cap {"stop_dhcp", "initialize"} = {},
           IInv, AccountInv, [Next]_vars
    PROVE  AccountInv'
<1>. /\ gateway \in [Device -> Sets \cup {NoGateway}]
     /\ targets \in [Sets -> SUBSET Device]
     /\ live \subseteq Sets /\ NoGateway \notin Sets
  BY ConstantsAssumption DEF IInv, TypeOK, Sets, NoGateway
<1>1. CASE Keeps \/ Leaks
  BY <1>1 DEF Keeps, Leaks, AccountInv
<1>2. ASSUME NEW d \in Device, Ends(d) PROVE AccountInv'
  <2>. DEFINE s == gateway[d]
  <2>1. /\ s \in Sets
        /\ gateway' = [gateway EXCEPT ![d] = NoGateway]
        /\ targets' = [targets EXCEPT ![s] = @ \ {d}]
        /\ IF targets[s] = {d}
           THEN gateway_sets' = gateway_sets \cup {s} /\ live' = live \ {s}
           ELSE UNCHANGED <<gateway_sets, live>>
    BY <1>2, EndsEffect
  <2>. HIDE DEF s
  <2>2. \A t \in Sets : targets'[t] = {e \in Device : gateway'[e] = t}
    BY <2>1 DEF AccountInv, s
  <2>3. \A t \in Sets \ {s} : targets'[t] = targets[t]
    BY <2>1
  <2>4. targets'[s] = targets[s] \ {d} /\ d \in targets[s]
    BY <2>1 DEF AccountInv, s
  <2>5. live' = {t \in Sets : targets'[t] # {}}
    BY <2>1, <2>3, <2>4 DEF AccountInv
  <2>6. gateway_sets' = Sets \ live'
    BY <2>1 DEF AccountInv
  <2>. QED  BY <2>2, <2>5, <2>6 DEF AccountInv
<1>3. ASSUME NEW d \in Device, Starts(d) PROVE AccountInv'
  <2>1. PICK s \in Sets :
             /\ gateway[d] = NoGateway
             /\ gateway' = [gateway EXCEPT ![d] = s]
             /\ targets' = [targets EXCEPT ![s] = @ \cup {d}]
             /\ gateway_sets' = gateway_sets \ {s}
             /\ live' = live \cup {s}
    BY <1>3, StartsEffect
  <2>2. \A t \in Sets : targets'[t] = {e \in Device : gateway'[e] = t}
    BY <2>1 DEF AccountInv
  <2>3. live' = {t \in Sets : targets'[t] # {}}
    BY <2>1 DEF AccountInv
  <2>4. gateway_sets' = Sets \ live'
    BY <2>1 DEF AccountInv
  <2>. QED  BY <2>2, <2>3, <2>4 DEF AccountInv
<1>. QED  BY <1>1, <1>2, <1>3, NextKind DEF StepKind

\* If neither stop_dhcp_response nor ConnectedHost.initialize raises, each
\* gateway set is at all times either free or that of one live gateway whose
\* targets are the devices that hold it.
THEOREM NoSetIsLost ==
    ASSUME Faults \cap {"stop_dhcp", "initialize"} = {}
    PROVE  Spec => []SetsAccounted
<1>1. Init => AccountInv
  <2>. SUFFICES ASSUME Init PROVE AccountInv
    OBVIOUS
  <2>1. NoGateway \notin Sets
    BY ConstantsAssumption DEF Sets, NoGateway
  <2>. QED  BY <2>1 DEF Init, AccountInv
<1>2. IInv /\ AccountInv => SetsAccounted
  <2>. SUFFICES ASSUME IInv, AccountInv PROVE SetsAccounted
    OBVIOUS
  <2>1. \A s \in Sets : get_by_gateway(s) = {d \in Device : gateway[d] = s}
    <3>1. NoGateway \notin Sets
      BY ConstantsAssumption DEF Sets, NoGateway
    <3>2. \A d \in Device : gateway[d] \in Sets => d \in devices
      BY <3>1 DEF IInv, HostInv
    <3>. QED  BY <3>2 DEF get_by_gateway, IInv, TypeOK
  <2>. QED  BY <2>1 DEF AccountInv, SetsAccounted
<1>3. IInv /\ AccountInv /\ [Next]_vars => AccountInv'
  BY AccountStep
<1>. QED  BY <1>1, <1>2, <1>3, Invariance, PTL DEF Spec
-----------------------------------------------------------------------------
(* Ports *)

\* A registered device without a host is on an active port; so that a port
\* that goes down under it can not be mistaken for one that flaps, no active
\* port is flapping.
PortInv == TriggerPortActive /\ flapping \cap active = {}

\* A step leaves a device registered without a host only if it was so before
\* or its port is active.
Fresh ==
    \A e \in devices' : host'[e] = "none" => e \in active \/ (e \in devices /\ host[e] = "none")

\* An activation on an active port, whatever its outcome.
LEMMA ActivateFresh ==
    ASSUME IInv, NEW d \in Device, host[d] = "none", d \in active, target_set_activate(d)
    PROVE  Fresh
<1>1. devices' \subseteq devices \cup {d}
  BY DEF target_set_activate, ActivateWithoutGateway, ActivateTooLate, ActivateRaises,
         ActivateStopDhcpRaises, ActivateConstructFails, ActivateInitializeFails,
         ActivateStarts, Register, target_set_finalize
<1>2. \A e \in Device \ {d} : host'[e] = host[e]
  BY ActivateEffect DEF Activation
<1>3. devices \subseteq Device
  BY DEF IInv, TypeOK
<1>. QED  BY <1>1, <1>2, <1>3 DEF Fresh

\* A trigger comes from a learn event on an active port or from the idle
\* handler for a registered device.
LEMMA TriggerFresh ==
    ASSUME IInv, PortInv, NEW d \in Device, d \in active \/ d \in devices, target_set_trigger(d)
    PROVE  Fresh /\ UNCHANGED <<active, flapping>>
<1>1. CASE ~TriggerSuppressed(d) /\ target_set_has_capacity /\ target_set_activate(d)
  <2>1. host[d] = "none"
    BY <1>1 DEF TriggerSuppressed
  <2>2. d \in active
    BY <2>1 DEF PortInv, TriggerPortActive, triggered
  <2>3. UNCHANGED <<active, flapping>>
    BY <1>1 DEF target_set_activate, portVars
  <2>. QED  BY <1>1, <2>1, <2>2, <2>3, ActivateFresh
<1>2. CASE Register(d) /\ UNCHANGED <<host, portVars>>
  BY <1>2 DEF Register, Fresh, portVars
<1>. QED  BY <1>1, <1>2 DEF target_set_trigger

\* The end of a target set removes the device.
LEMMA EndFresh ==
    ASSUME IInv, NEW d \in Device, NEW failed \in BOOLEAN, target_set_complete(d, failed)
    PROVE  Fresh
<1>1. DeviceType
  BY TypeGroups DEF IInv
<1>. QED  BY <1>1 DEF target_set_complete, target_set_finalize, DeviceType, Fresh

\* Every step but those that move a port leaves active and flapping alone, and
\* every step registers no device without a host on a port that is not active.
LEMMA NextFresh ==
    ASSUME IInv, PortInv, [Next]_vars
    PROVE  /\ Fresh
           /\ \/ UNCHANGED <<active, flapping>>
              \/ \E d \in Device : \/ activate_port(d) \/ PortInactive(d)
                                   \/ active' = active /\ flapping' = flapping \ {d}
<1>. SnapshotsHaveHosts /\ QueueSound /\ queue \in Seq(Device) /\ HostInv
     /\ DeviceType /\ GatewayType
  BY TypeGroups DEF IInv
<1>1. CASE UNCHANGED vars
  BY <1>1 DEF Fresh, vars, deviceVars, portVars
<1>2. CASE Idle
  <2>1. CASE IdleStart \/ IdleNext \/ IdleExit
    BY <2>1 DEF IdleStart, IdleNext, IdleExit, Fresh, deviceVars, portVars
  <2>2. ASSUME NEW d \in Device, IdleComplete(d) \/ IdleError(d)
        PROVE  Fresh /\ UNCHANGED <<active, flapping>>
    BY <2>2, EndFresh DEF IdleComplete, IdleError, target_set_error, portVars
  <2>3. ASSUME NEW d \in Device, IdlePrepare(d) PROVE Fresh /\ UNCHANGED <<active, flapping>>
    <3>. DEFINE h == [host EXCEPT ![d] = "WAITING"]
    <3>1. h \in [Device -> Phase \cup {"none"}] /\ host[d] = "INIT"
      BY <2>3 DEF IdlePrepare, DeviceType, Phase
    <3>2. gateway[d] \in Sets
      BY <3>1 DEF HostInv, DeviceType
    <3>3. \A e \in Device : host'[e] = "none" <=> h[e] = "none"
      <4>. HIDE DEF h
      <4>1. \/ CheckReturns(d, h, all_ips', ip_info', dhcp_ready')
            \/ CheckRaises(d, h, all_ips', ip_info', dhcp_ready')
        BY <2>3 DEF IdlePrepare, h
      <4>. QED  BY <3>1, <3>2, <4>1, CheckEffect
    <3>4. devices' = devices /\ UNCHANGED <<active, flapping>>
      BY <2>3 DEF IdlePrepare, portVars
    <3>. QED  BY <3>1, <3>3, <3>4 DEF Fresh, DeviceType
  <2>4. ASSUME NEW d \in Device, IdleHost(d) PROVE Fresh /\ UNCHANGED <<active, flapping>>
    BY <2>4 DEF IdleHost, Fresh, DeviceType, portVars
  <2>5. ASSUME NEW d \in Device, IdleTrigger(d) PROVE Fresh /\ UNCHANGED <<active, flapping>>
    BY <2>5, TriggerFresh DEF IdleTrigger, SnapshotsHaveHosts
  <2>6. CASE target_set_consider
    <3>1. CASE queue # <<>> /\ target_set_has_capacity
      <4>. DEFINE d == Head(queue)
      <4>1. target_set_activate(d)
        BY <2>6, <3>1 DEF target_set_consider
      <4>2. 1 \in DOMAIN queue /\ d = queue[1] /\ d \in Device
        BY <3>1
      <4>3. d \in devices /\ host[d] = "none"
        BY <4>2 DEF QueueSound, triggered
      <4>4. d \in active
        BY <4>3 DEF PortInv, TriggerPortActive, triggered
      <4>5. UNCHANGED <<active, flapping>>
        BY <4>1 DEF target_set_activate, portVars
      <4>. QED  BY <4>1, <4>2, <4>3, <4>4, <4>5, ActivateFresh
    <3>2. CASE ~(queue # <<>> /\ target_set_has_capacity)
      BY <2>6, <3>2 DEF target_set_consider, Fresh, deviceVars, portVars
    <3>. QED  BY <3>1, <3>2
  <2>. QED  BY <1>2, <2>1, <2>2, <2>3, <2>4, <2>5, <2>6 DEF Idle
<1>3. CASE Events
  <2>1. ASSUME NEW up \in BOOLEAN, SystemPortState(up)
        PROVE  Fresh /\ UNCHANGED <<active, flapping>>
    BY <2>1 DEF SystemPortState, Fresh, deviceVars, portVars
  <2>2. ASSUME NEW d \in Device, activate_port(d) \/ PortInactive(d) PROVE Fresh
    BY <2>2 DEF activate_port, PortInactive, Fresh, deviceVars
  <2>3. ASSUME NEW d \in Device, handle_port_learn(d)
        PROVE  Fresh /\ UNCHANGED <<active, flapping>>
    BY <2>3, TriggerFresh DEF handle_port_learn
  <2>4. ASSUME NEW s \in Sets, dhcp_error(s) PROVE Fresh /\ UNCHANGED <<active, flapping>>
    BY <2>4 DEF dhcp_error, Fresh, deviceVars, portVars
  <2>5. ASSUME NEW s \in Sets, NEW d \in Device, NEW ack \in BOOLEAN, ip_notify(d, s, ack)
        PROVE  Fresh /\ UNCHANGED <<active, flapping>>
    <3>1. devices' = devices /\ UNCHANGED <<active, flapping>>
      BY <2>5 DEF ip_notify, portVars
    <3>2. CASE host' = host
      BY <3>1, <3>2 DEF Fresh
    <3>3. CASE /\ host[d] # "none"
               /\ \/ CheckReturns(d, host, all_ips', ip_info', dhcp_ready)
                  \/ CheckRaises(d, host, all_ips', ip_info', dhcp_ready)
      <4>1. host \in [Device -> Phase \cup {"none"}] /\ gateway[d] \in Sets
        BY <3>3 DEF HostInv, DeviceType
      <4>2. \A e \in Device : host'[e] = "none" <=> host[e] = "none"
        BY <3>3, <4>1, CheckEffect
      <4>. QED  BY <3>1, <4>2 DEF Fresh, DeviceType
    <3>. QED  BY <2>5, <3>2, <3>3 DEF ip_notify
  <2>6. ASSUME NEW d \in Device, HostDone(d) PROVE Fresh /\ UNCHANGED <<active, flapping>>
    BY <2>6 DEF HostDone, Fresh, DeviceType, portVars
  <2>7. ASSUME NEW d \in Device, HostError(d) PROVE Fresh /\ UNCHANGED <<active, flapping>>
    BY <2>7, EndFresh DEF HostError, target_set_error, portVars
  <2>8. ASSUME NEW d \in Device, reap_stale_ports(d)
        PROVE  Fresh /\ active' = active /\ flapping' = flapping \ {d}
    BY <2>8, EndFresh DEF reap_stale_ports, target_set_error
  <2>. QED  BY <1>3, <2>1, <2>2, <2>3, <2>4, <2>5, <2>6, <2>7, <2>8 DEF Events
<1>4. CASE Ending
  <2>1. ASSUME NEW d \in Device, Terminate(d) PROVE Fresh /\ UNCHANGED <<active, flapping>>
    BY <2>1, EndFresh DEF Terminate, target_set_error, portVars
  <2>2. CASE TerminateDone \/ MainLoopEnds \/ \E d \in Device : MainLoopRaises(d)
    BY <2>2 DEF TerminateDone, MainLoopEnds, MainLoopRaises, Fresh, deviceVars, portVars
  <2>. QED  BY <1>4, <2>1, <2>2 DEF Ending
<1>. QED  BY <1>1, <1>2, <1>3, <1>4 DEF Next, Stopped

\* No step takes the active port from a device that has no host.
LEMMA PortStep == IInv /\ PortInv /\ [Next]_vars => PortInv'
<1>. SUFFICES ASSUME IInv, PortInv, [Next]_vars PROVE PortInv'
  OBVIOUS
<1>1. Fresh
  BY NextFresh
<1>. DeviceType /\ HostInv
  BY TypeGroups DEF IInv
<1>2. CASE UNCHANGED <<active, flapping>>
  BY <1>1, <1>2 DEF Fresh, PortInv, TriggerPortActive, triggered
<1>3. ASSUME NEW d \in Device, activate_port(d) PROVE PortInv'
  BY <1>1, <1>3 DEF activate_port, Fresh, PortInv, TriggerPortActive, triggered
<1>4. ASSUME NEW d \in Device, PortInactive(d) PROVE PortInv'
  <2>1. devices' = devices /\ host' = host
    BY <1>4 DEF PortInactive, deviceVars
  <2>2. flapping' \cap active' = {}
    BY <1>4 DEF PortInactive, PortInv, triggered
  <2>3. d \in devices /\ host[d] = "none" => d \in active'
    <3>. SUFFICES ASSUME d \in devices, host[d] = "none" PROVE d \in active'
      OBVIOUS
    <3>1. d \in active /\ d \notin flapping /\ d \notin triggered /\ gateway[d] = NoGateway
      BY DEF PortInv, TriggerPortActive, triggered, HostInv
    <3>. QED  BY <1>4, <3>1 DEF PortInactive
  <2>4. \A e \in active \ {d} : e \in active'
    BY <1>4 DEF PortInactive
  <2>. QED  BY <2>1, <2>2, <2>3, <2>4 DEF PortInv, TriggerPortActive, triggered
<1>5. ASSUME NEW d \in Device, active' = active, flapping' = flapping \ {d} PROVE PortInv'
  BY <1>1, <1>5 DEF Fresh, PortInv, TriggerPortActive, triggered
<1>. QED  BY <1>2, <1>3, <1>4, <1>5, NextFresh

\* The assertion of _target_set_activate that the port is active never fails.
THEOREM PortsAreActive == Spec => []TriggerPortActive
<1>1. Init => PortInv
  BY DEF Init, PortInv, TriggerPortActive
<1>2. PortInv => TriggerPortActive
  BY DEF PortInv
<1>. QED  BY <1>1, <1>2, PortStep, Invariance, PTL DEF Spec
-----------------------------------------------------------------------------
(* The phases of the hosts, and the activation of a group *)

\* What a step may do to the phase of one host.
HostMoves ==
    \A e \in Device : \/ host'[e] \in {host[e], "none"}
                      \/ <<host[e], host'[e]>> \in Phases!Moves

\* A device becomes a target of a gateway open to it, or leaves it to the
\* gateway alone.
Attaches(d) ==
    /\ UNCHANGED <<ready, activated>>
    /\ \E s \in OpenGateways(d) :
         /\ targets' \in {targets, [targets EXCEPT ![s] = @ \cup {d}]}
         /\ gateway_sets' = gateway_sets \ {s}

\* A device is found ready.  Its gateway is activated only if the devices that
\* are ready are as many as the group has, or no more tests are to be run.
Readies(d) ==
    /\ gateway[d] \in Sets
    /\ UNCHANGED <<targets, gateway_sets>>
    /\ \/ UNCHANGED <<ready, activated>>
       \/ /\ ready' = [ready EXCEPT ![gateway[d]] = @ \cup {d}]
          /\ \/ activated' = activated
             \/ /\ activated' = activated \cup {gateway[d]}
                /\ \/ ~run_tests
                   \/ Cardinality(ready[gateway[d]] \cup {d}) + stale[gateway[d]]
                        = device_group_size(d)

GateKind ==
    \/ UNCHANGED <<ready, activated, targets, gateway_sets>>
    \/ \E d \in Device : Ends(d) \/ Attaches(d) \/ Readies(d)

\* _check_and_activate_gateway triggers hosts that wait, and activates the
\* gateway as Readies says.
LEMMA CheckMoves ==
    ASSUME GatewayType, NEW d \in Device, gateway[d] \in Sets,
           NEW h \in [Device -> Phase \cup {"none"}], NEW ips, NEW known, NEW waiting,
           CheckReturns(d, h, ips, known, waiting) \/ CheckRaises(d, h, ips, known, waiting),
           UNCHANGED <<targets, gateway_sets>>
    PROVE  /\ \A e \in Device : host'[e] = h[e] \/ (h[e] = "WAITING" /\ host'[e] = "RUN")
           /\ DOMAIN host' = Device
           /\ Readies(d)
<1>. DEFINE s == gateway[d]
            r == ready[s] \cup {d}
<1>. s \in Sets /\ r \subseteq Device
  BY DEF GatewayType
<1>1. CASE CheckReturns(d, h, ips, known, waiting)
  <2>1. /\ DOMAIN host' = Device
        /\ \A e \in Device : host'[e] = h[e] \/ (h[e] = "WAITING" /\ host'[e] = "RUN")
    BY <1>1 DEF CheckReturns, trigger_ready
  <2>2. Readies(d)
    BY <1>1 DEF CheckReturns, Readies
  <2>. QED  BY <2>1, <2>2
<1>2. CASE CheckRaises(d, h, ips, known, waiting)
  <2>1. /\ DOMAIN host' = Device
        /\ \A e \in Device : host'[e] = h[e] \/ (h[e] = "WAITING" /\ host'[e] = "RUN")
    BY <1>2 DEF CheckRaises, trigger_ready
  <2>2. Readies(d)
    BY <1>2 DEF CheckRaises, Readies
  <2>. QED  BY <2>1, <2>2
<1>. QED  BY <1>1, <1>2

\* An activation gives its device a new host or none.
LEMMA ActivateMoves ==
    ASSUME IInv, NEW d \in Device, host[d] = "none", target_set_activate(d)
    PROVE  HostMoves /\ GateKind
<1>. DeviceType
  BY TypeGroups DEF IInv
<1>1. CASE ActivateWithoutGateway(d)
  BY <1>1 DEF ActivateWithoutGateway, HostMoves, GateKind, gatewayVars
<1>2. CASE ActivateTooLate(d)
  BY <1>2 DEF ActivateTooLate, HostMoves, GateKind, gatewayVars
<1>3. CASE ActivateRaises(d)
  BY <1>3 DEF ActivateRaises, HostMoves, GateKind, gatewayVars
<1>4. CASE ActivateStopDhcpRaises(d)
  BY <1>4 DEF ActivateStopDhcpRaises, HostMoves, GateKind, Attaches
<1>5. CASE ActivateConstructFails(d)
  <2>1. host' = host
    BY <1>5, AbortEffect DEF ActivateConstructFails
  <2>. QED  BY <1>5, <2>1 DEF ActivateConstructFails, HostMoves, GateKind, gatewayVars
<1>6. CASE ActivateInitializeFails(d)
  <2>1. host' = host
    BY <1>6, AbortEffect DEF ActivateInitializeFails
  <2>. QED  BY <1>6, <2>1 DEF ActivateInitializeFails, attach_target, HostMoves, GateKind, Attaches
<1>7. CASE ActivateStarts(d)
  <2>1. HostMoves
    BY <1>7 DEF ActivateStarts, HostMoves, DeviceType, Phases!Moves
  <2>2. GateKind
    BY <1>7 DEF ActivateStarts, attach_target, GateKind, Attaches
  <2>. QED  BY <2>1, <2>2
<1>. QED
  BY <1>1, <1>2, <1>3, <1>4, <1>5, <1>6, <1>7 DEF target_set_activate

\* So does a trigger.
LEMMA TriggerMoves ==
    ASSUME IInv, NEW d \in Device, target_set_trigger(d) PROVE HostMoves /\ GateKind
<1>1. CASE ~TriggerSuppressed(d) /\ target_set_activate(d)
  BY <1>1, ActivateMoves DEF TriggerSuppressed
<1>2. CASE UNCHANGED <<host, gatewayVars>>
  BY <1>2 DEF HostMoves, GateKind, gatewayVars
<1>. QED  BY <1>1, <1>2 DEF target_set_trigger

\* The end of a target set takes its host away.
LEMMA EndMoves ==
    ASSUME IInv, NEW d \in triggered, NEW failed \in BOOLEAN, target_set_complete(d, failed)
    PROVE  HostMoves /\ GateKind
<1>1. d \in Device /\ DeviceType
  BY TypeGroups DEF IInv, DeviceType, triggered
<1>2. HostMoves
  BY <1>1 DEF target_set_complete, target_set_finalize, DeviceType, HostMoves
<1>. QED  BY <1>1, <1>2 DEF GateKind, Ends

\* Every step moves hosts and readies devices in these ways only.
LEMMA NextMoves == IInv /\ [Next]_vars => HostMoves /\ GateKind
<1>. SUFFICES ASSUME IInv, [Next]_vars PROVE HostMoves /\ GateKind
  OBVIOUS
<1>. SnapshotsHaveHosts /\ QueueSound /\ queue \in Seq(Device) /\ HostInv
     /\ DeviceType /\ GatewayType
  BY TypeGroups DEF IInv
<1>1. CASE UNCHANGED <<host, gatewayVars>>
  BY <1>1 DEF HostMoves, GateKind, gatewayVars
<1>2. CASE Idle
  <2>1. CASE IdleStart \/ IdleNext \/ IdleExit
    BY <1>1, <2>1 DEF IdleStart, IdleNext, IdleExit, deviceVars
  <2>2. ASSUME NEW d \in Device, IdleComplete(d) \/ IdleError(d) PROVE HostMoves /\ GateKind
    BY <2>2, EndMoves
       DEF IdleComplete, InHosts, IdleError, target_set_error, SnapshotsHaveHosts
  <2>3. ASSUME NEW d \in Device, IdlePrepare(d) PROVE HostMoves /\ GateKind
    <3>. DEFINE h == [host EXCEPT ![d] = "WAITING"]
    <3>1. h \in [Device -> Phase \cup {"none"}] /\ host[d] = "INIT"
      BY <2>3 DEF IdlePrepare, DeviceType, Phase
    <3>2. gateway[d] \in Sets
      BY <3>1 DEF HostInv, DeviceType
    <3>3. /\ \A e \in Device : host'[e] = h[e] \/ (h[e] = "WAITING" /\ host'[e] = "RUN")
          /\ Readies(d)
      <4>. HIDE DEF h
      <4>1. /\ \/ CheckReturns(d, h, all_ips', ip_info', dhcp_ready')
               \/ CheckRaises(d, h, all_ips', ip_info', dhcp_ready')
            /\ UNCHANGED <<targets, gateway_sets>>
        BY <2>3 DEF IdlePrepare, h
      <4>. QED  BY <3>1, <3>2, <4>1, CheckMoves
    <3>4. HostMoves
      BY <3>1, <3>3 DEF HostMoves, DeviceType, Phases!Moves
    <3>. QED  BY <3>3, <3>4 DEF GateKind
  <2>4. ASSUME NEW d \in Device, IdleHost(d) PROVE HostMoves /\ GateKind
    <3>1. HostMoves
      BY <2>4 DEF IdleHost, HostMoves, DeviceType, Phases!Moves
    <3>. QED  BY <2>4, <3>1 DEF IdleHost, GateKind, gatewayVars
  <2>5. ASSUME NEW d \in Device, IdleTrigger(d) PROVE HostMoves /\ GateKind
    BY <2>5, TriggerMoves DEF IdleTrigger
  <2>6. CASE target_set_consider
    <3>1. CASE queue # <<>> /\ target_set_has_capacity
      <4>. DEFINE d == Head(queue)
      <4>1. target_set_activate(d)
        BY <2>6, <3>1 DEF target_set_consider
      <4>2. 1 \in DOMAIN queue /\ d = queue[1] /\ d \in Device
        BY <3>1
      <4>3. host[d] = "none"
        BY <4>2 DEF QueueSound, triggered
      <4>. QED  BY <4>1, <4>2, <4>3, ActivateMoves
    <3>2. CASE ~(queue # <<>> /\ target_set_has_capacity)
      BY <1>1, <2>6, <3>2 DEF target_set_consider, deviceVars
    <3>. QED  BY <3>1, <3>2
  <2>. QED  BY <1>2, <2>1, <2>2, <2>3, <2>4, <2>5, <2>6 DEF Idle
<1>3. CASE Events
  <2>1. ASSUME NEW up \in BOOLEAN, SystemPortState(up) PROVE HostMoves /\ GateKind
    BY <1>1, <2>1 DEF SystemPortState, deviceVars
  <2>2. ASSUME NEW d \in Device, activate_port(d) \/ PortInactive(d) PROVE HostMoves /\ GateKind
    BY <1>1, <2>2 DEF activate_port, PortInactive, deviceVars
  <2>3. ASSUME NEW d \in Device, handle_port_learn(d) PROVE HostMoves /\ GateKind
    BY <2>3, TriggerMoves DEF handle_port_learn
  <2>4. ASSUME NEW s \in Sets, dhcp_error(s) PROVE HostMoves /\ GateKind
    BY <2>4 DEF dhcp_error, HostMoves, GateKind, deviceVars
  <2>5. ASSUME NEW s \in Sets, NEW d \in Device, NEW ack \in BOOLEAN, ip_notify(d, s, ack)
        PROVE  HostMoves /\ GateKind
    <3>1. UNCHANGED <<targets, gateway_sets>>
      BY <2>5 DEF ip_notify
    <3>2. CASE UNCHANGED <<host, ready, activated>>
      BY <3>1, <3>2 DEF HostMoves, GateKind
    <3>3. CASE /\ host[d] # "none"
               /\ \/ CheckReturns(d, host, all_ips', ip_info', dhcp_ready)
                  \/ CheckRaises(d, host, all_ips', ip_info', dhcp_ready)
      <4>1. host \in [Device -> Phase \cup {"none"}] /\ gateway[d] \in Sets
        BY <3>3 DEF HostInv, DeviceType
      <4>2. /\ \A e \in Device : host'[e] = host[e] \/ (host[e] = "WAITING" /\ host'[e] = "RUN")
            /\ Readies(d)
        BY <3>1, <3>3, <4>1, CheckMoves
      <4>3. HostMoves
        BY <4>2 DEF HostMoves, Phases!Moves
      <4>. QED  BY <4>2, <4>3 DEF GateKind
    <3>. QED  BY <2>5, <3>2, <3>3 DEF ip_notify
  <2>6. ASSUME NEW d \in Device, HostDone(d) PROVE HostMoves /\ GateKind
    <3>1. HostMoves
      BY <2>6 DEF HostDone, HostMoves, DeviceType, Phases!Moves
    <3>. QED  BY <2>6, <3>1 DEF HostDone, GateKind, gatewayVars
  <2>7. ASSUME NEW d \in Device, HostError(d) \/ reap_stale_ports(d) PROVE HostMoves /\ GateKind
    BY <2>7, EndMoves DEF HostError, reap_stale_ports, target_set_error
  <2>. QED  BY <1>3, <2>1, <2>2, <2>3, <2>4, <2>5, <2>6, <2>7 DEF Events
<1>4. CASE Ending
  <2>1. ASSUME NEW d \in Device, Terminate(d) PROVE HostMoves /\ GateKind
    BY <2>1, EndMoves DEF Terminate, target_set_error, SnapshotsHaveHosts
  <2>2. CASE TerminateDone \/ MainLoopEnds \/ \E d \in Device : MainLoopRaises(d)
    BY <1>1, <2>2 DEF TerminateDone, MainLoopEnds, MainLoopRaises, deviceVars
  <2>. QED  BY <1>4, <2>1, <2>2 DEF Ending
<1>. QED  BY <1>1, <1>2, <1>3, <1>4 DEF Next, Stopped, vars, deviceVars

\* The runner takes each host through the phases of HostPhases: it triggers
\* none that has ended or is past waiting.
THEOREM RunnerImplementsPhases == Spec => ImplementsPhases
<1>1. Init => Phases!Init
  BY DEF Init, Phases!Init
<1>2. IInv /\ [Next]_vars => [Phases!Next]_host
  <2>. SUFFICES ASSUME IInv, [Next]_vars PROVE Phases!Next
    OBVIOUS
  <2>1. DOMAIN host' = Device
    BY NextInv DEF IInv, TypeOK
  <2>2. HostMoves
    BY NextMoves
  <2>. QED  BY <2>1, <2>2 DEF HostMoves, Phases!Next
<1>. QED  BY <1>1, <1>2, Invariance, PTL DEF Spec, ImplementsPhases, Phases!Spec

\* A free set has no targets, the devices that are ready are targets, and the
\* targets of a gateway are all of one group, those left behind by an
\* activation that raised included.
MemberInv ==
    \A s \in Sets :
        /\ s \in gateway_sets => targets[s] = {}
        /\ ready[s] \subseteq targets[s]
        /\ \A d, e \in targets[s] : device_group_for(d) = device_group_for(e)

\* A device is attached to a free set or to the gateway of its own group, and
\* only a target is ever ready.
LEMMA MemberStep == IInv /\ MemberInv /\ [Next]_vars => MemberInv'
<1>. SUFFICES ASSUME IInv, MemberInv, [Next]_vars PROVE MemberInv'
  OBVIOUS
<1>. GatewayType /\ PoolInv /\ NoGateway \notin Sets
  BY TypeGroups, ConstantsAssumption DEF IInv, Sets, NoGateway
<1>1. CASE UNCHANGED <<ready, activated, targets, gateway_sets>>
  BY <1>1 DEF MemberInv, device_group_for
<1>2. ASSUME NEW d \in Device, Ends(d) PROVE MemberInv'
  <2>. DEFINE s == gateway[d]
  <2>1. /\ s \in Sets
        /\ targets' = [targets EXCEPT ![s] = @ \ {d}]
        /\ gateway_sets' = gateway_sets
             \/ (targets[s] = {d} /\ gateway_sets' = gateway_sets \cup {s})
    BY <1>2, EndsEffect
  <2>2. ready' = [ready EXCEPT ![s] = IF targets[s] = {d} THEN {} ELSE @ \ {d}]
    BY <1>2 DEF Ends, target_set_complete, detach_gateway
  <2>. HIDE DEF s
  <2>3. ASSUME NEW t \in Sets
        PROVE  /\ targets'[t] \subseteq targets[t] /\ ready'[t] \subseteq targets'[t]
               /\ t \in gateway_sets' => targets'[t] = {}
    <3>1. ready[t] \subseteq targets[t] /\ (t \in gateway_sets => targets[t] = {})
      BY DEF MemberInv
    <3>2. CASE t = s
      <4>1. /\ targets'[t] = targets[t] \ {d}
            /\ ready'[t] = IF targets[t] = {d} THEN {} ELSE ready[t] \ {d}
        BY <2>1, <2>2, <3>2 DEF GatewayType
      <4>. QED  BY <2>1, <3>1, <3>2, <4>1
    <3>3. CASE t # s
      <4>1. targets'[t] = targets[t] /\ ready'[t] = ready[t]
        BY <2>1, <2>2, <3>3 DEF GatewayType
      <4>. QED  BY <2>1, <3>1, <3>3, <4>1
    <3>. QED  BY <3>2, <3>3
  <2>. QED  BY <2>3 DEF MemberInv, device_group_for
<1>3. ASSUME NEW d \in Device, Attaches(d) PROVE MemberInv'
  <2>1. PICK s \in OpenGateways(d) :
             /\ targets' \in {targets, [targets EXCEPT ![s] = @ \cup {d}]}
             /\ gateway_sets' = gateway_sets \ {s}
    BY <1>3 DEF Attaches
  <2>2. s \in Sets /\ ready' = ready
    BY <1>3, <2>1, OpenIsSet DEF Attaches
  <2>3. \A e \in targets[s] : device_group_for(e) = device_group_for(d)
    <3>1. CASE s \in gateway_sets
      BY <2>2, <3>1 DEF MemberInv
    <3>2. CASE s \in existing_gateways(d)
      <4>1. PICK f \in Device : /\ gateway[f] = s /\ gateway[f] # NoGateway
                                /\ device_group_for(f) = device_group_for(d)
        BY <3>2, Holders
      <4>2. f \in targets[s]
        BY <4>1 DEF PoolInv
      <4>. QED  BY <2>2, <4>1, <4>2 DEF MemberInv
    <3>. QED  BY <2>1, <3>1, <3>2, OpenIsSet
  <2>4. \A t \in Sets : \A e, f \in targets'[t] : device_group_for(e) = device_group_for(f)
    BY <2>1, <2>2, <2>3 DEF MemberInv, GatewayType
  <2>5. ASSUME NEW t \in Sets
        PROVE  ready[t] \subseteq targets'[t] /\ (t \in gateway_sets' => targets'[t] = {})
    <3>1. ready[t] \subseteq targets[t] /\ (t \in gateway_sets => targets[t] = {})
      BY DEF MemberInv
    <3>2. targets'[t] = targets[t] \/ (t = s /\ targets'[t] = targets[t] \cup {d})
      BY <2>1, <2>2 DEF GatewayType
    <3>. QED  BY <2>1, <3>1, <3>2
  <2>. QED  BY <2>2, <2>4, <2>5 DEF MemberInv, device_group_for
<1>4. ASSUME NEW d \in Device, Readies(d) PROVE MemberInv'
  <2>1. d \in targets[gateway[d]]
    BY <1>4 DEF Readies, PoolInv
  <2>2. /\ UNCHANGED <<targets, gateway_sets>>
        /\ ready' = ready \/ ready' = [ready EXCEPT ![gateway[d]] = @ \cup {d}]
    BY <1>4 DEF Readies
  <2>3. \A s \in Sets : ready'[s] \subseteq targets[s]
    <3>1. CASE ready' = ready
      BY <3>1 DEF MemberInv
    <3>2. CASE ready' = [ready EXCEPT ![gateway[d]] = @ \cup {d}]
      BY <2>1, <3>2 DEF MemberInv, GatewayType
    <3>. QED  BY <2>2, <3>1, <3>2
  <2>. QED  BY <2>2, <2>3 DEF MemberInv, device_group_for
<1>. QED  BY <1>1, <1>2, <1>3, <1>4, NextMoves DEF GateKind

\* As many ready devices as a group has, all of them of that group, are the
\* whole group.
LEMMA WholeGroup ==
    ASSUME NEW d \in Device, NEW r \in SUBSET Device, d \in r,
           \A e \in r : device_group_for(e) = device_group_for(d),
           Cardinality(r) = device_group_size(d)
    PROVE  {e \in DOMAIN DeviceSpecs : DeviceSpecs[e] = device_group_for(d)} \subseteq r
<1>. DEFINE members == {e \in DOMAIN DeviceSpecs : DeviceSpecs[e] = device_group_for(d)}
<1>. SUFFICES ASSUME members # {} PROVE members \subseteq r
  OBVIOUS
<1>1. members \subseteq Device /\ IsFiniteSet(members)
  BY FS_Subset, ConstantsAssumption
<1>2. device_group_for(d) \notin Device
  BY ConstantsAssumption
<1>3. r \subseteq members
  <2>. SUFFICES ASSUME NEW e \in r PROVE e \in members
    OBVIOUS
  <2>. QED  BY <1>2 DEF device_group_for
<1>4. Cardinality(r) = Cardinality(members)
  BY DEF device_group_size
<1>. QED  BY <1>1, <1>3, <1>4, FS_Subset

\* A gateway none of whose members has left is activated only with the whole
\* group attached, or when no more tests are to be run.
THEOREM GroupsWait == Spec => WaitsForGroup
<1>1. Init => MemberInv
  BY DEF Init, MemberInv
<1>2. IInv /\ MemberInv /\ [Next]_vars =>
        [\A s \in activated' \ activated : \A d \in targets[s] :
          stale[s] = 0 /\ run_tests =>
            {e \in DOMAIN DeviceSpecs : DeviceSpecs[e] = device_group_for(d)}
                \subseteq targets[s]]_vars
  <2>. SUFFICES ASSUME IInv, MemberInv, [Next]_vars, NEW s \in activated' \ activated,
                       NEW d \in targets[s], stale[s] = 0, run_tests
                PROVE  {e \in DOMAIN DeviceSpecs : DeviceSpecs[e] = device_group_for(d)}
                           \subseteq targets[s]
    OBVIOUS
  <2>. GatewayType /\ PoolInv
    BY TypeGroups DEF IInv
  <2>1. \A e \in Device : Ends(e) => activated' \subseteq activated
    BY DEF Ends, target_set_complete, detach_gateway
  <2>2. PICK f \in Device : Readies(f)
    BY <2>1, NextMoves DEF GateKind, Attaches
  <2>. DEFINE r == ready[s] \cup {f}
  <2>3. gateway[f] = s /\ s \in Sets /\ Cardinality(r) + stale[s] = device_group_size(f)
    BY <2>2 DEF Readies
  <2>4. f \in targets[s] /\ r \subseteq targets[s] /\ targets[s] \subseteq Device
    BY <2>3, ConstantsAssumption DEF PoolInv, MemberInv, GatewayType, Sets, NoGateway
  <2>5. \A e \in targets[s] : device_group_for(e) = device_group_for(f)
    BY <2>3, <2>4 DEF MemberInv
  <2>6. Cardinality(r) = device_group_size(f)
    <3>1. IsFiniteSet(r)
      BY <2>4, FS_Subset, ConstantsAssumption
    <3>2. Cardinality(r) \in Nat
      BY <3>1, FS_CardinalityType
    <3>. DEFINE c == Cardinality(r)
                size == device_group_size(f)
    <3>3. c \in Nat /\ c + stale[s] = size
      BY <2>3, <3>2
    <3>. HIDE DEF c, size
    <3>4. c = size
      BY <3>3
    <3>. QED  BY <3>4 DEF c, size
  <2>7. {e \in DOMAIN DeviceSpecs : DeviceSpecs[e] = device_group_for(f)} \subseteq r
    BY <2>4, <2>5, <2>6, WholeGroup
  <2>. QED  BY <2>4, <2>5, <2>7
<1>. QED  BY <1>1, <1>2, MemberStep, Invariance, PTL DEF Spec, WaitsForGroup
=============================================================================
