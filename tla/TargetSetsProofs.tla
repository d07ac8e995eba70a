-------------------------- MODULE TargetSetsProofs --------------------------
(***************************************************************************)
(* Proofs about TargetSets, for every set of devices, number of gateway    *)
(* sets, limit, grouping and fault.                                        *)
(***************************************************************************)
EXTENDS TargetSets, FiniteSetTheorems, TLAPS

(* TypeOK in the groups of variables that the steps change together. *)
DeviceType ==
    /\ devices \subseteq Device
    /\ host \in [Device -> Phase \cup {"none"}]
    /\ gateway \in [Device -> Sets \cup {NoGateway}]
    /\ ip_info \subseteq Device
    /\ dhcp_ready \subseteq Device
    /\ all_ips \in [Device -> 0..2]

GatewayType ==
    /\ gateway_sets \subseteq Sets
    /\ live \subseteq Sets
    /\ targets \in [Sets -> SUBSET Device]
    /\ ready \in [Sets -> SUBSET Device]
    /\ stale \in [Sets -> Nat]
    /\ activated \subseteq Sets
    /\ monitors \subseteq Sets

PortType ==
    /\ active \subseteq Device
    /\ flapping \subseteq Device
    /\ linked \subseteq Device

RunType ==
    /\ run_tests \in BOOLEAN
    /\ run_count \in Nat
    /\ linger_exit \in 0..2

Places == {"loop", "hosts", "trigger", "consider", "exit", "sysdown", "gateway",
           "final", "done"}

ControlType ==
    /\ pc \in Places
    /\ todo \subseteq Device
    /\ caught \in Device \cup {NoDevice}

OtherType ==
    /\ port_targets \in [Device -> Sets \cup {NoGateway}]
    /\ system_active \in BOOLEAN
    /\ faucet \in BOOLEAN

\* TypeOK is the conjunction of its groups.
LEMMA TypeGroups ==
    TypeOK <=> /\ DeviceType /\ GatewayType /\ PortType /\ RunType /\ ControlType
               /\ OtherType /\ queue \in Seq(Device)
BY DEF TypeOK, DeviceType, GatewayType, PortType, RunType, ControlType, OtherType, Places

\* The same of the next state.
LEMMA NextTypeGroups ==
    TypeOK' <=> /\ DeviceType' /\ GatewayType' /\ PortType' /\ RunType' /\ ControlType'
                /\ OtherType' /\ queue' \in Seq(Device)
BY DEF TypeOK, DeviceType, GatewayType, PortType, RunType, ControlType, OtherType, Places

\* A device has a gateway exactly while it has a host, and is registered then.
HostInv ==
    \A d \in Device :
        /\ host[d] # "none" <=> gateway[d] # NoGateway
        /\ host[d] # "none" => d \in devices

\* A gateway that a device uses is not free, and has the device as a target.
PoolInv ==
    \A d \in Device :
        gateway[d] # NoGateway => /\ gateway[d] \notin gateway_sets
                                  /\ d \in targets[gateway[d]]

\* The inductive invariant.  TypeOK is not inductive by itself: the gateway of
\* a device that is terminated becomes a free set, so it has to be one.
IInv == TypeOK /\ HostInv /\ PoolInv /\ QueueSound /\ SnapshotsHaveHosts
-----------------------------------------------------------------------------
(* The parts of the handlers *)

\* _target_set_finalize keeps the types and takes one device out.
LEMMA FinalizeEffect ==
    ASSUME DeviceType, RunType, NEW d \in Device, NEW failed \in BOOLEAN, NEW count \in Nat,
           target_set_finalize(d, failed, count)
    PROVE  /\ DeviceType' /\ RunType'
           /\ devices' = devices \ {d}
           /\ host' = [host EXCEPT ![d] = "none"]
           /\ gateway' = [gateway EXCEPT ![d] = NoGateway]
<1>1. DeviceType'
  BY DEF DeviceType, target_set_finalize
<1>2. RunType'
  BY DEF RunType, target_set_finalize
<1>. QED  BY <1>1, <1>2 DEF target_set_finalize

\* _detach_gateway keeps the types, removes the device from the targets of its
\* gateway and frees the set only if no other device is a target.
LEMMA DetachEffect ==
    ASSUME GatewayType, NEW d \in Device, gateway[d] \in Sets, detach_gateway(d)
    PROVE  /\ GatewayType'
           /\ targets' = [targets EXCEPT ![gateway[d]] = @ \ {d}]
           /\ \/ gateway_sets' = gateway_sets
              \/ /\ targets[gateway[d]] = {d}
                 /\ gateway_sets' = gateway_sets \cup {gateway[d]}
<1>1. StaleAfter(d, gateway[d]) \in Nat
  BY DEF StaleAfter, GatewayType
<1>2. GatewayType'
  BY <1>1 DEF GatewayType, detach_gateway
<1>. QED  BY <1>2 DEF detach_gateway

\* The end of a target set, for a device that has a host.
LEMMA CompleteEffect ==
    ASSUME IInv, NEW d \in triggered, NEW failed \in BOOLEAN, target_set_complete(d, failed)
    PROVE  /\ DeviceType' /\ GatewayType' /\ RunType'
           /\ port_targets' \in [Device -> Sets \cup {NoGateway}]
           /\ HostInv' /\ PoolInv'
           /\ triggered' = triggered \ {d}
           /\ devices' = devices \ {d}
<1>. d \in Device /\ gateway[d] \in Sets /\ run_count \in Nat
  BY TypeGroups DEF IInv, triggered, HostInv, DeviceType, RunType
<1>. DeviceType /\ GatewayType /\ RunType /\ OtherType
  BY TypeGroups DEF IInv
<1>1. /\ DeviceType' /\ RunType'
      /\ devices' = devices \ {d}
      /\ host' = [host EXCEPT ![d] = "none"]
      /\ gateway' = [gateway EXCEPT ![d] = NoGateway]
  BY FinalizeEffect DEF target_set_complete
<1>2. /\ GatewayType'
      /\ targets' = [targets EXCEPT ![gateway[d]] = @ \ {d}]
      /\ \/ gateway_sets' = gateway_sets
         \/ /\ targets[gateway[d]] = {d}
            /\ gateway_sets' = gateway_sets \cup {gateway[d]}
  BY DetachEffect DEF target_set_complete
<1>3. port_targets' \in [Device -> Sets \cup {NoGateway}]
  BY DEF target_set_complete, OtherType
<1>4. HostInv'
  BY <1>1 DEF IInv, HostInv, DeviceType
<1>5. PoolInv'
  <2>. SUFFICES ASSUME NEW e \in Device, gateway'[e] # NoGateway
                PROVE  gateway'[e] \notin gateway_sets' /\ e \in targets'[gateway'[e]]
    BY DEF PoolInv
  <2>1. e # d /\ gateway'[e] = gateway[e] /\ gateway[e] \in Sets
    BY <1>1 DEF DeviceType
  <2>2. gateway[e] \notin gateway_sets /\ e \in targets[gateway[e]]
    BY <2>1 DEF IInv, PoolInv
  <2>. QED  BY <1>2, <2>1, <2>2 DEF GatewayType
<1>6. triggered' = triggered \ {d}
  BY <1>1 DEF triggered, DeviceType
<1>. QED  BY <1>1, <1>2, <1>3, <1>4, <1>5, <1>6

\* _check_and_activate_gateway moves hosts between phases and starts or ends
\* none: a member it triggers was waiting.
LEMMA CheckEffect ==
    ASSUME GatewayType, NEW d \in Device, gateway[d] \in Sets,
           NEW h \in [Device -> Phase \cup {"none"}], NEW ips, NEW known, NEW waiting,
           CheckReturns(d, h, ips, known, waiting) \/ CheckRaises(d, h, ips, known, waiting)
    PROVE  /\ host' \in [Device -> Phase \cup {"none"}]
           /\ \A e \in Device : host'[e] = "none" <=> h[e] = "none"
           /\ ready' \in [Sets -> SUBSET Device]
           /\ activated' \subseteq Sets
<1>. DEFINE s == gateway[d]
            r == ready[s] \cup {d}
<1>. s \in Sets /\ r \subseteq Device
  BY DEF GatewayType
<1>1. CASE CheckReturns(d, h, ips, known, waiting)
  BY <1>1 DEF CheckReturns, trigger_ready, GatewayType, Phase
<1>2. CASE CheckRaises(d, h, ips, known, waiting)
  BY <1>2 DEF CheckRaises, trigger_ready, GatewayType, Phase
<1>. QED  BY <1>1, <1>2

\* Where the main thread is after a handler's step on a device has returned or
\* raised.
LEMMA ControlEffect ==
    ASSUME ControlType, pc \in {"loop", "trigger", "consider"}, NEW d \in Device,
           Return(d) \/ Raise
    PROVE  /\ ControlType'
           /\ pc' \in {"loop", "trigger", "exit"}
           /\ todo' = todo \ {d} \/ todo' = {}
BY DEF ControlType, Return, Raise, Places

\* The gateway an activation attaches the device to is a set, and no other
\* device of another group holds it: it is free or that of the group.
LEMMA OpenIsSet ==
    ASSUME IInv, NEW d \in Device, NEW s \in OpenGateways(d)
    PROVE  /\ s \in Sets
           /\ \/ existing_gateways(d) = {} /\ s \in gateway_sets
              \/ s \in existing_gateways(d)
<1>1. DeviceType /\ GatewayType
  BY TypeGroups DEF IInv
<1>2. existing_gateways(d) \subseteq Sets
  BY <1>1 DEF existing_gateways, DeviceType
<1>. QED  BY <1>1, <1>2 DEF OpenGateways, find_gateway_set, GatewayType

\* What every outcome of an activation keeps: the types, the invariants and
\* the other devices.
Activation(d) ==
    /\ DeviceType' /\ GatewayType' /\ RunType'
    /\ port_targets' \in [Device -> Sets \cup {NoGateway}]
    /\ HostInv' /\ PoolInv'
    /\ devices \ {d} \subseteq devices'
    /\ \A e \in Device \ {d} : host'[e] = host[e]

\* CountRun is a number.
LEMMA CountRunType == ASSUME RunType PROVE CountRun \in Nat
BY ConstantsAssumption DEF RunType, CountRun

\* A device that is only registered.
LEMMA RegisterEffect ==
    ASSUME IInv, NEW d \in Device, Register(d),
           UNCHANGED <<host, gateway, ip_info, dhcp_ready, all_ips>>
    PROVE  /\ DeviceType' /\ HostInv'
           /\ devices \ {d} \subseteq devices'
           /\ \A e \in Device \ {d} : host'[e] = host[e]
BY TypeGroups DEF IInv, Register, DeviceType, HostInv

\* A device whose activation fails is finalized; it had no host.
LEMMA AbortEffect ==
    ASSUME IInv, NEW d \in Device, host[d] = "none", target_set_finalize(d, TRUE, CountRun)
    PROVE  /\ DeviceType' /\ RunType' /\ HostInv'
           /\ devices \ {d} \subseteq devices'
           /\ host' = host /\ gateway' = gateway
<1>. DeviceType /\ RunType /\ HostInv
  BY TypeGroups DEF IInv
<1>1. /\ DeviceType' /\ RunType'
      /\ devices' = devices \ {d}
      /\ host' = [host EXCEPT ![d] = "none"]
      /\ gateway' = [gateway EXCEPT ![d] = NoGateway]
  BY FinalizeEffect, CountRunType
<1>2. gateway[d] = NoGateway
  BY DEF HostInv
<1>3. host' = host /\ gateway' = gateway
  BY <1>1, <1>2 DEF DeviceType
<1>4. HostInv'
  BY <1>1, <1>3 DEF HostInv
<1>. QED  BY <1>1, <1>3, <1>4

\* Every outcome of _target_set_activate keeps the invariant of the pool and
\* of the hosts, and then returns to its caller or raises.
LEMMA ActivateEffect ==
    ASSUME IInv, NEW d \in Device, host[d] = "none", target_set_activate(d)
    PROVE  Activation(d) /\ (Return(d) \/ Raise)
<1>. DeviceType /\ GatewayType /\ RunType /\ OtherType /\ HostInv /\ PoolInv
  BY TypeGroups DEF IInv
<1>. gateway[d] = NoGateway
  BY DEF HostInv
<1>1. CASE ActivateWithoutGateway(d)
  <2>1. RunType' /\ GatewayType' /\ PoolInv'
    BY <1>1 DEF ActivateWithoutGateway, RunType, GatewayType, PoolInv, gatewayVars
  <2>2. port_targets' \in [Device -> Sets \cup {NoGateway}]
    BY <1>1 DEF ActivateWithoutGateway, OtherType
  <2>. QED  BY <1>1, <2>1, <2>2, RegisterEffect DEF ActivateWithoutGateway, Activation
<1>2. CASE ActivateTooLate(d)
  <2>1. RunType' /\ GatewayType' /\ PoolInv'
    BY <1>2 DEF ActivateTooLate, RunType, GatewayType, PoolInv, gatewayVars, runVars
  <2>2. port_targets' \in [Device -> Sets \cup {NoGateway}]
    BY <1>2 DEF ActivateTooLate, OtherType
  <2>. QED  BY <1>2, <2>1, <2>2, RegisterEffect DEF ActivateTooLate, Activation
<1>3. CASE ActivateRaises(d)
  <2>1. RunType' /\ GatewayType' /\ PoolInv'
    BY <1>3 DEF ActivateRaises, RunType, GatewayType, PoolInv, gatewayVars, runVars
  <2>2. port_targets' \in [Device -> Sets \cup {NoGateway}]
    BY <1>3 DEF ActivateRaises, OtherType
  <2>. QED  BY <1>3, <2>1, <2>2, RegisterEffect DEF ActivateRaises, Activation
<1>4. CASE ActivateStopDhcpRaises(d)
  <2>1. RunType' /\ port_targets' \in [Device -> Sets \cup {NoGateway}]
    BY <1>4 DEF ActivateStopDhcpRaises, RunType, OtherType, runVars
  <2>2. GatewayType' /\ PoolInv'
    BY <1>4, OpenIsSet DEF ActivateStopDhcpRaises, GatewayType, PoolInv
  <2>. QED  BY <1>4, <2>1, <2>2, RegisterEffect DEF ActivateStopDhcpRaises, Activation
<1>5. CASE ActivateConstructFails(d)
  <2>1. GatewayType' /\ port_targets' \in [Device -> Sets \cup {NoGateway}]
    BY <1>5 DEF ActivateConstructFails, GatewayType, OtherType, gatewayVars
  <2>2. /\ DeviceType' /\ RunType' /\ HostInv'
        /\ devices \ {d} \subseteq devices'
        /\ host' = host /\ gateway' = gateway
    BY <1>5, AbortEffect DEF ActivateConstructFails
  <2>3. PoolInv'
    BY <1>5, <2>2 DEF ActivateConstructFails, PoolInv, gatewayVars
  <2>. QED  BY <1>5, <2>1, <2>2, <2>3 DEF ActivateConstructFails, Activation
<1>6. CASE ActivateInitializeFails(d)
  <2>1. port_targets' \in [Device -> Sets \cup {NoGateway}]
    BY <1>6 DEF ActivateInitializeFails, OtherType
  <2>2. /\ DeviceType' /\ RunType' /\ HostInv'
        /\ devices \ {d} \subseteq devices'
        /\ host' = host /\ gateway' = gateway
    BY <1>6, AbortEffect DEF ActivateInitializeFails
  <2>3. PICK s \in OpenGateways(d) : attach_target(d, s)
    BY <1>6 DEF ActivateInitializeFails
  <2>4. GatewayType'
    BY <2>3, OpenIsSet DEF attach_target, GatewayType
  <2>5. PoolInv'
    BY <2>2, <2>3, OpenIsSet DEF attach_target, PoolInv, GatewayType, DeviceType
  <2>. QED  BY <1>6, <2>1, <2>2, <2>4, <2>5 DEF ActivateInitializeFails, Activation
<1>7. CASE ActivateStarts(d)
  <2>1. PICK s \in OpenGateways(d) :
            /\ attach_target(d, s)
            /\ gateway' = [gateway EXCEPT ![d] = s]
            /\ port_targets' = [port_targets EXCEPT ![d] = s]
    BY <1>7 DEF ActivateStarts
  <2>2. s \in Sets /\ s # NoGateway
    BY <2>1, OpenIsSet, ConstantsAssumption DEF Sets, NoGateway
  <2>3. RunType'
    BY <1>7, CountRunType DEF ActivateStarts, RunType
  <2>4. DeviceType'
    BY <1>7, <2>1, <2>2 DEF ActivateStarts, DeviceType, Register, Phase
  <2>5. GatewayType' /\ port_targets' \in [Device -> Sets \cup {NoGateway}]
    BY <2>1, <2>2 DEF attach_target, GatewayType, OtherType
  <2>6. HostInv'
    BY <1>7, <2>1, <2>2 DEF ActivateStarts, HostInv, DeviceType, Register
  <2>7. PoolInv'
    BY <2>1, <2>2 DEF attach_target, PoolInv, GatewayType, DeviceType
  <2>8. devices \ {d} \subseteq devices' /\ \A e \in Device \ {d} : host'[e] = host[e]
    BY <1>7 DEF ActivateStarts, Register, DeviceType
  <2>. QED  BY <1>7, <2>3, <2>4, <2>5, <2>6, <2>7, <2>8 DEF ActivateStarts, Activation
<1>. QED
  BY <1>1, <1>2, <1>3, <1>4, <1>5, <1>6, <1>7 DEF target_set_activate

(* The queue *)

\* A queue whose devices are distinct and hostless stays so when a registered
\* device that has no host and is not in it goes to its end.
LEMMA QueueAppend ==
    ASSUME queue \in Seq(Device), QueueSound, NEW d \in Device, d \notin Range(queue),
           d \in devices' \ triggered', devices \ triggered \subseteq devices' \ triggered',
           queue' = Append(queue, d)
    PROVE  queue' \in Seq(Device) /\ QueueSound'
<1>1. /\ Len(queue') = Len(queue) + 1 /\ Len(queue) \in Nat
      /\ DOMAIN queue = 1..Len(queue) /\ DOMAIN queue' = 1..(Len(queue) + 1)
      /\ \A i \in 1..Len(queue) : queue'[i] = queue[i]
      /\ queue'[Len(queue) + 1] = d
      /\ queue' \in Seq(Device)
  OBVIOUS
<1>2. \A i \in 1..Len(queue) : queue[i] # d
  BY <1>1 DEF Range
<1>. QED  BY <1>1, <1>2 DEF QueueSound

\* Taking the head off leaves a sound queue in which the head does not occur.
LEMMA QueueTail ==
    ASSUME queue \in Seq(Device), QueueSound, queue # <<>>, queue' = Tail(queue),
           (devices \ triggered) \ {Head(queue)} \subseteq devices' \ triggered'
    PROVE  queue' \in Seq(Device) /\ QueueSound'
<1>1. /\ Len(queue) \in Nat /\ Len(queue) > 0
      /\ DOMAIN queue = 1..Len(queue) /\ DOMAIN queue' = 1..(Len(queue) - 1)
      /\ \A i \in 1..(Len(queue) - 1) : queue'[i] = queue[i + 1]
      /\ Head(queue) = queue[1]
      /\ queue' \in Seq(Device)
  OBVIOUS
<1>2. \A i \in 1..(Len(queue) - 1) : queue'[i] \in (devices \ triggered) \ {Head(queue)}
  BY <1>1 DEF QueueSound
<1>3. \A i, j \in 1..(Len(queue) - 1) : queue'[i] = queue'[j] => i = j
  BY <1>1 DEF QueueSound
<1>. QED  BY <1>1, <1>2, <1>3 DEF QueueSound

\* An unchanged queue stays sound while its devices stay registered and idle.
LEMMA QueueSame ==
    ASSUME QueueSound, UNCHANGED queue,
           \A i \in DOMAIN queue :
               queue[i] \in devices \ triggered => queue[i] \in devices' \ triggered'
    PROVE  QueueSound'
BY DEF QueueSound
-----------------------------------------------------------------------------
(* The steps *)

\* _target_set_trigger, from a learn event or from the idle handler.
LEMMA TriggerStep ==
    ASSUME IInv, NEW d \in Device, pc \in {"loop", "trigger"}, target_set_trigger(d)
    PROVE  IInv'
<1>. /\ DeviceType /\ GatewayType /\ PortType /\ RunType /\ ControlType /\ OtherType
     /\ queue \in Seq(Device) /\ HostInv /\ PoolInv /\ QueueSound /\ SnapshotsHaveHosts
  BY TypeGroups DEF IInv
<1>a. ASSUME DeviceType', GatewayType', RunType', HostInv', PoolInv', QueueSound',
             port_targets' \in [Device -> Sets \cup {NoGateway}],
             queue' \in Seq(Device),
             UNCHANGED <<portVars, system_active, faucet>>,
             Return(d) \/ Raise,
             devices \ {d} \subseteq devices'
      PROVE  IInv'
  <2>1. ControlType' /\ pc' \in {"loop", "trigger", "exit"} /\ (todo' = todo \ {d} \/ todo' = {})
    BY <1>a, ControlEffect
  <2>2. PortType' /\ OtherType'
    BY <1>a DEF PortType, portVars, OtherType
  <2>3. pc' = "trigger" => pc = "trigger"
    BY <1>a DEF Return, Raise
  <2>4. SnapshotsHaveHosts'
    BY <1>a, <2>1, <2>3 DEF SnapshotsHaveHosts
  <2>. QED  BY <1>a, <2>1, <2>2, <2>4, NextTypeGroups DEF IInv
<1>1. CASE /\ TriggerSuppressed(d)
           /\ Register(d)
           /\ Return(d)
           /\ UNCHANGED <<host, gateway, ip_info, dhcp_ready, all_ips, queue, gatewayVars,
                          portVars, port_targets, system_active, runVars, faucet>>
  <2>1. /\ DeviceType' /\ HostInv' /\ devices \ {d} \subseteq devices'
    BY <1>1, RegisterEffect
  <2>2. GatewayType' /\ PoolInv' /\ RunType' /\ queue' \in Seq(Device)
        /\ port_targets' \in [Device -> Sets \cup {NoGateway}]
    BY <1>1 DEF GatewayType, PoolInv, RunType, gatewayVars, runVars, OtherType
  <2>3. QueueSound'
    BY <1>1, QueueSame DEF triggered, Register
  <2>. QED  BY <1>1, <1>a, <2>1, <2>2, <2>3
<1>2. CASE /\ ~TriggerSuppressed(d)
           /\ target_set_activate(d)
           /\ UNCHANGED queue
  <2>1. host[d] = "none" /\ d \notin Range(queue)
    BY <1>2 DEF TriggerSuppressed
  <2>2. Activation(d) /\ (Return(d) \/ Raise)
    BY <1>2, <2>1, ActivateEffect
  <2>3. \A i \in DOMAIN queue : queue[i] \in Device /\ queue[i] # d
    BY <2>1 DEF Range
  <2>4. QueueSound'
    BY <1>2, <2>2, <2>3, QueueSame DEF triggered, Activation
  <2>5. UNCHANGED <<portVars, system_active, faucet>>
    BY <1>2 DEF target_set_activate
  <2>. QED  BY <1>2, <1>a, <2>2, <2>4, <2>5 DEF Activation
<1>3. CASE /\ ~TriggerSuppressed(d)
           /\ queue' = Append(queue, d)
           /\ Register(d)
           /\ Return(d)
           /\ UNCHANGED <<host, gateway, ip_info, dhcp_ready, all_ips, gatewayVars,
                          portVars, port_targets, system_active, runVars, faucet>>
  <2>1. /\ DeviceType' /\ HostInv' /\ devices \ {d} \subseteq devices'
    BY <1>3, RegisterEffect
  <2>2. GatewayType' /\ PoolInv' /\ RunType'
        /\ port_targets' \in [Device -> Sets \cup {NoGateway}]
    BY <1>3 DEF GatewayType, PoolInv, RunType, gatewayVars, runVars, OtherType
  <2>3. host[d] = "none" /\ d \notin Range(queue)
    BY <1>3 DEF TriggerSuppressed
  <2>4. d \in devices' \ triggered' /\ devices \ triggered \subseteq devices' \ triggered'
    BY <1>3, <2>3 DEF triggered, Register
  <2>5. QueueSound' /\ queue' \in Seq(Device)
    BY <1>3, <2>3, <2>4, QueueAppend
  <2>. QED  BY <1>3, <1>a, <2>1, <2>2, <2>5
<1>. QED  BY <1>1, <1>2, <1>3 DEF target_set_trigger

\* _target_set_consider
LEMMA ConsiderStep == ASSUME IInv, target_set_consider PROVE IInv'
<1>. /\ DeviceType /\ GatewayType /\ PortType /\ RunType /\ ControlType /\ OtherType
     /\ queue \in Seq(Device) /\ HostInv /\ PoolInv /\ QueueSound /\ SnapshotsHaveHosts
  BY TypeGroups DEF IInv
<1>1. CASE queue # <<>> /\ target_set_has_capacity
  <2>. DEFINE d == Head(queue)
  <2>1. target_set_activate(d) /\ queue' = Tail(queue) /\ pc = "consider"
    BY <1>1 DEF target_set_consider
  <2>2. 1 \in DOMAIN queue /\ d = queue[1] /\ d \in Device
    BY <1>1
  <2>3. d \in Device /\ host[d] = "none"
    BY <2>2 DEF QueueSound, triggered
  <2>. HIDE DEF d
  <2>4. Activation(d) /\ (Return(d) \/ Raise)
    BY <2>1, <2>3, ActivateEffect
  <2>5. (devices \ triggered) \ {d} \subseteq devices' \ triggered'
    BY <2>4 DEF Activation, triggered, DeviceType
  <2>6. QueueSound' /\ queue' \in Seq(Device)
    BY <1>1, <2>1, <2>5, QueueTail DEF d
  <2>7. PortType' /\ OtherType'
    BY <2>1, <2>4 DEF target_set_activate, Activation, PortType, portVars, OtherType
  <2>8. ControlType' /\ pc' \in {"loop", "exit"}
    BY <2>1, <2>3, <2>4 DEF ControlType, Return, Raise, Places
  <2>. QED
    BY <2>4, <2>6, <2>7, <2>8, NextTypeGroups DEF IInv, Activation, SnapshotsHaveHosts
<1>2. CASE ~(queue # <<>> /\ target_set_has_capacity)
  <2>1. /\ pc' = "exit"
        /\ UNCHANGED <<deviceVars, queue, gatewayVars, portVars, port_targets,
                       system_active, runVars, faucet, todo, caught>>
    BY <1>2 DEF target_set_consider
  <2>2. /\ DeviceType' /\ GatewayType' /\ PortType' /\ RunType' /\ OtherType'
        /\ HostInv' /\ PoolInv' /\ queue' \in Seq(Device)
    BY <2>1 DEF DeviceType, GatewayType, PortType, RunType, OtherType, HostInv, PoolInv,
                deviceVars, gatewayVars, portVars, runVars
  <2>3. QueueSound' /\ ControlType' /\ SnapshotsHaveHosts'
    BY <2>1 DEF QueueSound, ControlType, SnapshotsHaveHosts, triggered, deviceVars, Places
  <2>. QED  BY <2>2, <2>3, NextTypeGroups DEF IInv
<1>. QED  BY <1>1, <1>2

\* A step that ends one target set: in a loop over a snapshot the device is
\* taken off the snapshot.
LEMMA EndStep ==
    ASSUME IInv, NEW d \in triggered, NEW failed \in BOOLEAN,
           target_set_complete(d, failed),
           pc' = pc, pc # "trigger", pc = "loop" \/ todo' = todo \ {d},
           todo' \subseteq todo, caught' \in {caught, NoDevice},
           UNCHANGED <<queue, active, linked, system_active, faucet>>, flapping' \subseteq flapping
    PROVE  IInv'
<1>. /\ DeviceType /\ PortType /\ ControlType /\ OtherType
     /\ queue \in Seq(Device) /\ QueueSound /\ SnapshotsHaveHosts
  BY TypeGroups DEF IInv
<1>1. /\ DeviceType' /\ GatewayType' /\ RunType'
      /\ port_targets' \in [Device -> Sets \cup {NoGateway}]
      /\ HostInv' /\ PoolInv'
      /\ triggered' = triggered \ {d}
      /\ devices' = devices \ {d}
  BY CompleteEffect
<1>2. PortType' /\ ControlType' /\ OtherType' /\ queue' \in Seq(Device)
  BY <1>1 DEF PortType, ControlType, OtherType
<1>3. QueueSound'
  BY <1>1, QueueSame DEF QueueSound
<1>4. SnapshotsHaveHosts'
  BY <1>1 DEF SnapshotsHaveHosts
<1>. QED  BY <1>1, <1>2, <1>3, <1>4, NextTypeGroups DEF IInv

\* A step that starts and ends no target set.
LEMMA QuietStep ==
    ASSUME IInv, DeviceType', GatewayType', PortType', RunType', ControlType', OtherType',
           \A e \in Device : host'[e] = "none" <=> host[e] = "none",
           SnapshotsHaveHosts',
           UNCHANGED <<devices, gateway, gateway_sets, targets, queue>>
    PROVE  IInv'
<1>. HostInv /\ PoolInv /\ QueueSound /\ DeviceType /\ queue \in Seq(Device)
  BY TypeGroups DEF IInv
<1>1. HostInv' /\ PoolInv'
  BY DEF HostInv, PoolInv
<1>2. triggered' = triggered
  BY DEF triggered, DeviceType
<1>3. QueueSound'
  BY <1>2, QueueSame
<1>. QED  BY <1>1, <1>3, NextTypeGroups DEF IInv

\* Every faucet event keeps the invariant.
LEMMA FaucetSteps ==
    ASSUME IInv,
           \/ \E up \in BOOLEAN : SystemPortState(up)
           \/ \E d \in Device : activate_port(d) \/ PortInactive(d) \/ handle_port_learn(d)
    PROVE  IInv'
<1>. /\ DeviceType /\ GatewayType /\ PortType /\ RunType /\ ControlType /\ OtherType
     /\ SnapshotsHaveHosts
  BY TypeGroups DEF IInv
<1>1. ASSUME NEW up \in BOOLEAN, SystemPortState(up) PROVE IInv'
  <2>1. UNCHANGED <<deviceVars, queue, gatewayVars, portVars, port_targets, runVars, faucet,
                    caught>>
    BY <1>1 DEF SystemPortState
  <2>2. DeviceType' /\ GatewayType' /\ PortType' /\ RunType' /\ triggered' = triggered
    BY <2>1 DEF DeviceType, GatewayType, PortType, RunType, deviceVars, gatewayVars,
                portVars, runVars, triggered
  <2>3. OtherType' /\ ControlType' /\ SnapshotsHaveHosts'
    BY <1>1, <2>1, <2>2 DEF SystemPortState, FaucetEvent, OtherType, ControlType, Places,
                            SnapshotsHaveHosts, triggered, DeviceType
  <2>. QED  BY <2>1, <2>2, <2>3, QuietStep DEF deviceVars, gatewayVars
<1>2. ASSUME NEW d \in Device, activate_port(d) \/ PortInactive(d) PROVE IInv'
  <2>1. UNCHANGED <<deviceVars, queue, gatewayVars, port_targets, system_active, runVars,
                    faucet, pc, todo, caught>>
    BY <1>2 DEF activate_port, PortInactive
  <2>2. /\ DeviceType' /\ GatewayType' /\ RunType' /\ OtherType' /\ ControlType'
        /\ SnapshotsHaveHosts'
    BY <2>1 DEF DeviceType, GatewayType, RunType, OtherType, ControlType,
                SnapshotsHaveHosts, deviceVars, gatewayVars, runVars, triggered
  <2>3. PortType'
    BY <1>2 DEF activate_port, PortInactive, PortType
  <2>. QED  BY <2>1, <2>2, <2>3, QuietStep DEF deviceVars, gatewayVars
<1>3. ASSUME NEW d \in Device, handle_port_learn(d) PROVE IInv'
  BY <1>3, TriggerStep DEF handle_port_learn, FaucetEvent
<1>. QED  BY <1>1, <1>2, <1>3

\* The devices of a gateway are a snapshot of devices that have a host.
LEMMA FailGatewayEffect ==
    ASSUME IInv, NEW s \in Sets, FailGateway(s)
    PROVE  /\ monitors' \subseteq monitors
           /\ pc' = "gateway"
           /\ todo' \subseteq triggered /\ todo' \subseteq Device
<1>1. s # NoGateway
  BY ConstantsAssumption DEF Sets, NoGateway
<1>. QED  BY <1>1, TypeGroups
          DEF FailGateway, get_by_gateway, IInv, HostInv, DeviceType, triggered

\* Every notification from a DHCP monitor keeps the invariant.
LEMMA DhcpSteps ==
    ASSUME IInv, NEW s \in Sets,
           dhcp_error(s) \/ \E d \in Device, ack \in BOOLEAN : ip_notify(d, s, ack)
    PROVE  IInv'
<1>. /\ DeviceType /\ GatewayType /\ PortType /\ RunType /\ ControlType /\ OtherType
     /\ SnapshotsHaveHosts
  BY TypeGroups DEF IInv
<1>1. CASE dhcp_error(s)
  <2>1. /\ monitors' \subseteq monitors /\ pc' = "gateway"
        /\ todo' \subseteq triggered /\ todo' \subseteq Device
    BY <1>1, FailGatewayEffect DEF dhcp_error
  <2>2. UNCHANGED <<deviceVars, queue, gateway_sets, live, targets, ready, stale, activated,
                    portVars, port_targets, system_active, runVars, faucet, caught>>
    BY <1>1 DEF dhcp_error
  <2>3. DeviceType' /\ GatewayType' /\ PortType' /\ RunType' /\ OtherType' /\ ControlType'
    BY <2>1, <2>2 DEF DeviceType, GatewayType, PortType, RunType, OtherType, ControlType,
                      Places, deviceVars, portVars, runVars
  <2>4. SnapshotsHaveHosts'
    BY <2>1, <2>2 DEF SnapshotsHaveHosts, triggered, deviceVars
  <2>. QED  BY <2>2, <2>3, <2>4, QuietStep DEF deviceVars
<1>2. ASSUME NEW d \in Device, NEW ack \in BOOLEAN, ip_notify(d, s, ack) PROVE IInv'
  <2>1. /\ UNCHANGED <<devices, gateway, dhcp_ready, queue, gateway_sets, live, targets,
                       stale, portVars, port_targets, system_active, runVars, faucet, caught>>
        /\ pc = "loop"
    BY <1>2 DEF ip_notify
  <2>2. /\ host' \in [Device -> Phase \cup {"none"}]
        /\ \A e \in Device : host'[e] = "none" <=> host[e] = "none"
        /\ ready' \in [Sets -> SUBSET Device]
        /\ activated' \subseteq Sets
    <3>1. CASE UNCHANGED <<host, ready, activated>>
      BY <3>1 DEF DeviceType, GatewayType
    <3>2. CASE /\ host[d] # "none"
               /\ \/ CheckReturns(d, host, all_ips', ip_info', dhcp_ready)
                  \/ CheckRaises(d, host, all_ips', ip_info', dhcp_ready)
      <4>1. gateway[d] \in Sets
        BY <3>2 DEF IInv, HostInv, DeviceType
      <4>. QED  BY <3>2, <4>1, CheckEffect DEF DeviceType
    <3>. QED  BY <1>2, <3>1, <3>2 DEF ip_notify
  <2>3. ip_info' \subseteq Device /\ all_ips' \in [Device -> 0..2]
    <3>1. MoreIps(d) \subseteq 0..2
      BY DEF MoreIps, DeviceType
    <3>. QED  BY <1>2, <3>1 DEF ip_notify, DeviceType
  <2>4. \/ UNCHANGED <<monitors, pc, todo>>
        \/ FailGateway(s)
    BY <1>2 DEF ip_notify
  <2>5. \/ UNCHANGED <<monitors, pc, todo>>
        \/ /\ monitors' \subseteq monitors /\ pc' = "gateway"
           /\ todo' \subseteq triggered /\ todo' \subseteq Device
    BY <2>4, FailGatewayEffect
  <2>6. DeviceType' /\ GatewayType' /\ PortType' /\ RunType' /\ OtherType' /\ ControlType'
    BY <2>1, <2>2, <2>3, <2>5 DEF DeviceType, GatewayType, PortType, RunType, OtherType,
                                  ControlType, Places, portVars, runVars
  <2>7. triggered' = triggered
    BY <2>1, <2>2 DEF triggered, DeviceType
  <2>8. SnapshotsHaveHosts'
    BY <2>1, <2>5, <2>7 DEF SnapshotsHaveHosts
  <2>. QED  BY <2>1, <2>2, <2>6, <2>8, QuietStep
<1>. QED  BY <1>1, <1>2

\* host._prepare keeps the invariant, whether the activation that may follow
\* returns or raises.
LEMMA PrepareStep == ASSUME IInv, NEW d \in Device, IdlePrepare(d) PROVE IInv'
<1>. DEFINE h == [host EXCEPT ![d] = "WAITING"]
<1>. /\ DeviceType /\ GatewayType /\ PortType /\ RunType /\ ControlType /\ OtherType
     /\ SnapshotsHaveHosts
  BY TypeGroups DEF IInv
<1>1. /\ UNCHANGED <<devices, gateway, queue, gateway_sets, live, targets, stale, monitors,
                     portVars, port_targets, system_active, runVars, faucet>>
      /\ pc = "hosts" /\ d \in todo /\ host[d] = "INIT"
      /\ \/ CheckReturns(d, h, all_ips', ip_info', dhcp_ready')
         \/ CheckRaises(d, h, all_ips', ip_info', dhcp_ready')
      /\ dhcp_ready' = dhcp_ready \cup {d}
  BY DEF IdlePrepare, InHosts
<1>2. gateway[d] \in Sets
  BY <1>1 DEF IInv, HostInv, DeviceType
<1>3. h \in [Device -> Phase \cup {"none"}] /\ \A e \in Device : h[e] = "none" <=> host[e] = "none"
  BY <1>1 DEF DeviceType, Phase
<1>4. /\ host' \in [Device -> Phase \cup {"none"}]
      /\ \A e \in Device : host'[e] = "none" <=> host[e] = "none"
      /\ ready' \in [Sets -> SUBSET Device]
      /\ activated' \subseteq Sets
  <2>. HIDE DEF h
  <2>. QED  BY <1>1, <1>2, <1>3, CheckEffect
<1>5. ip_info' \subseteq Device /\ all_ips' \in [Device -> 0..2]
  <2>1. MoreIps(d) \subseteq 0..2
    BY DEF MoreIps, DeviceType
  <2>. QED  BY <2>1 DEF IdlePrepare, DeviceType
<1>6. pc' = "hosts" /\ todo' \subseteq todo /\ caught' \in {caught, d}
  BY <1>1 DEF IdlePrepare, Return
<1>7. DeviceType' /\ GatewayType' /\ PortType' /\ RunType' /\ OtherType' /\ ControlType'
  BY <1>1, <1>4, <1>5, <1>6 DEF DeviceType, GatewayType, PortType, RunType, OtherType,
                                ControlType, Places, portVars, runVars
<1>8. triggered' = triggered
  BY <1>1, <1>4 DEF triggered, DeviceType
<1>9. SnapshotsHaveHosts'
  BY <1>1, <1>6, <1>8 DEF SnapshotsHaveHosts
<1>. QED  BY <1>1, <1>4, <1>7, <1>9, QuietStep

\* The other steps of the idle handler.
LEMMA IdleSteps == ASSUME IInv, Idle PROVE IInv'
<1>. /\ DeviceType /\ GatewayType /\ PortType /\ RunType /\ ControlType /\ OtherType
     /\ SnapshotsHaveHosts
  BY TypeGroups DEF IInv
<1>1. CASE IdleStart \/ IdleNext \/ IdleExit
  <2>1. UNCHANGED <<deviceVars, queue, gatewayVars, portVars, port_targets, system_active>>
    BY <1>1 DEF IdleStart, IdleNext, IdleExit
  <2>2. DeviceType' /\ GatewayType' /\ PortType'
    BY <2>1 DEF DeviceType, GatewayType, PortType, deviceVars, gatewayVars, portVars
  <2>3. RunType' /\ OtherType'
    BY <1>1 DEF IdleStart, IdleNext, IdleExit, RunType, OtherType, runVars
  <2>4. ControlType' /\ SnapshotsHaveHosts'
    BY <1>1 DEF IdleStart, IdleNext, IdleExit, ControlType, SnapshotsHaveHosts, Places,
                triggered, deviceVars, DeviceType
  <2>. QED  BY <2>1, <2>2, <2>3, <2>4, QuietStep DEF deviceVars, gatewayVars
<1>2. ASSUME NEW d \in Device, IdleComplete(d) PROVE IInv'
  <2>1. d \in triggered /\ pc = "hosts"
    BY <1>2 DEF IdleComplete, InHosts, SnapshotsHaveHosts
  <2>2. PICK failed \in BOOLEAN : target_set_complete(d, failed)
    BY <1>2 DEF IdleComplete
  <2>. QED  BY <1>2, <2>1, <2>2, EndStep DEF IdleComplete, Return, portVars
<1>3. ASSUME NEW d \in Device, IdlePrepare(d) PROVE IInv'
  BY <1>3, PrepareStep
<1>4. ASSUME NEW d \in Device, IdleHost(d) PROVE IInv'
  <2>1. /\ UNCHANGED <<devices, gateway, ip_info, dhcp_ready, all_ips, queue, gatewayVars,
                       portVars, port_targets, system_active, runVars, faucet>>
        /\ pc = "hosts"
    BY <1>4 DEF IdleHost, InHosts
  <2>2. /\ host' \in [Device -> Phase \cup {"none"}]
        /\ \A e \in Device : host'[e] = "none" <=> host[e] = "none"
    BY <1>4 DEF IdleHost, DeviceType, Phase
  <2>3. pc' = "hosts" /\ todo' \subseteq todo /\ caught' \in {caught, d}
    BY <1>4, <2>1 DEF IdleHost, Return
  <2>4. DeviceType' /\ GatewayType' /\ PortType' /\ RunType' /\ OtherType' /\ ControlType'
    BY <2>1, <2>2, <2>3 DEF DeviceType, GatewayType, PortType, RunType, OtherType,
                            ControlType, Places, gatewayVars, portVars, runVars
  <2>5. triggered' = triggered
    BY <2>1, <2>2 DEF triggered, DeviceType
  <2>6. SnapshotsHaveHosts'
    BY <2>1, <2>3, <2>5 DEF SnapshotsHaveHosts
  <2>. QED  BY <2>1, <2>2, <2>4, <2>6, QuietStep DEF gatewayVars
<1>5. ASSUME NEW d \in Device, IdleError(d) PROVE IInv'
  <2>1. d \in triggered /\ pc = "hosts"
    BY <1>5 DEF IdleError, SnapshotsHaveHosts
  <2>2. target_set_complete(d, TRUE)
    BY <1>5 DEF IdleError, target_set_error
  <2>. QED  BY <1>5, <2>1, <2>2, EndStep DEF IdleError, portVars
<1>6. ASSUME NEW d \in Device, IdleTrigger(d) PROVE IInv'
  BY <1>6, TriggerStep DEF IdleTrigger
<1>. QED  BY <1>1, <1>2, <1>3, <1>4, <1>5, <1>6, ConsiderStep DEF Idle

\* Callbacks of hosts and the reaper.
LEMMA HostSteps ==
    ASSUME IInv, NEW d \in Device, HostDone(d) \/ HostError(d) \/ reap_stale_ports(d)
    PROVE  IInv'
<1>. /\ DeviceType /\ GatewayType /\ PortType /\ RunType /\ ControlType /\ OtherType
     /\ SnapshotsHaveHosts
  BY TypeGroups DEF IInv
<1>1. CASE HostDone(d)
  <2>1. UNCHANGED <<devices, gateway, ip_info, dhcp_ready, all_ips, queue, gatewayVars,
                    portVars, port_targets, system_active, runVars, faucet, pc, todo, caught>>
    BY <1>1 DEF HostDone
  <2>2. /\ host' \in [Device -> Phase \cup {"none"}]
        /\ \A e \in Device : host'[e] = "none" <=> host[e] = "none"
    BY <1>1 DEF HostDone, DeviceType, Phase
  <2>3. DeviceType' /\ GatewayType' /\ PortType' /\ RunType' /\ OtherType' /\ ControlType'
    BY <2>1, <2>2 DEF DeviceType, GatewayType, PortType, RunType, OtherType, ControlType,
                      gatewayVars, portVars, runVars
  <2>4. triggered' = triggered
    BY <2>1, <2>2 DEF triggered, DeviceType
  <2>5. SnapshotsHaveHosts'
    BY <2>1, <2>4 DEF SnapshotsHaveHosts
  <2>. QED  BY <2>1, <2>2, <2>3, <2>5, QuietStep DEF gatewayVars
<1>2. CASE HostError(d)
  BY <1>2, EndStep DEF HostError, target_set_error, portVars
<1>3. CASE reap_stale_ports(d)
  BY <1>3, EndStep DEF reap_stale_ports, target_set_error
<1>. QED  BY <1>1, <1>2, <1>3

\* Termination.
LEMMA EndingSteps == ASSUME IInv, Ending PROVE IInv'
<1>. /\ DeviceType /\ GatewayType /\ PortType /\ RunType /\ ControlType /\ OtherType
     /\ SnapshotsHaveHosts
  BY TypeGroups DEF IInv
<1>1. ASSUME NEW d \in Device, Terminate(d) PROVE IInv'
  <2>1. d \in triggered /\ pc # "trigger" /\ pc # "loop"
    BY <1>1 DEF Terminate, SnapshotsHaveHosts
  <2>2. target_set_complete(d, TRUE)
    BY <1>1 DEF Terminate, target_set_error
  <2>. QED  BY <1>1, <2>1, <2>2, EndStep DEF Terminate, portVars
<1>2. CASE TerminateDone \/ MainLoopEnds \/ \E d \in Device : MainLoopRaises(d)
  <2>1. UNCHANGED <<deviceVars, queue, gatewayVars, portVars, port_targets, runVars, caught>>
    BY <1>2 DEF TerminateDone, MainLoopEnds, MainLoopRaises
  <2>2. DeviceType' /\ GatewayType' /\ PortType' /\ RunType'
    BY <2>1 DEF DeviceType, GatewayType, PortType, RunType, deviceVars, gatewayVars,
                portVars, runVars
  <2>3. OtherType'
    BY <1>2 DEF TerminateDone, MainLoopEnds, MainLoopRaises, OtherType
  <2>4. ControlType' /\ SnapshotsHaveHosts'
    BY <1>2 DEF TerminateDone, MainLoopEnds, MainLoopRaises, ControlType, SnapshotsHaveHosts, Places,
                triggered, deviceVars, DeviceType
  <2>. QED  BY <2>1, <2>2, <2>3, <2>4, QuietStep DEF deviceVars, gatewayVars
<1>. QED  BY <1>1, <1>2 DEF Ending
-----------------------------------------------------------------------------
\* The constructor of the runner establishes the invariant.
LEMMA InitInv == Init => IInv
<1>. SUFFICES ASSUME Init PROVE IInv
  OBVIOUS
<1>1. TypeOK
  <2>1. DeviceType
    BY DEF Init, DeviceType
  <2>2. GatewayType /\ PortType
    BY DEF Init, GatewayType, PortType
  <2>3. RunType /\ ControlType
    BY DEF Init, RunType, ControlType, Places
  <2>4. OtherType
    BY DEF Init, OtherType
  <2>5. queue \in Seq(Device)
    BY DEF Init
  <2>. QED  BY <2>1, <2>2, <2>3, <2>4, <2>5, TypeGroups
<1>2. HostInv /\ PoolInv /\ SnapshotsHaveHosts
  BY DEF Init, HostInv, PoolInv, SnapshotsHaveHosts
<1>3. QueueSound
  BY DEF Init, QueueSound
<1>. QED  BY <1>1, <1>2, <1>3 DEF IInv

\* Every handler of the runner preserves the invariant.
LEMMA NextInv == IInv /\ [Next]_vars => IInv'
<1>. SUFFICES ASSUME IInv, [Next]_vars PROVE IInv'
  OBVIOUS
<1>1. CASE UNCHANGED vars
  BY <1>1 DEF IInv, TypeOK, HostInv, PoolInv, QueueSound, SnapshotsHaveHosts, triggered, vars,
              deviceVars, gatewayVars, portVars, runVars
<1>2. CASE Events
  BY <1>2, FaucetSteps, DhcpSteps, HostSteps DEF Events
<1>. QED  BY <1>1, <1>2, IdleSteps, EndingSteps DEF Next, Stopped

\* The inductive invariant holds in every reachable state.
THEOREM Invariance == Spec => []IInv
BY InitInv, NextInv, PTL DEF Spec

\* The variables of the runner keep their types.
THEOREM TypeCorrect == Spec => []TypeOK
<1>1. IInv => TypeOK
  BY DEF IInv
<1>. QED  BY <1>1, Invariance, PTL

\* The queue never holds a device twice, nor one that has a host.
THEOREM QueueIsSound == Spec => []QueueSound
<1>1. IInv => QueueSound
  BY DEF IInv
<1>. QED  BY <1>1, Invariance, PTL

\* A loop over a snapshot of devices never meets one whose host has gone.
THEOREM SnapshotsAreSafe == Spec => []SnapshotsHaveHosts
<1>1. IInv => SnapshotsHaveHosts
  BY DEF IInv
<1>. QED  BY <1>1, Invariance, PTL
=============================================================================
