----------------------------- MODULE TargetSets -----------------------------
(***************************************************************************)
(* The runner's bookkeeping of devices under test (daq/runner.py): which   *)
(* devices are registered, queued or running, which gateway set each one   *)
(* uses, and when the run stops taking new devices.                        *)
(*                                                                         *)
(* Configuration modelled: devices are triggered by switch ports (no VLAN  *)
(* trigger, no native gateway, no remote sessions) and single_shot is off. *)
(* In it every handler runs on the one thread of main_loop, so a handler   *)
(* is one action.  A handler that loops over devices is one action per     *)
(* iteration; pc and todo hold the place in the loop, and nothing else can *)
(* happen until the loop ends.                                             *)
(*                                                                         *)
(* A device is named by the number of the port it is plugged into: each    *)
(* has a port of its own.  A gateway object is named by its set number.    *)
(***************************************************************************)
EXTENDS Naturals, Sequences, FiniteSets, Functions

CONSTANTS
    Device,        \* port numbers that have a device
    MaxGateways,   \* MAX_GATEWAYS: number of gateway sets
    MaxHosts,      \* run_trigger.max_hosts
    DeviceSpecs,   \* device_specs: group of the devices that name one
    IpChange,      \* devices configured with dhcp_mode IP_CHANGE
    StaticIp,      \* devices configured with a static_ip
    FailMode,      \* fail_mode
    ResultLinger,  \* result_linger
    RunLimit,      \* run_limit, 0 for none
    Faults         \* steps of an activation, or the end of a test, that may raise

FaultKinds == {"gateway", "stop_dhcp", "construct", "initialize", "finalize"}

ASSUME ConstantsAssumption ==
    /\ Device \subseteq Nat \ {0}
    /\ IsFiniteSet(Device)
    /\ MaxGateways \in Nat \ {0}
    /\ MaxHosts \in Nat \ {0}
    /\ DOMAIN DeviceSpecs \subseteq Device
    /\ \A d \in DOMAIN DeviceSpecs : DeviceSpecs[d] \in Nat \ Device
    /\ IpChange \subseteq Device
    /\ StaticIp \subseteq Device
    /\ FailMode \in BOOLEAN
    /\ ResultLinger \in BOOLEAN
    /\ RunLimit \in Nat
    /\ Faults \subseteq FaultKinds

VARIABLES
    devices,       \* Devices._devices
    queue,         \* _target_set_queue
    host,          \* device.host: none, or the phase of its ConnectedHost
    gateway,       \* device.gateway: a set number or NoGateway
    ip_info,       \* devices with an ip_addr
    dhcp_ready,    \* devices whose host waits for an address
    all_ips,       \* distinct addresses the host was told, up to 2
    gateway_sets,  \* set numbers that are free
    live,          \* gateways created and not terminated
    targets,       \* gateway.targets
    ready,         \* gateway.ready: the registered devices in it
    stale,         \* gateway.ready: how many removed Device objects are in it
    activated,     \* gateways with activated set
    monitors,      \* gateways whose DHCP monitor stream is open
    active,        \* ports with PortInfo.active
    flapping,      \* ports with a flapping_start
    linked,        \* ports whose last reported state was up
    port_targets,  \* topology._port_targets: set number the port is sent to
    system_active, run_tests, run_count, linger_exit,
    faucet,        \* faucet_events is connected
    pc, todo,      \* place of main_loop in the handler being run
    caught         \* device whose idle_handler has raised, or NoDevice

deviceVars == <<devices, host, gateway, ip_info, dhcp_ready, all_ips>>
gatewayVars == <<gateway_sets, live, targets, ready, stale, activated, monitors>>
portVars == <<active, flapping, linked>>
runVars == <<run_tests, run_count, linger_exit>>
vars == <<deviceVars, queue, gatewayVars, portVars, port_targets,
          system_active, runVars, faucet, pc, todo, caught>>

Sets == 1..MaxGateways
NoGateway == 0
NoDevice == 0
Phase == {"INIT", "WAITING", "RUN", "DONE"}
-----------------------------------------------------------------------------
(* Derived state *)

\* Devices.get_triggered_devices
triggered == {d \in devices : host[d] # "none"}

\* topology.device_group_for: the named group, or a group of its own, named
\* after the device
device_group_for(d) == IF d \in DOMAIN DeviceSpecs THEN DeviceSpecs[d] ELSE d

\* Mutant: the group is ignored.
DeviceGroupSizeOne(d) == 1

\* topology.device_group_size
device_group_size(d) ==
    LET members == {e \in DOMAIN DeviceSpecs : DeviceSpecs[e] = device_group_for(d)}
    IN  IF members = {} THEN 1 ELSE Cardinality(members)

\* Devices.get_by_gateway
get_by_gateway(s) == {d \in devices : gateway[d] = s}

\* Mutant: the group of the other devices is not compared.
ExistingGatewaysAny(d) == {gateway[e] : e \in devices} \ {NoGateway}

\* _create_gateway: the gateways already used by the device's group
existing_gateways(d) ==
    {gateway[e] : e \in {e \in devices : /\ device_group_for(e) = device_group_for(d)
                                         /\ gateway[e] # NoGateway}}

\* _find_gateway_set: the set of the port's own number if free, else any
find_gateway_set(d) == IF d \in gateway_sets THEN {d} ELSE gateway_sets

\* _target_set_has_capacity
target_set_has_capacity == Cardinality(triggered) < MaxHosts

\* Mutant: a host is ready in every phase.
TriggerReadyAlways(d, h, ips) == h[d] # "none" /\ (d \in IpChange => ips[d] > 1)

\* host.trigger_ready, h being the phases of the hosts
trigger_ready(d, h, ips) == h[d] = "WAITING" /\ (d \in IpChange => ips[d] > 1)

\* run_count is only compared with run_limit, so it stops just above it
CountRun == IF run_count > RunLimit THEN run_count ELSE run_count + 1
-----------------------------------------------------------------------------
(* Control of the main thread *)

\* The current step of the handler returns: go on with the rest of its loop.
Return(d) ==
    /\ todo' = todo \ {d}
    /\ pc' = IF pc = "consider" THEN "exit" ELSE pc
    /\ UNCHANGED caught

\* The current step raises: the event loop logs it and drops the handler.
Raise ==
    /\ todo' = {}
    /\ pc' = "loop"
    /\ UNCHANGED caught
-----------------------------------------------------------------------------
(* The end of a target set *)

\* _target_set_finalize: failed says that the results hold a failure, count
\* is the value of run_count.  The Device object leaves the registry, so what
\* it held is no longer reachable.
target_set_finalize(d, failed, count) ==
    /\ run_tests' = /\ run_tests
                    /\ ~(failed /\ (FailMode \/ ResultLinger))
                    /\ ~(RunLimit > 0 /\ count >= RunLimit)
    /\ linger_exit' = IF failed /\ ResultLinger THEN 1 ELSE linger_exit
    /\ run_count' = count
    /\ devices' = devices \ {d}
    /\ host' = [host EXCEPT ![d] = "none"]
    /\ gateway' = [gateway EXCEPT ![d] = NoGateway]
    /\ ip_info' = ip_info \ {d}
    /\ dhcp_ready' = dhcp_ready \ {d}
    /\ all_ips' = [all_ips EXCEPT ![d] = 0]

\* Removed Device objects in gateway.ready once d has left too; above the
\* size of the group the exact number makes no difference.
StaleAfter(d, s) ==
    IF d \in ready[s] /\ stale[s] <= device_group_size(d) THEN stale[s] + 1 ELSE stale[s]

\* Mutant: the set of a retired gateway is not given back.
DetachGatewayKeepsSet(d) ==
    LET s == gateway[d]
        last == targets[s] = {d}
    IN  /\ targets' = [targets EXCEPT ![s] = @ \ {d}]
        /\ ready' = [ready EXCEPT ![s] = IF last THEN {} ELSE @ \ {d}]
        /\ stale' = [stale EXCEPT ![s] = IF last THEN 0 ELSE StaleAfter(d, s)]
        /\ UNCHANGED gateway_sets
        /\ IF last
           THEN /\ live' = live \ {s}
                /\ activated' = activated \ {s}
                /\ monitors' = monitors \ {s}
           ELSE UNCHANGED <<live, activated, monitors>>

\* Mutant: the first device to leave retires the gateway.
DetachGatewayFreesEarly(d) ==
    LET s == gateway[d]
    IN  /\ targets' = [targets EXCEPT ![s] = @ \ {d}]
        /\ ready' = [ready EXCEPT ![s] = {}]
        /\ stale' = [stale EXCEPT ![s] = 0]
        /\ gateway_sets' = gateway_sets \cup {s}
        /\ live' = live \ {s}
        /\ activated' = activated \ {s}
        /\ monitors' = monitors \ {s}

\* _detach_gateway: the last device retires the gateway and frees its set
detach_gateway(d) ==
    LET s == gateway[d]
        last == targets[s] = {d}
    IN  /\ targets' = [targets EXCEPT ![s] = @ \ {d}]
        /\ ready' = [ready EXCEPT ![s] = IF last THEN {} ELSE @ \ {d}]
        /\ stale' = [stale EXCEPT ![s] = IF last THEN 0 ELSE StaleAfter(d, s)]
        /\ IF last
           THEN /\ gateway_sets' = gateway_sets \cup {s}
                /\ live' = live \ {s}
                /\ activated' = activated \ {s}
                /\ monitors' = monitors \ {s}
           ELSE UNCHANGED <<gateway_sets, live, activated, monitors>>

\* Mutant: the port's traffic is left where it was.
TargetSetCompleteKeepsTraffic(d, failed) ==
    /\ detach_gateway(d)
    /\ target_set_finalize(d, failed, run_count)
    /\ UNCHANGED port_targets

\* target_set_complete for a host that started: _target_set_cancel sends the
\* port's traffic nowhere, detaches the gateway and terminates the host.  The
\* results cancel reads to decide on lingering are those of an earlier
\* finalize of the same Device object; an object is finalized once, so they
\* are empty and cancel never keeps the gateway.
target_set_complete(d, failed) ==
    /\ port_targets' = [port_targets EXCEPT ![d] = NoGateway]
    /\ detach_gateway(d)
    /\ target_set_finalize(d, failed, run_count)

\* target_set_error on a device with a host: the exception is a failed result
target_set_error(d) == target_set_complete(d, TRUE)
-----------------------------------------------------------------------------
(* The start of a target set *)

\* The device takes a place among the targets of gateway s, created if new.
attach_target(d, s) ==
    /\ gateway_sets' = gateway_sets \ {s}
    /\ live' = live \cup {s}
    /\ monitors' = IF s \in live THEN monitors ELSE monitors \cup {s}
    /\ targets' = [targets EXCEPT ![s] = @ \cup {d}]
    /\ UNCHANGED <<ready, stale, activated>>

\* A device that was only just learned is registered by the same handler.
Register(d) == devices' = devices \cup {d}

\* No gateway: none is free or its initialize raised.  initialize gives the
\* set back; the error is logged and the device stays registered.
ActivateWithoutGateway(d) ==
    /\ d \in active
    /\ existing_gateways(d) = {}
    /\ gateway_sets = {} \/ "gateway" \in Faults
    /\ run_tests' = (run_tests /\ ~FailMode)
    /\ Register(d)
    /\ Return(d)
    /\ UNCHANGED <<host, gateway, ip_info, dhcp_ready, all_ips, gatewayVars,
                   port_targets, run_count, linger_exit>>

\* The gateway of the group is already activated: the trigger is ignored.
ActivateTooLate(d) ==
    /\ d \in active
    /\ existing_gateways(d) \cap activated # {}
    /\ Register(d)
    /\ Return(d)
    /\ UNCHANGED <<host, gateway, ip_info, dhcp_ready, all_ips, gatewayVars,
                   port_targets, runVars>>

\* The gateways an activation can attach the device to.
OpenGateways(d) ==
    IF existing_gateways(d) = {} THEN find_gateway_set(d)
    ELSE existing_gateways(d) \ activated

\* The assertions on the port and on attach_target raise out of the handler.
ActivateRaises(d) ==
    /\ \/ d \notin active
       \/ d \in active /\ \E s \in OpenGateways(d) : d \in targets[s]
    /\ Register(d)
    /\ Raise
    /\ UNCHANGED <<host, gateway, ip_info, dhcp_ready, all_ips, gatewayVars,
                   port_targets, runVars>>

\* stop_dhcp_response raises outside of the try: a gateway just created is
\* left without a target.
ActivateStopDhcpRaises(d) ==
    /\ "stop_dhcp" \in Faults
    /\ d \in active
    /\ \E s \in OpenGateways(d) :
         /\ gateway_sets' = gateway_sets \ {s}
         /\ live' = live \cup {s}
         /\ monitors' = IF s \in live THEN monitors ELSE monitors \cup {s}
    /\ Register(d)
    /\ Raise
    /\ UNCHANGED <<host, gateway, ip_info, dhcp_ready, all_ips, targets, ready,
                   stale, activated, port_targets, runVars>>

\* The constructor of ConnectedHost raises: target_set_error finds no host,
\* finalizes and detaches, which leaves the gateways as they were.
ActivateConstructFails(d) ==
    /\ "construct" \in Faults
    /\ d \in active
    /\ \E s \in OpenGateways(d) : d \notin targets[s]
    /\ target_set_finalize(d, TRUE, CountRun)
    /\ Return(d)
    /\ UNCHANGED <<gatewayVars, port_targets>>

\* initialize raises: target_set_error finds a host.  Its cancel raises in
\* direct_port_traffic, since the port was never directed, and finalize
\* removes a device that is still a target of the gateway.
ActivateInitializeFails(d) ==
    /\ "initialize" \in Faults
    /\ d \in active
    /\ \E s \in OpenGateways(d) : d \notin targets[s] /\ attach_target(d, s)
    /\ target_set_finalize(d, TRUE, CountRun)
    /\ Return(d)
    /\ UNCHANGED port_targets

\* The host is started and the port's traffic directed to the gateway's set.
ActivateStarts(d) ==
    /\ d \in active
    /\ \E s \in OpenGateways(d) :
         /\ d \notin targets[s]
         /\ attach_target(d, s)
         /\ gateway' = [gateway EXCEPT ![d] = s]
         /\ port_targets' = [port_targets EXCEPT ![d] = s]
    /\ host' = [host EXCEPT ![d] = "INIT"]
    /\ run_count' = CountRun
    /\ Register(d)
    /\ Return(d)
    /\ UNCHANGED <<ip_info, dhcp_ready, all_ips, run_tests, linger_exit>>

\* _target_set_activate
target_set_activate(d) ==
    /\ \/ ActivateWithoutGateway(d)
       \/ ActivateTooLate(d)
       \/ ActivateRaises(d)
       \/ ActivateStopDhcpRaises(d)
       \/ ActivateConstructFails(d)
       \/ ActivateInitializeFails(d)
       \/ ActivateStarts(d)
    /\ UNCHANGED <<portVars, system_active, faucet>>
-----------------------------------------------------------------------------
(* Triggering *)

\* Mutant: a queued device is triggered again.
SuppressedUnlessQueued(d) == ~system_active \/ host[d] # "none" \/ ~run_tests

\* The early returns of _target_set_trigger.  In this configuration
\* wait_remote is never set.
TriggerSuppressed(d) ==
    ~system_active \/ host[d] # "none" \/ ~run_tests \/ d \in Range(queue)

\* _target_set_trigger
target_set_trigger(d) ==
    \/ /\ TriggerSuppressed(d)
       /\ Register(d)
       /\ Return(d)
       /\ UNCHANGED <<host, gateway, ip_info, dhcp_ready, all_ips, queue, gatewayVars,
                      portVars, port_targets, system_active, runVars, faucet>>
    \/ /\ ~TriggerSuppressed(d)
       /\ \/ /\ target_set_has_capacity
             /\ target_set_activate(d)
             /\ UNCHANGED queue
          \/ /\ ~target_set_has_capacity
             /\ queue' = Append(queue, d)
             /\ Register(d)
             /\ Return(d)
             /\ UNCHANGED <<host, gateway, ip_info, dhcp_ready, all_ips, gatewayVars,
                            portVars, port_targets, system_active, runVars, faucet>>

\* Mutant: the last queued device is never considered.
ConsiderAllButLast ==
    /\ pc = "consider"
    /\ IF Len(queue) > 1 /\ target_set_has_capacity
       THEN /\ target_set_activate(Head(queue))
            /\ queue' = Tail(queue)
       ELSE /\ pc' = "exit"
            /\ UNCHANGED <<deviceVars, queue, gatewayVars, portVars, port_targets,
                           system_active, runVars, faucet, todo, caught>>

\* _target_set_consider
target_set_consider ==
    /\ pc = "consider"
    /\ IF queue # <<>> /\ target_set_has_capacity
       THEN /\ target_set_activate(Head(queue))
            /\ queue' = Tail(queue)
       ELSE /\ pc' = "exit"
            /\ UNCHANGED <<deviceVars, queue, gatewayVars, portVars, port_targets,
                           system_active, runVars, faucet, todo, caught>>
-----------------------------------------------------------------------------
(* Faucet events *)

FaucetEvent == pc = "loop" /\ faucet

\* _handle_port_state for the trunk: its loss terminates every target set
SystemPortState(up) ==
    /\ FaucetEvent
    /\ IF system_active /\ ~up
       THEN /\ pc' = "sysdown"
            /\ todo' = triggered
            /\ UNCHANGED system_active
       ELSE /\ system_active' = up
            /\ UNCHANGED <<pc, todo>>
    /\ UNCHANGED <<deviceVars, queue, gatewayVars, portVars, port_targets, runVars,
                   faucet, caught>>

\* _activate_port
activate_port(d) ==
    /\ FaucetEvent
    /\ linked' = linked \cup {d}
    /\ active' = active \cup {d}
    /\ flapping' = flapping \ {d}
    /\ UNCHANGED <<deviceVars, queue, gatewayVars, port_targets, system_active, runVars,
                   faucet, pc, todo, caught>>

\* _handle_port_state for a device port that went down.  A running device
\* starts flapping.  For a registered device with no host the code directs
\* the traffic of a device that has no gateway: that raises, and the port is
\* not deactivated.
PortInactive(d) ==
    /\ FaucetEvent
    /\ linked' = linked \ {d}
    /\ flapping' = IF d \in triggered THEN flapping \cup {d} ELSE flapping
    /\ active' = IF /\ d \in active
                    /\ d \in devices
                    /\ d \notin flapping'
                    /\ gateway[d] = NoGateway
                 THEN active ELSE active \ {d}
    /\ UNCHANGED <<deviceVars, queue, gatewayVars, port_targets, system_active, runVars,
                   faucet, pc, todo, caught>>

\* _handle_port_learn
handle_port_learn(d) ==
    /\ FaucetEvent
    /\ d \in active
    /\ target_set_trigger(d)
-----------------------------------------------------------------------------
(* Addresses and gateway activation *)

\* The outcome of _check_and_activate_gateway when it returns or raises: h,
\* ips, known and waiting are the state its caller has reached.
CheckReturns(d, h, ips, known, waiting) ==
    LET s == gateway[d]
        r == ready[s] \cup {d}
        full == Cardinality(r) + stale[s] = device_group_size(d) \/ ~run_tests
    IN  \/ /\ d \notin known \cap waiting \/ (s \notin activated /\ h[d] # "WAITING")
           /\ host' = h
           /\ UNCHANGED <<ready, activated>>
        \/ /\ d \in known \cap waiting
           /\ s \in activated
           /\ host' = IF trigger_ready(d, h, ips) THEN [h EXCEPT ![d] = "RUN"] ELSE h
           /\ UNCHANGED <<ready, activated>>
        \/ /\ d \in known \cap waiting
           /\ s \notin activated /\ h[d] = "WAITING"
           /\ ~full \/ ~trigger_ready(d, h, ips)
           /\ ready' = [ready EXCEPT ![s] = r]
           /\ host' = h
           /\ UNCHANGED activated
        \/ /\ d \in known \cap waiting
           /\ s \notin activated /\ h[d] = "WAITING"
           /\ full /\ trigger_ready(d, h, ips)
           /\ stale[s] = 0 /\ \A e \in r : trigger_ready(e, h, ips)
           /\ ready' = [ready EXCEPT ![s] = r]
           /\ activated' = activated \cup {s}
           /\ host' = [e \in Device |-> IF e \in r THEN "RUN" ELSE h[e]]

\* _activate_gateway raises at the first member of gateway.ready that has no
\* host or is not ready: the order of a set is arbitrary, so any of the
\* others may have been triggered before.
CheckRaises(d, h, ips, known, waiting) ==
    LET s == gateway[d]
        r == ready[s] \cup {d}
        good == {e \in r : trigger_ready(e, h, ips)}
    IN  /\ d \in known \cap waiting
        /\ s \notin activated
        /\ d \in good
        /\ Cardinality(r) + stale[s] = device_group_size(d) \/ ~run_tests
        /\ stale[s] > 0 \/ good # r
        /\ ready' = [ready EXCEPT ![s] = r]
        /\ activated' = activated \cup {s}
        /\ \E before \in SUBSET good :
             host' = [e \in Device |-> IF e \in before THEN "RUN" ELSE h[e]]

\* host.ip_notify: one more address, which is new or not
MoreIps(d) == IF d \in IpChange /\ all_ips[d] < 2 THEN {all_ips[d] + 1, 1} ELSE {all_ips[d]}

\* The DHCP monitor of gateway s fails: the whole set is terminated.
FailGateway(s) ==
    /\ monitors' = monitors \ {s}
    /\ pc' = "gateway"
    /\ todo' = get_by_gateway(s)

\* ip_notify from the DHCP monitor of gateway s for one of its targets.  An
\* offer only records the address.  An exception comes back through the
\* monitor's error handler.
ip_notify(d, s, ack) ==
    /\ pc = "loop"
    /\ s \in monitors
    /\ d \in targets[s]
    /\ \/ /\ d \notin devices
          /\ FailGateway(s)
          /\ UNCHANGED <<ip_info, all_ips, host, ready, activated>>
       \/ /\ d \in devices
          /\ ip_info' = ip_info \cup {d}
          /\ \/ /\ ~ack \/ host[d] = "none"
                /\ UNCHANGED <<all_ips, host, ready, activated, monitors, pc, todo>>
             \/ /\ ack /\ host[d] # "none"
                /\ \E n \in MoreIps(d) : all_ips' = [all_ips EXCEPT ![d] = n]
                /\ \/ /\ CheckReturns(d, host, all_ips', ip_info', dhcp_ready)
                      /\ UNCHANGED <<monitors, pc, todo>>
                   \/ /\ CheckRaises(d, host, all_ips', ip_info', dhcp_ready)
                      /\ FailGateway(s)
    /\ UNCHANGED <<devices, gateway, dhcp_ready, queue, gateway_sets, live, targets, stale,
                   portVars, port_targets, system_active, runVars, faucet, caught>>

\* _dhcp_error: the monitor stream of a gateway hangs up
dhcp_error(s) ==
    /\ pc = "loop"
    /\ s \in monitors
    /\ FailGateway(s)
    /\ UNCHANGED <<deviceVars, queue, gateway_sets, live, targets, ready, stale, activated,
                   portVars, port_targets, system_active, runVars, faucet, caught>>
-----------------------------------------------------------------------------
(* The idle handler *)

\* Mutant: the loop takes every registered device.
IdleStartAll ==
    /\ pc = "loop"
    /\ pc' = "hosts"
    /\ todo' = devices
    /\ UNCHANGED <<deviceVars, queue, gatewayVars, portVars, port_targets, system_active,
                   runVars, faucet, caught>>

\* _handle_system_idle_raw starts with the hosts that were triggered.
IdleStart ==
    /\ pc = "loop"
    /\ pc' = "hosts"
    /\ todo' = triggered
    /\ UNCHANGED <<deviceVars, queue, gatewayVars, portVars, port_targets, system_active,
                   runVars, faucet, caught>>

InHosts(d) == pc = "hosts" /\ d \in todo /\ caught = NoDevice

\* A host that is done: its results decide whether the run failed.
IdleComplete(d) ==
    /\ InHosts(d)
    /\ host[d] = "DONE"
    /\ \E failed \in BOOLEAN : target_set_complete(d, failed)
    /\ Return(d)
    /\ UNCHANGED <<queue, portVars, system_active, faucet>>

\* host._prepare: the host waits for its address and says so to the runner;
\* a static address is notified first.
IdlePrepare(d) ==
    LET h == [host EXCEPT ![d] = "WAITING"]
    IN  /\ InHosts(d)
        /\ host[d] = "INIT"
        /\ IF d \in StaticIp
           THEN /\ ip_info' = ip_info \cup {d}
                /\ \E n \in MoreIps(d) : all_ips' = [all_ips EXCEPT ![d] = n]
           ELSE UNCHANGED <<ip_info, all_ips>>
        /\ dhcp_ready' = dhcp_ready \cup {d}
        /\ \/ /\ CheckReturns(d, h, all_ips', ip_info', dhcp_ready')
              /\ Return(d)
           \/ /\ CheckRaises(d, h, all_ips', ip_info', dhcp_ready')
              /\ caught' = d
              /\ UNCHANGED <<pc, todo>>
        /\ UNCHANGED <<devices, gateway, queue, gateway_sets, live, targets, stale,
                       monitors, portVars, port_targets, system_active, runVars, faucet>>

\* The idle handler of a waiting or testing host: base tests may go on, end
\* the run of a host with no tests left, or fail.
IdleHost(d) ==
    /\ InHosts(d)
    /\ \/ /\ host[d] \in {"WAITING", "RUN"}
          /\ UNCHANGED <<host, caught, pc>>
          /\ todo' = todo \ {d}
       \/ /\ host[d] = "RUN"
          /\ host' = [host EXCEPT ![d] = "DONE"]
          /\ Return(d)
       \/ /\ host[d] \in {"INIT", "RUN"}
          /\ caught' = d
          /\ UNCHANGED <<host, pc, todo>>
    /\ UNCHANGED <<devices, gateway, ip_info, dhcp_ready, all_ips, queue, gatewayVars,
                   portVars, port_targets, system_active, runVars, faucet>>

\* The exception of an idle handler is an error of its own device only.
IdleError(d) ==
    /\ pc = "hosts"
    /\ caught = d
    /\ d \in todo
    /\ target_set_error(d)
    /\ todo' = todo \ {d}
    /\ caught' = NoDevice
    /\ UNCHANGED <<queue, portVars, system_active, faucet, pc>>

\* Then every registered device is triggered, and one queued device considered.
IdleTrigger(d) ==
    /\ pc = "trigger"
    /\ d \in todo
    /\ target_set_trigger(d)

IdleNext ==
    /\ todo = {}
    /\ \/ pc = "hosts" /\ pc' = "trigger" /\ todo' = devices
       \/ pc = "trigger" /\ pc' = "consider" /\ UNCHANGED todo
    /\ UNCHANGED <<deviceVars, queue, gatewayVars, portVars, port_targets, system_active,
                   runVars, faucet, caught>>

\* Mutant: the runner does not shut down by itself.
IdleExitStays ==
    /\ pc = "exit"
    /\ pc' = "loop"
    /\ UNCHANGED <<deviceVars, queue, gatewayVars, portVars, port_targets, system_active,
                   runVars, faucet, todo, caught>>

\* Mutant: every idle pass of a lingering runner counts.
IdleExitCounts ==
    /\ pc = "exit"
    /\ pc' = "loop"
    /\ IF triggered = {} /\ ~run_tests
       THEN /\ faucet' = (faucet /\ linger_exit # 0)
            /\ linger_exit' = IF linger_exit > 0 THEN linger_exit + 1 ELSE linger_exit
       ELSE UNCHANGED <<faucet, linger_exit>>
    /\ UNCHANGED <<deviceVars, queue, gatewayVars, portVars, port_targets, system_active,
                   run_tests, run_count, todo, caught>>

\* With no target set left and no more tests to run, the runner shuts down,
\* or lingers.
IdleExit ==
    /\ pc = "exit"
    /\ pc' = "loop"
    /\ IF triggered = {} /\ ~run_tests
       THEN /\ faucet' = (faucet /\ linger_exit # 0)
            /\ linger_exit' = IF linger_exit = 1 THEN 2 ELSE linger_exit
       ELSE UNCHANGED <<faucet, linger_exit>>
    /\ UNCHANGED <<deviceVars, queue, gatewayVars, portVars, port_targets, system_active,
                   run_tests, run_count, todo, caught>>
-----------------------------------------------------------------------------
(* Hosts, ports that stay down, and termination *)

\* A callback of the host (scan, test module) ends its last test.
HostDone(d) ==
    /\ pc = "loop"
    /\ d \in triggered
    /\ host[d] = "RUN"
    /\ host' = [host EXCEPT ![d] = "DONE"]
    /\ UNCHANGED <<devices, gateway, ip_info, dhcp_ready, all_ips, queue, gatewayVars,
                   portVars, port_targets, system_active, runVars, faucet, pc, todo, caught>>

\* A callback or a timeout of the host is an error of its target set.
HostError(d) ==
    /\ pc = "loop"
    /\ d \in triggered
    /\ target_set_error(d)
    /\ UNCHANGED <<queue, portVars, system_active, faucet, pc, todo, caught>>

\* _reap_stale_ports, for a device whose flap timeout has expired
reap_stale_ports(d) ==
    /\ pc = "loop"
    /\ d \in triggered \cap flapping
    /\ target_set_error(d)
    /\ flapping' = flapping \ {d}
    /\ UNCHANGED <<queue, active, linked, system_active, faucet, pc, todo, caught>>

\* _terminate, and _terminate_gateway_set for the devices of one gateway
Terminate(d) ==
    /\ pc \in {"sysdown", "gateway", "final"}
    /\ d \in todo
    /\ target_set_error(d)
    /\ todo' = todo \ {d}
    /\ UNCHANGED <<queue, portVars, system_active, faucet, pc, caught>>

\* The end of shutdown, of the handler that called it, or of main_loop.
TerminateDone ==
    /\ todo = {}
    /\ \/ /\ pc = "sysdown"
          /\ faucet' = FALSE
          /\ system_active' = FALSE
          /\ pc' = "loop"
       \/ /\ pc = "gateway"
          /\ pc' = "loop"
          /\ UNCHANGED <<faucet, system_active>>
       \/ /\ pc = "final"
          /\ pc' = "done"
          /\ UNCHANGED <<faucet, system_active>>
    /\ UNCHANGED <<deviceVars, queue, gatewayVars, portVars, port_targets, runVars,
                   todo, caught>>

\* main_loop ends when event_loop has no stream left to monitor
MainLoopEnds ==
    /\ pc = "loop"
    /\ ~faucet
    /\ monitors = {}
    /\ pc' = "final"
    /\ todo' = triggered
    /\ UNCHANGED <<deviceVars, queue, gatewayVars, portVars, port_targets, system_active,
                   runVars, faucet, caught>>

\* The heartbeat of a host is called by main_loop itself.  When it ends a test
\* that is overdue and the module's terminate raises, main_loop is left.
MainLoopRaises(d) ==
    /\ "finalize" \in Faults
    /\ pc = "loop"
    /\ d \in triggered
    /\ host[d] = "RUN"
    /\ pc' = "final"
    /\ todo' = triggered
    /\ UNCHANGED <<deviceVars, queue, gatewayVars, portVars, port_targets, system_active,
                   runVars, faucet, caught>>
-----------------------------------------------------------------------------
Init ==
    /\ devices = {}
    /\ queue = <<>>
    /\ host = [d \in Device |-> "none"]
    /\ gateway = [d \in Device |-> NoGateway]
    /\ ip_info = {}
    /\ dhcp_ready = {}
    /\ all_ips = [d \in Device |-> 0]
    /\ gateway_sets = Sets
    /\ live = {}
    /\ targets = [s \in Sets |-> {}]
    /\ ready = [s \in Sets |-> {}]
    /\ stale = [s \in Sets |-> 0]
    /\ activated = {}
    /\ monitors = {}
    /\ active = {}
    /\ flapping = {}
    /\ linked = {}
    /\ port_targets = [d \in Device |-> NoGateway]
    /\ system_active = FALSE
    /\ run_tests = TRUE
    /\ run_count = 0
    /\ linger_exit = 0
    /\ faucet = TRUE
    /\ pc = "loop"
    /\ todo = {}
    /\ caught = NoDevice

Idle ==
    \/ IdleStart
    \/ \E d \in Device : \/ IdleComplete(d) \/ IdlePrepare(d) \/ IdleHost(d)
                         \/ IdleError(d) \/ IdleTrigger(d)
    \/ IdleNext
    \/ target_set_consider
    \/ IdleExit

Events ==
    \/ \E up \in BOOLEAN : SystemPortState(up)
    \/ \E d \in Device : activate_port(d) \/ PortInactive(d) \/ handle_port_learn(d)
    \/ \E s \in Sets : \/ dhcp_error(s)
                       \/ \E d \in Device, ack \in BOOLEAN : ip_notify(d, s, ack)
    \/ \E d \in Device : HostDone(d) \/ HostError(d) \/ reap_stale_ports(d)

Ending ==
    \/ \E d \in Device : Terminate(d) \/ MainLoopRaises(d)
    \/ TerminateDone
    \/ MainLoopEnds

Stopped == pc = "done" /\ UNCHANGED vars

Next == Idle \/ Events \/ Ending \/ Stopped

Spec == Init /\ [][Next]_vars
-----------------------------------------------------------------------------
TypeOK ==
    /\ devices \subseteq Device
    /\ queue \in Seq(Device)
    /\ host \in [Device -> Phase \cup {"none"}]
    /\ gateway \in [Device -> Sets \cup {NoGateway}]
    /\ ip_info \subseteq Device
    /\ dhcp_ready \subseteq Device
    /\ all_ips \in [Device -> 0..2]
    /\ gateway_sets \subseteq Sets
    /\ live \subseteq Sets
    /\ targets \in [Sets -> SUBSET Device]
    /\ ready \in [Sets -> SUBSET Device]
    /\ stale \in [Sets -> Nat]
    /\ activated \subseteq Sets
    /\ monitors \subseteq Sets
    /\ active \subseteq Device
    /\ flapping \subseteq Device
    /\ linked \subseteq Device
    /\ port_targets \in [Device -> Sets \cup {NoGateway}]
    /\ system_active \in BOOLEAN
    /\ run_tests \in BOOLEAN
    /\ run_count \in Nat
    /\ linger_exit \in 0..2
    /\ faucet \in BOOLEAN
    /\ pc \in {"loop", "hosts", "trigger", "consider", "exit", "sysdown", "gateway",
               "final", "done"}
    /\ todo \subseteq Device
    /\ caught \in Device \cup {NoDevice}

\* Gateway sets are neither lost nor used twice: each number is free or that
\* of one live gateway, and a live gateway serves the registered devices that
\* hold it and no others (_find_gateway_set, _detach_gateway).
SetsAccounted ==
    /\ gateway_sets = Sets \ live
    /\ \A s \in Sets : targets[s] = get_by_gateway(s)
    /\ \A s \in live : targets[s] # {}

\* Devices share a gateway set exactly when they are in the same group: groups
\* are sequestered, and the assertion of _create_gateway that a group has one
\* gateway at most never fails.
GroupsSequestered ==
    \A d, e \in devices :
        gateway[d] # NoGateway /\ gateway[e] # NoGateway =>
            (gateway[d] = gateway[e] <=> device_group_for(d) = device_group_for(e))

\* No more hosts run than run_trigger.max_hosts, whichever of the two ways in
\* (_target_set_trigger, _target_set_consider) they took.
WithinCapacity == Cardinality(triggered) <= MaxHosts

\* A device waits in the queue at most once, and only while it is registered
\* and has no host: _target_set_consider never starts a second host.
QueueSound ==
    /\ \A i, j \in DOMAIN queue : queue[i] = queue[j] => i = j
    /\ \A i \in DOMAIN queue : queue[i] \in devices \ triggered

\* The switch sends a port's traffic to a gateway set exactly as long as the
\* device on it has a host, and to the set of that device's gateway
\* (direct_port_traffic in _target_set_activate and _target_set_cancel).
TrafficFollowsHost ==
    \A d \in Device :
        /\ port_targets[d] = gateway[d]
        /\ d \in triggered <=> gateway[d] # NoGateway

\* A loop over a snapshot of the triggered devices never meets one whose host
\* has gone (idle_handler, _terminate, _terminate_gateway_set use device.host).
SnapshotsHaveHosts ==
    /\ pc \in {"hosts", "sysdown", "gateway", "final"} => todo \subseteq triggered
    /\ pc = "trigger" => todo \subseteq devices

\* The assertion of _target_set_activate that the port is active never fails:
\* a registered device that has no host is on an active port.
TriggerPortActive == devices \ triggered \subseteq active

\* A gateway whose members never left is activated only when the whole group
\* is attached to it, unless no more tests are to be run
\* (_should_activate_target).
WaitsForGroup ==
    [][\A s \in activated' \ activated : \A d \in targets[s] :
          stale[s] = 0 /\ run_tests =>
            {e \in DOMAIN DeviceSpecs : DeviceSpecs[e] = device_group_for(d)}
                \subseteq targets[s]]_vars

\* Once the tests are suppressed they stay so, and no device gets a host.
NoNewRuns == [][~run_tests => ~run_tests' /\ triggered' \subseteq triggered]_vars

\* The runner implements the pool of gateway sets: a device that runs holds
\* the set of its gateway, alone or with its group, and each step starts or
\* ends one device at most.
Pool == INSTANCE GatewayPool
            WITH Set <- Sets, NoSet <- NoGateway, holder <- gateway,
                 Group <- [d \in Device |-> device_group_for(d)]
ImplementsPool == Pool!Spec

\* The runner takes a host through the phases that the host goes through, and
\* triggers none that has ended or is past waiting.
Phases == INSTANCE HostPhases WITH phase <- host
ImplementsPhases == Phases!Spec
-----------------------------------------------------------------------------
(* Liveness.  The main thread goes on with the handler it is in, the idle  *)
(* handler runs again and again, and the host's timeout ends every test.   *)

Fairness ==
    /\ SF_vars(IdleStart)
    /\ WF_vars(Idle /\ pc # "loop")
    /\ WF_vars(Ending /\ pc # "loop")
    /\ SF_vars(MainLoopEnds)
    /\ \A d \in Device : SF_vars(HostDone(d) \/ HostError(d))

FairSpec == Spec /\ Fairness

\* When no more tests are to be run, the runner comes to its end: it finishes
\* what is running, shuts down and leaves main_loop.  Two things keep it there:
\* a result that lingers, and a gateway that an activation which raised has left
\* behind with no host, whose DHCP monitor stays in the event loop.
LeftBehind == \E s \in monitors : get_by_gateway(s) \cap triggered = {}
Terminates == ~run_tests ~> (pc = "done" \/ linger_exit # 0 \/ LeftBehind)

\* While the runner is up a queued device does not wait for ever, provided that
\* in the end no learn event starts a host ahead of the queue.
QueueDrains ==
    <>[][pc = "loop" => triggered' \subseteq triggered]_vars
        => \A d \in Device : d \in Range(queue) ~> (d \notin Range(queue) \/ pc = "done")
-----------------------------------------------------------------------------
(* What the repository says of the runner and the code does not do. *)

\* result_linger keeps the services in place on failure (docs/options.md): the
\* step that records a failure retires no gateway.
LingerKeepsServices == [][linger_exit = 0 /\ linger_exit' = 1 => live \subseteq live']_vars

\* A group starts when all of its devices are present (docs/device_specs.md),
\* also after some of them have come and gone.
WholeGroupPresent ==
    [][\A s \in activated' \ activated : \A d \in targets[s] :
          run_tests => {e \in DOMAIN DeviceSpecs : DeviceSpecs[e] = device_group_for(d)}
                          \subseteq targets[s]]_vars

\* A gateway that reports a DHCP error has devices (assertion of
\* _terminate_gateway_set).
MonitoredHasDevices == \A s \in monitors : get_by_gateway(s) # {}

\* A target set is activated on a port that is up (assertion of
\* _target_set_activate).
ActivatedOnLink == [][triggered' \ triggered \subseteq linked]_vars
=============================================================================
