------------------------------ MODULE Topology ------------------------------
(***************************************************************************)
(* How the test runner directs device traffic (daq/topology.py, reached    *)
(* through daq/network.py): the targets of the secondary's ports, the      *)
(* devices of every gateway set, the native vlans of both switches, and    *)
(* the ACL files (TopologyRules), as target sets come and go.              *)
(*                                                                         *)
(* The callers are daq/runner.py's: _target_set_activate directs a device  *)
(* to its gateway's set, _target_set_cancel and _detach_gateway take it    *)
(* away, _remote_trigger moves it to another vlan.  The runner works on    *)
(* one of two configurations, chosen at the start: devices found by their  *)
(* port, or by their vlan behind an external stack (ext_faucet).           *)
(*                                                                         *)
(* A member of Devices is a Device object.  The runner makes a new one     *)
(* each time an address is learned, and _set_devices may still hold an     *)
(* object whose target set is over.                                        *)
(***************************************************************************)
EXTENDS TopologyRules

CONSTANTS
    Devices,       \* Device objects
    MacOf,         \* [Devices -> addresses]
    Vlans,         \* vlans a device can be found on
    AssignedVlans, \* vlans a session can assign
    Configs        \* the configurations considered: pairs <<ext_faucet, specs>>

ASSUME DevicesAssumption == IsFiniteSet(Devices) /\ DOMAIN MacOf = Devices

VARIABLES
    ext_faucet,    \* devices are triggered by vlan, behind an external stack
    specs,         \* the loaded device specifications
    device,        \* the Device objects
    gateway_sets,  \* runner.gateway_sets: the free sets
    port_targets,  \* _port_targets, in insertion order
    set_devices,   \* _set_devices
    set_keys,      \* its keys, in insertion order
    gw_vlan,       \* native_vlan of the gateway ports of every set
    sec_vlan,      \* native_vlan of the secondary's device ports
    main_acls,     \* dp_port_acls.yaml
    port_acls      \* port_acls/*.yaml

config == <<ext_faucet, specs>>
vars == <<config, device, gateway_sets, port_targets, set_devices, set_keys,
          gw_vlan, sec_vlan, main_acls, port_acls>>

Attached(s) == {d \in Devices : device[d].on /\ device[d].gateway = s}
On == {d \in Devices : device[d].on}

(***************************************************************************)
(* _set_devices is a dict of Python sets: the keys come in insertion       *)
(* order, the members of one set in any order.                             *)
(***************************************************************************)
Orders(devices, keys) ==
    LET choices == [s \in {keys[i] : i \in DOMAIN keys} |-> SetToSeqs(devices[s])]
        pick    == {f \in [DOMAIN choices -> UNION Range(choices)] :
                        \A s \in DOMAIN choices : f[s] \in choices[s]}
    IN  {FlattenSeq([i \in DOMAIN keys |-> f[keys[i]]]) : f \in pick}

acls_of_changed_ports(dev, targets, devices, keys) ==
    /\ \E order \in Orders(devices, keys) :
          main_acls' = generate_main_acls(ext_faucet, targets,
                                          [i \in DOMAIN order |-> dev[order[i]]])
    /\ port_acls' = [p \in Ports |->
                        IF TargetsAt(targets, p) = TargetsAt(port_targets, p)
                        THEN port_acls[p] ELSE generate_port_acl(specs, targets, p)]

\* _generate_acls: every file is written again
generate_acls(dev, targets, devices, keys) ==
    /\ \E order \in Orders(devices, keys) :
          main_acls' = generate_main_acls(ext_faucet, targets,
                                          [i \in DOMAIN order |-> dev[order[i]]])
    /\ port_acls' = [p \in Ports |-> generate_port_acl(specs, targets, p)]

\* _populate_set_devices: enter d (port_set given) or take it out
populate_set_devices(d, s, add) ==
    LET old == IF s \in DOMAIN set_devices THEN set_devices[s] ELSE {}
    IN  (s :> IF add THEN old \cup {d} ELSE old \ {d}) @@ set_devices

KeysWith(s) == IF s \in DOMAIN set_devices THEN set_keys ELSE Append(set_keys, s)

\* direct_device_traffic; dev is the device table the ACLs are made from.
\* A device that is taken out (~add) was entered when it was activated.
direct_device_traffic(dev, d, s, add) ==
    LET devices == populate_set_devices(d, s, add)
        vlan    == IF devices[s] # {} THEN dev[d].vlan ELSE DUMP_VLAN
    IN  /\ set_devices' = devices
        /\ set_keys' = KeysWith(s)
        /\ gw_vlan' = [gw_vlan EXCEPT ![s] = vlan]
        /\ generate_acls(dev, port_targets, devices, KeysWith(s))
        /\ UNCHANGED <<port_targets, sec_vlan>>

\* direct_port_traffic.  The set keeps d when the target is taken away.
direct_port_traffic(dev, d, p, targets, s) ==
    LET devices == populate_set_devices(d, dev[d].gateway, TRUE)
    IN  /\ set_devices' = devices
        /\ set_keys' = KeysWith(dev[d].gateway)
        /\ port_targets' = targets
        /\ generate_acls(dev, targets, devices, KeysWith(dev[d].gateway))
        /\ sec_vlan' = [sec_vlan EXCEPT ![p] = port_set_vlan(s)]
        /\ UNCHANGED gw_vlan

\* the native vlans of the base topology
make_gw_interface(ext, s) == IF ext THEN DUMP_VLAN ELSE port_set_vlan(s)
make_sec_port_interface(ext, p) == IF ext THEN port_set_vlan(p) ELSE DUMP_VLAN

Init ==
    /\ \E c \in Configs : ext_faucet = c[1] /\ specs = c[2]
    /\ device = [d \in Devices |-> [mac |-> MacOf[d], on |-> FALSE, used |-> FALSE,
                                    port |-> 0,
                                    vlan |-> 0, assigned |-> 0, gateway |-> 0,
                                    group |-> <<"none", 0>>]]
    /\ gateway_sets = PortSets
    /\ port_targets = <<>>
    /\ set_devices = << >>
    /\ set_keys = <<>>
    /\ gw_vlan = [s \in PortSets |-> make_gw_interface(ext_faucet, s)]
    /\ sec_vlan = [p \in Ports |-> make_sec_port_interface(ext_faucet, p)]
    /\ main_acls = generate_main_acls(ext_faucet, <<>>, <<>>)
    /\ port_acls = [p \in Ports |-> generate_port_acl(specs, <<>>, p)]

(***************************************************************************)
(* The runner.                                                             *)
(***************************************************************************)
\* a new Device object: its address is not among the registered devices
Fresh(d) == ~device[d].used /\ \A e \in On : MacOf[e] # MacOf[d]

GroupOf(d, vlan) == device_group_for(specs, ext_faucet, MacOf[d], vlan)

\* _create_gateway: the gateway of the device's group, or a free set, by
\* preference the one with the port's number
create_gateway(d, port, vlan) ==
    LET group    == {e \in On : device[e].group = GroupOf(d, vlan)}
        existing == {device[e].gateway : e \in group}
    IN  IF existing # {} THEN existing
        ELSE IF port \in gateway_sets THEN {port}
        ELSE gateway_sets

\* the device record once its gateway is attached
Attach(d, port, vlan, assigned, s) ==
    [device EXCEPT ![d] = [mac |-> MacOf[d], on |-> TRUE, used |-> TRUE, port |-> port,
                           vlan |-> vlan, assigned |-> assigned, gateway |-> s,
                           group |-> GroupOf(d, vlan)]]

\* _handle_port_learn and _target_set_activate for a device found on a port
activate_port(d, p) ==
    /\ ~ext_faucet /\ Fresh(d)
    /\ \A e \in On : device[e].port # p
    /\ \E s \in create_gateway(d, p, 0) :
        LET dev    == Attach(d, p, 0, 0, s)
            target == [port |-> p, port_set |-> s, mac |-> MacOf[d]]
        IN  /\ device' = dev
            /\ gateway_sets' = gateway_sets \ {s}
            /\ direct_port_traffic(dev, d, p, Append(port_targets, target), s)
    /\ UNCHANGED config

\* the same for a device found on a vlan, by itself (no assigned vlan) or
\* through its session (_remote_trigger, which directs the traffic again)
activate_vlan(d, vlan, assigned) ==
    /\ ext_faucet /\ Fresh(d)
    /\ \E s \in create_gateway(d, 0, vlan) :
        LET dev == Attach(d, 0, vlan, assigned, s)
        IN  /\ device' = dev
            /\ gateway_sets' = gateway_sets \ {s}
            /\ direct_device_traffic(dev, d, s, TRUE)
    /\ UNCHANGED config

remote_only_recorded(d, vlan, assigned) ==
    /\ ext_faucet /\ device[d].on
    /\ device[d].assigned # 0
    /\ device' = [device EXCEPT ![d].vlan = vlan, ![d].assigned = assigned]
    /\ UNCHANGED <<config, gateway_sets, port_targets, set_devices, set_keys, gw_vlan,
                   sec_vlan, main_acls, port_acls>>

\* _remote_trigger for a device that already has its gateway
remote_trigger(d, vlan, assigned) ==
    /\ ext_faucet /\ device[d].on
    /\ device[d].assigned # 0
    /\ LET dev == [device EXCEPT ![d].vlan = vlan, ![d].assigned = assigned]
       IN  /\ device' = dev
           /\ direct_device_traffic(dev, d, device[d].gateway, TRUE)
    /\ UNCHANGED <<config, gateway_sets>>

\* _detach_gateway: the set is free again when the last device left it
detach_keeps_gateway(d) == [device EXCEPT ![d].on = FALSE]

detached(d) == [device EXCEPT ![d].on = FALSE, ![d].gateway = 0]

FreedSet(d) == IF Attached(device[d].gateway) = {d} THEN {device[d].gateway} ELSE {}

\* _target_set_cancel and _detach_gateway for a device with a port.  The ACLs
\* are written while the device still has its gateway.
cancel_port(d) ==
    /\ ~ext_faucet /\ device[d].on
    /\ direct_port_traffic(device, d, device[d].port,
                           SelectSeq(port_targets, LAMBDA t : t.port # device[d].port), 0)
    /\ device' = detached(d)
    /\ gateway_sets' = gateway_sets \cup FreedSet(d)
    /\ UNCHANGED config

\* and for one with a vlan: the traffic is directed only with the last device
cancel_vlan(d) ==
    /\ ext_faucet /\ device[d].on
    /\ device' = detached(d)
    /\ gateway_sets' = gateway_sets \cup FreedSet(d)
    /\ \/ FreedSet(d) # {} /\ direct_device_traffic(device, d, device[d].gateway, FALSE)
       \/ FreedSet(d) = {} /\ UNCHANGED <<port_targets, set_devices, set_keys, gw_vlan,
                                          sec_vlan, main_acls, port_acls>>
    /\ UNCHANGED config

Next ==
    \/ \E d \in Devices, p \in Ports : activate_port(d, p)
    \/ \E d \in Devices, v \in Vlans, a \in AssignedVlans : activate_vlan(d, v, a)
    \/ \E d \in Devices, v \in Vlans, a \in AssignedVlans \ {0} : remote_trigger(d, v, a)
    \/ \E d \in Devices : cancel_port(d)
    \/ \E d \in Devices : cancel_vlan(d)

Spec == Init /\ [][Next]_vars

(***************************************************************************)
(* What the switches do with a frame (external: Faucet).  A frame is a     *)
(* record of the fields it has; the first rule that matches decides.       *)
(***************************************************************************)
Matches(rule, frame) ==
    \A f \in DOMAIN rule.match : f \in DOMAIN frame /\ rule.match[f] = frame[f]

FirstMatch(acl, frame) ==
    acl[CHOOSE i \in DOMAIN acl : /\ Matches(acl[i], frame)
                                  /\ \A j \in 1..(i - 1) : ~Matches(acl[j], frame)]

OutPorts(rule) == IF "ports" \in DOMAIN rule.output THEN rule.output.ports ELSE {}

(***************************************************************************)
(* Properties.                                                             *)
(***************************************************************************)

\* Every variable has its type: an attached device is on a set that is not free,
\* and a port has one target at most (runner.gateway_sets, _port_targets).
TypeOK ==
    /\ gateway_sets \subseteq PortSets
    /\ \A d \in On : device[d].gateway \in PortSets \ gateway_sets
    /\ DOMAIN set_devices = {set_keys[i] : i \in DOMAIN set_keys}
    /\ \A i, j \in DOMAIN port_targets : i # j => port_targets[i].port # port_targets[j].port
    /\ \A s \in PortSets : gw_vlan[s] \in Vlans \cup {DUMP_VLAN, port_set_vlan(s)}

\* A device found on a port shares a vlan with the gateway ports of its own
\* set, and a port without a target shares one with no gateway
\* (direct_port_traffic, _make_gw_interface).
PortVlanIsItsSets ==
    ~ext_faucet =>
        \A p \in Ports, s \in PortSets :
            sec_vlan[p] = gw_vlan[s] <=> \E d \in Attached(s) : device[d].port = p

\* Every frame an attached device sends is copied to its own mirror port, to
\* that of the group member it is sent to, and a broadcast to those of the
\* whole group and of nobody else (_generate_mirror_acls: the rules of one
\* source are written from the narrowest to the widest).
Mirrored ==
    \A i \in DOMAIN port_targets :
        LET t == port_targets[i]
            Seen(to) == OutPorts(FirstMatch(main_acls.incoming,
                                            [dl_src |-> t.mac, dl_dst |-> to, vlan_vid |-> NO_VLAN]))
        IN  /\ Seen(BROADCAST_MAC) = {mirror_port(device[e].port) : e \in Attached(t.port_set)}
            /\ \A e \in On : Seen(MacOf[e]) =
                    {mirror_port(t.port)}
                    \cup (IF device[e].gateway = t.port_set THEN {mirror_port(device[e].port)} ELSE {})

\* An 802.1x frame of an attached device goes to the test ports of its own
\* gateway, and while the device is alone in its set the answer comes back
\* to its port, whatever device used the port or the set before
\* (_add_dot1x_incoming_rule passes over devices without a gateway).
Dot1xReachesItsGateway ==
    \A d \in On : device[d].port # 0 =>
        LET vlan  == sec_vlan[device[d].port]
            frame == [dl_type |-> "dot1x", dl_src |-> MacOf[d], vlan_vid |-> vlan]
            reply == [dl_type |-> "dot1x", vlan_vid |-> vlan]
        IN  /\ OutPorts(FirstMatch(main_acls.incoming, frame))
                   = get_possible_test_ports(device[d].gateway)
            /\ Attached(device[d].gateway) = {d} =>
                   OutPorts(FirstMatch(main_acls.secondary, reply)) = {device[d].port}

\* An attached device reaches the gateway of its set and no other, by the vlan of
\* its port and with 802.1x frames (direct_port_traffic, _add_dot1x_incoming_rule).
ReachesItsGateway == PortVlanIsItsSets /\ Dot1xReachesItsGateway

\* A port's list sends frames straight to another device port only if a
\* device is attached there now, in the same group, addressed by its own
\* address or a broadcast, and the "@to" rules of its type accept a flow of
\* that controller (_resolve_targets, _generate_acls).
PeersAgree ==
    \A p \in Ports : \A i \in DOMAIN port_acls[p] :
        LET rule == port_acls[p][i]
        IN  \A q \in OutPorts(rule) \ {sec_port} :
                \E d, e \in On :
                    /\ device[d].port = p /\ device[e].port = q
                    /\ device[d].gateway = device[e].gateway
                    /\ rule.match.dl_dst \in {BROADCAST_MAC, MacOf[e]}
                    /\ \E c \in DOMAIN specs.macAddrs[MacOf[d]].controllers :
                         LET to == templates[get_device_type(specs, MacOf[e])].to
                         IN  /\ MacOf[e] \in specs.macAddrs[MacOf[d]].controllers[c]
                             /\ \E j \in DOMAIN to : rule_match([l4 |-> rule.match.l4], to[j], c)

\* Behind an external stack, the DHCP reply for an attached device, coming on
\* its egress vlan, is put on the vlan the device is on now; so is its
\* request on the egress vlan when no other device of that vlan is recorded
\* (_add_dhcp_reflectors).  Objects of the same address that outlived their
\* target set are excluded: RetiredSetIsDumped is about those.
RepliesReachTheDevice ==
    \A d \in On :
        LET recorded == UNION Range(set_devices)
            SameMac  == {e \in recorded : MacOf[e] = MacOf[d]}
            SameVlan == {e \in recorded : device[e].vlan = device[d].vlan}
            Frame(kind, vlan) == [dl_type |-> "ipv4", udp |-> kind, dl_src |-> MacOf[d],
                                  dl_dst |-> MacOf[d], vlan_vid |-> vlan]
            Swap(kind, vlan)  == FirstMatch(main_acls.incoming, Frame(kind, vlan)).output.swap_vid
        IN  ext_faucet =>
                /\ SameMac = {d} => Swap("reply", Egress(device[d])) = device[d].vlan
                /\ SameVlan = {d} => Swap("request", device[d].vlan) = Egress(device[d])

\* "Modify gateway set's vlan to match triggering vlan" (direct_device_traffic):
\* a set no device of which is under test is back on the dump vlan.
RetiredSetIsDumped ==
    ext_faucet => \A s \in gateway_sets : gw_vlan[s] = DUMP_VLAN
=============================================================================
