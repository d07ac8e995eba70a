--------------------------- MODULE TopologyRules ---------------------------
(***************************************************************************)
(* The access lists DAQ writes for Faucet (daq/topology.py): which rules   *)
(* FaucetTopology generates from the ports that have a target, the devices *)
(* of every gateway set and the device specification file.                 *)
(*                                                                         *)
(* A rule is [match, output, actions], three records holding only the      *)
(* keywords that were given, as _make_acl_rule builds them.  The ethernet  *)
(* types and the UDP ports of DHCP are named instead of numbered, and a    *)
(* port list is a set.  File names and descriptions are left out.          *)
(***************************************************************************)
EXTENDS Integers, Sequences, FiniteSets, SequencesExt, Functions, TLC

CONSTANTS
    sec_port,      \* uplink port of the secondary switch
    ext_ofip,      \* TRUE when the switch's own address (lo_addr) is known
    egress_vlan,   \* run_trigger.egress_vlan
    templates      \* device type -> [from, to], sequences of template rules

ASSUME TopologyAssumption ==
    /\ sec_port \in Nat /\ sec_port > 1
    /\ ext_ofip \in BOOLEAN
    /\ {"default", "baseline", "raw"} \subseteq DOMAIN templates
    \* an unlisted device has the type "default", whose rules name no
    \* controller: _resolve_targets would not find the device
    /\ \A i \in DOMAIN templates["default"].from :
            templates["default"].from[i].nw_dst = "none"

SET_SPACING == 10
NUM_SET_PORTS == 6
TEST_OFFSET_START == 2
MIRROR_PORT_BASE == 1000
SWITCH_LOCAL_PORT == MIRROR_PORT_BASE
LOCAL_VLAN == 1000
DUMP_VLAN == 999
NO_VLAN == 0                \* the match on untagged frames
PRI_TRUNK_PORT == 1
OFPP_IN_PORT == -8
BROADCAST_MAC == "broadcast"

Ports == 1..(sec_port - 1)
PortSets == 1..(sec_port - 1)

mirror_port(p) == MIRROR_PORT_BASE + p
port_set_vlan(s) == IF s # 0 THEN LOCAL_VLAN + s ELSE DUMP_VLAN
get_gw_ports(s) == (SET_SPACING * s)..(SET_SPACING * s + NUM_SET_PORTS - 1)
get_possible_test_ports(s) ==
    (SET_SPACING * s + TEST_OFFSET_START)..(SET_SPACING * s + NUM_SET_PORTS - 1)

(***************************************************************************)
(* One rule from its keyword arguments, and the lists of rules.            *)
(***************************************************************************)
Keywords(kwargs, names) == Restrict(kwargs, DOMAIN kwargs \cap names)

make_acl_rule(kwargs) ==
    [match   |-> Keywords(kwargs, {"dl_type", "dl_src", "dl_dst", "udp",
                                   "vlan_vid", "ipv4_dst"}),
     output  |-> Keywords(kwargs, {"ports", "out_vid", "swap_vid"}),
     actions |-> Keywords(kwargs, {"allow"})]

\* The rules of every member of a sequence, one after the other.
RulesOf(seq, Rules(_)) == FlattenSeq([i \in DOMAIN seq |-> Rules(seq[i])])

\* _port_targets.get(port): at most one target of the dict has the port
TargetsAt(targets, p) == SelectSeq(targets, LAMBDA t : t.port = p)

get_port_vlan(targets, p) ==
    LET at == TargetsAt(targets, p)
    IN  port_set_vlan(IF at = <<>> THEN 0 ELSE Head(at).port_set)

(***************************************************************************)
(* 802.1x frames: from a device's port to the test ports of its gateway,   *)
(* and back.  A device whose gateway was released is passed over.          *)
(***************************************************************************)
dot1x_rule(ports, vlan) ==
    make_acl_rule([dl_type |-> "dot1x", ports |-> ports, vlan_vid |-> vlan])

dot1x_out_rule(ports, vlan) ==
    make_acl_rule([dl_type |-> "dot1x", ports |-> ports, out_vid |-> vlan])

dot1x_incoming(targets, devices) ==
    LET rules(d) == IF d.gateway = 0 THEN <<>>
                    ELSE <<dot1x_rule(get_possible_test_ports(d.gateway),
                                      get_port_vlan(targets, d.port))>>
    IN  RulesOf(devices, rules)

dot1x_secondary(targets, devices) ==
    LET rules(d) == IF d.gateway = 0 \/ d.port = 0 THEN <<>>
                    ELSE <<dot1x_rule({d.port}, get_port_vlan(targets, d.port))>>
    IN  RulesOf(devices, rules)

(***************************************************************************)
(* Mirroring: what a device under test sends and receives is copied to the *)
(* mirror port of its own port, where its test captures it.                *)
(***************************************************************************)
Members(targets, s) == SelectSeq(targets, LAMBDA t : t.port_set = s)
MirrorPorts(members) == {mirror_port(members[i].port) : i \in DOMAIN members}

source_rules_widest_first(members, src) ==
    LET pair(dst) == IF dst.mac = src.mac THEN <<>>
                     ELSE <<make_acl_rule([dl_src |-> src.mac, dl_dst |-> dst.mac,
                                           vlan_vid |-> NO_VLAN,
                                           ports |-> {mirror_port(src.port), mirror_port(dst.port)}])>>
    IN  <<make_acl_rule([dl_src |-> src.mac, vlan_vid |-> NO_VLAN,
                         ports |-> {mirror_port(src.port)}]),
          make_acl_rule([dl_src |-> src.mac, dl_dst |-> BROADCAST_MAC,
                         vlan_vid |-> NO_VLAN, ports |-> MirrorPorts(members)])>>
        \o RulesOf(members, pair)

\* the rules one member of a port set adds to the primary's incoming list
source_mirror_acls(members, src) ==
    LET pair(dst) == IF dst.mac = src.mac THEN <<>>
                     ELSE <<make_acl_rule([dl_src |-> src.mac, dl_dst |-> dst.mac,
                                           vlan_vid |-> NO_VLAN,
                                           ports |-> {mirror_port(src.port), mirror_port(dst.port)}])>>
    IN  <<make_acl_rule([dl_src |-> src.mac, dl_dst |-> BROADCAST_MAC,
                         vlan_vid |-> NO_VLAN, ports |-> MirrorPorts(members)])>>
        \o RulesOf(members, pair)
        \o <<make_acl_rule([dl_src |-> src.mac, vlan_vid |-> NO_VLAN,
                            ports |-> {mirror_port(src.port)}])>>

\* the port sets that have a target, in the order their first target came
MirroredSets(targets) ==
    LET first(i) == \A j \in 1..(i - 1) : targets[j].port_set # targets[i].port_set
        seq == [i \in DOMAIN targets |-> IF first(i) THEN <<targets[i].port_set>> ELSE <<>>]
    IN  FlattenSeq(seq)

incoming_mirror_acls(targets) ==
    LET set_rules(s) == LET source(t) == source_mirror_acls(Members(targets, s), t)
                        IN  RulesOf(Members(targets, s), source)
    IN  RulesOf(MirroredSets(targets), set_rules)

\* the portset list of set s: to a target's mirror, and broadcasts to all
port_target_acls(targets, s) ==
    LET rule(t) == <<make_acl_rule([dl_dst |-> t.mac, allow |-> 1,
                                    ports |-> {mirror_port(t.port)}])>>
    IN  RulesOf(Members(targets, s), rule)

portset_mirror_acls(targets, s) ==
    IF Members(targets, s) = <<>> THEN <<>>
    ELSE <<make_acl_rule([dl_dst |-> BROADCAST_MAC, allow |-> 1,
                          ports |-> MirrorPorts(Members(targets, s)) \cup {SWITCH_LOCAL_PORT}])>>

switch_local_acls(s) ==
    IF ~ext_ofip THEN <<>>
    ELSE <<make_acl_rule([ipv4_dst |-> "ext_ofip", dl_type |-> "ipv4",
                          ports |-> {SWITCH_LOCAL_PORT}])>>

local_acl ==
    <<make_acl_rule([ports |-> IF ext_ofip THEN UNION {get_gw_ports(s) : s \in PortSets} ELSE {}])>>

(***************************************************************************)
(* DHCP reflection for an external stack: a request moves from the         *)
(* device's vlan to the egress vlan, the reply back.                       *)
(***************************************************************************)
Egress(d) == IF d.assigned # 0 THEN d.assigned ELSE egress_vlan

dhcp_reflectors(ext_faucet, devices) ==
    LET reflect(d) ==
            <<make_acl_rule([udp |-> "request", dl_type |-> "ipv4", vlan_vid |-> d.vlan,
                             swap_vid |-> Egress(d), ports |-> {OFPP_IN_PORT}]),
              make_acl_rule([udp |-> "reply", dl_type |-> "ipv4", dl_dst |-> d.mac,
                             vlan_vid |-> Egress(d), swap_vid |-> d.vlan,
                             ports |-> {OFPP_IN_PORT}, allow |-> 1])>>
    IN  IF ~ext_faucet THEN <<>>
        ELSE RulesOf(devices, reflect)
             \o <<make_acl_rule([dl_type |-> "ipv4", udp |-> "request", allow |-> 1]),
                  make_acl_rule([dl_type |-> "ipv4", udp |-> "reply", allow |-> 0])>>

\* the file with the lists of the primary and of the secondary's trunk
generate_main_acls(ext_faucet, targets, devices) ==
    LET allow == <<make_acl_rule([allow |-> 1])>>
    IN  [incoming  |-> dot1x_incoming(targets, devices) \o incoming_mirror_acls(targets)
                       \o dhcp_reflectors(ext_faucet, devices) \o allow,
         secondary |-> dot1x_secondary(targets, devices) \o allow,
         portset   |-> [s \in PortSets |->
                            switch_local_acls(s) \o port_target_acls(targets, s)
                            \o portset_mirror_acls(targets, s)
                            \o <<dot1x_out_rule({PRI_TRUNK_PORT}, port_set_vlan(s))>> \o allow],
         local     |-> local_acl]

(***************************************************************************)
(* The lists of the device ports, from the device specifications.  specs   *)
(* is [given, macAddrs]; macAddrs maps an address to a record that may     *)
(* have type, group, default_allow and controllers, the last a function    *)
(* from a controller's name to the addresses of its controlees.  A         *)
(* template rule is [mac, nw_dst, nw_src, l4, allow]: whether dl_src is    *)
(* "@mac:", the "@ctrl:" names or "none", the transport ports it matches   *)
(* and its action.                                                         *)
(***************************************************************************)
get_device_type(specs, mac) ==
    IF mac \in DOMAIN specs.macAddrs /\ "type" \in DOMAIN specs.macAddrs[mac]
    THEN specs.macAddrs[mac].type ELSE "default"

sanitize_mac(mac) == <<"mac", mac>>

device_group_for(specs, ext_faucet, mac, vlan) ==
    IF ext_faucet THEN <<"vlan", vlan>>
    ELSE IF specs.given /\ mac \in DOMAIN specs.macAddrs
            /\ "group" \in DOMAIN specs.macAddrs[mac]
    THEN <<"group", specs.macAddrs[mac].group>>
    ELSE sanitize_mac(mac)

\* a transport port given on both sides must be the same
conditional_match(src, dst, field) ==
    field \in DOMAIN src /\ field \in DOMAIN dst => src[field] = dst[field]

rule_match(src_rule, dst_rule, controller) ==
    /\ dst_rule.nw_src = controller
    /\ \A field \in {"udp_src", "udp_dst", "tcp_src", "tcp_dst"} :
            conditional_match(src_rule.l4, dst_rule.l4, field)

\* the "@to" rules of the target's type, if its address is specified
allow_target_mac(specs, mac, src_rule, controller) ==
    /\ mac \in DOMAIN specs.macAddrs
    /\ LET to == templates[get_device_type(specs, mac)].to
       IN  \E i \in DOMAIN to : rule_match(src_rule, to[i], controller)

NoTargets == {0}     \* None: the rule is not about a controller's devices

\* the attached ports of the controlees that accept the flow
resolve_targets(specs, targets, src_mac, rule) ==
    LET known == /\ rule.nw_dst # "none"
                 /\ "controllers" \in DOMAIN specs.macAddrs[src_mac]
                 /\ rule.nw_dst \in DOMAIN specs.macAddrs[src_mac].controllers
    IN  IF ~known THEN NoTargets
        ELSE {i \in DOMAIN targets :
                /\ targets[i].mac \in specs.macAddrs[src_mac].controllers[rule.nw_dst]
                /\ allow_target_mac(specs, targets[i].mac, rule, rule.nw_dst)}

\* the placeholders of a template rule: "@mac:" is the device's address
resolve_template_field(rule, src_mac) ==
    IF rule.mac THEN [dl_src |-> src_mac] ELSE << >>

\* the port rule of a template rule; ports is NoTargets, or further outputs
augment_sec_port_acl(rule, src_mac, ports, dl_dst) ==
    LET dst   == IF dl_dst # "none" THEN [dl_dst |-> dl_dst] ELSE << >>
        dhcp  == "udp_src" \in DOMAIN rule.l4 /\ rule.l4["udp_src"] = 68
        match == [l4 |-> rule.l4] @@ resolve_template_field(rule, src_mac)
    IN  IF rule.allow = 0
        THEN [match |-> match, output |-> << >>, actions |-> [allow |-> 0]]
        ELSE [match   |-> match @@ dst,
              output  |-> [ports |-> (ports \ NoTargets) \cup {sec_port}],
              actions |-> IF ports # NoTargets /\ ~dhcp THEN << >> ELSE [allow |-> 1]]

append_augmented_rule(rule, src_mac, targets, reached) ==
    IF reached = NoTargets
    THEN <<augment_sec_port_acl(rule, src_mac, NoTargets, "none")>>
    ELSE LET seq == SetToSortSeq(reached, <)
         IN  <<augment_sec_port_acl(rule, src_mac, {targets[i].port : i \in reached},
                                    BROADCAST_MAC)>>
             \o [i \in DOMAIN seq |->
                    augment_sec_port_acl(rule, src_mac, {targets[seq[i]].port},
                                         targets[seq[i]].mac)]

append_acl_template(specs, targets, type, mac) ==
    LET rules(rule) == append_augmented_rule(rule, mac, targets,
                                             resolve_targets(specs, targets, mac, rule))
    IN  RulesOf(templates[type].from, rules)

PlainRule(allow) == [mac |-> FALSE, nw_dst |-> "none", nw_src |-> "none",
                     l4 |-> << >>, allow |-> allow]

append_device_default_allow(specs, mac) ==
    IF mac \in DOMAIN specs.macAddrs /\ "default_allow" \in DOMAIN specs.macAddrs[mac]
    THEN <<augment_sec_port_acl(PlainRule(specs.macAddrs[mac].default_allow), mac,
                                NoTargets, "none")>>
    ELSE <<>>

make_default_acl_rules(specs, targets) ==
    IF specs.given THEN append_acl_template(specs, targets, "raw", "none")
    ELSE <<augment_sec_port_acl(PlainRule(1), "none", NoTargets, "none")>>

generate_port_acl(specs, targets, p) ==
    LET at  == TargetsAt(targets, p)
        mac == Head(at).mac
    IN  <<dot1x_out_rule({sec_port}, get_port_vlan(targets, p))>>
        \o IF specs.given /\ at # <<>>
           THEN append_acl_template(specs, targets, get_device_type(specs, mac), mac)
                \o append_acl_template(specs, targets, "baseline", "none")
                \o append_device_default_allow(specs, mac)
           ELSE make_default_acl_rules(specs, targets)
=============================================================================
