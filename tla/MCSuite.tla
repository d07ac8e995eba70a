------------------------------ MODULE MCSuite ------------------------------
(* Examples for the algorithms, chosen one at a time, beside the relay of     *)
(* EAP packets: every packet type with short bodies of bytes that the parsers *)
(* tell apart, and answers long enough to be cut in pieces.                   *)
EXTENDS Relay, Configurator, CaptureTests, CombineReports, DhcpMonitor

Bodies == BoundedSeq({0, 1, 200}, 2) \cup {[k \in 1..n |-> 1] : n \in 3..6}
EapBytes(code, type, body, length) == <<code, 7, 0, length, type>> \o body

MCFrames ==
    {[eap |-> EapBytes(code, type, body, 5 + Len(body)), padding |-> padding] :
        code \in {1, 2}, type \in {1, 3, 4, 13, 21, 25, 99}, body \in Bodies,
        padding \in {<<>>, <<0, 0>>}}
    \cup {[eap |-> EapBytes(2, 1, <<65, 66>>, length), padding |-> <<>>] : length \in 3..8}
    \cup {[eap |-> <<code, 7, 0, 4>>, padding |-> <<0>>] : code \in 1..5}

MCAnswers ==
    {[code |-> code, eap |-> EapBytes(1, type, body, 5 + Len(body)), layout |-> layout] :
        code \in {2, 3, 11}, type \in {4, 13, 21, 25}, body \in Bodies \ {<<>>},
        layout \in {<<<<>>, <<>>>>,
                    <<<<Attribute(18, <<72>>)>>, <<>>>>,
                    <<<<Attribute(27, <<0, 0, 1, 0>>), Attribute(26, <<0, 0, 0, 9, 1>>)>>, <<Attribute(1, <<65>>)>>>>}}
    \cup {[code |-> 2, eap |-> <<3, 7, 0, 4>>, layout |-> <<<<>>, <<>>>>],
          [code |-> 3, eap |-> <<4, 7, 0, 4>>, layout |-> <<<<>>, <<>>>>]}

-----------------------------------------------------------------------------
(* Configuration files, test lists                                           *)

Item(keys, value) == [keys |-> keys, value |-> value]
X(tree) == Dict([x |-> tree])
Contents ==
    {[flat |-> FALSE, lines |-> <<>>, tree |-> t] :
        t \in {EmptyDict, X(Leaf("1")), X(Dict([y |-> Leaf("2")])),
               Dict([x |-> Dict([y |-> Leaf("3"), z |-> Leaf("4")]), y |-> Leaf("5")])}}
    \cup {[flat |-> TRUE, lines |-> l, tree |-> EmptyDict] :
            l \in {<<Item(<<"x", "z">>, "6")>>, <<Item(<<"x">>, "7"), Item(<<"x", "y">>, "8")>>,
                   <<Item(<<"x", "y">>, "9"), Item(<<"x">>, "10")>>, <<Item(<<>>, "11")>>}}
ConfigFiles == {[flat |-> c.flat, lines |-> c.lines, tree |-> c.tree, include |-> i] :
                    c \in Contents, i \in {NoFile, "a", "b"}}
Args == {[file |-> f, keys |-> <<>>, value |-> ""] : f \in {"a", "b"}}
        \cup {[file |-> NoFile, keys |-> k, value |-> "12"] : k \in {<<>>, <<"x">>, <<"x", "y">>, <<"x", "z">>}}

Line(cmd, argument, ordering) == [cmd |-> cmd, argument |-> argument, ordering |-> ordering]
Lines == {Line("add", "t", o) : o \in {"", "first", "last"}}
         \cup {Line("add", "u", ""), Line("remove", "t", ""), Line("remove", "u", ""), Line("build", "t", "")}

-----------------------------------------------------------------------------
(* Captures: packets of a few kinds, in the order of their times             *)

NtpPacket(ntp, local, mode, ahead, leap) ==
    [ntp |-> ntp, local |-> local, mode |-> mode, ahead |-> ahead, leap |-> leap]
NtpKinds == {NtpPacket(TRUE, TRUE, MODE_CLIENT, a, 0) : a \in {0, 5, 6, -6}}
            \cup {NtpPacket(TRUE, TRUE, MODE_SERVER, 0, 0), NtpPacket(TRUE, TRUE, MODE_CLIENT, 0, LEAP_ALARM),
                  NtpPacket(TRUE, FALSE, MODE_CLIENT, 0, 0), NtpPacket(FALSE, FALSE, MODE_CLIENT, 0, 0)}
Stamped(kinds) ==
    [k \in DOMAIN kinds |-> [time |-> 1600 + 10 * k, sent |-> 1600 + 10 * k + SECONDS_BETWEEN_1900_1970 + kinds[k].ahead]
                            @@ kinds[k]]

DnsPacket(src, dst, sport, dport, answers) ==
    [src |-> src, dst |-> dst, sport |-> sport, dport |-> dport, answers |-> answers]
DnsKinds == {DnsPacket(Device, DnsServer, 1, 53, {}), DnsPacket(Device, "other", 1, 53, {}),
             DnsPacket(DnsServer, Device, 53, 1, {"site"}), DnsPacket(DnsServer, Device, 53, 1, {}),
             DnsPacket(Device, "site", 1, 80, {}), DnsPacket("other", Device, 80, 1, {})}

TrafficKinds == {[src |-> s, cast |-> c, gap |-> g] :
                    s \in {Device, "other"}, c \in {"unicast", "broadcast", "multicast"},
                    g \in {1, min_send_seconds - 1, min_send_seconds}}
Spaced(kinds) == [k \in DOMAIN kinds |-> [time |-> FoldLeft(LAMBDA t, p : t + p.gap, 0, SubSeq(kinds, 1, k))]
                                         @@ kinds[k]]

LogLines == {[line |-> l, ip |-> NoAddress] : l \in {"port_toggle", "dhcp_change", "ip_change"}}
            \cup {[line |-> "notification", ip |-> i] : i \in {"ip1", "ip2"}}

AddressKinds == {[type |-> t, ip |-> i, mac |-> m, gap |-> g] :
                    t \in {"ACK", "Offer", "Request"}, i \in {NoIp, "ip1"}, m \in {"m", "n"}, g \in {40, 81}}
                \cup {[type |-> "STATIC", ip |-> "ip2", mac |-> m, gap |-> 1] : m \in {"m", "n"}}

-----------------------------------------------------------------------------
(* Reports and samples                                                       *)

Entry(result, category) == [result |-> result, category |-> category]
Modules == {<<>>, [m |-> [t |-> Entry("pass", "c")]],
            [m |-> [t |-> Entry("fail", "c"), u |-> Entry("fail", "c")], n |-> [t |-> Entry("fail", "d")]]}
Uploads == [uploaded : BOOLEAN, modules : Modules]
ReportOf(t, upload) ==
    [timestamp |-> t, uploaded |-> upload.uploaded, missing_tests |-> <<"v">>, modules |-> upload.modules]
ReportSets == {{ReportOf(t, f[t]) : t \in DOMAIN f} : f \in UNION {[ts -> Uploads] : ts \in SUBSET (1..3)}}

Acl == <<[cookie |-> 1, description |-> "d"], [cookie |-> 2, description |-> "e"], [cookie |-> 0, description |-> "f"]>>
SwitchConfigs == {SEC_SWITCH :> (1 :> <<Acl>> @@ 2 :> <<Acl>>), SEC_SWITCH :> (1 :> <<Acl, Acl>> @@ 2 :> <<Acl>>),
                  SEC_SWITCH :> (1 :> <<Acl>>), "pri" :> (1 :> <<Acl>>)}
Learned == {[dp_name |-> d, eth_src |-> e, port |-> p] : d \in {SEC_SWITCH, "pri"}, e \in {"m", "n"}, p \in 1..2}
Samples == {[dp_name |-> d, in_port |-> p, cookie |-> c] : d \in {SEC_SWITCH, "pri"}, p \in 1..2, c \in 1..2}
Valued(samples) == [k \in DOMAIN samples |-> [value |-> k] @@ samples[k]]

-----------------------------------------------------------------------------
(* The driver                                                                *)

VARIABLE example

Resting == stage = "resting" /\ frame = <<>> /\ message = NoMessage /\ packet = NoPacket
SuiteInit ==
    \/ Init /\ example = [kind |-> "relay"]
    \/ Resting /\ example = [kind |-> "none"]

Open == example.kind = "none"
Choose(e) == example' = e /\ UNCHANGED vars

ChooseConfig == Open /\ \E fa, fb \in ConfigFiles, args \in BoundedSeq(Args, 2) :
                    Choose([kind |-> "config", files |-> [a |-> fa, b |-> fb], args |-> args])
ChooseTests == Open /\ \E f \in BoundedSeq(Lines \cup {Line("include", "g", "")}, 3), g \in BoundedSeq(Lines, 2) :
                    Choose([kind |-> "tests", lists |-> [f |-> f, g |-> g]])
ChooseNtp == Open /\ \E kinds \in BoundedSeq(NtpKinds, 4) : Choose([kind |-> "ntp", capture |-> Stamped(kinds)])
ChooseDns == Open /\ \E kinds \in BoundedSeq(DnsKinds, 4) :
                Choose([kind |-> "dns", capture |-> [k \in DOMAIN kinds |-> [time |-> k] @@ kinds[k]]])
ChooseTraffic == Open /\ \E kinds \in BoundedSeq(TrafficKinds, 3), scan_length \in {0, min_send_seconds, min_send_seconds + 1} :
                    Choose([kind |-> "traffic", capture |-> Spaced(kinds), scan_length |-> scan_length])
ChooseLog == Open /\ \E log \in BoundedSeq(LogLines, 5), pings \in {<<>>, <<"ip1">>, <<"ip2">>} :
                Choose([kind |-> "log", log |-> log, pings |-> pings])
ChooseReports == Open /\ \E reports \in ReportSets, start \in 0..3, count \in 0..2 :
                    Choose([kind |-> "reports", reports |-> reports, start |-> start, count |-> count])
ChooseSamples == Open /\ \E config \in SwitchConfigs, learned \in BoundedSeq(Learned, 2), samples \in BoundedSeq(Samples, 2) :
                    Choose([kind |-> "samples", config |-> config, learned |-> learned, samples |-> Valued(samples)])
ChooseAddresses == Open /\ \E kinds \in BoundedSeq(AddressKinds, 3) :
                    Choose([kind |-> "addresses", packets |-> Spaced(kinds)])

SuiteNext ==
    \/ Next /\ UNCHANGED example
    \/ ChooseConfig \/ ChooseTests \/ ChooseNtp \/ ChooseDns
    \/ ChooseTraffic \/ ChooseLog \/ ChooseReports \/ ChooseSamples \/ ChooseAddresses

SuiteSpec == SuiteInit /\ [][SuiteNext]_<<vars, example>>

-----------------------------------------------------------------------------
(* The properties of the algorithms, at the example                          *)

\* parse_args: each setting has the value of its last source (LastSourceWins).
ConfigIsLastSource == example.kind = "config" => LastSourceWins(example.files, example.args)

\* _get_test_list: the last command about a test decides (TestListFollows).
TestListIsCommands == example.kind = "tests" => TestListFollows(example.lists, "f")

\* test_ntp_update: the last answered request decides (NtpJudgesLatestPoll).
ClockByLatestPoll == example.kind = "ntp" => NtpJudgesLatestPoll(example.capture)

\* test_dns: passed by using an address after it was given (DnsUsesTheAnswer).
NamesAreUsed == example.kind = "dns" => DnsUsesTheAnswer(example.capture)

\* test_connection_min_send and test_communication_type_broadcast: only a silent
\* device fails (FailedWasSilent).
OnlySilentFails == example.kind = "traffic" => FailedWasSilent(example.capture, example.scan_length)

\* dhcp_tests: each change is judged by its own address
\* (ChangeJudgedByItsOwnAddress).
OwnAddress == example.kind = "log" => ChangeJudgedByItsOwnAddress(example.log, example.pings)

\* dhcp_monitor: each address is notified with the device of its own packet
\* (NotifiesWholePackets).
PacketIsWhole == example.kind = "addresses" => NotifiesWholePackets(example.packets)

\* combine_reports: local reports are selected as in the cloud, and counted in
\* two tables that agree (LocalLikeCloud, CountsAddUp).
LocalIsCloud == example.kind = "reports" => LocalLikeCloud(example.reports, example.start, example.count)
CombinedAddUp == example.kind = "reports" => CountsAddUp(example.reports)

\* get_device_rule_counts: a device gets the counts of its own port
\* (CountsOfItsPort).
OwnPortCounts == example.kind = "samples" =>
                    CountsOfItsPort(example.config, {"m"}, example.learned, example.samples)

-----------------------------------------------------------------------------
(* One property for each part of the system                                  *)

\* EAP packets of the supplicant and of the server arrive as they were sent, in
\* requests that the server accepts (radius_pack, Radius.parse, ethernet_pack).
RelayedIntact == ForwardedIntact /\ SealedInPlace /\ AnswerDelivered

\* In the configuration and in the list of tests the last word counts
\* (parse_args, _get_test_list).
LastWordCounts == ConfigIsLastSource /\ TestListIsCommands

\* A device is judged by its own packets and addresses, from the time that the
\* test is about (ntp_tests, dns_tests, network_tests, dhcp_tests).
JudgedByEvidence == ClockByLatestPoll /\ NamesAreUsed /\ OnlySilentFails /\ OwnAddress

\* Reports and samples are selected and counted once, for what they belong to
\* (combine_reports, get_device_rule_counts).
CountedWhereTheyBelong == LocalIsCloud /\ CombinedAddUp /\ OwnPortCounts
=============================================================================
