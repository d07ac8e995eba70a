----------------------------- MODULE DhcpMonitor -----------------------------
(***************************************************************************)
(* The DHCP monitor of a gateway (daq/dhcp_monitor.py): it reads what        *)
(* tcpdump prints of each packet, several lines for a DHCP packet and one    *)
(* for an ARP request, and notifies the addresses that devices are given.    *)
(*                                                                         *)
(* A line is [line, ip, mac, type, time]; the state of the monitor is a      *)
(* record.  An assertion that fails ends the monitor (_dhcp_error).          *)
(***************************************************************************)
EXTENDS Integers, SequencesExt

DHCP_THRESHHOLD_SEC == 80
NoIp == "none"
NoMac == "none"

\* A monitor that was just started, at time 0.
Started == [target_ip |-> NoIp, target_mac |-> NoMac, device_dhcps |-> <<>>,
            notified |-> <<>>, failed |-> FALSE]

\* The time of the last ACK of a device, or of the start.
last_dhcp(st, mac) == IF mac \in DOMAIN st.device_dhcps THEN st.device_dhcps[mac] ELSE 0

fail(st) == [st EXCEPT !.failed = TRUE]

\* An address was given: the message has one and a device, and the callback is
\* told how long it took since the last ACK.
dhcp_complete(st, type, time) ==
    LET mac == st.target_mac
        is_dhcp == type # "STATIC"
        delta == time - last_dhcp(st, mac)
        notice == [type |-> type, ip |-> st.target_ip, mac |-> mac,
                   mode |-> IF is_dhcp /\ delta > DHCP_THRESHHOLD_SEC THEN "LONG" ELSE "DONE"]
    IN  IF type \notin {"ACK", "Offer", "STATIC"} THEN st
        ELSE IF st.target_ip = NoIp \/ mac = NoMac THEN fail(st)
        ELSE [st EXCEPT !.notified = Append(@, notice),
                        !.device_dhcps = IF type = "ACK" THEN (mac :> time) @@ @ ELSE @]

\* The first line of a DHCP packet drops what is left of the one before.
reset_nothing(st) == st
reset(st) == [st EXCEPT !.target_mac = NoMac, !.target_ip = NoIp]

\* One line of tcpdump.
dhcp_line(st, l) ==
    CASE st.failed -> st
      [] l.line = "START" -> reset(st)
      [] l.line = "IP" -> IF st.target_ip = NoIp THEN [st EXCEPT !.target_ip = l.ip] ELSE fail(st)
      [] l.line = "MAC" -> IF st.target_mac = NoMac THEN [st EXCEPT !.target_mac = l.mac] ELSE fail(st)
      [] l.line = "TYPE" -> dhcp_complete(st, l.type, l.time)
      [] l.line = "ARP" -> dhcp_complete([st EXCEPT !.target_mac = l.mac, !.target_ip = l.ip], "STATIC", l.time)
      [] OTHER -> st

-----------------------------------------------------------------------------
(* What is on the wire: packets [type, ip, mac, time], type "STATIC" for an   *)
(* ARP request, and how tcpdump prints one.                                   *)

Printed(p) ==
    LET as(line) == [line |-> line] @@ p
    IN  IF p.type = "STATIC" THEN <<as("ARP")>>
        ELSE <<as("START")>> \o (IF p.ip = NoIp THEN <<>> ELSE <<as("IP")>>) \o <<as("MAC"), as("other"), as("TYPE")>>

monitored(packets) == FoldLeft(dhcp_line, Started, FlattenSeq([k \in DOMAIN packets |-> Printed(packets[k])]))

\* The monitor notifies the packets that give an address, in their order, each
\* with its own address and device, up to the first answer that gives none, which
\* ends the monitor.  One is late when its device had no ACK in the time allowed.
NotifiesWholePackets(packets) ==
    LET Gives(p) == p.type \in {"ACK", "Offer", "STATIC"}
        bad == {k \in DOMAIN packets : Gives(packets[k]) /\ packets[k].ip = NoIp}
        good == {k \in DOMAIN packets : Gives(packets[k]) /\ \A j \in bad : k < j}
        Acks(k) == {j \in good : j < k /\ packets[j].type = "ACK" /\ packets[j].mac = packets[k].mac}
        Late(k) == packets[k].type # "STATIC"
                     /\ \A t \in {0} \cup {packets[j].time : j \in Acks(k)} : packets[k].time - t > DHCP_THRESHHOLD_SEC
        st == monitored(packets)
    IN  /\ st.failed = (bad # {})
        /\ st.notified =
              LET ks == SetToSortSeq(good, <)
              IN  [n \in DOMAIN ks |->
                      LET p == packets[ks[n]]
                      IN  [type |-> p.type, ip |-> p.ip, mac |-> p.mac, mode |-> IF Late(ks[n]) THEN "LONG" ELSE "DONE"]]
=============================================================================
