---------------------------- MODULE CaptureTests ----------------------------
(***************************************************************************)
(* Test modules that judge a device by the packets captured while it was     *)
(* monitored: NTP (subset/network/ntp_tests.py), DNS (dns_tests.py), minimum  *)
(* traffic and its type (network_tests.py) and the address changes that the  *)
(* ipaddr module logs (subset/ipaddr/dhcp_tests.py).                         *)
(*                                                                         *)
(* A capture is a sequence of packets in the order of their times; tcpdump   *)
(* and scapy are filters over it. Each test yields pass, fail or skip.       *)
(***************************************************************************)
EXTENDS Integers, SequencesExt

-----------------------------------------------------------------------------
(* NTP. Times are in ticks of which OFFSET_ALLOWANCE is a few; the seconds    *)
(* between the two epochs, and the year 2500, are scaled to keep their order. *)
(* A packet has the time that its sender wrote in it and that of its capture. *)

MODE_CLIENT == 3
MODE_SERVER == 4
LEAP_ALARM == 3
OFFSET_ALLOWANCE == 3
SECONDS_BETWEEN_1900_1970 == 2000
YEAR_2500 == 16000

\* The four packets of the loop, as positions; 0 is None.
NoPoll == [p1 |-> 0, p2 |-> 0, p3 |-> 0, p4 |-> 0]

poll_without_restart(packets, poll, i) ==
    LET mode == packets[i].mode
    IN  IF poll.p1 = 0 THEN (IF mode = MODE_CLIENT THEN [poll EXCEPT !.p1 = i] ELSE poll)
        ELSE IF poll.p2 = 0 THEN (IF mode = MODE_SERVER THEN [poll EXCEPT !.p2 = i] ELSE poll)
        ELSE IF poll.p3 = 0 THEN (IF mode = MODE_CLIENT THEN [poll EXCEPT !.p3 = i] ELSE poll)
        ELSE IF mode = MODE_SERVER THEN [p1 |-> poll.p3, p2 |-> i, p3 |-> 0, p4 |-> 0]
        ELSE poll

\* One turn of the loop that obtains the latest poll: a request is replaced by
\* a later one until it is answered, and a poll by the next that is answered.
next_poll(packets, poll, i) ==
    LET mode == packets[i].mode
    IN  IF poll.p1 = 0 THEN (IF mode = MODE_CLIENT THEN [poll EXCEPT !.p1 = i] ELSE poll)
        ELSE IF poll.p2 = 0 THEN (IF mode = MODE_SERVER THEN [poll EXCEPT !.p2 = i] ELSE [poll EXCEPT !.p1 = i])
        ELSE IF poll.p3 = 0 THEN (IF mode = MODE_CLIENT THEN [poll EXCEPT !.p3 = i] ELSE poll)
        ELSE IF mode = MODE_SERVER THEN [p1 |-> poll.p3, p2 |-> i, p3 |-> 0, p4 |-> 0]
        ELSE [poll EXCEPT !.p3 = i]

latest_poll(packets) ==
    FoldLeft(LAMBDA poll, i : next_poll(packets, poll, i), NoPoll, [i \in DOMAIN packets |-> i])

\* Timestamps are either from 1900 or from 1970.
Since1970(t) == IF t > YEAR_2500 THEN t - SECONDS_BETWEEN_1900_1970 ELSE t
Abs(n) == IF n < 0 THEN -n ELSE n

\* Twice the offset of the clock, by the four times of a poll
poll_offset(request, answer) ==
    Abs((Since1970(request.time) - Since1970(request.sent)) + (Since1970(answer.sent) - Since1970(answer.time)))

ntp_packets(capture) == SelectSeq(capture, LAMBDA p : p.ntp)

test_ntp_update(capture) ==
    LET packets == ntp_packets(capture)
        local == SelectSeq(packets, LAMBDA p : p.local)
        poll == latest_poll(local)
    IN  IF Len(packets) < 2 THEN "skip"
        ELSE IF Len(local) < 2 \/ poll.p1 = 0 \/ poll.p2 = 0 THEN "fail"
        ELSE IF /\ poll_offset(local[poll.p1], local[poll.p2]) < 2 * OFFSET_ALLOWANCE
                /\ local[poll.p1].leap # LEAP_ALARM
             THEN "pass" ELSE "fail"

\* The clock is judged by the last request to the local server that was answered
\* next, by how far the device's clock is ahead of the server's, whichever epoch
\* the timestamps count from. Both times of capture are of the server's clock, so
\* half of what it is ahead is compared with the allowance.
NtpJudgesLatestPoll(capture) ==
    LET local == SelectSeq(capture, LAMBDA p : p.ntp /\ p.local)
        polls == {i \in 1..(Len(local) - 1) : local[i].mode = MODE_CLIENT /\ local[i + 1].mode = MODE_SERVER}
        last == CHOOSE i \in polls : \A j \in polls : j <= i
    IN  (\A i \in DOMAIN capture : capture[i].ntp => capture[i].mode \in {MODE_CLIENT, MODE_SERVER})
        => (test_ntp_update(capture) = "pass"
            <=> /\ polls # {}
                /\ local[last].leap # LEAP_ALARM
                /\ Abs(local[last].ahead) < 2 * OFFSET_ALLOWANCE)

-----------------------------------------------------------------------------
(* DNS                                                                       *)

CONSTANTS Device, DnsServer    \* the address under test and the server DHCP gave it

\* check_communication_for_response: a packet to an address of the response
check_communication(capture, response) ==
    \E k \in DOMAIN capture : capture[k].dst \in response.answers /\ capture[k].time > response.time

test_dns(capture) ==
    LET to_dns == SelectSeq(capture, LAMBDA p : p.dport = 53 /\ p.src = Device)
        to_dhcp_dns == SelectSeq(to_dns, LAMBDA p : p.dst = DnsServer)
        responses == SelectSeq(capture, LAMBDA p : p.sport = 53 /\ p.src = DnsServer)
    IN  IF to_dns = <<>> THEN "skip"
        ELSE IF Len(to_dns) > Len(to_dhcp_dns) \/ responses = <<>> THEN "fail"
        ELSE IF \E k \in DOMAIN responses : check_communication(capture, responses[k]) THEN "pass"
        ELSE "fail"

\* A device passes by using a name it asked for: every request went to the server
\* of the DHCP offer, and some packet went to an address after the server gave it.
DnsUsesTheAnswer(capture) ==
    test_dns(capture) = "pass" =>
        /\ \E k \in DOMAIN capture : capture[k].dport = 53 /\ capture[k].src = Device
        /\ \A k \in DOMAIN capture :
              (capture[k].dport = 53 /\ capture[k].src = Device) => capture[k].dst = DnsServer
        /\ \E j, k \in DOMAIN capture : /\ j < k
                                        /\ capture[j].src = DnsServer
                                        /\ capture[k].dst \in capture[j].answers

-----------------------------------------------------------------------------
(* Minimum traffic and its type                                              *)

min_send_seconds == 3       \* 300, in units of the enumerated times

\* The first pair of packets that is close enough ends the loop.
min_send_pass(times) == \E k \in 2..Len(times) : times[k] - times[k - 1] < min_send_seconds

\* test_connection_min_send: scan_length is 0 when there is no monitor scan.
test_connection_min_send(capture, scan_length) ==
    LET sent == SelectSeq(capture, LAMBDA p : p.src = Device)
    IN  IF scan_length = 0 THEN "skip"
        ELSE IF min_send_pass([k \in DOMAIN sent |-> sent[k].time]) THEN "pass"
        ELSE IF scan_length > min_send_seconds THEN "fail" ELSE "skip"

\* test_communication_type_broadcast: multicast packets of any source count.
test_communication_type(capture) ==
    LET broadcast == Len(SelectSeq(capture, LAMBDA p : p.src = Device /\ p.cast = "broadcast"))
        multicast == Len(SelectSeq(capture, LAMBDA p : p.cast = "multicast"))
        unicast == Len(SelectSeq(capture, LAMBDA p : p.src = Device)) - broadcast - multicast
    IN  IF broadcast > 0 \/ multicast > 0 \/ unicast > 0 THEN "pass" ELSE "fail"

\* A device is failed for sending too little only when the scan was long enough
\* and it was silent for the whole period after each of its packets, and for the
\* type of its traffic only when it sent nothing, whatever the others sent.
FailedWasSilent(capture, scan_length) ==
    /\ test_connection_min_send(capture, scan_length) = "fail" <=>
          /\ scan_length > min_send_seconds
          /\ \A j, k \in DOMAIN capture :
                (j < k /\ capture[j].src = Device /\ capture[k].src = Device)
                => capture[k].time - capture[j].time >= min_send_seconds
    /\ test_communication_type(capture) = "fail" =>
          \A k \in DOMAIN capture : capture[k].src # Device

-----------------------------------------------------------------------------
(* Address changes: the log of the ipaddr module is a sequence of lines, each *)
(* the start of a test or the notification of an address.                    *)

NoAddress == "none"

Index(log, line) == SelectInSeq(log, LAMBDA l : l.line = line)

\* The address of the first notification after the test was started
NotifiedAfter(log, test) ==
    LET start == Index(log, test)
        after == {k \in DOMAIN log : start # 0 /\ k > start /\ log[k].line = "notification"}
    IN  IF after = {} THEN NoAddress ELSE log[CHOOSE k \in after : \A j \in after : k <= j].ip

Pinged(pings, ip) == ip # NoAddress /\ Contains(pings, ip)

test_dhcp_short(log) == IF NotifiedAfter(log, "port_toggle") # NoAddress THEN "pass" ELSE "fail"

test_ip_change(log, pings) ==
    IF Index(log, "ip_change") = 0 THEN "skip"
    ELSE IF Pinged(pings, NotifiedAfter(log, "ip_change")) THEN "pass" ELSE "fail"

\* _test_dhcp_change asks whether the name of the test is empty, not whether the
\* test was run: it never skips.
test_dhcp_change(log, pings) ==
    IF Pinged(pings, NotifiedAfter(log, "dhcp_change")) THEN "pass" ELSE "fail"

\* An address change passes only by a ping from the address that was handed out
\* after that test began, not from one of an earlier test; a reconnection passes
\* only by an address that was handed out after the port was toggled.
ChangeJudgedByItsOwnAddress(log, pings) ==
    LET own(test) == {k \in DOMAIN log : /\ log[k].line = "notification"
                                         /\ \E j \in 1..(k - 1) :
                                               /\ log[j].line = test
                                               /\ \A i \in j..(k - 1) : log[i].line # "notification"}
    IN  /\ test_ip_change(log, pings) = "pass" => \E k \in own("ip_change") : Contains(pings, log[k].ip)
        /\ test_dhcp_change(log, pings) = "pass" => \E k \in own("dhcp_change") : Contains(pings, log[k].ip)
        /\ test_dhcp_short(log) = "pass" => own("port_toggle") # {}
=============================================================================
