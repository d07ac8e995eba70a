------------------------------ MODULE MCStreams ------------------------------
\* Two target sets: the device of the first has an external DHCP server and no
\* tests, the device of the second runs one test module.
EXTENDS Streams

MCTests == [g \in Set |-> IF g = 1 THEN 0 ELSE 1]
MCTalks == {<<"dhcp", 1>>, <<"dhcp", 2>>}
MCDies == {<<"arp", 1>>, <<"scan", 1>>, <<"dhcp", 2>>, <<"tcpdump", 2>>, <<"module", 2>>}
=============================================================================
