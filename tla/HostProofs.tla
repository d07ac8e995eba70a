----------------------------- MODULE HostProofs -----------------------------
(***************************************************************************)
(* Proofs about HostLifecycle, for every group of devices, number of tests *)
(* and of test ports, configuration and fault.                             *)
(***************************************************************************)
EXTENDS HostLifecycle, FiniteSetTheorems, TLAPS

(* What holds of a host between two handlers. A module exists during a test  *)
(* only, and the timeout of a test is armed during one only: a callback that  *)
(* comes late finds no other phase to end.                                   *)
HostOK(h, r) ==
    /\ r \in HostRecord /\ r.device = h
    /\ r.streams = Owned(r)
    /\ r.monitor = CaptureOf(r.state)
    /\ r.module # "none" <=> r.state = "TESTING"
    /\ r.timeout_handler = "main" => r.state = "TESTING"
    /\ r.state = "TESTING" => r.remaining_tests < NumTests /\ r.test_port \in Ports

HostsOK == hosts \in [Host -> HostRecord] /\ \A h \in Host : HostOK(h, hosts[h])

(* The phases after the activation of the gateway. *)
RunStates == {"BASE", "MONITOR", "NEXT", "TESTING", "HOLD", "DONE"}

(* Ports are in use, and hosts run, only while the gateway is activated. It is *)
(* why a leak stays bounded: no host starts anew while a port is in use.      *)
ActivatedToRun ==
    /\ test_ports # {} => activated
    /\ \A h \in Host : hosts[h].state \in RunStates => activated

OtherType ==
    /\ test_ports \subseteq Ports
    /\ activated \in BOOLEAN
    /\ running \in BOOLEAN
    /\ no_test \in NoTest

IInv == HostsOK /\ OtherType /\ ActivatedToRun /\ PortsExclusive /\ LeakBounded
-----------------------------------------------------------------------------
(* The methods of a host *)

\* A host between two phases: no capture, no module, nothing monitored.
Clean(h, r) ==
    /\ r \in HostRecord /\ r.device = h
    /\ r.monitor = "none" /\ r.module = "none" /\ r.streams = {}

\* What a host that ended looks like.
Gone(h, r) == HostOK(h, r) /\ r.state = "none" /\ ~r.mismatch

\* The constants and the variables that the methods read.
LEMMA Numbers == NumTests \in Nat /\ NumPorts \in Nat /\ NoPort \notin Ports /\ Capture \in Streams
BY ConstantsAssumption DEF NoPort, Ports, Capture, Streams

\* A new host is one that ended.
LEMMA NoHostOK == ASSUME NEW h \in Host PROVE Gone(h, NoHost(h)) /\ NoHost(h).streams = {}
<1>1. NoHost(h) \in HostRecord
  BY Numbers DEF NoHost, HostRecord, States
<1>. QED  BY <1>1 DEF Gone, HostOK, NoHost, Owned, CaptureOf

\* The number of the current test is the number of a stream.
LEMMA CurrentType ==
    ASSUME NEW r \in HostRecord PROVE Current(r) \in Streams /\ (r.remaining_tests < NumTests => Current(r) # Capture)
<1>1. r.remaining_tests \in 0..NumTests
  BY DEF HostRecord
<1>. QED  BY <1>1, Numbers DEF Current, Streams, Capture

\* terminate of a host whose capture is monitored, or has ended and was cleaned up.
LEMMA TerminateOK ==
    ASSUME NEW h \in Host, NEW r \in HostRecord, r.device = h, CleanupMatches(r, TRUE),
           r.streams \subseteq {Capture, Current(r)}
    PROVE  Gone(h, terminate(r))
<1>. DEFINE rest == monitor_cleanup(r).streams \ {Current(r)}
<1>1. rest = {}
  BY DEF monitor_cleanup, HostRecord
<1>2. terminate(r) = [NoHost(h) EXCEPT !.streams = rest]
  BY DEF terminate
<1>. HIDE DEF rest
<1>3. terminate(r) = NoHost(h)
  BY <1>1, <1>2 DEF NoHost
<1>. QED  BY <1>3, NoHostOK

\* A host between two phases ends.
LEMMA EndCleanOK ==
    ASSUME NEW h \in Host, NEW r, Clean(h, r), NEW ports, NEW o \in target_set_end(r, ports)
    PROVE  Gone(h, o.host) /\ o.ports = ports
<1>1. o = [host |-> terminate(r), ports |-> ports]
  BY DEF target_set_end, Outcome
<1>2. Gone(h, terminate(r))
  BY TerminateOK DEF Clean, CleanupMatches
<1>. QED  BY <1>1, <1>2

\* A host ends, from any state between two handlers.
LEMMA EndOK ==
    ASSUME NEW h \in Host, NEW r, HostOK(h, r), NEW ports, NEW o \in target_set_end(r, ports)
    PROVE  Gone(h, o.host) /\ o.ports = ports
<1>1. o = [host |-> terminate(r), ports |-> ports]
  BY DEF target_set_end, Outcome
<1>2. CleanupMatches(r, TRUE) /\ r.streams \subseteq {Capture, Current(r)}
  BY DEF HostOK, CleanupMatches, Owned
<1>3. Gone(h, terminate(r))
  BY <1>2, TerminateOK DEF HostOK
<1>. QED  BY <1>1, <1>3

\* _monitor_scan of a host between two phases, in the phase that the capture is for.
LEMMA ScanOK ==
    ASSUME NEW h \in Host, NEW r, Clean(h, r), r.timeout_handler # "main",
           NEW what \in {"startup", "monitor"}, NEW state \in States, state # "TESTING", CaptureOf(state) = what
    PROVE  LET s == [monitor_scan(r, what) EXCEPT !.state = state]
           IN  HostOK(h, s) /\ s.state = state /\ s.mismatch = r.mismatch /\ s.test_port = r.test_port
<1>. DEFINE s == [monitor_scan(r, what) EXCEPT !.state = state]
<1>1. s = [r EXCEPT !.monitor = what, !.streams = {Capture}, !.state = state]
  BY DEF monitor_scan, Clean, HostRecord
<1>. HIDE DEF s
<1>2. s \in HostRecord
  BY <1>1, Numbers DEF Clean, HostRecord
<1>3. /\ s.device = h /\ s.monitor = what /\ s.module = "none" /\ s.streams = {Capture}
      /\ s.state = state /\ s.mismatch = r.mismatch /\ s.test_port = r.test_port
      /\ s.timeout_handler = r.timeout_handler
  BY <1>1 DEF Clean, HostRecord
<1>. QED  BY <1>2, <1>3 DEF HostOK, Owned, s


\* The start of a test takes a port that was free.
Tests(h, o, ports) ==
    /\ HostOK(h, o.host) /\ o.host.state = "TESTING"
    /\ o.host.test_port \in Ports \ ports
    /\ o.ports = ports \cup {o.host.test_port}

\* What the run of the next test may come to, with the ports in use before it.
Continues(h, o, ports) ==
    \/ Tests(h, o, ports)
    \/ HostOK(h, o.host) /\ o.host.state \in {"HOLD", "DONE", "none"} /\ o.ports = ports

\* The module's start, for a test that has a port.
LEMMA ModuleStartOK ==
    ASSUME NEW h \in Host, NEW r, Clean(h, r), r.remaining_tests < NumTests, NEW p \in Ports,
           NEW s \in module_start([start_test(r) EXCEPT !.test_port = p])
    PROVE  HostOK(h, s) /\ s.state = "TESTING" /\ s.test_port = p /\ s.mismatch = r.mismatch
<1>. DEFINE t == [start_test(r) EXCEPT !.test_port = p]
<1>1. t = [r EXCEPT !.monitor = "test", !.streams = {Capture}, !.state = "TESTING", !.test_port = p]
  BY DEF start_test, monitor_scan, Clean, HostRecord
<1>2. s \in {[t EXCEPT !.module = "process", !.streams = @ \cup {Current(t)}], [t EXCEPT !.module = "inline"]}
  BY DEF module_start
<1>. HIDE DEF t
<1>3. t \in HostRecord
  BY <1>1, Numbers DEF Clean, HostRecord, States
<1>4. /\ t.device = h /\ t.monitor = "test" /\ t.module = "none" /\ t.streams = {Capture}
      /\ t.state = "TESTING" /\ t.mismatch = r.mismatch /\ t.test_port = p
      /\ t.remaining_tests = r.remaining_tests
  BY <1>1 DEF Clean, HostRecord
<1>5. Current(t) \in Streams /\ Current(t) # Capture
  BY <1>3, <1>4, CurrentType
<1>6. CASE s = [t EXCEPT !.module = "process", !.streams = @ \cup {Current(t)}]
  <2>1. s \in HostRecord
    BY <1>3, <1>5, <1>6 DEF HostRecord
  <2>2. /\ s.device = h /\ s.monitor = "test" /\ s.module = "process" /\ s.streams = {Capture, Current(t)}
        /\ s.state = "TESTING" /\ s.mismatch = r.mismatch /\ s.test_port = p
        /\ s.remaining_tests = r.remaining_tests /\ Current(s) = Current(t)
    BY <1>3, <1>4, <1>6 DEF HostRecord, Current
  <2>. QED  BY <2>1, <2>2 DEF HostOK, Owned, CaptureOf
<1>7. CASE s = [t EXCEPT !.module = "inline"]
  <2>1. s \in HostRecord
    BY <1>3, <1>7 DEF HostRecord
  <2>2. /\ s.device = h /\ s.monitor = "test" /\ s.module = "inline" /\ s.streams = {Capture}
        /\ s.state = "TESTING" /\ s.mismatch = r.mismatch /\ s.test_port = p
        /\ s.remaining_tests = r.remaining_tests
    BY <1>3, <1>4, <1>7 DEF HostRecord
  <2>. QED  BY <2>1, <2>2 DEF HostOK, Owned, CaptureOf
<1>. QED  BY <1>2, <1>6, <1>7

\* _run_test starts a test with a free port, or the host ends with the ports as they were.
LEMMA RunTestOK ==
    ASSUME NEW h \in Host, NEW r, Clean(h, r), r.remaining_tests > 0, NEW ports,
           NEW o \in run_test(r, ports)
    PROVE  /\ Continues(h, o, ports) /\ o.host.state \in {"TESTING", "none"}
           /\ o.host.mismatch => r.mismatch
<1>. DEFINE tested == [r EXCEPT !.timeout_handler = "main", !.remaining_tests = @ - 1]
            free == allocate_test_port(ports)
            started == UNION {module_start([start_test(tested) EXCEPT !.test_port = p]) : p \in free}
<1>1. Clean(h, tested) /\ tested.remaining_tests < NumTests /\ tested.mismatch = r.mismatch
  <2>1. r.remaining_tests \in 0..NumTests /\ r.remaining_tests - 1 \in 0..NumTests
    BY Numbers DEF Clean, HostRecord
  <2>2. tested \in HostRecord
    BY <2>1 DEF Clean, HostRecord
  <2>. QED  BY <2>1, <2>2, Numbers DEF Clean, HostRecord
<1>2. free \subseteq Ports \ ports
  BY DEF allocate_test_port
<1>3. \/ o \in target_set_end(tested, ports)
      \/ \E t \in started : o \in Outcome(t, ports \cup {t.test_port})
  BY DEF run_test
<1>. HIDE DEF tested, free
<1>4. CASE o \in target_set_end(tested, ports)
  BY <1>1, <1>4, EndCleanOK DEF Continues, Gone
<1>5. ASSUME NEW t \in started, o \in Outcome(t, ports \cup {t.test_port})
      PROVE  Tests(h, o, ports) /\ o.host.mismatch = r.mismatch
  <2>1. PICK p \in free : t \in module_start([start_test(tested) EXCEPT !.test_port = p])
    OBVIOUS
  <2>2. HostOK(h, t) /\ t.state = "TESTING" /\ t.test_port = p /\ t.mismatch = r.mismatch
    BY <1>1, <1>2, <2>1, ModuleStartOK
  <2>3. o.host = t /\ o.ports = ports \cup {t.test_port}
    BY <1>5 DEF Outcome
  <2>. QED  BY <1>2, <2>2, <2>3 DEF Tests
<1>. QED  BY <1>3, <1>4, <1>5 DEF Continues, Tests

\* _run_next_test of a host between two tests.
LEMMA RunNextOK ==
    ASSUME NEW h \in Host, NEW r, Clean(h, r), r.timeout_handler # "main", NEW ports,
           NEW o \in run_next_test(r, ports)
    PROVE  Continues(h, o, ports) /\ (o.host.mismatch => r.mismatch)
<1>1. CASE r.remaining_tests > 0
  BY <1>1, RunTestOK DEF run_next_test
<1>2. CASE ~(r.remaining_tests > 0)
  <2>1. \/ o.host = [r EXCEPT !.state = "HOLD"] /\ o.ports = ports
        \/ o.host = [r EXCEPT !.state = "DONE", !.timeout_handler = "aux"] /\ o.ports = ports
    BY <1>2 DEF run_next_test, Outcome
  <2>2. o.host \in HostRecord
    <3>1. [r EXCEPT !.state = "HOLD"] \in HostRecord
      BY DEF Clean, HostRecord, States
    <3>2. [r EXCEPT !.state = "DONE", !.timeout_handler = "aux"] \in HostRecord
      BY DEF Clean, HostRecord, States
    <3>. QED  BY <2>1, <3>1, <3>2
  <2>3. /\ o.host.device = h /\ o.host.monitor = "none" /\ o.host.module = "none" /\ o.host.streams = {}
        /\ o.host.state \in {"HOLD", "DONE"} /\ o.host.timeout_handler # "main" /\ o.host.mismatch = r.mismatch
    BY <2>1 DEF Clean, HostRecord
  <2>. QED  BY <2>1, <2>2, <2>3 DEF Continues, HostOK, Owned, CaptureOf
<1>. QED  BY <1>1, <1>2


\* The end of a test: of the host only its capture is left.
Finalized(h, r) ==
    /\ r \in HostRecord /\ r.device = h
    /\ r.state = "TESTING" /\ r.monitor = "test" /\ r.streams = {Capture}

\* _module_callback gives the port of the test back before the next one takes one.
LEMMA CallbackOK ==
    ASSUME NEW h \in Host, NEW r, Finalized(h, r), NEW ports, r.test_port \in ports,
           NEW o \in module_callback(r, ports)
    PROVE  Continues(h, o, ports \ {r.test_port}) /\ (o.host.mismatch => r.mismatch)
<1>. DEFINE next == [monitor_cleanup(r) EXCEPT !.state = "NEXT", !.module = "none",
                                               !.timeout_handler = "none"]
<1>1. CleanupMatches(r, TRUE)
  BY DEF CleanupMatches, Finalized
<1>2. o \in run_next_test(next, ports \ {r.test_port})
  BY <1>1 DEF module_callback, end_test
<1>3. next = [r EXCEPT !.monitor = "none", !.streams = {}, !.state = "NEXT", !.module = "none",
                       !.timeout_handler = "none"]
  BY DEF monitor_cleanup, Finalized, HostRecord
<1>. HIDE DEF next
<1>4. next \in HostRecord
  BY <1>3 DEF Finalized, HostRecord, States
<1>5. Clean(h, next) /\ next.timeout_handler # "main" /\ next.mismatch = r.mismatch
  BY <1>3, <1>4 DEF Clean, Finalized, HostRecord
<1>. QED  BY <1>2, <1>5, RunNextOK

\* A test whose module is finalized, or waits without a process.
LEMMA FinalizedOK ==
    ASSUME NEW h \in Host, NEW r, HostOK(h, r), r.state = "TESTING"
    PROVE  /\ Finalized(h, finalize(r))
           /\ finalize(r).test_port = r.test_port /\ finalize(r).mismatch = r.mismatch
           /\ r.module = "inline" => Finalized(h, r)
<1>1. r \in HostRecord /\ r.remaining_tests < NumTests
  BY DEF HostOK
<1>2. Current(r) # Capture
  BY <1>1, CurrentType
<1>3. r.monitor = "test" /\ r.device = h
  BY DEF HostOK, CaptureOf
<1>4. r.streams \ {Current(r)} = {Capture}
  BY <1>2, <1>3 DEF HostOK, Owned
<1>5. finalize(r) = [r EXCEPT !.streams = {Capture}]
  BY <1>1, <1>4 DEF finalize, HostRecord
<1>6. finalize(r) \in HostRecord
  BY <1>1, <1>5, Numbers DEF HostRecord
<1>7. r.module = "inline" => r.streams = {Capture}
  BY <1>3 DEF HostOK, Owned
<1>. QED  BY <1>1, <1>3, <1>5, <1>6, <1>7 DEF Finalized, HostRecord

\* A module that was finalized without its callback.
LEMMA DeadOK ==
    ASSUME NEW h \in Host, NEW r, HostOK(h, r), r.state = "TESTING"
    PROVE  LET s == [finalize(r) EXCEPT !.module = "dead"]
           IN  /\ HostOK(h, s) /\ s.state = r.state /\ s.test_port = r.test_port
               /\ s.mismatch = r.mismatch
<1>. DEFINE f == finalize(r)
            s == [f EXCEPT !.module = "dead"]
<1>1. Finalized(h, f) /\ f.test_port = r.test_port /\ f.mismatch = r.mismatch
  BY FinalizedOK
<1>2. f.remaining_tests = r.remaining_tests /\ r \in HostRecord
  BY DEF finalize, HostOK, HostRecord
<1>. HIDE DEF f
<1>3. s \in HostRecord
  BY <1>1 DEF Finalized, HostRecord
<1>4. /\ s.device = h /\ s.state = "TESTING" /\ s.monitor = "test" /\ s.module = "dead"
      /\ s.streams = {Capture} /\ s.test_port = r.test_port /\ s.mismatch = r.mismatch
      /\ s.remaining_tests = r.remaining_tests
  BY <1>1, <1>2 DEF Finalized, HostRecord
<1>. HIDE DEF s
<1>5. HostOK(h, s)
  BY <1>3, <1>4 DEF HostOK, Owned, CaptureOf
<1>. QED  BY <1>4, <1>5 DEF s, f

\* The host ends when the capture has failed and was cleaned up.
LEMMA CleanedUpOK ==
    ASSUME NEW h \in Host, NEW r \in HostRecord, r.device = h,
           r.streams \subseteq {Capture, Current(r)}, NEW ports,
           NEW o \in target_set_end(monitor_cleanup(r), ports)
    PROVE  Gone(h, o.host) /\ o.ports = ports
<1>. DEFINE c == monitor_cleanup(r)
<1>1. c = [r EXCEPT !.monitor = "none", !.streams = @ \ {Capture}]
  BY DEF monitor_cleanup
<1>2. o = [host |-> terminate(c), ports |-> ports]
  BY DEF target_set_end, Outcome
<1>. HIDE DEF c
<1>3. c \in HostRecord
  BY <1>1 DEF HostRecord
<1>4. c.device = h /\ c.monitor = "none" /\ c.streams = r.streams \ {Capture} /\ Current(c) = Current(r)
  BY <1>1 DEF HostRecord, Current
<1>5. Gone(h, terminate(c))
  BY <1>3, <1>4, TerminateOK DEF CleanupMatches
<1>. QED  BY <1>2, <1>5

\* _aux_module_timeout_handler ends the host.
LEMMA AuxTimeoutOK ==
    ASSUME NEW h \in Host, NEW r, HostOK(h, r), NEW o \in aux_timeout(r)
    PROVE  Gone(h, o.host) /\ o.ports = test_ports
<1>1. CleanupMatches(r, TRUE) /\ r.streams \subseteq {Capture, Current(r)}
  BY DEF HostOK, CleanupMatches, Owned
<1>2. o \in target_set_end(monitor_cleanup(r), test_ports)
  BY <1>1 DEF aux_timeout, monitor_error
<1>. QED  BY <1>1, <1>2, CleanedUpOK DEF HostOK

\* A capture that has ended is taken from the host.
LEMMA CaptureEnded ==
    ASSUME NEW h \in Host, NEW r, HostOK(h, r)
    PROVE  LET s == [r EXCEPT !.streams = @ \ {Capture}]
           IN  /\ s \in HostRecord /\ s.device = h
               /\ s.streams \subseteq {Capture, Current(s)}
               /\ CleanupMatches(s, FALSE)
               /\ s.monitor = r.monitor /\ s.state = r.state /\ s.mismatch = r.mismatch
               /\ r.state # "TESTING" => Clean(h, monitor_cleanup(s))
<1>. DEFINE s == [r EXCEPT !.streams = @ \ {Capture}]
<1>1. r \in HostRecord /\ r.device = h /\ r.streams \subseteq {Capture, Current(r)}
  BY DEF HostOK, Owned
<1>2. s \in HostRecord
  BY <1>1 DEF HostRecord
<1>3. /\ s.device = h /\ s.streams = r.streams \ {Capture} /\ Current(s) = Current(r)
      /\ s.monitor = r.monitor /\ s.state = r.state /\ s.mismatch = r.mismatch /\ s.module = r.module
  BY <1>1 DEF HostRecord, Current
<1>4. CleanupMatches(s, FALSE)
  BY <1>3 DEF CleanupMatches
<1>5. r.state # "TESTING" => Clean(h, monitor_cleanup(s))
  <2>. HAVE r.state # "TESTING"
  <2>1. s.module = "none" /\ s.streams = {}
    BY <1>3 DEF HostOK, Owned
  <2>2. monitor_cleanup(s) = [s EXCEPT !.monitor = "none", !.streams = {}]
    BY <1>2, <2>1 DEF monitor_cleanup, HostRecord
  <2>. HIDE DEF s
  <2>. QED  BY <1>2, <1>3, <2>1, <2>2 DEF Clean, HostRecord
<1>. QED  BY <1>1, <1>2, <1>3, <1>4, <1>5

-----------------------------------------------------------------------------
(* The ports of the gateway *)

\* PortsExclusive and LeakBounded, of any hosts and ports.
Busy(hs) == {h \in Host : hs[h].state \in {"TESTING", "none"}}
ExclusiveIn(hs, ports) ==
    \A h \in Host : hs[h].state = "TESTING" =>
        /\ hs[h].test_port \in ports
        /\ \A g \in Host \ {h} : hs[g].state = "TESTING" => hs[g].test_port # hs[h].test_port
BoundedIn(hs, ports) == Cardinality(ports) <= Cardinality(Busy(hs))

LEMMA PortsIn ==
    /\ PortsExclusive <=> ExclusiveIn(hosts, test_ports)
    /\ LeakBounded <=> BoundedIn(hosts, test_ports)
BY DEF PortsExclusive, ExclusiveIn, LeakBounded, BoundedIn, Busy

\* How a handler of a host may change its state and the ports: it keeps its port and stays
\* among those that may hold one, takes a port, gives its port back, or exchanges it.
Keeps(r, s, ports) ==
    /\ ports = test_ports
    /\ s.state = "TESTING" => r.state = "TESTING" /\ s.test_port = r.test_port
    /\ r.state \in {"TESTING", "none"} => s.state \in {"TESTING", "none"}
Takes(r, s, ports) ==
    /\ r.state \notin {"TESTING", "none"} /\ s.state = "TESTING"
    /\ s.test_port \in Ports \ test_ports
    /\ ports = test_ports \cup {s.test_port}
Releases(r, s, ports) ==
    /\ r.state = "TESTING" /\ s.state # "TESTING"
    /\ ports = test_ports \ {r.test_port}
Exchanges(r, s, ports) ==
    /\ r.state = "TESTING" /\ s.state = "TESTING"
    /\ s.test_port \in Ports \ (test_ports \ {r.test_port})
    /\ ports = (test_ports \ {r.test_port}) \cup {s.test_port}
PortStep(r, s, ports) ==
    Keeps(r, s, ports) \/ Takes(r, s, ports) \/ Releases(r, s, ports) \/ Exchanges(r, s, ports)

\* Sets of ports and of hosts can be counted.
LEMMA Countable ==
    /\ \A ports \in SUBSET Ports : IsFiniteSet(ports) /\ Cardinality(ports) \in Nat
    /\ \A group \in SUBSET Host : IsFiniteSet(group) /\ Cardinality(group) \in Nat
<1>1. IsFiniteSet(Ports)
  BY Numbers, FS_Interval DEF Ports
<1>. QED  BY <1>1, ConstantsAssumption, FS_Subset, FS_CardinalityType

\* The port of one host changes: no port is shared.
LEMMA StillExclusive ==
    ASSUME ExclusiveIn(hosts, test_ports), NEW h \in Host, NEW s, NEW ports, hosts \in [Host -> HostRecord],
           PortStep(hosts[h], s, ports)
    PROVE  ExclusiveIn([hosts EXCEPT ![h] = s], ports)
<1>. DEFINE hs == [hosts EXCEPT ![h] = s]
<1>1. hs[h] = s /\ \A g \in Host \ {h} : hs[g] = hosts[g]
  OBVIOUS
<1>2. \A g \in Host \ {h} : hosts[g].state = "TESTING" => hosts[g].test_port \in test_ports
  BY DEF ExclusiveIn
<1>3. \A g \in Host \ {h} : hosts[g].state = "TESTING" /\ hosts[h].state = "TESTING"
                            => hosts[g].test_port # hosts[h].test_port
  BY DEF ExclusiveIn
<1>4. \A g \in Host \ {h} : hosts[g].state = "TESTING" => hosts[g].test_port \in ports
  BY <1>2, <1>3 DEF PortStep, Keeps, Takes, Releases, Exchanges
<1>5. s.state = "TESTING" =>
          /\ s.test_port \in ports
          /\ \A g \in Host \ {h} : hosts[g].state = "TESTING" => hosts[g].test_port # s.test_port
  <2>1. hosts[h].state = "TESTING" => hosts[h].test_port \in test_ports
    BY DEF ExclusiveIn
  <2>. QED  BY <1>2, <1>3, <2>1 DEF PortStep, Keeps, Takes, Releases, Exchanges
<1>6. \A g, f \in Host \ {h} : hosts[g].state = "TESTING" /\ hosts[f].state = "TESTING" /\ g # f
                             => hosts[g].test_port # hosts[f].test_port
  BY DEF ExclusiveIn
<1>. HIDE DEF hs
<1>7. ExclusiveIn(hs, ports)
  BY <1>1, <1>4, <1>5, <1>6 DEF ExclusiveIn
<1>. QED  BY <1>7 DEF hs


\* ... and there are no more ports in use than hosts that may hold one.
LEMMA StillBounded ==
    ASSUME ExclusiveIn(hosts, test_ports), BoundedIn(hosts, test_ports), test_ports \subseteq Ports,
           NEW h \in Host, NEW s, NEW ports, hosts \in [Host -> HostRecord], PortStep(hosts[h], s, ports)
    PROVE  ports \subseteq Ports /\ BoundedIn([hosts EXCEPT ![h] = s], ports)
<1>. DEFINE hs == [hosts EXCEPT ![h] = s]
            port == hosts[h].test_port
<1>1. /\ Busy(hosts) \subseteq Host /\ Busy(hs) \subseteq Host
      /\ h \in Busy(hosts) <=> hosts[h].state \in {"TESTING", "none"}
      /\ Busy(hs) = IF s.state \in {"TESTING", "none"} THEN Busy(hosts) \cup {h} ELSE Busy(hosts) \ {h}
  BY DEF Busy
<1>. DEFINE old == Cardinality(Busy(hosts))
            new == Cardinality(Busy(hs))
<1>2. /\ IsFiniteSet(test_ports) /\ Cardinality(test_ports) \in Nat
      /\ IsFiniteSet(Busy(hosts)) /\ old \in Nat /\ Cardinality(test_ports) <= old
  BY <1>1, Countable DEF BoundedIn
<1>3. hosts[h].state = "TESTING" => port \in test_ports
  BY DEF ExclusiveIn
<1>4. /\ h \in Busy(hosts) /\ s.state \in {"TESTING", "none"} => new = old
      /\ h \in Busy(hosts) /\ s.state \notin {"TESTING", "none"} => new = old - 1
      /\ h \notin Busy(hosts) /\ s.state \in {"TESTING", "none"} => new = old + 1
      /\ h \notin Busy(hosts) /\ s.state \notin {"TESTING", "none"} => new = old
  <2>1. Cardinality(Busy(hosts) \cup {h}) = IF h \in Busy(hosts) THEN old ELSE old + 1
    BY <1>2, FS_AddElement
  <2>2. Cardinality(Busy(hosts) \ {h}) = IF h \in Busy(hosts) THEN old - 1 ELSE old
    BY <1>2, FS_RemoveElement
  <2>. HIDE DEF hs, old
  <2>. QED  BY <1>1, <2>1, <2>2
<1>. HIDE DEF hs, old, new, port
<1>5. CASE Keeps(hosts[h], s, ports)
  BY <1>1, <1>2, <1>4, <1>5 DEF Keeps, BoundedIn, new, old, hs
<1>6. CASE Takes(hosts[h], s, ports)
  <2>1. Cardinality(ports) = Cardinality(test_ports) + 1 /\ ports \subseteq Ports
    BY <1>2, <1>6, FS_AddElement DEF Takes
  <2>2. new = old + 1
    BY <1>1, <1>4, <1>6 DEF Takes
  <2>. QED  BY <1>2, <2>1, <2>2 DEF BoundedIn, new, hs
<1>7. CASE Releases(hosts[h], s, ports)
  <2>1. Cardinality(ports) = Cardinality(test_ports) - 1 /\ ports \subseteq Ports
    BY <1>2, <1>3, <1>7, FS_RemoveElement DEF Releases, port
  <2>2. new >= old - 1 /\ new \in Int
    BY <1>1, <1>2, <1>4, <1>7 DEF Releases
  <2>. QED  BY <1>2, <2>1, <2>2 DEF BoundedIn, new, hs
<1>8. CASE Exchanges(hosts[h], s, ports)
  <2>1. IsFiniteSet(test_ports \ {port}) /\ Cardinality(test_ports \ {port}) = Cardinality(test_ports) - 1
    BY <1>2, <1>3, <1>8, FS_RemoveElement DEF Exchanges
  <2>2. Cardinality(ports) = Cardinality(test_ports) /\ ports \subseteq Ports
    <3>1. /\ s.test_port \notin test_ports \ {port} /\ s.test_port \in Ports
          /\ ports = (test_ports \ {port}) \cup {s.test_port}
      BY <1>8 DEF Exchanges, port
    <3>2. Cardinality(ports) = Cardinality(test_ports \ {port}) + 1
      BY <2>1, <3>1, FS_AddElement
    <3>. QED  BY <1>2, <2>1, <3>1, <3>2
  <2>3. new = old
    BY <1>1, <1>4, <1>8 DEF Exchanges
  <2>. QED  BY <1>2, <2>2, <2>3 DEF BoundedIn, new, hs
<1>. QED  BY <1>5, <1>6, <1>7, <1>8 DEF PortStep

\* The gateway is set up for hosts and ports that are in order, and retired when all have left.
LEMMA GatewayOK ==
    ASSUME OtherType, NEW hs \in [Host -> HostRecord], NEW ports \in SUBSET Ports, NEW active \in BOOLEAN,
           \A h \in Host : HostOK(h, hs[h]) /\ (hs[h].state \in RunStates => active),
           ports # {} => active, ExclusiveIn(hs, ports), BoundedIn(hs, ports),
           Gateway(hs, ports, active), UNCHANGED <<running, no_test>>
    PROVE  IInv'
<1>. DEFINE retired == \A h \in Host : hs[h].state = "none"
<1>1. /\ hosts' = hs
      /\ test_ports' = IF retired THEN {} ELSE ports
      /\ activated' = (active /\ ~retired)
  BY DEF Gateway
<1>2. HostsOK' /\ OtherType'
  BY <1>1 DEF HostsOK, OtherType
<1>3. ActivatedToRun'
  BY <1>1 DEF ActivatedToRun, RunStates
<1>4. PortsExclusive' /\ LeakBounded'
  <2>1. CASE retired
    <3>1. test_ports' = {} /\ Cardinality(test_ports') = 0
      BY <1>1, <2>1, FS_EmptySet
    <3>2. Cardinality({h \in Host : hosts'[h].state \in {"TESTING", "none"}}) \in Nat
      BY Countable
    <3>. QED  BY <1>1, <2>1, <3>1, <3>2 DEF PortsExclusive, LeakBounded
  <2>2. CASE ~retired
    BY <1>1, <2>2 DEF PortsExclusive, LeakBounded, ExclusiveIn, BoundedIn, Busy
  <2>. QED  BY <2>1, <2>2
<1>. QED  BY <1>2, <1>3, <1>4 DEF IInv

-----------------------------------------------------------------------------
(* The steps *)

\* A phase of the host is followed by one that the runner expects.
PhaseStep(a, b) ==
    \/ PhaseOf(b) \in {PhaseOf(a), "none"}
    \/ <<PhaseOf(a), PhaseOf(b)>> \in Phases!Moves
PhasesMove == \A h \in Host : PhaseStep(hosts[h].state, hosts'[h].state)

\* No assertion of _monitor_cleanup fails.
Quiet == \A h \in Host : hosts'[h].mismatch => hosts[h].mismatch

\* What the outcome of a handler of h has to be.
OutcomeOK(h, o) ==
    /\ HostOK(h, o.host)
    /\ PortStep(hosts[h], o.host, o.ports)
    /\ o.host.state \in RunStates => hosts[h].state \in RunStates
    /\ PhaseStep(hosts[h].state, o.host.state)

\* A handler of one host, all of whose outcomes are in order.
LEMMA HandleStep ==
    ASSUME IInv, NEW h \in Host, NEW outcomes,
           \A o \in outcomes : OutcomeOK(h, o), Handle(h, outcomes)
    PROVE  /\ IInv' /\ PhasesMove
           /\ (\A o \in outcomes : o.host.mismatch => hosts[h].mismatch) => Quiet
<1>. hosts \in [Host -> HostRecord]
  BY DEF IInv, HostsOK
<1>1. PICK o \in outcomes : Gateway([hosts EXCEPT ![h] = o.host], o.ports, activated)
  BY DEF Handle
<1>2. UNCHANGED <<running, no_test>>
  BY DEF Handle
<1>. DEFINE hs == [hosts EXCEPT ![h] = o.host]
<1>3. hs \in [Host -> HostRecord] /\ hs[h] = o.host /\ \A g \in Host \ {h} : hs[g] = hosts[g]
  BY DEF OutcomeOK, HostOK
<1>4. /\ ExclusiveIn(hs, o.ports) /\ BoundedIn(hs, o.ports) /\ o.ports \subseteq Ports
  BY StillExclusive, StillBounded, PortsIn DEF IInv, OtherType, OutcomeOK
<1>. HIDE DEF hs
<1>5. \A g \in Host : HostOK(g, hs[g]) /\ (hs[g].state \in RunStates => activated)
  BY <1>3 DEF IInv, HostsOK, ActivatedToRun, OutcomeOK
<1>6. o.ports # {} => activated
  BY DEF IInv, ActivatedToRun, OutcomeOK, PortStep, Keeps, Takes, Releases, Exchanges, RunStates
<1>7. IInv'
  BY <1>1, <1>2, <1>3, <1>4, <1>5, <1>6, GatewayOK DEF IInv, OtherType, hs
<1>8. hosts' = hs
  BY <1>1 DEF Gateway, hs
<1>9. PhasesMove
  BY <1>3, <1>8 DEF PhasesMove, OutcomeOK, PhaseStep
<1>10. (\A x \in outcomes : x.host.mismatch => hosts[h].mismatch) => Quiet
  BY <1>3, <1>8 DEF Quiet
<1>. QED  BY <1>7, <1>9, <1>10


\* A handler with one outcome.
LEMMA OneOutcome ==
    ASSUME NEW h \in Host, NEW r, NEW ports, Handle(h, Outcome(r, ports))
    PROVE  Gateway([hosts EXCEPT ![h] = r], ports, activated) /\ UNCHANGED <<running, no_test>>
<1>1. PICK o \in Outcome(r, ports) : Gateway([hosts EXCEPT ![h] = o.host], o.ports, activated)
  BY DEF Handle
<1>2. o.host = r /\ o.ports = ports
  BY DEF Outcome
<1>. QED  BY <1>1, <1>2 DEF Handle

\* The host ends.
LEMMA GoneOutcome ==
    ASSUME NEW h \in Host, NEW o, Gone(h, o.host), o.ports = test_ports
    PROVE  OutcomeOK(h, o) /\ ~o.host.mismatch
BY DEF Gone, OutcomeOK, PortStep, Keeps, RunStates, PhaseStep, PhaseOf

\* The host stays in its phase.
LEMMA SameOutcome ==
    ASSUME NEW h \in Host, NEW o, HostOK(h, o.host), o.host.state = hosts[h].state,
           o.host.test_port = hosts[h].test_port, o.ports = test_ports
    PROVE  OutcomeOK(h, o)
BY DEF OutcomeOK, PortStep, Keeps, PhaseStep

\* The first test starts, or there is none.
LEMMA FirstOutcome ==
    ASSUME NEW h \in Host, NEW o, hosts[h].state \in {"BASE", "MONITOR"}, Continues(h, o, test_ports)
    PROVE  OutcomeOK(h, o)
<1>1. PhaseStep(hosts[h].state, o.host.state)
  BY DEF Continues, Tests, PhaseStep, PhaseOf, Phases!Moves
<1>2. PortStep(hosts[h], o.host, o.ports)
  BY DEF Continues, Tests, PortStep, Keeps, Takes
<1>. QED  BY <1>1, <1>2 DEF Continues, Tests, OutcomeOK, RunStates

\* The next test starts, or it was the last.
LEMMA NextOutcome ==
    ASSUME NEW h \in Host, NEW o, hosts[h].state = "TESTING", Continues(h, o, test_ports \ {hosts[h].test_port})
    PROVE  OutcomeOK(h, o)
<1>1. PhaseStep(hosts[h].state, o.host.state)
  BY DEF Continues, Tests, PhaseStep, PhaseOf, Phases!Moves
<1>2. PortStep(hosts[h], o.host, o.ports)
  BY DEF Continues, Tests, PortStep, Releases, Exchanges
<1>. QED  BY <1>1, <1>2 DEF Continues, Tests, OutcomeOK, RunStates

\* The runner ends a host.
LEMMA EndStep ==
    ASSUME IInv, NEW h \in Host, NEW r, HostOK(h, r), Handle(h, target_set_end(r, test_ports))
    PROVE  IInv' /\ PhasesMove /\ Quiet
<1>1. ASSUME NEW o \in target_set_end(r, test_ports) PROVE OutcomeOK(h, o) /\ ~o.host.mismatch
  BY EndOK, GoneOutcome
<1>. QED  BY <1>1, HandleStep

\* A timeout or a scan that found nothing ends a host.
LEMMA AuxStep ==
    ASSUME IInv, NEW h \in Host, NEW r, HostOK(h, r), Handle(h, aux_timeout(r))
    PROVE  IInv' /\ PhasesMove /\ Quiet
<1>1. ASSUME NEW o \in aux_timeout(r) PROVE OutcomeOK(h, o) /\ ~o.host.mismatch
  BY AuxTimeoutOK, GoneOutcome
<1>. QED  BY <1>1, HandleStep

\* The end of a test is followed by the next test, or by the end of the tests.
LEMMA CallbackStep ==
    ASSUME IInv, NEW h \in Host, hosts[h].state = "TESTING", NEW r, Finalized(h, r),
           r.test_port = hosts[h].test_port, r.mismatch = hosts[h].mismatch,
           Handle(h, module_callback(r, test_ports))
    PROVE  IInv' /\ PhasesMove /\ Quiet
<1>1. r.test_port \in test_ports
  BY DEF IInv, PortsExclusive
<1>2. ASSUME NEW o \in module_callback(r, test_ports)
      PROVE  OutcomeOK(h, o) /\ (o.host.mismatch => hosts[h].mismatch)
  BY <1>1, CallbackOK, NextOutcome
<1>. QED  BY <1>2, HandleStep

\* A host that changes without a change of phase.
LEMMA SameStep ==
    ASSUME IInv, NEW h \in Host, NEW r, HostOK(h, r), r.state = hosts[h].state,
           r.test_port = hosts[h].test_port, Handle(h, Outcome(r, test_ports))
    PROVE  IInv' /\ PhasesMove /\ (r.mismatch = hosts[h].mismatch => Quiet)
<1>1. ASSUME NEW o \in Outcome(r, test_ports) PROVE OutcomeOK(h, o) /\ o.host = r
  BY SameOutcome DEF Outcome
<1>. QED  BY <1>1, HandleStep

\* main_loop is left with the hosts as they are.
LEMMA LeaveStep ==
    ASSUME IInv, NEW h \in Host, NEW r, HostOK(h, r), r.state = hosts[h].state,
           r.test_port = hosts[h].test_port, r.mismatch = hosts[h].mismatch, LeaveLoop(h, r)
    PROVE  IInv' /\ PhasesMove /\ Quiet
<1>. hosts \in [Host -> HostRecord] /\ r \in HostRecord
  BY DEF IInv, HostsOK, HostOK
<1>1. hosts' = [hosts EXCEPT ![h] = r] /\ UNCHANGED <<test_ports, activated, no_test>> /\ running' = FALSE
  BY DEF LeaveLoop
<1>2. \A g \in Host : /\ HostOK(g, hosts'[g]) /\ hosts'[g].state = hosts[g].state
                     /\ hosts'[g].test_port = hosts[g].test_port /\ hosts'[g].mismatch = hosts[g].mismatch
  BY <1>1 DEF IInv, HostsOK
<1>3. HostsOK' /\ OtherType' /\ ActivatedToRun'
  BY <1>1, <1>2 DEF IInv, HostsOK, OtherType, ActivatedToRun
<1>4. PortsExclusive' /\ LeakBounded'
  <2>1. {g \in Host : hosts'[g].state \in {"TESTING", "none"}} = {g \in Host : hosts[g].state \in {"TESTING", "none"}}
    BY <1>2
  <2>2. LeakBounded'
    BY <1>1, <2>1 DEF IInv, LeakBounded
  <2>3. PortsExclusive'
    BY <1>1, <1>2 DEF IInv, PortsExclusive
  <2>. QED  BY <2>2, <2>3
<1>. QED  BY <1>2, <1>3, <1>4 DEF IInv, PhasesMove, PhaseStep, Quiet


\* A host that waits is triggered.
LEMMA TriggeredOK ==
    ASSUME NEW h \in Host, NEW r, HostOK(h, r), r.state = "WAITING"
    PROVE  LET s == [r EXCEPT !.state = "BASE"]
           IN  HostOK(h, s) /\ s.state = "BASE" /\ s.test_port = r.test_port /\ s.mismatch = r.mismatch
<1>. DEFINE s == [r EXCEPT !.state = "BASE"]
<1>1. s \in HostRecord
  BY DEF HostOK, HostRecord, States
<1>2. /\ s.device = h /\ s.state = "BASE" /\ s.monitor = r.monitor /\ s.module = r.module
      /\ s.streams = r.streams /\ s.timeout_handler = r.timeout_handler /\ s.test_port = r.test_port
      /\ s.mismatch = r.mismatch /\ Current(s) = Current(r)
  BY DEF HostOK, HostRecord, Current
<1>. HIDE DEF s
<1>3. HostOK(h, s)
  BY <1>1, <1>2 DEF HostOK, Owned, CaptureOf
<1>. QED  BY <1>2, <1>3 DEF s

\* Hosts that may have come to wait for their group, and no other change of phase.
Waiting(hs) ==
    /\ hs \in [Host -> HostRecord]
    /\ \A g \in Host :
          /\ HostOK(g, hs[g]) /\ hs[g].mismatch = hosts[g].mismatch
          /\ \/ hs[g].state = hosts[g].state /\ hs[g].test_port = hosts[g].test_port
             \/ hosts[g].state = "INIT" /\ hs[g].state = "WAITING"

\* The runner is told of an address: the group may be activated and its waiting hosts start.
LEMMA NotifyStep ==
    ASSUME IInv, NEW hs, Waiting(hs), ip_notify(hs)
    PROVE  IInv' /\ PhasesMove /\ Quiet
<1>1. UNCHANGED <<running, no_test>>
  BY DEF ip_notify
<1>2. PICK group \in SUBSET {g \in Host : hs[g].state = "WAITING"}, active \in {activated, TRUE} :
          /\ Gateway([g \in Host |-> IF g \in group THEN [hs[g] EXCEPT !.state = "BASE"] ELSE hs[g]],
                     test_ports, active)
          /\ group # {} => active = TRUE
  <2>1. CASE Gateway(hs, test_ports, activated)
    <3>1. hs = [g \in Host |-> IF g \in {} THEN [hs[g] EXCEPT !.state = "BASE"] ELSE hs[g]]
      BY DEF Waiting
    <3>. QED  BY <2>1, <3>1
  <2>. QED  BY <2>1 DEF ip_notify
<1>. DEFINE ns == [g \in Host |-> IF g \in group THEN [hs[g] EXCEPT !.state = "BASE"] ELSE hs[g]]
<1>3. ASSUME NEW g \in Host
      PROVE  /\ HostOK(g, ns[g]) /\ ns[g].mismatch = hosts[g].mismatch
             /\ \/ ns[g].state = hosts[g].state /\ ns[g].test_port = hosts[g].test_port
                \/ hosts[g].state = "INIT" /\ ns[g].state = "WAITING"
                \/ hosts[g].state \in {"INIT", "WAITING"} /\ ns[g].state = "BASE" /\ active = TRUE
  <2>1. CASE g \in group
    BY <1>2, <2>1, TriggeredOK DEF Waiting
  <2>2. CASE g \notin group
    BY <2>2 DEF Waiting
  <2>. QED  BY <2>1, <2>2
<1>4. ns \in [Host -> HostRecord]
  BY <1>3 DEF HostOK
<1>. HIDE DEF ns
<1>5. active \in BOOLEAN /\ (activated => active)
  BY <1>2 DEF IInv, OtherType
<1>6. \A g \in Host : HostOK(g, ns[g]) /\ (ns[g].state \in RunStates => active)
  BY <1>3, <1>5 DEF IInv, ActivatedToRun, RunStates
<1>7. ExclusiveIn(ns, test_ports)
  <2>1. \A g \in Host : ns[g].state = "TESTING"
                        => hosts[g].state = "TESTING" /\ ns[g].test_port = hosts[g].test_port
    BY <1>3
  <2>2. ExclusiveIn(hosts, test_ports)
    BY PortsIn DEF IInv
  <2>. QED  BY <2>1, <2>2 DEF ExclusiveIn
<1>8. BoundedIn(ns, test_ports)
  <2>1. Busy(ns) = Busy(hosts)
    BY <1>3 DEF Busy
  <2>. QED  BY <2>1, PortsIn DEF IInv, BoundedIn
<1>9. IInv'
  BY <1>1, <1>2, <1>4, <1>5, <1>6, <1>7, <1>8, GatewayOK DEF IInv, OtherType, ActivatedToRun, ns
<1>10. hosts' = ns
  BY <1>2 DEF Gateway, ns
<1>11. PhasesMove
  BY <1>3, <1>10 DEF PhasesMove, PhaseStep, PhaseOf, Phases!Moves
<1>. QED  BY <1>3, <1>9, <1>10, <1>11 DEF Quiet

\* The fields that no phase depends on.
LEMMA OtherFields ==
    ASSUME NEW h \in Host, NEW r, HostOK(h, r), NEW s,
           \/ \E t \in {"none", "aux", "external"} : s = [r EXCEPT !.timeout_handler = t]
           \/ \E d \in BOOLEAN : s = [r EXCEPT !.discover = d]
           \/ \E b \in BOOLEAN : s = [r EXCEPT !.mismatch = b]
    PROVE  /\ HostOK(h, s) /\ s.state = r.state /\ s.test_port = r.test_port /\ s.module = r.module
           /\ s.streams = r.streams
<1>1. s \in HostRecord
  BY DEF HostOK, HostRecord
<1>2. /\ s.device = h /\ s.state = r.state /\ s.monitor = r.monitor /\ s.module = r.module
      /\ s.streams = r.streams /\ s.test_port = r.test_port
      /\ s.timeout_handler \in {r.timeout_handler, "none", "aux", "external"}
      /\ s.remaining_tests = r.remaining_tests
  BY DEF HostOK, HostRecord
<1>3. HostOK(h, s)
  BY <1>1, <1>2 DEF HostOK, Owned, Current
<1>. QED  BY <1>2, <1>3


\* ConnectedHost.initialize: the gateway is not activated, so no port is in use and the new
\* host, that can no longer hold one, is not missed.
LEMMA InitializeStep ==
    ASSUME IInv, NEW h \in Host, initialize(h) PROVE IInv' /\ PhasesMove /\ Quiet
<1>. hosts \in [Host -> HostRecord] /\ HostOK(h, hosts[h])
  BY DEF IInv, HostsOK
<1>1. hosts[h].state = "none" /\ ~activated /\ test_ports = {}
  BY DEF initialize, In, IInv, ActivatedToRun
<1>. DEFINE r == IF no_test THEN [hosts[h] EXCEPT !.state = "READY"]
                 ELSE [monitor_scan(hosts[h], "startup") EXCEPT !.state = "INIT"]
            hs == [hosts EXCEPT ![h] = r]
<1>2. Gateway(hs, test_ports, activated) /\ UNCHANGED <<running, no_test>>
  <2>1. Handle(h, Outcome(r, test_ports))
    BY DEF initialize
  <2>. HIDE DEF r
  <2>. QED  BY <2>1, OneOutcome
<1>3. Clean(h, hosts[h]) /\ hosts[h].timeout_handler # "main"
  BY <1>1 DEF HostOK, Owned, CaptureOf, Clean
<1>4. HostOK(h, r) /\ r.state \in {"READY", "INIT"} /\ r.mismatch = hosts[h].mismatch
  <2>1. CASE no_test
    <3>1. r = [hosts[h] EXCEPT !.state = "READY"]
      BY <2>1
    <3>. HIDE DEF r
    <3>2. r \in HostRecord
      BY <3>1 DEF HostRecord, States
    <3>3. /\ r.device = h /\ r.monitor = "none" /\ r.module = "none" /\ r.streams = {} /\ r.state = "READY"
          /\ r.timeout_handler = hosts[h].timeout_handler /\ r.mismatch = hosts[h].mismatch
      BY <1>3, <3>1 DEF Clean, HostRecord
    <3>. QED  BY <1>3, <3>2, <3>3 DEF HostOK, Owned, CaptureOf
  <2>2. CASE ~no_test
    <3>1. CaptureOf("INIT") = "startup" /\ "INIT" \in States
      BY DEF CaptureOf, States
    <3>. QED  BY <1>3, <2>2, <3>1, ScanOK
  <2>. QED  BY <2>1, <2>2
<1>. HIDE DEF r
<1>5. hs \in [Host -> HostRecord] /\ hs[h] = r /\ \A g \in Host \ {h} : hs[g] = hosts[g]
  BY <1>4 DEF HostOK
<1>. HIDE DEF hs
<1>6. \A g \in Host : HostOK(g, hs[g]) /\ hs[g].state \notin RunStates
  BY <1>1, <1>4, <1>5 DEF IInv, HostsOK, ActivatedToRun, RunStates
<1>7. ExclusiveIn(hs, test_ports)
  BY <1>6 DEF ExclusiveIn, RunStates
<1>8. BoundedIn(hs, test_ports)
  <2>1. Cardinality(test_ports) = 0 /\ Cardinality(Busy(hs)) \in Nat
    BY <1>1, FS_EmptySet, Countable DEF Busy
  <2>. QED  BY <2>1 DEF BoundedIn
<1>9. IInv'
  BY <1>1, <1>2, <1>5, <1>6, <1>7, <1>8, GatewayOK DEF IInv, OtherType
<1>10. hosts' = hs
  BY <1>2 DEF Gateway
<1>11. PhasesMove
  BY <1>1, <1>4, <1>5, <1>10 DEF PhasesMove, PhaseStep, PhaseOf, Phases!Moves
<1>. QED  BY <1>4, <1>5, <1>9, <1>10, <1>11 DEF Quiet

\* A host that is held starts its capture.
LEMMA ControlStep ==
    ASSUME IInv, NEW h \in Host, control_updated(h) PROVE IInv' /\ PhasesMove /\ Quiet
<1>. DEFINE s == [monitor_scan(hosts[h], "startup") EXCEPT !.state = "INIT"]
<1>1. hosts[h].state = "READY" /\ HostOK(h, hosts[h])
  BY DEF control_updated, In, IInv, HostsOK
<1>2. Clean(h, hosts[h]) /\ hosts[h].timeout_handler # "main"
  BY <1>1 DEF HostOK, Owned, CaptureOf, Clean
<1>3. HostOK(h, s) /\ s.state = "INIT" /\ s.mismatch = hosts[h].mismatch
  <2>1. CaptureOf("INIT") = "startup" /\ "INIT" \in States
    BY DEF CaptureOf, States
  <2>. QED  BY <1>2, <2>1, ScanOK
<1>4. Handle(h, Outcome(s, test_ports))
  BY DEF control_updated
<1>. HIDE DEF s
<1>5. ASSUME NEW o \in Outcome(s, test_ports)
      PROVE  OutcomeOK(h, o) /\ (o.host.mismatch => hosts[h].mismatch)
  <2>1. o.host = s /\ o.ports = test_ports
    BY DEF Outcome
  <2>. QED  BY <1>1, <1>3, <2>1 DEF OutcomeOK, PortStep, Keeps, RunStates, PhaseStep, PhaseOf
<1>. QED  BY <1>4, <1>5, HandleStep

\* _prepare, and an address that the DHCP monitor notifies.
LEMMA AddressStep ==
    ASSUME IInv, NEW h \in Host, prepare(h) \/ dhcp_notify(h) PROVE IInv' /\ PhasesMove /\ Quiet
<1>. hosts \in [Host -> HostRecord] /\ \A g \in Host : HostOK(g, hosts[g])
  BY DEF IInv, HostsOK
<1>1. CASE dhcp_notify(h)
  <2>1. Waiting(hosts)
    BY DEF Waiting
  <2>. QED  BY <1>1, <2>1, NotifyStep DEF dhcp_notify
<1>2. CASE prepare(h)
  <2>. DEFINE hs == [hosts EXCEPT ![h].state = "WAITING",
                                  ![h].timeout_handler = IF h \in External THEN "external" ELSE @]
              r == [hosts[h] EXCEPT !.state = "WAITING",
                                    !.timeout_handler = IF h \in External THEN "external" ELSE @]
  <2>1. hosts[h].state = "INIT" /\ ip_notify(hs)
    BY <1>2 DEF prepare, In
  <2>2. r \in HostRecord
    <3>1. (IF h \in External THEN "external" ELSE hosts[h].timeout_handler) \in {"none", "aux", "main", "external"}
      BY DEF HostRecord
    <3>2. hosts[h] \in HostRecord
      OBVIOUS
    <3>. QED  BY <3>1, <3>2 DEF HostRecord, States
  <2>3. /\ r.device = h /\ r.state = "WAITING" /\ r.monitor = hosts[h].monitor /\ r.module = hosts[h].module
        /\ r.streams = hosts[h].streams /\ r.timeout_handler \in {hosts[h].timeout_handler, "external"}
        /\ r.mismatch = hosts[h].mismatch /\ Current(r) = Current(hosts[h])
    BY DEF HostOK, HostRecord, Current
  <2>4. hs[h] = r /\ (\A g \in Host \ {h} : hs[g] = hosts[g]) /\ DOMAIN hs = Host
    OBVIOUS
  <2>. HIDE DEF r
  <2>5. HostOK(h, r)
    BY <2>1, <2>2, <2>3 DEF HostOK, Owned, CaptureOf
  <2>6. hs \in [Host -> HostRecord]
    BY <2>2 DEF r
  <2>. HIDE DEF hs
  <2>7. Waiting(hs)
    BY <2>1, <2>3, <2>4, <2>5, <2>6 DEF Waiting
  <2>. QED  BY <2>1, <2>7, NotifyStep
<1>. QED  BY <1>1, <1>2


\* _base_start: the background capture or the first test follows.
LEMMA BaseStep ==
    ASSUME IInv, NEW h \in Host, base(h) PROVE IInv' /\ PhasesMove /\ Quiet
<1>1. hosts[h].state = "BASE" /\ HostOK(h, hosts[h])
  BY DEF base, In, IInv, HostsOK
<1>2. CASE Handle(h, target_set_end(hosts[h], test_ports))
  BY <1>1, <1>2, EndStep
<1>3. CASE Handle(h, base_start(hosts[h], test_ports))
  <2>. DEFINE c == monitor_cleanup(hosts[h])
  <2>1. c = [hosts[h] EXCEPT !.monitor = "none", !.streams = {}]
    <3>1. hosts[h].streams \ {Capture} = {}
      BY <1>1 DEF HostOK, Owned
    <3>. QED  BY <3>1 DEF monitor_cleanup
  <2>. HIDE DEF c
  <2>2. c \in HostRecord
    BY <1>1, <2>1 DEF HostOK, HostRecord
  <2>3. Clean(h, c) /\ c.timeout_handler # "main" /\ c.mismatch = hosts[h].mismatch
    BY <1>1, <2>1, <2>2 DEF HostOK, HostRecord, Clean
  <2>4. ASSUME NEW o \in base_start(hosts[h], test_ports)
        PROVE  OutcomeOK(h, o) /\ (o.host.mismatch => hosts[h].mismatch)
    <3>1. CASE MonitorScan
      <4>. DEFINE s == [monitor_scan(c, "monitor") EXCEPT !.state = "MONITOR"]
      <4>1. o.host = s /\ o.ports = test_ports
        BY <3>1 DEF base_start, Outcome, c
      <4>2. CaptureOf("MONITOR") = "monitor" /\ "MONITOR" \in States
        BY DEF CaptureOf, States
      <4>3. HostOK(h, s) /\ s.state = "MONITOR" /\ s.mismatch = hosts[h].mismatch
        BY <2>3, <4>2, ScanOK
      <4>. HIDE DEF s
      <4>. QED  BY <1>1, <4>1, <4>3 DEF OutcomeOK, PortStep, Keeps, RunStates, PhaseStep, PhaseOf
    <3>2. CASE ~MonitorScan
      <4>. DEFINE n == [c EXCEPT !.state = "NEXT"]
      <4>1. o \in run_next_test(n, test_ports)
        BY <3>2 DEF base_start, monitor_continue, c
      <4>2. n \in HostRecord
        BY <2>2 DEF HostRecord, States
      <4>3. Clean(h, n) /\ n.timeout_handler # "main" /\ n.mismatch = hosts[h].mismatch
        BY <2>2, <2>3, <4>2 DEF HostRecord, Clean
      <4>. HIDE DEF n
      <4>. QED  BY <1>1, <4>1, <4>3, RunNextOK, FirstOutcome
    <3>. QED  BY <3>1, <3>2
  <2>. QED  BY <1>3, <2>4, HandleStep
<1>. QED  BY <1>2, <1>3 DEF base

\* The process of a capture ends: too early, or at the end of the background capture.
LEMMA CaptureStep ==
    ASSUME IInv, NEW h \in Host, monitor_timeout(h) PROVE IInv' /\ PhasesMove /\ Quiet
<1>. DEFINE r == [hosts[h] EXCEPT !.streams = @ \ {Capture}]
<1>1. HostOK(h, hosts[h])
  BY DEF IInv, HostsOK
<1>2. /\ r \in HostRecord /\ r.device = h
      /\ r.streams \subseteq {Capture, Current(r)}
      /\ CleanupMatches(r, FALSE)
      /\ r.monitor = hosts[h].monitor /\ r.state = hosts[h].state /\ r.mismatch = hosts[h].mismatch
      /\ hosts[h].state # "TESTING" => Clean(h, monitor_cleanup(r))
  BY <1>1, CaptureEnded
<1>3. r.timeout_handler = hosts[h].timeout_handler
  BY <1>1 DEF HostOK, HostRecord
<1>4. \/ Handle(h, monitor_error(r, FALSE, test_ports))
      \/ r.monitor = "monitor" /\ Handle(h, monitor_continue(monitor_cleanup(r), test_ports))
  BY DEF monitor_timeout
<1>. HIDE DEF r
<1>5. CASE Handle(h, monitor_error(r, FALSE, test_ports))
  <2>1. ASSUME NEW o \in monitor_error(r, FALSE, test_ports) PROVE OutcomeOK(h, o) /\ ~o.host.mismatch
    BY <1>2, CleanedUpOK, GoneOutcome DEF monitor_error
  <2>. QED  BY <1>5, <2>1, HandleStep
<1>6. CASE r.monitor = "monitor" /\ Handle(h, monitor_continue(monitor_cleanup(r), test_ports))
  <2>1. hosts[h].state = "MONITOR"
    BY <1>1, <1>2, <1>6 DEF HostOK, CaptureOf
  <2>. DEFINE c == monitor_cleanup(r)
              n == [c EXCEPT !.state = "NEXT"]
  <2>2. Clean(h, c) /\ c.timeout_handler = r.timeout_handler /\ c.mismatch = r.mismatch
    <3>1. Clean(h, c)
      BY <1>2, <2>1
    <3>. QED  BY <1>2, <3>1 DEF monitor_cleanup, HostRecord
  <2>. HIDE DEF c
  <2>3. n \in HostRecord
    BY <2>2 DEF Clean, HostRecord, States
  <2>4. Clean(h, n) /\ n.timeout_handler # "main" /\ n.mismatch = hosts[h].mismatch
    BY <1>1, <1>2, <1>3, <2>1, <2>2, <2>3 DEF HostOK, HostRecord, Clean
  <2>5. monitor_continue(c, test_ports) = run_next_test(n, test_ports)
    BY DEF monitor_continue
  <2>. HIDE DEF n
  <2>6. ASSUME NEW o \in monitor_continue(c, test_ports)
        PROVE  OutcomeOK(h, o) /\ (o.host.mismatch => hosts[h].mismatch)
    BY <2>1, <2>4, <2>5, RunNextOK, FirstOutcome
  <2>. QED  BY <1>6, <2>6, HandleStep DEF c
<1>. QED  BY <1>4, <1>5, <1>6

\* The callback of a running capture raises: nothing is cleaned up, and the assertion fails.
LEMMA CaptureErrorStep ==
    ASSUME IInv, NEW h \in Host, capture_error(h)
    PROVE  IInv' /\ PhasesMove /\ \A g \in Host \ {h} : hosts'[g] = hosts[g]
<1>. hosts \in [Host -> HostRecord] /\ HostOK(h, hosts[h])
  BY DEF IInv, HostsOK
<1>. DEFINE s == [hosts[h] EXCEPT !.mismatch = TRUE]
<1>1. Handle(h, monitor_error(hosts[h], FALSE, test_ports)) /\ Capture \in hosts[h].streams
  BY DEF capture_error
<1>2. ~CleanupMatches(hosts[h], FALSE)
  <2>1. Current(hosts[h]) = Capture => hosts[h].state # "TESTING"
    BY CurrentType DEF HostOK
  <2>2. hosts[h].monitor # "none"
    BY <1>1, <2>1 DEF HostOK, Owned
  <2>. QED  BY <1>1, <2>2 DEF CleanupMatches
<1>3. Handle(h, Outcome(s, test_ports))
  BY <1>1, <1>2 DEF monitor_error
<1>4. HostOK(h, s) /\ s.state = hosts[h].state /\ s.test_port = hosts[h].test_port
  <2>1. \E b \in BOOLEAN : s = [hosts[h] EXCEPT !.mismatch = b]
    BY Zenon
  <2>. QED  BY <2>1, OtherFields
<1>. HIDE DEF s
<1>5. IInv' /\ PhasesMove
  BY <1>3, <1>4, SameStep
<1>6. hosts' = [hosts EXCEPT ![h] = s]
  BY <1>3, OneOutcome DEF Gateway
<1>. QED  BY <1>5, <1>6


\* A module is finalized, or one without a process ends, during a test.
LEMMA ModuleStep ==
    ASSUME IInv, NEW h \in Host,
           \/ module_inline(h)
           \/ \E n \in 1..NumTests : module_complete(h, n) \/ module_error(h, n)
    PROVE  IInv' /\ PhasesMove /\ Quiet
<1>. DEFINE r == hosts[h]
<1>1. HostOK(h, r) /\ r \in HostRecord
  BY DEF IInv, HostsOK, HostOK
<1>. HIDE DEF r
<1>2. CASE module_inline(h)
  <2>1. r.state = "TESTING" /\ r.module = "inline" /\ Finalized(h, r)
    BY <1>1, <1>2, FinalizedOK DEF module_inline, HostOK, r
  <2>2. CASE Handle(h, module_callback(r, test_ports))
    BY <2>1, <2>2, CallbackStep DEF r
  <2>3. CASE Handle(h, Outcome([r EXCEPT !.module = "analysis", !.streams = @ \cup {Current(r)}], test_ports))
    <3>. DEFINE s == [r EXCEPT !.module = "analysis", !.streams = @ \cup {Current(r)}]
    <3>1. s \in HostRecord
      BY <1>1, CurrentType DEF HostRecord
    <3>2. /\ s.device = h /\ s.state = r.state /\ s.monitor = r.monitor /\ s.module = "analysis"
          /\ s.streams = r.streams \cup {Current(r)} /\ s.test_port = r.test_port
          /\ s.timeout_handler = r.timeout_handler /\ s.mismatch = r.mismatch
          /\ s.remaining_tests = r.remaining_tests /\ Current(s) = Current(r)
      BY <1>1 DEF HostOK, HostRecord, Current
    <3>. HIDE DEF s
    <3>3. HostOK(h, s)
      BY <1>1, <2>1, <3>1, <3>2 DEF HostOK, Owned
    <3>. QED  BY <2>3, <3>2, <3>3, SameStep DEF r, s
  <2>. QED  BY <1>2, <2>2, <2>3 DEF module_inline, r
<1>3. ASSUME NEW n \in 1..NumTests, module_complete(h, n) \/ module_error(h, n)
      PROVE  IInv' /\ PhasesMove /\ Quiet
  <2>1. r.state = "TESTING" /\ r.module \in {"process", "analysis"} /\ n = Current(r)
    <3>1. n \in r.streams /\ n # Capture
      BY <1>3 DEF module_complete, module_error, r, Capture
    <3>. QED  BY <1>1, <3>1 DEF HostOK, Owned
  <2>2. Finalized(h, finalize(r)) /\ finalize(r).test_port = r.test_port /\ finalize(r).mismatch = r.mismatch
    BY <1>1, <2>1, FinalizedOK
  <2>3. CASE Handle(h, module_callback(finalize(r), test_ports))
    BY <2>1, <2>2, <2>3, CallbackStep DEF r
  <2>4. CASE Handle(h, Outcome([finalize(r) EXCEPT !.module = "dead"], test_ports))
    BY <1>1, <2>1, <2>4, DeadOK, SameStep DEF r
  <2>5. [r EXCEPT !.streams = @ \ {n}] = finalize(r)
    BY <2>1 DEF finalize
  <2>. QED  BY <1>3, <2>3, <2>4, <2>5 DEF module_complete, module_error, r
<1>. QED  BY <1>2, <1>3

\* The timeout of a test, or of the analysis of an inline module.
LEMMA MainTimeoutStep ==
    ASSUME IInv, NEW h \in Host, NEW r, HostOK(h, r), r.state = "TESTING", hosts[h].state = "TESTING",
           r.test_port = hosts[h].test_port, r.mismatch = hosts[h].mismatch, main_timeout(h, r)
    PROVE  IInv' /\ PhasesMove /\ Quiet
<1>1. CASE Handle(h, module_callback(finalize(r), test_ports))
  BY <1>1, FinalizedOK, CallbackStep
<1>2. CASE LeaveLoop(h, r)
  BY <1>2, LeaveStep
<1>3. CASE LeaveLoop(h, [finalize(r) EXCEPT !.module = "dead"])
  BY <1>3, DeadOK, LeaveStep
<1>. QED  BY <1>1, <1>2, <1>3 DEF main_timeout

\* heartbeat: a handler is called once.
LEMMA HeartbeatStep ==
    ASSUME IInv, NEW h \in Host, heartbeat(h) PROVE IInv' /\ PhasesMove /\ Quiet
<1>. DEFINE r == [hosts[h] EXCEPT !.timeout_handler = "none"]
<1>1. HostOK(h, hosts[h]) /\ hosts[h] \in HostRecord
  BY DEF IInv, HostsOK, HostOK
<1>2. HostOK(h, r) /\ r.state = hosts[h].state /\ r.test_port = hosts[h].test_port
  BY <1>1, OtherFields
<1>3. r.mismatch = hosts[h].mismatch
  BY <1>1 DEF HostRecord
<1>4. \/ hosts[h].timeout_handler = "aux" /\ Handle(h, aux_timeout(r))
      \/ hosts[h].timeout_handler = "main" /\ main_timeout(h, r)
      \/ Handle(h, Outcome([r EXCEPT !.discover = TRUE], test_ports))
  BY DEF heartbeat
<1>. HIDE DEF r
<1>5. CASE Handle(h, aux_timeout(r))
  BY <1>2, <1>5, AuxStep
<1>6. CASE hosts[h].timeout_handler = "main" /\ main_timeout(h, r)
  <2>1. hosts[h].state = "TESTING"
    BY <1>1, <1>6 DEF HostOK
  <2>. QED  BY <1>2, <1>3, <1>6, <2>1, MainTimeoutStep
<1>7. CASE Handle(h, Outcome([r EXCEPT !.discover = TRUE], test_ports))
  <2>. DEFINE s == [r EXCEPT !.discover = TRUE]
  <2>1. \E d \in BOOLEAN : s = [r EXCEPT !.discover = d]
    BY Zenon
  <2>2. HostOK(h, s) /\ s.state = r.state /\ s.test_port = r.test_port
    BY <1>2, <2>1, OtherFields
  <2>3. s.mismatch = hosts[h].mismatch
    BY <1>2, <1>3 DEF HostOK, HostRecord
  <2>. HIDE DEF s
  <2>. QED  BY <1>2, <1>7, <2>2, <2>3, SameStep DEF s
<1>. QED  BY <1>4, <1>5, <1>6, <1>7


\* The scan for an external device ends.
LEMMA DiscoverStep ==
    ASSUME IInv, NEW h \in Host, discover_callback(h) PROVE IInv' /\ PhasesMove /\ Quiet
<1>. DEFINE r == [hosts[h] EXCEPT !.discover = FALSE]
<1>1. hosts \in [Host -> HostRecord] /\ \A g \in Host : HostOK(g, hosts[g])
  BY DEF IInv, HostsOK
<1>2. HostOK(h, r) /\ r.state = hosts[h].state /\ r.test_port = hosts[h].test_port
  <2>1. \E d \in BOOLEAN : r = [hosts[h] EXCEPT !.discover = d]
    BY Zenon
  <2>. QED  BY <1>1, <2>1, OtherFields
<1>3. r.mismatch = hosts[h].mismatch
  BY <1>1 DEF HostRecord
<1>4. \/ Handle(h, aux_timeout(r)) \/ ip_notify([hosts EXCEPT ![h] = r])
      \/ Handle(h, Outcome(r, test_ports))
  BY DEF discover_callback
<1>. HIDE DEF r
<1>5. CASE ip_notify([hosts EXCEPT ![h] = r])
  <2>1. Waiting([hosts EXCEPT ![h] = r])
    BY <1>1, <1>2, <1>3 DEF Waiting, HostOK
  <2>. QED  BY <1>5, <2>1, NotifyStep
<1>. QED  BY <1>2, <1>3, <1>4, <1>5, AuxStep, SameStep

\* Every step but a failing callback of a running capture.
QuietAction(h) ==
    \/ initialize(h) \/ control_updated(h) \/ dhcp_notify(h) \/ Idle(h) \/ monitor_timeout(h)
    \/ module_inline(h) \/ module_heartbeat(h) \/ heartbeat(h) \/ discover_callback(h) \/ cancel(h)
    \/ \E n \in 1..NumTests : module_complete(h, n) \/ module_error(h, n)

LEMMA QuietStep ==
    ASSUME IInv, NEW h \in Host, QuietAction(h) PROVE IInv' /\ PhasesMove /\ Quiet
<1>1. HostOK(h, hosts[h])
  BY DEF IInv, HostsOK
<1>2. CASE complete(h) \/ cancel(h)
  BY <1>1, <1>2, EndStep DEF complete, cancel
<1>3. CASE module_heartbeat(h)
  <2>1. hosts[h].state = "TESTING"
    BY <1>1, <1>3 DEF module_heartbeat, HostOK
  <2>. QED  BY <1>1, <1>3, <2>1, MainTimeoutStep DEF module_heartbeat
<1>. QED
  BY <1>2, <1>3, InitializeStep, ControlStep, AddressStep, BaseStep, CaptureStep, ModuleStep,
     HeartbeatStep, DiscoverStep DEF QuietAction, Idle

LEMMA StutterStep == ASSUME IInv, UNCHANGED vars PROVE IInv' /\ PhasesMove /\ Quiet
<1>1. HostsOK' /\ OtherType' /\ ActivatedToRun' /\ PortsExclusive' /\ LeakBounded'
  BY DEF vars, IInv, HostsOK, OtherType, ActivatedToRun, PortsExclusive, LeakBounded
<1>. QED  BY <1>1 DEF vars, IInv, PhasesMove, PhaseStep, Quiet

\* A step from a state of the invariant leads to one, through the expected phases.
LEMMA StepInv ==
    ASSUME IInv, [Next]_vars
    PROVE  /\ IInv' /\ PhasesMove
           /\ \A h \in Host : hosts'[h].mismatch /\ ~hosts[h].mismatch => capture_error(h)
<1>1. ASSUME NEW h \in Host, capture_error(h)
      PROVE  /\ IInv' /\ PhasesMove
             /\ \A g \in Host : hosts'[g].mismatch /\ ~hosts[g].mismatch => capture_error(g)
  BY <1>1, CaptureErrorStep
<1>2. ASSUME NEW h \in Host, QuietAction(h) PROVE IInv' /\ PhasesMove /\ Quiet
  BY <1>2, QuietStep
<1>3. CASE Stopped \/ UNCHANGED vars
  BY <1>3, StutterStep DEF Stopped, Quiet
<1>4. (\E h \in Host : capture_error(h) \/ QuietAction(h)) \/ Stopped \/ UNCHANGED vars
  BY DEF Next, QuietAction
<1>. QED  BY <1>1, <1>2, <1>3, <1>4 DEF Quiet

LEMMA InitInv == Init => IInv
<1>. SUFFICES ASSUME Init PROVE IInv
  OBVIOUS
<1>1. \A h \in Host : hosts[h] = NoHost(h) /\ HostOK(h, hosts[h]) /\ hosts[h].state = "none"
  BY NoHostOK DEF Init, Gone
<1>2. HostsOK
  BY <1>1 DEF Init, HostsOK, HostOK
<1>3. OtherType
  BY ConstantsAssumption DEF Init, OtherType
<1>4. ActivatedToRun /\ PortsExclusive
  BY <1>1 DEF Init, ActivatedToRun, RunStates, PortsExclusive
<1>5. LeakBounded
  BY FS_EmptySet, Countable DEF Init, LeakBounded
<1>. QED  BY <1>2, <1>3, <1>4, <1>5 DEF IInv

\* The inductive invariant holds in every reachable state.
LEMMA Invariance == Spec => []IInv
<1>1. IInv /\ [Next]_vars => IInv'
  BY StepInv
<1>. QED  BY <1>1, InitInv, PTL DEF Spec
-----------------------------------------------------------------------------
(* The fields of every host keep their types. *)
THEOREM TypeCorrect == Spec => []TypeOK
<1>1. IInv => TypeOK
  BY DEF IInv, HostsOK, OtherType, TypeOK
<1>. QED  BY <1>1, Invariance, PTL

(* The test ports of a gateway are never shared, and no more are in use than there are hosts   *)
(* that test or have ended, for any group and any number of ports (allocate_test_port,          *)
(* release_test_port, terminate).                                                              *)
THEOREM PortsAreSound == Spec => []TestPortsSound
<1>1. IInv => TestPortsSound
  BY DEF IInv, TestPortsSound
<1>. QED  BY <1>1, Invariance, PTL

(* A gateway with as many test ports as its group has devices never runs out of them: a host    *)
(* that comes to its first test finds a free one, whatever ports were leaked before.            *)
THEOREM PortsSuffice ==
    ASSUME Cardinality(Host) <= NumPorts
    PROVE  Spec => [](\A h \in Host : hosts[h].state \in {"BASE", "MONITOR"} => Ports \ test_ports # {})
<1>1. IInv => \A h \in Host : hosts[h].state \in {"BASE", "MONITOR"} => Ports \ test_ports # {}
  <2>. SUFFICES ASSUME IInv, NEW h \in Host, hosts[h].state \in {"BASE", "MONITOR"}, Ports \ test_ports = {}
                PROVE  FALSE
    OBVIOUS
  <2>1. test_ports = Ports
    BY DEF IInv, OtherType
  <2>2. Cardinality(Ports) = NumPorts /\ NumPorts \in Nat
    BY Numbers, FS_Interval DEF Ports
  <2>3. NumPorts <= Cardinality(Busy(hosts))
    BY <2>1, <2>2, PortsIn DEF IInv, BoundedIn
  <2>4. Busy(hosts) \subseteq Host \ {h}
    BY DEF Busy
  <2>5. IsFiniteSet(Host) /\ Cardinality(Host) \in Nat /\ Cardinality(Host \ {h}) = Cardinality(Host) - 1
    BY Countable, FS_RemoveElement
  <2>6. Cardinality(Busy(hosts)) <= Cardinality(Host) - 1 /\ Cardinality(Busy(hosts)) \in Nat
    <3>1. IsFiniteSet(Host \ {h})
      BY Countable
    <3>. QED  BY <2>4, <2>5, <3>1, FS_Subset, Countable
  <2>. QED  BY <2>2, <2>3, <2>5, <2>6
<1>. QED  BY <1>1, Invariance, PTL

(* What the event loop monitors for a host is what its phase needs, on every path of its         *)
(* handlers and after every fault (_monitor_scan, _monitor_cleanup, terminate).                  *)
THEOREM StreamsAreOwned == Spec => []StreamsFollowPhase
<1>1. IInv => StreamsFollowPhase
  BY DEF IInv, HostsOK, HostOK, StreamsFollowPhase, StreamsOwned, CaptureFollowsPhase
<1>. QED  BY <1>1, Invariance, PTL

(* The assertion of _monitor_cleanup fails in one case only. *)
THEOREM MismatchIsCaptureError == Spec => OnlyCaptureErrorsMismatch
<1>1. IInv /\ [Next]_vars =>
          [\A h \in Host : hosts'[h].mismatch /\ ~hosts[h].mismatch => capture_error(h)]_vars
  BY StepInv
<1>. QED  BY <1>1, Invariance, PTL DEF Spec, OnlyCaptureErrorsMismatch

(* A host goes through the phases that the runner expects: HostLifecycle implements HostPhases. *)
THEOREM HostImplementsPhases == Spec => ImplementsPhases
<1>. DEFINE phase == [h \in Host |-> PhaseOf(hosts[h].state)]
<1>1. Init => Phases!Init
  BY DEF Init, Phases!Init, NoHost, PhaseOf
<1>2. IInv /\ [Next]_vars => [Phases!Next]_phase
  BY StepInv DEF PhasesMove, PhaseStep, Phases!Next
<1>. QED  BY <1>1, <1>2, Invariance, PTL DEF Spec, ImplementsPhases, Phases!Spec

=============================================================================
