--------------------------- MODULE HostLifecycle ---------------------------
(***************************************************************************)
(* The hosts of the devices of one group (daq/host.py), with the test      *)
(* modules they start (daq/test_modules) and the test ports of the gateway *)
(* they share (daq/base_gateway.py).                                       *)
(*                                                                         *)
(* A host is a record.  An operator that models a method takes the host    *)
(* and the ports in use and gives the set of its possible outcomes, so     *)
(* that a handler is the composition of the methods it calls.  Everything  *)
(* is called by the runner's one thread.  Timeouts are configured for      *)
(* every test (default_timeout_sec).                                       *)
(***************************************************************************)
EXTENDS Naturals, FiniteSets

CONSTANTS
    Host,          \* the devices of the group
    NumTests,      \* number of enabled tests of a host
    NumPorts,      \* test ports of a gateway (NUM_SET_PORTS - TEST_OFFSET_START)
    MonitorScan,   \* monitor_scan_sec is set
    External,      \* devices with dhcp_mode EXTERNAL
    NoTest,        \* the values of no_test considered
    Faults         \* what may raise, or fail

FaultKinds == {"start", "error", "finalize", "base", "scan"}

ASSUME ConstantsAssumption ==
    /\ IsFiniteSet(Host)
    /\ NumTests \in Nat
    /\ NumPorts \in Nat
    /\ MonitorScan \in BOOLEAN
    /\ External \subseteq Host
    /\ NoTest \subseteq BOOLEAN
    /\ Faults \subseteq FaultKinds

VARIABLES
    hosts,         \* the ConnectedHost of each device
    test_ports,    \* gateway.test_ports
    activated,     \* gateway.activated
    running,       \* main_loop is running
    no_test        \* configured: the list of tests is empty

vars == <<hosts, test_ports, activated, running, no_test>>

Ports == 1..NumPorts
NoPort == 0

\* Streams the event loop monitors for a host: its packet capture, and the
\* output of the module of its n-th test.
Capture == 0
Streams == 0..NumTests

States == {"none", "READY", "INIT", "WAITING", "BASE", "MONITOR", "NEXT", "TESTING",
           "HOLD", "DONE"}

\* monitor says what _monitor_ref captures, module what test_host does: an
\* inline module has no process until its analysis, a dead one was finalized
\* without a callback.
HostRecord ==
    [device : Host, state : States, monitor : {"none", "startup", "monitor", "test"},
     module : {"none", "inline", "analysis", "process", "dead"}, streams : SUBSET Streams,
     test_port : Ports \cup {NoPort}, remaining_tests : 0..NumTests,
     timeout_handler : {"none", "aux", "main", "external"},
     discover : BOOLEAN, mismatch : BOOLEAN]

NoHost(h) ==
    [device |-> h, state |-> "none", monitor |-> "none", module |-> "none", streams |-> {},
     test_port |-> NoPort, remaining_tests |-> IF no_test THEN 0 ELSE NumTests, timeout_handler |-> "aux",
     discover |-> FALSE, mismatch |-> FALSE]

\* The number of the test a host is at.
Current(r) == NumTests - r.remaining_tests

Outcome(r, ports) == {[host |-> r, ports |-> ports]}
-----------------------------------------------------------------------------
(* The packet capture *)

\* _monitor_scan
monitor_scan(r, what) == [r EXCEPT !.monitor = what, !.streams = @ \cup {Capture}]

\* _monitor_cleanup, once its assertion has passed
monitor_cleanup(r) == [r EXCEPT !.monitor = "none", !.streams = @ \ {Capture}]

\* The assertion of _monitor_cleanup.
CleanupMatches(r, forget) == r.monitor # "none" => ((Capture \in r.streams) = forget)

\* The runner ends the target set.  terminate cleans the capture up first and
\* leaves the rest if that raises; it terminates the module; the test port is
\* not released.
terminate(r) ==
    IF CleanupMatches(r, TRUE)
    THEN [NoHost(r.device) EXCEPT !.streams = monitor_cleanup(r).streams \ {Current(r)}]
    ELSE [NoHost(r.device) EXCEPT !.streams = r.streams, !.mismatch = TRUE]

\* The runner's target_set_error or target_set_complete
target_set_end(r, ports) == Outcome(terminate(r), ports)

\* _monitor_error: when the cleanup raises, nothing else is done
monitor_error(r, forget, ports) ==
    IF CleanupMatches(r, forget)
    THEN target_set_end(monitor_cleanup(r), ports)
    ELSE Outcome([r EXCEPT !.mismatch = TRUE], ports)
-----------------------------------------------------------------------------
(* The sequence of tests *)

\* gateway.allocate_test_port: the lowest free port, if there is one
allocate_test_port(ports) == {p \in Ports \ ports : \A q \in Ports \ ports : p <= q}

\* _start_test
start_test(r) == [monitor_scan(r, "test") EXCEPT !.state = "TESTING"]

\* The module's start: an inline module waits, the others run a process.  The
\* inline one refuses an external device.
module_start(r) ==
    {[r EXCEPT !.module = "process", !.streams = @ \cup {Current(r)}]}
    \cup IF r.device \in External THEN {} ELSE {[r EXCEPT !.module = "inline"]}

\* Mutant: the timeout of the test is not armed.
RunTestNoTimeout(r, ports) ==
    LET tested == [r EXCEPT !.remaining_tests = @ - 1]
    IN  UNION {Outcome([start_test(tested) EXCEPT !.test_port = p, !.module = "inline"],
                       ports \cup {p}) : p \in allocate_test_port(ports)}

\* _run_test.  A start that raises gives the port back; its exception ends the
\* target set.
run_test(r, ports) ==
    LET tested == [r EXCEPT !.timeout_handler = "main", !.remaining_tests = @ - 1]
        free == allocate_test_port(ports)
        started == UNION {module_start([start_test(tested) EXCEPT !.test_port = p]) : p \in free}
        raises == free = {} \/ "start" \in Faults \/ r.device \in External
    IN  (IF raises THEN target_set_end(tested, ports) ELSE {})
        \cup UNION {Outcome(s, ports \cup {s.test_port}) : s \in started}

\* _run_next_test
run_next_test(r, ports) ==
    IF r.remaining_tests > 0 THEN run_test(r, ports)
    ELSE IF no_test THEN Outcome([r EXCEPT !.state = "HOLD"], ports)
    ELSE Outcome([r EXCEPT !.state = "DONE", !.timeout_handler = "aux"], ports)

\* _end_test.  When the capture does not match, the host stays as it is.
end_test(r, ports) ==
    IF CleanupMatches(r, TRUE)
    THEN run_next_test([monitor_cleanup(r) EXCEPT !.state = "NEXT", !.module = "none",
                                                  !.timeout_handler = "none"], ports)
    ELSE Outcome([r EXCEPT !.module = "dead", !.mismatch = TRUE], ports)

\* Mutant: the port of a finished test stays allocated.
ModuleCallbackKeepsPort(r, ports) == end_test(r, ports)

\* _module_callback and release_test_port: a port that is not allocated raises
module_callback(r, ports) ==
    IF r.test_port \in ports THEN end_test(r, ports \ {r.test_port})
    ELSE Outcome([r EXCEPT !.module = "dead"], ports)

\* Mutant: the module's output is still monitored after it was terminated.
FinalizeKeepsStream(r) == r

\* ExternalModule._finalize: the process's stream is forgotten
finalize(r) == [r EXCEPT !.streams = @ \ {Current(r)}]

\* _monitor_continue, after the background capture
monitor_continue(r, ports) == run_next_test([r EXCEPT !.state = "NEXT"], ports)

\* _base_start and _background_scan: the result of the pings is not looked at
\* (_base_tests makes pairs of them), so only an exception fails
base_start(r, ports) ==
    IF MonitorScan
    THEN Outcome([monitor_scan(monitor_cleanup(r), "monitor") EXCEPT !.state = "MONITOR"], ports)
    ELSE monitor_continue(monitor_cleanup(r), ports)
-----------------------------------------------------------------------------
(* Handlers *)

\* The last host to leave retires the gateway.
Gateway(hs, ports, active) ==
    LET retired == \A h \in Host : hs[h].state = "none"
    IN  /\ hosts' = hs
        /\ test_ports' = IF retired THEN {} ELSE ports
        /\ activated' = (active /\ ~retired)

Handle(h, outcomes) ==
    /\ \E o \in outcomes : Gateway([hosts EXCEPT ![h] = o.host], o.ports, activated)
    /\ UNCHANGED <<running, no_test>>

In(h, state) == running /\ hosts[h].state = state

\* ConnectedHost.initialize.  The runner gives a gateway that was activated no
\* further devices.
initialize(h) ==
    /\ In(h, "none")
    /\ ~activated
    /\ Handle(h, Outcome(IF no_test THEN [hosts[h] EXCEPT !.state = "READY"]
                         ELSE [monitor_scan(hosts[h], "startup") EXCEPT !.state = "INIT"],
                         test_ports))

\* _control_updated: a host that is held is started
control_updated(h) ==
    /\ In(h, "READY")
    /\ Handle(h, Outcome([monitor_scan(hosts[h], "startup") EXCEPT !.state = "INIT"],
                         test_ports))

\* The runner was told the address of host h, or that h is prepared, hs being the hosts so far: it
\* may activate the gateway and trigger waiting hosts of the group.
ip_notify(hs) ==
    /\ \/ Gateway(hs, test_ports, activated)
       \/ \E group \in SUBSET {g \in Host : hs[g].state = "WAITING"} :
             Gateway([g \in Host |-> IF g \in group THEN [hs[g] EXCEPT !.state = "BASE"]
                                     ELSE hs[g]], test_ports, TRUE)
    /\ UNCHANGED <<running, no_test>>

\* Mutant: a host that was triggered waits for an address again.
PrepareAgain(h) ==
    /\ running /\ hosts[h].state \in {"INIT", "BASE"}
    /\ ip_notify([hosts EXCEPT ![h].state = "WAITING"])

\* idle_handler of an initialized host: _prepare
prepare(h) ==
    /\ In(h, "INIT")
    /\ ip_notify([hosts EXCEPT ![h].state = "WAITING",
                                  ![h].timeout_handler = IF h \in External THEN "external"
                                                         ELSE @])

\* The DHCP monitor notifies the address of a waiting host.
dhcp_notify(h) == In(h, "WAITING") /\ ip_notify(hosts)

\* idle_handler of a triggered host: _base_start
base(h) ==
    /\ In(h, "BASE")
    /\ \/ Handle(h, base_start(hosts[h], test_ports))
       \/ "base" \in Faults /\ Handle(h, target_set_end(hosts[h], test_ports))

\* The capture's process ends: the event loop has closed and forgotten the
\* stream.  Only the background capture may end, and not before its time.
monitor_timeout(h) ==
    LET r == [hosts[h] EXCEPT !.streams = @ \ {Capture}]
    IN  /\ running
        /\ Capture \in hosts[h].streams
        /\ \/ Handle(h, monitor_error(r, FALSE, test_ports))
           \/ r.monitor = "monitor" /\ Handle(h, monitor_continue(monitor_cleanup(r), test_ports))

\* The callback of the capture's stream raises.
capture_error(h) ==
    /\ "scan" \in Faults
    /\ running
    /\ Capture \in hosts[h].streams
    /\ Handle(h, monitor_error(hosts[h], FALSE, test_ports))

\* ExternalModule._complete, on the hangup of the output of the n-th module;
\* an exception of _finalize is a failed test
module_complete(h, n) ==
    /\ running
    /\ n \in hosts[h].streams
    /\ Handle(h, module_callback([hosts[h] EXCEPT !.streams = @ \ {n}], test_ports))

\* ExternalModule._error, when copying the output raises.  An exception of
\* _finalize is lost, and the callback with it.
module_error(h, n) ==
    /\ "error" \in Faults
    /\ running
    /\ n \in hosts[h].streams
    /\ \/ Handle(h, module_callback(finalize(hosts[h]), test_ports))
       \/ /\ "finalize" \in Faults
          /\ Handle(h, Outcome([finalize(hosts[h]) EXCEPT !.module = "dead"], test_ports))

\* An inline module starts the process of its analysis, or ends without: on an
\* address or a lease timeout, IpAddrModule._next_test
module_inline(h) ==
    /\ running
    /\ hosts[h].module = "inline"
    /\ \/ Handle(h, Outcome([hosts[h] EXCEPT !.module = "analysis",
                                             !.streams = @ \cup {Current(hosts[h])}], test_ports))
       \/ Handle(h, module_callback(hosts[h], test_ports))

\* main_loop is left by an exception.
LeaveLoop(h, r) ==
    /\ hosts' = [hosts EXCEPT ![h] = r]
    /\ running' = FALSE
    /\ UNCHANGED <<test_ports, activated, no_test>>

\* _main_module_timeout_handler: the module is terminated, then its callback
\* called.  A terminate that raises leaves main_loop.
main_timeout(h, r) ==
    \/ r.module # "dead" /\ Handle(h, module_callback(finalize(r), test_ports))
    \/ r.module = "dead" /\ LeaveLoop(h, r)
    \/ /\ r.module \in {"process", "analysis"}
       /\ "finalize" \in Faults
       /\ LeaveLoop(h, r) \/ LeaveLoop(h, [finalize(r) EXCEPT !.module = "dead"])

\* IpAddrModule.heartbeat: the lease time is over during the analysis
module_heartbeat(h) ==
    /\ running
    /\ hosts[h].module = "analysis"
    /\ main_timeout(h, hosts[h])

\* Mutant: the running capture is taken for one that has ended.
AuxTimeoutNoForget(r) == monitor_error(r, FALSE, test_ports)

\* _aux_module_timeout_handler: a capture may still be running
aux_timeout(r) == monitor_error(r, TRUE, test_ports)

\* heartbeat: the time of the current test or phase is over; the handler is
\* called once
heartbeat(h) ==
    LET r == [hosts[h] EXCEPT !.timeout_handler = "none"]
    IN  /\ running
        /\ hosts[h].state # "none"
        /\ ~no_test
        /\ \/ /\ hosts[h].timeout_handler = "aux"
              /\ Handle(h, aux_timeout(r))
           \/ hosts[h].timeout_handler = "main" /\ main_timeout(h, r)
           \/ /\ hosts[h].timeout_handler = "external"
              /\ Handle(h, Outcome([r EXCEPT !.discover = TRUE], test_ports))

\* The scan for an external device ends: an address counts for a waiting host
\* only, finding none is a timeout whatever the host does by then.
discover_callback(h) ==
    LET r == [hosts[h] EXCEPT !.discover = FALSE]
    IN  /\ running
        /\ hosts[h].discover
        /\ \/ Handle(h, aux_timeout(r))
           \/ r.state = "WAITING" /\ ip_notify([hosts EXCEPT ![h] = r])
           \/ r.state # "WAITING" /\ Handle(h, Outcome(r, test_ports))

\* The runner completes a host that is done.
complete(h) == In(h, "DONE") /\ Handle(h, target_set_end(hosts[h], test_ports))

\* The runner ends a target set: its port, its gateway or the runner itself
\* went down.
cancel(h) == hosts[h].state # "none" /\ Handle(h, target_set_end(hosts[h], test_ports))

Init ==
    /\ no_test \in NoTest
    /\ hosts = [h \in Host |-> NoHost(h)]
    /\ test_ports = {}
    /\ activated = FALSE
    /\ running = TRUE

Idle(h) == prepare(h) \/ base(h) \/ complete(h)

Stopped == ~running /\ (\A h \in Host : hosts[h].state = "none") /\ UNCHANGED vars

Next ==
    \/ \E h \in Host : \/ initialize(h) \/ control_updated(h) \/ dhcp_notify(h)
                       \/ Idle(h) \/ monitor_timeout(h) \/ capture_error(h)
                       \/ module_inline(h) \/ module_heartbeat(h) \/ heartbeat(h) \/ discover_callback(h)
                       \/ cancel(h)
                       \/ \E n \in 1..NumTests : module_complete(h, n) \/ module_error(h, n)
    \/ Stopped

Spec == Init /\ [][Next]_vars
-----------------------------------------------------------------------------
TypeOK ==
    /\ hosts \in [Host -> HostRecord]
    /\ test_ports \subseteq Ports
    /\ activated \in BOOLEAN
    /\ running \in BOOLEAN
    /\ no_test \in NoTest

\* Two hosts that test at the same time use different ports, and the gateway
\* knows them to be in use (allocate_test_port, release_test_port).
PortsExclusive ==
    \A h \in Host : hosts[h].state = "TESTING" =>
        /\ hosts[h].test_port \in test_ports
        /\ \A g \in Host \ {h} :
             hosts[g].state = "TESTING" => hosts[g].test_port # hosts[h].test_port

\* A host that is cancelled during a test does not release its port, but each
\* device of the group can do so only once while the gateway lives: the ports
\* of a gateway are enough for a group of that many devices, and
\* allocate_test_port does not fail.
LeakBounded ==
    Cardinality(test_ports) <=
        Cardinality({h \in Host : hosts[h].state \in {"TESTING", "none"}})

\* The test ports of a gateway are enough for its group and never shared, however
\* tests end (allocate_test_port, release_test_port).
TestPortsSound == PortsExclusive /\ LeakBounded

Owned(r) == (IF r.monitor # "none" THEN {Capture} ELSE {})
            \cup (IF r.module \in {"process", "analysis"} THEN {Current(r)} ELSE {})

\* The event loop monitors for a host exactly the capture it has open and the
\* process of its current test: no event comes to a host that has ended, nor
\* from a test that was timed out to the next one.
StreamsOwned == \A h \in Host : hosts[h].streams = Owned(hosts[h])

CaptureOf(state) ==
    CASE state \in {"INIT", "WAITING", "BASE"} -> "startup"
      [] state = "MONITOR" -> "monitor"
      [] state = "TESTING" -> "test"
      [] OTHER -> "none"

\* A host captures packets in every phase that needs it and its tests are run
\* under a capture of their own; the assertion of _monitor_scan holds, as there
\* is none when the next one starts.
CaptureFollowsPhase == \A h \in Host : hosts[h].monitor = CaptureOf(hosts[h].state)

\* What the event loop monitors for a host is what its phase needs, on each of the
\* paths that start and end captures and modules.
StreamsFollowPhase == StreamsOwned /\ CaptureFollowsPhase

\* The assertion of _monitor_cleanup, 'forget and active mismatch', fails in one
\* case only: the callback of a capture that is still running has raised.
OnlyCaptureErrorsMismatch ==
    [][\A h \in Host : hosts'[h].mismatch /\ ~hosts[h].mismatch => capture_error(h)]_vars

\* The host goes through the phases that the runner expects.
PhaseOf(state) ==
    CASE state \in {"none", "WAITING", "DONE"} -> state
      [] state \in {"READY", "INIT"} -> "INIT"
      [] OTHER -> "RUN"

Phases == INSTANCE HostPhases
              WITH Device <- Host, phase <- [h \in Host |-> PhaseOf(hosts[h].state)]
ImplementsPhases == Phases!Spec
-----------------------------------------------------------------------------
(* Liveness.  The idle handler and the heartbeat are called for every host  *)
(* again and again, a background capture and a scan for a device end, and   *)
(* main_loop terminates every host when it is left.                         *)

Fairness ==
    \A h \in Host :
        /\ WF_vars(Idle(h))
        /\ WF_vars(heartbeat(h))
        /\ WF_vars(hosts[h].monitor = "monitor" /\ monitor_timeout(h))
        /\ WF_vars(discover_callback(h))
        /\ WF_vars(~running /\ cancel(h))

FairSpec == Spec /\ Fairness

\* Every host that has tests comes to its end: no phase and no test holds it for ever, also
\* when a module's end raises.  An external device that was found by the scan
\* has no timeout left while it waits for its group.
HostsEnd ==
    ~no_test => \A h \in Host \ External : (hosts[h].state # "none") ~> (hosts[h].state = "none")
=============================================================================
