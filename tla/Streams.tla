------------------------------- MODULE Streams -------------------------------
(***************************************************************************)
(* The event loop of the runner (stream_monitor.py) and what it watches:   *)
(* the startup capture, the DHCP monitor and the address discovery of each *)
(* gateway, the packet capture and the test module of each host.  One poll *)
(* returns a batch of events; the callback of one event may close streams  *)
(* whose events are still in the batch, and open new ones, to which the    *)
(* operating system gives the lowest descriptor that is free.              *)
(* A set here has one device.                                              *)
(***************************************************************************)
EXTENDS Integers, FiniteSets, Sequences, Functions

CONSTANTS
    Set,         \* the target sets
    Tests,       \* the number of test modules the device of each set runs
    External,    \* the sets whose device has an external DHCP server
    NumSubnets,  \* the external subnets searched for a device
    Talks,       \* the streams that produce output before they end
    Dies         \* the streams whose process may end by itself

ASSUME StreamsAssumption ==
    /\ IsFiniteSet(Set)
    /\ Tests \in [Set -> Nat]
    /\ External \subseteq Set
    /\ NumSubnets \in Nat \ {0}
    /\ \A g \in External : <<"arp", g>> \in Dies

VARIABLES
    fd,         \* the descriptor of each file that is open, 0 for the others
    callbacks,  \* the monitored descriptors, in the order they were registered
    output,     \* what a process at the other end of a stream has done
    batch,      \* the events of the last poll that are still to be handled
    sets        \* where each target set stands

vars == <<fd, callbacks, output, batch, sets>>

Kinds == {"scan", "dhcp", "arp", "tcpdump", "module"}
Stream == Kinds \X Set
Logs == {"dhcp_log", "arp_log", "module_log"} \X Set
File == Stream \cup Logs
Fds == 1..Cardinality(File)

NewSet(g) == [phase |-> "new", remaining |-> Tests[g], subnets |-> NumSubnets,
              asked |-> FALSE, answers |-> 0]

-----------------------------------------------------------------------------
\* Descriptors and the monitor.  A state of both is a record of fd and callbacks.

LowestFree(fds) ==
    CHOOSE n \in Fds : /\ \A f \in File : fds[f] # n
                       /\ \A m \in 1..(n - 1) : \E f \in File : fds[f] = m

open(m, f) == [m EXCEPT !.fd[f] = LowestFree(m.fd)]
close(m, f) == [m EXCEPT !.fd[f] = 0]

\* Start monitoring a descriptor.
monitor(m, s) == [m EXCEPT !.callbacks = Append(@, [fd |-> m.fd[s], stream |-> s])]

\* Stop monitoring a descriptor, which has to be monitored.
forget(m, s) ==
    LET i == CHOOSE i \in DOMAIN m.callbacks : m.callbacks[i].fd = m.fd[s]
    IN  [m EXCEPT !.callbacks = SubSeq(@, 1, i - 1) \o SubSeq(@, i + 1, Len(@))]

start(m, s) == monitor(open(m, s), s)

\* Forget a stream and end the process behind it, if it is still active.
finalize(m, s) == IF m.fd[s] = 0 THEN m ELSE close(forget(m, s), s)

-----------------------------------------------------------------------------
\* The users of the monitor.

\* The DHCP monitor lets go of its log and of its capture.
dhcp_cleanup(m, g) == finalize(close(m, <<"dhcp_log", g>>), <<"dhcp", g>>)

\* A test module lets go of its pipe and of its log.
module_finalize(m, g) == close(finalize(m, <<"module", g>>), <<"module_log", g>>)

GatewayTerminateBase(m, g) == dhcp_cleanup(m, g)

\* The gateway of a set terminates, then its startup capture.
gateway_terminate(m, g) == finalize(dhcp_cleanup(m, g), <<"scan", g>>)

\* The runner ends a target set: gateway, capture and module, in this order.
\* A discovery that is under way is left to itself.
target_set_cancel(m, g) ==
    module_finalize(finalize(gateway_terminate(m, g), <<"tcpdump", g>>), g)

Outcome(m, s) == [m |-> m, set |-> s]

ended(m, g, s) == {Outcome(target_set_cancel(m, g), [s EXCEPT !.phase = "off"])}

\* A test starts its capture, then its module (pipe, then log).
run_test(m, g, s) ==
    LET started == open(open(start(m, <<"tcpdump", g>>), <<"module", g>>), <<"module_log", g>>)
    IN  {Outcome(monitor(started, <<"module", g>>),
                 [s EXCEPT !.phase = "test", !.remaining = @ - 1])}

run_next_test(m, g, s) ==
    IF s.remaining = 0 THEN {Outcome(m, [s EXCEPT !.phase = "done"])} ELSE run_test(m, g, s)

end_test(m, g, s) ==
    run_next_test(finalize(module_finalize(m, g), <<"tcpdump", g>>), g, s)

ActivateNoForget(m, g, s) ==
    {Outcome(close(m, <<"scan", g>>), [s EXCEPT !.phase = "base"])}

\* The device of a waiting set got its address: the gateway is activated, its
\* startup capture ends.
activate(m, g, s) ==
    {Outcome(finalize(m, <<"scan", g>>), [s EXCEPT !.phase = "base"])}

ip_notify(m, g, s) == IF s.phase = "wait" THEN activate(m, g, s) ELSE {Outcome(m, s)}

-----------------------------------------------------------------------------
\* Discovery: one arp-scan for each subnet, until one finds the device.

scan_subnet(m, g, s) ==
    {Outcome(start(open(m, <<"arp_log", g>>), <<"arp", g>>), [s EXCEPT !.subnets = @ - 1])}

\* Finding no address counts as a timeout of the host whatever it does by then;
\* for a host that is terminated the callback raises, and that is logged.
none_found(m, g, s) ==
    LET told == [s EXCEPT !.answers = @ + 1]
    IN  IF s.phase = "off" THEN {Outcome(m, told)} ELSE ended(m, g, told)

found(m, g, s) == ip_notify(m, g, [s EXCEPT !.answers = @ + 1])

\* The next subnet; the container of a terminated gateway starts no process.
recursive_discover(m, g, s) ==
    IF s.subnets = 0 THEN none_found(m, g, s)
    ELSE IF s.phase = "off" THEN {Outcome(m, s)} ELSE scan_subnet(m, g, s)

DiscoverHangupNoReturn(m, g, s) ==
    LET closed == close(m, <<"arp_log", g>>)
    IN  recursive_discover(closed, g, s)
            \cup UNION {recursive_discover(o.m, g, o.set) : o \in found(closed, g, s)}

DiscoverHangupGivesUp(m, g, s) ==
    LET closed == close(m, <<"arp_log", g>>)
    IN  found(closed, g, s) \cup {Outcome(closed, s)}

\* An arp-scan is over: its log is closed and read, the device is in it or not.
discover_host_hangup(m, g, s) ==
    LET closed == close(m, <<"arp_log", g>>)
    IN  found(closed, g, s) \cup recursive_discover(closed, g, s)

-----------------------------------------------------------------------------
\* Handling one event.

\* Output of a stream.  A line of the DHCP monitor may complete an address or
\* make the monitor fail; what a module writes is copied to its log, which
\* raises when there is nothing to read after all; the other output is dropped.
trigger_callback(m, st, s) ==
    LET g == st[2]
        has_data == "data" \in output[st]
        fails == end_test(m, g, s)
    IN  CASE st[1] = "dhcp" /\ has_data ->
               {Outcome(m, s)} \cup ip_notify(m, g, s) \cup ended(dhcp_cleanup(m, g), g, s)
          [] st[1] = "module" /\ has_data -> {Outcome(m, s)} \cup fails
          [] st[1] = "module" /\ ~has_data -> fails
          [] OTHER -> {Outcome(m, s)}

\* The capture of a host ended: the background capture in time, or an error.
monitor_timeout(m, g, s) ==
    ended(m, g, s) \cup (IF s.phase = "monitor" THEN run_next_test(m, g, s) ELSE {})

\* The monitor closes a stream that ended and forgets its descriptor, then
\* calls back the user of the stream.
trigger_hangup(m, st, s) ==
    LET g == st[2]
        gone == close(forget(m, st), st)
    IN  CASE st[1] = "scan" -> {Outcome(gone, s)}
          [] st[1] = "dhcp" -> ended(dhcp_cleanup(gone, g), g, s)
          [] st[1] = "tcpdump" -> monitor_timeout(gone, g, s)
          [] st[1] = "module" -> end_test(gone, g, s)
          [] st[1] = "arp" -> discover_host_hangup(gone, g, s)

-----------------------------------------------------------------------------
\* The stream monitored under a descriptor now: a set of at most one.
Owner(n) == {c.stream : c \in {d \in Range(callbacks) : d.fd = n}}

Now == [fd |-> fd, callbacks |-> callbacks]

Becomes(g, o) ==
    /\ fd' = o.m.fd
    /\ callbacks' = o.m.callbacks
    /\ sets' = [sets EXCEPT ![g] = o.set]

\* A stream that was opened or closed has produced nothing yet.
Untouched(st) == fd'[st] # 0 /\ \E c \in Range(callbacks) : c.stream = st /\ c \in Range(callbacks')

Process(st, outcomes) ==
    \E o \in outcomes :
        /\ Becomes(st[2], o)
        /\ output' = [x \in Stream |-> IF ~Untouched(x) THEN {}
                                       ELSE IF x = st THEN output[x] \ {"data"} ELSE output[x]]

ProcessInputOnly(st, event) == Process(st, trigger_callback(Now, st, sets[st[2]]))

\* Process an individual poll result: output before hangup.
process_poll_result(st, event) ==
    Process(st, IF event = "in" THEN trigger_callback(Now, st, sets[st[2]])
                                ELSE trigger_hangup(Now, st, sets[st[2]]))

\* The next event of the batch; a descriptor nobody monitors any more is skipped.
dispatch ==
    /\ batch # <<>>
    /\ batch' = Tail(batch)
    /\ \/ \E st \in Owner(Head(batch).fd) : process_poll_result(st, Head(batch).event)
       \/ Owner(Head(batch).fd) = {} /\ UNCHANGED <<fd, callbacks, output, sets>>

\* Poll all descriptors: those with output or with a process that has ended.
\* "from" is the stream the event is about, which the code does not record.
poll ==
    LET ready == SelectSeq(callbacks, LAMBDA c : output[c.stream] # {})
    IN  /\ batch = <<>>
        /\ ready # <<>>
        /\ batch' = [i \in DOMAIN ready |->
                        [fd |-> ready[i].fd, from |-> ready[i].stream,
                         event |-> IF "data" \in output[ready[i].stream] THEN "in" ELSE "hup"]]
        /\ UNCHANGED <<fd, callbacks, output, sets>>

-----------------------------------------------------------------------------
\* What the runner does between two batches.

Between(g, phases, outcomes) ==
    /\ batch = <<>>
    /\ sets[g].phase \in phases
    /\ \E o \in outcomes : Becomes(g, o)
    /\ output' = [x \in Stream |-> IF Untouched(x) THEN output[x] ELSE {}]
    /\ UNCHANGED batch

\* A device is triggered: gateway (startup capture, DHCP monitor), then host.
initialize(g) ==
    LET gateway == start(open(start(Now, <<"scan", g>>), <<"dhcp_log", g>>), <<"dhcp", g>>)
    IN  Between(g, {"new"}, {Outcome(start(gateway, <<"tcpdump", g>>), [sets[g] EXCEPT !.phase = "wait"])})

\* The idle handler, when no stream has anything: base tests, then the
\* background capture.
base_start(g) ==
    /\ \A st \in Stream : output[st] = {}
    /\ Between(g, {"base"},
               {Outcome(start(finalize(Now, <<"tcpdump", g>>), <<"tcpdump", g>>),
                        [sets[g] EXCEPT !.phase = "monitor"])})

\* The heartbeat: a device with external DHCP waited too long and is searched.
discover_host(g) ==
    /\ g \in External /\ ~sets[g].asked
    /\ Between(g, {"wait"}, recursive_discover(Now, g, [sets[g] EXCEPT !.asked = TRUE]))

\* The runner ends a set that is done, or whose port was down for too long.
reap(g) == Between(g, {"wait", "base", "monitor", "test", "done"}, ended(Now, g, sets[g]))

\* The processes behind the streams (tcpdump, arp-scan, the test containers).
\* What they do while a batch is handled is seen by the next poll.
produce(st) ==
    /\ batch = <<>>
    /\ fd[st] # 0
    /\ output[st] = {}
    /\ output' = [output EXCEPT ![st] = {"data"}]
    /\ UNCHANGED <<fd, callbacks, batch, sets>>

end(st) ==
    /\ batch = <<>>
    /\ fd[st] # 0
    /\ "ended" \notin output[st]
    /\ output' = [output EXCEPT ![st] = @ \cup {"ended"}]
    /\ UNCHANGED <<fd, callbacks, batch, sets>>

-----------------------------------------------------------------------------
Init ==
    /\ fd = [f \in File |-> 0]
    /\ callbacks = <<>>
    /\ output = [st \in Stream |-> {}]
    /\ batch = <<>>
    /\ sets = [g \in Set |-> NewSet(g)]

Next ==
    \/ poll \/ dispatch
    \/ \E g \in Set : initialize(g) \/ base_start(g) \/ discover_host(g) \/ reap(g)
    \/ \E st \in Talks : produce(st)
    \/ \E st \in Dies : end(st)

\* The loop keeps turning: weak fairness of poll and dispatch, which are the
\* steps that change batch, with the condition that enables one written out.
LoopTurns ==
    \/ []<>(batch = <<>> /\ \A c \in Range(callbacks) : output[c.stream] = {})
    \/ []<><<batch' # batch>>_batch

\* An arp-scan ends by itself whatever the loop does, so strong fairness for a
\* step that is taken between batches only.
Spec == Init /\ [][Next]_vars
             /\ LoopTurns
             /\ \A g \in External : SF_vars(end(<<"arp", g>>))

-----------------------------------------------------------------------------
\* Every variable has its type.
TypeOK ==
    /\ fd \in [File -> {0} \cup Fds]
    /\ callbacks \in Seq([fd : Fds, stream : Stream])
    /\ output \in [Stream -> SUBSET {"data", "ended"}]
    /\ batch \in Seq([fd : Fds, from : Stream, event : {"in", "hup"}])
    /\ sets \in [Set -> [phase : {"new", "wait", "base", "monitor", "test", "done", "off"},
                         remaining : Nat, subnets : 0..NumSubnets,
                         asked : BOOLEAN, answers : Nat]]

\* A monitored descriptor is the open descriptor of the stream it was
\* registered for, and of one stream only: neither the POLLNVAL assertion, which
\* ends the main loop, nor the assertions of monitor and forget can fail.
MonitoredIsOpen ==
    /\ \A c \in Range(callbacks) : fd[c.stream] = c.fd
    /\ \A i, j \in DOMAIN callbacks : callbacks[i].fd = callbacks[j].fd => i = j

\* When a target set is over nothing of its gateway or of its host is open any
\* more, whatever was running when it ended.
NothingLeftBehind ==
    \A g \in Set : sets[g].phase = "off" =>
        \A f \in File : f[2] = g /\ f[1] \notin {"arp", "arp_log"} => fd[f] = 0

\* A search for a device is answered once at most.
AnsweredOnce == \A g \in Set : sets[g].answers <= 1

\* The end of a process is noticed: the stream it ended is closed in the end
\* (and may then be opened anew).
HangupNoticed == \A st \in Dies : ("ended" \in output[st]) ~> ("ended" \notin output[st])

\* A search for a device is answered in the end, unless its set is over by then.
SearchAnswered ==
    \A g \in External : sets[g].asked ~> (sets[g].answers > 0 \/ sets[g].phase = "off")

\* The event handled next is handled for the stream it was reported on, or is
\* skipped because that stream is no longer monitored.
EventIsItsOwn == batch # <<>> => Owner(Head(batch).fd) \subseteq {Head(batch).from}
=============================================================================
