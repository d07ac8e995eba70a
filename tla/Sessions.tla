------------------------------ MODULE Sessions ------------------------------
(***************************************************************************)
(* Remote sessions: the gRPC server with a thread per session, its table of  *)
(* clients and its lock (daq/session_server.py), and what the runner does     *)
(* with a session in the threads of the server and in its main thread         *)
(* (_on_session, _on_session_end, _reap_stale_ports, daq/runner.py).          *)
(*                                                                          *)
(* A step is what a thread does between two points where another thread can   *)
(* see or change shared state. The main thread holds _event_lock in its idle   *)
(* handler, but neither in the callbacks of hosts nor in _reap_stale_ports.    *)
(* A session is named by the MAC of its device.                               *)
(***************************************************************************)
EXTENDS Naturals, Sequences, FiniteSets

CONSTANTS Macs,          \* devices of the remote switch
          Learned,       \* those whose traffic the local switch also learns
          MaxSessions    \* bound: sessions that clients start

ASSUME SessionsAssumption ==
    /\ MaxSessions \in Nat /\ IsFiniteSet(Macs) /\ Learned \subseteq Macs
    /\ {"free", "main"} \cap Macs = {}    \* no MAC address reads like that

VARIABLES
    clients,       \* SessionServer._clients: the return_queue of each session, or NoClient
    connected,     \* is the client still there?
    thread,        \* the place of each session's gRPC thread, until its stream ends
    reaper,        \* and then, when the session may be over for its client
    started,       \* sessions started so far
    session_lock,  \* SessionServer._lock: "free" or the MAC of a thread
    event_lock,    \* DAQRunner._event_lock: "free", "main" or the MAC of a thread
    device,        \* the registered devices
    main           \* the main thread: place, devices or clients still to visit, sizes read

vars == <<clients, connected, thread, reaper, started, session_lock, event_lock, device, main>>

NoClient == <<"no client">>
\* What goes to a client: a SessionProgress (endpoint, result or heartbeat), or the end.
Items == {"progress", "close"}
Registered == {m \in Macs : clients[m] # NoClient}

\* flapping_start: "None", 0 or a time; host: what device.host is
Absent == [host |-> "absent", flap |-> "None", wait_remote |-> FALSE]
Devices == {m \in Macs : device[m] # Absent}
Triggered == {m \in Devices : device[m].host = "running"}
DeviceRecords == [host : {"none", "running"}, flap : {"None", "0", "time"}, wait_remote : BOOLEAN]

MainRecords ==
    [pc : {"loop", "finalize", "beats", "snapshot", "reap", "decide", "ended", "stopped"},
     todo : SUBSET Macs, dev : SUBSET Macs, size : Nat]
MainAt(pc, todo, dev, size) == [pc |-> pc, todo |-> todo, dev |-> dev, size |-> size]
Loop == MainAt("loop", {}, {}, 0)

Init ==
    /\ clients = [m \in Macs |-> NoClient] /\ connected = [m \in Macs |-> FALSE]
    /\ thread = [m \in Macs |-> "none"] /\ reaper = [m \in Macs |-> "none"] /\ started = 0
    /\ session_lock = "free" /\ event_lock = "free"
    /\ device = [m \in Macs |-> Absent]
    /\ main = Loop

\* _send_reply. Messages of progress that follow one another count once, and what comes
\* behind the end of the stream is never read: the queue of a session without a thread
\* is bounded.
Put(q, item) ==
    IF q # <<>> /\ q[Len(q)] \in {"close", item} THEN q ELSE Append(q, item)
Reply(m, item) == [clients EXCEPT ![m] = Put(@, item)]

\* _send_device_result: the result, and the end of the stream
SendResult(m) ==
    IF m \in Registered THEN [clients EXCEPT ![m] = Put(Put(@, "progress"), "close")] ELSE clients

-----------------------------------------------------------------------------
(* The client and the thread of its session *)

\* StartSession and _init_session up to its callback: the session enters the table under
\* the lock, and the endpoint and a first result are put into its queue.
StartSession(m) ==
    /\ started < MaxSessions
    /\ session_lock = "free" /\ m \notin Registered
    /\ started' = started + 1
    /\ clients' = [clients EXCEPT ![m] = Put(<<>>, "progress")]
    /\ connected' = [connected EXCEPT ![m] = TRUE]
    /\ thread' = [thread EXCEPT ![m] = "starting"]
    /\ UNCHANGED <<reaper, session_lock, event_lock, device, main>>

\* _on_session takes _event_lock, sets up the tap, which may raise, and finds or makes
\* the device. An exception leaves the session in the table with no thread to stream it.
on_session(m) ==
    /\ thread[m] = "starting" /\ event_lock = "free"
    /\ \/ /\ thread' = [thread EXCEPT ![m] = "failed"]
          /\ UNCHANGED <<device, event_lock>>
       \/ /\ thread' = [thread EXCEPT ![m] = "tapped"]
          /\ event_lock' = m
          /\ device' = [device EXCEPT ![m] =
                            IF m \in Devices THEN [@ EXCEPT !.flap = "None"]
                            ELSE [host |-> "none", flap |-> "None", wait_remote |-> FALSE]]
    /\ UNCHANGED <<clients, connected, reaper, started, session_lock, main>>

\* _remote_trigger starts: the port is active again. The thread writes to the device it
\* found, which the main thread may have removed by now.
remote_trigger(m) ==
    /\ thread[m] = "tapped"
    /\ thread' = [thread EXCEPT ![m] = "trigger"]
    /\ device' = IF m \in Devices THEN [device EXCEPT ![m].flap = "0"] ELSE device
    /\ UNCHANGED <<clients, connected, reaper, started, session_lock, event_lock, main>>

\* _target_set_trigger of a device with no host: it is ignored or queued, it starts, or
\* its activation fails and the device is gone, with a result for its session.
Trigger(m) ==
    \/ UNCHANGED <<clients, device>>
    \/ /\ device' = [device EXCEPT ![m].host = "running", ![m].wait_remote = FALSE]
       /\ UNCHANGED clients
    \/ /\ device' = [device EXCEPT ![m] = Absent]
       /\ clients' = SendResult(m)

\* The assertion that the device is expected fails when it was removed in between.
target_set_trigger(m) ==
    /\ thread[m] = "trigger"
    /\ event_lock' = "free"
    /\ \/ /\ m \notin Devices
          /\ thread' = [thread EXCEPT ![m] = "failed"]
          /\ UNCHANGED <<clients, device>>
       \/ /\ m \in Devices
          /\ thread' = [thread EXCEPT ![m] = "stream"]
          /\ IF device[m].host = "running" THEN UNCHANGED <<clients, device>> ELSE Trigger(m)
    /\ UNCHANGED <<connected, reaper, started, session_lock, main>>

\* _session_stream takes an item. The end of the stream, or a client that is gone when
\* the item is passed on, ends the loop.
SessionStream(m) ==
    /\ thread[m] = "stream" /\ clients[m] # <<>>
    /\ clients' = [clients EXCEPT ![m] = Tail(@)]
    /\ IF Head(clients[m]) = "close" \/ ~connected[m]
       THEN /\ thread' = [thread EXCEPT ![m] = "none"]
            /\ reaper' = [reaper EXCEPT ![m] = "ending"]
       ELSE UNCHANGED <<thread, reaper>>
    /\ UNCHANGED <<connected, started, session_lock, event_lock, device, main>>

\* Mutant: the session leaves the table, and the lock is given up, before the runner is told.
reap_deletes_first(m) ==
    /\ reaper[m] = "ending" /\ session_lock = "free"
    /\ reaper' = [reaper EXCEPT ![m] = "reaping"]
    /\ clients' = [clients EXCEPT ![m] = NoClient]
    /\ UNCHANGED <<connected, thread, started, session_lock, event_lock, device, main>>

\* _reap_session, with the lock of the server
ReapStarts(m) ==
    /\ reaper[m] = "ending" /\ session_lock = "free"
    /\ session_lock' = m
    /\ reaper' = [reaper EXCEPT ![m] = "reaping"]
    /\ UNCHANGED <<clients, connected, thread, started, event_lock, device, main>>

on_session_end(m) ==
    /\ reaper[m] = "reaping" /\ event_lock = "free"
    /\ reaper' = [reaper EXCEPT ![m] = "delete"]
    /\ device' = IF m \in Devices THEN [device EXCEPT ![m].flap = "time"] ELSE device
    /\ UNCHANGED <<clients, connected, thread, started, session_lock, event_lock, main>>

ReapSession(m) ==
    /\ reaper[m] = "delete"
    /\ clients' = [clients EXCEPT ![m] = NoClient]
    /\ connected' = [connected EXCEPT ![m] = FALSE]
    /\ session_lock' = "free"
    /\ reaper' = [reaper EXCEPT ![m] = "none"]
    /\ UNCHANGED <<thread, started, event_lock, device, main>>

\* The client goes away (external); nothing tells the server.
Disconnect(m) ==
    /\ connected[m]
    /\ connected' = [connected EXCEPT ![m] = FALSE]
    /\ UNCHANGED <<clients, thread, reaper, started, session_lock, event_lock, device, main>>

-----------------------------------------------------------------------------
(* The main thread *)

\* A host ends in a callback, without the lock: first its result is sent ...
HostEnds(m) ==
    /\ main.pc = "loop" /\ m \in Triggered
    /\ clients' = SendResult(m)
    /\ main' = MainAt("finalize", {}, {m}, 0)
    /\ UNCHANGED <<connected, thread, reaper, started, session_lock, event_lock, device>>

\* ... then _target_set_finalize removes the device.
TargetSetFinalize ==
    /\ main.pc = "finalize"
    /\ device' = [m \in Macs |-> IF m \in main.dev THEN Absent ELSE device[m]]
    /\ main' = IF main.todo = {} THEN Loop ELSE MainAt("reap", main.todo, {}, 0)
    /\ UNCHANGED <<clients, connected, thread, reaper, started, session_lock, event_lock>>

\* _handle_device_learn, when sessions are served: the device waits for its session
HandleDeviceLearn(m) ==
    /\ main.pc = "loop" /\ event_lock = "free" /\ m \in Learned
    /\ device' = [device EXCEPT ![m] =
                      IF m \notin Devices THEN [host |-> "none", flap |-> "None", wait_remote |-> TRUE]
                      ELSE IF @.wait_remote THEN @
                      ELSE [@ EXCEPT !.flap = "None", !.wait_remote = TRUE]]
    /\ UNCHANGED <<clients, connected, thread, reaper, started, session_lock, event_lock, main>>

\* The idle handler triggers the devices that have no host and wait for no session ...
IdleTrigger(m) ==
    /\ main.pc = "loop" /\ event_lock = "free"
    /\ m \in Devices \ Triggered /\ ~device[m].wait_remote
    /\ Trigger(m)
    /\ UNCHANGED <<connected, thread, reaper, started, session_lock, event_lock, main>>

\* ... and sends the heartbeats: send_device_heartbeats iterates over the table.
HeartbeatsStart ==
    /\ main.pc = "loop" /\ event_lock = "free"
    /\ event_lock' = "main"
    /\ main' = MainAt("beats", Registered, {}, Cardinality(Registered))
    /\ UNCHANGED <<clients, connected, thread, reaper, started, session_lock, device>>

\* Mutant: heartbeats are not sent, and no session is found too old.
heartbeat_skipped(m) ==
    /\ main.pc = "beats" /\ m \in main.todo /\ m \in Registered
    /\ main' = [main EXCEPT !.todo = @ \ {m}]
    /\ UNCHANGED <<clients, connected, thread, reaper, started, session_lock, event_lock, device>>

\* A session that has streamed nothing for long is closed. The poll of the event loop may
\* take longer than the timeout, so the heartbeat finds any session too old.
Heartbeat(m) ==
    /\ main.pc = "beats" /\ m \in main.todo /\ m \in Registered
    /\ Cardinality(Registered) = main.size
    /\ \E item \in {"progress", "close"} : clients' = Reply(m, item)
    /\ main' = [main EXCEPT !.todo = @ \ {m}]
    /\ UNCHANGED <<connected, thread, reaper, started, session_lock, event_lock, device>>

\* All are served; or the size of the table has changed, and the iteration raises, which
\* the event loop logs.
HeartbeatsEnd ==
    /\ main.pc = "beats"
    /\ main.todo \cap Registered = {} \/ Cardinality(Registered) # main.size
    /\ event_lock' = "free"
    /\ main' = MainAt("snapshot", {}, {}, Cardinality(Devices))
    /\ UNCHANGED <<clients, connected, thread, reaper, started, session_lock, device>>

\* _reap_stale_ports: the list of devices with a host. A device added by another thread
\* while the list is made raises out of main_loop.
ReapSnapshot ==
    /\ main.pc = "snapshot"
    /\ main' = IF Cardinality(Devices) # main.size THEN MainAt("ended", {}, {}, 0)
               ELSE IF Triggered = {} THEN Loop ELSE MainAt("reap", Triggered, {}, 0)
    /\ UNCHANGED <<clients, connected, thread, reaper, started, session_lock, event_lock, device>>

\* The first test of flapping_start ...
ReapCheck(m) ==
    /\ main.pc = "reap" /\ m \in main.todo
    /\ main' = IF device[m].flap = "time" THEN MainAt("decide", main.todo \ {m}, {m}, 0)
               ELSE IF main.todo = {m} THEN Loop ELSE MainAt("reap", main.todo \ {m}, {}, 0)
    /\ UNCHANGED <<clients, connected, thread, reaper, started, session_lock, event_lock, device>>

\* ... and its use. A session that starts in between has set it to None, which raises, or
\* to 0, which is long ago.
ReapDecide(m) ==
    /\ main.pc = "decide" /\ main.dev = {m}
    /\ \/ /\ device[m].flap = "None"
          /\ main' = MainAt("ended", {}, {}, 0)
          /\ UNCHANGED clients
       \/ /\ device[m].flap = "time"
          /\ main' = IF main.todo = {} THEN Loop ELSE MainAt("reap", main.todo, {}, 0)
          /\ UNCHANGED clients
       \/ /\ device[m].flap \in {"0", "time"}
          /\ main' = MainAt("finalize", main.todo, {m}, 0)
          /\ clients' = SendResult(m)
    /\ UNCHANGED <<connected, thread, reaper, started, session_lock, event_lock, device>>

\* After main_loop: _terminate ends every target set and stops the server.
Terminate ==
    /\ main.pc = "ended"
    /\ clients' = [m \in Macs |-> IF m \in Triggered THEN SendResult(m)[m] ELSE clients[m]]
    /\ device' = [m \in Macs |-> IF m \in Triggered THEN Absent ELSE device[m]]
    /\ main' = MainAt("stopped", {}, {}, 0)
    /\ UNCHANGED <<connected, thread, reaper, started, session_lock, event_lock>>

Thread(m) ==
    /\ main.pc # "stopped"
    /\ \/ on_session(m) \/ remote_trigger(m) \/ target_set_trigger(m) \/ SessionStream(m)
       \/ ReapStarts(m) \/ on_session_end(m) \/ ReapSession(m)
Environment ==
    /\ main.pc # "stopped"
    /\ \E m \in Macs : StartSession(m) \/ Disconnect(m) \/ HandleDeviceLearn(m)
Main == \/ \E m \in Macs : HostEnds(m) \/ IdleTrigger(m) \/ Heartbeat(m) \/ ReapCheck(m) \/ ReapDecide(m)
        \/ TargetSetFinalize \/ HeartbeatsStart \/ HeartbeatsEnd \/ ReapSnapshot \/ Terminate
Next == Environment \/ Main \/ \E m \in Macs : Thread(m)

\* A thread that can run does, and gets a lock that is free again and again; the idle handler comes again and again although others take
\* the lock in between, and its loops go on to their ends.
Fairness ==
    /\ \A m \in Macs : SF_vars(Thread(m))
    /\ SF_vars(HeartbeatsStart)
    /\ WF_vars(main.pc # "loop" /\ Main)
Spec == Init /\ [][Next]_vars
FairSpec == Spec /\ Fairness

-----------------------------------------------------------------------------
(* Every variable keeps its type (the fields of SessionServer, Device and     *)
(* PortInfo).                                                                *)
TypeOK ==
    /\ clients \in [Macs -> Seq(Items) \cup {NoClient}]
    /\ connected \in [Macs -> BOOLEAN] /\ started \in 0..MaxSessions
    /\ thread \in [Macs -> {"none", "starting", "tapped", "trigger", "stream", "failed"}]
    /\ reaper \in [Macs -> {"none", "ending", "reaping", "delete"}]
    /\ session_lock \in Macs \cup {"free"} /\ event_lock \in Macs \cup {"free", "main"}
    /\ device \in [Macs -> DeviceRecords \cup {Absent}]
    /\ main \in MainRecords

(* The end of an old session never marks a device as gone that a new session  *)
(* of the same device has taken over: a streaming session that has not been    *)
(* closed belongs to a device that is not flapping, so a reconnected device    *)
(* is not reaped for its last disconnect (_on_session, "In case this was set    *)
(* from last disconnect").                                                     *)
LiveSessionNotFlapping ==
    \A m \in Macs : thread[m] = "stream" /\ m \in Devices => device[m].flap # "time"

(* The server notices that the client of a stream has gone: a heartbeat is put  *)
(* into its queue, passing it on fails, and the session leaves the table, with  *)
(* no cycle of threads waiting for each other's lock (send_device_heartbeats,   *)
(* _session_stream, _reap_session).                                             *)
DisconnectIsNoticed ==
    \A m \in Macs : (thread[m] = "stream" /\ ~connected[m]) ~> (m \notin Registered \/ main.pc \in {"ended", "stopped"})

(* Expected by the comment in _on_session, "In case this was set from last     *)
(* disconnect": a device is not ended for flapping once a new session has       *)
(* cleared the mark. _reap_stale_ports reads the mark twice without the lock.   *)
ReconnectedNotReaped ==
    [][\A m \in Macs : ReapDecide(m) /\ main'.pc # "loop" /\ main'.pc # "reap" => device[m].flap = "time"]_vars
=============================================================================
