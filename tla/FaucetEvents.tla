---------------------------- MODULE FaucetEvents ----------------------------
(***************************************************************************)
(* The path of a switch event from the controller's event socket to the     *)
(* runner: the line buffer, the debounce timers (threads of their own), the  *)
(* queue of debounced events, and the runner's loop with its reconnection    *)
(* (daq/faucet_event_client.py, _handle_faucet_events of daq/runner.py).     *)
(*                                                                          *)
(* A line is a record; the text of a line is left out, and so is the part of *)
(* a line that is still to be received, because recv is called until the     *)
(* buffer has a newline. The one part that matters is the one whose rest     *)
(* never comes, since the buffer outlives the connection (torn).             *)
(***************************************************************************)
EXTENDS Naturals, Sequences, FiniteSets, Functions

CONSTANTS Ports,          \* device ports of the switch
          MaxChanges,     \* bound: events the switch sends
          MaxRestarts     \* bound: restarts of the controller

ASSUME BoundsAssumption ==
    /\ IsFiniteSet(Ports)
    /\ MaxChanges \in Nat
    /\ MaxRestarts \in Nat

VARIABLES
    \* the switch and its controller
    link,          \* the state each port really has
    sent,          \* events sent so far
    restarts,      \* restarts so far
    wire,          \* lines written to the socket and not yet received
    eof,           \* the controller has closed its end ...
    cut,           \* ... in the middle of a line
    \* FaucetEventClient
    debounce,      \* is port_debounce_sec positive? (configuration, chosen at the start)
    sock,          \* "open", "unconnected" or "none"
    buffer,        \* complete lines of self.buffer
    torn,          \* self.buffer ends in a piece of a line whose rest never comes
    debounced_q,
    timers,        \* the timer of each port in _port_timers
    late,          \* timers that had passed their own check when they were cancelled
    seen,          \* history: last state that _debounce_port_event was called with
    raced,         \* history: a timer was cancelled too late and nothing came after it
    garbled,       \* history: a torn line has swallowed an event
    \* the runner
    known,         \* _is_port_active
    faucet,        \* faucet_events is not None
    monitored,     \* its socket is in the stream monitor
    pc             \* "idle"; in next_event, "fresh" before a line is parsed, then "parsed"

switch == <<link, sent, restarts, debounce>>
socket == <<wire, eof, cut, sock>>
client == <<buffer, torn, debounced_q, timers, late, seen, raced, garbled>>
runner == <<known, faucet, monitored, pc>>
vars == <<switch, socket, client, runner>>

TimerStates == {"none", "waiting", "expired", "done"}
PortChange(p, active) == [type |-> "PORT_CHANGE", port |-> p, active |-> active]
PortsStatus(status) == [type |-> "PORTS_STATUS", status |-> status]
L2Learn(p) == [type |-> "L2_LEARN", port |-> p]
ConfigChange == [type |-> "CONFIG_CHANGE"]
BadLine == [type |-> "bad"]
Lines == {PortChange(p, a) : p \in Ports, a \in BOOLEAN} \cup {L2Learn(p) : p \in Ports}
         \cup {PortsStatus(s) : s \in [Ports -> BOOLEAN]} \cup {ConfigChange, BadLine}

Init ==
    /\ link \in [Ports -> BOOLEAN] /\ sent = 0 /\ restarts = 0
    /\ wire = <<PortsStatus(link)>> /\ eof = FALSE /\ cut = FALSE /\ debounce \in BOOLEAN
    /\ sock = "open" /\ buffer = <<>> /\ torn = FALSE /\ debounced_q = <<>>
    /\ timers = [p \in Ports |-> "none"] /\ late = [p \in Ports |-> 0]
    /\ seen = [p \in Ports |-> FALSE] /\ raced = [p \in Ports |-> FALSE] /\ garbled = FALSE
    /\ known = [p \in Ports |-> FALSE]
    /\ faucet = TRUE /\ monitored = TRUE /\ pc = "idle"

-----------------------------------------------------------------------------
(* The switch and its controller (external). The controller announces every *)
(* port when its datapath connects, so again after a restart.                *)

Write(line) == wire' = IF eof THEN wire ELSE Append(wire, line)

LinkChange(p) ==
    /\ sent < MaxChanges
    /\ sent' = sent + 1
    /\ link' = [link EXCEPT ![p] = ~@]
    /\ Write(PortChange(p, ~link[p]))
    /\ UNCHANGED <<restarts, debounce, eof, cut, sock, client, runner>>

Learn(p) ==
    /\ sent < MaxChanges /\ link[p] /\ ~eof
    /\ sent' = sent + 1
    /\ Write(L2Learn(p))
    /\ UNCHANGED <<link, restarts, debounce, eof, cut, sock, client, runner>>

Reconfigure ==
    /\ sent < MaxChanges /\ ~eof
    /\ sent' = sent + 1
    /\ Write(ConfigChange)
    /\ UNCHANGED <<link, restarts, debounce, eof, cut, sock, client, runner>>

\* The controller goes away; what it has written can still be read. It may have
\* written only a part of its last line.
Restart ==
    /\ restarts < MaxRestarts /\ ~eof
    /\ restarts' = restarts + 1
    /\ eof' = TRUE
    /\ \/ UNCHANGED <<wire, cut>>
       \/ wire # <<>> /\ wire' = SubSeq(wire, 1, Len(wire) - 1) /\ cut' = TRUE
    /\ UNCHANGED <<link, sent, debounce, sock, client, runner>>

-----------------------------------------------------------------------------
(* The debounce timers: threading.Timer waits, looks whether it has been     *)
(* cancelled, and calls its function.                                        *)

\* _handle_debounce: the event goes into a queue that is not filtered again
Debounced(q, p, active) == Append(q, [port |-> p, active |-> active])

TimerExpires(p) ==
    /\ timers[p] = "waiting"
    /\ timers' = [timers EXCEPT ![p] = "expired"]
    /\ UNCHANGED <<switch, socket, buffer, torn, debounced_q, late, seen, raced, garbled, runner>>

TimerFires(p) ==
    /\ timers[p] = "expired"
    /\ timers' = [timers EXCEPT ![p] = "done"]
    /\ debounced_q' = Debounced(debounced_q, p, FALSE)
    /\ UNCHANGED <<switch, socket, buffer, torn, late, seen, raced, garbled, runner>>

LateTimerFires(p) ==
    /\ late[p] > 0
    /\ late' = [late EXCEPT ![p] = @ - 1]
    /\ debounced_q' = Debounced(debounced_q, p, FALSE)
    /\ UNCHANGED <<switch, socket, buffer, torn, timers, seen, raced, garbled, runner>>

\* Mutant: the timer is not cancelled when the port comes up.
debounce_no_cancel(p, active) ==
    /\ seen' = [seen EXCEPT ![p] = active]
    /\ late' = late
    /\ raced' = [raced EXCEPT ![p] = late[p] > 0]
    /\ IF debounce /\ ~active
       THEN /\ timers' = [timers EXCEPT ![p] = "waiting"]
            /\ UNCHANGED debounced_q
       ELSE /\ debounced_q' = Debounced(debounced_q, p, active)
            /\ UNCHANGED timers

\* _debounce_port_event
debounce_port_event(p, active) ==
    LET cancelled == debounce /\ timers[p] \in {"waiting", "expired"} IN
    /\ seen' = [seen EXCEPT ![p] = active]
    /\ late' = [late EXCEPT ![p] = IF cancelled /\ timers[p] = "expired" THEN @ + 1 ELSE @]
    /\ raced' = [raced EXCEPT ![p] = late'[p] > 0]
    /\ IF debounce /\ ~active
       THEN /\ timers' = [timers EXCEPT ![p] = "waiting"]
            /\ UNCHANGED debounced_q
       ELSE /\ timers' = [timers EXCEPT ![p] = IF cancelled THEN "done" ELSE @]
            /\ debounced_q' = Debounced(debounced_q, p, active)

-----------------------------------------------------------------------------
(* next_event, called by _handle_faucet_events until it returns None. One    *)
(* action per iteration; the timers may run in between.                      *)

InCall == pc \in {"fresh", "parsed"} /\ faucet

\* Mutant: the idle handler does not look at the events.
call_on_input ==
    /\ pc = "idle" /\ faucet /\ (wire # <<>> \/ eof)
    /\ pc' = "fresh"
    /\ UNCHANGED <<switch, socket, client, known, faucet, monitored>>

\* The handler is called for input on the socket, and by the idle handler.
CallHandler ==
    /\ pc = "idle" /\ faucet
    /\ pc' = "fresh"
    /\ UNCHANGED <<switch, socket, client, known, faucet, monitored>>

\* debounced events come first and go straight to _handle_port_state
NextDebounced ==
    /\ InCall /\ debounced_q # <<>>
    /\ debounced_q' = Tail(debounced_q)
    /\ known' = [known EXCEPT ![Head(debounced_q).port] = Head(debounced_q).active]
    /\ pc' = "fresh"
    /\ UNCHANGED <<switch, socket, buffer, torn, timers, late, seen, raced, garbled, faucet, monitored>>

HasLine == InCall /\ debounced_q = <<>> /\ buffer # <<>>
Line == Head(buffer)

\* _filter_faucet_event of a port change
FilterPortChange ==
    /\ HasLine /\ Line.type = "PORT_CHANGE"
    /\ buffer' = Tail(buffer)
    /\ debounce_port_event(Line.port, Line.active)
    /\ pc' = "parsed"
    /\ UNCHANGED <<switch, socket, torn, garbled, known, faucet, monitored>>

PortOrder == CHOOSE f \in Bijection(1..Cardinality(Ports), Ports) : TRUE

PerPort(status) == [i \in 1..Cardinality(Ports) |->
                        PortChange(PortOrder[i], status[PortOrder[i]])]

\* Mutant: the states are appended behind newer lines.
status_appended ==
    /\ HasLine /\ Line.type = "PORTS_STATUS"
    /\ buffer' = Tail(buffer) \o PerPort(Line.status)
    /\ pc' = "parsed"
    /\ UNCHANGED <<switch, socket, torn, debounced_q, timers, late, seen, raced, garbled,
                   known, faucet, monitored>>

\* _filter_faucet_event of a status: one change per port replaces the line
FilterPortsStatus ==
    /\ HasLine /\ Line.type = "PORTS_STATUS"
    /\ buffer' = PerPort(Line.status) \o Tail(buffer)
    /\ pc' = "parsed"
    /\ UNCHANGED <<switch, socket, torn, debounced_q, timers, late, seen, raced, garbled,
                   known, faucet, monitored>>

\* Any other event is returned to the runner: a device is learned, or nothing happens.
ReturnEvent ==
    /\ HasLine /\ Line.type \in {"L2_LEARN", "CONFIG_CHANGE"}
    /\ buffer' = Tail(buffer)
    /\ pc' = "fresh"
    /\ UNCHANGED <<switch, socket, torn, debounced_q, timers, late, seen, raced, garbled,
                   known, faucet, monitored>>

\* A line that does not parse. When an earlier line of the same call has been parsed,
\* event is None by then and the loop goes on; otherwise event is unbound, the handler
\* disconnects, and the socket stays in the stream monitor.
ParseError ==
    /\ HasLine /\ Line.type = "bad"
    /\ buffer' = Tail(buffer)
    /\ \/ /\ pc = "parsed"
          /\ UNCHANGED <<sock, faucet, pc>>
       \/ /\ pc = "fresh"
          /\ sock' = "none" /\ faucet' = FALSE /\ pc' = "idle"
    /\ UNCHANGED <<switch, wire, eof, cut, torn, debounced_q, timers, late, seen, raced,
                   garbled, known, monitored>>

NoLine == InCall /\ debounced_q = <<>> /\ buffer = <<>>

\* recv returns some of the lines that have been written
Receive ==
    /\ NoLine /\ sock = "open" /\ wire # <<>>
    /\ \E n \in 1..Len(wire) :
          /\ buffer' = IF torn THEN <<BadLine>> \o SubSeq(wire, 2, n) ELSE SubSeq(wire, 1, n)
          /\ wire' = SubSeq(wire, n + 1, Len(wire))
    /\ torn' = FALSE
    /\ garbled' = (garbled \/ torn)
    /\ UNCHANGED <<switch, eof, cut, sock, debounced_q, timers, late, seen, raced, runner>>

NoEvent ==
    /\ NoLine /\ sock = "open" /\ wire = <<>> /\ ~eof
    /\ pc' = "idle"
    /\ UNCHANGED <<switch, socket, client, known, faucet, monitored>>

AtEnd == NoLine /\ sock = "open" /\ wire = <<>> /\ eof /\ monitored

\* DisconnectedException, and connect succeeds
Reconnect ==
    /\ AtEnd
    /\ eof' = FALSE /\ cut' = FALSE
    /\ wire' = <<PortsStatus(link)>>
    /\ torn' = (torn \/ cut)
    /\ pc' = "fresh"
    /\ UNCHANGED <<switch, sock, buffer, debounced_q, timers, late, seen, raced, garbled,
                   known, faucet, monitored>>

\* connect gives up: no socket path, or no answer on it. Its assertion ends the handler.
ReconnectFails ==
    /\ AtEnd
    /\ sock' \in {"open", "unconnected"}
    /\ monitored' = FALSE
    /\ pc' = "idle"
    /\ UNCHANGED <<switch, wire, eof, cut, client, known, faucet>>

\* The next call finds the end of the old socket again, and monitor_forget raises
\* because the socket is no longer monitored.
DeafCall ==
    /\ NoLine /\ sock = "open" /\ wire = <<>> /\ eof /\ ~monitored
    /\ pc' = "idle"
    /\ UNCHANGED <<switch, socket, client, known, faucet, monitored>>

\* Reading a socket that was never connected raises: the runner shuts down.
SocketError ==
    /\ NoLine /\ sock = "unconnected"
    /\ sock' = "none" /\ faucet' = FALSE /\ pc' = "idle"
    /\ UNCHANGED <<switch, wire, eof, cut, client, known, monitored>>

Switch == \/ \E p \in Ports : LinkChange(p) \/ Learn(p)
          \/ Reconfigure \/ Restart
Timers == \E p \in Ports : TimerExpires(p) \/ TimerFires(p) \/ LateTimerFires(p)
Handler == \/ CallHandler \/ NextDebounced \/ FilterPortChange \/ FilterPortsStatus
           \/ ReturnEvent \/ ParseError \/ Receive \/ NoEvent
           \/ Reconnect \/ ReconnectFails \/ DeafCall \/ SocketError
Next == Switch \/ Timers \/ Handler

\* The event loop calls the handler again and again and the handler goes on while there
\* is something to read; a timer that is started runs to its end.
Fairness ==
    /\ WF_vars(Handler)
    /\ \A p \in Ports : WF_vars(TimerExpires(p)) /\ WF_vars(TimerFires(p)) /\ WF_vars(LateTimerFires(p))
Spec == Init /\ [][Next]_vars
FairSpec == Spec /\ Fairness

-----------------------------------------------------------------------------
(* Every variable keeps its type; a timer cancelled too late is counted      *)
(* (daq/faucet_event_client.py, the fields of FaucetEventClient).            *)
TypeOK ==
    /\ link \in [Ports -> BOOLEAN] /\ known \in [Ports -> BOOLEAN] /\ seen \in [Ports -> BOOLEAN]
    /\ raced \in [Ports -> BOOLEAN] /\ late \in [Ports -> Nat] /\ timers \in [Ports -> TimerStates]
    /\ wire \in Seq(Lines) /\ buffer \in Seq(Lines)
    /\ debounced_q \in Seq([port : Ports, active : BOOLEAN])
    /\ sent \in 0..MaxChanges /\ restarts \in 0..MaxRestarts
    /\ {eof, cut, debounce, torn, garbled, faucet, monitored} \subseteq BOOLEAN
    /\ sock \in {"open", "unconnected", "none"}
    /\ pc \in {"idle", "fresh", "parsed"}

\* The last state of p on its way to the runner, or else the one the runner has
LastDecided(p, active) ==
    \/ \E i \in DOMAIN debounced_q :
          /\ debounced_q[i].port = p /\ debounced_q[i].active = active
          /\ \A j \in DOMAIN debounced_q : j > i => debounced_q[j].port # p
    \/ /\ \A i \in DOMAIN debounced_q : debounced_q[i].port # p
       /\ known[p] = active

(* Whatever the order of lines, timers and calls: the last state that the    *)
(* client was told of is the one the runner has or will have next, or a      *)
(* timer is still to report it. Only a timer that had passed its own check    *)
(* before it was cancelled can break this (_debounce_port_event).            *)
NothingForgotten ==
    \A p \in Ports : ~raced[p] =>
        \/ LastDecided(p, seen[p])
        \/ ~seen[p] /\ timers[p] \in {"waiting", "expired"}

(* A device is learned on a port that the runner already takes for active:   *)
(* the up event goes through the debounce queue and overtakes the learn       *)
(* event behind it, so _handle_port_learn does not ignore the device.         *)
LearnOnActivePort ==
    [][(ReturnEvent /\ Line.type = "L2_LEARN" /\ ~raced[Line.port] /\ ~garbled)
          => known[Line.port]]_vars

(* When the switch falls silent, the runner ends up with the state that every *)
(* port really has, through debouncing, bursts and restarts of the            *)
(* controller, unless it has lost its socket (connect gave up), a line was    *)
(* torn by a restart, or a timer was cancelled too late.                      *)
KnowsInTheEnd ==
    \A p \in Ports :
        <>[](faucet /\ monitored /\ ~garbled /\ ~raced[p] => known[p] = link[p])
=============================================================================
