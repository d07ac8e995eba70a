------------------------------- MODULE Dot1x -------------------------------
(***************************************************************************)
(* The 802.1x authenticator of the dot1x test (subset/dot1x/authenticator):  *)
(* a state machine per supplicant, shared by the thread that receives EAP    *)
(* frames, the thread that receives RADIUS answers, the thread that sends    *)
(* RADIUS requests, and the heartbeat that retries and times out.            *)
(*                                                                          *)
(* A handler that changes the state of a machine and then its timer, or its  *)
(* result, takes two steps, because the other threads run in between: only   *)
(* the state has a lock of its own, and only the timer code holds the timer  *)
(* lock. A thread that raises is "dead", as nothing catches its exception.   *)
(*                                                                          *)
(* The network loses, delays and duplicates: the answer to a RADIUS request  *)
(* may be received at any later time and any number of times, and a          *)
(* supplicant may repeat a frame. The thread that sends EAP frames is part   *)
(* of that network: a frame it is given before the end may reach its         *)
(* supplicant, one it is given later never does, because the None that ends  *)
(* its loop is already in its queue.                                         *)
(***************************************************************************)
EXTENDS Naturals, Sequences

CONSTANTS Macs,          \* supplicants
          Authorized,    \* those the RADIUS server accepts
          IdSpace,       \* RADIUS packet ids in use (256)
          MaxRetries,    \* RETRY_COUNT (3)
          MaxFrames      \* bound: frames the supplicants send

ASSUME Dot1xAssumption ==
    /\ Authorized \subseteq Macs
    /\ IdSpace \in Nat \ {0}
    /\ MaxRetries \in Nat
    /\ MaxFrames \in Nat

VARIABLES
    seen,              \* seen[m]: EAP frames that m may have received
    frames,            \* frames the supplicants have sent
    machine,           \* machine[m]: the fields of m's AuthStateMachine
    state_machines,    \* keys of the dictionary of running machines
    results,
    outbound,          \* queue of the RADIUS module
    requests,          \* requests sent; the n-th has the n-th authenticator
    packet_id_to_mac,
    packet_id_to_request_authenticator,
    shut_down,
    eap,               \* the EAP receive thread
    radius,            \* the RADIUS receive thread
    sender,            \* the RADIUS send thread
    timer,             \* the heartbeat
    test_result

smVars == <<machine, state_machines, results>>
radiusVars == <<outbound, requests, packet_id_to_mac, packet_id_to_request_authenticator>>
threadVars == <<eap, radius, sender, timer>>
vars == <<seen, frames, smVars, radiusVars, shut_down, threadVars, test_result>>

None == "none"
Kinds == {"identity", "response"}
PacketIds == 0..(IdSpace - 1)
RadiusMessages == [mac : Macs, kind : Kinds]
Requests == [mac : Macs, kind : Kinds, id : PacketIds]

At(pc, m) == [pc |-> pc, mac |-> m]
Waiting == At("wait", None)
Dead == At("dead", None)
Done == At("done", None)
Ended == {Dead, Done}

\* What a machine has sent last, and to whom (_retry_func, _retry_args).
To(whom, what) == [whom |-> whom, what |-> what]

Machines ==
    [state : {None, "supplicant", "radius", "success", "fail"}, timeout : BOOLEAN,
     retry : [whom : {"eap", "radius"}, what : {"identity", "challenge", "response"}],
     retries : 0..MaxRetries]

\* A machine before initialize().
NoMachine == [state |-> None, timeout |-> FALSE, retry |-> To("eap", "identity"), retries |-> 0]

\* One after initialize() and received_eapol_start().
NewMachine == [state |-> "supplicant", timeout |-> TRUE, retry |-> To("eap", "identity"),
               retries |-> 0]

-----------------------------------------------------------------------------
(* What the supplicant is asked and what the server answers                  *)

\* send_eap_response: with no message it is the identity request. Once the
\* module is shut down the sending thread takes the None and ends.
EapSend(m, frame) ==
    seen' = IF shut_down THEN seen ELSE [seen EXCEPT ![m] = @ \cup {frame}]

\* The server challenges an identity and decides on the response.
Answer(request) ==
    IF request.kind = "identity" THEN "challenge"
    ELSE IF request.mac \in Authorized THEN "accept" ELSE "reject"

\* A supplicant sends a response only to a request it has received. (A frame
\* taken from the socket just before the end is handled before it here: what
\* its handler still does then reaches neither a queue nor a result.)
CanSend(m, kind) ==
    /\ frames < MaxFrames /\ ~shut_down
    /\ kind = "identity" => "identity" \in seen[m]
    /\ kind = "response" => "challenge" \in seen[m]

-----------------------------------------------------------------------------
(* AuthStateMachine                                                          *)

\* Clearing the timeout instead of setting it.
arm_cleared(m, retry) ==
    machine' = [machine EXCEPT ![m].timeout = FALSE, ![m].retry = retry, ![m].retries = 0]

\* _set_timeout and _set_retry_actions
Arm(m, retry) ==
    machine' = [machine EXCEPT ![m].timeout = TRUE, ![m].retry = retry, ![m].retries = 0]

\* _state_transition
Transition(m, target) == machine' = [machine EXCEPT ![m].state = target]

\* The machine's timer lock is held by the heartbeat between its two steps.
TimerLockFree(m) == timer.mac # m

end_authentication == shut_down' = TRUE

\* process_test_result for a machine that is still in the dictionary: the
\* result, the removal, and _end_authentication.
process_test_result(m, result) ==
    /\ results' = [results EXCEPT ![m] = result]
    /\ state_machines' = state_machines \ {m}
    /\ end_authentication

\* The same for one that another thread has removed: the result is replaced,
\* the pop raises KeyError and the rest is not reached.
process_removed(m, result) ==
    /\ results' = [results EXCEPT ![m] = result]
    /\ UNCHANGED <<state_machines, shut_down>>

-----------------------------------------------------------------------------
(* The EAP receive thread                                                    *)

\* An EAPOL start makes a machine, unless there is one or there was one.
EapolStart(m) ==
    /\ eap = Waiting /\ ~shut_down /\ frames < MaxFrames
    /\ frames' = frames + 1
    /\ \/ /\ m \notin state_machines /\ results[m] = None
          /\ machine' = [machine EXCEPT ![m] = NewMachine]
          /\ state_machines' = state_machines \cup {m}
          /\ EapSend(m, "identity")
       \/ /\ m \in state_machines \/ results[m] # None
          /\ UNCHANGED <<machine, state_machines, seen>>
    /\ UNCHANGED <<results, radiusVars, shut_down, threadVars, test_result>>

\* Any other frame of a supplicant with no machine, or whose machine does not
\* expect one, raises out of the thread.
EapUnexpected(m, kind) ==
    /\ eap = Waiting /\ CanSend(m, kind)
    /\ m \notin state_machines \/ machine[m].state # "supplicant"
    /\ frames' = frames + 1
    /\ eap' = Dead
    /\ UNCHANGED <<seen, smVars, radiusVars, shut_down, radius, sender, timer,
                   test_result>>

\* received_eap_request: the transition ...
EapResponse(m, kind) ==
    /\ eap = Waiting /\ CanSend(m, kind)
    /\ m \in state_machines /\ machine[m].state = "supplicant"
    /\ frames' = frames + 1
    /\ Transition(m, "radius")
    /\ eap' = At(kind, m)
    /\ UNCHANGED <<seen, state_machines, results, radiusVars, shut_down, radius,
                   sender, timer, test_result>>

\* ... and then the timer, the retry and the request.
EapForward ==
    /\ eap.pc \in Kinds
    /\ LET m == eap.mac IN
       /\ TimerLockFree(m)
       /\ Arm(m, To("radius", eap.pc))
       /\ outbound' = Append(outbound, [mac |-> m, kind |-> eap.pc])
    /\ eap' = Waiting
    /\ UNCHANGED <<seen, frames, state_machines, results, requests,
                   packet_id_to_mac, packet_id_to_request_authenticator, shut_down, radius,
                   sender, timer, test_result>>

-----------------------------------------------------------------------------
(* The RADIUS send and receive threads                                       *)

\* send_radius_messages: the packet id and the authenticator are chosen when
\* the request is sent, and replace those of the last request with that id.
RadiusSend ==
    /\ sender = Waiting /\ ~shut_down /\ outbound # <<>>
    /\ LET info == Head(outbound)
           id == Len(requests) % IdSpace
       IN  /\ requests' = Append(requests, [mac |-> info.mac, kind |-> info.kind, id |-> id])
           /\ packet_id_to_mac' = [packet_id_to_mac EXCEPT ![id] = info.mac]
           /\ packet_id_to_request_authenticator' =
                  [packet_id_to_request_authenticator EXCEPT ![id] = Len(requests) + 1]
    /\ outbound' = Tail(outbound)
    /\ UNCHANGED <<seen, frames, smVars, shut_down, threadVars, test_result>>

\* Without the comparison of authenticators an answer is known by its id only.
valid_by_id(n) == packet_id_to_mac[requests[n].id] # None

\* _decode_radius_response: the answer must be one to the last request sent
\* with its packet id; any other is dropped.
Valid(n) == packet_id_to_request_authenticator[requests[n].id] = n

\* An answer for a machine that is gone raises KeyError, one that a machine
\* does not expect raises AssertionError: the thread ends.
RadiusUnexpected(n) ==
    /\ radius = Waiting /\ Valid(n)
    /\ LET m == packet_id_to_mac[requests[n].id]
       IN  m \notin state_machines \/ machine[m].state # "radius"
    /\ radius' = Dead
    /\ UNCHANGED <<seen, frames, smVars, radiusVars, shut_down, eap, sender,
                   timer, test_result>>

\* received_radius_response: the transition ...
RadiusResponse(n) ==
    /\ radius = Waiting /\ Valid(n)
    /\ LET m == packet_id_to_mac[requests[n].id]
           answer == Answer(requests[n])
       IN  /\ m \in state_machines /\ machine[m].state = "radius"
           /\ Transition(m, CASE answer = "challenge" -> "supplicant"
                              [] answer = "accept" -> "success"
                              [] answer = "reject" -> "fail")
           /\ radius' = At(answer, m)
    /\ UNCHANGED <<seen, frames, state_machines, results, radiusVars, shut_down,
                   eap, sender, timer, test_result>>

\* ... then, for a challenge, the timer, the retry and the EAP request ...
RadiusChallenge ==
    /\ radius.pc = "challenge" /\ TimerLockFree(radius.mac)
    /\ Arm(radius.mac, To("eap", "challenge"))
    /\ EapSend(radius.mac, "challenge")
    /\ radius' = Waiting
    /\ UNCHANGED <<frames, state_machines, results, radiusVars, shut_down, eap,
                   sender, timer, test_result>>

\* ... and for a decision the result. The EAP success or failure is queued
\* after _end_authentication and is not sent.
RadiusDecides ==
    /\ radius.pc \in {"accept", "reject"}
    /\ LET m == radius.mac
           result == IF radius.pc = "accept" THEN "pass" ELSE "fail"
       IN  \/ m \in state_machines /\ process_test_result(m, result) /\ radius' = Waiting
           \/ m \notin state_machines /\ process_removed(m, result) /\ radius' = Dead
    /\ UNCHANGED <<seen, frames, machine, radiusVars, eap, sender, timer,
                   test_result>>

-----------------------------------------------------------------------------
(* The heartbeat: handle_sm_timeout, whose exceptions the scheduler logs     *)

Expired(m) ==
    /\ timer = Waiting /\ ~shut_down
    /\ m \in state_machines /\ machine[m].timeout

RetriesLeft(m) == machine[m].retries < MaxRetries

\* A timeout is retried by repeating what was sent last ...
TimerRetries(m) ==
    /\ Expired(m) /\ RetriesLeft(m)
    /\ machine' = [machine EXCEPT ![m].retries = @ + 1]
    /\ LET retry == machine[m].retry IN
       \/ /\ retry.whom = "eap"
          /\ EapSend(m, retry.what)
          /\ UNCHANGED outbound
       \/ /\ retry.whom = "radius"
          /\ outbound' = Append(outbound, [mac |-> m, kind |-> retry.what])
          /\ UNCHANGED seen
    /\ UNCHANGED <<frames, state_machines, results, requests, packet_id_to_mac,
                   packet_id_to_request_authenticator, shut_down, threadVars, test_result>>

\* ... until the retries are used up: _handle_timeout fails the machine in
\* whatever state it is ...
TimerFails(m) ==
    /\ Expired(m) /\ ~RetriesLeft(m)
    /\ machine' = [machine EXCEPT ![m].state = "fail", ![m].timeout = FALSE]
    /\ timer' = At("failing", m)
    /\ UNCHANGED <<seen, frames, state_machines, results, radiusVars, shut_down,
                   eap, radius, sender, test_result>>

\* ... and then records the result.
TimerResult ==
    /\ timer.pc = "failing"
    /\ LET m == timer.mac IN
       \/ m \in state_machines /\ process_test_result(m, "fail")
       \/ m \notin state_machines /\ process_removed(m, "fail")
    /\ timer' = Waiting
    /\ UNCHANGED <<seen, frames, machine, radiusVars, eap, radius, sender,
                   test_result>>

\* With no machine at all for EAPOL_IDLE_TIME the test is over.
TimerGivesUp ==
    /\ timer = Waiting /\ ~shut_down /\ state_machines = {}
    /\ end_authentication
    /\ UNCHANGED <<seen, frames, smVars, radiusVars, threadVars, test_result>>

-----------------------------------------------------------------------------
(* The end: the four threads are joined and the results are summed up        *)

EapEnds ==
    /\ shut_down /\ eap = Waiting
    /\ eap' = Done
    /\ UNCHANGED <<seen, frames, smVars, radiusVars, shut_down, radius, sender,
                   timer, test_result>>

RadiusEnds ==
    /\ shut_down /\ radius = Waiting
    /\ radius' = Done
    /\ UNCHANGED <<seen, frames, smVars, radiusVars, shut_down, eap, sender,
                   timer, test_result>>

SenderEnds ==
    /\ shut_down /\ sender = Waiting
    /\ sender' = Done
    /\ UNCHANGED <<seen, frames, smVars, radiusVars, shut_down, eap, radius,
                   timer, test_result>>

\* run_authentication_test
Finish ==
    /\ test_result = None
    /\ {eap, radius, sender} \subseteq Ended
    /\ test_result' = CASE \A m \in Macs : results[m] = None -> "skip"
                        [] \E m \in Macs : results[m] = "fail" -> "fail"
                        [] OTHER -> "pass"
    /\ UNCHANGED <<seen, frames, smVars, radiusVars, shut_down, threadVars>>

Init ==
    /\ seen = [m \in Macs |-> {}]
    /\ frames = 0
    /\ machine = [m \in Macs |-> NoMachine]
    /\ state_machines = {}
    /\ results = [m \in Macs |-> None]
    /\ outbound = <<>>
    /\ requests = <<>>
    /\ packet_id_to_mac = [id \in PacketIds |-> None]
    /\ packet_id_to_request_authenticator = [id \in PacketIds |-> 0]
    /\ shut_down = FALSE
    /\ eap = Waiting
    /\ radius = Waiting
    /\ sender = Waiting
    /\ timer = Waiting
    /\ test_result = None

EapThread ==
    \/ \E m \in Macs : EapolStart(m) \/ \E kind \in Kinds : EapUnexpected(m, kind) \/ EapResponse(m, kind)
    \/ EapForward
    \/ EapEnds

RadiusThread ==
    \/ \E n \in DOMAIN requests : RadiusUnexpected(n) \/ RadiusResponse(n)
    \/ RadiusChallenge
    \/ RadiusDecides
    \/ RadiusEnds

Heartbeat ==
    \/ \E m \in Macs : TimerRetries(m) \/ TimerFails(m)
    \/ TimerResult
    \/ TimerGivesUp

Next == EapThread \/ RadiusThread \/ RadiusSend \/ SenderEnds \/ Heartbeat \/ Finish

Spec == Init /\ [][Next]_vars

\* Each thread that can go on does. The heartbeat runs every 3 seconds and a
\* timeout that no one renews expires. No fairness is asked of the network: no
\* frame and no answer need ever arrive.
FairSpec ==
    /\ Spec
    /\ WF_vars(EapForward) /\ WF_vars(EapEnds)
    /\ WF_vars(RadiusChallenge) /\ WF_vars(RadiusDecides) /\ WF_vars(RadiusEnds)
    /\ WF_vars(SenderEnds)
    /\ WF_vars(Heartbeat)
    /\ WF_vars(Finish)

-----------------------------------------------------------------------------
(* Properties                                                                *)

\* The fields of the authenticator have the types its code gives them: the
\* results and the states of the machines, the tables by packet id, and what
\* each thread is at.
TypeOK ==
    /\ seen \in [Macs -> SUBSET {"identity", "challenge"}]
    /\ frames \in 0..MaxFrames
    /\ machine \in [Macs -> Machines]
    /\ state_machines \subseteq Macs
    /\ results \in [Macs -> {None, "pass", "fail"}]
    /\ outbound \in Seq(RadiusMessages)
    /\ requests \in Seq(Requests)
    /\ packet_id_to_mac \in [PacketIds -> Macs \cup {None}]
    /\ packet_id_to_request_authenticator \in [PacketIds -> 0..Len(requests)]
    /\ shut_down \in BOOLEAN
    /\ eap \in {Waiting, Dead, Done} \cup [pc : Kinds, mac : Macs]
    /\ radius \in {Waiting, Dead, Done} \cup [pc : {"challenge", "accept", "reject"}, mac : Macs]
    /\ sender \in {Waiting, Done}
    /\ timer \in {Waiting} \cup [pc : {"failing"}, mac : Macs]
    /\ test_result \in {None, "skip", "pass", "fail"}

\* A supplicant passes only when the RADIUS server accepts it: an answer that
\* was delayed until its packet id was in use again, for another supplicant,
\* never counts for that one (packet_id_to_mac, request authenticators).
PassIsEarned == \A m \in Macs : results[m] = "pass" => m \in Authorized

\* The test ends, whichever threads have died and whatever the network loses:
\* someone always shuts the modules down and the joins of start_threads return.
TestEnds == <>(test_result # None)

\* "We currently finalize results as soon as we get a result for a src_mac."
\* (authenticator.py:284): once the authentication is ended, the results stay.
FinalizedAtFirstResult == [][shut_down => results' = results]_vars
=============================================================================
