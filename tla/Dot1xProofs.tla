----------------------------- MODULE Dot1xProofs -----------------------------
(***************************************************************************)
(* Proofs about Dot1x, for every set of supplicants, number of packet ids,  *)
(* of retries and of frames.                                                *)
(***************************************************************************)
EXTENDS Dot1x, TLAPS

(* TypeOK in the groups of variables that the steps change together. *)
MachineType ==
    /\ seen \in [Macs -> SUBSET {"identity", "challenge"}]
    /\ machine \in [Macs -> Machines]
    /\ state_machines \subseteq Macs
    /\ results \in [Macs -> {None, "pass", "fail"}]

RadiusType ==
    /\ outbound \in Seq(RadiusMessages)
    /\ requests \in Seq(Requests)
    /\ packet_id_to_mac \in [PacketIds -> Macs \cup {None}]
    /\ packet_id_to_request_authenticator \in [PacketIds -> 0..Len(requests)]

ThreadType ==
    /\ frames \in 0..MaxFrames
    /\ shut_down \in BOOLEAN
    /\ eap \in {Waiting, Dead, Done} \cup [pc : Kinds, mac : Macs]
    /\ radius \in {Waiting, Dead, Done} \cup [pc : {"challenge", "accept", "reject"}, mac : Macs]
    /\ sender \in {Waiting, Done}
    /\ timer \in {Waiting} \cup [pc : {"failing"}, mac : Macs]
    /\ test_result \in {None, "skip", "pass", "fail"}

\* TypeOK is the conjunction of its groups.
LEMMA TypeGroups == TypeOK <=> MachineType /\ RadiusType /\ ThreadType
BY DEF TypeOK, MachineType, RadiusType, ThreadType

\* The same of the next state.
LEMMA NextTypeGroups == TypeOK' <=> MachineType' /\ RadiusType' /\ ThreadType'
BY DEF TypeOK, MachineType, RadiusType, ThreadType

(* What a machine repeats is something that its receiver is sent.             *)
RetriesMakeSense ==
    \A m \in Macs :
        \/ machine[m].retry.whom = "eap" /\ machine[m].retry.what \in {"identity", "challenge"}
        \/ machine[m].retry.whom = "radius" /\ machine[m].retry.what \in Kinds

(* The two tables of the RADIUS module speak of the same request: the last one   *)
(* sent with that packet id.                                                    *)
TablesAgree ==
    \A id \in PacketIds :
        LET n == packet_id_to_request_authenticator[id]
        IN  n # 0 => /\ n \in DOMAIN requests
                     /\ requests[n].id = id
                     /\ requests[n].mac = packet_id_to_mac[id]

(* m answered a challenge and the server accepts m. *)
Earned(m) ==
    /\ m \in Authorized
    /\ \E n \in DOMAIN requests : requests[n].mac = m /\ requests[n].kind = "response"

(* The acceptance that the RADIUS thread is about to record, and those it has     *)
(* recorded, were earned. PassIsEarned alone is not inductive: between the        *)
(* transition and the result the thread only remembers what it was answered.      *)
PassesEarned ==
    /\ radius.pc = "accept" => Earned(radius.mac)
    /\ \A m \in Macs : results[m] = "pass" => Earned(m)

IInv == MachineType /\ RadiusType /\ ThreadType /\ RetriesMakeSense /\ TablesAgree /\ PassesEarned
-----------------------------------------------------------------------------
LEMMA InitInv == Init => IInv
<1>. SUFFICES ASSUME Init PROVE IInv
  OBVIOUS
<1>. USE Dot1xAssumption DEF Init
<1>1. MachineType
  BY DEF MachineType, Machines, NoMachine, To, None
<1>2. RadiusType
  BY DEF RadiusType, PacketIds
<1>3. ThreadType
  <2>1. frames \in 0..MaxFrames
    OBVIOUS
  <2>2. shut_down \in BOOLEAN /\ test_result \in {None, "skip", "pass", "fail"}
    BY Zenon
  <2>3. eap \in {Waiting} /\ radius \in {Waiting} /\ sender \in {Waiting} /\ timer \in {Waiting}
    OBVIOUS
  <2>. QED  BY <2>1, <2>2, <2>3, Zenon DEF ThreadType
<1>4. RetriesMakeSense
  BY DEF RetriesMakeSense, NoMachine, To
<1>5. TablesAgree
  BY DEF TablesAgree
<1>6. PassesEarned
  BY DEF PassesEarned, Waiting, At, None
<1>. QED  BY <1>1, <1>2, <1>3, <1>4, <1>5, <1>6 DEF IInv
-----------------------------------------------------------------------------
(* The parts of the handlers *)

\* Arming a machine's timer leaves the machines well formed.
LEMMA ArmEffect ==
    ASSUME MachineType, RetriesMakeSense, NEW m \in Macs, NEW whom, NEW what, Arm(m, To(whom, what)),
           \/ whom = "eap" /\ what \in {"identity", "challenge"}
           \/ whom = "radius" /\ what \in Kinds
    PROVE  machine' \in [Macs -> Machines] /\ RetriesMakeSense'
<1>1. machine' \in [Macs -> Machines]
  <2>1. To(whom, what) \in [whom : {"eap", "radius"}, what : {"identity", "challenge", "response"}]
    BY DEF To, Kinds
  <2>2. 0 \in 0..MaxRetries
    BY Dot1xAssumption
  <2>3. machine[m] \in Machines
    BY DEF MachineType
  <2>4. [machine[m] EXCEPT !.timeout = TRUE, !.retry = To(whom, what), !.retries = 0] \in Machines
    BY <2>1, <2>2, <2>3 DEF Machines
  <2>. QED  BY <2>4 DEF Arm, MachineType
<1>2. RetriesMakeSense'
  BY DEF Arm, To, MachineType, Machines, RetriesMakeSense
<1>. QED  BY <1>1, <1>2

\* So does a transition.
LEMMA TransitionEffect ==
    ASSUME MachineType, RetriesMakeSense, NEW m \in Macs,
           NEW target \in {"supplicant", "radius", "success", "fail"}, Transition(m, target)
    PROVE  machine' \in [Macs -> Machines] /\ RetriesMakeSense'
<1>1. machine' \in [Macs -> Machines]
  BY DEF Transition, MachineType, Machines
<1>2. RetriesMakeSense'
  BY DEF Transition, MachineType, Machines, RetriesMakeSense
<1>. QED  BY <1>1, <1>2

\* A frame to a supplicant is one it may receive.
LEMMA EapSendEffect ==
    ASSUME MachineType, NEW m \in Macs, NEW frame \in {"identity", "challenge"}, EapSend(m, frame)
    PROVE  seen' \in [Macs -> SUBSET {"identity", "challenge"}]
BY DEF EapSend, MachineType

\* Steps that neither send a request nor touch the RADIUS thread or the results keep what
\* the invariant says of them.
LEMMA RadiusUntouched ==
    ASSUME IInv, UNCHANGED <<requests, packet_id_to_mac, packet_id_to_request_authenticator>>
    PROVE  /\ TablesAgree'
           /\ UNCHANGED <<radius, results>> => PassesEarned'
           /\ \A m \in Macs : Earned(m)' <=> Earned(m)
BY DEF IInv, TablesAgree, PassesEarned, Earned

\* The request that a valid answer belongs to is the one its packet id stands for.
LEMMA ValidAnswer ==
    ASSUME IInv, NEW n \in DOMAIN requests, Valid(n)
    PROVE  /\ n \in 1..Len(requests)
           /\ requests[n] \in Requests
           /\ packet_id_to_mac[requests[n].id] = requests[n].mac
<1>1. n \in 1..Len(requests) /\ requests[n] \in Requests
  <2>1. requests \in Seq(Requests)
    BY DEF IInv, RadiusType
  <2>2. DOMAIN requests = 1..Len(requests)
    BY <2>1
  <2>3. n \in 1..Len(requests)
    BY <2>2
  <2>. QED  BY <2>1, <2>3
<1>2. requests[n].id \in PacketIds /\ n # 0
  BY <1>1 DEF Requests
<1>. QED  BY <1>1, <1>2 DEF IInv, TablesAgree, Valid
-----------------------------------------------------------------------------
(* The steps *)

LEMMA EapStep == ASSUME IInv, EapThread PROVE IInv'
<1>. MachineType /\ RadiusType /\ ThreadType /\ RetriesMakeSense /\ TablesAgree /\ PassesEarned
  BY DEF IInv
<1>. USE Dot1xAssumption
<1>1. ASSUME NEW m \in Macs, EapolStart(m) PROVE IInv'
  <2>1. machine' \in [Macs -> Machines] /\ RetriesMakeSense'
    <3>1. NewMachine \in Machines /\ NewMachine.retry.whom = "eap" /\ NewMachine.retry.what = "identity"
      BY DEF NewMachine, Machines, To
    <3>. QED  BY <1>1, <3>1 DEF EapolStart, MachineType, RetriesMakeSense
  <2>2. MachineType'
    BY <1>1, <2>1, EapSendEffect DEF EapolStart, MachineType
  <2>3. RadiusType'
    BY <1>1 DEF EapolStart, RadiusType, radiusVars
  <2>4. ThreadType'
    BY <1>1 DEF EapolStart, ThreadType, threadVars
  <2>. QED  BY <1>1, <2>1, <2>2, <2>3, <2>4, RadiusUntouched DEF EapolStart, IInv, radiusVars, threadVars
<1>2. ASSUME NEW m \in Macs, NEW kind \in Kinds, EapUnexpected(m, kind) PROVE IInv'
  <2>1. MachineType' /\ RadiusType' /\ RetriesMakeSense'
    BY <1>2 DEF EapUnexpected, MachineType, RadiusType, RetriesMakeSense, radiusVars, smVars
  <2>2. ThreadType'
    BY <1>2 DEF EapUnexpected, CanSend, ThreadType
  <2>. QED  BY <1>2, <2>1, <2>2, RadiusUntouched DEF EapUnexpected, IInv, radiusVars, smVars
<1>3. ASSUME NEW m \in Macs, NEW kind \in Kinds, EapResponse(m, kind) PROVE IInv'
  <2>1. machine' \in [Macs -> Machines] /\ RetriesMakeSense'
    BY <1>3, TransitionEffect DEF EapResponse
  <2>2. MachineType' /\ RadiusType'
    BY <1>3, <2>1 DEF EapResponse, MachineType, RadiusType, radiusVars
  <2>3. ThreadType'
    BY <1>3 DEF EapResponse, CanSend, ThreadType, At
  <2>. QED  BY <1>3, <2>1, <2>2, <2>3, RadiusUntouched DEF EapResponse, IInv, radiusVars
<1>4. CASE EapForward
  <2>1. eap.pc \in Kinds /\ eap.mac \in Macs
    BY <1>4 DEF EapForward, ThreadType, Waiting, Dead, Done, At, Kinds
  <2>2. machine' \in [Macs -> Machines] /\ RetriesMakeSense'
    BY <1>4, <2>1, ArmEffect DEF EapForward
  <2>3. MachineType' /\ RadiusType'
    <3>1. [mac |-> eap.mac, kind |-> eap.pc] \in RadiusMessages
      BY <2>1 DEF RadiusMessages
    <3>. QED  BY <1>4, <2>2, <3>1 DEF EapForward, MachineType, RadiusType
  <2>4. ThreadType'
    BY <1>4 DEF EapForward, ThreadType
  <2>. QED  BY <1>4, <2>2, <2>3, <2>4, RadiusUntouched DEF EapForward, IInv
<1>5. CASE EapEnds
  <2>1. MachineType' /\ RadiusType' /\ RetriesMakeSense'
    BY <1>5 DEF EapEnds, MachineType, RadiusType, RetriesMakeSense, radiusVars, smVars
  <2>2. ThreadType'
    BY <1>5 DEF EapEnds, ThreadType
  <2>. QED  BY <1>5, <2>1, <2>2, RadiusUntouched DEF EapEnds, IInv, radiusVars, smVars
<1>. QED  BY <1>1, <1>2, <1>3, <1>4, <1>5 DEF EapThread

\* A new request with an id that is used again replaces both entries of the old one.
LEMMA SendStep == ASSUME IInv, RadiusSend PROVE IInv'
<1>. MachineType /\ RadiusType /\ ThreadType /\ RetriesMakeSense /\ TablesAgree /\ PassesEarned
  BY DEF IInv
<1>. DEFINE info == Head(outbound)
            id == Len(requests) % IdSpace
            request == [mac |-> info.mac, kind |-> info.kind, id |-> id]
<1>1. info \in RadiusMessages /\ Tail(outbound) \in Seq(RadiusMessages)
  <2>1. outbound \in Seq(RadiusMessages) /\ outbound # <<>>
    BY DEF RadiusSend, RadiusType
  <2>. QED  BY <2>1
<1>2. id \in PacketIds
  <2>1. Len(requests) \in Nat
    BY DEF RadiusType
  <2>. QED  BY <2>1, Dot1xAssumption DEF PacketIds
<1>3. request \in Requests
  BY <1>1, <1>2 DEF RadiusMessages, Requests
<1>. HIDE DEF info, id
<1>4. /\ requests' = Append(requests, request)
      /\ packet_id_to_mac' = [packet_id_to_mac EXCEPT ![id] = info.mac]
      /\ packet_id_to_request_authenticator' =
             [packet_id_to_request_authenticator EXCEPT ![id] = Len(requests) + 1]
      /\ outbound' = Tail(outbound)
  BY DEF RadiusSend, info, id
<1>. HIDE DEF request
<1>5. /\ requests' \in Seq(Requests)
      /\ Len(requests') = Len(requests) + 1 /\ Len(requests) \in Nat
      /\ DOMAIN requests' = 1..(Len(requests) + 1) /\ DOMAIN requests = 1..Len(requests)
      /\ \A n \in 1..Len(requests) : requests'[n] = requests[n]
      /\ requests'[Len(requests) + 1] = request
  BY <1>3, <1>4 DEF RadiusType
<1>6. RadiusType'
  <2>1. packet_id_to_mac' \in [PacketIds -> Macs \cup {None}]
    BY <1>1, <1>2, <1>4 DEF RadiusType, RadiusMessages
  <2>2. packet_id_to_request_authenticator' \in [PacketIds -> 0..Len(requests')]
    BY <1>2, <1>4, <1>5 DEF RadiusType
  <2>. QED  BY <1>1, <1>4, <1>5, <2>1, <2>2 DEF RadiusType
<1>7. MachineType' /\ ThreadType' /\ RetriesMakeSense'
  BY DEF RadiusSend, MachineType, ThreadType, RetriesMakeSense, smVars, threadVars
<1>8. TablesAgree'
  <2>. SUFFICES ASSUME NEW i \in PacketIds, packet_id_to_request_authenticator'[i] # 0
                PROVE  LET n == packet_id_to_request_authenticator'[i]
                       IN  /\ n \in DOMAIN requests'
                           /\ requests'[n].id = i
                           /\ requests'[n].mac = packet_id_to_mac'[i]
    BY DEF TablesAgree
  <2>1. CASE i = id
    BY <1>2, <1>4, <1>5, <2>1 DEF request, RadiusType
  <2>2. CASE i # id
    <3>1. /\ packet_id_to_request_authenticator'[i] = packet_id_to_request_authenticator[i]
          /\ packet_id_to_mac'[i] = packet_id_to_mac[i]
      BY <1>4, <2>2 DEF RadiusType
    <3>. QED  BY <1>5, <3>1 DEF TablesAgree
  <2>. QED  BY <2>1, <2>2
<1>9. PassesEarned'
  <2>1. ASSUME NEW m, Earned(m) PROVE Earned(m)'
    BY <1>5, <2>1 DEF Earned
  <2>. QED  BY <2>1 DEF PassesEarned, RadiusSend, smVars, threadVars
<1>. QED  BY <1>6, <1>7, <1>8, <1>9 DEF IInv

LEMMA RadiusStep == ASSUME IInv, RadiusThread PROVE IInv'
<1>. MachineType /\ RadiusType /\ ThreadType /\ RetriesMakeSense /\ TablesAgree /\ PassesEarned
  BY DEF IInv
<1>1. ASSUME NEW n \in DOMAIN requests, RadiusUnexpected(n) PROVE IInv'
  <2>1. MachineType' /\ RadiusType' /\ RetriesMakeSense'
    BY <1>1 DEF RadiusUnexpected, MachineType, RadiusType, RetriesMakeSense, radiusVars, smVars
  <2>2. ThreadType'
    BY <1>1 DEF RadiusUnexpected, ThreadType
  <2>3. TablesAgree' /\ \A m \in Macs : Earned(m)' <=> Earned(m)
    BY <1>1, RadiusUntouched DEF RadiusUnexpected, radiusVars
  <2>4. PassesEarned'
    BY <1>1, <2>3 DEF RadiusUnexpected, PassesEarned, smVars, Dead, At
  <2>. QED  BY <2>1, <2>2, <2>3, <2>4 DEF IInv
<1>2. ASSUME NEW n \in DOMAIN requests, RadiusResponse(n) PROVE IInv'
  <2>. DEFINE m == packet_id_to_mac[requests[n].id]
              answer == Answer(requests[n])
  <2>1. m = requests[n].mac /\ m \in Macs /\ requests[n].kind \in Kinds
    BY <1>2, ValidAnswer DEF RadiusResponse, Requests
  <2>2. answer \in {"challenge", "accept", "reject"} /\ (answer = "accept" => Earned(m))
    BY <2>1 DEF Answer, Earned, Kinds
  <2>3. radius' = At(answer, m)
    BY <1>2 DEF RadiusResponse
  <2>4. PICK target \in {"supplicant", "success", "fail"} : Transition(m, target)
    BY <1>2, <2>2 DEF RadiusResponse
  <2>. HIDE DEF m, answer
  <2>5. machine' \in [Macs -> Machines] /\ RetriesMakeSense'
    BY <2>1, <2>4, TransitionEffect
  <2>6. MachineType' /\ RadiusType'
    BY <1>2, <2>5 DEF RadiusResponse, MachineType, RadiusType, radiusVars
  <2>7. ThreadType'
    BY <1>2, <2>1, <2>2, <2>3 DEF RadiusResponse, ThreadType, At
  <2>8. TablesAgree' /\ \A mm \in Macs : Earned(mm)' <=> Earned(mm)
    BY <1>2, RadiusUntouched DEF RadiusResponse, radiusVars
  <2>9. PassesEarned'
    BY <1>2, <2>1, <2>2, <2>3, <2>8 DEF RadiusResponse, PassesEarned, At
  <2>. QED  BY <2>5, <2>6, <2>7, <2>8, <2>9 DEF IInv
<1>3. CASE RadiusChallenge
  <2>1. radius.mac \in Macs
    BY <1>3 DEF RadiusChallenge, ThreadType, Waiting, Dead, Done, At
  <2>2. machine' \in [Macs -> Machines] /\ RetriesMakeSense'
    BY <1>3, <2>1, ArmEffect DEF RadiusChallenge
  <2>3. seen' \in [Macs -> SUBSET {"identity", "challenge"}]
    BY <1>3, <2>1, EapSendEffect DEF RadiusChallenge
  <2>4. MachineType' /\ RadiusType'
    BY <1>3, <2>2, <2>3 DEF RadiusChallenge, MachineType, RadiusType, radiusVars
  <2>5. ThreadType'
    BY <1>3 DEF RadiusChallenge, ThreadType
  <2>6. TablesAgree' /\ \A m \in Macs : Earned(m)' <=> Earned(m)
    BY <1>3, RadiusUntouched DEF RadiusChallenge, radiusVars
  <2>7. PassesEarned'
    BY <1>3, <2>6 DEF RadiusChallenge, PassesEarned, Waiting, At
  <2>. QED  BY <2>2, <2>4, <2>5, <2>6, <2>7 DEF IInv
<1>4. CASE RadiusDecides
  <2>. DEFINE result == IF radius.pc = "accept" THEN "pass" ELSE "fail"
  <2>1. radius.mac \in Macs /\ result \in {"pass", "fail"}
    BY <1>4 DEF RadiusDecides, ThreadType, Waiting, Dead, Done, At
  <2>2. /\ results' = [results EXCEPT ![radius.mac] = result]
        /\ state_machines' \subseteq state_machines
        /\ shut_down' \in BOOLEAN
        /\ radius' \in {Waiting, Dead}
    BY <1>4 DEF RadiusDecides, process_test_result, process_removed, end_authentication, ThreadType
  <2>3. MachineType' /\ RadiusType' /\ RetriesMakeSense'
    BY <1>4, <2>1, <2>2 DEF RadiusDecides, MachineType, RadiusType, RetriesMakeSense, radiusVars
  <2>4. ThreadType'
    BY <1>4, <2>2 DEF RadiusDecides, ThreadType
  <2>5. TablesAgree' /\ \A m \in Macs : Earned(m)' <=> Earned(m)
    BY <1>4, RadiusUntouched DEF RadiusDecides, radiusVars
  <2>6. radius'.pc # "accept"
    BY <2>2 DEF Waiting, Dead, At
  <2>7. PassesEarned'
    BY <2>1, <2>2, <2>5, <2>6 DEF PassesEarned, MachineType
  <2>. QED  BY <2>3, <2>4, <2>5, <2>7 DEF IInv
<1>5. CASE RadiusEnds
  <2>1. MachineType' /\ RadiusType' /\ RetriesMakeSense'
    BY <1>5 DEF RadiusEnds, MachineType, RadiusType, RetriesMakeSense, radiusVars, smVars
  <2>2. ThreadType'
    BY <1>5 DEF RadiusEnds, ThreadType
  <2>3. TablesAgree' /\ \A m \in Macs : Earned(m)' <=> Earned(m)
    BY <1>5, RadiusUntouched DEF RadiusEnds, radiusVars
  <2>4. PassesEarned'
    BY <1>5, <2>3 DEF RadiusEnds, PassesEarned, smVars, Done, At
  <2>. QED  BY <2>1, <2>2, <2>3, <2>4 DEF IInv
<1>. QED  BY <1>1, <1>2, <1>3, <1>4, <1>5 DEF RadiusThread

\* The heartbeat repeats what it may, and never makes a result a pass.
LEMMA HeartbeatStep == ASSUME IInv, Heartbeat PROVE IInv'
<1>. MachineType /\ RadiusType /\ ThreadType /\ RetriesMakeSense /\ TablesAgree /\ PassesEarned
  BY DEF IInv
<1>1. ASSUME NEW m \in Macs, TimerRetries(m) PROVE IInv'
  <2>1. machine[m].retries + 1 \in 0..MaxRetries
    BY <1>1, Dot1xAssumption DEF TimerRetries, RetriesLeft, MachineType, Machines
  <2>2. machine' \in [Macs -> Machines] /\ RetriesMakeSense'
    <3>1. [machine[m] EXCEPT !.retries = @ + 1] \in Machines
      BY <2>1 DEF MachineType, Machines
    <3>2. machine' \in [Macs -> Machines]
      BY <1>1, <3>1 DEF TimerRetries, MachineType
    <3>3. RetriesMakeSense'
      BY <1>1 DEF TimerRetries, MachineType, Machines, RetriesMakeSense
    <3>. QED  BY <3>2, <3>3
  <2>3. seen' \in [Macs -> SUBSET {"identity", "challenge"}]
    BY <1>1, EapSendEffect DEF TimerRetries, RetriesMakeSense, MachineType
  <2>4. outbound' \in Seq(RadiusMessages)
    <3>1. CASE machine[m].retry.whom = "eap"
      BY <1>1, <3>1 DEF TimerRetries, RadiusType
    <3>2. CASE machine[m].retry.whom = "radius"
      <4>1. [mac |-> m, kind |-> machine[m].retry.what] \in RadiusMessages
        BY <3>2 DEF RetriesMakeSense, RadiusMessages
      <4>2. outbound' = Append(outbound, [mac |-> m, kind |-> machine[m].retry.what])
        BY <1>1, <3>2 DEF TimerRetries
      <4>3. outbound \in Seq(RadiusMessages)
        BY DEF RadiusType
      <4>. QED  BY <4>1, <4>2, <4>3
    <3>. QED  BY <3>1, <3>2 DEF RetriesMakeSense
  <2>5. MachineType' /\ RadiusType' /\ ThreadType'
    BY <1>1, <2>2, <2>3, <2>4 DEF TimerRetries, MachineType, RadiusType, ThreadType, threadVars
  <2>. QED  BY <1>1, <2>2, <2>5, RadiusUntouched DEF TimerRetries, IInv, threadVars
<1>2. ASSUME NEW m \in Macs, TimerFails(m) PROVE IInv'
  <2>1. machine' \in [Macs -> Machines] /\ RetriesMakeSense'
    <3>1. [machine[m] EXCEPT !.state = "fail", !.timeout = FALSE] \in Machines
      BY DEF MachineType, Machines
    <3>2. machine' \in [Macs -> Machines]
      BY <1>2, <3>1 DEF TimerFails, MachineType
    <3>3. RetriesMakeSense'
      BY <1>2 DEF TimerFails, MachineType, Machines, RetriesMakeSense
    <3>. QED  BY <3>2, <3>3
  <2>2. MachineType' /\ RadiusType'
    BY <1>2, <2>1 DEF TimerFails, MachineType, RadiusType, radiusVars
  <2>3. ThreadType'
    BY <1>2 DEF TimerFails, ThreadType, At
  <2>. QED  BY <1>2, <2>1, <2>2, <2>3, RadiusUntouched DEF TimerFails, IInv, radiusVars
<1>3. CASE TimerResult
  <2>1. timer.mac \in Macs
    BY <1>3 DEF TimerResult, ThreadType, Waiting, At
  <2>2. /\ results' = [results EXCEPT ![timer.mac] = "fail"]
        /\ state_machines' \subseteq state_machines
        /\ shut_down' \in BOOLEAN
    BY <1>3 DEF TimerResult, process_test_result, process_removed, end_authentication, ThreadType
  <2>3. MachineType' /\ RadiusType' /\ RetriesMakeSense'
    BY <1>3, <2>1, <2>2 DEF TimerResult, MachineType, RadiusType, RetriesMakeSense, radiusVars
  <2>4. ThreadType'
    BY <1>3, <2>2 DEF TimerResult, ThreadType
  <2>5. TablesAgree' /\ \A m \in Macs : Earned(m)' <=> Earned(m)
    BY <1>3, RadiusUntouched DEF TimerResult, radiusVars
  <2>6. radius' = radius /\ (radius.pc = "accept" => radius.mac \in Macs)
    BY <1>3 DEF TimerResult, ThreadType, Waiting, Dead, Done, At
  <2>7. PassesEarned'
    BY <2>1, <2>2, <2>5, <2>6 DEF PassesEarned, MachineType
  <2>. QED  BY <2>3, <2>4, <2>5, <2>7 DEF IInv
<1>4. CASE TimerGivesUp
  <2>1. MachineType' /\ RadiusType' /\ RetriesMakeSense'
    BY <1>4 DEF TimerGivesUp, MachineType, RadiusType, RetriesMakeSense, radiusVars, smVars
  <2>2. ThreadType'
    BY <1>4 DEF TimerGivesUp, ThreadType, threadVars, end_authentication
  <2>. QED  BY <1>4, <2>1, <2>2, RadiusUntouched DEF TimerGivesUp, IInv, radiusVars, smVars, threadVars
<1>. QED  BY <1>1, <1>2, <1>3, <1>4 DEF Heartbeat

\* A step from a state of the invariant leads to one.
LEMMA StepInv == IInv /\ [Next]_vars => IInv'
<1>. SUFFICES ASSUME IInv, [Next]_vars PROVE IInv'
  OBVIOUS
<1>. MachineType /\ RadiusType /\ ThreadType /\ RetriesMakeSense
  BY DEF IInv
<1>1. CASE SenderEnds
  <2>1. MachineType' /\ RadiusType' /\ RetriesMakeSense'
    BY <1>1 DEF SenderEnds, MachineType, RadiusType, RetriesMakeSense, radiusVars, smVars
  <2>2. ThreadType'
    BY <1>1 DEF SenderEnds, ThreadType
  <2>. QED  BY <1>1, <2>1, <2>2, RadiusUntouched DEF SenderEnds, IInv, radiusVars, smVars
<1>2. CASE Finish
  <2>1. MachineType' /\ RadiusType' /\ RetriesMakeSense'
    BY <1>2 DEF Finish, MachineType, RadiusType, RetriesMakeSense, radiusVars, smVars
  <2>2. test_result' \in {None, "skip", "pass", "fail"}
    BY <1>2 DEF Finish
  <2>3. ThreadType'
    BY <1>2, <2>2 DEF Finish, ThreadType, threadVars
  <2>. QED  BY <1>2, <2>1, <2>3, RadiusUntouched DEF Finish, IInv, radiusVars, smVars, threadVars
<1>3. CASE UNCHANGED vars
  <2>1. MachineType' /\ RadiusType' /\ RetriesMakeSense' /\ ThreadType'
    BY <1>3 DEF vars, MachineType, RadiusType, RetriesMakeSense, ThreadType, radiusVars, smVars, threadVars
  <2>. QED  BY <1>3, <2>1, RadiusUntouched DEF vars, IInv, radiusVars, smVars, threadVars
<1>. QED  BY <1>1, <1>2, <1>3, EapStep, RadiusStep, SendStep, HeartbeatStep DEF Next

\* The inductive invariant holds in every reachable state.
LEMMA Invariance == Spec => []IInv
BY InitInv, StepInv, PTL DEF Spec
-----------------------------------------------------------------------------
(* The fields of the authenticator keep their types in every interleaving of its  *)
(* threads.                                                                       *)
THEOREM TypeCorrect == Spec => []TypeOK
BY Invariance, TypeGroups, PTL DEF IInv

(* A supplicant passes only when the server accepts it, however late and in        *)
(* whichever order the answers come and packet ids are used again, for any number   *)
(* of supplicants and packet ids (_decode_radius_response, process_test_result).    *)
THEOREM OnlyTheAuthorizedPass == Spec => []PassIsEarned
<1>1. IInv => PassIsEarned
  BY DEF IInv, PassesEarned, Earned, PassIsEarned
<1>. QED  BY <1>1, Invariance, PTL

(* Nor does a supplicant pass by the answer to another's response: a response of     *)
(* its own was sent to the server before its result was recorded.                    *)
THEOREM PassedByItsOwnResponse == Spec => [](\A m \in Macs : results[m] = "pass" => Earned(m))
<1>1. IInv => \A m \in Macs : results[m] = "pass" => Earned(m)
  BY DEF IInv, PassesEarned
<1>. QED  BY <1>1, Invariance, PTL
=============================================================================
