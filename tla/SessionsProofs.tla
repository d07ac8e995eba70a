---------------------------- MODULE SessionsProofs ----------------------------
(***************************************************************************)
(* Proofs about Sessions, for every set of devices and number of sessions. *)
(***************************************************************************)
EXTENDS Sessions, FiniteSetTheorems, TLAPS

(* A lock is held by the thread that is inside its section, and by no other:    *)
(* _event_lock from the tap of a session to its trigger and in the idle handler,  *)
(* SessionServer._lock while a session is reaped.                               *)
LocksHeld ==
    /\ \A m \in Macs : thread[m] \in {"tapped", "trigger"} <=> event_lock = m
    /\ \A m \in Macs : reaper[m] \in {"reaping", "delete"} <=> session_lock = m
    /\ main.pc = "beats" <=> event_lock = "main"

(* A session is in the table as long as it has a thread, and until its thread    *)
(* has reaped it; the thread that reaps it no longer streams.                    *)
TableSound ==
    \A m \in Macs :
        /\ thread[m] # "none" => m \in Registered
        /\ reaper[m] # "none" => m \in Registered /\ thread[m] = "none"

(* From the moment the session has its device, the device is not marked as gone.  *)
(* LiveSessionNotFlapping alone is not inductive: the mark is cleared while the    *)
(* session is tapped, before it streams.                                          *)
NotFlapping ==
    \A m \in Macs :
        thread[m] \in {"tapped", "trigger", "stream"} /\ m \in Devices => device[m].flap # "time"

IInv == TypeOK /\ LocksHeld /\ TableSound /\ NotFlapping
-----------------------------------------------------------------------------
(* Queues and records *)

\* A queue of items is never mistaken for a session that is not in the table.
LEMMA QueueIsClient == ASSUME NEW q \in Seq(Items) PROVE q # NoClient
<1>. SUFFICES ASSUME q = NoClient PROVE FALSE
  OBVIOUS
<1>1. q[1] = "no client"
  BY DEF NoClient
<1>2. Len(q) = 1
  BY DEF NoClient
<1>3. 1 \in 1..Len(q)
  BY <1>2
<1>4. \A i \in 1..Len(q) : q[i] \in Items
  OBVIOUS
<1>5. "no client" \notin Items
  BY DEF Items
<1>. QED  BY <1>1, <1>3, <1>4, <1>5, Zenon

\* _send_reply keeps a queue a queue.
LEMMA PutType == ASSUME NEW q \in Seq(Items), NEW item \in Items PROVE Put(q, item) \in Seq(Items)
BY DEF Put

\* A registered session has a queue.
LEMMA ClientQueue ==
    ASSUME TypeOK, NEW m \in Registered PROVE m \in Macs /\ clients[m] \in Seq(Items)
BY DEF TypeOK, Registered

\* Messages change no entry of the table but the queues in it.
LEMMA SendResultEffect ==
    ASSUME TypeOK, NEW m \in Macs
    PROVE  /\ SendResult(m) \in [Macs -> Seq(Items) \cup {NoClient}]
           /\ \A n \in Macs : SendResult(m)[n] # NoClient <=> n \in Registered
<1>1. CASE m \in Registered
  <2>1. clients[m] \in Seq(Items)
    BY <1>1, ClientQueue
  <2>2. Put(Put(clients[m], "progress"), "close") \in Seq(Items)
    BY <2>1, PutType DEF Items
  <2>. QED  BY <1>1, <2>2, QueueIsClient DEF SendResult, Registered, TypeOK
<1>2. CASE m \notin Registered
  BY <1>2 DEF SendResult, Registered, TypeOK
<1>. QED  BY <1>1, <1>2

\* The same of a heartbeat or a close.
LEMMA ReplyEffect ==
    ASSUME TypeOK, NEW m \in Registered, NEW item \in Items
    PROVE  /\ Reply(m, item) \in [Macs -> Seq(Items) \cup {NoClient}]
           /\ \A n \in Macs : Reply(m, item)[n] # NoClient <=> n \in Registered
<1>1. m \in Macs /\ clients[m] \in Seq(Items)
  BY ClientQueue
<1>2. Put(clients[m], item) \in Seq(Items)
  BY <1>1, PutType
<1>. QED  BY <1>1, <1>2, QueueIsClient DEF Reply, Registered, TypeOK

\* The outcomes of a trigger keep the types and the table, and mark no device.
LEMMA TriggerEffect ==
    ASSUME TypeOK, NEW m \in Devices, Trigger(m)
    PROVE  /\ clients' \in [Macs -> Seq(Items) \cup {NoClient}]
           /\ \A n \in Macs : clients'[n] # NoClient <=> n \in Registered
           /\ device' \in [Macs -> DeviceRecords \cup {Absent}]
           /\ \A n \in Macs : device'[n].flap \in {device[n].flap, "None"}
<1>1. m \in Macs /\ device[m] \in DeviceRecords
  BY DEF Devices, TypeOK
<1>2. CASE UNCHANGED <<clients, device>>
  BY <1>2 DEF TypeOK, Registered
<1>3. CASE device' = [device EXCEPT ![m].host = "running", ![m].wait_remote = FALSE] /\ UNCHANGED clients
  BY <1>1, <1>3 DEF TypeOK, Registered, DeviceRecords
<1>4. CASE device' = [device EXCEPT ![m] = Absent] /\ clients' = SendResult(m)
  BY <1>1, <1>4, SendResultEffect DEF TypeOK, Absent
<1>. QED  BY <1>2, <1>3, <1>4 DEF Trigger

\* The sizes of the tables are numbers.
LEMMA SizesAreNumbers == Cardinality(Registered) \in Nat /\ Cardinality(Devices) \in Nat
<1>1. IsFiniteSet(Registered) /\ IsFiniteSet(Devices)
  BY SessionsAssumption, FS_Subset DEF Registered, Devices
<1>. QED  BY <1>1, FS_CardinalityType
-----------------------------------------------------------------------------
(* The steps *)

LEMMA InitInv == Init => IInv
<1>. SUFFICES ASSUME Init PROVE IInv
  OBVIOUS
<1>1. TypeOK
  BY SessionsAssumption DEF Init, TypeOK, Loop, MainAt, MainRecords
<1>2. LocksHeld
  BY SessionsAssumption DEF Init, LocksHeld, Loop, MainAt
<1>. QED  BY <1>1, <1>2 DEF Init, IInv, TableSound, NotFlapping, Registered

\* A step of a session's thread. The session may take the mark from its device; only the
\* end of the stream, when the session has no thread any more, sets it.
LEMMA ThreadStep == ASSUME IInv, NEW m \in Macs, Thread(m) PROVE IInv'
<1>. TypeOK /\ LocksHeld /\ TableSound /\ NotFlapping
  BY DEF IInv
<1>. USE SessionsAssumption DEF IInv
<1>1. CASE on_session(m)
  <2>1. TypeOK'
    <3>1. device' \in [Macs -> DeviceRecords \cup {Absent}]
      <4>1. m \in Devices => device[m] \in DeviceRecords
        BY DEF TypeOK, Devices
      <4>2. device \in [Macs -> DeviceRecords \cup {Absent}]
        BY DEF TypeOK
      <4>3. m \in Devices => [device[m] EXCEPT !.flap = "None"] \in DeviceRecords
        BY <4>1 DEF DeviceRecords
      <4>4. [host |-> "none", flap |-> "None", wait_remote |-> FALSE] \in DeviceRecords
        BY DEF DeviceRecords
      <4>. QED  BY <1>1, <4>2, <4>3, <4>4 DEF on_session
    <3>. QED  BY <1>1, <3>1 DEF on_session, TypeOK
  <2>2. LocksHeld'
    BY <1>1 DEF on_session, LocksHeld, TypeOK
  <2>3. TableSound'
    BY <1>1 DEF on_session, TableSound, Registered, TypeOK
  <2>4. NotFlapping'
    BY <1>1 DEF on_session, NotFlapping, Devices, TypeOK, DeviceRecords, Absent
  <2>. QED  BY <2>1, <2>2, <2>3, <2>4
<1>2. CASE remote_trigger(m)
  <2>1. TypeOK'
    BY <1>2 DEF remote_trigger, TypeOK, Devices, DeviceRecords
  <2>2. LocksHeld'
    BY <1>2 DEF remote_trigger, LocksHeld, TypeOK
  <2>3. TableSound'
    BY <1>2 DEF remote_trigger, TableSound, Registered, TypeOK
  <2>4. NotFlapping'
    BY <1>2 DEF remote_trigger, NotFlapping, Devices, TypeOK, DeviceRecords, Absent
  <2>. QED  BY <2>1, <2>2, <2>3, <2>4
<1>3. CASE target_set_trigger(m)
  <2>1. /\ clients' \in [Macs -> Seq(Items) \cup {NoClient}]
        /\ \A n \in Macs : clients'[n] # NoClient <=> n \in Registered
        /\ device' \in [Macs -> DeviceRecords \cup {Absent}]
        /\ \A n \in Macs : device'[n].flap \in {device[n].flap, "None"}
    BY <1>3, TriggerEffect DEF target_set_trigger, TypeOK, Registered
  <2>2. TypeOK'
    BY <1>3, <2>1 DEF target_set_trigger, TypeOK
  <2>3. LocksHeld'
    BY <1>3 DEF target_set_trigger, LocksHeld, TypeOK
  <2>4. TableSound'
    BY <1>3, <2>1 DEF target_set_trigger, TableSound, Registered, TypeOK
  <2>5. NotFlapping'
    <3>. SUFFICES ASSUME NEW n \in Macs, thread'[n] \in {"tapped", "trigger", "stream"},
                         device'[n] # Absent
                  PROVE  device'[n].flap # "time"
      BY DEF NotFlapping, Devices
    <3>1. thread[n] \in {"tapped", "trigger", "stream"}
      BY <1>3 DEF target_set_trigger, TypeOK
    <3>2. device[n].flap # "time"
      BY <3>1 DEF NotFlapping, Devices, Absent
    <3>. QED  BY <2>1, <3>2
  <2>. QED  BY <2>2, <2>3, <2>4, <2>5
<1>4. CASE SessionStream(m)
  <2>1. m \in Registered /\ clients[m] \in Seq(Items) /\ Tail(clients[m]) \in Seq(Items)
    <3>1. m \in Registered
      BY <1>4 DEF SessionStream, TableSound
    <3>2. clients[m] \in Seq(Items) /\ clients[m] # <<>>
      BY <1>4, <3>1, ClientQueue DEF SessionStream
    <3>. QED  BY <3>1, <3>2
  <2>2. TypeOK'
    BY <1>4, <2>1 DEF SessionStream, TypeOK
  <2>3. LocksHeld'
    BY <1>4 DEF SessionStream, LocksHeld, TableSound, TypeOK
  <2>4. \A n \in Macs : n \in Registered' <=> n \in Registered
    BY <1>4, <2>1, QueueIsClient DEF SessionStream, Registered, TypeOK
  <2>5. TableSound'
    BY <1>4, <2>1, <2>4 DEF SessionStream, TableSound, TypeOK
  <2>6. NotFlapping'
    BY <1>4 DEF SessionStream, NotFlapping, Devices, TypeOK
  <2>. QED  BY <2>2, <2>3, <2>5, <2>6
<1>5. CASE ReapStarts(m)
  <2>1. TypeOK'
    BY <1>5 DEF ReapStarts, TypeOK
  <2>2. LocksHeld'
    BY <1>5 DEF ReapStarts, LocksHeld, TypeOK
  <2>. QED  BY <1>5, <2>1, <2>2 DEF ReapStarts, TypeOK, TableSound, NotFlapping, Registered, Devices
<1>6. CASE on_session_end(m)
  <2>1. TypeOK'
    BY <1>6 DEF on_session_end, TypeOK, Devices, DeviceRecords
  <2>2. LocksHeld'
    BY <1>6 DEF on_session_end, LocksHeld, TypeOK
  <2>3. TableSound'
    BY <1>6 DEF on_session_end, TableSound, Registered, TypeOK
  <2>4. thread[m] = "none"
    BY <1>6 DEF on_session_end, TableSound
  <2>5. NotFlapping'
    BY <1>6, <2>4 DEF on_session_end, NotFlapping, Devices, TypeOK
  <2>. QED  BY <2>1, <2>2, <2>3, <2>5
<1>7. CASE ReapSession(m)
  <2>1. TypeOK'
    BY <1>7 DEF ReapSession, TypeOK
  <2>2. LocksHeld'
    BY <1>7 DEF ReapSession, LocksHeld, TypeOK
  <2>3. TableSound'
    BY <1>7 DEF ReapSession, TableSound, Registered, TypeOK
  <2>. QED  BY <1>7, <2>1, <2>2, <2>3 DEF ReapSession, NotFlapping, Devices
<1>. QED  BY <1>1, <1>2, <1>3, <1>4, <1>5, <1>6, <1>7 DEF Thread

\* A session that starts has neither a thread nor one that reaps it: it was not in the table.
LEMMA EnvironmentStep == ASSUME IInv, Environment PROVE IInv'
<1>. TypeOK /\ LocksHeld /\ TableSound /\ NotFlapping
  BY DEF IInv
<1>. USE SessionsAssumption DEF IInv
<1>. PICK m \in Macs : StartSession(m) \/ Disconnect(m) \/ HandleDeviceLearn(m)
  BY DEF Environment
<1>1. CASE StartSession(m)
  <2>1. Put(<<>>, "progress") \in Seq(Items)
    BY DEF Put, Items
  <2>2. TypeOK'
    BY <1>1, <2>1 DEF StartSession, TypeOK
  <2>3. thread[m] = "none" /\ reaper[m] = "none"
    BY <1>1 DEF StartSession, TableSound
  <2>4. LocksHeld'
    BY <1>1, <2>3 DEF StartSession, LocksHeld, TypeOK
  <2>5. Registered' = Registered \cup {m}
    BY <1>1, <2>1, QueueIsClient DEF StartSession, Registered, TypeOK
  <2>6. TableSound'
    BY <1>1, <2>3, <2>5 DEF StartSession, TableSound, TypeOK
  <2>7. NotFlapping'
    BY <1>1 DEF StartSession, NotFlapping, Devices, TypeOK
  <2>. QED  BY <2>2, <2>4, <2>6, <2>7
<1>2. CASE Disconnect(m)
  BY <1>2 DEF Disconnect, TypeOK, LocksHeld, TableSound, NotFlapping, Registered, Devices
<1>3. CASE HandleDeviceLearn(m)
  <2>1. /\ device' \in [Macs -> DeviceRecords \cup {Absent}]
        /\ \A n \in Macs : device'[n].flap \in {device[n].flap, "None"}
    <3>1. device \in [Macs -> DeviceRecords \cup {Absent}]
      BY DEF TypeOK
    <3>2. CASE m \notin Devices
      BY <1>3, <3>1, <3>2 DEF HandleDeviceLearn, DeviceRecords
    <3>3. CASE m \in Devices
      <4>1. device[m] \in DeviceRecords
        BY <3>1, <3>3 DEF Devices
      <4>. QED  BY <1>3, <3>1, <3>3, <4>1 DEF HandleDeviceLearn, DeviceRecords
    <3>. QED  BY <3>2, <3>3
  <2>2. TypeOK'
    BY <1>3, <2>1 DEF HandleDeviceLearn, TypeOK
  <2>3. NotFlapping'
    BY <1>3, <2>1 DEF HandleDeviceLearn, NotFlapping, Devices, Absent
  <2>. QED  BY <1>3, <2>2, <2>3 DEF HandleDeviceLearn, LocksHeld, TableSound, Registered
<1>. QED  BY <1>1, <1>2, <1>3

\* A step of the main thread that leaves the sessions' threads and the locks alone, sends
\* messages and marks no device.
LEMMA QuietStep ==
    ASSUME IInv, UNCHANGED <<connected, thread, reaper, started, session_lock, event_lock>>,
           clients' \in [Macs -> Seq(Items) \cup {NoClient}],
           \A n \in Macs : clients'[n] # NoClient <=> n \in Registered,
           device' \in [Macs -> DeviceRecords \cup {Absent}],
           \A n \in Macs : device'[n].flap \in {device[n].flap, "None"},
           main' \in MainRecords,
           main'.pc = "beats" <=> main.pc = "beats"
    PROVE  IInv'
<1>1. TypeOK'
  BY DEF IInv, TypeOK
<1>2. LocksHeld'
  BY DEF IInv, LocksHeld
<1>3. TableSound'
  BY DEF IInv, TableSound, Registered
<1>4. NotFlapping'
  BY DEF IInv, NotFlapping, Devices, Absent
<1>. QED  BY <1>1, <1>2, <1>3, <1>4 DEF IInv

LEMMA MainStep == ASSUME IInv, Main PROVE IInv'
<1>. TypeOK /\ LocksHeld /\ TableSound /\ NotFlapping
  BY DEF IInv
<1>. main \in MainRecords /\ main.todo \in SUBSET Macs /\ main.dev \in SUBSET Macs
  BY DEF TypeOK, MainRecords
<1>1. ASSUME NEW m \in Macs, HostEnds(m) PROVE IInv'
  <2>1. main' \in MainRecords /\ main'.pc # "beats"
    BY <1>1 DEF HostEnds, MainAt, MainRecords
  <2>. QED  BY <1>1, <2>1, SendResultEffect, QuietStep DEF HostEnds, TypeOK
<1>2. ASSUME NEW m \in Macs, IdleTrigger(m) PROVE IInv'
  BY <1>2, TriggerEffect, QuietStep DEF IdleTrigger, TypeOK
<1>3. ASSUME NEW m \in Macs, Heartbeat(m) PROVE IInv'
  <2>1. main' \in MainRecords /\ main'.pc = main.pc
    BY <1>3 DEF Heartbeat, TypeOK, MainRecords
  <2>2. PICK item \in Items : clients' = Reply(m, item)
    BY <1>3 DEF Heartbeat, Items
  <2>. QED  BY <1>3, <2>1, <2>2, ReplyEffect, QuietStep DEF Heartbeat, TypeOK
<1>4. ASSUME NEW m \in Macs, ReapCheck(m) PROVE IInv'
  <2>1. UNCHANGED <<clients, device>> /\ main.pc = "reap"
    BY <1>4 DEF ReapCheck
  <2>2. main' \in MainRecords /\ main'.pc # "beats"
    BY <1>4 DEF ReapCheck, Loop, MainAt, MainRecords
  <2>. QED  BY <1>4, <2>1, <2>2, QuietStep DEF ReapCheck, TypeOK, Registered
<1>5. ASSUME NEW m \in Macs, ReapDecide(m) PROVE IInv'
  <2>1. UNCHANGED device /\ main.pc = "decide" /\ clients' \in {clients, SendResult(m)}
    BY <1>5 DEF ReapDecide
  <2>2. main' \in MainRecords /\ main'.pc # "beats"
    BY <1>5 DEF ReapDecide, Loop, MainAt, MainRecords
  <2>. QED  BY <1>5, <2>1, <2>2, SendResultEffect, QuietStep DEF ReapDecide, TypeOK, Registered
<1>6. CASE TargetSetFinalize
  <2>1. main' \in MainRecords /\ main'.pc # "beats"
    BY <1>6 DEF TargetSetFinalize, Loop, MainAt, MainRecords
  <2>. QED  BY <1>6, <2>1, QuietStep DEF TargetSetFinalize, TypeOK, Absent, Registered
<1>7. CASE HeartbeatsStart
  <2>1. main' \in MainRecords /\ main'.pc = "beats"
    BY <1>7, SizesAreNumbers DEF HeartbeatsStart, Registered, MainAt, MainRecords
  <2>2. TypeOK'
    BY <1>7, <2>1 DEF HeartbeatsStart, TypeOK
  <2>3. LocksHeld'
    BY <1>7, <2>1, SessionsAssumption DEF HeartbeatsStart, LocksHeld
  <2>. QED  BY <1>7, <2>2, <2>3 DEF HeartbeatsStart, IInv, TableSound, NotFlapping, Registered, Devices
<1>8. CASE HeartbeatsEnd
  <2>1. main' \in MainRecords /\ main'.pc = "snapshot"
    BY <1>8, SizesAreNumbers DEF HeartbeatsEnd, MainAt, MainRecords
  <2>2. TypeOK'
    BY <1>8, <2>1 DEF HeartbeatsEnd, TypeOK
  <2>3. LocksHeld'
    BY <1>8, <2>1, SessionsAssumption DEF HeartbeatsEnd, LocksHeld
  <2>. QED  BY <1>8, <2>2, <2>3 DEF HeartbeatsEnd, IInv, TableSound, NotFlapping, Registered, Devices
<1>9. CASE ReapSnapshot
  <2>1. main' \in MainRecords /\ main'.pc # "beats"
    BY <1>9 DEF ReapSnapshot, Loop, Triggered, Devices, MainAt, MainRecords
  <2>. QED  BY <1>9, <2>1, QuietStep DEF ReapSnapshot, TypeOK, Registered
<1>10. CASE Terminate
  <2>1. main' \in MainRecords /\ main'.pc = "stopped"
    BY <1>10 DEF Terminate, MainAt, MainRecords
  <2>2. /\ clients' \in [Macs -> Seq(Items) \cup {NoClient}]
        /\ \A n \in Macs : clients'[n] # NoClient <=> n \in Registered
    BY <1>10, SendResultEffect DEF Terminate, TypeOK, Registered
  <2>. QED  BY <1>10, <2>1, <2>2, QuietStep DEF Terminate, TypeOK, Absent
<1>. QED
  BY <1>1, <1>2, <1>3, <1>4, <1>5, <1>6, <1>7, <1>8, <1>9, <1>10 DEF Main

\* A step from a state of the invariant leads to one.
LEMMA StepInv == IInv /\ [Next]_vars => IInv'
<1>. SUFFICES ASSUME IInv, [Next]_vars PROVE IInv'
  OBVIOUS
<1>1. CASE UNCHANGED vars
  BY <1>1 DEF vars, IInv, TypeOK, LocksHeld, TableSound, NotFlapping, Registered, Devices
<1>. QED  BY <1>1, EnvironmentStep, MainStep, ThreadStep DEF Next

\* The inductive invariant holds in every reachable state.
LEMMA Invariance == Spec => []IInv
BY InitInv, StepInv, PTL DEF Spec
-----------------------------------------------------------------------------
(* A streaming session belongs to a device that is not marked as gone, for any  *)
(* number of devices and sessions and in every interleaving of their threads      *)
(* with the main thread (_on_session, _on_session_end, _reap_session).           *)
THEOREM NewSessionKeepsItsDevice == Spec => []LiveSessionNotFlapping
<1>1. IInv => LiveSessionNotFlapping
  BY DEF IInv, NotFlapping, LiveSessionNotFlapping
<1>. QED  BY <1>1, Invariance, PTL

(* The locks of the server and of the runner exclude one another's sections, and  *)
(* no thread ends or fails with one of them in its hands.                         *)
THEOREM LocksExclude ==
    Spec => [](/\ LocksHeld
               /\ \A m, n \in Macs : /\ thread[m] \in {"tapped", "trigger"} /\ thread[n] \in {"tapped", "trigger"} => m = n
                                     /\ reaper[m] \in {"reaping", "delete"} /\ reaper[n] \in {"reaping", "delete"} => m = n
                                     /\ thread[m] \in {"tapped", "trigger"} => main.pc # "beats")
<1>1. IInv => /\ LocksHeld
              /\ \A m, n \in Macs : /\ thread[m] \in {"tapped", "trigger"} /\ thread[n] \in {"tapped", "trigger"} => m = n
                                    /\ reaper[m] \in {"reaping", "delete"} /\ reaper[n] \in {"reaping", "delete"} => m = n
                                    /\ thread[m] \in {"tapped", "trigger"} => main.pc # "beats"
  BY SessionsAssumption DEF IInv, LocksHeld
<1>. QED  BY <1>1, Invariance, PTL
=============================================================================
