---------------------------- MODULE FaucetProofs ----------------------------
(***************************************************************************)
(* Proofs about FaucetEvents, for every set of ports and every number of   *)
(* events and restarts: nothing the client was told is forgotten, and a    *)
(* device is learned on a port that the runner takes for active.           *)
(***************************************************************************)
EXTENDS FaucetEvents, FiniteSetTheorems, TLAPS

Entries == [port : Ports, active : BOOLEAN]

(* TypeOK in the groups of variables that the steps change together. *)
PortType ==
    /\ link \in [Ports -> BOOLEAN]
    /\ known \in [Ports -> BOOLEAN]
    /\ seen \in [Ports -> BOOLEAN]

TimerType ==
    /\ raced \in [Ports -> BOOLEAN]
    /\ late \in [Ports -> Nat]
    /\ timers \in [Ports -> TimerStates]

QueueType == debounced_q \in Seq(Entries)

StreamType == wire \in Seq(Lines) /\ buffer \in Seq(Lines)

RestType ==
    /\ sent \in 0..MaxChanges /\ restarts \in 0..MaxRestarts
    /\ eof \in BOOLEAN /\ cut \in BOOLEAN /\ debounce \in BOOLEAN /\ torn \in BOOLEAN
    /\ garbled \in BOOLEAN /\ faucet \in BOOLEAN /\ monitored \in BOOLEAN
    /\ sock \in {"open", "unconnected", "none"}
    /\ pc \in {"idle", "fresh", "parsed"}

\* A timer that runs was started by the last event of its port, a down event,
\* and a timer that was cancelled too late has the port marked as raced.
TimersAgree ==
    \A p \in Ports :
        /\ timers[p] \in {"waiting", "expired"} => debounce /\ ~seen[p]
        /\ late[p] > 0 => raced[p]

(* The lines on their way to the client: what they say of a port. *)
Stream == buffer \o wire

About(line, p) ==
    line.type = "PORTS_STATUS" \/ (line.type = "PORT_CHANGE" /\ line.port = p)

Says(line, p) == IF line.type = "PORTS_STATUS" THEN line.status[p] ELSE line.active

\* The state of p after the first n lines of s is v, if it is b before them.
Told(s, n, p, b, v) ==
    \/ \E j \in 1..n : /\ About(s[j], p) /\ Says(s[j], p) = v
                       /\ \A k \in (j + 1)..n : ~About(s[k], p)
    \/ (\A j \in 1..n : ~About(s[j], p)) /\ b = v

\* Unless a line was torn, a device is learned on a port that the lines before
\* say is up, and the lines of a connection that is open end with the state the
\* port has.
StreamTrue ==
    ~garbled => \A p \in Ports :
        /\ \A i \in 1..Len(Stream) :
             Stream[i] = L2Learn(p) => Told(Stream, i - 1, p, seen[p], TRUE)
        /\ ~eof => Told(Stream, Len(Stream), p, seen[p], link[p])

\* The inductive invariant.  NothingForgotten needs TimersAgree, because a timer
\* that fires reports down; LearnOnActivePort needs StreamTrue, because the line
\* that says up may still be anywhere between the switch and the client.
IInv ==
    /\ PortType /\ TimerType /\ QueueType /\ StreamType /\ RestType
    /\ TimersAgree /\ NothingForgotten /\ StreamTrue

\* TypeOK is the conjunction of its groups.
LEMMA TypeGroups == PortType /\ TimerType /\ QueueType /\ StreamType /\ RestType => TypeOK
BY DEF PortType, TimerType, QueueType, StreamType, RestType, TypeOK, Entries
-----------------------------------------------------------------------------
(* Lines *)

\* What a line of each kind says of a port.
LEMMA ChangeSays ==
    ASSUME NEW p, NEW a, NEW q
    PROVE  (About(PortChange(p, a), q) <=> p = q) /\ Says(PortChange(p, a), q) = a
BY DEF About, Says, PortChange

LEMMA StatusSays ==
    ASSUME NEW st, NEW q
    PROVE  About(PortsStatus(st), q) /\ Says(PortsStatus(st), q) = st[q]
BY DEF About, Says, PortsStatus

LEMMA OthersSilent ==
    ASSUME NEW q
    PROVE  (\A p : ~About(L2Learn(p), q)) /\ ~About(ConfigChange, q) /\ ~About(BadLine, q)
BY DEF About, L2Learn, ConfigChange, BadLine

\* The kinds of lines are told apart by their type.
LEMMA LineKinds ==
    /\ \A p, q, a : PortChange(p, a) # L2Learn(q)
    /\ \A st, q : PortsStatus(st) # L2Learn(q)
    /\ \A q : ConfigChange # L2Learn(q) /\ BadLine # L2Learn(q)
    /\ \A p, q : L2Learn(p) = L2Learn(q) => p = q
<1>1. \A p, q, a : PortChange(p, a) # L2Learn(q)
  BY DEF PortChange, L2Learn
<1>2. \A st, q : PortsStatus(st) # L2Learn(q)
  BY DEF PortsStatus, L2Learn
<1>3. \A q : ConfigChange # L2Learn(q) /\ BadLine # L2Learn(q)
  BY DEF ConfigChange, BadLine, L2Learn
<1>4. \A p, q : L2Learn(p) = L2Learn(q) => p = q
  <2>. SUFFICES ASSUME NEW p, NEW q, L2Learn(p) = L2Learn(q) PROVE p = q
    OBVIOUS
  <2>1. L2Learn(p).port = p /\ L2Learn(q).port = q
    BY DEF L2Learn
  <2>. QED  BY <2>1
<1>. QED  BY <1>1, <1>2, <1>3, <1>4

\* A line is of the kind its type names.
LEMMA LineCases ==
    ASSUME NEW l \in Lines
    PROVE  /\ l.type = "PORT_CHANGE" =>
                \E p \in Ports, a \in BOOLEAN : l = PortChange(p, a) /\ l.port = p /\ l.active = a
           /\ l.type = "PORTS_STATUS" =>
                \E st \in [Ports -> BOOLEAN] : l = PortsStatus(st) /\ l.status = st
           /\ l.type = "L2_LEARN" => \E p \in Ports : l = L2Learn(p) /\ l.port = p
           /\ l.type = "CONFIG_CHANGE" => l = ConfigChange
           /\ l.type = "bad" => l = BadLine
BY DEF Lines, PortChange, PortsStatus, L2Learn, ConfigChange, BadLine

\* The lines the switch writes, and the one a torn line makes.
LEMMA LinesHas ==
    /\ \A p \in Ports, a \in BOOLEAN : PortChange(p, a) \in Lines
    /\ \A st \in [Ports -> BOOLEAN] : PortsStatus(st) \in Lines
    /\ \A p \in Ports : L2Learn(p) \in Lines
    /\ ConfigChange \in Lines /\ BadLine \in Lines
BY DEF Lines

\* PortOrder lists each port once.
LEMMA PortsInOrder ==
    LET N == Cardinality(Ports) IN
    /\ N \in Nat
    /\ PortOrder \in [1..N -> Ports]
    /\ \A i, j \in 1..N : PortOrder[i] = PortOrder[j] => i = j
    /\ \A p \in Ports : \E i \in 1..N : PortOrder[i] = p
<1>. DEFINE N == Cardinality(Ports)
            f == PortOrder
<1>1. N \in Nat /\ ExistsBijection(1..N, Ports)
  BY FS_CardinalityType, BoundsAssumption
<1>2. f \in Bijection(1..N, Ports)
  BY <1>1 DEF ExistsBijection, PortOrder
<1>. HIDE DEF f
<1>3. f \in [1..N -> Ports] /\ \A p \in Ports : \E i \in 1..N : f[i] = p
  BY <1>2 DEF Bijection, Injection, Surjection
<1>4. \A i, j \in 1..N : f[i] = f[j] => i = j
  BY <1>2, <1>3 DEF Bijection, Injection, IsInjective
<1>. QED  BY <1>1, <1>3, <1>4 DEF f

\* The changes that replace a status: one for each port, and no other.
LEMMA PerPortIs ==
    ASSUME NEW st \in [Ports -> BOOLEAN]
    PROVE  LET N == Cardinality(Ports)
               s == PerPort(st)
           IN  /\ N \in Nat /\ s \in Seq(Lines) /\ Len(s) = N
               /\ \A i \in 1..N : \E q \in Ports : s[i] = PortChange(q, st[q])
               /\ \A q \in Ports : \E i \in 1..N :
                    /\ s[i] = PortChange(q, st[q])
                    /\ \A k \in 1..N : k # i => ~About(s[k], q)
<1>. DEFINE N == Cardinality(Ports)
            f == PortOrder
            s == [i \in 1..N |-> PortChange(f[i], st[f[i]])]
<1>. HIDE DEF N, f
<1>1. /\ N \in Nat /\ f \in [1..N -> Ports]
      /\ \A i, j \in 1..N : f[i] = f[j] => i = j
      /\ \A p \in Ports : \E i \in 1..N : f[i] = p
  BY PortsInOrder DEF N, f
<1>2. PerPort(st) = s
  BY DEF PerPort, N, f
<1>3. \A i \in 1..N : f[i] \in Ports /\ s[i] = PortChange(f[i], st[f[i]]) /\ s[i] \in Lines
  BY <1>1, LinesHas
<1>. HIDE DEF s
<1>4. s \in Seq(Lines) /\ Len(s) = N
  BY <1>1, <1>3 DEF s
<1>5. ASSUME NEW q \in Ports
      PROVE  \E i \in 1..N : /\ s[i] = PortChange(q, st[q])
                             /\ \A k \in 1..N : k # i => ~About(s[k], q)
  <2>1. PICK i \in 1..N : f[i] = q
    BY <1>1
  <2>2. \A k \in 1..N : k # i => f[k] # q
    BY <1>1, <2>1
  <2>. QED  BY <1>3, <2>1, <2>2, ChangeSays
<1>. QED  BY <1>1, <1>2, <1>3, <1>4, <1>5 DEF N
-----------------------------------------------------------------------------
(* What a stream of lines tells *)

\* Only the first n lines matter.
LEMMA ToldSame ==
    ASSUME NEW s, NEW t, NEW n \in Nat, \A i \in 1..n : s[i] = t[i],
           NEW p, NEW b, NEW v, Told(s, n, p, b, v)
    PROVE  Told(t, n, p, b, v)
BY DEF Told

\* One more line tells the state it names, or nothing.
LEMMA ToldNext ==
    ASSUME NEW s, NEW n \in Nat, NEW p, NEW b
    PROVE  /\ About(s[n + 1], p) => Told(s, n + 1, p, b, Says(s[n + 1], p))
           /\ \A v : ~About(s[n + 1], p) /\ Told(s, n, p, b, v) => Told(s, n + 1, p, b, v)
BY DEF Told

\* The first line is taken off and its state noted.
LEMMA ToldPop ==
    ASSUME NEW s, NEW t, NEW n \in Nat, \A i \in 1..n : t[i] = s[i + 1],
           NEW p, NEW b, NEW v, Told(s, n + 1, p, b, v)
    PROVE  Told(t, n, p, IF About(s[1], p) THEN Says(s[1], p) ELSE b, v)
<1>. DEFINE c == IF About(s[1], p) THEN Says(s[1], p) ELSE b
<1>1. CASE (\A j \in 1..(n + 1) : ~About(s[j], p)) /\ b = v
  BY <1>1 DEF Told
<1>2. ASSUME NEW j \in 1..(n + 1), About(s[j], p), Says(s[j], p) = v,
             \A k \in (j + 1)..(n + 1) : ~About(s[k], p)
      PROVE  Told(t, n, p, c, v)
  <2>1. CASE j = 1
    <3>1. \A k \in 1..n : k + 1 \in (j + 1)..(n + 1)
      BY <2>1
    <3>2. \A k \in 1..n : ~About(t[k], p)
      BY <1>2, <3>1
    <3>. QED  BY <1>2, <2>1, <3>2 DEF Told
  <2>2. CASE j # 1
    <3>1. j - 1 \in 1..n /\ t[j - 1] = s[j]
      BY <2>2
    <3>2. \A k \in ((j - 1) + 1)..n : k \in 1..n /\ k + 1 \in (j + 1)..(n + 1)
      BY <2>2
    <3>3. \A k \in ((j - 1) + 1)..n : ~About(t[k], p)
      BY <1>2, <3>2
    <3>. QED  BY <1>2, <3>1, <3>3 DEF Told
  <2>. QED  BY <2>1, <2>2
<1>. QED  BY <1>1, <1>2 DEF Told

\* A status at the front is replaced by a change for each port.
LEMMA ToldSpread ==
    ASSUME NEW st \in [Ports -> BOOLEAN], NEW s, NEW t, NEW n \in Nat,
           s[1] = PortsStatus(st),
           \A i \in 1..Cardinality(Ports) : t[i] = PerPort(st)[i],
           \A i \in 1..n : t[Cardinality(Ports) + i] = s[i + 1],
           NEW p \in Ports, NEW b, NEW v, Told(s, n + 1, p, b, v)
    PROVE  Told(t, Cardinality(Ports) + n, p, b, v)
<1>. DEFINE N == Cardinality(Ports)
<1>. HIDE DEF N
<1>1. PICK i \in 1..N : /\ PerPort(st)[i] = PortChange(p, st[p])
                        /\ \A k \in 1..N : k # i => ~About(PerPort(st)[k], p)
  BY PerPortIs DEF N
<1>2. N \in Nat /\ \A k \in 1..N : t[k] = PerPort(st)[k]
  BY PerPortIs DEF N
<1>3. \A k \in 1..n : t[N + k] = s[k + 1]
  BY DEF N
<1>4. About(s[1], p) /\ Says(s[1], p) = st[p]
  BY StatusSays
<1>5. About(t[i], p) /\ Says(t[i], p) = st[p] /\ \A k \in 1..N : k # i => ~About(t[k], p)
  BY <1>1, <1>2, ChangeSays
<1>6. PICK j \in 1..(n + 1) : /\ About(s[j], p) /\ Says(s[j], p) = v
                              /\ \A k \in (j + 1)..(n + 1) : ~About(s[k], p)
  BY <1>4 DEF Told
<1>7. CASE j = 1
  <2>1. \A k \in (i + 1)..(N + n) : ~About(t[k], p)
    <3>. SUFFICES ASSUME NEW k \in (i + 1)..(N + n) PROVE ~About(t[k], p)
      OBVIOUS
    <3>1. CASE k <= N
      BY <1>2, <1>5, <3>1
    <3>2. CASE k > N
      <4>1. k - N \in 1..n /\ N + (k - N) = k /\ (k - N) + 1 \in (j + 1)..(n + 1)
        BY <1>2, <1>7, <3>2
      <4>2. t[k] = s[(k - N) + 1]
        BY <1>3, <4>1
      <4>. QED  BY <1>6, <4>1, <4>2
    <3>. QED  BY <1>2, <3>1, <3>2
  <2>2. i \in 1..(N + n)
    BY <1>2
  <2>3. Told(t, N + n, p, b, v)
    BY <1>4, <1>5, <1>6, <1>7, <2>1, <2>2 DEF Told
  <2>. QED  BY <2>3 DEF N
<1>8. CASE j # 1
  <2>. DEFINE m == N + (j - 1)
  <2>1. m \in 1..(N + n) /\ j - 1 \in 1..n /\ (j - 1) + 1 = j
    BY <1>2, <1>8
  <2>2. t[m] = s[j]
    BY <1>3, <2>1
  <2>3. \A k \in (m + 1)..(N + n) : ~About(t[k], p)
    <3>. SUFFICES ASSUME NEW k \in (m + 1)..(N + n) PROVE ~About(t[k], p)
      OBVIOUS
    <3>1. k - N \in 1..n /\ N + (k - N) = k /\ (k - N) + 1 \in (j + 1)..(n + 1)
      BY <1>2, <1>8
    <3>2. t[k] = s[(k - N) + 1]
      BY <1>3, <3>1
    <3>. QED  BY <1>6, <3>1, <3>2
  <2>. HIDE DEF m
  <2>4. Told(t, N + n, p, b, v)
    BY <1>6, <2>1, <2>2, <2>3 DEF Told
  <2>. QED  BY <2>4 DEF N
<1>. QED  BY <1>7, <1>8
-----------------------------------------------------------------------------
(* The debounced queue *)

\* An event that goes into the queue decides the state of its port only.
LEMMA DecidedAppend ==
    ASSUME QueueType, NEW p \in Ports, NEW a \in BOOLEAN, known' = known,
           debounced_q' = Debounced(debounced_q, p, a)
    PROVE  /\ QueueType'
           /\ LastDecided(p, a)'
           /\ \A q \in Ports \ {p}, v \in BOOLEAN : LastDecided(q, v) => LastDecided(q, v)'
<1>. DEFINE e == [port |-> p, active |-> a]
            n == Len(debounced_q)
<1>1. e \in Entries /\ e.port = p /\ e.active = a
  BY DEF Entries
<1>. HIDE DEF e
<1>2. debounced_q' = Append(debounced_q, e)
  BY DEF Debounced, e
<1>3. /\ n \in Nat /\ DOMAIN debounced_q = 1..n /\ DOMAIN debounced_q' = 1..(n + 1)
      /\ debounced_q'[n + 1] = e /\ \A i \in 1..n : debounced_q'[i] = debounced_q[i]
  BY <1>1, <1>2 DEF QueueType
<1>4. QueueType'
  BY <1>1, <1>2 DEF QueueType
<1>. HIDE DEF n
<1>5. LastDecided(p, a)'
  BY <1>1, <1>3 DEF LastDecided
<1>6. ASSUME NEW q \in Ports \ {p}, NEW v \in BOOLEAN, LastDecided(q, v)
      PROVE  LastDecided(q, v)'
  BY <1>1, <1>3, <1>6 DEF LastDecided
<1>. QED  BY <1>4, <1>5, <1>6

\* The runner takes the first event of the queue: what is last stays last.
LEMMA DecidedTail ==
    ASSUME QueueType, PortType, debounced_q # <<>>, debounced_q' = Tail(debounced_q),
           known' = [known EXCEPT ![Head(debounced_q).port] = Head(debounced_q).active]
    PROVE  /\ QueueType' /\ known' \in [Ports -> BOOLEAN]
           /\ \A q \in Ports, v \in BOOLEAN : LastDecided(q, v) => LastDecided(q, v)'
<1>. DEFINE n == Len(debounced_q)
            e == Head(debounced_q)
<1>1. /\ n \in Nat \ {0} /\ DOMAIN debounced_q = 1..n /\ DOMAIN debounced_q' = 1..(n - 1)
      /\ e = debounced_q[1] /\ e \in Entries
      /\ \A i \in 1..(n - 1) : debounced_q'[i] = debounced_q[i + 1]
  BY DEF QueueType
<1>2. QueueType'
  BY DEF QueueType
<1>3. e.port \in Ports /\ e.active \in BOOLEAN
  BY <1>1 DEF Entries
<1>4. known' = [known EXCEPT ![e.port] = e.active] /\ known' \in [Ports -> BOOLEAN]
  BY <1>3 DEF PortType
<1>. HIDE DEF n, e
<1>5. ASSUME NEW q \in Ports, NEW v \in BOOLEAN, LastDecided(q, v)
      PROVE  LastDecided(q, v)'
  <2>1. CASE \A i \in 1..n : debounced_q[i].port # q
    <3>1. known[q] = v /\ e.port # q
      BY <1>1, <1>5, <2>1 DEF LastDecided
    <3>2. known'[q] = v
      BY <1>4, <3>1 DEF PortType
    <3>3. \A i \in 1..(n - 1) : debounced_q'[i].port # q
      BY <1>1, <2>1
    <3>. QED  BY <1>1, <3>2, <3>3 DEF LastDecided
  <2>2. ASSUME NEW i \in 1..n, debounced_q[i].port = q, debounced_q[i].active = v,
               \A j \in 1..n : j > i => debounced_q[j].port # q
        PROVE  LastDecided(q, v)'
    <3>1. CASE i = 1
      <4>1. known'[q] = v
        BY <1>1, <1>4, <2>2, <3>1 DEF PortType
      <4>2. \A j \in 1..(n - 1) : debounced_q'[j].port # q
        BY <1>1, <2>2, <3>1
      <4>. QED  BY <1>1, <4>1, <4>2 DEF LastDecided
    <3>2. CASE i # 1
      <4>1. i - 1 \in 1..(n - 1) /\ debounced_q'[i - 1] = debounced_q[i]
        BY <1>1, <3>2
      <4>2. \A j \in 1..(n - 1) : j > i - 1 => debounced_q'[j].port # q
        BY <1>1, <2>2
      <4>. QED  BY <1>1, <2>2, <4>1, <4>2 DEF LastDecided
    <3>. QED  BY <3>1, <3>2
  <2>. QED  BY <1>1, <1>5, <2>1, <2>2 DEF LastDecided
<1>. QED  BY <1>2, <1>4, <1>5

\* _debounce_port_event: a down event starts the timer of its port, any other
\* event is decided at once and its timer is cancelled.
LEMMA DebounceEffect ==
    ASSUME PortType, TimerType, QueueType, TimersAgree, NothingForgotten, debounce \in BOOLEAN,
           NEW p \in Ports, NEW a \in BOOLEAN, debounce_port_event(p, a),
           UNCHANGED <<known, debounce>>
    PROVE  /\ seen' = [seen EXCEPT ![p] = a]
           /\ TimerType' /\ QueueType' /\ TimersAgree' /\ NothingForgotten'
<1>1. /\ seen' = [seen EXCEPT ![p] = a] /\ seen' \in [Ports -> BOOLEAN]
      /\ late' \in [Ports -> Nat] /\ \A q \in Ports \ {p} : late'[q] = late[q]
      /\ raced' = [raced EXCEPT ![p] = late'[p] > 0] /\ raced' \in [Ports -> BOOLEAN]
  BY DEF debounce_port_event, PortType, TimerType
<1>2. CASE debounce /\ ~a
  <2>1. timers' = [timers EXCEPT ![p] = "waiting"] /\ debounced_q' = debounced_q
    BY <1>2 DEF debounce_port_event
  <2>2. TimerType' /\ QueueType'
    BY <1>1, <2>1 DEF TimerType, QueueType, TimerStates
  <2>3. TimersAgree'
    BY <1>1, <1>2, <2>1 DEF TimersAgree, TimerType, PortType
  <2>4. NothingForgotten'
    BY <1>1, <1>2, <2>1 DEF NothingForgotten, LastDecided, TimerType, PortType
  <2>. QED  BY <1>1, <2>2, <2>3, <2>4
<1>3. CASE ~(debounce /\ ~a)
  <2>1. /\ timers' = [timers EXCEPT ![p] = IF debounce /\ timers[p] \in {"waiting", "expired"}
                                           THEN "done" ELSE @]
        /\ debounced_q' = Debounced(debounced_q, p, a)
    BY <1>3 DEF debounce_port_event
  <2>2. timers' \in [Ports -> TimerStates]
    BY <2>1 DEF TimerType, TimerStates
  <2>3. TimersAgree'
    BY <1>1, <2>1 DEF TimersAgree, TimerType, PortType
  <2>4. /\ QueueType'
        /\ LastDecided(p, a)'
        /\ \A q \in Ports \ {p}, v \in BOOLEAN : LastDecided(q, v) => LastDecided(q, v)'
    BY <2>1, DecidedAppend
  <2>5. ASSUME NEW q \in Ports, ~raced'[q]
        PROVE  LastDecided(q, seen[q])' \/ (~seen'[q] /\ timers'[q] \in {"waiting", "expired"})
    <3>1. CASE q = p
      BY <1>1, <2>4, <3>1 DEF PortType
    <3>2. CASE q # p
      <4>1. seen'[q] = seen[q] /\ raced'[q] = raced[q] /\ timers'[q] = timers[q]
        BY <1>1, <2>1, <3>2 DEF PortType, TimerType
      <4>2. seen[q] \in BOOLEAN
        BY DEF PortType
      <4>. QED  BY <2>4, <2>5, <3>2, <4>1, <4>2 DEF NothingForgotten
    <3>. QED  BY <3>1, <3>2
  <2>. QED  BY <1>1, <2>2, <2>3, <2>4, <2>5 DEF TimerType, NothingForgotten
<1>. QED  BY <1>2, <1>3

QueueInv == PortType /\ TimerType /\ QueueType /\ TimersAgree /\ NothingForgotten

\* A step that touches neither the timers nor the queue.
LEMMA QueueSame ==
    ASSUME QueueInv, UNCHANGED <<known, seen, debounce, raced, late, timers, debounced_q>>,
           link' \in [Ports -> BOOLEAN]
    PROVE  QueueInv'
BY DEF QueueInv, PortType, TimerType, QueueType, TimersAgree, NothingForgotten, LastDecided

\* A timer expires, or fires in time or too late.
LEMMA TimerSteps ==
    ASSUME QueueInv, NEW p \in Ports, TimerExpires(p) \/ TimerFires(p) \/ LateTimerFires(p)
    PROVE  QueueInv'
<1>. PortType /\ TimerType /\ QueueType /\ TimersAgree /\ NothingForgotten
  BY DEF QueueInv
<1>. PortType' /\ UNCHANGED <<known, seen, raced, debounce>>
  BY DEF TimerExpires, TimerFires, LateTimerFires, switch, runner, PortType
<1>1. CASE TimerExpires(p)
  <2>1. /\ timers[p] = "waiting" /\ timers' = [timers EXCEPT ![p] = "expired"]
        /\ debounced_q' = debounced_q /\ late' = late
    BY <1>1 DEF TimerExpires
  <2>2. TimerType' /\ QueueType' /\ TimersAgree'
    BY <2>1 DEF TimerType, QueueType, TimersAgree, TimerStates
  <2>3. NothingForgotten'
    BY <2>1 DEF NothingForgotten, LastDecided, TimerType
  <2>. QED  BY <2>2, <2>3 DEF QueueInv
<1>2. CASE TimerFires(p) \/ LateTimerFires(p)
  <2>1. debounced_q' = Debounced(debounced_q, p, FALSE)
    BY <1>2 DEF TimerFires, LateTimerFires
  <2>2. /\ QueueType'
        /\ LastDecided(p, FALSE)'
        /\ \A q \in Ports \ {p}, v \in BOOLEAN : LastDecided(q, v) => LastDecided(q, v)'
    BY <2>1, DecidedAppend
  <2>3. /\ \/ timers' = [timers EXCEPT ![p] = "done"] /\ timers[p] = "expired" /\ late' = late
           \/ timers' = timers /\ late[p] > 0 /\ late' = [late EXCEPT ![p] = @ - 1]
    BY <1>2 DEF TimerFires, LateTimerFires
  <2>4. TimerType' /\ TimersAgree'
    BY <2>3 DEF TimerType, TimersAgree, TimerStates
  <2>5. ~raced[p] => ~seen[p]
    BY <2>3 DEF TimersAgree
  <2>6. ASSUME NEW q \in Ports, ~raced'[q]
        PROVE  LastDecided(q, seen[q])' \/ (~seen'[q] /\ timers'[q] \in {"waiting", "expired"})
    <3>1. CASE q = p
      <4>1. seen'[q] = FALSE
        BY <2>5, <2>6, <3>1 DEF PortType
      <4>. QED  BY <2>2, <3>1, <4>1
    <3>2. CASE q # p
      <4>1. seen[q] \in BOOLEAN /\ timers'[q] = timers[q]
        BY <2>3, <3>2 DEF PortType, TimerType
      <4>. QED  BY <2>2, <2>6, <3>2, <4>1 DEF NothingForgotten
    <3>. QED  BY <3>1, <3>2
  <2>. QED  BY <2>2, <2>4, <2>6 DEF QueueInv, NothingForgotten
<1>. QED  BY <1>1, <1>2

\* The runner takes a debounced event.
LEMMA NextDebouncedStep == ASSUME QueueInv, NextDebounced PROVE QueueInv'
<1>. PortType /\ TimerType /\ QueueType /\ TimersAgree /\ NothingForgotten
  BY DEF QueueInv
<1>1. /\ debounced_q # <<>> /\ debounced_q' = Tail(debounced_q)
      /\ known' = [known EXCEPT ![Head(debounced_q).port] = Head(debounced_q).active]
      /\ UNCHANGED <<link, seen, debounce, raced, late, timers>>
  BY DEF NextDebounced, switch
<1>2. /\ QueueType' /\ known' \in [Ports -> BOOLEAN]
      /\ \A q \in Ports, v \in BOOLEAN : LastDecided(q, v) => LastDecided(q, v)'
  BY <1>1, DecidedTail
<1>3. PortType' /\ TimerType' /\ TimersAgree'
  BY <1>1, <1>2 DEF PortType, TimerType, TimersAgree
<1>4. NothingForgotten'
  <2>. SUFFICES ASSUME NEW q \in Ports, ~raced[q]
                PROVE  LastDecided(q, seen[q])' \/ (~seen[q] /\ timers[q] \in {"waiting", "expired"})
    BY <1>1 DEF NothingForgotten
  <2>1. seen[q] \in BOOLEAN /\ seen' = seen
    BY <1>1 DEF PortType
  <2>. QED  BY <1>2, <2>1 DEF NothingForgotten
<1>. QED  BY <1>2, <1>3, <1>4 DEF QueueInv

\* No step loses what the client was told.
LEMMA QueueNext ==
    ASSUME QueueInv, StreamType, debounce \in BOOLEAN, [Next]_vars PROVE QueueInv'
<1>. link \in [Ports -> BOOLEAN]
  BY DEF QueueInv, PortType
<1>1. CASE UNCHANGED vars
  BY <1>1, QueueSame DEF vars, switch, client, runner
<1>2. CASE Switch
  <2>1. UNCHANGED <<known, seen, debounce, raced, late, timers, debounced_q>>
    BY <1>2 DEF Switch, LinkChange, Learn, Reconfigure, Restart, client, runner
  <2>2. link' \in [Ports -> BOOLEAN]
    BY <1>2 DEF Switch, LinkChange, Learn, Reconfigure, Restart
  <2>. QED  BY <2>1, <2>2, QueueSame
<1>3. CASE Timers
  BY <1>3, TimerSteps DEF Timers
<1>4. CASE Handler
  <2>1. CASE NextDebounced
    BY <2>1, NextDebouncedStep
  <2>2. CASE FilterPortChange
    <3>1. Line \in Lines /\ Line.type = "PORT_CHANGE"
      BY <2>2 DEF FilterPortChange, HasLine, Line, StreamType
    <3>2. Line.port \in Ports /\ Line.active \in BOOLEAN
      BY <3>1, LineCases
    <3>3. UNCHANGED <<link, known, debounce>> /\ debounce_port_event(Line.port, Line.active)
      BY <2>2 DEF FilterPortChange, switch
    <3>4. /\ seen' = [seen EXCEPT ![Line.port] = Line.active]
          /\ TimerType' /\ QueueType' /\ TimersAgree' /\ NothingForgotten'
      BY <3>2, <3>3, DebounceEffect DEF QueueInv
    <3>5. PortType'
      BY <3>2, <3>3, <3>4 DEF QueueInv, PortType
    <3>. QED  BY <3>4, <3>5 DEF QueueInv
  <2>3. CASE ~NextDebounced /\ ~FilterPortChange
    <3>1. UNCHANGED <<link, known, seen, debounce, raced, late, timers, debounced_q>>
      BY <1>4, <2>3 DEF Handler, CallHandler, FilterPortsStatus, ReturnEvent, ParseError, Receive,
                 NoEvent, Reconnect, ReconnectFails, DeafCall, SocketError, switch, client, runner
    <3>. QED  BY <3>1, QueueSame
  <2>. QED  BY <2>1, <2>2, <2>3
<1>. QED  BY <1>1, <1>2, <1>3, <1>4 DEF Next
-----------------------------------------------------------------------------
(* The stream of lines *)

\* The lines the client has are the first ones.
LEMMA StreamIs ==
    ASSUME StreamType
    PROVE  /\ Stream \in Seq(Lines) /\ Len(Stream) = Len(buffer) + Len(wire)
           /\ Len(buffer) \in Nat /\ Len(wire) \in Nat
           /\ \A i \in 1..Len(buffer) : Stream[i] = buffer[i]
           /\ \A i \in 1..Len(wire) : Stream[Len(buffer) + i] = wire[i]
BY DEF StreamType, Stream

\* The same of the next state.
LEMMA NextStreamIs ==
    ASSUME StreamType'
    PROVE  /\ Stream' \in Seq(Lines) /\ Len(Stream') = Len(buffer') + Len(wire')
           /\ Len(buffer') \in Nat /\ Len(wire') \in Nat
           /\ \A i \in 1..Len(buffer') : Stream'[i] = buffer'[i]
           /\ \A i \in 1..Len(wire') : Stream'[Len(buffer') + i] = wire'[i]
BY DEF StreamType, Stream

\* A step that leaves the lines alone may end the connection or find a torn
\* line, and the link may change while the connection is down.
LEMMA StreamSame ==
    ASSUME StreamTrue, UNCHANGED <<Stream, seen>>, garbled => garbled',
           ~eof' => ~eof /\ link' = link
    PROVE  StreamTrue'
BY DEF StreamTrue

\* The controller writes a line: the new state of a port, or a device it has
\* learned on a port that is up.
LEMMA StreamAppend ==
    ASSUME StreamTrue, ~eof, UNCHANGED <<seen, eof, garbled>>, NEW l, NEW n \in Nat,
           Len(Stream) = n, Len(Stream') = n + 1,
           \A i \in 1..n : Stream'[i] = Stream[i], Stream'[n + 1] = l,
           \A p \in Ports : /\ About(l, p) => Says(l, p) = link'[p]
                            /\ ~About(l, p) => link'[p] = link[p]
                            /\ l = L2Learn(p) => link[p] = TRUE
    PROVE  StreamTrue'
<1>. SUFFICES ASSUME ~garbled, NEW p \in Ports
              PROVE  /\ \A i \in 1..(n + 1) :
                          Stream'[i] = L2Learn(p) => Told(Stream', i - 1, p, seen[p], TRUE)
                     /\ Told(Stream', n + 1, p, seen[p], link'[p])
  BY DEF StreamTrue
<1>. DEFINE s == Stream
            t == Stream'
            b == seen[p]
<1>0. /\ \A i \in 1..n : s[i] = L2Learn(p) => Told(s, i - 1, p, b, TRUE)
      /\ Told(s, n, p, b, link[p])
  BY DEF StreamTrue
<1>a. /\ \A i \in 1..n : t[i] = s[i] /\ s[i] = t[i]
      /\ t[n + 1] = l
  OBVIOUS
<1>. HIDE DEF s, t, b
<1>1. Told(t, n, p, b, link[p])
  BY <1>0, <1>a, ToldSame
<1>2. Told(t, n + 1, p, b, link'[p])
  BY <1>1, <1>a, ToldNext
<1>3. ASSUME NEW i \in 1..(n + 1), t[i] = L2Learn(p) PROVE Told(t, i - 1, p, b, TRUE)
  <2>1. CASE i = n + 1
    <3>1. link[p] = TRUE
      BY <1>3, <1>a, <2>1
    <3>2. i - 1 = n
      BY <2>1
    <3>. QED  BY <1>1, <3>1, <3>2
  <2>2. CASE i # n + 1
    <3>1. i \in 1..n /\ i - 1 \in Nat /\ \A k \in 1..(i - 1) : k \in 1..n
      BY <2>2
    <3>2. Told(s, i - 1, p, b, TRUE)
      BY <1>0, <1>a, <1>3, <3>1
    <3>3. \A k \in 1..(i - 1) : s[k] = t[k]
      BY <1>a, <3>1
    <3>. QED  BY <3>1, <3>2, <3>3, ToldSame
  <2>. QED  BY <2>1, <2>2
<1>. QED  BY <1>2, <1>3 DEF t, b

\* The connection ends, with its last line or without it.
LEMMA StreamEnds ==
    ASSUME StreamTrue, eof', UNCHANGED <<seen, garbled>>, NEW n \in Nat,
           Len(Stream') = n, n <= Len(Stream), Len(Stream) \in Nat,
           \A i \in 1..n : Stream'[i] = Stream[i]
    PROVE  StreamTrue'
<1>. SUFFICES ASSUME ~garbled, NEW p \in Ports, NEW i \in 1..n, Stream'[i] = L2Learn(p)
              PROVE  Told(Stream', i - 1, p, seen[p], TRUE)
  BY DEF StreamTrue
<1>1. i \in 1..Len(Stream) /\ i - 1 \in Nat /\ \A k \in 1..(i - 1) : k \in 1..n
  OBVIOUS
<1>2. Told(Stream, i - 1, p, seen[p], TRUE)
  BY <1>1 DEF StreamTrue
<1>3. \A k \in 1..(i - 1) : Stream[k] = Stream'[k]
  BY <1>1
<1>. HIDE DEF Stream
<1>. QED  BY <1>1, <1>2, <1>3, ToldSame

\* The client takes the first line and notes the state it names.
LEMMA StreamPop ==
    ASSUME StreamTrue, UNCHANGED <<link, eof, garbled>>, NEW n \in Nat,
           Len(Stream) = n + 1, Len(Stream') = n, \A i \in 1..n : Stream'[i] = Stream[i + 1],
           \A p \in Ports : seen'[p] = IF About(Stream[1], p) THEN Says(Stream[1], p) ELSE seen[p]
    PROVE  StreamTrue'
<1>. SUFFICES ASSUME ~garbled, NEW p \in Ports
              PROVE  /\ \A i \in 1..n :
                          Stream'[i] = L2Learn(p) => Told(Stream', i - 1, p, seen'[p], TRUE)
                     /\ ~eof => Told(Stream', n, p, seen'[p], link[p])
  BY DEF StreamTrue
<1>. DEFINE s == Stream
            t == Stream'
            b == seen[p]
            c == seen'[p]
<1>0. /\ \A i \in 1..(n + 1) : s[i] = L2Learn(p) => Told(s, i - 1, p, b, TRUE)
      /\ ~eof => Told(s, n + 1, p, b, link[p])
  BY DEF StreamTrue
<1>a. /\ \A i \in 1..n : t[i] = s[i + 1]
      /\ c = IF About(s[1], p) THEN Says(s[1], p) ELSE b
  OBVIOUS
<1>. HIDE DEF s, t, b, c
<1>1. ~eof => Told(t, n, p, c, link[p])
  BY <1>0, <1>a, ToldPop
<1>2. ASSUME NEW i \in 1..n, t[i] = L2Learn(p) PROVE Told(t, i - 1, p, c, TRUE)
  <2>1. i + 1 \in 1..(n + 1) /\ i - 1 \in Nat /\ (i + 1) - 1 = (i - 1) + 1
    OBVIOUS
  <2>2. Told(s, (i - 1) + 1, p, b, TRUE)
    BY <1>0, <1>a, <1>2, <2>1
  <2>3. \A k \in 1..(i - 1) : t[k] = s[k + 1]
    BY <1>a
  <2>. QED  BY <1>a, <2>1, <2>2, <2>3, ToldPop
<1>. QED  BY <1>1, <1>2 DEF t, c

\* A status is replaced by one change for each port.
LEMMA StreamSpread ==
    ASSUME StreamTrue, UNCHANGED <<link, eof, garbled, seen>>, NEW n \in Nat,
           NEW st \in [Ports -> BOOLEAN],
           Len(Stream) = n + 1, Stream[1] = PortsStatus(st),
           Len(Stream') = Cardinality(Ports) + n,
           \A i \in 1..Cardinality(Ports) : Stream'[i] = PerPort(st)[i],
           \A i \in 1..n : Stream'[Cardinality(Ports) + i] = Stream[i + 1]
    PROVE  StreamTrue'
<1>. DEFINE N == Cardinality(Ports)
<1>. N \in Nat
  BY PerPortIs
<1>. SUFFICES ASSUME ~garbled, NEW p \in Ports
              PROVE  /\ \A i \in 1..(N + n) :
                          Stream'[i] = L2Learn(p) => Told(Stream', i - 1, p, seen[p], TRUE)
                     /\ ~eof => Told(Stream', N + n, p, seen[p], link[p])
  BY DEF StreamTrue
<1>. DEFINE s == Stream
            t == Stream'
            b == seen[p]
<1>0. /\ \A i \in 1..(n + 1) : s[i] = L2Learn(p) => Told(s, i - 1, p, b, TRUE)
      /\ ~eof => Told(s, n + 1, p, b, link[p])
  BY DEF StreamTrue
<1>a. /\ s[1] = PortsStatus(st)
      /\ \A i \in 1..N : t[i] = PerPort(st)[i]
      /\ \A i \in 1..n : t[N + i] = s[i + 1]
  OBVIOUS
<1>. HIDE DEF s, t, b
<1>1. ~eof => Told(t, N + n, p, b, link[p])
  BY <1>0, <1>a, ToldSpread
<1>2. ASSUME NEW i \in 1..(N + n), t[i] = L2Learn(p) PROVE Told(t, i - 1, p, b, TRUE)
  <2>1. i > N
    <3>. SUFFICES ASSUME i <= N PROVE FALSE
      OBVIOUS
    <3>1. PICK q \in Ports : PerPort(st)[i] = PortChange(q, st[q])
      BY PerPortIs
    <3>. QED  BY <1>2, <1>a, <3>1, LineKinds
  <2>. DEFINE m == (i - N) - 1
  <2>2. m \in Nat /\ m + 1 \in 1..n /\ N + (m + 1) = i /\ N + m = i - 1 /\ \A k \in 1..m : k \in 1..n
    <3>1. i \in Nat /\ N \in Nat /\ i <= N + n
      OBVIOUS
    <3>. HIDE DEF N
    <3>2. m \in Nat /\ m + 1 \in 1..n
      BY <2>1, <3>1
    <3>3. N + (m + 1) = i /\ N + m = i - 1
      BY <3>1
    <3>. HIDE DEF m
    <3>4. \A k \in 1..m : k \in 1..n
      BY <3>2
    <3>. QED  BY <3>2, <3>3, <3>4
  <2>. HIDE DEF m
  <2>3. t[i] = s[(m + 1) + 1]
    BY <1>a, <2>2
  <2>4. (m + 1) + 1 \in 1..(n + 1) /\ ((m + 1) + 1) - 1 = m + 1
    BY <2>2
  <2>5. Told(s, m + 1, p, b, TRUE)
    BY <1>0, <1>2, <2>3, <2>4
  <2>6. \A k \in 1..m : t[N + k] = s[k + 1]
    BY <1>a, <2>2
  <2>7. Told(t, N + m, p, b, TRUE)
    BY <1>a, <2>2, <2>5, <2>6, ToldSpread
  <2>. QED  BY <2>2, <2>7
<1>. QED  BY <1>1, <1>2 DEF t, b

StreamInv == StreamType /\ StreamTrue

\* The controller writes a line while its end is open; otherwise the line is
\* lost.
LEMMA WriteStep ==
    ASSUME StreamInv, NEW l \in Lines, Write(l), UNCHANGED <<buffer, seen, eof, garbled>>,
           \A p \in Ports : /\ About(l, p) => Says(l, p) = link'[p]
                            /\ ~About(l, p) => link'[p] = link[p]
                            /\ l = L2Learn(p) => link[p] = TRUE
    PROVE  StreamInv'
<1>. StreamType /\ StreamTrue
  BY DEF StreamInv
<1>1. CASE eof
  <2>1. wire' = wire
    BY <1>1 DEF Write
  <2>2. StreamType' /\ UNCHANGED Stream
    BY <2>1 DEF StreamType, Stream
  <2>. QED  BY <1>1, <2>2, StreamSame DEF StreamInv
<1>2. CASE ~eof
  <2>. DEFINE n == Len(Stream)
  <2>1. wire' = Append(wire, l)
    BY <1>2 DEF Write
  <2>2. StreamType'
    BY <2>1 DEF StreamType
  <2>3. Len(wire') = Len(wire) + 1 /\ wire'[Len(wire) + 1] = l
        /\ \A i \in 1..Len(wire) : wire'[i] = wire[i]
    BY <2>1 DEF StreamType
  <2>4. n \in Nat /\ Len(Stream') = n + 1 /\ Stream'[n + 1] = l
    <3>1. Len(wire) + 1 \in 1..Len(wire')
      BY <2>3, StreamIs
    <3>2. Stream'[Len(buffer) + (Len(wire) + 1)] = l
      BY <2>2, <2>3, <3>1, NextStreamIs
    <3>3. Len(buffer) \in Nat /\ Len(wire) \in Nat /\ n = Len(buffer) + Len(wire)
      BY StreamIs
    <3>4. Len(Stream') = Len(buffer) + Len(wire')
      BY <2>2, NextStreamIs
    <3>. HIDE DEF n
    <3>5. n \in Nat /\ n + 1 = Len(buffer) + (Len(wire) + 1)
      BY <3>3
    <3>6. Len(Stream') = n + 1
      BY <2>3, <3>4, <3>5
    <3>. QED  BY <3>2, <3>5, <3>6
  <2>5. \A i \in 1..n : Stream'[i] = Stream[i]
    <3>. SUFFICES ASSUME NEW i \in 1..n PROVE Stream'[i] = Stream[i]
      OBVIOUS
    <3>1. CASE i <= Len(buffer)
      BY <2>2, <3>1, StreamIs, NextStreamIs
    <3>2. CASE i > Len(buffer)
      <4>. DEFINE k == i - Len(buffer)
      <4>1. k \in 1..Len(wire) /\ Len(buffer) + k = i /\ k \in 1..Len(wire')
        BY <2>3, <3>2, StreamIs
      <4>. HIDE DEF k
      <4>2. Stream[i] = wire[k]
        BY <4>1, StreamIs
      <4>3. Stream'[i] = wire'[k]
        BY <2>2, <4>1, NextStreamIs
      <4>. QED  BY <2>3, <4>1, <4>2, <4>3
    <3>. QED  BY <3>1, <3>2, StreamIs
  <2>. HIDE DEF n
  <2>6. n = Len(Stream)
    BY DEF n
  <2>. QED  BY <1>2, <2>2, <2>4, <2>5, <2>6, StreamAppend DEF StreamInv
<1>. QED  BY <1>1, <1>2

\* The controller ends, in the middle of its last line or not.
LEMMA RestartStep == ASSUME StreamInv, Restart PROVE StreamInv'
<1>. StreamType /\ StreamTrue
  BY DEF StreamInv
<1>1. UNCHANGED <<buffer, seen, garbled, link>> /\ eof' = TRUE
  BY DEF Restart, client
<1>2. CASE wire' = wire
  <2>1. StreamType' /\ UNCHANGED Stream
    BY <1>1, <1>2 DEF StreamType, Stream
  <2>. QED  BY <1>1, <2>1, StreamSame DEF StreamInv
<1>3. CASE wire # <<>> /\ wire' = SubSeq(wire, 1, Len(wire) - 1)
  <2>1. /\ wire' \in Seq(Lines) /\ Len(wire') = Len(wire) - 1
        /\ \A i \in 1..(Len(wire) - 1) : wire'[i] = wire[i]
    <3>. DEFINE n == Len(wire) - 1
    <3>1. n \in Nat /\ n <= Len(wire) /\ wire \in Seq(Lines)
      BY <1>3 DEF StreamType
    <3>2. wire' = SubSeq(wire, 1, n)
      BY <1>3
    <3>. HIDE DEF n
    <3>3. Len(wire') = n /\ \A i \in 1..n : wire'[i] = wire[i]
      BY <3>1, <3>2
    <3>4. wire' \in Seq(Lines)
      BY <3>1, <3>2
    <3>. QED  BY <3>3, <3>4 DEF n
  <2>2. StreamType'
    BY <1>1, <2>1 DEF StreamType
  <2>3. Len(Stream') \in Nat /\ Len(Stream') <= Len(Stream) /\ Len(Stream) \in Nat
    BY <1>1, <2>1, <2>2, StreamIs, NextStreamIs
  <2>4. ASSUME NEW i \in 1..Len(Stream') PROVE Stream'[i] = Stream[i]
    <3>1. CASE i <= Len(buffer)
      BY <1>1, <2>2, <3>1, StreamIs, NextStreamIs
    <3>2. CASE i > Len(buffer)
      <4>. DEFINE k == i - Len(buffer)
      <4>1. k \in 1..(Len(wire) - 1) /\ Len(buffer) + k = i
        BY <1>1, <2>1, <2>2, <3>2, StreamIs, NextStreamIs
      <4>2. k \in 1..Len(wire) /\ k \in 1..Len(wire')
        BY <2>1, <4>1, StreamIs
      <4>. HIDE DEF k
      <4>. QED  BY <1>1, <2>1, <2>2, <4>1, <4>2, StreamIs, NextStreamIs
    <3>. QED  BY <2>3, <3>1, <3>2, StreamIs
  <2>. QED  BY <1>1, <2>2, <2>3, <2>4, StreamEnds DEF StreamInv
<1>. QED  BY <1>2, <1>3 DEF Restart

\* The client takes its first line.
LEMMA PopStep ==
    ASSUME StreamInv, buffer # <<>>, buffer' = Tail(buffer),
           UNCHANGED <<wire, link, eof, garbled>>,
           \A p \in Ports : seen'[p] = IF About(Line, p) THEN Says(Line, p) ELSE seen[p]
    PROVE  StreamInv'
<1>. StreamType /\ StreamTrue
  BY DEF StreamInv
<1>. DEFINE m == Len(buffer)
            n == Len(buffer') + Len(wire)
<1>1. /\ m \in Nat \ {0} /\ Len(buffer') = m - 1 /\ Line = buffer[1]
      /\ \A i \in 1..(m - 1) : buffer'[i] = buffer[i + 1]
  BY DEF StreamType, Line
<1>2. StreamType'
  BY DEF StreamType
<1>3. /\ n \in Nat /\ Len(Stream) = n + 1 /\ Len(Stream') = n /\ Stream[1] = Line
      /\ Len(wire) \in Nat
  BY <1>1, <1>2, StreamIs, NextStreamIs
<1>4. ASSUME NEW i \in 1..n PROVE Stream'[i] = Stream[i + 1]
  <2>1. CASE i <= m - 1
    <3>1. i \in 1..(m - 1) /\ i + 1 \in 1..m
      BY <1>1, <2>1
    <3>. QED  BY <1>1, <1>2, <3>1, StreamIs, NextStreamIs
  <2>2. CASE i > m - 1
    <3>. DEFINE k == i - (m - 1)
    <3>1. k \in 1..Len(wire) /\ (m - 1) + k = i /\ m + k = i + 1
      BY <1>1, <1>3, <2>2
    <3>. HIDE DEF k
    <3>. QED  BY <1>1, <1>2, <3>1, StreamIs, NextStreamIs
  <2>. QED  BY <1>1, <1>3, <2>1, <2>2
<1>. HIDE DEF n
<1>. QED  BY <1>2, <1>3, <1>4, StreamPop DEF StreamInv

\* The client replaces a status by changes.
LEMMA SpreadStep == ASSUME StreamInv, FilterPortsStatus PROVE StreamInv'
<1>. StreamType /\ StreamTrue
  BY DEF StreamInv
<1>. DEFINE m == Len(buffer)
            N == Cardinality(Ports)
            n == (m - 1) + Len(wire)
            tail == Tail(buffer)
<1>0. /\ buffer # <<>> /\ Line.type = "PORTS_STATUS" /\ buffer' = PerPort(Line.status) \o tail
      /\ UNCHANGED <<wire, link, eof, garbled, seen>>
  BY DEF FilterPortsStatus, HasLine, switch, socket
<1>1. /\ m \in Nat \ {0} /\ Line = buffer[1] /\ Line \in Lines
      /\ tail \in Seq(Lines) /\ Len(tail) = m - 1 /\ \A i \in 1..(m - 1) : tail[i] = buffer[i + 1]
  BY <1>0 DEF StreamType, Line
<1>2. PICK st \in [Ports -> BOOLEAN] : Line = PortsStatus(st) /\ Line.status = st
  BY <1>0, <1>1, LineCases
<1>. HIDE DEF m, N, tail
<1>3. N \in Nat /\ PerPort(st) \in Seq(Lines) /\ Len(PerPort(st)) = N
  BY PerPortIs DEF N
<1>4. /\ buffer' \in Seq(Lines) /\ Len(buffer') = N + (m - 1)
      /\ \A i \in 1..N : buffer'[i] = PerPort(st)[i]
      /\ \A i \in 1..(m - 1) : buffer'[N + i] = tail[i]
  BY <1>0, <1>1, <1>2, <1>3
<1>5. StreamType'
  BY <1>0, <1>4 DEF StreamType
<1>6. n \in Nat /\ Len(Stream) = n + 1 /\ Stream[1] = PortsStatus(st) /\ Len(Stream') = N + n
  <2>1. m = Len(buffer) /\ Len(wire) \in Nat /\ Len(Stream) = m + Len(wire)
    BY StreamIs DEF m
  <2>2. Len(Stream') = (N + (m - 1)) + Len(wire)
    BY <1>0, <1>4, <1>5, NextStreamIs
  <2>3. 1 \in 1..m
    BY <1>1
  <2>4. Stream[1] = buffer[1]
    BY <2>1, <2>3, StreamIs
  <2>5. n \in Nat /\ Len(Stream) = n + 1 /\ Len(Stream') = N + n
    BY <1>1, <1>3, <2>1, <2>2
  <2>. QED  BY <1>1, <1>2, <2>4, <2>5
<1>7. \A i \in 1..N : Stream'[i] = PerPort(st)[i]
  <2>1. \A i \in 1..N : i \in 1..Len(buffer')
    BY <1>1, <1>3, <1>4
  <2>. QED  BY <1>4, <1>5, <2>1, NextStreamIs
<1>8. ASSUME NEW i \in 1..n PROVE Stream'[N + i] = Stream[i + 1]
  <2>0. Len(wire) \in Nat /\ m = Len(buffer)
    BY StreamIs DEF m
  <2>1. CASE i <= m - 1
    <3>1. i \in 1..(m - 1) /\ i + 1 \in 1..m /\ N + i \in 1..Len(buffer')
      BY <1>1, <1>3, <1>4, <2>1
    <3>2. Stream'[N + i] = buffer'[N + i]
      BY <1>5, <3>1, NextStreamIs
    <3>3. Stream[i + 1] = buffer[i + 1]
      BY <2>0, <3>1, StreamIs
    <3>. QED  BY <1>1, <1>4, <3>1, <3>2, <3>3
  <2>2. CASE i > m - 1
    <3>. DEFINE k == i - (m - 1)
    <3>1. k \in 1..Len(wire) /\ (N + (m - 1)) + k = N + i /\ m + k = i + 1
      BY <1>1, <1>3, <2>0, <2>2
    <3>. HIDE DEF k
    <3>2. Stream'[N + i] = wire[k]
      BY <1>0, <1>4, <1>5, <3>1, NextStreamIs
    <3>3. Stream[i + 1] = wire[k]
      BY <2>0, <3>1, StreamIs
    <3>. QED  BY <3>2, <3>3
  <2>. QED  BY <1>1, <2>0, <2>1, <2>2
<1>. HIDE DEF n
<1>9. StreamTrue'
  BY <1>0, <1>6, <1>7, <1>8, StreamSpread DEF N
<1>. QED  BY <1>5, <1>9 DEF StreamInv

\* Lines go from the socket to the buffer; the first may be spoiled by a torn
\* one before it.
LEMMA ReceiveStep == ASSUME StreamInv, torn \in BOOLEAN, Receive PROVE StreamInv'
<1>. StreamType /\ StreamTrue
  BY DEF StreamInv
<1>0. /\ buffer = <<>> /\ UNCHANGED <<link, eof, seen>> /\ garbled' = (garbled \/ torn)
  BY DEF Receive, NoLine, switch
<1>1. PICK n \in 1..Len(wire) :
        /\ buffer' = IF torn THEN <<BadLine>> \o SubSeq(wire, 2, n) ELSE SubSeq(wire, 1, n)
        /\ wire' = SubSeq(wire, n + 1, Len(wire))
  BY DEF Receive
<1>2. /\ Len(wire) \in Nat /\ wire \in Seq(Lines) /\ n \in Nat /\ 1 <= n /\ n <= Len(wire)
  BY DEF StreamType
<1>3. /\ wire' \in Seq(Lines) /\ Len(wire') = Len(wire) - n
      /\ \A i \in 1..(Len(wire) - n) : wire'[i] = wire[n + i]
  BY <1>1, <1>2
<1>4. CASE torn
  <2>1. SubSeq(wire, 2, n) \in Seq(Lines)
    BY <1>2
  <2>2. buffer' \in Seq(Lines)
    BY <1>1, <1>4, <2>1, LinesHas
  <2>. QED  BY <1>0, <1>3, <1>4, <2>2 DEF StreamInv, StreamType, StreamTrue
<1>5. CASE ~torn
  <2>1. /\ buffer' \in Seq(Lines) /\ Len(buffer') = n /\ \A i \in 1..n : buffer'[i] = wire[i]
    BY <1>1, <1>2, <1>5
  <2>2. StreamType'
    BY <1>3, <2>1 DEF StreamType
  <2>3. Stream \in Seq(Lines) /\ Stream' \in Seq(Lines) /\ Len(Stream') = Len(Stream)
        /\ Len(Stream) = Len(wire) /\ \A i \in 1..Len(wire) : Stream[i] = wire[i]
    <3>1. Len(buffer) = 0
      BY <1>0
    <3>. QED  BY <1>2, <1>3, <2>1, <2>2, <3>1, StreamIs, NextStreamIs
  <2>4. ASSUME NEW i \in 1..Len(wire) PROVE Stream'[i] = wire[i]
    <3>1. CASE i <= n
      <4>1. i \in 1..n
        BY <1>2, <3>1
      <4>. QED  BY <2>1, <2>2, <4>1, NextStreamIs
    <3>2. CASE i > n
      <4>. DEFINE k == i - n
      <4>1. k \in 1..(Len(wire) - n) /\ n + k = i
        BY <1>2, <3>2
      <4>. HIDE DEF k
      <4>. QED  BY <1>3, <2>1, <2>2, <4>1, NextStreamIs
    <3>. QED  BY <1>2, <3>1, <3>2
  <2>. HIDE DEF Stream
  <2>5. Stream' = Stream
    BY <2>3, <2>4
  <2>. QED  BY <1>0, <2>2, <2>5, StreamSame DEF StreamInv
<1>. QED  BY <1>4, <1>5

\* A new connection starts with the state of every port.
LEMMA ReconnectStep ==
    ASSUME StreamType, PortType, buffer = <<>>, Reconnect PROVE StreamInv'
<1>1. buffer' = <<>> /\ wire' = <<PortsStatus(link)>> /\ link' = link
  BY DEF Reconnect, switch
<1>2. PortsStatus(link) \in Lines
  BY LinesHas DEF PortType
<1>3. StreamType'
  BY <1>1, <1>2 DEF StreamType
<1>4. Len(Stream') = 1 /\ Stream'[1] = PortsStatus(link)
  <2>1. Len(buffer') = 0 /\ Len(wire') = 1 /\ wire'[1] = PortsStatus(link)
    BY <1>1
  <2>. QED  BY <1>3, <2>1, NextStreamIs
<1>5. ASSUME NEW p \in Ports PROVE Told(Stream', 1, p, seen'[p], link'[p])
  <2>1. About(Stream'[1], p) /\ Says(Stream'[1], p) = link'[p]
    BY <1>1, <1>4, StatusSays
  <2>. QED  BY <2>1 DEF Told
<1>6. \A p \in Ports, i \in 1..Len(Stream') : Stream'[i] # L2Learn(p)
  BY <1>4, LineKinds
<1>. QED  BY <1>3, <1>4, <1>5, <1>6 DEF StreamInv, StreamTrue

\* The steps of the switch and its controller.
LEMMA SwitchSteps == ASSUME StreamInv, PortType, Switch PROVE StreamInv'
<1>1. ASSUME NEW p \in Ports, LinkChange(p) PROVE StreamInv'
  <2>. DEFINE l == PortChange(p, ~link[p])
  <2>1. l \in Lines /\ Write(l) /\ UNCHANGED <<buffer, seen, eof, garbled>>
    BY <1>1, LinesHas DEF LinkChange, client, PortType
  <2>2. link' = [link EXCEPT ![p] = ~@]
    BY <1>1 DEF LinkChange
  <2>3. \A q \in Ports : /\ About(l, q) <=> p = q
                         /\ Says(l, q) = ~link[p]
                         /\ l # L2Learn(q)
    <3>. DEFINE up == ~link[p]
    <3>1. l = PortChange(p, up) /\ up = ~link[p]
      OBVIOUS
    <3>. HIDE DEF up, l
    <3>2. \A q \in Ports : (About(l, q) <=> p = q) /\ Says(l, q) = up
      <4>. SUFFICES ASSUME NEW q \in Ports
                    PROVE  (About(l, q) <=> p = q) /\ Says(l, q) = up
        OBVIOUS
      <4>1. (About(PortChange(p, up), q) <=> p = q) /\ Says(PortChange(p, up), q) = up
        BY ChangeSays
      <4>. QED  BY <3>1, <4>1
    <3>3. \A q \in Ports : l # L2Learn(q)
      BY <3>1, LineKinds
    <3>. QED  BY <3>1, <3>2, <3>3
  <2>. HIDE DEF l
  <2>4. \A q \in Ports : /\ About(l, q) => Says(l, q) = link'[q]
                         /\ ~About(l, q) => link'[q] = link[q]
                         /\ l = L2Learn(q) => link[q] = TRUE
    BY <2>2, <2>3 DEF PortType
  <2>. QED  BY <2>1, <2>4, WriteStep
<1>2. ASSUME NEW p \in Ports, Learn(p) PROVE StreamInv'
  <2>. DEFINE l == L2Learn(p)
  <2>1. l \in Lines /\ Write(l) /\ UNCHANGED <<buffer, seen, eof, garbled, link>>
    BY <1>2, LinesHas DEF Learn, client
  <2>2. link[p] = TRUE
    BY <1>2 DEF Learn, PortType
  <2>3. \A q \in Ports : ~About(l, q) /\ (l = L2Learn(q) => q = p)
    BY OthersSilent, LineKinds
  <2>. HIDE DEF l
  <2>. QED  BY <2>1, <2>2, <2>3, WriteStep
<1>3. CASE Reconfigure
  <2>1. ConfigChange \in Lines /\ Write(ConfigChange)
        /\ UNCHANGED <<buffer, seen, eof, garbled, link>>
    BY <1>3, LinesHas DEF Reconfigure, client
  <2>. QED  BY <2>1, WriteStep, OthersSilent, LineKinds
<1>. QED  BY <1>1, <1>2, <1>3, RestartStep DEF Switch

\* Every step keeps the stream true.
LEMMA StreamNext ==
    ASSUME StreamInv, PortType, torn \in BOOLEAN, [Next]_vars PROVE StreamInv'
<1>. StreamType /\ StreamTrue
  BY DEF StreamInv
<1>1. CASE UNCHANGED <<wire, buffer, seen, garbled, link, eof>>
  <2>1. StreamType' /\ UNCHANGED Stream
    BY <1>1 DEF StreamType, Stream
  <2>. QED  BY <1>1, <2>1, StreamSame DEF StreamInv
<1>2. CASE Switch
  BY <1>2, SwitchSteps
<1>3. CASE Timers
  BY <1>1, <1>3 DEF Timers, TimerExpires, TimerFires, LateTimerFires, switch, socket
<1>4. CASE Handler
  <2>1. CASE FilterPortChange
    <3>1. /\ Line \in Lines /\ Line.type = "PORT_CHANGE" /\ buffer # <<>> /\ buffer' = Tail(buffer)
          /\ UNCHANGED <<wire, link, eof, garbled>>
          /\ seen' = [seen EXCEPT ![Line.port] = Line.active]
      <4>1. buffer # <<>> /\ Line \in Lines
        BY <2>1 DEF FilterPortChange, HasLine, Line, StreamType
      <4>2. seen' = [seen EXCEPT ![Line.port] = Line.active]
        BY <2>1 DEF FilterPortChange, debounce_port_event
      <4>. QED  BY <2>1, <4>1, <4>2 DEF FilterPortChange, switch, socket
    <3>2. PICK p \in Ports, a \in BOOLEAN :
             Line = PortChange(p, a) /\ Line.port = p /\ Line.active = a
      BY <3>1, LineCases
    <3>3. \A q \in Ports : (About(Line, q) <=> p = q) /\ Says(Line, q) = a
      <4>. SUFFICES ASSUME NEW q \in Ports
                    PROVE  (About(Line, q) <=> p = q) /\ Says(Line, q) = a
        OBVIOUS
      <4>1. (About(PortChange(p, a), q) <=> p = q) /\ Says(PortChange(p, a), q) = a
        BY ChangeSays
      <4>. QED  BY <3>2, <4>1
    <3>. HIDE DEF Line
    <3>4. \A q \in Ports : seen'[q] = IF About(Line, q) THEN Says(Line, q) ELSE seen[q]
      BY <3>1, <3>2, <3>3 DEF PortType
    <3>. QED  BY <3>1, <3>4, PopStep
  <2>2. CASE ReturnEvent \/ ParseError
    <3>1. /\ Line \in Lines /\ Line.type \in {"L2_LEARN", "CONFIG_CHANGE", "bad"}
          /\ buffer # <<>> /\ buffer' = Tail(buffer)
          /\ UNCHANGED <<wire, link, eof, garbled, seen>>
      BY <2>2 DEF ReturnEvent, ParseError, HasLine, Line, StreamType, switch, socket
    <3>2. \A q \in Ports : ~About(Line, q)
      BY <3>1, LineCases, OthersSilent
    <3>. HIDE DEF Line
    <3>. QED  BY <3>1, <3>2, PopStep
  <2>3. CASE Reconnect
    <3>1. buffer = <<>>
      BY <2>3 DEF Reconnect, AtEnd, NoLine
    <3>. QED  BY <2>3, <3>1, ReconnectStep
  <2>4. CASE CallHandler \/ NextDebounced \/ NoEvent \/ ReconnectFails \/ DeafCall \/ SocketError
    BY <1>1, <2>4 DEF CallHandler, NextDebounced, NoEvent, ReconnectFails, DeafCall, SocketError,
                      switch, socket, client
  <2>. QED  BY <1>4, <2>1, <2>2, <2>3, <2>4, SpreadStep, ReceiveStep DEF Handler
<1>. QED  BY <1>1, <1>2, <1>3, <1>4 DEF Next, vars, switch, socket, client

\* Every step keeps the types of the other variables.
LEMMA RestNext == ASSUME RestType, [Next]_vars PROVE RestType'
<1>1. CASE UNCHANGED vars
  BY <1>1 DEF RestType, vars, switch, socket, client, runner
<1>2. CASE Switch
  <2>1. UNCHANGED <<debounce, torn, garbled, faucet, monitored, sock, pc>>
    BY <1>2 DEF Switch, LinkChange, Learn, Reconfigure, Restart, client, runner
  <2>2. sent' \in 0..MaxChanges /\ restarts' \in 0..MaxRestarts
    BY <1>2, BoundsAssumption DEF Switch, LinkChange, Learn, Reconfigure, Restart, RestType
  <2>3. eof' \in BOOLEAN /\ cut' \in BOOLEAN
    BY <1>2 DEF Switch, LinkChange, Learn, Reconfigure, Restart, RestType
  <2>. QED  BY <2>1, <2>2, <2>3 DEF RestType
<1>3. CASE Timers
  BY <1>3 DEF Timers, TimerExpires, TimerFires, LateTimerFires, RestType, switch, socket, runner
<1>4. CASE Handler
  <2>1. UNCHANGED <<sent, restarts, debounce>>
    BY <1>4 DEF Handler, CallHandler, NextDebounced, FilterPortChange, FilterPortsStatus,
         ReturnEvent, ParseError, Receive, NoEvent, Reconnect, ReconnectFails, DeafCall,
         SocketError, switch
  <2>2. eof' \in BOOLEAN /\ cut' \in BOOLEAN /\ torn' \in BOOLEAN /\ garbled' \in BOOLEAN
    BY <1>4 DEF Handler, CallHandler, NextDebounced, FilterPortChange, FilterPortsStatus,
         ReturnEvent, ParseError, Receive, NoEvent, Reconnect, ReconnectFails, DeafCall,
         SocketError, socket, client, RestType
  <2>3. /\ faucet' \in BOOLEAN /\ monitored' \in BOOLEAN
        /\ sock' \in {"open", "unconnected", "none"} /\ pc' \in {"idle", "fresh", "parsed"}
    BY <1>4 DEF Handler, CallHandler, NextDebounced, FilterPortChange, FilterPortsStatus,
         ReturnEvent, ParseError, Receive, NoEvent, Reconnect, ReconnectFails, DeafCall,
         SocketError, socket, runner, RestType
  <2>. QED  BY <2>1, <2>2, <2>3 DEF RestType
<1>. QED  BY <1>1, <1>2, <1>3, <1>4 DEF Next
-----------------------------------------------------------------------------
\* The invariant holds at the start, when the controller has announced every
\* port and the client knows none.
LEMMA InitInv == Init => IInv
<1>. SUFFICES ASSUME Init PROVE IInv
  OBVIOUS
<1>1. PortType /\ TimerType /\ QueueType /\ TimersAgree
  BY DEF Init, PortType, TimerType, QueueType, TimersAgree, TimerStates
<1>2. RestType
  <2>1. sent \in 0..MaxChanges /\ restarts \in 0..MaxRestarts
    BY BoundsAssumption DEF Init
  <2>2. /\ eof \in BOOLEAN /\ cut \in BOOLEAN /\ debounce \in BOOLEAN /\ torn \in BOOLEAN
        /\ garbled \in BOOLEAN /\ faucet \in BOOLEAN /\ monitored \in BOOLEAN
    BY DEF Init
  <2>3. sock \in {"open", "unconnected", "none"} /\ pc \in {"idle", "fresh", "parsed"}
    BY DEF Init
  <2>. QED  BY <2>1, <2>2, <2>3 DEF RestType
<1>3. NothingForgotten
  BY DEF Init, NothingForgotten, LastDecided
<1>4. StreamType
  <2>1. PortsStatus(link) \in Lines
    BY <1>1, LinesHas DEF PortType
  <2>. QED  BY <2>1 DEF Init, StreamType
<1>5. Len(Stream) = 1 /\ Stream[1] = PortsStatus(link)
  <2>1. Len(buffer) = 0 /\ Len(wire) = 1 /\ wire[1] = PortsStatus(link)
    BY DEF Init
  <2>. QED  BY <1>4, <2>1, StreamIs
<1>6. ASSUME NEW p \in Ports PROVE Told(Stream, 1, p, seen[p], link[p])
  <2>1. About(Stream[1], p) /\ Says(Stream[1], p) = link[p]
    BY <1>5, StatusSays
  <2>. QED  BY <2>1 DEF Told
<1>7. StreamTrue
  <2>1. \A p \in Ports, i \in 1..Len(Stream) : Stream[i] # L2Learn(p)
    BY <1>5, LineKinds
  <2>. QED  BY <1>5, <1>6, <2>1 DEF StreamTrue
<1>. QED  BY <1>1, <1>2, <1>3, <1>4, <1>7 DEF IInv

\* Every step keeps it.
LEMMA NextInv == IInv /\ [Next]_vars => IInv'
<1>. SUFFICES ASSUME IInv, [Next]_vars PROVE IInv'
  OBVIOUS
<1>1. QueueInv /\ StreamInv /\ StreamType /\ PortType /\ RestType
      /\ debounce \in BOOLEAN /\ torn \in BOOLEAN
  BY DEF IInv, QueueInv, StreamInv, RestType
<1>2. QueueInv' /\ StreamInv' /\ RestType'
  BY <1>1, QueueNext, StreamNext, RestNext
<1>. QED  BY <1>2 DEF IInv, QueueInv, StreamInv

\* The inductive invariant is an invariant.
THEOREM Invariance == Spec => []IInv
BY InitInv, NextInv, PTL DEF Spec

\* Every variable of the event path keeps its type.
THEOREM TypeCorrect == Spec => []TypeOK
<1>1. IInv => TypeOK
  BY TypeGroups DEF IInv
<1>. QED  BY <1>1, Invariance, PTL

\* The last state the client was told of a port is the one the runner has or
\* will have next, or a timer is still to report it, unless a timer was
\* cancelled too late (_debounce_port_event).
THEOREM NothingIsForgotten == Spec => []NothingForgotten
<1>1. IInv => NothingForgotten
  BY DEF IInv
<1>. QED  BY <1>1, Invariance, PTL

\* A device is learned only on a port that the runner takes for active, unless
\* a line was torn by a restart or a timer was cancelled too late.
THEOREM LearnsOnActivePort == Spec => LearnOnActivePort
<1>1. IInv /\ [Next]_vars =>
        [(ReturnEvent /\ Line.type = "L2_LEARN" /\ ~raced[Line.port] /\ ~garbled)
            => known[Line.port]]_vars
  <2>. SUFFICES ASSUME IInv, ReturnEvent, Line.type = "L2_LEARN", ~raced[Line.port], ~garbled
                PROVE  known[Line.port]
    OBVIOUS
  <2>. PortType /\ StreamType /\ StreamTrue /\ TimersAgree /\ NothingForgotten
    BY DEF IInv
  <2>1. debounced_q = <<>> /\ buffer # <<>> /\ Line \in Lines /\ Line = buffer[1]
    BY DEF ReturnEvent, HasLine, Line, StreamType
  <2>2. PICK p \in Ports : Line = L2Learn(p) /\ Line.port = p
    BY <2>1, LineCases
  <2>3. 1 \in 1..Len(Stream) /\ Stream[1] = L2Learn(p)
    <3>1. 1 \in 1..Len(buffer)
      BY <2>1 DEF StreamType
    <3>2. Len(Stream) = Len(buffer) + Len(wire) /\ Len(buffer) \in Nat /\ Len(wire) \in Nat
      BY StreamIs
    <3>3. Stream[1] = buffer[1]
      BY <3>1, StreamIs
    <3>4. 1 \in 1..Len(Stream)
      BY <3>1, <3>2
    <3>5. Stream[1] = L2Learn(p)
      BY <2>1, <2>2, <3>3, Zenon
    <3>. QED  BY <3>4, <3>5
  <2>4. Told(Stream, 1 - 1, p, seen[p], TRUE)
    BY <2>3 DEF StreamTrue
  <2>5. seen[p] = TRUE
    BY <2>4 DEF Told
  <2>6. LastDecided(p, seen[p])
    BY <2>2, <2>5 DEF NothingForgotten
  <2>7. known[p] = seen[p]
    BY <2>1, <2>6 DEF LastDecided
  <2>. QED  BY <2>2, <2>5, <2>7
<1>. QED  BY <1>1, Invariance, PTL DEF Spec, LearnOnActivePort

\* Nothing about p is on its way: no line, no debounced event and no timer.
Settled(p) ==
    /\ ~eof /\ wire = <<>> /\ buffer = <<>> /\ debounced_q = <<>>
    /\ timers[p] \notin {"waiting", "expired"}

\* Whenever nothing is on its way any more, the runner knows the state that the
\* port really has, unless a line was torn or a timer cancelled too late.
THEOREM SettledIsRight ==
    Spec => [](\A p \in Ports : Settled(p) /\ ~garbled /\ ~raced[p] => known[p] = link[p])
<1>1. IInv => \A p \in Ports : Settled(p) /\ ~garbled /\ ~raced[p] => known[p] = link[p]
  <2>. SUFFICES ASSUME IInv, NEW p \in Ports, Settled(p), ~garbled, ~raced[p]
                PROVE  known[p] = link[p]
    OBVIOUS
  <2>1. Len(Stream) = 0
    <3>1. Len(buffer) = 0 /\ Len(wire) = 0
      BY DEF Settled
    <3>. QED  BY <3>1, StreamIs DEF IInv
  <2>2. Told(Stream, 0, p, seen[p], link[p])
    BY <2>1 DEF IInv, StreamTrue, Settled
  <2>3. seen[p] = link[p]
    BY <2>2 DEF Told
  <2>4. LastDecided(p, seen[p])
    BY DEF IInv, NothingForgotten, Settled
  <2>5. known[p] = seen[p]
    BY <2>4 DEF LastDecided, Settled
  <2>. QED  BY <2>3, <2>5
<1>. QED  BY <1>1, Invariance, PTL
=============================================================================
