---------------------------- MODULE StreamsProofs ----------------------------
(***************************************************************************)
(* Proofs about Streams, for every set of target sets, every number of     *)
(* tests and of subnets and whatever the processes behind the streams do:  *)
(* what is monitored is open, a set that is over leaves nothing open, and  *)
(* a search is answered once at most.                                      *)
(***************************************************************************)
EXTENDS Streams, FiniteSetTheorems, WellFoundedInduction, TLAPS

Entries == [fd : Fds, stream : Stream]
MonitorStates == [fd : [File -> {0} \cup Fds], callbacks : Seq(Entries)]
SetStates == [phase : {"new", "wait", "base", "monitor", "test", "done", "off"},
              remaining : Nat, subnets : 0..NumSubnets,
              asked : BOOLEAN, answers : Nat]

-----------------------------------------------------------------------------
(* The monitor: descriptors are not shared, and an entry is the descriptor *)
(* of its stream.                                                          *)
Sound(m) ==
    /\ m \in MonitorStates
    /\ \A f, h \in File : m.fd[f] = m.fd[h] /\ m.fd[f] # 0 => f = h
    /\ \A i \in DOMAIN m.callbacks : m.fd[m.callbacks[i].stream] = m.callbacks[i].fd
    /\ \A i, j \in DOMAIN m.callbacks : m.callbacks[i].fd = m.callbacks[j].fd => i = j

\* Every open stream outside X is monitored.
Watched(m, X) ==
    \A st \in Stream : m.fd[st] # 0 /\ st \notin X =>
        \E i \in DOMAIN m.callbacks : m.callbacks[i].stream = st

Unwatched(m, f) == \A i \in DOMAIN m.callbacks : m.callbacks[i].stream # f

Good(m) == Sound(m) /\ Watched(m, {})

\* From m to n the files in C are closed and nothing else happens to the files.
Closed(m, n, C) == \A f \in File : n.fd[f] = IF f \in C THEN 0 ELSE m.fd[f]

\* From m to n the file f is opened and nothing else happens to the files.
Opened(m, n, f) == n.fd[f] # 0 /\ \A h \in File : h # f => n.fd[h] = m.fd[h]

-----------------------------------------------------------------------------
(* What a target set has open, by where it stands. *)

\* A search that has a scan under way was asked for and is not answered yet.
SearchInv(fds, g, s) ==
    /\ s \in SetStates
    /\ ~s.asked => fds[<<"arp", g>>] = 0 /\ s.answers = 0
    /\ fds[<<"arp", g>>] # 0 => s.answers = 0
    /\ fds[<<"arp", g>>] = 0 => fds[<<"arp_log", g>>] = 0
    /\ s.answers <= 1

\* A test module runs in the test phase only, nothing is open before the set
\* starts, and nothing but a search after it ended.
PhaseInv(fds, g, s) ==
    /\ s.phase # "test" => fds[<<"module", g>>] = 0 /\ fds[<<"module_log", g>>] = 0
    /\ s.phase = "new" => \A f \in File : f[2] = g => fds[f] = 0
    /\ s.phase = "off" =>
         \A f \in File : f[2] = g /\ f[1] \notin {"arp", "arp_log"} => fds[f] = 0

SetInv(fds, g, s) == SearchInv(fds, g, s) /\ PhaseInv(fds, g, s)

IInv ==
    /\ Good(Now)
    /\ sets \in [Set -> SetStates]
    /\ \A g \in Set : SetInv(fd, g, sets[g])

\* What the code makes of m for the set g: only files of g are touched.
Fine(m, g, o) ==
    /\ Good(o.m)
    /\ \A f \in File : f[2] # g => o.m.fd[f] = m.fd[f]
    /\ SetInv(o.m.fd, g, o.set)

-----------------------------------------------------------------------------
(* Descriptors. *)

(* Every nonempty set of numbers has a least one: the intervals 1..n that *)
(* end in it are finite sets, and strict inclusion is well-founded there.  *)
LEMMA LeastNumber ==
    ASSUME NEW T \in SUBSET (Nat \ {0}), T # {}
    PROVE  \E n \in T : \A k \in T : n <= k
<1> DEFINE R == StrictSubsetOrdering(Nat)
           I == {1..n : n \in T}
<1>1. IsWellFoundedOn(R, FiniteSubsetsOf(Nat))
  BY FS_StrictSubsetOrderingWellFounded, Zenon
<1>2. I \subseteq FiniteSubsetsOf(Nat)
  <2>1. \A n \in T : IsFiniteSet(1..n)
    BY FS_Interval
  <2> QED BY <2>1 DEF FiniteSubsetsOf
<1>3. I # {}
  BY Zenon
<1> HIDE DEF R
<1>4. \E x \in I : \A y \in I : ~(<<y, x>> \in R)
  BY <1>1, <1>2, <1>3, WFMin, Zenon
<1>5. PICK n \in T : \A y \in I : ~(<<y, 1..n>> \in R)
  BY <1>4, Zenon
<1>6. ASSUME NEW k \in T, k < n PROVE FALSE
  <2>1. <<1..k, 1..n>> \notin R
    BY <1>5, Zenon
  <2>2. 1..k \in SUBSET Nat /\ 1..n \in SUBSET Nat /\ 1..k \subseteq 1..n
    BY <1>6
  <2>3. n \in 1..n /\ n \notin 1..k
    BY <1>6
  <2>4. 1..k # 1..n
    BY <2>3, Zenon
  <2> QED BY <2>1, <2>2, <2>4 DEF R, StrictSubsetOrdering
<1> QED BY <1>6

LEMMA FilesFinite == IsFiniteSet(File)
<1>0. \A S, x : IsFiniteSet(S) => IsFiniteSet(S \cup {x})
  BY FS_AddElement, Zenon
<1> DEFINE K1 == {} \cup {"scan"}
           K2 == K1 \cup {"dhcp"}
           K3 == K2 \cup {"arp"}
           K4 == K3 \cup {"tcpdump"}
           K5 == K4 \cup {"module"}
           L1 == {} \cup {"dhcp_log"}
           L2 == L1 \cup {"arp_log"}
           L3 == L2 \cup {"module_log"}
<1>1. IsFiniteSet(Kinds)
  <2>1. Kinds = K5
    BY DEF Kinds
  <2>2. IsFiniteSet(K1)
    BY <1>0, FS_EmptySet, Zenon
  <2>3. IsFiniteSet(K2)
    BY <1>0, <2>2, Zenon
  <2>4. IsFiniteSet(K3)
    BY <1>0, <2>3, Zenon
  <2>5. IsFiniteSet(K4)
    BY <1>0, <2>4, Zenon
  <2>6. IsFiniteSet(K5)
    BY <1>0, <2>5, Zenon
  <2> HIDE DEF K5
  <2> QED BY <2>1, <2>6
<1>2. IsFiniteSet({"dhcp_log", "arp_log", "module_log"})
  <2>1. {"dhcp_log", "arp_log", "module_log"} = L3
    OBVIOUS
  <2>2. IsFiniteSet(L1)
    BY <1>0, FS_EmptySet, Zenon
  <2>3. IsFiniteSet(L2)
    BY <1>0, <2>2, Zenon
  <2>4. IsFiniteSet(L3)
    BY <1>0, <2>3, Zenon
  <2> HIDE DEF L3
  <2> QED BY <2>1, <2>4
<1>3. IsFiniteSet(Stream)
  BY <1>1, StreamsAssumption, FS_Product DEF Stream
<1>4. IsFiniteSet(Logs)
  BY <1>2, StreamsAssumption, FS_Product DEF Logs
<1> QED BY <1>3, <1>4, FS_Union DEF File

(* As long as a file is closed a descriptor is free for it, and there is a *)
(* lowest one.                                                             *)
LEMMA FreeDescriptor ==
    ASSUME NEW fds \in [File -> {0} \cup Fds], NEW f \in File, fds[f] = 0
    PROVE  LowestFree(fds) \in Fds /\ \A h \in File : fds[h] # LowestFree(fds)
<1> DEFINE Free == {n \in Fds : \A h \in File : fds[h] # n}
           Used == {h \in File : fds[h] # 0}
           map == [h \in Used |-> fds[h]]
           N == Cardinality(File)
<1>1. N \in Nat
  BY FilesFinite, FS_CardinalityType
<1>2. ASSUME Free = {} PROVE FALSE
  <2>1. map \in Surjection(Used, Fds)
    <3>1. map \in [Used -> Fds]
      OBVIOUS
    <3>2. ASSUME NEW n \in Fds PROVE \E h \in Used : map[h] = n
      <4>1. n # 0
        BY <1>1 DEF Fds
      <4>2. PICK h \in File : fds[h] = n
        BY <1>2
      <4> QED BY <4>1, <4>2
    <3> QED BY <3>1, <3>2 DEF Surjection
  <2>2. Used \subseteq File \ {f}
    OBVIOUS
  <2>3. IsFiniteSet(File \ {f}) /\ Cardinality(File \ {f}) = N - 1
    BY FilesFinite, FS_RemoveElement
  <2>4. IsFiniteSet(Used) /\ Cardinality(Used) <= Cardinality(File \ {f})
    BY <2>2, <2>3, FS_Subset
  <2>5. Cardinality(Fds) <= Cardinality(Used)
    BY <2>1, <2>4, FS_Surjection
  <2>6. Cardinality(Fds) = N
    <3> HIDE DEF N
    <3> QED BY <1>1, FS_Interval DEF Fds, N
  <2>7. Cardinality(Used) \in Nat
    BY <2>4, FS_CardinalityType
  <2> QED BY <1>1, <2>3, <2>4, <2>5, <2>6, <2>7
<1>3. Free \in SUBSET (Nat \ {0})
  BY <1>1 DEF Fds
<1>4. PICK n \in Free : \A k \in Free : n <= k
  <2> HIDE DEF Free
  <2> QED BY <1>2, <1>3, LeastNumber
<1>5. n \in Fds /\ \A h \in File : fds[h] # n
  BY <1>4
<1>6. ASSUME NEW k \in 1..(n - 1) PROVE \E h \in File : fds[h] = k
  <2>1. k \in Fds /\ ~(n <= k)
    BY <1>1, <1>5 DEF Fds
  <2> QED BY <1>4, <2>1
<1>7. \E x \in Fds : /\ \A h \in File : fds[h] # x
                     /\ \A k \in 1..(x - 1) : \E h \in File : fds[h] = k
  BY <1>5, <1>6
<1> QED BY <1>7 DEF LowestFree

-----------------------------------------------------------------------------
(* The operations of the monitor. *)

LEMMA FileNames ==
    ASSUME NEW g \in Set
    PROVE  /\ \A k \in {"scan", "dhcp", "arp", "tcpdump", "module"} :
                <<k, g>> \in Stream /\ <<k, g>> \in File
           /\ \A k \in {"dhcp_log", "arp_log", "module_log"} :
                <<k, g>> \in Logs /\ <<k, g>> \in File
BY DEF File, Stream, Logs, Kinds

LEMMA LogsAreNoStreams == \A f \in Logs : f \in File /\ f \notin Stream
BY DEF File, Stream, Logs, Kinds

LEMMA StreamsAreFiles == \A f \in Stream : f \in File
BY DEF File

LEMMA DescriptorsArePositive == 0 \notin Fds
BY FilesFinite, FS_CardinalityType DEF Fds

LEMMA OpenFields ==
    ASSUME NEW m \in MonitorStates, NEW f \in File
    PROVE  /\ open(m, f).fd = [m.fd EXCEPT ![f] = LowestFree(m.fd)]
           /\ open(m, f).callbacks = m.callbacks
           /\ close(m, f).fd = [m.fd EXCEPT ![f] = 0]
           /\ close(m, f).callbacks = m.callbacks
           /\ m.fd \in [File -> {0} \cup Fds] /\ m.callbacks \in Seq(Entries)
           /\ close(m, f) \in MonitorStates
           /\ LowestFree(m.fd) \in Fds => open(m, f) \in MonitorStates
<1>1. m.fd \in [File -> {0} \cup Fds] /\ m.callbacks \in Seq(Entries)
  BY DEF MonitorStates
<1>2. ASSUME NEW x
      PROVE  /\ [m EXCEPT !.fd[f] = x].fd = [m.fd EXCEPT ![f] = x]
             /\ [m EXCEPT !.fd[f] = x].callbacks = m.callbacks
             /\ x \in {0} \cup Fds => [m EXCEPT !.fd[f] = x] \in MonitorStates
  BY <1>1 DEF MonitorStates
<1> QED BY <1>1, <1>2 DEF open, close

LEMMA EntriesHaveStreams ==
    ASSUME NEW m \in MonitorStates
    PROVE  \A i \in DOMAIN m.callbacks :
             /\ m.callbacks[i] \in Entries
             /\ m.callbacks[i].fd \in Fds
             /\ m.callbacks[i].stream \in Stream
             /\ m.callbacks[i].stream \in File
<1> SUFFICES ASSUME NEW i \in DOMAIN m.callbacks
             PROVE  m.callbacks[i] \in Entries
  BY StreamsAreFiles DEF Entries
<1>1. m.callbacks \in Seq(Entries)
  BY DEF MonitorStates
<1> QED BY <1>1

(* A file that is closed is not monitored. *)
LEMMA ClosedIsUnwatched ==
    ASSUME NEW m, Sound(m), NEW f \in File, m.fd[f] = 0
    PROVE  Unwatched(m, f)
<1> SUFFICES ASSUME NEW i \in DOMAIN m.callbacks, m.callbacks[i].stream = f PROVE FALSE
  BY DEF Unwatched
<1>1. m.callbacks \in Seq(Entries)
  BY DEF Sound, MonitorStates
<1>2. m.callbacks[i] \in Entries
  BY <1>1
<1>3. m.callbacks[i].fd \in Fds
  BY <1>2 DEF Entries
<1>4. m.callbacks[i].fd = 0
  BY DEF Sound
<1> QED BY <1>3, <1>4, DescriptorsArePositive

(* Opening a closed file takes a descriptor nobody has. *)
LEMMA OpenEffect ==
    ASSUME NEW m, Sound(m), NEW f \in File, m.fd[f] = 0
    PROVE  /\ Sound(open(m, f)) /\ Opened(m, open(m, f), f) /\ Unwatched(open(m, f), f)
           /\ open(m, f).callbacks = m.callbacks
<1> DEFINE n == open(m, f)
           x == LowestFree(m.fd)
<1>0. m \in MonitorStates
  BY DEF Sound
<1>1. /\ n.fd = [m.fd EXCEPT ![f] = x] /\ n.callbacks = m.callbacks
      /\ m.fd \in [File -> {0} \cup Fds] /\ m.callbacks \in Seq(Entries)
  BY <1>0, OpenFields
<1>2. x \in Fds /\ \A h \in File : m.fd[h] # x
  BY <1>1, FreeDescriptor
<1>3. n \in MonitorStates
  BY <1>0, <1>2, OpenFields
<1>4. Unwatched(m, f)
  BY ClosedIsUnwatched
<1> HIDE DEF n, x
<1>5. n.fd[f] = x /\ \A h \in File : h # f => n.fd[h] = m.fd[h]
  BY <1>1
<1>6. x # 0
  BY <1>2, DescriptorsArePositive
<1>7. \A h, k \in File : n.fd[h] = n.fd[k] /\ n.fd[h] # 0 => h = k
  BY <1>2, <1>5, <1>6 DEF Sound
<1>8. \A i \in DOMAIN m.callbacks : m.callbacks[i].stream \in File
  BY <1>0, EntriesHaveStreams
<1>9. \A i \in DOMAIN n.callbacks : n.fd[n.callbacks[i].stream] = n.callbacks[i].fd
  BY <1>1, <1>4, <1>5, <1>8 DEF Sound, Unwatched
<1>10. Sound(n)
  BY <1>1, <1>3, <1>7, <1>9 DEF Sound
<1>11. Opened(m, n, f) /\ Unwatched(n, f)
  BY <1>1, <1>4, <1>5, <1>6 DEF Opened, Unwatched
<1> QED BY <1>1, <1>10, <1>11 DEF n

(* Closing a file that is not monitored. *)
LEMMA CloseEffect ==
    ASSUME NEW m, Sound(m), NEW f \in File, Unwatched(m, f)
    PROVE  /\ Sound(close(m, f)) /\ Closed(m, close(m, f), {f})
           /\ \A X : Watched(m, X) => Watched(close(m, f), X \ {f})
<1> DEFINE n == close(m, f)
<1>0. m \in MonitorStates
  BY DEF Sound
<1>1. /\ n.fd = [m.fd EXCEPT ![f] = 0] /\ n.callbacks = m.callbacks
      /\ m.fd \in [File -> {0} \cup Fds] /\ m.callbacks \in Seq(Entries)
  BY <1>0, OpenFields
<1>2. n \in MonitorStates
  BY <1>0, OpenFields
<1> HIDE DEF n
<1>3. n.fd[f] = 0 /\ \A h \in File : h # f => n.fd[h] = m.fd[h]
  BY <1>1
<1>4. \A h, k \in File : n.fd[h] = n.fd[k] /\ n.fd[h] # 0 => h = k
  BY <1>3 DEF Sound
<1>5. \A i \in DOMAIN m.callbacks : m.callbacks[i].stream \in File
  BY <1>0, EntriesHaveStreams
<1>6. \A i \in DOMAIN n.callbacks : n.fd[n.callbacks[i].stream] = n.callbacks[i].fd
  BY <1>1, <1>3, <1>5 DEF Sound, Unwatched
<1>7. Sound(n)
  BY <1>1, <1>2, <1>4, <1>6 DEF Sound
<1>8. Closed(m, n, {f})
  BY <1>3 DEF Closed
<1>9. ASSUME NEW X, Watched(m, X) PROVE Watched(n, X \ {f})
  BY <1>1, <1>3, <1>9, StreamsAreFiles DEF Watched
<1> QED BY <1>7, <1>8, <1>9 DEF n

\* The sequence c without its i-th element.
Dropped(c, i) == SubSeq(c, 1, i - 1) \o SubSeq(c, i + 1, Len(c))

LEMMA DroppedFacts ==
    ASSUME NEW S, NEW c \in Seq(S), NEW i \in 1..Len(c)
    PROVE  /\ Dropped(c, i) \in Seq(S)
           /\ Len(Dropped(c, i)) = Len(c) - 1
           /\ \A j \in 1..(Len(c) - 1) :
                Dropped(c, i)[j] = IF j < i THEN c[j] ELSE c[j + 1]
<1> DEFINE a == SubSeq(c, 1, i - 1)
           b == SubSeq(c, i + 1, Len(c))
<1>1. a \in Seq(S) /\ Len(a) = i - 1 /\ \A j \in 1..(i - 1) : a[j] = c[j]
  OBVIOUS
<1>2. b \in Seq(S) /\ Len(b) = Len(c) - i /\ \A j \in 1..(Len(c) - i) : b[j] = c[i + j]
  OBVIOUS
<1>3. Dropped(c, i) = a \o b
  BY DEF Dropped
<1> HIDE DEF a, b
<1>4. a \o b \in Seq(S) /\ Len(a \o b) = Len(c) - 1
  <2>0. a \in Seq(S) /\ b \in Seq(S)
    BY <1>1, <1>2
  <2>1. a \o b \in Seq(S)
    BY <2>0
  <2>2. Len(a \o b) = Len(a) + Len(b)
    BY <2>0
  <2>3. Len(c) \in Nat
    OBVIOUS
  <2> QED BY <1>1, <1>2, <2>1, <2>2, <2>3
<1>5. ASSUME NEW j \in 1..(Len(c) - 1) PROVE (a \o b)[j] = IF j < i THEN c[j] ELSE c[j + 1]
  <2>1. CASE j < i
    BY <1>1, <1>2, <2>1
  <2>2. CASE ~(j < i)
    <3>1. j - Len(a) \in 1..(Len(c) - i) /\ i + (j - Len(a)) = j + 1
      BY <1>1, <2>2
    <3>2. (a \o b)[j] = b[j - Len(a)]
      BY <1>1, <1>2, <2>2
    <3>3. b[j - Len(a)] = c[i + (j - Len(a))]
      BY <1>2, <3>1
    <3> QED BY <2>2, <3>1, <3>2, <3>3
  <2> QED BY <2>1, <2>2
<1> QED BY <1>3, <1>4, <1>5

(* Monitoring an open stream that is not monitored yet. *)
LEMMA MonitorEffect ==
    ASSUME NEW m, Sound(m), NEW s \in Stream, m.fd[s] # 0, Unwatched(m, s), Watched(m, {s})
    PROVE  Good(monitor(m, s)) /\ monitor(m, s).fd = m.fd
<1> DEFINE n == monitor(m, s)
           c == m.callbacks
           e == [fd |-> m.fd[s], stream |-> s]
<1>0. m \in MonitorStates /\ s \in File
  BY StreamsAreFiles DEF Sound
<1>1. m.fd \in [File -> {0} \cup Fds] /\ c \in Seq(Entries)
  BY <1>0 DEF MonitorStates
<1>2. m.fd[s] \in Fds
  BY <1>0, <1>1
<1>3. e \in Entries
  BY <1>2 DEF Entries
<1>4. n.fd = m.fd /\ n.callbacks = Append(c, e) /\ n \in MonitorStates
  <2>1. Append(c, e) \in Seq(Entries)
    BY <1>1, <1>3
  <2>2. n = [m EXCEPT !.callbacks = Append(c, e)]
    BY DEF monitor
  <2> HIDE DEF e, c, n
  <2> QED BY <1>0, <2>1, <2>2 DEF MonitorStates
<1>5. e.fd = m.fd[s] /\ e.stream = s
  OBVIOUS
<1> DEFINE d == n.callbacks
<1> HIDE DEF n, e
<1>6. DOMAIN d = 1..(Len(c) + 1) /\ Len(c) \in Nat /\ DOMAIN c = 1..Len(c)
  BY <1>1, <1>3, <1>4
<1>7. \A i \in DOMAIN c : d[i] = c[i]
  BY <1>1, <1>3, <1>4
<1>8. d[Len(c) + 1] = e
  BY <1>1, <1>3, <1>4
<1> HIDE DEF c, d
<1>9. \A i \in DOMAIN d : i \in DOMAIN c \/ i = Len(c) + 1
  BY <1>6
<1>10. \A i \in DOMAIN d : n.fd[d[i].stream] = d[i].fd
  BY <1>4, <1>5, <1>7, <1>8, <1>9 DEF Sound, c
<1>11. \A i \in DOMAIN c : c[i].fd # m.fd[s]
  <2> SUFFICES ASSUME NEW i \in DOMAIN c, c[i].fd = m.fd[s] PROVE FALSE
    OBVIOUS
  <2>1. c[i].stream \in File
    BY <1>0, EntriesHaveStreams DEF c
  <2>2. m.fd[c[i].stream] = m.fd[s]
    BY DEF Sound, c
  <2>3. c[i].stream = s
    BY <1>0, <2>1, <2>2 DEF Sound
  <2> QED BY <2>3 DEF Unwatched, c
<1>12. \A i, j \in DOMAIN d : d[i].fd = d[j].fd => i = j
  <2>1. \A i, j \in DOMAIN c : c[i].fd = c[j].fd => i = j
    BY DEF Sound, c
  <2> QED BY <1>5, <1>7, <1>8, <1>9, <1>11, <2>1
<1>13. Sound(n)
  BY <1>4, <1>10, <1>12 DEF Sound, d
<1>14. Watched(n, {})
  <2> SUFFICES ASSUME NEW st \in Stream, m.fd[st] # 0
               PROVE  \E i \in DOMAIN d : d[i].stream = st
    BY <1>4 DEF Watched, d
  <2>1. CASE st = s
    BY <1>5, <1>6, <1>8, <2>1
  <2>2. CASE st # s
    <3>1. PICK i \in DOMAIN c : c[i].stream = st
      BY <2>2 DEF Watched, c
    <3> QED BY <1>6, <1>7, <3>1
  <2> QED BY <2>1, <2>2
<1> QED BY <1>4, <1>13, <1>14 DEF Good, n

(* Forgetting a stream that is open, and so monitored. *)
LEMMA ForgetEffect ==
    ASSUME NEW m, Good(m), NEW s \in Stream, m.fd[s] # 0
    PROVE  /\ Sound(forget(m, s)) /\ forget(m, s).fd = m.fd
           /\ Unwatched(forget(m, s), s) /\ Watched(forget(m, s), {s})
<1> DEFINE n == forget(m, s)
           c == m.callbacks
           x == CHOOSE i \in DOMAIN c : c[i].fd = m.fd[s]
           L == Len(c)
<1>0. m \in MonitorStates /\ s \in File /\ Sound(m)
  BY StreamsAreFiles DEF Sound, Good
<1>1. c \in Seq(Entries) /\ L \in Nat /\ DOMAIN c = 1..L
  BY <1>0 DEF MonitorStates
<1>2. \E i \in DOMAIN c : c[i].fd = m.fd[s]
  BY DEF Good, Watched, Sound
<1>3. x \in DOMAIN c /\ c[x].fd = m.fd[s]
  BY <1>2
<1>4. n = [m EXCEPT !.callbacks = Dropped(c, x)]
  BY DEF forget, Dropped
<1> HIDE DEF x
<1> DEFINE d == Dropped(c, x)
<1>5. d \in Seq(Entries) /\ Len(d) = L - 1
  BY <1>1, <1>3, DroppedFacts
<1>6. \A j \in 1..(L - 1) : d[j] = IF j < x THEN c[j] ELSE c[j + 1]
  BY <1>1, <1>3, DroppedFacts
<1> HIDE DEF d
<1>7. n \in MonitorStates /\ n.fd = m.fd /\ n.callbacks = d
  BY <1>0, <1>4, <1>5 DEF MonitorStates, d
<1>8. DOMAIN d = 1..(L - 1)
  BY <1>1, <1>5
<1> HIDE DEF n, c, L
(* Where the entries that stay come from. *)
<1> DEFINE from(j) == IF j < x THEN j ELSE j + 1
<1>9. \A j \in DOMAIN d : from(j) \in DOMAIN c /\ from(j) # x /\ d[j] = c[from(j)]
  BY <1>1, <1>3, <1>6, <1>8
<1>10. \A j, k \in DOMAIN d : from(j) = from(k) => j = k
  BY <1>1, <1>3, <1>8
<1>11. \A i \in DOMAIN c : i # x => \E j \in DOMAIN d : from(j) = i
  <2> SUFFICES ASSUME NEW i \in DOMAIN c, i # x PROVE \E j \in DOMAIN d : from(j) = i
    OBVIOUS
  <2>1. CASE i < x
    <3>1. i \in DOMAIN d /\ from(i) = i
      BY <1>1, <1>3, <1>8, <2>1
    <3> QED BY <3>1
  <2>2. CASE ~(i < x)
    <3>1. i - 1 \in DOMAIN d /\ from(i - 1) = i
      BY <1>1, <1>3, <1>8, <2>2
    <3> QED BY <3>1
  <2> QED BY <2>1, <2>2
<1> HIDE DEF from
<1>12. \A i, j \in DOMAIN c : c[i].fd = c[j].fd => i = j
  BY <1>0 DEF Sound, c
<1>13. \A i \in DOMAIN c : m.fd[c[i].stream] = c[i].fd
  BY <1>0 DEF Sound, c
<1>14. Sound(n)
  <2>1. \A i \in DOMAIN d : m.fd[d[i].stream] = d[i].fd
    BY <1>9, <1>13
  <2>2. \A i, j \in DOMAIN d : d[i].fd = d[j].fd => i = j
    BY <1>9, <1>10, <1>12
  <2> QED BY <1>0, <1>7, <2>1, <2>2 DEF Sound
<1>15. Unwatched(n, s)
  <2> SUFFICES ASSUME NEW j \in DOMAIN d, d[j].stream = s PROVE FALSE
    BY <1>7 DEF Unwatched
  <2>1. from(j) \in DOMAIN c /\ from(j) # x /\ c[from(j)].stream = s
    BY <1>9
  <2>2. c[from(j)].fd = c[x].fd
    BY <1>3, <1>13, <2>1
  <2> QED BY <1>3, <1>12, <2>1, <2>2
<1>16. Watched(n, {s})
  <2> SUFFICES ASSUME NEW st \in Stream, m.fd[st] # 0, st # s
               PROVE  \E j \in DOMAIN d : d[j].stream = st
    BY <1>7 DEF Watched
  <2>1. PICK i \in DOMAIN c : c[i].stream = st
    BY DEF Good, Watched, c
  <2>2. i # x
    <3>1. m.fd[st] # m.fd[s]
      BY <1>0, StreamsAreFiles DEF Sound
    <3> QED BY <1>3, <1>13, <2>1, <3>1
  <2>3. PICK j \in DOMAIN d : from(j) = i
    BY <1>11, <2>2
  <2> QED BY <1>9, <2>1, <2>3
<1> QED BY <1>7, <1>14, <1>15, <1>16 DEF n

LEMMA StartEffect ==
    ASSUME NEW m, Good(m), NEW s \in Stream, m.fd[s] = 0
    PROVE  Good(start(m, s)) /\ Opened(m, start(m, s), s)
<1> DEFINE n == open(m, s)
<1>1. s \in File /\ Sound(m)
  BY StreamsAreFiles DEF Good
<1>2. Sound(n) /\ Opened(m, n, s) /\ Unwatched(n, s) /\ n.callbacks = m.callbacks
  BY <1>1, OpenEffect
<1> HIDE DEF n
<1>3. Watched(n, {s})
  BY <1>2, StreamsAreFiles DEF Good, Watched, Opened
<1>4. Good(monitor(n, s)) /\ monitor(n, s).fd = n.fd
  BY <1>2, <1>3, MonitorEffect DEF Opened
<1>5. start(m, s) = monitor(n, s)
  BY DEF start, n
<1> QED BY <1>2, <1>4, <1>5 DEF Opened

LEMMA OpenLogEffect ==
    ASSUME NEW m, Good(m), NEW f \in Logs, m.fd[f] = 0
    PROVE  Good(open(m, f)) /\ Opened(m, open(m, f), f)
<1> DEFINE n == open(m, f)
<1>1. f \in File /\ f \notin Stream /\ Sound(m)
  BY LogsAreNoStreams DEF Good
<1>2. Sound(n) /\ Opened(m, n, f) /\ n.callbacks = m.callbacks
  BY <1>1, OpenEffect
<1> HIDE DEF n
<1>3. Watched(n, {})
  BY <1>1, <1>2, StreamsAreFiles DEF Good, Watched, Opened
<1> QED BY <1>2, <1>3 DEF n, Good

LEMMA FinalizeEffect ==
    ASSUME NEW m, Good(m), NEW s \in Stream
    PROVE  Good(finalize(m, s)) /\ Closed(m, finalize(m, s), {s})
<1>1. CASE m.fd[s] = 0
  <2>1. finalize(m, s) = m
    BY <1>1 DEF finalize
  <2> QED BY <1>1, <2>1 DEF Closed
<1>2. CASE m.fd[s] # 0
  <2> DEFINE n == forget(m, s)
  <2>1. Sound(n) /\ n.fd = m.fd /\ Unwatched(n, s) /\ Watched(n, {s})
    BY <1>2, ForgetEffect
  <2>2. finalize(m, s) = close(n, s)
    BY <1>2 DEF finalize
  <2> HIDE DEF n
  <2>3. Sound(close(n, s)) /\ Closed(n, close(n, s), {s}) /\ Watched(close(n, s), {s} \ {s})
    BY <2>1, CloseEffect, StreamsAreFiles
  <2>4. {s} \ {s} = {}
    OBVIOUS
  <2>5. Watched(close(n, s), {})
    BY <2>3, <2>4, Zenon
  <2> QED BY <2>1, <2>2, <2>3, <2>5 DEF Closed, Good
<1> QED BY <1>1, <1>2

LEMMA CloseLogEffect ==
    ASSUME NEW m, Good(m), NEW f \in Logs
    PROVE  Good(close(m, f)) /\ Closed(m, close(m, f), {f})
<1>1. f \in File /\ f \notin Stream /\ Sound(m) /\ Watched(m, {})
  BY LogsAreNoStreams DEF Good
<1>2. Unwatched(m, f)
  BY <1>1, EntriesHaveStreams DEF Unwatched, Sound
<1>3. Sound(close(m, f)) /\ Closed(m, close(m, f), {f}) /\ Watched(close(m, f), {} \ {f})
  BY <1>1, <1>2, CloseEffect
<1>4. {} \ {f} = {}
  OBVIOUS
<1>5. Watched(close(m, f), {})
  BY <1>3, <1>4, Zenon
<1> QED BY <1>3, <1>5 DEF Good

LEMMA ClosedTwice ==
    ASSUME NEW m, NEW n, NEW p, NEW C, NEW D, Closed(m, n, C), Closed(n, p, D)
    PROVE  Closed(m, p, C \cup D)
BY DEF Closed

-----------------------------------------------------------------------------
(* The users of the monitor: what each of them closes. *)

LEMMA CleanupEffect ==
    ASSUME NEW m, Good(m), NEW g \in Set
    PROVE  /\ Good(dhcp_cleanup(m, g))
           /\ Closed(m, dhcp_cleanup(m, g), {<<"dhcp_log", g>>, <<"dhcp", g>>})
<1> DEFINE n == close(m, <<"dhcp_log", g>>)
<1>1. Good(n) /\ Closed(m, n, {<<"dhcp_log", g>>})
  BY FileNames, CloseLogEffect
<1>2. dhcp_cleanup(m, g) = finalize(n, <<"dhcp", g>>)
  BY DEF dhcp_cleanup
<1> HIDE DEF n
<1>3. Good(finalize(n, <<"dhcp", g>>)) /\ Closed(n, finalize(n, <<"dhcp", g>>), {<<"dhcp", g>>})
  BY <1>1, FileNames, FinalizeEffect
<1> QED BY <1>1, <1>2, <1>3 DEF Closed

LEMMA ModuleEffect ==
    ASSUME NEW m, Good(m), NEW g \in Set
    PROVE  /\ Good(module_finalize(m, g))
           /\ Closed(m, module_finalize(m, g), {<<"module", g>>, <<"module_log", g>>})
<1> DEFINE n == finalize(m, <<"module", g>>)
<1>1. Good(n) /\ Closed(m, n, {<<"module", g>>})
  BY FileNames, FinalizeEffect
<1>2. module_finalize(m, g) = close(n, <<"module_log", g>>)
  BY DEF module_finalize
<1> HIDE DEF n
<1>3. /\ Good(close(n, <<"module_log", g>>))
      /\ Closed(n, close(n, <<"module_log", g>>), {<<"module_log", g>>})
  BY <1>1, FileNames, CloseLogEffect
<1> QED BY <1>1, <1>2, <1>3 DEF Closed

(* What the end of a target set closes: everything but a search. *)
Ends(g) == {<<"dhcp_log", g>>, <<"dhcp", g>>, <<"scan", g>>, <<"tcpdump", g>>,
            <<"module", g>>, <<"module_log", g>>}

LEMMA CancelEffect ==
    ASSUME NEW m, Good(m), NEW g \in Set
    PROVE  Good(target_set_cancel(m, g)) /\ Closed(m, target_set_cancel(m, g), Ends(g))
<1> DEFINE a == dhcp_cleanup(m, g)
           b == finalize(a, <<"scan", g>>)
           c == finalize(b, <<"tcpdump", g>>)
           d == module_finalize(c, g)
<1>1. target_set_cancel(m, g) = d
  BY DEF target_set_cancel, gateway_terminate
<1>2. Good(a) /\ Closed(m, a, {<<"dhcp_log", g>>, <<"dhcp", g>>})
  BY CleanupEffect
<1> HIDE DEF a
<1>3. Good(b) /\ Closed(a, b, {<<"scan", g>>})
  BY <1>2, FileNames, FinalizeEffect
<1> HIDE DEF b
<1>4. Good(c) /\ Closed(b, c, {<<"tcpdump", g>>})
  BY <1>3, FileNames, FinalizeEffect
<1> HIDE DEF c
<1>5. Good(d) /\ Closed(c, d, {<<"module", g>>, <<"module_log", g>>})
  BY <1>4, ModuleEffect
<1> HIDE DEF d
<1>6. Closed(m, d, Ends(g))
  BY <1>2, <1>3, <1>4, <1>5 DEF Closed, Ends
<1> QED BY <1>1, <1>5, <1>6

-----------------------------------------------------------------------------
(* The operations of a target set leave it as its phase says. *)

(* Closing what is no part of a search keeps the facts about the search. *)
LEMMA ClosingKeepsSearch ==
    ASSUME NEW m, NEW n, NEW C, NEW g \in Set, NEW s, Closed(m, n, C),
           <<"arp", g>> \notin C, <<"arp_log", g>> \notin C, SearchInv(m.fd, g, s)
    PROVE  SearchInv(n.fd, g, s)
BY FileNames DEF Closed, SearchInv

LEMMA ClosingKeepsPhase ==
    ASSUME NEW m, NEW n, NEW C, NEW g \in Set, NEW s, Closed(m, n, C), PhaseInv(m.fd, g, s)
    PROVE  PhaseInv(n.fd, g, s)
BY FileNames DEF Closed, PhaseInv

LEMMA EndedFine ==
    ASSUME NEW m, Good(m), NEW g \in Set, NEW s, SearchInv(m.fd, g, s),
           NEW o \in ended(m, g, s)
    PROVE  Fine(m, g, o)
<1> DEFINE n == target_set_cancel(m, g)
           t == [s EXCEPT !.phase = "off"]
<1>1. o.m = n /\ o.set = t
  BY DEF ended, Outcome
<1>2. Good(n) /\ Closed(m, n, Ends(g))
  BY CancelEffect
<1> HIDE DEF n
<1>3. /\ t \in SetStates /\ t.phase = "off" /\ t.asked = s.asked /\ t.answers = s.answers
  BY DEF SearchInv, SetStates
<1>4. SearchInv(n.fd, g, s)
  BY <1>2, ClosingKeepsSearch DEF Ends
<1> HIDE DEF t
<1>5. SearchInv(n.fd, g, t)
  BY <1>3, <1>4 DEF SearchInv
<1>6. \A f \in File : f[2] = g /\ f[1] \notin {"arp", "arp_log"} => f \in Ends(g)
  BY DEF File, Stream, Logs, Kinds, Ends
<1>7. PhaseInv(n.fd, g, t)
  <2>1. \A f \in Ends(g) : f \in File => n.fd[f] = 0
    BY <1>2 DEF Closed
  <2>2. <<"module", g>> \in Ends(g) /\ <<"module_log", g>> \in Ends(g)
    BY DEF Ends
  <2> QED BY <1>3, <1>6, <2>1, <2>2, FileNames DEF PhaseInv
<1>8. \A f \in File : f[2] # g => n.fd[f] = m.fd[f]
  BY <1>2 DEF Closed, Ends
<1> QED BY <1>1, <1>2, <1>5, <1>7, <1>8 DEF Fine, SetInv

(* A test opens the capture, the module and its log. *)
LEMMA RunTestFine ==
    ASSUME NEW m, Good(m), NEW g \in Set, NEW s, SearchInv(m.fd, g, s), s.remaining # 0,
           m.fd[<<"tcpdump", g>>] = 0, m.fd[<<"module", g>>] = 0, m.fd[<<"module_log", g>>] = 0,
           NEW o \in run_test(m, g, s)
    PROVE  Fine(m, g, o)
<1> DEFINE a == start(m, <<"tcpdump", g>>)
           b == open(a, <<"module", g>>)
           c == open(b, <<"module_log", g>>)
           d == monitor(c, <<"module", g>>)
           t == [s EXCEPT !.phase = "test", !.remaining = @ - 1]
<1>1. o.m = d /\ o.set = t
  BY DEF run_test, Outcome
<1>2. Good(a) /\ Opened(m, a, <<"tcpdump", g>>)
  BY FileNames, StartEffect
<1> HIDE DEF a
<1>3. a.fd[<<"module", g>>] = 0 /\ a.fd[<<"module_log", g>>] = 0
  BY <1>2, FileNames DEF Opened
<1>4. /\ Sound(b) /\ Opened(a, b, <<"module", g>>) /\ Unwatched(b, <<"module", g>>)
      /\ b.callbacks = a.callbacks
  BY <1>2, <1>3, FileNames, OpenEffect DEF Good
<1> HIDE DEF b
<1>5. b.fd[<<"module_log", g>>] = 0
  BY <1>3, <1>4, FileNames DEF Opened
<1>6. Sound(c) /\ Opened(b, c, <<"module_log", g>>) /\ c.callbacks = b.callbacks
  BY <1>4, <1>5, FileNames, OpenEffect
<1> HIDE DEF c
<1>7. c.fd[<<"module", g>>] # 0 /\ Unwatched(c, <<"module", g>>)
  BY <1>4, <1>6, FileNames DEF Opened, Unwatched
<1>8. Watched(c, {<<"module", g>>})
  <2> SUFFICES ASSUME NEW st \in Stream, c.fd[st] # 0, st # <<"module", g>>
               PROVE  \E i \in DOMAIN c.callbacks : c.callbacks[i].stream = st
    BY DEF Watched
  <2>1. st \in File /\ st # <<"module_log", g>>
    BY FileNames, StreamsAreFiles, LogsAreNoStreams
  <2>2. a.fd[st] # 0
    BY <1>4, <1>6, <2>1 DEF Opened
  <2> QED BY <1>2, <1>4, <1>6, <2>2 DEF Good, Watched
<1>9. Good(d) /\ d.fd = c.fd
  BY <1>6, <1>7, <1>8, FileNames, MonitorEffect
<1> HIDE DEF d
<1>10. \A f \in File : f \notin {<<"tcpdump", g>>, <<"module", g>>, <<"module_log", g>>}
                        => d.fd[f] = m.fd[f]
  BY <1>2, <1>4, <1>6, <1>9 DEF Opened
<1>11. t \in SetStates /\ t.phase = "test" /\ t.asked = s.asked /\ t.answers = s.answers
  <2>1. s \in SetStates
    BY DEF SearchInv
  <2> DEFINE r == s.remaining - 1
  <2>2. r \in Nat
    BY <2>1 DEF SetStates
  <2>3. t = [s EXCEPT !.phase = "test", !.remaining = r]
    BY <2>1 DEF SetStates
  <2> HIDE DEF r, t
  <2> QED BY <2>1, <2>2, <2>3 DEF SetStates
<1> HIDE DEF t
<1>12. d.fd[<<"arp", g>>] = m.fd[<<"arp", g>>] /\ d.fd[<<"arp_log", g>>] = m.fd[<<"arp_log", g>>]
  BY <1>10, FileNames
<1>13. SearchInv(d.fd, g, t)
  BY <1>11, <1>12 DEF SearchInv
<1>14. PhaseInv(d.fd, g, t)
  BY <1>11 DEF PhaseInv
<1>15. \A f \in File : f[2] # g => d.fd[f] = m.fd[f]
  BY <1>10
<1> QED BY <1>1, <1>9, <1>13, <1>14, <1>15 DEF Fine, SetInv

LEMMA RunNextFine ==
    ASSUME NEW m, Good(m), NEW g \in Set, NEW s, SearchInv(m.fd, g, s),
           m.fd[<<"tcpdump", g>>] = 0, m.fd[<<"module", g>>] = 0, m.fd[<<"module_log", g>>] = 0,
           NEW o \in run_next_test(m, g, s)
    PROVE  Fine(m, g, o)
<1>1. CASE s.remaining # 0
  BY <1>1, RunTestFine DEF run_next_test
<1>2. CASE s.remaining = 0
  <2> DEFINE t == [s EXCEPT !.phase = "done"]
  <2>1. o.m = m /\ o.set = t
    BY <1>2 DEF run_next_test, Outcome
  <2>2. t \in SetStates /\ t.phase = "done" /\ t.asked = s.asked /\ t.answers = s.answers
    BY DEF SearchInv, SetStates
  <2> HIDE DEF t
  <2>3. SearchInv(m.fd, g, t) /\ PhaseInv(m.fd, g, t)
    BY <2>2 DEF SearchInv, PhaseInv
  <2> QED BY <2>1, <2>3 DEF Fine, SetInv
<1> QED BY <1>1, <1>2

LEMMA EndTestFine ==
    ASSUME NEW m, Good(m), NEW g \in Set, NEW s, SearchInv(m.fd, g, s),
           NEW o \in end_test(m, g, s)
    PROVE  Fine(m, g, o)
<1> DEFINE a == module_finalize(m, g)
           b == finalize(a, <<"tcpdump", g>>)
<1>1. Good(a) /\ Closed(m, a, {<<"module", g>>, <<"module_log", g>>})
  BY ModuleEffect
<1>2. o \in run_next_test(b, g, s)
  BY DEF end_test
<1> HIDE DEF a
<1>3. Good(b) /\ Closed(a, b, {<<"tcpdump", g>>})
  BY <1>1, FileNames, FinalizeEffect
<1> HIDE DEF b
<1>4. Closed(m, b, {<<"module", g>>, <<"module_log", g>>, <<"tcpdump", g>>})
  BY <1>1, <1>3 DEF Closed
<1>5. SearchInv(b.fd, g, s)
  BY <1>4, ClosingKeepsSearch
<1>6. b.fd[<<"tcpdump", g>>] = 0 /\ b.fd[<<"module", g>>] = 0 /\ b.fd[<<"module_log", g>>] = 0
  BY <1>4, FileNames DEF Closed
<1>7. Fine(b, g, o)
  BY <1>2, <1>3, <1>5, <1>6, RunNextFine
<1>8. \A f \in File : f[2] # g => b.fd[f] = m.fd[f]
  BY <1>4 DEF Closed
<1> QED BY <1>7, <1>8 DEF Fine

LEMMA NotifyFine ==
    ASSUME NEW m, Good(m), NEW g \in Set, NEW s, SetInv(m.fd, g, s),
           NEW o \in ip_notify(m, g, s)
    PROVE  Fine(m, g, o)
<1>1. CASE s.phase # "wait"
  BY <1>1 DEF ip_notify, Outcome, Fine
<1>2. CASE s.phase = "wait"
  <2> DEFINE n == finalize(m, <<"scan", g>>)
             t == [s EXCEPT !.phase = "base"]
  <2>1. o.m = n /\ o.set = t
    BY <1>2 DEF ip_notify, activate, Outcome
  <2>2. Good(n) /\ Closed(m, n, {<<"scan", g>>})
    BY FileNames, FinalizeEffect
  <2> HIDE DEF n
  <2>3. t \in SetStates /\ t.phase = "base" /\ t.asked = s.asked /\ t.answers = s.answers
    BY DEF SetInv, SearchInv, SetStates
  <2> HIDE DEF t
  <2>4. SearchInv(n.fd, g, s) /\ PhaseInv(n.fd, g, s)
    BY <2>2, ClosingKeepsSearch, ClosingKeepsPhase DEF SetInv
  <2>5. SearchInv(n.fd, g, t) /\ PhaseInv(n.fd, g, t)
    BY <1>2, <2>3, <2>4 DEF SearchInv, PhaseInv
  <2>6. \A f \in File : f[2] # g => n.fd[f] = m.fd[f]
    BY <2>2 DEF Closed
  <2> QED BY <2>1, <2>2, <2>5, <2>6 DEF Fine, SetInv
<1> QED BY <1>1, <1>2

-----------------------------------------------------------------------------
(* The search: a set that is searched, with no scan under way and no       *)
(* answer yet.                                                             *)
Searching(m, g, s) ==
    /\ SetInv(m.fd, g, s)
    /\ m.fd[<<"arp", g>>] = 0
    /\ s.asked /\ s.answers = 0 /\ s.phase # "new"

LEMMA AnswerKeeps ==
    ASSUME NEW m, NEW g \in Set, NEW s, Searching(m, g, s)
    PROVE  LET t == [s EXCEPT !.answers = @ + 1]
           IN  SetInv(m.fd, g, t) /\ t.phase = s.phase
<1> DEFINE t == [s EXCEPT !.answers = @ + 1]
<1>1. s \in SetStates /\ s.answers = 0 /\ s.asked
  BY DEF Searching, SetInv, SearchInv
<1>2. t = [s EXCEPT !.answers = 1]
  BY <1>1 DEF SetStates
<1> HIDE DEF t
<1>3. t \in SetStates /\ t.phase = s.phase /\ t.asked = s.asked /\ t.answers = 1
  BY <1>1, <1>2 DEF SetStates
<1>4. SearchInv(m.fd, g, t) /\ PhaseInv(m.fd, g, t)
  BY <1>1, <1>3 DEF Searching, SetInv, SearchInv, PhaseInv
<1>5. SetInv(m.fd, g, t) /\ t.phase = s.phase
  BY <1>3, <1>4 DEF SetInv
<1> QED BY <1>5 DEF t

LEMMA FoundFine ==
    ASSUME NEW m, Good(m), NEW g \in Set, NEW s, Searching(m, g, s), NEW o \in found(m, g, s)
    PROVE  Fine(m, g, o)
<1> DEFINE t == [s EXCEPT !.answers = @ + 1]
<1>1. SetInv(m.fd, g, t)
  BY AnswerKeeps
<1>2. o \in ip_notify(m, g, t)
  BY DEF found
<1> HIDE DEF t
<1> QED BY <1>1, <1>2, NotifyFine

LEMMA NoneFoundFine ==
    ASSUME NEW m, Good(m), NEW g \in Set, NEW s, Searching(m, g, s), NEW o \in none_found(m, g, s)
    PROVE  Fine(m, g, o)
<1> DEFINE t == [s EXCEPT !.answers = @ + 1]
<1>1. SetInv(m.fd, g, t)
  BY AnswerKeeps
<1>2. o \in IF s.phase = "off" THEN {Outcome(m, t)} ELSE ended(m, g, t)
  BY DEF none_found
<1> HIDE DEF t
<1>3. CASE s.phase = "off"
  BY <1>1, <1>2, <1>3 DEF Outcome, Fine
<1>4. CASE s.phase # "off"
  BY <1>1, <1>2, <1>4, EndedFine DEF SetInv
<1> QED BY <1>3, <1>4

LEMMA ScanFine ==
    ASSUME NEW m, Good(m), NEW g \in Set, NEW s, Searching(m, g, s), s.phase # "off",
           s.subnets # 0, NEW o \in scan_subnet(m, g, s)
    PROVE  Fine(m, g, o)
<1> DEFINE a == open(m, <<"arp_log", g>>)
           b == start(a, <<"arp", g>>)
           t == [s EXCEPT !.subnets = @ - 1]
<1>1. o.m = b /\ o.set = t
  BY DEF scan_subnet, Outcome
<1>2. m.fd[<<"arp", g>>] = 0 /\ m.fd[<<"arp_log", g>>] = 0
  BY DEF Searching, SetInv, SearchInv
<1>3. Good(a) /\ Opened(m, a, <<"arp_log", g>>)
  BY <1>2, FileNames, OpenLogEffect
<1> HIDE DEF a
<1>4. a.fd[<<"arp", g>>] = 0
  BY <1>2, <1>3, FileNames DEF Opened
<1>5. Good(b) /\ Opened(a, b, <<"arp", g>>)
  BY <1>3, <1>4, FileNames, StartEffect
<1> HIDE DEF b
<1>6. \A f \in File : f \notin {<<"arp_log", g>>, <<"arp", g>>} => b.fd[f] = m.fd[f]
  BY <1>3, <1>5 DEF Opened
<1>7. /\ t \in SetStates /\ t.phase = s.phase /\ t.asked = s.asked /\ t.answers = s.answers
  <2>1. s \in SetStates
    BY DEF Searching, SetInv, SearchInv
  <2> DEFINE r == s.subnets - 1
  <2>2. r \in 0..NumSubnets
    BY <2>1, StreamsAssumption DEF SetStates
  <2>3. t = [s EXCEPT !.subnets = r]
    BY <2>1 DEF SetStates
  <2> HIDE DEF r, t
  <2> QED BY <2>1, <2>2, <2>3 DEF SetStates
<1> HIDE DEF t
<1>8. b.fd[<<"arp", g>>] # 0
  BY <1>5 DEF Opened
<1>9. SearchInv(b.fd, g, t)
  BY <1>7, <1>8 DEF Searching, SearchInv
<1>10. PhaseInv(b.fd, g, t)
  <2>1. /\ b.fd[<<"module", g>>] = m.fd[<<"module", g>>]
        /\ b.fd[<<"module_log", g>>] = m.fd[<<"module_log", g>>]
    BY <1>6, FileNames
  <2> QED BY <1>7, <2>1 DEF Searching, SetInv, PhaseInv
<1>11. \A f \in File : f[2] # g => b.fd[f] = m.fd[f]
  BY <1>6
<1> QED BY <1>1, <1>5, <1>9, <1>10, <1>11 DEF Fine, SetInv

LEMMA DiscoverFine ==
    ASSUME NEW m, Good(m), NEW g \in Set, NEW s, Searching(m, g, s),
           NEW o \in recursive_discover(m, g, s)
    PROVE  Fine(m, g, o)
<1>1. CASE s.subnets = 0
  BY <1>1, NoneFoundFine DEF recursive_discover
<1>2. CASE s.subnets # 0 /\ s.phase = "off"
  BY <1>2 DEF recursive_discover, Outcome, Fine, Searching
<1>3. CASE s.subnets # 0 /\ s.phase # "off"
  BY <1>3, ScanFine DEF recursive_discover
<1> QED BY <1>1, <1>2, <1>3

LEMMA DiscoverHangupFine ==
    ASSUME NEW m, Good(m), NEW g \in Set, NEW s,
           m.fd[<<"arp", g>>] = 0, s \in SetStates, PhaseInv(m.fd, g, s),
           s.asked, s.answers = 0, s.phase # "new",
           NEW o \in discover_host_hangup(m, g, s)
    PROVE  Fine(m, g, o)
<1> DEFINE n == close(m, <<"arp_log", g>>)
<1>1. Good(n) /\ Closed(m, n, {<<"arp_log", g>>})
  BY FileNames, CloseLogEffect
<1>2. o \in found(n, g, s) \/ o \in recursive_discover(n, g, s)
  BY DEF discover_host_hangup
<1> HIDE DEF n
<1>3. n.fd[<<"arp", g>>] = 0 /\ n.fd[<<"arp_log", g>>] = 0
  BY <1>1, FileNames DEF Closed
<1>4. PhaseInv(n.fd, g, s)
  BY <1>1, ClosingKeepsPhase
<1>5. Searching(n, g, s)
  BY <1>3, <1>4 DEF Searching, SetInv, SearchInv
<1>6. Fine(n, g, o)
  BY <1>1, <1>2, <1>5, FoundFine, DiscoverFine
<1>7. \A f \in File : f[2] # g => n.fd[f] = m.fd[f]
  BY <1>1 DEF Closed
<1> QED BY <1>6, <1>7 DEF Fine

-----------------------------------------------------------------------------
(* Handling one event. *)

LEMMA StreamParts ==
    ASSUME NEW st \in Stream
    PROVE  st[1] \in Kinds /\ st[2] \in Set /\ st = <<st[1], st[2]>> /\ st \in File
BY DEF Stream, File

LEMMA CallbackFine ==
    ASSUME NEW m, Good(m), NEW st \in Stream, NEW s, SetInv(m.fd, st[2], s),
           NEW o \in trigger_callback(m, st, s)
    PROVE  Fine(m, st[2], o)
<1> DEFINE g == st[2]
<1>0. g \in Set
  BY StreamParts
<1> HIDE DEF g
<1>1. o \in {Outcome(m, s)} \/ o \in ip_notify(m, g, s)
      \/ o \in ended(dhcp_cleanup(m, g), g, s) \/ o \in end_test(m, g, s)
  BY DEF trigger_callback, g
<1>2. SetInv(m.fd, g, s)
  BY DEF g
<1>3. ASSUME o \in {Outcome(m, s)} PROVE Fine(m, g, o)
  BY <1>2, <1>3 DEF Outcome, Fine
<1>4. ASSUME o \in ip_notify(m, g, s) PROVE Fine(m, g, o)
  BY <1>0, <1>2, <1>4, NotifyFine
<1>5. ASSUME o \in end_test(m, g, s) PROVE Fine(m, g, o)
  BY <1>0, <1>2, <1>5, EndTestFine DEF SetInv
<1>6. ASSUME o \in ended(dhcp_cleanup(m, g), g, s) PROVE Fine(m, g, o)
  <2> DEFINE n == dhcp_cleanup(m, g)
  <2>1. Good(n) /\ Closed(m, n, {<<"dhcp_log", g>>, <<"dhcp", g>>})
    BY <1>0, CleanupEffect
  <2> HIDE DEF n
  <2>2. SearchInv(n.fd, g, s)
    BY <1>0, <1>2, <2>1, ClosingKeepsSearch DEF SetInv
  <2>3. Fine(n, g, o)
    BY <1>0, <1>6, <2>1, <2>2, EndedFine DEF n
  <2>4. \A f \in File : f[2] # g => n.fd[f] = m.fd[f]
    BY <2>1 DEF Closed
  <2> QED BY <2>3, <2>4 DEF Fine
<1> QED BY <1>1, <1>3, <1>4, <1>5, <1>6 DEF g

LEMMA HangupFine ==
    ASSUME NEW m, Good(m), NEW st \in Stream, NEW s, SetInv(m.fd, st[2], s), m.fd[st] # 0,
           NEW o \in trigger_hangup(m, st, s)
    PROVE  Fine(m, st[2], o)
<1> DEFINE g == st[2]
           n == close(forget(m, st), st)
<1>0. g \in Set /\ st[1] \in Kinds /\ st = <<st[1], g>> /\ st \in File
  BY StreamParts
<1>1. Good(n) /\ Closed(m, n, {st})
  <2>1. n = finalize(m, st)
    BY DEF finalize
  <2> QED BY <2>1, FinalizeEffect
<1>2. /\ st[1] = "scan" => o = Outcome(n, s)
      /\ st[1] = "dhcp" => o \in ended(dhcp_cleanup(n, g), g, s)
      /\ st[1] = "tcpdump" => o \in monitor_timeout(n, g, s)
      /\ st[1] = "module" => o \in end_test(n, g, s)
      /\ st[1] = "arp" => o \in discover_host_hangup(n, g, s)
  BY DEF trigger_hangup
<1>3. SetInv(m.fd, g, s)
  OBVIOUS
<1> HIDE DEF n, g
<1>4. PhaseInv(n.fd, g, s)
  BY <1>0, <1>1, <1>3, ClosingKeepsPhase DEF SetInv
<1>5. \A f \in File : f[2] # g => n.fd[f] = m.fd[f]
  BY <1>0, <1>1 DEF Closed
<1>6. SUFFICES Fine(n, g, o)
  BY <1>5 DEF Fine, g
<1>7. ASSUME st[1] # "arp" PROVE SearchInv(n.fd, g, s)
  <2>1. <<"arp", g>> \notin {st} /\ <<"arp_log", g>> \notin {st}
    BY <1>0, <1>7 DEF Kinds
  <2> QED BY <1>0, <1>1, <1>3, <2>1, ClosingKeepsSearch DEF SetInv
<1>8. CASE st[1] = "scan"
  BY <1>1, <1>2, <1>4, <1>7, <1>8 DEF Outcome, Fine, SetInv
<1>9. CASE st[1] = "dhcp"
  <2> DEFINE p == dhcp_cleanup(n, g)
  <2>1. Good(p) /\ Closed(n, p, {<<"dhcp_log", g>>, <<"dhcp", g>>})
    BY <1>0, <1>1, CleanupEffect
  <2>2. o \in ended(p, g, s)
    BY <1>2, <1>9
  <2> HIDE DEF p
  <2>3. SearchInv(p.fd, g, s)
    BY <1>0, <1>7, <1>9, <2>1, ClosingKeepsSearch
  <2>4. Fine(p, g, o)
    BY <1>0, <2>1, <2>2, <2>3, EndedFine
  <2>5. \A f \in File : f[2] # g => p.fd[f] = n.fd[f]
    BY <2>1 DEF Closed
  <2> QED BY <2>4, <2>5 DEF Fine
<1>10. CASE st[1] = "tcpdump"
  <2>1. SearchInv(n.fd, g, s)
    BY <1>7, <1>10
  <2>2. CASE o \in ended(n, g, s)
    BY <1>0, <1>1, <2>1, <2>2, EndedFine
  <2>3. CASE s.phase = "monitor" /\ o \in run_next_test(n, g, s)
    <3>1. n.fd[<<"tcpdump", g>>] = 0
      BY <1>0, <1>1, <1>10 DEF Closed
    <3>2. n.fd[<<"module", g>>] = 0 /\ n.fd[<<"module_log", g>>] = 0
      BY <1>4, <2>3 DEF PhaseInv
    <3> QED BY <1>0, <1>1, <2>1, <2>3, <3>1, <3>2, RunNextFine
  <2> QED BY <1>2, <1>10, <2>2, <2>3 DEF monitor_timeout
<1>11. CASE st[1] = "module"
  BY <1>0, <1>1, <1>2, <1>7, <1>11, EndTestFine
<1>12. CASE st[1] = "arp"
  <2>1. st = <<"arp", g>>
    BY <1>0, <1>12
  <2>2. n.fd[<<"arp", g>>] = 0
    BY <1>0, <1>1, <2>1 DEF Closed
  <2>3. s \in SetStates /\ s.asked /\ s.answers = 0
    BY <1>3, <2>1 DEF SetInv, SearchInv
  <2>4. s.phase # "new"
    BY <1>0, <1>3 DEF SetInv, PhaseInv
  <2>5. o \in discover_host_hangup(n, g, s)
    BY <1>2, <1>12
  <2> QED BY <1>0, <1>1, <1>4, <2>2, <2>3, <2>4, <2>5, DiscoverHangupFine
<1> QED BY <1>0, <1>8, <1>9, <1>10, <1>11, <1>12 DEF Kinds

-----------------------------------------------------------------------------
(* A step that leaves one set as its phase says leaves all of them so. *)
LEMMA BecomesKeeps ==
    ASSUME IInv, NEW g \in Set, NEW o, Fine(Now, g, o), Becomes(g, o)
    PROVE  IInv'
<1>1. fd' = o.m.fd /\ callbacks' = o.m.callbacks /\ sets' = [sets EXCEPT ![g] = o.set]
  BY DEF Becomes
<1>2. Good(Now)'
  <2>1. Good(o.m) /\ o.m \in MonitorStates
    BY DEF Fine, Good, Sound
  <2>2. o.m = [fd |-> o.m.fd, callbacks |-> o.m.callbacks]
    BY <2>1 DEF MonitorStates
  <2>3. Now' = o.m
    BY <1>1, <2>2 DEF Now
  <2>4. Good(Now')
    BY <2>1, <2>3
  <2> QED BY <2>4 DEF Good, Sound, Watched, Now
<1>3. Now.fd = fd
  BY DEF Now
<1>4. SetInv(fd', g, o.set) /\ o.set \in SetStates
  BY <1>1 DEF Fine, SetInv, SearchInv
<1>5. sets' \in [Set -> SetStates]
  BY <1>1, <1>4 DEF IInv
<1>6. ASSUME NEW h \in Set PROVE SetInv(fd', h, sets'[h])
  <2>1. CASE h = g
    BY <1>1, <1>4, <2>1 DEF IInv
  <2>2. CASE h # g
    <3>1. sets'[h] = sets[h] /\ SetInv(fd, h, sets[h])
      BY <1>1, <2>2 DEF IInv
    <3>2. \A f \in File : f[2] = h => fd'[f] = fd[f]
      BY <1>1, <1>3, <2>2 DEF Fine
    <3>3. \A k \in {"arp", "arp_log", "module", "module_log"} : fd'[<<k, h>>] = fd[<<k, h>>]
      BY <3>2, FileNames
    <3>4. SearchInv(fd', h, sets[h])
      BY <3>1, <3>3 DEF SetInv, SearchInv
    <3>5. PhaseInv(fd', h, sets[h])
      BY <3>1, <3>2, <3>3 DEF SetInv, PhaseInv
    <3> QED BY <3>1, <3>4, <3>5 DEF SetInv
  <2> QED BY <2>1, <2>2
<1> QED BY <1>2, <1>5, <1>6 DEF IInv, SetInv, SearchInv, PhaseInv

LEMMA IInvSame == ASSUME IInv, UNCHANGED <<fd, callbacks, sets>> PROVE IInv'
<1>1. Now' = Now
  BY DEF Now
<1>2. Good(Now) /\ sets \in [Set -> SetStates] /\ \A g \in Set : SetInv(fd, g, sets[g])
  BY DEF IInv
<1>3. Good(Now)'
  BY <1>1, <1>2 DEF Good, Sound, Watched
<1>4. ASSUME NEW g \in Set PROVE SetInv(fd, g, sets[g])'
  <2>1. SearchInv(fd, g, sets[g]) /\ PhaseInv(fd, g, sets[g])
    BY <1>2 DEF SetInv
  <2>2. SearchInv(fd, g, sets[g])'
    BY <2>1 DEF SearchInv
  <2>3. PhaseInv(fd, g, sets[g])'
    BY <2>1 DEF PhaseInv
  <2> QED BY <2>2, <2>3 DEF SetInv
<1> QED BY <1>2, <1>3, <1>4 DEF IInv

LEMMA DispatchKeeps == ASSUME IInv, dispatch PROVE IInv'
<1>1. CASE UNCHANGED <<fd, callbacks, output, sets>>
  BY <1>1, IInvSame
<1>2. ASSUME NEW st \in Owner(Head(batch).fd), process_poll_result(st, Head(batch).event)
      PROVE  IInv'
  <2>0. Good(Now) /\ Now \in MonitorStates /\ Now.fd = fd /\ Now.callbacks = callbacks
    BY DEF IInv, Good, Sound, Now
  <2>1. PICK i \in DOMAIN callbacks : callbacks[i].stream = st
    BY <1>2 DEF Owner, Range
  <2>2. st \in Stream /\ callbacks[i].fd \in Fds
    BY <2>0, <2>1, EntriesHaveStreams
  <2>3. fd[st] # 0
    BY <2>0, <2>1, <2>2, DescriptorsArePositive DEF Good, Sound
  <2>4. st[2] \in Set /\ SetInv(Now.fd, st[2], sets[st[2]])
    BY <2>0, <2>2, StreamParts DEF IInv
  <2>5. PICK o : /\ o \in trigger_callback(Now, st, sets[st[2]])
                    \/ o \in trigger_hangup(Now, st, sets[st[2]])
                 /\ Becomes(st[2], o)
    BY <1>2 DEF process_poll_result, Process
  <2>6. Fine(Now, st[2], o)
    BY <2>0, <2>2, <2>3, <2>4, <2>5, CallbackFine, HangupFine
  <2> QED BY <2>4, <2>5, <2>6, BecomesKeeps
<1> QED BY <1>1, <1>2 DEF dispatch

-----------------------------------------------------------------------------
(* What the runner does between two batches. *)

LEMMA NowFacts ==
    ASSUME IInv, NEW g \in Set
    PROVE  /\ Good(Now) /\ Now.fd = fd
           /\ SetInv(Now.fd, g, sets[g]) /\ sets[g] \in SetStates
BY DEF IInv, Now

LEMMA InitializeKeeps == ASSUME IInv, NEW g \in Set, initialize(g) PROVE IInv'
<1> DEFINE a == start(Now, <<"scan", g>>)
           b == open(a, <<"dhcp_log", g>>)
           c == start(b, <<"dhcp", g>>)
           d == start(c, <<"tcpdump", g>>)
           t == [sets[g] EXCEPT !.phase = "wait"]
<1>0. /\ Good(Now) /\ Now.fd = fd /\ SetInv(Now.fd, g, sets[g]) /\ sets[g] \in SetStates
  BY NowFacts
<1>1. sets[g].phase = "new" /\ Becomes(g, Outcome(d, t))
  BY DEF initialize, Between
<1>2. \A f \in File : f[2] = g => Now.fd[f] = 0
  BY <1>0, <1>1 DEF SetInv, PhaseInv
<1>3. Good(a) /\ Opened(Now, a, <<"scan", g>>)
  BY <1>0, <1>2, FileNames, StartEffect
<1> HIDE DEF a
<1>4. a.fd[<<"dhcp_log", g>>] = 0 /\ a.fd[<<"dhcp", g>>] = 0 /\ a.fd[<<"tcpdump", g>>] = 0
  BY <1>2, <1>3, FileNames DEF Opened
<1>5. Good(b) /\ Opened(a, b, <<"dhcp_log", g>>)
  BY <1>3, <1>4, FileNames, OpenLogEffect
<1> HIDE DEF b
<1>6. b.fd[<<"dhcp", g>>] = 0 /\ b.fd[<<"tcpdump", g>>] = 0
  BY <1>4, <1>5, FileNames DEF Opened
<1>7. Good(c) /\ Opened(b, c, <<"dhcp", g>>)
  BY <1>5, <1>6, FileNames, StartEffect
<1> HIDE DEF c
<1>8. c.fd[<<"tcpdump", g>>] = 0
  BY <1>6, <1>7, FileNames DEF Opened
<1>9. Good(d) /\ Opened(c, d, <<"tcpdump", g>>)
  BY <1>7, <1>8, FileNames, StartEffect
<1> HIDE DEF d
<1>10. \A f \in File : f \notin {<<"scan", g>>, <<"dhcp_log", g>>, <<"dhcp", g>>, <<"tcpdump", g>>}
                       => d.fd[f] = Now.fd[f]
  BY <1>3, <1>5, <1>7, <1>9 DEF Opened
<1>11. \A k \in {"arp", "arp_log", "module", "module_log"} :
         d.fd[<<k, g>>] = Now.fd[<<k, g>>] /\ Now.fd[<<k, g>>] = 0
  BY <1>2, <1>10, FileNames
<1>12. /\ t \in SetStates /\ t.phase = "wait" /\ t.asked = sets[g].asked
       /\ t.answers = sets[g].answers
  BY <1>0 DEF SetStates
<1> HIDE DEF t
<1>13. SearchInv(d.fd, g, t) /\ PhaseInv(d.fd, g, t)
  BY <1>0, <1>11, <1>12 DEF SetInv, SearchInv, PhaseInv
<1>14. Fine(Now, g, Outcome(d, t))
  <2>1. \A f \in File : f[2] # g => d.fd[f] = Now.fd[f]
    BY <1>10
  <2> QED BY <1>9, <1>13, <2>1 DEF Fine, SetInv, Outcome
<1> QED BY <1>1, <1>14, BecomesKeeps

LEMMA BaseStartKeeps == ASSUME IInv, NEW g \in Set, base_start(g) PROVE IInv'
<1> DEFINE a == finalize(Now, <<"tcpdump", g>>)
           b == start(a, <<"tcpdump", g>>)
           t == [sets[g] EXCEPT !.phase = "monitor"]
<1>0. /\ Good(Now) /\ Now.fd = fd /\ SetInv(Now.fd, g, sets[g]) /\ sets[g] \in SetStates
  BY NowFacts
<1>1. sets[g].phase = "base" /\ Becomes(g, Outcome(b, t))
  BY DEF base_start, Between
<1>2. Good(a) /\ Closed(Now, a, {<<"tcpdump", g>>})
  BY <1>0, FileNames, FinalizeEffect
<1> HIDE DEF a
<1>3. a.fd[<<"tcpdump", g>>] = 0
  BY <1>2, FileNames DEF Closed
<1>4. Good(b) /\ Opened(a, b, <<"tcpdump", g>>)
  BY <1>2, <1>3, FileNames, StartEffect
<1> HIDE DEF b
<1>5. \A f \in File : f # <<"tcpdump", g>> => b.fd[f] = Now.fd[f]
  BY <1>2, <1>4 DEF Closed, Opened
<1>6. \A k \in {"arp", "arp_log", "module", "module_log"} : b.fd[<<k, g>>] = Now.fd[<<k, g>>]
  BY <1>5, FileNames
<1>7. /\ t \in SetStates /\ t.phase = "monitor" /\ t.asked = sets[g].asked
      /\ t.answers = sets[g].answers
  BY <1>0 DEF SetStates
<1> HIDE DEF t
<1>8. SearchInv(b.fd, g, t) /\ PhaseInv(b.fd, g, t)
  BY <1>0, <1>1, <1>6, <1>7 DEF SetInv, SearchInv, PhaseInv
<1>9. Fine(Now, g, Outcome(b, t))
  <2>1. \A f \in File : f[2] # g => b.fd[f] = Now.fd[f]
    BY <1>5
  <2> QED BY <1>4, <1>8, <2>1 DEF Fine, SetInv, Outcome
<1> QED BY <1>1, <1>9, BecomesKeeps

LEMMA DiscoverHostKeeps == ASSUME IInv, NEW g \in Set, discover_host(g) PROVE IInv'
<1> DEFINE t == [sets[g] EXCEPT !.asked = TRUE]
<1>0. /\ Good(Now) /\ Now.fd = fd /\ SetInv(Now.fd, g, sets[g]) /\ sets[g] \in SetStates
  BY NowFacts
<1>1. PICK o \in recursive_discover(Now, g, t) : Becomes(g, o)
  BY DEF discover_host, Between
<1>2. sets[g].phase = "wait" /\ ~sets[g].asked
  BY DEF discover_host, Between
<1>3. /\ t \in SetStates /\ t.phase = sets[g].phase /\ t.asked = TRUE
      /\ t.answers = sets[g].answers
  BY <1>0 DEF SetStates
<1> HIDE DEF t
<1>4. Searching(Now, g, t)
  BY <1>0, <1>2, <1>3 DEF Searching, SetInv, SearchInv, PhaseInv
<1>5. Fine(Now, g, o)
  BY <1>0, <1>1, <1>4, DiscoverFine
<1> QED BY <1>1, <1>5, BecomesKeeps

LEMMA ReapKeeps == ASSUME IInv, NEW g \in Set, reap(g) PROVE IInv'
<1>0. Good(Now) /\ SearchInv(Now.fd, g, sets[g])
  BY NowFacts DEF SetInv
<1>1. PICK o \in ended(Now, g, sets[g]) : Becomes(g, o)
  BY DEF reap, Between
<1>2. Fine(Now, g, o)
  BY <1>0, <1>1, EndedFine
<1> QED BY <1>1, <1>2, BecomesKeeps

-----------------------------------------------------------------------------
LEMMA InitIInv == ASSUME Init PROVE IInv
<1>1. Now = [fd |-> [f \in File |-> 0], callbacks |-> <<>>]
  BY DEF Init, Now
<1>2. Now \in MonitorStates
  <2>1. [f \in File |-> 0] \in [File -> {0} \cup Fds] /\ <<>> \in Seq(Entries)
    OBVIOUS
  <2> QED BY <1>1, <2>1 DEF MonitorStates
<1>3. Now.fd = fd /\ Now.callbacks = <<>> /\ fd = [f \in File |-> 0]
  BY <1>1 DEF Init
<1>4. DOMAIN Now.callbacks = {}
  BY <1>3
<1>5. Good(Now)
  BY <1>2, <1>3, <1>4, StreamsAreFiles DEF Good, Sound, Watched
<1>6. ASSUME NEW g \in Set
      PROVE  sets[g] \in SetStates /\ SetInv(fd, g, sets[g])
  <2>1. sets[g] = NewSet(g)
    BY DEF Init
  <2>2. Tests[g] \in Nat /\ NumSubnets \in 0..NumSubnets
    BY StreamsAssumption
  <2>3. NewSet(g) \in SetStates /\ NewSet(g).phase = "new" /\ NewSet(g).answers = 0
    BY <2>2 DEF NewSet, SetStates
  <2>4. \A f \in File : fd[f] = 0
    BY <1>3
  <2>5. \A k \in {"arp", "arp_log", "module", "module_log"} : fd[<<k, g>>] = 0
    BY <2>4, FileNames
  <2> QED BY <2>1, <2>3, <2>4, <2>5 DEF SetInv, SearchInv, PhaseInv
<1>7. sets \in [Set -> SetStates]
  <2>1. sets = [g \in Set |-> NewSet(g)] /\ \A g \in Set : NewSet(g) \in SetStates
    BY <1>6 DEF Init
  <2> QED BY <2>1
<1> QED BY <1>5, <1>6, <1>7 DEF IInv

LEMMA NextIInv == ASSUME IInv, [Next]_vars PROVE IInv'
<1>1. CASE UNCHANGED <<fd, callbacks, sets>>
  BY <1>1, IInvSame
<1>2. CASE poll
  BY <1>1, <1>2 DEF poll
<1>3. CASE dispatch
  BY <1>3, DispatchKeeps
<1>4. ASSUME NEW g \in Set, initialize(g) \/ base_start(g) \/ discover_host(g) \/ reap(g)
      PROVE  IInv'
  BY <1>4, InitializeKeeps, BaseStartKeeps, DiscoverHostKeeps, ReapKeeps
<1>5. CASE \E st \in Talks : produce(st)
  BY <1>1, <1>5 DEF produce
<1>6. CASE \E st \in Dies : end(st)
  BY <1>1, <1>6 DEF end
<1>7. CASE UNCHANGED vars
  BY <1>1, <1>7 DEF vars
<1> QED BY <1>2, <1>3, <1>4, <1>5, <1>6, <1>7 DEF Next

(* The inductive invariant of the event loop: the monitor is sound and     *)
(* watches every open stream, and each target set has open what its phase  *)
(* allows (event_loop, and the callbacks and finalizers of its users).     *)
THEOREM Invariance == Spec => []IInv
<1>1. Init => IInv
  BY InitIInv
<1>2. IInv /\ [Next]_vars => IInv'
  BY NextIInv
<1> QED BY <1>1, <1>2, PTL DEF Spec

(* Whatever a callback closes or opens within a batch, a monitored         *)
(* descriptor is the open one of the stream it was registered for, and of  *)
(* that one only: the POLLNVAL assertion of event_loop and the assertions  *)
(* of monitor and forget hold.                                             *)
THEOREM MonitoredStaysOpen == Spec => []MonitoredIsOpen
<1>1. IInv => MonitoredIsOpen
  <2> SUFFICES ASSUME IInv PROVE MonitoredIsOpen
    OBVIOUS
  <2>1. Sound(Now) /\ Now.fd = fd /\ Now.callbacks = callbacks
    BY DEF IInv, Good, Now
  <2> QED BY <2>1 DEF MonitoredIsOpen, Sound, Range
<1> QED BY <1>1, Invariance, PTL

(* A target set that is over has nothing of its gateway or host open,      *)
(* whatever was running when target_set_cancel ended it, and no callback   *)
(* of an event that came too late opens anything for it again.             *)
THEOREM EndedSetsAreClosed == Spec => []NothingLeftBehind
<1>1. IInv => NothingLeftBehind
  BY DEF IInv, SetInv, PhaseInv, NothingLeftBehind
<1> QED BY <1>1, Invariance, PTL

(* A search for a device (discover_host) reports once at most, whether it  *)
(* finds the device or runs out of subnets, also when its set ends while   *)
(* it is under way.                                                        *)
THEOREM SearchAnswersOnce == Spec => []AnsweredOnce
<1>1. IInv => AnsweredOnce
  BY DEF IInv, SetInv, SearchInv, AnsweredOnce
<1> QED BY <1>1, Invariance, PTL

(* Every open stream is monitored, so the end of its process can be        *)
(* noticed: the safety half of HangupNoticed.                              *)
THEOREM OpenIsMonitored ==
    Spec => [](\A st \in Stream : fd[st] # 0 => \E c \in Range(callbacks) : c.stream = st)
<1>1. IInv => \A st \in Stream : fd[st] # 0 => \E c \in Range(callbacks) : c.stream = st
  <2> SUFFICES ASSUME IInv, NEW st \in Stream, fd[st] # 0
               PROVE  \E c \in Range(callbacks) : c.stream = st
    OBVIOUS
  <2>1. Watched(Now, {}) /\ Now.fd = fd /\ Now.callbacks = callbacks
    BY DEF IInv, Good, Now
  <2> QED BY <2>1 DEF Watched, Range
<1> QED BY <1>1, Invariance, PTL

=============================================================================
