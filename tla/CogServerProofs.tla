--------------------------- MODULE CogServerProofs ---------------------------
(***************************************************************************)
(* Proofs about the CogServer: requests of a client are executed one at a  *)
(* time and in order on whatever thread, a socket reads on only when its   *)
(* shell request is done, and no thread runs an agent that another one has *)
(* destroyed or whose module is unloaded.                                  *)
(***************************************************************************)
EXTENDS CogServer, SequenceTheorems, TLAPS

-----------------------------------------------------------------------------
(* The inductive invariant                                                 *)

\* Lines as the clients can send them, and the requests made of them.
GoodLines == {l \in Lines : <<l.cmd, l.arg>> \in Words}
GoodRequests == {r \in Requests : r.line \in GoodLines}

\* The types, of commands that have an argument of their kind: of the server loop,
\* of the requests, of the sockets and of the agents.
LoopTyped ==
  running \in BOOLEAN /\ agentsRunning \in BOOLEAN /\ cycleCount \in 0 .. CycleBound - 1
RequestsTyped ==
  /\ requestQueue \in Seq(GoodRequests)
  /\ processRequestsLock \in Threads \cup {None}
  /\ pc \in [Threads -> Labels]
  /\ current \in [Threads -> GoodRequests \cup {None}]
  /\ done \in [Clients -> Nat]
Sockets == [closed : BOOLEAN, line : BOOLEAN, shell : BOOLEAN, request : Nat,
            buffer : Seq(GoodLines)]
SocketsTyped ==
  /\ sock \in [Clients -> Sockets]
  /\ net \in [Clients -> Seq(GoodLines)] /\ ahead \in [Clients -> Seq(GoodLines)]
  /\ sent \in [Clients -> Nat] /\ hungUp \subseteq Clients
AgentsTyped ==
  /\ agentsLock \in Threads \cup {None}
  /\ todo \in [Threads -> Seq(Addresses)] /\ agents \in Seq(Addresses)
  /\ kindOf \in [Addresses -> Kinds \cup {None}]
  /\ activity \subseteq Addresses /\ modules \subseteq Modules

\* Labels at which a thread has a request in its hands.
Busy == {"execute", "stepping", "temporary"}

\* Only the thread that holds processRequestsLock is inside processRequests, and
\* only it has a request; an exception takes the thread out and leaves the lock.
OneInside ==
  \A t \in Threads :
    /\ pc[t] \in Inside \/ current[t] # None => processRequestsLock = t
    /\ pc[t] = "drain" => current[t] = None
    /\ pc[t] \in Busy => current[t] # None

\* The lines a of a client that its socket has read ahead and the lines n still in the
\* network come in their order, after position p and up to position q.
Ordered(a, n, p, q) ==
  /\ \A i, j \in DOMAIN a : i < j => a[i].pos < a[j].pos
  /\ \A i, j \in DOMAIN n : i < j => n[i].pos < n[j].pos
  /\ \A i \in DOMAIN a, j \in DOMAIN n : a[i].pos < n[j].pos
  /\ \A i \in DOMAIN a : p < a[i].pos /\ a[i].pos <= q
  /\ \A j \in DOMAIN n : p < n[j].pos /\ n[j].pos <= q
  /\ p <= q

\* The lines that are not executed come after the one the socket read last.
LinesInOrder == \A c \in Clients : Ordered(ahead[c], net[c], sock[c].request, sent[c])

\* Of a client's requests only those up to the line its socket read last are
\* queued, executed or done; the data request whose data is read is not yet.
Passed(c, pos) ==
  pos <= sock[c].request /\ (~sock[c].line => pos < sock[c].request)

PendingPassed ==
  /\ \A r \in Pending : Passed(r.client, r.line.pos) /\ done[r.client] < r.line.pos
  /\ \A c \in Clients : Passed(c, done[c])

\* A pending request that enters a shell is the last one its socket has read, and
\* the socket has not gone on reading, unless the lock is leaked.
ShellIsLast ==
  \/ LockLeaked
  \/ \A r \in Pending :
       r.line.cmd = "scm" => /\ pc[r.client] \notin {"reading", "none"}
                             /\ r.line.pos = sock[r.client].request

\* Agents are run by the thread that executes a request, or by the server loop
\* under agentsLock, which only runs started ones; a temporary one is not started.
AgentsAreRun ==
  /\ Alive => \A t \in Threads :
       todo[t] # << >> => pc[t] \in {"stepping", "temporary"} \/ (t = Main /\ pc[t] = "agents")
  /\ pc[Main] = "agents" => /\ agentsLock = Main
                            /\ \A i \in DOMAIN todo[Main] : todo[Main][i] \in Started
  /\ \A t \in Threads : pc[t] = "temporary" => Len(todo[t]) = 1 /\ todo[t][1] \notin Started
  /\ activity \subseteq Started

ServerSafe ==
  /\ LoopTyped /\ RequestsTyped /\ SocketsTyped /\ AgentsTyped
  /\ OneInside
  /\ LinesInOrder
  /\ PendingPassed
  /\ RequestsInOrder
  /\ ShellIsLast
  /\ AgentsHaveCode
  /\ AgentsAreRun

-----------------------------------------------------------------------------
(* Queues and lines                                                        *)

\* Taking the first element of a queue.
LEMMA Taken ==
  ASSUME NEW S, NEW q \in Seq(S), q # << >>
  PROVE  /\ Tail(q) \in Seq(S) /\ Head(q) \in S /\ Head(q) = q[1]
         /\ Len(q) \in Nat /\ Len(q) >= 1 /\ DOMAIN q = 1 .. Len(q)
         /\ DOMAIN Tail(q) = 1 .. Len(q) - 1
         /\ \A i \in 1 .. Len(q) - 1 : Tail(q)[i] = q[i + 1]
<1>1. Len(q) \in Nat /\ Len(q) # 0 /\ DOMAIN q = 1 .. Len(q)
  BY LenProperties, EmptySeq
<1> QED BY <1>1, HeadTailProperties, LenProperties

\* Putting an element at the end of a queue.
LEMMA Appended ==
  ASSUME NEW S, NEW q \in Seq(S), NEW m \in S
  PROVE  /\ Append(q, m) \in Seq(S)
         /\ Len(q) \in Nat /\ DOMAIN q = 1 .. Len(q)
         /\ DOMAIN Append(q, m) = 1 .. Len(q) + 1
         /\ Append(q, m)[Len(q) + 1] = m
         /\ \A i \in DOMAIN q : Append(q, m)[i] = q[i]
BY AppendProperties, LenProperties

\* The first n elements of a queue, and the rest.
LEMMA Divided ==
  ASSUME NEW S, NEW q \in Seq(S), NEW n \in 0 .. Len(q)
  PROVE  /\ SubSeq(q, 1, n) \in Seq(S) /\ SubSeq(q, n + 1, Len(q)) \in Seq(S)
         /\ DOMAIN SubSeq(q, 1, n) = 1 .. n
         /\ DOMAIN SubSeq(q, n + 1, Len(q)) = 1 .. Len(q) - n
         /\ \A i \in 1 .. n : SubSeq(q, 1, n)[i] = q[i]
         /\ \A i \in 1 .. Len(q) - n : SubSeq(q, n + 1, Len(q))[i] = q[n + i]
<1>1. Len(q) \in Nat /\ n \in Nat /\ n <= Len(q) /\ \A i \in 1 .. Len(q) : q[i] \in S
  BY LenProperties
<1>2. /\ SubSeq(q, 1, n) \in Seq(S) /\ Len(SubSeq(q, 1, n)) = n
      /\ \A i \in 1 .. n : SubSeq(q, 1, n)[i] = q[i]
  <2>1. \A i \in 1 .. n : q[i] \in S
    BY <1>1
  <2>2. /\ SubSeq(q, 1, n) \in Seq(S)
        /\ Len(SubSeq(q, 1, n)) = IF 1 <= n THEN n - 1 + 1 ELSE 0
        /\ \A i \in 1 .. n - 1 + 1 : SubSeq(q, 1, n)[i] = q[1 + i - 1]
    BY <1>1, <2>1, SubSeqProperties, 1 \in Int
  <2> QED BY <1>1, <2>2
<1>3. /\ SubSeq(q, n + 1, Len(q)) \in Seq(S) /\ Len(SubSeq(q, n + 1, Len(q))) = Len(q) - n
      /\ \A i \in 1 .. Len(q) - n : SubSeq(q, n + 1, Len(q))[i] = q[n + i]
  <2>1. n + 1 \in Int /\ \A i \in n + 1 .. Len(q) : q[i] \in S
    BY <1>1
  <2>2. /\ SubSeq(q, n + 1, Len(q)) \in Seq(S)
        /\ Len(SubSeq(q, n + 1, Len(q))) =
             IF n + 1 <= Len(q) THEN Len(q) - (n + 1) + 1 ELSE 0
        /\ \A i \in 1 .. Len(q) - (n + 1) + 1 : SubSeq(q, n + 1, Len(q))[i] = q[(n + 1) + i - 1]
    BY <1>1, <2>1, SubSeqProperties
  <2> QED BY <1>1, <2>2
<1> QED BY <1>1, <1>2, <1>3, LenProperties

\* The parts of lines and requests.
LEMMA LineParts ==
  /\ \A l \in GoodLines : /\ l \in Lines /\ l.cmd \in Commands /\ l.pos \in Nat
                           /\ (l.cmd \in OfAgents => l.arg \in Kinds)
                           /\ (l.cmd \in OfModules => l.arg \in Modules)
  /\ \A r \in GoodRequests : /\ r \in Requests /\ r.client \in Clients /\ r.line \in GoodLines
                              /\ r # None
<1>1. ASSUME NEW l \in GoodLines
      PROVE  /\ l \in Lines /\ l.cmd \in Commands /\ l.pos \in Nat
             /\ (l.cmd \in OfAgents => l.arg \in Kinds)
             /\ (l.cmd \in OfModules => l.arg \in Modules)
  <2>1. l \in Lines /\ <<l.cmd, l.arg>> \in Words
    BY DEF GoodLines
  <2>2. l.arg \in IF l.cmd \in OfAgents THEN Kinds ELSE IF l.cmd \in OfModules THEN Modules ELSE {None}
    BY <2>1 DEF Words
  <2>3. OfAgents \cap OfModules = {}
    BY DEF OfAgents, OfModules
  <2> QED BY <2>1, <2>2, <2>3 DEF Lines
<1>2. ASSUME NEW r \in GoodRequests
      PROVE  r \in Requests /\ r.client \in Clients /\ r.line \in GoodLines /\ r # None
  BY ThreadsAssumption DEF GoodRequests, Requests
<1> QED BY <1>1, <1>2

\* What the client may send is a line, and so is what stands for sent data.
LEMMA MadeLines ==
  /\ \A w \in Words, n \in Nat : [cmd |-> w[1], arg |-> w[2], pos |-> n] \in GoodLines
  /\ \A n \in Nat : [cmd |-> "data", arg |-> None, pos |-> n] \in GoodLines
<1>1. ASSUME NEW w \in Words, NEW n \in Nat
      PROVE  [cmd |-> w[1], arg |-> w[2], pos |-> n] \in GoodLines
  <2>1. w = <<w[1], w[2]>> /\ w[1] \in Commands /\ w[2] \in Kinds \cup Modules \cup {None}
    BY DEF Words
  <2> QED BY <2>1 DEF GoodLines, Lines
<1>2. <<"data", None>> \in Words
  BY DEF Words, Commands, OfAgents, OfModules
<1>3. ASSUME NEW n \in Nat
      PROVE  [cmd |-> "data", arg |-> None, pos |-> n] \in GoodLines
  BY <1>2 DEF GoodLines, Lines, Commands
<1> QED BY <1>1, <1>3

\* A sequence over a set is one over a larger set.
LEMMA SeqOfMore ==
  ASSUME NEW S, NEW T, S \subseteq T, NEW q \in Seq(S)
  PROVE  q \in Seq(T)
<1>1. Len(q) \in Nat /\ q \in [1 .. Len(q) -> S]
  BY LenProperties
<1>2. q \in [1 .. Len(q) -> T]
  BY <1>1
<1> QED BY <1>1, <1>2, SeqDef

\* A request made of a line.
LEMMA MadeRequest ==
  ASSUME NEW c \in Clients, NEW l \in GoodLines, NEW d \in Seq(GoodLines)
  PROVE  [client |-> c, line |-> l, data |-> d] \in GoodRequests
<1>1. l \in Lines /\ d \in Seq(Lines)
  BY SeqOfMore DEF GoodLines
<1>2. [client |-> c, line |-> l, data |-> d] \in Requests
  BY <1>1 DEF Requests
<1> QED BY <1>2 DEF GoodRequests

\* What read_until gives: the line is the next one, and the rest comes after it.
LEMMA LinesRead ==
  ASSUME NEW a \in Seq(GoodLines), NEW q \in Seq(GoodLines), NEW p \in Nat, NEW s \in Nat,
         Ordered(a, q, p, s), NEW n \in 0 .. Len(q), n = 0 <=> a # << >>
  PROVE  LET b == a \o SubSeq(q, 1, n)
             rest == SubSeq(q, n + 1, Len(q))
         IN /\ Head(b) \in GoodLines /\ Tail(b) \in Seq(GoodLines) /\ rest \in Seq(GoodLines)
            /\ p < Head(b).pos /\ Ordered(Tail(b), rest, Head(b).pos, s)
<1> DEFINE b == a \o SubSeq(q, 1, n)
           rest == SubSeq(q, n + 1, Len(q))
<1> SUFFICES /\ Head(b) \in GoodLines /\ Tail(b) \in Seq(GoodLines) /\ rest \in Seq(GoodLines)
             /\ p < Head(b).pos /\ Ordered(Tail(b), rest, Head(b).pos, s)
  OBVIOUS
<1>1. /\ Len(q) \in Nat /\ DOMAIN q = 1 .. Len(q) /\ n \in Nat /\ n <= Len(q)
      /\ \A l \in GoodLines : l.pos \in Nat
  BY LenProperties, LineParts
<1>2. /\ SubSeq(q, 1, n) \in Seq(GoodLines) /\ rest \in Seq(GoodLines)
      /\ DOMAIN SubSeq(q, 1, n) = 1 .. n /\ DOMAIN rest = 1 .. Len(q) - n
      /\ \A i \in 1 .. n : SubSeq(q, 1, n)[i] = q[i]
      /\ \A i \in 1 .. Len(q) - n : rest[i] = q[n + i]
  BY Divided
<1>3. CASE n = 0
  <2>1. b = a /\ a # << >>
    <3>1. Len(SubSeq(q, 1, n)) = 0
      BY <1>2, <1>3, LenProperties
    <3>2. SubSeq(q, 1, n) = << >>
      BY <1>2, <3>1, EmptySeq
    <3> QED BY <1>3, <3>2, ConcatEmptySeq
  <2> HIDE DEF b
  <2>2. /\ Tail(a) \in Seq(GoodLines) /\ Head(a) \in GoodLines /\ Head(a) = a[1]
        /\ Len(a) \in Nat /\ Len(a) >= 1 /\ DOMAIN a = 1 .. Len(a)
        /\ DOMAIN Tail(a) = 1 .. Len(a) - 1
        /\ \A i \in 1 .. Len(a) - 1 : Tail(a)[i] = a[i + 1]
    BY <2>1, Taken
  <2>3. \A i \in DOMAIN rest : i \in DOMAIN q /\ rest[i] = q[i]
    BY <1>1, <1>2, <1>3
  <2>4. \A i \in DOMAIN Tail(a) : i + 1 \in DOMAIN a /\ Tail(a)[i] = a[i + 1] /\ i \in Nat /\ 1 < i + 1
    BY <2>2
  <2>5. 1 \in DOMAIN a /\ Head(a).pos \in Nat /\ \A i \in DOMAIN a : a[i].pos \in Nat
    <3>1. \A i \in DOMAIN a : a[i] \in GoodLines
      BY <2>2, LenProperties
    <3> QED BY <1>1, <2>2, <3>1
  <2> HIDE DEF rest
  <2>6. Ordered(Tail(a), rest, Head(a).pos, s)
    <3>1. \A i, j \in DOMAIN Tail(a) : i < j => Tail(a)[i].pos < Tail(a)[j].pos
      BY <2>4, <2>5 DEF Ordered
    <3>2. \A i, j \in DOMAIN rest : i < j => rest[i].pos < rest[j].pos
      BY <2>3 DEF Ordered
    <3>3. \A i \in DOMAIN Tail(a), j \in DOMAIN rest : Tail(a)[i].pos < rest[j].pos
      BY <2>3, <2>4 DEF Ordered
    <3>4. \A i \in DOMAIN Tail(a) : Head(a).pos < Tail(a)[i].pos /\ Tail(a)[i].pos <= s
      BY <2>2, <2>4, <2>5 DEF Ordered
    <3>5. \A j \in DOMAIN rest : Head(a).pos < rest[j].pos /\ rest[j].pos <= s
      BY <2>2, <2>3, <2>5 DEF Ordered
    <3> QED BY <2>2, <2>5, <3>1, <3>2, <3>3, <3>4, <3>5 DEF Ordered
  <2>7. p < Head(a).pos
    BY <2>2, <2>5 DEF Ordered
  <2> QED BY <1>2, <2>1, <2>2, <2>6, <2>7
<1>4. CASE n # 0
  <2>1. b = SubSeq(q, 1, n) /\ a = << >>
    BY <1>2, <1>4, ConcatEmptySeq
  <2> HIDE DEF b
  <2>2. b \in Seq(GoodLines) /\ b # << >> /\ DOMAIN b = 1 .. n /\ \A i \in 1 .. n : b[i] = q[i]
    <3>1. Len(b) = n
      BY <1>1, <1>2, <2>1, LenProperties
    <3> QED BY <1>2, <1>4, <2>1, <3>1, EmptySeq
  <2>3. /\ Tail(b) \in Seq(GoodLines) /\ Head(b) \in GoodLines /\ Head(b) = q[1]
        /\ DOMAIN Tail(b) = 1 .. n - 1
        /\ \A i \in 1 .. n - 1 : Tail(b)[i] = q[i + 1]
    <3>1. /\ Tail(b) \in Seq(GoodLines) /\ Head(b) \in GoodLines /\ Head(b) = b[1]
          /\ Len(b) \in Nat /\ Len(b) >= 1 /\ DOMAIN b = 1 .. Len(b)
          /\ DOMAIN Tail(b) = 1 .. Len(b) - 1
          /\ \A i \in 1 .. Len(b) - 1 : Tail(b)[i] = b[i + 1]
      BY <2>2, Taken
    <3>2. Len(b) = n
      BY <1>1, <2>2, LenProperties
    <3> QED BY <1>1, <1>4, <2>2, <3>1, <3>2
  <2>4. \A i \in DOMAIN Tail(b) : /\ i \in Nat /\ i + 1 \in DOMAIN q /\ 1 < i + 1 /\ i + 1 <= n
                                  /\ Tail(b)[i] = q[i + 1]
    BY <1>1, <2>3
  <2>5. \A j \in DOMAIN rest : j \in Nat /\ n + j \in DOMAIN q /\ n < n + j /\ rest[j] = q[n + j]
    BY <1>1, <1>2
  <2>6. 1 \in DOMAIN q /\ \A i \in DOMAIN q : q[i].pos \in Nat
    <3>1. \A i \in DOMAIN q : q[i] \in GoodLines
      BY <1>1, LenProperties
    <3> QED BY <1>1, <1>4, <3>1
  <2> HIDE DEF rest
  <2>7. Ordered(Tail(b), rest, Head(b).pos, s)
    <3>1. \A i, j \in DOMAIN Tail(b) : i < j => Tail(b)[i].pos < Tail(b)[j].pos
      BY <2>4 DEF Ordered
    <3>2. \A i, j \in DOMAIN rest : i < j => rest[i].pos < rest[j].pos
      <4> SUFFICES ASSUME NEW i \in DOMAIN rest, NEW j \in DOMAIN rest, i < j
                   PROVE  rest[i].pos < rest[j].pos
        OBVIOUS
      <4>1. n + i < n + j
        BY <1>1, <2>5
      <4> QED BY <2>5, <4>1 DEF Ordered
    <3>3. \A i \in DOMAIN Tail(b), j \in DOMAIN rest : Tail(b)[i].pos < rest[j].pos
      <4> TAKE i \in DOMAIN Tail(b), j \in DOMAIN rest
      <4>1. i + 1 < n + j
        BY <1>1, <2>4, <2>5
      <4> QED BY <2>4, <2>5, <4>1 DEF Ordered
    <3>4. \A i \in DOMAIN Tail(b) : Head(b).pos < Tail(b)[i].pos /\ Tail(b)[i].pos <= s
      BY <2>3, <2>4, <2>6 DEF Ordered
    <3>5. \A j \in DOMAIN rest : Head(b).pos < rest[j].pos /\ rest[j].pos <= s
      <4> TAKE j \in DOMAIN rest
      <4>1. 1 < n + j
        BY <1>1, <1>4, <2>5
      <4> QED BY <2>3, <2>5, <2>6, <4>1 DEF Ordered
    <3> QED BY <2>3, <2>6, <3>1, <3>2, <3>3, <3>4, <3>5 DEF Ordered
  <2>8. p < Head(b).pos
    BY <2>3, <2>6 DEF Ordered
  <2> QED BY <1>2, <2>3, <2>7, <2>8
<1> QED BY <1>3, <1>4

\* What ReadRawData leaves in the network comes after what it has read.
LEMMA LinesLeft ==
  ASSUME NEW a \in Seq(GoodLines), NEW q \in Seq(GoodLines), NEW p \in Nat, NEW s \in Nat,
         Ordered(a, q, p, s), NEW n \in 0 .. Len(q)
  PROVE  Ordered(a, SubSeq(q, n + 1, Len(q)), p, s)
<1> DEFINE rest == SubSeq(q, n + 1, Len(q))
<1>1. Len(q) \in Nat /\ DOMAIN q = 1 .. Len(q) /\ n \in Nat
  BY LenProperties
<1>2. DOMAIN rest = 1 .. Len(q) - n /\ \A i \in 1 .. Len(q) - n : rest[i] = q[n + i]
  BY Divided
<1>3. \A j \in DOMAIN rest : j \in Nat /\ n + j \in DOMAIN q /\ rest[j] = q[n + j]
  BY <1>1, <1>2
<1> HIDE DEF rest
<1>4. \A i, j \in DOMAIN rest : i < j => rest[i].pos < rest[j].pos
  <2> SUFFICES ASSUME NEW i \in DOMAIN rest, NEW j \in DOMAIN rest, i < j
               PROVE  rest[i].pos < rest[j].pos
    OBVIOUS
  <2>1. n + i < n + j
    BY <1>1, <1>3
  <2> QED BY <1>3, <2>1 DEF Ordered
<1>5. Ordered(a, rest, p, s)
  BY <1>3, <1>4 DEF Ordered
<1> QED BY <1>5 DEF rest

\* A line that is sent is the last one.
LEMMA LinesSent ==
  ASSUME NEW a \in Seq(GoodLines), NEW q \in Seq(GoodLines), NEW p \in Nat, NEW s \in Nat,
         Ordered(a, q, p, s), NEW l \in GoodLines, l.pos = s + 1
  PROVE  Ordered(a, Append(q, l), p, s + 1)
<1> DEFINE r == Append(q, l)
<1>1. /\ Len(q) \in Nat /\ DOMAIN q = 1 .. Len(q) /\ DOMAIN r = 1 .. Len(q) + 1
      /\ r[Len(q) + 1] = l /\ \A i \in DOMAIN q : r[i] = q[i]
  BY Appended
<1>2. \A i \in DOMAIN a : a[i].pos \in Nat
  BY LenProperties, LineParts
<1>3. \A i \in DOMAIN q : q[i].pos \in Nat
  BY LenProperties, LineParts
<1>4. \A j \in DOMAIN r : (j \in DOMAIN q /\ r[j] = q[j]) \/ (j = Len(q) + 1 /\ r[j] = l)
  BY <1>1
<1> HIDE DEF r
<1>5. \A i, j \in DOMAIN r : i < j => r[i].pos < r[j].pos
  <2> SUFFICES ASSUME NEW i \in DOMAIN r, NEW j \in DOMAIN r, i < j
               PROVE  r[i].pos < r[j].pos
    OBVIOUS
  <2>1. i \in DOMAIN q /\ r[i] = q[i]
    BY <1>1, <1>4
  <2> QED BY <1>3, <1>4, <2>1 DEF Ordered
<1>6. Ordered(a, r, p, s + 1)
  BY <1>2, <1>3, <1>4, <1>5 DEF Ordered
<1> QED BY <1>6 DEF r

-----------------------------------------------------------------------------
(* Kinds of steps                                                          *)

\* What the invariants of the requests say of the state.
RequestsSafe ==
  /\ RequestsTyped /\ SocketsTyped
  /\ OneInside /\ LinesInOrder /\ PendingPassed /\ RequestsInOrder /\ ShellIsLast

\* At most thread t changes its place.
OnlyMoves(t) == pc' \in [Threads -> Labels] /\ \A u \in Threads \ {t} : pc'[u] = pc[u]

\* No socket reads a line, or asks for data.
SameReading ==
  \A c \in Clients : sock'[c].request = sock[c].request /\ sock'[c].line = sock[c].line

\* Nothing that enters a shell is pending for this thread, if it is a socket's.
ShellDone(t) == LockLeaked \/ \A r \in Pending : r.client = t => r.line.cmd # "scm"

\* Thread t moves outside of processRequests, or is thrown out of it.
QuietStep(t) ==
  /\ OnlyMoves(t) /\ pc'[t] \notin Inside
  /\ pc'[t] \in {"reading", "none"} => ShellDone(t)
  /\ SameReading
  /\ UNCHANGED <<requestQueue, processRequestsLock, current, net, ahead, sent, done>>

\* Thread t works at its request: it goes on, finishes it, or an exception takes the
\* thread out of processRequests.
WorkStep(t) ==
  /\ pc[t] \in Busy
  /\ SameReading
  /\ UNCHANGED <<requestQueue, processRequestsLock, net, ahead, sent>>
  /\ \/ OnlyMoves(t) /\ pc'[t] \in Busy /\ UNCHANGED <<current, done>>
     \/ Finish(t)
     \/ /\ OnlyMoves(t) /\ pc'[t] \notin Inside
        /\ current' = [current EXCEPT ![t] = None]
        /\ UNCHANGED done

\* A leaked lock stays leaked.
LEMMA LeakedStays ==
  ASSUME RequestsTyped, UNCHANGED processRequestsLock, LockLeaked,
         \A t \in Threads : pc'[t] \in Inside => pc[t] \in Inside
  PROVE  LockLeaked'
<1>1. processRequestsLock \in Threads /\ processRequestsLock' = processRequestsLock
  BY DEF RequestsTyped, LockLeaked
<1> QED BY <1>1 DEF LockLeaked

\* The pending requests are requests, and a thread at work has one.
LEMMA PendingGood ==
  ASSUME RequestsTyped, OneInside
  PROVE  /\ Pending \subseteq GoodRequests
         /\ \A t \in Threads : current[t] # None => current[t] \in Pending
         /\ \A t \in Threads : pc[t] \in Busy =>
              /\ current[t] \in Pending /\ current[t] \in GoodRequests /\ current[t] # None
              /\ current[t].client \in Clients /\ current[t].line \in GoodLines
              /\ current[t].line.pos \in Nat
         /\ \A i \in DOMAIN requestQueue : requestQueue[i] \in Pending
<1>1. \A i \in DOMAIN requestQueue : requestQueue[i] \in GoodRequests
  BY LenProperties DEF RequestsTyped
<1>2. \A t \in Threads : current[t] # None => current[t] \in GoodRequests
  BY DEF RequestsTyped
<1>3. Pending \subseteq GoodRequests
  BY <1>1, <1>2 DEF Pending
<1>4. \A t \in Threads : current[t] # None => current[t] \in Pending
  BY DEF Pending
<1>5. \A t \in Threads : pc[t] \in Busy => current[t] # None
  BY DEF OneInside
<1>6. \A i \in DOMAIN requestQueue : requestQueue[i] \in Pending
  BY DEF Pending
<1> QED BY <1>2, <1>3, <1>4, <1>5, <1>6, LineParts

\* A quiet step keeps the invariants of the requests.
LEMMA QuietKeeps ==
  ASSUME RequestsSafe, SocketsTyped', NEW t \in Threads, QuietStep(t)
  PROVE  RequestsSafe'
<1> USE DEF QuietStep, RequestsSafe
<1>0. /\ requestQueue' = requestQueue /\ processRequestsLock' = processRequestsLock
      /\ current' = current /\ net' = net /\ ahead' = ahead /\ sent' = sent /\ done' = done
  OBVIOUS
<1>1. RequestsTyped'
  BY <1>0 DEF RequestsTyped, OnlyMoves
<1>2. OneInside'
  BY <1>0 DEF OneInside, OnlyMoves, Inside, Busy
<1>3. LinesInOrder'
  BY <1>0 DEF LinesInOrder, SameReading
<1>4. Pending' = Pending
  BY <1>0 DEF Pending
<1>5. PendingPassed'
  <2>1. Pending \subseteq GoodRequests
    BY PendingGood
  <2>2. \A r \in Pending : r.client \in Clients
    BY <2>1, LineParts
  <2>3. \A c \in Clients : \A n : Passed(c, n)' <=> Passed(c, n)
    BY DEF SameReading, Passed
  <2> QED BY <1>0, <1>4, <2>2, <2>3 DEF PendingPassed, SameReading, Passed
<1>6. RequestsInOrder'
  BY <1>0 DEF RequestsInOrder
<1>7. ShellIsLast'
  <2>1. \A u \in Threads : pc'[u] \in Inside => pc[u] \in Inside
    BY DEF OnlyMoves
  <2>2. CASE LockLeaked
    BY <2>1, <2>2, LeakedStays DEF ShellIsLast
  <2>3. CASE ~LockLeaked
    <3>1. ASSUME NEW r \in Pending, r.line.cmd = "scm"
          PROVE  /\ pc'[r.client] \notin {"reading", "none"}
                 /\ r.line.pos = sock'[r.client].request
      <4>1. r.client \in Clients /\ r.client \in Threads
        BY PendingGood, LineParts DEF Threads
      <4>2. pc[r.client] \notin {"reading", "none"} /\ r.line.pos = sock[r.client].request
        BY <2>3, <3>1 DEF ShellIsLast
      <4>3. CASE r.client = t
        BY <2>3, <3>1, <4>1, <4>2, <4>3 DEF ShellDone, SameReading
      <4>4. CASE r.client # t
        BY <4>1, <4>2, <4>4 DEF OnlyMoves, SameReading
      <4> QED BY <4>3, <4>4
    <3> QED BY <1>4, <3>1 DEF ShellIsLast
  <2> QED BY <2>2, <2>3
<1> QED BY <1>1, <1>2, <1>3, <1>5, <1>6, <1>7

\* Work at a request keeps the invariants of the requests.
LEMMA WorkKeeps ==
  ASSUME RequestsSafe, SocketsTyped', NEW t \in Threads, WorkStep(t)
  PROVE  RequestsSafe'
<1> USE DEF WorkStep, RequestsSafe
<1>0. /\ requestQueue' = requestQueue /\ processRequestsLock' = processRequestsLock
      /\ net' = net /\ ahead' = ahead /\ sent' = sent
  OBVIOUS
<1> DEFINE r == current[t]
<1>1. /\ r \in Pending /\ r \in GoodRequests /\ r # None /\ r.client \in Clients
      /\ r.line.pos \in Nat
  BY PendingGood
<1>2. /\ processRequestsLock = t /\ \A u \in Threads \ {t} : current[u] = None /\ pc[u] \notin Inside
  BY DEF OneInside, Busy, Inside
<1>3. /\ pc' \in [Threads -> Labels] /\ \A u \in Threads \ {t} : pc'[u] = pc[u]
      /\ pc'[t] \in Busy \/ pc'[t] = "drain" \/ pc'[t] \notin Inside
  BY DEF OnlyMoves, Finish, Goto, Labels, RequestsTyped
<1>4. /\ current' \in [Threads -> GoodRequests \cup {None}]
      /\ \A u \in Threads \ {t} : current'[u] = None
      /\ current'[t] = IF pc'[t] \in Busy THEN r ELSE None
  BY <1>2 DEF Finish, Goto, RequestsTyped, Busy, Inside
<1>5. /\ done' \in [Clients -> Nat]
      /\ \/ done' = done
         \/ /\ done' = [done EXCEPT ![r.client] = r.line.pos]
            /\ \A u \in Threads : current'[u] = None
  BY <1>1, <1>2 DEF Finish, RequestsTyped
<1> HIDE DEF r, WorkStep
<1>6. RequestsTyped'
  BY <1>0, <1>3, <1>4, <1>5 DEF RequestsTyped
<1>7. OneInside'
  BY <1>0, <1>1, <1>2, <1>3, <1>4 DEF OneInside, Inside, Busy
<1>8. LinesInOrder'
  BY <1>0 DEF LinesInOrder, SameReading, WorkStep
<1>9. \A q \in Pending' : q \in Pending
  <2> TAKE q \in Pending'
  <2>1. CASE \E i \in DOMAIN requestQueue : q = requestQueue[i]
    BY <2>1 DEF Pending
  <2>2. CASE \E u \in Threads : current'[u] # None /\ q = current'[u]
    BY <1>1, <1>4, <2>2
  <2> QED BY <1>0, <2>1, <2>2 DEF Pending
<1>10. \A i \in DOMAIN requestQueue :
         /\ requestQueue[i] \in GoodRequests
         /\ requestQueue[i].client = r.client => r.line.pos < requestQueue[i].line.pos
         /\ done[requestQueue[i].client] < requestQueue[i].line.pos
         /\ requestQueue[i].client \in Clients
  <2>1. \A i \in DOMAIN requestQueue : requestQueue[i] \in GoodRequests
    BY PendingGood
  <2> QED BY <1>1, <2>1, LineParts DEF RequestsInOrder, r
<1>11. RequestsInOrder'
  <2>1. \A u, v \in Threads : current'[u] # None /\ current'[v] # None => u = v
    BY <1>4
  <2>2. \A i \in DOMAIN requestQueue : done'[requestQueue[i].client] < requestQueue[i].line.pos
    BY <1>5, <1>10 DEF RequestsTyped
  <2>3. \A i \in DOMAIN requestQueue : \A j \in 1 .. i - 1 :
           requestQueue[j].client = requestQueue[i].client
             => requestQueue[j].line.pos < requestQueue[i].line.pos
    BY DEF RequestsInOrder
  <2>4. \A i \in DOMAIN requestQueue, u \in Threads :
           current'[u] # None /\ current'[u].client = requestQueue[i].client
             => current'[u].line.pos < requestQueue[i].line.pos
    BY <1>4, <1>10
  <2> QED BY <1>0, <2>1, <2>2, <2>3, <2>4 DEF RequestsInOrder
<1>12. PendingPassed'
  <2>1. ASSUME NEW q \in Pending'
        PROVE  Passed(q.client, q.line.pos)' /\ done'[q.client] < q.line.pos
    <3>1. q \in Pending /\ q.client \in Clients
      BY <1>9, PendingGood, LineParts
    <3>2. Passed(q.client, q.line.pos)'
      BY <3>1 DEF PendingPassed, Passed, SameReading, WorkStep
    <3>3. CASE \E i \in DOMAIN requestQueue : q = requestQueue[i]
      BY <1>0, <1>11, <3>2, <3>3 DEF RequestsInOrder
    <3>4. CASE \E u \in Threads : current'[u] # None /\ q = current'[u]
      BY <1>5, <3>1, <3>2, <3>4 DEF PendingPassed
    <3> QED BY <1>0, <3>3, <3>4 DEF Pending
  <2>2. ASSUME NEW c \in Clients
        PROVE  Passed(c, done[c])'
    <3>1. Passed(c, done[c]) /\ Passed(r.client, r.line.pos)
      BY <1>1 DEF PendingPassed
    <3> QED BY <1>1, <1>5, <3>1 DEF Passed, SameReading, WorkStep, RequestsTyped
  <2> QED BY <2>1, <2>2 DEF PendingPassed
<1>13. ShellIsLast'
  <2>1. CASE pc'[t] \notin Inside
    BY <1>0, <1>2, <2>1, ThreadsAssumption DEF ShellIsLast, LockLeaked
  <2>2. CASE pc'[t] \in Inside
    <3>1. ~LockLeaked
      BY <1>2 DEF LockLeaked, WorkStep, Busy, Inside
    <3>2. ASSUME NEW q \in Pending', q.line.cmd = "scm"
          PROVE  /\ pc'[q.client] \notin {"reading", "none"}
                 /\ q.line.pos = sock'[q.client].request
      <4>1. q \in Pending /\ q.client \in Clients /\ q.client \in Threads
        BY <1>9, PendingGood, LineParts DEF Threads
      <4>2. pc[q.client] \notin {"reading", "none"} /\ q.line.pos = sock[q.client].request
        BY <3>1, <3>2, <4>1 DEF ShellIsLast
      <4> QED BY <1>3, <2>2, <4>1, <4>2 DEF SameReading, WorkStep, Inside
    <3> QED BY <3>2 DEF ShellIsLast
  <2> QED BY <2>1, <2>2
<1> QED BY <1>6, <1>7, <1>8, <1>11, <1>12, <1>13

\* Taking the lock of processRequests, taking a request and giving the lock back.
LEMMA DrainKeeps ==
  ASSUME RequestsSafe, SocketsTyped', NEW t \in Threads,
         LockRequests(t) \/ popRequest(t) \/ UnlockRequests(t)
  PROVE  RequestsSafe'
<1> USE DEF RequestsSafe
<1>0. /\ sock' = sock /\ net' = net /\ ahead' = ahead /\ sent' = sent /\ done' = done
  BY DEF LockRequests, popRequest, UnlockRequests, input
<1>1. LinesInOrder'
  BY <1>0 DEF LinesInOrder
<1>2. ASSUME Pending' \subseteq Pending
      PROVE  PendingPassed'
  BY <1>0, <1>2 DEF PendingPassed, Passed
<1>3. CASE LockRequests(t)
  <2>0. /\ pc[t] = "want" /\ processRequestsLock = None /\ processRequestsLock' = t
        /\ pc' = [pc EXCEPT ![t] = "drain"] /\ requestQueue' = requestQueue /\ current' = current
    BY <1>3 DEF LockRequests, Goto
  <2>1. RequestsTyped'
    BY <1>0, <2>0 DEF RequestsTyped, Labels
  <2>2. \A u \in Threads : pc[u] \notin Inside /\ current[u] = None
    BY <2>0, ThreadsAssumption DEF OneInside
  <2>3. OneInside'
    BY <2>0, <2>2 DEF OneInside, Inside, Busy, RequestsTyped
  <2>4. Pending' = Pending /\ RequestsInOrder'
    BY <1>0, <2>0 DEF Pending, RequestsInOrder
  <2>5. ShellIsLast'
    <3>1. ~LockLeaked
      BY <2>0 DEF LockLeaked
    <3> QED BY <1>0, <2>0, <2>4, <3>1 DEF ShellIsLast, RequestsTyped
  <2> QED BY <1>1, <1>2, <2>1, <2>3, <2>4, <2>5
<1>4. CASE popRequest(t)
  <2>0. /\ pc[t] = "drain" /\ requestQueue # << >>
        /\ current' = [current EXCEPT ![t] = Head(requestQueue)]
        /\ requestQueue' = Tail(requestQueue) /\ processRequestsLock' = processRequestsLock
        /\ pc' = [pc EXCEPT ![t] = "execute"]
    BY <1>4 DEF popRequest, Goto, locks
  <2> DEFINE n == Len(requestQueue)
  <2>1. /\ Tail(requestQueue) \in Seq(GoodRequests) /\ Head(requestQueue) \in GoodRequests
        /\ Head(requestQueue) = requestQueue[1]
        /\ n \in Nat /\ n >= 1 /\ DOMAIN requestQueue = 1 .. n
        /\ DOMAIN Tail(requestQueue) = 1 .. n - 1
        /\ \A i \in 1 .. n - 1 : Tail(requestQueue)[i] = requestQueue[i + 1]
    BY <2>0, Taken DEF RequestsTyped
  <2> HIDE DEF n
  <2>2. /\ processRequestsLock = t /\ \A u \in Threads : current[u] = None
        /\ \A u \in Threads \ {t} : pc[u] \notin Inside
    BY <2>0 DEF OneInside, Inside
  <2>3. /\ current'[t] = requestQueue[1] /\ current'[t] \in GoodRequests
        /\ \A u \in Threads \ {t} : current'[u] = None
    BY <2>0, <2>1, <2>2 DEF RequestsTyped
  <2>4. RequestsTyped'
    BY <1>0, <2>0, <2>1 DEF RequestsTyped, Labels
  <2>5. OneInside'
    <3>1. current'[t] # None
      BY <2>3, LineParts
    <3> QED BY <2>0, <2>2, <2>3, <3>1 DEF OneInside, Inside, Busy, RequestsTyped
  <2>6. \A i \in DOMAIN requestQueue' : /\ i \in Nat /\ i >= 1 /\ i + 1 \in DOMAIN requestQueue
                                         /\ requestQueue'[i] = requestQueue[i + 1]
    BY <2>0, <2>1
  <2>7. Pending' \subseteq Pending
    <3>1. 1 \in DOMAIN requestQueue
      BY <2>1
    <3> QED BY <2>3, <2>6, <3>1 DEF Pending
  <2>8. RequestsInOrder'
    <3>1. \A u, v \in Threads : current'[u] # None /\ current'[v] # None => u = v
      BY <2>3
    <3>2. \A i \in DOMAIN requestQueue' :
            done'[requestQueue'[i].client] < requestQueue'[i].line.pos
      BY <1>0, <2>6 DEF RequestsInOrder
    <3>3. \A i \in DOMAIN requestQueue' : \A j \in 1 .. i - 1 :
            requestQueue'[j].client = requestQueue'[i].client
              => requestQueue'[j].line.pos < requestQueue'[i].line.pos
      <4> TAKE i \in DOMAIN requestQueue'
      <4> TAKE j \in 1 .. i - 1
      <4>1. j \in DOMAIN requestQueue' /\ j + 1 \in 1 .. (i + 1) - 1
        BY <2>0, <2>1, <2>6
      <4> QED BY <2>6, <4>1 DEF RequestsInOrder
    <3>4. \A i \in DOMAIN requestQueue', u \in Threads :
            current'[u] # None /\ current'[u].client = requestQueue'[i].client
              => current'[u].line.pos < requestQueue'[i].line.pos
      <4> TAKE i \in DOMAIN requestQueue', u \in Threads
      <4>1. 1 \in 1 .. (i + 1) - 1
        BY <2>6
      <4> QED BY <2>3, <2>6, <4>1 DEF RequestsInOrder
    <3> QED BY <3>1, <3>2, <3>3, <3>4 DEF RequestsInOrder
  <2>9. ShellIsLast'
    <3>1. ~LockLeaked
      BY <2>0, <2>2 DEF LockLeaked, Inside
    <3>2. \A c \in Clients : pc'[c] = pc[c] \/ pc'[c] = "execute"
      BY <2>0 DEF RequestsTyped, Threads
    <3>3. \A r \in Pending : r.client \in Clients
      BY PendingGood, LineParts
    <3> QED BY <1>0, <2>7, <3>1, <3>2, <3>3 DEF ShellIsLast
  <2> QED BY <1>1, <1>2, <2>4, <2>5, <2>7, <2>8, <2>9
<1>5. CASE UnlockRequests(t)
  <2>0. /\ pc[t] = "drain" /\ requestQueue = << >> /\ requestQueue' = << >> /\ current' = current
        /\ processRequestsLock' = None
        /\ pc' = [pc EXCEPT ![t] = IF t = Main THEN "cycle" ELSE "reading"]
    BY <1>5 DEF UnlockRequests, Goto
  <2>1. RequestsTyped'
    BY <1>0, <2>0 DEF RequestsTyped, Labels
  <2>2. /\ \A u \in Threads : current[u] = None
        /\ \A u \in Threads \ {t} : pc[u] \notin Inside
    BY <2>0 DEF OneInside, Inside
  <2>3. OneInside'
    BY <2>0, <2>2 DEF OneInside, Inside, Busy, RequestsTyped
  <2>4. Pending' = {}
    BY <2>0, <2>2 DEF Pending
  <2>5. RequestsInOrder'
    BY <2>0, <2>2 DEF RequestsInOrder
  <2> QED BY <1>1, <1>2, <2>1, <2>3, <2>4, <2>5 DEF ShellIsLast
<1> QED BY <1>3, <1>4, <1>5

\* The thread of socket c reads: what was passed stays passed, and a request that is
\* pushed is passed now and comes after all that was.
ReadStep(c) ==
  /\ pc[c] = "reading" /\ OnlyMoves(c) /\ pc'[c] \in {"reading", "pushed"}
  /\ \A d \in Clients \ {c} : sock'[d] = sock[d]
  /\ \A p \in Nat : Passed(c, p) => Passed(c, p)'
  /\ UNCHANGED <<processRequestsLock, current, done>>
  /\ \/ requestQueue' = requestQueue
     \/ \E r \in GoodRequests :
          /\ requestQueue' = Append(requestQueue, r) /\ r.client = c
          /\ Passed(c, r.line.pos)' /\ \A p \in Nat : Passed(c, p) => p < r.line.pos
          /\ r.line.cmd = "scm" => pc'[c] = "pushed" /\ r.line.pos = sock'[c].request

\* Reading keeps the invariants of the requests.
LEMMA ReadKeeps ==
  ASSUME RequestsSafe, SocketsTyped', LinesInOrder', NEW c \in Clients, ReadStep(c)
  PROVE  RequestsSafe'
<1> USE DEF RequestsSafe
<1> c \in Threads
  BY DEF Threads
<1>0. /\ pc[c] = "reading" /\ OnlyMoves(c) /\ pc'[c] \in {"reading", "pushed"}
      /\ \A d \in Clients \ {c} : sock'[d] = sock[d]
      /\ processRequestsLock' = processRequestsLock /\ current' = current /\ done' = done
  BY DEF ReadStep
<1>1. \A u \in Threads : /\ pc'[u] \in Inside <=> pc[u] \in Inside
                         /\ u # c \/ pc'[u] \in Inside => pc'[u] = pc[u]
  BY <1>0 DEF OnlyMoves, Inside
<1>2. OneInside'
  BY <1>0, <1>1 DEF OneInside, Inside, Busy
<1>3. \A r \in Pending : /\ r \in GoodRequests /\ r.client \in Clients /\ r.line.pos \in Nat
                         /\ Passed(r.client, r.line.pos)
                         /\ done[r.client] < r.line.pos
  BY PendingGood, LineParts DEF PendingPassed
<1>4. \A d \in Clients, p \in Nat : Passed(d, p) => Passed(d, p)'
  <2> TAKE d \in Clients, p \in Nat
  <2>1. CASE d = c
    BY <2>1 DEF ReadStep
  <2>2. CASE d # c
    BY <1>0, <2>2 DEF Passed
  <2> QED BY <2>1, <2>2
<1>5. \A d \in Clients : done[d] \in Nat /\ Passed(d, done[d]) /\ Passed(d, done[d])'
  BY <1>0, <1>4 DEF PendingPassed, RequestsTyped
<1>6. ASSUME LockLeaked
      PROVE  ShellIsLast'
  BY <1>0, <1>1, <1>6, LeakedStays DEF ShellIsLast
<1>7. ASSUME ~LockLeaked, NEW r \in Pending, r.line.cmd = "scm"
      PROVE  /\ pc'[r.client] \notin {"reading", "none"}
             /\ r.line.pos = sock'[r.client].request
  <2>1. r.client \in Clients /\ r.client \in Threads
    BY <1>3 DEF Threads
  <2>2. pc[r.client] \notin {"reading", "none"} /\ r.line.pos = sock[r.client].request
    BY <1>7 DEF ShellIsLast
  <2> QED BY <1>0, <2>1, <2>2 DEF OnlyMoves
<1>8. CASE requestQueue' = requestQueue
  <2>1. RequestsTyped'
    BY <1>0, <1>8 DEF RequestsTyped, OnlyMoves
  <2>2. Pending' = Pending /\ RequestsInOrder'
    BY <1>0, <1>8 DEF Pending, RequestsInOrder
  <2>3. PendingPassed'
    <3>1. \A r \in Pending : Passed(r.client, r.line.pos)' /\ done'[r.client] < r.line.pos
      BY <1>0, <1>3, <1>4
    <3> QED BY <1>5, <2>2, <3>1 DEF PendingPassed
  <2>4. ShellIsLast'
    BY <1>6, <1>7, <2>2 DEF ShellIsLast
  <2> QED BY <1>2, <2>1, <2>2, <2>3, <2>4
<1>9. CASE requestQueue' # requestQueue
  <2>0. PICK r \in GoodRequests :
          /\ requestQueue' = Append(requestQueue, r) /\ r.client = c
          /\ Passed(c, r.line.pos)' /\ \A p \in Nat : Passed(c, p) => p < r.line.pos
          /\ r.line.cmd = "scm" => pc'[c] = "pushed" /\ r.line.pos = sock'[c].request
    BY <1>9 DEF ReadStep
  <2> DEFINE n == Len(requestQueue)
  <2>1. /\ requestQueue' \in Seq(GoodRequests) /\ n \in Nat /\ DOMAIN requestQueue = 1 .. n
        /\ DOMAIN requestQueue' = 1 .. n + 1 /\ requestQueue'[n + 1] = r
        /\ \A i \in DOMAIN requestQueue : requestQueue'[i] = requestQueue[i]
    BY <2>0, Appended DEF RequestsTyped
  <2> HIDE DEF n
  <2>2. RequestsTyped'
    BY <1>0, <2>1 DEF RequestsTyped, OnlyMoves
  <2>3. Pending' \subseteq Pending \cup {r}
    BY <1>0, <2>1 DEF Pending
  <2>4. \A q \in Pending : q.client = c => q.line.pos < r.line.pos
    BY <1>3, <2>0
  <2>5. done[c] < r.line.pos
    BY <1>5, <2>0
  <2>6. PendingPassed'
    <3>1. \A q \in Pending' : Passed(q.client, q.line.pos)' /\ done'[q.client] < q.line.pos
      BY <1>0, <1>3, <1>4, <2>0, <2>3, <2>5
    <3> QED BY <1>5, <3>1 DEF PendingPassed
  <2>7. RequestsInOrder'
    <3>1. \A u, v \in Threads : current'[u] # None /\ current'[v] # None => u = v
      BY <1>0 DEF RequestsInOrder
    <3>2. \A i \in DOMAIN requestQueue' :
            \/ i \in DOMAIN requestQueue /\ requestQueue'[i] = requestQueue[i]
            \/ i = n + 1 /\ requestQueue'[i] = r
      BY <2>1
    <3>3. ASSUME NEW i \in DOMAIN requestQueue'
          PROVE  /\ done'[requestQueue'[i].client] < requestQueue'[i].line.pos
                 /\ \A j \in 1 .. i - 1 : requestQueue'[j].client = requestQueue'[i].client
                                            => requestQueue'[j].line.pos < requestQueue'[i].line.pos
                 /\ \A t \in Threads : current'[t] # None /\ current'[t].client = requestQueue'[i].client
                                         => current'[t].line.pos < requestQueue'[i].line.pos
      <4>1. \A j \in 1 .. i - 1 : j \in DOMAIN requestQueue /\ requestQueue'[j] = requestQueue[j]
        BY <2>1
      <4>2. CASE i \in DOMAIN requestQueue /\ requestQueue'[i] = requestQueue[i]
        BY <1>0, <4>1, <4>2 DEF RequestsInOrder
      <4>3. CASE i = n + 1 /\ requestQueue'[i] = r
        <5>1. \A j \in 1 .. i - 1 : requestQueue'[j] \in Pending
          BY <4>1, PendingGood
        <5>2. \A t \in Threads : current[t] # None => current[t] \in Pending
          BY PendingGood
        <5> QED BY <1>0, <2>0, <2>4, <2>5, <4>3, <5>1, <5>2
      <4> QED BY <3>2, <4>2, <4>3
    <3> QED BY <3>1, <3>3 DEF RequestsInOrder
  <2>8. ShellIsLast'
    BY <1>6, <1>7, <2>0, <2>3 DEF ShellIsLast
  <2> QED BY <1>2, <2>2, <2>6, <2>7, <2>8
<1> QED BY <1>8, <1>9

\* Sending a line, or closing the connection, is not seen by the threads.
LEMMA ClientKeeps ==
  ASSUME RequestsSafe, NEW c \in Clients, Send(c) \/ HangUp(c)
  PROVE  RequestsSafe'
<1> USE DEF RequestsSafe
<1>0. /\ requestQueue' = requestQueue /\ processRequestsLock' = processRequestsLock /\ pc' = pc
      /\ current' = current /\ done' = done /\ sock' = sock /\ ahead' = ahead
  BY DEF Send, HangUp, locks
<1>1. RequestsTyped' /\ OneInside' /\ RequestsInOrder'
  BY <1>0 DEF RequestsTyped, OneInside, RequestsInOrder
<1>2. Pending' = Pending
  BY <1>0 DEF Pending
<1>3. PendingPassed' /\ ShellIsLast'
  BY <1>0, <1>2 DEF PendingPassed, Passed, ShellIsLast, LockLeaked
<1>4. CASE HangUp(c)
  <2>1. net' = net /\ sent' = sent /\ hungUp' \subseteq Clients
    BY <1>4 DEF HangUp, SocketsTyped
  <2>2. SocketsTyped' /\ LinesInOrder'
    BY <1>0, <2>1 DEF SocketsTyped, LinesInOrder
  <2> QED BY <1>1, <1>3, <2>2
<1>5. CASE Send(c)
  <2>1. PICK w \in Script[c][sent[c] + 1] :
          net' = [net EXCEPT ![c] = Append(@, [cmd |-> w[1], arg |-> w[2], pos |-> sent[c] + 1])]
    BY <1>5 DEF Send
  <2> DEFINE l == [cmd |-> w[1], arg |-> w[2], pos |-> sent[c] + 1]
  <2>2. sent[c] \in Nat /\ sent' = [sent EXCEPT ![c] = sent[c] + 1] /\ hungUp' = hungUp
    BY <1>5 DEF Send, SocketsTyped
  <2>3. w \in Words
    <3>1. Script[c] \in Seq(SUBSET Words) /\ sent[c] < Len(Script[c])
      BY <1>5, ClientsAssumption DEF Send
    <3>2. sent[c] + 1 \in 1 .. Len(Script[c])
      BY <2>2, <3>1, LenProperties
    <3>3. Script[c][sent[c] + 1] \in SUBSET Words
      BY <3>1, <3>2, LenProperties
    <3> QED BY <3>3
  <2>4. l \in GoodLines /\ l.pos = sent[c] + 1
    BY <2>2, <2>3, MadeLines
  <2> HIDE DEF l
  <2>5. /\ net[c] \in Seq(GoodLines) /\ ahead[c] \in Seq(GoodLines) /\ sock[c].request \in Nat
        /\ Ordered(ahead[c], net[c], sock[c].request, sent[c])
    BY DEF SocketsTyped, Sockets, LinesInOrder
  <2>6. /\ Append(net[c], l) \in Seq(GoodLines)
        /\ Ordered(ahead[c], Append(net[c], l), sock[c].request, sent[c] + 1)
    BY <2>2, <2>4, <2>5, Appended, LinesSent
  <2>7. /\ net' = [net EXCEPT ![c] = Append(net[c], l)]
    BY <2>1 DEF l
  <2>8. SocketsTyped'
    BY <1>0, <2>2, <2>6, <2>7 DEF SocketsTyped
  <2>9. LinesInOrder'
    <3>1. ASSUME NEW d \in Clients
          PROVE  Ordered(ahead'[d], net'[d], sock'[d].request, sent'[d])
      <4>1. CASE d = c
        <5>1. net'[d] = Append(net[c], l) /\ sent'[d] = sent[c] + 1
          BY <2>2, <2>7, <4>1 DEF SocketsTyped
        <5> QED BY <1>0, <2>6, <4>1, <5>1
      <4>2. CASE d # c
        <5>1. net'[d] = net[d] /\ sent'[d] = sent[d]
          BY <2>2, <2>7, <4>2 DEF SocketsTyped
        <5> QED BY <1>0, <5>1 DEF LinesInOrder
      <4> QED BY <4>1, <4>2
    <3> QED BY <3>1 DEF LinesInOrder
  <2> QED BY <1>1, <1>3, <2>8, <2>9
<1> QED BY <1>4, <1>5

\* ReadLine and ReadRawData read.
LEMMA ReadLineKeeps ==
  ASSUME RequestsSafe, NEW c \in Clients, ReadLine(c)
  PROVE  RequestsSafe'
<1> USE DEF RequestsSafe
<1> c \in Threads
  BY DEF Threads
<1>0. /\ pc[c] = "reading" /\ sock[c].line
      /\ processRequestsLock' = processRequestsLock /\ current' = current /\ done' = done
      /\ sent' = sent /\ hungUp' = hungUp
  BY DEF ReadLine, locks
<1>1. PICK n \in 0 .. Len(net[c]) :
        /\ n = 0 <=> ahead[c] # << >>
        /\ ahead' = [ahead EXCEPT ![c] = Tail(ahead[c] \o SubSeq(net[c], 1, n))]
        /\ net' = [net EXCEPT ![c] = SubSeq(@, n + 1, Len(@))]
        /\ OnLine(c, Head(ahead[c] \o SubSeq(net[c], 1, n)))
  BY DEF ReadLine
<1> DEFINE b == ahead[c] \o SubSeq(net[c], 1, n)
           rest == SubSeq(net[c], n + 1, Len(net[c]))
<1>2. /\ net[c] \in Seq(GoodLines) /\ ahead[c] \in Seq(GoodLines) /\ sock[c] \in Sockets
      /\ sock[c].request \in Nat /\ sent[c] \in Nat
      /\ Ordered(ahead[c], net[c], sock[c].request, sent[c])
  BY DEF SocketsTyped, Sockets, LinesInOrder
<1>a. /\ Head(b) \in GoodLines /\ Tail(b) \in Seq(GoodLines) /\ rest \in Seq(GoodLines)
      /\ sock[c].request < Head(b).pos /\ Ordered(Tail(b), rest, Head(b).pos, sent[c])
  BY <1>1, <1>2, LinesRead
<1>b. PICK l \in GoodLines : l = Head(b)
  BY <1>a
<1>3. /\ Tail(b) \in Seq(GoodLines) /\ rest \in Seq(GoodLines)
      /\ sock[c].request < l.pos /\ Ordered(Tail(b), rest, l.pos, sent[c])
  BY <1>a, <1>b
<1>4. ahead' = [ahead EXCEPT ![c] = Tail(b)] /\ net' = [net EXCEPT ![c] = rest] /\ OnLine(c, l)
  BY <1>1, <1>b
<1> HIDE DEF b, rest
<1>5. l.pos \in Nat /\ Ordered(Tail(b), rest, sock[c].request, sent[c])
  <2>1. l.pos \in Nat /\ sock[c].request < l.pos
    BY <1>3, LineParts
  <2>2. \A i \in DOMAIN Tail(b) : Tail(b)[i].pos \in Nat
    BY <1>3, LenProperties, LineParts
  <2>3. \A i \in DOMAIN rest : rest[i].pos \in Nat
    BY <1>3, LenProperties, LineParts
  <2> QED BY <1>2, <1>3, <2>1, <2>2, <2>3 DEF Ordered
<1>6. ASSUME sock' \in [Clients -> Sockets], \A d \in Clients \ {c} : sock'[d] = sock[d],
             sock'[c].request \in {sock[c].request, l.pos}
      PROVE  SocketsTyped' /\ LinesInOrder'
  <2>1. SocketsTyped'
    BY <1>0, <1>3, <1>4, <1>6 DEF SocketsTyped
  <2>2. ASSUME NEW d \in Clients
        PROVE  Ordered(ahead'[d], net'[d], sock'[d].request, sent'[d])
    <3>1. CASE d = c
      <4>1. ahead'[d] = Tail(b) /\ net'[d] = rest
        BY <1>4, <3>1 DEF SocketsTyped
      <4> QED BY <1>0, <1>3, <1>5, <1>6, <3>1, <4>1
    <3>2. CASE d # c
      <4>1. ahead'[d] = ahead[d] /\ net'[d] = net[d]
        BY <1>4, <3>2 DEF SocketsTyped
      <4> QED BY <1>0, <1>6, <3>2, <4>1 DEF LinesInOrder
    <3> QED BY <3>1, <3>2
  <2> QED BY <2>1, <2>2 DEF LinesInOrder
<1>7. CASE sock[c].shell
  <2>1. PICK leave \in BOOLEAN : sock' = [sock EXCEPT ![c].shell = ~leave]
    BY <1>4, <1>7 DEF OnLine
  <2>2. requestQueue' = requestQueue /\ pc' = pc
    BY <1>4, <1>7 DEF OnLine
  <2>3. /\ sock' \in [Clients -> Sockets] /\ \A d \in Clients \ {c} : sock'[d] = sock[d]
        /\ sock'[c].request = sock[c].request /\ sock'[c].line = sock[c].line
    BY <1>2, <2>1 DEF SocketsTyped, Sockets
  <2>4. ReadStep(c)
    BY <1>0, <2>2, <2>3 DEF ReadStep, OnlyMoves, Passed, RequestsTyped
  <2> QED BY <1>6, <2>3, <2>4, ReadKeeps
<1>8. CASE ~sock[c].shell /\ l.cmd = "blank"
  <2>1. requestQueue' = requestQueue /\ pc' = pc /\ sock' = sock
    BY <1>4, <1>8 DEF OnLine
  <2>2. ReadStep(c)
    BY <1>0, <2>1 DEF ReadStep, OnlyMoves, Passed, RequestsTyped
  <2> QED BY <1>6, <2>1, <2>2, ReadKeeps DEF SocketsTyped
<1>9. CASE ~sock[c].shell /\ l.cmd = "data"
  <2>1. /\ requestQueue' = requestQueue /\ pc' = pc
        /\ sock' = [sock EXCEPT ![c].line = FALSE, ![c].request = l.pos]
    BY <1>4, <1>9 DEF OnLine
  <2>2. /\ sock' \in [Clients -> Sockets] /\ \A d \in Clients \ {c} : sock'[d] = sock[d]
        /\ sock'[c].request = l.pos
    BY <1>2, <1>5, <2>1 DEF SocketsTyped, Sockets
  <2>3. ReadStep(c)
    <3>1. \A p \in Nat : Passed(c, p) => Passed(c, p)'
      BY <1>2, <1>3, <1>5, <2>2 DEF Passed
    <3> QED BY <1>0, <2>1, <2>2, <3>1 DEF ReadStep, OnlyMoves, RequestsTyped
  <2> QED BY <1>6, <2>2, <2>3, ReadKeeps
<1>10. CASE ~sock[c].shell /\ l.cmd \notin {"blank", "data"}
  <2>1. /\ pushRequest(c, l, << >>)
        /\ pc' = [pc EXCEPT ![c] = "pushed"]
        /\ sock' = [sock EXCEPT ![c].request = l.pos]
    BY <1>4, <1>10 DEF OnLine, Goto
  <2>2. /\ sock' \in [Clients -> Sockets] /\ \A d \in Clients \ {c} : sock'[d] = sock[d]
        /\ sock'[c].request = l.pos /\ sock'[c].line
    BY <1>0, <1>2, <1>5, <2>1 DEF SocketsTyped, Sockets
  <2>3. PICK r \in GoodRequests :
          r.client = c /\ r.line = l /\ requestQueue' = Append(requestQueue, r)
    <3>1. << >> \in Seq(GoodLines)
      BY EmptySeq
    <3>2. [client |-> c, line |-> l, data |-> << >>] \in GoodRequests
      BY <3>1, MadeRequest
    <3> QED BY <2>1, <3>2 DEF pushRequest
  <2>4. ReadStep(c)
    <3>1. \A p \in Nat : Passed(c, p) => Passed(c, p)' /\ p < l.pos
      BY <1>0, <1>2, <1>3, <1>5, <2>2 DEF Passed
    <3>2. Passed(c, r.line.pos)'
      BY <1>5, <2>2, <2>3 DEF Passed
    <3>3. pc'[c] = "pushed" /\ OnlyMoves(c)
      BY <2>1 DEF OnlyMoves, RequestsTyped, Labels
    <3> QED BY <1>0, <2>1, <2>2, <2>3, <3>1, <3>2, <3>3 DEF ReadStep
  <2> QED BY <1>6, <2>2, <2>4, ReadKeeps
<1> QED BY <1>7, <1>8, <1>9, <1>10

LEMMA ReadRawDataKeeps ==
  ASSUME RequestsSafe, NEW c \in Clients, ReadRawData(c)
  PROVE  RequestsSafe'
<1> USE DEF RequestsSafe
<1> c \in Threads
  BY DEF Threads
<1>0. /\ pc[c] = "reading" /\ ~sock[c].line /\ pc' = pc
      /\ processRequestsLock' = processRequestsLock /\ current' = current /\ done' = done
      /\ sent' = sent /\ hungUp' = hungUp /\ ahead' = ahead
  BY DEF ReadRawData, locks
<1>1. PICK n \in 1 .. Len(net[c]) :
        /\ net' = [net EXCEPT ![c] = SubSeq(net[c], n + 1, Len(net[c]))]
        /\ OnRawData(c, SubSeq(net[c], 1, n))
  BY DEF ReadRawData
<1>2. /\ net[c] \in Seq(GoodLines) /\ ahead[c] \in Seq(GoodLines) /\ sock[c] \in Sockets
      /\ sock[c].request \in Nat /\ sent[c] \in Nat /\ sock[c].buffer \in Seq(GoodLines)
      /\ Ordered(ahead[c], net[c], sock[c].request, sent[c])
  BY DEF SocketsTyped, Sockets, LinesInOrder
<1> DEFINE b == sock[c].buffer \o SubSeq(net[c], 1, n)
           rest == SubSeq(net[c], n + 1, Len(net[c]))
           end == b[Len(b)].cmd = "eot"
<1>3. /\ b \in Seq(GoodLines) /\ rest \in Seq(GoodLines)
      /\ Ordered(ahead[c], rest, sock[c].request, sent[c])
  <2>1. n \in 0 .. Len(net[c])
    OBVIOUS
  <2>2. SubSeq(net[c], 1, n) \in Seq(GoodLines) /\ rest \in Seq(GoodLines)
    BY <1>2, <2>1, Divided
  <2>3. b \in Seq(GoodLines)
    BY <1>2, <2>2, ConcatProperties
  <2> QED BY <1>2, <2>1, <2>2, <2>3, LinesLeft
<1>4. /\ net' = [net EXCEPT ![c] = rest] /\ end \in BOOLEAN
      /\ sock' = [sock EXCEPT ![c].buffer = IF end THEN << >> ELSE b, ![c].line = end]
      /\ IF end
         THEN pushRequest(c, [cmd |-> "data", arg |-> None, pos |-> sock[c].request], b)
         ELSE UNCHANGED requestQueue
  BY <1>1 DEF OnRawData
<1> HIDE DEF b, rest, end
<1>5. /\ sock' \in [Clients -> Sockets] /\ \A d \in Clients \ {c} : sock'[d] = sock[d]
      /\ sock'[c].request = sock[c].request /\ sock'[c].line = end
  <2>1. (IF end THEN << >> ELSE b) \in Seq(GoodLines)
    BY <1>3, EmptySeq
  <2> QED BY <1>2, <1>4, <2>1 DEF SocketsTyped, Sockets
<1>6. SocketsTyped' /\ LinesInOrder'
  <2>1. SocketsTyped'
    BY <1>0, <1>3, <1>4, <1>5 DEF SocketsTyped
  <2>2. ASSUME NEW d \in Clients
        PROVE  Ordered(ahead'[d], net'[d], sock'[d].request, sent'[d])
    <3>1. CASE d = c
      <4>1. net'[d] = rest
        BY <1>4, <3>1 DEF SocketsTyped
      <4> QED BY <1>0, <1>3, <1>5, <3>1, <4>1
    <3>2. CASE d # c
      <4>1. net'[d] = net[d]
        BY <1>4, <3>2 DEF SocketsTyped
      <4> QED BY <1>0, <1>5, <3>2, <4>1 DEF LinesInOrder
    <3> QED BY <3>1, <3>2
  <2> QED BY <2>1, <2>2 DEF LinesInOrder
<1>7. \A p \in Nat : Passed(c, p) => Passed(c, p)' /\ p < sock[c].request
  BY <1>0, <1>2, <1>5 DEF Passed
<1>8. ReadStep(c)
  <2>1. CASE end
    <3>1. PICK l \in GoodLines : l.cmd = "data" /\ l.pos = sock[c].request
                                 /\ pushRequest(c, l, b)
      BY <1>2, <1>4, <2>1, MadeLines
    <3>2. PICK r \in GoodRequests :
            r.client = c /\ r.line = l /\ requestQueue' = Append(requestQueue, r)
      <4>1. [client |-> c, line |-> l, data |-> b] \in GoodRequests
        BY <1>3, MadeRequest
      <4> QED BY <3>1, <4>1 DEF pushRequest
    <3>3. Passed(c, r.line.pos)' /\ \A p \in Nat : Passed(c, p) => p < r.line.pos
      <4>1. r.line.pos = sock'[c].request /\ sock'[c].line /\ r.line.pos \in Nat
        BY <1>2, <1>5, <2>1, <3>1, <3>2
      <4> QED BY <1>5, <1>7, <4>1 DEF Passed
    <3> QED BY <1>0, <1>5, <1>7, <3>1, <3>2, <3>3 DEF ReadStep, OnlyMoves, RequestsTyped
  <2>2. CASE ~end
    <3>1. requestQueue' = requestQueue
      BY <1>4, <2>2
    <3> QED BY <1>0, <1>5, <1>7, <3>1 DEF ReadStep, OnlyMoves, RequestsTyped
  <2> QED BY <2>1, <2>2
<1> QED BY <1>6, <1>8, ReadKeeps

\* Steps that leave the sockets and the clients alone.
LEMMA SameSockets ==
  ASSUME RequestsSafe, UNCHANGED <<sock, input>>
  PROVE  SocketsTyped' /\ SameReading /\ UNCHANGED <<net, ahead, sent>>
BY DEF RequestsSafe, SocketsTyped, SameReading, input

\* What a thread does with a request it executes.
LEMMA RequestsAreWork ==
  ASSUME RequestsSafe, NEW t \in Threads,
         \/ Answer(t) \/ do_AgentLoop(t) \/ shellout(t) \/ ExitConnection(t)
         \/ do_startAgents(t) \/ do_stopAgents(t) \/ do_stepAgents(t) \/ StepAgent(t)
         \/ destroyAgent(t) \/ loadModule(t) \/ unloadModule(t)
  PROVE  WorkStep(t) /\ SocketsTyped'
<1> USE DEF RequestsSafe
<1>0. /\ \A l \in Labels : [pc EXCEPT ![t] = l] \in [Threads -> Labels]
      /\ \A l \in Labels : [pc EXCEPT ![t] = l][t] = l
      /\ \A l, u : u \in Threads \ {t} => [pc EXCEPT ![t] = l][u] = pc[u]
  BY DEF RequestsTyped
<1>1. ASSUME UNCHANGED <<requestQueue, processRequestsLock, sock, input>>, pc[t] \in Busy, Finish(t)
      PROVE  WorkStep(t) /\ SocketsTyped'
  BY <1>1, SameSockets DEF WorkStep
<1>2. ASSUME UNCHANGED <<requestQueue, processRequestsLock, sock, input, current, done>>,
             pc[t] \in Busy, NEW l \in Busy, pc' = [pc EXCEPT ![t] = l]
      PROVE  WorkStep(t) /\ SocketsTyped'
  <2>1. l \in Labels
    BY DEF Busy, Labels
  <2>2. OnlyMoves(t) /\ pc'[t] \in Busy
    BY <1>0, <1>2, <2>1 DEF OnlyMoves
  <2> QED BY <1>2, <2>2, SameSockets DEF WorkStep
<1>3. ASSUME pc[t] = "execute"
      PROVE  pc[t] \in Busy
  BY <1>3 DEF Busy
<1>4. CASE Answer(t)
  BY <1>1, <1>3, <1>4 DEF Answer, Executing, locks
<1>5. CASE do_AgentLoop(t)
  BY <1>1, <1>3, <1>5 DEF do_AgentLoop, Executing, locks
<1>6. CASE do_startAgents(t)
  BY <1>1, <1>3, <1>6 DEF do_startAgents, Executing, locks
<1>7. CASE do_stopAgents(t)
  BY <1>1, <1>3, <1>7 DEF do_stopAgents, Executing, locks
<1>8. CASE loadModule(t)
  BY <1>1, <1>3, <1>8 DEF loadModule, Executing, locks
<1>9. CASE unloadModule(t)
  BY <1>1, <1>3, <1>9 DEF unloadModule, Executing, locks
<1>10. CASE destroyAgent(t)
  BY <1>1, <1>10 DEF destroyAgent, Busy, locks
<1>11. CASE StepAgent(t)
  <2>1. pc[t] = "stepping" /\ UNCHANGED <<requestQueue, processRequestsLock, sock, input>>
    BY <1>11 DEF StepAgent, locks
  <2>2. CASE Finish(t)
    BY <1>1, <2>1, <2>2 DEF Busy
  <2>3. CASE UNCHANGED <<pc, current, done>>
    <3>1. pc' = [pc EXCEPT ![t] = "stepping"]
      BY <2>1, <2>3 DEF RequestsTyped
    <3>2. "stepping" \in Busy
      BY DEF Busy
    <3> QED BY <1>2, <2>1, <2>3, <3>1, <3>2
  <2> QED BY <1>11, <2>2, <2>3 DEF StepAgent
<1>12. CASE do_stepAgents(t)
  <2>1. /\ pc[t] \in Busy /\ UNCHANGED <<requestQueue, processRequestsLock, sock, input>>
        /\ \/ Finish(t)
           \/ Goto(t, "stepping") /\ UNCHANGED <<current, done>>
           \/ Goto(t, "temporary") /\ UNCHANGED <<current, done>>
    BY <1>3, <1>12 DEF do_stepAgents, Executing, locks
  <2>2. "stepping" \in Busy /\ "temporary" \in Busy
    BY DEF Busy
  <2> QED BY <1>1, <1>2, <2>1, <2>2 DEF Goto
<1>13. ASSUME UNCHANGED <<requestQueue, processRequestsLock, input>>, pc[t] \in Busy,
              sock' \in [Clients -> Sockets],
              \A c \in Clients : sock'[c].request = sock[c].request /\ sock'[c].line = sock[c].line,
              Finish(t) \/ \E closed : Throw(t, closed)
       PROVE  WorkStep(t) /\ SocketsTyped'
  <2>1. SocketsTyped' /\ SameReading /\ UNCHANGED <<net, ahead, sent>>
    BY <1>13 DEF SocketsTyped, SameReading, input
  <2>2. CASE Finish(t)
    BY <1>13, <2>1, <2>2 DEF WorkStep
  <2>3. CASE \E closed : Throw(t, closed)
    <3>1. PICK closed : Throw(t, closed)
      BY <2>3
    <3>2. PICK l \in {"crashed", "gone", "reading"} : pc' = [pc EXCEPT ![t] = l]
      BY <3>1 DEF Throw, Goto
    <3>3. OnlyMoves(t) /\ pc'[t] \notin Inside
      BY <1>0, <3>2 DEF OnlyMoves, Labels, Inside
    <3> QED BY <1>13, <2>1, <3>1, <3>3 DEF WorkStep, Throw
  <2> QED BY <1>13, <2>2, <2>3
<1>14. \A c \in Clients : sock[c] \in Sockets
  BY DEF SocketsTyped
<1>15. CASE shellout(t)
  <2> DEFINE c == current[t].client
  <2>1. pc[t] \in Busy /\ c \in Clients
    BY <1>3, <1>15, PendingGood DEF shellout, Executing
  <2>2. sock' = [sock EXCEPT ![c].shell = IF SocketExists(c) THEN TRUE ELSE @]
    BY <1>15 DEF shellout
  <2> HIDE DEF c
  <2>3. /\ sock' \in [Clients -> Sockets]
        /\ \A d \in Clients : sock'[d].request = sock[d].request /\ sock'[d].line = sock[d].line
    BY <1>14, <2>1, <2>2 DEF SocketsTyped, Sockets
  <2>4. Finish(t) /\ UNCHANGED <<requestQueue, processRequestsLock, input>>
    BY <1>15 DEF shellout, locks
  <2> QED BY <1>13, <2>1, <2>3, <2>4
<1>16. CASE ExitConnection(t)
  <2> DEFINE c == current[t].client
  <2>1. pc[t] \in Busy /\ c \in Clients
    BY <1>3, <1>16, PendingGood DEF ExitConnection, Executing
  <2>2. UNCHANGED <<requestQueue, processRequestsLock, input>>
    BY <1>16 DEF ExitConnection, locks
  <2>3. CASE SocketExists(c)
    <3>1. PICK throws \in BOOLEAN :
            /\ sock' = [d \in Clients |->
                 [sock[d] EXCEPT !.closed = @ \/ d = c,
                                 !.shell = @ /\ ~(throws /\ d = t /\ (d = c \/ sock[d].closed))]]
            /\ IF throws THEN Throw(t, [d \in Clients |-> sock[d].closed \/ d = c])
               ELSE Finish(t)
      <4>1. ExitThrows(c) \subseteq BOOLEAN
        BY DEF ExitThrows
      <4> QED BY <1>16, <2>3, <4>1 DEF ExitConnection
    <3> HIDE DEF c
    <3>2. /\ sock' \in [Clients -> Sockets]
          /\ \A d \in Clients : sock'[d].request = sock[d].request /\ sock'[d].line = sock[d].line
      BY <1>14, <3>1 DEF SocketsTyped, Sockets
    <3>3. Finish(t) \/ \E closed : Throw(t, closed)
      BY <3>1
    <3> QED BY <1>13, <2>1, <2>2, <3>2, <3>3
  <2>4. CASE ~SocketExists(c)
    BY <1>1, <1>16, <2>1, <2>2, <2>4 DEF ExitConnection
  <2> QED BY <2>3, <2>4
<1> QED BY <1>4, <1>5, <1>6, <1>7, <1>8, <1>9, <1>10, <1>11, <1>12, <1>15, <1>16

\* The thread whose turn it is not to execute a request.
LEMMA OthersAreQuiet ==
  ASSUME RequestsSafe,
         \/ LookAtQueue \/ SkipAgents \/ ToAgents \/ LockAgents \/ ProcessAgent \/ UnlockAgents
         \/ Loop
         \/ \E c \in Clients : Accept(c) \/ EndOfInput(c) \/ CheckShell(c)
         \/ \E t \in Threads : CallDeletedSocket(t)
  PROVE  SocketsTyped' /\ \E t \in Threads : QuietStep(t)
<1> USE DEF RequestsSafe
<1> Main \in Threads
  BY DEF Threads
<1>1. ASSUME NEW t \in Threads, NEW l \in Labels \ Inside, pc' = [pc EXCEPT ![t] = l],
             l \in {"reading", "none"} => ShellDone(t), SocketsTyped', SameReading,
             UNCHANGED <<requestQueue, processRequestsLock, current, net, ahead, sent, done>>
      PROVE  QuietStep(t)
  <2>1. OnlyMoves(t) /\ pc'[t] = l
    BY <1>1 DEF OnlyMoves, RequestsTyped
  <2> QED BY <1>1, <2>1 DEF QuietStep
<1>2. ASSUME NEW l \in {"top", "cycle", "wantAgents", "agents", "next", "exited", "crashed", "want"},
             pc' = [pc EXCEPT ![Main] = l],
             UNCHANGED <<requestQueue, processRequestsLock, current, sock, input, done>>
      PROVE  SocketsTyped' /\ \E t \in Threads : QuietStep(t)
  <2>1. l \in Labels \ Inside /\ l \notin {"reading", "none"}
    BY DEF Labels, Inside
  <2>2. SocketsTyped' /\ SameReading /\ UNCHANGED <<net, ahead, sent>>
    BY <1>2, SameSockets
  <2>3. QuietStep(Main)
    BY <1>1, <1>2, <2>1, <2>2
  <2> QED BY <2>2, <2>3
<1>3. CASE LookAtQueue
  BY <1>2, <1>3 DEF LookAtQueue, Goto, locks
<1>4. CASE SkipAgents
  BY <1>2, <1>4 DEF SkipAgents, Goto, locks
<1>5. CASE ToAgents
  BY <1>2, <1>5 DEF ToAgents, Goto, locks
<1>6. CASE LockAgents
  BY <1>2, <1>6 DEF LockAgents, Goto
<1>7. CASE ProcessAgent
  <2>1. pc' = [pc EXCEPT ![Main] = "agents"]
    BY <1>7 DEF ProcessAgent, RequestsTyped
  <2> QED BY <1>2, <1>7, <2>1 DEF ProcessAgent, locks
<1>8. CASE UnlockAgents
  BY <1>2, <1>8 DEF UnlockAgents, Goto
<1>9. CASE Loop
  BY <1>2, <1>9 DEF Loop, Goto, locks
<1>10. CASE \E t \in Threads : CallDeletedSocket(t)
  BY <1>2, <1>10 DEF CallDeletedSocket, Goto, locks
<1>11. ASSUME NEW c \in Clients, Accept(c)
       PROVE  SocketsTyped' /\ \E t \in Threads : QuietStep(t)
  <2>1. c \in Threads /\ "reading" \in Labels \ Inside
    BY DEF Threads, Labels, Inside
  <2>2. SocketsTyped' /\ SameReading /\ UNCHANGED <<net, ahead, sent>>
    BY <1>11, SameSockets DEF Accept
  <2>3. ShellDone(c)
    BY <1>11 DEF Accept, ShellDone, ShellIsLast
  <2>4. QuietStep(c)
    BY <1>1, <1>11, <2>1, <2>2, <2>3 DEF Accept, Goto, locks
  <2> QED BY <2>1, <2>2, <2>4
<1>12. ASSUME NEW c \in Clients, EndOfInput(c)
       PROVE  SocketsTyped' /\ \E t \in Threads : QuietStep(t)
  <2>1. c \in Threads /\ "gone" \in Labels \ Inside
    BY DEF Threads, Labels, Inside
  <2>2. /\ sock' = [sock EXCEPT ![c].shell = FALSE] /\ UNCHANGED input
        /\ UNCHANGED <<net, ahead, sent, hungUp>>
    BY <1>12 DEF EndOfInput, input
  <2>3. \A d \in Clients : sock[d] \in Sockets
    BY DEF SocketsTyped
  <2>4. sock' \in [Clients -> Sockets] /\ SameReading
    BY <2>2, <2>3 DEF SocketsTyped, Sockets, SameReading
  <2>5. SocketsTyped'
    BY <2>2, <2>4 DEF SocketsTyped
  <2>6. QuietStep(c)
    BY <1>1, <1>12, <2>1, <2>2, <2>4, <2>5 DEF EndOfInput, Goto, locks
  <2> QED BY <2>1, <2>5, <2>6
<1>13. ASSUME NEW c \in Clients, CheckShell(c)
       PROVE  SocketsTyped' /\ \E t \in Threads : QuietStep(t)
  <2>1. c \in Threads /\ "reading" \in Labels \ Inside /\ "want" \in Labels \ Inside
    BY DEF Threads, Labels, Inside
  <2>2. SocketsTyped' /\ SameReading /\ UNCHANGED <<net, ahead, sent>>
    BY <1>13, SameSockets DEF CheckShell
  <2> DEFINE mine == {r \in Pending : r.client = c /\ r.line.pos = sock[c].request}
  <2>3. PICK isShell \in IF mine = {} THEN BOOLEAN ELSE {\E r \in mine : r.line.cmd = "scm"} :
          Goto(c, IF isShell THEN "want" ELSE "reading")
    BY <1>13 DEF CheckShell
  <2>4. UNCHANGED <<requestQueue, processRequestsLock, current, net, ahead, sent, done>>
    BY <1>13, <2>2 DEF CheckShell, locks
  <2>5. CASE isShell
    <3>1. pc' = [pc EXCEPT ![c] = "want"]
      BY <2>3, <2>5 DEF Goto
    <3> QED BY <1>1, <2>1, <2>2, <2>4, <3>1
  <2>6. CASE ~isShell
    <3>1. pc' = [pc EXCEPT ![c] = "reading"]
      BY <2>3, <2>6 DEF Goto
    <3>2. ShellDone(c)
      <4> SUFFICES ASSUME ~LockLeaked, NEW r \in Pending, r.client = c, r.line.cmd = "scm"
                   PROVE  FALSE
        BY DEF ShellDone
      <4>1. r.line.pos = sock[c].request
        BY DEF ShellIsLast
      <4>2. r \in mine
        BY <4>1
      <4> QED BY <2>3, <2>6, <4>2
    <3> QED BY <1>1, <2>1, <2>2, <2>4, <3>1, <3>2
  <2> QED BY <2>5, <2>6
<1> QED BY <1>3, <1>4, <1>5, <1>6, <1>7, <1>8, <1>9, <1>10, <1>11, <1>12, <1>13

\* Every step keeps the invariants of the requests.
LEMMA RequestsStep ==
  ASSUME RequestsSafe, Next
  PROVE  RequestsSafe'
<1>1. ASSUME NEW t \in Threads, processRequests(t)
      PROVE  RequestsSafe'
  <2>1. CASE LockRequests(t) \/ popRequest(t) \/ UnlockRequests(t)
    <3>1. UNCHANGED <<sock, input>>
      BY <2>1 DEF LockRequests, popRequest, UnlockRequests
    <3> QED BY <2>1, <3>1, SameSockets, DrainKeeps
  <2>2. CASE CallDeletedSocket(t)
    BY <2>2, OthersAreQuiet, QuietKeeps
  <2>3. CASE \/ Answer(t) \/ do_AgentLoop(t) \/ shellout(t) \/ ExitConnection(t)
             \/ do_startAgents(t) \/ do_stopAgents(t) \/ do_stepAgents(t) \/ StepAgent(t)
             \/ destroyAgent(t) \/ loadModule(t) \/ unloadModule(t)
    BY <2>3, RequestsAreWork, WorkKeeps
  <2> QED BY <1>1, <2>1, <2>2, <2>3 DEF processRequests
<1>2. CASE serverLoop
  <2>1. Main \in Threads
    BY DEF Threads
  <2> QED BY <1>1, <1>2, <2>1, OthersAreQuiet, QuietKeeps DEF serverLoop
<1>3. ASSUME NEW c \in Clients, SocketThread(c) \/ Accept(c) \/ Send(c) \/ HangUp(c)
      PROVE  RequestsSafe'
  <2>1. c \in Threads
    BY DEF Threads
  <2>2. CASE ReadLine(c) \/ ReadRawData(c)
    BY <2>2, ReadLineKeeps, ReadRawDataKeeps
  <2>3. CASE EndOfInput(c) \/ CheckShell(c) \/ Accept(c)
    BY <2>3, OthersAreQuiet, QuietKeeps
  <2>4. CASE processRequests(c)
    BY <1>1, <2>1, <2>4
  <2>5. CASE Send(c) \/ HangUp(c)
    BY <2>5, ClientKeeps
  <2> QED BY <1>3, <2>2, <2>3, <2>4, <2>5 DEF SocketThread
<1> QED BY <1>2, <1>3 DEF Next

-----------------------------------------------------------------------------
(* Agents                                                                  *)

\* What the invariants of the agents say of the state.
AgentsSafe == AgentsTyped /\ AgentsHaveCode /\ AgentsAreRun

\* Neither the agents nor who is to run them change.
SameAgents == UNCHANGED <<agentsLock, todo, agents, kindOf, activity, modules>>

\* The agents that are started or run exist, and have code.
LEMMA CodeOf ==
  ASSUME AgentsSafe
  PROVE  /\ agentIds \subseteq Kinds /\ None \notin agentIds
         /\ Started \subseteq Addresses /\ \A a \in Started : kindOf[a] \in agentIds
         /\ \A t \in Threads : \A i \in DOMAIN todo[t] :
              todo[t][i] \in Addresses /\ kindOf[todo[t][i]] \in agentIds
<1>1. agentIds \subseteq Kinds /\ None \notin agentIds
  BY KindsAssumption, ThreadsAssumption DEF AgentsSafe, AgentsTyped, agentIds
<1>2. Started \subseteq Addresses
  BY LenProperties DEF AgentsSafe, AgentsTyped, Started
<1>3. \A t \in Threads : \A i \in DOMAIN todo[t] : todo[t][i] \in Addresses
  BY LenProperties DEF AgentsSafe, AgentsTyped
<1> QED BY <1>1, <1>2, <1>3 DEF AgentsSafe, AgentsHaveCode

\* A step that neither starts, stops nor runs agents keeps the invariants, if the
\* thread that moves has no agents to run.
LEMMA PlainKeeps ==
  ASSUME AgentsSafe, Alive, NEW t \in Threads, OnlyMoves(t), SameAgents,
         pc'[t] \notin {"agents", "temporary"},
         todo[t] = << >> \/ pc'[Main] = "crashed"
  PROVE  AgentsSafe'
<1> USE DEF AgentsSafe, SameAgents
<1>1. AgentsTyped'
  BY DEF AgentsTyped
<1>2. AgentsHaveCode'
  BY DEF AgentsHaveCode, Started, agentIds
<1>3. AgentsAreRun'
  <2>1. ASSUME Alive', NEW u \in Threads, todo'[u] # << >>
        PROVE  pc'[u] \in {"stepping", "temporary"} \/ (u = Main /\ pc'[u] = "agents")
    <3>1. u # t
      BY <2>1 DEF Alive
    <3> QED BY <2>1, <3>1 DEF AgentsAreRun, OnlyMoves
  <2>2. ASSUME pc'[Main] = "agents"
        PROVE  /\ agentsLock' = Main
               /\ \A i \in DOMAIN todo'[Main] : todo'[Main][i] \in Started'
    <3>1. Main \in Threads /\ Main # t
      BY <2>2 DEF Threads
    <3> QED BY <2>2, <3>1 DEF AgentsAreRun, OnlyMoves, Started
  <2>3. ASSUME NEW u \in Threads, pc'[u] = "temporary"
        PROVE  Len(todo'[u]) = 1 /\ todo'[u][1] \notin Started'
    <3>1. u # t
      BY <2>3
    <3> QED BY <2>3, <3>1 DEF AgentsAreRun, OnlyMoves, Started
  <2>4. activity' \subseteq Started'
    BY DEF AgentsAreRun, Started
  <2> QED BY <2>1, <2>2, <2>3, <2>4 DEF AgentsAreRun
<1> QED BY <1>1, <1>2, <1>3

LEMMA ClientsRunNothing ==
  ASSUME AgentsSafe, SameAgents, UNCHANGED pc
  PROVE  AgentsSafe'
BY DEF AgentsSafe, SameAgents, AgentsTyped, AgentsHaveCode, AgentsAreRun, Started, agentIds, Alive

\* The thread inside processRequests is the only one to run agents there.
LEMMA OnlyRunner ==
  ASSUME AgentsSafe, RequestsSafe, Alive, NEW t \in Threads, pc[t] \in Inside
  PROVE  /\ \A u \in Threads \ {t} :
              /\ pc[u] \notin {"stepping", "temporary"}
              /\ todo[u] = << >> \/ (u = Main /\ pc[u] = "agents" /\ agentsLock = Main)
         /\ pc[t] \in {"drain", "execute"} => todo[t] = << >>
<1>1. \A u \in Threads \ {t} : pc[u] \notin Inside
  BY DEF RequestsSafe, OneInside
<1>2. \A u \in Threads : todo[u] # << >> =>
        pc[u] \in {"stepping", "temporary"} \/ (u = Main /\ pc[u] = "agents" /\ agentsLock = Main)
  BY DEF AgentsSafe, AgentsAreRun
<1> QED BY <1>1, <1>2 DEF Inside

\* Steps of a thread that executes a request: what is to show of the agents.
LEMMA RunnerKeeps ==
  ASSUME AgentsSafe, RequestsSafe, Alive, NEW t \in Threads, pc[t] \in Inside,
         AgentsTyped', OnlyMoves(t), pc'[t] # "agents", agentsLock' = agentsLock,
         \A u \in Threads \ {t} : todo'[u] = todo[u],
         pc'[t] \notin {"stepping", "temporary"} => todo'[t] = << >>,
         pc'[t] = "temporary" => Len(todo'[t]) = 1 /\ todo'[t][1] \notin Started',
         agentsLock # None => Started \subseteq Started',
         activity' \subseteq Started',
         \A a \in Started' : kindOf'[a] \in agentIds',
         \A i \in DOMAIN todo'[t] : kindOf'[todo'[t][i]] \in agentIds'
  PROVE  AgentsSafe'
<1> Main \in Threads /\ Main # None
  BY ThreadsAssumption DEF Threads
<1>1. \A u \in Threads \ {t} :
        /\ pc[u] \notin {"stepping", "temporary"} /\ pc'[u] = pc[u]
        /\ todo'[u] = << >> \/ (u = Main /\ pc[u] = "agents" /\ agentsLock = Main)
  BY OnlyRunner DEF OnlyMoves
<1>2. pc'[Main] = "agents" =>
        /\ Main # t /\ agentsLock' = Main
        /\ \A i \in DOMAIN todo'[Main] : todo'[Main][i] \in Started'
  <2> HAVE pc'[Main] = "agents"
  <2>1. Main # t /\ pc[Main] = "agents"
    BY <1>1
  <2>2. agentsLock = Main /\ \A i \in DOMAIN todo[Main] : todo[Main][i] \in Started
    BY <2>1 DEF AgentsSafe, AgentsAreRun
  <2> QED BY <2>1, <2>2
<1>3. \A u \in Threads : \A i \in DOMAIN todo'[u] : kindOf'[todo'[u][i]] \in agentIds'
  <2> TAKE u \in Threads
  <2>1. CASE u = t
    BY <2>1
  <2>2. CASE u # t /\ todo'[u] = << >>
    BY <2>2
  <2>3. CASE u # t /\ todo'[u] # << >>
    <3>1. u = Main /\ pc'[Main] = "agents"
      BY <1>1, <2>3
    <3> QED BY <1>2, <3>1
  <2> QED BY <2>1, <2>2, <2>3
<1>4. AgentsHaveCode'
  BY <1>3 DEF AgentsHaveCode
<1>5. AgentsAreRun'
  <2>1. Alive' => \A u \in Threads : todo'[u] # << >> =>
          pc'[u] \in {"stepping", "temporary"} \/ (u = Main /\ pc'[u] = "agents")
    BY <1>1
  <2>2. \A u \in Threads : pc'[u] = "temporary" => Len(todo'[u]) = 1 /\ todo'[u][1] \notin Started'
    BY <1>1
  <2> QED BY <1>2, <2>1, <2>2 DEF AgentsAreRun
<1> QED BY <1>4, <1>5 DEF AgentsSafe

\* The remaining agents in any order.
LEMMA InAnyOrder ==
  ASSUME NEW S, S \subseteq Addresses, NEW s \in Orders(S)
  PROVE  s \in Seq(Addresses) /\ {s[i] : i \in DOMAIN s} = S
<1>1. PICK n \in 0 .. MaxAgents : s \in [1 .. n -> S]
  BY DEF Orders
<1>2. n \in Nat
  BY ClientsAssumption
<1>3. s \in [1 .. n -> Addresses]
  BY <1>1
<1>4. s \in Seq(Addresses)
  BY <1>2, <1>3, SeqDef
<1>5. \A a \in S : \E i \in DOMAIN s : s[i] = a
  BY DEF Orders
<1> QED BY <1>1, <1>4, <1>5

\* A thread that finishes its request goes back to the queue.
LEMMA Finished ==
  ASSUME RequestsSafe, NEW t \in Threads, Finish(t)
  PROVE  OnlyMoves(t) /\ pc'[t] = "drain"
BY DEF Finish, Goto, OnlyMoves, RequestsSafe, RequestsTyped, Labels

\* Starting and stopping agents, loading and unloading modules.
LEMMA AgentRequestsKeep ==
  ASSUME AgentsSafe, RequestsSafe, Alive, NEW t \in Threads,
         \/ do_startAgents(t) \/ do_stopAgents(t) \/ loadModule(t) \/ unloadModule(t)
  PROVE  AgentsSafe'
<1> DEFINE k == current[t].line.arg
           cmd == current[t].line.cmd
<1>1. /\ pc[t] = "execute" /\ pc[t] \in Inside /\ pc[t] \in Busy /\ Finish(t)
      /\ UNCHANGED <<agentsLock, todo>>
      /\ cmd \in {"agents-start", "agents-stop", "loadmodule", "unloadmodule"}
  BY DEF do_startAgents, do_stopAgents, loadModule, unloadModule, Executing, locks, Inside, Busy
<1>2. OnlyMoves(t) /\ pc'[t] = "drain" /\ todo[t] = << >>
  BY <1>1, Finished, OnlyRunner
<1>3. /\ cmd \in {"agents-start", "agents-stop"} => k \in Kinds
      /\ cmd \in {"loadmodule", "unloadmodule"} => k \in Modules
  <2>1. current[t].line \in GoodLines
    BY <1>1, PendingGood DEF RequestsSafe
  <2>2. {"agents-start", "agents-stop"} \subseteq OfAgents /\ {"loadmodule", "unloadmodule"} \subseteq OfModules
    BY DEF OfAgents, OfModules
  <2> QED BY <2>1, <2>2, LineParts
<1>4. ASSUME AgentsTyped', agentsLock # None => Started \subseteq Started',
             activity' \subseteq Started', \A a \in Started' : kindOf'[a] \in agentIds'
      PROVE  AgentsSafe'
  <2>1. todo'[t] = << >> /\ agentsLock' = agentsLock /\ \A u \in Threads \ {t} : todo'[u] = todo[u]
    BY <1>1, <1>2
  <2>2. \A i \in DOMAIN todo'[t] : kindOf'[todo'[t][i]] \in agentIds'
    BY <2>1
  <2>3. pc'[t] \notin {"agents", "temporary"}
    BY <1>2
  <2> QED BY <1>1, <1>2, <1>4, <2>1, <2>2, <2>3, RunnerKeeps
<1>5. /\ AgentsTyped /\ activity \subseteq Started /\ None \notin agentIds
      /\ Started \subseteq Addresses /\ \A a \in Started : kindOf[a] \in agentIds
  BY CodeOf DEF AgentsSafe, AgentsAreRun
<1>6. ASSUME UNCHANGED agentState
      PROVE  AgentsSafe'
  <2>1. UNCHANGED <<agents, kindOf, activity, modules>>
    BY <1>6 DEF agentState
  <2>2. AgentsTyped' /\ Started' = Started /\ agentIds' = agentIds
    BY <1>1, <1>5, <2>1 DEF AgentsTyped, Started, agentIds
  <2> QED BY <1>4, <1>5, <2>1, <2>2
<1>7. CASE do_startAgents(t)
  <2>1. /\ UNCHANGED <<activity, modules>> /\ agentIds' = agentIds
        /\ cmd = "agents-start" /\ k \in Kinds
    BY <1>3, <1>7 DEF do_startAgents, agentIds, Executing
  <2>2. CASE k \in agentIds
    <3>1. /\ agentsLock = None
          /\ \E a \in Free : /\ kindOf' = [kindOf EXCEPT ![a] = k]
                             /\ agents' = Append(agents, a)
      BY <1>7, <2>2 DEF do_startAgents
    <3>2. PICK a \in Free : /\ kindOf' = [kindOf EXCEPT ![a] = k]
                            /\ agents' = Append(agents, a)
      BY <3>1
    <3>3. a \in Addresses /\ kindOf[a] = None /\ a \notin Started
      BY <1>5 DEF Free
    <3>4. agents' \in Seq(Addresses) /\ Started' = Started \cup {a}
      <4>1. agents \in Seq(Addresses)
        BY <1>5 DEF AgentsTyped
      <4>2. /\ agents' \in Seq(Addresses) /\ Len(agents) \in Nat
            /\ DOMAIN agents = 1 .. Len(agents) /\ DOMAIN agents' = 1 .. Len(agents) + 1
            /\ agents'[Len(agents) + 1] = a /\ \A i \in DOMAIN agents : agents'[i] = agents[i]
        BY <3>2, <3>3, <4>1, Appended
      <4>3. \A i \in DOMAIN agents' : i \in DOMAIN agents \/ i = Len(agents) + 1
        BY <4>2
      <4>4. DOMAIN agents \subseteq DOMAIN agents' /\ Len(agents) + 1 \in DOMAIN agents'
        BY <4>2
      <4> QED BY <4>2, <4>3, <4>4 DEF Started
    <3>5. AgentsTyped'
      BY <1>1, <1>5, <2>1, <3>2, <3>4 DEF AgentsTyped
    <3>6. \A b \in Started' : kindOf'[b] \in agentIds'
      BY <1>5, <2>1, <2>2, <3>2, <3>3, <3>4 DEF AgentsTyped
    <3> QED BY <1>4, <1>5, <2>1, <3>1, <3>4, <3>5, <3>6
  <2>3. CASE k \notin agentIds
    BY <1>6, <1>7, <2>1, <2>3 DEF do_startAgents, agentState
  <2> QED BY <2>2, <2>3
<1>8. CASE do_stopAgents(t)
  <2>1. k \in Kinds
    BY <1>3, <1>8 DEF do_stopAgents, Executing
  <2>2. k \notin modules
    BY <1>5, <2>1, ThreadsAssumption DEF AgentsTyped
  <2> QED BY <1>6, <1>8, <2>2 DEF do_stopAgents, agentState
<1>9. CASE loadModule(t)
  <2>1. modules' = modules \cup {k} /\ UNCHANGED <<agents, kindOf, activity>> /\ k \in Modules
    BY <1>3, <1>9 DEF loadModule, Executing
  <2>2. AgentsTyped' /\ Started' = Started /\ agentIds \subseteq agentIds'
    BY <1>1, <1>5, <2>1 DEF AgentsTyped, Started, agentIds
  <2> QED BY <1>4, <1>5, <2>1, <2>2
<1>10. CASE unloadModule(t)
  <2>1. CASE k \notin modules
    BY <1>6, <1>10, <2>1 DEF unloadModule
  <2>2. CASE k \in modules
    <3> DEFINE G == OfKind(Registers[k])
    <3>1. /\ agentsLock = None /\ agents' \in Orders(Started \ G) /\ activity' = activity \ G
          /\ kindOf' = [a \in Addresses |-> IF a \in G THEN None ELSE kindOf[a]]
          /\ modules' = modules \ {k}
      BY <1>10, <2>2 DEF unloadModule, destroyAllAgents
    <3>2. G = {a \in Started : kindOf[a] = Registers[k]}
      BY DEF OfKind
    <3> HIDE DEF G
    <3>3. agents' \in Seq(Addresses) /\ Started' = Started \ G
      <4>1. Started \ G \subseteq Addresses
        BY <1>5
      <4> QED BY <3>1, <4>1, InAnyOrder DEF Started
    <3>4. AgentsTyped'
      BY <1>1, <1>5, <3>1, <3>3 DEF AgentsTyped
    <3>5. \A a \in Started' : kindOf'[a] \in agentIds'
      <4> TAKE a \in Started'
      <4>1. kindOf'[a] = kindOf[a] /\ kindOf[a] \in agentIds /\ kindOf[a] # Registers[k]
        BY <1>5, <3>1, <3>2, <3>3
      <4> QED BY <3>1, <4>1 DEF agentIds
    <3> QED BY <1>4, <1>5, <3>1, <3>3, <3>4, <3>5
  <2> QED BY <2>1, <2>2
<1> QED BY <1>7, <1>8, <1>9, <1>10

\* Running agents for a request, and destroying the temporary one.
LEMMA StepRequestsKeep ==
  ASSUME AgentsSafe, RequestsSafe, Alive, NEW t \in Threads,
         do_stepAgents(t) \/ StepAgent(t) \/ destroyAgent(t)
  PROVE  AgentsSafe'
<1>1. /\ pc[t] \in Inside /\ pc[t] \in Busy /\ UNCHANGED <<agentsLock, agents, activity, modules>>
      /\ \A u \in Threads \ {t} : todo'[u] = todo[u]
  BY DEF do_stepAgents, StepAgent, destroyAgent, Executing, locks, agentState, Inside, Busy,
         AgentsSafe, AgentsTyped
<1>2. /\ AgentsTyped /\ activity \subseteq Started /\ None \notin agentIds /\ agentIds \subseteq Kinds
      /\ Started \subseteq Addresses /\ \A a \in Started : kindOf[a] \in agentIds
      /\ \A i \in DOMAIN todo[t] : todo[t][i] \in Addresses /\ kindOf[todo[t][i]] \in agentIds
      /\ \A i \in DOMAIN agents : agents[i] \in Started
  BY CodeOf DEF AgentsSafe, AgentsAreRun, Started
<1>3. Started' = Started /\ agentIds' = agentIds
  BY <1>1 DEF Started, agentIds
<1>4. ASSUME kindOf' \in [Addresses -> Kinds \cup {None}], todo'[t] \in Seq(Addresses),
             todo' = [todo EXCEPT ![t] = todo'[t]], OnlyMoves(t),
             \/ pc'[t] = "stepping"
             \/ pc'[t] = "temporary" /\ Len(todo'[t]) = 1 /\ todo'[t][1] \notin Started
             \/ pc'[t] = "drain" /\ todo'[t] = << >>,
             \A a \in Started : kindOf'[a] = kindOf[a],
             \A i \in DOMAIN todo'[t] : kindOf'[todo'[t][i]] \in agentIds
      PROVE  AgentsSafe'
  <2>1. AgentsTyped'
    BY <1>1, <1>2, <1>4 DEF AgentsTyped
  <2>2. /\ pc'[t] # "agents"
        /\ pc'[t] \notin {"stepping", "temporary"} => todo'[t] = << >>
        /\ pc'[t] = "temporary" => Len(todo'[t]) = 1 /\ todo'[t][1] \notin Started'
        /\ agentsLock # None => Started \subseteq Started'
        /\ activity' \subseteq Started'
        /\ \A a \in Started' : kindOf'[a] \in agentIds'
        /\ \A i \in DOMAIN todo'[t] : kindOf'[todo'[t][i]] \in agentIds'
    BY <1>1, <1>2, <1>3, <1>4
  <2> QED BY <1>1, <1>4, <2>1, <2>2, RunnerKeeps
<1>5. ASSUME UNCHANGED <<kindOf, todo>>, Finish(t), todo[t] = << >>
      PROVE  AgentsSafe'
  <2>1. OnlyMoves(t) /\ pc'[t] = "drain"
    BY <1>5, Finished
  <2>2. kindOf' \in [Addresses -> Kinds \cup {None}] /\ todo'[t] \in Seq(Addresses)
        /\ todo' = [todo EXCEPT ![t] = todo'[t]]
    BY <1>2, <1>5 DEF AgentsTyped
  <2> QED BY <1>4, <1>5, <2>1, <2>2
<1>6. ASSUME NEW s \in Seq(Addresses), todo' = [todo EXCEPT ![t] = s], UNCHANGED kindOf,
             OnlyMoves(t), pc'[t] = "stepping", \A i \in DOMAIN s : kindOf[s[i]] \in agentIds
      PROVE  AgentsSafe'
  <2>1. /\ kindOf' \in [Addresses -> Kinds \cup {None}] /\ todo'[t] = s
        /\ todo' = [todo EXCEPT ![t] = todo'[t]]
    BY <1>2, <1>6 DEF AgentsTyped
  <2> QED BY <1>4, <1>6, <2>1
<1>7. ASSUME NEW l \in {"stepping", "temporary"}, Goto(t, l)
      PROVE  OnlyMoves(t) /\ pc'[t] = l
  BY <1>7 DEF Goto, OnlyMoves, RequestsSafe, RequestsTyped, Labels
<1>8. CASE StepAgent(t)
  <2>1. pc[t] = "stepping" /\ UNCHANGED kindOf
    BY <1>8 DEF StepAgent, agentState
  <2>2. CASE todo[t] = << >>
    BY <1>5, <1>8, <2>1, <2>2 DEF StepAgent
  <2>3. CASE todo[t] # << >>
    <3>1. todo' = [todo EXCEPT ![t] = Tail(todo[t])] /\ pc' = pc
      BY <1>8, <2>3 DEF StepAgent
    <3>2. OnlyMoves(t) /\ pc'[t] = "stepping"
      BY <2>1, <3>1 DEF OnlyMoves, RequestsSafe, RequestsTyped
    <3>3. todo[t] \in Seq(Addresses)
      BY <1>2 DEF AgentsTyped
    <3>4. /\ Tail(todo[t]) \in Seq(Addresses)
          /\ Len(todo[t]) \in Nat /\ DOMAIN todo[t] = 1 .. Len(todo[t])
          /\ DOMAIN Tail(todo[t]) = 1 .. Len(todo[t]) - 1
          /\ \A i \in 1 .. Len(todo[t]) - 1 : Tail(todo[t])[i] = todo[t][i + 1]
      BY <2>3, <3>3, Taken
    <3>5. \A i \in DOMAIN Tail(todo[t]) : i + 1 \in DOMAIN todo[t] /\ Tail(todo[t])[i] = todo[t][i + 1]
      BY <3>4
    <3>6. \A i \in DOMAIN Tail(todo[t]) : kindOf[Tail(todo[t])[i]] \in agentIds
      BY <1>2, <3>5
    <3> QED BY <1>6, <2>1, <3>1, <3>2, <3>4, <3>6
  <2> QED BY <2>2, <2>3
<1>9. CASE destroyAgent(t)
  <2>1. /\ pc[t] = "temporary" /\ kindOf' = [kindOf EXCEPT ![todo[t][1]] = None]
        /\ todo' = [todo EXCEPT ![t] = << >>] /\ Finish(t)
    BY <1>9 DEF destroyAgent
  <2>2. todo[t][1] \notin Started
    BY <2>1 DEF AgentsSafe, AgentsAreRun
  <2>3. /\ kindOf' \in [Addresses -> Kinds \cup {None}] /\ \A a \in Started : kindOf'[a] = kindOf[a]
    BY <1>2, <2>1, <2>2 DEF AgentsTyped
  <2>4. << >> \in Seq(Addresses) /\ todo'[t] = << >> /\ todo' = [todo EXCEPT ![t] = todo'[t]]
    BY <1>2, <2>1, EmptySeq DEF AgentsTyped
  <2>5. OnlyMoves(t) /\ pc'[t] = "drain"
    BY <2>1, Finished
  <2> QED BY <1>4, <2>3, <2>4, <2>5
<1>10. CASE do_stepAgents(t)
  <2> DEFINE k == current[t].line.arg
  <2>0. pc[t] = "execute"
    BY <1>10 DEF do_stepAgents, Executing
  <2>1. CASE Executing(t, {"agents-step-all"})
    <3>1. todo' = [todo EXCEPT ![t] = agents] /\ Goto(t, "stepping") /\ UNCHANGED kindOf
      BY <1>10, <2>1 DEF do_stepAgents, Executing, agentState
    <3> QED BY <1>2, <1>6, <1>7, <3>1 DEF AgentsTyped
  <2>2. ASSUME NEW i \in DOMAIN agents, todo' = [todo EXCEPT ![t] = <<agents[i]>>],
               Goto(t, "stepping"), UNCHANGED kindOf
        PROVE  AgentsSafe'
    <3>1. agents[i] \in Addresses /\ kindOf[agents[i]] \in agentIds
      BY <1>2
    <3>2. <<agents[i]>> \in Seq(Addresses) /\ \A j \in DOMAIN <<agents[i]>> : <<agents[i]>>[j] = agents[i]
      BY <3>1
    <3> QED BY <1>6, <1>7, <2>2, <3>1, <3>2
  <2>3. ASSUME k \in agentIds, Goto(t, "temporary"), NEW a \in Free,
               kindOf' = [kindOf EXCEPT ![a] = k], todo' = [todo EXCEPT ![t] = <<a>>]
        PROVE  AgentsSafe'
    <3>1. a \in Addresses /\ a \notin Started
      BY <1>2 DEF Free
    <3>2. <<a>> \in Seq(Addresses) /\ Len(<<a>>) = 1 /\ <<a>>[1] = a /\ \A j \in DOMAIN <<a>> : <<a>>[j] = a
      BY <3>1
    <3>3. todo'[t] = <<a>> /\ todo' = [todo EXCEPT ![t] = todo'[t]]
      BY <1>2, <2>3 DEF AgentsTyped
    <3>4. /\ kindOf' \in [Addresses -> Kinds \cup {None}] /\ kindOf'[a] \in agentIds
          /\ \A b \in Started : kindOf'[b] = kindOf[b]
      BY <1>2, <2>3, <3>1 DEF AgentsTyped
    <3>5. OnlyMoves(t) /\ pc'[t] = "temporary"
      BY <1>7, <2>3
    <3> QED BY <1>4, <3>1, <3>2, <3>3, <3>4, <3>5
  <2>4. CASE Finish(t)
    <3>1. todo[t] = << >>
      BY <1>1, <2>0, OnlyRunner
    <3>2. UNCHANGED <<kindOf, todo>>
      <4>1. pc'[t] = "drain"
        BY <2>4, Finished
      <4>2. ~Goto(t, "stepping") /\ ~Goto(t, "temporary")
        BY <4>1, <1>7
      <4> QED BY <1>10, <4>2 DEF do_stepAgents, agentState
    <3> QED BY <1>5, <2>4, <3>1, <3>2
  <2> QED BY <1>10, <2>1, <2>2, <2>3, <2>4 DEF do_stepAgents, agentState
<1> QED BY <1>8, <1>9, <1>10

\* The server loop runs the started agents under agentsLock.
LEMMA ProcessAgentsKeep ==
  ASSUME AgentsSafe, RequestsSafe, Alive, LockAgents \/ ProcessAgent \/ UnlockAgents
  PROVE  AgentsSafe'
<1> Main \in Threads
  BY DEF Threads
<1>1. /\ UNCHANGED <<agents, kindOf, modules>> /\ OnlyMoves(Main)
      /\ pc'[Main] \in {"agents", "next"} /\ pc[Main] \in {"wantAgents", "agents"}
  BY DEF LockAgents, ProcessAgent, UnlockAgents, agentState, Goto, OnlyMoves, RequestsSafe,
         RequestsTyped, Labels
<1>2. /\ AgentsTyped /\ activity \subseteq Started
      /\ Started \subseteq Addresses /\ \A a \in Started : kindOf[a] \in agentIds
      /\ \A t \in Threads : \A i \in DOMAIN todo[t] : kindOf[todo[t][i]] \in agentIds
      /\ \A i \in DOMAIN agents : agents[i] \in Started
  BY CodeOf DEF AgentsSafe, AgentsAreRun, Started
<1>3. Started' = Started /\ agentIds' = agentIds
  BY <1>1 DEF Started, agentIds
<1>4. ASSUME NEW s \in Seq(Addresses), todo' = [todo EXCEPT ![Main] = s],
             \A i \in DOMAIN s : s[i] \in Started, s = << >> \/ pc'[Main] = "agents",
             agentsLock' \in Threads \cup {None}, pc'[Main] = "agents" => agentsLock' = Main,
             activity' \subseteq Started
      PROVE  AgentsSafe'
  <2>1. AgentsTyped'
    BY <1>1, <1>2, <1>4 DEF AgentsTyped
  <2>2. todo'[Main] = s /\ \A u \in Threads \ {Main} : todo'[u] = todo[u] /\ pc'[u] = pc[u]
    BY <1>1, <1>2, <1>4 DEF AgentsTyped, OnlyMoves
  <2>3. \A u \in Threads : \A i \in DOMAIN todo'[u] : kindOf'[todo'[u][i]] \in agentIds'
    BY <1>1, <1>2, <1>3, <1>4, <2>2
  <2>4. AgentsHaveCode'
    BY <1>1, <1>2, <1>3, <2>3 DEF AgentsHaveCode
  <2>5. \A u \in Threads : todo'[u] # << >> =>
          pc'[u] \in {"stepping", "temporary"} \/ (u = Main /\ pc'[u] = "agents")
    BY <1>4, <2>2 DEF AgentsSafe, AgentsAreRun
  <2>6. \A u \in Threads : pc'[u] = "temporary" => Len(todo'[u]) = 1 /\ todo'[u][1] \notin Started'
    BY <1>1, <1>3, <2>2 DEF AgentsSafe, AgentsAreRun
  <2>7. AgentsAreRun'
    BY <1>3, <1>4, <2>2, <2>5, <2>6 DEF AgentsAreRun
  <2> QED BY <2>1, <2>4, <2>7 DEF AgentsSafe
<1>5. CASE LockAgents
  <2>1. agentsLock' = Main /\ todo' = [todo EXCEPT ![Main] = agents] /\ activity' = activity
    BY <1>5 DEF LockAgents, agentState
  <2>2. pc'[Main] = "agents"
    BY <1>5 DEF LockAgents, Goto, RequestsSafe, RequestsTyped
  <2> QED BY <1>2, <1>4, <2>1, <2>2 DEF AgentsTyped
<1>6. ASSUME pc[Main] = "agents"
      PROVE  /\ agentsLock = Main /\ \A i \in DOMAIN todo[Main] : todo[Main][i] \in Started
             /\ todo[Main] \in Seq(Addresses)
  BY <1>6 DEF AgentsSafe, AgentsAreRun, AgentsTyped
<1>7. CASE ProcessAgent
  <2> DEFINE a == Head(todo[Main])
  <2>1. /\ pc[Main] = "agents" /\ todo[Main] # << >> /\ pc' = pc /\ agentsLock' = agentsLock
        /\ activity' = (IF Due(a) THEN activity \cup {a} ELSE activity)
        /\ todo' = [todo EXCEPT ![Main] = Tail(todo[Main])]
    BY <1>7 DEF ProcessAgent, locks
  <2>2. /\ Tail(todo[Main]) \in Seq(Addresses) /\ a = todo[Main][1]
        /\ Len(todo[Main]) \in Nat /\ Len(todo[Main]) >= 1
        /\ DOMAIN todo[Main] = 1 .. Len(todo[Main])
        /\ DOMAIN Tail(todo[Main]) = 1 .. Len(todo[Main]) - 1
        /\ \A i \in 1 .. Len(todo[Main]) - 1 : Tail(todo[Main])[i] = todo[Main][i + 1]
    BY <1>6, <2>1, Taken
  <2> HIDE DEF a
  <2>3. /\ 1 \in DOMAIN todo[Main]
        /\ \A i \in DOMAIN Tail(todo[Main]) : /\ i + 1 \in DOMAIN todo[Main]
                                              /\ Tail(todo[Main])[i] = todo[Main][i + 1]
    BY <2>2
  <2>4. a \in Started /\ \A i \in DOMAIN Tail(todo[Main]) : Tail(todo[Main])[i] \in Started
    BY <1>6, <2>1, <2>2, <2>3
  <2> QED BY <1>2, <1>4, <1>6, <2>1, <2>2, <2>4
<1>8. CASE UnlockAgents
  <2>1. /\ pc[Main] = "agents" /\ todo[Main] = << >> /\ todo' = todo
        /\ agentsLock' = None /\ activity' = activity
        /\ pc' = [pc EXCEPT ![Main] = "next"]
    BY <1>8 DEF UnlockAgents, Goto, agentState
  <2>2. todo' = [todo EXCEPT ![Main] = todo[Main]] /\ pc'[Main] = "next"
    BY <1>2, <2>1 DEF AgentsTyped, RequestsSafe, RequestsTyped
  <2> QED BY <1>2, <1>4, <1>6, <2>1, <2>2
<1> QED BY <1>5, <1>7, <1>8

\* Every step keeps the invariants of the agents.
LEMMA AgentsStep ==
  ASSUME AgentsSafe, RequestsSafe, Next
  PROVE  AgentsSafe'
<1> Main \in Threads /\ Alive
  BY DEF Threads, Next
<1>1. \A t \in Threads : pc[t] \notin {"stepping", "temporary", "agents"} => todo[t] = << >>
  BY DEF AgentsSafe, AgentsAreRun
<1>2. ASSUME NEW t \in Threads, pc[t] \notin {"stepping", "temporary", "agents"}, SameAgents,
             NEW l \in Labels \ {"agents", "temporary"}, pc' = [pc EXCEPT ![t] = l]
      PROVE  AgentsSafe'
  <2>1. OnlyMoves(t) /\ pc'[t] = l
    BY <1>2 DEF OnlyMoves, RequestsSafe, RequestsTyped
  <2> QED BY <1>1, <1>2, <2>1, PlainKeeps
<1> USE DEF SameAgents, agentState, locks
<1>3. \A l \in {"top", "cycle", "wantAgents", "next", "exited", "crashed", "reading", "pushed",
                "gone", "want", "drain", "execute"} : l \in Labels \ {"agents", "temporary"}
  BY DEF Labels
<1>4. ASSUME NEW t \in Threads, processRequests(t)
      PROVE  AgentsSafe'
  <2>1. ASSUME pc[t] = "execute", SameAgents, Finish(t)
        PROVE  AgentsSafe'
    BY <1>2, <1>3, <2>1 DEF Finish, Goto
  <2>2. CASE LockRequests(t)
    BY <1>2, <1>3, <2>2 DEF LockRequests, Goto
  <2>3. CASE popRequest(t)
    BY <1>2, <1>3, <2>3 DEF popRequest, Goto
  <2>4. CASE UnlockRequests(t)
    BY <1>2, <1>3, <2>4 DEF UnlockRequests, Goto
  <2>5. CASE Answer(t)
    BY <2>1, <2>5 DEF Answer, Executing
  <2>6. CASE do_AgentLoop(t)
    BY <2>1, <2>6 DEF do_AgentLoop, Executing
  <2>7. CASE shellout(t)
    BY <2>1, <2>7 DEF shellout, Executing
  <2>8. CASE ExitConnection(t)
    <3>1. pc[t] = "execute" /\ SameAgents /\ (Finish(t) \/ \E closed : Throw(t, closed))
      BY <2>8 DEF ExitConnection, Executing
    <3>2. CASE \E closed : Throw(t, closed)
      BY <1>2, <1>3, <3>1, <3>2 DEF Throw, Goto
    <3> QED BY <2>1, <3>1, <3>2
  <2>9. CASE CallDeletedSocket(t)
    <3>1. pc' = [pc EXCEPT ![Main] = "crashed"] /\ SameAgents
      BY <2>9 DEF CallDeletedSocket, Goto
    <3>2. OnlyMoves(Main) /\ pc'[Main] = "crashed"
      BY <3>1 DEF OnlyMoves, RequestsSafe, RequestsTyped, Labels
    <3> QED BY <3>1, <3>2, PlainKeeps
  <2>10. CASE do_startAgents(t) \/ do_stopAgents(t) \/ loadModule(t) \/ unloadModule(t)
    BY <2>10, AgentRequestsKeep
  <2>11. CASE do_stepAgents(t) \/ StepAgent(t) \/ destroyAgent(t)
    BY <2>11, StepRequestsKeep
  <2> QED BY <1>4, <2>2, <2>3, <2>4, <2>5, <2>6, <2>7, <2>8, <2>9, <2>10, <2>11 DEF processRequests
<1>5. CASE serverLoop
  <2>1. CASE LookAtQueue
    BY <1>2, <1>3, <2>1 DEF LookAtQueue, Goto
  <2>2. CASE SkipAgents
    BY <1>2, <1>3, <2>2 DEF SkipAgents, Goto
  <2>3. CASE ToAgents
    BY <1>2, <1>3, <2>3 DEF ToAgents, Goto
  <2>4. CASE Loop
    BY <1>2, <1>3, <2>4 DEF Loop, Goto
  <2>5. CASE LockAgents \/ ProcessAgent \/ UnlockAgents
    BY <2>5, ProcessAgentsKeep
  <2> QED BY <1>4, <1>5, <2>1, <2>2, <2>3, <2>4, <2>5 DEF serverLoop
<1>6. ASSUME NEW c \in Clients, SocketThread(c) \/ Accept(c) \/ Send(c) \/ HangUp(c)
      PROVE  AgentsSafe'
  <2>1. c \in Threads
    BY DEF Threads
  <2>2. CASE ReadLine(c)
    <3>1. pc[c] = "reading" /\ SameAgents
      BY <2>2 DEF ReadLine
    <3>2. pc' = pc \/ pc' = [pc EXCEPT ![c] = "pushed"]
      BY <2>2 DEF ReadLine, OnLine, Goto
    <3> QED BY <1>2, <1>3, <2>1, <3>1, <3>2, ClientsRunNothing
  <2>3. CASE ReadRawData(c) \/ Send(c) \/ HangUp(c)
    BY <2>3, ClientsRunNothing DEF ReadRawData, Send, HangUp
  <2>4. CASE EndOfInput(c)
    BY <1>2, <1>3, <2>1, <2>4 DEF EndOfInput, Goto
  <2>5. CASE CheckShell(c)
    BY <1>2, <1>3, <2>1, <2>5 DEF CheckShell, Goto
  <2>6. CASE Accept(c)
    BY <1>2, <1>3, <2>1, <2>6 DEF Accept, Goto
  <2> QED BY <1>4, <1>6, <2>1, <2>2, <2>3, <2>4, <2>5, <2>6 DEF SocketThread
<1> QED BY <1>5, <1>6 DEF Next

-----------------------------------------------------------------------------
(* The theorems                                                            *)

\* The flags and the counter of the server loop keep their types.
LEMMA LoopStep ==
  ASSUME LoopTyped, Next
  PROVE  LoopTyped'
<1>1. ASSUME NextCycle
      PROVE  cycleCount' \in 0 .. CycleBound - 1
  BY <1>1, KindsAssumption DEF NextCycle, LoopTyped
<1>2. ASSUME NEW t \in Threads, processRequests(t)
      PROVE  /\ running' \in BOOLEAN /\ agentsRunning' \in BOOLEAN /\ cycleCount' = cycleCount
  <2> USE DEF LoopTyped, loopState
  <2>1. CASE do_AgentLoop(t)
    BY <2>1 DEF do_AgentLoop
  <2>2. CASE ExitConnection(t)
    BY <2>2 DEF ExitConnection
  <2>3. CASE ~do_AgentLoop(t) /\ ~ExitConnection(t)
    <3>1. UNCHANGED loopState
      BY <1>2, <2>3 DEF processRequests, LockRequests, popRequest, UnlockRequests, Answer, shellout,
         CallDeletedSocket, do_startAgents, do_stopAgents, do_stepAgents, StepAgent, destroyAgent,
         loadModule, unloadModule
    <3> QED BY <3>1
  <2> QED BY <2>1, <2>2, <2>3
<1>3. CASE serverLoop
  <2>1. CASE processRequests(Main)
    BY <1>2, <2>1 DEF Threads, LoopTyped
  <2>2. CASE ~processRequests(Main)
    <3>1. UNCHANGED <<running, agentsRunning>> /\ (cycleCount' = cycleCount \/ NextCycle)
      BY <1>3, <2>2 DEF serverLoop, LookAtQueue, SkipAgents, ToAgents, LockAgents, ProcessAgent,
         UnlockAgents, Loop, loopState
    <3> QED BY <1>1, <3>1 DEF LoopTyped
  <2> QED BY <2>1, <2>2
<1>4. ASSUME NEW c \in Clients, SocketThread(c) \/ Accept(c) \/ Send(c) \/ HangUp(c)
      PROVE  LoopTyped'
  <2>1. CASE processRequests(c)
    BY <1>2, <2>1 DEF Threads, LoopTyped
  <2>2. CASE ~processRequests(c)
    <3>1. UNCHANGED loopState
      BY <1>4, <2>2 DEF SocketThread, ReadLine, ReadRawData, EndOfInput, CheckShell, Accept, Send, HangUp
    <3> QED BY <3>1 DEF LoopTyped, loopState
  <2> QED BY <2>1, <2>2
<1> QED BY <1>3, <1>4 DEF Next

\* The server starts safely.
LEMMA ServerInit ==
  ASSUME Init
  PROVE  ServerSafe
<1> USE DEF Init
<1>1. LoopTyped
  BY KindsAssumption DEF LoopTyped
<1>2. RequestsTyped
  <2>1. requestQueue \in Seq(GoodRequests)
    BY EmptySeq
  <2>2. pc \in [Threads -> Labels]
    BY DEF Labels
  <2> QED BY <2>1, <2>2 DEF RequestsTyped
<1>3. SocketsTyped
  <2>1. << >> \in Seq(GoodLines)
    BY EmptySeq
  <2>2. NewSocket \in Sockets
    BY <2>1 DEF NewSocket, Sockets
  <2> QED BY <2>1, <2>2 DEF SocketsTyped
<1>4. /\ Len(Initially) \in Nat /\ Len(Initially) <= MaxAgents /\ MaxAgents \in Nat
      /\ \A i \in 1 .. Len(Initially) : Initially[i] \in {Registers[m] : m \in Modules}
      /\ \A i \in 1 .. Len(Initially) : i \in Addresses
  BY ClientsAssumption, LenProperties DEF Addresses
<1>5. AgentsTyped
  <2>1. << >> \in Seq(Addresses)
    BY EmptySeq
  <2>2. agents \in Seq(Addresses)
    <3>1. agents \in [1 .. Len(Initially) -> Addresses]
      BY <1>4
    <3> QED BY <1>4, <3>1, SeqDef
  <2>3. kindOf \in [Addresses -> Kinds \cup {None}]
    <3> SUFFICES ASSUME NEW a \in Addresses, a <= Len(Initially)
                 PROVE  Initially[a] \in Kinds
      OBVIOUS
    <3>1. a \in 1 .. Len(Initially)
      BY <1>4 DEF Addresses
    <3> QED BY <1>4, <3>1, KindsAssumption
  <2> QED BY <2>1, <2>2, <2>3 DEF AgentsTyped
<1>6. Pending = {} /\ \A t \in Threads : pc[t] \in {"top", "none"} /\ current[t] = None /\ todo[t] = << >>
  BY DEF Pending
<1>7. OneInside
  BY <1>6 DEF OneInside, Inside, Busy
<1>8. LinesInOrder
  BY DEF LinesInOrder, Ordered, NewSocket
<1>9. PendingPassed
  BY <1>6 DEF PendingPassed, Passed, NewSocket
<1>10. RequestsInOrder
  BY <1>6 DEF RequestsInOrder
<1>11. ShellIsLast
  BY <1>6 DEF ShellIsLast
<1>12. AgentsHaveCode
  <2>1. \A a \in Started : a \in 1 .. Len(Initially)
    BY DEF Started
  <2>2. \A a \in Started : kindOf[a] \in agentIds
    BY <1>4, <2>1 DEF agentIds
  <2>3. \A t \in Threads : DOMAIN todo[t] = {}
    BY <1>6
  <2> QED BY <2>2, <2>3 DEF AgentsHaveCode
<1>13. AgentsAreRun
  <2>1. Main \in Threads
    BY DEF Threads
  <2> QED BY <1>6, <2>1 DEF AgentsAreRun
<1> QED BY <1>1, <1>2, <1>3, <1>5, <1>7, <1>8, <1>9, <1>10, <1>11, <1>12, <1>13 DEF ServerSafe

\* Every step of any thread or client keeps the inductive invariant.
LEMMA ServerStep ==
  ASSUME ServerSafe, [Next]_vars
  PROVE  ServerSafe'
<1>1. CASE Next
  <2>1. RequestsSafe /\ AgentsSafe /\ LoopTyped
    BY DEF ServerSafe, RequestsSafe, AgentsSafe
  <2>2. RequestsSafe' /\ AgentsSafe' /\ LoopTyped'
    BY <1>1, <2>1, RequestsStep, AgentsStep, LoopStep
  <2> QED BY <2>2 DEF ServerSafe, RequestsSafe, AgentsSafe
<1>2. CASE UNCHANGED vars
  <2> USE <1>2 DEF vars, loopState, locks, agentState, input
  <2>1. LoopTyped' /\ RequestsTyped' /\ SocketsTyped' /\ AgentsTyped'
    BY DEF ServerSafe, LoopTyped, RequestsTyped, SocketsTyped, AgentsTyped
  <2>2. OneInside' /\ LinesInOrder' /\ RequestsInOrder'
    BY DEF ServerSafe, OneInside, LinesInOrder, RequestsInOrder
  <2>3. PendingPassed' /\ ShellIsLast'
    BY DEF ServerSafe, PendingPassed, Passed, Pending, ShellIsLast, LockLeaked
  <2>4. AgentsHaveCode' /\ AgentsAreRun'
    BY DEF ServerSafe, AgentsHaveCode, AgentsAreRun, Started, agentIds, Alive
  <2> QED BY <2>1, <2>2, <2>3, <2>4 DEF ServerSafe
<1> QED BY <1>1, <1>2

\* The inductive invariant holds in every reachable state of the CogServer: threads
\* exclude each other in processRequests, lines are read in order, and what runs
\* agents holds the lock or the request that keeps them alive (CogServer.cc,
\* ConsoleSocket.cc, BuiltinRequestsModule.cc).
THEOREM ServerAlwaysSafe == Spec => []ServerSafe
<1>1. Init => ServerSafe
  BY ServerInit
<1>2. ServerSafe /\ [Next]_vars => ServerSafe'
  BY ServerStep
<1> QED BY <1>1, <1>2, PTL DEF Spec

\* The variables of the server and its sockets have their types in every reachable
\* state.
THEOREM ServerTypes == Spec => []ServerTypeOK
<1>1. ServerSafe => ServerTypeOK
  <2> SUFFICES ASSUME ServerSafe
               PROVE  ServerTypeOK
    OBVIOUS
  <2>1. LoopTyped /\ RequestsTyped /\ SocketsTyped /\ AgentsTyped
    BY DEF ServerSafe
  <2>2. GoodLines \subseteq Lines /\ GoodRequests \subseteq Requests
    BY DEF GoodLines, GoodRequests
  <2>3. requestQueue \in Seq(Requests)
    BY <2>1, <2>2, SeqOfMore DEF RequestsTyped
  <2>4. current \in [Threads -> Requests \cup {None}]
    BY <2>1, <2>2 DEF RequestsTyped
  <2>5. \A q \in Seq(GoodLines) : q \in Seq(Lines)
    BY <2>2, SeqOfMore
  <2>6. net \in [Clients -> Seq(Lines)] /\ ahead \in [Clients -> Seq(Lines)]
    BY <2>1, <2>5 DEF SocketsTyped
  <2>7. sock \in [Clients -> [closed : BOOLEAN, line : BOOLEAN, shell : BOOLEAN,
                              request : Nat, buffer : Seq(Lines)]]
    BY <2>1, <2>5 DEF SocketsTyped, Sockets
  <2> QED BY <2>1, <2>3, <2>4, <2>6, <2>7
          DEF ServerTypeOK, LoopTyped, RequestsTyped, SocketsTyped, AgentsTyped
<1> QED BY <1>1, ServerAlwaysSafe, PTL

\* Requests of a client are executed one at a time and in the order of its lines, by
\* whatever threads, for any number of clients and lines (popRequest, processRequests).
THEOREM InOrderAlways == Spec => []RequestsInOrder
<1>1. ServerSafe => RequestsInOrder
  BY DEF ServerSafe
<1> QED BY <1>1, ServerAlwaysSafe, PTL

\* A socket never reads on while its shell request is queued or half done, unless an
\* exception has left processRequests locked (ConsoleSocket::OnLine).
THEOREM ShellComesFirst == Spec => []ShellBeforeNextLine
<1>1. ServerSafe => ShellBeforeNextLine
  BY DEF ServerSafe, ShellIsLast, ShellBeforeNextLine
<1> QED BY <1>1, ServerAlwaysSafe, PTL

\* No thread runs an agent that is destroyed or whose module is unloaded, and none
\* stays started (destroyAllAgents, processAgents, do_stepAgents).
THEOREM CodeStays == Spec => []AgentsHaveCode
<1>1. ServerSafe => AgentsHaveCode
  BY DEF ServerSafe
<1> QED BY <1>1, ServerAlwaysSafe, PTL

\* The activity table has no entry of a destroyed agent (SystemActivityTable,
\* destroyAllAgents).
THEOREM NoStaleActivity == Spec => []ActivityOfLiveAgents
<1>1. ServerSafe => ActivityOfLiveAgents
  <2> SUFFICES ASSUME ServerSafe
               PROVE  ActivityOfLiveAgents
    OBVIOUS
  <2>1. AgentsSafe /\ activity \subseteq Started
    BY DEF ServerSafe, AgentsSafe, AgentsAreRun
  <2> QED BY <2>1, CodeOf DEF ActivityOfLiveAgents
<1> QED BY <1>1, ServerAlwaysSafe, PTL
=============================================================================
