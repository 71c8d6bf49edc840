------------------------------ MODULE CogServer ------------------------------
(***************************************************************************)
(* The CogServer of opencog/server: the server loop, which executes the    *)
(* queued requests and then runs the agents, and the console sockets, each *)
(* with a thread that turns the input of a client into requests.  A        *)
(* request that enters a shell makes the socket's thread execute what is   *)
(* queued, next to the server loop.                                        *)
(*                                                                         *)
(* An agent is known by its address.  The input of a client is a sequence  *)
(* of lines; what a line says is its command, and the class of agents      *)
(* or the module it names.                                                 *)
(***************************************************************************)
EXTENDS Integers, Sequences

CONSTANTS
  Main,       \* the thread of the server loop
  Clients,    \* console clients; each stands for its socket and its thread too
  None,       \* no thread, no request, no class
  Kinds,      \* classes of agents
  Modules,    \* loadable modules, by their id
  Registers,  \* [Modules -> the class of agents the module registers]
  Frequency,  \* [Kinds -> how many cycles from one run of an agent to the next]
  Script,     \* [Clients -> for each line the client sends, what it may say]
  MayHangUp,  \* clients that may close the connection
  Initially,  \* classes of the agents started before the server loop, in order;
              \* the configuration's MODULES names all modules
  MaxAgents,  \* bound: agents that exist at once
  CycleBound  \* bound: cycleCount is counted modulo this number

\* "chunk" is a line of data, "eot" one that ends in ^D; neither is a command.
\* "agents-step-all" is agents-step without arguments.
Switches == {"agents-start-loop", "agents-stop-loop"}
OfModules == {"loadmodule", "unloadmodule"}
OfAgents == {"agents-start", "agents-stop", "agents-step"}
Commands == {"blank", "help", "chunk", "eot", "data", "scm", "exit", "shutdown",
             "agents-step-all"} \cup Switches \cup OfModules \cup OfAgents
Threads == Clients \cup {Main}
Addresses == 1 .. MaxAgents

\* A line has its position in the input of the client.
Words == {w \in Commands \X (Kinds \cup Modules \cup {None}) :
            w[2] \in IF w[1] \in OfAgents THEN Kinds
                     ELSE IF w[1] \in OfModules THEN Modules ELSE {None}}
Lines == [cmd : Commands, arg : Kinds \cup Modules \cup {None}, pos : Nat]
Requests == [client : Clients, line : Lines, data : Seq(Lines)]

ASSUME ThreadsAssumption ==
  /\ Main \notin Clients /\ None \notin Threads \cup Kinds \cup Requests
  /\ Kinds \cap Modules = {}   \* no class has the id of a module
ASSUME KindsAssumption ==
  /\ Registers \in [Modules -> Kinds]
  /\ CycleBound \in Nat \ {0}
  /\ Frequency \in [Kinds -> Nat \ {0}]
  /\ \A k \in Kinds : CycleBound % Frequency[k] = 0
ASSUME ClientsAssumption ==
  /\ Script \in [Clients -> Seq(SUBSET Words)] /\ MayHangUp \subseteq Clients
  /\ MaxAgents \in Nat
  /\ Initially \in Seq({Registers[m] : m \in Modules}) /\ Len(Initially) <= MaxAgents

VARIABLES
  running, agentsRunning, cycleCount,
  requestQueue,
  processRequestsLock, agentsLock,  \* the thread that holds it, or None
  pc,        \* [Threads -> where the thread is]
  current,   \* [Threads -> the request the thread executes, or None]
  todo,      \* [Threads -> agents to run, the first is being run]
  agents,    \* the vector of started agents
  kindOf,    \* [Addresses -> class of the agent there, None if there is none]
  activity,  \* agents with an entry in the SystemActivityTable
  modules,   \* the loaded modules
  sock,      \* [Clients -> closed, lineProtocol, shell, request, buffer of the
             \* ConsoleSocket]; request is the position of its line
  net,       \* [Clients -> lines sent and not read by the server]
  ahead,     \* [Clients -> lines in the streambuf of handle_connection]
  sent,      \* [Clients -> number of lines sent]
  hungUp,    \* clients that have closed their end
  done       \* [Clients -> position of the last line executed as a request]

loopState == <<running, agentsRunning, cycleCount>>
locks == <<processRequestsLock, agentsLock>>
agentState == <<agents, kindOf, activity, modules>>
input == <<net, ahead, sent, hungUp>>
vars == <<loopState, requestQueue, locks, pc, current, todo, agentState, sock, input, done>>

NewSocket == [closed |-> FALSE, line |-> TRUE, shell |-> FALSE, request |-> 0,
              buffer |-> << >>]

Init ==
  /\ running = TRUE /\ agentsRunning = TRUE /\ cycleCount = 1 % CycleBound
  /\ requestQueue = << >>
  /\ processRequestsLock = None /\ agentsLock = None
  /\ pc = [t \in Threads |-> IF t = Main THEN "top" ELSE "none"]
  /\ current = [t \in Threads |-> None]
  /\ todo = [t \in Threads |-> << >>]
  /\ agents = [i \in 1 .. Len(Initially) |-> i]
  /\ kindOf = [a \in Addresses |-> IF a <= Len(Initially) THEN Initially[a] ELSE None]
  /\ activity = {}
  /\ modules = Modules
  /\ sock = [c \in Clients |-> NewSocket]
  /\ net = [c \in Clients |-> << >>]
  /\ ahead = [c \in Clients |-> << >>]
  /\ sent = [c \in Clients |-> 0]
  /\ hungUp = {}
  /\ done = [c \in Clients |-> 0]

\* The process runs; when it ends, all its threads do.
Alive == pc[Main] \notin {"exited", "crashed"}

SocketExists(c) == pc[c] \notin {"none", "gone"}

Goto(t, l) == pc' = [pc EXCEPT ![t] = l]

-----------------------------------------------------------------------------
(* The clients. *)

Send(c) ==
  /\ SocketExists(c) /\ c \notin hungUp /\ sent[c] < Len(Script[c])
  /\ \E w \in Script[c][sent[c] + 1] :
       net' = [net EXCEPT ![c] = Append(@, [cmd |-> w[1], arg |-> w[2], pos |-> sent[c] + 1])]
  /\ sent' = [sent EXCEPT ![c] = @ + 1]
  /\ UNCHANGED <<loopState, requestQueue, locks, pc, current, todo, agentState, sock,
                 ahead, hungUp, done>>

HangUp(c) ==
  /\ SocketExists(c) /\ c \in MayHangUp \ hungUp
  /\ hungUp' = hungUp \cup {c}
  /\ UNCHANGED <<loopState, requestQueue, locks, pc, current, todo, agentState, sock,
                 net, ahead, sent, done>>

-----------------------------------------------------------------------------
(* The thread of a socket: handle_connection, OnLine and OnRawData. *)

\* SocketListener::handle_accept: the listener makes a socket for a client.
Accept(c) ==
  /\ pc[c] = "none"
  /\ Goto(c, "reading")
  /\ UNCHANGED <<loopState, requestQueue, locks, current, todo, agentState, sock, input, done>>

pushRequest(c, l, d) ==
  requestQueue' = Append(requestQueue, [client |-> c, line |-> l, data |-> d])

\* ConsoleSocket::OnLine.  A command nobody has registered becomes "help".
OnLine(c, l) ==
  \/ /\ sock[c].shell                  \* the shell takes the line
     /\ \E leave \in IF l.cmd = "eot" THEN BOOLEAN ELSE {FALSE} :
          sock' = [sock EXCEPT ![c].shell = ~leave]
     /\ UNCHANGED <<requestQueue, pc>>
  \/ /\ ~sock[c].shell /\ l.cmd = "blank"
     /\ UNCHANGED <<requestQueue, pc, sock>>
  \/ /\ ~sock[c].shell /\ l.cmd = "data"   \* DataRequest::setRequestResult
     /\ sock' = [sock EXCEPT ![c].line = FALSE, ![c].request = l.pos]
     /\ UNCHANGED <<requestQueue, pc>>
  \/ /\ ~sock[c].shell /\ l.cmd \notin {"blank", "data"}
     /\ pushRequest(c, l, << >>)
     /\ sock' = [sock EXCEPT ![c].request = l.pos]
     /\ Goto(c, "pushed")

\* read_until reads from the network only when the streambuf holds no line, and
\* then may take more than a line.
ReadLine(c) ==
  /\ pc[c] = "reading" /\ sock[c].line
  /\ \E n \in 0 .. Len(net[c]) :
       /\ n = 0 <=> ahead[c] # << >>
       /\ n > 0 => ~sock[c].closed
       /\ LET b == ahead[c] \o SubSeq(net[c], 1, n) IN
            /\ ahead' = [ahead EXCEPT ![c] = Tail(b)]
            /\ net' = [net EXCEPT ![c] = SubSeq(@, n + 1, Len(@))]
            /\ OnLine(c, Head(b))
  /\ UNCHANGED <<loopState, locks, current, todo, agentState, sent, hungUp, done>>

\* OnRawData finds ^D only at the end of what it has read so far.  (The buffer is
\* emptied here; the code does it when the next data request comes.)
OnRawData(c, ls) ==
  LET b == sock[c].buffer \o ls
      end == b[Len(b)].cmd = "eot"
  IN /\ sock' = [sock EXCEPT ![c].buffer = IF end THEN << >> ELSE b, ![c].line = end]
     /\ IF end
        THEN pushRequest(c, [cmd |-> "data", arg |-> None, pos |-> sock[c].request], b)
        ELSE UNCHANGED requestQueue

ReadRawData(c) ==
  /\ pc[c] = "reading" /\ ~sock[c].line /\ ~sock[c].closed
  /\ \E n \in 1 .. Len(net[c]) :
       /\ net' = [net EXCEPT ![c] = SubSeq(@, n + 1, Len(@))]
       /\ OnRawData(c, SubSeq(net[c], 1, n))
  /\ UNCHANGED <<loopState, locks, pc, current, todo, agentState, ahead, sent, hungUp, done>>

\* The end of handle_connection: the socket deletes itself, and its shell.
EndOfInput(c) ==
  /\ pc[c] = "reading"
  /\ sock[c].line => ahead[c] = << >>
  /\ sock[c].closed \/ (c \in hungUp /\ net[c] = << >>)
  /\ Goto(c, "gone")
  /\ sock' = [sock EXCEPT ![c].shell = FALSE]
  /\ UNCHANGED <<loopState, requestQueue, locks, current, todo, agentState, input, done>>

\* Requests that are queued or being executed.
Pending == {requestQueue[i] : i \in DOMAIN requestQueue}
           \cup {current[t] : t \in {u \in Threads : current[u] # None}}

\* Mutant: the thread does not wait for the shell request.
CheckShellReadsOn(c) ==
  /\ pc[c] = "pushed"
  /\ Goto(c, "reading")
  /\ UNCHANGED <<loopState, requestQueue, locks, current, todo, agentState, sock, input, done>>
\* OnLine goes on with isShell(), a call on an object that another thread may
\* have deleted since it was queued: then any answer may come.
CheckShell(c) ==
  /\ pc[c] = "pushed"
  /\ LET mine == {r \in Pending : r.client = c /\ r.line.pos = sock[c].request}
     IN \E isShell \in IF mine = {} THEN BOOLEAN ELSE {\E r \in mine : r.line.cmd = "scm"} :
          Goto(c, IF isShell THEN "want" ELSE "reading")
  /\ UNCHANGED <<loopState, requestQueue, locks, current, todo, agentState, sock, input, done>>

-----------------------------------------------------------------------------
(* CogServer::processRequests, on any thread. *)

\* Mutant: the lock is taken only when there is something to execute.
LockRequestsForWork(t) ==
  /\ pc[t] = "want" /\ processRequestsLock = None /\ requestQueue # << >>
  /\ processRequestsLock' = t
  /\ Goto(t, "drain")
  /\ UNCHANGED <<loopState, requestQueue, agentsLock, current, todo, agentState, sock,
                 input, done>>

\* processRequestsLock is taken, whether there is still something queued or not.
LockRequests(t) ==
  /\ pc[t] = "want" /\ processRequestsLock = None
  /\ processRequestsLock' = t
  /\ Goto(t, "drain")
  /\ UNCHANGED <<loopState, requestQueue, agentsLock, current, todo, agentState, sock,
                 input, done>>

\* Mutant: the newest request is executed first.
popRequestNewest(t) ==
  /\ pc[t] = "drain" /\ requestQueue # << >>
  /\ LET n == Len(requestQueue) IN
       /\ current' = [current EXCEPT ![t] = requestQueue[n]]
       /\ requestQueue' = SubSeq(requestQueue, 1, n - 1)
  /\ Goto(t, "execute")
  /\ UNCHANGED <<loopState, locks, todo, agentState, sock, input, done>>

popRequest(t) ==
  /\ pc[t] = "drain" /\ requestQueue # << >>
  /\ current' = [current EXCEPT ![t] = Head(requestQueue)]
  /\ requestQueue' = Tail(requestQueue)
  /\ Goto(t, "execute")
  /\ UNCHANGED <<loopState, locks, todo, agentState, sock, input, done>>

UnlockRequests(t) ==
  /\ pc[t] = "drain" /\ requestQueue = << >>
  /\ processRequestsLock' = None
  /\ Goto(t, IF t = Main THEN "cycle" ELSE "reading")
  /\ UNCHANGED <<loopState, requestQueue, agentsLock, current, todo, agentState, sock,
                 input, done>>

Executing(t, cmds) == pc[t] = "execute" /\ current[t].line.cmd \in cmds

\* execute() returns and the request is deleted.
Finish(t) ==
  /\ done' = [done EXCEPT ![current[t].client] = current[t].line.pos]
  /\ current' = [current EXCEPT ![t] = None]
  /\ Goto(t, "drain")

\* Requests that only answer the client, or load data into the AtomSpace.
Answer(t) ==
  /\ Executing(t, {"help", "chunk", "eot", "data"})
  /\ Finish(t)
  /\ UNCHANGED <<loopState, requestQueue, locks, todo, agentState, sock, input>>

do_AgentLoop(t) ==
  /\ Executing(t, Switches)
  /\ agentsRunning' = (current[t].line.cmd = "agents-start-loop")
  /\ Finish(t)
  /\ UNCHANGED <<running, cycleCount, requestQueue, locks, todo, agentState, sock, input>>

shellout(t) ==
  /\ Executing(t, {"scm"})
  /\ LET c == current[t].client IN
       sock' = [sock EXCEPT ![c].shell = IF SocketExists(c) THEN TRUE ELSE @]
  /\ Finish(t)
  /\ UNCHANGED <<loopState, requestQueue, locks, todo, agentState, input>>

\* ServerSocket::SetCloseAndDelete throws if the socket is closed already, and may
\* throw if the client is gone.
ExitThrows(c) == IF sock[c].closed THEN {TRUE} ELSE IF c \in hungUp THEN BOOLEAN ELSE {FALSE}

\* The exception leaves processRequests with the lock held.  Nobody catches it in
\* the server loop; a socket's thread ends if its socket is closed and reads on if
\* not.
Throw(t, closed) ==
  /\ current' = [current EXCEPT ![t] = None]
  /\ Goto(t, IF t = Main THEN "crashed" ELSE IF closed[t] THEN "gone" ELSE "reading")
  /\ UNCHANGED done

\* ExitRequest and ShutdownRequest.
ExitConnection(t) ==
  /\ Executing(t, {"exit", "shutdown"})
  /\ running' = (running /\ current[t].line.cmd # "shutdown")
  /\ LET c == current[t].client IN
       IF SocketExists(c)
       THEN \E throws \in ExitThrows(c) :
              /\ sock' = [d \in Clients |->
                   [sock[d] EXCEPT !.closed = @ \/ d = c,
                                   !.shell = @ /\ ~(throws /\ d = t /\ (d = c \/ sock[d].closed))]]
              /\ IF throws THEN Throw(t, [d \in Clients |-> sock[d].closed \/ d = c])
                 ELSE Finish(t)
       ELSE Finish(t) /\ UNCHANGED sock
  /\ UNCHANGED <<agentsRunning, cycleCount, requestQueue, locks, todo, agentState, input>>

\* The request calls the socket, which deleted itself: whatever the request does, the
\* process may crash.
CallDeletedSocket(t) ==
  /\ pc[t] = "execute" /\ ~SocketExists(current[t].client)
  /\ Goto(Main, "crashed")
  /\ UNCHANGED <<loopState, requestQueue, locks, current, todo, agentState, sock, input, done>>

-----------------------------------------------------------------------------
(* Agents and modules. *)

agentIds == {Registers[m] : m \in modules}
Free == {a \in Addresses : kindOf[a] = None}
Started == {agents[i] : i \in DOMAIN agents}
OfKind(k) == {a \in Started : kindOf[a] = k}

\* do_startAgents
do_startAgents(t) ==
  /\ Executing(t, {"agents-start"})
  /\ LET k == current[t].line.arg IN
       IF k \in agentIds
       THEN /\ agentsLock = None
            /\ \E a \in Free : /\ kindOf' = [kindOf EXCEPT ![a] = k]
                               /\ agents' = Append(agents, a)
       ELSE UNCHANGED <<kindOf, agents>>
  /\ Finish(t)
  /\ UNCHANGED <<loopState, requestQueue, locks, todo, activity, modules, sock, input>>

\* The sequences of the members of S; std::partition keeps no order.
Orders(S) == {s \in UNION {[1 .. n -> S] : n \in 0 .. MaxAgents} :
                /\ \A a \in S : \E i \in DOMAIN s : s[i] = a
                /\ \A i, j \in DOMAIN s : s[i] = s[j] => i = j}

\* Mutant: agentsLock is not taken.
destroyAllAgentsUnlocked(k) ==
  /\ agents' \in Orders(Started \ OfKind(k))
  /\ activity' = activity \ OfKind(k)
  /\ kindOf' = [a \in Addresses |-> IF a \in OfKind(k) THEN None ELSE kindOf[a]]
\* Mutant: the entries of the activity table stay.
destroyAllAgentsKeepsActivity(k) ==
  /\ agentsLock = None
  /\ agents' \in Orders(Started \ OfKind(k))
  /\ kindOf' = [a \in Addresses |-> IF a \in OfKind(k) THEN None ELSE kindOf[a]]
  /\ UNCHANGED activity

\* destroyAllAgents, with agentsLock held from its first line to its last.
destroyAllAgents(k) ==
  /\ agentsLock = None
  /\ agents' \in Orders(Started \ OfKind(k))
  /\ activity' = activity \ OfKind(k)
  /\ kindOf' = [a \in Addresses |-> IF a \in OfKind(k) THEN None ELSE kindOf[a]]

\* do_stopAgents; getModule finds modules, by their id.
do_stopAgents(t) ==
  /\ Executing(t, {"agents-stop"})
  /\ LET k == current[t].line.arg IN
       IF k \in agentIds /\ k \in modules
       THEN destroyAllAgents(k)
       ELSE UNCHANGED <<agents, kindOf, activity>>
  /\ Finish(t)
  /\ UNCHANGED <<loopState, requestQueue, locks, todo, modules, sock, input>>

\* do_stepAgents runs a copy of the vector, or the first agent of the class, or one
\* made for this.  It does not take agentsLock.
do_stepAgents(t) ==
  \/ /\ Executing(t, {"agents-step-all"})
     /\ todo' = [todo EXCEPT ![t] = agents]
     /\ Goto(t, "stepping")
     /\ UNCHANGED <<loopState, requestQueue, locks, current, agentState, sock, input, done>>
  \/ /\ Executing(t, {"agents-step"})
     /\ \E i \in DOMAIN agents :
          /\ kindOf[agents[i]] = current[t].line.arg
          /\ \A j \in 1 .. i - 1 : kindOf[agents[j]] # current[t].line.arg
          /\ todo' = [todo EXCEPT ![t] = <<agents[i]>>]
     /\ Goto(t, "stepping")
     /\ UNCHANGED <<loopState, requestQueue, locks, current, agentState, sock, input, done>>
  \/ /\ Executing(t, {"agents-step"})
     /\ OfKind(current[t].line.arg) = {} /\ current[t].line.arg \in agentIds
     /\ \E a \in Free : /\ kindOf' = [kindOf EXCEPT ![a] = current[t].line.arg]
                        /\ todo' = [todo EXCEPT ![t] = <<a>>]
     /\ Goto(t, "temporary")
     /\ UNCHANGED <<loopState, requestQueue, locks, current, agents, activity, modules,
                    sock, input, done>>
  \/ /\ Executing(t, {"agents-step"})
     /\ OfKind(current[t].line.arg) = {} /\ current[t].line.arg \notin agentIds
     /\ Finish(t)
     /\ UNCHANGED <<loopState, requestQueue, locks, todo, agentState, sock, input>>

StepAgent(t) ==
  /\ pc[t] = "stepping"
  /\ IF todo[t] = << >> THEN Finish(t) /\ UNCHANGED todo
     ELSE todo' = [todo EXCEPT ![t] = Tail(@)] /\ UNCHANGED <<pc, current, done>>
  /\ UNCHANGED <<loopState, requestQueue, locks, agentState, sock, input>>

\* destroyAgent, after the temporary agent has run.
destroyAgent(t) ==
  /\ pc[t] = "temporary" /\ agentsLock = None
  /\ kindOf' = [kindOf EXCEPT ![todo[t][1]] = None]
  /\ todo' = [todo EXCEPT ![t] = << >>]
  /\ Finish(t)
  /\ UNCHANGED <<loopState, requestQueue, locks, agents, activity, modules, sock, input>>

loadModule(t) ==
  /\ Executing(t, {"loadmodule"})
  /\ modules' = modules \cup {current[t].line.arg}
  /\ Finish(t)
  /\ UNCHANGED <<loopState, requestQueue, locks, todo, agents, kindOf, activity, sock, input>>

\* unloadModule deletes the module, which unregisters its class of agents.
unloadModule(t) ==
  /\ Executing(t, {"unloadmodule"})
  /\ LET m == current[t].line.arg IN
       IF m \in modules
       THEN destroyAllAgents(Registers[m]) /\ modules' = modules \ {m}
       ELSE UNCHANGED agentState
  /\ Finish(t)
  /\ UNCHANGED <<loopState, requestQueue, locks, todo, sock, input>>

processRequests(t) ==
  \/ LockRequests(t) \/ popRequest(t) \/ UnlockRequests(t)
  \/ Answer(t) \/ do_AgentLoop(t) \/ shellout(t) \/ ExitConnection(t) \/ CallDeletedSocket(t)
  \/ do_startAgents(t) \/ do_stopAgents(t) \/ do_stepAgents(t) \/ StepAgent(t)
  \/ destroyAgent(t) \/ loadModule(t) \/ unloadModule(t)

-----------------------------------------------------------------------------
(* CogServer::serverLoop. *)

\* Mutant: a single request is left in the queue.
LookAtQueueForTwo ==
  /\ pc[Main] = "top"
  /\ Goto(Main, IF Len(requestQueue) > 1 THEN "want" ELSE "cycle")
  /\ UNCHANGED <<loopState, requestQueue, locks, current, todo, agentState, sock, input, done>>
\* runLoopStep looks at the size of the queue without processRequestsLock.
LookAtQueue ==
  /\ pc[Main] = "top"
  /\ Goto(Main, IF requestQueue # << >> THEN "want" ELSE "cycle")
  /\ UNCHANGED <<loopState, requestQueue, locks, current, todo, agentState, sock, input, done>>

NextCycle == cycleCount' = (cycleCount + 1) % CycleBound

SkipAgents ==
  /\ pc[Main] = "cycle" /\ ~agentsRunning
  /\ NextCycle
  /\ Goto(Main, "next")
  /\ UNCHANGED <<running, agentsRunning, requestQueue, locks, current, todo, agentState,
                 sock, input, done>>

ToAgents ==
  /\ pc[Main] = "cycle" /\ agentsRunning
  /\ Goto(Main, "wantAgents")
  /\ UNCHANGED <<loopState, requestQueue, locks, current, todo, agentState, sock, input, done>>

LockAgents ==
  /\ pc[Main] = "wantAgents" /\ agentsLock = None
  /\ agentsLock' = Main
  /\ todo' = [todo EXCEPT ![Main] = agents]
  /\ Goto(Main, "agents")
  /\ UNCHANGED <<loopState, requestQueue, processRequestsLock, current, agentState, sock,
                 input, done>>

Due(a) == cycleCount % Frequency[kindOf[a]] = 0

\* processAgents: an agent whose turn it is runs, and its activity is logged.
ProcessAgent ==
  /\ pc[Main] = "agents" /\ todo[Main] # << >>
  /\ LET a == Head(todo[Main]) IN activity' = IF Due(a) THEN activity \cup {a} ELSE activity
  /\ todo' = [todo EXCEPT ![Main] = Tail(@)]
  /\ UNCHANGED <<loopState, requestQueue, locks, pc, current, agents, kindOf, modules,
                 sock, input, done>>

UnlockAgents ==
  /\ pc[Main] = "agents" /\ todo[Main] = << >>
  /\ agentsLock' = None
  /\ NextCycle
  /\ Goto(Main, "next")
  /\ UNCHANGED <<running, agentsRunning, requestQueue, processRequestsLock, current, todo,
                 agentState, sock, input, done>>

\* The test of the loop; when it ends the process exits.
Loop ==
  /\ pc[Main] = "next"
  /\ Goto(Main, IF running THEN "top" ELSE "exited")
  /\ UNCHANGED <<loopState, requestQueue, locks, current, todo, agentState, sock, input, done>>

serverLoop == LookAtQueue \/ SkipAgents \/ ToAgents \/ LockAgents \/ ProcessAgent
              \/ UnlockAgents \/ Loop \/ processRequests(Main)

SocketThread(c) == ReadLine(c) \/ ReadRawData(c) \/ EndOfInput(c) \/ CheckShell(c)
                   \/ processRequests(c)

Next == /\ Alive
        /\ \/ serverLoop
           \/ \E c \in Clients : SocketThread(c) \/ Accept(c) \/ Send(c) \/ HangUp(c)

\* The operating system runs every thread; a thread that waits for a lock gets it if
\* the lock is free again and again (the server loop sleeps without locks).
Fairness == /\ SF_vars(Alive /\ serverLoop)
            /\ \A c \in Clients : SF_vars(Alive /\ SocketThread(c))

Spec == Init /\ [][Next]_vars
ServerSpec == Spec /\ Fairness

-----------------------------------------------------------------------------
(* Properties. *)

Labels == {"top", "cycle", "wantAgents", "agents", "next", "exited", "crashed", "none",
           "reading", "pushed", "gone", "want", "drain", "execute", "stepping", "temporary"}

\* The variables of CogServer, ConsoleSocket and ServerSocket have their types.
ServerTypeOK ==
  /\ running \in BOOLEAN /\ agentsRunning \in BOOLEAN /\ cycleCount \in 0 .. CycleBound - 1
  /\ requestQueue \in Seq(Requests)
  /\ processRequestsLock \in Threads \cup {None} /\ agentsLock \in Threads \cup {None}
  /\ pc \in [Threads -> Labels]
  /\ current \in [Threads -> Requests \cup {None}]
  /\ todo \in [Threads -> Seq(Addresses)]
  /\ agents \in Seq(Addresses)
  /\ kindOf \in [Addresses -> Kinds \cup {None}]
  /\ activity \subseteq Addresses /\ modules \subseteq Modules
  /\ sock \in [Clients -> [closed : BOOLEAN, line : BOOLEAN, shell : BOOLEAN,
                           request : Nat, buffer : Seq(Lines)]]
  /\ net \in [Clients -> Seq(Lines)] /\ ahead \in [Clients -> Seq(Lines)]
  /\ sent \in [Clients -> Nat] /\ hungUp \subseteq Clients /\ done \in [Clients -> Nat]

\* Labels of processRequests between lock and unlock.
Inside == {"drain", "execute", "stepping", "temporary"}

\* An exception of a request left processRequests with its lock held.
LockLeaked == processRequestsLock # None /\ pc[processRequestsLock] \notin Inside

\* A socket reads the next line only when no request of its client that enters a shell is
\* queued or half done, although the server loop may have taken the request away from the
\* thread that wants to drain it (ConsoleSocket::OnLine; processRequestsLock is what makes
\* the thread wait).
ShellBeforeNextLine ==
  LockLeaked \/ \A r \in Pending : r.line.cmd = "scm" => pc[r.client] # "reading"

\* Requests of a client are executed one at a time in the order of its lines, whichever
\* threads execute them (popRequest and processRequests).
RequestsInOrder ==
  /\ \A t, u \in Threads : current[t] # None /\ current[u] # None => t = u
  /\ \A i \in DOMAIN requestQueue : LET r == requestQueue[i] IN
       /\ done[r.client] < r.line.pos
       /\ \A j \in 1 .. i - 1 : requestQueue[j].client = r.client
                                  => requestQueue[j].line.pos < r.line.pos
       /\ \A t \in Threads : current[t] # None /\ current[t].client = r.client
                               => current[t].line.pos < r.line.pos

\* An agent that is started, or that some thread is running or about to run, exists, and
\* the module with its code is loaded: modules are unloaded and agents destroyed by
\* requests while the server loop runs agents (destroyAllAgents, processAgents and
\* do_stepAgents).
AgentsHaveCode ==
  \A a \in Started \cup UNION {{todo[t][i] : i \in DOMAIN todo[t]} : t \in Threads} :
    kindOf[a] \in agentIds

\* The activity table, which is keyed by the address of the agent, has entries of existing
\* agents only (SystemActivityTable, destroyAllAgents): an entry of a destroyed one would
\* be taken for that of the next agent at the address.
ActivityOfLiveAgents == \A a \in activity : kindOf[a] # None

\* Every request queued is executed, unless the process ends or an exception has left the
\* lock of processRequests locked (serverLoop).
RequestsAreServed ==
  \A c \in Clients : \A p \in 1 .. Len(Script[c]) :
    (\E r \in Pending : r.client = c /\ r.line.pos = p)
      ~> (done[c] >= p \/ ~Alive \/ LockLeaked)

\* A shell request gives its thread back to its socket, however often the server loop has
\* executed the requests before it got the lock, unless the process ends or an exception
\* has left the lock of processRequests locked (ConsoleSocket::OnLine).
ShellReturns ==
  \A c \in Clients : (pc[c] = "want") ~> (pc[c] = "reading" \/ ~Alive \/ LockLeaked)
=============================================================================
