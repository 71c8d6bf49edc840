------------------------------ MODULE Messaging ------------------------------
(***************************************************************************)
(* The messaging system of opencog/embodiment: the Router, one thread of   *)
(* it (RouterServerSocket) for each network element that talks to it, its  *)
(* main loop, and the NetworkElements with the threads (ServerSocket) that *)
(* read what the router sends.  Commands and notifications are not         *)
(* acknowledged (NO_ACK_MESSAGES = true, as embodiment.conf sets it) and   *)
(* an element asks for all its messages (UNREAD_MESSAGES_RETRIEVAL_LIMIT   *)
(* = -1).                                                                  *)
(***************************************************************************)
EXTENDS Integers, FiniteSets, Sequences

CONSTANTS
  Elements,   \* ids of the network elements
  Router,     \* the id of the router
  None,       \* no message
  Started,    \* the elements that have logged in at the start
  Resetting,  \* elements whose queue is emptied by a login (LS_ID, SPAWNER_ID)
  Spawner,    \* SPAWNER_ID
  Proxy,      \* PROXY_ID
  Internal,   \* elements the proxy is not told about
  MaxRequests, \* bound: requests of an element the router has not read yet
  MaxNews,    \* bound: notifications an element has not read when the main
              \* loop of the router goes round again
  Budget      \* bound: how often each of the Events may happen

\* What the environment may do; everything else follows from it.
Events == {"start", "send", "crash", "logout", "clear", "periodic", "routercrash"}

ASSUME IdsAssumption ==
  /\ Started \subseteq Elements /\ Resetting \subseteq Elements
  /\ Internal \subseteq Elements
  /\ Router \notin Elements
ASSUME BudgetAssumption == Budget \in [Events -> Nat] /\ {MaxRequests, MaxNews} \subseteq Nat \ {0}

Kinds == {"data", "control"}
NoSockets == [k \in Kinds |-> "none"]

VARIABLES
  up, unread, inbox, unavailableElements,  \* the elements: running, counter of
                                           \* unread messages, messages read, and
                                           \* whom they think unavailable
  link,      \* an element's socket to the router: "none", "open", or "stale"
             \* when the router it leads to is gone
  locked,    \* socketAccessLock is held by nobody who will release it
  routerUp, hasQueue, queue, unavailableIds,
  toNotifyAvailability, toNotifyUnavailability,
  registered, \* the ids in the router's tables ipAddress and portNumber
  addressed, \* those of them that came with an address
  file,      \* what persistState saved; None if there is no file
  sock,      \* [element -> [kind -> "none", "open" or "stale"]]: a stale socket
             \* leads to a process that is gone
  server,    \* [element -> connections from it, in the order they were made]:
             \* each has commands not read yet (in) and a router thread (pc,
             \* cmd); an open link is the last of them
  loop,      \* [phase, pending]: the router's main loop
  conn,      \* [element -> [kind -> connections made to it, with their unread
             \* items]]; an open socket is the last of them
  sent,      \* messages sent so far
  budget     \* what is left of Budget

clients == <<up, unread, inbox, unavailableElements, link, locked>>
marks == <<unavailableIds, toNotifyAvailability, toNotifyUnavailability>>
queues == <<hasQueue, queue>>
network == <<sock, conn>>
bounds == <<sent, budget>>
table == <<registered, addressed>>
others == <<clients, routerUp, loop, bounds>>  \* what router threads leave alone
vars == <<clients, routerUp, table, queues, marks, file, network, server,
          loop, bounds>>

Spend(k) == budget[k] > 0 /\ budget' = [budget EXCEPT ![k] = @ - 1]

NewConnection == [items |-> << >>, partial |-> None]
Serving(cmds) == [in |-> cmds, pc |-> "idle", cmd |-> None]
Working(c) == IF c.pc = "idle" THEN c.in # << >> ELSE c.pc # "ended"

Init ==
  /\ up = [e \in Elements |-> e \in Started]
  /\ unread = [e \in Elements |-> 0]
  /\ inbox = [e \in Elements |-> << >>]
  /\ unavailableElements = [e \in Elements |-> {}]
  /\ routerUp = TRUE
  /\ registered = Started /\ addressed = Started /\ hasQueue = Started
  /\ queue = [e \in Elements |-> << >>]
  /\ unavailableIds = {}
  /\ toNotifyAvailability = {} /\ toNotifyUnavailability = {}
  /\ file = IF Started = {} THEN None ELSE table
  /\ sock = [e \in Elements |-> NoSockets]
  /\ link = [e \in Elements |-> IF e \in Started THEN "open" ELSE "none"]
  /\ locked = [e \in Elements |-> FALSE]
  /\ server = [e \in Elements |-> IF e \in Started THEN <<Serving(<< >>)>> ELSE << >>]
  /\ loop = [phase |-> "sleep", pending |-> {}]
  /\ conn = [e \in Elements |-> [k \in Kinds |-> << >>]]
  /\ sent = 0
  /\ budget = Budget

-----------------------------------------------------------------------------
(* Sockets from the router to the elements                                 *)

Written(cs, item) == [cs EXCEPT ![Len(cs)].items = Append(@, item)]

(***************************************************************************)
(* controlSocketConnection and dataSocketConnection, first part: the       *)
(* sockets of an element that is marked unavailable are closed.            *)
(***************************************************************************)
Reused(e, k) ==
  IF e \in unavailableIds /\ sock[e][k] # "none" THEN NoSockets ELSE sock[e]

\* A new connection is needed and there is no address or nobody answers.
CannotConnect(e, k) ==
  Reused(e, k)[k] = "none" /\ ~(up[e] /\ e \in addressed)

\* The socket is left from a process that is gone.
IsStale(e, k) == Reused(e, k)[k] = "stale"

(***************************************************************************)
(* The router connects to every element of To and writes the item there.   *)
(* A write to a stale socket is reported as an error for the elements of   *)
(* broken and is lost for the others.  For an element of silent the        *)
(* connection is made and nothing is written.  An attempt to connect looks *)
(* the address up with operator[], which enters the element in the table.  *)
(***************************************************************************)
Failed(To, k, broken) ==
  {e \in To : CannotConnect(e, k) \/ (IsStale(e, k) /\ e \in broken)}

Write(To, k, broken, item, silent) ==
  LET failed == Failed(To, k, broken)
      fresh == {e \in To \ failed : Reused(e, k)[k] = "none"}
      row(e) == IF e \in failed THEN NoSockets
                ELSE IF e \in fresh THEN [Reused(e, k) EXCEPT ![k] = "open"]
                ELSE Reused(e, k)
      line(e) == IF e \in fresh THEN Append(conn[e][k], NewConnection) ELSE conn[e][k]
  IN /\ sock' = [e \in Elements |-> IF e \in To THEN row(e) ELSE sock[e]]
     /\ conn' = [e \in Elements |->
          IF e \in To \ silent /\ row(e)[k] = "open"
          THEN [conn[e] EXCEPT ![k] = Written(line(e), item)]
          ELSE IF e \in fresh THEN [conn[e] EXCEPT ![k] = line(e)]
          ELSE conn[e]]
     /\ registered' = registered \cup {e \in To : Reused(e, k)[k] = "none"}
     /\ UNCHANGED addressed

\* markElementUnavailable for the elements of U, markElementAvailable for A.
Mark(U, A) ==
  /\ unavailableIds' = (unavailableIds \cup U) \ A
  /\ toNotifyUnavailability' = toNotifyUnavailability \cup U
  /\ toNotifyAvailability' = toNotifyAvailability \cup (A \cap unavailableIds)

-----------------------------------------------------------------------------
(* RouterServerSocket: the router's thread for the connection of element e *)

\* Thread i of element e goes on at pc; a thread that was idle has read its
\* next command.
Become(e, i, pc, cmd) ==
  LET t == server[e][i]
      next == [in |-> IF t.pc = "idle" THEN Tail(t.in) ELSE t.in, pc |-> pc, cmd |-> cmd]
  IN server' = [server EXCEPT ![e][i] = next]
Done(e, i) == Become(e, i, "idle", None)

\* The thread is idle and OnLine reads a command op.
Reads(e, i, op) ==
  /\ server[e][i].pc = "idle" /\ server[e][i].in # << >>
  /\ Head(server[e][i].in).op = op

At(e, i, pc) == server[e][i].pc = pc
Command(e, i) == IF server[e][i].pc = "idle" THEN Head(server[e][i].in) ELSE server[e][i].cmd

\* Router::knownID for the elements of S: the unknown ones get a queue.
Queued(S) == hasQueue \cup (S \ registered)

\* Mutant: the queue is a stack.
PushOnTop(m) ==
  queue' = IF m.to \in hasQueue THEN [queue EXCEPT ![m.to] = <<m>> \o @] ELSE queue

\* MemoryMessageCentral::push
Push(m) ==
  queue' = IF m.to \in hasQueue THEN [queue EXCEPT ![m.to] = Append(@, m)] ELSE queue

\* Router::notifyMessageArrival
NotifyMessageArrival(e, n) ==
  IF e \in unavailableIds
  THEN UNCHANGED <<network, table, marks>>
  ELSE \E broken \in SUBSET {e} :
         /\ Write({e}, "data", broken, [type |-> "NOTIFY", n |-> n], {})
         /\ Mark(Failed({e}, "data", broken), {})

\* LOGIN, Router::addNetworkElement: the table is changed, and persistState
\* removes the file ...
Login(e, i) ==
  /\ Reads(e, i, "LOGIN")
  /\ registered' = registered \cup {e} /\ addressed' = addressed \cup {e}
  /\ file' = None
  /\ Become(e, i, "joining", None)
  /\ UNCHANGED <<others, queues, marks, network>>

\* ... to write it anew (a failure before that: CutShort), here and in LOGOUT ...
PersistState(e, i) ==
  /\ At(e, i, "joining") \/ At(e, i, "leaving")
  /\ file' = table
  /\ IF At(e, i, "joining") THEN Become(e, i, "login", None) ELSE Done(e, i)
  /\ UNCHANGED <<others, table, queues, marks, network>>

\* ... then the queue is looked at and the element marked available ...
LoginQueue(e, i) ==
  /\ At(e, i, "login")
  /\ hasQueue' = hasQueue \cup {e}
  /\ queue' = IF e \in Resetting THEN [queue EXCEPT ![e] = << >>] ELSE queue
  /\ Mark({}, {e})
  /\ IF queue'[e] # << >> THEN Become(e, i, "pending", None) ELSE Done(e, i)
  /\ UNCHANGED <<others, table, file, network>>

\* ... and it is told how many messages wait for it.
LoginNotify(e, i) ==
  /\ At(e, i, "pending")
  /\ NotifyMessageArrival(e, Len(queue[e]))
  /\ Done(e, i)
  /\ UNCHANGED <<others, queues, file>>

\* LOGOUT, Router::removeNetworkElement
Logout(e, i) ==
  /\ Reads(e, i, "LOGOUT")
  /\ registered' = registered \ {e} /\ addressed' = addressed \ {e}
  /\ hasQueue' = hasQueue \ {e}
  /\ queue' = [queue EXCEPT ![e] = << >>]
  /\ sock' = [sock EXCEPT ![e] = NoSockets]
  /\ file' = None
  /\ Become(e, i, "leaving", None)
  /\ UNCHANGED <<others, marks, conn>>

\* CLEAR_MESSAGE_QUEUE, which only the spawner may ask for.
ClearMessageQueue(e, i) ==
  /\ Reads(e, i, "CLEAR")
  /\ queue' = IF e = Spawner THEN [queue EXCEPT ![Command(e, i).target] = << >>] ELSE queue
  /\ Done(e, i)
  /\ UNCHANGED <<others, table, hasQueue, marks, file, network>>

\* NEW_MESSAGE, storeNewMessage: what is known of sender and target decides.
NewMessage(e, i) ==
  LET cmd == Command(e, i) IN
  /\ Reads(e, i, "NEW")
  /\ hasQueue' = Queued({cmd.msg.from, cmd.msg.to})
  /\ IF cmd.msg.from \notin registered THEN Done(e, i)
     ELSE IF cmd.msg.to \notin registered THEN Become(e, i, "park", cmd)
     ELSE IF cmd.msg.to \in unavailableIds THEN Done(e, i)
     ELSE Become(e, i, "push", cmd)
  /\ UNCHANGED <<others, table, queue, marks, file, network>>

\* A message for an unknown element waits for its login.
ParkMessage(e, i) ==
  /\ At(e, i, "park")
  /\ Mark({Command(e, i).msg.to}, {})
  /\ Push(Command(e, i).msg)
  /\ Done(e, i)
  /\ UNCHANGED <<others, table, hasQueue, file, network>>

PushMessage(e, i) ==
  /\ At(e, i, "push")
  /\ Push(Command(e, i).msg)
  /\ Become(e, i, "notify", Command(e, i))
  /\ UNCHANGED <<others, table, hasQueue, marks, file, network>>

NotifyTarget(e, i) ==
  /\ At(e, i, "notify")
  /\ NotifyMessageArrival(Command(e, i).msg.to, 1)
  /\ Done(e, i)
  /\ UNCHANGED <<others, queues, file>>

\* REQUEST_UNREAD_MESSAGES, sendRequestedMessages up to its loop.
RequestUnreadMessages(e, i) ==
  /\ Reads(e, i, "REQUEST")
  /\ hasQueue' = Queued({e})
  /\ IF e \notin registered \/ queue[e] = << >>
     THEN Done(e, i) /\ UNCHANGED <<network, table, marks>>
     ELSE /\ Write({e}, "data", {}, None, {e})
          /\ Mark(Failed({e}, "data", {}), {})
          /\ IF CannotConnect(e, "data") THEN Done(e, i)
             ELSE Become(e, i, "deliver", None)
  /\ UNCHANGED <<others, queue, file>>

\* The loop goes round while isQueueEmpty says no ...
MoreMessages(e, i) ==
  /\ At(e, i, "deliver")
  /\ queue[e] # << >>
  /\ Become(e, i, "pop", None)
  /\ UNCHANGED <<others, table, queues, marks, file, network>>

\* (asio::write without an error code throws: what was taken from the queue is
\* gone.  handle_connection catches it and ends the thread, because
\* isListenerThreadStopped is true as long as the listener runs.)
WriteThrows(e, i) ==
  sock[e]["data"] # "open" /\ Become(e, i, "ended", None) /\ UNCHANGED network

\* (A write the thread believes done is lost unless the socket is open.)
WriteReturns(e, item) ==
  /\ UNCHANGED sock
  /\ conn' = IF sock[e]["data"] = "open"
             THEN [conn EXCEPT ![e]["data"] = Written(@, item)] ELSE conn

\* Mutant: the message is put back to the queue after the write.
DeliverMessagePutBack(e, i) ==
  /\ At(e, i, "pop")
  /\ queue[e] # << >>
  /\ queue' = [queue EXCEPT ![e] = Append(Tail(@), Head(@))]
  /\ \/ WriteThrows(e, i)
     \/ /\ WriteReturns(e, [type |-> "MESSAGE", msg |-> Head(queue[e])])
        /\ Become(e, i, "deliver", None)
  /\ UNCHANGED <<others, table, hasQueue, marks, file>>

\* ... one message is taken from the queue and written ...
DeliverMessage(e, i) ==
  /\ At(e, i, "pop")
  /\ queue[e] # << >>
  /\ queue' = [queue EXCEPT ![e] = Tail(@)]
  /\ \/ WriteThrows(e, i)
     \/ /\ WriteReturns(e, [type |-> "MESSAGE", msg |-> Head(queue[e])])
        /\ Become(e, i, "deliver", None)
  /\ UNCHANGED <<others, table, hasQueue, marks, file>>

\* ... and the end is marked.
NoMoreMessages(e, i) ==
  /\ At(e, i, "deliver")
  /\ queue[e] = << >>
  /\ \/ WriteThrows(e, i)
     \/ WriteReturns(e, [type |-> "END"]) /\ Done(e, i)
  /\ UNCHANGED <<others, table, queues, marks, file>>

RouterThread(e) ==
  \E i \in DOMAIN server[e] :
    \/ Login(e, i) \/ LoginQueue(e, i) \/ LoginNotify(e, i) \/ Logout(e, i)
    \/ PersistState(e, i) \/ ClearMessageQueue(e, i)
    \/ NewMessage(e, i) \/ ParkMessage(e, i) \/ PushMessage(e, i) \/ NotifyTarget(e, i)
    \/ RequestUnreadMessages(e, i) \/ MoreMessages(e, i) \/ DeliverMessage(e, i)
    \/ NoMoreMessages(e, i)

-----------------------------------------------------------------------------
(* Router::run: the main loop                                              *)

\* Router::notifyElementAvailability: all other elements are told, those
\* marked unavailable only about the router itself.
NotifyElementAvailability(id, type) ==
  LET To == {e \in registered : e # id /\ (e \notin unavailableIds \/ id = Router)}
      filtered == {e \in {Proxy} : id \in Internal}
  IN \E broken \in SUBSET {e \in To : IsStale(e, "control") /\ e \notin filtered} :
       LET failed == Failed(To, "control", broken) IN
       /\ Write(To, "control", broken, [type |-> type, id |-> id], filtered)
       /\ Mark(failed, To \ (failed \cup filtered))

\* The periodic notification that the router is there.
NotifyRouterAvailable ==
  /\ routerUp /\ loop.phase = "sleep"
  /\ Spend("periodic")
  /\ NotifyElementAvailability(Router, "AVAILABLE")
  /\ UNCHANGED <<clients, routerUp, queues, file, server, loop, sent>>

\* Elements keep up with the router's main loop.
NewsIsRead ==
  \A e \in Elements : \A i \in DOMAIN conn[e]["control"] :
    Len(conn[e]["control"][i].items) < MaxNews

\* Mutant: both sets are cleared after the first is copied.
TakeAvailableClearsBoth ==
  /\ routerUp /\ loop.phase = "sleep" /\ NewsIsRead
  /\ toNotifyAvailability \cup toNotifyUnavailability # {}
  /\ loop' = [phase |-> "available", pending |-> toNotifyAvailability]
  /\ toNotifyAvailability' = {} /\ toNotifyUnavailability' = {}
  /\ UNCHANGED <<clients, routerUp, table, queues, unavailableIds, file,
                 network, server, bounds>>

\* The sets are copied and cleared, first the one of the available elements.
TakeAvailable ==
  /\ routerUp /\ loop.phase = "sleep" /\ NewsIsRead
  /\ toNotifyAvailability \cup toNotifyUnavailability # {}
  /\ loop' = [phase |-> "available", pending |-> toNotifyAvailability]
  /\ toNotifyAvailability' = {}
  /\ UNCHANGED <<clients, routerUp, table, queues, unavailableIds,
                 toNotifyUnavailability, file, network, server, bounds>>

TakeUnavailable ==
  /\ routerUp /\ loop.phase = "available" /\ loop.pending = {}
  /\ loop' = [phase |-> "unavailable", pending |-> toNotifyUnavailability]
  /\ toNotifyUnavailability' = {}
  /\ UNCHANGED <<clients, routerUp, table, queues, unavailableIds,
                 toNotifyAvailability, file, network, server, bounds>>

NotifyPending ==
  \E id \in loop.pending :
    /\ routerUp
    /\ loop' = [loop EXCEPT !.pending = @ \ {id}]
    /\ NotifyElementAvailability(id,
         IF loop.phase = "available" THEN "AVAILABLE" ELSE "UNAVAILABLE")
    /\ UNCHANGED <<clients, routerUp, queues, file, server, bounds>>

Sleep ==
  /\ routerUp /\ loop.phase = "unavailable" /\ loop.pending = {}
  /\ loop' = [phase |-> "sleep", pending |-> {}]
  /\ UNCHANGED <<clients, routerUp, table, queues, marks, file, network,
                 server, bounds>>

RouterLoop == TakeAvailable \/ TakeUnavailable \/ NotifyPending \/ Sleep

-----------------------------------------------------------------------------
(* The router fails and starts again                                       *)

\* A thread was writing the file: it holds the lines written so far.
CutShort ==
  /\ \E e \in Elements : \E i \in DOMAIN server[e] : At(e, i, "joining") \/ At(e, i, "leaving")
  /\ \E lines \in SUBSET registered : file' = <<lines, lines \cap addressed>>

\* What dies with the process; elements can still read what had been written.
RouterFails ==
  /\ file' = file \/ CutShort
  /\ routerUp' = FALSE
  /\ registered' = {} /\ addressed' = {} /\ hasQueue' = {} /\ queue' = [e \in Elements |-> << >>]
  /\ unavailableIds' = {} /\ toNotifyAvailability' = {} /\ toNotifyUnavailability' = {}
  /\ sock' = [e \in Elements |-> NoSockets]
  /\ server' = [e \in Elements |-> << >>]
  /\ link' = [e \in Elements |-> IF link[e] = "open" THEN "stale" ELSE link[e]]
  /\ loop' = [phase |-> "sleep", pending |-> {}]
  /\ UNCHANGED <<up, unread, inbox, unavailableElements, locked, conn, sent>>

RouterCrash == routerUp /\ Spend("routercrash") /\ RouterFails

\* The queue got empty after isQueueEmpty looked at it: pop returns NULL, and
\* the thread uses it.
PopNull(e) ==
  /\ \E i \in DOMAIN server[e] : At(e, i, "pop") /\ queue[e] = << >>
  /\ RouterFails
  /\ UNCHANGED budget

\* Router::run up to its loop: the table comes from the file, if there is one,
\* which is removed; nobody in it is taken to be available.
RouterStart ==
  /\ ~routerUp
  /\ routerUp' = TRUE
  /\ registered' = IF file = None THEN {} ELSE file[1]
  /\ addressed' = IF file = None THEN {} ELSE file[2]
  /\ unavailableIds' = registered'
  /\ loop' = [phase |-> IF file = None THEN "sleep" ELSE "recovered", pending |-> {}]
  /\ file' = None
  /\ UNCHANGED <<clients, queues, toNotifyAvailability, toNotifyUnavailability,
                 network, server, bounds>>

\* The elements in it are asked for a new handshake.
NotifyRecovery ==
  /\ routerUp /\ loop.phase = "recovered"
  /\ NotifyElementAvailability(Router, "UNAVAILABLE")
  /\ loop' = [loop EXCEPT !.phase = "sleep"]
  /\ UNCHANGED <<clients, routerUp, queues, file, server, bounds>>

-----------------------------------------------------------------------------
(* NetworkElement: talking to the router                                   *)

\* sendMessageToRouter over the link l (the element's, or "none" if that was
\* closed just before): the command arrives ...
Arrives(e, cmd, l) ==
  /\ \/ /\ l = "open"
        /\ server' = [server EXCEPT ![e][Len(server[e])].in = Append(@, cmd)]
     \/ /\ l = "none" /\ routerUp
        /\ server' = [server EXCEPT ![e] = Append(@, Serving(<<cmd>>))]
  /\ link' = [link EXCEPT ![e] = "open"]
  /\ UNCHANGED locked

\* ... or it is written to a router that is gone, which nobody notices ...
Vanishes(e, l) == l = "stale" /\ UNCHANGED <<server, link, locked>>

\* ... or the write fails, and the function returns with the lock held ...
WriteFails(e, l) ==
  /\ l = "stale"
  /\ locked' = [locked EXCEPT ![e] = TRUE]
  /\ UNCHANGED <<server, link>>

\* ... or there is no router to connect to, and the socket stays closed.
ConnectFails(e, l) ==
  /\ l = "none" /\ ~routerUp
  /\ link' = [link EXCEPT ![e] = "none"]
  /\ UNCHANGED <<server, locked>>

Believes(e, unavailable, n) ==
  /\ unavailableElements' = [unavailableElements EXCEPT ![e] = unavailable]
  /\ unread' = [unread EXCEPT ![e] = n]

\* sendCommandToRouter by an element that thinks the elements of U unavailable:
\* after a failure it adds the router, and its counter is reset.
sendCommandToRouter(e, cmd, l, U) ==
  /\ ~locked[e]
  /\ \/ (Arrives(e, cmd, l) \/ Vanishes(e, l)) /\ Believes(e, U, unread[e])
     \/ (WriteFails(e, l) \/ ConnectFails(e, l)) /\ Believes(e, U \cup {Router}, 0)

routerVars == <<routerUp, table, queues, marks, file, loop>>

\* NetworkElement::initialize: a process starts and shakes hands.
Start(e) ==
  /\ ~up[e]
  /\ Spend("start")
  /\ up' = [up EXCEPT ![e] = TRUE]
  /\ sendCommandToRouter(e, [op |-> "LOGIN"], link[e], {})
  /\ UNCHANGED <<inbox, routerVars, network, sent>>

\* The process is gone, with its sockets and all it had not read; the router
\* does not notice.
Crash(e) ==
  /\ up[e]
  /\ Spend("crash")
  /\ up' = [up EXCEPT ![e] = FALSE]
  /\ unread' = [unread EXCEPT ![e] = 0]
  /\ inbox' = [inbox EXCEPT ![e] = << >>]
  /\ unavailableElements' = [unavailableElements EXCEPT ![e] = {}]
  /\ link' = [link EXCEPT ![e] = "none"]
  /\ locked' = [locked EXCEPT ![e] = FALSE]
  /\ sock' = [sock EXCEPT ![e] = [k \in Kinds |-> IF @[k] = "open" THEN "stale" ELSE @[k]]]
  /\ conn' = [conn EXCEPT ![e] = [k \in Kinds |-> << >>]]
  /\ UNCHANGED <<routerVars, server, sent>>

\* sendMessage; a failed write is not taken as a sign that the router is gone.
sendMessage(e, to) ==
  LET cmd == [op |-> "NEW", msg |-> [from |-> e, to |-> to, n |-> sent]] IN
  /\ up[e] /\ ~locked[e]
  /\ Spend("send")
  /\ sent' = sent + 1
  /\ \/ /\ Arrives(e, cmd, link[e]) \/ Vanishes(e, link[e]) \/ WriteFails(e, link[e])
        /\ Believes(e, unavailableElements[e], unread[e])
     \/ /\ ConnectFails(e, link[e])
        /\ Believes(e, unavailableElements[e] \cup {Router}, 0)
  /\ UNCHANGED <<up, inbox, routerVars, network>>

Requests(e) ==
  Cardinality(UNION {{<<i, j>> : j \in {j \in DOMAIN server[e][i].in : server[e][i].in[j].op = "REQUEST"}} :
                     i \in DOMAIN server[e]})

\* retrieveMessages, called once in every cycle of the main loop.
retrieveMessages(e) ==
  /\ up[e] /\ unread[e] > 0
  /\ Requests(e) < MaxRequests
  /\ sendCommandToRouter(e, [op |-> "REQUEST"], link[e], unavailableElements[e])
  /\ UNCHANGED <<up, inbox, routerVars, network, bounds>>

\* logoutFromRouter
logoutFromRouter(e) ==
  /\ up[e]
  /\ Spend("logout")
  /\ sendCommandToRouter(e, [op |-> "LOGOUT"], link[e], unavailableElements[e])
  /\ UNCHANGED <<up, inbox, routerVars, network, sent>>

\* The spawner has the queue of an element emptied before it tells it to exit.
ClearQueue(target) ==
  /\ Spawner \in Elements \ {target} /\ up[Spawner]
  /\ Spend("clear")
  /\ sendCommandToRouter(Spawner, [op |-> "CLEAR", target |-> target], link[Spawner],
                         unavailableElements[Spawner])
  /\ UNCHANGED <<up, inbox, routerVars, network, sent>>

-----------------------------------------------------------------------------
(* ServerSocket: one thread of the element for each connection from the    *)
(* router                                                                  *)

\* Thread i takes the next item of its connection; partial is the message it
\* goes on to collect.
Takes(e, k, i, partial) ==
  /\ UNCHANGED sock
  /\ conn' = [conn EXCEPT ![e][k][i] = [items |-> Tail(@.items), partial |-> partial]]

\* newMessageRead for the message collected so far, if there is one.
newMessageRead(e, msg) ==
  /\ inbox' = IF msg = None THEN inbox ELSE [inbox EXCEPT ![e] = Append(@, msg)]
  /\ unread' = IF msg = None THEN unread ELSE [unread EXCEPT ![e] = @ - 1]

\* Mutant: the counter is set to the number received.
newMessageInRouterSets(e, i, item) ==
  /\ item.type = "NOTIFY"
  /\ unread' = [unread EXCEPT ![e] = item.n]
  /\ Takes(e, "data", i, conn[e]["data"][i].partial)
  /\ UNCHANGED inbox

\* NOTIFY_NEW_MESSAGE
newMessageInRouter(e, i, item) ==
  /\ item.type = "NOTIFY"
  /\ unread' = [unread EXCEPT ![e] = @ + item.n]
  /\ Takes(e, "data", i, conn[e]["data"][i].partial)
  /\ UNCHANGED inbox

\* START_MESSAGE and the lines of the message complete the one before.
StartMessage(e, i, item) ==
  /\ item.type = "MESSAGE"
  /\ newMessageRead(e, conn[e]["data"][i].partial)
  /\ Takes(e, "data", i, item.msg)

\* Mutant: the last message is not delivered.
EndOfMessagesDrops(e, i, item) ==
  /\ item.type = "END"
  /\ Takes(e, "data", i, None)
  /\ UNCHANGED <<inbox, unread>>

\* NO_MORE_MESSAGES
EndOfMessages(e, i, item) ==
  /\ item.type = "END"
  /\ newMessageRead(e, conn[e]["data"][i].partial)
  /\ Takes(e, "data", i, None)

ReadData(e) ==
  /\ up[e]
  /\ \E i \in DOMAIN conn[e]["data"] :
       /\ conn[e]["data"][i].items # << >>
       /\ LET item == Head(conn[e]["data"][i].items) IN
          newMessageInRouter(e, i, item) \/ StartMessage(e, i, item) \/ EndOfMessages(e, i, item)
  /\ UNCHANGED <<up, unavailableElements, link, locked, routerVars, server, bounds>>

\* AVAILABLE_ELEMENT and UNAVAILABLE_ELEMENT for another element.
OtherElement(e, item) ==
  /\ item.id # Router
  /\ unavailableElements' = [unavailableElements EXCEPT ![e] =
       IF item.type = "AVAILABLE" THEN @ \ {item.id} ELSE @ \cup {item.id}]
  /\ UNCHANGED <<unread, link, locked, server>>

\* AVAILABLE_ELEMENT for the router, which says nothing new.
RouterStillThere(e, item) ==
  /\ item.id = Router /\ item.type = "AVAILABLE" /\ Router \notin unavailableElements[e]
  /\ UNCHANGED <<unread, unavailableElements, link, locked, server>>

\* The router is back after being unreachable: markAsAvailableElement.
RouterAvailable(e, item) ==
  /\ item.id = Router /\ item.type = "AVAILABLE" /\ Router \in unavailableElements[e]
  /\ sendCommandToRouter(e, [op |-> "LOGIN"], link[e], unavailableElements[e] \ {Router})

\* Mutant: the old connection is used again.
RouterRecoveredOldLink(e, item) ==
  /\ item.id = Router /\ item.type = "UNAVAILABLE"
  /\ sendCommandToRouter(e, [op |-> "LOGIN"], link[e], unavailableElements[e])

\* UNAVAILABLE_ELEMENT for the router asks for a handshake on a new connection.
RouterRecovered(e, item) ==
  /\ item.id = Router /\ item.type = "UNAVAILABLE"
  /\ sendCommandToRouter(e, [op |-> "LOGIN"], "none", unavailableElements[e])

ReadControl(e) ==
  /\ up[e]
  /\ \E i \in DOMAIN conn[e]["control"] :
       /\ conn[e]["control"][i].items # << >>
       /\ LET item == Head(conn[e]["control"][i].items) IN
          \/ OtherElement(e, item) \/ RouterStillThere(e, item)
          \/ RouterAvailable(e, item) \/ RouterRecovered(e, item)
       /\ Takes(e, "control", i, None)
  /\ UNCHANGED <<up, inbox, routerVars, bounds>>

-----------------------------------------------------------------------------
Environment ==
  \/ \E e \in Elements :
       \/ Start(e) \/ Crash(e) \/ logoutFromRouter(e) \/ ClearQueue(e)
       \/ \E to \in Elements \ {e} : sendMessage(e, to)
  \/ NotifyRouterAvailable \/ RouterCrash

Next ==
  \/ Environment
  \/ \E e \in Elements :
       RouterThread(e) \/ PopNull(e) \/ retrieveMessages(e) \/ ReadData(e) \/ ReadControl(e)
  \/ RouterLoop \/ RouterStart \/ NotifyRecovery

(***************************************************************************)
(* Threads that can go on do so; the environment owes nothing.  A router   *)
(* that failed is started again by hand.                                   *)
(***************************************************************************)
Fairness ==
  /\ \A e \in Elements :
       /\ WF_vars(RouterThread(e)) /\ WF_vars(retrieveMessages(e))
       /\ WF_vars(ReadData(e)) /\ WF_vars(ReadControl(e))
  /\ WF_vars(RouterLoop) /\ WF_vars(RouterStart) /\ WF_vars(NotifyRecovery)

MessagingSpec == Init /\ [][Next]_vars /\ Fairness

-----------------------------------------------------------------------------
(* Properties                                                              *)

Messages == [from : Elements, to : Elements, n : 0..Budget["send"] - 1]

\* The type invariant, with what ties sockets, connections and queues to the
\* processes that hold them.
MessagingTypeOK ==
  /\ up \in [Elements -> BOOLEAN] /\ locked \in [Elements -> BOOLEAN]
  /\ link \in [Elements -> {"none", "open", "stale"}]
  /\ unread \in [Elements -> Int]
  /\ \A e \in Elements : \A j \in DOMAIN inbox[e] : inbox[e][j] \in Messages
  /\ addressed \subseteq registered /\ registered \subseteq Elements
  /\ hasQueue \subseteq Elements
  /\ unavailableIds \subseteq Elements
  /\ \A e \in Elements : link[e] = "open" => server[e] # << >>
  /\ \A e \in Elements, k \in Kinds : sock[e][k] = "open" => up[e] /\ conn[e][k] # << >>
  /\ \A e \in Elements : queue[e] # << >> => e \in hasQueue
  /\ ~routerUp => \A e \in Elements : server[e] = << >> /\ sock[e] = NoSockets

\* The places where messages are, with element e: on the way from it to the
\* router, with one of its threads in the router, in its queue, on the way to it
\* from the router, being collected by one of its own threads, and read.
ComingFrom(e) ==
  UNION {{<<"coming", e, i, j>> :
            j \in {j \in DOMAIN server[e][i].in : server[e][i].in[j].op = "NEW"}} :
         i \in DOMAIN server[e]}
HandledFor(e) ==
  {<<"handled", e, i, 0>> :
     i \in {i \in DOMAIN server[e] : server[e][i].pc \in {"park", "push"}}}
QueuedFor(e) == {<<"queued", e, 0, j>> : j \in DOMAIN queue[e]}
GoingTo(e) ==
  UNION {{<<"going", e, i, j>> :
            j \in {j \in DOMAIN conn[e]["data"][i].items :
                    conn[e]["data"][i].items[j].type = "MESSAGE"}} :
         i \in DOMAIN conn[e]["data"]}
CollectedBy(e) ==
  {<<"partial", e, i, 0>> :
     i \in {i \in DOMAIN conn[e]["data"] : conn[e]["data"][i].partial # None}}
ReadBy(e) == {<<"read", e, 0, j>> : j \in DOMAIN inbox[e]}
Places(e) ==
  ComingFrom(e) \cup HandledFor(e) \cup QueuedFor(e) \cup GoingTo(e) \cup CollectedBy(e) \cup ReadBy(e)

MessageAt(p) ==
  LET e == p[2]  i == p[3]  j == p[4] IN
  CASE p[1] = "coming" -> server[e][i].in[j].msg
    [] p[1] = "handled" -> server[e][i].cmd.msg
    [] p[1] = "queued" -> queue[e][j]
    [] p[1] = "going" -> conn[e]["data"][i].items[j].msg
    [] p[1] = "partial" -> conn[e]["data"][i].partial
    [] p[1] = "read" -> inbox[e][j]

\* A message is never delivered twice, nor can it be any more: not when
\* processes fail and come back, and not when two connections or two router
\* threads serve the same element (RouterServerSocket::sendRequestedMessages,
\* ServerSocket::OnLine).
NeverTwice ==
  \A p, q \in UNION {Places(e) : e \in Elements} :
    MessageAt(p).n = MessageAt(q).n => p = q

\* The messages one element sends to another are read in the order they were
\* sent (one thread and one queue between them).
InOrder ==
  \A e \in Elements : \A i, j \in DOMAIN inbox[e] :
    i < j /\ inbox[e][i].from = inbox[e][j].from => inbox[e][i].n < inbox[e][j].n

\* The messages that wait for e in the router or on the way from it ...
Waiting(e) == QueuedFor(e) \cup GoingTo(e) \cup CollectedBy(e)

\* ... and those announced to e, one by one, by a notification that is not
\* read, or not yet written.
NotYetRead(e) ==
  UNION {UNION {{<<"item", i, j, x>> : x \in 1..conn[e]["data"][i].items[j].n} :
                j \in {j \in DOMAIN conn[e]["data"][i].items :
                        conn[e]["data"][i].items[j].type = "NOTIFY"}} :
         i \in DOMAIN conn[e]["data"]}
NotYetWritten(e) ==
  UNION {{<<"thread", f, i, 0>> :
            i \in {i \in DOMAIN server[f] :
                    server[f][i].pc = "notify" /\ server[f][i].cmd.msg.to = e}} :
         f \in Elements}
Announced(e) == NotYetRead(e) \cup NotYetWritten(e)

\* As long as nothing fails, numberOfUnreadMessages and the notifications not
\* read yet count exactly the messages that wait, although a message can
\* overtake its own notification and the counter can be negative.
CountersAreExact ==
  \A e \in Elements : unread[e] + Cardinality(Announced(e)) = Cardinality(Waiting(e))

\* As long as nothing fails, every message that is sent is read.
EveryMessageIsRead ==
  \A n \in 0..Budget["send"] - 1 :
    sent > n ~> \E e \in Elements : \E j \in DOMAIN inbox[e] : inbox[e][j].n = n

\* All threads rest and nothing is on its way.
Quiet ==
  /\ routerUp /\ loop.phase = "sleep"
  /\ toNotifyAvailability = {} /\ toNotifyUnavailability = {}
  /\ \A e \in Elements : \A i \in DOMAIN server[e] : ~Working(server[e][i])
  /\ \A e \in Elements, k \in Kinds : \A i \in DOMAIN conn[e][k] : conn[e][k][i].items = << >>

Told(e, id) ==
  up[e] /\ e \in registered \ unavailableIds /\ e # id /\ ~(e = Proxy /\ id \in Internal)

\* Once an element is known to be unavailable and all is quiet, every element
\* that can be told has been told (markElementUnavailable and the main loop),
\* although others may fail while the news spreads.
UnavailabilitySpreads ==
  Quiet => \A id \in unavailableIds, e \in Elements :
             Told(e, id) => id \in unavailableElements[e]

\* Once all is quiet, an element thinks that messages wait for it in the router
\* exactly when some do (NetworkElement::haveUnreadMessage).
HaveUnreadMessageIsRight ==
  Quiet => \A e \in registered : up[e] => (unread[e] > 0 <=> queue[e] # << >>)

\* A router that is up and has no line about element e: the file it started from
\* was lost, which takes a failure before the elements have logged in again
\* (Router::run removes the file it has read, persistState the one it replaces).
Forgotten(e) == routerUp /\ e \notin registered

\* However often the router fails, an element whose router is gone leaves the old
\* connection when a router that remembers it asks for a new handshake
\* (recoveryFromPersistedData), unless its socketAccessLock was left locked.
ReconnectsUnlessLocked ==
  \A e \in Elements : link[e] = "stale" ~> link[e] # "stale" \/ locked[e] \/ Forgotten(e)
=============================================================================
