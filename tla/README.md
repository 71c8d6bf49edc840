# A verification development for OpenCog

OpenCog (`src/opencog`) is a framework for AI systems: a graph database in
memory (the AtomSpace), a server that runs agents over it (the CogServer), and
around them learning, reasoning, language and *embodiment*, the control of
virtual pets by several processes that talk through a router. This directory
holds TLA+ models of the parts of it that have state and a protocol: the
AtomSpace, the CogServer, the messaging system, the spawner of pet processes,
the dialogue between pets and the learning server, and the execution of
procedures by a pet. TLC configurations check them on small instances; TLAPS
proofs hold for all instances.

## 1. Inventory

| component | state | operations | talks to | hard behaviour |
|---|---|---|---|---|
| **AtomTable, TLB** (`atomspace/AtomTable.cc`, `TLB.h`, `Atom.cc`, `Link.cc`, the indexes) | atoms by handle, incoming sets, node/link/type/importance indexes, hash set, size | add, extract/remove (recursive or not), setAttentionValue, decayShortTermImportance, destructor | signals to agents, called by AtomSpace | additions that throw half-way; links on links and repeated targets under recursive removal; bins shifted in place |
| **AtomSpace** (`AtomSpace.cc`) | pools of STI and LTI | addNode, addLink, removeAtom, setAV for atoms and agents, decay, clear | AtomTable, backing store, agents | currency moved by hand next to the values; clear over handles it makes invalid |
| **CogServer** (`server/CogServer.cc`, `BuiltinRequestsModule.cc`, `SystemActivityTable.cc`, the requests) | request queue, agents, modules, activity table, cycle, two locks | push, pop and process requests; start, stop, step, destroy and run agents; load and unload modules | console sockets, AtomSpace | requests executed by the loop and by socket threads; locks; exceptions with a lock held |
| **Console sockets** (`server/ConsoleSocket.cc`, `ServerSocket.cc`) | protocol mode, shell, current request, data buffer, streambuf | accept, OnLine, OnRawData, Exit, hang-up | one thread per connection; CogServer | a request used after it was queued; sockets that die before their requests; reading ahead |
| **Router** (`embodiment/Control/MessagingSystem/Router*.cc`, `MemoryMessageCentral.cc`) | table of elements, message queues, unavailable elements, pending news, sockets, recovery file | login, logout, new message, request, clear queue, main loop, recovery | one thread per connection; notifications to elements | threads against each other and the main loop; stale sockets; restart |
| **NetworkElement** (`NetworkElement.cc`, `ServerSocket.cc`) | unread counter, incoming queue, socket and its lock, elements believed unavailable | handshake, sendMessage, retrieveMessages, reader threads | Router | notifications and messages out of order; failures of the router; a lock |
| **Spawner** (`Spawner.cc`) | port of each agent, agent of each port | LOAD_AGENT, UNLOAD_AGENT | Router, OPC processes | ports given back while the old process listens; messages that outlive their addressee |
| **Learning** (`Learning/LearningServer/LS.cc`, `ImitationLearningAgent.cc`; `OPC.cc`, `Pet.cc`) | mode and tricks of each pet; busy, pet, trick and algorithm of the server | startLearning, exemplars, trySchema, reward, stopLearning, unload; the server's handlers | messages through the Router | one server, no timeout, messages ignored without an answer |
| **Procedures** (`Control/Procedure/*`, `SchemaRunner.cc`, `RuleEngine.cc`, `PAI.cc`, `PAIWorldWrapper.cc`) | running procedures with iterator, loop stack and failure; results; plans in progress, pending, failed; the executing schema and its timeout | the cycle of the interpreters, every control operator, plans and their answers, timeouts | the virtual world, the combo shell | answers late or never; one wrapper for all procedures; failure kept as a tri-state |
| attention agents (`dynamics/attention`) | none of their own | wages and rent, spreading, forgetting | AtomSpace | rounding, budgets |
| persistence (`persist/`) | SQL or file | fetch, store, load | AtomTable with given handles | handle ranges |
| others (PLN, query, MOSES, comboreduct, NLP, web, shells) | | | | see section 5 and the components in `PROJECT.json` |

What makes the parts correct:

* *AtomTable*: it is a set of distinct atoms under handles that are never used
  again; incoming sets mirror outgoing sets; no link without its targets; every
  index lists exactly the atoms there are; removal never trips the checks of
  `Atom.cc`; the destructor ends.
* *AtomSpace*: currency is conserved; `clear` leaves nothing.
* *CogServer*: each request is executed once, in the order of its client, by one
  thread at a time; a shell is entered before the next line is read; nobody runs
  an agent that is destroyed or whose module is unloaded; requests are served.
* *Messaging*: every message is read, once, in order; the counter of unread
  messages is right; news about availability reaches everyone; elements get
  back to a router that was restarted; nobody blocks for ever.
* *Spawner*: the two maps agree; agents do not share ports; loaded agents run and
  unloaded ones end.
* *Learning*: the server works only for a pet that wants it to, has an algorithm
  when it works, does not wait for what cannot come, and delivers what it learned.
* *Procedures*: the result noted for a schema is what the program means, given
  the world's answers; every schema makes room for the next.

`PROJECT.json` lists the hazards behind these, at their lines, with the
properties that would catch each of them.

## 2. Modules

| module | uses | models |
|---|---|---|
| `AtomSet` | | abstract specification of the AtomTable |
| `AtomTable` | | AtomTable, TLB and indexes |
| `AtomTableTeardown` | `AtomTable`, `AtomSet` (refinement) | the destructor after any operations |
| `AtomSpace` | `AtomTable` | AtomSpace: funds and `clear` |
| `Messaging` | | Router, NetworkElement and their connections |
| `CogServer` | | server loop, requests, agents, modules, console sockets |
| `Spawner` | | Spawner and the life of OPC processes |
| `Learning` | | pets, learning server, the messages between them |
| `Procedures` | | interpreters, schema runner, action plans |
| `ProcedureMeaning` | Procedures | the reference semantics of programs |
| `AtomTableProofs` | `AtomTable`, `AtomSet` | theorems about the table; the refinement |
| `AtomTableTeardownProofs`, `AtomSpaceProofs` | the modules named, `AtomTableProofs` | theorems |
| `MessagingProofs`, `SpawnerProofs`, `CogServerProofs`, `LearningProofs`, `ProceduresProofs` | the modules named | theorems |
| `MC*` | the modules named | constants for TLC |

Definitions called *mutants* in a comment are wrong variants of the definition
after them; each property has one that violates it (`PROJECT.json`, "mutants").

### AtomSet

What the table promises: a function from handles to atom values. `Add` puts a
value that is not there yet (unordered links equal up to the order of their
targets) under a handle never given out before, with all its targets present;
`Remove` takes away a set of atoms and with it every link on one of them.

### AtomTable

An atom is its handle. `type`, `name`, `outgoing`, `incoming`, `sti` and `lti`
are the fields of the object `TLB::handle_map` has for the handle;
`type[h] = NOTYPE` says there is none. `incoming[x][l]` counts the entries of
link `l` in the incoming list of `x`. `size`, `atomSet` and the four indexes are
those of the class; `atomSet` holds pairs of a value and a handle because the
hash set compares by value, and the handle is `UNDEFINED` for an atom that a
failed addition left behind. `threw` says that a `RuntimeException` of
`Atom.cc` was raised.

Actions: `addNode`, `addLink`, `addLinkFails` (`AtomTable::add`), `remove`
(`extract` and `removeExtractedHandles`), `setAttentionValue`,
`decayShortTermImportance`. The recursion of `extract` and `extractOld` over
incoming sets is written as the least closed set (`Reached`); if the set could
not be taken away without an exception (`Removable`), the action is `Throw`.

Abstractions: truth values; one node type, one ordered and one unordered link
type; the order in which atoms of one removal are taken; the target-type and
predicate indexes (updated at the same places as the others); the backing
store; STI of a small range with `STI_LOW` and `STI_HIGH` for -32768 and 32767.

### AtomTableTeardown

`~AtomTable`: any operation of the table, then the loop that removes the first
element of the hash set, whichever that is. `ImplementsAtomSet` instantiates
`AtomSet` with the handles below `brk_uuid` as those given out and
`<<type, name, outgoing>>` as the value a handle names: operations, failures
and the destructor included, every step is an `Add`, a `Remove` or a stutter.

### AtomSpace

Extends AtomTable with the funds, the importance of agents, and `clear` as a
loop of its own (`ClearBegins`, `ClearRemoves`, `ClearEnds`). `AddLink` has both
look-ups: the one of `AtomSpace::addLink` with the targets as given and the one
of `AtomTable::add` with the targets sorted. Callers are sequential, so no
operation runs while `clearing`.

### Messaging

Both sides of the messaging system and the connections between them.

* Router: `registered`/`addressed` (`portNumber`, `ipAddress`), `hasQueue`,
  `queue`, `unavailableIds`, `toNotifyAvailability`, `toNotifyUnavailability`,
  `sock` (data and control sockets to each element), `file` (recovery file),
  `loop` (where the main loop is). `server[e]` is the sequence of connections
  from element `e`; each has the commands not read yet and the `pc` and command
  of its thread. Actions of a thread (`RouterThread`) follow
  `RouterServerSocket::OnLine`: a login is four steps (table and removal of the
  file, the file written anew, queue, notification), a logout two, a new message up to three (look up, push, notify), a delivery
  two per message (`isQueueEmpty`, `pop` and write). The main loop takes the
  pending sets at the points where the code copies them under the lock and
  sends one notification per step.
* Element: `unread`, `inbox`, `unavailableElements`, `link` (its socket),
  `locked` (`socketAccessLock` left locked), `conn[e][kind]` (connections from
  the router with items not read; each has its own thread and the message it is
  collecting). Actions: `Start`, `sendMessage`, `retrieveMessages`,
  `logoutFromRouter`, `ReadData`, `ReadControl`, and `ClearQueue` of the spawner.
* Failures: `Crash` of an element, `RouterCrash`, `PopNull` (the NULL that `pop`
  returns is used), `RouterStart` and `NotifyRecovery`. A router that fails while a
  thread is inside `persistState` leaves no file, or any part of it (`CutShort`), and
  `RouterStart` removes the file it has read. A socket to a process
  that is gone is "stale": a write to it is lost or reported as an error.

A connection on which nothing more will happen stays in `server` or `conn`, so that
connections keep their numbers; only the end of their process empties the lists.
The places a message can be in (`Places`) are told apart by which list it is in, of
which connection and at which position; several properties and most proofs are about them.

Configuration as in `embodiment.conf`: `NO_ACK_MESSAGES = true`,
`UNREAD_MESSAGES_RETRIEVAL_LIMIT = -1`; message arrival notification on.
Abstractions: the lines of a message are one item; `knownID` and the tests after
it are one step; `notifyElementAvailability` tells all elements in one step, in
which each write may or may not fail; a command handled by an element's reader
thread is one step. Message bodies are numbers.

### CogServer

Threads are `Main`, which runs `serverLoop`, and one for each client's socket.
`pc[t]` says where a thread is; `current[t]` is the request it executes; `todo[t]`
the agents it still has to run. `processRequestsLock` and `agentsLock` name their
holder. The loop looks at the queue without the lock, executes what it finds
under `processRequestsLock`, then runs the agents that are due under
`agentsLock` (`processAgents`); the steps between taking and giving back a lock
are separate, so other threads come in between.

A client sends lines (`Send`; what each may say is the constant `Script`) and may
hang up. `ReadLine` is `handle_connection` with `OnLine`: `read_until` may take
more lines than one into the streambuf (`ahead`), `OnRawData` reads the socket
only. A line becomes a request, which is pushed; then the thread looks at
`isShell()` (`CheckShell`) and for a shell request executes the queue itself
(`processRequests(c)`). Requests: starting, stopping and stepping agents, the
agent loop, load and unload of modules, data, shell, exit, shutdown and those
that only answer. `exit` on a socket whose client is gone throws
(`ExitConnection`) and the exception leaves the lock locked; `CallDeletedSocket`
is a request whose socket is deleted.

Agents are addresses, which are used again; `kindOf` is the class of the agent
there. Abstractions: what agents and requests compute or print; the activity
table is the set of agents with entries; every cycle counts modulo `CycleBound`.

### Spawner

`petId2PortMap` and `port2PetIdMap` as in the class; `opc` the processes, each
starting, running, leaving (it has answered SAVE_AND_EXIT) or out (it has logged
out); `login` the process that logged in last with an agent's id, to which the router
delivers; `saveAndExit` the agents with that message in their queue; `unloading` those
whose answer the proxy waits for. `LOAD_AGENT` and `UNLOAD_AGENT` are the handlers of
`processNextMessage`; `Initialize`, `BindFails`, `SaveAndExit`, `Logout`, `Exit` and
`Crash` are what a process does. It answers SUCCESS UNLOAD (`OPC.cc:307`, unless it
cannot save), then logs out (`OPC.cc:338`), which removes the agent's entry and queue
whichever process they are of, then exits, which frees the port: three steps.

What the proxy, which is not part of the repository, does is a choice made once. A
*hasty* one loads and unloads as it likes. One that *waits* loads what is not loaded,
unloads what is, and loads nothing before its unloads are answered. A *slow* one also
waits until the processes are gone. Nothing in the Spawner enforces any of it, and TLC
shows what happens without. With a hasty proxy: the port of an unloaded agent is given
to another one while the old process listens, whose bind then fails and which exits;
an agent unloaded and loaded again on another port gets the SAVE_AND_EXIT in its new
process and the old one stays; and a SAVE_AND_EXIT sent for a process that crashed ends
the next one (`Spawner.cc:122` has a TODO: nobody looks whether an OPC runs). With one
that waits for the answer: the new process may still find the port held and exit, so a
loaded agent never runs; and the late logout of the old process may remove the
registration and the queue of the new one, which then never gets its SAVE_AND_EXIT.
The maps agree in any case.

### Learning

For each pet its `mode`, the trick it `learns`, the one it `tried` last, whether
the candidate was `executed`, whether an `exemplar` is under way, and its
`repository`. For the server `busy`, `learningPet`, `learningSchema`, the state of its
agent (`lts`, `PIL`, `filter`, and whether the candidate it waits to be rewarded is
the empty program), and `running`, which a failed assertion ends
(`LSExecutable` catches the exception and the process ends). Each queue is in
order, as `Messaging` shows for the router. Owner's actions follow the mode
handlers and `Pet`; `ProcessSchema` is the OPC's handler for both kinds of answer;
the server's are `Ignore`, `initLearn` with its two ways to fail, `addLearnExample`,
`rewardCandidateSchema`, `LStrySchema`, `stopLearn`.

The hill climber may have no program to offer (`hillclimber.h:266-315`): for the tricks
in `Hard` a candidate and the best program may be empty. The OPC discards an empty
program before it looks at what it is for (`OPC.cc:445`), so an empty candidate is
never tried and its reward never given, while the server pauses for it until the pet
sends TRY, STOP or another exemplar; and an empty best program does not arrive. Both
are exceptions in `PausedForReward` and `StoppedTrickArrives`.

Abstractions: programs, but for being empty, and exemplars;
`startLearning` while learning cannot happen because only the playing mode's
handler calls it; nobody sends `LS_CMD`. `reward` and `punish` are the same
message; only the interface and tests call them, so a reward may never come.

### Procedures

A combo program is the sequence of its nodes in preorder with their children.
`proc[p]` is a `RunningComboProcedure`: program, iterator, whether a plan was
sent, the tri-state `failed` ("yes", "no", "ask"), the stack of loops, nodes
that became `action_failure`. `running` and `known` are the maps of the two
interpreters. The loop of the server has phases (messages, visits of the
interpreters, selection), and one step is one visit of a node (`moveOn`, `begin`,
`sendSequential_and`, compound actions, the conditionals and loops). Plans are
numbers; they are in progress, pending, failed or done in the `PAI`; the
`PAIWorldWrapper` knows the last one (`planID`, `hasPlanFailed`). The world answers
(`ActionFails`, `PlanEnds`) when it likes, or never. `runSchema`, `Expire`, `Over`
and what is `reported` are `SchemaRunner` and `RuleEngine`; a program that is a value
is noted as success if it is true, as failure if it is false, and not at all otherwise
(`Verdict`).

A plan is sent as it should be, *cut* before the first action that cannot be built (it
is not sent if that is the first), *unwalked* (heel, follow and nudge_to after a goto
that failed), refused because the router is away, or not needed because the pet is
there (`Outcomes`, `Compound`). The null object as an argument makes the first action
of a sequence an `action_failure`; in a later one the loop of `execSeq` runs behind the
end of the sequence and dereferences NULL, which ends the OPC (`execSeqRunsOver`).

`Meaning` (in `ProcedureMeaning`) is a reference semantics by recursion over the tree: given what the
program met in the world (`hist`), whether it succeeds. `ResultIsMeaning` compares
the interpreter's result with it. Where the interpreter does not follow it, the
exception is in the property or the program is left out of the instance:

* All procedures share one wrapper; one that ran while another sent a plan
  (`mixed`) hears about that plan.
* `moveOn` decides an `action_action_if` with an atomic condition, and the result of
  `action_not` of an atomic action, before the world has answered
  (`RunningComboProcedure.cc:364`, `:512`, `:540`): always the first branch, always
  failure. The programs have compound conditions, for which it waits.
* `beginCompound` does not reset the failure left by an earlier action, nor does
  `return_success`: as a branch of an `action_action_if` whose condition failed it makes
  the procedure fail, and if the condition had a null object its assertion
  (`RunningComboProcedure.cc:290`) ends the OPC.
* A plan stands for its whole group although a cut one lacks actions, and of a refused
  plan of several actions only the last is tried again: the procedure does not notice.
  The meaning takes the world's answer for all of them.
* A refused plan, and an action outside a sequence that cannot be built, are tried again
  in one call of `cycle()`, and `boolean_while` repeats a goto that is not needed: as long
  as that lasts the OPC does nothing else. These behaviours are in the model;
  `SchemasEnd` is about the others.
* After a timeout with no usable next action the stopped schema counts as
  finished, and asking for its result fails an assertion and ends the OPC
  (the exception in `ResultIsThere`).

### Instances

Each `MC` module gives constants their values: `MCMessaging` builds the budget of
events from one number per kind of event, `MCCogServer` what the clients may say,
`MCLearning` who teaches what, `MCProcedures` five programs.

## 3. Runs

Runs that pass:

| run | checks | shows |
|---|---|---|
| `space` | TypeOK, IndexesAgree, ImportanceIndexAgrees, NeverThrows, TargetsAreValid, IncomingMatchesOutgoing, AtomsAreUnique, ClearLeavesNothing, HandlesAreImmutable, OnlyDecayLosesCurrency | the AtomSpace interface with links on links, repeated targets, changes of importance, decay down to the lowest bin, and `clear` |
| `teardown` | HashSetAgrees, DestructorEnds, ImplementsAtomSet | additions that fail, then the destructor, for every order of the hash set; all of it implements AtomSet |
| `delivery` | EveryMessageIsRead, CountersAreExact, InOrder | three messages between two elements, nothing fails |
| `element_faults` | NeverTwice | an element starts late, fails, its queue is cleared; the router fails, or dies of a NULL message |
| `recovery` | ReconnectsUnlessLocked | the router fails twice and comes back, with the file of elements lost, cut short or whole |
| `availability` | UnavailabilitySpreads | two of three elements fail, or one of them logs out, while news is on its way; the proxy is not told of internal elements |
| `server` | ShellBeforeNextLine, RequestsInOrder, AgentsHaveCode, ActivityOfLiveAgents, RequestsAreServed, ShellReturns | a client with a shell and data and one that works with agents and modules, against the server loop |
| `learning` | LearningTypeOK, BusyHasLearner, BusyHasOwner, PausedForReward, StoppedTrickArrives | two pets, one of which may die, two tricks, one of which the server may find no program for, with messages under way |
| `spawner` | SpawnerTypeOK, PortMapsAgree, PortIsAvailable, LoadedAgentsRun, UnloadedAgentsEnd | three agents and two ports, with the three kinds of proxy |
| `procedures` | ResultIsMeaning, OnePlanAtATime, ResultIsThere, SchemasEnd | every control operator while plans fail, are cut short, refused, answered late or never, and schemas time out |

Runs that show a disagreement between the code and what it says of itself
(`findings` in `PROJECT.json` quotes the lines):

| run | violated | what happens |
|---|---|---|
| `login_race` | HaveUnreadMessageIsRight | a message stored during a login is counted twice or not at all |
| `learning_assertion` | NoAssertionFails | a session that fails late leaves its filter and objects behind; the next session's assertion ends the server |

Met while modelling, part of the models, and without a run of their own:

* `AtomTable.cc:474`: a link with an invalid target stays in the hash set; the
  destructor throws on it, and `getSize` counts an atom that is not there.
* `decayShortTermImportance` destroys currency that `ImportanceUpdatingAgent.h`
  calls conserved (OnlyDecayLosesCurrency makes the exception explicit).
* `Router.cc:186`: "available" is always sent before "unavailable", whatever came
  first, so an element that came back may be believed away.
* `NetworkElement.cc:537`: a failed write leaves `socketAccessLock` locked, and no
  handshake follows (the exception in ReconnectsUnlessLocked).
* `RouterServerSocket.cc:193`: clearing a queue during delivery makes `pop` return
  NULL, which ends the router.
* `Router.cc:149` and `persistState` remove the recovery file before it is written again:
  a failure meanwhile and the next router has forgotten elements that run, and never
  asks them for a handshake (the exception in ReconnectsUnlessLocked).
* `OPC.cc:307`: SUCCESS UNLOAD is sent before the process has logged out and freed its
  port (the exception in PortIsAvailable).
* `RunningComboProcedure.cc:436`: a null argument in a later action of a sequence makes
  `execSeq` dereference NULL; an action that cannot be built ends the plan silently.
* `ServerSocket.cc:60`: an exception of `exit` leaves `processRequestsLock` locked
  (the exception in RequestsAreServed and ShellReturns).
* `BuiltinRequestsModule.cc:163`: `agents-step` in a shell's thread runs an agent while
  the server loop runs it or another one, although `Agent.h:46` says "there's
  currently no concurrency between multiple agents".
* A pet that dies while it learns keeps the learning server busy for ever.

### Bounds

* `space`, `teardown`: `MaxHandle = 3`, `MaxArity = 2`: a node, a link on it, and a
  link on that link or on both, with repeated targets; three levels are the least
  on which one level of recursion differs from all of it. Handles are not given
  out twice, so this also bounds the additions. STI from one below the decay
  threshold to one above it, the ends being the lowest and the highest bin;
  `MaxDecays = 2` lets an atom go from the top to the bottom. `MaxFailures = 1` in
  `teardown`: one leftover in the hash set suffices to shadow an atom; two names so
  that there are two nodes. None in `space`, where `clear` is the question.
* Messaging: `Budget` bounds each event of the environment; everything the
  threads do follows from these events. Two elements, three for news about
  elements told to a third. `MaxRequests = 1` request not read yet for each
  element: a second one finds an empty queue. `MaxNews` holds the router's main loop
  back while an element has that many notifications unread: 4 in `delivery` and
  `availability`, which do not reach it; 1 in `element_faults`, which is about messages,
  and in `recovery`, where news of other elements waits until the last was read (the
  call for a handshake does not). `recovery` has two elements that have logged in, one
  message between them (what a stale link is written to) and two failures of the router,
  which may fall into the logins that follow the first. Nobody logs out there: an
  element that did stays in half of the router's table (`operator[]` enters it again
  without an address) and is written to the file like that. `element_faults` has one of
  each event: old and new connections of an element side by side, and logouts, are left
  to the theorem `MessagesAreNeverTwice`.
* `server`: two clients with two lines and one line; the second says any of
  thirteen things. Three classes of agents: one started, one that can be, one that
  no module registers. `MaxAgents = 2`. `CycleBound = 1`: agents are due in
  every cycle, the case with most to run.
* `learning`: an owner says nothing while two messages for the server or one for
  its pet are unread (`MaxQueue`, `MaxAnswers`): enough for a stop and a learn, or
  two pets' messages, to be under way at once.
* `spawner`: three agents for two ports, and two processes at once: one that leaves and
  its successor, or two agents.
* `procedures`: two schemas one after another and a procedure of the shell beside them
  (`MaxSchemas`, `MaxShells`), two plans sent between them (`MaxPlans`), and four things a
  procedure meets in the world (`MaxEvents`). `SchemasEnd` says of the first schema that
  the second follows, with the shell's plan in its way; `MaxPlans` and `MaxEvents` stop a
  behaviour that wants more (no fair behaviour of the instance then), they do not make
  a plan fail. Plans that are not sent are not counted.
  `AllowWalkingCancelation = FALSE` as in the default configuration.
* Symmetry is not used: liveness is checked in several runs, and the elements
  differ in their roles in the others.

### Deadlock

The `space` run checks for deadlock. The others come to rest, and say
`CHECK_DEADLOCK FALSE`: a destroyed table is not used; nothing has to happen when no
element, client, owner or proxy does anything and all budgets are used up; a
server that exited or whose process ended does nothing. What must not come to
rest is said by the liveness properties.

### Fairness

* Messaging: weak fairness for each thread that the code runs in a loop of its
  own: the router's threads (`RouterThread`), its main loop (`RouterLoop`,
  `NotifyRecovery`), the reader threads of an element (`ReadData`, `ReadControl`)
  and the retrieval its main loop does in each cycle (`retrieveMessages`). A
  router that failed is started again by hand (`RouterStart`); without that no
  statement about recovery makes sense.
* CogServer: strong fairness for the server loop and for each socket's thread. A
  thread that waits for a lock is enabled again and again, not always; the mutex
  hands it over in the end because the loop sleeps with no lock held.
* Learning: weak fairness for the server and for the OPCs' handling of answers.
  Spawner: for each process.
* Procedures: the server's loop goes on (`LoopGoesOn`: weak fairness of `Round`, which
  is enabled while the OPC runs and the bounds are not reached, in terms of steps because TLC is slow to
  evaluate ENABLED there); the RuleEngine selects again and time passes (strong
  fairness, since both are possible in some phases only). The world's answers
  have no fairness.
* In AtomTableTeardown the loop that was entered goes on.

Nothing is assumed of the environment: starts, sends, crashes, logouts, clears,
hang-ups, owners, proxies and periodic notifications may never happen.

## 4. Proofs

### AtomTable and AtomSpace

`AtomTableProofs`, `AtomTableTeardownProofs` and `AtomSpaceProofs` hold for every value of the constants that satisfies `HandleBounds`,
`NamesAssumption`, `ImportanceBounds` and (for the AtomSpace) `FundsAssumption`: any
number of handles, any arity, any range of importance that contains 0 and the
decay threshold.

* `TypeCorrectness`: `Spec => []TypeOK`.
* `AlwaysConsistent`: `Spec => []Consistent`, the inductive invariant

      Consistent == TypeOK /\ UnusedHandlesAreEmpty /\ IncomingMatchesOutgoing
                    /\ TargetsAreValid /\ TargetsAreOlder
                    /\ ImportanceIndexAgrees /\ NeverThrows

  The parts lean on one another. A removal throws nothing (`NeverThrows`)
  if the set it takes is closed under incoming links and these mirror the
  outgoing sets (`ClosedIsRemovable`); the mirror survives a removal because the
  set is closed and a new link because its handle was unused
  (`UnusedHandlesAreEmpty`) and its targets valid; for decay the set is closed only
  because every old link is found in the importance index, which needs
  `ImportanceIndexAgrees` and its own argument over the shifted bins
  (`ShiftedIndexAgrees`, `OldAtomsClosed`).
* `IncomingSets`, `NoDanglingTargets`, `NoException`, `ImportanceIndexIsExact`: the
  parts, each a property of a run; `RecursionEnds`: links name older atoms only.
* `HandlesStay`: `Spec => HandlesAreImmutable`, an action property.
* `SpaceImplementsTable`: `SpaceSpec => Spec`; every step of the AtomSpace is one
  operation of the table or leaves it alone. `SpaceConsistent`,
  `SpaceIncomingSets` and `SpaceHandlesStay` carry the results over.

The second half of `AtomTableProofs` is about what the indexes and the hash set know.
Its inductive invariant is

    Indexed == Consistent /\ AtomShapes /\ IndexesAgree /\ ValuesDiffer /\ HashSetAgrees

`AtomShapes` says that a node has a name and no targets, a link targets and no name,
and that the targets of an unordered link are sorted; `ValuesDiffer` that no two
handles have one value. A look-up finds what there is because the indexes are exact
(`UnknownIsNew`), so a new value keeps values different (`InsertKeepsDistinct`), so
the removal of one atom takes one entry out of the hash set
(`DiscardKeepsIndexed`).

* `IndexesAreExact`, `HashSetIsExact`: the parts.
* `NoDuplicates`: `Spec => []AtomsAreUnique`. Two unordered links are equal up to the
  order of targets if each handle occurs equally often in both; that sorted
  sequences with equal counts are equal is `SortedListsEqual`. It would be an
  induction; the proof takes the smallest index at which they differ
  (`SmallestElement`, from the well-foundedness of `<` on the naturals) instead.
* `TableIsAtomSet`: `Spec => ImplementsAtomSet`, the refinement: an insertion is an
  `Add` (`InsertIsAdd`), a removal a `Remove` of a set that holds every link on one of
  its members (`DiscardIsRemove`), everything else a stutter.
* `TeardownImplementsTable`: `TeardownSpec => Spec`, with `TeardownIsAtomSet`; and
  `DestructorLeavesNothing`: when the destructor's loop ends no atom is left, and when
  it throws an addition had failed half-way before. It needs `SizeCounts`: `size` is
  at least the number of atoms, and more if the hash set has an entry without a
  handle. That the loop does end (`DestructorEnds`) is TLC's.
* `SpaceIsAtomSet`, and `ClearIsComplete`: `SpaceSpec => []ClearLeavesNothing`. The
  invariant `ClearCovers` says that every valid atom is still ahead in the list
  `clear` goes through.
* `CurrencyIsConserved`: `SpaceSpec => OnlyDecayLosesCurrency`, for any starting funds and
  any finite set of agents. `Total` is a sum over a set, a recursive function chosen by
  `MapThenSumSet`. `TotalIs` replaces it by a number of things: an importance of k is
  k units, or a lack of -k units, and the total is the units less the lacks. The
  counting function satisfies the recursion, and there is no smallest set on which
  another solution could differ (the well-founded order of finite subsets stands in
  for induction). Then a new atom adds nothing and is paid nothing, what removed atoms
  had is what `removeAtom` refunds (it takes valid atoms only, and never throws:
  `Consistent`), and what `setAV` gives the pool pays (`InsertConserves`,
  `RemoveConserves`, `SetAVConserves`, `SetAgentAVConserves`).

### Messaging

`MessagingProofs` holds for any elements, any number of messages, and any number of
failures the budgets allow (`IdsAssumption`, `BudgetAssumption`); what more a theorem
assumes is in its statement. `Shape` is the type invariant with the structure all
else rests on: an open link has a thread in the router, an open socket a running
element and a connection, a message in a queue a queue that exists, and a thread that
has to do with a message a command that holds one (`AlwaysShape`, `MessagingTypes`).

* `MessagesAreNeverTwice`: `Spec => []NeverTwice`, whatever fails. The inductive invariant
  `Unique` says that a number is held in one place only, `Known` that it was given out
  and that the place is one of its sender's or its addressee's. Each of the actions is
  shown to carry messages: every place after the step holds what one place before it
  held (`src`), and no two places after take from one (`Carries`). Sending is the one
  step that adds a place, with a number not yet given out.

Two theorems are about `Steady` times: no budget for `start`, `logout`, `clear` and
`routercrash`; elements may still crash. Without logins the order of two connections of
one element does not come in, and the table of the router does not change: `AlwaysCalm`
says that an element that runs keeps one link, one thread and one connection of each
kind, and that only crashed elements are ever taken to be unavailable.

* `UnavailabilityIsTold`: `[]UnavailabilitySpreads`. The invariant `Spread` says of each
  element taken to be unavailable, and each one that runs and is to be told, that it
  knows, or the news is on its control connection, or among those the main loop sends,
  or among those it has still to take. When all is quiet only the first is left.
* `MessagesAreReadInOrder`: `[]InOrder`. `Ordered` says it of all places on the way, in
  the order in which the way passes them (`Before`): read, collected, on the data
  connection, queued, handled by the sender's thread, coming to it. `OneEach` says that
  a message on the way is on the one connection its element has.

* `CountersStayExact`: with `Faultless` (`Steady`, no crashes, all elements logged in and
  finitely many) `[]CountersAreExact`. `CountersAreExact` counts places;
  the inductive invariant `Balanced` is the same account with lengths: what `e` was told
  or will be (`Owed`: its counter, the notifications on its connection, the threads about
  to write one) is what waits for it (`Stored`: its queue, the messages on its
  connection, the one being collected). `Fit` says that nobody is parked or gone, and
  that a thread that delivers has an open socket, so that nothing is popped in vain. The
  sets of places are finite and disjoint and map one to one onto the positions of the
  lists (`WaitingIs` and the lemmas before it), so counting them gives `Owed` and
  `Stored`. That it needs these conditions is what the `login_race` run shows: with a login
  on its way the counter is wrong.

### Spawner

`SpawnerProofs` holds for any set of agents, any range of positive ports, any
number of processes (`SpawnerAssumption`). `AlwaysSafe` is the inductive invariant

    SpawnerSafe == SpawnerTypeOK /\ PortMapsAgree /\ ProcessesMatchMaps /\ PortIsAvailable

`PortMapsAgree` needs only the types. `PortIsAvailable` is not inductive: a new port is
free of all but leaving processes because every process of a proxy that is not hasty
listens to the port in the map, unless it leaves or its agent is being unloaded, and
nothing is loaded meanwhile (`ProcessesMatchMaps`). `SpawnerTypes`, `MapsAgree` and
`PortsAreNotShared` are the parts that the run checks too.

### Learning

`LearningProofs` holds for any pets, tricks and numbers of messages. `AlwaysSafe` is

    LearningSafe == LearningTypeOK /\ Named /\ BusyHasLearner /\ LearnsAreStopped
                    /\ BusyHasOwner /\ PausedForLast

`BusyHasOwner` is not inductive: the pet may have left the trick, or died, while its
messages are still on their way. `LearnsAreStopped` says of every LEARN in the
server's queue that a STOP_LEARNING for it comes later in the queue, or its pet
still learns the trick, or is dead; it is carried along as the queue moves.
`PausedForLast` says that a paused server's last candidate is the one on its way to the
pet or the one the pet tried last, unless it was empty, the STOP_LEARNING is on its way
or the pet is dead; from it `RewardCanCome`
(`[]PausedForReward`) follows. `LearningTypes`, `LearnerIsThere` and
`BusyForSomebody` are the parts.

### CogServer

`CogServerProofs` holds for any clients, lines they may send, modules, classes,
frequencies and numbers of agents (`ThreadsAssumption`, `KindsAssumption`,
`ClientsAssumption`). `ServerAlwaysSafe` is the inductive invariant

    ServerSafe == the types /\ OneInside /\ LinesInOrder /\ PendingPassed
                  /\ RequestsInOrder /\ ShellIsLast /\ AgentsHaveCode /\ AgentsAreRun

Each action is shown to be one of few kinds of step, and each kind to keep the
invariants of the requests: a thread moves outside of processRequests (`QuietStep`),
works at a request or is thrown out of it (`WorkStep`), reads (`ReadStep`), or takes
the lock, a request, or gives the lock back.

* `InOrderAlways`: `Spec => []RequestsInOrder`. Only the holder of
  `processRequestsLock` is inside (`OneInside`; an exception takes the holder out and
  nobody else in). The lines read ahead and those in the network are in order and
  after the last one read (`LinesInOrder`), and all that is queued, executed or done
  is not after it (`PendingPassed`), so a request that is pushed is the last.
* `ShellComesFirst`: `Spec => []ShellBeforeNextLine`. A pending shell request is the last
  its socket has read (`ShellIsLast`), so `CheckShell` finds it if it is still there; the
  socket's thread then gets out of processRequests only when the queue is empty. A
  leaked lock stays leaked (`LeakedStays`).
* `CodeStays`: `Spec => []AgentsHaveCode`. Only the thread inside processRequests and,
  under `agentsLock`, the server loop have agents to run (`AgentsAreRun`); what destroys
  agents is inside too and needs `agentsLock`, so nobody is running any.
* `NoStaleActivity`: `Spec => []ActivityOfLiveAgents`: entries are of started agents.
* `ServerTypes`: `Spec => []ServerTypeOK`.

### Procedures

`ProceduresProofs` holds for any programs whose nodes are in preorder, whatever fails
and whenever the world answers (`ProceduresAssumption`). `ProceduresAlwaysSafe` is

    ProceduresSafe == Shapes /\ Started /\ RunPhases /\ EndedStay /\ Accounted
                      /\ WaitsForLast /\ PlansDiffer

What a node does to the iterator does not matter here: `moveOn` keeps what a procedure
waits for (`MoveOnKeeps`), so every iteration of `cycle` creates no plan, or one that is
not sent, or sends one and returns (`CycleIsStep`: `Walks`, `Wastes`, `Sends`). All other
steps but a visit start, stop, ask and remove procedures (`Quiet`). `Counted`, an invariant
of its own, says that the numbers of procedures stay within their bounds.

* `ResultIsAlwaysThere`: `[]ResultIsThere`. A procedure that was started is known, failed,
  has a result or was stopped (`Accounted`). That needs `EndedStay`: one that was stopped
  or found finished has no node to execute, so no cycle gives it a tree again; and the
  interpreter removes only procedures whose results are taken in the same run.
* `OnlyKnownEnds`, an action property: the OPC ends by the assertion of
  `return_success`, by the NULL in `execSeq`, or when the result of a schema that was
  stopped is asked for, and never otherwise.
* `AlwaysOnePlan`: `[]OnePlanAtATime`. A procedure that waits, and whose place in the
  wrapper no other took, waits for the wrapper's plan, is still running and not found
  finished (`WaitsForLast`); so it is not ready, not cycled, and sends nothing.

### Only model-checked

* Liveness, which is out of the prover's reach: `DestructorEnds`, `EveryMessageIsRead`,
  `ReconnectsUnlessLocked`, `RequestsAreServed`, `ShellReturns`, `StoppedTrickArrives`,
  `LoadedAgentsRun`, `UnloadedAgentsEnd`, `SchemasEnd`.
* `ResultIsMeaning`: its reference semantics is recursive (it is in a module of its own,
  which the proofs do not use), and what it computes would need induction over programs.

Every other property of a passing run is a theorem. The two runs that expect a violation
show that `HaveUnreadMessageIsRight` and `NoAssertionFails` do not hold.

## 5. Not modelled

Most of the repository's 226,000 lines compute: they are algorithms over
floating point numbers, program trees, text and geometry with little state that
outlives a call and no protocol. TLC cannot enumerate their inputs in a way that
says something about them, and a model that replaced the numbers by a few values
would check the model's choices.

* MOSES, hill climbing, comboreduct: evolutionary search over programs with
  floating point scores and random choices; rewriting rules over program trees.
* PLN, pattern query, truth values: inference formulas in floating point and
  backtracking whose state is the data.
* Attention agents: wages, rent and spreading in floating point. What they do to the
  AtomSpace (setAV, removeAtom, decay) is covered by its operations.
* Persistence: SQL and file formats, conversions of every type to text and back.
  With it, atoms that come with a handle from a backing store
  (`TLB::reserve_range`) are not in AtomTable.
* TimeServer, SpaceServer, spatial: sequential indexes, geometry, path finding.
* NLP, web, ubigraph, Scheme and Python bindings, vendored code (`mongoose.c`,
  `tree.h`): parsers, front ends and libraries.
* Perception (`PAI`'s XML), feelings, traits, the RuleEngine's choice of a rule: left
  open where the choice matters to a model.

Left out of the modelled parts: acknowledged mode, SHUTDOWN and ticks; the element's threads are not split at `socketAccessLock`;
`FileMessageCentral`, which nothing creates; the CogServer's destructor, requests
registered by optional modules, utilised handle sets and the activity table's
history; the learning algorithms; built-in and combo-select procedures, exceptions
of `eval_throws` that leave `cycle`, result messages to the combo shell.

## 6. Plan

What would extend the project next, most important first:

1. Messaging: the order of messages and the spreading of news across logins, with more
   than one connection of an element alive, for which `Before` has to compare the
   connections; which of the counters are still bounded when elements crash; then
   acknowledged mode and `UNREAD_MESSAGES_RETRIEVAL_LIMIT`.
2. AtomTable: atoms that come with a handle from a backing store.
3. CogServer: its destructor, and the order in which modules are unloaded.
