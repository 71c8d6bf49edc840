------------------------------- MODULE Spawner -------------------------------
(***************************************************************************)
(* The Spawner, which gives every agent (pet) a port and starts an         *)
(* operational pet controller (OPC) for it, and the OPC processes, which   *)
(* listen to their ports, log in at the router, and answer, log out and    *)
(* exit, one after the other, when they get the message SAVE_AND_EXIT.     *)
(* The router keeps messages for an agent until a process with its id      *)
(* takes them, and sends them to the process that logged in last.          *)
(***************************************************************************)
EXTENDS Integers

CONSTANTS
  Pets,
  None,
  minOpcPort, maxOpcPort,
  Procs,     \* bound: OPC processes at once
  MayCrash   \* pets whose OPC may crash

Ports == minOpcPort .. maxOpcPort

ASSUME SpawnerAssumption ==
  /\ minOpcPort \in Nat \ {0} /\ maxOpcPort \in Nat \ {0} /\ minOpcPort <= maxOpcPort
  /\ None \notin Pets \cup Procs \cup Ports
  /\ MayCrash \subseteq Pets

VARIABLES
  petId2PortMap,  \* [Pets -> Ports, or None where the map has no entry]
  port2PetIdMap,  \* [Ports -> Pets, or None]
  opc,            \* [Procs -> the process, or None]
  login,          \* [Pets -> the process that logged in last, or None]
  saveAndExit,    \* the pets in whose queue SAVE_AND_EXIT is
  unloading,      \* the pets whose SUCCESS UNLOAD the proxy waits for, unless it is hasty
  proxy           \* how the proxy goes about it

vars == <<petId2PortMap, port2PetIdMap, opc, login, saveAndExit, unloading, proxy>>
maps == <<petId2PortMap, port2PetIdMap>>

\* A process that has answered SAVE_AND_EXIT is "leaving" until it has logged out, then "out".
Process == [pet : Pets, port : Ports, state : {"starting", "running", "leaving", "out"}]

\* A hasty proxy loads and unloads whenever it likes.  The others load only what is not
\* loaded and unload only what is; one that waits loads nothing before its unloads are
\* answered, a slow one nothing before the unloaded processes are gone as well.
Proxies == {"hasty", "waits", "slow"}

Init ==
  /\ petId2PortMap = [p \in Pets |-> None]
  /\ port2PetIdMap = [o \in Ports |-> None]
  /\ opc = [i \in Procs |-> None]
  /\ login = [p \in Pets |-> None]
  /\ saveAndExit = {}
  /\ unloading = {}
  /\ proxy \in Proxies

Is(i, s) == opc[i] # None /\ opc[i].state = s

\* The process has answered SAVE_AND_EXIT.
Leaving(i) == Is(i, "leaving") \/ Is(i, "out")

-----------------------------------------------------------------------------
(* Spawner::processNextMessage *)

\* Mutant: the ports that are taken are not left out.
LowestTaken(o) == o = minOpcPort

\* The first port of the range that port2PetIdMap does not have.
Lowest(o) == /\ o \in Ports /\ port2PetIdMap[o] = None
             /\ \A q \in Ports : port2PetIdMap[q] = None => o <= q

\* allocateOpcPort, when it returns a port.
allocateOpcPort(p, o) ==
  IF petId2PortMap[p] # None
  THEN o = petId2PortMap[p] /\ UNCHANGED maps
  ELSE /\ Lowest(o)
       /\ petId2PortMap' = [petId2PortMap EXCEPT ![p] = o]
       /\ port2PetIdMap' = [port2PetIdMap EXCEPT ![o] = p]

\* LOAD_AGENT; nothing happens if there is no port.  Nobody looks whether there is an
\* OPC for the agent.
LOAD_AGENT(p) ==
  /\ proxy # "hasty" => unloading = {} /\ petId2PortMap[p] = None
  /\ proxy = "slow" => \A i \in Procs : ~Leaving(i)
  /\ \E o \in Ports, i \in Procs :
       /\ allocateOpcPort(p, o)
       /\ opc[i] = None /\ i = CHOOSE j \in Procs : opc[j] = None
       /\ opc' = [opc EXCEPT ![i] = [pet |-> p, port |-> o, state |-> "starting"]]
  /\ UNCHANGED <<login, saveAndExit, unloading, proxy>>

\* Mutant: only one map is updated.
releaseOpcPortHalf(p) ==
  /\ port2PetIdMap' = [o \in Ports |-> IF o = petId2PortMap[p] THEN None ELSE port2PetIdMap[o]]
  /\ UNCHANGED petId2PortMap
\* Mutant: the entry of the agent stays, with port 0.
releaseOpcPortZero(p) ==
  /\ petId2PortMap' = [petId2PortMap EXCEPT ![p] = 0]
  /\ port2PetIdMap' = [o \in Ports |-> IF o = petId2PortMap[p] THEN None ELSE port2PetIdMap[o]]
\* releaseOpcPort
releaseOpcPort(p) ==
  /\ petId2PortMap' = [petId2PortMap EXCEPT ![p] = None]
  /\ port2PetIdMap' = [o \in Ports |-> IF o = petId2PortMap[p] THEN None ELSE port2PetIdMap[o]]

\* Clears the queue of the agent and puts SAVE_AND_EXIT there; the router discards it if
\* it has found out that the agent's process crashed.
sendSaveAndExit(p) ==
  \/ saveAndExit' = saveAndExit \cup {p}
  \/ p \in MayCrash /\ login[p] = None /\ saveAndExit' = saveAndExit \ {p}

\* UNLOAD_AGENT: sends SAVE_AND_EXIT and releases the port at once.
UNLOAD_AGENT(p) ==
  /\ proxy # "hasty" => petId2PortMap[p] # None
  /\ sendSaveAndExit(p)
  /\ releaseOpcPort(p)
  /\ unloading' = IF proxy = "hasty" THEN {} ELSE unloading \cup {p}
  /\ UNCHANGED <<opc, login, proxy>>

-----------------------------------------------------------------------------
(* The OPC processes *)

\* A process keeps its port until it exits.
Held(o) == \E j \in Procs : opc[j] # None /\ opc[j].state # "starting" /\ opc[j].port = o

\* NetworkElement::initialize: the process binds to its port and logs in.
Initialize(i) ==
  /\ Is(i, "starting") /\ ~Held(opc[i].port)
  /\ opc' = [opc EXCEPT ![i].state = "running"]
  /\ login' = [login EXCEPT ![opc[i].pet] = i]
  /\ UNCHANGED <<maps, saveAndExit, unloading, proxy>>

\* startListener fails, and the process exits.
BindFails(i) ==
  /\ Is(i, "starting") /\ Held(opc[i].port)
  /\ opc' = [opc EXCEPT ![i] = None]
  /\ UNCHANGED <<maps, login, saveAndExit, unloading, proxy>>

\* Mutant: the process answers and goes on.
SaveAndExitGoesOn(i) ==
  /\ Is(i, "running") /\ login[opc[i].pet] = i /\ opc[i].pet \in saveAndExit
  /\ saveAndExit' = saveAndExit \ {opc[i].pet}
  /\ unloading' = unloading \ {opc[i].pet}
  /\ UNCHANGED <<maps, opc, login, proxy>>
\* The process gets SAVE_AND_EXIT, saves its state and answers SUCCESS UNLOAD, which it
\* does not if it cannot save or send (saveState).
SaveAndExit(i) ==
  /\ Is(i, "running") /\ login[opc[i].pet] = i /\ opc[i].pet \in saveAndExit
  /\ opc' = [opc EXCEPT ![i].state = "leaving"]
  /\ saveAndExit' = saveAndExit \ {opc[i].pet}
  /\ unloading' \in {unloading, unloading \ {opc[i].pet}}
  /\ UNCHANGED <<maps, login, proxy>>

\* logoutFromRouter: the router removes the entry and the queue of the agent, whichever
\* process they are of.
Logout(i) ==
  /\ Is(i, "leaving")
  /\ opc' = [opc EXCEPT ![i].state = "out"]
  /\ login' = [login EXCEPT ![opc[i].pet] = None]
  /\ saveAndExit' = saveAndExit \ {opc[i].pet}
  /\ UNCHANGED <<maps, unloading, proxy>>

\* The process exits, which frees its port.
Exit(i) ==
  /\ Is(i, "out")
  /\ opc' = [opc EXCEPT ![i] = None]
  /\ UNCHANGED <<maps, login, saveAndExit, unloading, proxy>>

Crash(i) ==
  /\ opc[i] # None /\ opc[i].pet \in MayCrash
  /\ opc' = [opc EXCEPT ![i] = None]
  /\ login' = [login EXCEPT ![opc[i].pet] = IF @ = i THEN None ELSE @]
  /\ UNCHANGED <<maps, saveAndExit, unloading, proxy>>

OPC(i) == Initialize(i) \/ BindFails(i) \/ SaveAndExit(i) \/ Logout(i) \/ Exit(i)

Next == \/ \E p \in Pets : LOAD_AGENT(p) \/ UNLOAD_AGENT(p)
        \/ \E i \in Procs : OPC(i) \/ Crash(i)

\* Every process runs.
Fairness == \A i \in Procs : WF_vars(OPC(i))

Spec == Init /\ [][Next]_vars
SpawnerSpec == Spec /\ Fairness

-----------------------------------------------------------------------------
(* Properties *)

\* The maps of the Spawner and the processes have their types.
SpawnerTypeOK ==
  /\ petId2PortMap \in [Pets -> Ports \cup {None}]
  /\ port2PetIdMap \in [Ports -> Pets \cup {None}]
  /\ opc \in [Procs -> Process \cup {None}]
  /\ login \in [Pets -> Procs \cup {None}]
  /\ saveAndExit \subseteq Pets /\ unloading \subseteq Pets /\ proxy \in Proxies

\* The two maps of the Spawner say the same, so that no two agents have one port and no
\* port is lost, after any sequence of loads and unloads, repeated ones included
\* (allocateOpcPort, releaseOpcPort).
PortMapsAgree ==
  \A p \in Pets, o \in Ports : petId2PortMap[p] = o <=> port2PetIdMap[o] = p

\* Two processes have one port only if the proxy is hasty, or if it waits for the answers
\* to its unloads and one of the two has answered and not yet exited: the answer is sent
\* before the port is free (releaseOpcPort, allocateOpcPort, OPC::saveState).
PortIsAvailable ==
  \A i, j \in Procs :
    proxy # "hasty" /\ i # j /\ opc[i] # None /\ opc[j] # None /\ opc[i].port = opc[j].port
      => proxy = "waits" /\ (Leaving(i) \/ Leaving(j))

\* An agent that was loaded runs in the end, unless it is unloaded or may crash, if the
\* proxy is slow: else the port may still be held by a process that has answered, and the
\* new one exits (LOAD_AGENT, NetworkElement::initialize).
LoadedAgentsRun ==
  \A p \in Pets \ MayCrash :
    (proxy = "slow" /\ petId2PortMap[p] # None)
      ~> (petId2PortMap[p] = None \/ \E i \in Procs : Is(i, "running") /\ opc[i].pet = p)

\* A process whose agent is being unloaded ends, if the proxy is slow: else the late logout
\* of an earlier process of the agent may remove the message and the registration of this
\* one (SaveAndExit, Logout).
UnloadedAgentsEnd ==
  \A i \in Procs : (proxy = "slow" /\ opc[i] # None /\ opc[i].pet \in saveAndExit) ~> opc[i] = None
=============================================================================
