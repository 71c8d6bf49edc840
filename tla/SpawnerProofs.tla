---------------------------- MODULE SpawnerProofs ----------------------------
(***************************************************************************)
(* The safety of the Spawner for any set of agents, any range of ports and *)
(* any number of processes: its two maps agree, and with a proxy that      *)
(* waits for its unloads two processes have one port only while one of     *)
(* them is about to exit.                                                  *)
(***************************************************************************)
EXTENDS Spawner, TLAPS

\* With a proxy that waits an agent has one process that has not answered SAVE_AND_EXIT,
\* and it has the port the Spawner has for the agent unless the agent is being unloaded.
ProcessesMatchMaps ==
  proxy # "hasty" =>
    /\ \A i, j \in Procs :
         (/\ opc[i] # None /\ ~Leaving(i) /\ opc[j] # None /\ ~Leaving(j)
          /\ opc[i].pet = opc[j].pet) => i = j
    /\ \A i \in Procs : opc[i] # None /\ ~Leaving(i) =>
         petId2PortMap[opc[i].pet] = opc[i].port \/ opc[i].pet \in unloading

\* The inductive invariant.
SpawnerSafe == SpawnerTypeOK /\ PortMapsAgree /\ ProcessesMatchMaps /\ PortIsAvailable

-----------------------------------------------------------------------------
(* The maps. *)

\* A process is a record, so it is not None.
LEMMA ProcessFacts ==
  ASSUME SpawnerTypeOK, NEW i \in Procs, opc[i] # None
  PROVE  /\ opc[i] \in Process /\ opc[i].pet \in Pets /\ opc[i].port \in Ports
         /\ opc[i].port # None /\ opc[i].pet # None
BY SpawnerAssumption DEF SpawnerTypeOK, Process

\* allocateOpcPort returns the port of the agent and keeps the maps' types and
\* agreement; no other agent's entry changes.
LEMMA AllocateMaps ==
  ASSUME SpawnerTypeOK, PortMapsAgree, NEW p \in Pets, NEW o \in Ports, allocateOpcPort(p, o)
  PROVE  /\ petId2PortMap' \in [Pets -> Ports \cup {None}]
         /\ port2PetIdMap' \in [Ports -> Pets \cup {None}]
         /\ PortMapsAgree'
         /\ petId2PortMap'[p] = o
         /\ \A q \in Pets \ {p} : petId2PortMap'[q] = petId2PortMap[q] /\ petId2PortMap[q] # o
<1>1. CASE petId2PortMap[p] # None
  <2>1. o = petId2PortMap[p] /\ UNCHANGED maps
    BY <1>1 DEF allocateOpcPort
  <2> QED
    BY <2>1, SpawnerAssumption DEF maps, SpawnerTypeOK, PortMapsAgree
<1>2. CASE petId2PortMap[p] = None
  <2>1. /\ port2PetIdMap[o] = None
        /\ petId2PortMap' = [petId2PortMap EXCEPT ![p] = o]
        /\ port2PetIdMap' = [port2PetIdMap EXCEPT ![o] = p]
    BY <1>2 DEF allocateOpcPort, Lowest
  <2>2. \A q \in Pets : petId2PortMap[q] # o
    BY <2>1, SpawnerAssumption DEF PortMapsAgree
  <2>3. \A r \in Ports : port2PetIdMap[r] # p
    BY <1>2, SpawnerAssumption DEF PortMapsAgree
  <2> QED
    BY <2>1, <2>2, <2>3, SpawnerAssumption DEF SpawnerTypeOK, PortMapsAgree
<1> QED
  BY <1>1, <1>2

\* releaseOpcPort takes the agent out of both maps and leaves the others alone.
LEMMA ReleaseMaps ==
  ASSUME SpawnerTypeOK, PortMapsAgree, NEW p \in Pets, releaseOpcPort(p)
  PROVE  /\ petId2PortMap' \in [Pets -> Ports \cup {None}]
         /\ port2PetIdMap' \in [Ports -> Pets \cup {None}]
         /\ PortMapsAgree'
         /\ petId2PortMap'[p] = None
         /\ \A q \in Pets \ {p} : petId2PortMap'[q] = petId2PortMap[q]
<1>1. /\ petId2PortMap' = [petId2PortMap EXCEPT ![p] = None]
      /\ port2PetIdMap' = [o \in Ports |-> IF o = petId2PortMap[p] THEN None
                                                                   ELSE port2PetIdMap[o]]
  BY DEF releaseOpcPort
<1>2. \A q \in Pets, o \in Ports : petId2PortMap[q] = o <=> port2PetIdMap[o] = q
  BY DEF PortMapsAgree
<1> QED
  BY <1>1, <1>2, SpawnerAssumption DEF SpawnerTypeOK, PortMapsAgree

-----------------------------------------------------------------------------
(* The steps. *)

LEMMA LoadIsSafe ==
  ASSUME SpawnerSafe, NEW p \in Pets, LOAD_AGENT(p)
  PROVE  SpawnerSafe'
<1> USE DEF SpawnerSafe
<1>1. PICK o \in Ports, i \in Procs :
        /\ allocateOpcPort(p, o)
        /\ opc[i] = None
        /\ opc' = [opc EXCEPT ![i] = [pet |-> p, port |-> o, state |-> "starting"]]
  BY DEF LOAD_AGENT
<1>2. UNCHANGED <<login, saveAndExit, unloading, proxy>>
  BY DEF LOAD_AGENT
<1>3. /\ petId2PortMap' \in [Pets -> Ports \cup {None}]
      /\ port2PetIdMap' \in [Ports -> Pets \cup {None}]
      /\ PortMapsAgree'
      /\ petId2PortMap'[p] = o
      /\ \A q \in Pets \ {p} : petId2PortMap'[q] = petId2PortMap[q] /\ petId2PortMap[q] # o
  BY <1>1, AllocateMaps
<1>4. [pet |-> p, port |-> o, state |-> "starting"] \in Process
  BY DEF Process
<1>5. opc' \in [Procs -> Process \cup {None}]
  BY <1>1, <1>4 DEF SpawnerTypeOK
<1>6. SpawnerTypeOK'
  BY <1>2, <1>3, <1>5 DEF SpawnerTypeOK
<1>7. /\ opc'[i] = [pet |-> p, port |-> o, state |-> "starting"]
      /\ \A j \in Procs \ {i} : opc'[j] = opc[j]
  BY <1>1 DEF SpawnerTypeOK
<1>8. /\ \A j \in Procs \ {i} : Leaving(j)' = Leaving(j)
      /\ ~Leaving(i)'
  BY <1>7 DEF Leaving, Is
<1>9. \A j \in Procs : opc[j] # None => opc[j].pet \in Pets /\ opc[j].port # None
  BY ProcessFacts
<1>10. /\ proxy # "hasty" => unloading = {} /\ petId2PortMap[p] = None
       /\ proxy = "slow" => \A j \in Procs : ~Leaving(j)
  BY DEF LOAD_AGENT
<1>11. proxy # "hasty" =>
         \A j \in Procs \ {i} : opc[j] # None /\ ~Leaving(j) => opc[j].pet # p /\ opc[j].port # o
  BY <1>3, <1>9, <1>10 DEF ProcessesMatchMaps
<1>12. ProcessesMatchMaps'
  <2> SUFFICES ASSUME proxy # "hasty", NEW j \in Procs, opc'[j] # None, ~Leaving(j)'
               PROVE  /\ \A k \in Procs : opc'[k] # None /\ ~Leaving(k)' /\ opc'[j].pet = opc'[k].pet
                                           => j = k
                      /\ petId2PortMap'[opc'[j].pet] = opc'[j].port \/ opc'[j].pet \in unloading'
    BY <1>2 DEF ProcessesMatchMaps
  <2>1. CASE j = i
    BY <1>3, <1>7, <1>8, <1>11, <2>1
  <2>2. CASE j # i
    <3>1. opc'[j] = opc[j] /\ ~Leaving(j) /\ opc[j].pet \in Pets \ {p}
      BY <1>7, <1>8, <1>9, <1>11, <2>2
    <3>2. petId2PortMap'[opc'[j].pet] = opc'[j].port \/ opc'[j].pet \in unloading'
      BY <1>2, <1>3, <3>1 DEF ProcessesMatchMaps
    <3>3. ASSUME NEW k \in Procs, opc'[k] # None, ~Leaving(k)', opc'[j].pet = opc'[k].pet
          PROVE  j = k
      <4>1. k # i
        BY <1>7, <3>1, <3>3
      <4>2. opc'[k] = opc[k] /\ ~Leaving(k)
        BY <1>7, <1>8, <3>3, <4>1
      <4> QED
        BY <3>1, <3>3, <4>2 DEF ProcessesMatchMaps
    <3> QED
      BY <3>2, <3>3
  <2> QED
    BY <2>1, <2>2
<1>13. PortIsAvailable'
  <2> SUFFICES ASSUME NEW j \in Procs, NEW k \in Procs,
                      proxy # "hasty", j # k, opc'[j] # None, opc'[k] # None,
                      opc'[j].port = opc'[k].port
               PROVE  proxy = "waits" /\ (Leaving(j)' \/ Leaving(k)')
    BY <1>2 DEF PortIsAvailable
  <2>1. CASE j # i /\ k # i
    BY <1>7, <1>8, <2>1 DEF PortIsAvailable
  <2>2. CASE j = i
    <3>1. k # i /\ opc[k] # None /\ opc[k].port = o
      BY <1>7, <2>2
    <3>2. Leaving(k)
      BY <1>11, <3>1
    <3> QED
      BY <1>8, <1>10, <3>1, <3>2 DEF SpawnerTypeOK, Proxies
  <2>3. CASE k = i
    <3>1. j # i /\ opc[j] # None /\ opc[j].port = o
      BY <1>7, <2>3
    <3>2. Leaving(j)
      BY <1>11, <3>1
    <3> QED
      BY <1>8, <1>10, <3>1, <3>2 DEF SpawnerTypeOK, Proxies
  <2> QED
    BY <2>1, <2>2, <2>3
<1> QED
  BY <1>3, <1>6, <1>12, <1>13

LEMMA UnloadIsSafe ==
  ASSUME SpawnerSafe, NEW p \in Pets, UNLOAD_AGENT(p)
  PROVE  SpawnerSafe'
<1> USE DEF SpawnerSafe
<1>1. /\ releaseOpcPort(p)
      /\ unloading' = IF proxy = "hasty" THEN {} ELSE unloading \cup {p}
      /\ UNCHANGED <<opc, login, proxy>>
  BY DEF UNLOAD_AGENT
<1>2. saveAndExit' \subseteq Pets
  BY DEF UNLOAD_AGENT, sendSaveAndExit, SpawnerTypeOK
<1>3. /\ petId2PortMap' \in [Pets -> Ports \cup {None}]
      /\ port2PetIdMap' \in [Ports -> Pets \cup {None}]
      /\ PortMapsAgree'
      /\ petId2PortMap'[p] = None
      /\ \A q \in Pets \ {p} : petId2PortMap'[q] = petId2PortMap[q]
  BY <1>1, ReleaseMaps
<1>4. SpawnerTypeOK'
  BY <1>1, <1>2, <1>3 DEF SpawnerTypeOK
<1>5. \A j \in Procs : /\ Leaving(j)' = Leaving(j)
                       /\ opc[j] # None => opc[j].pet \in Pets
  BY <1>1, ProcessFacts DEF Leaving, Is
<1>6. ProcessesMatchMaps'
  BY <1>1, <1>3, <1>5 DEF ProcessesMatchMaps
<1>7. PortIsAvailable'
  BY <1>1, <1>5 DEF PortIsAvailable
<1> QED
  BY <1>3, <1>4, <1>6, <1>7

\* What the processes do themselves: one of them ends or changes its state, and does not
\* come back once it has answered.  An answer is taken off the proxy's list only when the
\* process that gives it leaves.
ProcessStep(i) ==
  /\ opc[i] # None
  /\ opc' \in [Procs -> Process \cup {None}]
  /\ \A j \in Procs \ {i} : opc'[j] = opc[j]
  /\ opc'[i] # None => /\ opc'[i].pet = opc[i].pet /\ opc'[i].port = opc[i].port
                       /\ Leaving(i) => Leaving(i)'
  /\ UNCHANGED <<petId2PortMap, port2PetIdMap, proxy>>
  /\ login' \in [Pets -> Procs \cup {None}]
  /\ saveAndExit' \subseteq saveAndExit
  /\ \/ unloading' = unloading
     \/ /\ ~Leaving(i) /\ (opc'[i] # None => Leaving(i)')
        /\ unloading' = unloading \ {opc[i].pet}

LEMMA ProcessStepIsSafe ==
  ASSUME SpawnerSafe, NEW i \in Procs, ProcessStep(i)
  PROVE  SpawnerSafe'
<1> USE DEF SpawnerSafe, ProcessStep
<1>1. SpawnerTypeOK'
  BY DEF SpawnerTypeOK
<1>2. PortMapsAgree'
  BY DEF PortMapsAgree
<1>3. \A j \in Procs : opc'[j] # None =>
        /\ opc[j] # None /\ opc'[j].pet = opc[j].pet /\ opc'[j].port = opc[j].port
        /\ Leaving(j) => Leaving(j)'
  BY DEF Leaving, Is
<1>4. ProcessesMatchMaps'
  <2> SUFFICES ASSUME proxy # "hasty", NEW j \in Procs, opc'[j] # None, ~Leaving(j)'
               PROVE  /\ \A k \in Procs : opc'[k] # None /\ ~Leaving(k)' /\ opc'[j].pet = opc'[k].pet
                                           => j = k
                      /\ petId2PortMap'[opc'[j].pet] = opc'[j].port \/ opc'[j].pet \in unloading'
    BY DEF ProcessesMatchMaps
  <2>1. /\ opc[j] # None /\ ~Leaving(j) /\ opc'[j].pet = opc[j].pet /\ opc'[j].port = opc[j].port
    BY <1>3
  <2>2. ASSUME NEW k \in Procs, opc'[k] # None, ~Leaving(k)', opc'[j].pet = opc'[k].pet
        PROVE  j = k
    <3>1. opc[k] # None /\ ~Leaving(k) /\ opc'[k].pet = opc[k].pet
      BY <1>3, <2>2
    <3> QED
      BY <2>1, <2>2, <3>1 DEF ProcessesMatchMaps
  <2>3. petId2PortMap[opc[j].pet] = opc[j].port \/ opc[j].pet \in unloading
    BY <2>1 DEF ProcessesMatchMaps
  <2>4. \/ unloading' = unloading
        \/ opc[j].pet # opc[i].pet /\ unloading' = unloading \ {opc[i].pet}
    <3>1. ASSUME ~Leaving(i), opc'[i] # None => Leaving(i)', unloading' = unloading \ {opc[i].pet}
          PROVE  opc[j].pet # opc[i].pet
      <4>1. j # i
        BY <3>1
      <4> QED
        BY <2>1, <3>1, <4>1 DEF ProcessesMatchMaps
    <3> QED
      BY <3>1
  <2> QED
    BY <2>1, <2>2, <2>3, <2>4
<1>5. PortIsAvailable'
  BY <1>3 DEF PortIsAvailable
<1> QED
  BY <1>1, <1>2, <1>4, <1>5

\* A process that only changes its state keeps its agent and its port.
LEMMA StateChanges ==
  ASSUME SpawnerTypeOK, NEW i \in Procs, opc[i] # None,
         NEW s \in {"starting", "running", "leaving", "out"},
         opc' = [opc EXCEPT ![i].state = s]
  PROVE  /\ opc' \in [Procs -> Process \cup {None}]
         /\ \A j \in Procs \ {i} : opc'[j] = opc[j]
         /\ opc'[i].pet = opc[i].pet /\ opc'[i].port = opc[i].port /\ opc'[i].state = s
<1>1. opc[i] \in Process
  BY ProcessFacts
<1>2. /\ opc'[i] = [opc[i] EXCEPT !.state = s]
      /\ \A j \in Procs \ {i} : opc'[j] = opc[j]
      /\ DOMAIN opc' = Procs
  BY DEF SpawnerTypeOK
<1>3. /\ opc'[i] \in Process /\ opc'[i].pet = opc[i].pet /\ opc'[i].port = opc[i].port
      /\ opc'[i].state = s
  BY <1>1, <1>2 DEF Process
<1> QED
  BY <1>2, <1>3 DEF SpawnerTypeOK

LEMMA InitIsSafe == Init => SpawnerSafe
<1> SUFFICES ASSUME Init PROVE SpawnerSafe
  OBVIOUS
<1>1. SpawnerTypeOK
  BY DEF Init, SpawnerTypeOK
<1>2. PortMapsAgree
  BY SpawnerAssumption DEF Init, PortMapsAgree
<1>3. \A i \in Procs : opc[i] = None
  BY DEF Init
<1> QED
  BY <1>1, <1>2, <1>3 DEF SpawnerSafe, ProcessesMatchMaps, PortIsAvailable

LEMMA NextIsSafe == SpawnerSafe /\ [Next]_vars => SpawnerSafe'
<1> SUFFICES ASSUME SpawnerSafe, [Next]_vars PROVE SpawnerSafe'
  OBVIOUS
<1> USE DEF SpawnerSafe
<1>1. ASSUME NEW p \in Pets, LOAD_AGENT(p) PROVE SpawnerSafe'
  BY <1>1, LoadIsSafe
<1>2. ASSUME NEW p \in Pets, UNLOAD_AGENT(p) PROVE SpawnerSafe'
  BY <1>2, UnloadIsSafe
<1>3. ASSUME NEW i \in Procs, Initialize(i) PROVE SpawnerSafe'
  <2>1. /\ opc[i] # None /\ ~Leaving(i)
        /\ opc' = [opc EXCEPT ![i].state = "running"]
        /\ login' = [login EXCEPT ![opc[i].pet] = i]
        /\ UNCHANGED <<petId2PortMap, port2PetIdMap, proxy, saveAndExit, unloading>>
    BY <1>3 DEF Initialize, Is, Leaving, maps
  <2>2. login' \in [Pets -> Procs \cup {None}]
    BY <2>1 DEF SpawnerTypeOK
  <2>3. ProcessStep(i)
    BY <2>1, <2>2, StateChanges DEF ProcessStep
  <2> QED
    BY <2>3, ProcessStepIsSafe
<1>4. ASSUME NEW i \in Procs, BindFails(i) \/ Exit(i) \/ Crash(i) PROVE SpawnerSafe'
  <2>1. /\ opc[i] # None
        /\ opc' = [opc EXCEPT ![i] = None]
        /\ login' = login \/ login' = [login EXCEPT ![opc[i].pet] = IF @ = i THEN None ELSE @]
        /\ UNCHANGED <<petId2PortMap, port2PetIdMap, proxy, saveAndExit, unloading>>
    BY <1>4 DEF BindFails, Exit, Crash, Is, maps
  <2>2. login' \in [Pets -> Procs \cup {None}]
    BY <2>1 DEF SpawnerTypeOK
  <2>3. ProcessStep(i)
    BY <2>1, <2>2 DEF ProcessStep, SpawnerTypeOK
  <2> QED
    BY <2>3, ProcessStepIsSafe
<1>5. ASSUME NEW i \in Procs, SaveAndExit(i) PROVE SpawnerSafe'
  <2>1. /\ opc[i] # None /\ ~Leaving(i)
        /\ opc' = [opc EXCEPT ![i].state = "leaving"]
        /\ unloading' = unloading \/ unloading' = unloading \ {opc[i].pet}
        /\ UNCHANGED <<petId2PortMap, port2PetIdMap, proxy, login>>
        /\ saveAndExit' \subseteq saveAndExit
    BY <1>5 DEF SaveAndExit, Is, Leaving, maps
  <2>2. login' \in [Pets -> Procs \cup {None}]
    BY <2>1 DEF SpawnerTypeOK
  <2>3. opc'[i] # None => Leaving(i)'
    BY <2>1, StateChanges DEF Leaving, Is
  <2>4. ProcessStep(i)
    BY <2>1, <2>2, <2>3, StateChanges DEF ProcessStep
  <2> QED
    BY <2>4, ProcessStepIsSafe
<1>6. ASSUME NEW i \in Procs, Logout(i) PROVE SpawnerSafe'
  <2>1. /\ opc[i] # None
        /\ opc' = [opc EXCEPT ![i].state = "out"]
        /\ login' = [login EXCEPT ![opc[i].pet] = None]
        /\ UNCHANGED <<petId2PortMap, port2PetIdMap, proxy, unloading>>
        /\ saveAndExit' \subseteq saveAndExit
    BY <1>6 DEF Logout, Is, maps
  <2>2. login' \in [Pets -> Procs \cup {None}]
    BY <2>1 DEF SpawnerTypeOK
  <2>3. opc'[i] # None => Leaving(i)'
    BY <2>1, StateChanges DEF Leaving, Is
  <2>4. ProcessStep(i)
    BY <2>1, <2>2, <2>3, StateChanges DEF ProcessStep
  <2> QED
    BY <2>4, ProcessStepIsSafe
<1>7. CASE UNCHANGED vars
  BY <1>7 DEF vars, SpawnerTypeOK, PortMapsAgree, ProcessesMatchMaps, PortIsAvailable, Leaving, Is
<1> QED
  BY <1>1, <1>2, <1>3, <1>4, <1>5, <1>6, <1>7 DEF Next, OPC

-----------------------------------------------------------------------------
(* The theorems. *)

\* The inductive invariant holds in every state of the Spawner and its processes.
THEOREM AlwaysSafe == Spec => []SpawnerSafe
BY InitIsSafe, NextIsSafe, PTL DEF Spec

\* Loads, unloads, failures to bind, exits and crashes keep the types of the Spawner's
\* maps and of the processes.
THEOREM SpawnerTypes == Spec => []SpawnerTypeOK
<1>1. SpawnerSafe => SpawnerTypeOK
  BY DEF SpawnerSafe
<1> QED
  BY <1>1, AlwaysSafe, PTL

\* petId2PortMap and port2PetIdMap agree after any sequence of allocateOpcPort and
\* releaseOpcPort, for any number of agents and any range of ports.
THEOREM MapsAgree == Spec => []PortMapsAgree
<1>1. SpawnerSafe => PortMapsAgree
  BY DEF SpawnerSafe
<1> QED
  BY <1>1, AlwaysSafe, PTL

\* With a proxy that waits for SUCCESS UNLOAD two processes have one port only while one of
\* them has answered and not exited yet, and with one that waits for the exit never, although
\* UNLOAD_AGENT releases the port at once.
THEOREM PortsAreNotShared == Spec => []PortIsAvailable
<1>1. SpawnerSafe => PortIsAvailable
  BY DEF SpawnerSafe
<1> QED
  BY <1>1, AlwaysSafe, PTL
=============================================================================
