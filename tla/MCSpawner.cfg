CONSTANTS
  p1 = p1
  p2 = p2
  p3 = p3
  None = None
  Pets = {p1, p2, p3}
  minOpcPort = 1
  maxOpcPort = 2
  Procs = {1, 2}
  MayCrash = {p3}
SPECIFICATION SpawnerSpec
INVARIANTS SpawnerTypeOK PortMapsAgree PortIsAvailable
PROPERTIES LoadedAgentsRun UnloadedAgentsEnd
CHECK_DEADLOCK FALSE
