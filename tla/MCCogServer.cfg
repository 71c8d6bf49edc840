CONSTANTS
  c1 = c1
  c2 = c2
  k1 = k1
  k2 = k2
  k3 = k3
  m1 = m1
  m2 = m2
  Main = Main
  None = None
  Clients = {c1, c2}
  Kinds = {k1, k2, k3}
  Modules = {m1, m2}
  Registers <- MCRegisters
  Frequency <- MCFrequency
  Initially <- MCInitially
  Script <- ShellAndData
  MayHangUp = {c2}
  MaxAgents = 2
  CycleBound = 1
SPECIFICATION ServerSpec
INVARIANTS ShellBeforeNextLine RequestsInOrder AgentsHaveCode ActivityOfLiveAgents
PROPERTIES RequestsAreServed ShellReturns
CHECK_DEADLOCK FALSE
