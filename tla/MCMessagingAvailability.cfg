SPECIFICATION MessagingSpec
CONSTANTS
  a = a
  b = b
  c = c
  Elements = {a, b, c}
  Router = Router
  None = None
  NoElement = NoElement
  Started = {a, b, c}
  Resetting = {}
  Spawner = NoElement
  Proxy = c
  Internal = {a}
  MaxRequests = 1
  MaxNews = 4
  Budget <- MCBudget
  Starts = 0
  Sends = 2
  Crashes = 2
  Logouts = 1
  Clears = 0
  Periods = 0
  RouterCrashes = 0
CHECK_DEADLOCK FALSE
INVARIANT UnavailabilitySpreads
