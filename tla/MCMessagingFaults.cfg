SPECIFICATION MessagingSpec
CONSTANTS
  a = a
  b = b
  Elements = {a, b}
  Router = Router
  None = None
  NoElement = NoElement
  Started = {a}
  Resetting = {a}
  Spawner = a
  Proxy = NoElement
  Internal = {}
  MaxRequests = 1
  MaxNews = 1
  Budget <- MCBudget
  Starts = 1
  Sends = 1
  Crashes = 1
  Logouts = 0
  Clears = 1
  Periods = 1
  RouterCrashes = 1
CHECK_DEADLOCK FALSE
INVARIANT NeverTwice
