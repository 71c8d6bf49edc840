SPECIFICATION MessagingSpec
CONSTANTS
  a = a
  b = b
  Elements = {a, b}
  Router = Router
  None = None
  NoElement = NoElement
  Started = {a, b}
  Resetting = {}
  Spawner = NoElement
  Proxy = NoElement
  Internal = {}
  MaxRequests = 1
  MaxNews = 4
  Budget <- MCBudget
  Starts = 0
  Sends = 3
  Crashes = 0
  Logouts = 0
  Clears = 0
  Periods = 0
  RouterCrashes = 0
CHECK_DEADLOCK FALSE
INVARIANT CountersAreExact
INVARIANT InOrder
PROPERTY EveryMessageIsRead
