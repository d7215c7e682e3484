SPECIFICATION FairSpec
CONSTANTS
  Server <- TwoServers
  Name <- SomeNames
  Joined <- SomeJoined
  ListAllTools = "list_all_tools"
  CallDeferredTool = "call_deferred_tool"
  DefaultLazyLoadLimit = 1
  Request <- FourRequests
  RingSize = 2
  None = None
  Call <- TwoCalls
  MaxSessions = 3
  Nobody = Nobody
  Setups <- AllSetups
INVARIANTS
  OnlyAllowedCalled
  AllowedIsReachable
  MostUsedAreDirect
  DroppedOnlyIfNamesMeet
  NothingUnvetted
  ScriptsEnd
  RecentIsLatest
  CountsKept
  OneSession
  RetriedOnlyAfterLoss
PROPERTIES
  CallReturns
CHECK_DEADLOCK FALSE
