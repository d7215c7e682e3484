SPECIFICATION Spec
CONSTANTS
  Server <- TwoServers
  Name <- SomeNames
  Joined <- SomeJoined
  ListAllTools = "list_all_tools"
  CallDeferredTool = "call_deferred_tool"
  DefaultLazyLoadLimit = 1
  Request <- FourRequests
  RingSize = 2
  None = None
  Call <- TwoCalls
  MaxSessions = 3
  Nobody = Nobody
  Setups <- Forced
INVARIANT
  NoToolIsDropped
CHECK_DEADLOCK FALSE
