SPECIFICATION FairSpec
CONSTANTS
  Calls = {c1, c2}
  Kinds = {"gateway", "coordinator", "job", "monolith"}
  Settings <- MCSettings
  DefaultThreads = 2
  FallbackThreads = 3
  NodeThreads = 3
  GivenThreads = 2
  MaxNested = 2
  Timeout = 3
  Grace = 2
INVARIANTS
  TypeOK
  LoopbackCallsAreInTime
  UpstreamsFollowTheEnvironment
PROPERTIES
  AcceptedCallsEnd
CHECK_DEADLOCK FALSE
