CONSTANTS
  Calls = {hello, a, b, c}
  Hello = hello
  MaxInFlight = 2
  QueueCapacity = 1
  IdLimit = 3
  MaxFrames = 1
  Strays = {}
  Behaviours = {"partial", "deaf", "read_error"}
  None = None
SPECIFICATION FairSpec
INVARIANTS TypeOK NoCrossAttribution PermitsAreConserved HonestIsNotCharged
PROPERTIES EveryCallReturns
CHECK_DEADLOCK FALSE
