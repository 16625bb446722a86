CONSTANTS
  Calls = {hello, a}
  Hello = hello
  MaxInFlight = 2
  QueueCapacity = 1
  IdLimit = 2
  MaxFrames = 1
  Strays = {2}
  Behaviours = {"dies", "deaf", "forks", "ignores_eof"}
  None = None
SPECIFICATION FairSpec
INVARIANTS ExitedMeansClean
PROPERTIES VerdictSpec CaughtMeansEnded
CHECK_DEADLOCK FALSE
