CONSTANTS
  Calls = {hello, a, b}
  Hello = hello
  MaxInFlight = 2
  QueueCapacity = 1
  IdLimit = 3
  MaxFrames = 2
  Strays = {}
  Behaviours = {"deaf"}
  None = None
SPECIFICATION Spec
SYMMETRY CallSymmetry
INVARIANTS OneAnswerIsNoDuplicate
CHECK_DEADLOCK FALSE
