CONSTANTS
  Fixtures <- SomeFixtures
  Records = {"x", "y", "z", "w"}
  Moneys = {1, 2}
  Notes = {1, 2}
  Honest = 1
  MaxFaults = 2
  MaxPages = 4
SPECIFICATION Spec
CONSTRAINT Undecided
INVARIANTS
  HonestPasses
  PassIsEarned
CHECK_DEADLOCK FALSE
