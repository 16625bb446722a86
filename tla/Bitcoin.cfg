CONSTANTS
  a = a
  b = b
  Resources = {1, 2}
  Addresses = {a, b}
  Definitions <- SomeDefinitions
  Txids = {1, 2, 3}
  Touches <- SomeTouches
  MaxHeight = 2
  Heavy <- SomeHeavy
  Lean <- SomeLean
  StatusBytes = 1
  PageBudget = 4
  MaxObservation = 3
  MaxFrame = 7
  LineBytes = 1
  ReportBytes = 4
  ChainPage = 1
  Statuses = {"ok", "http_429", "transport", "stuck"}
  Evidence <- SomeEvidence
  ForeignCursors = {window}
  Duties <- Alone
  Starts <- SomeStarts
  MaxTime = 2
  MaxUses = 2
  MaxChanges = 1
  MaxFaults = 1
  Absent = Absent
  None = None
  Damaged = Damaged
SPECIFICATION FairSpec
INVARIANTS
  TypeOK
  SettledIsRead
  ConfirmedWins
  StaleWasRead
  RepliesFit
PROPERTIES
  CrawlSpec
  CrawlsEnd
CHECK_DEADLOCK FALSE
