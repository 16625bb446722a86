CONSTANTS
  a = a
  b = b
  Resources = {1}
  Addresses = {a}
  Definitions <- OneDefinition
  Txids = {1}
  Touches <- OneTouches
  MaxHeight = 2
  Heavy <- OneByte
  Lean <- OneByte
  StatusBytes = 1
  PageBudget = 4
  MaxObservation = 3
  MaxFrame = 7
  LineBytes = 1
  ReportBytes = 4
  ChainPage = 1
  Statuses = {"ok", "http_429", "transport", "stuck"}
  Evidence <- SomeEvidence
  ForeignCursors = {}
  Duties = {{"history"}}
  Starts <- OneStart
  MaxTime = 2
  MaxUses = 1
  MaxChanges = 1
  MaxFaults = 0
  Absent = Absent
  None = None
  Damaged = Damaged
SPECIFICATION Spec
INVARIANTS SyncIsWhole
CHECK_DEADLOCK FALSE
