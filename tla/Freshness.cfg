CONSTANTS
  Adapters = {1, 2}
  Resources = {r}
  Categories = {c}
  Amounts = {m, n}
  Hosts = {h}
  Lines <- AllLines
  Entries <- SomeEntries
  MaxLines = 1
  MaxEntries = 1
  MaxReads <- DeepReads
  None = None
SPECIFICATION Spec
INVARIANTS
  UnreadIsNotLive
  FiledUnderItsOwn
PROPERTIES
  FreshnessFollowsTheRead
