CONSTANTS
  LocalIds = {x}
  Resources = {r1, r2}
  Surfaces = {1}
  Contents = {c1}
  Times = {1}
  Derivations = {d1, e}
  EmptyDerivation = e
  Fingerprints = {f1}
  Vantages = {v1}
  Cursors = {k1}
  Unorderable = Unorderable
  None = None
  Hosts = {h1}
  Options <- Confirming
  BalanceTaints = {FALSE, TRUE}
  Reportable <- OneReport
  HistoryStarts = {None}
  PageFaults = {"not_fetched", "anonymous", "foreign"}
  Degradable = {}
  Resumables = {"exact", "batch_restart", "none"}
  MaxPages = 1
  PageCap = 1
  MaxListed = 2
  MaxCrawls = 2
SPECIFICATION FairSpec
PROPERTIES
  NoRetractionOnceViolated
  LastSweepOwnsTheRecord
  RefreshEnds
