CONSTANTS
  LocalIds = {x}
  Resources = {r1}
  Surfaces = {1}
  Contents = {c1}
  Times = {1, 2}
  Derivations = {d1}
  EmptyDerivation = e
  Fingerprints = {f1, f2}
  Vantages = {v1}
  Cursors = {}
  Unorderable = Unorderable
  None = None
  Hosts = {h1}
  Options <- MayConfirm
  BalanceTaints = {FALSE}
  Reportable <- Tombstones
  HistoryStarts = {None}
  PageFaults = {}
  Degradable = {}
  Resumables = {"exact"}
  MaxPages = 1
  PageCap = 1
  MaxListed = 1
  MaxCrawls = 3
SPECIFICATION Spec
INVARIANTS
  ObservedNotBuried
  RetractionCutsChain
  RulesAreTheHeads
PROPERTIES
  HistoryIsAppendOnly
