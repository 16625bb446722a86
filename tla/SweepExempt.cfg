CONSTANTS
  LocalIds = {x, y}
  Resources = {r1}
  Surfaces = {1}
  Contents = {c1}
  Times = {1, 2}
  Derivations = {d1}
  EmptyDerivation = e
  Fingerprints = {f1}
  Vantages = {v1, v2}
  Cursors = {}
  Unorderable = Unorderable
  None = None
  Hosts = {h1}
  Options <- MayConfirm
  BalanceTaints = {FALSE}
  Reportable <- ThreeAges
  HistoryStarts = {2}
  PageFaults = {}
  Degradable = {x}
  Resumables = {"exact"}
  MaxPages = 1
  PageCap = 2
  MaxListed = 1
  MaxCrawls = 2
SPECIFICATION Spec
PROPERTIES
  CompleteSweepSettles
  ExemptRecordsSurvive
