CONSTANTS
  LocalIds = {x}
  Resources = {r1}
  Surfaces = {1}
  Contents = {c1}
  Times = {1}
  Derivations = {d1}
  EmptyDerivation = e
  Fingerprints = {f1, f2}
  Vantages = {v1}
  Cursors = {k1}
  Unorderable = Unorderable
  None = None
  Hosts = {h1, h2}
  Options <- MayResume
  BalanceTaints = {FALSE}
  Reportable <- OneReport
  HistoryStarts = {None}
  PageFaults = {}
  Degradable = {}
  Resumables = {"exact", "batch_restart"}
  MaxPages = 2
  PageCap = 1
  MaxListed = 1
  MaxCrawls = 3
SPECIFICATION Spec
SYMMETRY HostSymmetry
INVARIANTS
  TypeOK
  RevisionsAreArrivalOrder
  SnapshotCurrent
  ResumesWhereItStopped
  RetractionLicensed
PROPERTIES
  NoRetractionOnceViolated
  BlameFollowsTheLastSighting
