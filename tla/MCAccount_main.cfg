SPECIFICATION Spec
CONSTANTS
  Pooled = {p1}
  Own = Own
  Device = {d1, d2}
  Nobody = Nobody
  Open = {x1, x2}
  Reset = {y1, y2}
  Computer = {A, B}
  NoInstall = NoInstall
  Code = {y1, y2}
  Linked = {d1, d2}
  NoDevice = NoDevice
  Approval = {x1, x2}
  Limit = 1
  Versions = 2
  MaxCandidates = 1
  Ttl = 2
  Spare = {d1, d2}
  Filler = {f1}
  Target = 1
  MaxPerSweep = 1
  MaxCrashes = 2
  LostAnswers = TRUE
  LateReports = TRUE
INVARIANTS
  OneEnvironment
  NothingUnnamed
  NoGhostDevice
  StandsUntilReset
  IdentityIsOwners
  InstallIsOne
  RefusedRelinkIsExcused
  PulledIsGone
  GivenIsOffShelf
  BuildsBounded
  FailedIsGone
  TableIsTrue
PROPERTIES
  LimitHolds
CONSTRAINT NoOverlap
SYMMETRY Symmetric
