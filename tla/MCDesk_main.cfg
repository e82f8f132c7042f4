SPECIFICATION Spec
CONSTANTS
  Tab = {b1}
  Trigger = {t1, t2}
  Builds = 3
  Kid = {k1, k2}
  Lookup = {l1, l2}
  Ttl = 2
  NegTtl = 1
  MaxEntries = 1
  Pooled = {p1}
  Own = Own
  Device = {d1}
  Nobody = Nobody
  Open = {o1}
  Reset = {r1}
  Spare = {m1}
  Filler = {f1}
  Target = 1
  MaxPerSweep = 1
  MaxCrashes = 2
  LostAnswers = TRUE
  LateReports = TRUE
INVARIANTS
  TypeOK
  OneWake
  WorkIsHeld
  ReadyCanStart
  NoMixedBuild
  RevokedIsRefused
PROPERTIES
  Reachable
  HoldsLapse
  UpdatesArrive
  RefusedInTheEnd
  ResetSucceeds
  StaleIsSettled
  HoldsEnd
  InstallIsHeld
