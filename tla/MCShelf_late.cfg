SPECIFICATION Spec
CONSTANTS
  Machine = {m1, m2}
  Filler = {r1}
  Nobody = Nobody
  Target = 1
  MaxPerSweep = 1
  MaxCrashes = 0
  LostAnswers = FALSE
  LateReports = TRUE
INVARIANT RowsWithoutMachineHeal
