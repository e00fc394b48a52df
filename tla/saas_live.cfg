SPECIFICATION Spec
CONSTANTS
  None = None
  Charges = {c1}
  Admins = {w2}
  Hooks = {w1}
  Crons = {w2}
  Patches = {"active"}
  MaxMonth = 1
  MaxDay = 2
  Period = 1
  GenerateBefore = 1
  SuspendAfter = 1
  MaxFaults = 1
  AnswersLost = TRUE
CHECK_DEADLOCK FALSE
INVARIANTS Reported
PROPERTIES PaidIsConfirmed DebtorSuspended
