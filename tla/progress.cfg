SPECIFICATION AnySpec
CONSTANTS
  MaxLogins = 1
  MaxGen = 1
  MaxOpen = 2
  MaxEvents = 2
  Strict = TRUE
  None = None
  Contexts = {web, upload}
  WebView = web
  Jobs = {j1, j2}
  Threads = 2
  RecoveryJobs = 1
  MaxFaults = 1
  Uploads = {up1, up2}
  MaxPending = 1
  Pingbacks = 2
  MaxFreezes = 1
  Attempts = {at1, at2}
  MaxReports = 1
  MaxEnqueued = 2
  MaxRedelivered = 1
INVARIANTS
  ProgressTypeOK ReuseIsExplained RunsOnce BoredExitSparesWork
PROPERTIES
  StaleLoginIsCorrected PoolAnswersEveryTask WorkKeepsMachineAwake FinishedStays EveryJobEnds
CHECK_DEADLOCK FALSE
