SPECIFICATION Spec
CONSTANTS
  Clients = {c1}
  PageClients = {}
  Retriers = {c1}
  Files = {f1}
  Ids = {i1, i2}
  None = None
  MaxVersion = 1
  MaxSecond = 1
  MaxTasks = 2
  NotifyAttempts = 2
  MaxDisturbances = 1
INVARIANTS AuditTrailVerifies
