SPECIFICATION Spec
CONSTANTS
  Clients = {c1}
  PageClients = {}
  Retriers = {c1}
  Files = {f1}
  Ids = {i1, i2}
  None = None
  MaxVersion = 2
  MaxSecond = 0
  MaxTasks = 1
  NotifyAttempts = 2
  MaxDisturbances = 1
PROPERTIES DeletedRowKept
