SPECIFICATION Spec
CONSTANTS
  Clients = {c1, c2}
  PageClients = {}
  Retriers = {}
  Files = {f1}
  Ids = {i1, i2}
  None = None
  MaxVersion = 1
  MaxSecond = 0
  MaxTasks = 2
  NotifyAttempts = 2
  MaxDisturbances = 0
SYMMETRY DeviceSymmetry
PROPERTIES ImplementsPromise
