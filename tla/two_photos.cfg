SPECIFICATION Spec
CONSTANTS
  Clients = {c1}
  PageClients = {}
  Retriers = {}
  Files = {f1, f2}
  Ids = {i1, i2, i3}
  None = None
  MaxVersion = 1
  MaxSecond = 0
  MaxTasks = 1
  NotifyAttempts = 2
  MaxDisturbances = 2
SYMMETRY Symmetry
INVARIANTS IInv ServerIdOfSameFile
