SPECIFICATION PushSpec
CONSTANTS
  Owners = {u1}
  Anon = {a1}
  Second = {}
  Broadcasts = {b1, b2}
  MaxTokens = 2
PROPERTY EveryoneDueIsPicked
CHECK_DEADLOCK FALSE
