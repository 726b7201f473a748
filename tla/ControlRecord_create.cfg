SPECIFICATION ControlSpec
CONSTANTS
  Clients = {"writer", "rival"}
  MaxAttempts = 2
  MaxWrites = 1
  Initial = 0
  NoValue = NoValue
INVARIANT CommittedIsStored
CHECK_DEADLOCK FALSE
