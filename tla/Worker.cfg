SPECIFICATION WorkerSpec
CONSTANTS
  Clients = {"writer", "rival"}
  MaxAttempts = 2
  MaxWrites = 2
  Initial = 1
  NoValue = NoValue
  Callers = {"c1", "c2", "c3"}
  Hurried = {"c3"}
  MaxLimit = 3
  Streak = 2
  MaxTries = 2
  Paths = {"p1", "p2"}
  Fresh = {"p2"}
  MaxEdits = 2
  EventCap = 1
  FiredCap = 1
  Directory = "directory"
  NoPath = "none"
  BatchSize = 2
  MaxPoints = 5
  MaxFlushes = 2
INVARIANTS WorkerTypeOK CommittedIsStored SlotsAccounted NoIdleSlot ChangeReachesSync IdleMeansSynced
PROPERTIES ImplementsRegister FlushMeansSettled WorkerProgress
CHECK_DEADLOCK FALSE
