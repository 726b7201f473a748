SPECIFICATION FairServingSpec
CONSTANTS
  r1 = r1  r2 = r2  p1 = p1  k1 = k1  k2 = k2
  NoKid = NoKid  NoMessage = NoMessage
  Callers = {r1, r2}
  Probes = {p1}
  Kids = {k1, k2}
  KeySets <- MCKeySets
  Traffic <- MCTraffic
  MaxSlots = 1
  Writer = TRUE
  TTL = 2
  FetchTimeout = 1
  ReadinessTTL = 2
  UnknownRetry = 1
  ErrorRetry = 1
INVARIANTS SlotsReturned OnlyEntitled ClientKnows
PROPERTIES EveryRequestAnswered KeysTrusted
