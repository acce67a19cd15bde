SPECIFICATION FairSpec
CONSTANTS
  Tasks = {t1, t2}
  Closers = {c1, c2}
  TTL = ttl
  NoOne = none
  Kinds = {"file", "pause"}
  WorkSlots = 1
  HistoryInSandbox = FALSE
  Renews = TRUE
  MaxLate = 0
PROPERTIES
  CloseReturns
  WaitersProceed
