SPECIFICATION Spec
CONSTANTS
  Tasks = {t1, t2, t3}
  Closers = {c1, c2}
  TTL = ttl
  NoOne = none
  Kinds = {"info", "file", "pause", "resume"}
  WorkSlots = 1
  HistoryInSandbox = FALSE
  Renews = FALSE
  MaxLate = 1
SYMMETRY Symmetry
INVARIANTS
  AccountsBalance
  DrainedDeletion
  ClosedMeansDeleted
  FailedCloseReadmits
PROPERTIES
  LifecycleReportsTruth
  NoAdmissionAfterClose
  FailedDeletionReadmits
