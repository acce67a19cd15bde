SPECIFICATION ServiceSpec
CONSTANTS
  Files = {a, b, c}
  MaxOthers = 2
SYMMETRY Symmetry
INVARIANTS
  SuccessIsComplete
  ExistingFilesStay
  OriginalsAreKept
  RollbackLosesAtMostOne
  AtomicKeepsOneVersion
  FailureRestores
  SuccessIsInPlace
  WhatIsReadStays
CHECK_DEADLOCK FALSE
