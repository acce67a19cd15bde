SPECIFICATION Spec
CONSTANTS
  Events = {e1}
  Consumers = {c1}
  Cleaners = {k1, k2}
  NoEvent = noevent
  NoOwner = noowner
  Attempts = 2
  MaxSeq = 3
  MaxStrays = 1
SYMMETRY Symmetry
INVARIANTS
  DoneOperationsAreLogged
  EndsAreFinal
  NothingBehindTheCursor
  CleanupsExclude
PROPERTIES
  ProtectedChangesStay
  RunningOperationsStay
