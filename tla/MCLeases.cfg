SPECIFICATION Spec
CONSTANTS
  Holders = {h1, h2}
  Owners = {o1, o2}
  NoLease = nolease
  PerSecond = 2
  TTL = 3
  MaxTime = 7
INVARIANTS
  OneHolderAtATime
PROPERTIES
  TheftIsNoticed
