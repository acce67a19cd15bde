SPECIFICATION Spec
CONSTANTS
  Backends = {b1, b2, b3}
  Nobody = nobody
  MaxSandboxes = 3
  MaxFaults = 2
INVARIANTS
  UsersKeepTheirSandbox
  SharedIsOne
  ClosingDeletesAll
  OnlyCancellationWedges
PROPERTIES
  NoEventIsLost
SYMMETRY Symmetry
CHECK_DEADLOCK FALSE
