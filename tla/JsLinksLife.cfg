SPECIFICATION Spec
CONSTANTS
  Peer = {p, q}
  MaxConns = 2
  MaxTicks = 2
  Crossed = FALSE
  Astray = FALSE
  Again = FALSE
INVARIANTS
  RegistryMatches UpOnce OpenHasLink Plumbed Connected
SYMMETRY Symmetry
CHECK_DEADLOCK FALSE
