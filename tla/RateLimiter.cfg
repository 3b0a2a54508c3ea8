SPECIFICATION Spec
CONSTANTS
  Clients = {a, b}
  Edges = {e, f}
  Blank = Blank
  Ports = {1, 2}
  Procs = {p, q}
  Limit = 2
  Window = 2
  TicksPerSecond = 1
  MaxTracked = 1
  MaxDelay = 1
  MaxClock = 5
  MaxRequests = 8
SYMMETRY Symmetry
INVARIANT TypeOK
INVARIANT IInv
INVARIANT SlidingBound
PROPERTY DenialJustified
PROPERTY NoEarlyRefill
