SPECIFICATION Spec
CONSTANTS
  Clients = {a, b, c}
  Edges = {e, f}
  Blank = Blank
  Ports = {1, 2}
  Procs = {p}
  Limit = 2
  Window = 3
  TicksPerSecond = 2
  MaxTracked = 1
  MaxDelay = 1
  MaxClock = 8
  MaxRequests = 6
SYMMETRY Symmetry
INVARIANT MapBounded
