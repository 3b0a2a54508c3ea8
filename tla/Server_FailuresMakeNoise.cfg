SPECIFICATION Spec
CONSTANTS
  Clients = {a, b}
  Edges = {e, f}
  Blank = Blank
  Ports = {1}
  Procs = {p}
  Limit = 1
  Window = 2
  TicksPerSecond = 1
  MaxTracked = 1
  MaxDelay = 0
  MaxClock = 6
  MaxRequests = 1
  SelfCallers = {a}
  Settings <- LoudSettings
  Forms <- CallForms
  Traces <- NoTraces
  Results <- CallResults
  UpstreamTimeout = 1
  WriteTimeout = 2
  LastArrival = 0
  MaxPages = 2
INVARIANT FailuresMakeNoise
