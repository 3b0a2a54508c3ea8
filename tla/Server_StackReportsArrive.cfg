SPECIFICATION Spec
CONSTANTS
  Clients = {a, b}
  Edges = {e, f}
  Blank = Blank
  Ports = {1}
  Procs = {p}
  Limit = 1
  Window = 2
  TicksPerSecond = 1
  MaxTracked = 1
  MaxDelay = 0
  MaxClock = 10
  MaxRequests = 1
  SelfCallers = {a}
  Settings <- LoudSettings
  Forms <- LargeStack
  Traces <- NoTraces
  Results <- SilentResults
  UpstreamTimeout = 1
  WriteTimeout = 6
  LastArrival = 0
  MaxPages = 1
PROPERTY StackReportsArrive
