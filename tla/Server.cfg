SPECIFICATION FairSpec
CONSTANTS
  Clients = {a, b}
  Edges = {e}
  Blank = Blank
  Ports = {1}
  Procs = {p, q}
  Limit = 1
  Window = 4
  TicksPerSecond = 2
  MaxTracked = 1
  MaxDelay = 0
  MaxClock = 4
  MaxRequests = 2
  SelfCallers = {a}
  Settings <- ServerSettings
  Forms <- ServerForms
  Traces <- NoTraces
  Results <- ServerResults
  UpstreamTimeout = 1
  WriteTimeout = 2
  LastArrival = 1
  MaxPages = 1
INVARIANT TypeOK
PROPERTY ShortCallsAreHeard
PROPERTY ImplementsAuditedCalls
PROPERTY WaitingHelps
