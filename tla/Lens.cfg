CONSTANTS
  s = s
  b = b
  p = p
  t = t
  w = w
  e = e
  x = x
  n = n
  Eth = Eth
  Zero = Zero
  Sender = s
  Roots <- MCRoots
  Calls <- MCCalls
  Transfers <- MCTransfers
  Wraps <- MCWraps
  Forgeries <- MCForgeries
  Loggers = {p}
  Codeless = {e}
  Precompile = {x}
  MaxEvents = 9
  MaxTail = 0
  MaxLogs = 3
  MaxDepth = 4
SPECIFICATION Spec
INVARIANTS
  TypeOK
  FlowsAreMoves
  ForgeriesAreFlagged
  SwapsAreTrades
