SPECIFICATION Spec
CONSTANTS
  Handlers = {first, second}
  Pack <- MCPack
  MaxSubmissions = 1
  MaxTokens = 1
  MaxOverlaps = 1
  MaxFaults = 1
SYMMETRY Symmetry
INVARIANTS TypeOK OrdersComplete ToldIsOrdered
CHECK_DEADLOCK FALSE
