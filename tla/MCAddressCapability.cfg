SPECIFICATION Spec
CONSTANTS
  Handlers = {first, second}
  Pack <- MCPack
  MaxSubmissions = 1
  MaxTokens = 1
  MaxOverlaps = 1
  MaxFaults = 0
INVARIANT CapabilityOnce
CHECK_DEADLOCK FALSE
