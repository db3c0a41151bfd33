SPECIFICATION Spec
CONSTANTS
  MaxPayloads = 2
  Sizes = {1, 2, 3}
  HostConfigs <- MCHostConfigs
  allow_persistent = FALSE
  stdin_mode = FALSE
  PayloadMax = 2
  PipeCapacity = 1
  Helpers = TRUE
  Stops = FALSE
  Faults = {}
INVARIANTS HandshakeEndsNoExecution
