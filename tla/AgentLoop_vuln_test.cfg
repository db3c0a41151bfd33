SPECIFICATION Spec
CONSTANTS
  MaxPayloads = 3
  Sizes = {1, 2}
  HostConfigs <- MCHostConfigs
  PayloadMax = 2
  MaxLost = 0
  Agents = {"vuln_test"}
INVARIANTS ResetsAtRelease
