SPECIFICATION Spec
CONSTANTS
  Platforms = {"windows", "macos"}
  Majors = 2
  ArraySize = 5
  MaxLoads = 3
  MaxOthers = 2
  MaxFailures = 2
  MaxPayloads = 2
INVARIANTS TypeOK NodeLeadsToDriver BugCheckHasCause RangeIsTheDrivers PayloadsReachDriver
