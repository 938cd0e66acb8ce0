SPECIFICATION Spec
CONSTANTS
  Tests = {"p02"}
  MaxFaults = 0
INVARIANT TestsCanFail
