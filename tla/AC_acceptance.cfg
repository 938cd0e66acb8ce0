SPECIFICATION Spec
CONSTANTS
  Tests <- AllTests
  MaxFaults = 2
INVARIANTS
  CleanRunsAreGreen
  GreenIsEarned
  AcceptedReleasesWork
PROPERTIES
  EventuallyGreen
