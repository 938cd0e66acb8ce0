SPECIFICATION Spec
CONSTANTS
  Rollouts <- AllReleases
  MaxRuns = 7
  MaxFaults = 2
  MaxFaultsReusing = 1
  Endpoints = 2
INVARIANTS
  PublishedAsVerified
  ReleasesAreWired
  BuiltFromThePublished
PROPERTIES
  ShipsEventually
CHECK_DEADLOCK FALSE
