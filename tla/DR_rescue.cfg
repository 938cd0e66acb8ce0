SPECIFICATION FairSpec
CONSTANTS
  Address = {a1, a2, a3}
  NoAddress = NoAddress
  Refusing = {a3}
  RESCUE_TIMELOCK = 2
PROPERTIES
  RescuesAreBacked
  ApprovedRescueEnds
