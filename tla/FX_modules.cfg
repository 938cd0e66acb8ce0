SPECIFICATION Spec
CONSTANTS
  Address = {a1, a2, a3}
  P256Key = {k1, k2}
  NoAddress = NoAddress
  Sentinel = Sentinel
  Payload = {send}
  exit = exit
  ExitModule = exit
  Installable <- SmallInstallable
  InitData <- SmallInitData
  Timelocks = {0, 1}
  Grace = 0
  MaxTime = 3
  MaxOperations = 3
  MaxChanges = 2
  MaxEvents = 4
SYMMETRY Symmetry
INVARIANTS
  TypeOK
PROPERTIES
  ExitsAreBacked
  LoneGuardianGivesNotice
  SignaturesAreSpent
