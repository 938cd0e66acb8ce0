SPECIFICATION Spec
CONSTANTS
  Address = {a1, a2}
  P256Key = {k1, k2}
  NoAddress = NoAddress
  Sentinel = Sentinel
  NoKey = NoKey
  Configs <- NoConfigs
  RecoveryTimelock = 1
  GuardianAddTimelock = 1
  WeightTimelock = 0
  WeightExpiry = 0
  MaxRounds = 2
  MaxChanges = 2
SYMMETRY Symmetry
INVARIANTS TypeOK SlotsWellFormed NoReplay
PROPERTY ControlIsRecovered
