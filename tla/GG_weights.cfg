SPECIFICATION Spec
CONSTANTS
  Address = {a1, a2, a3, a4}
  P256Key = {}
  NoAddress = NoAddress
  Sentinel = Sentinel
  NoKey = NoKey
  Configs <- FourConfigs
  RecoveryTimelock = 0
  GuardianAddTimelock = 0
  WeightTimelock = 1
  WeightExpiry = 1
  MaxRounds = 1
  MaxChanges = 1
SYMMETRY Symmetry
INVARIANTS VotersAreGuardians FactorSeparation
PROPERTIES NoSilentWeakening ImplementsConsensus
