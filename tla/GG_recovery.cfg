SPECIFICATION FairSpec
CONSTANTS
  Address = {a1, a2, a3, a4}
  P256Key = {}
  NoAddress = NoAddress
  Sentinel = Sentinel
  NoKey = NoKey
  Configs <- NoConfigs
  RecoveryTimelock = 2
  GuardianAddTimelock = 1
  WeightTimelock = 0
  WeightExpiry = 0
  MaxRounds = 2
  MaxChanges = 1
INVARIANT OwnerNotGuardian
PROPERTIES QuorumIsAnnounced LoneGuardianFreezes ApprovedRecoveryEnds
