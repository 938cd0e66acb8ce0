SPECIFICATION Spec
CONSTANTS
  usdc = usdc
  Token = {usdc}
  NoToken = NoToken
  NoFrame = NoFrame
  TokenSettings <- SpendSettings
  EthLimits <- SpendLimits
  UserOps <- SpendOps
  DirectCalls <- SpendDirect
  MaxBundle = 1
  TierChoices <- SpendTiers
  Policies = {}
  DefaultAlgorithms <- SpendAlgorithms
  MoreAlgorithms <- SpendMore
  MaxTierChanges = 1
  MaxDay = 3
INVARIANTS
  TypeOK
  MeterIsExact
PROPERTIES
  TierBoundsTheDay
  DailyCap
  TokenDayWithinTier
  SetOnceThenGuardians
