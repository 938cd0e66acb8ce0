SPECIFICATION Spec
CONSTANTS
  usdc = usdc
  Token = {}
  NoToken = NoToken
  NoFrame = NoFrame
  TokenSettings = {}
  EthLimits <- BundleLimits
  UserOps <- BundleOps
  DirectCalls = {}
  MaxBundle = 2
  TierChoices <- BundleTiers
  Policies <- BundlePolicies
  DefaultAlgorithms <- BundleAlgorithms
  MoreAlgorithms <- BundleMore
  MaxTierChanges = 0
  MaxDay = 1
PROPERTIES
  WrappedOpsUseOwnTier
  SharesOnlyWithSameCall
