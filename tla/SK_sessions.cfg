SPECIFICATION Spec
CONSTANTS
  alice = alice
  bob = bob
  k1 = k1
  k2 = k2
  Person = {alice, bob}
  Key = {k1, k2}
  Terms <- ShortTerms
  MAX_SESSION_KEYS_PER_ACCOUNT = 1
  MAX_SESSION_DURATION = 4
  Start = 4
  End = 8
  MaxRevocations = 2
  MaxSignatures = 1
SYMMETRY KeysAndPeople
INVARIANTS
  TypeOK
  CapCoversSessions
  RevocationIsFinal
  AtMostTwiceTheLimit
PROPERTIES
  SessionsEndWithTheirOwner
  NoCallAfterRevocation
