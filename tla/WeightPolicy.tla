------------------------------ MODULE WeightPolicy ------------------------------
(***************************************************************************)
(* The weighted multi-signature policy of an account (algId 0x07): the     *)
(* configuration record, the checks a configuration must pass, what makes  *)
(* one configuration weaker than another, and the tier that a set of       *)
(* signatures resolves to.  Pure operators, no state.                      *)
(***************************************************************************)
EXTENDS Integers

\* The signature sources of the weighted bitmap, bit 0 to bit 5.
Source == {"passkey", "ecdsa", "bls", "guardian0", "guardian1", "guardian2"}

\* Bit 3 + i of the bitmap: the guardian in slot i.
GuardianSource(i) ==
  CASE i = 0 -> "guardian0" [] i = 1 -> "guardian1" [] i = 2 -> "guardian2"

UInt8 == 0 .. 255

\* A weight configuration; every field is a uint8 in storage.
WeightConfig == [weight : [Source -> UInt8], tier1 : UInt8, tier2 : UInt8, tier3 : UInt8]

\* The value of weightConfig before the first setWeightConfig.
Unset == [weight |-> [s \in Source |-> 0], tier1 |-> 0, tier2 |-> 0, tier3 |-> 0]

\* What source s adds to the accumulated weight when its bit is in bitmap B.
Share(c, B, s) == IF s \in B THEN c.weight[s] ELSE 0

\* The weight accumulated from the sources in B.
Accumulated(c, B) ==
  Share(c, B, "passkey") + Share(c, B, "ecdsa") + Share(c, B, "bls")
    + Share(c, B, "guardian0") + Share(c, B, "guardian1") + Share(c, B, "guardian2")

\* Faulty variant: the owner's two factors may add up to tier 3.
ValidConfigWithoutOwnerCap(c) ==
  /\ c.tier1 # 0
  /\ \A s \in Source : c.weight[s] < c.tier1
  /\ c.tier2 # 0 => c.tier2 >= c.tier1
  /\ c.tier3 # 0 => c.tier2 # 0 /\ c.tier3 >= c.tier2
  /\ Accumulated(c, Source) <= 255

\* _validateWeightConfig: the configuration is not refused with InsecureWeightConfig.
ValidConfig(c) ==
  /\ c.tier1 # 0
  /\ \A s \in Source : c.weight[s] < c.tier1
  /\ c.tier2 # 0 => c.tier2 >= c.tier1
  /\ c.tier3 # 0 => /\ c.tier2 # 0
                    /\ c.tier3 >= c.tier2
                    /\ c.weight["passkey"] + c.weight["ecdsa"] < c.tier3
  /\ Accumulated(c, Source) <= 255

\* Faulty variant: enabling a tier that was off is no weakening.
IsWeakeningExceptEnabling(c, d) ==
  \/ \E s \in Source : d.weight[s] > c.weight[s]
  \/ d.tier1 < c.tier1
  \/ d.tier2 < c.tier2
  \/ d.tier3 < c.tier3

\* _isWeakening: moving from c to d needs a guardian-approved proposal.
IsWeakening(c, d) ==
  \/ \E s \in Source : d.weight[s] > c.weight[s]
  \/ d.tier1 < c.tier1
  \/ d.tier2 < c.tier2
  \/ d.tier3 < c.tier3
  \/ c.tier2 = 0 /\ d.tier2 # 0
  \/ c.tier3 = 0 /\ d.tier3 # 0

\* _resolveWeightedAlgId, as the tier of the algorithm id that it returns.
ResolvedTier(c, w) ==
  IF c.tier3 > 0 /\ w >= c.tier3 THEN 3
  ELSE IF c.tier2 > 0 /\ w >= c.tier2 THEN 2
  ELSE IF c.tier1 > 0 /\ w >= c.tier1 THEN 1
  ELSE 0

\* The tier that valid signatures from exactly the sources in B authorise.
TierOf(c, B) == ResolvedTier(c, Accumulated(c, B))

\* No signature alone reaches a tier, the owner's own two factors do not reach
\* tier 3, and no set of signatures overflows the uint8 accumulator.
SeparatesFactors(c) ==
  /\ \A s \in Source : TierOf(c, {s}) = 0
  /\ TierOf(c, {"passkey", "ecdsa"}) < 3
  /\ \A B \in SUBSET Source : Accumulated(c, B) \in UInt8
=================================================================================
