-------------------------- MODULE WeightPolicyTheorems --------------------------
(* What the checks on a weight configuration guarantee for every configuration. *)
EXTENDS WeightPolicy, TLAPS

\* The fields of a configuration are uint8 values.
LEMMA ConfigFields ==
  ASSUME NEW c \in WeightConfig
  PROVE  /\ \A s \in Source : c.weight[s] \in Nat
         /\ c.tier1 \in Nat /\ c.tier2 \in Nat /\ c.tier3 \in Nat
BY SMT DEF WeightConfig, UInt8

\* Sums are monotone in each of their six terms.
LEMMA SixTerms ==
  ASSUME NEW a0 \in Int, NEW a1 \in Int, NEW a2 \in Int,
         NEW a3 \in Int, NEW a4 \in Int, NEW a5 \in Int,
         NEW b0 \in Int, NEW b1 \in Int, NEW b2 \in Int,
         NEW b3 \in Int, NEW b4 \in Int, NEW b5 \in Int,
         a0 <= b0, a1 <= b1, a2 <= b2, a3 <= b3, a4 <= b4, a5 <= b5
  PROVE  /\ a0 + a1 + a2 + a3 + a4 + a5 \in Int
         /\ b0 + b1 + b2 + b3 + b4 + b5 \in Int
         /\ a0 + a1 + a2 + a3 + a4 + a5 <= b0 + b1 + b2 + b3 + b4 + b5
BY SMT

\* A source contributes its weight or nothing.
LEMMA ShareBounds ==
  ASSUME NEW c \in WeightConfig, NEW B, NEW s \in Source
  PROVE  Share(c, B, s) \in Int /\ 0 <= Share(c, B, s) /\ Share(c, B, s) <= c.weight[s]
BY SMT DEF Share, WeightConfig, UInt8

\* Lowering a weight never makes a source contribute more.
LEMMA ShareMonotone ==
  ASSUME NEW c \in WeightConfig, NEW d \in WeightConfig, NEW B, NEW s \in Source,
         d.weight[s] <= c.weight[s]
  PROVE  Share(d, B, s) <= Share(c, B, s)
BY SMT DEF Share, WeightConfig, UInt8

\* A configuration that passes ValidConfig cannot overflow the uint8 accumulator
\* of _validateWeightedSignature, whichever sources sign.
LEMMA AccumulatedFits ==
  ASSUME NEW c \in WeightConfig, Accumulated(c, Source) <= 255, NEW B
  PROVE  Accumulated(c, B) \in UInt8
<1>1. ASSUME NEW s \in Source
      PROVE  /\ Share(c, B, s) \in Int /\ Share(c, Source, s) \in Int
             /\ 0 <= Share(c, B, s)
             /\ Share(c, B, s) <= Share(c, Source, s)
  <2>1. Share(c, Source, s) = c.weight[s]
    BY DEF Share
  <2>2. QED
    BY <2>1, ShareBounds
<1>2. /\ "passkey" \in Source /\ "ecdsa" \in Source /\ "bls" \in Source
      /\ "guardian0" \in Source /\ "guardian1" \in Source /\ "guardian2" \in Source
  BY DEF Source
<1>3. /\ Accumulated(c, B) \in Int /\ Accumulated(c, Source) \in Int
      /\ Accumulated(c, B) <= Accumulated(c, Source)
  BY <1>1, <1>2, SixTerms DEF Accumulated
<1>4. 0 <= Accumulated(c, B)
  BY <1>1, <1>2, SixTerms, SMT DEF Accumulated
<1>5. QED
  BY <1>3, <1>4, SMT DEF UInt8

\* A change that IsWeakening does not flag gives no set of signatures a tier it
\* did not have: the check that setWeightConfig makes is sufficient.  It is not
\* for an account without a policy (tier1 = 0), which setWeightConfig exempts.
THEOREM NoWeakeningNoGain ==
  ASSUME NEW c \in WeightConfig, NEW d \in WeightConfig,
         c.tier1 # 0, ~IsWeakening(c, d), NEW B
  PROVE  TierOf(d, B) <= TierOf(c, B)
<1>1. ASSUME NEW s \in Source
      PROVE  /\ Share(d, B, s) <= Share(c, B, s)
             /\ Share(d, B, s) \in Int /\ Share(c, B, s) \in Int
  <2>1. d.weight[s] <= c.weight[s]
    BY ConfigFields, SMT DEF IsWeakening
  <2>2. QED
    BY <2>1, ShareMonotone, ShareBounds
<1>2. /\ "passkey" \in Source /\ "ecdsa" \in Source /\ "bls" \in Source
      /\ "guardian0" \in Source /\ "guardian1" \in Source /\ "guardian2" \in Source
  BY DEF Source
<1>3. /\ Accumulated(d, B) <= Accumulated(c, B)
      /\ Accumulated(d, B) \in Int /\ Accumulated(c, B) \in Int
  BY <1>1, <1>2, SixTerms DEF Accumulated
<1>4. /\ d.tier1 >= c.tier1 /\ d.tier2 >= c.tier2 /\ d.tier3 >= c.tier3
      /\ c.tier2 = 0 => d.tier2 = 0
      /\ c.tier3 = 0 => d.tier3 = 0
  BY ConfigFields, SMT DEF IsWeakening
<1>5. /\ c.tier1 \in Nat /\ c.tier2 \in Nat /\ c.tier3 \in Nat
      /\ d.tier1 \in Nat /\ d.tier2 \in Nat /\ d.tier3 \in Nat
  BY ConfigFields
<1>6. QED
  BY <1>3, <1>4, <1>5, SMT DEF TierOf, ResolvedTier

\* A configuration that _validateWeightConfig accepts keeps the factors apart.
THEOREM ValidConfigSeparates ==
  ASSUME NEW c \in WeightConfig, ValidConfig(c)
  PROVE  SeparatesFactors(c)
<1>1. /\ c.tier1 # 0 /\ \A s \in Source : c.weight[s] < c.tier1
      /\ c.tier2 # 0 => c.tier2 >= c.tier1
      /\ c.tier3 # 0 => /\ c.tier2 # 0 /\ c.tier3 >= c.tier2
                        /\ c.weight["passkey"] + c.weight["ecdsa"] < c.tier3
      /\ Accumulated(c, Source) <= 255
  BY DEF ValidConfig
<1>2. ASSUME NEW s \in Source
      PROVE  TierOf(c, {s}) = 0
  <2>1. Accumulated(c, {s}) = c.weight[s]
    BY ConfigFields, SMT DEF Accumulated, Share, Source
  <2>2. QED
    BY <1>1, <2>1, ConfigFields, SMT DEF TierOf, ResolvedTier
<1>3. TierOf(c, {"passkey", "ecdsa"}) < 3
  <2>1. "passkey" \in Source /\ "ecdsa" \in Source
    BY DEF Source
  <2>2. Accumulated(c, {"passkey", "ecdsa"}) = c.weight["passkey"] + c.weight["ecdsa"]
    BY <2>1, ConfigFields, SMT DEF Accumulated, Share
  <2>3. QED
    BY <1>1, <2>1, <2>2, ConfigFields, SMT DEF TierOf, ResolvedTier
<1>4. \A B \in SUBSET Source : Accumulated(c, B) \in UInt8
  BY <1>1, AccumulatedFits
<1>5. QED
  BY <1>2, <1>3, <1>4 DEF SeparatesFactors

\* So does the absence of a policy: it authorises nothing.
LEMMA UnsetSeparates == SeparatesFactors(Unset) /\ Unset \in WeightConfig
<1>1. Unset \in WeightConfig
  BY SMT DEF Unset, WeightConfig, UInt8
<1>2. /\ \A s \in Source : Unset.weight[s] = 0
      /\ Unset.tier1 = 0 /\ Unset.tier2 = 0 /\ Unset.tier3 = 0
  BY DEF Unset
<1>3. ASSUME NEW B
      PROVE  TierOf(Unset, B) = 0
  BY <1>2, SMT DEF TierOf, ResolvedTier
<1>4. ASSUME NEW B
      PROVE  Accumulated(Unset, B) = 0
  <2>1. ASSUME NEW s \in Source
        PROVE  Share(Unset, B, s) = 0
    BY <1>2 DEF Share
  <2>2. QED
    BY <2>1, SMT DEF Accumulated, Source
<1>5. QED
  BY <1>1, <1>3, <1>4, SMT DEF SeparatesFactors, UInt8
=================================================================================
