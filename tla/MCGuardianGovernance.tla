-------------------------- MODULE MCGuardianGovernance --------------------------
(* Small instances of GuardianGovernance for TLC. *)
EXTENDS GuardianRefinement, TLC

\* Addresses are interchangeable, and so are keys.
Symmetry == Permutations(Address) \cup Permutations(P256Key)

Policy(p, e, b, g0, g1, g2, t1, t2, t3) ==
  [weight |-> [s \in Source |->
     CASE s = "passkey" -> p [] s = "ecdsa" -> e [] s = "bls" -> b
       [] s = "guardian0" -> g0 [] s = "guardian1" -> g1 [] s = "guardian2" -> g2],
   tier1 |-> t1, tier2 |-> t2, tier3 |-> t3]

NoConfigs == {}

\* Four policies: one to start from; one without tier 3, from which enabling it
\* is a weakening; one with higher thresholds, which is none; and one that
\* ValidConfig refuses, because the owner's two factors would reach tier 3.
Start == Policy(1, 1, 1, 1, 1, 1, 2, 3, 4)
WithoutTier3 == Policy(1, 1, 1, 1, 1, 1, 2, 3, 0)
Stricter == Policy(1, 1, 1, 1, 1, 1, 2, 4, 6)
OwnerAlone == Policy(2, 2, 1, 1, 1, 1, 3, 4, 4)

FourConfigs == {Start, WithoutTier3, Stricter, OwnerAlone}
=================================================================================
