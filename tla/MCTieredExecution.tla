---------------------------- MODULE MCTieredExecution ----------------------------
(* Small instances of TieredExecution for TLC.                              *)
EXTENDS TieredExecution

CONSTANT usdc

Pay(eth) == [eth |-> eth, token |-> NoToken, amount |-> 0, self |-> "no", tiers |-> <<0, 0>>]
PayToken(amount) == [Pay(0) EXCEPT !.token = usdc, !.amount = amount]
Configure(handler, l) == [Pay(0) EXCEPT !.self = handler, !.tiers = l]

Op(alg, calls) == [wrapped |-> FALSE, batch |-> Len(calls) # 1, module |-> FALSE,
                   alg |-> alg, by |-> {}, calls |-> calls]
Wrap(op) == [op EXCEPT !.wrapped = TRUE]
Weigh(by, calls) == [Op("weighted", calls) EXCEPT !.by = by]

(* A day of spending: one operation at a time, every tier, ETH and a token. *)
SpendOps ==
  {Op(a, c) : a \in {"ecdsa", "cumulativeT2", "cumulativeT3WA"},
              c \in {<<Pay(1), Pay(1)>>, <<PayToken(1), PayToken(1)>>}}
    \cup {Op("p256", <<Configure("setTierLimits", <<1, 2>>), Pay(1)>>)}
SpendDirect == {<<PayToken(1)>>, <<Configure("modifyTierLimits", <<0, 0>>)>>}
SpendTiers == {<<0, 0>>, <<1, 1>>}
SpendSettings == {[tier1Limit |-> 1, tier2Limit |-> 0, dailyLimit |-> 2],
                  [tier1Limit |-> 0, tier2Limit |-> 0, dailyLimit |-> 1],
                  Unconfigured}
SpendLimits == {0, 1, 2}
SpendAlgorithms == {"ecdsa", "cumulativeT2", "cumulativeT3WA"}
SpendMore == {"p256"}

(* Bundles: operations that make the same call, in every form. *)
Weights(w) == [s \in Source |-> IF s = "passkey" THEN w ELSE 1]
BundlePolicies == {[weight |-> Weights(2), tier1 |-> 3, tier2 |-> 4, tier3 |-> 4],
                   [weight |-> Weights(1), tier1 |-> 3, tier2 |-> 4, tier3 |-> 0]}
Two == {"passkey", "ecdsa"}
Three == {"passkey", "ecdsa", "bls"}
BundleOps ==
  LET call == <<Pay(0)>>
      Module(alg) == [Op(alg, call) EXCEPT !.module = TRUE]
  IN {Op("ecdsa", call), Op("cumulativeT2", call), Weigh(Three, call), Module("none"), Module("cumulativeT2"),
      Wrap(Op("ecdsa", call)), Wrap(Op("cumulativeT3", call)),
      Wrap(Weigh(Two, call)), Wrap(Weigh(Three, call)), Wrap(Module("none")),
      Op("ecdsa", <<Pay(0), Pay(0)>>)}
BundleTiers == {<<0, 0>>, <<1, 2>>}
BundleAlgorithms == {"none", "ecdsa", "cumulativeT2", "cumulativeT3"}
BundleMore == {"weighted"}
BundleLimits == {1}
==================================================================================
